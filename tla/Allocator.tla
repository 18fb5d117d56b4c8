----------------------------- MODULE Allocator ------------------------------
(***************************************************************************)
(* assign7/allocator.c word by word: boundary tags and list links live in  *)
(* the words of the heap they describe.  A pointer is a word offset from   *)
(* segment_start, so segment.c's outcomes carry over from Segment.         *)
(***************************************************************************)
EXTENDS HeapLayout, Segment, SequencesExt

CONSTANT StackBytes       \* the stack left for the array that myrealloc declares

ASSUME StackAssumption == StackBytes \in Nat

(***************************************************************************)
(* The globals of allocator.c, the words of the segment and the segment    *)
(* itself.  base records where add_page put the prologue; no code reads    *)
(* it.  Pages start zeroed.                                                *)
(***************************************************************************)
NumWords == MaxPages * PageWords
Words == 0 .. (NumWords - 1)
Buckets == 0 .. (NumBuckets - 1)

\* A block takes at least five words: two tags, and a payload for prev, next
\* and one word of the client's.
MoreThanBlocks == NumWords \div 5 + 2

EmptyHeap == [seg   |-> NoSegment,
              pages |-> 0,                         \* pagecnt
              fl    |-> [i \in Buckets |-> NULL],  \* freelist_arr
              mem   |-> [p \in Words |-> 0],
              base  |-> 0]

Outcome(h, ptr, fate) == [heap |-> h, ptr |-> ptr, fate |-> fate]

GET(h, p) == h.mem[p]
GET_SIZE(h, p) == GET(h, p) \div 8
GET_ALLOC(h, p) == GET(h, p) % 2
PACK(size, alloc) == 8 * size + alloc
FTRP(h, p) == p + 1 + GET_SIZE(h, p)
LEFT_BLK(h, p) == p - 2 - GET_SIZE(h, p - 1)
RIGHT_BLK(h, p) == p + 2 + GET_SIZE(h, p)

\* The list links occupy the first two payload words of a free block.
prev(p) == p + 1
next(p) == p + 2

\* Mutant of SetBlock: the footer is forgotten.
HeaderOnly(h, p, size, alloc) == [h EXCEPT !.mem = [@ EXCEPT ![p] = PACK(size, alloc)]]

SetBlock(h, p, size, alloc) ==
    [h EXCEPT !.mem = [@ EXCEPT ![p] = PACK(size, alloc),
                                ![p + 1 + size] = PACK(size, alloc)]]

BucketOf(h, p) == Bucket(GET_SIZE(h, p))

\* The three cases of delete_node: first, last, in the middle.
DeleteNode(h, p) ==
    LET before == GET(h, prev(p))
        after  == GET(h, next(p))
    IN  IF before = NULL
        THEN [h EXCEPT !.fl = [@ EXCEPT ![BucketOf(h, p)] = after],
                       !.mem = IF after # NULL THEN [@ EXCEPT ![prev(after)] = NULL] ELSE @]
        ELSE IF after = NULL
        THEN [h EXCEPT !.mem = [@ EXCEPT ![next(before)] = NULL]]
        ELSE [h EXCEPT !.mem = [@ EXCEPT ![next(before)] = after, ![prev(after)] = before]]

\* Mutant of PushFront: the old head is not linked back.
NoBackLink(h, p) ==
    [h EXCEPT !.fl = [@ EXCEPT ![BucketOf(h, p)] = p],
              !.mem = [@ EXCEPT ![prev(p)] = NULL, ![next(p)] = h.fl[BucketOf(h, p)]]]

PushFront(h, p) ==
    LET head == h.fl[BucketOf(h, p)]
        linked == [h.mem EXCEPT ![prev(p)] = NULL, ![next(p)] = head]
    IN  [h EXCEPT !.fl = [@ EXCEPT ![BucketOf(h, p)] = p],
                  !.mem = IF head # NULL THEN [linked EXCEPT ![prev(head)] = p] ELSE linked]

\* The four cases of coalesce, up to the call of insert_node: the block at r.at
\* and its free neighbours leave their lists and enter one as one block.
MergeOnce(r) ==
    LET h     == r.heap
        left  == LEFT_BLK(h, r.at)
        right == RIGHT_BLK(h, r.at)
        joinsLeft  == GET_ALLOC(h, left) = 0
        joinsRight == GET_ALLOC(h, right) = 0
        start == IF joinsLeft THEN left ELSE r.at
        size  == GET_SIZE(h, r.at)
                   + (IF joinsLeft THEN GET_SIZE(h, left) + TagWords ELSE 0)
                   + (IF joinsRight THEN GET_SIZE(h, right) + TagWords ELSE 0)
        bare1 == DeleteNode(h, r.at)
        bare2 == IF joinsLeft THEN DeleteNode(bare1, left) ELSE bare1
        bare3 == IF joinsRight THEN DeleteNode(bare2, right) ELSE bare2
    IN  IF ~joinsLeft /\ ~joinsRight THEN r
        ELSE [heap |-> PushFront(SetBlock(bare3, start, size, 0), start), at |-> start]

\* insert_node and coalesce call each other until no neighbour is free.  Every
\* merge makes one block of two or three, so there are fewer than blocks.
Coalesce(h, p) ==
    LET merged[n \in Nat] == IF n = 0 THEN [heap |-> h, at |-> p] ELSE MergeOnce(merged[n - 1])
    IN  merged[MoreThanBlocks].heap

InsertNode(h, p) == Coalesce(PushFront(h, p), p)

\* The nodes of list i, first to last; never more than there can be blocks,
\* even if the links ran in a circle.
FreeList(h, i) ==
    LET seen[n \in 0 .. MoreThanBlocks] ==
            IF n = 0 THEN <<>>
            ELSE LET list == seen[n - 1]
                     node == IF list = <<>> THEN h.fl[i] ELSE GET(h, next(Last(list)))
                 IN  IF node = NULL THEN list ELSE Append(list, node)
    IN  seen[MoreThanBlocks]

\* The first block on list i that is large enough.
FirstFit(h, i, asize) ==
    LET list == FreeList(h, i)
        fits == {k \in DOMAIN list : asize <= GET_SIZE(h, list[k])}
    IN  IF fits = {} THEN NULL ELSE list[Min(fits)]

\* Mutant of FindFit: the search starts one list too high.
SkipsOwnList(h, asize) ==
    LET hits == {i \in (Bucket(asize) + 1) .. (NumBuckets - 1) :
                   FirstFit(h, i, asize) # NULL}
    IN  IF hits = {} THEN NULL ELSE FirstFit(h, Min(hits), asize)

FindFit(h, asize) ==
    LET hits == {i \in Bucket(asize) .. (NumBuckets - 1) : FirstFit(h, i, asize) # NULL}
    IN  IF hits = {} THEN NULL ELSE FirstFit(h, Min(hits), asize)

Place(h, p, asize) ==
    LET csize == GET_SIZE(h, p)
        rest  == p + TagWords + asize
    IN  IF csize - asize < MINBLKSZ
        THEN DeleteNode(SetBlock(h, p, csize, 1), p)
        ELSE InsertNode(SetBlock(SetBlock(DeleteNode(h, p), p, asize, 1),
                                 rest, csize - asize - TagWords, 0),
                        rest)

\* Epilogue first, then the prologue of an empty heap, then one free block.
NewPages(h, o, n) ==
    LET start == o.ret * PageWords
        epi   == start + n * PageWords - EpiWords
        blk   == BlockStart(h.pages, start)
        tags  == IF h.pages = 0 THEN {start, start + 1, epi} ELSE {epi}
        g     == [h EXCEPT !.seg = o.seg,
                           !.mem = [w \in Words |-> IF w \in tags THEN PACK(0, 1) ELSE @[w]],
                           !.base = IF h.pages = 0 THEN start ELSE @]
        grown == InsertNode(SetBlock(g, blk, epi - blk - TagWords, 0), blk)
    IN  [grown EXCEPT !.pages = @ + n]

AddPage(h, asize) ==
    LET n == NumOfPage(h.pages, asize)
    IN  {IF o.ret = NoPage
         THEN Outcome([h EXCEPT !.seg = o.seg], NULL, "full")
         ELSE IF h.pages > 0 /\ (o.ret - 1) \notin o.seg.rw
         THEN Outcome([h EXCEPT !.seg = o.seg], NULL, "hole")
         ELSE Outcome(NewPages(h, o, n), NULL, "up")
           : o \in ExtendHeapSegment(h.seg, n)}

\* place, given what find_fit returned, and the payload pointer.
Placed(h, p, asize) == IF p = NULL THEN Outcome(h, NULL, "null_block")
                       ELSE Outcome(Place(h, p, asize), p + 1, "up")

MyMalloc(h, bytes) ==
    LET asize == Asize(bytes)
        fit   == FindFit(h, asize)
        after(g) == IF g.fate = "up" THEN Placed(g.heap, FindFit(g.heap, asize), asize)
                    ELSE [g EXCEPT !.fate = IF @ = "full" THEN "up" ELSE @]
    IN  IF bytes = 0 \/ bytes > IntMax THEN {Outcome(h, NULL, "up")}
        ELSE IF fit # NULL THEN {Placed(h, fit, asize)}
        ELSE {after(g) : g \in AddPage(h, asize)}

\* Mutant of MyFree: the block goes on a list still marked as allocated.
StaysMarked(h, ptr) == IF ptr = NULL THEN h ELSE InsertNode(h, ptr - 1)

MyFree(h, ptr) ==
    IF ptr = NULL THEN h
    ELSE InsertNode(SetBlock(h, ptr - 1, GET_SIZE(h, ptr - 1), 0), ptr - 1)

\* Mutant of Copy: realloc forgets the old contents.
CopiesNothing(h, dst, buffer, n) == h

\* memcpy of n words.
Copy(h, dst, buffer, n) ==
    [h EXCEPT !.mem = [w \in Words |-> IF w \in dst .. (dst + n - 1)
                                       THEN buffer[w - dst] ELSE @[w]]]

MyRealloc(h, ptr, bytes) ==
    LET asize   == ToInt(8 * Asize(bytes))
        size    == GET_SIZE(h, ptr - 1)
        oldsize == ToInt(8 * size)
        buffer  == [i \in 0 .. (size - 1) |-> GET(h, ptr + i)]
        n       == IF oldsize < asize THEN size ELSE Asize(bytes)
        copied(g) ==
            IF g.fate = "up" /\ g.ptr = NULL THEN [g EXCEPT !.fate = "null_copy"]
            ELSE IF g.fate = "up"
            THEN [g EXCEPT !.heap = Copy(@, g.ptr, buffer, n)]
            ELSE g
    IN  IF bytes = 0 THEN {Outcome(h, NULL, "up")}
        ELSE IF ptr = NULL THEN MyMalloc(h, bytes)
        ELSE IF oldsize >= asize THEN {Outcome(h, ptr, "up")}
        ELSE IF oldsize \notin 0 .. StackBytes THEN {Outcome(h, NULL, "stack")}
        ELSE {copied(g) : g \in MyMalloc(MyFree(h, ptr), Grown(bytes))}

\* Mutant of MyInit: the lists and pagecnt are reset before init is tried.
ResetsFirst(h) ==
    {Outcome([EmptyHeap EXCEPT !.seg = o.seg], NULL, IF o.ret = NoPage THEN "uninit" ELSE "up")
       : o \in InitHeapSegment(h.seg, 0)}

\* The lists and pagecnt are reset only once the new segment is there.
MyInit(h) ==
    {IF o.ret = NoPage
     THEN Outcome([h EXCEPT !.seg = o.seg], NULL, "uninit")
     ELSE Outcome([EmptyHeap EXCEPT !.seg = o.seg], NULL, "up")
       : o \in InitHeapSegment(h.seg, 0)}

-----------------------------------------------------------------------------
\* Mutant of ValidateAddr: the ends of the lists are refused.
NullIsInvalid(h, p) == h.seg.start = "hint" /\ 0 < p /\ p < PageWords * h.pages

\* validate_addr compares with the address mmap was asked for.
ValidateAddr(h, p) ==
    p = NULL \/ (h.seg.start = "hint" /\ 0 < p /\ p < PageWords * h.pages)

CheckNode(h, p) ==
    /\ ValidateAddr(h, p)
    /\ ValidateAddr(h, GET(h, next(p)))
    /\ ValidateAddr(h, GET(h, prev(p)))
    /\ GET(h, p) > 0 /\ GET(h, p) \div 2 # 1 /\ GET(h, p) <= IntMax
    /\ GET(h, p) = GET(h, FTRP(h, p))

\* validate_heap; that it counts its calls in validatecnt is left out, as
\* nothing reads the counter.
ValidateHeap(h) ==
    \A i \in Buckets : \A p \in Range(FreeList(h, i)) : CheckNode(h, p)
=============================================================================
