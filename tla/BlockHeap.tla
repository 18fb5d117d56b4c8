----------------------------- MODULE BlockHeap ------------------------------
(***************************************************************************)
(* assign7/allocator.c seen as a set of blocks.  Between a two-word        *)
(* prologue and a one-word epilogue the heap is a row of blocks, allocated *)
(* or free; a call cuts, joins and appends blocks.  Headers, footers and   *)
(* list links are left to Allocator; here a free list is just the free     *)
(* blocks of its size class, so which block of a class find_fit meets      *)
(* first is left open.                                                     *)
(***************************************************************************)
EXTENDS HeapLayout, Segment

CONSTANTS
    Requests,     \* the sizes in bytes that the client asks for
    StackBytes    \* the stack left for the array that myrealloc declares

ASSUME ClientAssumption == Requests \subseteq Nat /\ StackBytes \in Nat

-----------------------------------------------------------------------------
\* A block: the word of its header, its payload in words, its allocation bit
\* and, while it is allocated, the size the client last asked it to have.
Block == [at : Nat, size : Nat, alloc : BOOLEAN, want : Nat]

FreeBlock(at, size) == [at |-> at, size |-> size, alloc |-> FALSE, want |-> 0]

\* The header of the right neighbour.
EndOf(b) == b.at + b.size + TagWords

Payload(b) == b.at + 1

\* Mutant of RightFree: the allocation bit is not looked at.
RightAny(B, b) == {c \in B : c.at = EndOf(b)}

LeftFree(B, b)  == {c \in B : ~c.alloc /\ EndOf(c) = b.at}
RightFree(B, b) == {c \in B : ~c.alloc /\ c.at = EndOf(b)}

\* Where the merged block begins and ends: b is extended over a free
\* neighbour on either side.
MergeStart(B, b) == LET left == LeftFree(B, b)
                    IN  IF left = {} THEN b.at ELSE (CHOOSE c \in left : TRUE).at
MergeEnd(B, b)   == LET right == RightFree(B, b)
                    IN  IF right = {} THEN EndOf(b) ELSE EndOf(CHOOSE c \in right : TRUE)

\* The four cases of coalesce at once.  The code goes on through insert_node
\* to coalesce the merged block again, which never finds a free neighbour:
\* Allocator keeps that recursion, and refines this.
Merged(B, b) == {b} \cup LeftFree(B, b) \cup RightFree(B, b)

Coalesce(B, b) ==
    (B \ Merged(B, b))
      \cup {FreeBlock(MergeStart(B, b), MergeEnd(B, b) - MergeStart(B, b) - TagWords)}

\* Mutant of InsertNode: nothing is merged.
InsertOnly(B, b) == B \cup {b}

InsertNode(B, b) == Coalesce(B \cup {b}, b)

Fits(B, asize) == {b \in B : ~b.alloc /\ asize <= b.size}

\* find_fit goes through the size classes upwards from that of asize.
FindFit(B, asize) ==
    {b \in Fits(B, asize) : \A c \in Fits(B, asize) : Bucket(b.size) <= Bucket(c.size)}

\* Allocate asize words in the free block b, whole or split.
Place(B, b, asize, want) ==
    IF b.size - asize < MINBLKSZ
    THEN (B \ {b}) \cup {[b EXCEPT !.alloc = TRUE, !.want = want]}
    ELSE LET front == [b EXCEPT !.size = asize, !.alloc = TRUE, !.want = want]
             rest  == FreeBlock(EndOf(front), b.size - asize - TagWords)
         IN  InsertNode((B \ {b}) \cup {front}, rest)

-----------------------------------------------------------------------------
(***************************************************************************)
(* The heap: the segment below it, the word of the prologue, pagecnt and   *)
(* the blocks.  An operation yields the set of its outcomes: the heap, the *)
(* pointer returned and whether the process is still up.                   *)
(***************************************************************************)
Heaps == [seg : Segments, base : Nat, pages : Nat, blocks : SUBSET Block]

EmptyHeap == [seg |-> NoSegment, base |-> 0, pages |-> 0, blocks |-> {}]

\* How a call can end the process: add_page writes the header of its block
\* into a page mprotect refused; place is given NULL; myrealloc copies to
\* NULL; myrealloc's array does not fit the stack.
Crashes == {"hole", "null_block", "null_copy", "stack"}

Outcome(h, ptr, fate) == [heap |-> h, ptr |-> ptr, fate |-> fate]

\* First and last-but-one word of the row of blocks.
Lo(h) == h.base + ProWords
Hi(h) == h.base + h.pages * PageWords - EpiWords

\* The new pages o.ret .. become one free block, up to the new epilogue.
NewPages(h, o, n) ==
    LET start == o.ret * PageWords
        at    == BlockStart(h.pages, start)
        block == FreeBlock(at, start + n * PageWords - EpiWords - TagWords - at)
    IN  [seg    |-> o.seg,
         base   |-> IF h.pages = 0 THEN start ELSE h.base,
         pages  |-> h.pages + n,
         blocks |-> InsertNode(h.blocks, block)]

AddPage(h, asize) ==
    LET n == NumOfPage(h.pages, asize)
    IN  {IF o.ret = NoPage
         THEN Outcome([h EXCEPT !.seg = o.seg], NULL, "full")
         ELSE IF h.pages > 0 /\ (o.ret - 1) \notin o.seg.rw
         THEN Outcome([h EXCEPT !.seg = o.seg], NULL, "hole")
         ELSE Outcome(NewPages(h, o, n), NULL, "up")
           : o \in ExtendHeapSegment(h.seg, n)}

PlaceFit(h, asize, want) ==
    {Outcome([h EXCEPT !.blocks = Place(h.blocks, b, asize, want)], Payload(b), "up")
       : b \in FindFit(h.blocks, asize)}

\* After add_page the code places whatever find_fit returns, unchecked.  want
\* is what the client asked for: less than bytes when myrealloc calls.
MyMalloc(h, bytes, want) ==
    LET asize == Asize(bytes)
        placed(g) == IF g.fate = "full" THEN {[g EXCEPT !.fate = "up"]}
                     ELSE IF g.fate = "hole" THEN {g}
                     ELSE IF Fits(g.heap.blocks, asize) = {}
                          THEN {[g EXCEPT !.fate = "null_block"]}
                     ELSE PlaceFit(g.heap, asize, want)
    IN  IF bytes = 0 \/ bytes > IntMax THEN {Outcome(h, NULL, "up")}
        ELSE IF Fits(h.blocks, asize) # {} THEN PlaceFit(h, asize, want)
        ELSE UNION {placed(g) : g \in AddPage(h, asize)}

Released(B, b) == InsertNode(B \ {b}, FreeBlock(b.at, b.size))

MyFree(h, b) == [h EXCEPT !.blocks = Released(h.blocks, b)]

\* asize and oldsize are ints here.  The block is freed before a larger one
\* is sought, and the copy does not look at what mymalloc returned.
MyRealloc(h, b, bytes) ==
    LET asize   == ToInt(8 * Asize(bytes))
        oldsize == ToInt(8 * b.size)
        freed   == MyFree(h, b)
    IN  IF bytes = 0 THEN {Outcome(h, NULL, "up")}
        ELSE IF oldsize >= asize
        THEN {Outcome([h EXCEPT !.blocks = (@ \ {b}) \cup {[b EXCEPT !.want = bytes]}],
                      Payload(b), "up")}
        ELSE IF oldsize \notin 0 .. StackBytes THEN {Outcome(h, NULL, "stack")}
        ELSE {IF g.fate = "up" /\ g.ptr = NULL THEN [g EXCEPT !.fate = "null_copy"] ELSE g
                : g \in MyMalloc(freed, Grown(bytes), bytes)}

\* A failed init leaves pagecnt and the lists as they were.
MyInit(h) ==
    {IF o.ret = NoPage
     THEN Outcome([h EXCEPT !.seg = o.seg], NULL, "uninit")
     ELSE Outcome([EmptyHeap EXCEPT !.seg = o.seg], NULL, "up")
       : o \in InitHeapSegment(h.seg, 0)}
=============================================================================
