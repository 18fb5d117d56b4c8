--------------------------- MODULE AllocatorSpec ----------------------------
(***************************************************************************)
(* The allocator of Allocator as a state machine, called by a client that  *)
(* remembers what it holds, and shown to implement BlockHeapSpec.          *)
(***************************************************************************)
EXTENDS Allocator

CONSTANTS
    Requests,     \* the sizes in bytes that the client asks for
    Data          \* what the client writes into the words it gets

ASSUME ClientAssumption == Requests \subseteq Nat /\ Data \in Nat

VARIABLES
    heap,         \* the heap of Allocator
    live,         \* what the client holds: pointer and last size asked
    ret,          \* the pointer the last call returned
    status        \* "uninit", "up", or the crash that ended the process

vars == <<heap, live, ret, status>>

Region(ptr, want) == [ptr |-> ptr, want |-> want]

Take(o) == heap' = o.heap /\ ret' = o.ptr /\ status' = o.fate

Init == heap = EmptyHeap /\ live = {} /\ ret = NULL /\ status = "uninit"

Initialize ==
    /\ status \in {"uninit", "up"}
    /\ \E o \in MyInit(heap) : Take(o)
    /\ live' = IF status' = "up" THEN {} ELSE live

\* A client that asked for bytes fills the words it got, and keeps the
\* pointer in place of what it gave up.
Fill(h, ptr, bytes) ==
    [h EXCEPT !.mem = [w \in Words |-> IF w \in ptr .. (ptr + RoundUp(bytes) - 1)
                                      THEN Data ELSE @[w]]]

Receive(o, given, bytes) ==
    /\ ret' = o.ptr
    /\ status' = o.fate
    /\ IF o.ptr = NULL
       THEN heap' = o.heap /\ live' = live \ given
       ELSE heap' = Fill(o.heap, o.ptr, bytes) /\ live' = (live \ given) \cup {Region(o.ptr, bytes)}

Malloc(bytes) == status = "up" /\ \E o \in MyMalloc(heap, bytes) : Receive(o, {}, bytes)

Free(r) ==
    /\ status = "up"
    /\ Take(Outcome(MyFree(heap, r.ptr), NULL, "up"))
    /\ live' = live \ {r}

\* realloc(p, 0) returns NULL and leaves the block allocated; so does a
\* process that ran out of stack.
Realloc(r, bytes) ==
    /\ status = "up"
    /\ \E o \in MyRealloc(heap, r.ptr, bytes) :
         Receive(o, IF bytes = 0 \/ o.fate = "stack" THEN {} ELSE {r}, bytes)

\* The calls with a NULL pointer.
FreeNull == status = "up" /\ Take(Outcome(MyFree(heap, NULL), NULL, "up")) /\ live' = live

ReallocNull(bytes) ==
    status = "up" /\ \E o \in MyRealloc(heap, NULL, bytes) : Receive(o, {}, bytes)

Next ==
    \/ Initialize
    \/ \E bytes \in Requests : Malloc(bytes) \/ ReallocNull(bytes)
    \/ FreeNull
    \/ \E r \in live : Free(r)
    \/ \E r \in live, bytes \in Requests : Realloc(r, bytes)

Spec == Init /\ [][Next]_vars

-----------------------------------------------------------------------------
\* The block whose header is word p, with the bytes that the client holding it
\* asked for.
BlockAt(h, held, p) ==
    LET want  == {r.want : r \in {s \in held : s.ptr = p + 1}}
        alloc == GET_ALLOC(h, p) = 1
    IN  [at |-> p, size |-> GET_SIZE(h, p), alloc |-> alloc,
         want |-> IF alloc /\ want # {} THEN CHOOSE n \in want : TRUE ELSE 0]

\* The row of blocks between prologue and epilogue, as the headers tell it.
BlocksIn(h, held) ==
    LET lo == h.base + ProWords
        hi == h.base + h.pages * PageWords - EpiWords
        headers[n \in 0 .. NumWords] ==
            {lo} \cup (IF n = 0 THEN {}
                       ELSE {p \in {RIGHT_BLK(h, q) : q \in headers[n - 1]} : p < hi})
    IN  IF h.pages = 0 THEN {} ELSE {BlockAt(h, held, p) : p \in headers[NumWords]}

Blocks == BlocksIn(heap, live)

Abstract == INSTANCE BlockHeapSpec
    WITH heap <- [seg    |-> heap.seg,
                  base   |-> heap.base,
                  pages  |-> heap.pages,
                  blocks |-> Blocks]

-----------------------------------------------------------------------------
\* Knuth's boundary tags hold everywhere, not only on the free lists that
\* validate_heap visits: header and footer of each block agree, and walking
\* right ends on the epilogue (readme.txt 13-15, 21).
TagsAgree ==
    heap.pages > 0 =>
        /\ \A b \in Blocks : GET(heap, b.at) = GET(heap, FTRP(heap, b.at))
        /\ \A tag \in {heap.base, heap.base + 1, Abstract!Hi(heap)} : GET(heap, tag) = PACK(0, 1)
        /\ \E b \in Blocks : RIGHT_BLK(heap, b.at) = Abstract!Hi(heap)

\* The segregated lists hold exactly the free blocks, each once and in the
\* list of its size, and prev mirrors next: a block merged or cut under a
\* different size would otherwise stay on the list of its old size
\* (insert_node 138-149, delete_node 257-272).
ListsExact ==
    \A i \in Buckets :
        LET list == FreeList(heap, i)
        IN  /\ Range(list) = {b.at : b \in {c \in Blocks : ~c.alloc /\ Bucket(c.size) = i}}
            /\ IsInjective(list)
            /\ \A k \in DOMAIN list :
                 GET(heap, prev(list[k])) = IF k = 1 THEN NULL ELSE list[k - 1]

\* What the client holds is allocated, and every allocated block is held: no
\* call frees, duplicates or loses a block behind the client's back.
HeldIffAllocated == status = "up" => {r.ptr : r \in live} = {b.at + 1 : b \in {c \in Blocks : c.alloc}}

\* What check_freelist looks for in a free block beyond its tags and links: an
\* address between the hint and as many pages as the heap has, and a size that
\* fits an int.
Checkable(h, b) == /\ h.seg.start = "hint"
                   /\ b.at < PageWords * h.pages
                   /\ 8 * b.size <= IntMax

\* validate_heap never finds a fault in the tags or links of the heap, however
\* it was cut and joined.  It is to return true "if all is well" (allocator.h
\* 46), but all is well too where it returns false: exactly on the heaps with a
\* free block that is not Checkable, because mmap did not map at the hint, or a
\* failed mprotect left pages below the heap, or the block is too large.
ValidatorExact ==
    status = "up" => (ValidateHeap(heap) <=> \A b \in Blocks : ~b.alloc => Checkable(heap, b))

\* The words of the heap, read as a row of blocks, go through the steps of
\* BlockHeapSpec: find_fit over the lists misses no fitting block, and the
\* recursion of insert_node and coalesce does one merge.
ImplementsBlockHeap == Abstract!Spec
=============================================================================
