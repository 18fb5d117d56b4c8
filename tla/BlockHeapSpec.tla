--------------------------- MODULE BlockHeapSpec ----------------------------
(***************************************************************************)
(* The allocator of BlockHeap as a state machine: a client that calls      *)
(* myinit first, then mymalloc, myrealloc and myfree in any order, with    *)
(* pointers it holds or NULL; realloc(NULL, n) is malloc(n).               *)
(***************************************************************************)
EXTENDS BlockHeap

VARIABLES
    heap,         \* the heap of BlockHeap
    ret,          \* the pointer the last call returned
    status        \* "uninit", "up", or the crash that ended the process

vars == <<heap, ret, status>>

Live == {b \in heap.blocks : b.alloc}

Take(o) == heap' = o.heap /\ ret' = o.ptr /\ status' = o.fate

Init == heap = EmptyHeap /\ ret = NULL /\ status = "uninit"

\* The client may wipe the heap at any time, and after a failed init can do
\* nothing but try again.
Initialize == status \in {"uninit", "up"} /\ \E o \in MyInit(heap) : Take(o)

Malloc(bytes) == status = "up" /\ \E o \in MyMalloc(heap, bytes, bytes) : Take(o)

Free(b) == status = "up" /\ Take(Outcome(MyFree(heap, b), NULL, "up"))

FreeNull == status = "up" /\ Take(Outcome(heap, NULL, "up"))

Realloc(b, bytes) == status = "up" /\ \E o \in MyRealloc(heap, b, bytes) : Take(o)

Next ==
    \/ Initialize
    \/ \E bytes \in Requests : Malloc(bytes)
    \/ FreeNull
    \/ \E b \in Live : Free(b)
    \/ \E b \in Live, bytes \in Requests : Realloc(b, bytes)

Spec == Init /\ [][Next]_vars

-----------------------------------------------------------------------------
\* The heap, the returned pointer and the process status keep their shape.
TypeOK == /\ heap \in Heaps
          /\ ret \in Nat
          /\ status \in {"uninit", "up"} \cup Crashes

\* Blocks lie between prologue and epilogue, and each has room for a header,
\* a footer and three words.
Within(B, lo, hi) == \A b \in B : lo <= b.at /\ EndOf(b) <= hi /\ b.size >= 3

\* No two blocks share a word.
Separate(B) == \A b, c \in B : b = c \/ EndOf(b) <= c.at \/ EndOf(c) <= b.at

\* The row begins at lo and ends at hi, and every block in it is followed and
\* preceded by another: stepping from tag to tag always lands on a tag.
Gapless(B, lo, hi) ==
    /\ B # {} => (\E b \in B : b.at = lo) /\ (\E b \in B : EndOf(b) = hi)
    /\ \A b \in B : /\ EndOf(b) = hi \/ \E c \in B : c.at = EndOf(b)
                    /\ b.at = lo \/ \E c \in B : EndOf(c) = b.at

Row(B, lo, hi) == Within(B, lo, hi) /\ Separate(B) /\ Gapless(B, lo, hi)

\* Splitting, joining and growing the heap in any order leaves a row of
\* blocks without overlap, gap or overrun (place, coalesce and add_page,
\* allocator.c 157-200, 280-298, 346-396).
Tiling ==
    /\ heap.pages > 0 <=> heap.blocks # {}
    /\ Row(heap.blocks, Lo(heap), Hi(heap))

NoFreePair(B) == \A b, c \in B : EndOf(b) = c.at => b.alloc \/ c.alloc

\* Bidirectional coalescing is complete: no two free blocks touch, even where
\* a new page meets the old end of the heap (readme.txt 15).
NoAdjacentFree == NoFreePair(heap.blocks)

\* While the process is up, the pages from prologue to epilogue are open, so
\* no tag the allocator reads or writes faults, even if mprotect failed in
\* between (add_page 170-176, extend_heap_segment 59-61).
Backed ==
    status = "up" /\ heap.pages > 0 =>
        \A p \in 0 .. (heap.pages - 1) :
            \E q \in heap.seg.rw : q * PageWords = heap.base + p * PageWords

\* A block the client holds is at least as large as it last asked, through
\* splits, whole placements and reallocs in place (place 283, myrealloc 439).
CapacityHolds == \A b \in Live : b.want <= 8 * b.size

\* The page that add_page brings always fits the request it was sized for, so
\* the unchecked find_fit of mymalloc 325-326 never yields NULL: the two
\* denominators of add_page leave room for prologue, epilogue and tags.
NeverPlacesNull == status # "null_block"

\* What the client owns of an allocated block, and of the heap while the
\* process is up.
Reg(b) == [ptr |-> Payload(b), want |-> b.want]

Owned == IF status = "up" THEN {Reg(b) : b \in Live} ELSE {}

Promise == INSTANCE HeapPromise
             WITH live <- Owned, up <- status = "up", SegmentWords <- MaxPages * PageWords

\* The allocator keeps the promise in every call: what mymalloc and myrealloc
\* hand out is inside the segment, as large as asked for and disjoint from all
\* that the client keeps; mymalloc takes nothing away, myfree only the block
\* it is given, and myrealloc exchanges only the block it is given.
PromisedStep ==
    /\ Initialize => Promise!Initialize
    /\ FreeNull => Promise!FreeNull
    /\ \A bytes \in Requests : Malloc(bytes) => Promise!Malloc(bytes)
    /\ \A b \in Live : /\ Free(b) => Promise!Free(Reg(b))
                      /\ \A bytes \in Requests :
                           Realloc(b, bytes) => Promise!Realloc(Reg(b), bytes)

KeepsPromise == Promise!Init /\ [][PromisedStep]_vars
=============================================================================
