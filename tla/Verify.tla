------------------------------- MODULE Verify -------------------------------
(***************************************************************************)
(* verify_block of assign7/alloctest.c, over byte addresses; NULL is 0 and *)
(* a block is [ptr, size].                                                 *)
(***************************************************************************)
EXTENDS Integers

ALIGNMENT == 8

\* Mutant of Overlaps: a block that encloses the other goes unnoticed.
EndsInside(start, end, other_start, other_end) ==
    \/ start >= other_start /\ start < other_end
    \/ end > other_start /\ end < other_end

Overlaps(start, end, other_start, other_end) ==
    \/ start >= other_start /\ start < other_end
    \/ end > other_start /\ end < other_end
    \/ start < other_start /\ end >= other_end

VerifyBlock(ptr, size, heap_start, heap_end, blocks) ==
    /\ ptr % ALIGNMENT = 0
    /\ \/ ptr = 0 /\ size = 0
       \/ /\ ptr >= heap_start /\ ptr + size <= heap_end
          /\ \A b \in blocks :
               b.ptr = 0 \/ b.size = 0 \/ ~Overlaps(ptr, ptr + size, b.ptr, b.ptr + b.size)
=============================================================================
