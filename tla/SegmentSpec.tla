---------------------------- MODULE SegmentSpec -----------------------------
(***************************************************************************)
(* segment.c as a state machine: any sequence of calls of its two          *)
(* state-changing functions, against a kernel that may refuse.             *)
(***************************************************************************)
EXTENDS Segment

CONSTANT Increments   \* the values of npages a caller passes

ASSUME IncrementsAssumption == Increments \subseteq Nat

VARIABLES seg,        \* segment_start, segment_size, and the pages opened
          ret         \* what the last call returned

vars == <<seg, ret>>

Init == seg = NoSegment /\ ret = NoPage

Reinit(npages) ==
    \E o \in InitHeapSegment(seg, npages) : seg' = o.seg /\ ret' = o.ret

Extend(npages) ==
    \E o \in ExtendHeapSegment(seg, npages) : seg' = o.seg /\ ret' = o.ret

Next == \E npages \in Increments : Reinit(npages) \/ Extend(npages)

Spec == Init /\ [][Next]_vars

-----------------------------------------------------------------------------
\* The two statics and the kernel's view have the shape the code gives them.
TypeOK == seg \in Segments /\ ret \in Nat \cup {NoPage}

\* No page outside the extent that heap_segment_size reports is ever open,
\* and the extent never exceeds the reserved range (segment.c 57-61).
OpenPagesWithinExtent ==
    /\ seg.rw \subseteq 0 .. (seg.size - 1)
    /\ seg.size <= MaxPages

\* extend_heap_segment never hands out a page it handed out before, never
\* takes back an opened one, and every page it reports as new is usable
\* (segment.h 41-46: the start of "an additional npages").
ExtendOnlyAdds ==
    [][\A npages \in Increments :
         Extend(npages) => /\ seg.rw \subseteq seg'.rw
                           /\ ret' # NoPage =>
                                /\ ret' .. (ret' + npages - 1) \subseteq seg'.rw
                                /\ \A page \in seg.rw : page < ret']_vars
=============================================================================
