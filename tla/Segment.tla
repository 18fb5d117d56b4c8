------------------------------ MODULE Segment -------------------------------
(***************************************************************************)
(* assign7/segment.c: the reserved address range the allocator grows in.   *)
(* The operators take the two static variables (and, as rw, the pages the  *)
(* kernel has made readable and writable) and return the set of outcomes   *)
(* the kernel may give, each a new segment and the page number returned.   *)
(***************************************************************************)
EXTENDS Integers

CONSTANTS
    MaxPages,     \* MAX_SEGMENT_SIZE / PAGE_SIZE: 2^21 in the code
    OsRefuses,    \* whether mmap, munmap and mprotect may fail
    Placements    \* where mmap may put the range: "hint" (HEAP_START_HINT,
                  \* which it is free to ignore) or "elsewhere"

ASSUME SegmentAssumption ==
    /\ MaxPages \in Nat
    /\ OsRefuses \in BOOLEAN
    /\ Placements \subseteq {"hint", "elsewhere"}

NoPage == -1      \* the NULL the two functions return

\* start is what segment_start holds: NULL, MAP_FAILED or a reserved range.
\* Pages are counted from segment_start, so rw needs no address.
Segments == [start : {"null", "map_failed", "hint", "elsewhere"},
             size  : Nat,
             rw    : SUBSET Nat]

NoSegment == [start |-> "null", size |-> 0, rw |-> {}]

SegOutcome(s, page) == [seg |-> s, ret |-> page]

Reserved(s) == s.start \in {"hint", "elsewhere"}

\* mprotect on an address inside a reserved range works unless the kernel
\* refuses; computed from MAP_FAILED it always fails.
Mprotects(s) == {granted \in BOOLEAN : IF granted THEN Reserved(s)
                                                  ELSE OsRefuses \/ ~Reserved(s)}

\* Mutant of Exceeds: the limit is compared with the size before the call.
OldSizeExceeds(s, npages) == s.size > MaxPages

Exceeds(s, npages) == s.size + npages > MaxPages

Enlarged(s, npages) == [s EXCEPT !.size = @ + npages]

Opened(s, from) == [s EXCEPT !.rw = @ \cup from .. (s.size - 1)]

\* Mutant of Extended: the end of the new pages is returned, not the start.
ReturnsEnd(s, npages) ==
    {IF granted THEN SegOutcome(Opened(Enlarged(s, npages), s.size), s.size + npages)
     ELSE SegOutcome(Enlarged(s, npages), NoPage)
       : granted \in Mprotects(s)}

\* Mutant of Extended: the result of mprotect is not looked at.
IgnoresMprotect(s, npages) ==
    {SegOutcome(IF granted THEN Opened(Enlarged(s, npages), s.size) ELSE Enlarged(s, npages),
                s.size)
       : granted \in Mprotects(s)}

\* segment_size is already increased when mprotect is asked.
Extended(s, npages) ==
    {IF granted THEN SegOutcome(Opened(Enlarged(s, npages), s.size), s.size)
     ELSE SegOutcome(Enlarged(s, npages), NoPage)
       : granted \in Mprotects(s)}

ExtendHeapSegment(s, npages) ==
    IF s.start = "null" THEN {SegOutcome(s, NoPage)}
    ELSE IF npages <= 0 THEN {SegOutcome(s, s.size)}
    ELSE IF Exceeds(s, npages) THEN {SegOutcome(s, NoPage)}
    ELSE Extended(s, npages)

\* Nothing to discard counts as success.  munmap fails when the kernel
\* refuses, and always on MAP_FAILED, which is not page-aligned.
Munmaps(s) == {done \in BOOLEAN : IF done THEN s.start # "map_failed"
                                   ELSE s.start = "map_failed" \/ (OsRefuses /\ Reserved(s))}

\* A failed mmap leaves MAP_FAILED in segment_start and the old segment_size.
Mmaps(s, npages) ==
    LET fresh(start) == [start |-> start, size |-> 0, rw |-> {}]
    IN  (UNION {ExtendHeapSegment(fresh(start), npages) : start \in Placements})
          \cup {SegOutcome([s EXCEPT !.start = "map_failed", !.rw = {}], NoPage)
                 : refused \in {OsRefuses} \cap {TRUE}}

InitHeapSegment(s, npages) ==
    UNION {IF done THEN Mmaps(s, npages) ELSE {SegOutcome(s, NoPage)} : done \in Munmaps(s)}
=============================================================================
