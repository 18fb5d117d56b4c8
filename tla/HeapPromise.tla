---------------------------- MODULE HeapPromise -----------------------------
(***************************************************************************)
(* What an allocator promises its client, call by call: a pointer it hands *)
(* out owns the bytes asked for, inside the segment, and no word of them   *)
(* belongs to another pointer the client holds; and a call takes away or   *)
(* exchanges no region but the one it is called with.                      *)
(***************************************************************************)
EXTENDS Integers

CONSTANT SegmentWords     \* the words of the reserved address range

VARIABLES
    live,                 \* the regions the client owns: pointer and bytes
    ret,                  \* the pointer the last call returned
    up                    \* the heap is initialized and the process runs

NULL == 0

Region(ptr, bytes) == [ptr |-> ptr, want |-> bytes]

WordsOf(r) == r.ptr .. (r.ptr + (r.want + 7) \div 8 - 1)

Apart(r, s) == WordsOf(r) \cap WordsOf(s) = {}

Proper(r) == /\ r.want > 0
             /\ WordsOf(r) \subseteq 1 .. (SegmentWords - 1)

Init == live = {} /\ ret = NULL /\ ~up

-----------------------------------------------------------------------------
\* A region of the bytes asked for is handed out, at the pointer returned, in
\* the place of those given up.
HandsOut(bytes, given) ==
    LET new == Region(ret', bytes)
    IN  /\ up' /\ Proper(new)
        /\ \A s \in live \ given : Apart(new, s)
        /\ live' = (live \ given) \cup {new}

\* A call that returns NULL leaves everything to the client.
Refuses == up' /\ ret' = NULL /\ live' = live

\* Nobody owns anything once the process has ended.
Dies == ~up' /\ live' = {}

Initialize == live' = {}

Malloc(bytes) == HandsOut(bytes, {}) \/ Refuses \/ Dies

Realloc(r, bytes) == HandsOut(bytes, {r}) \/ Refuses \/ Dies

\* Only malloc and realloc may end the process.
Free(r) == up' /\ live' = live \ {r}

FreeNull == up' /\ live' = live
=============================================================================
