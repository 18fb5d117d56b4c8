----------------------------- MODULE AllocTest ------------------------------
(***************************************************************************)
(* assign7/alloctest.c driving the allocator: run_scripts takes a script   *)
(* at a time, eval_correctness makes its requests one after another and    *)
(* checks the blocks it gets, the bytes it wrote and validate_heap;        *)
(* eval_performance makes them unchecked and keeps the memory utilization. *)
(* A script is any sequence of requests parse_script lets through, among   *)
(* them those that allocate an id twice or realloc it to nothing.          *)
(***************************************************************************)
EXTENDS Allocator, Verify

CONSTANTS
    Ids,          \* the block ids of a script
    Sizes         \* the sizes in bytes that its requests name

ASSUME ScriptAssumption ==
    /\ Ids \subseteq Nat \ {0} /\ IsFiniteSet(Ids)
    /\ Sizes \subseteq 0 .. IntMax        \* parse_script 253

VARIABLES
    testHeap,     \* the heap of Allocator
    blocks,       \* script->blocks: pointer and size of each id
    verdict,      \* "idle", "running", "passed", what allocator_error
                  \* reported, "timing", "timed", or the crash that ended
                  \* the process
    perf          \* payload now, payload and segment at the last peak; all
                  \* in bytes but max_segment_size, in pages

testVars == <<testHeap, blocks, verdict, perf>>

Errors == {"init", "malloc_null", "realloc_null", "bad_block", "bad_payload",
           "lost_data", "bad_heap"}

NoBlock == [ptr |-> NULL, size |-> 0]
NoPerf == [cur_payload_size |-> 0, peak_payload_size |-> 0, max_segment_size |-> 0]

\* memset(ptr, id, size): the words that hold the size bytes.
Bytes(ptr, size) == ptr .. (ptr + RoundUp(size) - 1)

Memset(h, ptr, id, size) ==
    [h EXCEPT !.mem = [w \in Words |-> IF w \in Bytes(ptr, size) THEN id ELSE @[w]]]

VerifyPayload(h, ptr, size, id) == \A w \in Bytes(ptr, size) : GET(h, w) = id

\* verify_block, in bytes: the table's words times eight.
Accepts(h, table, ptr, size) ==
    VerifyBlock(8 * ptr, size, 0, 8 * PageWords * h.seg.size,
                {[ptr |-> 8 * table[i].ptr, size |-> table[i].size] : i \in Ids})

\* The end of every request: the heap must look right.
Done(h, table) ==
    testHeap' = h /\ blocks' = table /\ perf' = NoPerf
      /\ verdict' = IF ValidateHeap(h) THEN "running" ELSE "bad_heap"

Ends(h, why) == testHeap' = h /\ blocks' = blocks /\ verdict' = why /\ perf' = NoPerf

TestInit ==
    /\ testHeap = EmptyHeap /\ blocks = [i \in Ids |-> NoBlock]
    /\ verdict = "idle" /\ perf = NoPerf

BetweenScripts == verdict \in {"idle", "passed", "timed"} \cup Errors

\* The next script: a fresh heap and an empty table.
Start ==
    /\ BetweenScripts
    /\ \E o \in MyInit(testHeap) :
         IF o.fate # "up" THEN Ends(o.heap, "init")
         ELSE Done(o.heap, [i \in Ids |-> NoBlock])

EvalAlloc(id, size) ==
    /\ verdict = "running"
    /\ \E o \in MyMalloc(testHeap, size) :
         IF o.fate # "up" THEN Ends(o.heap, o.fate)
         ELSE IF o.ptr = NULL /\ size # 0 THEN Ends(o.heap, "malloc_null")
         ELSE IF ~Accepts(o.heap, blocks, o.ptr, size) THEN Ends(o.heap, "bad_block")
         ELSE Done(Memset(o.heap, o.ptr, id, size),
                   [blocks EXCEPT ![id] = [ptr |-> o.ptr, size |-> size]])

Min2(a, b) == IF a < b THEN a ELSE b

EvalRealloc(id, size) ==
    LET old   == blocks[id]
        others == [blocks EXCEPT ![id].size = 0]
    IN  /\ verdict = "running"
        /\ IF ~VerifyPayload(testHeap, old.ptr, old.size, id) THEN Ends(testHeap, "bad_payload")
           ELSE \E o \in MyRealloc(testHeap, old.ptr, size) :
             IF o.fate # "up" THEN Ends(o.heap, o.fate)
             ELSE IF o.ptr = NULL /\ size # 0 THEN Ends(o.heap, "realloc_null")
             ELSE IF ~Accepts(o.heap, others, o.ptr, size) THEN Ends(o.heap, "bad_block")
             ELSE IF ~VerifyPayload(o.heap, o.ptr, Min2(old.size, size), id)
                  THEN Ends(o.heap, "lost_data")
             ELSE Done(Memset(o.heap, o.ptr, id, size),
                       [blocks EXCEPT ![id] = [ptr |-> o.ptr, size |-> size]])

EvalFree(id) ==
    /\ verdict = "running"
    /\ IF ~VerifyPayload(testHeap, blocks[id].ptr, blocks[id].size, id)
       THEN Ends(testHeap, "bad_payload")
       ELSE Done(MyFree(testHeap, blocks[id].ptr), [blocks EXCEPT ![id] = NoBlock])

\* The script ends: whatever is still allocated must hold what was written.
Finish ==
    /\ verdict = "running"
    /\ Ends(testHeap, IF \A id \in Ids : VerifyPayload(testHeap, blocks[id].ptr, blocks[id].size, id)
                  THEN "passed" ELSE "bad_payload")

\* eval_performance: what myinit returns is not looked at.
StartTiming ==
    /\ BetweenScripts
    /\ \E o \in MyInit(testHeap) : testHeap' = o.heap
    /\ blocks' = [i \in Ids |-> NoBlock] /\ verdict' = "timing" /\ perf' = NoPerf

\* The first and the last byte of the block are written, 0xab or 0xcd; nothing
\* reads the words between, so Mark stands for all of the block.
Mark == 171

\* Mutant of Peaked: only a greater payload is a new peak.
PeakedByPayload(payload, pages) ==
    IF payload > perf.peak_payload_size
    THEN [cur_payload_size |-> payload, peak_payload_size |-> payload, max_segment_size |-> pages]
    ELSE [perf EXCEPT !.cur_payload_size = payload]

\* The peak is taken anew when the payload or the segment exceeds its own.
Peaked(payload, pages) ==
    IF pages > perf.max_segment_size \/ payload > perf.peak_payload_size
    THEN [cur_payload_size |-> payload, peak_payload_size |-> payload, max_segment_size |-> pages]
    ELSE [perf EXCEPT !.cur_payload_size = payload]

\* A block that is NULL is written to all the same.
Timed(o, id, size, payload) ==
    IF o.fate # "up" THEN Ends(o.heap, o.fate)
    ELSE IF o.ptr = NULL /\ size # 0 THEN Ends(o.heap, "null_write")
    ELSE /\ testHeap' = Memset(o.heap, o.ptr, Mark, size)
         /\ blocks' = [blocks EXCEPT ![id] = [ptr |-> o.ptr, size |-> size]]
         /\ perf' = Peaked(payload, o.heap.seg.size)
         /\ UNCHANGED verdict

TimeAlloc(id, size) ==
    /\ verdict = "timing"
    /\ \E o \in MyMalloc(testHeap, size) : Timed(o, id, size, perf.cur_payload_size + size)

TimeRealloc(id, size) ==
    /\ verdict = "timing"
    /\ \E o \in MyRealloc(testHeap, blocks[id].ptr, size) :
         Timed(o, id, size, perf.cur_payload_size + (size - blocks[id].size))

TimeFree(id) ==
    /\ verdict = "timing"
    /\ testHeap' = MyFree(testHeap, blocks[id].ptr)
    /\ blocks' = [blocks EXCEPT ![id] = NoBlock]
    /\ perf' = Peaked(perf.cur_payload_size - blocks[id].size, testHeap.seg.size)
    /\ UNCHANGED verdict

\* The utilization is peak_payload_size by max_segment_size.
FinishTiming == verdict = "timing" /\ verdict' = "timed" /\ UNCHANGED <<testHeap, blocks, perf>>

TestNext ==
    \/ Start \/ StartTiming
    \/ \E id \in Ids, size \in Sizes :
         EvalAlloc(id, size) \/ EvalRealloc(id, size) \/ TimeAlloc(id, size) \/ TimeRealloc(id, size)
    \/ \E id \in Ids : EvalFree(id) \/ TimeFree(id)
    \/ Finish \/ FinishTiming

TestSpec == TestInit /\ [][TestNext]_testVars

-----------------------------------------------------------------------------
HasLargeFree(h) ==
    \E i \in Buckets : \E p \in Range(FreeList(h, i)) : GET(h, p) > IntMax

\* Whatever the script, the allocator never makes the harness report a block
\* outside the heap or over another, or bytes that changed; and an invalid heap
\* only when a free block is larger than an int, which check_freelist takes for
\* a fault though the 8 GB segment has room for it (eval_correctness 273-355).
OnlyLargeBlocksFail ==
    /\ verdict \notin {"init", "bad_block", "bad_payload", "lost_data"}
    /\ verdict = "bad_heap" => HasLargeFree(testHeap)

InUse == FoldFunction(LAMBDA b, n : b.size + n, 0, blocks)

\* The payload counted never falls below the blocks in use, and exceeds them
\* only once a script has allocated an id in use; until then the utilization
\* is at most one, of the largest segment there was (eval_performance 368-414).
UtilizationSound ==
    verdict \in {"timing", "timed"} /\ testHeap.seg.size > 0 =>
      /\ perf.cur_payload_size >= InUse
      /\ perf = NoPerf \/ perf.max_segment_size = testHeap.seg.size
      /\ perf.cur_payload_size = InUse => perf.peak_payload_size <= 8 * PageWords * testHeap.seg.size
=============================================================================
