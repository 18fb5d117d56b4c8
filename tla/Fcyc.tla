-------------------------------- MODULE Fcyc --------------------------------
(***************************************************************************)
(* assign7/fcyc.c: fsecs and fcyc estimate the running time of a function  *)
(* from the cycle counter, by the K-best scheme.  A time is a natural      *)
(* number of cycles; the counter and its two halves are unsigned.          *)
(***************************************************************************)
EXTENDS Integers, Sequences, FiniteSets

CONSTANTS
    KBest,        \* K: 3
    MaxSamples,   \* MAXSAMPLES: 20
    Epsilon,      \* 1 / EPSILON: 100
    HalfMod,      \* 2^32, the range of half the counter
    Times,        \* the cycles a run of the function or the sleep may take
    Readings      \* the counter at the start of a measurement

ASSUME SamplerAssumption ==
    /\ KBest \in Nat \ {0} /\ MaxSamples \in Nat /\ KBest <= MaxSamples
    /\ Epsilon \in Nat \ {0} /\ HalfMod \in Nat \ {0}
    /\ Times \subseteq Nat /\ Readings \subseteq 0 .. HalfMod * HalfMod - 1
    /\ \A r \in Readings, t \in Times : r + t < HalfMod * HalfMod

VARIABLES
    at,          \* the statement the call is at, "idle" or "exited"
    cyc,         \* cyc_hi and cyc_lo, as last read
    took,        \* what really passes between start_counter and get_counter
    mhz,         \* Mhz: the sleep in cycles, 0 while init is false
    values,      \* the kbest smallest samples; <<>> when free
    samplecount,
    cache_buf,   \* whether the cache buffer is allocated
    samples,     \* history: the samples of this call, in order
    result       \* what the last call returned

fcycVars == <<at, cyc, took, mhz, values, samplecount, cache_buf, samples, result>>
measured == <<cyc, took, mhz>>
sampler == <<values, samplecount, samples>>

Halves(t) == [hi |-> t \div HalfMod, lo |-> t % HalfMod]

\* Mutant of GetCounter: the low halves' borrow is not taken from the high.
NoBorrow(start, now) ==
    ((now.hi - start.hi) % HalfMod) * HalfMod + ((now.lo - start.lo) % HalfMod)

\* Subtraction half by half, each unsigned, with the borrow of the low halves.
GetCounter(start, now) ==
    LET lo     == (now.lo - start.lo) % HalfMod
        borrow == IF lo > now.lo THEN 1 ELSE 0
        hi     == (now.hi - start.hi - borrow) % HalfMod
    IN  hi * HalfMod + lo

Reading == GetCounter(cyc, Halves(cyc.hi * HalfMod + cyc.lo + took))

FcycInit ==
    /\ at = "idle" /\ cyc = Halves(0) /\ took = 0 /\ mhz = 0
    /\ values = <<>> /\ samplecount = 0 /\ samples = <<>>
    /\ cache_buf = FALSE /\ result = 0

\* The first fsecs measures the clock rate, every one then calls fcyc.
Fsecs ==
    /\ at = "idle" /\ at' = IF mhz = 0 THEN "rate" ELSE "init"
    /\ UNCHANGED <<measured, sampler, cache_buf, result>>

\* mhz(): the counter is read before and after the sleep.
Mhz ==
    /\ at = "rate" /\ at' = "rated"
    /\ cyc' \in {Halves(r) : r \in Readings} /\ took' \in Times \ {0}
    /\ UNCHANGED <<mhz, sampler, cache_buf, result>>

Rated ==
    /\ at = "rated" /\ at' = "init" /\ mhz' = Reading
    /\ UNCHANGED <<cyc, took, sampler, cache_buf, result>>

InitSampler ==
    /\ at = "init" /\ at' = "clear"
    /\ values' = [i \in 0 .. KBest - 1 |-> 0] /\ samplecount' = 0 /\ samples' = <<>>
    /\ UNCHANGED <<measured, cache_buf, result>>

\* The buffer is allocated once; when that fails the program exits.
Clear ==
    /\ at = "clear"
    /\ \/ at' = "run" /\ cache_buf' = TRUE
       \/ ~cache_buf /\ at' = "exited" /\ UNCHANGED cache_buf
    /\ UNCHANGED <<measured, sampler, result>>

\* start_counter() and f(argp).
Run ==
    /\ at = "run" /\ at' = "add"
    /\ cyc' \in {Halves(r) : r \in Readings} /\ took' \in Times
    /\ UNCHANGED <<mhz, sampler, cache_buf, result>>

\* The insertion sort: val moves left from pos past greater values.
SortedIn(v, pos, val) ==
    LET stop == {i \in 0 .. pos : \A j \in i .. pos - 1 : v[j] > val}
        p    == CHOOSE i \in stop : \A j \in stop : i <= j
    IN  [i \in 0 .. KBest - 1 |->
           IF i < p \/ i > pos THEN v[i] ELSE IF i = p THEN val ELSE v[i - 1]]

\* Mutant of Kept: a full array takes every sample in its last place.
KeptAlways(v, count, val) ==
    SortedIn(v, IF count < KBest THEN count ELSE KBest - 1, val)

Kept(v, count, val) ==
    IF count < KBest THEN SortedIn(v, count, val)
    ELSE IF val < v[KBest - 1] THEN SortedIn(v, KBest - 1, val) ELSE v

AddSample ==
    /\ at = "add" /\ at' = "test"
    /\ values' = Kept(values, samplecount, Reading)
    /\ samplecount' = samplecount + 1 /\ samples' = Append(samples, Reading)
    /\ UNCHANGED <<measured, cache_buf, result>>

\* Mutant of HasConverged: the array's zeros count as samples.
ConvergedOnZeros == (Epsilon + 1) * values[0] >= Epsilon * values[KBest - 1]

HasConverged ==
    samplecount >= KBest /\ (Epsilon + 1) * values[0] >= Epsilon * values[KBest - 1]

Wanted == ~HasConverged /\ samplecount < MaxSamples

\* Mutant of Again: the sampler starts anew with every sample.
AgainFromInit ==
    /\ at = "test" /\ Wanted /\ at' = "init"
    /\ UNCHANGED <<measured, sampler, cache_buf, result>>

Again ==
    /\ at = "test" /\ Wanted /\ at' = "clear"
    /\ UNCHANGED <<measured, sampler, cache_buf, result>>

Return ==
    /\ at = "test" /\ ~Wanted /\ at' = "idle"
    /\ result' = values[0] /\ values' = <<>>
    /\ UNCHANGED <<measured, samplecount, samples, cache_buf>>

\* The caller's exit, at which cleanup() frees the cache buffer.
Exit ==
    /\ at = "idle" /\ at' = "exited" /\ cache_buf' = FALSE
    /\ UNCHANGED <<measured, sampler, result>>

\* Every step of a call, once begun.
Step == Mhz \/ Rated \/ InitSampler \/ Clear \/ Run \/ AddSample \/ Again \/ Return

FcycNext == Fsecs \/ Step \/ Exit

\* The thread keeps running, and the function it times returns.
FcycSpec == FcycInit /\ [][FcycNext]_fcycVars /\ WF_fcycVars(Step)

-----------------------------------------------------------------------------
\* The statics keep their shape and the count its limit (17-42).
FcycTypeOK ==
    /\ at \in {"idle", "rate", "rated", "init", "clear", "run", "add", "test", "exited"}
    /\ cyc \in [hi : 0 .. HalfMod - 1, lo : 0 .. HalfMod - 1] /\ took \in Nat /\ mhz \in Nat
    /\ values \in {<<>>} \cup [0 .. KBest - 1 -> Nat]
    /\ samplecount \in 0 .. MaxSamples /\ samples \in Seq(Nat)
    /\ cache_buf \in BOOLEAN /\ result \in Nat

\* A reading is the time that passed, wherever the halves' borders fall
\* between the two reads of the counter (get_counter 62-75).
ReadingExact == at \in {"add", "rated"} => Reading = took

\* However many samples were added and in whatever order, the array holds the
\* smallest of them, in order: as many at most x as there are samples at most
\* x, up to kbest (add_sample 119-137).
KBestKept ==
    at \in {"clear", "run", "add", "test"} =>
      LET filled == {i \in 0 .. KBest - 1 : i < samplecount}
      IN  /\ \A i, j \in filled : i < j => values[i] <= values[j]
          /\ \A x \in Times :
               LET below == Cardinality({j \in DOMAIN samples : samples[j] <= x})
               IN  Cardinality({i \in filled : values[i] <= x})
                     = IF below < KBest THEN below ELSE KBest

\* fcyc returns the smallest sample taken, after at least kbest of them, and
\* before the limit only when kbest are within epsilon of it (184-201).
ReturnsConvergedMinimum ==
    [][at = "test" /\ at' = "idle" =>
         LET near == {j \in DOMAIN samples : Epsilon * samples[j] <= (Epsilon + 1) * result'}
         IN  /\ \E j \in DOMAIN samples : samples[j] = result'
             /\ \A j \in DOMAIN samples : samples[j] >= result'
             /\ Len(samples) = MaxSamples \/ Cardinality(near) >= KBest]_fcycVars

\* Every call of fsecs ends, however the samples scatter.
CallEnds == at \notin {"idle", "exited"} ~> at \in {"idle", "exited"}
=============================================================================
