----------------------------- MODULE HeapLayout -----------------------------
(***************************************************************************)
(* The arithmetic of assign7/allocator.c: how a request in bytes becomes a *)
(* payload, how many pages a payload asks for, which free list a size      *)
(* belongs to, and what an int can hold.                                   *)
(*                                                                         *)
(* Addresses and payload sizes are counted in 8-byte words (ALIGNMENT and  *)
(* sizeof(size_t) are both 8, and every size the allocator stores is a     *)
(* multiple of 8); requests stay in bytes.                                 *)
(***************************************************************************)
EXTENDS Integers, FiniteSets

CONSTANTS
    PageWords,    \* PAGE_SIZE / 8: 512 in the code
    NumBuckets,   \* NUM_BUCKETS: 29 in the code
    Prefetch,     \* the divisor of pagecnt/10: 10 in the code
    IntMax        \* INT_MAX

ASSUME LayoutAssumption ==
    /\ PageWords \in Nat /\ PageWords > 8
    /\ NumBuckets \in Nat \ {0}
    /\ Prefetch \in Nat \ {0}
    /\ IntMax \in Nat /\ IntMax > 64

NULL == 0         \* word 0 of the segment never starts a block or a payload

TagWords == 2     \* header and footer, one word each
ProWords == 2     \* struct prologue
EpiWords == 1     \* struct epilogue

\* Mutant of MINBLKSZ: a block is split even where no block fits behind it.
SplitsAtOne == 1

MINBLKSZ == 5     \* 40 bytes

RoundUp(bytes) == (bytes + 7) \div 8

\* Mutant of Asize: rounded down, without the links.
Truncated(bytes) == IF bytes < 24 THEN 3 ELSE bytes \div 8

\* The adjusted payload of mymalloc and myrealloc: room for prev and next.
Asize(bytes) == 2 + RoundUp(bytes)

\* newsz * REALLOC_FACTOR, truncated when it is passed as a size_t.
Grown(bytes) == (3 * bytes) \div 2

\* MIN(log_2(n), NUM_BUCKETS - 1): log_2 counts how often n is halved before
\* nothing is left.
Bucket(n) ==
    LET halved[k \in 0 .. (NumBuckets - 1)] == IF k = 0 THEN n ELSE halved[k - 1] \div 2
    IN  Cardinality({k \in 0 .. (NumBuckets - 2) : halved[k] > 0})

\* Mutant of NumOfPage: prologue, epilogue and tags are not counted.
NoOverhead(pagecnt, asize) == pagecnt \div Prefetch + 1 + asize \div PageWords

\* numofpage of add_page.  The denominators are the code's, MINBLKSZ and all.
NumOfPage(pagecnt, asize) ==
    pagecnt \div Prefetch + 1
      + asize \div (IF pagecnt = 0
                    THEN PageWords - ProWords - EpiWords - MINBLKSZ
                    ELSE PageWords - MINBLKSZ)

\* Mutant of BlockStart: the old epilogue stays where it is.
BesideEpilogue(pagecnt, start) == IF pagecnt = 0 THEN start + ProWords ELSE start

\* Where the block in pages from word start on has its header: right after a
\* new prologue or, on a heap that has pages, on the old epilogue.
BlockStart(pagecnt, start) == IF pagecnt = 0 THEN start + ProWords ELSE start - EpiWords

\* A size_t stored in an int.
ToInt(x) == ((x + IntMax + 1) % (2 * (IntMax + 1))) - (IntMax + 1)
=============================================================================
