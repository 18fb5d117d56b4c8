---------------------------- MODULE VerifyCalls -----------------------------
(***************************************************************************)
(* verify_block given any answer of an allocator, also those the allocator *)
(* of assign7 never makes, in place of AllocTest's true ones.              *)
(***************************************************************************)
EXTENDS Verify, FiniteSets

CONSTANTS
    HeapStart, HeapEnd,   \* the heap, in bytes
    NewPtrs, NewSizes,    \* what the allocator answers, and was asked for
    OldPtrs, OldSizes     \* the blocks of the script's table

ASSUME VerifyAssumption ==
    /\ HeapStart \in Nat \ {0} /\ HeapEnd \in Nat
    /\ NewPtrs \cup NewSizes \cup OldPtrs \cup OldSizes \subseteq Nat

VARIABLES
    table,       \* script->blocks, as a set
    judged       \* the block last judged, and whether it was accepted

verifyVars == <<table, judged>>

VerifyOff == table = {} /\ judged = <<>>

Table == [ptr : OldPtrs, size : OldSizes]
VerifyInit == table \in {{b, c} : b, c \in Table} /\ judged = <<>>

Judge(ptr, size) ==
    /\ judged' = <<ptr, size, VerifyBlock(ptr, size, HeapStart, HeapEnd, table)>>
    /\ UNCHANGED table

VerifyNext == \E ptr \in NewPtrs, size \in NewSizes : Judge(ptr, size)

-----------------------------------------------------------------------------
BytesOf(ptr, size) == ptr .. ptr + size - 1

\* Accepted are exactly NULL for nothing, and aligned blocks of the heap that
\* share no byte with another block, however the two lie; an empty block
\* counts as its first byte (verify_block 427-458).
JudgedRightly ==
    judged # <<>> =>
      LET ptr   == judged[1]
          size  == judged[2]
          taken == IF size = 0 THEN {ptr} ELSE BytesOf(ptr, size)
      IN  judged[3] =
            \/ ptr = 0 /\ size = 0
            \/ /\ ptr % ALIGNMENT = 0 /\ BytesOf(ptr, size) \subseteq HeapStart .. HeapEnd - 1
               /\ ptr \in HeapStart .. HeapEnd
               /\ \A b \in table : b.ptr # 0 => taken \cap BytesOf(b.ptr, b.size) = {}
=============================================================================
