----------------------------- MODULE MapPromise -----------------------------
(***************************************************************************)
(* What cmap.h promises of any map: a function from the keys that were put *)
(* to their last values, iterated in an arbitrary order that names every   *)
(* key once.                                                               *)
(***************************************************************************)
EXTENDS Naturals

CONSTANTS Keys, Vals, NoKey, NoValue

VARIABLES
    table,     \* the function from keys to values
    answer,    \* the key of a put or get, and the value put or found
    key,       \* the key an iteration stands at, or NoKey
    seen       \* the keys it has named so far

vars == <<table, answer, key, seen>>

NoEntry == [k \in {} |-> NoValue]

With(t, k, v) == [j \in DOMAIN t \cup {k} |-> IF j = k THEN v ELSE t[j]]

Init == table = NoEntry /\ answer = <<>> /\ key = NoKey /\ seen = {}

Empty == table' = NoEntry /\ key' = NoKey /\ seen' = {} /\ answer' = <<>>

\* A client that iterates adds no key, but may replace a value.
Put(k, v) ==
    /\ key # NoKey => k \in DOMAIN table
    /\ table' = With(table, k, v) /\ answer' = <<k, v>> /\ UNCHANGED <<key, seen>>

Get(k) ==
    /\ answer' = <<k, IF k \in DOMAIN table THEN table[k] ELSE NoValue>>
    /\ UNCHANGED <<table, key, seen>>

\* first and next: a key not named yet, or none when all have been.
StepTo(from) ==
    /\ \/ from = DOMAIN table /\ key' = NoKey /\ seen' = {}
       \/ \E k \in DOMAIN table \ from : key' = k /\ seen' = from \cup {k}
    /\ answer' = <<>> /\ UNCHANGED table

Next ==
    \/ Empty
    \/ \E k \in Keys : Get(k) \/ \E v \in Vals : Put(k, v)
    \/ key = NoKey /\ StepTo({})
    \/ key # NoKey /\ StepTo(seen)

Spec == Init /\ [][Next]_vars
=============================================================================
