--------------------------- MODULE VectorPromise ----------------------------
(***************************************************************************)
(* What cvector.h promises of any vector: a sequence that changes only by  *)
(* insertion, by sorting and by what the client writes through the         *)
(* pointers it is given, and whose calls answer from that sequence.        *)
(***************************************************************************)
EXTENDS Integers, Sequences, FiniteSets

CONSTANT Vals

VARIABLES
    elems,     \* the elements, index i of the interface at position i + 1
    cursor,    \* the index an iteration stands at, or -1
    answer     \* the call, with what was inserted, written or found

vars == <<elems, cursor, answer>>

Idle == -1

InsertedAt(s, i, x) ==
    [k \in 1 .. Len(s) + 1 |-> IF k <= i THEN s[k] ELSE IF k = i + 1 THEN x ELSE s[k - 1]]

Occurrences(s, x) == Cardinality({k \in DOMAIN s : s[k] = x})

Init == elems = <<>> /\ cursor = Idle /\ answer = <<>>

Empty == elems' = <<>> /\ cursor' = Idle /\ answer' = <<>>

Insert(x, i) ==
    /\ cursor = Idle /\ elems' = InsertedAt(elems, i, x)
    /\ answer' = <<"insert", i, x>> /\ UNCHANGED cursor

Write(i, x) ==
    /\ elems' = [elems EXCEPT ![i + 1] = x] /\ answer' = <<"write", i, x>> /\ UNCHANGED cursor

Sort ==
    /\ cursor = Idle /\ Len(elems') = Len(elems)
    /\ \A x \in Vals : Occurrences(elems', x) = Occurrences(elems, x)
    /\ \A j, k \in DOMAIN elems' : j < k => elems'[j] <= elems'[k]
    /\ answer' = <<>> /\ UNCHANGED cursor

Nth(i) == answer' = <<"nth", i, elems[i + 1]>> /\ UNCHANGED <<elems, cursor>>

\* Any matching index at or after start; none is found from the end.
Search(key, start) ==
    LET hits == {i \in start .. Len(elems) - 1 : elems[i + 1] = key}
    IN  /\ \E found \in (IF hits = {} THEN {-1} ELSE hits) :
             answer' = <<"search", key, start, found>>
        /\ UNCHANGED <<elems, cursor>>

First ==
    /\ cursor = Idle /\ cursor' = (IF elems = <<>> THEN Idle ELSE 0)
    /\ answer' = <<>> /\ UNCHANGED elems

Advance ==
    /\ cursor # Idle /\ cursor' = (IF cursor + 1 < Len(elems) THEN cursor + 1 ELSE Idle)
    /\ answer' = <<>> /\ UNCHANGED elems

Next ==
    \/ Empty \/ Sort \/ First \/ Advance
    \/ \E x \in Vals : \E i \in 0 .. Len(elems) : Insert(x, i) \/ Search(x, i)
    \/ \E i \in 0 .. Len(elems) - 1 : Nth(i) \/ \E x \in Vals : Write(i, x)

Spec == Init /\ [][Next]_vars
=============================================================================
