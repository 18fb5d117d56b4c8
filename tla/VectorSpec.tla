----------------------------- MODULE VectorSpec -----------------------------
(***************************************************************************)
(* The vector as a machine, used the way assign3/vectest.c and             *)
(* assign2/warmup.c use it: vectors are created with different capacity    *)
(* hints, filled at the end and in the middle, sorted, searched, written   *)
(* through the pointers cvec_nth returns, and iterated.                    *)
(***************************************************************************)
EXTENDS CVector

CONSTANTS
    Vals,       \* the elements, numbers that cmp_int compares
    Hints,      \* the capacity hints
    MaxCount    \* bound: the client inserts up to this count

ASSUME ClientAssumption == Vals \subseteq Nat /\ Hints \subseteq Nat /\ MaxCount \in Nat

VARIABLES
    vec,        \* the vector
    cursor,     \* cur of the for loop over cvec_first and cvec_next
    visited,    \* what that loop has seen so far: indices in order
    answer      \* the call, with what was inserted, written or found

vars == <<vec, cursor, visited, answer>>

Init ==
    /\ vec \in {CvecCreate(h) : h \in Hints}
    /\ cursor = NULL /\ visited = {} /\ answer = <<>>

\* cvec_dispose, and the next test's cvec_create.
Recreate(hint) ==
    /\ vec' = CvecCreate(hint) /\ cursor' = NULL /\ visited' = {} /\ answer' = <<>>

\* The loops that fill a vector: at a random index, or at the end.
Insert(x, i) ==
    /\ cursor = NULL /\ vec.size < MaxCount
    /\ vec' = CvecInsert(vec, x, i) /\ answer' = <<"insert", i, x>>
    /\ visited' = {} /\ UNCHANGED cursor

CvecAppend(x) == Insert(x, vec.size)

Nth(i) == answer' = <<"nth", i, CvecNth(vec, i)>> /\ UNCHANGED <<vec, cursor, visited>>

\* (*(int *) cvec_nth(cv, i)) *= -1, or any other value written in place.
Write(i, x) ==
    /\ vec' = [vec EXCEPT !.elems[i] = x] /\ answer' = <<"write", i, x>>
    /\ UNCHANGED <<cursor, visited>>

Search(key, start, sorted) ==
    /\ IF sorted THEN InOrder(vec, start) ELSE start < vec.size
    /\ \E found \in CvecSearch(vec, key, start, sorted) :
         answer' = <<"search", key, start, found>>
    /\ UNCHANGED <<vec, cursor, visited>>

Sort ==
    /\ cursor = NULL
    /\ vec' \in CvecSort(vec, Vals)
    /\ visited' = {} /\ answer' = <<>> /\ UNCHANGED cursor

First ==
    /\ cursor = NULL
    /\ cursor' = CvecFirst(vec)
    /\ visited' = {cursor'} \ {NULL}
    /\ answer' = <<>> /\ UNCHANGED vec

Advance ==
    /\ cursor # NULL
    /\ cursor' = CvecNext(vec, cursor)
    /\ visited' = visited \cup ({cursor'} \ {NULL})
    /\ answer' = <<>> /\ UNCHANGED vec

Next ==
    \/ \E h \in Hints : Recreate(h)
    \/ \E x \in Vals : CvecAppend(x) \/ \E i \in 0 .. vec.size : Insert(x, i)
    \/ \E i \in 0 .. vec.size - 1 : Nth(i) \/ \E x \in Vals : Write(i, x)
    \/ \E key \in Vals, start \in 0 .. vec.size, sorted \in BOOLEAN : Search(key, start, sorted)
    \/ Sort \/ First \/ Advance

\* A for loop over the vector, once begun, runs on.
Spec == Init /\ [][Next]_vars /\ WF_vars(Advance)

-----------------------------------------------------------------------------
\* The fields of the struct and what the client keeps have their shape, and
\* the array holds the elements up to the count (cvector.c 23-28).
TypeOK ==
    /\ vec \in [nelems : Nat \ {0}, bytes : Nat, size : Nat, elems : [0 .. vec.size - 1 -> Vals]]
    /\ cursor \in 0 .. vec.size - 1 \cup {NULL}
    /\ visited \subseteq 0 .. vec.size - 1

\* Every element lies within the block the array was allocated as: the first
\* block is sized by sizeof(elemsz) and later ones by elemsz, and growth comes
\* before the element that needs it (cvec_create 47, doubleCap 72-79).
ElementsFit == vec.size <= vec.nelems /\ vec.size * ElemSize <= vec.bytes

\* The vector does what cvector.h promises of a sequence, across growth,
\* insertion by copying, sorting, searching and iteration.
Abstract == INSTANCE VectorPromise WITH elems <- [k \in 1 .. vec.size |-> vec.elems[k - 1]]
ImplementsSequence == Abstract!Spec

\* A loop that has ended has seen every element (cvec_next 143-150).
IterationComplete ==
    [][Advance /\ cursor' = NULL => visited' = 0 .. vec.size - 1]_vars

\* A loop over the vector ends, whatever is written meanwhile.
IterationEnds == cursor # NULL ~> cursor = NULL
=============================================================================
