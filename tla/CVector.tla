------------------------------ MODULE CVector -------------------------------
(***************************************************************************)
(* assign3/cvector.c as operators on [nelems, bytes, size, elems]: the     *)
(* capacity, the bytes malloc or realloc gave the array, the count, and    *)
(* the array from index 0.  A pointer into the array is its index, NULL is *)
(* -1.  The empty stubs cvec_replace and cvec_remove are left out.         *)
(***************************************************************************)
EXTENDS Integers, FiniteSets

CONSTANTS
    ElemSize,            \* elemsz: bytes of an element
    DefaultCapacity,     \* DEFAULT_CAPACITY: 16
    PointerSize          \* sizeof(size_t): 8

ASSUME VectorAssumption ==
    /\ ElemSize \in Nat \ {0} /\ PointerSize \in Nat /\ ElemSize <= PointerSize
    /\ DefaultCapacity \in Nat \ {0}

NULL == -1

\* cvec_create: the array is malloc'd with sizeof(elemsz), the size of a
\* size_t, for each element, whatever elemsz is.
CvecCreate(hint) ==
    LET nelems == IF hint = 0 THEN DefaultCapacity ELSE hint
    IN  [nelems |-> nelems, bytes |-> PointerSize * nelems, size |-> 0, elems |-> <<>>]

\* Mutant of DoubleCap: the array grows one element too late.
GrowsLate(v) ==
    IF v.size > v.nelems
    THEN [v EXCEPT !.nelems = 2 * @, !.bytes = 2 * v.nelems * ElemSize] ELSE v

DoubleCap(v) ==
    IF v.size = v.nelems
    THEN [v EXCEPT !.nelems = 2 * @, !.bytes = 2 * v.nelems * ElemSize] ELSE v

\* Mutant of MoveRight: copied upwards in place, an element at a time, so that
\* each overwrites the next before it is read.
Smears(v, i) == [k \in 0 .. v.size |-> IF k <= i THEN v.elems[k] ELSE v.elems[i]]

\* The elements from i on are copied to tmp and from there one place right.
MoveRight(v, i) == [k \in 0 .. v.size |-> IF k <= i /\ k < v.size THEN v.elems[k] ELSE v.elems[k - 1]]

\* assert(index >= 0 && index <= cv->size) is the caller's part.
CvecInsert(v, x, i) ==
    LET grown == DoubleCap(v)
        moved == IF i <= v.size - 1 THEN MoveRight(grown, i)
                 ELSE [k \in 0 .. v.size |-> IF k < v.size THEN v.elems[k] ELSE x]
    IN  [grown EXCEPT !.elems = [moved EXCEPT ![i] = x], !.size = @ + 1]

CvecNth(v, i) == v.elems[i]

\* Mutant of CvecNext: after the last element comes the first again.
NextWraps(v, prev) == (prev + 1) % v.size

\* Mutant of CvecNext: the last element is left out.
NextStopsEarly(v, prev) == IF prev + 2 >= v.size THEN NULL ELSE prev + 1

CvecFirst(v) == IF v.size = 0 THEN NULL ELSE 0

CvecNext(v, prev) == IF prev + 1 = v.size THEN NULL ELSE prev + 1

\* The linear search goes from start through cvec_next, and stops at the first
\* match; start < size, since from size on cvec_next never meets the end.
LinearSearch(v, key, start) ==
    LET hits == {i \in start .. v.size - 1 : v.elems[i] = key}
    IN  IF hits = {} THEN {-1} ELSE {CHOOSE i \in hits : \A j \in hits : i <= j}

\* bsearch of the elements from start on, which are in order: any match.
BinarySearch(v, key, start) ==
    LET hits == {i \in start .. v.size - 1 : v.elems[i] = key}
    IN  IF hits = {} THEN {-1} ELSE hits

CvecSearch(v, key, start, sorted) ==
    IF sorted THEN BinarySearch(v, key, start) ELSE LinearSearch(v, key, start)

InOrder(v, start) == \A j, k \in start .. v.size - 1 : j < k => v.elems[j] <= v.elems[k]

Count(v, x) == Cardinality({k \in 0 .. v.size - 1 : v.elems[k] = x})

\* qsort: the elements of v in some ascending order.
CvecSort(v, vals) ==
    {w \in {[v EXCEPT !.elems = e] : e \in [0 .. v.size - 1 -> vals]} :
       InOrder(w, 0) /\ \A x \in vals : Count(w, x) = Count(v, x)}
=============================================================================
