---------------------------- MODULE VectorProofs ----------------------------
(***************************************************************************)
(* Proofs about VectorSpec for every element size up to a pointer's, every *)
(* capacity hint and any number of insertions: the elements fit the array, *)
(* an iteration sees them all, and the vector implements VectorPromise.    *)
(***************************************************************************)
EXTENDS VectorSpec, NumberFacts, Sequences

\* The struct of cvector.c 22-27 with its elements.
Vector(v) ==
    /\ v = [nelems |-> v.nelems, bytes |-> v.bytes, size |-> v.size, elems |-> v.elems]
    /\ v.nelems \in Nat \ {0} /\ v.bytes \in Nat /\ v.size \in Nat
    /\ v.elems \in [0 .. v.size - 1 -> Vals]

\* The array is as large in bytes as its capacity asks for (cvec_create 47,
\* doubleCap 75), and the capacity is enough.
Fits(v) == v.size <= v.nelems /\ v.nelems * ElemSize <= v.bytes

\* An iteration has seen the elements up to where it stands (cvec_next 143-150).
Seen ==
    /\ cursor \in 0 .. vec.size - 1 \cup {NULL}
    /\ visited \subseteq 0 .. vec.size - 1
    /\ cursor # NULL => visited = 0 .. cursor

Inv == Vector(vec) /\ Fits(vec) /\ Seen

\* A created vector is empty and has room for its hint (cvec_create 43-52).
LEMMA CreateFits ==
    ASSUME NEW h \in Nat
    PROVE  Vector(CvecCreate(h)) /\ Fits(CvecCreate(h)) /\ CvecCreate(h).size = 0
<1>. DEFINE n == IF h = 0 THEN DefaultCapacity ELSE h
<1>1. n \in Nat \ {0}
  BY VectorAssumption
<1>2. CvecCreate(h) = [nelems |-> n, bytes |-> PointerSize * n, size |-> 0, elems |-> <<>>]
  BY DEF CvecCreate
<1>. HIDE DEF n
<1>3. ElemSize * n <= PointerSize * n
  BY <1>1, VectorAssumption, TimesMonotone
<1>4. n * ElemSize = ElemSize * n /\ PointerSize * n \in Nat
  BY <1>1, VectorAssumption
<1>5. <<>> \in [0 .. 0 - 1 -> Vals]
  OBVIOUS
<1>. QED  BY <1>1, <1>2, <1>3, <1>4, <1>5 DEF Vector, Fits

\* Doubling a full vector makes room for one element more (doubleCap 72-79).
LEMMA DoubleCapFits ==
    ASSUME NEW v, Vector(v), Fits(v)
    PROVE  LET w == DoubleCap(v)
           IN  /\ w = [nelems |-> w.nelems, bytes |-> w.bytes, size |-> v.size, elems |-> v.elems]
               /\ w.nelems \in Nat \ {0} /\ w.bytes \in Nat
               /\ v.size + 1 <= w.nelems /\ w.nelems * ElemSize <= w.bytes
<1>1. CASE v.size = v.nelems
  <2>1. DoubleCap(v) = [nelems |-> 2 * v.nelems, bytes |-> 2 * v.nelems * ElemSize,
                        size |-> v.size, elems |-> v.elems]
    BY <1>1 DEF DoubleCap, Vector
  <2>2. 2 * v.nelems * ElemSize \in Nat /\ 2 * v.nelems \in Nat \ {0}
    BY VectorAssumption DEF Vector
  <2>. QED  BY <1>1, <2>1, <2>2 DEF Vector
<1>2. CASE v.size # v.nelems
  BY <1>2 DEF DoubleCap, Vector, Fits
<1>. QED  BY <1>1, <1>2

\* The elements after an insertion: those from i on have moved right, none is
\* lost to the copy (cvec_insert 87-96).
InsertedElems(v, x, i) ==
    [k \in 0 .. v.size |-> IF k < i THEN v.elems[k] ELSE IF k = i THEN x ELSE v.elems[k - 1]]

\* An insertion keeps the vector sound and inserts one element (80-98).
LEMMA InsertFits ==
    ASSUME NEW v, Vector(v), Fits(v), NEW x \in Vals, NEW i \in 0 .. v.size
    PROVE  LET w == CvecInsert(v, x, i)
           IN  Vector(w) /\ Fits(w) /\ w.size = v.size + 1 /\ w.elems = InsertedElems(v, x, i)
<1>. DEFINE grown == DoubleCap(v)
            moved == IF i <= v.size - 1 THEN MoveRight(grown, i)
                     ELSE [k \in 0 .. v.size |-> IF k < v.size THEN v.elems[k] ELSE x]
<1>1. /\ grown = [nelems |-> grown.nelems, bytes |-> grown.bytes, size |-> v.size, elems |-> v.elems]
      /\ grown.nelems \in Nat \ {0} /\ grown.bytes \in Nat
      /\ v.size + 1 <= grown.nelems /\ grown.nelems * ElemSize <= grown.bytes
  BY DoubleCapFits
<1>2. CvecInsert(v, x, i) = [grown EXCEPT !.elems = [moved EXCEPT ![i] = x], !.size = @ + 1]
  BY DEF CvecInsert
<1>3. [moved EXCEPT ![i] = x] = InsertedElems(v, x, i)
  <2>1. grown.size = v.size /\ grown.elems = v.elems /\ v.size \in Nat
    BY <1>1 DEF Vector
  <2>. HIDE DEF grown
  <2>2. CASE i <= v.size - 1
    <3>1. moved = [k \in 0 .. v.size |->
                     IF k <= i /\ k < v.size THEN v.elems[k] ELSE v.elems[k - 1]]
      BY <2>1, <2>2 DEF MoveRight
    <3>2. \A k \in 0 .. v.size :
             (IF k = i THEN x ELSE moved[k])
               = IF k < i THEN v.elems[k] ELSE IF k = i THEN x ELSE v.elems[k - 1]
      BY <2>1, <2>2, <3>1
    <3>3. DOMAIN moved = 0 .. v.size
      BY <3>1
    <3>. HIDE DEF moved
    <3>4. [moved EXCEPT ![i] = x] = [k \in 0 .. v.size |-> IF k = i THEN x ELSE moved[k]]
      BY <3>3
    <3>. QED  BY <3>2, <3>4 DEF InsertedElems
  <2>3. CASE i = v.size
    <3>1. moved = [k \in 0 .. v.size |-> IF k < v.size THEN v.elems[k] ELSE x]
      BY <2>1, <2>3
    <3>2. \A k \in 0 .. v.size :
             (IF k = i THEN x ELSE moved[k])
               = IF k < i THEN v.elems[k] ELSE IF k = i THEN x ELSE v.elems[k - 1]
      BY <2>1, <2>3, <3>1
    <3>3. DOMAIN moved = 0 .. v.size
      BY <3>1
    <3>. HIDE DEF moved
    <3>4. [moved EXCEPT ![i] = x] = [k \in 0 .. v.size |-> IF k = i THEN x ELSE moved[k]]
      BY <3>3
    <3>. QED  BY <3>2, <3>4 DEF InsertedElems
  <2>. QED  BY <2>1, <2>2, <2>3
<1>4. InsertedElems(v, x, i) \in [0 .. v.size -> Vals]
  BY DEF InsertedElems, Vector
<1>. HIDE DEF grown, moved
<1>5. CvecInsert(v, x, i) = [nelems |-> grown.nelems, bytes |-> grown.bytes,
                             size |-> v.size + 1, elems |-> InsertedElems(v, x, i)]
  <2>1. CvecInsert(v, x, i) = [grown EXCEPT !.elems = InsertedElems(v, x, i), !.size = @ + 1]
    BY <1>2, <1>3
  <2>2. DOMAIN grown = {"nelems", "bytes", "size", "elems"} /\ grown.size = v.size
    BY <1>1
  <2>. HIDE DEF InsertedElems
  <2>. QED  BY <2>1, <2>2
<1>6. v.size \in Nat /\ (v.size + 1) - 1 = v.size
  BY DEF Vector
<1>. HIDE DEF Vector
<1>7. Vector(CvecInsert(v, x, i))
  BY <1>1, <1>4, <1>5, <1>6 DEF Vector
<1>8. Fits(CvecInsert(v, x, i))
  BY <1>1, <1>5 DEF Fits
<1>. QED  BY <1>5, <1>7, <1>8

\* Sorting permutes the elements in place (cvec_sort 132-135).
LEMMA SortFits ==
    ASSUME NEW v, Vector(v), Fits(v), NEW w \in CvecSort(v, Vals)
    PROVE  /\ Vector(w) /\ Fits(w) /\ w.size = v.size
           /\ InOrder(w, 0) /\ \A x \in Vals : Count(w, x) = Count(v, x)
<1>1. PICK e \in [0 .. v.size - 1 -> Vals] : w = [v EXCEPT !.elems = e]
  BY DEF CvecSort
<1>2. InOrder(w, 0) /\ \A x \in Vals : Count(w, x) = Count(v, x)
  BY DEF CvecSort
<1>. QED  BY <1>1, <1>2 DEF Vector, Fits

-----------------------------------------------------------------------------
\* A new vector satisfies the invariant.
LEMMA InitInv == Init => Inv
<1>. SUFFICES ASSUME Init PROVE Inv
  OBVIOUS
<1>1. PICK h \in Hints : vec = CvecCreate(h)
  BY DEF Init
<1>2. Vector(vec) /\ Fits(vec)
  BY <1>1, CreateFits, ClientAssumption
<1>. QED  BY <1>2 DEF Init, Inv, Seen, NULL

\* Every call, and every step of an iteration, keeps it.
LEMMA NextInv == Inv /\ [Next]_vars => Inv'
<1>. SUFFICES ASSUME Inv, [Next]_vars PROVE Inv'
  OBVIOUS
<1>. USE DEF Inv
<1>1. ASSUME NEW h \in Hints, Recreate(h) PROVE Inv'
  <2>1. vec' = CvecCreate(h) /\ cursor' = NULL /\ visited' = {}
    BY <1>1 DEF Recreate
  <2>2. Vector(vec') /\ Fits(vec')
    BY <2>1, CreateFits, ClientAssumption
  <2>. QED  BY <2>1, <2>2 DEF Seen, Vector, Fits
<1>2. ASSUME NEW x \in Vals, NEW i \in 0 .. vec.size, Insert(x, i) PROVE Inv'
  <2>1. cursor = NULL /\ vec' = CvecInsert(vec, x, i) /\ visited' = {} /\ cursor' = cursor
    BY <1>2 DEF Insert
  <2>2. Vector(vec') /\ Fits(vec')
    BY <2>1, InsertFits
  <2>. QED  BY <2>1, <2>2 DEF Seen, Vector, Fits
<1>3. ASSUME NEW x \in Vals, CvecAppend(x) PROVE Inv'
  <2>1. vec.size \in 0 .. vec.size
    BY DEF Vector
  <2>. QED  BY <1>2, <1>3, <2>1 DEF CvecAppend
<1>4. ASSUME NEW i \in 0 .. vec.size - 1, Nth(i) PROVE Inv'
  BY <1>4 DEF Nth, Seen, Vector, Fits
<1>5. ASSUME NEW i \in 0 .. vec.size - 1, NEW x \in Vals, Write(i, x) PROVE Inv'
  <2>1. vec' = [vec EXCEPT !.elems[i] = x] /\ UNCHANGED <<cursor, visited>>
    BY <1>5 DEF Write
  <2>2. vec' = [nelems |-> vec.nelems, bytes |-> vec.bytes, size |-> vec.size,
                elems |-> [vec.elems EXCEPT ![i] = x]]
    BY <2>1 DEF Vector
  <2>3. [vec.elems EXCEPT ![i] = x] \in [0 .. vec.size - 1 -> Vals]
    BY DEF Vector
  <2>. QED  BY <2>1, <2>2, <2>3 DEF Seen, Vector, Fits
<1>6. ASSUME NEW key, NEW start, NEW sorted, Search(key, start, sorted) PROVE Inv'
  BY <1>6 DEF Search, Seen, Vector, Fits
<1>7. CASE Sort
  <2>1. vec' \in CvecSort(vec, Vals) /\ cursor = NULL /\ visited' = {} /\ cursor' = cursor
    BY <1>7 DEF Sort
  <2>2. Vector(vec') /\ Fits(vec')
    BY <2>1, SortFits
  <2>. QED  BY <2>1, <2>2 DEF Seen, Vector, Fits
<1>8. CASE First
  BY <1>8 DEF First, CvecFirst, Seen, Vector, Fits, NULL
<1>9. CASE Advance
  BY <1>9 DEF Advance, CvecNext, Seen, Vector, Fits, NULL
<1>10. CASE UNCHANGED vars
  BY <1>10 DEF vars, Seen, Vector, Fits
<1>. QED  BY <1>1, <1>2, <1>3, <1>4, <1>5, <1>6, <1>7, <1>8, <1>9, <1>10 DEF Next

\* The elements before the count have been allocated, whatever the hint was.
LEMMA RoomForSize ==
    ASSUME NEW v, Vector(v), Fits(v)
    PROVE  v.size * ElemSize <= v.bytes
<1>1. v.size * ElemSize <= v.nelems * ElemSize
  BY VectorAssumption, TimesMonotone DEF Vector, Fits
<1>2. v.size * ElemSize \in Nat /\ v.nelems * ElemSize \in Nat
  BY VectorAssumption DEF Vector
<1>. QED  BY <1>1, <1>2 DEF Vector, Fits

\* The invariant holds of every behaviour.
THEOREM Invariance == Spec => []Inv
<1>. QED  BY InitInv, NextInv, PTL DEF Spec

\* Shape of the struct and of an iteration, for every hint, element and count
\* (cvector.c 23-28).
THEOREM TypeCorrect == Spec => []TypeOK
<1>1. Inv => TypeOK
  <2>. SUFFICES ASSUME Inv PROVE TypeOK
    OBVIOUS
  <2>1. vec \in [nelems : Nat \ {0}, bytes : Nat, size : Nat, elems : [0 .. vec.size - 1 -> Vals]]
    BY DEF Inv, Vector
  <2>. QED  BY <2>1 DEF Inv, Seen, TypeOK
<1>. QED  BY <1>1, Invariance, PTL

\* No element lies outside the array's block, whatever elemsz is up to the size
\* of a pointer and however long the vector grows (cvec_create 47, doubleCap 72-79).
THEOREM ElementsAlwaysFit == Spec => []ElementsFit
<1>1. Inv => ElementsFit
  BY RoomForSize DEF Inv, Fits, ElementsFit
<1>. QED  BY <1>1, Invariance, PTL

\* A loop over the vector that has ended has seen every index (cvec_next 143-150).
THEOREM IterationSeesAll == Spec => IterationComplete
<1>1. Inv /\ [Next]_vars => [Advance /\ cursor' = NULL => visited' = 0 .. vec.size - 1]_vars
  <2>. SUFFICES ASSUME Inv, Advance, cursor' = NULL
                PROVE  visited' = 0 .. vec.size - 1
    OBVIOUS
  <2>1. cursor # NULL /\ cursor \in 0 .. vec.size - 1 /\ visited = 0 .. cursor
    BY DEF Advance, Inv, Seen
  <2>2. cursor + 1 = vec.size
    BY <2>1 DEF Advance, CvecNext, NULL
  <2>3. visited' = visited
    BY DEF Advance
  <2>. QED  BY <2>1, <2>2, <2>3 DEF Inv, Vector
<1>. QED  BY <1>1, Invariance, PTL DEF Spec, IterationComplete

-----------------------------------------------------------------------------
\* The sequence of VectorPromise that a vector stands for.
Sequence(v) == [k \in 1 .. v.size |-> v.elems[k - 1]]

\* Index i of the vector is position i + 1 of the sequence.
LEMMA SequenceFacts ==
    ASSUME NEW v, Vector(v)
    PROVE  /\ v.size \in Nat /\ Sequence(v) \in Seq(Vals) /\ Len(Sequence(v)) = v.size
           /\ DOMAIN Sequence(v) = 1 .. v.size
           /\ \A i \in 0 .. v.size - 1 : Sequence(v)[i + 1] = v.elems[i]
<1>1. v.size \in Nat /\ \A k \in 1 .. v.size : v.elems[k - 1] \in Vals
  BY DEF Vector
<1>2. Sequence(v) \in [1 .. v.size -> Vals]
  BY <1>1 DEF Sequence
<1>. QED  BY <1>1, <1>2 DEF Sequence

\* A vector without elements is the empty sequence.
LEMMA EmptySequence ==
    ASSUME NEW v, Vector(v), v.size = 0
    PROVE  Sequence(v) = <<>>
BY SequenceFacts

\* Moving the elements by copying is insertion into the sequence (84-96).
LEMMA InsertIsInsertedAt ==
    ASSUME NEW v, Vector(v), Fits(v), NEW x \in Vals, NEW i \in 0 .. v.size
    PROVE  Sequence(CvecInsert(v, x, i)) = Abstract!InsertedAt(Sequence(v), i, x)
<1>. DEFINE w == CvecInsert(v, x, i)
            s == Sequence(v)
<1>1. w.size = v.size + 1 /\ w.elems = InsertedElems(v, x, i)
  BY InsertFits
<1>2. v.size \in Nat /\ Len(s) = v.size /\ \A k \in 1 .. v.size : s[k] = v.elems[k - 1]
  BY SequenceFacts DEF Sequence
<1>. HIDE DEF w, s
<1>3. Sequence(w) = [k \in 1 .. v.size + 1 |-> InsertedElems(v, x, i)[k - 1]]
  BY <1>1 DEF Sequence
<1>4. ASSUME NEW k \in 1 .. v.size + 1
      PROVE  InsertedElems(v, x, i)[k - 1]
               = IF k <= i THEN s[k] ELSE IF k = i + 1 THEN x ELSE s[k - 1]
  <2>1. k - 1 \in 0 .. v.size
    BY <1>2
  <2>2. InsertedElems(v, x, i)[k - 1]
          = IF k - 1 < i THEN v.elems[k - 1] ELSE IF k - 1 = i THEN x ELSE v.elems[k - 2]
    BY <2>1, <1>2 DEF InsertedElems
  <2>3. k <= i => k \in 1 .. v.size
    BY <1>2
  <2>4. k > i + 1 => k - 1 \in 1 .. v.size /\ (k - 1) - 1 = k - 2
    BY <1>2
  <2>. QED  BY <1>2, <2>2, <2>3, <2>4
<1>. QED  BY <1>2, <1>3, <1>4 DEF Abstract!InsertedAt, w, s

\* An element occurs as often in the sequence as in the vector.
LEMMA OccurrencesAreCount ==
    ASSUME NEW v, Vector(v), NEW x
    PROVE  Abstract!Occurrences(Sequence(v), x) = Count(v, x)
<1>. DEFINE A == {k \in 0 .. v.size - 1 : v.elems[k] = x}
            B == {k \in DOMAIN Sequence(v) : Sequence(v)[k] = x}
            f == [k \in A |-> k + 1]
<1>1. /\ v.size \in Nat /\ DOMAIN Sequence(v) = 1 .. v.size
      /\ \A k \in 1 .. v.size : Sequence(v)[k] = v.elems[k - 1]
  BY SequenceFacts DEF Sequence
<1>2. IsFiniteSet(A)
  <2>1. IsFiniteSet(0 .. v.size - 1)
    BY <1>1, FS_Interval
  <2>2. A \in SUBSET (0 .. v.size - 1)
    OBVIOUS
  <2>. QED  BY <2>1, <2>2, FS_Subset
<1>3. f \in [A -> B]
  BY <1>1
<1>4. \A j, k \in A : f[j] = f[k] => j = k
  BY <1>1
<1>5. ASSUME NEW k \in B PROVE \E j \in A : f[j] = k
  <2>1. k - 1 \in A /\ f[k - 1] = k
    BY <1>1
  <2>. QED  BY <2>1
<1>6. Cardinality(B) = Cardinality(A)
  <2>. HIDE DEF A, B, f
  <2>. QED  BY <1>2, <1>3, <1>4, <1>5, SameNumber
<1>. QED  BY <1>6 DEF Abstract!Occurrences, Count, Cardinality, Abstract!Cardinality

\* A search answers a matching index, or -1 when there is none (114-130).
LEMMA SearchFinds ==
    ASSUME NEW v, Vector(v), NEW key, NEW start \in Nat, NEW sorted \in BOOLEAN,
           NEW found \in CvecSearch(v, key, start, sorted)
    PROVE  LET hits == {i \in start .. v.size - 1 : v.elems[i] = key}
           IN  found \in (IF hits = {} THEN {-1} ELSE hits)
<1>. DEFINE hits == {i \in start .. v.size - 1 : v.elems[i] = key}
<1>1. hits \in SUBSET Nat
  BY DEF Vector
<1>2. CASE sorted
  BY <1>2 DEF CvecSearch, BinarySearch
<1>3. CASE ~sorted /\ hits = {}
  BY <1>3 DEF CvecSearch, LinearSearch
<1>4. CASE ~sorted /\ hits # {}
  <2>1. found = CHOOSE i \in hits : \A j \in hits : i <= j
    BY <1>4 DEF CvecSearch, LinearSearch
  <2>. HIDE DEF hits
  <2>2. \E i \in hits : \A j \in hits : i <= j
    BY <1>1, <1>4, LeastExists
  <2>3. found \in hits
    BY <2>1, <2>2
  <2>. QED  BY <2>3, <1>4 DEF hits
<1>. QED  BY <1>2, <1>3, <1>4

-----------------------------------------------------------------------------
\* A new vector is a new sequence (cvec_create 43-52).
LEMMA InitPromised == Init => Abstract!Init
<1>. SUFFICES ASSUME Init PROVE Abstract!Init
  OBVIOUS
<1>1. PICK h \in Hints : vec = CvecCreate(h)
  BY DEF Init
<1>2. Sequence(vec) = <<>>
  BY <1>1, CreateFits, EmptySequence, ClientAssumption
<1>. QED  BY <1>2 DEF Init, Abstract!Init, Abstract!Idle, NULL, Sequence

\* Dispose and create again empties the sequence (cvector.c 43-58).
LEMMA RecreatePromised ==
    ASSUME Inv, NEW h \in Hints, Recreate(h)
    PROVE  Abstract!Empty
<1>1. vec' = CvecCreate(h) /\ cursor' = NULL /\ answer' = <<>>
  BY DEF Recreate
<1>2. Sequence(vec') = <<>>
  BY <1>1, CreateFits, EmptySequence, ClientAssumption
<1>. QED  BY <1>1, <1>2 DEF Abstract!Empty, Abstract!Idle, NULL, Sequence

\* cvec_insert and cvec_append insert into the sequence (80-103).
LEMMA InsertPromised ==
    ASSUME Inv, NEW x \in Vals, NEW i \in 0 .. vec.size, Insert(x, i)
    PROVE  Abstract!Insert(x, i)
<1>1. cursor = NULL /\ vec' = CvecInsert(vec, x, i) /\ answer' = <<"insert", i, x>> /\ cursor' = cursor
  BY DEF Insert
<1>2. Sequence(vec') = Abstract!InsertedAt(Sequence(vec), i, x)
  BY <1>1, InsertIsInsertedAt DEF Inv
<1>. QED  BY <1>1, <1>2 DEF Abstract!Insert, Abstract!Idle, NULL, Sequence

\* What the client writes through a pointer changes that element (65-70).
LEMMA WritePromised ==
    ASSUME Inv, NEW i \in 0 .. vec.size - 1, NEW x \in Vals, Write(i, x)
    PROVE  Abstract!Write(i, x)
<1>1. vec' = [vec EXCEPT !.elems[i] = x] /\ answer' = <<"write", i, x>> /\ cursor' = cursor
  BY DEF Write
<1>2. vec'.size = vec.size /\ vec'.elems = [vec.elems EXCEPT ![i] = x]
  <2>1. DOMAIN vec = {"nelems", "bytes", "size", "elems"}
    BY DEF Inv, Vector
  <2>. QED  BY <1>1, <2>1
<1>3. vec.size \in Nat /\ vec.elems \in [0 .. vec.size - 1 -> Vals]
  BY DEF Inv, Vector
<1>4. Sequence(vec') = [Sequence(vec) EXCEPT ![i + 1] = x]
  <2>1. Sequence(vec') = [k \in 1 .. vec.size |-> vec'.elems[k - 1]]
    BY <1>2 DEF Sequence
  <2>2. \A k \in 1 .. vec.size : vec'.elems[k - 1] = IF k = i + 1 THEN x ELSE vec.elems[k - 1]
    BY <1>2, <1>3
  <2>3. [Sequence(vec) EXCEPT ![i + 1] = x]
          = [k \in 1 .. vec.size |-> IF k = i + 1 THEN x ELSE vec.elems[k - 1]]
    BY <1>3 DEF Sequence
  <2>. QED  BY <2>1, <2>2, <2>3
<1>. QED  BY <1>1, <1>4 DEF Abstract!Write, Sequence

\* cvec_nth answers the element of the sequence (65-70).
LEMMA NthPromised ==
    ASSUME Inv, NEW i \in 0 .. vec.size - 1, Nth(i)
    PROVE  Abstract!Nth(i)
<1>1. Sequence(vec)[i + 1] = vec.elems[i]
  BY SequenceFacts DEF Inv
<1>2. answer' = <<"nth", i, vec.elems[i]>> /\ UNCHANGED <<vec, cursor>>
  BY DEF Nth, CvecNth
<1>. QED  BY <1>1, <1>2 DEF Abstract!Nth, Sequence

\* cvec_search answers a position of the key at or after start (114-130).
LEMMA SearchPromised ==
    ASSUME Inv, NEW key \in Vals, NEW start \in 0 .. vec.size, NEW sorted \in BOOLEAN,
           Search(key, start, sorted)
    PROVE  Abstract!Search(key, start)
<1>. DEFINE hits == {i \in start .. vec.size - 1 : vec.elems[i] = key}
<1>1. PICK n \in CvecSearch(vec, key, start, sorted) :
        answer' = <<"search", key, start, n>> /\ UNCHANGED <<vec, cursor>>
  BY DEF Search
<1>2. n \in (IF hits = {} THEN {-1} ELSE hits)
  BY SearchFinds DEF Inv
<1>3. vec.size \in Nat /\ Len(Sequence(vec)) = vec.size
      /\ \A i \in 0 .. vec.size - 1 : Sequence(vec)[i + 1] = vec.elems[i]
  BY SequenceFacts DEF Inv
<1>4. hits = {i \in start .. Len(Sequence(vec)) - 1 : Sequence(vec)[i + 1] = key}
  BY <1>3
<1>. HIDE DEF hits
<1>. QED  BY <1>1, <1>2, <1>4 DEF Abstract!Search, Sequence

\* cvec_sort permutes the sequence into ascending order (132-135).
LEMMA SortPromised ==
    ASSUME Inv, Sort
    PROVE  Abstract!Sort
<1>1. vec' \in CvecSort(vec, Vals) /\ cursor = NULL /\ cursor' = cursor /\ answer' = <<>>
  BY DEF Sort
<1>2. /\ Vector(vec) /\ Vector(vec') /\ vec'.size = vec.size
      /\ InOrder(vec', 0) /\ \A x \in Vals : Count(vec', x) = Count(vec, x)
  BY <1>1, SortFits DEF Inv
<1>3. Len(Sequence(vec')) = Len(Sequence(vec))
  BY <1>2, SequenceFacts
<1>4. \A x \in Vals : Abstract!Occurrences(Sequence(vec'), x) = Abstract!Occurrences(Sequence(vec), x)
  BY <1>2, OccurrencesAreCount
<1>5. ASSUME NEW j \in DOMAIN Sequence(vec'), NEW k \in DOMAIN Sequence(vec'), j < k
      PROVE  Sequence(vec')[j] <= Sequence(vec')[k]
  <2>1. /\ vec'.size \in Nat /\ DOMAIN Sequence(vec') = 1 .. vec'.size
        /\ \A i \in 1 .. vec'.size : Sequence(vec')[i] = vec'.elems[i - 1]
    BY <1>2, SequenceFacts DEF Sequence
  <2>2. j - 1 \in 0 .. vec'.size - 1 /\ k - 1 \in 0 .. vec'.size - 1 /\ j - 1 < k - 1
    BY <1>5, <2>1
  <2>3. vec'.elems[j - 1] <= vec'.elems[k - 1]
    BY <1>2, <2>2 DEF InOrder
  <2>. QED  BY <2>1, <2>3
<1>. QED  BY <1>1, <1>3, <1>4, <1>5 DEF Abstract!Sort, Abstract!Idle, NULL, Sequence

\* An iteration goes through the positions of the sequence (137-150).
LEMMA IterationPromised ==
    ASSUME Inv, First \/ Advance
    PROVE  Abstract!First \/ Abstract!Advance
<1>1. vec.size \in Nat /\ Len(Sequence(vec)) = vec.size /\ (vec.size = 0 <=> Sequence(vec) = <<>>)
  BY SequenceFacts, EmptySequence DEF Inv
<1>2. CASE First
  <2>1. cursor = NULL /\ cursor' = CvecFirst(vec) /\ answer' = <<>> /\ vec' = vec
    BY <1>2 DEF First
  <2>. QED  BY <1>1, <2>1 DEF CvecFirst, NULL, Abstract!First, Abstract!Idle, Sequence
<1>3. CASE Advance
  <2>1. cursor # NULL /\ cursor' = CvecNext(vec, cursor) /\ answer' = <<>> /\ vec' = vec
    BY <1>3 DEF Advance
  <2>2. cursor \in 0 .. vec.size - 1
    BY <2>1 DEF Inv, Seen
  <2>3. cursor' = IF cursor + 1 < Len(Sequence(vec)) THEN cursor + 1 ELSE -1
    BY <1>1, <2>1, <2>2 DEF CvecNext, NULL
  <2>. QED  BY <2>1, <2>3 DEF NULL, Abstract!Advance, Abstract!Idle, Sequence
<1>. QED  BY <1>2, <1>3

\* Each call of the vector is a step of the sequence.
LEMMA NextPromised == Inv /\ [Next]_vars => [Abstract!Next]_(Abstract!vars)
<1>. SUFFICES ASSUME Inv, [Next]_vars PROVE [Abstract!Next]_(Abstract!vars)
  OBVIOUS
<1>1. vec.size \in Nat /\ Len(Sequence(vec)) = vec.size
  BY SequenceFacts DEF Inv
<1>2. ASSUME NEW h \in Hints, Recreate(h) PROVE Abstract!Next
  BY <1>2, RecreatePromised DEF Abstract!Next
<1>3. ASSUME NEW x \in Vals, NEW i \in 0 .. vec.size, Insert(x, i) PROVE Abstract!Next
  <2>1. Abstract!Insert(x, i)
    BY <1>3, InsertPromised
  <2>2. i \in 0 .. Len(Sequence(vec))
    BY <1>1
  <2>. QED  BY <2>1, <2>2 DEF Abstract!Next, Sequence
<1>4. ASSUME NEW x \in Vals, CvecAppend(x) PROVE Abstract!Next
  <2>1. vec.size \in 0 .. vec.size
    BY <1>1
  <2>. QED  BY <1>3, <1>4, <2>1 DEF CvecAppend
<1>5. ASSUME NEW i \in 0 .. vec.size - 1, Nth(i) PROVE Abstract!Next
  <2>1. Abstract!Nth(i)
    BY <1>5, NthPromised
  <2>2. i \in 0 .. Len(Sequence(vec)) - 1
    BY <1>1
  <2>. QED  BY <2>1, <2>2 DEF Abstract!Next, Sequence
<1>6. ASSUME NEW i \in 0 .. vec.size - 1, NEW x \in Vals, Write(i, x) PROVE Abstract!Next
  <2>1. Abstract!Write(i, x)
    BY <1>6, WritePromised
  <2>2. i \in 0 .. Len(Sequence(vec)) - 1
    BY <1>1
  <2>. QED  BY <2>1, <2>2 DEF Abstract!Next, Sequence
<1>7. ASSUME NEW key \in Vals, NEW start \in 0 .. vec.size, NEW sorted \in BOOLEAN,
             Search(key, start, sorted)
      PROVE  Abstract!Next
  <2>1. Abstract!Search(key, start)
    BY <1>7, SearchPromised
  <2>2. start \in 0 .. Len(Sequence(vec))
    BY <1>1
  <2>. QED  BY <2>1, <2>2 DEF Abstract!Next, Sequence
<1>8. CASE Sort
  BY <1>8, SortPromised DEF Abstract!Next
<1>9. CASE First \/ Advance
  BY <1>9, IterationPromised DEF Abstract!Next
<1>10. CASE UNCHANGED vars
  BY <1>10 DEF vars, Abstract!vars
<1>. QED  BY <1>2, <1>3, <1>4, <1>5, <1>6, <1>7, <1>8, <1>9, <1>10 DEF Next

\* The vector implements the sequence cvector.h promises, for every element
\* size up to a pointer's, every hint and any number of elements.
THEOREM SequenceImplemented == Spec => ImplementsSequence
<1>. QED  BY InitPromised, NextPromised, Invariance, PTL DEF Spec, ImplementsSequence, Abstract!Spec
=============================================================================
