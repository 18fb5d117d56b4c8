-------------------------- MODULE AllocatorProofs ---------------------------
(***************************************************************************)
(* The words of the heap are, between any two calls, the row of blocks of  *)
(* BlockHeapSpec: what Allocator reads and writes through headers, footers *)
(* and list links is what BlockHeap does to a set of blocks, for every     *)
(* page size, segment size, number of lists and set of requests.           *)
(***************************************************************************)
EXTENDS AllocatorSpec, NumberFacts, SequenceTheorems

-----------------------------------------------------------------------------
(***************************************************************************)
(* Words.                                                                  *)
(***************************************************************************)
\* The heap of the words, of whatever content.
WordHeap == [seg   : Segments,
             pages : Nat,
             fl    : [Buckets -> Nat],
             mem   : [Words -> Nat],
             base  : Nat]

\* Everything but the lists and the words is as before.
SameFrame(h, g) == g.seg = h.seg /\ g.pages = h.pages /\ g.base = h.base

\* A header tells size and allocation bit.
LEMMA PackFields ==
    ASSUME NEW size \in Nat, NEW alloc \in {0, 1}
    PROVE  /\ PACK(size, alloc) \in Nat
           /\ PACK(size, alloc) \div 8 = size
           /\ PACK(size, alloc) % 2 = alloc
BY DEF PACK

\* Every size belongs to a list.
LEMMA BucketInBuckets ==
    ASSUME NEW n
    PROVE  Bucket(n) \in Buckets
<1>. DEFINE halved == CHOOSE f : f = [k \in 0 .. (NumBuckets - 1) |-> IF k = 0 THEN n ELSE f[k - 1] \div 2]
            S == {k \in 0 .. (NumBuckets - 2) : halved[k] > 0}
<1>1. Bucket(n) = Cardinality(S)
  BY DEF Bucket
<1>. HIDE DEF halved
<1>2. NumBuckets - 1 \in Nat /\ IsFiniteSet(0 .. (NumBuckets - 2)) /\ Cardinality(0 .. (NumBuckets - 2)) = NumBuckets - 1
  BY LayoutAssumption, FS_Interval
<1>3. IsFiniteSet(S) /\ Cardinality(S) \in Nat /\ Cardinality(S) <= NumBuckets - 1
  BY <1>2, FS_Subset, FS_CardinalityType
<1>. QED  BY <1>1, <1>2, <1>3 DEF Buckets

-----------------------------------------------------------------------------
(***************************************************************************)
(* The lists.  N are the blocks on some list, cls the list each is on, and *)
(* rank, which no code computes, orders each list: the links never run in  *)
(* a circle.                                                               *)
(***************************************************************************)
Spaced(N) == /\ \A p \in N : /\ p \in Nat /\ p # NULL
                             /\ p \in Words /\ prev(p) \in Words /\ next(p) \in Words
             /\ \A p, q \in N : p = q \/ p + 5 <= q \/ q + 5 <= p

Linked(h, N, cls, rank, top) ==
    /\ cls \in [Nat -> Buckets] /\ rank \in [Nat -> Nat] /\ top \in Nat
    /\ \A i \in Buckets : h.fl[i] # NULL =>
         h.fl[i] \in N /\ cls[h.fl[i]] = i /\ h.mem[prev(h.fl[i])] = NULL
    /\ \A p \in N : h.mem[prev(p)] = NULL => h.fl[cls[p]] = p
    /\ \A p \in N : h.mem[prev(p)] # NULL =>
         /\ h.mem[prev(p)] \in N /\ cls[h.mem[prev(p)]] = cls[p]
         /\ h.mem[next(h.mem[prev(p)])] = p /\ rank[p] < rank[h.mem[prev(p)]]
    /\ \A p \in N : h.mem[next(p)] # NULL =>
         /\ h.mem[next(p)] \in N /\ cls[h.mem[next(p)]] = cls[p]
         /\ h.mem[prev(h.mem[next(p)])] = p
    /\ \A p \in N : rank[p] <= top

\* The links of the blocks in N.
Links(N) == {prev(p) : p \in N} \cup {next(p) : p \in N}

\* Words that are no links do not matter to the lists.
LEMMA LinkedFrame ==
    ASSUME NEW h, NEW g, NEW N, NEW cls, NEW rank, NEW top,
           Linked(h, N, cls, rank, top), g.fl = h.fl, \A w \in Links(N) : g.mem[w] = h.mem[w]
    PROVE  Linked(g, N, cls, rank, top)
<1>1. \A p \in N : g.mem[prev(p)] = h.mem[prev(p)] /\ g.mem[next(p)] = h.mem[next(p)]
  BY DEF Links
<1>. QED  BY <1>1 DEF Linked

\* What delete_node does, in one case after the other.
LEMMA DeleteFields ==
    ASSUME NEW h \in WordHeap, NEW p
    PROVE  LET g == DeleteNode(h, p)
               before == h.mem[prev(p)]
               after == h.mem[next(p)]
               i == BucketOf(h, p)
           IN  /\ SameFrame(h, g)
               /\ g.fl = IF before = NULL THEN [h.fl EXCEPT ![i] = after] ELSE h.fl
               /\ g.mem = IF before = NULL
                          THEN IF after # NULL THEN [h.mem EXCEPT ![prev(after)] = NULL] ELSE h.mem
                          ELSE IF after = NULL THEN [h.mem EXCEPT ![next(before)] = NULL]
                          ELSE [h.mem EXCEPT ![next(before)] = after, ![prev(after)] = before]
               /\ DOMAIN g = DOMAIN h
               /\ g = [h EXCEPT !.fl = g.fl, !.mem = g.mem]
BY DEF DeleteNode, WordHeap, SameFrame, GET

\* delete_node takes its block off its list, and writes only to the links of
\* the blocks that stay.
LEMMA DeleteLinked ==
    ASSUME NEW h \in WordHeap, NEW N, NEW cls, NEW rank, NEW top, Spaced(N),
           Linked(h, N, cls, rank, top), NEW p \in N, BucketOf(h, p) = cls[p]
    PROVE  LET g == DeleteNode(h, p)
           IN  /\ g \in WordHeap /\ SameFrame(h, g)
               /\ Linked(g, N \ {p}, cls, rank, top)
               /\ \A w \in Words : w \notin Links(N \ {p}) => g.mem[w] = h.mem[w]
<1>. DEFINE g == DeleteNode(h, p)
            before == h.mem[prev(p)]
            after == h.mem[next(p)]
            i == cls[p]
<1>1. /\ h.fl \in [Buckets -> Nat] /\ h.mem \in [Words -> Nat]
      /\ h.seg \in Segments /\ h.pages \in Nat /\ h.base \in Nat
  BY DEF WordHeap
<1>2. /\ SameFrame(h, g)
      /\ g.fl = IF before = NULL THEN [h.fl EXCEPT ![i] = after] ELSE h.fl
      /\ g.mem = IF before = NULL
                 THEN IF after # NULL THEN [h.mem EXCEPT ![prev(after)] = NULL] ELSE h.mem
                 ELSE IF after = NULL THEN [h.mem EXCEPT ![next(before)] = NULL]
                 ELSE [h.mem EXCEPT ![next(before)] = after, ![prev(after)] = before]
      /\ g = [h EXCEPT !.fl = g.fl, !.mem = g.mem]
  BY DeleteFields
<1>3. i \in Buckets /\ before \in Nat /\ after \in Nat
  BY <1>1 DEF Linked, Spaced
<1>4. /\ before # NULL => before \in N \ {p} /\ cls[before] = i /\ h.mem[next(before)] = p
      /\ before = NULL => h.fl[i] = p
      /\ after # NULL => after \in N \ {p} /\ cls[after] = i /\ h.mem[prev(after)] = p
      /\ before # NULL /\ after # NULL => before # after /\ rank[after] < rank[before]
  BY <1>1, <1>3 DEF Linked, Spaced
<1>. HIDE DEF g, before, after, i
<1>5. g.fl \in [Buckets -> Nat] /\ g.mem \in [Words -> Nat]
  BY <1>1, <1>2, <1>3, <1>4 DEF Spaced
<1>6. g \in WordHeap
  BY <1>1, <1>2, <1>5 DEF WordHeap
<1>7. \A w \in Words : w \notin Links(N \ {p}) => g.mem[w] = h.mem[w]
  BY <1>1, <1>2, <1>4 DEF Spaced, Links
<1>8. ASSUME NEW q \in N \ {p}
      PROVE  /\ g.mem[prev(q)] = IF q = after THEN before ELSE h.mem[prev(q)]
             /\ g.mem[next(q)] = IF q = before THEN after ELSE h.mem[next(q)]
  BY <1>1, <1>2, <1>3, <1>4 DEF Spaced, prev, next, NULL
<1>9. \A j \in Buckets : g.fl[j] = IF j = i /\ before = NULL THEN after ELSE h.fl[j]
  BY <1>1, <1>2, <1>3
<1>10. /\ \A q \in N : h.mem[prev(q)] = p => q = after
       /\ \A q \in N : h.mem[next(q)] = p => q = before
  BY DEF Linked, Spaced, before, after
<1>11. Linked(g, N \ {p}, cls, rank, top)
  <2>1. \A j \in Buckets : g.fl[j] # NULL =>
          g.fl[j] \in N \ {p} /\ cls[g.fl[j]] = j /\ g.mem[prev(g.fl[j])] = NULL
    <3>. SUFFICES ASSUME NEW j \in Buckets, g.fl[j] # NULL
                  PROVE  g.fl[j] \in N \ {p} /\ cls[g.fl[j]] = j /\ g.mem[prev(g.fl[j])] = NULL
      OBVIOUS
    <3>1. CASE j = i /\ before = NULL
      BY <1>4, <1>8, <1>9, <3>1
    <3>2. CASE ~(j = i /\ before = NULL)
      <4>1. g.fl[j] = h.fl[j] /\ h.fl[j] \in N /\ cls[h.fl[j]] = j /\ h.mem[prev(h.fl[j])] = NULL
        BY <1>9, <3>2 DEF Linked
      <4>2. h.fl[j] # p
        BY <1>4, <3>2, <4>1 DEF before, i
      <4>3. h.fl[j] = after => before = NULL
        BY <1>4, <4>1 DEF before, after, Spaced
      <4>. QED  BY <1>8, <4>1, <4>2, <4>3
    <3>. QED  BY <3>1, <3>2
  <2>2. \A q \in N \ {p} : g.mem[prev(q)] = NULL => g.fl[cls[q]] = q
    <3>. SUFFICES ASSUME NEW q \in N \ {p}, g.mem[prev(q)] = NULL PROVE g.fl[cls[q]] = q
      OBVIOUS
    <3>1. cls[q] \in Buckets
      BY DEF Linked, Spaced
    <3>2. CASE q = after
      BY <1>4, <1>8, <1>9, <3>1, <3>2 DEF Spaced
    <3>3. CASE q # after
      <4>1. h.fl[cls[q]] = q /\ h.mem[prev(q)] = NULL
        BY <1>8, <3>3 DEF Linked
      <4>2. ~(cls[q] = i /\ before = NULL)
        BY <1>4, <4>1
      <4>. QED  BY <1>9, <3>1, <4>1, <4>2
    <3>. QED  BY <3>2, <3>3
  <2>3. \A q \in N \ {p} : g.mem[prev(q)] # NULL =>
          /\ g.mem[prev(q)] \in N \ {p} /\ cls[g.mem[prev(q)]] = cls[q]
          /\ g.mem[next(g.mem[prev(q)])] = q /\ rank[q] < rank[g.mem[prev(q)]]
    <3>. SUFFICES ASSUME NEW q \in N \ {p}, g.mem[prev(q)] # NULL
                  PROVE  /\ g.mem[prev(q)] \in N \ {p} /\ cls[g.mem[prev(q)]] = cls[q]
                         /\ g.mem[next(g.mem[prev(q)])] = q /\ rank[q] < rank[g.mem[prev(q)]]
      OBVIOUS
    <3>1. CASE q = after
      <4>1. g.mem[prev(q)] = before /\ before # NULL /\ after # NULL
        BY <1>8, <3>1 DEF Spaced
      <4>. QED  BY <1>4, <1>8, <3>1, <4>1
    <3>2. CASE q # after
      <4>1. /\ g.mem[prev(q)] = h.mem[prev(q)] /\ h.mem[prev(q)] \in N
            /\ cls[h.mem[prev(q)]] = cls[q]
            /\ h.mem[next(h.mem[prev(q)])] = q /\ rank[q] < rank[h.mem[prev(q)]]
        BY <1>8, <3>2 DEF Linked
      <4>2. h.mem[prev(q)] # p /\ h.mem[prev(q)] # before
        BY <1>4, <1>10, <3>2, <4>1 DEF Spaced
      <4>. QED  BY <1>8, <4>1, <4>2
    <3>. QED  BY <3>1, <3>2
  <2>4. \A q \in N \ {p} : g.mem[next(q)] # NULL =>
          /\ g.mem[next(q)] \in N \ {p} /\ cls[g.mem[next(q)]] = cls[q]
          /\ g.mem[prev(g.mem[next(q)])] = q
    <3>. SUFFICES ASSUME NEW q \in N \ {p}, g.mem[next(q)] # NULL
                  PROVE  /\ g.mem[next(q)] \in N \ {p} /\ cls[g.mem[next(q)]] = cls[q]
                         /\ g.mem[prev(g.mem[next(q)])] = q
      OBVIOUS
    <3>1. CASE q = before
      <4>1. g.mem[next(q)] = after /\ before # NULL /\ after # NULL
        BY <1>8, <3>1 DEF Spaced
      <4>. QED  BY <1>4, <1>8, <3>1, <4>1
    <3>2. CASE q # before
      <4>1. /\ g.mem[next(q)] = h.mem[next(q)] /\ h.mem[next(q)] \in N
            /\ cls[h.mem[next(q)]] = cls[q] /\ h.mem[prev(h.mem[next(q)])] = q
        BY <1>8, <3>2 DEF Linked
      <4>2. h.mem[next(q)] # p /\ h.mem[next(q)] # after
        BY <1>4, <1>10, <3>2, <4>1 DEF Spaced
      <4>. QED  BY <1>8, <4>1, <4>2
    <3>. QED  BY <3>1, <3>2
  <2>. QED  BY <2>1, <2>2, <2>3, <2>4 DEF Linked
<1>. QED  BY <1>2, <1>6, <1>7, <1>11 DEF g

\* The heap g has p first on its list, and differs from h in links only.
PushedOn(h, g, N, cls, top, p) ==
    /\ g \in WordHeap /\ SameFrame(h, g)
    /\ \E cls2, rank2 : /\ Linked(g, N \cup {p}, cls2, rank2, top + 1)
                        /\ cls2[p] = BucketOf(h, p) /\ \A q \in N : cls2[q] = cls[q]
    /\ \A w \in Words : w \notin Links(N \cup {p}) => g.mem[w] = h.mem[w]

\* insert_node puts its block first on the list of its size, and writes only
\* to its links and those of the other blocks on lists.
LEMMA PushLinked ==
    ASSUME NEW h \in WordHeap, NEW N, NEW cls, NEW rank, NEW top,
           Linked(h, N, cls, rank, top), NEW p, p \notin N, Spaced(N \cup {p}),
           BucketOf(h, p) \in Buckets
    PROVE  PushedOn(h, PushFront(h, p), N, cls, top, p)
<1>. DEFINE g == PushFront(h, p)
            i == BucketOf(h, p)
            head == h.fl[i]
            linked == [h.mem EXCEPT ![prev(p)] = NULL, ![next(p)] = head]
            cls2 == [cls EXCEPT ![p] = i]
            rank2 == [rank EXCEPT ![p] = top + 1]
<1>1. /\ h.fl \in [Buckets -> Nat] /\ h.mem \in [Words -> Nat]
      /\ h.seg \in Segments /\ h.pages \in Nat /\ h.base \in Nat
  BY DEF WordHeap
<1>2. /\ SameFrame(h, g)
      /\ g.fl = [h.fl EXCEPT ![i] = p]
      /\ g.mem = IF head # NULL THEN [linked EXCEPT ![prev(head)] = p] ELSE linked
      /\ g = [h EXCEPT !.fl = g.fl, !.mem = g.mem]
  BY DEF PushFront, WordHeap, SameFrame
<1>3. /\ i \in Buckets /\ head \in Nat /\ p \in Nat /\ p # NULL
      /\ p \in Words /\ prev(p) \in Words /\ next(p) \in Words
  BY <1>1 DEF Spaced
<1>4. head # NULL => head \in N /\ cls[head] = i /\ h.mem[prev(head)] = NULL
  BY <1>3 DEF Linked
<1>. HIDE DEF g, i, head
<1>5. /\ cls2 \in [Nat -> Buckets] /\ rank2 \in [Nat -> Nat]
      /\ cls2[p] = i /\ rank2[p] = top + 1 /\ top \in Nat
      /\ \A q \in N : cls2[q] = cls[q] /\ rank2[q] = rank[q] /\ rank[q] <= top
      /\ \A q \in N : q \in Nat /\ rank[q] \in Nat
  BY <1>3 DEF Linked, Spaced
<1>. HIDE DEF cls2, rank2
<1>6. /\ linked \in [Words -> Nat] /\ linked[prev(p)] = NULL /\ linked[next(p)] = head
      /\ \A w \in Words : w # prev(p) /\ w # next(p) => linked[w] = h.mem[w]
  BY <1>1, <1>3 DEF prev, next, NULL
<1>. HIDE DEF linked
<1>7. g.fl \in [Buckets -> Nat] /\ g.mem \in [Words -> Nat]
  BY <1>1, <1>2, <1>3, <1>4, <1>6 DEF Spaced
<1>8. g \in WordHeap
  BY <1>1, <1>2, <1>7 DEF WordHeap
<1>9. \A w \in Words : w \notin Links(N \cup {p}) => g.mem[w] = h.mem[w]
  BY <1>2, <1>4, <1>6 DEF Links, Spaced
<1>10. /\ g.mem[prev(p)] = NULL /\ g.mem[next(p)] = head
       /\ head # NULL => g.mem[prev(head)] = p
       /\ \A q \in N : q # head => g.mem[prev(q)] = h.mem[prev(q)]
       /\ \A q \in N : g.mem[next(q)] = h.mem[next(q)]
  <2>1. /\ \A q \in N : /\ q \in Nat /\ prev(q) \in Words /\ next(q) \in Words
                        /\ prev(q) # prev(p) /\ prev(q) # next(p)
                        /\ next(q) # prev(p) /\ next(q) # next(p)
        /\ \A q, r \in N : next(q) # prev(r) /\ (q # r => prev(q) # prev(r))
    BY DEF Spaced, prev, next
  <2>2. CASE head = NULL
    <3>1. \A q \in N : q # head
      BY <2>2 DEF Spaced
    <3>. QED  BY <1>2, <1>6, <2>1, <2>2, <3>1
  <2>3. CASE head # NULL
    <3>1. g.mem = [linked EXCEPT ![prev(head)] = p] /\ prev(head) \in Words
      BY <1>2, <1>4, <2>1, <2>3
    <3>2. \A w \in Words : g.mem[w] = IF w = prev(head) THEN p ELSE linked[w]
      BY <1>6, <3>1
    <3>. QED  BY <1>3, <1>4, <1>6, <2>1, <2>3, <3>2
  <2>. QED  BY <2>2, <2>3
<1>11. \A j \in Buckets : g.fl[j] = IF j = i THEN p ELSE h.fl[j]
  BY <1>1, <1>2
<1>12. Linked(g, N \cup {p}, cls2, rank2, top + 1)
  <2>1. \A j \in Buckets : g.fl[j] # NULL =>
          g.fl[j] \in N \cup {p} /\ cls2[g.fl[j]] = j /\ g.mem[prev(g.fl[j])] = NULL
    <3>. SUFFICES ASSUME NEW j \in Buckets, j # i, g.fl[j] # NULL
                  PROVE  g.fl[j] \in N /\ cls2[g.fl[j]] = j /\ g.mem[prev(g.fl[j])] = NULL
      BY <1>5, <1>10, <1>11
    <3>1. g.fl[j] = h.fl[j] /\ h.fl[j] \in N /\ cls[h.fl[j]] = j /\ h.mem[prev(h.fl[j])] = NULL
      BY <1>11 DEF Linked
    <3>2. h.fl[j] # head
      BY <1>4, <3>1 DEF Spaced
    <3>. QED  BY <1>5, <1>10, <3>1, <3>2
  <2>2. \A q \in N \cup {p} : g.mem[prev(q)] = NULL => g.fl[cls2[q]] = q
    <3>. SUFFICES ASSUME NEW q \in N, g.mem[prev(q)] = NULL PROVE g.fl[cls[q]] = q
      BY <1>3, <1>5, <1>11
    <3>1. q # head /\ h.mem[prev(q)] = NULL
      BY <1>3, <1>10 DEF Spaced
    <3>2. h.fl[cls[q]] = q /\ cls[q] \in Buckets
      BY <1>5, <3>1 DEF Linked
    <3>. QED  BY <1>11, <3>1, <3>2 DEF head
  <2>3. \A q \in N \cup {p} : g.mem[prev(q)] # NULL =>
          /\ g.mem[prev(q)] \in N \cup {p} /\ cls2[g.mem[prev(q)]] = cls2[q]
          /\ g.mem[next(g.mem[prev(q)])] = q /\ rank2[q] < rank2[g.mem[prev(q)]]
    <3>. SUFFICES ASSUME NEW q \in N, g.mem[prev(q)] # NULL
                  PROVE  /\ g.mem[prev(q)] \in N \cup {p} /\ cls2[g.mem[prev(q)]] = cls[q]
                         /\ g.mem[next(g.mem[prev(q)])] = q /\ rank[q] < rank2[g.mem[prev(q)]]
      BY <1>5, <1>10
    <3>1. CASE q = head
      <4>1. g.mem[prev(q)] = p /\ g.mem[next(p)] = q /\ cls[q] = i
        BY <1>4, <1>10, <3>1 DEF Spaced
      <4>. QED  BY <1>5, <4>1
    <3>2. CASE q # head
      <4>1. /\ g.mem[prev(q)] = h.mem[prev(q)] /\ h.mem[prev(q)] \in N
            /\ cls[h.mem[prev(q)]] = cls[q]
            /\ h.mem[next(h.mem[prev(q)])] = q /\ rank[q] < rank[h.mem[prev(q)]]
        BY <1>10, <3>2 DEF Linked
      <4>. QED  BY <1>5, <1>10, <4>1
    <3>. QED  BY <3>1, <3>2
  <2>4. \A q \in N \cup {p} : g.mem[next(q)] # NULL =>
          /\ g.mem[next(q)] \in N \cup {p} /\ cls2[g.mem[next(q)]] = cls2[q]
          /\ g.mem[prev(g.mem[next(q)])] = q
    <3>1. ASSUME head # NULL
          PROVE  head \in N /\ cls2[head] = i /\ g.mem[prev(head)] = p
      BY <1>4, <1>5, <1>10, <3>1
    <3>2. ASSUME NEW q \in N, h.mem[next(q)] # NULL
          PROVE  /\ h.mem[next(q)] \in N /\ cls2[h.mem[next(q)]] = cls2[q]
                 /\ g.mem[prev(h.mem[next(q)])] = q
      <4>1. /\ h.mem[next(q)] \in N /\ cls[h.mem[next(q)]] = cls[q]
            /\ h.mem[prev(h.mem[next(q)])] = q
        BY <3>2 DEF Linked
      <4>2. h.mem[next(q)] # head
        BY <1>4, <4>1 DEF Spaced
      <4>. QED  BY <1>5, <1>10, <4>1, <4>2
    <3>. QED  BY <1>5, <1>10, <3>1, <3>2
  <2>5. \A q \in N \cup {p} : rank2[q] <= top + 1
    BY <1>5
  <2>. QED  BY <1>5, <2>1, <2>2, <2>3, <2>4, <2>5 DEF Linked
<1>. QED  BY <1>2, <1>5, <1>8, <1>9, <1>12 DEF g, i, PushedOn

-----------------------------------------------------------------------------
(***************************************************************************)
(* The theorems about BlockHeapSpec, of the blocks that the words hold.    *)
(***************************************************************************)
H == INSTANCE BlockHeapProofs
       WITH heap <- [seg    |-> heap.seg,
                     base   |-> heap.base,
                     pages  |-> heap.pages,
                     blocks |-> Blocks]

\* The first word after a block.
Stop(b) == b.at + b.size + 2

Bit(b) == IF b.alloc THEN 1 ELSE 0

\* Blocks that fit beside each other and beside the words in E.
Clear(b, c) == Stop(b) <= c.at \/ Stop(c) <= b.at

Fitting(X, E) ==
    /\ \A b \in X : 0 < b.at /\ 3 <= b.size /\ Stop(b) <= NumWords
    /\ \A b, c \in X : (b.at = c.at /\ b.size = c.size) \/ Clear(b, c)
    /\ \A b \in X, w \in E : w < b.at \/ Stop(b) <= w

Tagged(mem, b) ==
    /\ mem[b.at] = PACK(b.size, Bit(b))
    /\ mem[b.at + 1 + b.size] = PACK(b.size, Bit(b))

At(F) == {f.at : f \in F}

\* The blocks on lists.
Listing(h, F) ==
    \E cls, rank, top :
        /\ Linked(h, At(F), cls, rank, top)
        /\ \A f \in F : cls[f.at] = Bucket(f.size)

\* The words tell of the blocks in B and of the prologue and epilogue words in
\* E; those in F are on the lists.
Rep(h, B, F, E) ==
    /\ h \in WordHeap
    /\ B \in SUBSET H!Block /\ F \in SUBSET H!Block /\ E \in SUBSET Words
    /\ Fitting(B \cup F, E)
    /\ \A b \in B \cup F : ~b.alloc => b.want = 0
    /\ \A f \in F : ~f.alloc
    /\ \A b \in B : Tagged(h.mem, b)
    /\ \A w \in E : h.mem[w] = PACK(0, 1)
    /\ Listing(h, F)

\* The word is in no block of F: neither tag nor payload.
Apart(w, F) == \A f \in F : w < f.at \/ Stop(f) <= w

\* From h to g, words have changed within the blocks of F only.
OnlyIn(h, g, F) == \A w \in Words : Apart(w, F) => g.mem[w] = h.mem[w]

LEMMA OnlyInBoth ==
    ASSUME NEW h, NEW g, NEW k, NEW F, NEW G, NEW D, OnlyIn(h, g, F), OnlyIn(g, k, G),
           \A w \in Words : Apart(w, D) => Apart(w, F) /\ Apart(w, G)
    PROVE  OnlyIn(h, k, D)
BY DEF OnlyIn

LEMMA WordsRange ==
    /\ NumWords \in Nat
    /\ \A w : w \in Words <=> w \in Nat /\ w < NumWords
<1>1. NumWords \in Nat
  BY LayoutAssumption, SegmentAssumption DEF NumWords
<1>. QED  BY <1>1 DEF Words

\* Blocks lie at least five words apart, so each has a fifth of its own.
LEMMA FifthsRange ==
    /\ MoreThanBlocks \in Nat /\ MoreThanBlocks # 0
    /\ \A w \in Words : w \div 5 \in 0 .. (MoreThanBlocks - 2)
<1>1. NumWords \div 5 \in Nat
  BY WordsRange
<1>. QED  BY <1>1, WordsRange DEF MoreThanBlocks

LEMMA FifthsApart ==
    ASSUME NEW p \in Nat, NEW q \in Nat, p + 5 <= q
    PROVE  p \div 5 # q \div 5
OBVIOUS

\* The fields of a block are numbers.
LEMMA BlockParts ==
    ASSUME NEW b \in H!Block
    PROVE  /\ b.at \in Nat /\ b.size \in Nat /\ b.want \in Nat /\ b.alloc \in BOOLEAN
           /\ Stop(b) \in Nat /\ H!EndOf(b) = Stop(b) /\ Bit(b) \in {0, 1}
BY DEF H!Block, Stop, H!EndOf, H!TagWords, Bit

\* The lists are spaced, as the blocks are.
LEMMA ListsSpaced ==
    ASSUME NEW F \in SUBSET H!Block, NEW E, Fitting(F, E),
           \A f \in F : ~f.alloc /\ f.want = 0
    PROVE  /\ Spaced(At(F))
           /\ \A f, g \in F : f.at = g.at => f = g
<1>1. \A f \in F : /\ f.at \in Nat /\ f.size \in Nat /\ f.at # 0 /\ 3 <= f.size
                   /\ Stop(f) <= NumWords /\ Stop(f) = f.at + f.size + 2
  BY BlockParts DEF Fitting, Stop
<1>2. \A f, g \in F : (f.at = g.at /\ f.size = g.size) \/ Stop(f) <= g.at \/ Stop(g) <= f.at
  BY DEF Fitting, Clear
<1>3. \A f, g \in F : f.at = g.at => f = g
  <2>. SUFFICES ASSUME NEW f \in F, NEW g \in F, f.at = g.at PROVE f = g
    OBVIOUS
  <2>1. f.size = g.size
    BY <1>1, <1>2
  <2>. QED  BY <2>1 DEF H!Block
<1>4. Spaced(At(F))
  <2>1. \A f \in F : f.at \in Words /\ prev(f.at) \in Words /\ next(f.at) \in Words
    BY <1>1, WordsRange DEF prev, next
  <2>2. \A f, g \in F : f.at = g.at \/ f.at + 5 <= g.at \/ g.at + 5 <= f.at
    BY <1>1, <1>2
  <2>. QED  BY <1>1, <2>1, <2>2 DEF Spaced, At, NULL
<1>. QED  BY <1>3, <1>4

\* The links of a block on a list are no tags and no edges.
LEMMA LinksClear ==
    ASSUME NEW B \in SUBSET H!Block, NEW F \in SUBSET H!Block, NEW E \in SUBSET Words,
           Fitting(B \cup F, E)
    PROVE  /\ \A b \in B : b.at \in Words \ Links(At(F)) /\ b.at + 1 + b.size \in Words \ Links(At(F))
           /\ \A w \in E : w \notin Links(At(F))
<1>1. \A b \in B \cup F : /\ b.at \in Nat /\ b.size \in Nat /\ 0 < b.at /\ 3 <= b.size
                         /\ Stop(b) <= NumWords /\ Stop(b) = b.at + b.size + 2
  BY BlockParts DEF Fitting, Stop
<1>2. \A b \in B : b.at \in Words /\ b.at + 1 + b.size \in Words
  BY <1>1, WordsRange
<1>3. ASSUME NEW b \in B, NEW f \in F
      PROVE  /\ b.at # prev(f.at) /\ b.at # next(f.at)
             /\ b.at + 1 + b.size # prev(f.at) /\ b.at + 1 + b.size # next(f.at)
  <2>1. (b.at = f.at /\ b.size = f.size) \/ Stop(b) <= f.at \/ Stop(f) <= b.at
    BY DEF Fitting, Clear
  <2>. QED  BY <1>1, <2>1 DEF prev, next
<1>4. ASSUME NEW w \in E, NEW f \in F
      PROVE  w # prev(f.at) /\ w # next(f.at)
  <2>1. w < f.at \/ Stop(f) <= w
    BY DEF Fitting
  <2>2. w \in Nat
    BY WordsRange
  <2>. QED  BY <1>1, <2>1, <2>2 DEF prev, next
<1>. QED  BY <1>2, <1>3, <1>4 DEF Links, At

\* So a word in no block of F is none of their links.
LEMMA ApartLinks ==
    ASSUME NEW F \in SUBSET H!Block, \A f \in F : 3 <= f.size, NEW w \in Words, Apart(w, F)
    PROVE  w \notin Links(At(F))
<1>1. w \in Nat
  BY WordsRange
<1>2. \A f \in F : w # prev(f.at) /\ w # next(f.at)
  BY <1>1, BlockParts DEF Apart, Stop, prev, next
<1>. QED  BY <1>2 DEF Links, At

\* What is no longer looked at cannot be wrong.
LEMMA RepDrop ==
    ASSUME NEW h, NEW B, NEW F, NEW E, Rep(h, B, F, E), NEW C \in SUBSET B, NEW D \in SUBSET E
    PROVE  Rep(h, C, F, D)
<1>1. Fitting(C \cup F, D)
  BY DEF Rep, Fitting
<1>. QED  BY <1>1 DEF Rep

\* delete_node of a block whose header still has its size.
LEMMA RepDelete ==
    ASSUME NEW h, NEW B, NEW F, NEW E, Rep(h, B, F, E), NEW f \in F,
           GET_SIZE(h, f.at) = f.size
    PROVE  LET g == DeleteNode(h, f.at)
           IN  Rep(g, B, F \ {f}, E) /\ SameFrame(h, g) /\ OnlyIn(h, g, F)
<1>. DEFINE g == DeleteNode(h, f.at)
            G == F \ {f}
<1>1. /\ h \in WordHeap /\ B \in SUBSET H!Block /\ F \in SUBSET H!Block /\ E \in SUBSET Words
      /\ Fitting(B \cup F, E) /\ \A x \in F : ~x.alloc /\ x.want = 0
  BY DEF Rep
<1>2. PICK cls, rank, top : /\ Linked(h, At(F), cls, rank, top)
                            /\ \A x \in F : cls[x.at] = Bucket(x.size)
  BY DEF Rep, Listing
<1>3. Fitting(F, E) /\ Fitting(B \cup G, E)
  BY <1>1 DEF Fitting
<1>4. Spaced(At(F)) /\ At(G) = At(F) \ {f.at} /\ f.at \in At(F)
  <2>1. Spaced(At(F)) /\ \A x, y \in F : x.at = y.at => x = y
    BY <1>1, <1>3, ListsSpaced
  <2>. QED  BY <2>1 DEF At
<1>5. BucketOf(h, f.at) = cls[f.at]
  BY <1>2 DEF BucketOf
<1>6. /\ g \in WordHeap /\ SameFrame(h, g)
      /\ Linked(g, At(G), cls, rank, top)
      /\ \A w \in Words : w \notin Links(At(G)) => g.mem[w] = h.mem[w]
  <2>. DEFINE p == f.at
              N == At(F)
  <2>1. h \in WordHeap /\ Spaced(N) /\ Linked(h, N, cls, rank, top) /\ p \in N
        /\ BucketOf(h, p) = cls[p]
    BY <1>1, <1>2, <1>4, <1>5
  <2>. HIDE DEF p, N
  <2>2. LET d == DeleteNode(h, p)
        IN  /\ d \in WordHeap /\ SameFrame(h, d)
            /\ Linked(d, N \ {p}, cls, rank, top)
            /\ \A w \in Words : w \notin Links(N \ {p}) => d.mem[w] = h.mem[w]
    BY <2>1, DeleteLinked
  <2>. QED  BY <2>2, <1>4 DEF p, N
<1>. HIDE DEF g
<1>7. /\ \A b \in B : g.mem[b.at] = h.mem[b.at] /\ g.mem[b.at + 1 + b.size] = h.mem[b.at + 1 + b.size]
      /\ \A w \in E : g.mem[w] = h.mem[w]
  <2>1. G \in SUBSET H!Block
    BY <1>1
  <2>. QED  BY <1>1, <1>3, <1>6, <2>1, LinksClear
<1>8. /\ \A b \in B : Tagged(g.mem, b)
      /\ \A w \in E : g.mem[w] = PACK(0, 1)
  BY <1>7 DEF Rep, Tagged
<1>9. Listing(g, G)
  BY <1>2, <1>6 DEF Listing
<1>10. Rep(g, B, G, E)
  BY <1>1, <1>3, <1>6, <1>8, <1>9 DEF Rep
<1>11. OnlyIn(h, g, F)
  <2>1. G \in SUBSET H!Block /\ (\A x \in G : 3 <= x.size)
        /\ \A w : Apart(w, F) => Apart(w, G)
    BY <1>1 DEF Fitting, Apart
  <2>. HIDE DEF G
  <2>2. \A w \in Words : Apart(w, G) => w \notin Links(At(G))
    BY <2>1, ApartLinks
  <2>. QED  BY <1>6, <2>1, <2>2 DEF OnlyIn
<1>. QED  BY <1>6, <1>10, <1>11 DEF g

\* insert_node, up to the call of coalesce, of a block that is set free.
LEMMA RepPush ==
    ASSUME NEW h, NEW B, NEW F, NEW E, Rep(h, B, F, E), NEW f \in B, f \notin F, ~f.alloc
    PROVE  LET g == PushFront(h, f.at)
           IN  Rep(g, B, F \cup {f}, E) /\ SameFrame(h, g) /\ OnlyIn(h, g, F \cup {f})
<1>. DEFINE g == PushFront(h, f.at)
            G == F \cup {f}
            i == BucketOf(h, f.at)
            p == f.at
            N == At(F)
<1>1. /\ h \in WordHeap /\ B \in SUBSET H!Block /\ F \in SUBSET H!Block /\ E \in SUBSET Words
      /\ Fitting(B \cup F, E) /\ (\A x \in G : ~x.alloc /\ x.want = 0) /\ G \in SUBSET H!Block
      /\ \A b \in B : Tagged(h.mem, b)
  BY DEF Rep
<1>2. PICK cls, rank, top : /\ Linked(h, N, cls, rank, top)
                            /\ \A x \in F : cls[x.at] = Bucket(x.size)
  BY DEF Rep, Listing
<1>3. Fitting(G, E) /\ Fitting(B \cup G, E)
  BY <1>1 DEF Fitting
<1>4. Spaced(N \cup {p}) /\ At(G) = N \cup {p} /\ p \notin N /\ \A x \in F : x.at # p
  <2>1. Spaced(At(G)) /\ \A x, y \in G : x.at = y.at => x = y
    BY <1>1, <1>3, ListsSpaced
  <2>2. At(G) = N \cup {p}
    BY DEF At
  <2>3. \A x \in F : x.at # p
    BY <2>1
  <2>. QED  BY <2>1, <2>2, <2>3 DEF At
<1>5. i = Bucket(f.size) /\ i \in Buckets
  <2>1. h.mem[f.at] = PACK(f.size, 0) /\ f.size \in Nat
    BY <1>1, BlockParts DEF Tagged, Bit
  <2>. QED  BY <2>1, PackFields, BucketInBuckets DEF BucketOf, GET_SIZE, GET
<1>6. /\ g \in WordHeap /\ SameFrame(h, g)
      /\ \E cls2, rank2 : /\ Linked(g, N \cup {p}, cls2, rank2, top + 1)
                          /\ cls2[p] = i /\ \A q \in N : cls2[q] = cls[q]
      /\ \A w \in Words : w \notin Links(N \cup {p}) => g.mem[w] = h.mem[w]
  <2>1. h \in WordHeap /\ Linked(h, N, cls, rank, top) /\ p \notin N /\ Spaced(N \cup {p})
        /\ BucketOf(h, p) \in Buckets
    BY <1>1, <1>2, <1>4, <1>5
  <2>. HIDE DEF p, N, i, g
  <2>2. PushedOn(h, PushFront(h, p), N, cls, top, p)
    BY <2>1, PushLinked
  <2>. QED  BY <2>2 DEF g, p, i, PushedOn
<1>. HIDE DEF g
<1>7. /\ \A b \in B : g.mem[b.at] = h.mem[b.at] /\ g.mem[b.at + 1 + b.size] = h.mem[b.at + 1 + b.size]
      /\ \A w \in E : g.mem[w] = h.mem[w]
  BY <1>1, <1>3, <1>4, <1>6, LinksClear
<1>8. /\ \A b \in B : Tagged(g.mem, b)
      /\ \A w \in E : g.mem[w] = PACK(0, 1)
  BY <1>7 DEF Rep, Tagged
<1>9. Listing(g, G)
  <2>1. PICK cls2, rank2 : /\ Linked(g, N \cup {p}, cls2, rank2, top + 1)
                           /\ cls2[p] = i /\ \A q \in N : cls2[q] = cls[q]
    BY <1>6
  <2>2. \A x \in G : cls2[x.at] = Bucket(x.size)
    BY <1>2, <1>5, <2>1 DEF At
  <2>. QED  BY <1>4, <2>1, <2>2 DEF Listing
<1>10. Rep(g, B, G, E)
  BY <1>1, <1>3, <1>6, <1>8, <1>9 DEF Rep
<1>11. OnlyIn(h, g, G)
  <2>1. \A x \in G : 3 <= x.size
    BY <1>3 DEF Fitting
  <2>2. \A w \in Words : Apart(w, G) => w \notin Links(At(G))
    BY <1>1, <2>1, ApartLinks
  <2>. QED  BY <1>4, <1>6, <2>2 DEF OnlyIn
<1>. QED  BY <1>6, <1>10, <1>11 DEF g

\* set_block over words that tell of no other block.
LEMMA RepSet ==
    ASSUME NEW h, NEW B, NEW F, NEW E, Rep(h, B, F, E), NEW m \in H!Block,
           Fitting(B \cup F \cup {m}, E), \A b \in B : Clear(b, m), ~m.alloc => m.want = 0
    PROVE  LET g == SetBlock(h, m.at, m.size, Bit(m))
           IN  Rep(g, B \cup {m}, F, E) /\ SameFrame(h, g) /\ OnlyIn(h, g, {m})
<1>. DEFINE g == SetBlock(h, m.at, m.size, Bit(m))
            tag == PACK(m.size, Bit(m))
            foot == m.at + 1 + m.size
<1>1. /\ h \in WordHeap /\ B \in SUBSET H!Block /\ F \in SUBSET H!Block /\ E \in SUBSET Words
      /\ \A b \in B : Tagged(h.mem, b)
      /\ Fitting({m} \cup F, E) /\ Fitting((B \cup {m}) \cup F, E)
      /\ {m} \in SUBSET H!Block
  BY DEF Rep, Fitting
<1>2. /\ m.at \in Words \ Links(At(F)) /\ foot \in Words \ Links(At(F))
      /\ \A w \in E : w \notin Links(At(F))
  BY <1>1, LinksClear
<1>3. /\ \A b \in B : b.at \in Words /\ b.at + 1 + b.size \in Words
      /\ \A b \in B : b.at # m.at /\ b.at # foot /\ b.at + 1 + b.size # m.at /\ b.at + 1 + b.size # foot
      /\ \A w \in E : w \in Words /\ w # m.at /\ w # foot
  <2>1. \A b \in B \cup {m} : /\ b.at \in Nat /\ b.size \in Nat /\ Stop(b) = b.at + b.size + 2
                              /\ Stop(b) <= NumWords
    BY <1>1, BlockParts DEF Stop, Fitting
  <2>2. \A b \in B : b.at \in Words /\ b.at + 1 + b.size \in Words
    BY <2>1, WordsRange
  <2>3. \A b \in B : b.at # m.at /\ b.at # foot /\ b.at + 1 + b.size # m.at /\ b.at + 1 + b.size # foot
    BY <2>1 DEF Clear
  <2>4. \A w \in E : w \in Words /\ w # m.at /\ w # foot
    <3>. SUFFICES ASSUME NEW w \in E PROVE w \in Words /\ w # m.at /\ w # foot
      OBVIOUS
    <3>1. w \in Words /\ w \in Nat /\ (w < m.at \/ Stop(m) <= w)
      BY <1>1, WordsRange DEF Fitting
    <3>. QED  BY <2>1, <3>1
  <2>. QED  BY <2>2, <2>3, <2>4
<1>4. tag \in Nat
  BY BlockParts, PackFields
<1>5. /\ SameFrame(h, g) /\ g.fl = h.fl /\ g = [h EXCEPT !.mem = g.mem]
      /\ g.mem = [h.mem EXCEPT ![m.at] = tag, ![foot] = tag]
  BY <1>1 DEF SetBlock, WordHeap, SameFrame
<1>. HIDE DEF g, tag, foot
<1>6. /\ g.mem \in [Words -> Nat] /\ g.mem[m.at] = tag /\ g.mem[foot] = tag
      /\ \A w \in Words : w # m.at /\ w # foot => g.mem[w] = h.mem[w]
  BY <1>1, <1>2, <1>4, <1>5 DEF WordHeap
<1>7. g \in WordHeap
  BY <1>1, <1>5, <1>6 DEF WordHeap
<1>8. \A b \in B \cup {m} : Tagged(g.mem, b)
  BY <1>1, <1>3, <1>6 DEF Tagged, tag, foot
<1>9. \A w \in E : g.mem[w] = PACK(0, 1)
  BY <1>3, <1>6 DEF Rep
<1>10. Listing(g, F)
  <2>1. PICK cls, rank, top : /\ Linked(h, At(F), cls, rank, top)
                              /\ \A x \in F : cls[x.at] = Bucket(x.size)
    BY DEF Rep, Listing
  <2>2. \A w \in Links(At(F)) : w \in Words
    <3>1. Fitting(F, E) /\ \A x \in F : ~x.alloc /\ x.want = 0
      BY <1>1 DEF Fitting, Rep
    <3>2. Spaced(At(F))
      BY <1>1, <3>1, ListsSpaced
    <3>. QED  BY <3>2 DEF Spaced, Links
  <2>3. Linked(g, At(F), cls, rank, top)
    BY <1>2, <1>5, <1>6, <2>1, <2>2, LinkedFrame
  <2>. QED  BY <2>1, <2>3 DEF Listing
<1>11. Rep(g, B \cup {m}, F, E)
  BY <1>1, <1>7, <1>8, <1>9, <1>10 DEF Rep
<1>12. OnlyIn(h, g, {m})
  <2>. SUFFICES ASSUME NEW w \in Words, w < m.at \/ Stop(m) <= w PROVE g.mem[w] = h.mem[w]
    BY DEF OnlyIn, Apart
  <2>1. w # m.at /\ w # foot
    BY WordsRange, BlockParts DEF Stop, foot
  <2>. QED  BY <1>6, <2>1
<1>. QED  BY <1>5, <1>11, <1>12 DEF g

\* The client writes to what it was given, and myrealloc copies there.
LEMMA RepWrite ==
    ASSUME NEW h, NEW B, NEW F, NEW E, Rep(h, B, F, E), NEW b \in B, \A f \in F : Clear(b, f),
           NEW g \in WordHeap, g.fl = h.fl,
           \A w \in Words : g.mem[w] = h.mem[w] \/ (b.at < w /\ w <= b.at + b.size)
    PROVE  Rep(g, B, F, E)
<1>1. /\ h \in WordHeap /\ B \in SUBSET H!Block /\ F \in SUBSET H!Block /\ E \in SUBSET Words
      /\ Fitting(B \cup F, E) /\ \A x \in F : ~x.alloc /\ x.want = 0
  BY DEF Rep
<1>2. \A x \in B \cup F : /\ x.at \in Nat /\ x.size \in Nat /\ Stop(x) = x.at + x.size + 2
                          /\ Stop(x) <= NumWords /\ 3 <= x.size
  BY <1>1, BlockParts DEF Stop, Fitting
<1>3. ASSUME NEW c \in B
      PROVE  Tagged(g.mem, c)
  <2>1. Tagged(h.mem, c) /\ c.at \in Words /\ c.at + 1 + c.size \in Words
    BY <1>2, WordsRange DEF Rep
  <2>2. (c.at = b.at /\ c.size = b.size) \/ Clear(b, c)
    BY <1>1, <1>2 DEF Fitting, Clear
  <2>3. ~(b.at < c.at /\ c.at <= b.at + b.size)
        /\ ~(b.at < c.at + 1 + c.size /\ c.at + 1 + c.size <= b.at + b.size)
    BY <1>2, <2>2 DEF Clear
  <2>. QED  BY <2>1, <2>3 DEF Tagged
<1>4. \A w \in E : g.mem[w] = PACK(0, 1)
  <2>. SUFFICES ASSUME NEW w \in E PROVE g.mem[w] = h.mem[w]
    BY DEF Rep
  <2>1. w \in Words /\ w \in Nat /\ (w < b.at \/ Stop(b) <= w)
    BY <1>1, WordsRange DEF Fitting
  <2>. QED  BY <1>2, <2>1
<1>5. Listing(g, F)
  <2>1. PICK cls, rank, top : /\ Linked(h, At(F), cls, rank, top)
                              /\ \A x \in F : cls[x.at] = Bucket(x.size)
    BY DEF Rep, Listing
  <2>2. \A w \in Links(At(F)) : g.mem[w] = h.mem[w]
    <3>. SUFFICES ASSUME NEW f \in F, NEW w \in {prev(f.at), next(f.at)}
                  PROVE  g.mem[w] = h.mem[w]
      BY DEF Links, At
    <3>1. w \in Words /\ f.at < w /\ w < Stop(f) /\ w \in Nat
      BY <1>2, WordsRange DEF prev, next
    <3>2. Clear(b, f)
      OBVIOUS
    <3>. QED  BY <1>2, <3>1, <3>2 DEF Clear
  <2>3. Linked(g, At(F), cls, rank, top)
    BY <2>1, <2>2, LinkedFrame
  <2>. QED  BY <2>1, <2>3 DEF Listing
<1>. QED  BY <1>1, <1>3, <1>4, <1>5 DEF Rep

\* What a tag tells.
LEMMA ReadTags ==
    ASSUME NEW h, NEW B, NEW F, NEW E, Rep(h, B, F, E), NEW b \in B
    PROVE  /\ b.at \in Words /\ GET_SIZE(h, b.at) = b.size /\ GET_ALLOC(h, b.at) = Bit(b)
           /\ RIGHT_BLK(h, b.at) = Stop(b) /\ LEFT_BLK(h, Stop(b)) = b.at
           /\ FTRP(h, b.at) = b.at + 1 + b.size /\ GET(h, FTRP(h, b.at)) = GET(h, b.at)
           /\ GET(h, b.at) = PACK(b.size, Bit(b))
<1>1. /\ b \in H!Block /\ Tagged(h.mem, b) /\ Stop(b) <= NumWords
  BY DEF Rep, Fitting
<1>2. /\ b.at \in Nat /\ b.size \in Nat /\ Stop(b) = b.at + b.size + 2 /\ Bit(b) \in {0, 1}
  BY <1>1, BlockParts DEF Stop
<1>3. PACK(b.size, Bit(b)) \div 8 = b.size /\ PACK(b.size, Bit(b)) % 2 = Bit(b)
  BY <1>2, PackFields
<1>4. GET_SIZE(h, b.at) = b.size /\ GET_ALLOC(h, b.at) = Bit(b) /\ GET(h, b.at) = PACK(b.size, Bit(b))
  BY <1>1, <1>3 DEF Tagged, GET_SIZE, GET_ALLOC, GET
<1>5. Stop(b) - 1 = b.at + 1 + b.size /\ GET_SIZE(h, Stop(b) - 1) = b.size
  BY <1>1, <1>2, <1>3 DEF Tagged, GET_SIZE, GET
<1>6. b.at \in Words
  BY <1>1, <1>2, WordsRange
<1>7. FTRP(h, b.at) = b.at + 1 + b.size
  BY <1>2, <1>4 DEF FTRP
<1>8. GET(h, FTRP(h, b.at)) = GET(h, b.at)
  BY <1>1, <1>7 DEF Tagged, GET
<1>. QED  BY <1>2, <1>4, <1>5, <1>6, <1>7, <1>8 DEF RIGHT_BLK, LEFT_BLK, TagWords

-----------------------------------------------------------------------------
(***************************************************************************)
(* Merging.  Between two calls the blocks are a row from word lo to word   *)
(* hi, the epilogue, and exactly the free ones are on lists.               *)
(***************************************************************************)
Frees(B) == {b \in B : ~b.alloc}

Edges(lo, hi) == {lo - 2, lo - 1, hi}

Rests(h, B, lo, hi) ==
    /\ lo \in Nat /\ 2 <= lo /\ hi \in Nat
    /\ Rep(h, B, Frees(B), Edges(lo, hi))
    /\ H!Row(B, lo, hi)

\* A row fits between its edges.
LEMMA RowFits ==
    ASSUME NEW B \in SUBSET H!Block, NEW lo \in Nat, NEW hi \in Nat, 2 <= lo, hi \in Words,
           H!Row(B, lo, hi)
    PROVE  /\ Fitting(B, Edges(lo, hi))
           /\ \A b, c \in B : b = c \/ Clear(b, c)
           /\ \A b \in B : /\ lo <= b.at /\ Stop(b) <= hi
                           /\ b.at = lo \/ \E c \in B : Stop(c) = b.at
                           /\ Stop(b) = hi \/ \E c \in B : c.at = Stop(b)
<1>1. \A b \in B : /\ b.at \in Nat /\ b.size \in Nat /\ Stop(b) = b.at + b.size + 2
                   /\ H!EndOf(b) = Stop(b)
  BY BlockParts DEF Stop
<1>2. hi < NumWords /\ NumWords \in Nat
  BY WordsRange
<1>3. \A b \in B : lo <= b.at /\ Stop(b) <= hi /\ 3 <= b.size
  BY <1>1 DEF H!Row, H!Within
<1>4. \A b, c \in B : b = c \/ Clear(b, c)
  BY <1>1 DEF H!Row, H!Separate, Clear
<1>5. \A b \in B : /\ b.at = lo \/ \E c \in B : Stop(c) = b.at
                   /\ Stop(b) = hi \/ \E c \in B : c.at = Stop(b)
  BY <1>1 DEF H!Row, H!Gapless
<1>6. Fitting(B, Edges(lo, hi))
  BY <1>1, <1>2, <1>3, <1>4 DEF Fitting, Edges
<1>. QED  BY <1>3, <1>4, <1>5, <1>6

\* What the words beside a block tell of its neighbours: a free one is found,
\* and prologue and epilogue count as allocated.
LEMMA ReadNeighbours ==
    ASSUME NEW h, NEW B, NEW lo, NEW hi, Rests(h, B, lo, hi), NEW b \in B
    PROVE  /\ \A l \in B : Stop(l) = b.at => LEFT_BLK(h, b.at) = l.at
           /\ \A r \in B : r.at = Stop(b) => RIGHT_BLK(h, b.at) = r.at
           /\ GET_ALLOC(h, LEFT_BLK(h, b.at)) = 0 <=> \E l \in B : ~l.alloc /\ Stop(l) = b.at
           /\ GET_ALLOC(h, RIGHT_BLK(h, b.at)) = 0 <=> \E r \in B : ~r.alloc /\ r.at = Stop(b)
<1>1. /\ B \in SUBSET H!Block /\ lo \in Nat /\ 2 <= lo /\ hi \in Nat /\ hi \in Words
      /\ Rep(h, B, Frees(B), Edges(lo, hi)) /\ H!Row(B, lo, hi)
  BY DEF Rests, Rep, Edges
<1>2. \A c \in B : /\ c.at \in Nat /\ c.size \in Nat /\ Stop(c) = c.at + c.size + 2
                   /\ c.alloc \in BOOLEAN /\ Bit(c) = IF c.alloc THEN 1 ELSE 0
  BY <1>1, BlockParts DEF Stop, Bit
<1>3. \A c \in B : GET_ALLOC(h, c.at) = Bit(c) /\ RIGHT_BLK(h, c.at) = Stop(c) /\ LEFT_BLK(h, Stop(c)) = c.at
  BY <1>1, ReadTags
<1>4. \A w \in Edges(lo, hi) : GET_SIZE(h, w) = 0 /\ GET_ALLOC(h, w) = 1
  <2>1. PACK(0, 1) \div 8 = 0 /\ PACK(0, 1) % 2 = 1
    BY PackFields
  <2>. QED  BY <1>1, <2>1 DEF Rep, GET_SIZE, GET_ALLOC, GET
<1>5. /\ \A c, d \in B : c = d \/ Clear(c, d)
      /\ \A c \in B : /\ lo <= c.at /\ Stop(c) <= hi
                      /\ c.at = lo \/ \E d \in B : Stop(d) = c.at
                      /\ Stop(c) = hi \/ \E d \in B : d.at = Stop(c)
  BY <1>1, RowFits
<1>6. /\ \A l, c \in B : Stop(l) = Stop(c) => l = c
      /\ \A l, c \in B : l.at = c.at => l = c
  BY <1>2, <1>5 DEF Clear
<1>7. GET_ALLOC(h, LEFT_BLK(h, b.at)) = 0 <=> \E l \in B : ~l.alloc /\ Stop(l) = b.at
  <2>1. CASE b.at = lo
    <3>1. LEFT_BLK(h, b.at) = lo - 2
      BY <1>1, <1>4, <2>1 DEF LEFT_BLK, Edges
    <3>2. \A l \in B : Stop(l) # b.at
      BY <1>1, <1>2, <1>5, <2>1
    <3>. QED  BY <1>4, <3>1, <3>2 DEF Edges
  <2>2. CASE b.at # lo
    <3>1. PICK l \in B : Stop(l) = b.at
      BY <1>5, <2>2
    <3>2. GET_ALLOC(h, LEFT_BLK(h, b.at)) = Bit(l)
      BY <1>3, <3>1
    <3>. QED  BY <1>2, <1>6, <3>1, <3>2
  <2>. QED  BY <2>1, <2>2
<1>8. GET_ALLOC(h, RIGHT_BLK(h, b.at)) = 0 <=> \E r \in B : ~r.alloc /\ r.at = Stop(b)
  <2>1. CASE Stop(b) = hi
    <3>1. RIGHT_BLK(h, b.at) = hi
      BY <1>3, <2>1
    <3>2. \A r \in B : r.at # Stop(b)
      BY <1>1, <1>2, <1>5, <2>1
    <3>. QED  BY <1>4, <3>1, <3>2 DEF Edges
  <2>2. CASE Stop(b) # hi
    <3>1. PICK r \in B : r.at = Stop(b)
      BY <1>5, <2>2
    <3>2. GET_ALLOC(h, RIGHT_BLK(h, b.at)) = Bit(r)
      BY <1>3, <3>1
    <3>. QED  BY <1>2, <1>6, <3>1, <3>2
  <2>. QED  BY <2>1, <2>2
<1>. QED  BY <1>3, <1>7, <1>8

\* A block without free neighbours stays as it is.
LEMMA MergeNone ==
    ASSUME NEW h, NEW B, NEW lo, NEW hi, Rests(h, B, lo, hi), NEW b \in B, ~b.alloc,
           H!NoFreePair(B), NEW r, r.heap = h, r.at = b.at
    PROVE  MergeOnce(r) = r
<1>1. \A c \in B : c \in H!Block /\ H!EndOf(c) = Stop(c)
  BY BlockParts DEF Rests, Rep
<1>2. /\ ~(GET_ALLOC(h, LEFT_BLK(h, b.at)) = 0)
      /\ ~(GET_ALLOC(h, RIGHT_BLK(h, b.at)) = 0)
  BY <1>1, ReadNeighbours DEF H!NoFreePair
<1>. QED  BY <1>2 DEF MergeOnce

\* What the proofs about BlockHeapSpec say of the blocks around b.
LEMMA BlockMerge ==
    ASSUME NEW B \in SUBSET H!Block, NEW lo \in Int, NEW hi \in Int, NEW b \in B, ~b.alloc,
           H!Row(B, lo, hi), H!NoFreePair(B \ {b})
    PROVE  /\ H!LeftFree(B, b) = {} \/ \E l \in B : H!LeftFree(B, b) = {l} /\ ~l.alloc /\ H!EndOf(l) = b.at
           /\ H!RightFree(B, b) = {} \/ \E r \in B : H!RightFree(B, b) = {r} /\ ~r.alloc /\ r.at = H!EndOf(b)
           /\ H!MergeStart(B, b) \in lo .. hi /\ H!MergeStart(B, b) \in 0 .. b.at
           /\ \A c \in B \ H!Merged(B, b) : H!EndOf(c) <= H!MergeStart(B, b) \/ H!EndOf(b) <= c.at
           /\ H!Coalesce(B, b) \in SUBSET H!Block
           /\ H!Row(H!Coalesce(B, b), lo, hi)
           /\ H!NoFreePair(H!Coalesce(B, b))
<1>. USE LayoutAssumption, SegmentAssumption, ClientAssumption, StackAssumption
<1>1. Requests \subseteq Nat /\ StackBytes \in Nat
  OBVIOUS
<1>2. H!Separate(B)
  BY DEF H!Row
<1>3. /\ H!LeftFree(B, b) = {} \/ \E l \in B : /\ H!LeftFree(B, b) = {l}
                                                  /\ ~l.alloc /\ H!EndOf(l) = b.at
      /\ H!RightFree(B, b) = {} \/ \E r \in B : /\ H!RightFree(B, b) = {r}
                                                   /\ ~r.alloc /\ r.at = H!EndOf(b)
  BY <1>1, <1>2, H!Neighbours
<1>4. /\ H!MergeStart(B, b) \in lo .. hi /\ H!MergeStart(B, b) \in 0 .. b.at
      /\ \A c \in B \ H!Merged(B, b) : H!EndOf(c) <= H!MergeStart(B, b) \/ H!EndOf(b) <= c.at
  BY <1>1, H!LeftEdge
<1>5. LET C == H!Coalesce(B, b)
      IN  /\ C \in SUBSET H!Block /\ C # {}
          /\ H!Row(C, lo, hi)
          /\ H!NoFreePair(C)
          /\ \A c \in H!Block : c.alloc => (c \in C <=> c \in B)
          /\ \E m \in C : ~m.alloc /\ m.at <= b.at /\ H!EndOf(b) <= H!EndOf(m)
  BY <1>1, H!CoalesceRow
<1>. QED  BY <1>3, <1>4, <1>5

\* One pass of coalesce over a block with a free neighbour does what Coalesce
\* of BlockHeap does, and leaves the merged block first on its list.
LEMMA MergeSome ==
    ASSUME NEW h, NEW B, NEW lo, NEW hi, Rests(h, B, lo, hi), NEW b \in B, ~b.alloc,
           H!NoFreePair(B \ {b}), H!Merged(B, b) # {b}, NEW r, r.heap = h, r.at = b.at
    PROVE  LET g == MergeOnce(r)
           IN  /\ Rests(g.heap, H!Coalesce(B, b), lo, hi) /\ SameFrame(h, g.heap)
               /\ OnlyIn(h, g.heap, Frees(B))
               /\ \E m \in H!Coalesce(B, b) : ~m.alloc /\ m.at = g.at
<1>. DEFINE E == Edges(lo, hi)
            F == Frees(B)
            L == H!LeftFree(B, b)
            R == H!RightFree(B, b)
            K == B \ H!Merged(B, b)
            s == H!MergeStart(B, b)
            e == H!MergeEnd(B, b)
            m == H!FreeBlock(s, e - s - 2)
            C == H!Coalesce(B, b)
            left  == LEFT_BLK(h, b.at)
            right == RIGHT_BLK(h, b.at)
            joinsLeft  == GET_ALLOC(h, left) = 0
            joinsRight == GET_ALLOC(h, right) = 0
<1>1. /\ B \in SUBSET H!Block /\ lo \in Nat /\ 2 <= lo /\ hi \in Nat /\ hi \in Words
      /\ Rep(h, B, F, E) /\ H!Row(B, lo, hi)
  BY DEF Rests, Rep, Edges
<1>2. \A c \in B : /\ c.at \in Nat /\ c.size \in Nat /\ Stop(c) = c.at + c.size + 2
                   /\ H!EndOf(c) = Stop(c) /\ c \in H!Block
  BY <1>1, BlockParts DEF Stop
<1>3. /\ L = {} \/ \E l \in B : L = {l} /\ ~l.alloc /\ Stop(l) = b.at
      /\ R = {} \/ \E q \in B : R = {q} /\ ~q.alloc /\ q.at = Stop(b)
      /\ s \in lo .. hi /\ s \in 0 .. b.at
      /\ \A c \in K : H!EndOf(c) <= s \/ H!EndOf(b) <= c.at
      /\ C \in SUBSET H!Block /\ H!Row(C, lo, hi)
  <2>1. /\ L = {} \/ \E l \in B : L = {l} /\ ~l.alloc /\ H!EndOf(l) = b.at
        /\ R = {} \/ \E q \in B : R = {q} /\ ~q.alloc /\ q.at = H!EndOf(b)
        /\ s \in lo .. hi /\ s \in 0 .. b.at
        /\ \A c \in K : H!EndOf(c) <= s \/ H!EndOf(b) <= c.at
        /\ C \in SUBSET H!Block /\ H!Row(C, lo, hi)
    <3>1. lo \in Int /\ hi \in Int
      BY <1>1
    <3>. HIDE DEF L, R, s, C
    <3>. QED  BY <1>1, <3>1, BlockMerge DEF L, R, s, C
  <2>. HIDE DEF L, R, s, C, K
  <2>. QED  BY <1>2, <2>1
<1>4. C = K \cup {m} /\ H!Merged(B, b) = {b} \cup L \cup R
  BY DEF H!Coalesce, H!Merged, H!TagWords
<1>5. /\ joinsLeft <=> L # {}
      /\ joinsRight <=> R # {}
      /\ \A l \in L : l \in B /\ left = l.at /\ ~l.alloc /\ s = l.at /\ l # b
      /\ \A q \in R : q \in B /\ right = q.at /\ ~q.alloc /\ e = Stop(q) /\ q # b
      /\ L = {} => s = b.at
      /\ R = {} => e = Stop(b)
      /\ \A l \in L, q \in R : l # q
  <2>1. /\ \A l \in B : Stop(l) = b.at => left = l.at
        /\ \A q \in B : q.at = Stop(b) => right = q.at
        /\ joinsLeft <=> \E l \in B : ~l.alloc /\ Stop(l) = b.at
        /\ joinsRight <=> \E q \in B : ~q.alloc /\ q.at = Stop(b)
    BY ReadNeighbours
  <2>2. /\ L = {l \in B : ~l.alloc /\ Stop(l) = b.at}
        /\ R = {q \in B : ~q.alloc /\ q.at = Stop(b)}
    BY <1>2 DEF H!LeftFree, H!RightFree
  <2>3. /\ \A l \in L : L = {l} /\ s = l.at
        /\ \A q \in R : R = {q} /\ e = Stop(q)
    <3>1. \A l \in L : L = {l}
      BY <1>3
    <3>2. \A q \in R : R = {q}
      BY <1>3
    <3>3. \A l \in L : s = l.at
      BY <3>1 DEF H!MergeStart
    <3>4. \A q \in R : e = Stop(q)
      BY <1>2, <2>2, <3>2 DEF H!MergeEnd
    <3>. QED  BY <3>1, <3>2, <3>3, <3>4
  <2>4. /\ L = {} => s = b.at
        /\ R = {} => e = Stop(b)
    BY <1>2 DEF H!MergeStart, H!MergeEnd
  <2>5. \A l \in L, q \in R : l # q
    <3>. SUFFICES ASSUME NEW l \in L, l \in R PROVE FALSE
      OBVIOUS
    <3>1. l \in B /\ Stop(l) = b.at /\ l.at = Stop(b)
      BY <2>2
    <3>. QED  BY <1>2, <3>1
  <2>6. b \notin L /\ b \notin R
    BY <1>2, <2>2
  <2>. HIDE DEF L, R, s, e
  <2>. QED  BY <2>1, <2>2, <2>3, <2>4, <2>5, <2>6
<1>. DEFINE bare1 == DeleteNode(h, b.at)
            bare2 == IF joinsLeft THEN DeleteNode(bare1, left) ELSE bare1
            bare3 == IF joinsRight THEN DeleteNode(bare2, right) ELSE bare2
            size  == GET_SIZE(h, b.at)
                       + (IF joinsLeft THEN GET_SIZE(h, left) + TagWords ELSE 0)
                       + (IF joinsRight THEN GET_SIZE(h, right) + TagWords ELSE 0)
            start == IF joinsLeft THEN left ELSE b.at
            set   == SetBlock(bare3, start, size, 0)
            g     == MergeOnce(r)
<1>6. g = [heap |-> PushFront(set, start), at |-> start]
  <2>1. joinsLeft \/ joinsRight
    BY <1>4, <1>5
  <2>. QED  BY <2>1 DEF MergeOnce
<1>7. /\ start = m.at /\ size = m.size /\ ~m.alloc /\ m.want = 0 /\ m.at = s /\ Bit(m) = 0
      /\ m.size = e - s - 2
  <2>1. /\ m.at = s /\ m.size = e - s - 2 /\ ~m.alloc /\ m.want = 0
    BY DEF H!FreeBlock
  <2>2. \A c \in B : GET_SIZE(h, c.at) = c.size
    BY <1>1, ReadTags
  <2>3. /\ \A l \in L : Stop(l) = b.at
        /\ \A q \in R : q.at = Stop(b)
    BY <1>3
  <2>. HIDE DEF L, R, s, e, m, left, right, joinsLeft, joinsRight
  <2>4. start = s
    BY <1>5
  <2>5. size = e - s - 2
    <3>1. CASE L = {} /\ R = {}
      BY <1>2, <1>5, <2>2, <3>1
    <3>2. CASE L = {} /\ R # {}
      <4>1. PICK q \in R : TRUE
        BY <3>2
      <4>. QED  BY <1>2, <1>5, <2>2, <2>3, <3>2, <4>1 DEF TagWords
    <3>3. CASE L # {} /\ R = {}
      <4>1. PICK l \in L : TRUE
        BY <3>3
      <4>. QED  BY <1>2, <1>5, <2>2, <2>3, <3>3, <4>1 DEF TagWords
    <3>4. CASE L # {} /\ R # {}
      <4>1. PICK l \in L, q \in R : TRUE
        BY <3>4
      <4>. QED  BY <1>2, <1>5, <2>2, <2>3, <3>4, <4>1 DEF TagWords
    <3>. QED  BY <3>1, <3>2, <3>3, <3>4
  <2>. QED  BY <2>1, <2>4, <2>5 DEF Bit
<1>8. Rep(bare1, B, F \ {b}, E) /\ SameFrame(h, bare1) /\ OnlyIn(h, bare1, F)
  <2>1. b \in F /\ GET_SIZE(h, b.at) = b.size
    BY <1>1, ReadTags DEF Frees
  <2>. QED  BY <1>1, <2>1, RepDelete
<1>. HIDE DEF bare1, L, R, s, e, m, left, right, joinsLeft, joinsRight, C, K
<1>9. Rep(bare2, B, F \ ({b} \cup L), E) /\ SameFrame(h, bare2) /\ OnlyIn(h, bare2, F)
  <2>1. CASE L = {}
    BY <1>5, <1>8, <2>1
  <2>2. CASE L # {}
    <3>1. PICK l \in L : L = {l}
      BY <1>3, <2>2
    <3>2. l \in B /\ l \in F \ {b} /\ GET_SIZE(bare1, l.at) = l.size
      <4>1. l \in B /\ l \in F \ {b}
        BY <1>5, <3>1 DEF Frees
      <4>. QED  BY <1>8, <4>1, ReadTags
    <3>3. bare2 = DeleteNode(bare1, l.at)
      BY <1>5, <3>1
    <3>4. /\ Rep(DeleteNode(bare1, l.at), B, (F \ {b}) \ {l}, E)
          /\ SameFrame(bare1, DeleteNode(bare1, l.at))
          /\ OnlyIn(bare1, DeleteNode(bare1, l.at), F \ {b})
      BY <1>8, <3>2, RepDelete
    <3>5. F \ ({b} \cup L) = (F \ {b}) \ {l}
      BY <3>1
    <3>6. OnlyIn(h, bare2, F)
      <4>1. \A w \in Words : Apart(w, F) => Apart(w, F) /\ Apart(w, F \ {b})
        BY DEF Apart
      <4>. QED  BY <1>8, <3>3, <3>4, <4>1, OnlyInBoth
    <3>. QED  BY <1>8, <3>3, <3>4, <3>5, <3>6 DEF SameFrame
  <2>. QED  BY <2>1, <2>2
<1>. HIDE DEF bare2
<1>10. Rep(bare3, B, F \ ({b} \cup L \cup R), E) /\ SameFrame(h, bare3) /\ OnlyIn(h, bare3, F)
  <2>1. CASE R = {}
    BY <1>5, <1>9, <2>1
  <2>2. CASE R # {}
    <3>1. PICK q \in R : R = {q}
      BY <1>3, <2>2
    <3>2. q \in B /\ q \in F \ ({b} \cup L) /\ GET_SIZE(bare2, q.at) = q.size
      <4>1. q \in B /\ q \in F \ ({b} \cup L)
        BY <1>5, <3>1 DEF Frees
      <4>. QED  BY <1>9, <4>1, ReadTags
    <3>3. bare3 = DeleteNode(bare2, q.at)
      BY <1>5, <3>1
    <3>4. /\ Rep(DeleteNode(bare2, q.at), B, (F \ ({b} \cup L)) \ {q}, E)
          /\ SameFrame(bare2, DeleteNode(bare2, q.at))
          /\ OnlyIn(bare2, DeleteNode(bare2, q.at), F \ ({b} \cup L))
      BY <1>9, <3>2, RepDelete
    <3>5. F \ ({b} \cup L \cup R) = (F \ ({b} \cup L)) \ {q}
      BY <3>1
    <3>6. OnlyIn(h, bare3, F)
      <4>1. \A w \in Words : Apart(w, F) => Apart(w, F) /\ Apart(w, F \ ({b} \cup L))
        BY DEF Apart
      <4>. QED  BY <1>9, <3>3, <3>4, <4>1, OnlyInBoth
    <3>. QED  BY <1>9, <3>3, <3>4, <3>5, <3>6 DEF SameFrame
  <2>. QED  BY <2>1, <2>2
<1>. HIDE DEF bare3
<1>11. Rep(bare3, K, Frees(K), E)
  <2>1. K \in SUBSET B /\ F \ ({b} \cup L \cup R) = Frees(K) /\ E \in SUBSET E
    BY <1>4 DEF K, Frees
  <2>. QED  BY <1>10, <2>1, RepDrop
<1>12. m \in H!Block /\ Fitting(K \cup Frees(K) \cup {m}, E) /\ \A c \in K : Clear(c, m)
  <2>1. Fitting(C, E) /\ \A x, y \in C : x = y \/ Clear(x, y)
    BY <1>1, <1>3, RowFits
  <2>2. K \cup Frees(K) \cup {m} = C
    BY <1>4 DEF Frees
  <2>3. \A c \in K : c # m
    <3>. SUFFICES ASSUME m \in K PROVE FALSE
      OBVIOUS
    <3>1. m \in B /\ (H!EndOf(m) <= s \/ H!EndOf(b) <= m.at)
      BY <1>3 DEF K
    <3>. QED  BY <1>2, <1>3, <1>7, <3>1
  <2>. QED  BY <1>3, <1>4, <2>1, <2>2, <2>3
<1>13. Rep(set, K \cup {m}, Frees(K), E) /\ SameFrame(bare3, set) /\ OnlyIn(bare3, set, {m})
  <2>1. set = SetBlock(bare3, m.at, m.size, Bit(m))
    BY <1>7
  <2>. QED  BY <1>7, <1>11, <1>12, <2>1, RepSet
<1>. HIDE DEF set, start, size
<1>14. /\ Rep(PushFront(set, m.at), K \cup {m}, Frees(K) \cup {m}, E)
       /\ SameFrame(set, PushFront(set, m.at))
       /\ OnlyIn(set, PushFront(set, m.at), Frees(K) \cup {m})
  <2>1. m \notin Frees(K)
    <3>1. \A c \in K : Clear(c, m) /\ c \in H!Block
      BY <1>2, <1>12 DEF K
    <3>2. ~Clear(m, m)
      BY <1>12, BlockParts DEF Clear, Stop
    <3>. QED  BY <3>1, <3>2 DEF Frees
  <2>. QED  BY <1>7, <1>13, <2>1, RepPush
<1>15. Frees(K) \cup {m} = Frees(C)
  BY <1>4, <1>7 DEF Frees
<1>16. Rests(g.heap, C, lo, hi) /\ SameFrame(h, g.heap)
  <2>1. g.heap = PushFront(set, m.at)
    BY <1>6, <1>7
  <2>2. Rep(g.heap, C, Frees(C), E) /\ SameFrame(set, g.heap)
    BY <1>4, <1>14, <1>15, <2>1
  <2>. HIDE DEF g
  <2>. QED  BY <1>1, <1>3, <1>10, <1>13, <2>2 DEF Rests, SameFrame
<1>17. m \in C /\ ~m.alloc /\ m.at = g.at
  BY <1>4, <1>6, <1>7
<1>18. OnlyIn(h, g.heap, F)
  <2>1. ASSUME NEW w \in Words, Apart(w, F)
        PROVE  w < s \/ e <= w
    <3>1. w \in Nat /\ (w < b.at \/ Stop(b) <= w)
      BY <2>1, WordsRange DEF Apart, Frees
    <3>2. CASE w < b.at
      <4>1. CASE L = {}
        BY <1>5, <3>2, <4>1
      <4>2. CASE L # {}
        <5>1. PICK l \in L : L = {l} /\ Stop(l) = b.at /\ l \in F /\ s = l.at
          BY <1>3, <1>5, <4>2 DEF Frees
        <5>. QED  BY <1>2, <2>1, <3>1, <3>2, <5>1 DEF Apart
      <4>. QED  BY <4>1, <4>2
    <3>3. CASE Stop(b) <= w
      <4>1. CASE R = {}
        BY <1>5, <3>3, <4>1
      <4>2. CASE R # {}
        <5>1. PICK q \in R : R = {q} /\ q.at = Stop(b) /\ q \in F /\ e = Stop(q)
          BY <1>3, <1>5, <4>2 DEF Frees
        <5>. QED  BY <1>2, <2>1, <3>1, <3>3, <5>1 DEF Apart
      <4>. QED  BY <4>1, <4>2
    <3>. QED  BY <3>1, <3>2, <3>3
  <2>2. Stop(m) = e
    <3>1. e \in Int /\ s \in Int
      BY <1>2, <1>3, <1>5 DEF Frees
    <3>. QED  BY <1>7, <3>1 DEF Stop
  <2>3. \A w \in Words : Apart(w, F) => Apart(w, {m}) /\ Apart(w, Frees(K) \cup {m})
    <3>1. Frees(K) \subseteq F
      BY DEF K, Frees
    <3>. QED  BY <1>7, <2>1, <2>2, <3>1 DEF Apart
  <2>4. OnlyIn(h, set, F)
    BY <1>10, <1>13, <2>3, OnlyInBoth
  <2>5. g.heap = PushFront(set, m.at)
    BY <1>6, <1>7
  <2>. QED  BY <1>14, <2>3, <2>4, <2>5, OnlyInBoth
<1>. HIDE DEF g
<1>. QED  BY <1>16, <1>17, <1>18 DEF C, g

\* The recursion of insert_node and coalesce ends when a pass changes nothing.
LEMMA CoalesceEnds ==
    ASSUME NEW h, NEW p, NEW r1,
           MergeOnce([heap |-> h, at |-> p]) = r1, MergeOnce(r1) = r1
    PROVE  Coalesce(h, p) = r1.heap
<1>. DEFINE r0 == [heap |-> h, at |-> p]
            Step(f) == [n \in Nat |-> IF n = 0 THEN r0 ELSE MergeOnce(f[n - 1])]
            merged == CHOOSE f : f = Step(f)
            w == [n \in Nat |-> IF n = 0 THEN r0 ELSE r1]
            S == {n \in Nat : n # 0 => merged[n] = r1}
<1>1. Coalesce(h, p) = merged[MoreThanBlocks].heap
  BY DEF Coalesce
<1>2. merged = Step(merged)
  <2>1. w = Step(w)
    <3>. HIDE DEF r0
    <3>1. \A n \in Nat : w[n] = IF n = 0 THEN r0 ELSE MergeOnce(w[n - 1])
      <4>. SUFFICES ASSUME NEW n \in Nat, n # 0 PROVE MergeOnce(w[n - 1]) = r1
        OBVIOUS
      <4>1. w[n - 1] = IF n = 1 THEN r0 ELSE r1
        OBVIOUS
      <4>. QED  BY <4>1 DEF r0
    <3>. QED  BY <3>1
  <2>. HIDE DEF Step, w
  <2>. QED  BY <2>1
<1>. HIDE DEF merged, r0
<1>3. \A n \in Nat : merged[n] = IF n = 0 THEN r0 ELSE MergeOnce(merged[n - 1])
  BY <1>2
<1>4. 0 \in S
  OBVIOUS
<1>5. ASSUME NEW n \in Nat, n \in S
      PROVE  n + 1 \in S
  <2>1. merged[n + 1] = MergeOnce(merged[n])
    <3>1. n + 1 \in Nat /\ n + 1 # 0 /\ (n + 1) - 1 = n
      OBVIOUS
    <3>2. merged[n + 1] = IF n + 1 = 0 THEN r0 ELSE MergeOnce(merged[(n + 1) - 1])
      BY <1>3, <3>1
    <3>. QED  BY <3>1, <3>2
  <2>2. CASE n = 0
    <3>1. merged[0] = r0
      BY <1>3
    <3>. QED  BY <2>1, <2>2, <3>1 DEF r0
  <2>3. CASE n # 0
    BY <1>5, <2>1, <2>3
  <2>. QED  BY <2>2, <2>3
<1>6. Nat \subseteq S
  <2>. HIDE DEF S
  <2>. QED  BY <1>4, <1>5, InductionOnNat
<1>. QED  BY <1>1, <1>6, FifthsRange

\* insert_node and coalesce together, of a free block that is on its list: what
\* Coalesce of BlockHeap does.
LEMMA CoalesceRests ==
    ASSUME NEW h, NEW B, NEW lo, NEW hi, Rests(h, B, lo, hi), NEW b \in B, ~b.alloc,
           H!NoFreePair(B \ {b})
    PROVE  /\ Rests(Coalesce(h, b.at), H!Coalesce(B, b), lo, hi)
           /\ SameFrame(h, Coalesce(h, b.at)) /\ OnlyIn(h, Coalesce(h, b.at), Frees(B))
<1>. DEFINE r0 == [heap |-> h, at |-> b.at]
            r1 == MergeOnce(r0)
            C == H!Coalesce(B, b)
<1>1. /\ B \in SUBSET H!Block /\ lo \in Int /\ hi \in Int /\ H!Row(B, lo, hi) /\ b \in H!Block
      /\ b.at \in Words
  <2>1. B \in SUBSET H!Block /\ lo \in Int /\ hi \in Int /\ H!Row(B, lo, hi)
    BY DEF Rests, Rep
  <2>. QED  BY <2>1, ReadTags DEF Rests
<1>3. H!NoFreePair(C)
  BY <1>1, BlockMerge
<1>4. r0.heap = h /\ r0.at = b.at
  OBVIOUS
<1>5. CASE H!Merged(B, b) # {b}
  <2>1. /\ Rests(r1.heap, C, lo, hi) /\ SameFrame(h, r1.heap)
        /\ \E m \in C : ~m.alloc /\ m.at = r1.at
        /\ OnlyIn(h, r1.heap, Frees(B))
    <3>. HIDE DEF r0
    <3>. QED  BY <1>4, <1>5, MergeSome
  <2>2. MergeOnce(r1) = r1
    <3>. HIDE DEF r1, C
    <3>. QED  BY <1>3, <2>1, MergeNone
  <2>. HIDE DEF r1
  <2>3. Coalesce(h, b.at) = r1.heap
    BY <2>2, CoalesceEnds DEF r1
  <2>. QED  BY <2>1, <2>3
<1>6. CASE H!Merged(B, b) = {b}
  <2>1. C = B
    <3>1. b = H!FreeBlock(b.at, b.size) /\ b.at \in Nat /\ b.size \in Nat /\ H!EndOf(b) = b.at + b.size + 2
      <4>1. ~b.alloc /\ b.want = 0
        BY DEF Rests, Rep
      <4>. QED  BY <1>1, <4>1 DEF H!Block, H!FreeBlock, H!EndOf, H!TagWords
    <3>2. H!LeftFree(B, b) = {} /\ H!RightFree(B, b) = {}
      <4>1. b \notin H!LeftFree(B, b) /\ b \notin H!RightFree(B, b)
        BY <3>1 DEF H!LeftFree, H!RightFree
      <4>. QED  BY <1>6, <4>1 DEF H!Merged
    <3>3. H!MergeStart(B, b) = b.at /\ H!MergeEnd(B, b) = b.at + b.size + 2
      BY <3>1, <3>2 DEF H!MergeStart, H!MergeEnd
    <3>4. (b.at + b.size + 2) - b.at - 2 = b.size
      BY <3>1
    <3>. QED  BY <1>6, <3>1, <3>3, <3>4 DEF H!Coalesce, H!TagWords
  <2>2. H!NoFreePair(B)
    BY <1>3, <2>1
  <2>3. r1 = r0
    <3>. HIDE DEF r0
    <3>. QED  BY <1>4, <2>2, MergeNone
  <2>4. Coalesce(h, b.at) = h
    <3>1. MergeOnce(r0) = r0
      BY <2>3
    <3>. QED  BY <1>4, <3>1, CoalesceEnds
  <2>. QED  BY <2>1, <2>4 DEF SameFrame, OnlyIn
<1>. QED  BY <1>5, <1>6

\* insert_node of a block that is marked free in the words.
LEMMA InsertRests ==
    ASSUME NEW h, NEW B, NEW lo \in Nat, NEW hi \in Nat, NEW b, b \notin B, 2 <= lo, ~b.alloc,
           Rep(h, B \cup {b}, Frees(B), Edges(lo, hi)),
           H!Row(B \cup {b}, lo, hi), H!NoFreePair(B)
    PROVE  /\ Rests(InsertNode(h, b.at), H!InsertNode(B, b), lo, hi)
           /\ SameFrame(h, InsertNode(h, b.at))
           /\ OnlyIn(h, InsertNode(h, b.at), Frees(B) \cup {b})
<1>. DEFINE g == PushFront(h, b.at)
            C == B \cup {b}
<1>1. Rep(g, C, Frees(C), Edges(lo, hi)) /\ SameFrame(h, g) /\ OnlyIn(h, g, Frees(C))
  <2>1. b \in C /\ b \notin Frees(B) /\ Frees(B) \cup {b} = Frees(C)
    BY DEF Frees
  <2>. QED  BY <2>1, RepPush
<1>2. Rests(g, C, lo, hi) /\ C \ {b} = B
  BY <1>1 DEF Rests
<1>. HIDE DEF g
<1>3. /\ Rests(Coalesce(g, b.at), H!Coalesce(C, b), lo, hi)
      /\ SameFrame(g, Coalesce(g, b.at)) /\ OnlyIn(g, Coalesce(g, b.at), Frees(C))
  BY <1>2, CoalesceRests
<1>4. OnlyIn(h, Coalesce(g, b.at), Frees(C)) /\ Frees(C) = Frees(B) \cup {b}
  <2>1. OnlyIn(h, Coalesce(g, b.at), Frees(C))
    BY <1>1, <1>3, OnlyInBoth
  <2>. QED  BY <2>1 DEF Frees
<1>. QED  BY <1>1, <1>3, <1>4 DEF g, InsertNode, H!InsertNode, SameFrame

-----------------------------------------------------------------------------
(***************************************************************************)
(* Allocating a block, and giving it back.                                 *)
(***************************************************************************)
\* Putting one block, or two, in the place of another.
LEMMA RowChanges ==
    ASSUME NEW B \in SUBSET H!Block, NEW lo \in Int, NEW hi \in Int, H!Row(B, lo, hi), NEW b \in B
    PROVE  /\ \A c \in H!Block : c.at = b.at /\ c.size = b.size => H!Row((B \ {b}) \cup {c}, lo, hi)
           /\ \A c, d \in H!Block :
                /\ c.at = b.at /\ H!EndOf(c) = d.at /\ H!EndOf(d) = H!EndOf(b)
                /\ c.size >= 3 /\ d.size >= 3
                => H!Row((B \ {b}) \cup {c, d}, lo, hi)
<1>. USE LayoutAssumption, SegmentAssumption, ClientAssumption, StackAssumption
<1>1. Requests \subseteq Nat /\ StackBytes \in Nat
  OBVIOUS
<1>2. ASSUME NEW c \in H!Block, c.at = b.at, c.size = b.size
      PROVE  H!Row((B \ {b}) \cup {c}, lo, hi)
  BY <1>1, <1>2, H!SwapRow
<1>3. ASSUME NEW c \in H!Block, NEW d \in H!Block, c.at = b.at, H!EndOf(c) = d.at,
             H!EndOf(d) = H!EndOf(b), c.size >= 3, d.size >= 3
      PROVE  H!Row((B \ {b}) \cup {c, d}, lo, hi)
  BY <1>1, <1>3, H!SplitRow
<1>. QED  BY <1>2, <1>3

\* set_block on the words of a block that is not looked at any more.
LEMMA SetRests ==
    ASSUME NEW h, NEW K, NEW E, NEW m \in H!Block, m \notin K, ~m.alloc => m.want = 0,
           NEW C \in SUBSET H!Block, K \cup {m} \subseteq C,
           Fitting(C, E), \A c, d \in C : c = d \/ Clear(c, d),
           NEW F \in SUBSET C, Rep(h, K, F, E)
    PROVE  LET g == SetBlock(h, m.at, m.size, Bit(m))
           IN  Rep(g, K \cup {m}, F, E) /\ SameFrame(h, g) /\ OnlyIn(h, g, {m})
<1>1. Fitting(K \cup F \cup {m}, E) /\ \A c \in K : Clear(c, m)
  BY DEF Fitting
<1>. QED  BY <1>1, RepSet

\* place, of the whole block or of its front.
LEMMA PlaceRests ==
    ASSUME NEW h, NEW B, NEW lo, NEW hi, Rests(h, B, lo, hi), H!NoFreePair(B),
           NEW b \in B, ~b.alloc, NEW asize \in Nat, 3 <= asize, asize <= b.size, NEW want \in Nat
    PROVE  /\ Rests(Place(h, b.at, asize), H!Place(B, b, asize, want), lo, hi)
           /\ SameFrame(h, Place(h, b.at, asize)) /\ OnlyIn(h, Place(h, b.at, asize), Frees(B))
<1>. DEFINE E == Edges(lo, hi)
            F == Frees(B)
            K == B \ {b}
            p == b.at
<1>1. /\ B \in SUBSET H!Block /\ lo \in Nat /\ 2 <= lo /\ hi \in Nat /\ hi \in Words
      /\ Rep(h, B, F, E) /\ H!Row(B, lo, hi)
  BY DEF Rests, Rep, Edges
<1>2. /\ b \in H!Block /\ b.at \in Nat /\ b.size \in Nat /\ b.want = 0 /\ b \in F
      /\ Stop(b) = b.at + b.size + 2 /\ H!EndOf(b) = Stop(b)
  BY <1>1, BlockParts DEF Stop, Rep, Frees
<1>3. GET_SIZE(h, p) = b.size
  BY <1>1, ReadTags
<1>4. F \ {b} = Frees(K) /\ K \in SUBSET B /\ E \in SUBSET E
  BY DEF Frees
<1>5. CASE b.size - asize < MINBLKSZ
  <2>. DEFINE n == [b EXCEPT !.alloc = TRUE, !.want = want]
              C == K \cup {n}
              set == SetBlock(h, n.at, n.size, Bit(n))
  <2>1. /\ n \in H!Block /\ n.at = b.at /\ n.size = b.size /\ n.alloc /\ Bit(n) = 1
        /\ Stop(n) = Stop(b)
    BY <1>2 DEF H!Block, Bit, Stop
  <2>2. Place(h, p, asize) = DeleteNode(set, p) /\ H!Place(B, b, asize, want) = C
    <3>1. H!MINBLKSZ = MINBLKSZ
      BY DEF H!MINBLKSZ, MINBLKSZ
    <3>. QED  BY <1>3, <1>5, <2>1, <3>1 DEF Place, H!Place
  <2>. HIDE DEF n
  <2>3. H!Row(C, lo, hi) /\ C \in SUBSET H!Block
    <3>1. lo \in Int /\ hi \in Int
      BY <1>1
    <3>. QED  BY <1>1, <2>1, <3>1, RowChanges
  <2>4. Fitting(K \cup F \cup {n}, E) /\ \A c \in K : Clear(c, n)
    <3>1. Fitting(B, E) /\ \A c, d \in B : c = d \/ Clear(c, d)
      BY <1>1, RowFits
    <3>2. K \cup F \cup {n} \subseteq B \cup {n}
      BY DEF Frees
    <3>3. Fitting(B \cup {n}, E)
      <4>1. \A c \in B : Clear(c, n) = Clear(c, b) /\ Clear(n, c) = Clear(b, c)
        BY <2>1 DEF Clear
      <4>. QED  BY <2>1, <3>1, <4>1 DEF Fitting
    <3>4. Fitting(K \cup F \cup {n}, E)
      BY <3>2, <3>3 DEF Fitting
    <3>5. \A c \in K : Clear(c, n)
      BY <2>1, <3>1 DEF Clear
    <3>. QED  BY <3>4, <3>5
  <2>5. Rep(set, C, F, E) /\ SameFrame(h, set) /\ OnlyIn(h, set, {n})
    <3>1. Rep(h, K, F, E)
      BY <1>1, <1>4, RepDrop
    <3>. QED  BY <2>1, <2>4, <3>1, RepSet
  <2>. HIDE DEF set
  <2>6. GET_SIZE(set, b.at) = b.size
    <3>1. n \in C
      OBVIOUS
    <3>. QED  BY <2>1, <2>5, <3>1, ReadTags
  <2>7. /\ Rep(DeleteNode(set, b.at), C, F \ {b}, E)
        /\ SameFrame(set, DeleteNode(set, b.at)) /\ OnlyIn(set, DeleteNode(set, b.at), F)
    BY <1>2, <2>5, <2>6, RepDelete
  <2>8. F \ {b} = Frees(C)
    BY <2>1 DEF Frees
  <2>. HIDE DEF C
  <2>9. Rests(DeleteNode(set, p), C, lo, hi) /\ SameFrame(h, DeleteNode(set, p))
    BY <1>1, <2>3, <2>5, <2>7, <2>8 DEF Rests, SameFrame
  <2>10. OnlyIn(h, DeleteNode(set, p), F)
    <3>1. \A w \in Words : Apart(w, F) => Apart(w, {n}) /\ Apart(w, F)
      BY <1>2, <2>1 DEF Apart
    <3>. QED  BY <2>5, <2>7, <3>1, OnlyInBoth
  <2>. QED  BY <2>2, <2>9, <2>10
<1>6. CASE ~(b.size - asize < MINBLKSZ)
  <2>. DEFINE front == [b EXCEPT !.size = asize, !.alloc = TRUE, !.want = want]
              rest == H!FreeBlock(b.at + asize + 2, b.size - asize - 2)
              C == K \cup {front}
              D == C \cup {rest}
              bare == DeleteNode(h, p)
              cut == SetBlock(bare, front.at, front.size, Bit(front))
              set == SetBlock(cut, rest.at, rest.size, Bit(rest))
  <2>1. /\ front \in H!Block /\ front.at = b.at /\ front.size = asize /\ front.alloc
        /\ Bit(front) = 1 /\ Stop(front) = b.at + asize + 2 /\ H!EndOf(front) = Stop(front)
    BY <1>2 DEF H!Block, Bit, Stop, H!EndOf, H!TagWords
  <2>2. /\ rest \in H!Block /\ rest.at = b.at + asize + 2 /\ rest.size = b.size - asize - 2
        /\ ~rest.alloc /\ rest.want = 0 /\ Bit(rest) = 0 /\ rest.size >= 3
        /\ H!EndOf(rest) = H!EndOf(b)
    <3>1. b.size - asize - 2 >= 3 /\ b.at + asize + 2 \in Nat /\ b.size - asize - 2 \in Nat
      BY <1>2, <1>6 DEF MINBLKSZ
    <3>. QED  BY <1>2, <3>1 DEF H!Block, H!FreeBlock, H!EndOf, H!TagWords, Bit
  <2>3. /\ Place(h, p, asize) = InsertNode(set, rest.at)
        /\ H!Place(B, b, asize, want) = H!InsertNode(C, rest)
    <3>1. H!MINBLKSZ = MINBLKSZ /\ H!TagWords = 2 /\ TagWords = 2
      BY DEF H!MINBLKSZ, MINBLKSZ, H!TagWords, TagWords
    <3>2. p + TagWords + asize = b.at + asize + 2
      BY <1>2, <3>1
    <3>3. rest = H!FreeBlock(H!EndOf(front), b.size - asize - H!TagWords)
      BY <2>1, <3>1
    <3>4. Place(h, p, asize) = InsertNode(set, rest.at)
      <4>. HIDE DEF front, rest
      <4>. QED  BY <1>2, <1>3, <1>6, <2>1, <2>2, <3>1, <3>2 DEF Place
    <3>5. H!Place(B, b, asize, want) = H!InsertNode(C, rest)
      BY <1>6, <3>1, <3>3 DEF H!Place
    <3>. QED  BY <3>4, <3>5
  <2>. HIDE DEF front, rest
  <2>4. H!Row(D, lo, hi) /\ D \in SUBSET H!Block
    <3>1. lo \in Int /\ hi \in Int /\ D = K \cup {front, rest}
      BY <1>1
    <3>2. H!Row(K \cup {front, rest}, lo, hi)
      BY <1>1, <2>1, <2>2, <3>1, RowChanges
    <3>. QED  BY <1>1, <2>1, <2>2, <3>1, <3>2
  <2>5. Fitting(D, E) /\ \A c, d \in D : c = d \/ Clear(c, d)
    BY <1>1, <2>4, RowFits
  <2>6. /\ front \notin K /\ rest \notin C /\ Frees(K) \in SUBSET D /\ C \in SUBSET D /\ K \in SUBSET C
    <3>1. \A c, d \in B : c = d \/ Clear(c, d)
      BY <1>1, RowFits
    <3>2. \A c \in K : c \in B /\ Clear(b, c) /\ c.at \in Nat /\ c.size \in Nat /\ Stop(c) = c.at + c.size + 2
      BY <1>1, <3>1, BlockParts DEF Clear, Stop
    <3>3. \A c \in K : c # front /\ c # rest
      BY <1>2, <2>1, <2>2, <3>2 DEF Clear
    <3>. QED  BY <2>1, <2>2, <3>3 DEF Frees
  <2>7. Rep(bare, K, Frees(K), E) /\ SameFrame(h, bare) /\ OnlyIn(h, bare, F)
    <3>1. Rep(bare, B, F \ {b}, E) /\ SameFrame(h, bare) /\ OnlyIn(h, bare, F)
      BY <1>1, <1>2, <1>3, RepDelete
    <3>. QED  BY <1>4, <3>1, RepDrop
  <2>. HIDE DEF bare
  <2>8. Rep(cut, C, Frees(K), E) /\ SameFrame(bare, cut) /\ OnlyIn(bare, cut, {front})
    <3>. HIDE DEF D, K, E
    <3>. QED  BY <2>1, <2>4, <2>5, <2>6, <2>7, SetRests DEF D
  <2>. HIDE DEF cut
  <2>9. Rep(set, C \cup {rest}, Frees(K), E) /\ SameFrame(cut, set) /\ OnlyIn(cut, set, {rest})
    <3>. HIDE DEF C, K, E
    <3>. QED  BY <2>2, <2>4, <2>5, <2>6, <2>8, SetRests
  <2>. HIDE DEF set
  <2>10. H!NoFreePair(C) /\ Frees(C) = Frees(K)
    <3>1. \A x, y \in K : H!EndOf(x) = y.at => x.alloc \/ y.alloc
      BY DEF H!NoFreePair
    <3>. QED  BY <2>1, <3>1 DEF H!NoFreePair, Frees
  <2>11. /\ Rests(InsertNode(set, rest.at), H!InsertNode(C, rest), lo, hi)
         /\ SameFrame(set, InsertNode(set, rest.at))
         /\ OnlyIn(set, InsertNode(set, rest.at), Frees(C) \cup {rest})
    <3>. HIDE DEF C
    <3>. QED  BY <1>1, <2>2, <2>4, <2>6, <2>9, <2>10, InsertRests
  <2>12. ASSUME NEW w \in Words, Apart(w, F)
         PROVE  Apart(w, {front}) /\ Apart(w, {rest}) /\ Apart(w, Frees(C) \cup {rest})
    <3>1. w \in Nat /\ (w < b.at \/ Stop(b) <= w)
      BY <1>2, <2>12, WordsRange DEF Apart
    <3>2. Stop(rest) = Stop(b)
      BY <1>2, <2>2 DEF Stop
    <3>3. Apart(w, Frees(K))
      BY <2>12 DEF Apart, Frees
    <3>4. (w < front.at \/ Stop(front) <= w) /\ (w < rest.at \/ Stop(rest) <= w)
      <4>. HIDE DEF K, F
      <4>. QED  BY <1>2, <2>1, <2>2, <3>1, <3>2
    <3>. HIDE DEF C, K, F
    <3>. QED  BY <2>10, <3>3, <3>4 DEF Apart
  <2>13. OnlyIn(h, InsertNode(set, rest.at), F)
    <3>1. OnlyIn(h, cut, F)
      BY <2>7, <2>8, <2>12, OnlyInBoth
    <3>2. OnlyIn(h, set, F)
      BY <2>9, <2>12, <3>1, OnlyInBoth
    <3>. QED  BY <2>11, <2>12, <3>2, OnlyInBoth
  <2>. QED  BY <2>3, <2>7, <2>8, <2>9, <2>11, <2>13 DEF SameFrame
<1>. QED  BY <1>5, <1>6

\* myfree of an allocated block.
LEMMA FreeRests ==
    ASSUME NEW h, NEW B, NEW lo, NEW hi, Rests(h, B, lo, hi), H!NoFreePair(B), NEW b \in B, b.alloc
    PROVE  /\ Rests(MyFree(h, b.at + 1), H!Released(B, b), lo, hi)
           /\ SameFrame(h, MyFree(h, b.at + 1)) /\ OnlyIn(h, MyFree(h, b.at + 1), Frees(B) \cup {b})
<1>. DEFINE E == Edges(lo, hi)
            K == B \ {b}
            f == H!FreeBlock(b.at, b.size)
            set == SetBlock(h, f.at, f.size, Bit(f))
<1>1. /\ B \in SUBSET H!Block /\ lo \in Nat /\ 2 <= lo /\ hi \in Nat /\ hi \in Words
      /\ Rep(h, B, Frees(B), E) /\ H!Row(B, lo, hi) /\ K \in SUBSET B /\ E \in SUBSET E
      /\ lo \in Int /\ hi \in Int
  BY DEF Rests, Rep, Edges
<1>2. b \in H!Block /\ b.at \in Nat /\ b.size \in Nat
  BY <1>1, BlockParts
<1>3. /\ f \in H!Block /\ f.at = b.at /\ f.size = b.size /\ ~f.alloc /\ f.want = 0 /\ Bit(f) = 0
  BY <1>2 DEF H!Block, H!FreeBlock, Bit
<1>4. GET_SIZE(h, b.at) = b.size
  BY <1>1, ReadTags
<1>5. /\ MyFree(h, b.at + 1) = InsertNode(set, f.at)
      /\ H!Released(B, b) = H!InsertNode(K, f)
  <2>1. b.at + 1 # NULL /\ (b.at + 1) - 1 = b.at
    BY <1>2 DEF NULL
  <2>2. H!Released(B, b) = H!InsertNode(K, f)
    BY DEF H!Released
  <2>. HIDE DEF f
  <2>. QED  BY <1>3, <1>4, <2>1, <2>2 DEF MyFree
<1>. HIDE DEF f
<1>6. H!Row(K \cup {f}, lo, hi) /\ K \cup {f} \in SUBSET H!Block
  BY <1>1, <1>3, RowChanges
<1>7. Fitting(K \cup {f}, E) /\ \A c, d \in K \cup {f} : c = d \/ Clear(c, d)
  BY <1>1, <1>6, RowFits
<1>8. f \notin K
  <2>1. \A c \in K : Clear(c, b)
    BY <1>1, RowFits
  <2>. QED  BY <1>2, <1>3, <2>1 DEF Clear, Stop
<1>9. Rep(h, K, Frees(B), E) /\ Frees(B) = Frees(K)
  BY <1>1, RepDrop DEF Frees
<1>10. Rep(set, K \cup {f}, Frees(K), E) /\ SameFrame(h, set) /\ OnlyIn(h, set, {f})
  <2>1. Frees(K) \in SUBSET (K \cup {f})
    BY DEF Frees
  <2>. HIDE DEF K, E
  <2>. QED  BY <1>3, <1>6, <1>7, <1>8, <1>9, <2>1, SetRests
<1>. HIDE DEF set
<1>11. H!NoFreePair(K)
  BY DEF H!NoFreePair
<1>12. /\ Rests(InsertNode(set, f.at), H!InsertNode(K, f), lo, hi)
       /\ SameFrame(set, InsertNode(set, f.at))
       /\ OnlyIn(set, InsertNode(set, f.at), Frees(K) \cup {f})
  <2>. HIDE DEF K
  <2>. QED  BY <1>1, <1>3, <1>6, <1>8, <1>10, <1>11, InsertRests
<1>13. OnlyIn(h, InsertNode(set, f.at), Frees(B) \cup {b})
  <2>1. \A w \in Words : Apart(w, Frees(B) \cup {b}) => Apart(w, {f}) /\ Apart(w, Frees(K) \cup {f})
    BY <1>3, <1>9 DEF Apart, Stop
  <2>. QED  BY <1>10, <1>12, <2>1, OnlyInBoth
<1>. QED  BY <1>5, <1>10, <1>12, <1>13 DEF SameFrame

-----------------------------------------------------------------------------
(***************************************************************************)
(* Walking the lists.                                                      *)
(***************************************************************************)
\* The node behind those seen so far, and what is seen with it.
NodeAfter(h, i, s) == IF s = <<>> THEN h.fl[i] ELSE GET(h, next(Last(s)))

Onward(h, i, s) == IF NodeAfter(h, i, s) = NULL THEN s ELSE Append(s, NodeAfter(h, i, s))

\* What is seen of a list after 0, 1, 2 ... steps.
Stepwise(h, i, S, seen) ==
    /\ seen[0] = <<>> /\ FreeList(h, i) = seen[MoreThanBlocks]
    /\ \A n \in 0 .. MoreThanBlocks : seen[n] \in S
    /\ \A n \in 1 .. MoreThanBlocks : seen[n] = Onward(h, i, seen[n - 1])

LEMMA FreeListSteps ==
    ASSUME NEW h, NEW i, NEW S, <<>> \in S, \A s \in S : Onward(h, i, s) \in S
    PROVE  \E seen : Stepwise(h, i, S, seen)
<1>. DEFINE Step(f) == [n \in 0 .. MoreThanBlocks |->
                          IF n = 0 THEN <<>>
                          ELSE LET list == f[n - 1]
                                   node == IF list = <<>> THEN h.fl[i] ELSE GET(h, next(Last(list)))
                               IN  IF node = NULL THEN list ELSE Append(list, node)]
            seen == CHOOSE f : f = Step(f)
            D == [n \in 1 .. MoreThanBlocks |-> [s \in S |-> Onward(h, i, s)]]
<1>1. FreeList(h, i) = seen[MoreThanBlocks]
  BY DEF FreeList
<1>2. MoreThanBlocks \in Nat
  BY FifthsRange
<1>3. PICK g \in [0 .. MoreThanBlocks -> S] : Iterates(g, MoreThanBlocks, <<>>, D)
  <2>1. D \in [1 .. MoreThanBlocks -> [S -> S]]
    OBVIOUS
  <2>. HIDE DEF D
  <2>. QED  BY <1>2, <2>1, RecursionExists
<1>4. ASSUME NEW f, NEW n \in 0 .. MoreThanBlocks
      PROVE  Step(f)[n] = IF n = 0 THEN <<>> ELSE Onward(h, i, f[n - 1])
  BY DEF Onward, NodeAfter
<1>5. g = Step(g)
  <2>1. ASSUME NEW n \in 0 .. MoreThanBlocks
        PROVE  g[n] = IF n = 0 THEN <<>> ELSE Onward(h, i, g[n - 1])
    <3>1. g[n] = IF n = 0 THEN <<>> ELSE D[n][g[n - 1]]
      <4>. HIDE DEF D
      <4>. QED  BY <1>3 DEF Iterates
    <3>2. ASSUME n # 0 PROVE n \in 1 .. MoreThanBlocks /\ n - 1 \in 0 .. MoreThanBlocks
      BY <1>2, <3>2
    <3>3. ASSUME n # 0 PROVE D[n][g[n - 1]] = Onward(h, i, g[n - 1])
      BY <3>2, <3>3
    <3>. HIDE DEF D
    <3>. QED  BY <3>1, <3>3
  <2>2. \A n \in 0 .. MoreThanBlocks : g[n] = Step(g)[n]
    <3>. HIDE DEF Step
    <3>. QED  BY <1>4, <2>1
  <2>3. Step(g) = [n \in 0 .. MoreThanBlocks |-> Step(g)[n]]
    OBVIOUS
  <2>. HIDE DEF Step
  <2>. QED  BY <2>2, <2>3
<1>6. seen = Step(seen)
  <2>. HIDE DEF Step
  <2>. QED  BY <1>5
<1>. HIDE DEF seen, Step
<1>7. \A n \in 0 .. MoreThanBlocks : seen[n] = IF n = 0 THEN <<>> ELSE Onward(h, i, seen[n - 1])
  <2>. SUFFICES ASSUME NEW n \in 0 .. MoreThanBlocks
                PROVE  seen[n] = IF n = 0 THEN <<>> ELSE Onward(h, i, seen[n - 1])
    OBVIOUS
  <2>1. Step(seen)[n] = IF n = 0 THEN <<>> ELSE Onward(h, i, seen[n - 1])
    BY <1>4
  <2>. QED  BY <1>6, <2>1
<1>. DEFINE T == {n \in Nat : n <= MoreThanBlocks => seen[n] \in S}
<1>8. 0 \in T
  BY <1>2, <1>7
<1>9. ASSUME NEW n \in Nat, n \in T
      PROVE  n + 1 \in T
  <2>. SUFFICES ASSUME n + 1 <= MoreThanBlocks PROVE seen[n + 1] \in S
    OBVIOUS
  <2>1. n + 1 \in 0 .. MoreThanBlocks /\ n + 1 # 0 /\ (n + 1) - 1 = n /\ n <= MoreThanBlocks
    BY <1>2
  <2>2. seen[n + 1] = Onward(h, i, seen[n])
    BY <1>7, <2>1
  <2>. QED  BY <1>9, <2>1, <2>2
<1>10. Nat \subseteq T
  <2>. HIDE DEF T
  <2>. QED  BY <1>8, <1>9, InductionOnNat
<1>11. \A n \in 0 .. MoreThanBlocks : seen[n] \in S
  BY <1>2, <1>10
<1>12. \A n \in 1 .. MoreThanBlocks : seen[n] = Onward(h, i, seen[n - 1])
  <2>1. \A n \in 1 .. MoreThanBlocks : n \in 0 .. MoreThanBlocks /\ n # 0
    BY <1>2
  <2>. QED  BY <1>7, <2>1
<1>13. seen[0] = <<>>
  BY <1>2, <1>7
<1>. QED  BY <1>1, <1>11, <1>12, <1>13 DEF Stepwise

\* Nodes that the links lead through, one after the other, from the first of
\* list i on; M are the nodes of that list.
Threads(h, i, M) ==
    {s \in Seq(M) : \A k \in 1 .. Len(s) :
       /\ h.mem[prev(s[k])] = IF k = 1 THEN NULL ELSE s[k - 1]
       /\ s[k] = IF k = 1 THEN h.fl[i] ELSE h.mem[next(s[k - 1])]}

\* Walking a list keeps to its nodes.
LEMMA OnwardThreads ==
    ASSUME NEW h \in WordHeap, NEW N, NEW cls, NEW rank, NEW top, Spaced(N),
           Linked(h, N, cls, rank, top), NEW i \in Buckets,
           NEW s \in Threads(h, i, {p \in N : cls[p] = i})
    PROVE  Onward(h, i, s) \in Threads(h, i, {p \in N : cls[p] = i})
<1>. DEFINE M == {p \in N : cls[p] = i}
            node == NodeAfter(h, i, s)
            t == Append(s, node)
<1>1. s \in Seq(M) /\ Len(s) \in Nat
  BY DEF Threads
<1>2. CASE node = NULL
  BY <1>2 DEF Onward
<1>3. CASE node # NULL
  <2>1. CASE s = <<>>
    <3>1. node = h.fl[i] /\ h.fl[i] \in M /\ h.mem[prev(h.fl[i])] = NULL
      BY <1>3, <2>1 DEF NodeAfter, Linked
    <3>2. t \in Seq(M) /\ Len(t) = 1 /\ t[1] = node
      BY <2>1, <3>1
    <3>. HIDE DEF t, node
    <3>3. t \in Threads(h, i, M)
      BY <3>1, <3>2 DEF Threads
    <3>. QED  BY <1>3, <3>3 DEF Onward, t, node
  <2>2. CASE s # <<>>
    <3>1. Len(s) # 0 /\ s[Len(s)] \in M
      BY <1>1, <2>2
    <3>2. /\ node = h.mem[next(s[Len(s)])]
          /\ node \in M /\ h.mem[prev(node)] = s[Len(s)]
      BY <1>3, <2>2, <3>1 DEF NodeAfter, Linked, Last, GET
    <3>3. /\ t \in Seq(M) /\ Len(t) = Len(s) + 1
          /\ \A k \in 1 .. Len(s) : t[k] = s[k]
          /\ t[Len(s) + 1] = node
      BY <1>1, <3>2
    <3>. HIDE DEF t, node
    <3>4. ASSUME NEW k \in 1 .. Len(t)
          PROVE  /\ h.mem[prev(t[k])] = IF k = 1 THEN NULL ELSE t[k - 1]
                 /\ t[k] = IF k = 1 THEN h.fl[i] ELSE h.mem[next(t[k - 1])]
      <4>1. CASE k = Len(s) + 1
        <5>1. k # 1 /\ k - 1 = Len(s) /\ t[k - 1] = s[Len(s)] /\ t[k] = node
          BY <1>1, <3>1, <3>3, <4>1
        <5>. QED  BY <3>2, <5>1
      <4>2. CASE k # Len(s) + 1
        <5>1. k \in 1 .. Len(s) /\ t[k] = s[k] /\ (k # 1 => t[k - 1] = s[k - 1])
          BY <1>1, <3>3, <4>2
        <5>2. /\ h.mem[prev(s[k])] = IF k = 1 THEN NULL ELSE s[k - 1]
              /\ s[k] = IF k = 1 THEN h.fl[i] ELSE h.mem[next(s[k - 1])]
          BY <5>1 DEF Threads
        <5>. QED  BY <5>1, <5>2
      <4>. QED  BY <4>1, <4>2
    <3>5. t \in Threads(h, i, M)
      BY <3>3, <3>4 DEF Threads
    <3>. QED  BY <1>3, <3>5 DEF Onward, t, node
  <2>. QED  BY <2>1, <2>2
<1>. QED  BY <1>2, <1>3

\* The links never run in a circle.
LEMMA ThreadsInjective ==
    ASSUME NEW h, NEW N, NEW cls, NEW rank, NEW top, Spaced(N),
           Linked(h, N, cls, rank, top), NEW i \in Buckets,
           NEW s \in Threads(h, i, {p \in N : cls[p] = i})
    PROVE  \A j, k \in 1 .. Len(s) : s[j] = s[k] => j = k
<1>. DEFINE T == {k \in Nat : k \in 1 .. Len(s) => \A j \in 1 .. Len(s) : j < k => rank[s[k]] < rank[s[j]]}
<1>1. /\ Len(s) \in Nat
      /\ \A k \in 1 .. Len(s) : s[k] \in N /\ rank[s[k]] \in Nat
      /\ \A k \in 1 .. Len(s) : k # 1 => rank[s[k]] < rank[s[k - 1]]
  <2>1. s \in Seq({p \in N : cls[p] = i}) /\ Len(s) \in Nat
    BY DEF Threads
  <2>2. \A k \in 1 .. Len(s) : s[k] \in N
    BY <2>1
  <2>3. \A k \in 1 .. Len(s) : rank[s[k]] \in Nat
    BY <2>2 DEF Linked, Spaced
  <2>4. ASSUME NEW k \in 1 .. Len(s), k # 1
        PROVE  rank[s[k]] < rank[s[k - 1]]
    <3>1. h.mem[prev(s[k])] = s[k - 1] /\ k - 1 \in 1 .. Len(s)
      BY <2>1, <2>4 DEF Threads
    <3>2. s[k - 1] # NULL
      BY <2>2, <3>1 DEF Spaced
    <3>. QED  BY <2>2, <3>1, <3>2 DEF Linked
  <2>. QED  BY <2>1, <2>2, <2>3, <2>4
<1>2. 0 \in T
  OBVIOUS
<1>3. ASSUME NEW k \in Nat, k \in T
      PROVE  k + 1 \in T
  <2>. SUFFICES ASSUME k + 1 \in 1 .. Len(s), NEW j \in 1 .. Len(s), j < k + 1
                PROVE  rank[s[k + 1]] < rank[s[j]]
    OBVIOUS
  <2>1. k \in 1 .. Len(s) /\ k + 1 # 1 /\ (k + 1) - 1 = k
    BY <1>1
  <2>2. rank[s[k + 1]] < rank[s[k]] /\ rank[s[k + 1]] \in Nat /\ rank[s[k]] \in Nat /\ rank[s[j]] \in Nat
    BY <1>1, <2>1
  <2>3. j = k \/ rank[s[k]] < rank[s[j]]
    BY <1>3, <2>1
  <2>. QED  BY <2>2, <2>3
<1>4. Nat \subseteq T
  <2>. HIDE DEF T
  <2>. QED  BY <1>2, <1>3, InductionOnNat
<1>5. ASSUME NEW j \in 1 .. Len(s), NEW k \in 1 .. Len(s), j < k
      PROVE  s[j] # s[k]
  <2>1. rank[s[k]] < rank[s[j]]
    BY <1>1, <1>4, <1>5
  <2>. QED  BY <1>1, <2>1
<1>. QED  BY <1>1, <1>5

\* A walk that has come to the end has seen every node of its list.
LEMMA ThreadsComplete ==
    ASSUME NEW h \in WordHeap, NEW N, NEW cls, NEW rank, NEW top, Spaced(N),
           Linked(h, N, cls, rank, top), NEW i \in Buckets,
           NEW s \in Threads(h, i, {p \in N : cls[p] = i}), NodeAfter(h, i, s) = NULL
    PROVE  \A q \in N : cls[q] = i => \E k \in 1 .. Len(s) : s[k] = q
<1>. DEFINE Missed == {q \in N : cls[q] = i /\ \A k \in 1 .. Len(s) : s[k] # q}
            Depth == {top - rank[q] : q \in Missed}
<1>. SUFFICES ASSUME Missed # {} PROVE FALSE
  OBVIOUS
<1>1. \A q \in N : rank[q] \in Nat /\ q \in Nat /\ q # NULL /\ rank[q] <= top /\ top \in Nat
  BY DEF Linked, Spaced
<1>2. Depth \in SUBSET Nat /\ Depth # {}
  BY <1>1
<1>3. PICK q \in Missed : \A r \in Missed : top - rank[q] <= top - rank[r]
  <2>. HIDE DEF Missed
  <2>1. PICK d \in Depth : \A e \in Depth : d <= e
    <3>. HIDE DEF Depth
    <3>. QED  BY <1>2, LeastExists
  <2>. QED  BY <2>1
<1>4. s \in Seq({p \in N : cls[p] = i}) /\ Len(s) \in Nat
  BY DEF Threads
<1>5. CASE h.mem[prev(q)] = NULL
  <2>1. h.fl[i] = q /\ q # NULL
    BY <1>1, <1>5 DEF Linked
  <2>2. s # <<>>
    BY <2>1 DEF NodeAfter
  <2>3. 1 \in 1 .. Len(s)
    BY <1>4, <2>2
  <2>4. s[1] = h.fl[i]
    BY <2>3 DEF Threads
  <2>. QED  BY <2>1, <2>3, <2>4
<1>6. CASE h.mem[prev(q)] # NULL
  <2>. DEFINE p == h.mem[prev(q)]
  <2>1. p \in N /\ cls[p] = i /\ h.mem[next(p)] = q /\ rank[q] < rank[p]
    BY <1>6 DEF Linked
  <2>2. p \notin Missed
    <3>. SUFFICES ASSUME p \in Missed PROVE FALSE
      OBVIOUS
    <3>1. top - rank[q] <= top - rank[p] /\ rank[q] \in Nat /\ rank[p] \in Nat /\ top \in Nat
      BY <1>1, <1>3, <2>1
    <3>. QED  BY <2>1, <3>1
  <2>3. PICK k \in 1 .. Len(s) : s[k] = p
    BY <2>1, <2>2
  <2>4. CASE k = Len(s)
    <3>1. s # <<>>
      BY <1>4, <2>3
    <3>2. NodeAfter(h, i, s) = q
      BY <2>1, <2>3, <2>4, <3>1 DEF NodeAfter, Last, GET
    <3>. QED  BY <1>1, <3>2
  <2>5. CASE k # Len(s)
    <3>1. k + 1 \in 1 .. Len(s) /\ k + 1 # 1 /\ (k + 1) - 1 = k
      BY <1>4, <2>5
    <3>2. s[k + 1] = h.mem[next(s[k])]
      BY <3>1 DEF Threads
    <3>. QED  BY <2>1, <2>3, <3>1, <3>2
  <2>. QED  BY <2>4, <2>5
<1>. QED  BY <1>5, <1>6

\* FreeList finds every node of the list, each once.
LEMMA FreeListThreads ==
    ASSUME NEW h \in WordHeap, NEW N, NEW cls, NEW rank, NEW top, Spaced(N),
           Linked(h, N, cls, rank, top), NEW i \in Buckets
    PROVE  /\ FreeList(h, i) \in Threads(h, i, {p \in N : cls[p] = i})
           /\ NodeAfter(h, i, FreeList(h, i)) = NULL
<1>. DEFINE M == {p \in N : cls[p] = i}
            S == Threads(h, i, M)
            Ended(s) == NodeAfter(h, i, s) = NULL
<1>1. <<>> \in S
  BY DEF Threads
<1>2. \A s \in S : Onward(h, i, s) \in S
  BY OnwardThreads
<1>3. PICK seen : /\ seen[0] = <<>> /\ FreeList(h, i) = seen[MoreThanBlocks]
                  /\ \A n \in 0 .. MoreThanBlocks : seen[n] \in S
                  /\ \A n \in 1 .. MoreThanBlocks : seen[n] = Onward(h, i, seen[n - 1])
  <2>. HIDE DEF S
  <2>1. \E seen : Stepwise(h, i, S, seen)
    BY <1>1, <1>2, FreeListSteps
  <2>. QED  BY <2>1 DEF Stepwise
<1>4. MoreThanBlocks \in Nat
  BY FifthsRange
<1>. DEFINE T == {n \in Nat : n <= MoreThanBlocks => Ended(seen[n]) \/ Len(seen[n]) = n}
<1>5. 0 \in T
  BY <1>3
<1>6. ASSUME NEW n \in Nat, n \in T
      PROVE  n + 1 \in T
  <2>. SUFFICES ASSUME n + 1 <= MoreThanBlocks
                PROVE  Ended(seen[n + 1]) \/ Len(seen[n + 1]) = n + 1
    OBVIOUS
  <2>1. n + 1 \in 1 .. MoreThanBlocks /\ (n + 1) - 1 = n /\ n <= MoreThanBlocks /\ n \in 0 .. MoreThanBlocks
    BY <1>4
  <2>2. seen[n + 1] = Onward(h, i, seen[n])
    BY <1>3, <2>1
  <2>3. CASE Ended(seen[n])
    BY <2>2, <2>3 DEF Onward
  <2>4. CASE ~Ended(seen[n])
    <3>1. Len(seen[n]) = n
      BY <1>6, <2>1, <2>4
    <3>2. seen[n + 1] = Append(seen[n], NodeAfter(h, i, seen[n]))
      BY <2>2, <2>4 DEF Onward
    <3>3. seen[n] \in Seq(M)
      BY <1>3, <2>1 DEF Threads
    <3>. HIDE DEF M
    <3>4. Len(seen[n + 1]) = Len(seen[n]) + 1
      BY <3>2, <3>3
    <3>. QED  BY <3>1, <3>4
  <2>. QED  BY <2>3, <2>4
<1>7. Nat \subseteq T
  <2>. HIDE DEF T
  <2>. QED  BY <1>5, <1>6, InductionOnNat
<1>. DEFINE s == FreeList(h, i)
            F == MoreThanBlocks
<1>8. s \in S /\ (Ended(s) \/ Len(s) = F)
  <2>1. s = seen[F] /\ F \in Nat /\ F \in 0 .. F /\ F \in T
    BY <1>3, <1>4, <1>7
  <2>. HIDE DEF S, s, F
  <2>2. Ended(seen[F]) \/ Len(seen[F]) = F
    BY <2>1 DEF F
  <2>3. seen[F] \in S
    BY <1>3, <2>1 DEF F
  <2>. QED  BY <2>1, <2>2, <2>3
<1>. HIDE DEF s
<1>9. Len(s) # F
  <2>. SUFFICES ASSUME Len(s) = F PROVE FALSE
    OBVIOUS
  <2>1. s \in Seq(M)
    BY <1>8 DEF Threads
  <2>2. ASSUME NEW k \in 1 .. F
        PROVE  s[k] \in N /\ s[k] \in Nat /\ s[k] \div 5 \in 0 .. (F - 2)
    <3>1. s[k] \in M
      BY <2>1
    <3>2. s[k] \in Nat /\ s[k] \in Words
      BY <3>1 DEF Spaced
    <3>. QED  BY <3>1, <3>2, FifthsRange
  <2>3. \A j, k \in 1 .. F : s[j] = s[k] => j = k
    <3>. HIDE DEF M
    <3>. QED  BY <1>8, ThreadsInjective DEF M
  <2>4. ASSUME NEW j \in 1 .. F, NEW k \in 1 .. F, s[j] \div 5 = s[k] \div 5
        PROVE  j = k
    <3>1. s[j] = s[k] \/ s[j] + 5 <= s[k] \/ s[k] + 5 <= s[j]
      BY <2>2 DEF Spaced
    <3>2. s[j] = s[k]
      BY <2>2, <2>4, <3>1, FifthsApart
    <3>. QED  BY <2>3, <3>2
  <2>. DEFINE f == [k \in 1 .. F |-> s[k] \div 5]
  <2>5. f \in [1 .. F -> 0 .. (F - 2)]
    BY <2>2
  <2>6. /\ IsFiniteSet(1 .. F) /\ Cardinality(1 .. F) = F
        /\ IsFiniteSet(0 .. (F - 2)) /\ Cardinality(0 .. (F - 2)) = F - 1
    <3>1. F \in Nat /\ F # 0
      BY FifthsRange
    <3>. HIDE DEF F
    <3>2. 0 <= F - 2 => Cardinality(0 .. (F - 2)) = (F - 2) - 0 + 1
      BY <3>1, FS_Interval
    <3>3. F = 1 => Cardinality(0 .. (F - 2)) = 0
      BY <3>1, FS_Interval
    <3>. QED  BY <3>1, <3>2, <3>3, FS_Interval
  <2>7. Cardinality(0 .. (F - 2)) < Cardinality(1 .. F)
    BY <1>4, <2>6
  <2>. HIDE DEF f
  <2>8. \E x, y \in 1 .. F : x # y /\ f[x] = f[y]
    BY <2>5, <2>6, <2>7, FS_PigeonHole
  <2>. QED  BY <2>4, <2>8 DEF f
<1>. QED  BY <1>8, <1>9 DEF s

\* The lists, read one after the other, are the free blocks of each size.
LEMMA ListsTell ==
    ASSUME NEW h, NEW B, NEW E, Rep(h, B, Frees(B), E), NEW i \in Buckets
    PROVE  LET list == FreeList(h, i)
           IN  /\ list \in Seq(Nat)
               /\ Range(list) = {b.at : b \in {c \in B : ~c.alloc /\ Bucket(c.size) = i}}
               /\ IsInjective(list)
               /\ \A k \in DOMAIN list :
                    GET(h, prev(list[k])) = IF k = 1 THEN NULL ELSE list[k - 1]
<1>. DEFINE F == Frees(B)
            N == At(F)
            list == FreeList(h, i)
            Class == {b.at : b \in {c \in B : ~c.alloc /\ Bucket(c.size) = i}}
<1>1. h \in WordHeap /\ Fitting(F, E) /\ F \in SUBSET H!Block
      /\ \A f \in F : ~f.alloc /\ f.want = 0
  BY DEF Rep, Fitting, Frees
<1>2. Spaced(N)
  BY <1>1, ListsSpaced
<1>3. PICK cls, rank, top : /\ Linked(h, N, cls, rank, top)
                            /\ \A f \in F : cls[f.at] = Bucket(f.size)
  BY DEF Rep, Listing
<1>. DEFINE M == {p \in N : cls[p] = i}
<1>4. list \in Threads(h, i, M) /\ NodeAfter(h, i, list) = NULL
  <2>. HIDE DEF N
  <2>. QED  BY <1>1, <1>2, <1>3, FreeListThreads
<1>. HIDE DEF list
<1>5. \A j, k \in 1 .. Len(list) : list[j] = list[k] => j = k
  <2>. HIDE DEF N
  <2>. QED  BY <1>2, <1>3, <1>4, ThreadsInjective
<1>6. \A q \in N : cls[q] = i => \E k \in 1 .. Len(list) : list[k] = q
  <2>. HIDE DEF N
  <2>. QED  BY <1>1, <1>2, <1>3, <1>4, ThreadsComplete
<1>7. M = Class
  BY <1>3 DEF At, Frees
<1>8. list \in Seq(M) /\ DOMAIN list = 1 .. Len(list) /\ \A p \in M : p \in Nat
  BY <1>2, <1>4 DEF Threads, Spaced
<1>9. \A k \in DOMAIN list : list[k] \in M
  BY <1>8
<1>. HIDE DEF M, N, Class
<1>10. list \in Seq(Nat)
  BY <1>8
<1>11. Range(list) = Class
  <2>1. Range(list) \subseteq Class
    BY <1>7, <1>9 DEF Range
  <2>2. Class \subseteq Range(list)
    <3>1. \A q \in M : \E k \in DOMAIN list : list[k] = q
      BY <1>6, <1>8 DEF M
    <3>. QED  BY <1>7, <3>1 DEF Range
  <2>. QED  BY <2>1, <2>2
<1>12. \A k \in DOMAIN list : GET(h, prev(list[k])) = IF k = 1 THEN NULL ELSE list[k - 1]
  BY <1>4, <1>8 DEF Threads, GET
<1>13. IsInjective(list)
  BY <1>5, <1>8 DEF IsInjective
<1>. QED  BY <1>10, <1>11, <1>12, <1>13 DEF list, Class

\* first_fit over one list: NULL, or a free block of the class that is large enough.
LEMMA FirstFitTells ==
    ASSUME NEW h, NEW B, NEW E, Rep(h, B, Frees(B), E), NEW i \in Buckets, NEW asize \in Nat
    PROVE  LET Fit == {b \in H!Fits(B, asize) : Bucket(b.size) = i}
           IN  /\ FirstFit(h, i, asize) = NULL => Fit = {}
               /\ FirstFit(h, i, asize) # NULL => \E b \in Fit : b.at = FirstFit(h, i, asize)
<1>. DEFINE list == FreeList(h, i)
            fits == {k \in DOMAIN list : asize <= GET_SIZE(h, list[k])}
            Fit == {b \in H!Fits(B, asize) : Bucket(b.size) = i}
<1>1. /\ list \in Seq(Nat)
      /\ Range(list) = {b.at : b \in {c \in B : ~c.alloc /\ Bucket(c.size) = i}}
  BY ListsTell
<1>2. FirstFit(h, i, asize) = IF fits = {} THEN NULL ELSE list[Min(fits)]
  BY DEF FirstFit
<1>. HIDE DEF list
<1>3. \A b \in B : GET_SIZE(h, b.at) = b.size /\ b.at \in Nat /\ b.at # NULL
  <2>1. B \in SUBSET H!Block
    BY DEF Rep
  <2>2. \A b \in B : 0 < b.at
    BY <2>1 DEF Rep, Fitting
  <2>. QED  BY <2>1, <2>2, ReadTags, BlockParts DEF NULL
<1>4. \A k \in DOMAIN list : \E b \in B : ~b.alloc /\ Bucket(b.size) = i /\ list[k] = b.at
  BY <1>1 DEF Range
<1>5. \A b \in B : ~b.alloc /\ Bucket(b.size) = i => \E k \in DOMAIN list : list[k] = b.at
  BY <1>1 DEF Range
<1>6. CASE fits = {}
  <2>1. Fit = {}
    BY <1>3, <1>5, <1>6 DEF H!Fits
  <2>. QED  BY <1>2, <1>6, <2>1
<1>7. CASE fits # {}
  <2>1. fits \in SUBSET Nat
    BY <1>1
  <2>2. \E k \in fits : \A j \in fits : k <= j
    <3>. HIDE DEF fits
    <3>. QED  BY <1>7, <2>1, LeastExists
  <2>3. Min(fits) \in fits
    <3>. HIDE DEF fits
    <3>. QED  BY <2>2 DEF Min
  <2>. DEFINE k == Min(fits)
  <2>4. k \in DOMAIN list /\ asize <= GET_SIZE(h, list[k]) /\ FirstFit(h, i, asize) = list[k]
    BY <1>2, <1>7, <2>3
  <2>. HIDE DEF k
  <2>5. PICK b \in B : ~b.alloc /\ Bucket(b.size) = i /\ list[k] = b.at
    BY <1>4, <2>4
  <2>6. b \in Fit /\ b.at = FirstFit(h, i, asize) /\ FirstFit(h, i, asize) # NULL
    BY <1>3, <2>4, <2>5 DEF H!Fits
  <2>. QED  BY <2>6
<1>. QED  BY <1>6, <1>7

\* A larger size belongs to the same list or a later one.
LEMMA BucketMonotone ==
    ASSUME NEW a \in Nat, NEW b \in Nat, a <= b
    PROVE  Bucket(a) <= Bucket(b) /\ Bucket(a) \in Nat
<1>. DEFINE Step(n, f) == [k \in 0 .. (NumBuckets - 1) |-> IF k = 0 THEN n ELSE f[k - 1] \div 2]
            halved(n) == CHOOSE f : f = Step(n, f)
            S(n) == {k \in 0 .. (NumBuckets - 2) : halved(n)[k] > 0}
<1>1. \A n \in Nat : Bucket(n) = Cardinality(S(n))
  BY DEF Bucket
<1>2. NumBuckets - 1 \in Nat /\ NumBuckets \in Nat
  BY LayoutAssumption
<1>3. ASSUME NEW n \in Nat
      PROVE  /\ halved(n)[0] = n /\ \A k \in 0 .. (NumBuckets - 1) : halved(n)[k] \in Nat
             /\ \A k \in 1 .. (NumBuckets - 1) : halved(n)[k] = halved(n)[k - 1] \div 2
  <2>. DEFINE L == NumBuckets - 1
              D == [k \in 1 .. L |-> [x \in Nat |-> x \div 2]]
              W == halved(n)
  <2>. HIDE DEF L
  <2>1. PICK g \in [0 .. L -> Nat] : Iterates(g, L, n, D)
    <3>1. D \in [1 .. L -> [Nat -> Nat]]
      OBVIOUS
    <3>. HIDE DEF D
    <3>. QED  BY <1>2, <3>1, RecursionExists DEF L
  <2>2. ASSUME NEW k \in 0 .. L
        PROVE  g[k] = IF k = 0 THEN n ELSE g[k - 1] \div 2
    <3>1. g[k] = IF k = 0 THEN n ELSE D[k][g[k - 1]]
      <4>. HIDE DEF D
      <4>. QED  BY <2>1 DEF Iterates
    <3>2. ASSUME k # 0 PROVE D[k][g[k - 1]] = g[k - 1] \div 2
      <4>1. k \in 1 .. L /\ k - 1 \in 0 .. L
        BY <1>2, <3>2 DEF L
      <4>. QED  BY <4>1
    <3>. HIDE DEF D
    <3>. QED  BY <3>1, <3>2
  <2>3. g = Step(n, g)
    BY <2>2 DEF L
  <2>4. W = Step(n, W)
    <3>. HIDE DEF Step
    <3>. QED  BY <2>3
  <2>. HIDE DEF W
  <2>5. W[0] = n /\ \A k \in 1 .. L : W[k] = W[k - 1] \div 2
    <3>1. 0 \in 0 .. L /\ \A k \in 1 .. L : k \in 0 .. L /\ k # 0
      BY <1>2 DEF L
    <3>. QED  BY <2>4, <3>1 DEF L
  <2>. DEFINE T == {k \in Nat : k <= L => W[k] \in Nat}
  <2>6. 0 \in T
    BY <2>5
  <2>7. ASSUME NEW k \in Nat, k \in T PROVE k + 1 \in T
    <3>. SUFFICES ASSUME k + 1 <= L PROVE W[k + 1] \in Nat
      OBVIOUS
    <3>1. k + 1 \in 1 .. L /\ (k + 1) - 1 = k /\ k <= L
      BY <1>2 DEF L
    <3>2. W[k] \in Nat /\ W[k + 1] = W[k] \div 2
      BY <2>5, <2>7, <3>1
    <3>. QED  BY <3>2
  <2>8. Nat \subseteq T
    <3>. HIDE DEF T
    <3>. QED  BY <2>6, <2>7, InductionOnNat
  <2>9. \A k \in 0 .. L : W[k] \in Nat
    BY <1>2, <2>8 DEF L
  <2>. QED  BY <2>5, <2>9 DEF W, L
<1>. HIDE DEF halved
<1>. DEFINE T == {k \in Nat : k <= NumBuckets - 1 => halved(a)[k] <= halved(b)[k]}
<1>4. 0 \in T
  BY <1>3
<1>5. ASSUME NEW k \in Nat, k \in T PROVE k + 1 \in T
  <2>. SUFFICES ASSUME k + 1 <= NumBuckets - 1 PROVE halved(a)[k + 1] <= halved(b)[k + 1]
    OBVIOUS
  <2>1. k + 1 \in 1 .. (NumBuckets - 1) /\ (k + 1) - 1 = k /\ k <= NumBuckets - 1 /\ k \in 0 .. (NumBuckets - 1)
    BY <1>2
  <2>2. /\ halved(a)[k + 1] = halved(a)[k] \div 2 /\ halved(b)[k + 1] = halved(b)[k] \div 2
        /\ halved(a)[k] \in Nat /\ halved(b)[k] \in Nat
    BY <1>3, <2>1
  <2>3. halved(a)[k] <= halved(b)[k]
    BY <1>5, <2>1
  <2>. QED  BY <2>2, <2>3
<1>6. Nat \subseteq T
  <2>. HIDE DEF T
  <2>. QED  BY <1>4, <1>5, InductionOnNat
<1>7. S(a) \subseteq S(b)
  <2>. SUFFICES ASSUME NEW k \in 0 .. (NumBuckets - 2), halved(a)[k] > 0 PROVE halved(b)[k] > 0
    OBVIOUS
  <2>1. k \in 0 .. (NumBuckets - 1) /\ k \in Nat /\ k <= NumBuckets - 1
    BY <1>2
  <2>2. halved(a)[k] <= halved(b)[k] /\ halved(a)[k] \in Nat /\ halved(b)[k] \in Nat
    BY <1>3, <1>6, <2>1
  <2>. QED  BY <2>2
<1>8. IsFiniteSet(S(b))
  <2>1. IsFiniteSet(0 .. (NumBuckets - 2)) /\ S(b) \subseteq 0 .. (NumBuckets - 2)
    BY <1>2, FS_Interval
  <2>. HIDE DEF S
  <2>. QED  BY <2>1, FS_Subset
<1>. HIDE DEF S
<1>9. IsFiniteSet(S(a)) /\ Cardinality(S(a)) <= Cardinality(S(b)) /\ Cardinality(S(a)) \in Nat
  BY <1>7, <1>8, FS_Subset, FS_CardinalityType
<1>. QED  BY <1>1, <1>9

\* find_fit over all lists: NULL if nothing fits, else a block of the lowest
\* class that has one.
LEMMA FindFitTells ==
    ASSUME NEW h, NEW B, NEW E, Rep(h, B, Frees(B), E), NEW asize \in Nat
    PROVE  /\ FindFit(h, asize) = NULL => H!Fits(B, asize) = {}
           /\ FindFit(h, asize) # NULL => \E b \in H!FindFit(B, asize) : b.at = FindFit(h, asize)
<1>. DEFINE hits == {i \in Bucket(asize) .. (NumBuckets - 1) : FirstFit(h, i, asize) # NULL}
            Fit(i) == {b \in H!Fits(B, asize) : Bucket(b.size) = i}
<1>1. FindFit(h, asize) = IF hits = {} THEN NULL ELSE FirstFit(h, Min(hits), asize)
  BY DEF FindFit
<1>2. Bucket(asize) \in Nat /\ NumBuckets \in Nat /\ \A n : Bucket(n) \in Buckets
  BY BucketInBuckets, LayoutAssumption DEF Buckets
<1>3. \A i \in Bucket(asize) .. (NumBuckets - 1) : i \in Buckets /\ i \in Nat
  BY <1>2 DEF Buckets
<1>4. \A i \in Buckets : /\ FirstFit(h, i, asize) = NULL => Fit(i) = {}
                         /\ FirstFit(h, i, asize) # NULL => \E b \in Fit(i) : b.at = FirstFit(h, i, asize)
  BY FirstFitTells
<1>5. \A b \in H!Fits(B, asize) : /\ b \in Fit(Bucket(b.size)) /\ Bucket(b.size) \in Buckets
                                  /\ Bucket(b.size) \in Bucket(asize) .. (NumBuckets - 1)
  <2>. SUFFICES ASSUME NEW b \in H!Fits(B, asize)
                PROVE  Bucket(b.size) \in Bucket(asize) .. (NumBuckets - 1)
    BY <1>2
  <2>1. b \in H!Block /\ asize <= b.size
    BY DEF H!Fits, Rests, Rep
  <2>2. b.size \in Nat
    BY <2>1, BlockParts
  <2>3. Bucket(asize) <= Bucket(b.size)
    BY <2>1, <2>2, BucketMonotone
  <2>. QED  BY <1>2, <2>3 DEF Buckets
<1>6. CASE hits = {}
  <2>1. H!Fits(B, asize) = {}
    BY <1>4, <1>5, <1>6
  <2>. QED  BY <1>1, <1>6, <2>1
<1>7. CASE hits # {}
  <2>1. hits \in SUBSET Nat
    BY <1>3
  <2>2. \E i \in hits : \A j \in hits : i <= j
    <3>. HIDE DEF hits
    <3>. QED  BY <1>7, <2>1, LeastExists
  <2>3. Min(hits) \in hits /\ \A j \in hits : Min(hits) <= j
    <3>. HIDE DEF hits
    <3>. QED  BY <2>2 DEF Min
  <2>. DEFINE i == Min(hits)
  <2>4. i \in hits /\ (\A j \in hits : i <= j) /\ FindFit(h, asize) = FirstFit(h, i, asize)
    BY <1>1, <1>7, <2>3
  <2>. HIDE DEF i
  <2>5. i \in Buckets /\ FirstFit(h, i, asize) # NULL
    BY <1>3, <2>4
  <2>6. PICK b \in Fit(i) : b.at = FirstFit(h, i, asize)
    BY <1>4, <2>5
  <2>7. \A c \in H!Fits(B, asize) : Bucket(b.size) <= Bucket(c.size)
    <3>. SUFFICES ASSUME NEW c \in H!Fits(B, asize) PROVE i <= Bucket(c.size)
      BY <2>6
    <3>1. FirstFit(h, Bucket(c.size), asize) # NULL
      BY <1>4, <1>5
    <3>2. Bucket(c.size) \in hits
      BY <1>5, <3>1
    <3>. QED  BY <2>4, <3>2
  <2>8. \A n : H!Bucket(n) = Bucket(n)
    BY DEF H!Bucket, Bucket, H!Cardinality, Cardinality
  <2>9. b \in H!FindFit(B, asize)
    BY <2>6, <2>7, <2>8 DEF H!FindFit
  <2>. QED  BY <2>4, <2>5, <2>6, <2>9
<1>. QED  BY <1>6, <1>7

-----------------------------------------------------------------------------
(***************************************************************************)
(* The calls.  Each reads and writes words, and has an outcome that the    *)
(* same call of BlockHeap has on the blocks that the words tell of.        *)
(***************************************************************************)
\* The arithmetic of BlockHeap and its segment are those of Allocator.
LEMMA SameArithmetic ==
    ASSUME NEW s, NEW n, NEW k
    PROVE  /\ H!ExtendHeapSegment(s, n) = ExtendHeapSegment(s, n)
           /\ H!InitHeapSegment(s, n) = InitHeapSegment(s, n)
           /\ H!NumOfPage(k, n) = NumOfPage(k, n) /\ H!BlockStart(k, n) = BlockStart(k, n)
           /\ H!Asize(n) = Asize(n) /\ H!Grown(n) = Grown(n) /\ H!ToInt(n) = ToInt(n)
           /\ H!NULL = NULL /\ H!NoPage = NoPage /\ H!ProWords = 2 /\ H!EpiWords = 1 /\ H!TagWords = 2
           /\ H!NoSegment = NoSegment /\ H!Segments = Segments
<1>1. H!ExtendHeapSegment(s, n) = ExtendHeapSegment(s, n)
  BY DEF H!ExtendHeapSegment, ExtendHeapSegment, H!Exceeds, Exceeds, H!Extended, Extended,
         H!SegOutcome, SegOutcome, H!Opened, Opened, H!Enlarged, Enlarged, H!NoPage, NoPage,
         H!Mprotects, Mprotects, H!Reserved, Reserved
<1>2. \A u : H!ExtendHeapSegment(u, n) = ExtendHeapSegment(u, n)
  BY DEF H!ExtendHeapSegment, ExtendHeapSegment, H!Exceeds, Exceeds, H!Extended, Extended,
         H!SegOutcome, SegOutcome, H!Opened, Opened, H!Enlarged, Enlarged, H!NoPage, NoPage,
         H!Mprotects, Mprotects, H!Reserved, Reserved
<1>3. H!Mmaps(s, n) = Mmaps(s, n)
  BY <1>2 DEF H!Mmaps, Mmaps, H!SegOutcome, SegOutcome, H!NoPage, NoPage
<1>4. H!InitHeapSegment(s, n) = InitHeapSegment(s, n)
  BY <1>3 DEF H!InitHeapSegment, InitHeapSegment, H!Munmaps, Munmaps, H!SegOutcome, SegOutcome,
              H!NoPage, NoPage, H!Reserved, Reserved
<1>5. H!RoundUp(n) = RoundUp(n)
  BY DEF H!RoundUp, RoundUp
<1>. QED
  BY <1>1, <1>4, <1>5
     DEF H!NumOfPage, NumOfPage, H!BlockStart, BlockStart, H!Asize, Asize, H!Grown, Grown,
         H!ToInt, ToInt, H!NULL, NULL, H!NoPage, NoPage, H!ProWords, ProWords, H!EpiWords, EpiWords,
         H!TagWords, H!MINBLKSZ, MINBLKSZ, H!NoSegment, NoSegment, H!Segments, Segments

\* The heap of BlockHeap with the blocks in B, over the segment of h.
View(h, B) == [seg |-> h.seg, base |-> h.base, pages |-> h.pages, blocks |-> B]

LoOf(h) == h.base + 2

HiOf(h) == h.base + h.pages * PageWords - 1

\* The words of h tell of the blocks in B.
Tells(h, B) ==
    /\ h \in WordHeap
    /\ IF h.pages = 0 THEN B = {} /\ Rep(h, {}, {}, {}) ELSE Rests(h, B, LoOf(h), HiOf(h))

\* The outcome o of a call is among those in S.
Shown(o, S) ==
    \E B : Tells(o.heap, B) /\ H!Outcome(View(o.heap, B), o.ptr, o.fate) \in S

\* The payload words of the allocated blocks: what the clients have written.
Held(B) == {w \in Words : \E b \in B : b.alloc /\ b.at < w /\ w <= b.at + b.size}

Keeps(h, g, S) == \A w \in S : g.mem[w] = h.mem[w]

\* What is held in D lies apart from all other blocks.
LEMMA HeldApart ==
    ASSUME NEW B \in SUBSET H!Block, \A c, d \in B : c = d \/ Clear(c, d),
           NEW D \in SUBSET B, NEW F \in SUBSET B, \A f \in F : ~f.alloc \/ f \notin D
    PROVE  \A w \in Held(D) : w \in Words /\ Apart(w, F)
<1>. SUFFICES ASSUME NEW w \in Words, NEW d \in D, d.alloc, d.at < w, w <= d.at + d.size,
                     NEW f \in F
              PROVE  w < f.at \/ Stop(f) <= w
  BY DEF Held, Apart
<1>1. d # f /\ d \in H!Block /\ f \in H!Block
  OBVIOUS
<1>2. Clear(d, f)
  BY <1>1
<1>3. w \in Nat /\ d.at \in Nat /\ d.size \in Nat /\ f.at \in Nat /\ Stop(f) \in Nat /\ Stop(d) = d.at + d.size + 2
  BY <1>1, WordsRange, BlockParts DEF Stop
<1>. QED  BY <1>2, <1>3 DEF Clear

LEMMA TellsBlocks ==
    ASSUME NEW h, NEW B, Tells(h, B)
    PROVE  B \in SUBSET H!Block
BY DEF Tells, Rests, Rep

\* Only the allocated blocks count.
LEMMA HeldSame ==
    ASSUME NEW B \in SUBSET H!Block, NEW C \in SUBSET H!Block, H!SameLive(C, B)
    PROVE  Held(C) = Held(B)
BY DEF Held, H!SameLive

\* The parts of a view.
LEMMA ViewFields ==
    ASSUME NEW h, NEW B
    PROVE  /\ View(h, B).seg = h.seg /\ View(h, B).base = h.base /\ View(h, B).pages = h.pages
           /\ View(h, B).blocks = B
           /\ H!Lo(View(h, B)) = LoOf(h) /\ H!Hi(View(h, B)) = HiOf(h)
           /\ \A s : [View(h, B) EXCEPT !.seg = s] = [seg |-> s, base |-> h.base, pages |-> h.pages, blocks |-> B]
           /\ \A C : [View(h, B) EXCEPT !.blocks = C] = View(h, C)
BY SameArithmetic DEF View, LoOf, HiOf, H!Lo, H!Hi

\* An outcome gives back what it was made of.
LEMMA OutcomeParts ==
    ASSUME NEW g, NEW ptr, NEW fate
    PROVE  /\ Outcome(g, ptr, fate).heap = g /\ Outcome(g, ptr, fate).ptr = ptr
           /\ Outcome(g, ptr, fate).fate = fate
           /\ H!Outcome(g, ptr, fate) = Outcome(g, ptr, fate)
BY DEF Outcome, H!Outcome

\* Segment, page count and base say nothing of the words.
LEMMA RepSame ==
    ASSUME NEW h, NEW B, NEW F, NEW E, Rep(h, B, F, E), NEW g \in WordHeap, g.fl = h.fl, g.mem = h.mem
    PROVE  Rep(g, B, F, E)
<1>1. PICK cls, rank, top : /\ Linked(h, At(F), cls, rank, top)
                            /\ \A x \in F : cls[x.at] = Bucket(x.size)
  BY DEF Rep, Listing
<1>2. Linked(g, At(F), cls, rank, top)
  BY <1>1, LinkedFrame
<1>3. Listing(g, F)
  BY <1>1, <1>2 DEF Listing
<1>. QED  BY <1>3 DEF Rep

\* The words in T become prologue or epilogue.
LEMMA RepEdges ==
    ASSUME NEW h, NEW B, NEW F, NEW D, Rep(h, B, F, D), NEW E \in SUBSET Words,
           Fitting(B \cup F, E), NEW T \in SUBSET E, E \subseteq D \cup T,
           NEW g \in WordHeap, g.fl = h.fl,
           \A w \in Words : g.mem[w] = IF w \in T THEN PACK(0, 1) ELSE h.mem[w]
    PROVE  Rep(g, B, F, E)
<1>1. /\ B \in SUBSET H!Block /\ F \in SUBSET H!Block
      /\ \A b \in B : Tagged(h.mem, b)
      /\ \A w \in D : h.mem[w] = PACK(0, 1)
  BY DEF Rep
<1>2. /\ \A b \in B : b.at \in Words \ Links(At(F)) /\ b.at + 1 + b.size \in Words \ Links(At(F))
      /\ \A w \in E : w \notin Links(At(F))
  BY <1>1, LinksClear
<1>3. \A w \in E : g.mem[w] = PACK(0, 1)
  BY <1>1
<1>4. ASSUME NEW b \in B
      PROVE  Tagged(g.mem, b)
  <2>1. b.at \in Nat /\ b.size \in Nat /\ Stop(b) = b.at + b.size + 2
    BY <1>1, BlockParts DEF Stop
  <2>2. b.at \notin T /\ b.at + 1 + b.size \notin T
    <3>. SUFFICES ASSUME NEW w \in T PROVE w # b.at /\ w # b.at + 1 + b.size
      OBVIOUS
    <3>1. w \in Nat /\ (w < b.at \/ Stop(b) <= w)
      BY WordsRange DEF Fitting
    <3>. QED  BY <2>1, <3>1
  <2>. QED  BY <1>1, <1>2, <2>2 DEF Tagged
<1>5. Listing(g, F)
  <2>1. PICK cls, rank, top : /\ Linked(h, At(F), cls, rank, top)
                              /\ \A x \in F : cls[x.at] = Bucket(x.size)
    BY DEF Rep, Listing
  <2>2. \A w \in Links(At(F)) : w \in Words /\ w \notin T
    <3>1. Fitting(F, E) /\ \A x \in F : ~x.alloc /\ x.want = 0
      BY DEF Fitting, Rep
    <3>2. Spaced(At(F))
      BY <1>1, <3>1, ListsSpaced
    <3>. QED  BY <1>2, <3>2 DEF Spaced, Links
  <2>3. Linked(g, At(F), cls, rank, top)
    BY <2>1, <2>2, LinkedFrame
  <2>. QED  BY <2>1, <2>3 DEF Listing
<1>. QED  BY <1>1, <1>3, <1>4, <1>5 DEF Rep

\* The same words over another segment, or under another count of pages.
LEMMA TellsSeg ==
    ASSUME NEW h, NEW B, Tells(h, B), NEW s \in Segments
    PROVE  LET g == [h EXCEPT !.seg = s]
           IN  /\ Tells(g, B) /\ g.seg = s
               /\ View(g, B) = [View(h, B) EXCEPT !.seg = s]
<1>. DEFINE g == [h EXCEPT !.seg = s]
<1>1. /\ g \in WordHeap /\ g.seg = s /\ g.pages = h.pages /\ g.base = h.base
      /\ g.fl = h.fl /\ g.mem = h.mem
  BY DEF Tells, WordHeap
<1>. HIDE DEF g
<1>2. \A C, F, E : Rep(h, C, F, E) => Rep(g, C, F, E)
  BY <1>1, RepSame
<1>3. LoOf(g) = LoOf(h) /\ HiOf(g) = HiOf(h)
  BY <1>1 DEF LoOf, HiOf
<1>4. Tells(g, B)
  BY <1>1, <1>2, <1>3 DEF Tells, Rests
<1>5. View(g, B) = [View(h, B) EXCEPT !.seg = s]
  BY <1>1, ViewFields DEF View
<1>. QED  BY <1>1, <1>4, <1>5 DEF g

\* The new pages lengthen the row of blocks.
LEMMA NewRow ==
    ASSUME NEW h, NEW B, NEW a, a = View(h, B), H!GoodHeap(a), H!Backing(a), NEW asize \in Nat, NEW o,
           NEW n, n = NumOfPage(h.pages, asize), o \in ExtendHeapSegment(h.seg, n),
           o.ret # NoPage, h.pages > 0 => o.ret - 1 \in o.seg.rw
    PROVE  /\ H!Lengthens(a, o, n, asize, H!FreshBlock(a, o, n))
           /\ o.seg \in Segments /\ B \in SUBSET H!Block /\ h.pages \in Nat /\ h.base \in Nat
           /\ H!NoFreePair(B) /\ (h.pages = 0 => B = {})
<1>. USE LayoutAssumption, SegmentAssumption, ClientAssumption, StackAssumption
<1>1. Requests \subseteq Nat /\ StackBytes \in Nat
  OBVIOUS
<1>2. a.pages = h.pages /\ a.seg = h.seg /\ a.blocks = B /\ a.base = h.base
  BY ViewFields
<1>3. /\ n = H!NumOfPage(a.pages, asize) /\ o \in H!ExtendHeapSegment(a.seg, n)
      /\ o.ret # H!NoPage /\ (a.pages > 0 => o.ret - 1 \in o.seg.rw)
  BY <1>2, SameArithmetic
<1>4. H!Lengthens(a, o, n, asize, H!FreshBlock(a, o, n))
  BY <1>1, <1>3, H!NewPagesRow
<1>5. /\ a \in H!Heaps /\ a.seg \in H!Segments /\ a.base \in Nat /\ a.pages \in Nat
      /\ a.blocks \in SUBSET H!Block
  BY DEF H!GoodHeap, H!Heaps
<1>6. a.seg.size <= MaxPages /\ n \in Nat \ {0}
  BY <1>4 DEF H!Backing, H!Lengthens
<1>7. /\ o.seg \in H!Segments /\ o.seg.start = a.seg.start /\ o.seg.size <= MaxPages
      /\ \/ o.ret = H!NoPage /\ o.seg.rw = a.seg.rw /\ a.seg.size <= o.seg.size
         \/ /\ o.ret = a.seg.size /\ o.seg.size = a.seg.size + n
            /\ o.seg.rw = a.seg.rw \cup a.seg.size .. (a.seg.size + n - 1)
  BY <1>1, <1>3, <1>5, <1>6, H!ExtendSegment
<1>8. H!NoFreePair(B) /\ (h.pages = 0 => B = {})
  BY <1>2 DEF H!GoodHeap, H!Settled, H!NoFreePair
<1>9. H!Segments = Segments
  BY SameArithmetic
<1>. QED  BY <1>2, <1>4, <1>5, <1>7, <1>8, <1>9

\* Epilogue, prologue and block of add_page, in words and as a block.
LEMMA NewPagesTells ==
    ASSUME NEW h, NEW B, Tells(h, B), H!GoodHeap(View(h, B)), H!Backing(View(h, B)),
           NEW asize \in Nat, NEW o,
           NEW n, n = NumOfPage(h.pages, asize), o \in ExtendHeapSegment(h.seg, n),
           o.ret # NoPage, h.pages > 0 => o.ret - 1 \in o.seg.rw
    PROVE  /\ \E C : /\ Tells(NewPages(h, o, n), C)
                     /\ View(NewPages(h, o, n), C) = H!NewPages(View(h, B), o, n)
           /\ Keeps(h, NewPages(h, o, n), Held(B))
<1>. DEFINE a == View(h, B)
            b == H!FreshBlock(a, o, n)
            start == o.ret * PageWords
            epi == start + n * PageWords - 1
            lo == IF h.pages = 0 THEN start + 2 ELSE LoOf(h)
            E == Edges(lo, epi)
            T == IF h.pages = 0 THEN {start, start + 1, epi} ELSE {epi}
            g == [h EXCEPT !.seg = o.seg,
                           !.mem = [w \in Words |-> IF w \in T THEN PACK(0, 1) ELSE @[w]],
                           !.base = IF h.pages = 0 THEN start ELSE @]
            set == SetBlock(g, b.at, b.size, 0)
            grown == InsertNode(set, b.at)
            C == H!InsertNode(B, b)
<1>1. /\ h \in WordHeap /\ h.mem \in [Words -> Nat] /\ h.base \in Nat /\ h.pages \in Nat
      /\ o.seg \in Segments /\ B \in SUBSET H!Block
      /\ H!NoFreePair(B) /\ (h.pages = 0 => B = {})
      /\ H!Lengthens(a, o, n, asize, b)
  <2>1. h \in WordHeap
    BY DEF Tells
  <2>. HIDE DEF a
  <2>2. a = View(h, B) /\ H!GoodHeap(a) /\ H!Backing(a)
    BY DEF a
  <2>. QED  BY <2>1, <2>2, NewRow DEF WordHeap
<1>2. /\ start \in Nat /\ n \in Nat \ {0} /\ n * PageWords \in Nat /\ o.ret + n <= MaxPages /\ o.ret \in Nat
      /\ h.pages = 0 => b.at = start + 2
      /\ h.pages # 0 => b.at = start - 1 /\ start = h.base + h.pages * PageWords
      /\ b \in H!Block /\ ~b.alloc /\ b.want = 0 /\ b \notin B
      /\ Stop(b) = epi /\ H!EndOf(b) = Stop(b)
      /\ H!Row(B \cup {b}, lo, epi)
  <2>. HIDE DEF b
  <2>1. /\ a.pages = h.pages /\ a.base = h.base /\ a.blocks = B /\ H!Lo(a) = LoOf(h)
    BY ViewFields
  <2>. HIDE DEF a
  <2>2. b \in H!Block
    BY <1>1 DEF H!Lengthens
  <2>3. H!EndOf(b) = Stop(b)
    BY <2>2, BlockParts
  <2>. QED  BY <1>1, <2>1, <2>2, <2>3 DEF H!Lengthens
<1>3. b.at \in Nat /\ b.size \in Nat /\ Stop(b) = b.at + b.size + 2 /\ Bit(b) = 0
  <2>. HIDE DEF b
  <2>. QED  BY <1>2, BlockParts DEF Stop, Bit
<1>4. BlockStart(h.pages, start) = b.at /\ epi - b.at - TagWords = b.size /\ EpiWords = 1
  <2>. HIDE DEF b
  <2>1. BlockStart(h.pages, start) = b.at
    BY <1>1, <1>2 DEF BlockStart, ProWords, EpiWords
  <2>2. epi - b.at - TagWords = b.size
    BY <1>2, <1>3 DEF TagWords
  <2>. QED  BY <2>1, <2>2 DEF EpiWords
<1>5. NewPages(h, o, n) = [grown EXCEPT !.pages = @ + n]
  <2>. HIDE DEF b
  <2>. QED  BY <1>4 DEF NewPages
<1>6. H!NewPages(a, o, n) = [seg |-> o.seg, base |-> IF h.pages = 0 THEN start ELSE h.base,
                             pages |-> h.pages + n, blocks |-> C]
  <2>1. /\ a.pages = h.pages /\ a.base = h.base /\ a.blocks = B
    BY ViewFields
  <2>. HIDE DEF a
  <2>. QED  BY <2>1 DEF H!NewPages, H!FreshBlock
<1>7. epi \in Words /\ epi \in Nat /\ (h.pages = 0 => start \in Words /\ start + 1 \in Words)
  <2>1. NumWords \in Nat /\ MaxPages \in Nat /\ PageWords \in Nat /\ PageWords > 8
    BY WordsRange, LayoutAssumption, SegmentAssumption
  <2>2. (o.ret + n) * PageWords <= MaxPages * PageWords /\ n * PageWords >= PageWords
    <3>1. n \in Nat /\ 1 <= n /\ o.ret + n \in Nat
      BY <1>2
    <3>2. (o.ret + n) * PageWords <= MaxPages * PageWords
      BY <1>2, <2>1, <3>1, TimesMonotone
    <3>3. 1 * PageWords <= n * PageWords
      BY <2>1, <3>1, TimesMonotone
    <3>. QED  BY <2>1, <3>2, <3>3
  <2>3. (o.ret + n) * PageWords = start + n * PageWords
    BY <1>2, <2>1
  <2>4. start + n * PageWords <= NumWords
    BY <2>2, <2>3 DEF NumWords
  <2>. HIDE DEF start
  <2>. QED  BY <1>2, <2>1, <2>2, <2>4, WordsRange
<1>8. lo \in Nat /\ 2 <= lo
  BY <1>1, <1>2 DEF LoOf
<1>. HIDE DEF b
<1>9. /\ g \in WordHeap /\ g.fl = h.fl /\ g.seg = o.seg /\ g.pages = h.pages
      /\ g.base = IF h.pages = 0 THEN start ELSE h.base
      /\ \A w \in Words : g.mem[w] = IF w \in T THEN PACK(0, 1) ELSE h.mem[w]
  <2>1. PACK(0, 1) \in Nat
    BY PackFields
  <2>. HIDE DEF T, start
  <2>. QED  BY <1>1, <1>2, <2>1 DEF WordHeap
<1>. HIDE DEF g
<1>10. Rep(h, B, Frees(B), IF h.pages = 0 THEN {} ELSE {lo - 2, lo - 1})
  <2>1. CASE h.pages = 0
    BY <1>1, <2>1 DEF Tells, Frees
  <2>2. CASE h.pages # 0
    <3>1. Rep(h, B, Frees(B), Edges(lo, HiOf(h)))
      BY <2>2 DEF Tells, Rests
    <3>2. {lo - 2, lo - 1} \in SUBSET Edges(lo, HiOf(h))
      BY DEF Edges
    <3>. QED  BY <2>2, <3>1, <3>2, RepDrop
  <2>. QED  BY <2>1, <2>2
<1>11. /\ Fitting(B \cup {b}, E) /\ (\A c, d \in B \cup {b} : c = d \/ Clear(c, d))
       /\ E \in SUBSET Words
  <2>1. B \cup {b} \in SUBSET H!Block
    BY <1>1, <1>2
  <2>2. Fitting(B \cup {b}, E) /\ (\A c, d \in B \cup {b} : c = d \/ Clear(c, d))
    <3>. HIDE DEF epi, lo
    <3>. QED  BY <1>2, <1>7, <1>8, <2>1, RowFits
  <2>3. E \in SUBSET Words
    <3>1. CASE h.pages = 0
      <4>. HIDE DEF start, epi
      <4>. QED  BY <1>2, <1>7, <3>1 DEF Edges
    <3>2. CASE h.pages # 0
      <4>1. {lo - 2, lo - 1} \in SUBSET Words
        BY <1>10, <3>2 DEF Rep
      <4>. HIDE DEF lo, epi
      <4>. QED  BY <1>7, <4>1 DEF Edges
    <3>. QED  BY <3>1, <3>2
  <2>. QED  BY <2>2, <2>3
<1>12. Rep(g, B, Frees(B), E)
  <2>. DEFINE D == IF h.pages = 0 THEN {} ELSE {lo - 2, lo - 1}
  <2>1. Fitting(B \cup Frees(B), E)
    BY <1>11 DEF Fitting, Frees
  <2>2. T \in SUBSET E /\ E \subseteq D \cup T
    BY <1>1, <1>2 DEF Edges
  <2>3. Rep(h, B, Frees(B), D)
    BY <1>10
  <2>. HIDE DEF D, T, E
  <2>. QED  BY <1>9, <1>11, <2>1, <2>2, <2>3, RepEdges
<1>13. Rep(set, B \cup {b}, Frees(B), E) /\ SameFrame(g, set) /\ OnlyIn(g, set, {b})
  <2>1. Frees(B) \in SUBSET (B \cup {b}) /\ B \cup {b} \in SUBSET H!Block
    BY <1>1, <1>2 DEF Frees
  <2>. HIDE DEF E
  <2>. QED  BY <1>2, <1>3, <1>11, <1>12, <2>1, SetRests
<1>. HIDE DEF set
<1>14. Rests(grown, C, lo, epi) /\ SameFrame(set, grown) /\ OnlyIn(set, grown, Frees(B) \cup {b})
  <2>. HIDE DEF lo, epi
  <2>. QED  BY <1>1, <1>2, <1>7, <1>8, <1>13, InsertRests
<1>. HIDE DEF grown, C
<1>. DEFINE w == NewPages(h, o, n)
<1>15. /\ grown \in WordHeap /\ grown.seg = o.seg /\ grown.pages = h.pages
       /\ grown.base = IF h.pages = 0 THEN start ELSE h.base
  BY <1>9, <1>13, <1>14 DEF SameFrame, Rests, Rep
<1>16. /\ w \in WordHeap /\ w.fl = grown.fl /\ w.mem = grown.mem /\ w.seg = o.seg
       /\ w.pages = h.pages + n /\ w.base = grown.base
  BY <1>1, <1>2, <1>5, <1>15 DEF WordHeap
<1>. HIDE DEF w
<1>17. LoOf(w) = lo /\ HiOf(w) = epi
  <2>1. (h.pages + n) * PageWords = h.pages * PageWords + n * PageWords /\ h.pages * PageWords \in Nat
    BY <1>1, <1>2, LayoutAssumption
  <2>. HIDE DEF start
  <2>2. w.base + w.pages * PageWords = start + n * PageWords
    <3>1. CASE h.pages = 0
      BY <1>2, <1>15, <1>16, <3>1
    <3>2. CASE h.pages # 0
      BY <1>1, <1>2, <1>15, <1>16, <2>1, <3>2
    <3>. QED  BY <3>1, <3>2
  <2>3. HiOf(w) = epi
    <3>1. w.base \in Nat /\ w.pages * PageWords \in Nat
      BY <1>1, <1>2, <1>15, <1>16, <2>1
    <3>2. HiOf(w) = (w.base + w.pages * PageWords) - 1 /\ epi = (start + n * PageWords) - 1
      BY <1>2, <3>1 DEF HiOf
    <3>. QED  BY <2>2, <3>2
  <2>4. LoOf(w) = lo
    BY <1>15, <1>16 DEF LoOf
  <2>. QED  BY <2>3, <2>4
<1>18. Tells(w, C)
  <2>1. w.pages # 0
    BY <1>1, <1>2, <1>16
  <2>2. Rep(w, C, Frees(C), E)
    <3>1. Rep(grown, C, Frees(C), E)
      BY <1>14 DEF Rests
    <3>. HIDE DEF E
    <3>. QED  BY <1>16, <3>1, RepSame
  <2>3. Rests(w, C, lo, epi)
    BY <1>14, <2>2 DEF Rests
  <2>. QED  BY <1>16, <1>17, <2>1, <2>3 DEF Tells
<1>19. View(w, C) = H!NewPages(a, o, n)
  BY <1>6, <1>15, <1>16 DEF View
<1>20. Keeps(h, w, Held(B))
  <2>. SUFFICES ASSUME NEW x \in Held(B) PROVE w.mem[x] = h.mem[x]
    BY DEF Keeps
  <2>. DEFINE D == B \cup {b}
              F == Frees(B) \cup {b}
  <2>1. /\ D \in SUBSET H!Block /\ (\A c, d \in D : c = d \/ Clear(c, d))
        /\ B \in SUBSET D /\ F \in SUBSET D /\ (\A f \in F : ~f.alloc \/ f \notin B)
    BY <1>1, <1>2, <1>11 DEF Frees
  <2>. HIDE DEF D, F
  <2>2. x \in Words /\ Apart(x, F)
    BY <2>1, HeldApart
  <2>3. x \notin T
    <3>1. PICK c \in B : c.at < x /\ x <= c.at + c.size
      BY DEF Held
    <3>2. h.pages # 0 /\ c \in H!Block /\ (epi < c.at \/ Stop(c) <= epi)
      BY <1>1, <1>11 DEF Fitting, Edges
    <3>3. c.at \in Nat /\ c.size \in Nat /\ Stop(c) = c.at + c.size + 2 /\ x \in Nat
      BY <2>2, <3>2, BlockParts, WordsRange DEF Stop
    <3>4. x # epi
      <4>. HIDE DEF epi
      <4>. QED  BY <1>7, <3>1, <3>2, <3>3
    <3>. QED  BY <3>2, <3>4
  <2>4. g.mem[x] = h.mem[x] /\ set.mem[x] = g.mem[x] /\ grown.mem[x] = set.mem[x]
    <3>1. Apart(x, {b})
      BY <2>2 DEF Apart, F
    <3>. HIDE DEF T
    <3>. QED  BY <1>9, <1>13, <1>14, <2>2, <2>3, <3>1 DEF OnlyIn, F
  <2>. QED  BY <1>16, <2>4
<1>. QED  BY <1>18, <1>19, <1>20 DEF w

\* What the proofs about BlockHeapSpec say of add_page.
LEMMA BlockAddPage ==
    ASSUME NEW a, H!GoodHeap(a), H!Backing(a), NEW asize \in Nat, NEW g \in H!AddPage(a, asize)
    PROVE  /\ H!GoodHeap(g.heap) /\ g.ptr = NULL /\ H!SameLive(g.heap.blocks, a.blocks)
           /\ \/ g.fate = "hole"
              \/ g.fate = "full" /\ H!Backing(g.heap)
              \/ /\ g.fate = "up" /\ H!Backing(g.heap)
                 /\ g.heap.pages # 0 /\ H!Fits(g.heap.blocks, asize) # {}
<1>. USE LayoutAssumption, SegmentAssumption, ClientAssumption, StackAssumption
<1>1. Requests \subseteq Nat /\ StackBytes \in Nat
  OBVIOUS
<1>2. /\ H!GoodHeap(g.heap) /\ g.ptr = H!NULL
      /\ H!SameLive(g.heap.blocks, a.blocks)
      /\ \/ g.fate = "hole"
         \/ g.fate = "full" /\ H!Backing(g.heap)
         \/ /\ g.fate = "up" /\ H!Backing(g.heap)
            /\ g.heap.pages # 0 /\ H!Fits(g.heap.blocks, asize) # {}
      /\ g = H!Outcome(g.heap, g.ptr, g.fate)
  BY <1>1, H!AddPageGood
<1>. QED  BY <1>2, SameArithmetic

\* The segment that sbrk leaves is a segment.
LEMMA ExtendedSegment ==
    ASSUME NEW a, H!GoodHeap(a), H!Backing(a), NEW asize \in Nat,
           NEW o \in ExtendHeapSegment(a.seg, NumOfPage(a.pages, asize))
    PROVE  o.seg \in Segments
<1>. USE LayoutAssumption, SegmentAssumption, ClientAssumption, StackAssumption
<1>1. Requests \subseteq Nat /\ StackBytes \in Nat
  OBVIOUS
<1>2. PICK n : n = NumOfPage(a.pages, asize)
  OBVIOUS
<1>3. a.seg \in H!Segments /\ a.pages \in Nat /\ a.seg.size <= MaxPages
  BY DEF H!GoodHeap, H!Heaps, H!Backing
<1>4. n \in Nat \ {0}
  <2>1. H!NumOfPage(a.pages, asize) \in Nat \ {0}
    BY <1>1, <1>3, H!NumOfPageBounds
  <2>. QED  BY <1>2, <2>1, SameArithmetic
<1>5. o \in H!ExtendHeapSegment(a.seg, n)
  BY <1>2, SameArithmetic
<1>6. /\ o.seg \in H!Segments /\ o.seg.start = a.seg.start /\ o.seg.size <= MaxPages
      /\ \/ o.ret = H!NoPage /\ o.seg.rw = a.seg.rw /\ a.seg.size <= o.seg.size
         \/ /\ o.ret = a.seg.size /\ o.seg.size = a.seg.size + n
            /\ o.seg.rw = a.seg.rw \cup a.seg.size .. (a.seg.size + n - 1)
  BY <1>1, <1>3, <1>4, <1>5, H!ExtendSegment
<1>. QED  BY <1>6, SameArithmetic

\* add_page.
LEMMA AddPageTells ==
    ASSUME NEW h, NEW B, Tells(h, B), H!GoodHeap(View(h, B)), H!Backing(View(h, B)),
           NEW asize \in Nat, NEW g \in AddPage(h, asize)
    PROVE  /\ Shown(g, H!AddPage(View(h, B), asize)) /\ g.ptr = NULL /\ g = Outcome(g.heap, NULL, g.fate)
           /\ Keeps(h, g.heap, Held(B))
<1>. DEFINE n == NumOfPage(h.pages, asize)
            a == View(h, B)
            s(o) == [h EXCEPT !.seg = o.seg]
<1>1. PICK o \in ExtendHeapSegment(h.seg, n) :
        g = IF o.ret = NoPage
            THEN Outcome([h EXCEPT !.seg = o.seg], NULL, "full")
            ELSE IF h.pages > 0 /\ (o.ret - 1) \notin o.seg.rw
            THEN Outcome([h EXCEPT !.seg = o.seg], NULL, "hole")
            ELSE Outcome(NewPages(h, o, n), NULL, "up")
  BY DEF AddPage
<1>2. a.seg = h.seg /\ a.pages = h.pages
  BY ViewFields
<1>. DEFINE Abs(p) == IF p.ret = H!NoPage
                      THEN H!Outcome([a EXCEPT !.seg = p.seg], H!NULL, "full")
                      ELSE IF a.pages > 0 /\ (p.ret - 1) \notin p.seg.rw
                      THEN H!Outcome([a EXCEPT !.seg = p.seg], H!NULL, "hole")
                      ELSE H!Outcome(H!NewPages(a, p, n), H!NULL, "up")
<1>. HIDE DEF a
<1>3. Abs(o) \in H!AddPage(a, asize)
  <2>1. H!NumOfPage(a.pages, asize) = n /\ o \in H!ExtendHeapSegment(a.seg, n)
    BY <1>2, SameArithmetic
  <2>. HIDE DEF n
  <2>. QED  BY <2>1 DEF H!AddPage
<1>4. o.seg \in Segments
  <2>1. H!GoodHeap(a) /\ H!Backing(a) /\ o \in ExtendHeapSegment(a.seg, NumOfPage(a.pages, asize))
    BY <1>2 DEF a
  <2>. QED  BY <2>1, ExtendedSegment
<1>5. Tells(s(o), B) /\ View(s(o), B) = [a EXCEPT !.seg = o.seg]
  BY <1>4, TellsSeg DEF a
<1>6. H!NoPage = NoPage /\ H!NULL = NULL
  BY SameArithmetic
<1>7. ASSUME NEW k, NEW C, NEW fate, g = Outcome(k, NULL, fate), Tells(k, C),
             H!Outcome(View(k, C), NULL, fate) = Abs(o), Keeps(h, k, Held(B))
      PROVE  /\ Shown(g, H!AddPage(a, asize)) /\ g.ptr = NULL /\ g = Outcome(g.heap, NULL, g.fate)
             /\ Keeps(h, g.heap, Held(B))
  <2>. HIDE DEF Abs
  <2>1. g.heap = k /\ g.ptr = NULL /\ g.fate = fate
    BY <1>7, OutcomeParts
  <2>. QED  BY <1>3, <1>7, <2>1 DEF Shown
<1>. DEFINE Goal == /\ Shown(g, H!AddPage(a, asize)) /\ g.ptr = NULL /\ g = Outcome(g.heap, NULL, g.fate)
                    /\ Keeps(h, g.heap, Held(B))
<1>. SUFFICES Goal
  BY DEF a
<1>8. Keeps(h, s(o), Held(B))
  <2>1. s(o).mem = h.mem
    BY DEF Tells, WordHeap
  <2>. QED  BY <2>1 DEF Keeps
<1>9. CASE o.ret = NoPage
  <2>1. g = Outcome(s(o), NULL, "full")
    BY <1>1, <1>9
  <2>2. H!Outcome(View(s(o), B), NULL, "full") = Abs(o)
    BY <1>5, <1>6, <1>9
  <2>. HIDE DEF s, Abs
  <2>. QED  BY <1>5, <1>7, <1>8, <2>1, <2>2
<1>10. CASE o.ret # NoPage /\ h.pages > 0 /\ (o.ret - 1) \notin o.seg.rw
  <2>1. g = Outcome(s(o), NULL, "hole")
    BY <1>1, <1>10
  <2>2. H!Outcome(View(s(o), B), NULL, "hole") = Abs(o)
    BY <1>2, <1>5, <1>6, <1>10
  <2>. HIDE DEF s, Abs
  <2>. QED  BY <1>5, <1>7, <1>8, <2>1, <2>2
<1>11. CASE o.ret # NoPage /\ ~(h.pages > 0 /\ (o.ret - 1) \notin o.seg.rw)
  <2>1. g = Outcome(NewPages(h, o, n), NULL, "up")
    BY <1>1, <1>11
  <2>2. /\ \E C : Tells(NewPages(h, o, n), C) /\ View(NewPages(h, o, n), C) = H!NewPages(a, o, n)
        /\ Keeps(h, NewPages(h, o, n), Held(B))
    BY <1>11, NewPagesTells DEF a
  <2>3. PICK C : Tells(NewPages(h, o, n), C) /\ View(NewPages(h, o, n), C) = H!NewPages(a, o, n)
    BY <2>2
  <2>4. H!Outcome(View(NewPages(h, o, n), C), NULL, "up") = Abs(o)
    BY <1>2, <1>6, <1>11, <2>3
  <2>. HIDE DEF Abs, n
  <2>. QED  BY <1>7, <2>1, <2>2, <2>4, <2>3
<1>. QED  BY <1>9, <1>10, <1>11

\* The lists of a heap, with or without pages, are those of its free blocks.
LEMMA TellsLists ==
    ASSUME NEW h, NEW B, Tells(h, B)
    PROVE  \E E : Rep(h, B, Frees(B), E)
BY DEF Tells, Rests, Frees

\* place, after a find_fit that found a block.
LEMMA PlacedTells ==
    ASSUME NEW h, NEW B, Tells(h, B), H!GoodHeap(View(h, B)),
           NEW asize \in Nat, 3 <= asize, NEW want \in Nat, FindFit(h, asize) # NULL
    PROVE  LET o == Placed(h, FindFit(h, asize), asize)
           IN  Shown(o, H!PlaceFit(View(h, B), asize, want)) /\ Keeps(h, o.heap, Held(B))
<1>. DEFINE p == FindFit(h, asize)
            g == Place(h, p, asize)
<1>1. PICK b \in H!FindFit(B, asize) : b.at = p
  <2>1. PICK E : Rep(h, B, Frees(B), E)
    BY TellsLists
  <2>. QED  BY <2>1, FindFitTells
<1>2. b \in B /\ ~b.alloc /\ asize <= b.size
  BY <1>1 DEF H!FindFit, H!Fits
<1>3. h.pages # 0 /\ Rests(h, B, LoOf(h), HiOf(h))
  BY <1>2 DEF Tells
<1>4. H!NoFreePair(B)
  <2>1. View(h, B).pages = h.pages /\ View(h, B).blocks = B
    BY ViewFields
  <2>. QED  BY <1>3, <2>1 DEF H!GoodHeap, H!Settled, H!NoFreePair
<1>. DEFINE C == H!Place(B, b, asize, want)
<1>5. Rests(g, C, LoOf(h), HiOf(h)) /\ SameFrame(h, g) /\ OnlyIn(h, g, Frees(B))
  <2>1. /\ Rests(Place(h, b.at, asize), H!Place(B, b, asize, want), LoOf(h), HiOf(h))
        /\ SameFrame(h, Place(h, b.at, asize)) /\ OnlyIn(h, Place(h, b.at, asize), Frees(B))
    BY <1>2, <1>3, <1>4, PlaceRests
  <2>. QED  BY <1>1, <2>1
<1>6. Placed(h, p, asize) = Outcome(g, p + 1, "up")
  BY DEF Placed
<1>7. H!Outcome(View(h, C), p + 1, "up") \in H!PlaceFit(View(h, B), asize, want)
  <2>1. p + 1 = H!Payload(b)
    BY <1>1 DEF H!Payload
  <2>2. View(h, B).blocks = B /\ [View(h, B) EXCEPT !.blocks = C] = View(h, C)
    BY ViewFields
  <2>. QED  BY <1>1, <2>1, <2>2 DEF H!PlaceFit
<1>. HIDE DEF C, g, p
<1>8. Tells(g, C) /\ View(g, C) = View(h, C)
  BY <1>3, <1>5 DEF Tells, SameFrame, Rests, Rep, LoOf, HiOf, View
<1>9. Keeps(h, g, Held(B))
  <2>1. \A c, d \in B : c = d \/ Clear(c, d)
    BY <1>3, RowFits DEF Rests, Rep, Edges
  <2>2. \A w \in Held(B) : w \in Words /\ Apart(w, Frees(B))
    <3>1. B \in SUBSET H!Block /\ B \in SUBSET B /\ Frees(B) \in SUBSET B /\ \A f \in Frees(B) : ~f.alloc
      BY <1>3 DEF Rests, Rep, Frees
    <3>. QED  BY <2>1, <3>1, HeldApart
  <2>. QED  BY <1>5, <2>2 DEF Keeps, OnlyIn
<1>. QED  BY <1>6, <1>7, <1>8, <1>9, OutcomeParts DEF Shown, p

\* A request that is not empty asks for three words or more.
LEMMA AsizeWords ==
    ASSUME NEW bytes \in Nat
    PROVE  Asize(bytes) \in Nat /\ Grown(bytes) \in Nat /\ (bytes # 0 => 3 <= Asize(bytes))
BY DEF Asize, RoundUp, Grown

\* mymalloc.
LEMMA MallocTells ==
    ASSUME NEW h, NEW B, Tells(h, B), H!GoodHeap(View(h, B)), H!Backing(View(h, B)),
           NEW bytes \in Nat, NEW want \in Nat, NEW o \in MyMalloc(h, bytes)
    PROVE  Shown(o, H!MyMalloc(View(h, B), bytes, want)) /\ Keeps(h, o.heap, Held(B))
<1>. DEFINE asize == Asize(bytes)
            a == View(h, B)
            after(g) == IF g.fate = "up" THEN Placed(g.heap, FindFit(g.heap, asize), asize)
                        ELSE [g EXCEPT !.fate = IF @ = "full" THEN "up" ELSE @]
            placed(g) == IF g.fate = "full" THEN {[g EXCEPT !.fate = "up"]}
                         ELSE IF g.fate = "hole" THEN {g}
                         ELSE IF H!Fits(g.heap.blocks, asize) = {}
                              THEN {[g EXCEPT !.fate = "null_block"]}
                         ELSE H!PlaceFit(g.heap, asize, want)
<1>1. asize \in Nat /\ (bytes # 0 => 3 <= asize) /\ H!Asize(bytes) = asize
  BY AsizeWords, SameArithmetic
<1>2. a.blocks = B /\ H!NULL = NULL
  BY ViewFields, SameArithmetic
<1>3. CASE bytes = 0 \/ bytes > IntMax
  <2>1. o = Outcome(h, NULL, "up")
    BY <1>3 DEF MyMalloc
  <2>2. H!Outcome(a, NULL, "up") \in H!MyMalloc(a, bytes, want)
    BY <1>2, <1>3 DEF H!MyMalloc
  <2>. QED  BY <2>1, <2>2, OutcomeParts DEF Shown, Keeps
<1>4. CASE ~(bytes = 0 \/ bytes > IntMax) /\ FindFit(h, asize) # NULL
  <2>1. o = Placed(h, FindFit(h, asize), asize)
    BY <1>4 DEF MyMalloc
  <2>2. H!Fits(B, asize) # {}
    <3>1. PICK E : Rep(h, B, Frees(B), E)
      BY TellsLists
    <3>2. PICK b : b \in H!FindFit(B, asize)
      BY <1>1, <1>4, <3>1, FindFitTells
    <3>. QED  BY <3>2 DEF H!FindFit
  <2>. HIDE DEF a, asize
  <2>3. H!MyMalloc(a, bytes, want) = H!PlaceFit(a, asize, want)
    BY <1>1, <1>2, <1>4, <2>2 DEF H!MyMalloc
  <2>. QED  BY <1>1, <1>4, <2>1, <2>3, PlacedTells DEF a
<1>5. CASE ~(bytes = 0 \/ bytes > IntMax) /\ FindFit(h, asize) = NULL
  <2>1. PICK g \in AddPage(h, asize) : o = after(g)
    BY <1>5 DEF MyMalloc
  <2>2. H!Fits(B, asize) = {}
    <3>1. PICK E : Rep(h, B, Frees(B), E)
      BY TellsLists
    <3>. QED  BY <1>1, <1>5, <3>1, FindFitTells
  <2>3. /\ Shown(g, H!AddPage(a, asize)) /\ g.ptr = NULL /\ g = Outcome(g.heap, NULL, g.fate)
        /\ Keeps(h, g.heap, Held(B))
    BY <1>1, AddPageTells
  <2>4. PICK C : Tells(g.heap, C) /\ H!Outcome(View(g.heap, C), g.ptr, g.fate) \in H!AddPage(a, asize)
    BY <2>3 DEF Shown
  <2>. DEFINE w == H!Outcome(View(g.heap, C), g.ptr, g.fate)
  <2>5. w \in H!AddPage(a, asize)
    BY <2>4
  <2>6. w.heap = View(g.heap, C) /\ w.ptr = NULL /\ w.fate = g.fate /\ w.heap.blocks = C
        /\ w = H!Outcome(View(g.heap, C), NULL, g.fate)
    BY <2>3, OutcomeParts, ViewFields
  <2>. HIDE DEF w
  <2>7. placed(w) \subseteq H!MyMalloc(a, bytes, want)
    <3>. HIDE DEF a, asize
    <3>1. ~(H!Fits(a.blocks, asize) # {})
      BY <1>2, <2>2
    <3>2. H!MyMalloc(a, bytes, want) = UNION {placed(x) : x \in H!AddPage(a, asize)}
      BY <1>1, <1>5, <3>1 DEF H!MyMalloc
    <3>. HIDE DEF placed
    <3>. QED  BY <2>5, <3>2
  <2>8. /\ H!GoodHeap(w.heap) /\ H!SameLive(w.heap.blocks, a.blocks)
        /\ \/ w.fate = "hole"
           \/ w.fate = "full" /\ H!Backing(w.heap)
           \/ /\ w.fate = "up" /\ H!Backing(w.heap)
              /\ w.heap.pages # 0 /\ H!Fits(w.heap.blocks, asize) # {}
    <3>1. H!GoodHeap(a) /\ H!Backing(a)
      OBVIOUS
    <3>. HIDE DEF a, asize
    <3>. QED  BY <1>1, <2>5, <3>1, BlockAddPage
  <2>9. CASE g.fate = "hole"
    <3>1. o = g
      <4>1. o = [g EXCEPT !.fate = g.fate]
        BY <2>1, <2>9
      <4>. QED  BY <2>3, <4>1 DEF Outcome
    <3>2. w \in placed(w)
      BY <2>6, <2>9
    <3>. QED  BY <2>3, <2>4, <2>6, <2>7, <3>1, <3>2 DEF Shown
  <2>10. CASE g.fate = "full"
    <3>1. o = [g EXCEPT !.fate = "up"]
      BY <2>1, <2>10
    <3>2. o = Outcome(g.heap, NULL, "up")
      BY <2>3, <3>1 DEF Outcome
    <3>3. [w EXCEPT !.fate = "up"] = H!Outcome(View(g.heap, C), NULL, "up")
      BY <2>6 DEF H!Outcome
    <3>4. H!Outcome(View(g.heap, C), NULL, "up") \in placed(w)
      BY <2>6, <2>10, <3>3
    <3>. QED  BY <2>3, <2>4, <2>7, <3>2, <3>4, OutcomeParts DEF Shown
  <2>11. CASE g.fate = "up"
    <3>1. o = Placed(g.heap, FindFit(g.heap, asize), asize)
      BY <2>1, <2>11
    <3>2. H!Fits(C, asize) # {} /\ H!GoodHeap(View(g.heap, C))
      BY <2>6, <2>8, <2>11
    <3>3. FindFit(g.heap, asize) # NULL
      <4>1. PICK E : Rep(g.heap, C, Frees(C), E)
        BY <2>4, TellsLists
      <4>. QED  BY <1>1, <3>2, <4>1, FindFitTells
    <3>4. Shown(o, H!PlaceFit(View(g.heap, C), asize, want)) /\ Keeps(g.heap, o.heap, Held(C))
      <4>. HIDE DEF asize
      <4>. QED  BY <1>1, <1>5, <2>4, <3>1, <3>2, <3>3, PlacedTells
    <3>5. placed(w) = H!PlaceFit(View(g.heap, C), asize, want)
      BY <2>6, <2>11, <3>2
    <3>6. Held(C) = Held(B)
      <4>1. C \in SUBSET H!Block /\ B \in SUBSET H!Block /\ H!SameLive(C, B)
        BY <1>2, <2>4, <2>6, <2>8, TellsBlocks
      <4>. QED  BY <4>1, HeldSame
    <3>7. Keeps(h, o.heap, Held(B))
      BY <2>3, <3>4, <3>6 DEF Keeps
    <3>. HIDE DEF placed, asize
    <3>. QED  BY <2>7, <3>4, <3>5, <3>7 DEF Shown
  <2>. QED  BY <2>6, <2>8, <2>9, <2>10, <2>11
<1>. QED  BY <1>3, <1>4, <1>5

\* What the proofs about BlockHeapSpec say of mymalloc, myfree and myrealloc.
LEMMA BlockMalloc ==
    ASSUME NEW a, H!GoodHeap(a), H!Backing(a), NEW bytes \in Nat, NEW want \in Nat,
           NEW o \in H!MyMalloc(a, bytes, want)
    PROVE  /\ H!GoodOutcome(o)
           /\ \/ H!NoBlock(a.blocks, o) /\ o.fate \in {"up", "hole"}
              \/ H!NewBlock(a.blocks, o, H!Asize(bytes), want) /\ bytes # 0 /\ bytes <= IntMax
           /\ H!NearInt(a.blocks) => H!NearInt(o.heap.blocks)
           /\ want = bytes /\ H!Roomy(a.blocks) => H!Roomy(o.heap.blocks)
<1>. USE LayoutAssumption, SegmentAssumption, ClientAssumption, StackAssumption
<1>1. Requests \subseteq Nat /\ StackBytes \in Nat
  OBVIOUS
<1>2. /\ H!GoodOutcome(o)
      /\ \/ H!NoBlock(a.blocks, o) /\ o.fate \in {"up", "hole"}
         \/ H!NewBlock(a.blocks, o, H!Asize(bytes), want) /\ bytes # 0 /\ bytes <= IntMax
  BY <1>1, H!MyMallocGood
<1>3. ASSUME H!NearInt(a.blocks) PROVE H!NearInt(o.heap.blocks)
  BY <1>1, <1>3, H!MallocNear
<1>4. ASSUME want = bytes, H!Roomy(a.blocks) PROVE H!Roomy(o.heap.blocks)
  <2>1. o \in H!MyMalloc(a, bytes, bytes)
    BY <1>4
  <2>. QED  BY <1>1, <1>4, <2>1, H!MallocRoomy
<1>. QED  BY <1>2, <1>3, <1>4

LEMMA BlockFree ==
    ASSUME NEW a, H!GoodHeap(a), H!Backing(a), NEW b \in a.blocks, b.alloc
    PROVE  /\ H!GoodHeap(H!MyFree(a, b)) /\ H!Backing(H!MyFree(a, b))
           /\ \A c \in H!Block : c.alloc => (c \in H!MyFree(a, b).blocks <=> c \in a.blocks /\ c # b)
           /\ H!NearInt(a.blocks) => H!NearInt(H!MyFree(a, b).blocks)
           /\ H!Roomy(a.blocks) => H!Roomy(H!MyFree(a, b).blocks)
<1>. USE LayoutAssumption, SegmentAssumption, ClientAssumption, StackAssumption
<1>1. Requests \subseteq Nat /\ StackBytes \in Nat
  OBVIOUS
<1>2. LET g == H!MyFree(a, b)
      IN  /\ H!GoodHeap(g) /\ H!Backing(g)
          /\ \A c \in H!Block : c.alloc => (c \in g.blocks <=> c \in a.blocks /\ c # b)
  BY <1>1, H!MyFreeGood
<1>3. ASSUME H!NearInt(a.blocks) PROVE H!NearInt(H!MyFree(a, b).blocks)
  BY <1>1, <1>3, H!FreeNear
<1>4. ASSUME H!Roomy(a.blocks) PROVE H!Roomy(H!MyFree(a, b).blocks)
  BY <1>1, <1>4, H!FreeRoomy
<1>. QED  BY <1>2, <1>3, <1>4

LEMMA BlockRealloc ==
    ASSUME NEW a, H!GoodHeap(a), H!Backing(a), NEW b \in a.blocks, b.alloc, NEW bytes \in Nat,
           8 * H!Asize(bytes) <= IntMax, NEW o \in H!MyRealloc(a, b, bytes)
    PROVE  /\ H!GoodOutcome(o)
           /\ \/ H!NoBlock(a.blocks, o) /\ (bytes = 0 \/ o.fate = "stack")
              \/ /\ H!Kept(a.blocks, o, b, bytes) /\ bytes # 0
                 /\ 8 * H!Asize(bytes) <= IntMax => bytes <= 8 * b.size
              \/ /\ H!NoBlock(H!MyFree(a, b).blocks, o) /\ bytes # 0
                 /\ o.fate \in {"hole", "null_copy"}
              \/ /\ H!NewBlock(H!MyFree(a, b).blocks, o, H!Asize(H!Grown(bytes)), bytes)
                 /\ H!Grown(bytes) <= IntMax /\ bytes # 0
           /\ H!NearInt(a.blocks) => H!NearInt(o.heap.blocks)
           /\ H!Roomy(a.blocks) => H!Roomy(o.heap.blocks)
<1>. USE LayoutAssumption, SegmentAssumption, ClientAssumption, StackAssumption
<1>1. Requests \subseteq Nat /\ StackBytes \in Nat
  OBVIOUS
<1>2. /\ H!GoodOutcome(o)
      /\ \/ H!NoBlock(a.blocks, o) /\ (bytes = 0 \/ o.fate = "stack")
         \/ /\ H!Kept(a.blocks, o, b, bytes) /\ bytes # 0
            /\ 8 * H!Asize(bytes) <= IntMax => bytes <= 8 * b.size
         \/ /\ H!NoBlock(H!MyFree(a, b).blocks, o) /\ bytes # 0
            /\ o.fate \in {"hole", "null_copy"}
         \/ /\ H!NewBlock(H!MyFree(a, b).blocks, o, H!Asize(H!Grown(bytes)), bytes)
            /\ H!Grown(bytes) <= IntMax /\ bytes # 0
  BY <1>1, H!MyReallocGood
<1>3. ASSUME H!NearInt(a.blocks) PROVE H!NearInt(o.heap.blocks)
  BY <1>1, <1>3, H!ReallocNear
<1>4. ASSUME H!Roomy(a.blocks) PROVE H!Roomy(o.heap.blocks)
  BY <1>1, <1>4, H!ReallocRoomy
<1>. QED  BY <1>2, <1>3, <1>4

LEMMA BlockInit ==
    ASSUME NEW a, H!GoodHeap(a), NEW o \in H!MyInit(a)
    PROVE  /\ H!GoodOutcome(o) /\ o.ptr = NULL
           /\ o.fate \in {"uninit", "up"}
           /\ o.fate = "up" => o.heap.blocks = {}
           /\ o.fate # "up" => o.heap.blocks = a.blocks
<1>. USE LayoutAssumption, SegmentAssumption, ClientAssumption, StackAssumption
<1>1. Requests \subseteq Nat /\ StackBytes \in Nat
  OBVIOUS
<1>2. /\ H!GoodOutcome(o) /\ o.ptr = H!NULL
      /\ o.fate \in {"uninit", "up"}
      /\ o.fate = "up" => o.heap.blocks = {}
      /\ o.fate # "up" => o.heap.blocks = a.blocks
  BY <1>1, H!MyInitGood
<1>. QED  BY <1>2, SameArithmetic

\* A heap that tells of an allocated block has pages, and no free blocks touch.
LEMMA TellsRow ==
    ASSUME NEW h, NEW B, Tells(h, B), H!GoodHeap(View(h, B)), NEW b \in B
    PROVE  /\ h.pages # 0 /\ Rests(h, B, LoOf(h), HiOf(h)) /\ H!NoFreePair(B)
           /\ b \in H!Block /\ b.at \in Nat /\ b.size \in Nat /\ 3 <= b.size
           /\ GET_SIZE(h, b.at) = b.size /\ Stop(b) <= NumWords /\ Stop(b) = b.at + b.size + 2
<1>1. h.pages # 0 /\ Rests(h, B, LoOf(h), HiOf(h))
  BY DEF Tells
<1>2. H!NoFreePair(B)
  <2>1. View(h, B).pages = h.pages /\ View(h, B).blocks = B
    BY ViewFields
  <2>. QED  BY <1>1, <2>1 DEF H!GoodHeap, H!Settled, H!NoFreePair
<1>3. Rep(h, B, Frees(B), Edges(LoOf(h), HiOf(h)))
  BY <1>1 DEF Rests
<1>4. b \in H!Block /\ Fitting(B \cup Frees(B), Edges(LoOf(h), HiOf(h)))
  BY <1>3 DEF Rep
<1>5. b.at \in Nat /\ b.size \in Nat /\ 3 <= b.size /\ Stop(b) <= NumWords
  BY <1>4, BlockParts DEF Fitting
<1>6. GET_SIZE(h, b.at) = b.size
  BY <1>3, ReadTags
<1>. QED  BY <1>1, <1>2, <1>4, <1>5, <1>6 DEF Stop

\* myfree.
LEMMA FreeTells ==
    ASSUME NEW h, NEW B, Tells(h, B), H!GoodHeap(View(h, B)), NEW b \in B, b.alloc
    PROVE  /\ Tells(MyFree(h, b.at + 1), H!Released(B, b))
           /\ View(MyFree(h, b.at + 1), H!Released(B, b)) = H!MyFree(View(h, B), b)
           /\ Keeps(h, MyFree(h, b.at + 1), Held(B \ {b}))
<1>. DEFINE g == MyFree(h, b.at + 1)
            C == H!Released(B, b)
<1>1. h.pages # 0 /\ Rests(h, B, LoOf(h), HiOf(h)) /\ H!NoFreePair(B)
  BY TellsRow
<1>2. Rests(g, C, LoOf(h), HiOf(h)) /\ SameFrame(h, g) /\ OnlyIn(h, g, Frees(B) \cup {b})
  BY <1>1, FreeRests
<1>3. H!MyFree(View(h, B), b) = View(h, C)
  BY ViewFields DEF H!MyFree
<1>. HIDE DEF g, C
<1>4. Tells(g, C) /\ View(g, C) = View(h, C)
  BY <1>1, <1>2 DEF Tells, SameFrame, Rests, Rep, LoOf, HiOf, View
<1>5. Keeps(h, g, Held(B \ {b}))
  <2>1. \A c, d \in B : c = d \/ Clear(c, d)
    BY <1>1, RowFits DEF Rests, Rep, Edges
  <2>2. /\ B \in SUBSET H!Block /\ B \ {b} \in SUBSET B /\ Frees(B) \cup {b} \in SUBSET B
        /\ \A f \in Frees(B) \cup {b} : ~f.alloc \/ f \notin B \ {b}
    BY <1>1 DEF Rests, Rep, Frees
  <2>3. \A w \in Held(B \ {b}) : w \in Words /\ Apart(w, Frees(B) \cup {b})
    BY <2>1, <2>2, HeldApart
  <2>. QED  BY <1>2, <2>3 DEF Keeps, OnlyIn
<1>. QED  BY <1>3, <1>4, <1>5 DEF g, C

\* Asking another size of an allocated block changes no word.
LEMMA KeepTells ==
    ASSUME NEW h, NEW B, Tells(h, B), H!GoodHeap(View(h, B)), NEW b \in B, b.alloc, NEW want \in Nat
    PROVE  Tells(h, (B \ {b}) \cup {[b EXCEPT !.want = want]})
<1>. DEFINE n == [b EXCEPT !.want = want]
            C == (B \ {b}) \cup {n}
            E == Edges(LoOf(h), HiOf(h))
<1>1. /\ h.pages # 0 /\ Rests(h, B, LoOf(h), HiOf(h)) /\ b \in H!Block
  BY TellsRow
<1>2. n \in H!Block /\ n.at = b.at /\ n.size = b.size /\ n.alloc
  BY <1>1 DEF H!Block
<1>. HIDE DEF n
<1>3. /\ B \in SUBSET H!Block /\ LoOf(h) \in Nat /\ 2 <= LoOf(h) /\ HiOf(h) \in Nat /\ HiOf(h) \in Words
      /\ Rep(h, B, Frees(B), E) /\ H!Row(B, LoOf(h), HiOf(h))
  BY <1>1 DEF Rests, Rep, Edges
<1>4. Frees(C) = Frees(B)
  BY <1>2 DEF Frees
<1>5. C \in SUBSET H!Block
  BY <1>2, <1>3
<1>6. PICK lo \in Int, hi \in Int : lo = LoOf(h) /\ hi = HiOf(h)
  BY <1>3
<1>7. H!Row(C, lo, hi)
  <2>1. H!Row(B, lo, hi)
    BY <1>3, <1>6
  <2>. QED  BY <1>2, <1>3, <2>1, RowChanges
<1>8. Fitting(C \cup Frees(C), E)
  <2>1. Fitting(C, E)
    <3>. HIDE DEF C, E
    <3>. DEFINE D == Edges(lo, hi)
    <3>1. E = D
      BY <1>6 DEF E
    <3>2. Fitting(C, D)
      BY <1>3, <1>5, <1>6, <1>7, RowFits
    <3>. QED  BY <3>1, <3>2
  <2>. QED  BY <2>1 DEF Fitting, Frees
<1>9. Rep(h, C, Frees(C), E)
  <2>1. /\ \A c \in B : Tagged(h.mem, c) /\ (~c.alloc => c.want = 0)
        /\ Listing(h, Frees(B)) /\ E \in SUBSET Words /\ h \in WordHeap
        /\ \A w \in E : h.mem[w] = PACK(0, 1)
        /\ Frees(B) \in SUBSET H!Block
    BY <1>3 DEF Rep
  <2>2. Tagged(h.mem, n)
    BY <1>2, <2>1 DEF Tagged, Bit
  <2>3. \A c \in C \cup Frees(C) : ~c.alloc => c.want = 0
    BY <1>2, <2>1 DEF Frees
  <2>4. \A f \in Frees(C) : ~f.alloc
    BY DEF Frees
  <2>. HIDE DEF E
  <2>5. \A c \in C : Tagged(h.mem, c)
    BY <2>1, <2>2
  <2>. HIDE DEF C
  <2>. QED  BY <1>4, <1>5, <1>8, <2>1, <2>3, <2>4, <2>5 DEF Rep
<1>. HIDE DEF C
<1>10. Rests(h, C, LoOf(h), HiOf(h))
  BY <1>3, <1>6, <1>7, <1>9 DEF Rests
<1>. QED  BY <1>1, <1>3, <1>10 DEF Tells, Rests, Rep, C, n

\* Words inside an allocated block may hold anything.
LEMMA WriteTells ==
    ASSUME NEW h, NEW B, Tells(h, B), H!GoodHeap(View(h, B)), NEW b \in B, b.alloc,
           NEW mem \in [Words -> Nat],
           \A w \in Words : mem[w] = h.mem[w] \/ (b.at < w /\ w <= b.at + b.size)
    PROVE  /\ Tells([h EXCEPT !.mem = mem], B)
           /\ View([h EXCEPT !.mem = mem], B) = View(h, B)
<1>. DEFINE g == [h EXCEPT !.mem = mem]
<1>1. h.pages # 0 /\ Rests(h, B, LoOf(h), HiOf(h)) /\ h \in WordHeap
  BY TellsRow DEF Tells
<1>2. /\ g \in WordHeap /\ g.mem = mem /\ g.fl = h.fl /\ g.pages = h.pages /\ g.base = h.base /\ g.seg = h.seg
  BY <1>1 DEF WordHeap
<1>. HIDE DEF g
<1>3. \A f \in Frees(B) : Clear(b, f)
  <2>1. /\ B \in SUBSET H!Block /\ LoOf(h) \in Nat /\ 2 <= LoOf(h) /\ HiOf(h) \in Nat /\ HiOf(h) \in Words
        /\ H!Row(B, LoOf(h), HiOf(h))
    BY <1>1 DEF Rests, Rep, Edges
  <2>2. \A c \in B : c = b \/ Clear(b, c)
    BY <2>1, RowFits
  <2>. QED  BY <2>2 DEF Frees
<1>4. Rep(g, B, Frees(B), Edges(LoOf(h), HiOf(h)))
  <2>1. Rep(h, B, Frees(B), Edges(LoOf(h), HiOf(h)))
    BY <1>1 DEF Rests
  <2>. QED  BY <1>2, <1>3, <2>1, RepWrite
<1>. QED  BY <1>1, <1>2, <1>4 DEF Tells, Rests, LoOf, HiOf, View, g

\* Zeroed words and empty lists tell of no block.
LEMMA EmptyTells ==
    ASSUME NEW s \in Segments
    PROVE  LET g == [EmptyHeap EXCEPT !.seg = s]
           IN  Tells(g, {}) /\ View(g, {}) = [H!EmptyHeap EXCEPT !.seg = s]
<1>. DEFINE g == [EmptyHeap EXCEPT !.seg = s]
<1>1. /\ g.seg = s /\ g.pages = 0 /\ g.base = 0
      /\ g.fl = [i \in Buckets |-> NULL] /\ g.mem = [p \in Words |-> 0]
      /\ g \in WordHeap
  BY DEF EmptyHeap, WordHeap, NULL
<1>. HIDE DEF g
<1>2. View(g, {}) = [H!EmptyHeap EXCEPT !.seg = s]
  BY <1>1 DEF View, H!EmptyHeap
<1>3. Listing(g, {})
  <2>. DEFINE cls == [x \in Nat |-> Bucket(0)]
              rank == [x \in Nat |-> 0]
  <2>1. cls \in [Nat -> Buckets] /\ rank \in [Nat -> Nat]
    BY BucketInBuckets
  <2>2. At({}) = {}
    BY DEF At
  <2>3. \A i \in Buckets : g.fl[i] = NULL
    BY <1>1
  <2>. HIDE DEF cls, rank
  <2>4. Linked(g, At({}), cls, rank, 0)
    BY <2>1, <2>2, <2>3 DEF Linked
  <2>. QED  BY <2>4 DEF Listing
<1>4. Rep(g, {}, {}, {})
  BY <1>1, <1>3 DEF Rep, Fitting
<1>. QED  BY <1>1, <1>2, <1>4 DEF Tells, g

\* myinit.
LEMMA InitTells ==
    ASSUME NEW h, NEW B, Tells(h, B), H!GoodHeap(View(h, B)), NEW o \in MyInit(h)
    PROVE  Shown(o, H!MyInit(View(h, B)))
<1>. DEFINE a == View(h, B)
            Abs(p) == IF p.ret = H!NoPage
                      THEN H!Outcome([a EXCEPT !.seg = p.seg], H!NULL, "uninit")
                      ELSE H!Outcome([H!EmptyHeap EXCEPT !.seg = p.seg], H!NULL, "up")
<1>1. PICK p \in InitHeapSegment(h.seg, 0) :
        o = IF p.ret = NoPage
            THEN Outcome([h EXCEPT !.seg = p.seg], NULL, "uninit")
            ELSE Outcome([EmptyHeap EXCEPT !.seg = p.seg], NULL, "up")
  BY DEF MyInit
<1>2. a.seg = h.seg /\ H!GoodHeap(a)
  BY ViewFields
<1>. HIDE DEF a
<1>3. Abs(p) \in H!MyInit(a)
  <2>1. p \in H!InitHeapSegment(a.seg, 0)
    BY <1>2, SameArithmetic
  <2>. QED  BY <2>1 DEF H!MyInit
<1>4. p.seg \in Segments
  <2>. USE LayoutAssumption, SegmentAssumption, ClientAssumption, StackAssumption
  <2>1. Requests \subseteq Nat /\ StackBytes \in Nat
    OBVIOUS
  <2>2. p \in H!InitHeapSegment(a.seg, 0) /\ a.seg \in H!Segments
    BY <1>2, SameArithmetic DEF H!GoodHeap, H!Heaps
  <2>3. p.seg \in H!Segments
    BY <2>1, <2>2, H!InitSegment
  <2>. QED  BY <2>3, SameArithmetic
<1>5. Tells([h EXCEPT !.seg = p.seg], B) /\ View([h EXCEPT !.seg = p.seg], B) = [a EXCEPT !.seg = p.seg]
  BY <1>4, TellsSeg DEF a
<1>6. /\ Tells([EmptyHeap EXCEPT !.seg = p.seg], {})
      /\ View([EmptyHeap EXCEPT !.seg = p.seg], {}) = [H!EmptyHeap EXCEPT !.seg = p.seg]
  BY <1>4, EmptyTells
<1>7. H!NoPage = NoPage /\ H!NULL = NULL
  BY SameArithmetic
<1>8. CASE p.ret = NoPage
  <2>1. o.heap = [h EXCEPT !.seg = p.seg] /\ o.ptr = NULL /\ o.fate = "uninit"
    BY <1>1, <1>8, OutcomeParts
  <2>2. H!Outcome(View(o.heap, B), o.ptr, o.fate) = Abs(p)
    BY <1>5, <1>7, <1>8, <2>1
  <2>. HIDE DEF Abs
  <2>. QED  BY <1>3, <1>5, <2>1, <2>2 DEF Shown, a
<1>9. CASE p.ret # NoPage
  <2>1. o.heap = [EmptyHeap EXCEPT !.seg = p.seg] /\ o.ptr = NULL /\ o.fate = "up"
    BY <1>1, <1>9, OutcomeParts
  <2>2. H!Outcome(View(o.heap, {}), o.ptr, o.fate) = Abs(p)
    BY <1>6, <1>7, <1>9, <2>1
  <2>. HIDE DEF Abs
  <2>. QED  BY <1>3, <1>6, <2>1, <2>2 DEF Shown, a
<1>. QED  BY <1>8, <1>9

\* The size of an allocated block as an int is exact, or negative.
LEMMA IntNear ==
    ASSUME NEW x \in Nat, x <= IntMax + 55
    PROVE  IF x <= IntMax THEN ToInt(x) = x ELSE ToInt(x) < 0
<1>. DEFINE m == 2 * (IntMax + 1)
            y == x + IntMax + 1
<1>0. IntMax \in Nat /\ IntMax > 64
  BY LayoutAssumption
<1>1. m \in Nat \ {0} /\ y \in Nat /\ y < 2 * m /\ m = 2 * IntMax + 2
  BY <1>0
<1>2. ToInt(x) = (y % m) - (IntMax + 1)
  BY <1>0 DEF ToInt
<1>3. CASE x <= IntMax
  <2>1. y < m
    BY <1>0, <1>3
  <2>2. y % m = y
    <3>. HIDE DEF y, m
    <3>. QED  BY <1>1, <2>1
  <2>. QED  BY <1>0, <1>2, <1>3, <2>2
<1>4. CASE x > IntMax
  <2>1. m <= y /\ y - m <= 54 /\ y - m \in Nat
    BY <1>0, <1>4
  <2>2. y % m = y - m
    <3>. HIDE DEF y, m
    <3>1. y - m < m
      BY <1>1
    <3>2. y % m = (y - m) % m
      BY <1>1, <2>1
    <3>3. (y - m) % m = y - m
      BY <1>1, <2>1, <3>1
    <3>. QED  BY <3>2, <3>3
  <2>. HIDE DEF y, m
  <2>3. PICK r \in 0 .. 54 : r = y % m
    BY <2>1, <2>2
  <2>. QED  BY <1>0, <1>2, <1>4, <2>3
<1>. QED  BY <1>0, <1>3, <1>4

\* A block that myrealloc moves is smaller than the one it moves to.
LEMMA MovesToLarger ==
    ASSUME NEW size \in Nat, 8 * size <= IntMax + 55, NEW bytes \in Nat, 8 * Asize(bytes) <= IntMax,
           ToInt(8 * size) < ToInt(8 * Asize(bytes)), ToInt(8 * size) \in 0 .. StackBytes
    PROVE  size < Asize(Grown(bytes))
<1>1. IntMax \in Nat /\ StackBytes \in Nat
  BY LayoutAssumption, StackAssumption
<1>2. Asize(bytes) \in Nat /\ Asize(bytes) <= Asize(Grown(bytes)) /\ Asize(Grown(bytes)) \in Nat
  <2>1. bytes <= (3 * bytes) \div 2 /\ (3 * bytes) \div 2 \in Nat
    OBVIOUS
  <2>2. \A x, y \in Nat : x <= y => (x + 7) \div 8 <= (y + 7) \div 8
    OBVIOUS
  <2>3. \A x \in Nat : (x + 7) \div 8 \in Nat
    OBVIOUS
  <2>4. (bytes + 7) \div 8 <= (((3 * bytes) \div 2) + 7) \div 8
    BY <2>1, <2>2
  <2>5. (bytes + 7) \div 8 \in Nat /\ (((3 * bytes) \div 2) + 7) \div 8 \in Nat
    BY <2>1, <2>3
  <2>. QED  BY <2>4, <2>5 DEF Asize, RoundUp, Grown
<1>3. PICK a \in Nat : a = Asize(bytes)
  BY <1>2
<1>4. ToInt(8 * a) = 8 * a
  <2>1. 8 * a \in Nat /\ 8 * a <= IntMax
    BY <1>3
  <2>. QED  BY <1>1, <2>1, IntNear
<1>5. ToInt(8 * size) = 8 * size
  <2>1. 8 * size \in Nat
    OBVIOUS
  <2>2. ToInt(8 * size) = 8 * size \/ ToInt(8 * size) < 0
    BY <2>1, IntNear
  <2>. QED  BY <1>1, <2>2
<1>6. 8 * size < 8 * a
  BY <1>3, <1>4, <1>5
<1>. QED  BY <1>2, <1>3, <1>6

\* The first n words at p are those of the buffer.
Written(h, p, buffer, n) == \A i \in 0 .. (n - 1) : h.mem[p + i] = buffer[i]

\* memcpy into a block that is large enough.
LEMMA CopyTells ==
    ASSUME NEW h, NEW B, Tells(h, B), H!GoodHeap(View(h, B)), NEW b \in B, b.alloc,
           NEW n \in Nat, n <= b.size, NEW buffer \in [0 .. (n - 1) -> Nat]
    PROVE  LET g == Copy(h, b.at + 1, buffer, n)
           IN  /\ Tells(g, B) /\ View(g, B) = View(h, B)
               /\ OnlyIn(h, g, {b})
               /\ Written(g, b.at + 1, buffer, n)
<1>. DEFINE mem == [w \in Words |-> IF w \in (b.at + 1) .. (b.at + 1 + n - 1)
                                    THEN buffer[w - (b.at + 1)] ELSE h.mem[w]]
<1>1. h.mem \in [Words -> Nat] /\ b.at \in Nat /\ b.size \in Nat
  BY TellsRow DEF Tells, WordHeap
<1>2. Copy(h, b.at + 1, buffer, n) = [h EXCEPT !.mem = mem]
  BY DEF Copy
<1>3. ASSUME NEW w \in Words
      PROVE  /\ mem[w] \in Nat
             /\ mem[w] = h.mem[w] \/ (b.at < w /\ w <= b.at + b.size)
  <2>0. w \in Nat
    BY WordsRange
  <2>1. CASE w \in (b.at + 1) .. (b.at + 1 + n - 1)
    <3>1. w - (b.at + 1) \in 0 .. (n - 1) /\ b.at < w /\ w <= b.at + b.size
      BY <1>1, <2>0, <2>1
    <3>2. mem[w] = buffer[w - (b.at + 1)]
      BY <2>1
    <3>. QED  BY <3>1, <3>2
  <2>2. CASE w \notin (b.at + 1) .. (b.at + 1 + n - 1)
    <3>1. mem[w] = h.mem[w]
      BY <2>2
    <3>. QED  BY <1>1, <3>1
  <2>. QED  BY <2>1, <2>2
<1>4. mem \in [Words -> Nat]
  <2>1. mem = [w \in Words |-> mem[w]]
    OBVIOUS
  <2>. HIDE DEF mem
  <2>. QED  BY <1>3, <2>1
<1>5. \A i \in 0 .. (n - 1) : mem[(b.at + 1) + i] = buffer[i]
  <2>. SUFFICES ASSUME NEW i \in 0 .. (n - 1) PROVE mem[(b.at + 1) + i] = buffer[i]
    OBVIOUS
  <2>1. /\ (b.at + 1) + i \in (b.at + 1) .. (b.at + 1 + n - 1)
        /\ ((b.at + 1) + i) - (b.at + 1) = i
    BY <1>1
  <2>2. (b.at + 1) + i \in Words
    <3>1. Stop(b) <= NumWords /\ Stop(b) = b.at + b.size + 2
      BY TellsRow
    <3>2. (b.at + 1) + i < NumWords /\ (b.at + 1) + i \in Nat
      BY <1>1, <3>1, WordsRange
    <3>. QED  BY <3>2, WordsRange
  <2>. QED  BY <2>1, <2>2
<1>. HIDE DEF mem
<1>6. Tells([h EXCEPT !.mem = mem], B) /\ View([h EXCEPT !.mem = mem], B) = View(h, B)
  BY <1>3, <1>4, WriteTells
<1>7. Copy(h, b.at + 1, buffer, n).mem = mem
  BY <1>2 DEF Tells, WordHeap
<1>8. OnlyIn(h, Copy(h, b.at + 1, buffer, n), {b})
  <2>. SUFFICES ASSUME NEW w \in Words, w < b.at \/ Stop(b) <= w PROVE mem[w] = h.mem[w]
    BY <1>7 DEF OnlyIn, Apart
  <2>1. ~(b.at < w /\ w <= b.at + b.size)
    BY <1>1, WordsRange DEF Stop
  <2>. QED  BY <1>3, <2>1
<1>9. Written(Copy(h, b.at + 1, buffer, n), b.at + 1, buffer, n)
  BY <1>5, <1>7 DEF Written
<1>. QED  BY <1>2, <1>6, <1>8, <1>9

\* The parts of an outcome of mymalloc.
LEMMA MallocOutcome ==
    ASSUME NEW h, NEW bytes \in Nat, NEW o \in MyMalloc(h, bytes)
    PROVE  o = Outcome(o.heap, o.ptr, o.fate)
<1>. DEFINE asize == Asize(bytes)
            fit == FindFit(h, asize)
            after(g) == IF g.fate = "up" THEN Placed(g.heap, FindFit(g.heap, asize), asize)
                        ELSE [g EXCEPT !.fate = IF @ = "full" THEN "up" ELSE @]
<1>1. \A k, p : Placed(k, p, asize) = Outcome(Placed(k, p, asize).heap, Placed(k, p, asize).ptr,
                                              Placed(k, p, asize).fate)
  BY DEF Placed, Outcome
<1>2. ASSUME NEW g \in AddPage(h, asize)
      PROVE  after(g) = Outcome(after(g).heap, after(g).ptr, after(g).fate)
  <2>1. \E k, fate : g = Outcome(k, NULL, fate)
    BY DEF AddPage
  <2>2. PICK k, fate : g = Outcome(k, NULL, fate)
    BY <2>1
  <2>3. CASE g.fate = "up"
    BY <1>1, <2>3
  <2>4. CASE g.fate # "up"
    <3>1. after(g) = Outcome(k, NULL, IF fate = "full" THEN "up" ELSE fate)
      BY <2>2, <2>4 DEF Outcome
    <3>. HIDE DEF after
    <3>. QED  BY <3>1 DEF Outcome
  <2>. QED  BY <2>3, <2>4
<1>3. \/ o = Outcome(h, NULL, "up")
      \/ o = Placed(h, fit, asize)
      \/ \E g \in AddPage(h, asize) : o = after(g)
  BY DEF MyMalloc
<1>. HIDE DEF after, asize, fit
<1>4. CASE o = Outcome(h, NULL, "up")
  BY <1>4 DEF Outcome
<1>. QED  BY <1>1, <1>2, <1>3, <1>4

\* What myrealloc does with the outcome of mymalloc, in words and of blocks.
Recopied(g, buffer, size) ==
    IF g.fate = "up" /\ g.ptr = NULL THEN [g EXCEPT !.fate = "null_copy"]
    ELSE IF g.fate = "up" THEN [g EXCEPT !.heap = Copy(@, g.ptr, buffer, size)]
    ELSE g

Uncopied(w) == IF w.fate = "up" /\ w.ptr = H!NULL THEN [w EXCEPT !.fate = "null_copy"] ELSE w

\* myrealloc after myfree: o is what became of g, the outcome of mymalloc.
LEMMA MovedTells ==
    ASSUME NEW h, NEW B, Tells(h, B), H!GoodHeap(View(h, B)), H!Backing(View(h, B)),
           NEW bytes \in Nat, NEW size \in Nat, size < Asize(Grown(bytes)),
           NEW buffer \in [0 .. (size - 1) -> Nat], NEW g \in MyMalloc(h, Grown(bytes)),
           NEW o, o = Recopied(g, buffer, size)
    PROVE  /\ \E C : /\ Tells(o.heap, C)
                     /\ \E w \in H!MyMalloc(View(h, B), Grown(bytes), bytes) :
                          H!Outcome(View(o.heap, C), o.ptr, o.fate) = Uncopied(w)
           /\ Keeps(h, o.heap, Held(B))
           /\ o.fate = "up" => Written(o.heap, o.ptr, buffer, size)
<1>. DEFINE a == View(h, B)
<1>0. /\ Grown(bytes) \in Nat /\ Asize(Grown(bytes)) \in Nat /\ H!NULL = NULL
      /\ H!Asize(Grown(bytes)) = Asize(Grown(bytes))
  BY AsizeWords, SameArithmetic
<1>1. PICK C : Tells(g.heap, C) /\ H!Outcome(View(g.heap, C), g.ptr, g.fate) \in H!MyMalloc(a, Grown(bytes), bytes)
  <2>1. Shown(g, H!MyMalloc(a, Grown(bytes), bytes))
    BY <1>0, MallocTells
  <2>. QED  BY <2>1 DEF Shown
<1>2. Keeps(h, g.heap, Held(B))
  BY <1>0, MallocTells
<1>3. g = Outcome(g.heap, g.ptr, g.fate)
  BY <1>0, MallocOutcome
<1>. DEFINE w == H!Outcome(View(g.heap, C), g.ptr, g.fate)
<1>4. /\ w \in H!MyMalloc(a, Grown(bytes), bytes)
      /\ w.heap = View(g.heap, C) /\ w.ptr = g.ptr /\ w.fate = g.fate /\ w.heap.blocks = C
      /\ w = Outcome(w.heap, w.ptr, w.fate)
  BY <1>1, OutcomeParts, ViewFields
<1>. HIDE DEF w
<1>5. H!GoodHeap(a) /\ H!Backing(a) /\ a.blocks = B
  BY ViewFields
<1>. HIDE DEF a
<1>6. /\ H!GoodOutcome(w)
      /\ \/ H!NoBlock(a.blocks, w)
         \/ H!NewBlock(a.blocks, w, Asize(Grown(bytes)), bytes)
  BY <1>0, <1>4, <1>5, BlockMalloc
<1>7. H!GoodHeap(View(g.heap, C))
  BY <1>4, <1>6 DEF H!GoodOutcome
<1>. SUFFICES /\ \E D : Tells(o.heap, D) /\ H!Outcome(View(o.heap, D), o.ptr, o.fate) = Uncopied(w)
              /\ Keeps(h, o.heap, Held(B))
              /\ o.fate = "up" => Written(o.heap, o.ptr, buffer, size)
  BY <1>4 DEF a
<1>8. CASE g.fate = "up" /\ g.ptr = NULL
  <2>1. o = [g EXCEPT !.fate = "null_copy"]
    BY <1>8 DEF Recopied
  <2>2. o.heap = g.heap /\ o.ptr = g.ptr /\ o.fate = "null_copy"
    BY <1>3, <2>1 DEF Outcome
  <2>3. Uncopied(w) = H!Outcome(View(g.heap, C), g.ptr, "null_copy")
    BY <1>0, <1>4, <1>8 DEF Outcome, H!Outcome, Uncopied
  <2>. QED  BY <1>1, <1>2, <2>2, <2>3
<1>9. CASE g.fate # "up"
  <2>1. o = g /\ Uncopied(w) = w
    BY <1>4, <1>9 DEF Recopied, Uncopied
  <2>. QED  BY <1>1, <1>9, <1>2, <2>1 DEF w
<1>10. CASE g.fate = "up" /\ g.ptr # NULL
  <2>1. o = [g EXCEPT !.heap = Copy(@, g.ptr, buffer, size)]
    BY <1>10 DEF Recopied
  <2>. DEFINE k == Copy(g.heap, g.ptr, buffer, size)
  <2>2. o.heap = k /\ o.ptr = g.ptr /\ o.fate = g.fate
    BY <1>3, <2>1 DEF Outcome
  <2>3. PICK n \in C : /\ n.alloc /\ Asize(Grown(bytes)) <= n.size /\ g.ptr = n.at + 1 /\ n \notin B
                       /\ \A c \in H!Block : c.alloc => (c \in C <=> c \in B \/ c = n)
    <3>1. H!NewBlock(a.blocks, w, Asize(Grown(bytes)), bytes)
      BY <1>0, <1>4, <1>6, <1>10 DEF H!NoBlock
    <3>. QED  BY <1>4, <1>5, <3>1 DEF H!NewBlock, H!Payload
  <2>4. size <= n.size
    <3>1. n.size \in Nat
      BY <1>1, <1>7, TellsRow
    <3>. QED  BY <1>0, <2>3, <3>1
  <2>5. /\ Tells(k, C) /\ View(k, C) = View(g.heap, C) /\ OnlyIn(g.heap, k, {n})
        /\ Written(k, g.ptr, buffer, size)
    <3>1. PICK x : x = g.heap
      OBVIOUS
    <3>2. /\ Tells(x, C) /\ H!GoodHeap(View(x, C)) /\ n \in C /\ n.alloc
          /\ size \in Nat /\ size <= n.size /\ buffer \in [0 .. (size - 1) -> Nat]
      BY <1>1, <1>7, <2>3, <2>4, <3>1
    <3>3. /\ Tells(Copy(x, n.at + 1, buffer, size), C)
          /\ View(Copy(x, n.at + 1, buffer, size), C) = View(x, C)
      BY <3>2, CopyTells
    <3>4. OnlyIn(x, Copy(x, n.at + 1, buffer, size), {n})
      BY <3>2, CopyTells
    <3>5. Written(Copy(x, n.at + 1, buffer, size), n.at + 1, buffer, size)
      BY <3>2, CopyTells
    <3>. QED  BY <2>3, <3>1, <3>3, <3>4, <3>5
  <2>6. Uncopied(w) = w
    BY <1>0, <1>4, <1>10 DEF Uncopied
  <2>. HIDE DEF k
  <2>7. Keeps(g.heap, k, Held(B))
    <3>. DEFINE D == {c \in B : c.alloc}
    <3>1. B \in SUBSET H!Block /\ C \in SUBSET H!Block
      BY <1>1, TellsBlocks
    <3>2. D \in SUBSET C /\ {n} \in SUBSET C /\ n \notin D /\ Held(D) = Held(B)
      BY <2>3, <3>1 DEF Held
    <3>. HIDE DEF D
    <3>3. \A c, d \in C : c = d \/ Clear(c, d)
      <4>1. Rests(g.heap, C, LoOf(g.heap), HiOf(g.heap))
        BY <1>1, <1>7, TellsRow
      <4>. QED  BY <4>1, RowFits DEF Rests, Rep, Edges
    <3>4. \A x \in Held(D) : x \in Words /\ Apart(x, {n})
      BY <3>1, <3>2, <3>3, HeldApart
    <3>. QED  BY <2>5, <3>2, <3>4 DEF Keeps, OnlyIn
  <2>8. Keeps(h, k, Held(B))
    BY <1>2, <2>7 DEF Keeps
  <2>. QED  BY <2>2, <2>5, <2>6, <2>8 DEF w
<1>. QED  BY <1>8, <1>9, <1>10

\* myrealloc of a block, to a size that fits an int.
LEMMA ReallocTells ==
    ASSUME NEW h, NEW B, Tells(h, B), H!GoodHeap(View(h, B)), H!Backing(View(h, B)), H!NearInt(B),
           NEW b \in B, b.alloc, NEW bytes \in Nat, 8 * Asize(bytes) <= IntMax,
           NEW o \in MyRealloc(h, b.at + 1, bytes)
    PROVE  /\ Shown(o, H!MyRealloc(View(h, B), b, bytes))
           /\ Keeps(h, o.heap, Held(B \ {b}))
           /\ o.fate = "up" /\ o.ptr # NULL =>
                \A i \in 0 .. (b.size - 1) : o.heap.mem[o.ptr + i] = h.mem[(b.at + 1) + i]
<1>. DEFINE a == View(h, B)
            p == b.at + 1
            asize == ToInt(8 * Asize(bytes))
            oldsize == ToInt(8 * b.size)
            buffer == [i \in 0 .. (b.size - 1) |-> GET(h, p + i)]
            freed == MyFree(h, p)
<1>1. /\ b \in H!Block /\ b.at \in Nat /\ b.size \in Nat /\ GET_SIZE(h, b.at) = b.size
      /\ Stop(b) <= NumWords /\ Stop(b) = b.at + b.size + 2
  BY TellsRow
<1>2. /\ p # NULL /\ p - 1 = b.at
  BY <1>1 DEF NULL
<1>3. /\ H!ToInt(8 * H!Asize(bytes)) = asize /\ H!ToInt(8 * b.size) = oldsize /\ H!NULL = NULL
      /\ H!Grown(bytes) = Grown(bytes) /\ H!Payload(b) = p
  BY SameArithmetic DEF H!Payload
<1>4. a.blocks = B /\ \A C : [a EXCEPT !.blocks = C] = View(h, C)
  BY ViewFields
<1>5. CASE bytes = 0
  <2>1. o = Outcome(h, NULL, "up")
    BY <1>5 DEF MyRealloc
  <2>2. H!Outcome(a, NULL, "up") \in H!MyRealloc(a, b, bytes)
    <3>. HIDE DEF a
    <3>. QED  BY <1>3, <1>5 DEF H!MyRealloc
  <2>. QED  BY <2>1, <2>2, OutcomeParts DEF Shown, Keeps
<1>6. CASE bytes # 0 /\ oldsize >= asize
  <2>1. o = Outcome(h, p, "up")
    <3>. HIDE DEF p, asize
    <3>1. GET_SIZE(h, p - 1) = b.size
      BY <1>1, <1>2
    <3>. QED  BY <1>2, <1>6, <3>1 DEF MyRealloc, asize, p
  <2>. DEFINE C == (B \ {b}) \cup {[b EXCEPT !.want = bytes]}
  <2>2. H!Outcome(View(h, C), p, "up") \in H!MyRealloc(a, b, bytes)
    <3>1. H!Outcome([a EXCEPT !.blocks = (@ \ {b}) \cup {[b EXCEPT !.want = bytes]}], H!Payload(b), "up")
            \in H!MyRealloc(a, b, bytes)
      <4>. HIDE DEF a, asize, oldsize
      <4>. QED  BY <1>3, <1>6 DEF H!MyRealloc
    <3>2. [a EXCEPT !.blocks = (@ \ {b}) \cup {[b EXCEPT !.want = bytes]}] = View(h, C)
      BY <1>4
    <3>. HIDE DEF a, C
    <3>. QED  BY <1>3, <3>1, <3>2
  <2>3. Tells(h, C)
    BY KeepTells
  <2>. HIDE DEF C
  <2>. QED  BY <2>1, <2>2, <2>3, OutcomeParts DEF Shown, Keeps
<1>7. CASE bytes # 0 /\ ~(oldsize >= asize) /\ oldsize \notin 0 .. StackBytes
  <2>1. o = Outcome(h, NULL, "stack")
    <3>. HIDE DEF p, asize
    <3>1. GET_SIZE(h, p - 1) = b.size
      BY <1>1, <1>2
    <3>. QED  BY <1>2, <1>7, <3>1 DEF MyRealloc, asize, p
  <2>2. H!Outcome(a, NULL, "stack") \in H!MyRealloc(a, b, bytes)
    <3>. HIDE DEF a, asize, oldsize
    <3>. QED  BY <1>3, <1>7 DEF H!MyRealloc
  <2>. QED  BY <2>1, <2>2, OutcomeParts DEF Shown, Keeps
<1>8. CASE bytes # 0 /\ ~(oldsize >= asize) /\ oldsize \in 0 .. StackBytes
  <2>1. asize \in Int /\ oldsize \in Int /\ oldsize < asize
    <3>1. IntMax \in Nat /\ StackBytes \in Nat /\ Asize(bytes) \in Nat
      BY LayoutAssumption, StackAssumption, AsizeWords
    <3>2. asize = 8 * Asize(bytes)
      <4>1. 8 * Asize(bytes) \in Nat
        BY <3>1
      <4>. QED  BY <3>1, <4>1, IntNear
    <3>. HIDE DEF oldsize, asize
    <3>. QED  BY <1>8, <3>1, <3>2
  <2>2. PICK g \in MyMalloc(freed, Grown(bytes)) : o = Recopied(g, buffer, b.size)
    <3>. DEFINE size == GET_SIZE(h, p - 1)
                buf == [i \in 0 .. (size - 1) |-> GET(h, p + i)]
                n == IF ToInt(8 * size) < asize THEN size ELSE Asize(bytes)
    <3>1. size = b.size
      BY <1>1, <1>2
    <3>2. ToInt(8 * size) = oldsize /\ buf = buffer
      <4>. HIDE DEF size, p
      <4>. QED  BY <3>1
    <3>3. n = b.size
      <4>. HIDE DEF size, asize, oldsize
      <4>. QED  BY <2>1, <3>1, <3>2
    <3>4. o \in {Recopied(g, buf, n) : g \in MyMalloc(freed, Grown(bytes))}
      <4>1. ~(ToInt(8 * size) >= asize) /\ ToInt(8 * size) \in 0 .. StackBytes
        <5>. HIDE DEF size, asize, oldsize
        <5>. QED  BY <1>8, <3>2
      <4>. QED  BY <1>2, <1>8, <4>1 DEF MyRealloc, Recopied
    <3>5. PICK g \in MyMalloc(freed, Grown(bytes)) : o = Recopied(g, buf, n)
      BY <3>4
    <3>6. Recopied(g, buf, n) = Recopied(g, buffer, b.size)
      <4>. HIDE DEF buf, n, buffer
      <4>. QED  BY <3>2, <3>3
    <3>. QED  BY <3>5, <3>6
  <2>. DEFINE C == H!Released(B, b)
  <2>3. Tells(freed, C) /\ View(freed, C) = H!MyFree(a, b) /\ Keeps(h, freed, Held(B \ {b}))
    BY FreeTells
  <2>4. H!GoodHeap(H!MyFree(a, b)) /\ H!Backing(H!MyFree(a, b))
    <3>1. H!GoodHeap(a) /\ H!Backing(a)
      OBVIOUS
    <3>. HIDE DEF a
    <3>. QED  BY <1>4, <3>1, BlockFree
  <2>5. b.size < Asize(Grown(bytes))
    <3>1. 8 * b.size <= IntMax + 55
      BY DEF H!NearInt
    <3>. QED  BY <1>1, <1>8, <2>1, <3>1, MovesToLarger
  <2>6. buffer \in [0 .. (b.size - 1) -> Nat]
    <3>1. h.mem \in [Words -> Nat]
      BY DEF Tells, WordHeap
    <3>2. ASSUME NEW i \in 0 .. (b.size - 1) PROVE p + i \in Words
      <4>1. p + i \in Nat /\ p + i < NumWords
        BY <1>1, WordsRange
      <4>. QED  BY <4>1, WordsRange
    <3>. QED  BY <3>1, <3>2 DEF GET
  <2>9. Held(C) = Held(B \ {b})
    <3>1. \A c \in H!Block : c.alloc => (c \in C <=> c \in B /\ c # b)
      <4>1. H!GoodHeap(a) /\ H!Backing(a) /\ H!MyFree(a, b).blocks = C
        BY <2>3, ViewFields
      <4>. HIDE DEF a, C
      <4>. QED  BY <1>4, <4>1, BlockFree
    <3>2. C \in SUBSET H!Block /\ B \ {b} \in SUBSET H!Block
      <4>1. B \in SUBSET H!Block
        BY TellsBlocks
      <4>. HIDE DEF C
      <4>. QED  BY <2>3, <4>1, TellsBlocks
    <3>3. H!SameLive(C, B \ {b})
      BY <3>1 DEF H!SameLive
    <3>. HIDE DEF C
    <3>. QED  BY <3>2, <3>3, HeldSame
  <2>10. \A i \in 0 .. (b.size - 1) : buffer[i] = h.mem[p + i]
    BY DEF GET
  <2>. HIDE DEF C, buffer, freed, p
  <2>11. /\ Keeps(freed, o.heap, Held(C))
         /\ o.fate = "up" => Written(o.heap, o.ptr, buffer, b.size)
    <3>1. H!GoodHeap(View(freed, C)) /\ H!Backing(View(freed, C)) /\ Tells(freed, C)
      BY <2>3, <2>4
    <3>2. o = Recopied(g, buffer, b.size) /\ b.size \in Nat
      BY <1>1, <2>2
    <3>. QED  BY <2>5, <2>6, <3>1, <3>2, MovedTells
  <2>7. PICK D : /\ Tells(o.heap, D)
                 /\ \E w \in H!MyMalloc(View(freed, C), Grown(bytes), bytes) :
                       H!Outcome(View(o.heap, D), o.ptr, o.fate) = Uncopied(w)
    <3>1. H!GoodHeap(View(freed, C)) /\ H!Backing(View(freed, C)) /\ Tells(freed, C)
      BY <2>3, <2>4
    <3>2. o = Recopied(g, buffer, b.size) /\ b.size \in Nat
      BY <1>1, <2>2
    <3>. QED  BY <2>5, <2>6, <3>1, <3>2, MovedTells
  <2>8. \A w \in H!MyMalloc(H!MyFree(a, b), Grown(bytes), bytes) : Uncopied(w) \in H!MyRealloc(a, b, bytes)
    <3>. HIDE DEF a, asize, oldsize
    <3>. QED  BY <1>3, <1>8 DEF H!MyRealloc, Uncopied
  <2>12. Keeps(h, o.heap, Held(B \ {b}))
    BY <2>3, <2>9, <2>11 DEF Keeps
  <2>. HIDE DEF a
  <2>. QED  BY <2>3, <2>7, <2>8, <2>10, <2>11, <2>12 DEF Shown, Written, a, p
<1>. QED  BY <1>5, <1>6, <1>7, <1>8

-----------------------------------------------------------------------------
(***************************************************************************)
(* The abstraction: walking from header to header, with what the client    *)
(* remembers, gives the blocks back.                                       *)
(***************************************************************************)
\* The client holds exactly the allocated blocks, and knows what it asked.
Holds(held, B) == held = {Region(b.at + 1, b.want) : b \in {c \in B : c.alloc}}

\* The headers right of those in s, and the first.
Rightward(h, s) == {LoOf(h)} \cup {p \in {RIGHT_BLK(h, q) : q \in s} : p < HiOf(h)}

\* The headers met after 0, 1, 2 ... steps.
Headers(h, S, seen) ==
    /\ seen[0] = {LoOf(h)}
    /\ \A n \in 0 .. NumWords : seen[n] \in S
    /\ \A n \in 1 .. NumWords : seen[n] = Rightward(h, seen[n - 1])

LEMMA HeaderSteps ==
    ASSUME NEW h, NEW held, h.pages # 0, NEW S, {LoOf(h)} \in S, \A s \in S : Rightward(h, s) \in S
    PROVE  \E seen : /\ Headers(h, S, seen)
                     /\ BlocksIn(h, held) = {BlockAt(h, held, p) : p \in seen[NumWords]}
<1>. DEFINE lo == LoOf(h)
            hi == HiOf(h)
            Step(f) == [n \in 0 .. NumWords |->
                          {lo} \cup (IF n = 0 THEN {}
                                     ELSE {p \in {RIGHT_BLK(h, q) : q \in f[n - 1]} : p < hi})]
            seen == CHOOSE f : f = Step(f)
            D == [n \in 1 .. NumWords |-> [s \in S |-> Rightward(h, s)]]
<1>1. BlocksIn(h, held) = {BlockAt(h, held, p) : p \in seen[NumWords]}
  BY DEF BlocksIn, LoOf, HiOf, ProWords, EpiWords
<1>2. NumWords \in Nat
  BY WordsRange
<1>3. PICK g \in [0 .. NumWords -> S] : Iterates(g, NumWords, {lo}, D)
  <2>1. D \in [1 .. NumWords -> [S -> S]] /\ {lo} \in S
    OBVIOUS
  <2>. HIDE DEF D, lo
  <2>. QED  BY <1>2, <2>1, RecursionExists
<1>4. ASSUME NEW f, NEW n \in 0 .. NumWords
      PROVE  Step(f)[n] = IF n = 0 THEN {lo} ELSE Rightward(h, f[n - 1])
  BY DEF Rightward
<1>5. g = Step(g)
  <2>1. ASSUME NEW n \in 0 .. NumWords
        PROVE  g[n] = IF n = 0 THEN {lo} ELSE Rightward(h, g[n - 1])
    <3>1. g[n] = IF n = 0 THEN {lo} ELSE D[n][g[n - 1]]
      <4>. HIDE DEF D, lo
      <4>. QED  BY <1>3 DEF Iterates
    <3>2. ASSUME n # 0 PROVE n \in 1 .. NumWords /\ n - 1 \in 0 .. NumWords
      BY <1>2, <3>2
    <3>3. ASSUME n # 0 PROVE D[n][g[n - 1]] = Rightward(h, g[n - 1])
      BY <3>2, <3>3
    <3>. HIDE DEF D, lo
    <3>. QED  BY <3>1, <3>3
  <2>2. \A n \in 0 .. NumWords : g[n] = Step(g)[n]
    <3>. HIDE DEF Step
    <3>. QED  BY <1>4, <2>1
  <2>3. Step(g) = [n \in 0 .. NumWords |-> Step(g)[n]]
    OBVIOUS
  <2>. HIDE DEF Step
  <2>. QED  BY <2>2, <2>3
<1>6. seen = Step(seen)
  <2>. HIDE DEF Step
  <2>. QED  BY <1>5
<1>. HIDE DEF seen, Step
<1>7. \A n \in 0 .. NumWords : seen[n] = IF n = 0 THEN {lo} ELSE Rightward(h, seen[n - 1])
  <2>. SUFFICES ASSUME NEW n \in 0 .. NumWords
                PROVE  seen[n] = IF n = 0 THEN {lo} ELSE Rightward(h, seen[n - 1])
    OBVIOUS
  <2>1. Step(seen)[n] = IF n = 0 THEN {lo} ELSE Rightward(h, seen[n - 1])
    BY <1>4
  <2>. QED  BY <1>6, <2>1
<1>. DEFINE T == {n \in Nat : n <= NumWords => seen[n] \in S}
<1>8. 0 \in T
  <2>1. 0 \in 0 .. NumWords /\ {lo} \in S
    BY <1>2
  <2>. HIDE DEF lo
  <2>2. seen[0] = {lo}
    BY <1>7, <2>1
  <2>. QED  BY <2>1, <2>2
<1>9. ASSUME NEW n \in Nat, n \in T
      PROVE  n + 1 \in T
  <2>. SUFFICES ASSUME n + 1 <= NumWords PROVE seen[n + 1] \in S
    OBVIOUS
  <2>1. n + 1 \in 0 .. NumWords /\ n + 1 # 0 /\ (n + 1) - 1 = n /\ n <= NumWords
    BY <1>2
  <2>2. seen[n + 1] = Rightward(h, seen[n])
    BY <1>7, <2>1
  <2>. QED  BY <1>9, <2>1, <2>2
<1>10. Nat \subseteq T
  <2>. HIDE DEF T
  <2>. QED  BY <1>8, <1>9, InductionOnNat
<1>11. \A n \in 0 .. NumWords : seen[n] \in S
  BY <1>2, <1>10
<1>12. \A n \in 1 .. NumWords : seen[n] = Rightward(h, seen[n - 1])
  <2>1. \A n \in 1 .. NumWords : n \in 0 .. NumWords /\ n # 0
    BY <1>2
  <2>. QED  BY <1>7, <2>1
<1>13. seen[0] = {lo}
  BY <1>2, <1>7
<1>. QED  BY <1>1, <1>11, <1>12, <1>13 DEF Headers

\* Every block of the row is met, and nothing else.
LEMMA WalkMeets ==
    ASSUME NEW h, NEW B, Tells(h, B), H!GoodHeap(View(h, B)), NEW held
    PROVE  BlocksIn(h, held) = {BlockAt(h, held, b.at) : b \in B}
<1>1. CASE h.pages = 0
  BY <1>1 DEF Tells, BlocksIn
<1>2. CASE h.pages # 0
  <2>. DEFINE lo == LoOf(h)
              hi == HiOf(h)
  <2>1. /\ B \in SUBSET H!Block /\ lo \in Nat /\ 2 <= lo /\ hi \in Nat /\ hi \in Words
        /\ Rep(h, B, Frees(B), Edges(lo, hi)) /\ H!Row(B, lo, hi)
    BY <1>2 DEF Tells, Rests, Rep, Edges
  <2>2. B # {}
    <3>1. View(h, B).pages = h.pages /\ View(h, B).blocks = B
      BY ViewFields
    <3>. QED  BY <1>2, <3>1 DEF H!GoodHeap, H!Settled
  <2>3. \E b \in B : b.at = lo
    BY <2>1, <2>2 DEF H!Row, H!Gapless
  <2>4. NumWords \in Nat /\ hi < NumWords
    BY <2>1, WordsRange
  <2>5. ASSUME NEW b \in B
        PROVE  /\ b.at \in Nat /\ b.size \in Nat /\ Stop(b) = b.at + b.size + 2
               /\ lo <= b.at /\ Stop(b) <= hi /\ RIGHT_BLK(h, b.at) = Stop(b)
               /\ b.at = lo \/ \E c \in B : Stop(c) = b.at
               /\ Stop(b) = hi \/ \E c \in B : c.at = Stop(b)
    <3>1. RIGHT_BLK(h, b.at) = Stop(b)
      BY <2>1, ReadTags
    <3>2. b.at \in Nat /\ b.size \in Nat
      BY <2>1, BlockParts
    <3>. HIDE DEF lo, hi
    <3>3. /\ lo <= b.at /\ Stop(b) <= hi
          /\ b.at = lo \/ \E c \in B : Stop(c) = b.at
          /\ Stop(b) = hi \/ \E c \in B : c.at = Stop(b)
      BY <2>1, RowFits
    <3>. QED  BY <3>1, <3>2, <3>3 DEF Stop
  <2>. HIDE DEF lo, hi
  <2>6. ASSUME NEW s \in SUBSET At(B)
        PROVE  Rightward(h, s) \in SUBSET At(B)
    <3>. SUFFICES ASSUME NEW p \in Rightward(h, s) PROVE p \in At(B)
      OBVIOUS
    <3>1. CASE p = lo
      BY <2>3, <3>1 DEF At
    <3>2. ASSUME NEW q \in s, p = RIGHT_BLK(h, q), p < hi
          PROVE  p \in At(B)
      <4>1. PICK b \in B : b.at = q
        BY DEF At
      <4>2. p = Stop(b) /\ p # hi
        BY <2>1, <2>5, <3>2, <4>1
      <4>3. PICK c \in B : c.at = Stop(b)
        BY <2>5, <4>2
      <4>. QED  BY <4>2, <4>3 DEF At
    <3>. QED  BY <3>1, <3>2 DEF Rightward, lo, hi
  <2>7. {lo} \in SUBSET At(B)
    BY <2>3 DEF At
  <2>8. PICK seen : /\ Headers(h, SUBSET At(B), seen)
                    /\ BlocksIn(h, held) = {BlockAt(h, held, p) : p \in seen[NumWords]}
    BY <1>2, <2>6, <2>7, HeaderSteps DEF lo
  <2>. DEFINE T == {n \in Nat : n <= NumWords => \A b \in B : b.at - lo <= n => b.at \in seen[n]}
  <2>9. 0 \in T
    <3>. SUFFICES ASSUME NEW b \in B, b.at - lo <= 0 PROVE b.at \in seen[0]
      OBVIOUS
    <3>1. b.at = lo
      BY <2>1, <2>5
    <3>. QED  BY <2>8, <3>1 DEF Headers, lo
  <2>10. ASSUME NEW n \in Nat, n \in T
         PROVE  n + 1 \in T
    <3>. SUFFICES ASSUME n + 1 <= NumWords, NEW b \in B, b.at - lo <= n + 1 PROVE b.at \in seen[n + 1]
      OBVIOUS
    <3>1. seen[n + 1] = Rightward(h, seen[n])
      <4>1. n + 1 \in 1 .. NumWords /\ (n + 1) - 1 = n
        BY <2>4
      <4>. QED  BY <2>8, <4>1 DEF Headers
    <3>2. CASE b.at = lo
      BY <3>1, <3>2 DEF Rightward, lo
    <3>3. CASE b.at # lo
      <4>1. PICK c \in B : Stop(c) = b.at
        BY <2>5, <3>3
      <4>2. c.at - lo <= n /\ n <= NumWords
        BY <2>1, <2>4, <2>5, <4>1
      <4>3. c.at \in seen[n]
        BY <2>10, <4>2
      <4>4. RIGHT_BLK(h, c.at) = b.at
        BY <2>5, <4>1
      <4>5. b.at < hi
        BY <2>1, <2>5
      <4>. QED  BY <3>1, <4>3, <4>4, <4>5 DEF Rightward, hi
    <3>. QED  BY <3>2, <3>3
  <2>11. Nat \subseteq T
    <3>. HIDE DEF T
    <3>. QED  BY <2>9, <2>10, InductionOnNat
  <2>12. \A b \in B : b.at \in seen[NumWords]
    <3>. SUFFICES ASSUME NEW b \in B PROVE b.at \in seen[NumWords]
      OBVIOUS
    <3>1. b.at - lo <= NumWords
      BY <2>1, <2>4, <2>5
    <3>. QED  BY <2>4, <2>11, <3>1
  <2>13. seen[NumWords] \in SUBSET At(B)
    <3>1. NumWords \in 0 .. NumWords
      BY <2>4
    <3>. QED  BY <2>8, <3>1 DEF Headers
  <2>14. seen[NumWords] = At(B)
    BY <2>12, <2>13 DEF At
  <2>. QED  BY <2>8, <2>14 DEF At
<1>. QED  BY <1>1, <1>2

\* A block is what its header and the client tell.
LEMMA BlockTold ==
    ASSUME NEW h, NEW B, Tells(h, B), H!GoodHeap(View(h, B)), NEW held, Holds(held, B), NEW b \in B
    PROVE  BlockAt(h, held, b.at) = b
<1>1. /\ h.pages # 0 /\ Rests(h, B, LoOf(h), HiOf(h)) /\ b \in H!Block /\ b.at \in Nat
      /\ GET_SIZE(h, b.at) = b.size
  BY TellsRow
<1>2. /\ B \in SUBSET H!Block /\ LoOf(h) \in Nat /\ 2 <= LoOf(h) /\ HiOf(h) \in Nat /\ HiOf(h) \in Words
      /\ Rep(h, B, Frees(B), Edges(LoOf(h), HiOf(h))) /\ H!Row(B, LoOf(h), HiOf(h))
  BY <1>1 DEF Rests, Rep, Edges
<1>3. GET_ALLOC(h, b.at) = Bit(b)
  BY <1>2, ReadTags
<1>4. (GET_ALLOC(h, b.at) = 1) = b.alloc
  <2>1. b.alloc \in BOOLEAN
    BY <1>1, BlockParts
  <2>. QED  BY <1>3, <2>1 DEF Bit
<1>. DEFINE want == {r.want : r \in {s \in held : s.ptr = b.at + 1}}
<1>5. ASSUME b.alloc PROVE want = {b.want}
  <2>1. Region(b.at + 1, b.want) \in held
    BY <1>5 DEF Holds
  <2>2. ASSUME NEW r \in held, r.ptr = b.at + 1
        PROVE  r.want = b.want
    <3>1. PICK c \in B : c.alloc /\ r = Region(c.at + 1, c.want)
      BY DEF Holds
    <3>2. c.at \in Nat
      BY <1>2, BlockParts
    <3>3. c.at = b.at
      BY <1>1, <2>2, <3>1, <3>2 DEF Region
    <3>4. c = b \/ Clear(c, b)
      BY <1>2, RowFits
    <3>5. c = b
      <4>1. c.size \in Nat /\ b.size \in Nat
        BY <1>2, BlockParts
      <4>. QED  BY <1>1, <3>2, <3>3, <3>4, <4>1 DEF Clear, Stop
    <3>. QED  BY <3>1, <3>5 DEF Region
  <2>. QED  BY <2>1, <2>2 DEF Region
<1>6. ASSUME ~b.alloc PROVE b.want = 0
  BY <1>2, <1>6 DEF Rep
<1>7. BlockAt(h, held, b.at) =
        [at |-> b.at, size |-> b.size, alloc |-> b.alloc,
         want |-> IF b.alloc /\ want # {} THEN CHOOSE n \in want : TRUE ELSE 0]
  BY <1>1, <1>4 DEF BlockAt
<1>8. (IF b.alloc /\ want # {} THEN CHOOSE n \in want : TRUE ELSE 0) = b.want
  <2>. HIDE DEF want
  <2>. QED  BY <1>5, <1>6
<1>9. b = [at |-> b.at, size |-> b.size, alloc |-> b.alloc, want |-> b.want]
  BY <1>1 DEF H!Block
<1>. QED  BY <1>7, <1>8, <1>9

\* So the abstraction gives the blocks.
LEMMA BlocksTold ==
    ASSUME NEW h, NEW B, Tells(h, B), H!GoodHeap(View(h, B)), NEW held, Holds(held, B)
    PROVE  BlocksIn(h, held) = B
<1>1. \A b \in B : BlockAt(h, held, b.at) = b
  BY BlockTold
<1>2. BlocksIn(h, held) = {BlockAt(h, held, b.at) : b \in B}
  BY WalkMeets
<1>3. {BlockAt(h, held, b.at) : b \in B} = B
  BY <1>1
<1>. QED  BY <1>2, <1>3

\* Two blocks never share a header.
LEMMA OneHeader ==
    ASSUME NEW h, NEW B, Tells(h, B), H!GoodHeap(View(h, B)), NEW b \in B, NEW c \in B, b.at = c.at
    PROVE  b = c
<1>1. h.pages # 0 /\ Rests(h, B, LoOf(h), HiOf(h))
  BY TellsRow
<1>2. /\ B \in SUBSET H!Block /\ LoOf(h) \in Nat /\ 2 <= LoOf(h) /\ HiOf(h) \in Nat /\ HiOf(h) \in Words
      /\ H!Row(B, LoOf(h), HiOf(h))
  BY <1>1 DEF Rests, Rep, Edges
<1>3. b = c \/ Clear(b, c)
  BY <1>2, RowFits
<1>4. b.at \in Nat /\ c.at \in Nat /\ b.size \in Nat /\ c.size \in Nat
  BY <1>2, BlockParts
<1>. QED  BY <1>3, <1>4 DEF Clear, Stop

-----------------------------------------------------------------------------
(***************************************************************************)
(* What the client holds, before and after a call.                         *)
(***************************************************************************)
LEMMA HoldsSame ==
    ASSUME NEW held, NEW B \in SUBSET H!Block, NEW C \in SUBSET H!Block, Holds(held, B), H!SameLive(C, B)
    PROVE  Holds(held, C)
<1>1. {c \in C : c.alloc} = {c \in B : c.alloc}
  BY DEF H!SameLive
<1>. QED  BY <1>1 DEF Holds

LEMMA HoldsMore ==
    ASSUME NEW held, NEW B \in SUBSET H!Block, NEW C \in SUBSET H!Block, Holds(held, B),
           NEW n \in H!Block, n.alloc,
           \A c \in H!Block : c.alloc => (c \in C <=> c \in B \/ c = n)
    PROVE  Holds(held \cup {Region(n.at + 1, n.want)}, C)
<1>1. {c \in C : c.alloc} = {c \in B : c.alloc} \cup {n}
  OBVIOUS
<1>. QED  BY <1>1 DEF Holds

LEMMA HoldsLess ==
    ASSUME NEW h, NEW held, NEW B \in SUBSET H!Block, NEW C \in SUBSET H!Block, Holds(held, B),
           Tells(h, B), H!GoodHeap(View(h, B)), NEW b \in B, b.alloc,
           \A c \in H!Block : c.alloc => (c \in C <=> c \in B /\ c # b)
    PROVE  Holds(held \ {Region(b.at + 1, b.want)}, C)
<1>1. {c \in C : c.alloc} = {c \in B : c.alloc} \ {b}
  OBVIOUS
<1>2. ASSUME NEW c \in B, c # b
      PROVE  Region(c.at + 1, c.want) # Region(b.at + 1, b.want)
  <2>1. c.at # b.at
    BY <1>2, OneHeader
  <2>2. c.at \in Nat /\ b.at \in Nat
    BY BlockParts
  <2>. QED  BY <2>1, <2>2 DEF Region
<1>. QED  BY <1>1, <1>2 DEF Holds

\* What the client writes stays within the block it got.
LEMMA FillTells ==
    ASSUME NEW h, NEW B, Tells(h, B), H!GoodHeap(View(h, B)), NEW b \in B, b.alloc,
           NEW bytes \in Nat, bytes <= 8 * b.size
    PROVE  /\ Tells(Fill(h, b.at + 1, bytes), B)
           /\ View(Fill(h, b.at + 1, bytes), B) = View(h, B)
<1>. DEFINE n == RoundUp(bytes)
            mem == [w \in Words |-> IF w \in (b.at + 1) .. (b.at + 1 + n - 1) THEN Data ELSE h.mem[w]]
<1>1. h.mem \in [Words -> Nat] /\ b.at \in Nat /\ b.size \in Nat /\ Data \in Nat
  BY TellsRow, ClientAssumption DEF Tells, WordHeap
<1>2. Fill(h, b.at + 1, bytes) = [h EXCEPT !.mem = mem]
  BY DEF Fill
<1>3. n \in Nat /\ n <= b.size
  <2>1. \A x, y \in Nat : x <= 8 * y => (x + 7) \div 8 <= y /\ (x + 7) \div 8 \in Nat
    OBVIOUS
  <2>. QED  BY <1>1, <2>1 DEF RoundUp
<1>. HIDE DEF n
<1>4. ASSUME NEW w \in Words
      PROVE  /\ mem[w] \in Nat
             /\ mem[w] = h.mem[w] \/ (b.at < w /\ w <= b.at + b.size)
  <2>0. w \in Nat
    BY WordsRange
  <2>1. CASE w \in (b.at + 1) .. (b.at + 1 + n - 1)
    BY <1>1, <1>3, <2>0, <2>1
  <2>2. CASE w \notin (b.at + 1) .. (b.at + 1 + n - 1)
    <3>1. mem[w] = h.mem[w]
      BY <2>2
    <3>. QED  BY <1>1, <3>1
  <2>. QED  BY <2>1, <2>2
<1>5. mem \in [Words -> Nat]
  <2>1. mem = [w \in Words |-> mem[w]]
    OBVIOUS
  <2>. HIDE DEF mem
  <2>. QED  BY <1>4, <2>1
<1>. HIDE DEF mem
<1>6. Tells([h EXCEPT !.mem = mem], B) /\ View([h EXCEPT !.mem = mem], B) = View(h, B)
  BY <1>4, <1>5, WriteTells
<1>. QED  BY <1>2, <1>6

-----------------------------------------------------------------------------
(***************************************************************************)
(* The invariant: the words tell of a settled row of blocks over open      *)
(* pages, and the client holds exactly the allocated ones.                 *)
(***************************************************************************)
Sound(h, held, s, B) ==
    /\ Tells(h, B) /\ Holds(held, B)
    /\ H!GoodHeap(View(h, B)) /\ (s = "up" => H!Backing(View(h, B)))
    /\ H!NearInt(B) /\ H!Roomy(B)

IInv == \E B : Sound(heap, live, status, B)

\* A call that ends with one of the outcomes in S, and soundly.
Reached(S) ==
    \E C : Sound(heap', live', status', C) /\ H!Outcome(View(heap', C), ret', status') \in S

\* No request is so large that the int asize of myrealloc (436) overflows.
SmallRequests == \A bytes \in Requests : 8 * Asize(bytes) <= IntMax

\* The blocks of a sound heap.
LEMMA SoundBlocks ==
    ASSUME NEW h, NEW held, NEW s, NEW B, Sound(h, held, s, B)
    PROVE  /\ BlocksIn(h, held) = B /\ B \in SUBSET H!Block
           /\ View(h, B).blocks = B
<1>1. BlocksIn(h, held) = B
  BY BlocksTold DEF Sound
<1>2. View(h, B).blocks = B
  BY ViewFields
<1>3. B \in SUBSET H!Block
  <2>1. View(h, B) \in H!Heaps
    BY DEF Sound, H!GoodHeap
  <2>. QED  BY <1>2, <2>1 DEF H!Heaps
<1>. QED  BY <1>1, <1>2, <1>3

\* The client takes what a sound outcome of mymalloc or myrealloc gives it.
LEMMA ReceiveReached ==
    ASSUME NEW S, NEW o, NEW given, NEW bytes \in Nat, Receive(o, given, bytes), NEW C,
           Tells(o.heap, C), H!NearInt(C), H!Roomy(C),
           NEW w \in S, w = H!Outcome(View(o.heap, C), o.ptr, o.fate), H!GoodOutcome(w),
           \/ o.ptr = NULL /\ Holds(live \ given, C)
           \/ /\ o.ptr # NULL /\ Holds((live \ given) \cup {Region(o.ptr, bytes)}, C)
              /\ \E n \in C : n.alloc /\ o.ptr = n.at + 1 /\ n.want = bytes
    PROVE  Reached(S)
<1>1. /\ w.heap = View(o.heap, C) /\ w.fate = o.fate
      /\ H!GoodHeap(View(o.heap, C))
      /\ o.fate = "up" => H!Backing(View(o.heap, C))
  <2>1. w.heap = View(o.heap, C) /\ w.fate = o.fate
    BY OutcomeParts
  <2>. QED  BY <2>1 DEF H!GoodOutcome
<1>2. ret' = o.ptr /\ status' = o.fate
  BY DEF Receive
<1>3. CASE o.ptr = NULL
  <2>1. heap' = o.heap /\ live' = live \ given
    BY <1>3 DEF Receive
  <2>2. Sound(heap', live', status', C)
    BY <1>1, <1>2, <1>3, <2>1 DEF Sound
  <2>. QED  BY <1>2, <2>1, <2>2 DEF Reached
<1>4. CASE o.ptr # NULL
  <2>1. heap' = Fill(o.heap, o.ptr, bytes) /\ live' = (live \ given) \cup {Region(o.ptr, bytes)}
    BY <1>4 DEF Receive
  <2>2. PICK n \in C : n.alloc /\ o.ptr = n.at + 1 /\ n.want = bytes
    BY <1>4
  <2>3. bytes <= 8 * n.size
    BY <2>2 DEF H!Roomy
  <2>4. Tells(heap', C) /\ View(heap', C) = View(o.heap, C)
    BY <1>1, <2>1, <2>2, <2>3, FillTells
  <2>5. Sound(heap', live', status', C)
    BY <1>1, <1>2, <1>4, <2>1, <2>4 DEF Sound
  <2>. QED  BY <1>2, <2>4, <2>5 DEF Reached
<1>. QED  BY <1>3, <1>4

\* mymalloc, and myrealloc of NULL.
LEMMA MallocReached ==
    ASSUME NEW B, Sound(heap, live, "up", B), NEW bytes \in Nat,
           NEW o \in MyMalloc(heap, bytes), Receive(o, {}, bytes)
    PROVE  Reached(H!MyMalloc(View(heap, B), bytes, bytes))
<1>. DEFINE a == View(heap, B)
            S == H!MyMalloc(a, bytes, bytes)
<1>1. /\ Tells(heap, B) /\ Holds(live, B) /\ H!GoodHeap(a) /\ H!Backing(a)
      /\ H!NearInt(B) /\ H!Roomy(B) /\ a.blocks = B /\ B \in SUBSET H!Block
  BY SoundBlocks DEF Sound
<1>2. PICK C : Tells(o.heap, C) /\ H!Outcome(View(o.heap, C), o.ptr, o.fate) \in S
  BY <1>1, MallocTells DEF Shown
<1>. DEFINE w == H!Outcome(View(o.heap, C), o.ptr, o.fate)
<1>3. w \in S /\ w.heap = View(o.heap, C) /\ w.heap.blocks = C /\ w.ptr = o.ptr
  BY <1>2, OutcomeParts, ViewFields
<1>. HIDE DEF w, a, S
<1>4. /\ H!GoodOutcome(w)
      /\ \/ H!NoBlock(a.blocks, w)
         \/ H!NewBlock(a.blocks, w, H!Asize(bytes), bytes)
      /\ H!NearInt(C) /\ H!Roomy(C)
  <2>1. w \in H!MyMalloc(a, bytes, bytes)
    BY <1>3 DEF S
  <2>2. H!NearInt(a.blocks) /\ H!Roomy(a.blocks)
    BY <1>1
  <2>3. /\ H!GoodOutcome(w)
        /\ \/ H!NoBlock(a.blocks, w) /\ w.fate \in {"up", "hole"}
           \/ H!NewBlock(a.blocks, w, H!Asize(bytes), bytes) /\ bytes # 0 /\ bytes <= IntMax
        /\ H!NearInt(a.blocks) => H!NearInt(w.heap.blocks)
        /\ bytes = bytes /\ H!Roomy(a.blocks) => H!Roomy(w.heap.blocks)
    BY <1>1, <2>1, BlockMalloc
  <2>. QED  BY <1>3, <2>2, <2>3
<1>5. C \in SUBSET H!Block
  BY <1>3, <1>4 DEF H!GoodOutcome, H!GoodHeap, H!Heaps
<1>6. CASE H!NoBlock(a.blocks, w)
  <2>1. o.ptr = NULL /\ Holds(live \ {}, C)
    BY <1>1, <1>3, <1>5, <1>6, HoldsSame, SameArithmetic DEF H!NoBlock
  <2>. QED  BY <1>2, <1>3, <1>4, <2>1, ReceiveReached DEF w, S, a
<1>7. CASE H!NewBlock(a.blocks, w, H!Asize(bytes), bytes)
  <2>1. PICK n \in H!Block :
          /\ n.alloc /\ n.want = bytes /\ o.ptr = n.at + 1
          /\ \A c \in H!Block : c.alloc => (c \in C <=> c \in B \/ c = n)
    BY <1>1, <1>3, <1>7 DEF H!NewBlock, H!Payload
  <2>2. Holds((live \ {}) \cup {Region(o.ptr, bytes)}, C)
    BY <1>1, <1>5, <2>1, HoldsMore
  <2>3. n \in C /\ o.ptr # NULL
    BY <2>1, BlockParts DEF NULL
  <2>. QED  BY <1>2, <1>3, <1>4, <2>1, <2>2, <2>3, ReceiveReached DEF w, S, a
<1>. QED  BY <1>4, <1>6, <1>7

\* myrealloc of a block the client holds.
LEMMA ReallocReached ==
    ASSUME NEW B, Sound(heap, live, "up", B), NEW b \in B, b.alloc,
           NEW bytes \in Nat, 8 * Asize(bytes) <= IntMax, NEW o \in MyRealloc(heap, b.at + 1, bytes),
           Receive(o, IF bytes = 0 \/ o.fate = "stack" THEN {} ELSE {Region(b.at + 1, b.want)}, bytes)
    PROVE  Reached(H!MyRealloc(View(heap, B), b, bytes))
<1>. DEFINE a == View(heap, B)
            S == H!MyRealloc(a, b, bytes)
            F == H!MyFree(a, b).blocks
            old == Region(b.at + 1, b.want)
            given == IF bytes = 0 \/ o.fate = "stack" THEN {} ELSE {old}
<1>1. /\ Tells(heap, B) /\ Holds(live, B) /\ H!GoodHeap(a) /\ H!Backing(a)
      /\ H!NearInt(B) /\ H!Roomy(B) /\ a.blocks = B /\ B \in SUBSET H!Block
  BY SoundBlocks DEF Sound
<1>2. PICK C : Tells(o.heap, C) /\ H!Outcome(View(o.heap, C), o.ptr, o.fate) \in S
  BY <1>1, ReallocTells DEF Shown
<1>. DEFINE w == H!Outcome(View(o.heap, C), o.ptr, o.fate)
<1>3. w \in S /\ w.heap = View(o.heap, C) /\ w.heap.blocks = C /\ w.ptr = o.ptr /\ w.fate = o.fate
  BY <1>2, OutcomeParts, ViewFields
<1>. HIDE DEF w, a, S
<1>4. /\ H!GoodOutcome(w)
      /\ \/ H!NoBlock(B, w) /\ (bytes = 0 \/ w.fate = "stack")
         \/ H!Kept(B, w, b, bytes) /\ bytes # 0
         \/ H!NoBlock(F, w) /\ bytes # 0 /\ w.fate \in {"hole", "null_copy"}
         \/ H!NewBlock(F, w, H!Asize(H!Grown(bytes)), bytes) /\ bytes # 0
      /\ H!NearInt(C) /\ H!Roomy(C)
  <2>1. w \in H!MyRealloc(a, b, bytes) /\ b \in a.blocks
    BY <1>1, <1>3 DEF S
  <2>2. H!NearInt(a.blocks) /\ H!Roomy(a.blocks) /\ 8 * H!Asize(bytes) <= IntMax
    BY <1>1, SameArithmetic
  <2>3. /\ H!GoodOutcome(w)
        /\ \/ H!NoBlock(a.blocks, w) /\ (bytes = 0 \/ w.fate = "stack")
           \/ /\ H!Kept(a.blocks, w, b, bytes) /\ bytes # 0
              /\ 8 * H!Asize(bytes) <= IntMax => bytes <= 8 * b.size
           \/ /\ H!NoBlock(H!MyFree(a, b).blocks, w) /\ bytes # 0
              /\ w.fate \in {"hole", "null_copy"}
           \/ /\ H!NewBlock(H!MyFree(a, b).blocks, w, H!Asize(H!Grown(bytes)), bytes)
              /\ H!Grown(bytes) <= IntMax /\ bytes # 0
        /\ H!NearInt(a.blocks) => H!NearInt(w.heap.blocks)
        /\ H!Roomy(a.blocks) => H!Roomy(w.heap.blocks)
    BY <1>1, <2>1, <2>2, BlockRealloc
  <2>. QED  BY <1>1, <1>3, <2>2, <2>3
<1>5. C \in SUBSET H!Block
  BY <1>3, <1>4 DEF H!GoodOutcome, H!GoodHeap, H!Heaps
<1>6. /\ F \in SUBSET H!Block
      /\ \A c \in H!Block : c.alloc => (c \in F <=> c \in B /\ c # b)
  <2>1. /\ H!GoodHeap(H!MyFree(a, b))
        /\ \A c \in H!Block : c.alloc => (c \in H!MyFree(a, b).blocks <=> c \in a.blocks /\ c # b)
    BY <1>1, BlockFree
  <2>. QED  BY <1>1, <2>1 DEF H!GoodHeap, H!Heaps
<1>. HIDE DEF F
<1>7. Holds(live \ {old}, F)
  BY <1>1, <1>6, HoldsLess DEF a
<1>. HIDE DEF old
<1>8. SUFFICES \/ o.ptr = NULL /\ Holds(live \ given, C)
               \/ /\ o.ptr # NULL /\ Holds((live \ given) \cup {Region(o.ptr, bytes)}, C)
                  /\ \E n \in C : n.alloc /\ o.ptr = n.at + 1 /\ n.want = bytes
  <2>1. Receive(o, given, bytes)
    BY DEF old
  <2>2. w = H!Outcome(View(o.heap, C), o.ptr, o.fate)
    BY DEF w
  <2>. HIDE DEF given
  <2>3. Reached(S)
    BY <1>2, <1>3, <1>4, <1>8, <2>1, <2>2, ReceiveReached
  <2>. QED  BY <2>3 DEF S, a
<1>9. CASE H!NoBlock(B, w) /\ (bytes = 0 \/ w.fate = "stack")
  <2>1. given = {}
    BY <1>3, <1>9
  <2>. QED  BY <1>1, <1>3, <1>5, <1>9, <2>1, HoldsSame, SameArithmetic DEF H!NoBlock
<1>10. CASE H!NoBlock(F, w) /\ bytes # 0 /\ w.fate \in {"hole", "null_copy"}
  <2>1. given = {old}
    BY <1>3, <1>10
  <2>. QED  BY <1>3, <1>5, <1>6, <1>7, <1>10, <2>1, HoldsSame, SameArithmetic DEF H!NoBlock
<1>11. CASE H!Kept(B, w, b, bytes) /\ bytes # 0
  <2>1. given = {old}
    BY <1>3, <1>11 DEF H!Kept
  <2>. DEFINE n == [b EXCEPT !.want = bytes]
  <2>2. n \in H!Block /\ n.alloc /\ n.want = bytes /\ n.at = b.at
    BY <1>1 DEF H!Block
  <2>3. /\ \A c \in H!Block : c.alloc => (c \in C <=> (c \in B /\ c # b) \/ c = n)
        /\ o.ptr = b.at + 1
    BY <1>3, <1>11 DEF H!Kept, H!Payload
  <2>. HIDE DEF n
  <2>4. \A c \in H!Block : c.alloc => (c \in C <=> c \in F \/ c = n)
    BY <1>6, <2>3
  <2>5. Holds((live \ {old}) \cup {Region(n.at + 1, n.want)}, C)
    BY <1>5, <1>6, <1>7, <2>2, <2>4, HoldsMore
  <2>6. n \in C /\ o.ptr # NULL /\ o.ptr = n.at + 1
    BY <2>2, <2>3, BlockParts DEF NULL
  <2>. QED  BY <2>1, <2>2, <2>5, <2>6
<1>12. CASE H!NewBlock(F, w, H!Asize(H!Grown(bytes)), bytes) /\ bytes # 0
  <2>1. given = {old}
    BY <1>3, <1>12 DEF H!NewBlock
  <2>2. PICK n \in H!Block :
          /\ n.alloc /\ n.want = bytes /\ o.ptr = n.at + 1
          /\ \A c \in H!Block : c.alloc => (c \in C <=> c \in F \/ c = n)
    BY <1>3, <1>12 DEF H!NewBlock, H!Payload
  <2>3. Holds((live \ {old}) \cup {Region(o.ptr, bytes)}, C)
    BY <1>5, <1>6, <1>7, <2>2, HoldsMore
  <2>4. n \in C /\ o.ptr # NULL
    BY <2>2, BlockParts DEF NULL
  <2>. QED  BY <2>1, <2>2, <2>3, <2>4
<1>. QED  BY <1>4, <1>9, <1>10, <1>11, <1>12

\* myfree of a block the client holds.
LEMMA FreeReached ==
    ASSUME NEW B, Sound(heap, live, "up", B), NEW b \in B, b.alloc,
           Take(Outcome(MyFree(heap, b.at + 1), NULL, "up")), live' = live \ {Region(b.at + 1, b.want)}
    PROVE  Reached({H!Outcome(H!MyFree(View(heap, B), b), NULL, "up")})
<1>. DEFINE a == View(heap, B)
            C == H!Released(B, b)
<1>1. /\ Tells(heap, B) /\ Holds(live, B) /\ H!GoodHeap(a) /\ H!Backing(a)
      /\ H!NearInt(B) /\ H!Roomy(B) /\ a.blocks = B /\ B \in SUBSET H!Block
  BY SoundBlocks DEF Sound
<1>2. heap' = MyFree(heap, b.at + 1) /\ ret' = NULL /\ status' = "up"
  BY OutcomeParts DEF Take
<1>3. Tells(heap', C) /\ View(heap', C) = H!MyFree(a, b)
  <2>1. /\ Tells(MyFree(heap, b.at + 1), C)
        /\ View(MyFree(heap, b.at + 1), C) = H!MyFree(a, b)
    <3>1. Tells(heap, B) /\ H!GoodHeap(View(heap, B)) /\ b \in B /\ b.alloc
      BY <1>1
    <3>. QED  BY <3>1, FreeTells
  <2>. HIDE DEF C, a
  <2>. QED  BY <1>2, <2>1
<1>4. View(heap', C).blocks = C
  BY ViewFields
<1>. HIDE DEF C, a
<1>5. /\ H!GoodHeap(H!MyFree(a, b)) /\ H!Backing(H!MyFree(a, b))
      /\ \A c \in H!Block : c.alloc => (c \in H!MyFree(a, b).blocks <=> c \in a.blocks /\ c # b)
      /\ H!NearInt(a.blocks) => H!NearInt(H!MyFree(a, b).blocks)
      /\ H!Roomy(a.blocks) => H!Roomy(H!MyFree(a, b).blocks)
  BY <1>1, BlockFree
<1>6. /\ H!NearInt(C) /\ H!Roomy(C) /\ C \in SUBSET H!Block
      /\ \A c \in H!Block : c.alloc => (c \in C <=> c \in B /\ c # b)
  BY <1>1, <1>3, <1>4, <1>5 DEF H!GoodHeap, H!Heaps
<1>7. Holds(live', C)
  BY <1>1, <1>6, HoldsLess DEF a
<1>8. Sound(heap', live', status', C)
  BY <1>2, <1>3, <1>5, <1>6, <1>7 DEF Sound
<1>9. H!Outcome(View(heap', C), ret', status') \in {H!Outcome(H!MyFree(a, b), NULL, "up")}
  BY <1>2, <1>3
<1>. QED  BY <1>8, <1>9 DEF Reached, a

\* myfree of NULL.
LEMMA FreeNullReached ==
    ASSUME NEW B, Sound(heap, live, "up", B), Take(Outcome(MyFree(heap, NULL), NULL, "up")), live' = live
    PROVE  Reached({H!Outcome(View(heap, B), NULL, "up")})
<1>1. heap' = heap /\ ret' = NULL /\ status' = "up"
  BY OutcomeParts DEF Take, MyFree
<1>2. Sound(heap', live', status', B)
  BY <1>1
<1>. QED  BY <1>1, <1>2 DEF Reached

\* myinit, which forgets all the client held, or nothing.
LEMMA InitReached ==
    ASSUME NEW B, NEW s, Sound(heap, live, s, B), NEW o \in MyInit(heap), Take(o),
           live' = IF status' = "up" THEN {} ELSE live
    PROVE  Reached(H!MyInit(View(heap, B)))
<1>. DEFINE a == View(heap, B)
            S == H!MyInit(a)
<1>1. /\ Tells(heap, B) /\ Holds(live, B) /\ H!GoodHeap(a)
      /\ H!NearInt(B) /\ H!Roomy(B) /\ a.blocks = B
  BY SoundBlocks DEF Sound
<1>2. PICK C : Tells(o.heap, C) /\ H!Outcome(View(o.heap, C), o.ptr, o.fate) \in S
  BY <1>1, InitTells DEF Shown
<1>. DEFINE w == H!Outcome(View(o.heap, C), o.ptr, o.fate)
<1>3. w \in S /\ w.heap = View(o.heap, C) /\ w.heap.blocks = C /\ w.ptr = o.ptr /\ w.fate = o.fate
  BY <1>2, OutcomeParts, ViewFields
<1>. HIDE DEF w, a, S
<1>4. /\ H!GoodOutcome(w)
      /\ w.fate = "up" => w.heap.blocks = {}
      /\ w.fate # "up" => w.heap.blocks = a.blocks
  BY <1>1, <1>3, BlockInit DEF S
<1>5. H!NearInt(C) /\ H!Roomy(C) /\ Holds(live', C)
  <2>1. CASE o.fate = "up"
    BY <1>3, <1>4, <2>1 DEF Take, H!NearInt, H!Roomy, Holds
  <2>2. CASE o.fate # "up"
    BY <1>1, <1>3, <1>4, <2>2 DEF Take
  <2>. QED  BY <2>1, <2>2
<1>6. Sound(heap', live', status', C)
  BY <1>2, <1>3, <1>4, <1>5 DEF Sound, Take, H!GoodOutcome
<1>7. H!Outcome(View(heap', C), ret', status') \in S
  BY <1>2 DEF Take
<1>. QED  BY <1>6, <1>7 DEF Reached, S, a

\* What the mapping shows of a sound heap.
LEMMA AbstractHeap ==
    ASSUME NEW B, Sound(heap, live, status, B)
    PROVE  [seg |-> heap.seg, base |-> heap.base, pages |-> heap.pages, blocks |-> Blocks] = View(heap, B)
BY SoundBlocks DEF Blocks, View

\* A call that reaches one of S takes it, as the mapping shows the heap.
LEMMA ReachedTakes ==
    ASSUME NEW S, Reached(S)
    PROVE  IInv' /\ \E o \in S : H!Take(o)
<1>1. PICK C : Sound(heap', live', status', C) /\ H!Outcome(View(heap', C), ret', status') \in S
  BY DEF Reached
<1>2. IInv'
  BY <1>1 DEF IInv
<1>. DEFINE o == H!Outcome(View(heap', C), ret', status')
<1>3. [seg |-> heap'.seg, base |-> heap'.base, pages |-> heap'.pages, blocks |-> Blocks'] = View(heap', C)
  <2>1. BlocksIn(heap', live') = C
    BY <1>1, SoundBlocks
  <2>. QED  BY <2>1 DEF Blocks, View
<1>4. o.heap = View(heap', C) /\ o.ptr = ret' /\ o.fate = status'
  BY OutcomeParts
<1>5. H!Take(o)
  BY <1>3, <1>4 DEF H!Take
<1>. QED  BY <1>1, <1>2, <1>5

\* Initially.
LEMMA InitImplements == Init => IInv /\ H!Init
<1>. SUFFICES ASSUME Init PROVE IInv /\ H!Init
  OBVIOUS
<1>1. heap = EmptyHeap /\ live = {} /\ ret = NULL /\ status = "uninit"
  BY DEF Init
<1>2. NoSegment \in Segments /\ EmptyHeap = [EmptyHeap EXCEPT !.seg = NoSegment]
  BY DEF NoSegment, Segments, EmptyHeap
<1>3. Tells(heap, {}) /\ View(heap, {}) = [H!EmptyHeap EXCEPT !.seg = NoSegment]
  BY <1>1, <1>2, EmptyTells
<1>4. View(heap, {}) = H!EmptyHeap
  BY <1>3, SameArithmetic DEF H!EmptyHeap
<1>5. H!GoodHeap(H!EmptyHeap)
  BY <1>2, SameArithmetic DEF H!GoodHeap, H!Heaps, H!EmptyHeap
<1>6. Sound(heap, live, status, {})
  BY <1>1, <1>3, <1>4, <1>5 DEF Sound, Holds, H!NearInt, H!Roomy
<1>7. [seg |-> heap.seg, base |-> heap.base, pages |-> heap.pages, blocks |-> Blocks] = H!EmptyHeap
  BY <1>4, <1>6, AbstractHeap
<1>. QED  BY <1>1, <1>6, <1>7, SameArithmetic DEF IInv, H!Init

\* Every call keeps the invariant and is a step of BlockHeapSpec.
LEMMA NextImplements ==
    ASSUME SmallRequests, IInv, [Next]_vars
    PROVE  IInv' /\ [H!Next]_(H!vars)
<1>0. Requests \subseteq Nat /\ \A bytes \in Requests : 8 * Asize(bytes) <= IntMax
  BY ClientAssumption DEF SmallRequests
<1>1. PICK B : Sound(heap, live, status, B)
  BY DEF IInv
<1>. DEFINE a == View(heap, B)
<1>2. [seg |-> heap.seg, base |-> heap.base, pages |-> heap.pages, blocks |-> Blocks] = a
  BY <1>1, AbstractHeap
<1>3. Holds(live, B) /\ a.blocks = B
  BY <1>1, SoundBlocks DEF Sound
<1>4. H!Live = {b \in B : b.alloc}
  BY <1>2, <1>3 DEF H!Live
<1>. HIDE DEF a
<1>5. CASE Initialize
  <2>1. PICK o \in MyInit(heap) : Take(o)
    BY <1>5 DEF Initialize
  <2>2. Reached(H!MyInit(a))
    BY <1>1, <1>5, <2>1, InitReached DEF Initialize, a
  <2>3. IInv' /\ \E w \in H!MyInit(a) : H!Take(w)
    BY <2>2, ReachedTakes
  <2>. QED  BY <1>2, <1>5, <2>3 DEF Initialize, H!Initialize, H!Next
<1>6. ASSUME NEW bytes \in Requests, Malloc(bytes) \/ ReallocNull(bytes)
      PROVE  IInv' /\ H!Next
  <2>1. PICK o \in MyMalloc(heap, bytes) : Receive(o, {}, bytes)
    <3>1. CASE Malloc(bytes)
      BY <3>1 DEF Malloc
    <3>2. CASE ReallocNull(bytes)
      <4>1. PICK o \in MyRealloc(heap, NULL, bytes) : Receive(o, {}, bytes)
        BY <3>2 DEF ReallocNull
      <4>2. CASE bytes = 0
        BY <4>1, <4>2 DEF MyRealloc, MyMalloc
      <4>3. CASE bytes # 0
        BY <4>1, <4>3 DEF MyRealloc
      <4>. QED  BY <4>2, <4>3
    <3>. QED  BY <1>6, <3>1, <3>2
  <2>2. status = "up" /\ Sound(heap, live, "up", B)
    BY <1>1, <1>6 DEF Malloc, ReallocNull
  <2>3. Reached(H!MyMalloc(a, bytes, bytes))
    BY <1>0, <2>1, <2>2, MallocReached DEF a
  <2>4. IInv' /\ \E w \in H!MyMalloc(a, bytes, bytes) : H!Take(w)
    BY <2>3, ReachedTakes
  <2>. QED  BY <1>2, <2>2, <2>4 DEF H!Malloc, H!Next
<1>7. CASE FreeNull
  <2>1. status = "up" /\ Sound(heap, live, "up", B)
    BY <1>1, <1>7 DEF FreeNull
  <2>2. Reached({H!Outcome(a, NULL, "up")})
    BY <1>7, <2>1, FreeNullReached DEF FreeNull, a
  <2>3. IInv' /\ H!Take(H!Outcome(a, NULL, "up"))
    BY <2>2, ReachedTakes
  <2>. QED  BY <1>2, <2>1, <2>3, SameArithmetic DEF H!FreeNull, H!Next
<1>8. ASSUME NEW r \in live, Free(r)
      PROVE  IInv' /\ H!Next
  <2>1. PICK b \in B : b.alloc /\ r = Region(b.at + 1, b.want)
    BY <1>3 DEF Holds
  <2>2. r.ptr = b.at + 1
    BY <2>1 DEF Region
  <2>3. status = "up" /\ Sound(heap, live, "up", B)
    BY <1>1, <1>8 DEF Free
  <2>4. Reached({H!Outcome(H!MyFree(a, b), NULL, "up")})
    BY <1>8, <2>1, <2>2, <2>3, FreeReached DEF Free, a
  <2>5. IInv' /\ H!Take(H!Outcome(H!MyFree(a, b), NULL, "up"))
    BY <2>4, ReachedTakes
  <2>. QED  BY <1>2, <1>4, <2>1, <2>3, <2>5, SameArithmetic DEF H!Free, H!Next
<1>9. ASSUME NEW r \in live, NEW bytes \in Requests, Realloc(r, bytes)
      PROVE  IInv' /\ H!Next
  <2>1. PICK b \in B : b.alloc /\ r = Region(b.at + 1, b.want)
    BY <1>3 DEF Holds
  <2>2. r.ptr = b.at + 1
    BY <2>1 DEF Region
  <2>3. status = "up" /\ Sound(heap, live, "up", B)
    BY <1>1, <1>9 DEF Realloc
  <2>4. PICK o \in MyRealloc(heap, b.at + 1, bytes) :
          Receive(o, IF bytes = 0 \/ o.fate = "stack" THEN {} ELSE {Region(b.at + 1, b.want)}, bytes)
    BY <1>9, <2>1, <2>2 DEF Realloc
  <2>5. Reached(H!MyRealloc(a, b, bytes))
    BY <1>0, <2>1, <2>3, <2>4, ReallocReached DEF a
  <2>6. IInv' /\ \E w \in H!MyRealloc(a, b, bytes) : H!Take(w)
    BY <2>5, ReachedTakes
  <2>. QED  BY <1>2, <1>4, <2>1, <2>3, <2>6 DEF H!Realloc, H!Next
<1>10. CASE UNCHANGED vars
  BY <1>10 DEF vars, IInv, Sound, Blocks, H!vars
<1>. QED  BY <1>5, <1>6, <1>7, <1>8, <1>9, <1>10 DEF Next

-----------------------------------------------------------------------------
(***************************************************************************)
(* The theorems.                                                           *)
(***************************************************************************)
\* The mapping of AllocatorSpec and the theorems about BlockHeapSpec speak of
\* the same operations.
LEMMA SameMerge ==
    ASSUME NEW D, NEW b
    PROVE  Abstract!InsertNode(D, b) = H!InsertNode(D, b)
<1>1. \A C : Abstract!LeftFree(C, b) = H!LeftFree(C, b) /\ Abstract!RightFree(C, b) = H!RightFree(C, b)
  BY DEF Abstract!LeftFree, Abstract!RightFree, H!LeftFree, H!RightFree, Abstract!EndOf, H!EndOf,
         Abstract!TagWords, H!TagWords
<1>2. \A c : Abstract!EndOf(c) = H!EndOf(c)
  BY DEF Abstract!EndOf, H!EndOf, Abstract!TagWords, H!TagWords
<1>3. ASSUME NEW C
      PROVE  Abstract!MergeStart(C, b) = H!MergeStart(C, b) /\ Abstract!MergeEnd(C, b) = H!MergeEnd(C, b)
  <2>1. PICK left, right : /\ left = H!LeftFree(C, b) /\ left = Abstract!LeftFree(C, b)
                           /\ right = H!RightFree(C, b) /\ right = Abstract!RightFree(C, b)
    BY <1>1
  <2>. QED  BY <1>2, <2>1 DEF Abstract!MergeStart, H!MergeStart, Abstract!MergeEnd, H!MergeEnd
<1>4. \A C : Abstract!Merged(C, b) = H!Merged(C, b)
  BY <1>1 DEF Abstract!Merged, H!Merged
<1>5. \A C : Abstract!Coalesce(C, b) = H!Coalesce(C, b)
  BY <1>3, <1>4 DEF Abstract!Coalesce, H!Coalesce, Abstract!FreeBlock, H!FreeBlock,
                    Abstract!TagWords, H!TagWords
<1>. QED  BY <1>5 DEF Abstract!InsertNode, H!InsertNode

LEMMA SamePlace ==
    ASSUME NEW D, NEW b, NEW asize, NEW want
    PROVE  /\ Abstract!Place(D, b, asize, want) = H!Place(D, b, asize, want)
           /\ Abstract!Fits(D, asize) = H!Fits(D, asize)
           /\ Abstract!FindFit(D, asize) = H!FindFit(D, asize)
           /\ Abstract!Payload(b) = H!Payload(b)
<1>1. \A C, c : Abstract!InsertNode(C, c) = H!InsertNode(C, c)
  BY SameMerge
<1>2. \A c : Abstract!EndOf(c) = H!EndOf(c)
  BY DEF Abstract!EndOf, H!EndOf, Abstract!TagWords, H!TagWords
<1>3. Abstract!Place(D, b, asize, want) = H!Place(D, b, asize, want)
  BY <1>1, <1>2 DEF Abstract!Place, H!Place, Abstract!FreeBlock, H!FreeBlock, Abstract!TagWords,
                    H!TagWords, Abstract!MINBLKSZ, H!MINBLKSZ
<1>4. Abstract!Fits(D, asize) = H!Fits(D, asize)
  BY DEF Abstract!Fits, H!Fits
<1>5. \A n : Abstract!Bucket(n) = H!Bucket(n)
  BY DEF Abstract!Bucket, H!Bucket, Abstract!Cardinality, H!Cardinality
<1>6. Abstract!FindFit(D, asize) = H!FindFit(D, asize)
  BY <1>4, <1>5 DEF Abstract!FindFit, H!FindFit
<1>. QED  BY <1>3, <1>4, <1>6 DEF Abstract!Payload, H!Payload

LEMMA SameCalls ==
    ASSUME NEW a, NEW b, NEW bytes, NEW want
    PROVE  /\ Abstract!MyMalloc(a, bytes, want) = H!MyMalloc(a, bytes, want)
           /\ Abstract!MyFree(a, b) = H!MyFree(a, b)
           /\ Abstract!MyRealloc(a, b, bytes) = H!MyRealloc(a, b, bytes)
           /\ Abstract!MyInit(a) = H!MyInit(a)
           /\ Abstract!EmptyHeap = H!EmptyHeap
<1>1. \A s, n : /\ Abstract!ExtendHeapSegment(s, n) = ExtendHeapSegment(s, n)
                /\ H!ExtendHeapSegment(s, n) = ExtendHeapSegment(s, n)
                /\ H!InitHeapSegment(s, n) = InitHeapSegment(s, n)
  <2>1. \A s, n : Abstract!ExtendHeapSegment(s, n) = ExtendHeapSegment(s, n)
    BY DEF Abstract!ExtendHeapSegment, ExtendHeapSegment, Abstract!Exceeds, Exceeds,
           Abstract!Extended, Extended, Abstract!SegOutcome, SegOutcome, Abstract!Opened, Opened,
           Abstract!Enlarged, Enlarged, Abstract!NoPage, NoPage, Abstract!Mprotects, Mprotects,
           Abstract!Reserved, Reserved
  <2>. QED  BY <2>1, SameArithmetic
<1>2. \A s, n : Abstract!InitHeapSegment(s, n) = InitHeapSegment(s, n)
  <2>1. \A s, n : Abstract!Mmaps(s, n) = Mmaps(s, n)
    BY <1>1 DEF Abstract!Mmaps, Mmaps, Abstract!SegOutcome, SegOutcome, Abstract!NoPage, NoPage
  <2>. QED  BY <2>1 DEF Abstract!InitHeapSegment, InitHeapSegment, Abstract!Munmaps, Munmaps,
                        Abstract!SegOutcome, SegOutcome, Abstract!NoPage, NoPage,
                        Abstract!Reserved, Reserved
<1>3. /\ \A k, n : Abstract!NumOfPage(k, n) = H!NumOfPage(k, n) /\ Abstract!BlockStart(k, n) = H!BlockStart(k, n)
      /\ \A n : /\ Abstract!Asize(n) = H!Asize(n) /\ Abstract!Grown(n) = H!Grown(n)
                /\ Abstract!ToInt(n) = H!ToInt(n)
      /\ Abstract!NULL = H!NULL /\ Abstract!NoPage = H!NoPage
      /\ Abstract!TagWords = H!TagWords /\ Abstract!EpiWords = H!EpiWords
      /\ Abstract!EmptyHeap = H!EmptyHeap
  BY DEF Abstract!NumOfPage, H!NumOfPage, Abstract!BlockStart, H!BlockStart, Abstract!ProWords, H!ProWords,
         Abstract!EpiWords, H!EpiWords, Abstract!MINBLKSZ, H!MINBLKSZ, Abstract!Asize, H!Asize,
         Abstract!RoundUp, H!RoundUp, Abstract!Grown, H!Grown, Abstract!ToInt, H!ToInt, Abstract!NULL, H!NULL,
         Abstract!NoPage, H!NoPage, Abstract!TagWords, H!TagWords, Abstract!EmptyHeap, H!EmptyHeap,
         Abstract!NoSegment, H!NoSegment
<1>4. \A h, p, f : Abstract!Outcome(h, p, f) = H!Outcome(h, p, f)
  BY DEF Abstract!Outcome, H!Outcome
<1>5. \A h, c : Abstract!MyFree(h, c) = H!MyFree(h, c)
  BY SameMerge DEF Abstract!MyFree, H!MyFree, Abstract!Released, H!Released, Abstract!FreeBlock, H!FreeBlock
<1>6. Abstract!MyInit(a) = H!MyInit(a)
  BY <1>1, <1>2, <1>3, <1>4 DEF Abstract!MyInit, H!MyInit
<1>7. \A h, o, n : Abstract!NewPages(h, o, n) = H!NewPages(h, o, n)
  BY <1>3, SameMerge DEF Abstract!NewPages, H!NewPages, Abstract!FreeBlock, H!FreeBlock
<1>8. \A h, n : Abstract!AddPage(h, n) = H!AddPage(h, n)
  BY <1>1, <1>3, <1>4, <1>7 DEF Abstract!AddPage, H!AddPage
<1>9. \A h, n, m : Abstract!PlaceFit(h, n, m) = H!PlaceFit(h, n, m)
  BY <1>4, SamePlace DEF Abstract!PlaceFit, H!PlaceFit
<1>10. ASSUME NEW h, NEW n, NEW m
       PROVE  Abstract!MyMalloc(h, n, m) = H!MyMalloc(h, n, m)
  <2>1. PICK z, A : /\ z = H!Asize(n) /\ z = Abstract!Asize(n)
                    /\ A = H!AddPage(h, z) /\ A = Abstract!AddPage(h, z)
    BY <1>3, <1>8
  <2>2. \A k, y : Abstract!Fits(k, y) = H!Fits(k, y)
    BY SamePlace
  <2>. DEFINE placed(g) == IF g.fate = "full" THEN {[g EXCEPT !.fate = "up"]}
                           ELSE IF g.fate = "hole" THEN {g}
                           ELSE IF H!Fits(g.heap.blocks, z) = {} THEN {[g EXCEPT !.fate = "null_block"]}
                           ELSE H!PlaceFit(g.heap, z, m)
              also(g) == IF g.fate = "full" THEN {[g EXCEPT !.fate = "up"]}
                         ELSE IF g.fate = "hole" THEN {g}
                         ELSE IF Abstract!Fits(g.heap.blocks, z) = {} THEN {[g EXCEPT !.fate = "null_block"]}
                         ELSE Abstract!PlaceFit(g.heap, z, m)
  <2>3. \A g : also(g) = placed(g)
    BY <1>9, <2>2
  <2>4. H!MyMalloc(h, n, m) = IF n = 0 \/ n > IntMax THEN {H!Outcome(h, H!NULL, "up")}
                              ELSE IF H!Fits(h.blocks, z) # {} THEN H!PlaceFit(h, z, m)
                              ELSE UNION {placed(g) : g \in A}
    BY <2>1 DEF H!MyMalloc
  <2>5. Abstract!MyMalloc(h, n, m) = IF n = 0 \/ n > IntMax THEN {Abstract!Outcome(h, Abstract!NULL, "up")}
                                     ELSE IF Abstract!Fits(h.blocks, z) # {} THEN Abstract!PlaceFit(h, z, m)
                                     ELSE UNION {also(g) : g \in A}
    BY <2>1 DEF Abstract!MyMalloc
  <2>6. {also(g) : g \in A} = {placed(g) : g \in A}
    <3>. HIDE DEF also, placed
    <3>. QED  BY <2>3
  <2>. HIDE DEF also, placed
  <2>7. /\ H!Outcome(h, H!NULL, "up") = Abstract!Outcome(h, Abstract!NULL, "up")
        /\ H!Fits(h.blocks, z) = Abstract!Fits(h.blocks, z)
        /\ H!PlaceFit(h, z, m) = Abstract!PlaceFit(h, z, m)
    BY <1>3, <1>4, <1>9, <2>2
  <2>8. CASE n = 0 \/ n > IntMax
    BY <2>4, <2>5, <2>7, <2>8
  <2>9. CASE ~(n = 0 \/ n > IntMax) /\ H!Fits(h.blocks, z) # {}
    BY <2>4, <2>5, <2>7, <2>9
  <2>10. CASE ~(n = 0 \/ n > IntMax) /\ H!Fits(h.blocks, z) = {}
    <3>1. H!MyMalloc(h, n, m) = UNION {placed(g) : g \in A}
      BY <2>4, <2>10
    <3>2. Abstract!MyMalloc(h, n, m) = UNION {also(g) : g \in A}
      BY <2>5, <2>7, <2>10
    <3>. QED  BY <2>6, <3>1, <3>2
  <2>. QED  BY <2>8, <2>9, <2>10
<1>11. Abstract!MyRealloc(a, b, bytes) = H!MyRealloc(a, b, bytes)
  BY <1>3, <1>4, <1>5, <1>10, SamePlace DEF Abstract!MyRealloc, H!MyRealloc
<1>. QED  BY <1>3, <1>5, <1>6, <1>10, <1>11

\* The invariant gives what the runs check of the words and the lists.
LEMMA InvTells == IInv => TagsAgree /\ ListsExact /\ HeldIffAllocated
<1>. SUFFICES ASSUME IInv PROVE TagsAgree /\ ListsExact /\ HeldIffAllocated
  OBVIOUS
<1>1. PICK B : Sound(heap, live, status, B)
  BY DEF IInv
<1>2. /\ Blocks = B /\ B \in SUBSET H!Block /\ Tells(heap, B) /\ H!GoodHeap(View(heap, B))
      /\ Holds(live, B)
  <2>1. BlocksIn(heap, live) = B /\ B \in SUBSET H!Block
    BY <1>1, SoundBlocks
  <2>. QED  BY <1>1, <2>1 DEF Sound, Blocks
<1>3. TagsAgree
  <2>. SUFFICES ASSUME heap.pages > 0
                PROVE  /\ \A b \in B : GET(heap, b.at) = GET(heap, FTRP(heap, b.at))
                       /\ \A tag \in {heap.base, heap.base + 1, Abstract!Hi(heap)} : GET(heap, tag) = PACK(0, 1)
                       /\ \E b \in B : RIGHT_BLK(heap, b.at) = Abstract!Hi(heap)
    BY <1>2 DEF TagsAgree
  <2>1. heap.base \in Nat /\ heap.pages \in Nat /\ heap.pages # 0
    BY <1>2 DEF Tells, WordHeap
  <2>2. /\ LoOf(heap) = heap.base + 2 /\ HiOf(heap) = Abstract!Hi(heap)
        /\ HiOf(heap) \in Nat /\ HiOf(heap) \in Words
        /\ Rep(heap, B, Frees(B), Edges(LoOf(heap), HiOf(heap)))
        /\ H!Row(B, LoOf(heap), HiOf(heap))
    BY <1>2, <2>1 DEF Tells, Rests, Rep, Edges, LoOf, HiOf, Abstract!Hi, Abstract!EpiWords
  <2>3. ASSUME NEW b \in B
        PROVE  /\ GET(heap, b.at) = GET(heap, FTRP(heap, b.at))
               /\ RIGHT_BLK(heap, b.at) = Stop(b) /\ H!EndOf(b) = Stop(b)
    <3>1. GET_SIZE(heap, b.at) = b.size /\ RIGHT_BLK(heap, b.at) = Stop(b)
      BY <2>2, ReadTags
    <3>2. Tagged(heap.mem, b)
      BY <2>2 DEF Rep
    <3>. QED  BY <3>1, <3>2 DEF Tagged, GET, FTRP, H!EndOf, H!TagWords, Stop
  <2>4. \A tag \in {heap.base, heap.base + 1, Abstract!Hi(heap)} : GET(heap, tag) = PACK(0, 1)
    <3>1. \A w \in Edges(LoOf(heap), HiOf(heap)) : heap.mem[w] = PACK(0, 1)
      BY <2>2 DEF Rep
    <3>2. LoOf(heap) - 2 = heap.base /\ LoOf(heap) - 1 = heap.base + 1
      BY <2>1, <2>2
    <3>. QED  BY <2>2, <3>1, <3>2 DEF Edges, GET
  <2>5. \E b \in B : H!EndOf(b) = HiOf(heap)
    <3>1. View(heap, B).pages = heap.pages /\ View(heap, B).blocks = B
      BY ViewFields
    <3>2. B # {}
      BY <1>2, <2>1, <3>1 DEF H!GoodHeap, H!Settled
    <3>. QED  BY <2>2, <3>2 DEF H!Row, H!Gapless
  <2>. QED  BY <2>2, <2>3, <2>4, <2>5
<1>4. ListsExact
  <2>1. PICK E : Rep(heap, B, Frees(B), E)
    BY <1>2, TellsLists
  <2>2. ASSUME NEW i \in Buckets
        PROVE  LET list == FreeList(heap, i)
               IN  /\ Range(list) = {b.at : b \in {c \in B : ~c.alloc /\ Bucket(c.size) = i}}
                   /\ IsInjective(list)
                   /\ \A k \in DOMAIN list :
                        GET(heap, prev(list[k])) = IF k = 1 THEN NULL ELSE list[k - 1]
    BY <2>1, ListsTell
  <2>. QED  BY <1>2, <2>2 DEF ListsExact
<1>5. HeldIffAllocated
  <2>1. {r.ptr : r \in live} = {b.at + 1 : b \in {c \in B : c.alloc}}
    <3>1. ASSUME NEW r \in live
          PROVE  \E b \in {c \in B : c.alloc} : r.ptr = b.at + 1
      <4>1. \E b \in {c \in B : c.alloc} : r = Region(b.at + 1, b.want)
        BY <1>2 DEF Holds
      <4>. QED  BY <4>1 DEF Region
    <3>2. ASSUME NEW b \in {c \in B : c.alloc}
          PROVE  \E r \in live : r.ptr = b.at + 1
      <4>1. Region(b.at + 1, b.want) \in live
        BY <1>2 DEF Holds
      <4>. QED  BY <4>1 DEF Region
    <3>. QED  BY <3>1, <3>2
  <2>. QED  BY <1>2, <2>1 DEF HeldIffAllocated
<1>. QED  BY <1>3, <1>4, <1>5

\* The invariant holds between any two calls.
THEOREM WordsSound ==
    ASSUME SmallRequests
    PROVE  Spec => []IInv
<1>1. IInv /\ [Next]_vars => IInv'
  BY NextImplements
<1>. QED  BY <1>1, InitImplements, PTL DEF Spec

\* Header and footer of every block agree, prologue and epilogue stay in
\* place, and walking from block to block ends on the epilogue.
THEOREM TagsHold ==
    ASSUME SmallRequests
    PROVE  Spec => []TagsAgree
BY WordsSound, InvTells, PTL

\* insert_node, delete_node and coalesce keep every free block on the list of
\* its size, once, with prev and next in step.
THEOREM ListsHold ==
    ASSUME SmallRequests
    PROVE  Spec => []ListsExact
BY WordsSound, InvTells, PTL

\* No call frees, duplicates or loses a block behind the client's back.
THEOREM NothingLost ==
    ASSUME SmallRequests
    PROVE  Spec => []HeldIffAllocated
BY WordsSound, InvTells, PTL

\* The words go through the steps of BlockHeapSpec: find_fit over the lists
\* misses no fitting block, the recursion of insert_node and coalesce does one
\* merge, and what the client writes touches no tag and no link.
THEOREM WordsImplement ==
    ASSUME SmallRequests
    PROVE  Spec => ImplementsBlockHeap
<1>1. Init => Abstract!Init
  BY InitImplements, SameCalls DEF H!Init, Abstract!Init, Abstract!NULL, H!NULL
<1>2. ASSUME IInv, [Next]_vars
      PROVE  [Abstract!Next]_(Abstract!vars)
  <2>1. [H!Next]_(H!vars)
    BY <1>2, NextImplements
  <2>2. \A o : H!Take(o) <=> Abstract!Take(o)
    BY DEF H!Take, Abstract!Take
  <2>3. H!Live = Abstract!Live /\ H!NULL = Abstract!NULL /\ H!vars = Abstract!vars
        /\ \A h, p, f : H!Outcome(h, p, f) = Abstract!Outcome(h, p, f)
    BY DEF H!Live, Abstract!Live, H!NULL, Abstract!NULL, H!vars, Abstract!vars, H!Outcome, Abstract!Outcome
  <2>4. ASSUME H!Initialize
        PROVE  Abstract!Next
    BY <2>2, <2>4, SameCalls DEF H!Initialize, Abstract!Initialize, Abstract!Next
  <2>5. ASSUME NEW bytes \in Requests, H!Malloc(bytes)
        PROVE  Abstract!Next
    BY <2>2, <2>5, SameCalls DEF H!Malloc, Abstract!Malloc, Abstract!Next
  <2>6. ASSUME H!FreeNull
        PROVE  Abstract!Next
    BY <2>2, <2>3, <2>6 DEF H!FreeNull, Abstract!FreeNull, Abstract!Next
  <2>7. ASSUME NEW b \in H!Live, H!Free(b)
        PROVE  Abstract!Next
    BY <2>2, <2>3, <2>7, SameCalls DEF H!Free, Abstract!Free, Abstract!Next
  <2>8. ASSUME NEW b \in H!Live, NEW bytes \in Requests, H!Realloc(b, bytes)
        PROVE  Abstract!Next
    BY <2>2, <2>3, <2>8, SameCalls DEF H!Realloc, Abstract!Realloc, Abstract!Next
  <2>9. CASE H!Next
    BY <2>3, <2>4, <2>5, <2>6, <2>7, <2>8, <2>9 DEF H!Next
  <2>10. CASE UNCHANGED H!vars
    BY <2>3, <2>10 DEF H!vars, Abstract!vars
  <2>. QED  BY <2>1, <2>9, <2>10
<1>. QED  BY <1>1, <1>2, WordsSound, PTL DEF Spec, ImplementsBlockHeap, Abstract!Spec

\* So what holds of every behaviour of BlockHeapSpec holds of the words.
LEMMA WordsFollow ==
    ASSUME SmallRequests
    PROVE  Spec => H!Spec
<1>1. IInv /\ [Next]_vars => [H!Next]_(H!vars)
  BY NextImplements
<1>. QED  BY <1>1, InitImplements, WordsSound, PTL DEF Spec, H!Spec

\* The allocator keeps the promise of HeapPromise word by word: what the lists
\* and tags lead it to hand out is inside the segment, as large as asked for
\* and disjoint from all the client holds.
THEOREM WordsKeepPromise ==
    ASSUME SmallRequests
    PROVE  Spec => H!KeepsPromise
<1>. USE LayoutAssumption, SegmentAssumption, ClientAssumption, StackAssumption
<1>1. Requests \subseteq Nat /\ StackBytes \in Nat
  OBVIOUS
<1>2. H!SmallRequests
  BY SameArithmetic DEF SmallRequests, H!SmallRequests
<1>3. H!Spec => H!KeepsPromise
  BY <1>1, <1>2, H!PromiseKept
<1>. QED  BY <1>3, WordsFollow, PTL

\* A free block is on a list, under a header that tells its size.
LEMMA OnList ==
    ASSUME NEW h, NEW B, Tells(h, B), NEW b \in B, ~b.alloc
    PROVE  /\ \E i \in Buckets : b.at \in Range(FreeList(h, i))
           /\ GET(h, b.at) = 8 * b.size /\ GET(h, FTRP(h, b.at)) = 8 * b.size
           /\ b.size \in Nat /\ 3 <= b.size /\ b.at \in Nat /\ 0 < b.at
<1>1. PICK E : Rep(h, B, Frees(B), E)
  BY TellsLists
<1>2. h \in WordHeap /\ B \in SUBSET H!Block /\ b \in H!Block
  BY <1>1 DEF Rep
<1>3. b.at \in Nat /\ b.size \in Nat /\ 3 <= b.size /\ 0 < b.at
  BY <1>1, <1>2, BlockParts DEF Rep, Fitting
<1>4. Bucket(b.size) \in Buckets
  BY <1>3, BucketInBuckets
<1>5. Range(FreeList(h, Bucket(b.size)))
        = {c.at : c \in {d \in B : ~d.alloc /\ Bucket(d.size) = Bucket(b.size)}}
  BY <1>1, <1>4, ListsTell
<1>6. b.at \in Range(FreeList(h, Bucket(b.size)))
  BY <1>5
<1>7. GET(h, b.at) = 8 * b.size /\ GET(h, FTRP(h, b.at)) = 8 * b.size
  <2>1. Tagged(h.mem, b) /\ GET_SIZE(h, b.at) = b.size
    BY <1>1, <1>2, ReadTags DEF Rep
  <2>. QED  BY <1>3, <2>1 DEF Tagged, GET, FTRP, PACK, Bit
<1>. QED  BY <1>3, <1>4, <1>6, <1>7

\* check_node passes a free block that is Checkable, if its neighbours on the
\* list are too, and no other.
LEMMA NodesExact ==
    ASSUME NEW h, NEW B, Tells(h, B)
    PROVE  ValidateHeap(h) <=> \A b \in B : ~b.alloc => Checkable(h, b)
<1>1. PICK E : Rep(h, B, Frees(B), E)
  BY TellsLists
<1>2. ASSUME NEW b \in B, ~b.alloc
      PROVE  /\ ValidateAddr(h, b.at) <=> h.seg.start = "hint" /\ b.at < PageWords * h.pages
             /\ GET(h, b.at) > 0 /\ GET(h, b.at) \div 2 # 1 /\ GET(h, b.at) = GET(h, FTRP(h, b.at))
             /\ GET(h, b.at) <= IntMax <=> 8 * b.size <= IntMax
  <2>1. PICK x \in Nat : x = b.size /\ 3 <= x
    BY <1>2, OnList
  <2>2. 8 * x > 0 /\ (8 * x) \div 2 # 1
    BY <2>1
  <2>3. b.at # NULL /\ 0 < b.at
    BY <1>2, OnList DEF NULL
  <2>4. GET(h, b.at) = 8 * x /\ GET(h, FTRP(h, b.at)) = 8 * x
    BY <1>2, <2>1, OnList
  <2>. QED  BY <2>1, <2>2, <2>3, <2>4 DEF ValidateAddr
<1>3. ASSUME \A b \in B : ~b.alloc => Checkable(h, b)
      PROVE  ValidateHeap(h)
  <2>. SUFFICES ASSUME NEW i \in Buckets, NEW p \in Range(FreeList(h, i))
                PROVE  CheckNode(h, p)
    BY DEF ValidateHeap
  <2>1. PICK b \in B : ~b.alloc /\ b.at = p
    <3>1. Range(FreeList(h, i)) = {b.at : b \in {c \in B : ~c.alloc /\ Bucket(c.size) = i}}
      BY <1>1, ListsTell
    <3>. QED  BY <3>1
  <2>2. \A q \in At(Frees(B)) : ValidateAddr(h, q)
    BY <1>2, <1>3 DEF At, Frees, Checkable
  <2>3. ValidateAddr(h, GET(h, next(p))) /\ ValidateAddr(h, GET(h, prev(p)))
    <3>1. PICK cls, rank, top : Linked(h, At(Frees(B)), cls, rank, top)
      BY <1>1 DEF Rep, Listing
    <3>2. p \in At(Frees(B))
      BY <2>1 DEF At, Frees
    <3>3. \A q \in {h.mem[next(p)], h.mem[prev(p)]} : q = NULL \/ q \in At(Frees(B))
      BY <3>1, <3>2 DEF Linked
    <3>. QED  BY <2>2, <3>3 DEF GET, ValidateAddr
  <2>. QED  BY <1>2, <1>3, <2>1, <2>3 DEF CheckNode, Checkable
<1>4. ASSUME ValidateHeap(h), NEW b \in B, ~b.alloc
      PROVE  Checkable(h, b)
  <2>1. PICK i \in Buckets : b.at \in Range(FreeList(h, i))
    BY <1>4, OnList
  <2>2. CheckNode(h, b.at)
    BY <1>4, <2>1 DEF ValidateHeap
  <2>. QED  BY <1>2, <1>4, <2>2 DEF CheckNode, Checkable
<1>. QED  BY <1>3, <1>4

\* validate_heap returns false exactly on the heaps with a free block outside
\* as many pages from the hint as the heap has, or of a size beyond an int: it
\* never finds a fault in tags or links.
THEOREM ValidatorHolds ==
    ASSUME SmallRequests
    PROVE  Spec => []ValidatorExact
<1>1. ASSUME IInv PROVE ValidatorExact
  <2>1. PICK B : Sound(heap, live, status, B)
    BY <1>1 DEF IInv
  <2>2. Blocks = B /\ Tells(heap, B)
    BY <2>1, SoundBlocks DEF Sound, Blocks
  <2>. QED  BY <2>2, NodesExact DEF ValidatorExact
<1>. QED  BY <1>1, WordsSound, PTL
=============================================================================
