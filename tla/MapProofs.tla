----------------------------- MODULE MapProofs ------------------------------
(***************************************************************************)
(* The map of cmap.c for any keys, values, hints and number of buckets: it *)
(* implements MapPromise as long as no key begins another of its bucket.   *)
(***************************************************************************)
EXTENDS MapSpec, NumberFacts

Capacity(hint) == IF hint = 0 THEN DefaultBuckets ELSE hint

\* No key of a bucket begins another one there.  Without this sameKey confuses
\* the two, as the run Map_prefix shows (cmap.c 119-123).
PrefixFree ==
    \A h \in Hints : \A j, k \in Keys :
        Hash(j, Capacity(h)) = Hash(k, Capacity(h)) /\ IsPrefix(j, k) => j = k

Cell == {BuildCell(k, v) : k \in Keys, v \in Vals}

MapType ==
    [nbuckets : {Capacity(h) : h \in Hints}, size : Nat,
     buckets  : UNION {[0 .. n - 1 -> Seq(Cell)] : n \in Nat}]

\* What a call leaves: as many buckets as asked for, cells in the bucket of
\* their key, one for each key, and their count.
Sound(m) ==
    /\ m \in MapType /\ m.buckets \in [0 .. m.nbuckets - 1 -> Seq(Cell)]
    /\ IsFiniteSet(Held(m)) /\ m.size = Cardinality(Held(m))
    /\ \A p \in Held(m) : Hash(KeyAt(m, p), m.nbuckets) = p[1]
    /\ \A p, q \in Held(m) : KeyAt(m, p) = KeyAt(m, q) => p = q

ValueAt(m, p) == Last(m.buckets[p[1]][p[2]])

-----------------------------------------------------------------------------
LEMMA MinIsLeast ==
    ASSUME NEW S \in SUBSET Nat, S # {}
    PROVE  Min(S) \in S /\ \A i \in S : Min(S) <= i
BY LeastExists DEF Min

LEMMA FirstNul ==
    ASSUME NEW c \in Seq(Nat), NEW n \in 1 .. Len(c), c[n] = NUL,
           \A i \in 1 .. n - 1 : c[i] # NUL
    PROVE  KeyIn(c) = SubSeq(c, 1, n - 1)
<1>. DEFINE I == {i \in 1 .. Len(c) : c[i] = NUL}
<1>1. n \in I /\ I \in SUBSET Nat /\ \A i \in I : n <= i
  OBVIOUS
<1>2. Min(I) = n
  <2>. HIDE DEF I
  <2>1. Min(I) \in I /\ Min(I) <= n
    BY <1>1, MinIsLeast
  <2>2. n \in Nat /\ Min(I) \in Nat /\ n <= Min(I)
    BY <1>1, <2>1
  <2>. QED  BY <2>1, <2>2
<1>3. KeyIn(c) = SubSeq(c, 1, (IF I # {} THEN Min(I) ELSE 0) - 1)
  BY DEF KeyIn, SelectInSeq
<1>. QED  BY <1>1, <1>2, <1>3

\* A cell is its key, a NUL and its value; read as a string it is the key.
LEMMA CellParts ==
    ASSUME NEW k \in Keys, NEW v \in Vals
    PROVE  LET c == BuildCell(k, v)
           IN  /\ c \in Seq(Nat) /\ Len(c) = Len(k) + 2 /\ Len(k) \in Nat
               /\ \A i \in 1 .. Len(k) : c[i] = k[i]
               /\ c[Len(k) + 1] = NUL /\ c[Len(k) + 2] = v
               /\ Last(c) = v
               /\ KeyIn(c) = k
<1>. DEFINE c == k \o <<NUL, v>>
<1>1. k \in Seq(Nat) /\ \A i \in 1 .. Len(k) : k[i] # NUL
  BY ClientAssumption
<1>2. v \in Nat /\ NUL \in Nat /\ <<NUL, v>> \in Seq(Nat)
  BY ClientAssumption DEF NUL
<1>3. /\ c \in Seq(Nat) /\ Len(c) = Len(k) + 2 /\ Len(k) \in Nat
      /\ \A i \in 1 .. Len(k) : c[i] = k[i]
      /\ c[Len(k) + 1] = NUL /\ c[Len(k) + 2] = v
  BY <1>1, <1>2
<1>. HIDE DEF c
<1>5. KeyIn(c) = SubSeq(c, 1, Len(k))
  <2>. DEFINE n == Len(k) + 1
  <2>1. n \in 1 .. Len(c) /\ c[n] = NUL /\ (\A i \in 1 .. n - 1 : c[i] # NUL) /\ n - 1 = Len(k)
    BY <1>1, <1>3
  <2>. HIDE DEF n
  <2>2. KeyIn(c) = SubSeq(c, 1, n - 1)
    BY <1>3, <2>1, FirstNul
  <2>. QED  BY <2>1, <2>2
<1>6. SubSeq(c, 1, Len(k)) = k
  BY <1>1, <1>3
<1>7. Last(c) = v
  BY <1>3 DEF Last
<1>. QED  BY <1>3, <1>5, <1>6, <1>7 DEF c, BuildCell

\* sameKey does not look behind the key in the cell: keys hold no NUL.
LEMMA SameKeyIsPrefix ==
    ASSUME NEW k \in Keys, NEW v \in Vals, NEW j \in Keys
    PROVE  SameKey(BuildCell(k, v), j) <=> IsPrefix(j, k)
<1>. DEFINE c == BuildCell(k, v)
<1>1. /\ c \in Seq(Nat) /\ Len(c) = Len(k) + 2 /\ Len(k) \in Nat
      /\ \A i \in 1 .. Len(k) : c[i] = k[i]
      /\ c[Len(k) + 1] = NUL
  BY CellParts
<1>2. /\ k \in Seq(Nat) /\ j \in Seq(Nat) /\ Len(j) \in Nat
      /\ \A i \in 1 .. Len(j) : j[i] # NUL
  BY ClientAssumption
<1>. HIDE DEF c
<1>3. ASSUME IsPrefix(j, c) PROVE Len(j) <= Len(k)
  <2>. SUFFICES ASSUME Len(j) >= Len(k) + 1 PROVE FALSE
    BY <1>1, <1>2
  <2>1. Len(j) <= Len(c) /\ SubSeq(j, 1, Len(j)) = SubSeq(c, 1, Len(j))
    BY <1>3 DEF IsPrefix
  <2>2. SubSeq(j, 1, Len(j))[Len(k) + 1] = j[Len(k) + 1]
    BY <1>1, <1>2
  <2>3. SubSeq(c, 1, Len(j))[Len(k) + 1] = c[Len(k) + 1]
    BY <1>1, <1>2, <2>1
  <2>4. Len(k) + 1 \in 1 .. Len(j)
    BY <1>1, <1>2
  <2>. QED  BY <1>1, <1>2, <2>1, <2>2, <2>3, <2>4
<1>4. ASSUME Len(j) <= Len(k)
      PROVE  SubSeq(c, 1, Len(j)) = SubSeq(k, 1, Len(j))
  BY <1>1, <1>2, <1>4
<1>5. IsPrefix(j, c) <=> IsPrefix(j, k)
  BY <1>1, <1>2, <1>3, <1>4 DEF IsPrefix
<1>. QED  BY <1>5 DEF SameKey, c

\* A key begins itself.
LEMMA PrefixOfSelf == \A k \in Keys : IsPrefix(k, k)
BY ClientAssumption DEF IsPrefix

-----------------------------------------------------------------------------
\* A key's bucket is one of the map's.
LEMMA HashInRange ==
    ASSUME NEW s \in Seq(Nat), NEW n \in Nat \ {0}
    PROVE  Hash(s, n) \in 0 .. n - 1
<1>. DEFINE L == Len(s)
            next(x, i) == (x * Multiplier + s[i]) % WordMod
            F(g) == [i \in 0 .. L |-> IF i = 0 THEN 0 ELSE next(g[i - 1], i)]
            step == [i \in 1 .. L |-> [x \in Nat |-> next(x, i)]]
            code == CHOOSE g : g = F(g)
<1>0. L \in Nat
  OBVIOUS
<1>1. \A x \in Nat : \A i \in 1 .. L : next(x, i) \in Nat
  <2>1. \A x \in Nat : \A i \in 1 .. L : x * Multiplier + s[i] \in Nat
    BY MapAssumption
  <2>. QED  BY <2>1, MapAssumption
<1>2. Hash(s, n) = code[L] % n
  BY DEF Hash
<1>. HIDE DEF L, next
<1>3. step \in [1 .. L -> [Nat -> Nat]]
  BY <1>1
<1>4. PICK g \in [0 .. L -> Nat] : Iterates(g, L, 0, step)
  <2>1. 0 \in Nat
    OBVIOUS
  <2>. HIDE DEF step
  <2>. QED  BY <1>0, <1>3, <2>1, RecursionExists
<1>5. ASSUME NEW i \in 0 .. L
      PROVE  g[i] = IF i = 0 THEN 0 ELSE next(g[i - 1], i)
  <2>1. g[i] = IF i = 0 THEN 0 ELSE step[i][g[i - 1]]
    <3>. HIDE DEF step
    <3>. QED  BY <1>4 DEF Iterates
  <2>2. ASSUME i # 0 PROVE i \in 1 .. L /\ i - 1 \in 0 .. L
    BY <1>0, <2>2
  <2>3. ASSUME i # 0 PROVE step[i][g[i - 1]] = next(g[i - 1], i)
    BY <2>2, <2>3
  <2>. HIDE DEF step
  <2>. QED  BY <2>1, <2>3
<1>6. g = F(g)
  BY <1>5
<1>7. code = F(code)
  <2>. HIDE DEF F
  <2>. QED  BY <1>6
<1>. HIDE DEF code
<1>. DEFINE T == {i \in Nat : i <= L => code[i] \in Nat}
<1>8. 0 \in T
  BY <1>0, <1>7
<1>9. ASSUME NEW i \in Nat, i \in T PROVE i + 1 \in T
  <2>. SUFFICES ASSUME i + 1 <= L PROVE code[i + 1] \in Nat
    OBVIOUS
  <2>1. code[i + 1] = next(code[i], i + 1)
    BY <1>0, <1>7
  <2>2. code[i] \in Nat /\ i + 1 \in 1 .. L
    BY <1>0, <1>9
  <2>. QED  BY <1>1, <2>1, <2>2
<1>10. Nat \subseteq T
  <2>. HIDE DEF T
  <2>. QED  BY <1>8, <1>9, InductionOnNat
<1>11. L \in T
  BY <1>0, <1>10
<1>12. code[L] \in Nat
  BY <1>11
<1>. QED  BY <1>2, <1>12

\* The places of a map, as pairs of a bucket and a position in it.
LEMMA HeldPlaces ==
    ASSUME NEW m, NEW n \in Nat, m.buckets \in [0 .. n - 1 -> Seq(Cell)]
    PROVE  /\ \A p \in Held(m) : /\ p = <<p[1], p[2]>> /\ p[1] \in 0 .. n - 1
                                 /\ p[2] \in 1 .. Len(m.buckets[p[1]])
           /\ \A b \in 0 .. n - 1 : \A i \in 1 .. Len(m.buckets[b]) : <<b, i>> \in Held(m)
<1>1. \A b \in 0 .. n - 1 : DOMAIN m.buckets[b] = 1 .. Len(m.buckets[b])
  OBVIOUS
<1>2. DOMAIN m.buckets = 0 .. n - 1
  OBVIOUS
<1>3. ASSUME NEW p \in Held(m)
      PROVE  \E b \in 0 .. n - 1 : \E i \in 1 .. Len(m.buckets[b]) : p = <<b, i>>
  BY <1>1, <1>2 DEF Held
<1>4. ASSUME NEW b \in 0 .. n - 1, NEW i \in 1 .. Len(m.buckets[b])
      PROVE  <<b, i>> \in Held(m)
  BY <1>1, <1>2 DEF Held
<1>. QED  BY <1>3, <1>4

LEMMA SoundShape ==
    ASSUME NEW m, Sound(m)
    PROVE  /\ m.nbuckets \in Nat \ {0} /\ m.size \in Nat
           /\ \E h \in Hints : m.nbuckets = Capacity(h)
           /\ m.buckets \in [0 .. m.nbuckets - 1 -> Seq(Cell)]
           /\ \A p \in Held(m) : /\ p = <<p[1], p[2]>> /\ p[1] \in 0 .. m.nbuckets - 1
                                 /\ p[2] \in 1 .. Len(m.buckets[p[1]])
           /\ \A b \in 0 .. m.nbuckets - 1 : \A i \in 1 .. Len(m.buckets[b]) : <<b, i>> \in Held(m)
<1>1. m.nbuckets \in Nat \ {0} /\ m.size \in Nat /\ (\E h \in Hints : m.nbuckets = Capacity(h))
  BY MapAssumption, ClientAssumption DEF Sound, MapType, Capacity
<1>2. m.buckets \in [0 .. m.nbuckets - 1 -> Seq(Cell)]
  BY DEF Sound
<1>. QED  BY <1>1, <1>2, HeldPlaces

\* Each place holds the cell of its key and value.
LEMMA CellAtPlace ==
    ASSUME NEW m, Sound(m), NEW p \in Held(m)
    PROVE  /\ m.buckets[p[1]][p[2]] = BuildCell(KeyAt(m, p), ValueAt(m, p))
           /\ KeyAt(m, p) \in Keys /\ ValueAt(m, p) \in Vals
<1>1. m.buckets[p[1]][p[2]] \in Cell
  BY SoundShape
<1>2. PICK k \in Keys, v \in Vals : m.buckets[p[1]][p[2]] = BuildCell(k, v)
  BY <1>1 DEF Cell
<1>3. KeyAt(m, p) = k /\ ValueAt(m, p) = v
  BY <1>2, CellParts DEF KeyAt, ValueAt
<1>. QED  BY <1>2, <1>3

\* The walk along a bucket stops at the cell of the key, or finds none when
\* the map has none: the keys it passes do not begin with it (put 123-131).
LEMMA FindExact ==
    ASSUME PrefixFree, NEW m, Sound(m), NEW key \in Keys
    PROVE  LET b == Hash(key, m.nbuckets)
               i == Find(m, key)
           IN  /\ b \in 0 .. m.nbuckets - 1 /\ i \in 0 .. Len(m.buckets[b])
               /\ i # 0 => <<b, i>> \in Held(m) /\ KeyAt(m, <<b, i>>) = key
               /\ i = 0 => \A p \in Held(m) : KeyAt(m, p) # key
<1>. DEFINE n == m.nbuckets
            b == Hash(key, n)
            I == {j \in 1 .. Len(m.buckets[b]) : SameKey(m.buckets[b][j], key)}
<1>1. /\ n \in Nat \ {0} /\ b \in 0 .. n - 1 /\ m.buckets[b] \in Seq(Cell)
      /\ Len(m.buckets[b]) \in Nat
  <2>1. n \in Nat \ {0} /\ m.buckets \in [0 .. n - 1 -> Seq(Cell)]
    BY SoundShape
  <2>2. key \in Seq(Nat)
    BY ClientAssumption
  <2>3. b \in 0 .. n - 1
    BY <2>1, <2>2, HashInRange
  <2>. QED  BY <2>1, <2>3
<1>2. Find(m, key) = IF I # {} THEN Min(I) ELSE 0
  BY DEF Find, SelectInSeq
<1>3. ASSUME NEW j \in 1 .. Len(m.buckets[b])
      PROVE  /\ <<b, j>> \in Held(m)
             /\ SameKey(m.buckets[b][j], key) <=> KeyAt(m, <<b, j>>) = key
  <2>. DEFINE p == <<b, j>>
              k == KeyAt(m, p)
  <2>1. p \in Held(m) /\ p[1] = b /\ p[2] = j
    BY <1>1, SoundShape
  <2>2. k \in Keys /\ ValueAt(m, p) \in Vals /\ m.buckets[b][j] = BuildCell(k, ValueAt(m, p))
    BY <2>1, CellAtPlace
  <2>3. Hash(k, n) = b
    BY <2>1 DEF Sound
  <2>4. SameKey(m.buckets[b][j], key) <=> IsPrefix(key, k)
    BY <2>2, SameKeyIsPrefix
  <2>5. IsPrefix(key, k) <=> key = k
    <3>1. PICK h \in Hints : n = Capacity(h)
      BY SoundShape
    <3>2. IsPrefix(key, k) => key = k
      BY <2>2, <2>3, <3>1 DEF PrefixFree
    <3>. HIDE DEF k
    <3>. QED  BY <3>2, PrefixOfSelf
  <2>. QED  BY <2>1, <2>4, <2>5
<1>4. I \in SUBSET Nat /\ I \subseteq 1 .. Len(m.buckets[b])
  OBVIOUS
<1>5. CASE I # {}
  <2>1. Min(I) \in I
    <3>. HIDE DEF I
    <3>. QED  BY <1>4, <1>5, MinIsLeast
  <2>2. Find(m, key) = Min(I) /\ Min(I) \in 1 .. Len(m.buckets[b])
    BY <1>2, <1>5, <2>1
  <2>3. <<b, Min(I)>> \in Held(m) /\ KeyAt(m, <<b, Min(I)>>) = key
    BY <1>3, <2>1
  <2>. HIDE DEF I
  <2>. QED  BY <1>1, <2>2, <2>3
<1>6. CASE I = {}
  <2>1. ASSUME NEW p \in Held(m), KeyAt(m, p) = key PROVE FALSE
    <3>1. p = <<p[1], p[2]>> /\ p[1] = b /\ p[2] \in 1 .. Len(m.buckets[b])
      BY <2>1, SoundShape DEF Sound
    <3>. QED  BY <1>3, <1>6, <2>1, <3>1
  <2>. QED  BY <1>1, <1>2, <1>6, <2>1
<1>. QED  BY <1>5, <1>6

-----------------------------------------------------------------------------
\* A change of one bucket, as a map.
LEMMA BucketChanged ==
    ASSUME NEW m, Sound(m), NEW b \in 0 .. m.nbuckets - 1, NEW cells \in Seq(Cell),
           NEW size \in Nat
    PROVE  LET new == [m EXCEPT !.buckets[b] = cells, !.size = size]
           IN  /\ new \in MapType /\ new.nbuckets = m.nbuckets /\ new.size = size
               /\ new.buckets = [m.buckets EXCEPT ![b] = cells]
               /\ new.buckets \in [0 .. m.nbuckets - 1 -> Seq(Cell)]
<1>. DEFINE F == [m.buckets EXCEPT ![b] = cells]
            new == [m EXCEPT !.buckets[b] = cells, !.size = size]
<1>1. m.nbuckets \in Nat /\ F \in [0 .. m.nbuckets - 1 -> Seq(Cell)]
  BY SoundShape
<1>2. F \in UNION {[0 .. n - 1 -> Seq(Cell)] : n \in Nat}
  BY <1>1
<1>3. m \in MapType
  BY DEF Sound
<1>4. new \in MapType /\ new.nbuckets = m.nbuckets /\ new.size = size /\ new.buckets = F
  <2>1. new = [m EXCEPT !.buckets = F, !.size = size]
    OBVIOUS
  <2>. HIDE DEF F, new
  <2>. QED  BY <1>2, <1>3, <2>1 DEF MapType
<1>. HIDE DEF F, new
<1>. QED  BY <1>1, <1>4 DEF F, new

\* Putting a known key changes its value, in its cell, and nothing else.
LEMMA PutKnown ==
    ASSUME PrefixFree, NEW m, Sound(m), NEW key \in Keys, NEW v \in Vals, Find(m, key) # 0
    PROVE  LET new == CmapPut(m, key, v)
           IN  /\ Sound(new) /\ new.nbuckets = m.nbuckets /\ Held(new) = Held(m)
               /\ \A p \in Held(m) :
                    /\ KeyAt(new, p) = KeyAt(m, p)
                    /\ ValueAt(new, p) = IF KeyAt(m, p) = key THEN v ELSE ValueAt(m, p)
               /\ \E p \in Held(m) : KeyAt(m, p) = key
<1>. DEFINE n == m.nbuckets
            b == Hash(key, n)
            i == Find(m, key)
            cells == [m.buckets[b] EXCEPT ![i] = BuildCell(key, v)]
            new == [m EXCEPT !.buckets[b] = cells, !.size = m.size]
<1>1. /\ b \in 0 .. n - 1 /\ i \in 1 .. Len(m.buckets[b])
      /\ <<b, i>> \in Held(m) /\ KeyAt(m, <<b, i>>) = key
  <2>1. i \in 0 .. Len(m.buckets[b]) /\ i # 0 => i \in 1 .. Len(m.buckets[b])
    OBVIOUS
  <2>. QED  BY <2>1, FindExact
<1>2. /\ m.buckets[b] \in Seq(Cell) /\ n \in Nat /\ m.size \in Nat
      /\ m.buckets \in [0 .. n - 1 -> Seq(Cell)]
  BY <1>1, SoundShape
<1>3. CmapPut(m, key, v) = new
  <2>. DEFINE c == m.buckets[b][i]
  <2>1. PICK w \in Vals : c = BuildCell(key, w)
    BY <1>1, CellAtPlace
  <2>2. [c EXCEPT ![Len(key) + 2] = v] = BuildCell(key, v)
    <3>. DEFINE old == BuildCell(key, w)
                put == BuildCell(key, v)
    <3>1. /\ old \in Seq(Nat) /\ Len(old) = Len(key) + 2 /\ Len(key) \in Nat
          /\ \A j \in 1 .. Len(key) : old[j] = key[j]
          /\ old[Len(key) + 1] = NUL
      BY CellParts
    <3>2. /\ put \in Seq(Nat) /\ Len(put) = Len(key) + 2
          /\ \A j \in 1 .. Len(key) : put[j] = key[j]
          /\ put[Len(key) + 1] = NUL /\ put[Len(key) + 2] = v
      BY CellParts
    <3>. HIDE DEF old, put
    <3>3. v \in Nat
      BY ClientAssumption
    <3>4. [old EXCEPT ![Len(key) + 2] = v] \in Seq(Nat) /\ Len([old EXCEPT ![Len(key) + 2] = v]) = Len(put)
      BY <3>1, <3>2, <3>3
    <3>5. ASSUME NEW j \in 1 .. Len(put)
          PROVE  [old EXCEPT ![Len(key) + 2] = v][j] = put[j]
      <4>1. j \in 1 .. Len(key) \/ j = Len(key) + 1 \/ j = Len(key) + 2
        BY <3>1, <3>2
      <4>. QED  BY <3>1, <3>2, <4>1
    <3>6. [old EXCEPT ![Len(key) + 2] = v] = put
      BY <3>2, <3>4, <3>5
    <3>. QED  BY <2>1, <3>6 DEF old, put
  <2>3. CmapPut(m, key, v) = [m EXCEPT !.buckets[b][i][Len(key) + 2] = v]
    BY DEF CmapPut
  <2>4. [m EXCEPT !.buckets[b][i][Len(key) + 2] = v]
          = [m EXCEPT !.buckets = [m.buckets EXCEPT ![b] =
               [m.buckets[b] EXCEPT ![i] = [c EXCEPT ![Len(key) + 2] = v]]]]
    <3>1. m \in MapType
      BY DEF Sound
    <3>. QED  BY <1>1, <1>2, <3>1 DEF MapType
  <2>5. new = [m EXCEPT !.buckets = [m.buckets EXCEPT ![b] = cells]]
    <3>1. m \in MapType
      BY DEF Sound
    <3>. QED  BY <1>1, <1>2, <3>1 DEF MapType
  <2>. QED  BY <2>2, <2>3, <2>4, <2>5
<1>4. cells \in Seq(Cell) /\ Len(cells) = Len(m.buckets[b])
  <2>1. BuildCell(key, v) \in Cell
    BY DEF Cell
  <2>. QED  BY <1>1, <1>2, <2>1
<1>5. /\ new \in MapType /\ new.nbuckets = n /\ new.size = m.size
      /\ new.buckets = [m.buckets EXCEPT ![b] = cells]
      /\ new.buckets \in [0 .. n - 1 -> Seq(Cell)]
  <2>. HIDE DEF cells
  <2>. QED  BY <1>1, <1>2, <1>4, BucketChanged
<1>. HIDE DEF new
<1>6. ASSUME NEW c \in 0 .. n - 1
      PROVE  Len(new.buckets[c]) = Len(m.buckets[c])
  BY <1>1, <1>2, <1>4, <1>5
<1>7. Held(new) = Held(m)
  <2>1. \A p \in Held(m) : p = <<p[1], p[2]>> /\ p[1] \in 0 .. n - 1 /\ p[2] \in 1 .. Len(m.buckets[p[1]])
    BY SoundShape
  <2>2. \A c \in 0 .. n - 1 : \A j \in 1 .. Len(m.buckets[c]) : <<c, j>> \in Held(m)
    BY SoundShape
  <2>3. \A p \in Held(new) : p = <<p[1], p[2]>> /\ p[1] \in 0 .. n - 1 /\ p[2] \in 1 .. Len(new.buckets[p[1]])
    BY <1>2, <1>5, HeldPlaces
  <2>4. \A c \in 0 .. n - 1 : \A j \in 1 .. Len(new.buckets[c]) : <<c, j>> \in Held(new)
    BY <1>2, <1>5, HeldPlaces
  <2>5. ASSUME NEW p \in Held(m) PROVE p \in Held(new)
    BY <1>6, <2>1, <2>4
  <2>6. ASSUME NEW p \in Held(new) PROVE p \in Held(m)
    BY <1>6, <2>2, <2>3
  <2>. QED  BY <2>5, <2>6
<1>8. ASSUME NEW p \in Held(m)
      PROVE  /\ KeyAt(new, p) = KeyAt(m, p)
             /\ ValueAt(new, p) = IF KeyAt(m, p) = key THEN v ELSE ValueAt(m, p)
  <2>1. p = <<p[1], p[2]>> /\ p[1] \in 0 .. n - 1 /\ p[2] \in 1 .. Len(m.buckets[p[1]])
    BY SoundShape
  <2>2. CASE p = <<b, i>>
    <3>1. new.buckets[p[1]][p[2]] = BuildCell(key, v)
      BY <1>1, <1>2, <1>5, <2>2
    <3>2. KeyAt(new, p) = key /\ ValueAt(new, p) = v
      BY <3>1, CellParts DEF KeyAt, ValueAt
    <3>. QED  BY <1>1, <2>2, <3>2
  <2>3. CASE p # <<b, i>>
    <3>1. new.buckets[p[1]][p[2]] = m.buckets[p[1]][p[2]]
      BY <1>1, <1>2, <1>5, <2>1, <2>3
    <3>2. KeyAt(m, p) # key
      BY <1>1, <2>3 DEF Sound
    <3>. QED  BY <3>1, <3>2 DEF KeyAt, ValueAt
  <2>. QED  BY <2>2, <2>3
<1>9. Sound(new)
  <2>1. new.buckets \in [0 .. new.nbuckets - 1 -> Seq(Cell)] /\ new \in MapType
    BY <1>5
  <2>2. IsFiniteSet(Held(new)) /\ new.size = Cardinality(Held(new))
    BY <1>5, <1>7 DEF Sound
  <2>3. \A p \in Held(new) : Hash(KeyAt(new, p), new.nbuckets) = p[1]
    BY <1>5, <1>7, <1>8 DEF Sound
  <2>4. \A p, q \in Held(new) : KeyAt(new, p) = KeyAt(new, q) => p = q
    BY <1>7, <1>8 DEF Sound
  <2>. QED  BY <2>1, <2>2, <2>3, <2>4 DEF Sound
<1>. QED  BY <1>1, <1>3, <1>5, <1>7, <1>8, <1>9

\* Putting a key the map does not have adds one cell, behind those of its bucket.
LEMMA PutNew ==
    ASSUME PrefixFree, NEW m, Sound(m), NEW key \in Keys, NEW v \in Vals, Find(m, key) = 0
    PROVE  LET new == CmapPut(m, key, v)
               b   == Hash(key, m.nbuckets)
               at  == <<b, Len(m.buckets[b]) + 1>>
           IN  /\ Sound(new) /\ new.nbuckets = m.nbuckets
               /\ at \notin Held(m) /\ Held(new) = Held(m) \cup {at}
               /\ KeyAt(new, at) = key /\ ValueAt(new, at) = v
               /\ \A p \in Held(m) : /\ KeyAt(new, p) = KeyAt(m, p) /\ KeyAt(m, p) # key
                                     /\ ValueAt(new, p) = ValueAt(m, p)
<1>. DEFINE n == m.nbuckets
            b == Hash(key, n)
            last == Len(m.buckets[b]) + 1
            at == <<b, last>>
            cells == Append(m.buckets[b], BuildCell(key, v))
            new == [m EXCEPT !.buckets[b] = cells, !.size = m.size + 1]
<1>1. b \in 0 .. n - 1 /\ \A p \in Held(m) : KeyAt(m, p) # key
  BY FindExact
<1>2. /\ m.buckets[b] \in Seq(Cell) /\ n \in Nat /\ m.size \in Nat
      /\ m.buckets \in [0 .. n - 1 -> Seq(Cell)] /\ Len(m.buckets[b]) \in Nat
  BY <1>1, SoundShape
<1>3. CmapPut(m, key, v) = new
  BY DEF CmapPut
<1>4. /\ cells \in Seq(Cell) /\ Len(cells) = last /\ cells[last] = BuildCell(key, v)
      /\ \A j \in 1 .. Len(m.buckets[b]) : cells[j] = m.buckets[b][j]
  <2>1. BuildCell(key, v) \in Cell
    BY DEF Cell
  <2>. QED  BY <1>2, <2>1
<1>5. /\ new \in MapType /\ new.nbuckets = n /\ new.size = m.size + 1
      /\ new.buckets = [m.buckets EXCEPT ![b] = cells]
      /\ new.buckets \in [0 .. n - 1 -> Seq(Cell)]
  <2>. DEFINE size == m.size + 1
  <2>1. size \in Nat
    BY <1>2
  <2>. HIDE DEF cells, size
  <2>2. LET w == [m EXCEPT !.buckets[b] = cells, !.size = size]
        IN  /\ w \in MapType /\ w.nbuckets = n /\ w.size = size
            /\ w.buckets = [m.buckets EXCEPT ![b] = cells]
            /\ w.buckets \in [0 .. n - 1 -> Seq(Cell)]
    BY <1>1, <1>2, <1>4, <2>1, BucketChanged
  <2>. QED  BY <2>2 DEF size
<1>. HIDE DEF new
<1>6. new.buckets[b] = cells /\ \A c \in 0 .. n - 1 : c # b => new.buckets[c] = m.buckets[c]
  <2>. HIDE DEF cells
  <2>. QED  BY <1>1, <1>2, <1>5
<1>. HIDE DEF cells
<1>7. /\ \A p \in Held(m) : p = <<p[1], p[2]>> /\ p[1] \in 0 .. n - 1 /\ p[2] \in 1 .. Len(m.buckets[p[1]])
      /\ \A c \in 0 .. n - 1 : \A j \in 1 .. Len(m.buckets[c]) : <<c, j>> \in Held(m)
  BY SoundShape
<1>8. /\ \A p \in Held(new) : p = <<p[1], p[2]>> /\ p[1] \in 0 .. n - 1 /\ p[2] \in 1 .. Len(new.buckets[p[1]])
      /\ \A c \in 0 .. n - 1 : \A j \in 1 .. Len(new.buckets[c]) : <<c, j>> \in Held(new)
  BY <1>2, <1>5, HeldPlaces
<1>9. at \notin Held(m)
  <2>. SUFFICES ASSUME at \in Held(m) PROVE FALSE
    OBVIOUS
  <2>1. at[1] = b /\ at[2] = last
    OBVIOUS
  <2>2. last \in 1 .. Len(m.buckets[b])
    BY <1>7, <2>1
  <2>. QED  BY <1>2, <2>2
<1>10. Held(new) = Held(m) \cup {at}
  <2>1. ASSUME NEW p \in Held(m) PROVE p \in Held(new)
    <3>1. CASE p[1] = b
      <4>1. p[2] \in 1 .. last
        BY <1>2, <1>7, <3>1
      <4>. QED  BY <1>1, <1>4, <1>6, <1>7, <1>8, <3>1, <4>1
    <3>2. CASE p[1] # b
      BY <1>6, <1>7, <1>8, <3>2
    <3>. QED  BY <3>1, <3>2
  <2>2. at \in Held(new)
    <3>1. last \in 1 .. last
      BY <1>2
    <3>. QED  BY <1>1, <1>4, <1>6, <1>8, <3>1
  <2>3. ASSUME NEW p \in Held(new), p # at PROVE p \in Held(m)
    <3>1. CASE p[1] = b
      <4>1. p[2] \in 1 .. last /\ p = <<b, p[2]>>
        BY <1>4, <1>6, <1>8, <3>1
      <4>2. p[2] # last
        BY <2>3, <4>1
      <4>3. p[2] \in 1 .. Len(m.buckets[b])
        BY <1>2, <4>1, <4>2
      <4>. QED  BY <1>1, <1>7, <4>1, <4>3
    <3>2. CASE p[1] # b
      BY <1>6, <1>7, <1>8, <3>2
    <3>. QED  BY <3>1, <3>2
  <2>. QED  BY <2>1, <2>2, <2>3
<1>11. ASSUME NEW p \in Held(m)
       PROVE  KeyAt(new, p) = KeyAt(m, p) /\ ValueAt(new, p) = ValueAt(m, p)
  <2>1. new.buckets[p[1]][p[2]] = m.buckets[p[1]][p[2]]
    BY <1>4, <1>6, <1>7
  <2>. QED  BY <2>1 DEF KeyAt, ValueAt
<1>12. KeyAt(new, at) = key /\ ValueAt(new, at) = v
  <2>1. new.buckets[at[1]][at[2]] = BuildCell(key, v)
    BY <1>4, <1>6
  <2>. QED  BY <2>1, CellParts DEF KeyAt, ValueAt
<1>. HIDE DEF at
<1>13. Sound(new)
  <2>1. new.buckets \in [0 .. new.nbuckets - 1 -> Seq(Cell)] /\ new \in MapType
    BY <1>5
  <2>2. IsFiniteSet(Held(new)) /\ new.size = Cardinality(Held(new))
    <3>1. IsFiniteSet(Held(m)) /\ m.size = Cardinality(Held(m))
      BY DEF Sound
    <3>. QED  BY <1>5, <1>9, <1>10, <3>1, FS_AddElement
  <2>3. ASSUME NEW p \in Held(new) PROVE Hash(KeyAt(new, p), new.nbuckets) = p[1]
    <3>1. CASE p = at
      BY <1>5, <1>12, <3>1 DEF at
    <3>2. CASE p \in Held(m)
      BY <1>5, <1>11, <3>2 DEF Sound
    <3>. QED  BY <1>10, <3>1, <3>2
  <2>4. ASSUME NEW p \in Held(new), NEW q \in Held(new), KeyAt(new, p) = KeyAt(new, q)
        PROVE  p = q
    BY <1>1, <1>10, <1>11, <1>12, <2>4 DEF Sound
  <2>. QED  BY <2>1, <2>2, <2>3, <2>4 DEF Sound
<1>. QED  BY <1>1, <1>3, <1>5, <1>9, <1>10, <1>11, <1>12, <1>13 DEF at

\* What a lookup answers.
LEMMA GetFinds ==
    ASSUME PrefixFree, NEW m, Sound(m), NEW key \in Keys
    PROVE  /\ \A p \in Held(m) : KeyAt(m, p) = key => CmapGet(m, key, NoByte) = ValueAt(m, p)
           /\ (\A p \in Held(m) : KeyAt(m, p) # key) => CmapGet(m, key, NoByte) = NoByte
           /\ Find(m, key) # 0 <=> \E p \in Held(m) : KeyAt(m, p) = key
<1>. DEFINE b == Hash(key, m.nbuckets)
            i == Find(m, key)
            at == <<b, i>>
<1>1. /\ i # 0 => at \in Held(m) /\ KeyAt(m, at) = key
      /\ i = 0 => \A p \in Held(m) : KeyAt(m, p) # key
  BY FindExact
<1>2. ASSUME i # 0
      PROVE  CmapGet(m, key, NoByte) = ValueAt(m, at)
  <2>1. m.buckets[b][i] = BuildCell(key, ValueAt(m, at)) /\ ValueAt(m, at) \in Vals
    BY <1>1, <1>2, CellAtPlace
  <2>2. m.buckets[b][i][Len(key) + 2] = ValueAt(m, at)
    BY <2>1, CellParts
  <2>. QED  BY <1>2, <2>2 DEF CmapGet
<1>3. i = 0 => CmapGet(m, key, NoByte) = NoByte
  BY DEF CmapGet
<1>4. \A p \in Held(m) : KeyAt(m, p) = key => i # 0 /\ p = at
  BY <1>1 DEF Sound
<1>. HIDE DEF i, at
<1>. QED  BY <1>1, <1>2, <1>3, <1>4 DEF i

-----------------------------------------------------------------------------
\* The places in the order cmap_first and cmap_next name them.
Before(p, q) == p[1] < q[1] \/ (p[1] = q[1] /\ p[2] < q[2])
Upto(m, p) == {q \in Held(m) : q = p \/ Before(q, p)}

LEMMA HeadIsNext ==
    ASSUME NEW m, Sound(m), NEW b \in 0 .. m.nbuckets
    PROVE  LET q == HeadFrom(m, b)
           IN  \/ q = NULL /\ \A p \in Held(m) : p[1] < b
               \/ /\ q \in Held(m) /\ q[1] >= b /\ q[2] = 1 /\ q # NULL
                  /\ \A p \in Held(m) : p[1] < b \/ p = q \/ Before(q, p)
<1>. DEFINE full == {i \in b .. m.nbuckets - 1 : m.buckets[i] # <<>>}
            q == HeadFrom(m, b)
<1>1. /\ m.nbuckets \in Nat /\ m.buckets \in [0 .. m.nbuckets - 1 -> Seq(Cell)]
      /\ \A p \in Held(m) : p = <<p[1], p[2]>> /\ p[1] \in 0 .. m.nbuckets - 1
                            /\ p[2] \in 1 .. Len(m.buckets[p[1]])
      /\ \A c \in 0 .. m.nbuckets - 1 : \A j \in 1 .. Len(m.buckets[c]) : <<c, j>> \in Held(m)
  BY SoundShape
<1>2. q = IF full = {} THEN NULL ELSE <<Min(full), 1>>
  BY DEF HeadFrom
<1>3. \A p \in Held(m) : p[1] >= b => p[1] \in full
  BY <1>1
<1>4. CASE full = {}
  <2>1. q = NULL
    BY <1>2, <1>4
  <2>2. \A p \in Held(m) : p[1] < b
    BY <1>1, <1>3, <1>4
  <2>. HIDE DEF full, q
  <2>. QED  BY <2>1, <2>2 DEF q
<1>5. CASE full # {}
  <2>. DEFINE c == Min(full)
  <2>1. full \in SUBSET Nat
    BY <1>1
  <2>2. c \in full /\ \A i \in full : c <= i
    <3>. HIDE DEF full
    <3>. QED  BY <1>5, <2>1, MinIsLeast
  <2>3. c \in b .. m.nbuckets - 1 /\ c \in 0 .. m.nbuckets - 1 /\ m.buckets[c] # <<>>
    BY <1>1, <2>2
  <2>. HIDE DEF full
  <2>4. q = <<c, 1>>
    BY <1>2, <1>5
  <2>. HIDE DEF c, q
  <2>5. 1 \in 1 .. Len(m.buckets[c])
    BY <1>1, <2>3
  <2>6. q \in Held(m) /\ q[1] = c /\ q[2] = 1 /\ q # NULL
    BY <1>1, <2>3, <2>4, <2>5 DEF NULL
  <2>7. ASSUME NEW p \in Held(m), p[1] >= b PROVE p = q \/ Before(q, p)
    <3>1. c <= p[1] /\ p[2] \in 1 .. Len(m.buckets[p[1]]) /\ p = <<p[1], p[2]>> /\ p[1] \in Nat
      BY <1>1, <1>3, <2>2, <2>7
    <3>. QED  BY <2>3, <2>4, <2>6, <3>1 DEF Before
  <2>8. q[1] >= b
    BY <2>3, <2>6
  <2>. QED  BY <1>1, <2>6, <2>7, <2>8 DEF q
<1>. QED  BY <1>4, <1>5

\* cmap_first: the first place, if there is one.
LEMMA FirstPlace ==
    ASSUME NEW m, Sound(m)
    PROVE  LET q == CmapFirst(m)
           IN  \/ q = NULL /\ Held(m) = {}
               \/ q \in Held(m) /\ q # NULL /\ Upto(m, q) = {q}
<1>. DEFINE q == CmapFirst(m)
<1>1. /\ m.nbuckets \in Nat /\ 0 \in 0 .. m.nbuckets
      /\ \A p \in Held(m) : p[1] \in Nat /\ p[2] \in Nat
  BY SoundShape
<1>2. CASE m.size = 0
  <2>1. Held(m) = {}
    BY <1>2, FS_EmptySet DEF Sound
  <2>. QED  BY <1>2, <2>1 DEF CmapFirst
<1>3. CASE m.size # 0
  <2>1. q = HeadFrom(m, 0)
    BY <1>3 DEF CmapFirst
  <2>2. Held(m) # {}
    BY <1>3, FS_EmptySet DEF Sound
  <2>. HIDE DEF q
  <2>3. \/ q = NULL /\ \A p \in Held(m) : p[1] < 0
        \/ /\ q \in Held(m) /\ q[1] >= 0 /\ q[2] = 1 /\ q # NULL
           /\ \A p \in Held(m) : p[1] < 0 \/ p = q \/ Before(q, p)
    BY <1>1, <2>1, HeadIsNext
  <2>4. q \in Held(m) /\ q # NULL /\ \A p \in Held(m) : p = q \/ Before(q, p)
    BY <1>1, <2>2, <2>3
  <2>5. Upto(m, q) = {q}
    BY <1>1, <2>4 DEF Upto, Before
  <2>. QED  BY <2>4, <2>5 DEF q
<1>. QED  BY <1>2, <1>3

\* cmap_next looks the key of the place up again and finds that place, and so
\* names the place behind it.
LEMMA NextPlace ==
    ASSUME PrefixFree, NEW m, Sound(m), NEW p \in Held(m)
    PROVE  LET q == CmapNext(m, p)
           IN  /\ Find(m, KeyAt(m, p)) = p[2] /\ Hash(KeyAt(m, p), m.nbuckets) = p[1]
               /\ \/ q = NULL /\ Upto(m, p) = Held(m)
                  \/ /\ q \in Held(m) /\ q # NULL /\ q \notin Upto(m, p)
                     /\ Upto(m, q) = Upto(m, p) \cup {q}
<1>. DEFINE q == CmapNext(m, p)
            b == p[1]
            i == p[2]
<1>1. /\ m.nbuckets \in Nat
      /\ \A r \in Held(m) : r = <<r[1], r[2]>> /\ r[1] \in 0 .. m.nbuckets - 1
                            /\ r[2] \in 1 .. Len(m.buckets[r[1]])
      /\ \A c \in 0 .. m.nbuckets - 1 : \A j \in 1 .. Len(m.buckets[c]) : <<c, j>> \in Held(m)
      /\ m.buckets \in [0 .. m.nbuckets - 1 -> Seq(Cell)]
  BY SoundShape
<1>2. KeyAt(m, p) \in Keys /\ Hash(KeyAt(m, p), m.nbuckets) = b
  BY CellAtPlace DEF Sound
<1>3. Find(m, KeyAt(m, p)) = i
  <2>. DEFINE key == KeyAt(m, p)
              f == Find(m, key)
  <2>1. /\ f # 0 => <<b, f>> \in Held(m) /\ KeyAt(m, <<b, f>>) = key
        /\ f = 0 => \A r \in Held(m) : KeyAt(m, r) # key
    BY <1>2, FindExact
  <2>. HIDE DEF key
  <2>2. <<b, f>> = p
    BY <2>1 DEF Sound, key
  <2>. HIDE DEF f
  <2>. QED  BY <2>2 DEF f, key
<1>4. i # 0 /\ b \in 0 .. m.nbuckets - 1 /\ i \in 1 .. Len(m.buckets[b]) /\ p = <<b, i>>
      /\ Len(m.buckets[b]) \in Nat
  BY <1>1
<1>5. q = IF i < Len(m.buckets[b]) THEN <<b, i + 1>> ELSE HeadFrom(m, b + 1)
  BY <1>2, <1>3, <1>4 DEF CmapNext
<1>. HIDE DEF q
<1>6. \/ q = NULL /\ \A r \in Held(m) : r = p \/ Before(r, p)
      \/ /\ q \in Held(m) /\ q # NULL /\ Before(p, q)
         /\ \A r \in Held(m) : r = p \/ Before(r, p) \/ r = q \/ Before(q, r)
  <2>1. CASE i < Len(m.buckets[b])
    <3>1. q = <<b, i + 1>> /\ i + 1 \in 1 .. Len(m.buckets[b])
      BY <1>4, <1>5, <2>1
    <3>2. q \in Held(m) /\ q # NULL /\ q[1] = b /\ q[2] = i + 1
      <4>. DEFINE j == i + 1
      <4>1. q = <<b, j>> /\ <<b, j>> \in Held(m)
        BY <1>1, <1>4, <3>1
      <4>. HIDE DEF j
      <4>2. q[1] = b /\ q[2] = j /\ q # NULL
        BY <4>1 DEF NULL
      <4>. QED  BY <4>1, <4>2 DEF j
    <3>3. Before(p, q)
      BY <1>4, <3>2 DEF Before
    <3>4. ASSUME NEW r \in Held(m) PROVE r = p \/ Before(r, p) \/ r = q \/ Before(q, r)
      <4>1. r = <<r[1], r[2]>> /\ r[1] \in Nat /\ r[2] \in Nat
        BY <1>1
      <4>. QED  BY <1>4, <3>1, <3>2, <4>1 DEF Before
    <3>. QED  BY <3>2, <3>3, <3>4
  <2>2. CASE ~(i < Len(m.buckets[b]))
    <3>1. q = HeadFrom(m, b + 1) /\ b + 1 \in 0 .. m.nbuckets
      BY <1>1, <1>4, <1>5, <2>2
    <3>2. \/ q = NULL /\ \A r \in Held(m) : r[1] < b + 1
          \/ /\ q \in Held(m) /\ q[1] >= b + 1 /\ q[2] = 1 /\ q # NULL
             /\ \A r \in Held(m) : r[1] < b + 1 \/ r = q \/ Before(q, r)
      <4>. DEFINE c == b + 1
      <4>. HIDE DEF c
      <4>1. c \in 0 .. m.nbuckets /\ q = HeadFrom(m, c)
        BY <3>1 DEF c
      <4>2. \/ q = NULL /\ \A r \in Held(m) : r[1] < c
            \/ /\ q \in Held(m) /\ q[1] >= c /\ q[2] = 1 /\ q # NULL
               /\ \A r \in Held(m) : r[1] < c \/ r = q \/ Before(q, r)
        BY <4>1, HeadIsNext
      <4>. QED  BY <4>2 DEF c
    <3>3. ASSUME NEW r \in Held(m), r[1] < b + 1 PROVE r = p \/ Before(r, p)
      <4>1. r = <<r[1], r[2]>> /\ r[1] \in Nat /\ r[2] \in 1 .. Len(m.buckets[r[1]])
        BY <1>1
      <4>2. r[1] < b \/ r[1] = b
        BY <1>1, <1>4, <3>3, <4>1
      <4>3. ASSUME r[1] = b PROVE r[2] <= i
        BY <1>4, <2>2, <4>1, <4>3
      <4>. QED  BY <1>4, <4>1, <4>2, <4>3 DEF Before
    <3>4. CASE q = NULL /\ \A r \in Held(m) : r[1] < b + 1
      BY <3>3, <3>4
    <3>5. CASE /\ q \in Held(m) /\ q[1] >= b + 1 /\ q[2] = 1 /\ q # NULL
               /\ \A r \in Held(m) : r[1] < b + 1 \/ r = q \/ Before(q, r)
      <4>1. Before(p, q)
        <5>1. q[1] \in Nat
          BY <1>1, <3>5
        <5>. QED  BY <1>4, <3>5, <5>1 DEF Before
      <4>. QED  BY <3>3, <3>5, <4>1
    <3>. QED  BY <3>2, <3>4, <3>5
  <2>. QED  BY <2>1, <2>2
<1>7. CASE q = NULL /\ \A r \in Held(m) : r = p \/ Before(r, p)
  <2>1. Upto(m, p) = Held(m)
    BY <1>7 DEF Upto
  <2>. QED  BY <1>2, <1>3, <1>7, <2>1 DEF q
<1>8. CASE /\ q \in Held(m) /\ q # NULL /\ Before(p, q)
           /\ \A r \in Held(m) : r = p \/ Before(r, p) \/ r = q \/ Before(q, r)
  <2>1. \A r \in Held(m) : r[1] \in Nat /\ r[2] \in Nat
    BY <1>1
  <2>2. q \notin Upto(m, p)
    BY <1>8, <2>1 DEF Upto, Before
  <2>3. Upto(m, q) = Upto(m, p) \cup {q}
    <3>1. ASSUME NEW r \in Upto(m, p) PROVE r \in Upto(m, q)
      BY <1>8, <2>1 DEF Upto, Before
    <3>2. ASSUME NEW r \in Upto(m, q), r # q PROVE r \in Upto(m, p)
      <4>1. r \in Held(m) /\ Before(r, q)
        BY <3>2 DEF Upto
      <4>2. ~Before(q, r)
        BY <1>8, <2>1, <4>1 DEF Before
      <4>. QED  BY <1>8, <3>2, <4>1, <4>2 DEF Upto
    <3>3. q \in Upto(m, q)
      BY <1>8 DEF Upto
    <3>. QED  BY <3>1, <3>2, <3>3
  <2>. QED  BY <1>2, <1>3, <1>8, <2>2, <2>3 DEF q
<1>. QED  BY <1>6, <1>7, <1>8

-----------------------------------------------------------------------------
\* The table has the value of each place under its key.
LEMMA TableAt ==
    ASSUME NEW m, Sound(m), NEW p \in Held(m)
    PROVE  KeyAt(m, p) \in DOMAIN Table(m) /\ Table(m)[KeyAt(m, p)] = ValueAt(m, p)
<1>. DEFINE k == KeyAt(m, p)
            q == CHOOSE r \in Held(m) : KeyAt(m, r) = k
<1>1. q \in Held(m) /\ KeyAt(m, q) = k
  OBVIOUS
<1>2. q = p
  <2>. HIDE DEF q
  <2>. QED  BY <1>1 DEF Sound
<1>3. k \in KeysOf(m)
  BY DEF KeysOf
<1>4. Table(m)[k] = ValueAt(m, q)
  BY <1>3 DEF Table, ValueAt
<1>5. DOMAIN Table(m) = KeysOf(m)
  BY DEF Table
<1>. HIDE DEF q, k
<1>. QED  BY <1>2, <1>3, <1>4, <1>5 DEF k

\* A put, of a known key or a new one.
LEMMA PutEither ==
    ASSUME PrefixFree, NEW m, Sound(m), NEW key \in Keys, NEW v \in Vals
    PROVE  LET new == CmapPut(m, key, v)
           IN  /\ Sound(new) /\ Held(m) \subseteq Held(new)
               /\ \A p \in Held(m) :
                    /\ KeyAt(new, p) = KeyAt(m, p)
                    /\ ValueAt(new, p) = IF KeyAt(m, p) = key THEN v ELSE ValueAt(m, p)
               /\ \E p \in Held(new) : KeyAt(new, p) = key /\ ValueAt(new, p) = v
               /\ \A p \in Held(new) \ Held(m) : KeyAt(new, p) = key
<1>. DEFINE new == CmapPut(m, key, v)
<1>1. CASE Find(m, key) = 0
  <2>. DEFINE b == Hash(key, m.nbuckets)
              at == <<b, Len(m.buckets[b]) + 1>>
  <2>1. /\ Sound(new) /\ at \notin Held(m) /\ Held(new) = Held(m) \cup {at}
        /\ KeyAt(new, at) = key /\ ValueAt(new, at) = v
        /\ \A p \in Held(m) : /\ KeyAt(new, p) = KeyAt(m, p) /\ KeyAt(m, p) # key
                              /\ ValueAt(new, p) = ValueAt(m, p)
    BY <1>1, PutNew
  <2>. HIDE DEF at, new
  <2>. QED  BY <2>1 DEF new
<1>2. CASE Find(m, key) # 0
  <2>1. /\ Sound(new) /\ Held(new) = Held(m)
        /\ \A p \in Held(m) :
             /\ KeyAt(new, p) = KeyAt(m, p)
             /\ ValueAt(new, p) = IF KeyAt(m, p) = key THEN v ELSE ValueAt(m, p)
        /\ \E p \in Held(m) : KeyAt(m, p) = key
    BY <1>2, PutKnown
  <2>. HIDE DEF new
  <2>. QED  BY <2>1 DEF new
<1>. QED  BY <1>1, <1>2

\* A put is one entry more, or another value of one.
LEMMA PutIsWith ==
    ASSUME PrefixFree, NEW m, Sound(m), NEW key \in Keys, NEW v \in Vals
    PROVE  Table(CmapPut(m, key, v)) = Abstract!With(Table(m), key, v)
<1>. DEFINE new == CmapPut(m, key, v)
            want == Abstract!With(Table(m), key, v)
<1>1. /\ Sound(new) /\ Held(m) \subseteq Held(new)
      /\ \A p \in Held(m) :
           /\ KeyAt(new, p) = KeyAt(m, p)
           /\ ValueAt(new, p) = IF KeyAt(m, p) = key THEN v ELSE ValueAt(m, p)
      /\ \E p \in Held(new) : KeyAt(new, p) = key /\ ValueAt(new, p) = v
      /\ \A p \in Held(new) \ Held(m) : KeyAt(new, p) = key
  BY PutEither
<1>. HIDE DEF new
<1>2. KeysOf(new) = KeysOf(m) \cup {key}
  <2>1. ASSUME NEW k \in KeysOf(new) PROVE k \in KeysOf(m) \cup {key}
    <3>1. PICK p \in Held(new) : k = KeyAt(new, p)
      BY DEF KeysOf
    <3>. QED  BY <1>1, <3>1 DEF KeysOf
  <2>2. ASSUME NEW k \in KeysOf(m) PROVE k \in KeysOf(new)
    <3>1. PICK p \in Held(m) : k = KeyAt(m, p)
      BY DEF KeysOf
    <3>. QED  BY <1>1, <3>1 DEF KeysOf
  <2>3. key \in KeysOf(new)
    BY <1>1 DEF KeysOf
  <2>. QED  BY <2>1, <2>2, <2>3
<1>3. DOMAIN Table(new) = KeysOf(new) /\ DOMAIN Table(m) = KeysOf(m)
  BY DEF Table
<1>4. want = [j \in KeysOf(m) \cup {key} |-> IF j = key THEN v ELSE Table(m)[j]]
  BY <1>3 DEF Abstract!With
<1>5. ASSUME NEW k \in KeysOf(new)
      PROVE  Table(new)[k] = IF k = key THEN v ELSE Table(m)[k]
  <2>1. CASE k = key
    <3>1. PICK p \in Held(new) : KeyAt(new, p) = key /\ ValueAt(new, p) = v
      BY <1>1
    <3>. QED  BY <1>1, <2>1, <3>1, TableAt
  <2>2. CASE k # key
    <3>1. PICK p \in Held(m) : k = KeyAt(m, p)
      BY <1>2, <2>2 DEF KeysOf
    <3>2. p \in Held(new) /\ KeyAt(new, p) = k /\ ValueAt(new, p) = ValueAt(m, p)
      BY <1>1, <2>2, <3>1
    <3>3. Table(new)[k] = ValueAt(new, p)
      BY <1>1, <3>2, TableAt
    <3>4. Table(m)[k] = ValueAt(m, p)
      BY <3>1, TableAt
    <3>. QED  BY <2>2, <3>2, <3>3, <3>4
  <2>. QED  BY <2>1, <2>2
<1>6. Table(new) = [k \in KeysOf(new) |-> Table(new)[k]]
  BY DEF Table
<1>. HIDE DEF want
<1>. QED  BY <1>2, <1>4, <1>5, <1>6 DEF new, want

-----------------------------------------------------------------------------
\* A map that is put together rightly, and a loop that has named the places up
\* to the one it stands at: with the order of the places this is inductive.
IInv ==
    /\ Sound(map)
    /\ cursor \in {NULL} \cup Held(map)
    /\ named = IF cursor = NULL THEN {} ELSE Upto(map, cursor)

LEMMA CreatedSound ==
    ASSUME NEW h \in Hints
    PROVE  Sound(CmapCreate(h)) /\ Held(CmapCreate(h)) = {}
<1>. DEFINE n == Capacity(h)
            new == CmapCreate(h)
<1>1. n \in Nat \ {0}
  BY MapAssumption, ClientAssumption DEF Capacity
<1>2. new = [nbuckets |-> n, buckets |-> [i \in 0 .. n - 1 |-> <<>>], size |-> 0]
  BY DEF CmapCreate, Capacity
<1>3. n \in {Capacity(g) : g \in Hints}
  OBVIOUS
<1>. HIDE DEF n, new
<1>4. /\ new.nbuckets = n /\ new.size = 0 /\ new.buckets = [i \in 0 .. n - 1 |-> <<>>]
      /\ new.buckets \in [0 .. n - 1 -> Seq(Cell)]
  BY <1>1, <1>2
<1>5. Held(new) = {}
  BY <1>1, <1>4 DEF Held
<1>6. new \in MapType
  <2>1. new.buckets \in UNION {[0 .. k - 1 -> Seq(Cell)] : k \in Nat}
    BY <1>1, <1>4
  <2>. QED  BY <1>2, <1>3, <1>4, <2>1 DEF MapType
<1>7. IsFiniteSet(Held(new)) /\ new.size = Cardinality(Held(new))
  BY <1>4, <1>5, FS_EmptySet
<1>. QED  BY <1>4, <1>5, <1>6, <1>7 DEF Sound, new

LEMMA HeldIsNotNull ==
    ASSUME NEW m, Sound(m), NEW p \in Held(m)
    PROVE  p # NULL
<1>1. p = <<p[1], p[2]>>
  BY SoundShape
<1>. QED  BY <1>1 DEF NULL

LEMMA InitInv == Init => IInv
BY CreatedSound DEF Init, IInv

\* What the step of the loop does: begin and go on.
LEMMA StepKeepsInv ==
    ASSUME PrefixFree, IInv, [Next]_vars
    PROVE  IInv'
<1>1. Sound(map) /\ cursor \in {NULL} \cup Held(map)
      /\ named = IF cursor = NULL THEN {} ELSE Upto(map, cursor)
  BY DEF IInv
<1>2. ASSUME NEW h \in Hints, Recreate(h) PROVE IInv'
  BY <1>2, CreatedSound DEF Recreate, IInv
<1>3. ASSUME NEW key \in Keys, Get(key) PROVE IInv'
  BY <1>1, <1>3 DEF Get, IInv
<1>4. ASSUME NEW key \in Keys, NEW v \in Vals, Put(key, v) PROVE IInv'
  <2>1. /\ map' = CmapPut(map, key, v) /\ cursor' = cursor /\ named' = named
        /\ cursor # NULL => Find(map, key) # 0
    BY <1>4 DEF Put
  <2>2. CASE Find(map, key) = 0
    <3>1. Sound(CmapPut(map, key, v))
      BY <1>1, <2>2, PutNew
    <3>. QED  BY <1>1, <2>1, <2>2, <3>1 DEF IInv
  <2>3. CASE Find(map, key) # 0
    <3>1. Sound(map') /\ Held(map') = Held(map)
      BY <1>1, <2>1, <2>3, PutKnown
    <3>2. Upto(map', cursor) = Upto(map, cursor)
      BY <3>1 DEF Upto
    <3>. QED  BY <1>1, <2>1, <3>1, <3>2 DEF IInv
  <2>. QED  BY <2>2, <2>3
<1>5. CASE Begin
  <2>1. map' = map /\ cursor' = CmapFirst(map) /\ named' = {cursor'} \ {NULL}
    BY <1>5 DEF Begin
  <2>2. \/ cursor' = NULL /\ Held(map) = {}
        \/ cursor' \in Held(map) /\ cursor' # NULL /\ Upto(map, cursor') = {cursor'}
    BY <1>1, <2>1, FirstPlace
  <2>. QED  BY <1>1, <2>1, <2>2 DEF IInv
<1>6. CASE Advance
  <2>1. /\ map' = map /\ cursor' = CmapNext(map, cursor) /\ cursor # NULL
        /\ named' = IF cursor' = NULL THEN {} ELSE named \cup {cursor'}
    BY <1>6 DEF Advance
  <2>2. \/ cursor' = NULL /\ Upto(map, cursor) = Held(map)
        \/ /\ cursor' \in Held(map) /\ cursor' # NULL /\ cursor' \notin Upto(map, cursor)
           /\ Upto(map, cursor') = Upto(map, cursor) \cup {cursor'}
    BY <1>1, <2>1, NextPlace
  <2>. QED  BY <1>1, <2>1, <2>2 DEF IInv
<1>7. CASE UNCHANGED vars
  BY <1>1, <1>7 DEF vars, IInv
<1>. QED  BY <1>2, <1>3, <1>4, <1>5, <1>6, <1>7 DEF Next

\* Every map a client can make of keys none of which begins another one of its
\* bucket is sound, and every loop over it has named the places up to its own.
THEOREM MapInvariant == ASSUME PrefixFree PROVE Spec => []IInv
<1>1. Init => IInv
  BY InitInv
<1>2. IInv /\ [Next]_vars => IInv'
  BY StepKeepsInv
<1>. QED  BY <1>1, <1>2, PTL DEF Spec

\* The count is right, each cell lies in the bucket of its key, and the lookup
\* of the previous key in cmap_next finds the cell the iteration stands at.
THEOREM MapFindsItself == ASSUME PrefixFree PROVE Spec => []NextFindsItself
<1>1. IInv => NextFindsItself
  <2>. SUFFICES ASSUME IInv PROVE NextFindsItself
    OBVIOUS
  <2>1. Sound(map)
    BY DEF IInv
  <2>2. ASSUME NEW p \in Held(map)
        PROVE  /\ KeyAt(map, p) \in Keys /\ Hash(KeyAt(map, p), map.nbuckets) = p[1]
               /\ Find(map, KeyAt(map, p)) = p[2]
    BY <2>1, CellAtPlace, NextPlace
  <2>3. map.size = Cardinality(Held(map))
    BY <2>1 DEF Sound
  <2>. QED  BY <2>2, <2>3 DEF NextFindsItself
<1>2. Spec => []IInv
  BY MapInvariant
<1>. QED  BY <1>1, <1>2, PTL

-----------------------------------------------------------------------------
\* The abstract key and the keys named, for a loop at a place.
LEMMA KeyIsKey ==
    ASSUME IInv
    PROVE  /\ \A p \in Held(map) : KeyAt(map, p) \in KeysOf(map) /\ KeyAt(map, p) # NoKey
           /\ DOMAIN Table(map) = KeysOf(map)
<1>1. \A p \in Held(map) : KeyAt(map, p) \in Keys
  BY CellAtPlace DEF IInv
<1>2. NoKey \notin Keys
  <2>. SUFFICES ASSUME NoKey \in Keys PROVE FALSE
    OBVIOUS
  <2>1. NoKey \in Seq(Nat \ {NUL})
    BY ClientAssumption
  <2>2. Len(NoKey) = 1 /\ NoKey[1] = NUL
    BY DEF NoKey
  <2>3. NoKey[1] \in Nat \ {NUL}
    BY <2>1, <2>2
  <2>. QED  BY <2>2, <2>3
<1>. QED  BY <1>1, <1>2 DEF KeysOf, Table

LEMMA InitMaps == Init => Abstract!Init
<1>. SUFFICES ASSUME Init PROVE Abstract!Init
  OBVIOUS
<1>1. PICK h \in Hints : map = CmapCreate(h)
  BY DEF Init
<1>2. KeysOf(map) = {}
  BY <1>1, CreatedSound DEF KeysOf
<1>3. Table(map) = Abstract!NoEntry
  BY <1>2 DEF Table, Abstract!NoEntry
<1>. QED  BY <1>3 DEF Init, Abstract!Init

\* Every step is one of the promise or leaves it as it is.
LEMMA StepMaps ==
    ASSUME PrefixFree, IInv, [Next]_vars
    PROVE  [Abstract!Next]_(Abstract!vars)
<1>. DEFINE key == IF cursor = NULL THEN NoKey ELSE KeyAt(map, cursor)
            seen == {KeyAt(map, p) : p \in named}
<1>1. /\ Sound(map) /\ cursor \in {NULL} \cup Held(map)
      /\ named = IF cursor = NULL THEN {} ELSE Upto(map, cursor)
      /\ named \subseteq Held(map)
  BY DEF IInv, Upto
<1>2. /\ \A p \in Held(map) : KeyAt(map, p) \in KeysOf(map) /\ KeyAt(map, p) # NoKey
      /\ DOMAIN Table(map) = KeysOf(map)
  BY KeyIsKey
<1>3. ASSUME NEW h \in Hints, Recreate(h) PROVE Abstract!Empty
  <2>1. KeysOf(map') = {}
    BY <1>3, CreatedSound DEF Recreate, KeysOf
  <2>2. Table(map') = Abstract!NoEntry
    BY <2>1 DEF Table, Abstract!NoEntry
  <2>. QED  BY <1>3, <2>2 DEF Recreate, Abstract!Empty
<1>4. ASSUME NEW k \in Keys, Get(k) PROVE Abstract!Get(k)
  <2>1. answer' = <<k, CmapGet(map, k, NoByte)>> /\ UNCHANGED <<map, cursor, named>>
    BY <1>4 DEF Get
  <2>2. CmapGet(map, k, NoByte) = IF k \in DOMAIN Table(map) THEN Table(map)[k] ELSE NoByte
    <3>1. CASE k \in KeysOf(map)
      <4>1. PICK p \in Held(map) : KeyAt(map, p) = k
        BY <3>1 DEF KeysOf
      <4>2. CmapGet(map, k, NoByte) = ValueAt(map, p)
        BY <1>1, <4>1, GetFinds
      <4>3. Table(map)[k] = ValueAt(map, p)
        BY <1>1, <4>1, TableAt
      <4>. QED  BY <1>2, <3>1, <4>2, <4>3
    <3>2. CASE k \notin KeysOf(map)
      <4>1. \A p \in Held(map) : KeyAt(map, p) # k
        BY <3>2 DEF KeysOf
      <4>2. CmapGet(map, k, NoByte) = NoByte
        BY <1>1, <4>1, GetFinds
      <4>. QED  BY <1>2, <3>2, <4>2
    <3>. QED  BY <3>1, <3>2
  <2>. QED  BY <2>1, <2>2 DEF Abstract!Get
<1>5. ASSUME NEW k \in Keys, NEW v \in Vals, Put(k, v) PROVE Abstract!Put(k, v)
  <2>1. /\ map' = CmapPut(map, k, v) /\ answer' = <<k, v>> /\ cursor' = cursor /\ named' = named
        /\ cursor # NULL => Find(map, k) # 0
    BY <1>5 DEF Put
  <2>2. Table(map)' = Abstract!With(Table(map), k, v)
    BY <1>1, <2>1, PutIsWith
  <2>3. \A p \in Held(map) : KeyAt(map', p) = KeyAt(map, p)
    <3>1. \A p \in Held(map) : KeyAt(CmapPut(map, k, v), p) = KeyAt(map, p)
      BY <1>1, PutEither
    <3>. QED  BY <2>1, <3>1
  <2>4. key' = key
    BY <1>1, <2>1, <2>3
  <2>5. seen' = seen
    BY <1>1, <2>1, <2>3
  <2>6. key # NoKey => k \in DOMAIN Table(map)
    <3>. SUFFICES ASSUME key # NoKey PROVE k \in KeysOf(map)
      BY <1>2
    <3>1. Find(map, k) # 0
      BY <2>1
    <3>2. \E p \in Held(map) : KeyAt(map, p) = k
      BY <1>1, <3>1, GetFinds
    <3>. QED  BY <3>2 DEF KeysOf
  <2>. QED  BY <2>1, <2>2, <2>4, <2>5, <2>6 DEF Abstract!Put
<1>6. CASE Begin
  <2>1. /\ map' = map /\ cursor' = CmapFirst(map) /\ named' = {cursor'} \ {NULL}
        /\ cursor = NULL /\ answer' = <<>>
    BY <1>6 DEF Begin
  <2>2. CASE cursor' = NULL /\ Held(map) = {}
    <3>1. KeysOf(map) = {}
      BY <2>2 DEF KeysOf
    <3>2. key' = NoKey /\ seen' = {} /\ Table(map)' = Table(map) /\ key = NoKey
      BY <2>1, <2>2
    <3>. QED  BY <1>2, <2>1, <3>1, <3>2 DEF Abstract!StepTo, Abstract!Next
  <2>3. CASE cursor' \in Held(map) /\ cursor' # NULL
    <3>1. /\ key' = KeyAt(map, cursor') /\ seen' = {KeyAt(map, cursor')}
          /\ Table(map)' = Table(map) /\ key = NoKey
      BY <2>1, <2>3
    <3>2. KeyAt(map, cursor') \in DOMAIN Table(map) \ {}
      BY <1>2, <2>3
    <3>3. Abstract!StepTo({})
      <4>. DEFINE k == KeyAt(map, cursor')
      <4>1. k \in DOMAIN Table(map) \ {} /\ key' = k /\ seen' = {} \cup {k}
        BY <3>1, <3>2
      <4>. HIDE DEF k, key, seen
      <4>. QED  BY <2>1, <3>1, <4>1 DEF Abstract!StepTo, key, seen
    <3>. QED  BY <3>1, <3>3 DEF Abstract!Next
  <2>. QED  BY <1>1, <2>1, <2>2, <2>3, FirstPlace
<1>7. CASE Advance
  <2>1. /\ map' = map /\ cursor' = CmapNext(map, cursor) /\ cursor # NULL
        /\ named' = (IF cursor' = NULL THEN {} ELSE named \cup {cursor'})
        /\ answer' = <<>> /\ cursor \in Held(map) /\ named = Upto(map, cursor)
    BY <1>1, <1>7 DEF Advance
  <2>2. key # NoKey /\ Table(map)' = Table(map)
    BY <1>2, <2>1
  <2>3. \/ cursor' = NULL /\ named = Held(map)
        \/ cursor' \in Held(map) /\ cursor' # NULL /\ cursor' \notin named
    BY <1>1, <2>1, NextPlace
  <2>4. CASE cursor' = NULL /\ named = Held(map)
    <3>1. seen = KeysOf(map)
      BY <2>4 DEF KeysOf
    <3>2. key' = NoKey /\ seen' = {}
      BY <2>1, <2>4
    <3>3. Abstract!StepTo(seen)
      <4>. HIDE DEF key, seen
      <4>. QED  BY <1>2, <2>1, <2>2, <3>1, <3>2 DEF Abstract!StepTo, key, seen
    <3>. QED  BY <2>2, <3>3 DEF Abstract!Next
  <2>5. CASE cursor' \in Held(map) /\ cursor' # NULL /\ cursor' \notin named
    <3>. DEFINE k == KeyAt(map, cursor')
    <3>1. k \in DOMAIN Table(map) \ seen
      <4>1. \A p \in named : KeyAt(map, p) # k
        BY <1>1, <2>5 DEF Sound
      <4>. QED  BY <1>2, <2>5, <4>1
    <3>2. key' = k /\ seen' = seen \cup {k}
      BY <2>1, <2>5
    <3>3. Abstract!StepTo(seen)
      <4>. HIDE DEF k, key, seen
      <4>. QED  BY <2>1, <2>2, <3>1, <3>2 DEF Abstract!StepTo, key, seen
    <3>. QED  BY <2>2, <3>3 DEF Abstract!Next
  <2>. QED  BY <2>3, <2>4, <2>5
<1>8. CASE UNCHANGED vars
  BY <1>8 DEF vars, Abstract!vars
<1>. QED  BY <1>3, <1>4, <1>5, <1>6, <1>7, <1>8 DEF Next, Abstract!Next

\* The map is the function from keys to values that cmap.h promises, through
\* every put, lookup and loop, and whatever the clients put meanwhile.
THEOREM MapImplements == ASSUME PrefixFree PROVE Spec => ImplementsMap
<1>1. Init => Abstract!Init
  BY InitMaps
<1>2. IInv /\ [Next]_vars => [Abstract!Next]_(Abstract!vars)
  BY StepMaps
<1>3. Spec => []IInv
  BY MapInvariant
<1>. QED  BY <1>1, <1>2, <1>3, PTL DEF Spec, ImplementsMap, Abstract!Spec

-----------------------------------------------------------------------------
\* The rounds of the iteration in cmap_dispose follow each other.
LEMMA WalkGoesOn ==
    ASSUME PrefixFree, NEW m, Sound(m)
    PROVE  /\ Walk(m) \in [0 .. m.size -> Held(m) \cup {NULL}]
           /\ Walk(m)[0] = CmapFirst(m)
           /\ \A k \in 1 .. m.size :
                Walk(m)[k] = IF Walk(m)[k - 1] = NULL THEN NULL ELSE CmapNext(m, Walk(m)[k - 1])
<1>. DEFINE L == m.size
            S == Held(m) \cup {NULL}
            next(x) == IF x = NULL THEN NULL ELSE CmapNext(m, x)
            first == CmapFirst(m)
            F(g) == [k \in 0 .. L |-> IF k = 0 THEN first ELSE next(g[k - 1])]
            step == [k \in 1 .. L |-> [x \in S |-> next(x)]]
            W == CHOOSE g : g = F(g)
<1>1. L \in Nat
  BY SoundShape
<1>2. first \in S
  BY FirstPlace
<1>3. \A x \in S : next(x) \in S
  BY NextPlace
<1>4. Walk(m) = W
  BY DEF Walk
<1>. HIDE DEF L, S, next, first
<1>5. step \in [1 .. L -> [S -> S]]
  BY <1>3
<1>6. PICK g \in [0 .. L -> S] : Iterates(g, L, first, step)
  <2>. HIDE DEF step
  <2>. QED  BY <1>1, <1>2, <1>5, RecursionExists
<1>7. ASSUME NEW k \in 0 .. L
      PROVE  g[k] = IF k = 0 THEN first ELSE next(g[k - 1])
  <2>1. g[k] = IF k = 0 THEN first ELSE step[k][g[k - 1]]
    <3>. HIDE DEF step
    <3>. QED  BY <1>6 DEF Iterates
  <2>2. ASSUME k # 0 PROVE k \in 1 .. L /\ k - 1 \in 0 .. L
    BY <1>1, <2>2
  <2>3. ASSUME k # 0 PROVE step[k][g[k - 1]] = next(g[k - 1])
    BY <2>2, <2>3
  <2>. HIDE DEF step
  <2>. QED  BY <2>1, <2>3
<1>8. g = F(g)
  BY <1>7
<1>9. W = F(W)
  <2>. HIDE DEF F
  <2>. QED  BY <1>8
<1>. HIDE DEF W
<1>10. W[0] = first /\ \A k \in 1 .. L : W[k] = next(W[k - 1])
  <2>1. 0 \in 0 .. L /\ \A k \in 1 .. L : k \in 0 .. L /\ k # 0
    BY <1>1
  <2>. QED  BY <1>9, <2>1
<1>. DEFINE T == {k \in Nat : k <= L => W[k] \in S}
<1>11. 0 \in T
  BY <1>2, <1>10
<1>12. ASSUME NEW k \in Nat, k \in T PROVE k + 1 \in T
  <2>. SUFFICES ASSUME k + 1 <= L PROVE W[k + 1] \in S
    OBVIOUS
  <2>1. k + 1 \in 1 .. L /\ (k + 1) - 1 = k /\ W[k] \in S
    BY <1>1, <1>12
  <2>2. W[k + 1] = next(W[k])
    <3>. DEFINE j == k + 1
    <3>1. j \in 1 .. L /\ j - 1 = k
      BY <2>1
    <3>. HIDE DEF j
    <3>2. W[j] = next(W[j - 1])
      BY <1>10, <3>1
    <3>. QED  BY <3>1, <3>2 DEF j
  <2>. QED  BY <1>3, <2>1, <2>2
<1>13. Nat \subseteq T
  <2>. HIDE DEF T
  <2>. QED  BY <1>11, <1>12, InductionOnNat
<1>14. \A k \in 0 .. L : W[k] \in S
  BY <1>1, <1>13
<1>15. W \in [0 .. L -> S]
  <2>1. W = [k \in 0 .. L |-> W[k]]
    BY <1>9
  <2>. QED  BY <1>14, <2>1
<1>. QED  BY <1>4, <1>10, <1>15 DEF L, S, next, first

\* They name every place, once, and then end within the room of the array.
LEMMA WalkNamesAll ==
    ASSUME PrefixFree, NEW m, Sound(m)
    PROVE  LET W == Walk(m)
           IN  /\ W[m.size] = NULL
               /\ \A p \in Held(m) : \E k \in 0 .. m.size : W[k] = p
               /\ \A k \in 0 .. m.size : W[k] # NULL => W[k] \in Held(m)
               /\ \A j, k \in 0 .. m.size : W[j] # NULL /\ W[j] = W[k] => j = k
<1>. DEFINE L == m.size
            W == Walk(m)
            upto(k) == {W[j] : j \in 0 .. k}
            good(k) == IF W[k] = NULL THEN Held(m) \subseteq upto(k)
                       ELSE /\ Upto(m, W[k]) = upto(k) /\ IsFiniteSet(upto(k))
                            /\ Cardinality(upto(k)) = k + 1
            T == {k \in Nat : k <= L => good(k)}
<1>1. /\ L \in Nat /\ IsFiniteSet(Held(m)) /\ L = Cardinality(Held(m))
      /\ W \in [0 .. L -> Held(m) \cup {NULL}]
      /\ W[0] = CmapFirst(m)
      /\ \A k \in 1 .. L : W[k] = IF W[k - 1] = NULL THEN NULL ELSE CmapNext(m, W[k - 1])
  <2>1. L \in Nat /\ IsFiniteSet(Held(m)) /\ L = Cardinality(Held(m))
    BY SoundShape DEF Sound
  <2>. QED  BY <2>1, WalkGoesOn
<1>. HIDE DEF W, L
<1>2. upto(0) = {W[0]} /\ \A k \in Nat : upto(k + 1) = upto(k) \cup {W[k + 1]}
  <2>1. ASSUME NEW k \in Nat PROVE upto(k + 1) = upto(k) \cup {W[k + 1]}
    <3>1. 0 .. k + 1 = (0 .. k) \cup {k + 1}
      OBVIOUS
    <3>. QED  BY <3>1
  <2>2. 0 .. 0 = {0}
    OBVIOUS
  <2>. QED  BY <2>1, <2>2
<1>. HIDE DEF upto
<1>3. 0 \in T
  <2>1. \/ W[0] = NULL /\ Held(m) = {}
        \/ W[0] \in Held(m) /\ W[0] # NULL /\ Upto(m, W[0]) = {W[0]}
    BY <1>1, FirstPlace
  <2>2. IsFiniteSet({W[0]}) /\ Cardinality({W[0]}) = 1
    BY FS_Singleton
  <2>3. CASE W[0] = NULL /\ Held(m) = {}
    BY <2>3
  <2>4. CASE W[0] \in Held(m) /\ W[0] # NULL /\ Upto(m, W[0]) = {W[0]}
    <3>1. IsFiniteSet(upto(0)) /\ Cardinality(upto(0)) = 0 + 1 /\ Upto(m, W[0]) = upto(0)
      BY <1>2, <2>2, <2>4
    <3>. QED  BY <2>4, <3>1
  <2>. QED  BY <2>1, <2>3, <2>4
<1>4. ASSUME NEW k \in Nat, k \in T PROVE k + 1 \in T
  <2>. DEFINE j == k + 1
              p == W[k]
              q == W[j]
  <2>. SUFFICES ASSUME j <= L PROVE good(j)
    OBVIOUS
  <2>1. j \in 1 .. L /\ j - 1 = k /\ good(k) /\ j \in Nat /\ k \in 0 .. L
    BY <1>1, <1>4
  <2>2. upto(j) = upto(k) \cup {q}
    BY <1>2
  <2>. HIDE DEF j
  <2>3. q = (IF p = NULL THEN NULL ELSE CmapNext(m, p)) /\ p \in Held(m) \cup {NULL}
    BY <1>1, <2>1
  <2>4. CASE p = NULL
    <3>1. q = NULL
      BY <2>3, <2>4
    <3>2. Held(m) \subseteq upto(j)
      BY <2>1, <2>2, <2>4
    <3>. QED  BY <3>1, <3>2
  <2>5. CASE p # NULL
    <3>1. Upto(m, p) = upto(k) /\ IsFiniteSet(upto(k)) /\ Cardinality(upto(k)) = k + 1
      BY <2>1, <2>5
    <3>2. \/ q = NULL /\ Upto(m, p) = Held(m)
          \/ q \in Held(m) /\ q # NULL /\ q \notin Upto(m, p) /\ Upto(m, q) = Upto(m, p) \cup {q}
      <4>1. p \in Held(m) /\ q = CmapNext(m, p)
        BY <2>3, <2>5
      <4>. HIDE DEF q
      <4>. QED  BY <4>1, NextPlace
    <3>3. CASE q = NULL /\ Upto(m, p) = Held(m)
      <4>1. Held(m) \subseteq upto(j)
        BY <2>2, <3>1, <3>3
      <4>. QED  BY <3>3, <4>1
    <3>4. CASE q \in Held(m) /\ q # NULL /\ q \notin Upto(m, p) /\ Upto(m, q) = Upto(m, p) \cup {q}
      <4>1. Upto(m, q) = upto(j)
        BY <2>2, <3>1, <3>4
      <4>2. IsFiniteSet(upto(j)) /\ Cardinality(upto(j)) = (k + 1) + 1
        BY <2>2, <3>1, <3>4, FS_AddElement
      <4>3. Cardinality(upto(j)) = j + 1
        BY <4>2 DEF j
      <4>. QED  BY <3>4, <4>1, <4>2, <4>3
    <3>. QED  BY <3>2, <3>3, <3>4
  <2>. QED  BY <2>4, <2>5
<1>5. Nat \subseteq T
  <2>. HIDE DEF T
  <2>. QED  BY <1>3, <1>4, InductionOnNat
<1>6. \A k \in 0 .. L : good(k)
  BY <1>1, <1>5
<1>7. W[L] = NULL
  <2>. SUFFICES ASSUME W[L] # NULL PROVE FALSE
    OBVIOUS
  <2>1. good(L)
    BY <1>1, <1>6
  <2>2. Cardinality(Upto(m, W[L])) = L + 1
    BY <2>1
  <2>3. Cardinality(Upto(m, W[L])) <= Cardinality(Held(m))
    BY <1>1, FS_Subset DEF Upto
  <2>. QED  BY <1>1, <2>2, <2>3
<1>8. Held(m) \subseteq upto(L)
  BY <1>1, <1>6, <1>7
<1>9. \A j, k \in 0 .. L : W[j] # NULL /\ W[j] = W[k] => j = k
  <2>. SUFFICES ASSUME NEW j \in 0 .. L, NEW k \in 0 .. L, W[j] # NULL, W[j] = W[k]
                PROVE  j = k
    OBVIOUS
  <2>1. Cardinality(Upto(m, W[j])) = j + 1 /\ Cardinality(Upto(m, W[k])) = k + 1
    BY <1>6
  <2>. QED  BY <2>1
<1>10. \A p \in Held(m) : \E k \in 0 .. L : W[k] = p
  BY <1>8 DEF upto
<1>11. \A k \in 0 .. L : W[k] # NULL => W[k] \in Held(m)
  BY <1>1
<1>. QED  BY <1>7, <1>9, <1>10, <1>11 DEF W, L

\* Behind the heads of the buckets are exactly the cells whose predecessor the
\* iteration names, and it names each once.
LEMMA SoundFreesEachOnce ==
    ASSUME PrefixFree, NEW m, Sound(m)
    PROVE  /\ Walk(m)[m.size] = NULL /\ IsInjective(NextCells(m))
           /\ Range(NextCells(m)) \cap Heads(m) = {}
           /\ Range(NextCells(m)) \cup Heads(m) = Held(m)
<1>. DEFINE L == m.size
            W == Walk(m)
            N == NextCells(m)
            D == {j \in 0 .. L : HasNext(m, W[j])}
<1>1. /\ W[L] = NULL
      /\ \A p \in Held(m) : \E k \in 0 .. L : W[k] = p
      /\ \A k \in 0 .. L : W[k] # NULL => W[k] \in Held(m)
      /\ \A j, k \in 0 .. L : W[j] # NULL /\ W[j] = W[k] => j = k
  BY WalkNamesAll
<1>2. /\ m.nbuckets \in Nat /\ m.buckets \in [0 .. m.nbuckets - 1 -> Seq(Cell)]
      /\ \A p \in Held(m) : p = <<p[1], p[2]>> /\ p[1] \in 0 .. m.nbuckets - 1
                            /\ p[2] \in 1 .. Len(m.buckets[p[1]])
      /\ \A c \in 0 .. m.nbuckets - 1 : \A j \in 1 .. Len(m.buckets[c]) : <<c, j>> \in Held(m)
  BY SoundShape
<1>3. N = [k \in D |-> <<W[k][1], W[k][2] + 1>>]
  BY DEF NextCells
<1>. HIDE DEF W, N, L
<1>4. ASSUME NEW k \in D
      PROVE  /\ W[k] \in Held(m) /\ W[k] # NULL
             /\ W[k] = <<W[k][1], W[k][2]>> /\ W[k][2] \in Nat \ {0}
             /\ <<W[k][1], W[k][2] + 1>> \in Held(m)
  <2>. DEFINE p == W[k]
  <2>1. p \in Held(m) /\ p # NULL /\ p[2] < Len(m.buckets[p[1]])
    BY <1>1 DEF HasNext
  <2>. HIDE DEF p
  <2>2. /\ p = <<p[1], p[2]>> /\ p[1] \in 0 .. m.nbuckets - 1
        /\ p[2] \in 1 .. Len(m.buckets[p[1]])
    BY <1>2, <2>1
  <2>3. p[2] + 1 \in 1 .. Len(m.buckets[p[1]])
    <3>1. Len(m.buckets[p[1]]) \in Nat
      BY <1>2, <2>2
    <3>. QED  BY <2>1, <2>2, <3>1
  <2>4. <<p[1], p[2] + 1>> \in Held(m)
    <3>. DEFINE i == p[2] + 1
    <3>. HIDE DEF i
    <3>1. i \in 1 .. Len(m.buckets[p[1]])
      BY <2>3 DEF i
    <3>2. <<p[1], i>> \in Held(m)
      BY <1>2, <2>2, <3>1
    <3>. QED  BY <3>2 DEF i
  <2>5. p[2] \in Nat \ {0}
    BY <2>2
  <2>. QED  BY <2>1, <2>2, <2>4, <2>5 DEF p
<1>. HIDE DEF D
<1>5. IsInjective(N)
  <2>1. ASSUME NEW j \in D, NEW k \in D, N[j] = N[k] PROVE j = k
    <3>. DEFINE r == W[j][2] + 1
                s == W[k][2] + 1
    <3>1. <<W[j][1], r>> = <<W[k][1], s>>
      BY <1>3, <2>1
    <3>. HIDE DEF r, s
    <3>2. W[j][1] = W[k][1] /\ r = s
      BY <3>1
    <3>3. W[j][2] = W[k][2]
      <4>. DEFINE x == W[j][2]
                  y == W[k][2]
      <4>1. x \in Nat /\ y \in Nat
        BY <1>4
      <4>2. x + 1 = y + 1
        BY <3>2 DEF r, s
      <4>. HIDE DEF x, y
      <4>3. x = y
        BY <4>1, <4>2
      <4>. QED  BY <4>3 DEF x, y
    <3>4. W[j] = W[k] /\ W[j] # NULL
      BY <1>4, <3>2, <3>3
    <3>5. j \in 0 .. L /\ k \in 0 .. L
      BY DEF D
    <3>. QED  BY <1>1, <3>4, <3>5
  <2>2. DOMAIN N = D
    BY <1>3
  <2>. QED  BY <2>1, <2>2 DEF IsInjective
<1>6. ASSUME NEW q \in Range(N)
      PROVE  q \in Held(m) /\ q \notin Heads(m)
  <2>1. PICK k \in D : q = <<W[k][1], W[k][2] + 1>>
    BY <1>3 DEF Range
  <2>2. q \in Held(m) /\ q[2] = W[k][2] + 1 /\ W[k][2] \in Nat \ {0}
    BY <1>4, <2>1
  <2>3. q[2] # 1
    BY <2>2
  <2>. QED  BY <2>2, <2>3 DEF Heads
<1>7. ASSUME NEW q \in Heads(m) PROVE q \in Held(m)
  <2>1. PICK b \in 0 .. m.nbuckets - 1 : m.buckets[b] # <<>> /\ q = <<b, 1>>
    BY DEF Heads
  <2>2. 1 \in 1 .. Len(m.buckets[b])
    BY <1>2, <2>1
  <2>. QED  BY <1>2, <2>1, <2>2
<1>8. ASSUME NEW q \in Held(m), q \notin Heads(m) PROVE q \in Range(N)
  <2>. DEFINE b == q[1]
              i == q[2] - 1
              p == <<b, i>>
  <2>1. q = <<b, q[2]>> /\ b \in 0 .. m.nbuckets - 1 /\ q[2] \in 1 .. Len(m.buckets[b])
    BY <1>2
  <2>2. m.buckets[b] # <<>> /\ Len(m.buckets[b]) \in Nat
    BY <1>2, <2>1
  <2>3. q[2] # 1
    BY <1>8, <2>1, <2>2 DEF Heads
  <2>4. i \in 1 .. Len(m.buckets[b]) /\ i < Len(m.buckets[b]) /\ i + 1 = q[2]
    BY <2>1, <2>2, <2>3
  <2>. HIDE DEF i
  <2>5. p \in Held(m) /\ p[1] = b /\ p[2] = i
    BY <1>2, <2>1, <2>4
  <2>6. p # NULL
    BY DEF NULL
  <2>. HIDE DEF p
  <2>7. PICK k \in 0 .. L : W[k] = p
    BY <1>1, <2>5
  <2>8. k \in D
    BY <2>4, <2>5, <2>6, <2>7 DEF D, HasNext
  <2>9. N[k] = q
    <3>1. N[k] = <<p[1], p[2] + 1>>
      BY <1>3, <2>7, <2>8
    <3>. QED  BY <2>1, <2>4, <2>5, <3>1
  <2>. QED  BY <1>3, <2>8, <2>9 DEF Range
<1>9. Range(N) \cap Heads(m) = {} /\ Range(N) \cup Heads(m) = Held(m)
  BY <1>6, <1>7, <1>8
<1>. QED  BY <1>1, <1>5, <1>9 DEF W, N, L

\* cmap_dispose frees every cell, and each once, and never collects more next
\* pointers than its array has room for.
THEOREM MapFreesEachOnce == ASSUME PrefixFree PROVE Spec => []FreesEachOnce
<1>1. IInv => FreesEachOnce
  BY SoundFreesEachOnce DEF IInv, FreesEachOnce
<1>2. Spec => []IInv
  BY MapInvariant
<1>. QED  BY <1>1, <1>2, PTL
=============================================================================
