-------------------------- MODULE BlockHeapProofs ---------------------------
(***************************************************************************)
(* What BlockHeapSpec guarantees for every page size, segment size, number *)
(* of lists and set of requests, whatever the kernel refuses.              *)
(***************************************************************************)
EXTENDS BlockHeapSpec, TLAPS

-----------------------------------------------------------------------------
(***************************************************************************)
(* Coalescing.  B is a row of blocks in which only b may have free         *)
(* neighbours.                                                             *)
(***************************************************************************)
\* The fields of a block are numbers, and so is the header of its right neighbour.
LEMMA BlockFields ==
    ASSUME NEW b \in Block
    PROVE  /\ b.at \in Nat /\ b.size \in Nat /\ b.want \in Nat /\ b.alloc \in BOOLEAN
           /\ EndOf(b) \in Nat /\ EndOf(b) = b.at + b.size + 2
BY DEF Block, EndOf, TagWords

\* The block that set_block marks free (freeBlock, allocator.c 41-45) has the fields it was given.
LEMMA FreeBlockFields ==
    ASSUME NEW at \in Nat, NEW size \in Nat
    PROVE  /\ FreeBlock(at, size) \in Block
           /\ FreeBlock(at, size).at = at
           /\ FreeBlock(at, size).size = size
           /\ ~FreeBlock(at, size).alloc
           /\ FreeBlock(at, size).want = 0
           /\ EndOf(FreeBlock(at, size)) = at + size + 2
BY DEF Block, FreeBlock, EndOf, TagWords

\* Two blocks of a row that end at, or start at, the same word are the same.
LEMMA SameEnd ==
    ASSUME NEW B \in SUBSET Block, Separate(B), NEW b \in B, NEW c \in B,
           EndOf(b) = EndOf(c) \/ b.at = c.at
    PROVE  b = c
<1>1. /\ b.at < EndOf(b) /\ c.at < EndOf(c)
      /\ b.at \in Nat /\ c.at \in Nat /\ EndOf(b) \in Nat /\ EndOf(c) \in Nat
  BY BlockFields
<1>. QED  BY <1>1 DEF Separate

\* What coalesce merges: b with at most one block on each side.
LEMMA Neighbours ==
    ASSUME NEW B \in SUBSET Block, Separate(B), NEW b \in B
    PROVE  /\ LeftFree(B, b) = {} \/ \E l \in B : /\ LeftFree(B, b) = {l}
                                                  /\ ~l.alloc /\ EndOf(l) = b.at
           /\ RightFree(B, b) = {} \/ \E r \in B : /\ RightFree(B, b) = {r}
                                                   /\ ~r.alloc /\ r.at = EndOf(b)
<1>1. ASSUME NEW l \in LeftFree(B, b)
      PROVE  LeftFree(B, b) = {l} /\ l \in B /\ ~l.alloc /\ EndOf(l) = b.at
  BY <1>1, SameEnd DEF LeftFree
<1>2. ASSUME NEW r \in RightFree(B, b)
      PROVE  RightFree(B, b) = {r} /\ r \in B /\ ~r.alloc /\ r.at = EndOf(b)
  BY <1>2, SameEnd DEF RightFree
<1>. QED  BY <1>1, <1>2

\* The left edge s of the merged block: nothing that stays crosses it, and
\* what lies directly left of it is the prologue or an allocated block.
LEMMA LeftEdge ==
    ASSUME NEW B \in SUBSET Block, NEW lo \in Int, NEW hi \in Int, NEW b \in B, ~b.alloc,
           Row(B, lo, hi), NoFreePair(B \ {b})
    PROVE  /\ MergeStart(B, b) \in lo .. hi /\ MergeStart(B, b) \in 0 .. b.at
           /\ \A c \in B \ Merged(B, b) : EndOf(c) <= MergeStart(B, b) \/ EndOf(b) <= c.at
           /\ MergeStart(B, b) = lo \/ \E c \in B \ Merged(B, b) : EndOf(c) = MergeStart(B, b)
           /\ \A c \in B \ Merged(B, b) : EndOf(c) = MergeStart(B, b) => c.alloc
           /\ \A c \in B \ Merged(B, b), d \in Merged(B, b) : EndOf(c) = d.at => d.at = MergeStart(B, b)
           /\ \A d \in Merged(B, b) : MergeStart(B, b) <= d.at
<1>. DEFINE s == MergeStart(B, b)
<1>. Within(B, lo, hi) /\ Separate(B) /\ Gapless(B, lo, hi)
  BY DEF Row
<1>0. \A c \in B : /\ c.at \in Nat /\ EndOf(c) \in Nat /\ c.at < EndOf(c)
  BY BlockFields
<1>1. CASE LeftFree(B, b) = {}
  <2>1. s = b.at
    BY <1>1 DEF MergeStart
  <2>2. ASSUME NEW c \in B \ Merged(B, b)
        PROVE  /\ EndOf(c) <= s \/ EndOf(b) <= c.at
               /\ EndOf(c) = s => c.alloc
    BY <1>1, <2>1 DEF Separate, Merged, LeftFree
  <2>3. s = lo \/ \E c \in B \ Merged(B, b) : EndOf(c) = s
    <3>1. SUFFICES ASSUME NEW c \in B, EndOf(c) = b.at
                   PROVE  c \notin Merged(B, b)
      BY <2>1 DEF Gapless
    <3>2. c # b /\ c \notin RightFree(B, b)
      BY <1>0, <3>1 DEF RightFree
    <3>. QED  BY <1>1, <3>2 DEF Merged
  <2>4. ASSUME NEW c \in B \ Merged(B, b), NEW d \in Merged(B, b), EndOf(c) = d.at
        PROVE  d.at = s
    <3>1. d = b \/ d.at = EndOf(b)
      BY <1>1 DEF Merged, RightFree
    <3>2. d.at # EndOf(b)
      BY <2>4, SameEnd DEF Merged
    <3>. QED  BY <2>1, <3>1, <3>2
  <2>5. \A d \in Merged(B, b) : s <= d.at
    BY <1>0, <1>1, <2>1 DEF Merged, RightFree
  <2>. QED  BY <1>0, <2>1, <2>2, <2>3, <2>4, <2>5 DEF Within
<1>2. CASE LeftFree(B, b) # {}
  <2>1. PICK l \in B : LeftFree(B, b) = {l} /\ ~l.alloc /\ EndOf(l) = b.at
    BY <1>2, Neighbours
  <2>2. s = l.at
    BY <2>1 DEF MergeStart
  <2>3. l # b /\ l.at < b.at
    BY <1>0, <2>1
  <2>4. ASSUME NEW c \in B \ Merged(B, b)
        PROVE  /\ EndOf(c) <= s \/ EndOf(b) <= c.at
               /\ EndOf(c) = s => c.alloc
    <3>1. c # b /\ c # l /\ c \in B
      BY <2>1 DEF Merged
    <3>2. EndOf(c) = l.at => c.alloc
      BY <2>1, <2>3, <3>1 DEF NoFreePair
    <3>3. /\ EndOf(c) <= l.at \/ EndOf(l) <= c.at
          /\ EndOf(c) <= b.at \/ EndOf(b) <= c.at
      BY <3>1 DEF Separate
    <3>. QED  BY <1>0, <2>1, <2>2, <3>1, <3>2, <3>3
  <2>5. s = lo \/ \E c \in B \ Merged(B, b) : EndOf(c) = s
    <3>1. SUFFICES ASSUME NEW c \in B, EndOf(c) = l.at
                   PROVE  c \notin Merged(B, b)
      BY <2>2 DEF Gapless
    <3>2. c # b /\ c # l /\ c \notin RightFree(B, b)
      BY <1>0, <2>1, <2>3, <3>1 DEF RightFree
    <3>. QED  BY <2>1, <3>2 DEF Merged
  <2>6. ASSUME NEW c \in B \ Merged(B, b), NEW d \in Merged(B, b), EndOf(c) = d.at
        PROVE  d.at = s
    <3>1. d = l \/ d = b \/ d.at = EndOf(b)
      BY <2>1 DEF Merged, RightFree
    <3>2. d.at # EndOf(b)
      BY <2>6, SameEnd DEF Merged
    <3>3. d # b
      BY <2>1, <2>6, SameEnd DEF Merged
    <3>. QED  BY <2>2, <3>1, <3>2, <3>3
  <2>7. \A d \in Merged(B, b) : s <= d.at
    BY <1>0, <2>1, <2>2, <2>3 DEF Merged, RightFree
  <2>. QED  BY <1>0, <2>1, <2>2, <2>3, <2>4, <2>5, <2>6, <2>7 DEF Within
<1>. QED  BY <1>1, <1>2

\* The right edge, likewise.
LEMMA RightEdge ==
    ASSUME NEW B \in SUBSET Block, NEW lo \in Int, NEW hi \in Int, NEW b \in B, ~b.alloc,
           Row(B, lo, hi), NoFreePair(B \ {b})
    PROVE  /\ MergeEnd(B, b) \in lo .. hi /\ EndOf(b) <= MergeEnd(B, b)
           /\ \A c \in B \ Merged(B, b) : EndOf(c) <= b.at \/ MergeEnd(B, b) <= c.at
           /\ MergeEnd(B, b) = hi \/ \E c \in B \ Merged(B, b) : c.at = MergeEnd(B, b)
           /\ \A c \in B \ Merged(B, b) : c.at = MergeEnd(B, b) => c.alloc
           /\ \A c \in B \ Merged(B, b), d \in Merged(B, b) : c.at = EndOf(d) => c.at = MergeEnd(B, b)
           /\ \A d \in Merged(B, b) : EndOf(d) <= MergeEnd(B, b)
<1>. DEFINE e == MergeEnd(B, b)
<1>. Within(B, lo, hi) /\ Separate(B) /\ Gapless(B, lo, hi)
  BY DEF Row
<1>0. \A c \in B : /\ c.at \in Nat /\ EndOf(c) \in Nat /\ c.at < EndOf(c)
  BY BlockFields
<1>1. CASE RightFree(B, b) = {}
  <2>1. e = EndOf(b)
    BY <1>1 DEF MergeEnd
  <2>2. ASSUME NEW c \in B \ Merged(B, b)
        PROVE  /\ EndOf(c) <= b.at \/ e <= c.at
               /\ c.at = e => c.alloc
    BY <1>1, <2>1 DEF Separate, Merged, RightFree
  <2>3. e = hi \/ \E c \in B \ Merged(B, b) : c.at = e
    <3>1. SUFFICES ASSUME NEW c \in B, c.at = EndOf(b)
                   PROVE  c \notin Merged(B, b)
      BY <2>1 DEF Gapless
    <3>2. c # b /\ c \notin LeftFree(B, b)
      BY <1>0, <3>1 DEF LeftFree
    <3>. QED  BY <1>1, <3>2 DEF Merged
  <2>4. ASSUME NEW c \in B \ Merged(B, b), NEW d \in Merged(B, b), c.at = EndOf(d)
        PROVE  c.at = e
    <3>1. d = b \/ EndOf(d) = b.at
      BY <1>1 DEF Merged, LeftFree
    <3>2. EndOf(d) # b.at
      BY <2>4, SameEnd DEF Merged
    <3>. QED  BY <2>1, <2>4, <3>1, <3>2
  <2>5. \A d \in Merged(B, b) : EndOf(d) <= e
    BY <1>0, <1>1, <2>1 DEF Merged, LeftFree
  <2>. QED  BY <1>0, <2>1, <2>2, <2>3, <2>4, <2>5 DEF Within
<1>2. CASE RightFree(B, b) # {}
  <2>1. PICK r \in B : RightFree(B, b) = {r} /\ ~r.alloc /\ r.at = EndOf(b)
    BY <1>2, Neighbours
  <2>2. e = EndOf(r)
    BY <2>1 DEF MergeEnd
  <2>3. r # b /\ EndOf(b) < EndOf(r)
    BY <1>0, <2>1
  <2>4. ASSUME NEW c \in B \ Merged(B, b)
        PROVE  /\ EndOf(c) <= b.at \/ e <= c.at
               /\ c.at = e => c.alloc
    <3>1. c # b /\ c # r /\ c \in B
      BY <2>1 DEF Merged
    <3>2. c.at = EndOf(r) => c.alloc
      BY <2>1, <2>3, <3>1 DEF NoFreePair
    <3>3. /\ EndOf(c) <= r.at \/ EndOf(r) <= c.at
          /\ EndOf(c) <= b.at \/ EndOf(b) <= c.at
      BY <3>1 DEF Separate
    <3>. QED  BY <1>0, <2>1, <2>2, <3>1, <3>2, <3>3
  <2>5. e = hi \/ \E c \in B \ Merged(B, b) : c.at = e
    <3>1. SUFFICES ASSUME NEW c \in B, c.at = EndOf(r)
                   PROVE  c \notin Merged(B, b)
      BY <2>2 DEF Gapless
    <3>2. c # b /\ c # r /\ c \notin LeftFree(B, b)
      BY <1>0, <2>1, <2>3, <3>1 DEF LeftFree
    <3>. QED  BY <2>1, <3>2 DEF Merged
  <2>6. ASSUME NEW c \in B \ Merged(B, b), NEW d \in Merged(B, b), c.at = EndOf(d)
        PROVE  c.at = e
    <3>1. d = r \/ d = b \/ EndOf(d) = b.at
      BY <2>1 DEF Merged, LeftFree
    <3>2. EndOf(d) # b.at
      BY <2>6, SameEnd DEF Merged
    <3>3. d # b
      BY <2>1, <2>6, SameEnd DEF Merged
    <3>. QED  BY <2>2, <2>6, <3>1, <3>2, <3>3
  <2>7. \A d \in Merged(B, b) : EndOf(d) <= e
    BY <1>0, <2>1, <2>2, <2>3 DEF Merged, LeftFree
  <2>. QED  BY <1>0, <2>1, <2>2, <2>3, <2>4, <2>5, <2>6, <2>7 DEF Within
<1>. QED  BY <1>1, <1>2

-----------------------------------------------------------------------------
\* coalesce turns a row with free neighbours around b into a row without any,
\* and changes no allocated block.
LEMMA CoalesceRow ==
    ASSUME NEW B \in SUBSET Block, NEW lo \in Int, NEW hi \in Int, NEW b \in B, ~b.alloc,
           Row(B, lo, hi), NoFreePair(B \ {b})
    PROVE  LET C == Coalesce(B, b)
           IN  /\ C \in SUBSET Block /\ C # {}
               /\ Row(C, lo, hi)
               /\ NoFreePair(C)
               /\ \A c \in Block : c.alloc => (c \in C <=> c \in B)
               /\ \E m \in C : ~m.alloc /\ m.at <= b.at /\ EndOf(b) <= EndOf(m)
<1>. DEFINE s == MergeStart(B, b)
            e == MergeEnd(B, b)
            K == B \ Merged(B, b)
            m == FreeBlock(s, e - s - TagWords)
            C == Coalesce(B, b)
<1>. Within(B, lo, hi) /\ Separate(B) /\ Gapless(B, lo, hi)
  BY DEF Row
<1>0. \A c \in B : /\ c.at \in Nat /\ c.size \in Nat /\ EndOf(c) \in Nat
                    /\ EndOf(c) = c.at + c.size + 2
  BY BlockFields
<1>1. /\ s \in lo .. hi /\ s \in 0 .. b.at
      /\ \A c \in K : EndOf(c) <= s \/ EndOf(b) <= c.at
      /\ s = lo \/ \E c \in K : EndOf(c) = s
      /\ \A c \in K : EndOf(c) = s => c.alloc
      /\ \A c \in K, d \in Merged(B, b) : EndOf(c) = d.at => d.at = s
      /\ \A d \in Merged(B, b) : s <= d.at
  BY LeftEdge
<1>2. /\ e \in lo .. hi /\ EndOf(b) <= e
      /\ \A c \in K : EndOf(c) <= b.at \/ e <= c.at
      /\ e = hi \/ \E c \in K : c.at = e
      /\ \A c \in K : c.at = e => c.alloc
      /\ \A c \in K, d \in Merged(B, b) : c.at = EndOf(d) => c.at = e
      /\ \A d \in Merged(B, b) : EndOf(d) <= e
  BY RightEdge, Z3
<1>3. /\ m \in Block /\ m.at = s /\ EndOf(m) = e /\ ~m.alloc
      /\ m.size = e - s - 2 /\ b.size <= m.size
  <2>1. e - s - TagWords \in Nat /\ b.size <= e - s - TagWords /\ TagWords = 2
    BY <1>0, <1>1, <1>2 DEF TagWords
  <2>2. s \in Nat
    BY <1>1
  <2>. DEFINE size == e - s - TagWords
  <2>. HIDE DEF s, size
  <2>3. /\ FreeBlock(s, size) \in Block /\ FreeBlock(s, size).at = s
        /\ FreeBlock(s, size).size = size /\ ~FreeBlock(s, size).alloc
        /\ EndOf(FreeBlock(s, size)) = s + size + 2
    BY <2>1, <2>2, FreeBlockFields DEF size
  <2>. QED  BY <1>1, <1>2, <2>1, <2>3 DEF size
<1>4. C = K \cup {m}
  BY DEF Coalesce
<1>5. \A c \in K : EndOf(c) <= s \/ e <= c.at
  BY <1>0, <1>1, <1>2
<1>6. K \subseteq B /\ b \notin K
  BY DEF Merged
<1>. HIDE DEF s, e, K, m, C
<1>7. Within(C, lo, hi)
  BY <1>0, <1>1, <1>2, <1>3, <1>4, <1>6 DEF Within
<1>8. Separate(C)
  BY <1>0, <1>3, <1>4, <1>5, <1>6 DEF Separate
<1>9. Gapless(C, lo, hi)
  <2>1. ASSUME NEW c \in K
        PROVE  EndOf(c) = hi \/ \E d \in C : d.at = EndOf(c)
    <3>1. CASE EndOf(c) = hi
      BY <3>1
    <3>2. CASE \E d \in B : d.at = EndOf(c)
      BY <3>2, <1>1, <1>3, <1>4 DEF K
    <3>. QED  BY <3>1, <3>2, <1>6 DEF Gapless
  <2>2. ASSUME NEW c \in K
        PROVE  c.at = lo \/ \E d \in C : EndOf(d) = c.at
    <3>1. CASE c.at = lo
      BY <3>1
    <3>2. CASE \E d \in B : EndOf(d) = c.at
      BY <3>2, <1>2, <1>3, <1>4 DEF K
    <3>. QED  BY <3>1, <3>2, <1>6 DEF Gapless
  <2>3. EndOf(m) = hi \/ \E d \in C : d.at = EndOf(m)
    BY <1>2, <1>3, <1>4
  <2>4. m.at = lo \/ \E d \in C : EndOf(d) = m.at
    BY <1>1, <1>3, <1>4
  <2>5. \E c \in C : c.at = lo
    BY <1>0, <1>1, <1>3, <1>4 DEF Gapless, K
  <2>6. \E c \in C : EndOf(c) = hi
    BY <1>0, <1>2, <1>3, <1>4 DEF Gapless, K
  <2>. QED  BY <1>4, <2>1, <2>2, <2>3, <2>4, <2>5, <2>6 DEF Gapless
<1>10. NoFreePair(C)
  <2>1. \A c, d \in K : EndOf(c) = d.at => c.alloc \/ d.alloc
    BY <1>6 DEF NoFreePair
  <2>2. EndOf(m) # m.at
    BY <1>0, <1>1, <1>2, <1>3
  <2>. QED  BY <1>1, <1>2, <1>3, <1>4, <2>1, <2>2 DEF NoFreePair
<1>11. \A c \in Block : c.alloc => (c \in C <=> c \in B)
  BY <1>3, <1>4, <1>6 DEF K, Merged, LeftFree, RightFree
<1>12. C \in SUBSET Block /\ C # {}
  BY <1>3, <1>4, <1>6
<1>13. \E x \in C : ~x.alloc /\ x.at <= b.at /\ EndOf(b) <= EndOf(x)
  BY <1>1, <1>2, <1>3, <1>4
<1>. QED  BY <1>7, <1>8, <1>9, <1>10, <1>11, <1>12, <1>13 DEF C, Row

-----------------------------------------------------------------------------
(***************************************************************************)
(* A row at rest: the state in which every call finds and leaves the       *)
(* blocks.                                                                 *)
(***************************************************************************)
Settled(B, lo, hi) == /\ B \in SUBSET Block /\ B # {}
                      /\ Row(B, lo, hi)
                      /\ NoFreePair(B)

\* Putting two blocks, or one, in the place of another.
LEMMA SplitRow ==
    ASSUME NEW B \in SUBSET Block, NEW lo \in Int, NEW hi \in Int, Row(B, lo, hi),
           NEW b \in B, NEW c \in Block, NEW d \in Block,
           c.at = b.at, EndOf(c) = d.at, EndOf(d) = EndOf(b), c.size >= 3, d.size >= 3
    PROVE  Row((B \ {b}) \cup {c, d}, lo, hi)
<1>. DEFINE C == (B \ {b}) \cup {c, d}
<1>. Within(B, lo, hi) /\ Separate(B) /\ Gapless(B, lo, hi)
  BY DEF Row
<1>0. /\ \A x \in B : x.at \in Nat /\ EndOf(x) \in Nat /\ x.at < EndOf(x)
      /\ c.at \in Nat /\ EndOf(c) \in Nat /\ c.at < EndOf(c)
      /\ d.at \in Nat /\ EndOf(d) \in Nat /\ d.at < EndOf(d)
  BY BlockFields
<1>1. Within(C, lo, hi)
  BY <1>0 DEF Within
<1>2. Separate(C)
  BY <1>0 DEF Separate
<1>3. Gapless(C, lo, hi)
  <2>1. ASSUME NEW x \in B \ {b}
        PROVE  EndOf(x) = hi \/ \E y \in C : y.at = EndOf(x)
    BY DEF Gapless
  <2>2. ASSUME NEW x \in B \ {b}
        PROVE  x.at = lo \/ \E y \in C : EndOf(y) = x.at
    BY DEF Gapless
  <2>3. EndOf(d) = hi \/ \E y \in C : y.at = EndOf(d)
    BY <1>0 DEF Gapless
  <2>4. c.at = lo \/ \E y \in C : EndOf(y) = c.at
    BY <1>0 DEF Gapless
  <2>. QED  BY <2>1, <2>2, <2>3, <2>4 DEF Gapless
<1>. QED  BY <1>1, <1>2, <1>3 DEF Row

\* One block in the place of another of the same extent keeps the row.
LEMMA SwapRow ==
    ASSUME NEW B \in SUBSET Block, NEW lo \in Int, NEW hi \in Int, Row(B, lo, hi),
           NEW b \in B, NEW c \in Block, c.at = b.at, c.size = b.size
    PROVE  Row((B \ {b}) \cup {c}, lo, hi)
<1>. DEFINE C == (B \ {b}) \cup {c}
<1>. Within(B, lo, hi) /\ Separate(B) /\ Gapless(B, lo, hi)
  BY DEF Row
<1>0. /\ \A x \in B : x.at \in Nat /\ EndOf(x) \in Nat /\ x.at < EndOf(x)
      /\ c.at \in Nat /\ EndOf(c) \in Nat /\ c.at < EndOf(c)
      /\ EndOf(c) = EndOf(b)
  BY BlockFields
<1>1. Within(C, lo, hi)
  BY <1>0 DEF Within
<1>2. Separate(C)
  BY <1>0 DEF Separate
<1>3. Gapless(C, lo, hi)
  BY <1>0 DEF Gapless
<1>. QED  BY <1>1, <1>2, <1>3 DEF Row

\* add_page: a block that starts where the row ended, or the first block.
LEMMA AppendRow ==
    ASSUME NEW B \in SUBSET Block, NEW lo \in Int, NEW hi \in Int, B # {}, Row(B, lo, hi),
           NEW c \in Block, c.at = hi, c.size >= 3
    PROVE  Row(B \cup {c}, lo, EndOf(c))
<1>. DEFINE C == B \cup {c}
<1>. Within(B, lo, hi) /\ Separate(B) /\ Gapless(B, lo, hi)
  BY DEF Row
<1>0. /\ \A x \in B : x.at \in Nat /\ EndOf(x) \in Nat /\ x.at < EndOf(x)
      /\ c.at \in Nat /\ EndOf(c) \in Nat /\ c.at < EndOf(c)
  BY BlockFields
<1>1. Within(C, lo, EndOf(c))
  BY <1>0 DEF Within, Gapless
<1>2. Separate(C)
  BY <1>0 DEF Separate, Within
<1>3. Gapless(C, lo, EndOf(c))
  BY <1>0 DEF Gapless, Within
<1>. QED  BY <1>1, <1>2, <1>3 DEF Row

\* add_page on an empty heap: one block between prologue and epilogue is a row.
LEMMA FirstRow ==
    ASSUME NEW c \in Block, c.size >= 3
    PROVE  Row({c}, c.at, EndOf(c))
<1>1. c.at \in Nat /\ EndOf(c) \in Nat /\ c.at < EndOf(c)
  BY BlockFields
<1>. QED  BY <1>1 DEF Row, Within, Separate, Gapless

-----------------------------------------------------------------------------
\* insert_node of a free block into a row whose other blocks are at rest.
LEMMA InsertSettled ==
    ASSUME NEW B, NEW lo \in Int, NEW hi \in Int, NEW b \in Block, ~b.alloc,
           B \cup {b} \in SUBSET Block, b \notin B,
           Row(B \cup {b}, lo, hi), NoFreePair(B)
    PROVE  /\ Settled(InsertNode(B, b), lo, hi)
           /\ \A c \in Block : c.alloc => (c \in InsertNode(B, b) <=> c \in B)
           /\ \E m \in InsertNode(B, b) : ~m.alloc /\ m.at <= b.at /\ EndOf(b) <= EndOf(m)
<1>. DEFINE A == B \cup {b}
<1>1. A \ {b} = B /\ b \in A /\ A \in SUBSET Block
  OBVIOUS
<1>2. NoFreePair(A \ {b})
  BY <1>1
<1>. HIDE DEF A
<1>3. LET C == Coalesce(A, b)
      IN  /\ C \in SUBSET Block /\ C # {}
          /\ Row(C, lo, hi)
          /\ NoFreePair(C)
          /\ \A c \in Block : c.alloc => (c \in C <=> c \in A)
          /\ \E m \in C : ~m.alloc /\ m.at <= b.at /\ EndOf(b) <= EndOf(m)
  BY <1>1, <1>2, CoalesceRow DEF A
<1>4. InsertNode(B, b) = Coalesce(A, b)
  BY DEF InsertNode, A
<1>. QED  BY <1>3, <1>4 DEF Settled, A

\* C is B with one more allocated block, at the address at and large enough.
Takes(B, C, at, asize, want) ==
    \E n \in Block :
      /\ n.at = at /\ n.alloc /\ n.want = want /\ n \notin B
      /\ asize <= n.size /\ n.size < asize + 5
      /\ \A c \in Block : c.alloc => (c \in C <=> c \in B \/ c = n)

\* place, whole or split.
LEMMA PlaceSettled ==
    ASSUME NEW B, NEW lo \in Int, NEW hi \in Int, Settled(B, lo, hi),
           NEW b \in B, ~b.alloc, NEW asize \in Nat, 3 <= asize, asize <= b.size,
           NEW want \in Nat
    PROVE  /\ Settled(Place(B, b, asize, want), lo, hi)
           /\ Takes(B, Place(B, b, asize, want), b.at, asize, want)
<1>. /\ B \in SUBSET Block /\ B # {} /\ Row(B, lo, hi) /\ NoFreePair(B) /\ b \in Block
  BY DEF Settled
<1>0. b.at \in Nat /\ b.size \in Nat
  BY BlockFields
<1>1. \A c \in B : c.at = b.at => ~c.alloc
  <2>. SUFFICES ASSUME NEW c \in B, c.at = b.at, c # b PROVE FALSE
    OBVIOUS
  <2>1. EndOf(b) <= c.at \/ EndOf(c) <= b.at
    BY DEF Row, Separate
  <2>. QED  BY <1>0, <2>1, BlockFields DEF EndOf, TagWords
<1>2. CASE b.size - asize < MINBLKSZ
  <2>. DEFINE n == [b EXCEPT !.alloc = TRUE, !.want = want]
              C == (B \ {b}) \cup {n}
  <2>1. /\ n \in Block /\ n.at = b.at /\ n.size = b.size /\ n.alloc /\ n.want = want
        /\ EndOf(n) = EndOf(b)
    BY DEF Block, EndOf
  <2>2. Place(B, b, asize, want) = C
    BY <1>2 DEF Place
  <2>. HIDE DEF n
  <2>3. Row(C, lo, hi)
    BY <2>1, SwapRow
  <2>4. NoFreePair(C)
    BY <2>1 DEF NoFreePair
  <2>5. \A c \in Block : c.alloc => (c \in C <=> c \in B \/ c = n)
    OBVIOUS
  <2>6. C \in SUBSET Block /\ C # {}
    BY <2>1
  <2>7. n.size < asize + 5
    BY <1>0, <1>2, <2>1 DEF MINBLKSZ
  <2>8. n \notin B
    BY <1>1, <2>1
  <2>. QED  BY <2>1, <2>2, <2>3, <2>4, <2>5, <2>6, <2>7, <2>8 DEF Settled, Takes
<1>3. CASE ~(b.size - asize < MINBLKSZ)
  <2>. DEFINE n == [b EXCEPT !.size = asize, !.alloc = TRUE, !.want = want]
              rsize == b.size - asize - TagWords
              r == FreeBlock(EndOf(n), rsize)
              F == (B \ {b}) \cup {n}
  <2>1. /\ n \in Block /\ n.at = b.at /\ n.size = asize /\ n.alloc /\ n.want = want
        /\ EndOf(n) = b.at + asize + 2
    BY DEF Block, EndOf, TagWords
  <2>2. rsize \in Nat /\ rsize >= 3 /\ rsize = b.size - asize - 2
    BY <1>0, <1>3 DEF MINBLKSZ, TagWords
  <2>3. Place(B, b, asize, want) = InsertNode(F, r)
    BY <1>3 DEF Place
  <2>4. EndOf(n) \in Nat
    BY <2>1, BlockFields
  <2>. HIDE DEF n, rsize
  <2>5. /\ r \in Block /\ r.at = EndOf(n) /\ r.size = rsize /\ ~r.alloc
        /\ EndOf(r) = EndOf(n) + rsize + 2
    BY <2>2, <2>4, FreeBlockFields
  <2>6. EndOf(r) = EndOf(b)
    BY <1>0, <2>1, <2>2, <2>5, BlockFields
  <2>. HIDE DEF r
  <2>7. Row(F \cup {r}, lo, hi)
    <3>1. F \cup {r} = (B \ {b}) \cup {n, r}
      OBVIOUS
    <3>. QED  BY <2>1, <2>2, <2>5, <2>6, <3>1, SplitRow
  <2>8. r \notin F
    <3>1. r # n
      BY <2>1, <2>5
    <3>2. r \notin B \ {b}
      BY <1>0, <2>1, <2>2, <2>5, <2>6, SameEnd DEF Row
    <3>. QED  BY <3>1, <3>2
  <2>9. NoFreePair(F)
    BY <2>1 DEF NoFreePair
  <2>10. F \cup {r} \in SUBSET Block
    BY <2>1, <2>5
  <2>11. \A c \in Block : c.alloc => (c \in F <=> c \in B \/ c = n)
    OBVIOUS
  <2>. HIDE DEF F
  <2>12. /\ Settled(InsertNode(F, r), lo, hi)
         /\ \A c \in Block : c.alloc => (c \in InsertNode(F, r) <=> c \in F)
    BY <2>5, <2>7, <2>8, <2>9, <2>10, InsertSettled
  <2>13. n.size < asize + 5
    BY <2>1
  <2>14. n \notin B
    BY <1>1, <2>1
  <2>. QED  BY <2>1, <2>3, <2>11, <2>12, <2>13, <2>14 DEF Takes
<1>. QED  BY <1>2, <1>3

\* myfree of a block the client holds.
LEMMA ReleaseSettled ==
    ASSUME NEW B, NEW lo \in Int, NEW hi \in Int, Settled(B, lo, hi),
           NEW b \in B, b.alloc
    PROVE  /\ Settled(Released(B, b), lo, hi)
           /\ \A c \in Block : c.alloc => (c \in Released(B, b) <=> c \in B /\ c # b)
<1>. /\ B \in SUBSET Block /\ B # {} /\ Row(B, lo, hi) /\ NoFreePair(B) /\ b \in Block
  BY DEF Settled
<1>. DEFINE f == FreeBlock(b.at, b.size)
            K == B \ {b}
<1>1. /\ f \in Block /\ f.at = b.at /\ f.size = b.size /\ ~f.alloc
  BY BlockFields, FreeBlockFields
<1>2. Released(B, b) = InsertNode(K, f)
  BY DEF Released
<1>. HIDE DEF f
<1>3. Row(K \cup {f}, lo, hi)
  BY <1>1, SwapRow
<1>4. f \notin K
  BY <1>1, SameEnd DEF Row
<1>5. NoFreePair(K)
  BY DEF NoFreePair
<1>6. K \cup {f} \in SUBSET Block
  BY <1>1
<1>7. /\ Settled(InsertNode(K, f), lo, hi)
      /\ \A c \in Block : c.alloc => (c \in InsertNode(K, f) <=> c \in K)
  <2>. HIDE DEF K
  <2>. QED  BY <1>1, <1>3, <1>4, <1>5, <1>6, InsertSettled
<1>. QED  BY <1>2, <1>7

\* myrealloc in place: only what the client asked for changes.
LEMMA KeepSettled ==
    ASSUME NEW B, NEW lo \in Int, NEW hi \in Int, Settled(B, lo, hi),
           NEW b \in B, b.alloc, NEW want \in Nat
    PROVE  Settled((B \ {b}) \cup {[b EXCEPT !.want = want]}, lo, hi)
<1>. /\ B \in SUBSET Block /\ B # {} /\ Row(B, lo, hi) /\ NoFreePair(B) /\ b \in Block
  BY DEF Settled
<1>. DEFINE n == [b EXCEPT !.want = want]
<1>1. /\ n \in Block /\ n.at = b.at /\ n.size = b.size /\ n.alloc = b.alloc
  BY DEF Block
<1>2. EndOf(n) = EndOf(b)
  BY <1>1 DEF EndOf
<1>. HIDE DEF n
<1>3. Row((B \ {b}) \cup {n}, lo, hi)
  BY <1>1, SwapRow
<1>4. NoFreePair((B \ {b}) \cup {n})
  BY <1>1, <1>2 DEF NoFreePair
<1>. QED  BY <1>1, <1>3, <1>4 DEF Settled, n

-----------------------------------------------------------------------------
(***************************************************************************)
(* The arithmetic of add_page.                                             *)
(***************************************************************************)
\* A quotient, multiplied back, is within one divisor of the dividend.
LEMMA DivBounds ==
    ASSUME NEW a \in Nat, NEW d \in Nat \ {0}
    PROVE  a \div d \in Nat /\ a < (a \div d + 1) * d
OBVIOUS

\* numofpage of add_page: the pages, without prologue, epilogue and tags, hold
\* the payload that was asked for, on a fresh heap and on a grown one.
LEMMA NumOfPageBounds ==
    ASSUME NEW pages \in Nat, NEW asize \in Nat
    PROVE  LET n == NumOfPage(pages, asize)
           IN  /\ n \in Nat \ {0}
               /\ pages = 0 => asize <= n * PageWords - 5 /\ 3 <= n * PageWords - 5
               /\ pages # 0 => asize <= n * PageWords - 2 /\ 3 <= n * PageWords - 2
<1>. DEFINE d == IF pages = 0 THEN PageWords - 8 ELSE PageWords - 5
            x == pages \div Prefetch
            q == asize \div d
            n == NumOfPage(pages, asize)
<1>. PageWords \in Nat /\ PageWords > 8 /\ Prefetch \in Nat \ {0}
  BY LayoutAssumption
<1>1. d \in Nat \ {0} /\ d <= PageWords - 5 /\ (pages = 0 => d = PageWords - 8)
  OBVIOUS
<1>2. n = x + 1 + q
  BY DEF NumOfPage, ProWords, EpiWords, MINBLKSZ
<1>3. x \in Nat
  BY DivBounds
<1>. HIDE DEF d, x, n
<1>4. q \in Nat /\ asize < (q + 1) * d
  BY <1>1, DivBounds
<1>. HIDE DEF q
<1>5. n \in Nat \ {0} /\ q + 1 <= n
  BY <1>2, <1>3, <1>4
<1>6. (q + 1) * d <= n * d
  BY <1>1, <1>4, <1>5
<1>7. n * d <= n * (PageWords - 5) /\ (pages = 0 => n * d = n * (PageWords - 8))
  BY <1>1, <1>5
<1>8. /\ n * (PageWords - 5) = n * PageWords - n * 5
      /\ n * (PageWords - 8) = n * PageWords - n * 8
      /\ n * PageWords \in Nat
  BY <1>5
<1>9. n * 9 <= n * PageWords
  BY <1>5
<1>. QED
  BY <1>1, <1>4, <1>5, <1>6, <1>7, <1>8, <1>9 DEF n

-----------------------------------------------------------------------------
(***************************************************************************)
(* The segment under the heap.                                             *)
(***************************************************************************)
\* extend_heap_segment: the pages it reports are new and open, those that were
\* open stay so, and the segment only grows.
LEMMA ExtendSegment ==
    ASSUME NEW s \in Segments, NEW n \in Nat \ {0}, NEW o \in ExtendHeapSegment(s, n),
           s.size <= MaxPages
    PROVE  /\ o.seg \in Segments /\ o.seg.start = s.start /\ o.seg.size <= MaxPages
           /\ \/ o.ret = NoPage /\ o.seg.rw = s.rw /\ s.size <= o.seg.size
              \/ /\ o.ret = s.size /\ o.seg.size = s.size + n
                 /\ o.seg.rw = s.rw \cup s.size .. (s.size + n - 1)
<1>. DEFINE refused == Enlarged(s, n)
            opened == s.rw \cup s.size .. (refused.size - 1)
            granted == Opened(refused, s.size)
<1>. MaxPages \in Nat /\ s.size \in Nat /\ s.rw \in SUBSET Nat
  BY SegmentAssumption DEF Segments
<1>1. CASE s.start = "null" \/ s.size + n > MaxPages
  BY <1>1 DEF ExtendHeapSegment, Exceeds, SegOutcome
<1>2. CASE s.start # "null" /\ ~(s.size + n > MaxPages)
  <2>1. o = SegOutcome(granted, s.size) \/ o = SegOutcome(refused, NoPage)
    BY <1>2 DEF ExtendHeapSegment, Exceeds, Extended
  <2>2. /\ refused \in Segments /\ refused.start = s.start /\ refused.size = s.size + n
        /\ refused.rw = s.rw
    BY DEF Segments, Enlarged
  <2>3. /\ granted \in Segments /\ granted.start = s.start /\ granted.size = s.size + n
        /\ granted.rw = s.rw \cup s.size .. (s.size + n - 1)
    <3>1. opened \in SUBSET Nat
      BY <2>2
    <3>. HIDE DEF refused
    <3>. QED  BY <2>2, <3>1 DEF Segments, Opened
  <2>. HIDE DEF granted, refused
  <2>. QED  BY <1>2, <2>1, <2>2, <2>3 DEF SegOutcome
<1>. QED  BY <1>1, <1>2

\* init_heap_segment for no pages, as myinit calls it: a fresh, empty segment or
\* none.
LEMMA InitSegment ==
    ASSUME NEW s \in Segments, NEW o \in InitHeapSegment(s, 0)
    PROVE  /\ o.seg \in Segments
           /\ o.ret # NoPage => o.seg.rw = {} /\ o.seg.size = 0 /\ Reserved(o.seg)
<1>1. ASSUME NEW m \in Mmaps(s, 0)
      PROVE  /\ m.seg \in Segments
             /\ m.ret # NoPage => m.seg.rw = {} /\ m.seg.size = 0 /\ Reserved(m.seg)
  BY SegmentAssumption
     DEF Mmaps, ExtendHeapSegment, Segments, SegOutcome, NoPage, Reserved
<1>. QED
  BY <1>1 DEF InitHeapSegment, SegOutcome

-----------------------------------------------------------------------------
(***************************************************************************)
(* The heap between calls.  GoodHeap holds always; Backing, the relation   *)
(* to the open pages, while the process is up.                             *)
(***************************************************************************)
GoodHeap(h) == /\ h \in Heaps
               /\ IF h.pages = 0 THEN h.blocks = {}
                  ELSE Settled(h.blocks, Lo(h), Hi(h))

Backing(h) == /\ Reserved(h.seg) /\ h.seg.size <= MaxPages
              /\ h.seg.rw \subseteq 0 .. (h.seg.size - 1)
              /\ \E k \in Nat : /\ h.base = k * PageWords
                               /\ h.seg.rw = k .. (k + h.pages - 1)

\* The allocated blocks of two heaps are the same.
SameLive(B, C) == \A c \in Block : c.alloc => (c \in B <=> c \in C)

\* The parts of a heap have the types of Heaps.
LEMMA HeapFields ==
    ASSUME NEW h \in Heaps
    PROVE  /\ h.seg \in Segments /\ h.base \in Nat /\ h.pages \in Nat
           /\ h.blocks \in SUBSET Block
           /\ h.seg.size \in Nat /\ h.seg.rw \in SUBSET Nat
           /\ Lo(h) \in Int /\ Hi(h) \in Int
           /\ Lo(h) = h.base + 2 /\ Hi(h) = h.base + h.pages * PageWords - 1
<1>1. /\ h.seg \in Segments /\ h.base \in Nat /\ h.pages \in Nat
      /\ h.blocks \in SUBSET Block
  BY DEF Heaps
<1>2. h.seg.size \in Nat /\ h.seg.rw \in SUBSET Nat
  BY <1>1 DEF Segments
<1>3. h.pages * PageWords \in Nat
  BY <1>1, LayoutAssumption
<1>. QED  BY <1>1, <1>2, <1>3 DEF Lo, Hi, ProWords, EpiWords

\* Only the segment changes: a refused or misplaced extension.
LEMMA SegOnly ==
    ASSUME NEW h, GoodHeap(h), NEW s \in Segments
    PROVE  LET g == [h EXCEPT !.seg = s]
           IN  /\ GoodHeap(g) /\ g.blocks = h.blocks /\ g.pages = h.pages
               /\ g.base = h.base /\ g.seg = s
<1>. DEFINE g == [h EXCEPT !.seg = s]
<1>1. h \in Heaps
  BY DEF GoodHeap
<1>2. /\ g \in Heaps /\ g.blocks = h.blocks /\ g.pages = h.pages
      /\ g.base = h.base /\ g.seg = s
  BY <1>1 DEF Heaps
<1>. HIDE DEF g
<1>3. Lo(g) = Lo(h) /\ Hi(g) = Hi(h)
  BY <1>2 DEF Lo, Hi
<1>4. GoodHeap(g)
  BY <1>2, <1>3 DEF GoodHeap
<1>. QED  BY <1>2, <1>4 DEF g

\* Only the blocks change: every call but those that grow or wipe the heap.
LEMMA BlocksOnly ==
    ASSUME NEW h, h \in Heaps, h.pages # 0, NEW B, Settled(B, Lo(h), Hi(h))
    PROVE  LET g == [h EXCEPT !.blocks = B]
           IN  /\ GoodHeap(g) /\ g.blocks = B /\ g.pages = h.pages
               /\ g.base = h.base /\ g.seg = h.seg
               /\ Backing(h) => Backing(g)
<1>. DEFINE g == [h EXCEPT !.blocks = B]
<1>1. B \in SUBSET Block
  BY DEF Settled
<1>2. /\ g \in Heaps /\ g.blocks = B /\ g.pages = h.pages
      /\ g.base = h.base /\ g.seg = h.seg
  BY <1>1 DEF Heaps
<1>. HIDE DEF g
<1>3. Lo(g) = Lo(h) /\ Hi(g) = Hi(h)
  BY <1>2 DEF Lo, Hi
<1>4. GoodHeap(g)
  BY <1>2, <1>3 DEF GoodHeap
<1>5. Backing(h) => Backing(g)
  BY <1>2 DEF Backing
<1>. QED  BY <1>2, <1>4, <1>5 DEF g

\* The free block that the pages of o bring, before it is merged.
FreshBlock(h, o, n) ==
    LET start == o.ret * PageWords
        at    == BlockStart(h.pages, start)
    IN  FreeBlock(at, start + n * PageWords - EpiWords - TagWords - at)

\* Block b takes the pages of o, and is the end of the row.
Lengthens(h, o, n, asize, b) ==
    LET start == o.ret * PageWords
    IN  /\ start \in Nat /\ n \in Nat \ {0} /\ n * PageWords \in Nat
        /\ o.ret \in Nat /\ o.ret + n <= MaxPages
        /\ h.pages = 0 => b.at = start + 2
        /\ h.pages # 0 => b.at = start - 1 /\ start = h.base + h.pages * PageWords
        /\ b \in Block /\ ~b.alloc /\ b.want = 0 /\ b \notin h.blocks
        /\ asize <= b.size /\ 3 <= b.size
        /\ EndOf(b) = start + n * PageWords - 1
        /\ Row(h.blocks \cup {b}, IF h.pages = 0 THEN b.at ELSE Lo(h), EndOf(b))

\* The pages add_page was given are the next ones, and their block lengthens the
\* row at its end, which is where the row ended unless a refused extension left
\* a hole.
LEMMA NewPagesRow ==
    ASSUME NEW h, GoodHeap(h), Backing(h), NEW asize \in Nat, NEW o,
           NEW n, n = NumOfPage(h.pages, asize), o \in ExtendHeapSegment(h.seg, n),
           o.ret # NoPage, h.pages > 0 => o.ret - 1 \in o.seg.rw
    PROVE  Lengthens(h, o, n, asize, FreshBlock(h, o, n))
<1>. DEFINE W == PageWords
            start == o.ret * W
            at    == BlockStart(h.pages, start)
            size  == start + n * W - EpiWords - TagWords - at
            b     == FreshBlock(h, o, n)
<1>. W \in Nat /\ W > 8
  BY LayoutAssumption
<1>1. /\ h \in Heaps
      /\ h.seg \in Segments /\ h.base \in Nat /\ h.pages \in Nat
      /\ h.blocks \in SUBSET Block
      /\ h.seg.size \in Nat /\ h.seg.rw \in SUBSET Nat
      /\ h.seg.size <= MaxPages /\ h.seg.rw \subseteq 0 .. (h.seg.size - 1)
  BY HeapFields DEF GoodHeap, Backing
<1>2. /\ n \in Nat \ {0}
      /\ h.pages = 0 => asize <= n * W - 5 /\ 3 <= n * W - 5
      /\ h.pages # 0 => asize <= n * W - 2 /\ 3 <= n * W - 2
  BY <1>1, NumOfPageBounds
<1>3. /\ o.seg.size <= MaxPages
      /\ o.ret = h.seg.size /\ o.seg.size = h.seg.size + n
  BY <1>1, <1>2, ExtendSegment
<1>4. start \in Nat /\ n * W \in Nat /\ h.pages * W \in Nat
  BY <1>1, <1>2, <1>3
<1>5. b = FreeBlock(at, size)
  BY DEF FreshBlock
<1>6. CASE h.pages = 0
  <2>1. at = start + 2 /\ size = n * W - 5 /\ h.blocks = {}
    BY <1>4, <1>6 DEF BlockStart, ProWords, EpiWords, TagWords, GoodHeap
  <2>2. at \in Nat /\ size \in Nat /\ at + size + 2 = start + n * W - 1
    BY <1>2, <1>4, <1>6, <2>1
  <2>. HIDE DEF at, size, b
  <2>3. /\ b \in Block /\ b.at = at /\ b.size = size /\ ~b.alloc /\ b.want = 0
        /\ EndOf(b) = at + size + 2
    BY <1>5, <2>2, FreeBlockFields
  <2>4. Row(h.blocks \cup {b}, b.at, EndOf(b))
    <3>1. Row({b}, b.at, EndOf(b)) /\ h.blocks \cup {b} = {b}
      BY <1>2, <1>6, <2>1, <2>3, FirstRow
    <3>. QED  BY <3>1
  <2>. QED  BY <1>1, <1>2, <1>3, <1>4, <1>6, <2>1, <2>2, <2>3, <2>4 DEF b, Lengthens
<1>7. CASE h.pages # 0
  <2>1. Settled(h.blocks, Lo(h), Hi(h))
    BY <1>7 DEF GoodHeap
  <2>2. PICK k \in Nat : h.base = k * W /\ h.seg.rw = k .. (k + h.pages - 1)
    BY DEF Backing
  <2>3. h.seg.size = k + h.pages
    <3>1. o.seg.rw = h.seg.rw \cup h.seg.size .. (h.seg.size + n - 1)
      BY <1>1, <1>2, ExtendSegment
    <3>2. h.seg.size - 1 \in h.seg.rw
      BY <1>1, <1>2, <1>3, <1>7, <3>1
    <3>3. k + h.pages - 1 \in h.seg.rw
      BY <1>1, <1>7, <2>2
    <3>4. h.seg.size - 1 <= k + h.pages - 1
      BY <2>2, <3>2
    <3>5. k + h.pages - 1 <= h.seg.size - 1
      BY <1>1, <3>3
    <3>. QED  BY <1>1, <3>4, <3>5
  <2>4. start = h.base + h.pages * W
    BY <1>1, <1>3, <2>2, <2>3
  <2>5. at = start - 1 /\ size = n * W - 2
    BY <1>4, <1>7 DEF BlockStart, EpiWords, TagWords
  <2>6. at \in Nat /\ size \in Nat /\ at + size + 2 = start + n * W - 1
    <3>1. h.pages * W >= 9
      BY <1>1, <1>7
    <3>2. start >= 9 /\ n * W >= 5
      <4>. HIDE DEF start
      <4>. QED  BY <1>1, <1>2, <1>4, <1>7, <2>4, <3>1
    <3>. HIDE DEF start, at, size
    <3>. QED  BY <1>4, <2>5, <3>2
  <2>. HIDE DEF at, size, b
  <2>7. /\ b \in Block /\ b.at = at /\ b.size = size /\ ~b.alloc /\ b.want = 0
        /\ EndOf(b) = at + size + 2
    BY <1>5, <2>6, FreeBlockFields
  <2>8. Lo(h) \in Int /\ Hi(h) \in Int /\ Hi(h) = b.at
    <3>. HIDE DEF start
    <3>. QED  BY <1>1, <1>4, <2>4, <2>5, <2>7, HeapFields
  <2>9. Row(h.blocks \cup {b}, Lo(h), EndOf(b))
    <3>1. h.blocks # {} /\ Row(h.blocks, Lo(h), Hi(h)) /\ b.size >= 3
      BY <1>2, <1>7, <2>1, <2>5, <2>7 DEF Settled
    <3>. QED  BY <1>1, <2>7, <2>8, <3>1, AppendRow
  <2>10. b \notin h.blocks
    <3>1. b.at < EndOf(b) /\ EndOf(b) \in Int /\ b.at \in Int
      BY <2>7, BlockFields
    <3>2. \A c \in h.blocks : EndOf(c) <= b.at
      BY <2>1, <2>8 DEF Settled, Row, Within
    <3>. QED  BY <3>1, <3>2
  <2>. QED  BY <1>1, <1>2, <1>3, <1>4, <1>7, <2>4, <2>5, <2>6, <2>7, <2>9, <2>10 DEF b, Lengthens
<1>. QED  BY <1>1, <1>6, <1>7

\* The pages add_page was given become one more free block at the end of the
\* row, which is where the row ended unless a refused extension left a hole.
LEMMA NewPagesGood ==
    ASSUME NEW h, GoodHeap(h), Backing(h), NEW asize \in Nat, NEW o,
           NEW n, n = NumOfPage(h.pages, asize), o \in ExtendHeapSegment(h.seg, n),
           o.ret # NoPage, h.pages > 0 => o.ret - 1 \in o.seg.rw
    PROVE  LET g == NewPages(h, o, n)
           IN  /\ GoodHeap(g) /\ Backing(g) /\ g.pages # 0
               /\ SameLive(g.blocks, h.blocks)
               /\ Fits(g.blocks, asize) # {}
<1>. DEFINE W == PageWords
            start == o.ret * W
            b == FreshBlock(h, o, n)
            C == InsertNode(h.blocks, b)
            g == NewPages(h, o, n)
            lo == IF h.pages = 0 THEN b.at ELSE Lo(h)
<1>. W \in Nat /\ W > 8
  BY LayoutAssumption
<1>1. /\ h \in Heaps /\ Lo(h) \in Int /\ Lo(h) = h.base + 2
      /\ h.seg \in Segments /\ h.base \in Nat /\ h.pages \in Nat
      /\ h.blocks \in SUBSET Block
      /\ h.seg.size \in Nat /\ h.seg.rw \in SUBSET Nat
      /\ h.seg.size <= MaxPages /\ h.seg.rw \subseteq 0 .. (h.seg.size - 1)
  BY HeapFields DEF GoodHeap, Backing
<1>2. /\ start \in Nat /\ n \in Nat \ {0} /\ n * W \in Nat /\ o.ret \in Nat
      /\ h.pages = 0 => b.at = start + 2
      /\ h.pages # 0 => b.at = start - 1 /\ start = h.base + h.pages * W
      /\ b \in Block /\ ~b.alloc /\ b \notin h.blocks
      /\ asize <= b.size /\ 3 <= b.size
      /\ EndOf(b) = start + n * W - 1
      /\ Row(h.blocks \cup {b}, lo, EndOf(b))
  <2>1. Lengthens(h, o, n, asize, FreshBlock(h, o, n))
    BY NewPagesRow
  <2>. HIDE DEF b
  <2>. QED  BY <2>1 DEF Lengthens, b
<1>3. /\ o.seg \in Segments /\ o.seg.start = h.seg.start /\ o.seg.size <= MaxPages
      /\ o.ret = h.seg.size /\ o.seg.size = h.seg.size + n
      /\ o.seg.rw = h.seg.rw \cup h.seg.size .. (h.seg.size + n - 1)
  BY <1>1, <1>2, ExtendSegment
<1>4. g = [seg |-> o.seg, base |-> IF h.pages = 0 THEN start ELSE h.base,
           pages |-> h.pages + n, blocks |-> C]
  BY DEF NewPages, FreshBlock
<1>5. b.at \in Nat /\ b.size \in Nat /\ EndOf(b) = b.at + b.size + 2 /\ EndOf(b) \in Int /\ lo \in Int
  BY <1>1, <1>2, BlockFields
<1>. HIDE DEF b, start
<1>6. /\ Settled(C, lo, EndOf(b))
      /\ \A c \in Block : c.alloc => (c \in C <=> c \in h.blocks)
      /\ \E m \in C : ~m.alloc /\ m.at <= b.at /\ EndOf(b) <= EndOf(m)
  <2>1. NoFreePair(h.blocks) /\ h.blocks \cup {b} \in SUBSET Block
    BY <1>1, <1>2 DEF GoodHeap, Settled, NoFreePair
  <2>. HIDE DEF lo
  <2>. QED  BY <1>2, <1>5, <2>1, InsertSettled
<1>. HIDE DEF C, g
<1>7. /\ g \in Heaps /\ g.pages = h.pages + n /\ g.pages # 0 /\ g.seg = o.seg /\ g.blocks = C
      /\ g.base = IF h.pages = 0 THEN start ELSE h.base
  <2>1. C \in SUBSET Block /\ h.pages + n \in Nat \ {0}
    BY <1>1, <1>2, <1>6 DEF Settled
  <2>. QED  BY <1>1, <1>2, <1>3, <1>4, <2>1 DEF Heaps
<1>8. Lo(g) = lo /\ Hi(g) = EndOf(b)
  <2>1. (h.pages + n) * W = h.pages * W + n * W /\ h.pages * W \in Nat
    BY <1>1, <1>2
  <2>2. g.base + g.pages * W = start + n * W
    <3>1. CASE h.pages = 0
      BY <1>2, <1>7, <3>1
    <3>2. CASE h.pages # 0
      BY <1>1, <1>2, <1>7, <2>1, <3>2
    <3>. QED  BY <3>1, <3>2
  <2>. QED  BY <1>1, <1>2, <1>7, <2>2 DEF Lo, Hi, ProWords, EpiWords
<1>9. GoodHeap(g)
  BY <1>6, <1>7, <1>8 DEF GoodHeap
<1>10. Backing(g)
  <2>. DEFINE From(k) == g.base = k * W /\ g.seg.rw = k .. (k + g.pages - 1) /\ g.seg.size = k + g.pages
  <2>1. PICK k \in Nat : From(k)
    <3>1. CASE h.pages = 0
      <4>1. h.seg.rw = {}
        BY <3>1 DEF Backing
      <4>2. g.base = o.ret * W /\ g.seg.rw = o.ret .. (o.ret + g.pages - 1) /\ g.seg.size = o.ret + g.pages
        BY <1>1, <1>2, <1>3, <1>7, <3>1, <4>1 DEF start
      <4>3. From(o.ret)
        BY <4>2
      <4>. HIDE DEF From
      <4>. QED  BY <1>2, <4>3
    <3>2. CASE h.pages # 0
      <4>1. PICK k \in Nat : h.base = k * W /\ h.seg.rw = k .. (k + h.pages - 1)
        BY DEF Backing
      <4>2. h.seg.size = k + h.pages
        <5>1. h.seg.size - 1 \in h.seg.rw
          BY <1>1, <1>2, <1>3, <3>2
        <5>2. k + h.pages - 1 \in h.seg.rw
          BY <1>1, <3>2, <4>1
        <5>3. h.seg.size - 1 <= k + h.pages - 1
          BY <4>1, <5>1
        <5>4. k + h.pages - 1 <= h.seg.size - 1
          BY <1>1, <5>2
        <5>. QED  BY <1>1, <5>3, <5>4
      <4>3. g.seg.rw = k .. (k + h.pages - 1) \cup (k + h.pages) .. (k + h.pages + n - 1)
        BY <1>3, <1>7, <4>1, <4>2
      <4>4. g.seg.rw = k .. (k + g.pages - 1)
        BY <1>1, <1>2, <1>7, <4>3
      <4>5. From(k)
        <5>1. g.base = k * W
          BY <1>7, <3>2, <4>1
        <5>2. g.seg.size = k + g.pages
          <6>1. g.seg.size = h.seg.size + n /\ g.pages = h.pages + n
            BY <1>3, <1>7
          <6>. QED  BY <1>1, <1>2, <4>2, <6>1
        <5>. QED  BY <4>4, <5>1, <5>2
      <4>. HIDE DEF From
      <4>. QED  BY <4>5
    <3>. QED  BY <3>1, <3>2
  <2>2. g.seg.rw \subseteq 0 .. (g.seg.size - 1)
    <3>1. g.pages \in Nat
      BY <1>1, <1>2, <1>7
    <3>. QED  BY <2>1, <3>1
  <2>. QED  BY <1>3, <1>7, <2>1, <2>2 DEF Backing, Reserved
<1>11. SameLive(g.blocks, h.blocks)
  BY <1>6, <1>7 DEF SameLive
<1>12. Fits(g.blocks, asize) # {}
  <2>1. PICK m \in C : ~m.alloc /\ m.at <= b.at /\ EndOf(b) <= EndOf(m)
    BY <1>6
  <2>2. m \in Block
    BY <1>6 DEF Settled
  <2>3. m.at \in Nat /\ m.size \in Nat /\ EndOf(m) = m.at + m.size + 2
    BY <2>2, BlockFields
  <2>4. asize <= m.size
    BY <1>2, <1>5, <2>1, <2>3
  <2>. QED  BY <1>7, <2>1, <2>4 DEF Fits
<1>. QED  BY <1>7, <1>9, <1>10, <1>11, <1>12 DEF g

-----------------------------------------------------------------------------
(***************************************************************************)
(* The outcomes of the calls.                                              *)
(***************************************************************************)
GoodOutcome(o) == /\ o = Outcome(o.heap, o.ptr, o.fate)
                  /\ GoodHeap(o.heap) /\ o.ptr \in Nat
                  /\ o.fate \in ({"uninit", "up"} \cup Crashes) \ {"null_block"}
                  /\ o.fate = "up" => Backing(o.heap)

\* The call left the allocated blocks as they are and returned NULL.
NoBlock(B, o) == SameLive(o.heap.blocks, B) /\ o.ptr = NULL

\* The call allocated one block more, of asize words or few more.
NewBlock(B, o, asize, want) ==
    /\ o.fate = "up"
    /\ \E n \in Block :
         /\ n.alloc /\ n.want = want /\ asize <= n.size /\ n.size < asize + 5 /\ o.ptr = Payload(n)
         /\ n \notin B
         /\ \A c \in Block : c.alloc => (c \in o.heap.blocks <=> c \in B \/ c = n)

\* asize is a number of words with room for the two links and the request.
LEMMA AsizeBounds ==
    ASSUME NEW bytes \in Nat
    PROVE  /\ Asize(bytes) \in Nat /\ 2 <= Asize(bytes)
           /\ bytes # 0 => 3 <= Asize(bytes)
           /\ bytes <= 8 * RoundUp(bytes) /\ RoundUp(bytes) \in Nat
           /\ Asize(bytes) = 2 + RoundUp(bytes)
BY DEF Asize, RoundUp

\* An outcome gives back the heap, pointer and fate it was built from.
LEMMA OutcomeFields ==
    ASSUME NEW h, NEW ptr, NEW fate
    PROVE  /\ Outcome(h, ptr, fate).heap = h
           /\ Outcome(h, ptr, fate).ptr = ptr
           /\ Outcome(h, ptr, fate).fate = fate
BY DEF Outcome

\* add_page: the heap grows by a free block that fits asize, or only the segment
\* changes and the call fails.
LEMMA AddPageGood ==
    ASSUME NEW h, GoodHeap(h), Backing(h), NEW asize \in Nat, NEW g \in AddPage(h, asize)
    PROVE  /\ GoodHeap(g.heap) /\ g.ptr = NULL
           /\ SameLive(g.heap.blocks, h.blocks)
           /\ \/ g.fate = "hole"
              \/ g.fate = "full" /\ Backing(g.heap)
              \/ /\ g.fate = "up" /\ Backing(g.heap)
                 /\ g.heap.pages # 0 /\ Fits(g.heap.blocks, asize) # {}
           /\ g = Outcome(g.heap, g.ptr, g.fate)
<1>. DEFINE n == NumOfPage(h.pages, asize)
<1>1. /\ h.seg \in Segments /\ h.pages \in Nat /\ h.seg.size <= MaxPages
      /\ h.seg.size \in Nat
  BY HeapFields DEF GoodHeap, Backing
<1>2. n \in Nat \ {0}
  BY <1>1, NumOfPageBounds
<1>3. PICK o \in ExtendHeapSegment(h.seg, n) :
        g = IF o.ret = NoPage
            THEN Outcome([h EXCEPT !.seg = o.seg], NULL, "full")
            ELSE IF h.pages > 0 /\ (o.ret - 1) \notin o.seg.rw
            THEN Outcome([h EXCEPT !.seg = o.seg], NULL, "hole")
            ELSE Outcome(NewPages(h, o, n), NULL, "up")
  BY DEF AddPage
<1>4. /\ o.seg \in Segments /\ o.seg.start = h.seg.start /\ o.seg.size <= MaxPages
      /\ \/ o.ret = NoPage /\ o.seg.rw = h.seg.rw /\ h.seg.size <= o.seg.size
         \/ /\ o.ret = h.seg.size /\ o.seg.size = h.seg.size + n
            /\ o.seg.rw = h.seg.rw \cup h.seg.size .. (h.seg.size + n - 1)
  BY <1>1, <1>2, ExtendSegment
<1>. HIDE DEF n
<1>. DEFINE s == [h EXCEPT !.seg = o.seg]
<1>5. /\ GoodHeap(s) /\ s.blocks = h.blocks /\ s.pages = h.pages
      /\ s.base = h.base /\ s.seg = o.seg
  BY <1>4, SegOnly
<1>6. SameLive(s.blocks, h.blocks)
  BY <1>5 DEF SameLive
<1>7. CASE o.ret = NoPage
  <2>1. g = Outcome(s, NULL, "full")
    BY <1>3, <1>7
  <2>2. Backing(s)
    <3>1. o.seg.rw = h.seg.rw /\ h.seg.size <= o.seg.size /\ o.seg.size \in Nat
      BY <1>1, <1>4, <1>7 DEF NoPage, Segments
    <3>2. o.seg.rw \subseteq 0 .. (o.seg.size - 1)
      BY <1>1, <3>1 DEF Backing
    <3>. HIDE DEF s
    <3>. QED  BY <1>4, <1>5, <3>1, <3>2 DEF Backing, Reserved
  <2>. HIDE DEF s
  <2>. QED  BY <1>5, <1>6, <2>1, <2>2 DEF Outcome
<1>8. CASE o.ret # NoPage /\ h.pages > 0 /\ (o.ret - 1) \notin o.seg.rw
  <2>1. g = Outcome(s, NULL, "hole")
    BY <1>3, <1>8
  <2>. HIDE DEF s
  <2>. QED  BY <1>5, <1>6, <2>1 DEF Outcome
<1>9. CASE o.ret # NoPage /\ ~(h.pages > 0 /\ (o.ret - 1) \notin o.seg.rw)
  <2>. DEFINE w == NewPages(h, o, n)
  <2>1. g = Outcome(w, NULL, "up")
    BY <1>3, <1>9
  <2>2. /\ GoodHeap(w) /\ Backing(w) /\ w.pages # 0
        /\ SameLive(w.blocks, h.blocks) /\ Fits(w.blocks, asize) # {}
    BY <1>9, NewPagesGood DEF n
  <2>. HIDE DEF w
  <2>. QED  BY <2>1, <2>2 DEF Outcome
<1>. QED  BY <1>7, <1>8, <1>9

\* place on what find_fit chose: one more allocated block, at least as large as
\* asked, and the others as they were.
LEMMA PlaceFitGood ==
    ASSUME NEW h, GoodHeap(h), Backing(h), h.pages # 0,
           NEW asize \in Nat, 3 <= asize, NEW want \in Nat, NEW o \in PlaceFit(h, asize, want)
    PROVE  GoodOutcome(o) /\ NewBlock(h.blocks, o, asize, want)
<1>1. PICK b \in FindFit(h.blocks, asize) :
        o = Outcome([h EXCEPT !.blocks = Place(h.blocks, b, asize, want)], Payload(b), "up")
  BY DEF PlaceFit
<1>2. b \in h.blocks /\ ~b.alloc /\ asize <= b.size
  BY DEF FindFit, Fits
<1>3. h \in Heaps /\ Settled(h.blocks, Lo(h), Hi(h)) /\ Lo(h) \in Int /\ Hi(h) \in Int
  BY HeapFields DEF GoodHeap
<1>. DEFINE C == Place(h.blocks, b, asize, want)
            g == [h EXCEPT !.blocks = C]
<1>4. PICK lo \in Int, hi \in Int : lo = Lo(h) /\ hi = Hi(h)
  BY <1>3
<1>5. Settled(C, Lo(h), Hi(h)) /\ Takes(h.blocks, C, b.at, asize, want)
  <2>1. Settled(h.blocks, lo, hi)
    BY <1>3, <1>4
  <2>2. /\ Settled(Place(h.blocks, b, asize, want), lo, hi)
        /\ Takes(h.blocks, Place(h.blocks, b, asize, want), b.at, asize, want)
    BY <1>2, <2>1, PlaceSettled
  <2>. QED  BY <1>4, <2>2
<1>. HIDE DEF C
<1>6. GoodHeap(g) /\ g.blocks = C /\ Backing(g)
  <2>1. Settled(C, Lo(h), Hi(h)) /\ h \in Heaps
    BY <1>3, <1>5
  <2>. QED  BY <2>1, BlocksOnly
<1>7. /\ o.heap = g /\ o.ptr = Payload(b) /\ o.fate = "up"
      /\ o = Outcome(o.heap, o.ptr, o.fate)
  BY <1>1, OutcomeFields DEF C
<1>. HIDE DEF g
<1>8. Payload(b) \in Nat
  BY <1>2, <1>3, BlockFields DEF Settled, Payload
<1>9. GoodOutcome(o)
  BY <1>6, <1>7, <1>8 DEF GoodOutcome, Crashes
<1>10. NewBlock(h.blocks, o, asize, want)
  BY <1>5, <1>6, <1>7 DEF NewBlock, Takes, Payload
<1>. QED  BY <1>9, <1>10

\* mymalloc: NULL and no block lost, or one block more that is large enough.
LEMMA MyMallocGood ==
    ASSUME NEW h, GoodHeap(h), Backing(h), NEW bytes \in Nat, NEW want \in Nat,
           NEW o \in MyMalloc(h, bytes, want)
    PROVE  /\ GoodOutcome(o)
           /\ \/ NoBlock(h.blocks, o) /\ o.fate \in {"up", "hole"}
              \/ NewBlock(h.blocks, o, Asize(bytes), want) /\ bytes # 0 /\ bytes <= IntMax
<1>1. PICK asize \in Nat : asize = Asize(bytes) /\ (bytes # 0 => 3 <= asize)
  BY AsizeBounds
<1>. DEFINE placed(g) == IF g.fate = "full" THEN {[g EXCEPT !.fate = "up"]}
                         ELSE IF g.fate = "hole" THEN {g}
                         ELSE IF Fits(g.heap.blocks, asize) = {}
                              THEN {[g EXCEPT !.fate = "null_block"]}
                         ELSE PlaceFit(g.heap, asize, want)
<1>2. CASE bytes = 0 \/ bytes > IntMax
  <2>1. o = Outcome(h, NULL, "up")
    BY <1>2 DEF MyMalloc
  <2>. QED  BY <2>1, OutcomeFields DEF GoodOutcome, NoBlock, SameLive, NULL, Crashes
<1>3. CASE ~(bytes = 0 \/ bytes > IntMax) /\ Fits(h.blocks, asize) # {}
  <2>1. o \in PlaceFit(h, asize, want)
    BY <1>1, <1>3 DEF MyMalloc
  <2>2. h.pages # 0
    BY <1>3 DEF GoodHeap, Fits
  <2>3. GoodOutcome(o) /\ NewBlock(h.blocks, o, asize, want)
    BY <1>1, <1>3, <2>1, <2>2, PlaceFitGood
  <2>. QED  BY <1>1, <1>3, <2>3, LayoutAssumption
<1>4. CASE ~(bytes = 0 \/ bytes > IntMax) /\ Fits(h.blocks, asize) = {}
  <2>1. o \in UNION {placed(g) : g \in AddPage(h, asize)}
    BY <1>1, <1>4 DEF MyMalloc
  <2>2. PICK g \in AddPage(h, asize) : o \in placed(g)
    BY <2>1
  <2>3. /\ GoodHeap(g.heap) /\ g.ptr = NULL
        /\ SameLive(g.heap.blocks, h.blocks)
        /\ \/ g.fate = "hole"
           \/ g.fate = "full" /\ Backing(g.heap)
           \/ /\ g.fate = "up" /\ Backing(g.heap)
              /\ g.heap.pages # 0 /\ Fits(g.heap.blocks, asize) # {}
        /\ g = Outcome(g.heap, g.ptr, g.fate)
    BY <1>1, AddPageGood
  <2>4. CASE g.fate = "hole"
    <3>1. o = g
      BY <2>2, <2>4
    <3>. QED  BY <2>3, <2>4, <3>1 DEF GoodOutcome, NoBlock, SameLive, NULL, Crashes
  <2>5. CASE g.fate = "full"
    <3>1. o = [g EXCEPT !.fate = "up"]
      BY <2>2, <2>5
    <3>2. o = Outcome(g.heap, g.ptr, "up")
      BY <2>3, <3>1 DEF Outcome
    <3>3. o.heap = g.heap /\ o.ptr = g.ptr /\ o.fate = "up"
      BY <3>2, OutcomeFields
    <3>. QED  BY <2>3, <2>5, <3>2, <3>3 DEF GoodOutcome, NoBlock, SameLive, NULL, Crashes
  <2>6. CASE g.fate = "up"
    <3>1. o \in PlaceFit(g.heap, asize, want)
      BY <2>2, <2>3, <2>6
    <3>2. GoodOutcome(o) /\ NewBlock(g.heap.blocks, o, asize, want)
      BY <1>1, <1>4, <2>3, <2>6, <3>1, PlaceFitGood
    <3>3. NewBlock(h.blocks, o, asize, want)
      BY <2>3, <3>2 DEF NewBlock, SameLive
    <3>. QED  BY <1>1, <1>4, <3>2, <3>3, LayoutAssumption
  <2>. QED  BY <2>3, <2>4, <2>5, <2>6
<1>. QED  BY <1>2, <1>3, <1>4

\* myfree: exactly the freed block is gone.
LEMMA MyFreeGood ==
    ASSUME NEW h, GoodHeap(h), Backing(h), NEW b \in h.blocks, b.alloc
    PROVE  LET g == MyFree(h, b)
           IN  /\ GoodHeap(g) /\ Backing(g)
               /\ \A c \in Block : c.alloc => (c \in g.blocks <=> c \in h.blocks /\ c # b)
<1>1. /\ h \in Heaps /\ h.pages # 0 /\ Settled(h.blocks, Lo(h), Hi(h))
      /\ Lo(h) \in Int /\ Hi(h) \in Int
  BY HeapFields DEF GoodHeap
<1>. DEFINE C == Released(h.blocks, b)
<1>2. /\ Settled(C, Lo(h), Hi(h))
      /\ \A c \in Block : c.alloc => (c \in C <=> c \in h.blocks /\ c # b)
  <2>1. PICK lo \in Int, hi \in Int : lo = Lo(h) /\ hi = Hi(h)
    BY <1>1
  <2>2. Settled(h.blocks, lo, hi)
    BY <1>1, <2>1
  <2>3. /\ Settled(Released(h.blocks, b), lo, hi)
        /\ \A c \in Block :
             c.alloc => (c \in Released(h.blocks, b) <=> c \in h.blocks /\ c # b)
    BY <2>2, ReleaseSettled
  <2>. QED  BY <2>1, <2>3
<1>. HIDE DEF C
<1>. DEFINE g == [h EXCEPT !.blocks = C]
<1>3. GoodHeap(g) /\ g.blocks = C /\ Backing(g)
  BY <1>1, <1>2, BlocksOnly
<1>4. MyFree(h, b) = g
  BY DEF MyFree, C
<1>. HIDE DEF g
<1>. QED  BY <1>2, <1>3, <1>4

\* An int never holds more than the size_t stored in it, and holds it exactly
\* when it fits.
LEMMA ToIntBounds ==
    ASSUME NEW x \in Nat
    PROVE  /\ ToInt(x) \in Int /\ ToInt(x) <= x
           /\ x <= IntMax => ToInt(x) = x
<1>. DEFINE m == 2 * (IntMax + 1)
            y == x + IntMax + 1
            r == y % m
<1>. IntMax \in Nat
  BY LayoutAssumption
<1>1. m \in Nat \ {0} /\ y \in Nat
  OBVIOUS
<1>2. ToInt(x) = r - (IntMax + 1)
  BY DEF ToInt
<1>3. r \in Nat /\ r <= y /\ (y < m => r = y)
  <2>. HIDE DEF m, y
  <2>. QED  BY <1>1
<1>. HIDE DEF r
<1>. QED  BY <1>2, <1>3

\* A payload of Asize(bytes) words, or of Asize(Grown(bytes)), holds bytes bytes.
LEMMA RoomFor ==
    ASSUME NEW bytes \in Nat, NEW size \in Nat
    PROVE  /\ Asize(bytes) <= size => bytes <= 8 * size
           /\ Asize(Grown(bytes)) <= size => bytes <= 8 * size
           /\ Grown(bytes) \in Nat
BY DEF Asize, RoundUp, Grown

\* b is kept, as a block of which bytes are asked now.
Kept(B, o, b, bytes) ==
    /\ o.fate = "up" /\ o.ptr = Payload(b)
    /\ \A c \in Block : c.alloc =>
         (c \in o.heap.blocks <=> (c \in B /\ c # b) \/ c = [b EXCEPT !.want = bytes])

\* myrealloc: nothing changes, or b stays where it is, or b is gone and the
\* outcome is that of mymalloc on the heap without b.
LEMMA MyReallocGood ==
    ASSUME NEW h, GoodHeap(h), Backing(h), NEW b \in h.blocks, b.alloc, NEW bytes \in Nat,
           NEW o \in MyRealloc(h, b, bytes)
    PROVE  /\ GoodOutcome(o)
           /\ \/ NoBlock(h.blocks, o) /\ (bytes = 0 \/ o.fate = "stack")
              \/ /\ Kept(h.blocks, o, b, bytes) /\ bytes # 0
                 /\ 8 * Asize(bytes) <= IntMax => bytes <= 8 * b.size
              \/ /\ NoBlock(MyFree(h, b).blocks, o) /\ bytes # 0
                 /\ o.fate \in {"hole", "null_copy"}
              \/ /\ NewBlock(MyFree(h, b).blocks, o, Asize(Grown(bytes)), bytes)
                 /\ Grown(bytes) <= IntMax /\ bytes # 0
<1>. DEFINE asize   == ToInt(8 * Asize(bytes))
            oldsize == ToInt(8 * b.size)
            freed   == MyFree(h, b)
<1>1. /\ h \in Heaps /\ h.pages # 0 /\ Settled(h.blocks, Lo(h), Hi(h))
      /\ Lo(h) \in Int /\ Hi(h) \in Int /\ b \in Block
  BY HeapFields DEF GoodHeap, Settled
<1>2. CASE bytes = 0
  <2>1. o = Outcome(h, NULL, "up")
    BY <1>2 DEF MyRealloc
  <2>. QED  BY <1>2, <2>1, OutcomeFields DEF GoodOutcome, NoBlock, SameLive, NULL, Crashes
<1>3. CASE bytes # 0 /\ oldsize >= asize
  <2>. DEFINE n == [b EXCEPT !.want = bytes]
              C == (h.blocks \ {b}) \cup {n}
              g == [h EXCEPT !.blocks = C]
  <2>1. o = Outcome(g, Payload(b), "up")
    BY <1>3 DEF MyRealloc
  <2>2. Settled(C, Lo(h), Hi(h))
    <3>1. PICK lo \in Int, hi \in Int : lo = Lo(h) /\ hi = Hi(h)
      BY <1>1
    <3>2. Settled(h.blocks, lo, hi)
      BY <1>1, <3>1
    <3>3. Settled((h.blocks \ {b}) \cup {[b EXCEPT !.want = bytes]}, lo, hi)
      BY <3>2, KeepSettled
    <3>. QED  BY <3>1, <3>3
  <2>3. \A c \in Block : c \in C <=> (c \in h.blocks /\ c # b) \/ c = n
    OBVIOUS
  <2>. HIDE DEF C
  <2>4. GoodHeap(g) /\ g.blocks = C /\ Backing(g)
    BY <1>1, <2>2, BlocksOnly
  <2>. HIDE DEF g, n
  <2>5. /\ o.heap = g /\ o.ptr = Payload(b) /\ o.fate = "up"
        /\ o = Outcome(o.heap, o.ptr, o.fate)
    BY <2>1, OutcomeFields
  <2>6. GoodOutcome(o)
    BY <1>1, <2>4, <2>5, BlockFields DEF GoodOutcome, Crashes, Payload
  <2>7. Kept(h.blocks, o, b, bytes)
    BY <2>3, <2>4, <2>5 DEF Kept, n
  <2>8. 8 * Asize(bytes) <= IntMax => bytes <= 8 * b.size
    <3>1. PICK a \in Nat : a = Asize(bytes)
      BY AsizeBounds
    <3>2. PICK z \in Nat : z = b.size
      BY <1>1, BlockFields
    <3>3. /\ ToInt(8 * z) \in Int /\ ToInt(8 * z) <= 8 * z
          /\ ToInt(8 * a) \in Int
          /\ 8 * a <= IntMax => ToInt(8 * a) = 8 * a
      BY ToIntBounds
    <3>4. ToInt(8 * a) <= ToInt(8 * z)
      BY <1>3, <3>1, <3>2, <3>3
    <3>5. 8 * a <= IntMax => a <= z
      BY <3>3, <3>4, LayoutAssumption
    <3>. QED  BY <3>1, <3>2, <3>5, RoomFor
  <2>. QED  BY <1>3, <2>6, <2>7, <2>8
<1>4. CASE bytes # 0 /\ ~(oldsize >= asize) /\ oldsize \notin 0 .. StackBytes
  <2>1. o = Outcome(h, NULL, "stack")
    BY <1>4 DEF MyRealloc
  <2>. QED  BY <2>1, OutcomeFields DEF GoodOutcome, NoBlock, SameLive, NULL, Crashes
<1>5. CASE bytes # 0 /\ ~(oldsize >= asize) /\ oldsize \in 0 .. StackBytes
  <2>1. PICK g \in MyMalloc(freed, Grown(bytes), bytes) :
          o = IF g.fate = "up" /\ g.ptr = NULL THEN [g EXCEPT !.fate = "null_copy"] ELSE g
    BY <1>5 DEF MyRealloc
  <2>2. GoodHeap(freed) /\ Backing(freed)
    BY MyFreeGood
  <2>. HIDE DEF freed
  <2>3. PICK want \in Nat : want = Grown(bytes)
    BY RoomFor
  <2>4. /\ GoodOutcome(g)
        /\ \/ NoBlock(freed.blocks, g) /\ g.fate \in {"up", "hole"}
           \/ NewBlock(freed.blocks, g, Asize(want), bytes) /\ want <= IntMax
    BY <2>1, <2>2, <2>3, MyMallocGood
  <2>5. CASE NoBlock(freed.blocks, g) /\ g.fate = "up"
    <3>1. o = [g EXCEPT !.fate = "null_copy"]
      BY <2>1, <2>5 DEF NoBlock
    <3>2. o = Outcome(g.heap, g.ptr, "null_copy")
      BY <2>4, <3>1 DEF GoodOutcome, Outcome
    <3>3. o.heap = g.heap /\ o.ptr = g.ptr /\ o.fate = "null_copy"
      BY <3>2, OutcomeFields
    <3>4. GoodOutcome(o)
      BY <2>4, <3>2, <3>3 DEF GoodOutcome, Crashes
    <3>5. NoBlock(freed.blocks, o)
      BY <2>5, <3>3 DEF NoBlock
    <3>. QED  BY <1>5, <3>3, <3>4, <3>5 DEF freed
  <2>6. CASE NoBlock(freed.blocks, g) /\ g.fate = "hole"
    BY <1>5, <2>1, <2>4, <2>6 DEF freed
  <2>7. CASE NewBlock(freed.blocks, g, Asize(want), bytes) /\ want <= IntMax
    <3>1. g.ptr # NULL
      BY <2>7, BlockFields DEF NewBlock, Payload, NULL
    <3>. QED  BY <1>5, <2>1, <2>3, <2>4, <2>7, <3>1 DEF freed
  <2>. QED  BY <2>4, <2>5, <2>6, <2>7
<1>. QED  BY <1>2, <1>3, <1>4, <1>5

\* myinit: an empty heap on a fresh segment, or the old heap, not to be used.
LEMMA MyInitGood ==
    ASSUME NEW h, GoodHeap(h), NEW o \in MyInit(h)
    PROVE  /\ GoodOutcome(o) /\ o.ptr = NULL
           /\ o.fate \in {"uninit", "up"}
           /\ o.fate = "up" => o.heap.blocks = {}
           /\ o.fate # "up" => o.heap.blocks = h.blocks
<1>1. PICK p \in InitHeapSegment(h.seg, 0) :
        o = IF p.ret = NoPage
            THEN Outcome([h EXCEPT !.seg = p.seg], NULL, "uninit")
            ELSE Outcome([EmptyHeap EXCEPT !.seg = p.seg], NULL, "up")
  BY DEF MyInit
<1>2. /\ p.seg \in Segments
      /\ p.ret # NoPage => p.seg.rw = {} /\ p.seg.size = 0 /\ Reserved(p.seg)
  <2>1. h.seg \in Segments
    BY HeapFields DEF GoodHeap
  <2>. QED  BY <2>1, InitSegment
<1>3. CASE p.ret = NoPage
  <2>. DEFINE g == [h EXCEPT !.seg = p.seg]
  <2>1. GoodHeap(g) /\ g.blocks = h.blocks
    BY <1>2, SegOnly
  <2>2. o = Outcome(g, NULL, "uninit")
    BY <1>1, <1>3
  <2>. HIDE DEF g
  <2>. QED  BY <2>1, <2>2, OutcomeFields DEF GoodOutcome, NULL, Crashes
<1>4. CASE p.ret # NoPage
  <2>. DEFINE g == [EmptyHeap EXCEPT !.seg = p.seg]
  <2>1. g.seg = p.seg /\ g.base = 0 /\ g.pages = 0 /\ g.blocks = {} /\ g \in Heaps
    BY <1>2 DEF EmptyHeap, Heaps
  <2>2. o = Outcome(g, NULL, "up")
    BY <1>1, <1>4
  <2>. HIDE DEF g
  <2>3. GoodHeap(g)
    BY <2>1 DEF GoodHeap
  <2>4. Backing(g)
    <3>1. MaxPages \in Nat /\ PageWords \in Nat
      BY SegmentAssumption, LayoutAssumption
    <3>2. g.base = 0 * PageWords /\ g.seg.rw = 0 .. (0 + g.pages - 1)
      BY <1>2, <1>4, <2>1, <3>1
    <3>. QED  BY <1>2, <1>4, <2>1, <3>1, <3>2 DEF Backing
  <2>. QED  BY <2>1, <2>2, <2>3, <2>4, OutcomeFields DEF GoodOutcome, NULL
<1>. QED  BY <1>3, <1>4

-----------------------------------------------------------------------------
(***************************************************************************)
(* The invariant.                                                          *)
(***************************************************************************)
IInv == /\ GoodHeap(heap)
        /\ ret \in Nat
        /\ status \in ({"uninit", "up"} \cup Crashes) \ {"null_block"}
        /\ status = "up" => Backing(heap)

\* The process starts without a heap.
LEMMA InitInv == Init => IInv
<1>. SUFFICES ASSUME Init PROVE IInv
  OBVIOUS
<1>1. heap = EmptyHeap /\ ret = NULL /\ status = "uninit"
  BY DEF Init
<1>2. EmptyHeap \in Heaps /\ EmptyHeap.pages = 0 /\ EmptyHeap.blocks = {}
  BY DEF EmptyHeap, Heaps, NoSegment, Segments
<1>3. GoodHeap(EmptyHeap)
  BY <1>2 DEF GoodHeap
<1>. QED  BY <1>1, <1>3 DEF IInv, NULL

\* Every call keeps the inductive invariant.
LEMMA NextInv == IInv /\ [Next]_vars => IInv'
<1>. SUFFICES ASSUME IInv, [Next]_vars PROVE IInv'
  OBVIOUS
<1>0. Requests \subseteq Nat
  BY ClientAssumption
<1>1. ASSUME NEW o, GoodOutcome(o), Take(o)
      PROVE  IInv'
  BY <1>1 DEF GoodOutcome, Take, IInv
<1>2. CASE Initialize
  BY <1>1, <1>2, MyInitGood DEF Initialize, IInv
<1>3. CASE \E bytes \in Requests : Malloc(bytes)
  BY <1>0, <1>1, <1>3, MyMallocGood DEF Malloc, IInv
<1>4. CASE FreeNull
  <2>1. GoodOutcome(Outcome(heap, NULL, "up"))
    BY <1>4, OutcomeFields DEF FreeNull, IInv, GoodOutcome, NULL
  <2>. QED  BY <1>1, <1>4, <2>1 DEF FreeNull
<1>5. CASE \E b \in Live : Free(b)
  <2>1. PICK b \in heap.blocks : b.alloc /\ Free(b)
    BY <1>5 DEF Live
  <2>2. GoodHeap(MyFree(heap, b)) /\ Backing(MyFree(heap, b))
    BY <2>1, MyFreeGood DEF Free, IInv
  <2>3. GoodOutcome(Outcome(MyFree(heap, b), NULL, "up"))
    BY <2>2, OutcomeFields DEF GoodOutcome, NULL
  <2>. QED  BY <1>1, <2>1, <2>3 DEF Free
<1>6. CASE \E b \in Live, bytes \in Requests : Realloc(b, bytes)
  <2>1. PICK b \in heap.blocks, bytes \in Nat : b.alloc /\ Realloc(b, bytes)
    BY <1>0, <1>6 DEF Live
  <2>2. PICK o \in MyRealloc(heap, b, bytes) : Take(o)
    BY <2>1 DEF Realloc
  <2>3. GoodOutcome(o)
    BY <2>1, <2>2, MyReallocGood DEF Realloc, IInv
  <2>. QED  BY <1>1, <2>2, <2>3
<1>7. CASE UNCHANGED vars
  BY <1>7 DEF vars, IInv
<1>. QED  BY <1>2, <1>3, <1>4, <1>5, <1>6, <1>7 DEF Next

\* The invariant holds in every reachable state: what myinit, mymalloc, myfree
\* and myrealloc leave behind is a settled row of blocks over open pages.
THEOREM Invariance == Spec => []IInv
BY InitInv, NextInv, PTL DEF Spec

\* The inductive invariant gives each property the runs check.
LEMMA InvImplies == IInv => TypeOK /\ Tiling /\ NoAdjacentFree /\ NeverPlacesNull /\ Backed
<1>. SUFFICES ASSUME IInv PROVE TypeOK /\ Tiling /\ NoAdjacentFree /\ NeverPlacesNull /\ Backed
  OBVIOUS
<1>1. heap \in Heaps /\ heap.pages \in Nat
  BY HeapFields DEF IInv, GoodHeap
<1>2. TypeOK
  BY <1>1 DEF IInv, TypeOK
<1>3. NeverPlacesNull
  BY DEF IInv, NeverPlacesNull
<1>4. heap.pages = 0 => heap.blocks = {}
  BY DEF IInv, GoodHeap
<1>5. heap.pages # 0 => Settled(heap.blocks, Lo(heap), Hi(heap))
  BY DEF IInv, GoodHeap
<1>6. Tiling
  <2>1. heap.pages > 0 <=> heap.blocks # {}
    BY <1>1, <1>4, <1>5 DEF Settled
  <2>2. Row(heap.blocks, Lo(heap), Hi(heap))
    BY <1>4, <1>5 DEF Settled, Row, Within, Separate, Gapless
  <2>. QED  BY <2>1, <2>2 DEF Tiling
<1>7. NoAdjacentFree
  BY <1>4, <1>5 DEF Settled, NoAdjacentFree, NoFreePair
<1>8. Backed
  <2>1. SUFFICES ASSUME status = "up", NEW p \in 0 .. (heap.pages - 1)
                 PROVE  \E q \in heap.seg.rw : q * PageWords = heap.base + p * PageWords
    BY DEF Backed
  <2>2. PICK k \in Nat : heap.base = k * PageWords /\ heap.seg.rw = k .. (k + heap.pages - 1)
    BY <2>1 DEF IInv, Backing
  <2>3. k + p \in heap.seg.rw /\ (k + p) * PageWords = heap.base + p * PageWords
    BY <1>1, <2>2, LayoutAssumption
  <2>. QED  BY <2>3
<1>. QED  BY <1>2, <1>3, <1>6, <1>7, <1>8

\* Whatever the client calls and the kernel refuses, the heap, the returned
\* pointer and the status keep their shape.
THEOREM TypeCorrect == Spec => []TypeOK
BY Invariance, InvImplies, PTL

\* place, coalesce and add_page always leave a row of blocks from prologue to
\* epilogue, without overlap, gap or overrun.
THEOREM TilingHolds == Spec => []Tiling
BY Invariance, InvImplies, PTL

\* coalesce is complete: two free blocks never touch, so the fragmentation
\* that readme.txt 15 sets out to fight never persists over a call.
THEOREM CoalescingComplete == Spec => []NoAdjacentFree
BY Invariance, InvImplies, PTL

\* add_page's denominators suffice for every request and page size: mymalloc's
\* unchecked find_fit never yields NULL.
THEOREM PageAlwaysFits == Spec => []NeverPlacesNull
BY Invariance, InvImplies, PTL

\* While the process is up every page of the heap is open, whatever mprotect
\* refused in between: a hole in the segment is never built over.
THEOREM PagesOpen == Spec => []Backed
BY Invariance, InvImplies, PTL

-----------------------------------------------------------------------------
(***************************************************************************)
(* The promise to the client: every call of BlockHeapSpec is one that      *)
(* HeapPromise allows it, for every set of requests whose adjusted size    *)
(* fits an int.                                                            *)
(***************************************************************************)
\* No request is so large that the int asize of myrealloc (436) overflows.
SmallRequests == \A bytes \in Requests : 8 * Asize(bytes) <= IntMax

\* Every allocated block has a purpose and the room for it.
Roomy(B) == \A b \in B : b.alloc => b.want # 0 /\ b.want <= 8 * b.size

-----------------------------------------------------------------------------
(***************************************************************************)
(* Capacity.                                                               *)
(***************************************************************************)
\* What each outcome of a call says about the allocated blocks keeps them
\* roomy, if the new or enlarged block is.
LEMMA RoomyStep ==
    ASSUME NEW B \in SUBSET Block, NEW C \in SUBSET Block, Roomy(B), NEW n \in Block,
           n.want # 0 /\ n.want <= 8 * n.size,
           \A c \in Block : c.alloc => (c \in C => c \in B \/ c = n)
    PROVE  Roomy(C)
BY DEF Roomy

\* A call that returns NULL gave the client no block, so realloc(p, 0) is the
\* first outcome of MyReallocGood.
LEMMA ReallocZero ==
    ASSUME NEW h, NEW b, NEW o \in MyRealloc(h, b, 0)
    PROVE  o = Outcome(h, NULL, "up")
BY DEF MyRealloc

\* The blocks of a good heap are blocks.
LEMMA GoodBlocks ==
    ASSUME NEW h, GoodHeap(h)
    PROVE  h.blocks \in SUBSET Block
BY HeapFields DEF GoodHeap

\* The block that mymalloc adds is roomy, as the payload was computed from the
\* bytes that were asked for.
LEMMA NewBlockRoomy ==
    ASSUME NEW B \in SUBSET Block, Roomy(B), NEW o, o.heap.blocks \in SUBSET Block,
           NEW asize, NEW want \in Nat, want # 0, NewBlock(B, o, asize, want),
           \A size \in Nat : asize <= size => want <= 8 * size
    PROVE  Roomy(o.heap.blocks)
<1>1. PICK n \in Block :
        /\ n.want = want /\ asize <= n.size
        /\ \A c \in Block : c.alloc => (c \in o.heap.blocks <=> c \in B \/ c = n)
  BY DEF NewBlock
<1>2. n.want # 0 /\ n.want <= 8 * n.size
  BY <1>1, BlockFields
<1>. QED  BY <1>1, <1>2, RoomyStep

\* mymalloc keeps every block roomy.
LEMMA MallocRoomy ==
    ASSUME NEW h, GoodHeap(h), Backing(h), Roomy(h.blocks), NEW bytes \in Nat,
           NEW o \in MyMalloc(h, bytes, bytes)
    PROVE  Roomy(o.heap.blocks)
<1>1. /\ GoodOutcome(o)
      /\ \/ NoBlock(h.blocks, o)
         \/ NewBlock(h.blocks, o, Asize(bytes), bytes) /\ bytes # 0
  BY MyMallocGood
<1>2. h.blocks \in SUBSET Block /\ o.heap.blocks \in SUBSET Block
  BY <1>1, GoodBlocks DEF GoodOutcome
<1>3. CASE NoBlock(h.blocks, o)
  BY <1>2, <1>3 DEF NoBlock, SameLive, Roomy
<1>4. CASE NewBlock(h.blocks, o, Asize(bytes), bytes) /\ bytes # 0
  BY <1>2, <1>4, NewBlockRoomy, RoomFor
<1>. QED  BY <1>1, <1>3, <1>4

\* So does myfree, which adds no allocated block.
LEMMA FreeRoomy ==
    ASSUME NEW h, GoodHeap(h), Backing(h), Roomy(h.blocks), NEW b \in h.blocks, b.alloc
    PROVE  Roomy(MyFree(h, b).blocks)
<1>1. /\ GoodHeap(MyFree(h, b))
      /\ \A c \in Block : c.alloc => (c \in MyFree(h, b).blocks <=> c \in h.blocks /\ c # b)
  BY MyFreeGood
<1>2. MyFree(h, b).blocks \in SUBSET Block
  BY <1>1, GoodBlocks
<1>. QED  BY <1>1, <1>2 DEF Roomy

\* So does myrealloc of a size that fits an int, in place or moved.
LEMMA ReallocRoomy ==
    ASSUME NEW h, GoodHeap(h), Backing(h), Roomy(h.blocks), NEW b \in h.blocks, b.alloc,
           NEW bytes \in Nat, 8 * Asize(bytes) <= IntMax, NEW o \in MyRealloc(h, b, bytes)
    PROVE  Roomy(o.heap.blocks)
<1>. DEFINE freed == MyFree(h, b)
<1>1. CASE bytes = 0
  BY <1>1, ReallocZero DEF Outcome
<1>2. CASE bytes # 0
  <2>1. /\ GoodOutcome(o)
        /\ \/ NoBlock(h.blocks, o)
           \/ Kept(h.blocks, o, b, bytes) /\ bytes <= 8 * b.size
           \/ NoBlock(freed.blocks, o)
           \/ NewBlock(freed.blocks, o, Asize(Grown(bytes)), bytes)
    BY MyReallocGood
  <2>2. /\ h.blocks \in SUBSET Block /\ o.heap.blocks \in SUBSET Block
        /\ freed.blocks \in SUBSET Block /\ Roomy(freed.blocks)
    BY <2>1, FreeRoomy, MyFreeGood, GoodBlocks DEF GoodOutcome
  <2>. HIDE DEF freed
  <2>3. CASE NoBlock(h.blocks, o)
    BY <2>2, <2>3 DEF NoBlock, SameLive, Roomy
  <2>4. CASE Kept(h.blocks, o, b, bytes) /\ bytes <= 8 * b.size
    <3>. DEFINE n == [b EXCEPT !.want = bytes]
    <3>1. n \in Block /\ n.want = bytes /\ n.size = b.size
      BY <2>2 DEF Block
    <3>2. \A c \in Block : c.alloc => (c \in o.heap.blocks => c \in h.blocks \/ c = n)
      BY <2>4 DEF Kept
    <3>. HIDE DEF n
    <3>. QED  BY <1>2, <2>2, <2>4, <3>1, <3>2, RoomyStep
  <2>5. CASE NoBlock(freed.blocks, o)
    BY <2>2, <2>5 DEF NoBlock, SameLive, Roomy
  <2>6. CASE NewBlock(freed.blocks, o, Asize(Grown(bytes)), bytes)
    BY <1>2, <2>2, <2>6, NewBlockRoomy, RoomFor
  <2>. QED  BY <2>1, <2>3, <2>4, <2>5, <2>6
<1>. QED  BY <1>1, <1>2

\* Every call keeps capacity, as long as no request overflows an int.
LEMMA RoomyInvariant ==
    ASSUME SmallRequests
    PROVE  Spec => []Roomy(heap.blocks)
<1>1. Init => Roomy(heap.blocks)
  BY DEF Init, EmptyHeap, Roomy
<1>2. ASSUME IInv, Roomy(heap.blocks), [Next]_vars
      PROVE  Roomy(heap.blocks)'
  <2>0. Requests \subseteq Nat
    BY ClientAssumption
  <2>1. CASE Initialize
    <3>1. PICK o \in MyInit(heap) : Take(o)
      BY <2>1 DEF Initialize
    <3>2. o.heap.blocks = {} \/ o.heap.blocks = heap.blocks
      BY <1>2, <3>1, MyInitGood DEF IInv
    <3>. QED  BY <1>2, <3>1, <3>2 DEF Take, Roomy
  <2>2. CASE \E bytes \in Requests : Malloc(bytes)
    <3>1. PICK bytes \in Nat : Malloc(bytes)
      BY <2>0, <2>2
    <3>2. PICK o \in MyMalloc(heap, bytes, bytes) : Take(o)
      BY <3>1 DEF Malloc
    <3>. QED  BY <1>2, <3>1, <3>2, MallocRoomy DEF Malloc, Take, IInv
  <2>3. CASE FreeNull
    BY <1>2, <2>3 DEF FreeNull, Take, Outcome
  <2>4. CASE \E b \in Live : Free(b)
    <3>1. PICK b \in heap.blocks : b.alloc /\ Free(b)
      BY <2>4 DEF Live
    <3>2. Roomy(MyFree(heap, b).blocks)
      BY <1>2, <3>1, FreeRoomy DEF Free, IInv
    <3>. QED  BY <3>1, <3>2 DEF Free, Take, Outcome
  <2>5. CASE \E b \in Live, bytes \in Requests : Realloc(b, bytes)
    <3>1. PICK b \in heap.blocks, bytes \in Requests : b.alloc /\ Realloc(b, bytes)
      BY <2>5 DEF Live
    <3>2. bytes \in Nat /\ 8 * Asize(bytes) <= IntMax
      BY <2>0, SmallRequests DEF SmallRequests
    <3>3. PICK o \in MyRealloc(heap, b, bytes) : Take(o)
      BY <3>1 DEF Realloc
    <3>. QED  BY <1>2, <3>1, <3>2, <3>3, ReallocRoomy DEF Realloc, Take, IInv
  <2>6. CASE UNCHANGED vars
    BY <1>2, <2>6 DEF vars
  <2>. QED  BY <1>2, <2>1, <2>2, <2>3, <2>4, <2>5, <2>6 DEF Next
<1>. QED  BY <1>1, <1>2, Invariance, PTL DEF Spec

\* A block the client holds is as large as it last asked, through splits, whole
\* placements and reallocs, as long as no request overflows an int.
THEOREM CapacityKept ==
    ASSUME SmallRequests
    PROVE  Spec => []CapacityHolds
<1>1. Roomy(heap.blocks) => CapacityHolds
  BY DEF Roomy, CapacityHolds, Live
<1>. QED  BY <1>1, RoomyInvariant, PTL

-----------------------------------------------------------------------------
(***************************************************************************)
(* The size of an allocated block in bytes, which myrealloc stores in an   *)
(* int (437), is at most a header and six words beyond that int.           *)
(***************************************************************************)
NearInt(B) == \A b \in B : b.alloc => 8 * b.size <= IntMax + 55

\* What mymalloc allocates is little more than what an int can ask for.
LEMMA NewBlockNear ==
    ASSUME NEW B \in SUBSET Block, NearInt(B), NEW o, o.heap.blocks \in SUBSET Block,
           NEW bytes \in Nat, bytes <= IntMax, NEW want, NewBlock(B, o, Asize(bytes), want)
    PROVE  NearInt(o.heap.blocks)
<1>1. PICK n \in Block :
        /\ n.size < Asize(bytes) + 5
        /\ \A c \in Block : c.alloc => (c \in o.heap.blocks <=> c \in B \/ c = n)
  BY DEF NewBlock
<1>2. 8 * n.size <= IntMax + 55
  <2>1. n.size \in Nat
    BY BlockFields
  <2>2. n.size < ((bytes + 7) \div 8) + 7
    BY <1>1, <2>1 DEF Asize, RoundUp
  <2>3. 8 * ((bytes + 7) \div 8) <= bytes + 7 /\ (bytes + 7) \div 8 \in Nat
    OBVIOUS
  <2>. QED  BY <2>1, <2>2, <2>3, LayoutAssumption
<1>. QED  BY <1>1, <1>2 DEF NearInt

\* mymalloc.
LEMMA MallocNear ==
    ASSUME NEW h, GoodHeap(h), Backing(h), NearInt(h.blocks), NEW bytes \in Nat, NEW want \in Nat,
           NEW o \in MyMalloc(h, bytes, want)
    PROVE  NearInt(o.heap.blocks)
<1>1. /\ GoodOutcome(o)
      /\ \/ NoBlock(h.blocks, o)
         \/ NewBlock(h.blocks, o, Asize(bytes), want) /\ bytes # 0 /\ bytes <= IntMax
  BY MyMallocGood
<1>2. h.blocks \in SUBSET Block /\ o.heap.blocks \in SUBSET Block
  BY <1>1, GoodBlocks DEF GoodOutcome
<1>3. CASE NoBlock(h.blocks, o)
  BY <1>2, <1>3 DEF NoBlock, SameLive, NearInt
<1>4. CASE NewBlock(h.blocks, o, Asize(bytes), want) /\ bytes <= IntMax
  BY <1>2, <1>4, NewBlockNear
<1>. QED  BY <1>1, <1>3, <1>4

\* myfree.
LEMMA FreeNear ==
    ASSUME NEW h, GoodHeap(h), Backing(h), NearInt(h.blocks), NEW b \in h.blocks, b.alloc
    PROVE  NearInt(MyFree(h, b).blocks)
<1>1. /\ GoodHeap(MyFree(h, b))
      /\ \A c \in Block : c.alloc => (c \in MyFree(h, b).blocks <=> c \in h.blocks /\ c # b)
  BY MyFreeGood
<1>2. MyFree(h, b).blocks \in SUBSET Block
  BY <1>1, GoodBlocks
<1>. QED  BY <1>1, <1>2 DEF NearInt

\* myrealloc, which calls both or keeps the block.
LEMMA ReallocNear ==
    ASSUME NEW h, GoodHeap(h), Backing(h), NearInt(h.blocks), NEW b \in h.blocks, b.alloc,
           NEW bytes \in Nat, NEW o \in MyRealloc(h, b, bytes)
    PROVE  NearInt(o.heap.blocks)
<1>. DEFINE freed == MyFree(h, b)
<1>1. /\ GoodOutcome(o)
      /\ \/ NoBlock(h.blocks, o)
         \/ Kept(h.blocks, o, b, bytes)
         \/ NoBlock(freed.blocks, o)
         \/ NewBlock(freed.blocks, o, Asize(Grown(bytes)), bytes) /\ Grown(bytes) <= IntMax
  BY MyReallocGood
<1>2. /\ h.blocks \in SUBSET Block /\ o.heap.blocks \in SUBSET Block
      /\ freed.blocks \in SUBSET Block /\ NearInt(freed.blocks)
  BY <1>1, FreeNear, MyFreeGood, GoodBlocks DEF GoodOutcome
<1>. HIDE DEF freed
<1>3. CASE NoBlock(h.blocks, o)
  BY <1>2, <1>3 DEF NoBlock, SameLive, NearInt
<1>4. CASE Kept(h.blocks, o, b, bytes)
  <2>. DEFINE n == [b EXCEPT !.want = bytes]
  <2>1. n.size = b.size
    BY <1>2 DEF Block
  <2>2. \A c \in Block : c.alloc => (c \in o.heap.blocks => c \in h.blocks \/ c = n)
    BY <1>4 DEF Kept
  <2>. HIDE DEF n
  <2>. QED  BY <1>2, <2>1, <2>2 DEF NearInt
<1>5. CASE NoBlock(freed.blocks, o)
  BY <1>2, <1>5 DEF NoBlock, SameLive, NearInt
<1>6. CASE NewBlock(freed.blocks, o, Asize(Grown(bytes)), bytes) /\ Grown(bytes) <= IntMax
  <2>1. Grown(bytes) \in Nat
    BY RoomFor
  <2>. QED  BY <1>2, <1>6, <2>1, NewBlockNear
<1>. QED  BY <1>1, <1>3, <1>4, <1>5, <1>6

-----------------------------------------------------------------------------
(***************************************************************************)
(* The promise.                                                            *)
(***************************************************************************)
\* The words of a region lie within the payload of its block.
LEMMA RegionWords ==
    ASSUME NEW b \in Block, b.want # 0, b.want <= 8 * b.size
    PROVE  /\ Reg(b).want > 0
           /\ \A w \in Promise!WordsOf(Reg(b)) :
                w \in Int /\ b.at + 1 <= w /\ w <= b.at + b.size
<1>1. b.at \in Nat /\ b.size \in Nat /\ b.want \in Nat
  BY DEF Block
<1>2. Reg(b).ptr = b.at + 1 /\ Reg(b).want = b.want
  BY DEF Reg, Payload
<1>3. (b.want + 7) \div 8 <= b.size /\ (b.want + 7) \div 8 \in Nat
  BY <1>1
<1>4. Promise!WordsOf(Reg(b)) = (b.at + 1) .. (b.at + 1 + (b.want + 7) \div 8 - 1)
  BY <1>2 DEF Promise!WordsOf
<1>. QED  BY <1>1, <1>2, <1>3, <1>4

\* The regions of a good heap are inside the segment.
LEMMA RegionsProper ==
    ASSUME NEW h, GoodHeap(h), Backing(h), Roomy(h.blocks), NEW b \in h.blocks, b.alloc
    PROVE  Promise!Proper(Reg(b))
<1>1. /\ h.blocks \in SUBSET Block /\ h.base \in Nat /\ h.pages \in Nat /\ h.pages # 0
      /\ Hi(h) = h.base + h.pages * PageWords - 1 /\ Lo(h) = h.base + 2
  BY HeapFields DEF GoodHeap
<1>2. Within(h.blocks, Lo(h), Hi(h))
  BY <1>1 DEF GoodHeap, Settled, Row
<1>3. PICK k \in Nat : h.base = k * PageWords /\ h.seg.rw = k .. (k + h.pages - 1)
  BY DEF Backing
<1>4. k + h.pages <= MaxPages
  <2>1. k + h.pages - 1 \in h.seg.rw
    BY <1>1, <1>3
  <2>2. h.seg.size \in Nat /\ MaxPages \in Nat
    BY HeapFields, SegmentAssumption DEF GoodHeap
  <2>3. k + h.pages - 1 \in 0 .. h.seg.size - 1 /\ h.seg.size <= MaxPages
    BY <2>1 DEF Backing
  <2>. QED  BY <1>1, <2>2, <2>3
<1>5. Hi(h) <= MaxPages * PageWords - 1 /\ Hi(h) \in Int /\ MaxPages * PageWords \in Nat
  <2>1. PageWords \in Nat /\ MaxPages \in Nat
    BY LayoutAssumption, SegmentAssumption
  <2>2. (k + h.pages) * PageWords <= MaxPages * PageWords
    BY <1>1, <1>4, <2>1
  <2>3. (k + h.pages) * PageWords = h.base + h.pages * PageWords
    BY <1>1, <1>3, <2>1
  <2>. QED  BY <1>1, <2>1, <2>2, <2>3
<1>6. /\ b \in Block /\ b.at \in Nat /\ b.size \in Nat /\ h.base + 2 <= b.at
      /\ b.at + b.size + 2 <= Hi(h)
  BY <1>1, <1>2, BlockFields DEF Within
<1>7. /\ Reg(b).want > 0
      /\ \A w \in Promise!WordsOf(Reg(b)) :
           w \in Int /\ b.at + 1 <= w /\ w <= b.at + b.size
  BY <1>6, RegionWords DEF Roomy
<1>8. Promise!WordsOf(Reg(b)) \subseteq 1 .. (MaxPages * PageWords - 1)
  BY <1>1, <1>5, <1>6, <1>7
<1>. QED  BY <1>7, <1>8 DEF Promise!Proper

\* The regions of different blocks share no word, and are different regions.
LEMMA RegionsApart ==
    ASSUME NEW h, GoodHeap(h), Roomy(h.blocks),
           NEW b \in h.blocks, b.alloc, NEW c \in h.blocks, c.alloc, b # c
    PROVE  Promise!Apart(Reg(b), Reg(c)) /\ Reg(b) # Reg(c)
<1>1. h.blocks \in SUBSET Block /\ Separate(h.blocks)
  BY HeapFields DEF GoodHeap, Settled, Row
<1>2. /\ b.at \in Nat /\ EndOf(b) = b.at + b.size + 2 /\ b.size \in Nat
      /\ c.at \in Nat /\ EndOf(c) = c.at + c.size + 2 /\ c.size \in Nat
  BY <1>1, BlockFields
<1>3. EndOf(b) <= c.at \/ EndOf(c) <= b.at
  BY <1>1 DEF Separate
<1>4. /\ \A w \in Promise!WordsOf(Reg(b)) :
           w \in Int /\ b.at + 1 <= w /\ w <= b.at + b.size
      /\ \A w \in Promise!WordsOf(Reg(c)) :
           w \in Int /\ c.at + 1 <= w /\ w <= c.at + c.size
  BY <1>1, RegionWords DEF Roomy
<1>5. Promise!Apart(Reg(b), Reg(c))
  BY <1>2, <1>3, <1>4 DEF Promise!Apart
<1>6. Reg(b).ptr # Reg(c).ptr
  BY <1>2, <1>3 DEF Reg, Payload
<1>. QED  BY <1>5, <1>6

\* What the client owns of a heap.
OwnedOf(B) == {Reg(b) : b \in {c \in B : c.alloc}}

\* It owns that while the process is up, and nothing afterwards.
LEMMA OwnedUp ==
    /\ Owned = IF status = "up" THEN OwnedOf(heap.blocks) ELSE {}
    /\ Owned' = IF status' = "up" THEN OwnedOf(heap'.blocks) ELSE {}
BY DEF Owned, OwnedOf, Live, Reg

\* The end of the process takes everything back.
LEMMA DiesStep ==
    ASSUME status' # "up"
    PROVE  Promise!Dies
BY OwnedUp DEF Promise!Dies

\* A call that returns NULL and leaves the allocated blocks as they are.
LEMMA RefusesStep ==
    ASSUME status = "up", status' = "up", heap.blocks \in SUBSET Block,
           heap'.blocks \in SUBSET Block, SameLive(heap'.blocks, heap.blocks)
    PROVE  /\ Owned' = Owned
           /\ ret' = NULL => Promise!Refuses
<1>1. OwnedOf(heap'.blocks) = OwnedOf(heap.blocks)
  BY DEF OwnedOf, SameLive
<1>. QED  BY <1>1, OwnedUp DEF Promise!Refuses, Promise!NULL, NULL

\* A call that gives up the blocks G and allocates n, whose payload it returns,
\* hands out the region of n in the place of those of G.
LEMMA HandsOutStep ==
    ASSUME status = "up", status' = "up", GoodHeap(heap), Roomy(heap.blocks),
           GoodHeap(heap'), Backing(heap'), Roomy(heap'.blocks),
           NEW G \in SUBSET {c \in heap.blocks : c.alloc},
           NEW n \in Block, n.alloc, ret' = Payload(n), n \notin heap.blocks \ G,
           \A c \in Block : c.alloc =>
             (c \in heap'.blocks <=> (c \in heap.blocks /\ c \notin G) \/ c = n)
    PROVE  Promise!HandsOut(n.want, {Reg(b) : b \in G})
<1>1. heap.blocks \in SUBSET Block /\ heap'.blocks \in SUBSET Block
  BY GoodBlocks
<1>. DEFINE given == {Reg(b) : b \in G}
<1>2. \A c \in heap.blocks : c.alloc /\ c \notin G => Reg(c) \notin given
  <2>1. ASSUME NEW c \in heap.blocks, c.alloc, c \notin G, NEW b \in G
        PROVE  Reg(c) # Reg(b)
    BY <2>1, RegionsApart
  <2>. QED  BY <2>1
<1>3. OwnedOf(heap'.blocks) = (OwnedOf(heap.blocks) \ given) \cup {Reg(n)}
  <2>1. OwnedOf(heap.blocks) \ given = {Reg(c) : c \in {b \in heap.blocks : b.alloc /\ b \notin G}}
    BY <1>2 DEF OwnedOf
  <2>2. {b \in heap'.blocks : b.alloc} = {b \in heap.blocks : b.alloc /\ b \notin G} \cup {n}
    BY <1>1
  <2>. QED  BY <2>1, <2>2 DEF OwnedOf
<1>4. Owned' = (Owned \ given) \cup {Reg(n)}
  BY <1>3, OwnedUp
<1>5. Promise!Proper(Reg(n))
  BY RegionsProper
<1>6. \A s \in Owned \ given : Promise!Apart(Reg(n), s)
  <2>1. ASSUME NEW c \in heap.blocks, c.alloc, c \notin G
        PROVE  Promise!Apart(Reg(n), Reg(c))
    <3>1. c \in heap'.blocks /\ n \in heap'.blocks /\ c # n
      BY <1>1, <2>1
    <3>. QED  BY <2>1, <3>1, RegionsApart
  <2>. QED  BY <2>1, OwnedUp DEF OwnedOf
<1>7. Promise!Region(ret', n.want) = Reg(n)
  BY DEF Promise!Region, Reg
<1>. QED  BY <1>4, <1>5, <1>6, <1>7 DEF Promise!HandsOut

-----------------------------------------------------------------------------
\* What the calls below are made on.
Ready == /\ IInv /\ IInv' /\ SmallRequests
         /\ Roomy(heap.blocks) /\ Roomy(heap'.blocks)

LEMMA ReadyFacts ==
    ASSUME Ready
    PROVE  /\ Requests \subseteq Nat
           /\ GoodHeap(heap) /\ GoodHeap(heap')
           /\ status = "up" => Backing(heap)
           /\ status' = "up" => Backing(heap')
           /\ heap.blocks \in SUBSET Block /\ heap'.blocks \in SUBSET Block
           /\ Roomy(heap.blocks) /\ Roomy(heap'.blocks)
BY ClientAssumption, GoodBlocks DEF Ready, IInv

\* myinit leaves the client nothing, whether it succeeds or fails.
LEMMA InitializePromised ==
    ASSUME Ready, Initialize
    PROVE  Promise!Initialize
<1>1. PICK o \in MyInit(heap) : Take(o)
  BY DEF Initialize
<1>2. status' = "up" => heap'.blocks = {}
  BY <1>1, ReadyFacts, MyInitGood DEF Take
<1>. QED  BY <1>2, OwnedUp DEF Promise!Initialize, OwnedOf

\* mymalloc.
LEMMA MallocPromised ==
    ASSUME Ready, NEW bytes \in Requests, Malloc(bytes)
    PROVE  Promise!Malloc(bytes)
<1>0. bytes \in Nat
  BY ReadyFacts
<1>1. PICK o \in MyMalloc(heap, bytes, bytes) : Take(o)
  BY DEF Malloc
<1>2. /\ status = "up" /\ heap' = o.heap /\ ret' = o.ptr
      /\ NoBlock(heap.blocks, o) \/ NewBlock(heap.blocks, o, Asize(bytes), bytes)
  BY <1>0, <1>1, ReadyFacts, MyMallocGood DEF Malloc, Take
<1>3. CASE status' # "up"
  BY <1>3, DiesStep DEF Promise!Malloc
<1>4. CASE status' = "up" /\ NoBlock(heap.blocks, o)
  BY <1>2, <1>4, ReadyFacts, RefusesStep DEF NoBlock, Promise!Malloc
<1>5. CASE status' = "up" /\ NewBlock(heap.blocks, o, Asize(bytes), bytes)
  <2>1. PICK n \in Block :
          /\ n.alloc /\ n.want = bytes /\ ret' = Payload(n) /\ n \notin heap.blocks
          /\ \A c \in Block : c.alloc => (c \in heap'.blocks <=> c \in heap.blocks \/ c = n)
    BY <1>2, <1>5 DEF NewBlock
  <2>. DEFINE G == {c \in heap.blocks : c.alloc /\ FALSE}
  <2>2. /\ G \in SUBSET {c \in heap.blocks : c.alloc} /\ n \notin heap.blocks \ G
        /\ {Reg(b) : b \in G} = {}
    BY <2>1
  <2>3. \A c \in Block : c.alloc =>
          (c \in heap'.blocks <=> (c \in heap.blocks /\ c \notin G) \/ c = n)
    BY <2>1
  <2>. HIDE DEF G
  <2>4. Promise!HandsOut(n.want, {Reg(b) : b \in G})
    BY <1>2, <1>5, <2>1, <2>2, <2>3, ReadyFacts, HandsOutStep
  <2>. QED  BY <2>1, <2>2, <2>4 DEF Promise!Malloc
<1>. QED  BY <1>2, <1>3, <1>4, <1>5

\* myfree of NULL.
LEMMA FreeNullPromised ==
    ASSUME Ready, FreeNull
    PROVE  Promise!FreeNull
<1>1. status = "up" /\ status' = "up" /\ heap' = heap
  BY DEF FreeNull, Take, Outcome
<1>. QED  BY <1>1, OwnedUp DEF Promise!FreeNull

\* myfree takes away the region of the block it is given, and no other.
LEMMA FreePromised ==
    ASSUME Ready, NEW b \in Live, Free(b)
    PROVE  Promise!Free(Reg(b))
<1>0. b \in heap.blocks /\ b.alloc
  BY DEF Live
<1>1. status = "up" /\ status' = "up" /\ heap' = MyFree(heap, b)
  BY DEF Free, Take, Outcome
<1>2. \A c \in Block : c.alloc => (c \in heap'.blocks <=> c \in heap.blocks /\ c # b)
  BY <1>0, <1>1, ReadyFacts, MyFreeGood
<1>3. \A c \in heap.blocks : c.alloc /\ c # b => Reg(c) # Reg(b)
  BY <1>0, ReadyFacts, RegionsApart
<1>4. OwnedOf(heap'.blocks) = OwnedOf(heap.blocks) \ {Reg(b)}
  BY <1>2, <1>3, ReadyFacts DEF OwnedOf
<1>. QED  BY <1>1, <1>4, OwnedUp DEF Promise!Free

\* myrealloc exchanges the region of the block it is given, in place or for
\* another, and no other.
LEMMA ReallocPromised ==
    ASSUME Ready, NEW b \in Live, NEW bytes \in Requests, Realloc(b, bytes)
    PROVE  Promise!Realloc(Reg(b), bytes)
<1>0. b \in heap.blocks /\ b.alloc /\ bytes \in Nat /\ b \in Block
  BY ReadyFacts DEF Live
<1>1. PICK o \in MyRealloc(heap, b, bytes) : Take(o)
  BY DEF Realloc
<1>. DEFINE freed == MyFree(heap, b)
            G == {b}
<1>2. /\ status = "up" /\ heap' = o.heap /\ ret' = o.ptr /\ status' = o.fate
      /\ \/ NoBlock(heap.blocks, o)
         \/ Kept(heap.blocks, o, b, bytes)
         \/ o.fate # "up"
         \/ NewBlock(freed.blocks, o, Asize(Grown(bytes)), bytes)
  <2>1. status = "up" /\ heap' = o.heap /\ ret' = o.ptr /\ status' = o.fate
    BY <1>1 DEF Realloc, Take
  <2>2. GoodHeap(heap) /\ Backing(heap)
    BY <2>1, ReadyFacts
  <2>. QED  BY <1>0, <1>1, <2>1, <2>2, MyReallocGood
<1>3. CASE status' # "up"
  BY <1>3, DiesStep DEF Promise!Realloc
<1>4. CASE status' = "up" /\ NoBlock(heap.blocks, o)
  BY <1>2, <1>4, ReadyFacts, RefusesStep DEF NoBlock, Promise!Realloc
<1>5. SUFFICES ASSUME status' = "up",
                      NEW n \in Block, n.alloc, n.want = bytes, ret' = Payload(n),
                      n \notin heap.blocks \ G,
                      \A c \in Block : c.alloc =>
                        (c \in heap'.blocks <=> (c \in heap.blocks /\ c \notin G) \/ c = n)
               PROVE  Promise!HandsOut(n.want, {Reg(c) : c \in G})
  <2>1. {Reg(c) : c \in G} = {Reg(b)}
    OBVIOUS
  <2>2. ASSUME status' = "up", Kept(heap.blocks, o, b, bytes)
        PROVE  Promise!Realloc(Reg(b), bytes)
    <3>. DEFINE n == [b EXCEPT !.want = bytes]
    <3>1. n \in Block /\ n.alloc /\ n.want = bytes /\ n.at = b.at /\ n.size = b.size
      BY <1>0 DEF Block
    <3>2. ret' = Payload(n)
      BY <1>2, <2>2, <3>1 DEF Kept, Payload
    <3>3. \A c \in Block : c.alloc =>
            (c \in heap'.blocks <=> (c \in heap.blocks /\ c \notin G) \/ c = n)
      BY <1>2, <2>2 DEF Kept
    <3>4. n \notin heap.blocks \ G
      <4>1. ASSUME n \in heap.blocks, n # b PROVE FALSE
        <5>1. Separate(heap.blocks)
          BY <1>0, ReadyFacts DEF GoodHeap, Settled, Row
        <5>2. EndOf(b) <= n.at \/ EndOf(n) <= b.at
          BY <1>0, <4>1, <5>1 DEF Separate
        <5>. QED  BY <1>0, <3>1, <5>2, BlockFields DEF EndOf, TagWords
      <4>. QED  BY <4>1
    <3>. HIDE DEF n
    <3>. QED  BY <1>5, <2>1, <2>2, <3>1, <3>2, <3>3, <3>4 DEF Promise!Realloc
  <2>3. ASSUME status' = "up", NewBlock(freed.blocks, o, Asize(Grown(bytes)), bytes)
        PROVE  Promise!Realloc(Reg(b), bytes)
    <3>1. PICK n \in Block :
            /\ n.alloc /\ n.want = bytes /\ ret' = Payload(n) /\ n \notin freed.blocks
            /\ \A c \in Block : c.alloc => (c \in heap'.blocks <=> c \in freed.blocks \/ c = n)
      BY <1>2, <2>3 DEF NewBlock
    <3>2. \A c \in Block : c.alloc => (c \in freed.blocks <=> c \in heap.blocks /\ c # b)
      BY <1>0, <1>2, ReadyFacts, MyFreeGood
    <3>. QED  BY <1>5, <2>1, <2>3, <3>1, <3>2 DEF Promise!Realloc
  <2>. QED  BY <1>2, <1>3, <1>4, <2>2, <2>3
<1>6. GoodHeap(heap') /\ Backing(heap') /\ Roomy(heap.blocks) /\ Roomy(heap'.blocks) /\ GoodHeap(heap)
  BY <1>5, ReadyFacts
<1>7. G \in SUBSET {c \in heap.blocks : c.alloc}
  BY <1>0
<1>. HIDE DEF G
<1>. QED  BY <1>2, <1>5, <1>6, <1>7, HandsOutStep

\* The allocator keeps the promise of HeapPromise in every call: what it hands
\* out is inside the segment, as large as asked for and disjoint from all the
\* client keeps, and a call takes away or exchanges only the block it is given.
THEOREM PromiseKept ==
    ASSUME SmallRequests
    PROVE  Spec => KeepsPromise
<1>1. Init => Promise!Init
  BY OwnedUp DEF Init, Promise!Init, Promise!NULL, NULL
<1>2. ASSUME IInv, IInv', Roomy(heap.blocks), Roomy(heap.blocks)'
      PROVE  PromisedStep
  <2>1. Ready
    BY <1>2 DEF Ready
  <2>. QED  BY <2>1, InitializePromised, FreeNullPromised, MallocPromised, FreePromised,
               ReallocPromised DEF PromisedStep
<1>. QED  BY <1>1, <1>2, Invariance, RoomyInvariant, PTL DEF Spec, KeepsPromise

-----------------------------------------------------------------------------
(***************************************************************************)
(* Where the heap lies when the kernel refuses nothing and maps at the     *)
(* hint: from the first page of the segment to the last one it has opened. *)
(***************************************************************************)
Obliging == OsRefuses = FALSE /\ Placements \subseteq {"hint"}

Anchored(h) == /\ h.base = 0 /\ h.seg.size = h.pages
               /\ h.seg.start \in {"null", "hint"}
               /\ h.seg.start = "null" => h.pages = 0

\* extend_heap_segment opens all it was asked for, or changes nothing.
LEMMA ExtendObliged ==
    ASSUME Obliging, NEW s \in Segments, s.start \in {"null", "hint"}, NEW n \in Nat \ {0},
           NEW o \in ExtendHeapSegment(s, n)
    PROVE  /\ o.seg.start = s.start
           /\ \/ o.ret = NoPage /\ o.seg.size = s.size
              \/ o.ret = s.size /\ o.seg.size = s.size + n /\ s.start = "hint"
<1>1. s.size \in Nat /\ s.rw \in SUBSET Nat
  BY DEF Segments
<1>2. ASSUME s.start = "hint" PROVE Mprotects(s) = {TRUE}
  BY <1>2 DEF Mprotects, Obliging, Reserved
<1>3. ASSUME s.start = "hint"
      PROVE  Extended(s, n) = {SegOutcome(Opened(Enlarged(s, n), s.size), s.size)}
  BY <1>2, <1>3 DEF Extended
<1>4. /\ Opened(Enlarged(s, n), s.size).start = s.start
      /\ Opened(Enlarged(s, n), s.size).size = s.size + n
  BY <1>1 DEF Opened, Enlarged, Segments
<1>5. CASE s.start = "null"
  BY <1>5 DEF ExtendHeapSegment, SegOutcome
<1>6. CASE s.start = "hint"
  BY <1>3, <1>4, <1>6 DEF ExtendHeapSegment, SegOutcome
<1>. QED  BY <1>5, <1>6

\* add_page: a page once there stays.
LEMMA AddPageAnchored ==
    ASSUME Obliging, NEW h, GoodHeap(h), Backing(h), Anchored(h), NEW asize \in Nat,
           NEW g \in AddPage(h, asize)
    PROVE  Anchored(g.heap) /\ h.seg.size <= g.heap.seg.size
<1>. DEFINE n == NumOfPage(h.pages, asize)
<1>1. h \in Heaps /\ h.seg \in Segments /\ h.pages \in Nat
  BY HeapFields DEF GoodHeap
<1>2. n \in Nat \ {0}
  BY <1>1, NumOfPageBounds
<1>3. PICK o \in ExtendHeapSegment(h.seg, n) :
        g = IF o.ret = NoPage
            THEN Outcome([h EXCEPT !.seg = o.seg], NULL, "full")
            ELSE IF h.pages > 0 /\ (o.ret - 1) \notin o.seg.rw
            THEN Outcome([h EXCEPT !.seg = o.seg], NULL, "hole")
            ELSE Outcome(NewPages(h, o, n), NULL, "up")
  BY DEF AddPage
<1>. HIDE DEF n
<1>4. /\ o.seg.start = h.seg.start
      /\ \/ o.ret = NoPage /\ o.seg.size = h.seg.size
         \/ o.ret = h.seg.size /\ o.seg.size = h.seg.size + n /\ h.seg.start = "hint"
  BY <1>1, <1>2, ExtendObliged DEF Anchored
<1>5. h.seg.size = h.pages /\ h.base = 0
  BY DEF Anchored
<1>6. CASE o.ret = NoPage
  <2>1. g.heap = [h EXCEPT !.seg = o.seg]
    BY <1>3, <1>6 DEF Outcome
  <2>2. o.seg.size = h.seg.size
    BY <1>1, <1>4, <1>5, <1>6 DEF NoPage
  <2>. QED  BY <1>1, <1>4, <2>1, <2>2 DEF Anchored, Heaps
<1>7. CASE o.ret # NoPage
  <2>1. o.ret = h.pages /\ o.seg.size = h.pages + n /\ h.seg.start = "hint"
    BY <1>4, <1>5, <1>7
  <2>2. h.pages > 0 => (o.ret - 1) \in o.seg.rw
    <3>1. PICK k \in Nat : h.base = k * PageWords /\ h.seg.rw = k .. (k + h.pages - 1)
      BY DEF Backing
    <3>2. k = 0
      BY <1>5, <3>1, LayoutAssumption
    <3>3. h.seg.size \in Nat /\ h.seg.size <= MaxPages
      BY <1>1, <1>5 DEF Backing
    <3>4. o.seg.rw = h.seg.rw \cup h.seg.size .. (h.seg.size + n - 1)
      BY <1>1, <1>2, <1>7, <3>3, ExtendSegment DEF NoPage
    <3>. QED  BY <1>1, <2>1, <3>1, <3>2, <3>4
  <2>3. g.heap = NewPages(h, o, n)
    BY <1>3, <1>7, <2>2 DEF Outcome
  <2>4. h.pages = 0 => o.ret * PageWords = 0
    BY <2>1, LayoutAssumption
  <2>. QED  BY <1>1, <1>2, <1>4, <1>5, <2>1, <2>3, <2>4 DEF Anchored, NewPages
<1>. QED  BY <1>6, <1>7

\* A heap counts its segment's pages.
LEMMA SegmentCounted == ASSUME NEW h, GoodHeap(h) PROVE h.seg.size \in Nat
BY HeapFields DEF GoodHeap, Segments

\* Placing, freeing and keeping blocks moves no page.
LEMMA AnchoredFrame ==
    ASSUME NEW h, NEW g, Anchored(h), g.seg = h.seg, g.base = h.base, g.pages = h.pages
    PROVE  Anchored(g)
BY DEF Anchored

\* mymalloc.
LEMMA MallocAnchored ==
    ASSUME Obliging, NEW h, GoodHeap(h), Backing(h), Anchored(h), NEW bytes \in Nat, NEW want \in Nat,
           NEW o \in MyMalloc(h, bytes, want)
    PROVE  Anchored(o.heap) /\ h.seg.size <= o.heap.seg.size
<1>. DEFINE asize == Asize(bytes)
            placed(g) == IF g.fate = "full" THEN {[g EXCEPT !.fate = "up"]}
                         ELSE IF g.fate = "hole" THEN {g}
                         ELSE IF Fits(g.heap.blocks, asize) = {}
                              THEN {[g EXCEPT !.fate = "null_block"]}
                         ELSE PlaceFit(g.heap, asize, want)
<1>1. ASSUME NEW k, GoodHeap(k), Anchored(k), NEW p \in PlaceFit(k, asize, want)
      PROVE  Anchored(p.heap) /\ p.heap.seg = k.seg
  <2>1. PICK b : p = Outcome([k EXCEPT !.blocks = Place(k.blocks, b, asize, want)], Payload(b), "up")
    BY DEF PlaceFit
  <2>2. k \in Heaps
    BY <1>1 DEF GoodHeap
  <2>3. p.heap.seg = k.seg /\ p.heap.base = k.base /\ p.heap.pages = k.pages
    BY <2>1, <2>2 DEF Outcome, Heaps
  <2>. QED  BY <1>1, <2>3, AnchoredFrame
<1>2. asize \in Nat
  BY AsizeBounds
<1>3. CASE bytes = 0 \/ bytes > IntMax
  BY <1>3, SegmentCounted DEF MyMalloc, Outcome
<1>4. CASE ~(bytes = 0 \/ bytes > IntMax) /\ Fits(h.blocks, asize) # {}
  <2>1. o \in PlaceFit(h, asize, want)
    BY <1>4 DEF MyMalloc
  <2>. HIDE DEF asize
  <2>. QED  BY <1>1, <2>1, SegmentCounted
<1>5. CASE ~(bytes = 0 \/ bytes > IntMax) /\ Fits(h.blocks, asize) = {}
  <2>1. PICK g \in AddPage(h, asize) : o \in placed(g)
    <3>1. MyMalloc(h, bytes, want) = UNION {placed(g) : g \in AddPage(h, asize)}
      BY <1>5 DEF MyMalloc
    <3>. HIDE DEF placed
    <3>. QED  BY <3>1
  <2>. HIDE DEF asize
  <2>2. /\ Anchored(g.heap) /\ GoodHeap(g.heap) /\ g = Outcome(g.heap, g.ptr, g.fate)
        /\ h.seg.size <= g.heap.seg.size
    BY <1>2, AddPageAnchored, AddPageGood
  <2>. QED  BY <1>1, <2>1, <2>2 DEF Outcome
<1>. QED  BY <1>3, <1>4, <1>5

\* myrealloc.
LEMMA ReallocAnchored ==
    ASSUME Obliging, NEW h, GoodHeap(h), Backing(h), Anchored(h), NEW b \in h.blocks, b.alloc,
           NEW bytes \in Nat, NEW o \in MyRealloc(h, b, bytes)
    PROVE  Anchored(o.heap) /\ h.seg.size <= o.heap.seg.size
<1>. DEFINE freed == MyFree(h, b)
<1>1. h \in Heaps /\ Grown(bytes) \in Nat /\ h.seg.size \in Nat
  BY RoomFor, SegmentCounted DEF GoodHeap
<1>2. GoodHeap(freed) /\ Backing(freed) /\ Anchored(freed) /\ freed.seg = h.seg
  <2>1. freed.seg = h.seg /\ freed.base = h.base /\ freed.pages = h.pages
    BY <1>1 DEF MyFree, Heaps
  <2>2. GoodHeap(freed) /\ Backing(freed)
    BY MyFreeGood
  <2>. QED  BY <2>1, <2>2, AnchoredFrame
<1>3. \/ o = Outcome(h, NULL, "up") \/ o = Outcome(h, NULL, "stack")
      \/ o = Outcome([h EXCEPT !.blocks = (@ \ {b}) \cup {[b EXCEPT !.want = bytes]}], Payload(b), "up")
      \/ \E g \in MyMalloc(freed, Grown(bytes), bytes) :
           o = IF g.fate = "up" /\ g.ptr = NULL THEN [g EXCEPT !.fate = "null_copy"] ELSE g
  BY DEF MyRealloc
<1>. HIDE DEF freed
<1>4. CASE o = Outcome(h, NULL, "up") \/ o = Outcome(h, NULL, "stack")
  BY <1>1, <1>4 DEF Outcome
<1>5. CASE o = Outcome([h EXCEPT !.blocks = (@ \ {b}) \cup {[b EXCEPT !.want = bytes]}], Payload(b), "up")
  <2>1. o.heap.seg = h.seg /\ o.heap.base = h.base /\ o.heap.pages = h.pages
    BY <1>1, <1>5 DEF Outcome, Heaps
  <2>. QED  BY <1>1, <2>1, AnchoredFrame
<1>6. ASSUME NEW g \in MyMalloc(freed, Grown(bytes), bytes),
             o = IF g.fate = "up" /\ g.ptr = NULL THEN [g EXCEPT !.fate = "null_copy"] ELSE g
      PROVE  Anchored(o.heap) /\ h.seg.size <= o.heap.seg.size
  <2>1. Anchored(g.heap) /\ g = Outcome(g.heap, g.ptr, g.fate) /\ h.seg.size <= g.heap.seg.size
    BY <1>1, <1>2, MallocAnchored, MyMallocGood DEF GoodOutcome
  <2>. QED  BY <1>6, <2>1 DEF Outcome
<1>. QED  BY <1>3, <1>4, <1>5, <1>6

\* myinit.
LEMMA InitAnchored ==
    ASSUME Obliging, NEW h, GoodHeap(h), Anchored(h), NEW o \in MyInit(h)
    PROVE  Anchored(o.heap)
<1>1. PICK p \in InitHeapSegment(h.seg, 0) :
        o = IF p.ret = NoPage
            THEN Outcome([h EXCEPT !.seg = p.seg], NULL, "uninit")
            ELSE Outcome([EmptyHeap EXCEPT !.seg = p.seg], NULL, "up")
  BY DEF MyInit
<1>2. Munmaps(h.seg) = {TRUE}
  BY DEF Munmaps, Anchored, Obliging
<1>3. p \in Mmaps(h.seg, 0)
  BY <1>2 DEF InitHeapSegment
<1>4. p.ret = 0 /\ p.seg.start = "hint" /\ p.seg.size = 0
  BY <1>3 DEF Mmaps, Obliging, ExtendHeapSegment, SegOutcome
<1>5. o.heap = [EmptyHeap EXCEPT !.seg = p.seg]
  BY <1>1, <1>4 DEF NoPage, Outcome
<1>. QED  BY <1>4, <1>5 DEF Anchored, EmptyHeap

\* With such a kernel the heap is anchored after every call.
LEMMA AlwaysAnchored ==
    ASSUME Obliging
    PROVE  Spec => []Anchored(heap)
<1>1. Init => Anchored(heap)
  BY DEF Init, EmptyHeap, Anchored, NoSegment
<1>2. ASSUME IInv, Anchored(heap), [Next]_vars
      PROVE  Anchored(heap)'
  <2>0. Requests \subseteq Nat
    BY ClientAssumption
  <2>1. CASE Initialize
    BY <1>2, <2>1, InitAnchored DEF Initialize, Take, IInv
  <2>2. ASSUME NEW bytes \in Requests, Malloc(bytes)
        PROVE  Anchored(heap)'
    BY <1>2, <2>0, <2>2, MallocAnchored DEF Malloc, Take, IInv
  <2>3. CASE FreeNull
    BY <1>2, <2>3 DEF FreeNull, Take, Outcome
  <2>4. ASSUME NEW b \in Live, Free(b)
        PROVE  Anchored(heap)'
    <3>1. heap' = MyFree(heap, b) /\ heap \in Heaps
      BY <1>2, <2>4 DEF Free, Take, Outcome, IInv, GoodHeap
    <3>2. heap'.seg = heap.seg /\ heap'.base = heap.base /\ heap'.pages = heap.pages
      BY <3>1 DEF MyFree, Heaps
    <3>. QED  BY <1>2, <3>2, AnchoredFrame
  <2>5. ASSUME NEW b \in Live, NEW bytes \in Requests, Realloc(b, bytes)
        PROVE  Anchored(heap)'
    BY <1>2, <2>0, <2>5, ReallocAnchored DEF Realloc, Take, IInv, Live
  <2>6. CASE UNCHANGED vars
    BY <1>2, <2>6 DEF vars
  <2>. QED  BY <1>2, <2>1, <2>2, <2>3, <2>4, <2>5, <2>6 DEF Next
<1>. QED  BY <1>1, <1>2, Invariance, PTL DEF Spec
=============================================================================
