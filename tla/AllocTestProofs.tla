--------------------------- MODULE AllocTestProofs ---------------------------
(***************************************************************************)
(* The harness of assign7 never has anything to report of the allocator    *)
(* but that memory ran out: every entry of the script's table is a block   *)
(* of its own in the heap of AllocatorProofs, and no call changes the      *)
(* bytes of a block it was not given. So the bytes in use fit the segment, *)
(* and so does the peak that the utilization is computed from.             *)
(***************************************************************************)
EXTENDS AllocatorProofs, AllocTest

\* The kernel refuses nothing, and maps where mmap is asked to.
Obliged == OsRefuses = FALSE /\ Placements \subseteq {"hint"}

\* The heap is a row of blocks on pages mapped at the hint.
Stands(h, B) == Tells(h, B) /\ H!GoodHeap(View(h, B)) /\ H!Anchored(View(h, B))

\* It is one that calls may be made on.
Serves(h, B) == Stands(h, B) /\ H!Backing(View(h, B)) /\ H!NearInt(B) /\ H!Roomy(B)

\* What the table says of a block it was given.
Entry(b) == [ptr |-> b.at + 1, size |-> b.want]

\* Every entry of the table is a block, and no two are the same one.
Owns(T, B) ==
    /\ T = [i \in Ids |-> T[i]]
    /\ \A i \in Ids : T[i] = NoBlock \/ \E b \in B : b.alloc /\ T[i] = Entry(b)
    /\ \A i, j \in Ids : T[i].ptr = T[j].ptr => i = j \/ T[i].ptr = NULL

\* The entries that count are blocks other than n.
Beside(T, B, n) ==
    \A i \in Ids : T[i].size = 0 \/ \E b \in B : b.alloc /\ b # n /\ T[i] = Entry(b)

\* The bytes written last are still there.
Intact(h, T, i) == VerifyPayload(h, T[i].ptr, T[i].size, i)

-----------------------------------------------------------------------------
(***************************************************************************)
(* One block: where its bytes are, and that verify_block accepts it.       *)
(***************************************************************************)
\* The bytes of a block are words of its payload, below the segment's end.
LEMMA BlockBytes ==
    ASSUME NEW h, NEW B, Serves(h, B), NEW b \in B, b.alloc
    PROVE  /\ b \in H!Block /\ b.at \in Nat /\ b.size \in Nat /\ b.want \in Nat /\ b.want # 0
           /\ RoundUp(b.want) \in Nat /\ RoundUp(b.want) <= b.size /\ b.want <= 8 * b.size
           /\ 8 * (b.at + 1) + b.want <= 8 * PageWords * h.seg.size
           /\ \A w \in Bytes(b.at + 1, b.want) : w \in Words /\ b.at < w /\ w <= b.at + b.size
<1>1. /\ h.pages # 0 /\ Rests(h, B, LoOf(h), HiOf(h)) /\ b \in H!Block /\ b.at \in Nat
      /\ b.size \in Nat /\ Stop(b) <= NumWords /\ Stop(b) = b.at + b.size + 2
  BY TellsRow DEF Serves, Stands
<1>2. b.want \in Nat /\ b.want # 0 /\ b.want <= 8 * b.size
  BY <1>1, BlockParts DEF Serves, H!Roomy
<1>3. RoundUp(b.want) \in Nat /\ RoundUp(b.want) <= b.size
  BY <1>1, <1>2 DEF RoundUp
<1>4. Stop(b) <= HiOf(h) /\ HiOf(h) = h.pages * PageWords - 1
  <2>1. /\ B \in SUBSET H!Block /\ LoOf(h) \in Nat /\ 2 <= LoOf(h) /\ HiOf(h) \in Words
        /\ HiOf(h) \in Nat /\ H!Row(B, LoOf(h), HiOf(h)) /\ h.pages \in Nat
    BY <1>1 DEF Serves, Stands, Tells, WordHeap, Rests, Rep, Edges
  <2>2. h.base = 0
    BY ViewFields DEF Serves, Stands, H!Anchored
  <2>3. HiOf(h) = h.pages * PageWords - 1
    BY <2>1, <2>2, LayoutAssumption DEF HiOf
  <2>. QED  BY <2>1, <2>3, RowFits
<1>5. h.seg.size = h.pages /\ h.pages \in Nat
  BY ViewFields DEF Serves, Stands, H!Anchored, Tells, WordHeap
<1>6. 8 * (b.at + 1) + b.want <= 8 * PageWords * h.seg.size
  <2>1. PICK m \in Nat : m = h.pages * PageWords
    BY <1>5, LayoutAssumption
  <2>2. b.at + b.size + 2 <= m - 1
    BY <1>1, <1>4, <2>1
  <2>3. 8 * PageWords * h.seg.size = 8 * m
    BY <1>5, <2>1, LayoutAssumption
  <2>. QED  BY <1>1, <1>2, <2>2, <2>3
<1>7. \A w \in Bytes(b.at + 1, b.want) : w \in Words /\ b.at < w /\ w <= b.at + b.size
  <2>. SUFFICES ASSUME NEW w \in Bytes(b.at + 1, b.want)
                PROVE  w \in Words /\ b.at < w /\ w <= b.at + b.size
    OBVIOUS
  <2>1. PICK k \in Nat : k = RoundUp(b.want) /\ k <= b.size
    BY <1>3
  <2>2. w \in b.at + 1 .. (b.at + 1 + k - 1)
    BY <2>1 DEF Bytes
  <2>3. w \in Nat /\ b.at < w /\ w <= b.at + b.size
    BY <1>1, <2>1, <2>2
  <2>. QED  BY <1>1, <2>3, WordsRange
<1>. QED  BY <1>1, <1>2, <1>3, <1>6, <1>7

\* No two blocks share a word.
LEMMA BlocksClear ==
    ASSUME NEW h, NEW B, Serves(h, B)
    PROVE  \A c, d \in B : c = d \/ Clear(c, d)
<1>. SUFFICES ASSUME NEW c \in B, NEW d \in B PROVE c = d \/ Clear(c, d)
  OBVIOUS
<1>1. Rests(h, B, LoOf(h), HiOf(h))
  BY TellsRow DEF Serves, Stands
<1>. QED  BY <1>1, RowFits DEF Rests, Rep, Edges

\* A new block is what verify_block asks for.
LEMMA NewAccepted ==
    ASSUME NEW h, NEW B, Serves(h, B), NEW n \in B, n.alloc, NEW T, Beside(T, B, n)
    PROVE  Accepts(h, T, n.at + 1, n.want)
<1>1. /\ n.at \in Nat /\ n.size \in Nat /\ n.want \in Nat /\ n.want <= 8 * n.size
      /\ 8 * (n.at + 1) + n.want <= 8 * PageWords * h.seg.size
  BY BlockBytes
<1>2. (8 * (n.at + 1)) % 8 = 0 /\ 8 * (n.at + 1) >= 0
  <2>1. PICK k \in Nat : k = n.at + 1
    BY <1>1
  <2>2. (8 * k) % 8 = 0 /\ 8 * k >= 0
    OBVIOUS
  <2>. QED  BY <2>1, <2>2
<1>3. ASSUME NEW i \in Ids
      PROVE  \/ T[i].size = 0
             \/ ~Overlaps(8 * (n.at + 1), 8 * (n.at + 1) + n.want,
                          8 * T[i].ptr, 8 * T[i].ptr + T[i].size)
  <2>. SUFFICES ASSUME T[i].size # 0
                PROVE  ~Overlaps(8 * (n.at + 1), 8 * (n.at + 1) + n.want,
                                 8 * T[i].ptr, 8 * T[i].ptr + T[i].size)
    OBVIOUS
  <2>1. PICK b \in B : b.alloc /\ b # n /\ T[i] = Entry(b)
    BY DEF Beside
  <2>2. b.at \in Nat /\ b.size \in Nat /\ b.want \in Nat /\ b.want <= 8 * b.size /\ b.want # 0
    BY <2>1, BlockBytes
  <2>3. T[i].ptr = b.at + 1 /\ T[i].size = b.want
    BY <2>1 DEF Entry
  <2>4. n.at + n.size + 2 <= b.at \/ b.at + b.size + 2 <= n.at
    <3>1. Clear(n, b)
      BY <2>1, BlocksClear
    <3>. QED  BY <1>1, <2>2, <3>1 DEF Clear, Stop
  <2>5. ~Overlaps(8 * (n.at + 1), 8 * (n.at + 1) + n.want, 8 * (b.at + 1), 8 * (b.at + 1) + b.want)
    BY <1>1, <2>2, <2>4 DEF Overlaps
  <2>. QED  BY <2>3, <2>5
<1>. QED  BY <1>1, <1>2, <1>3 DEF Accepts, VerifyBlock, ALIGNMENT

\* NULL for nothing is accepted too.
LEMMA NothingAccepted == \A h, T : Accepts(h, T, NULL, 0)
BY DEF Accepts, VerifyBlock, ALIGNMENT, NULL

-----------------------------------------------------------------------------
(***************************************************************************)
(* What is written into a block stays in it.                               *)
(***************************************************************************)
\* The bytes of a block whose words are kept.
LEMMA KeptIntact ==
    ASSUME NEW h, NEW B, Serves(h, B), NEW b \in B, b.alloc, NEW D, b \in D,
           NEW g, Keeps(h, g, Held(D)), NEW id, VerifyPayload(h, b.at + 1, b.want, id)
    PROVE  VerifyPayload(g, b.at + 1, b.want, id)
<1>. SUFFICES ASSUME NEW w \in Bytes(b.at + 1, b.want) PROVE GET(g, w) = id
  BY DEF VerifyPayload
<1>1. w \in Words /\ b.at < w /\ w <= b.at + b.size
  BY BlockBytes
<1>2. w \in Held(D)
  BY <1>1 DEF Held
<1>. QED  BY <1>2 DEF Keeps, VerifyPayload, GET

\* memset of one block changes no word of another.
LEMMA OtherIntact ==
    ASSUME NEW h, NEW B, Serves(h, B), NEW n \in B, NEW b \in B, b.alloc, b # n,
           NEW g, OnlyIn(h, g, {n}), NEW id, VerifyPayload(h, b.at + 1, b.want, id)
    PROVE  VerifyPayload(g, b.at + 1, b.want, id)
<1>1. B \in SUBSET H!Block
  BY TellsBlocks DEF Serves, Stands
<1>2. \A w \in Held({b}) : w \in Words /\ Apart(w, {n})
  <2>1. \A c, d \in B : c = d \/ Clear(c, d)
    BY BlocksClear
  <2>2. {b} \in SUBSET B /\ {n} \in SUBSET B /\ \A f \in {n} : ~f.alloc \/ f \notin {b}
    OBVIOUS
  <2>. QED  BY <1>1, <2>1, <2>2, HeldApart
<1>3. Keeps(h, g, Held({b}))
  BY <1>2 DEF Keeps, OnlyIn
<1>4. b \in {b}
  OBVIOUS
<1>. QED  BY <1>3, <1>4, KeptIntact

\* memset of a block leaves the heap as it was, but for the bytes it sets.
LEMMA MemsetTells ==
    ASSUME NEW h, NEW B, Serves(h, B), NEW n \in B, n.alloc, NEW x \in Nat
    PROVE  LET k == Memset(h, n.at + 1, x, n.want)
           IN  Serves(k, B) /\ OnlyIn(h, k, {n}) /\ VerifyPayload(k, n.at + 1, n.want, x)
<1>. DEFINE S == Bytes(n.at + 1, n.want)
            mem == [w \in Words |-> IF w \in S THEN x ELSE h.mem[w]]
            k == [h EXCEPT !.mem = mem]
<1>1. Tells(h, B) /\ H!GoodHeap(View(h, B)) /\ h.mem \in [Words -> Nat] /\ h \in WordHeap
  BY DEF Serves, Stands, Tells, WordHeap
<1>2. Memset(h, n.at + 1, x, n.want) = k
  BY DEF Memset
<1>3. n.at \in Nat /\ n.size \in Nat /\ \A w \in S : w \in Words /\ n.at < w /\ w <= n.at + n.size
  BY BlockBytes
<1>. HIDE DEF S
<1>4. mem \in [Words -> Nat] /\ \A w \in Words : mem[w] = h.mem[w] \/ (n.at < w /\ w <= n.at + n.size)
  BY <1>1, <1>3
<1>5. k.mem = mem
  BY <1>1 DEF WordHeap
<1>6. VerifyPayload(k, n.at + 1, n.want, x)
  <2>. SUFFICES ASSUME NEW w \in S PROVE k.mem[w] = x
    BY DEF VerifyPayload, GET, S
  <2>. HIDE DEF k
  <2>. QED  BY <1>3, <1>5
<1>7. OnlyIn(h, k, {n})
  <2>. SUFFICES ASSUME NEW w \in Words, w < n.at \/ Stop(n) <= w PROVE k.mem[w] = h.mem[w]
    BY DEF OnlyIn, Apart
  <2>1. ~(n.at < w /\ w <= n.at + n.size)
    BY <1>3, WordsRange DEF Stop
  <2>. HIDE DEF k, mem
  <2>. QED  BY <1>4, <1>5, <2>1
<1>. HIDE DEF mem
<1>8. Tells(k, B) /\ View(k, B) = View(h, B)
  BY <1>1, <1>4, WriteTells
<1>. HIDE DEF k
<1>9. Serves(k, B)
  BY <1>8 DEF Serves, Stands
<1>. QED  BY <1>2, <1>6, <1>7, <1>9

\* memset of no byte.
LEMMA MemsetNothing ==
    ASSUME NEW h, NEW B, Tells(h, B), NEW x
    PROVE  Memset(h, NULL, x, 0) = h
<1>1. h \in WordHeap
  BY DEF Tells
<1>2. Bytes(NULL, 0) = {}
  BY DEF Bytes, RoundUp, NULL
<1>3. [w \in Words |-> IF w \in Bytes(NULL, 0) THEN x ELSE h.mem[w]] = h.mem
  BY <1>1, <1>2 DEF WordHeap
<1>4. Memset(h, NULL, x, 0) = [h EXCEPT !.mem = h.mem]
  BY <1>3 DEF Memset
<1>. QED  BY <1>1, <1>4 DEF WordHeap

\* The entry of id becomes the block n, which no other entry is, and its bytes
\* are set: all others stay as they were.
LEMMA EntryWritten ==
    ASSUME NEW h, NEW B, Serves(h, B), NEW n \in B, n.alloc, NEW T, NEW id \in Ids, NEW x \in Nat,
           Owns(T, B), \A i \in Ids : T[i].ptr # n.at + 1
    PROVE  LET k == Memset(h, n.at + 1, x, n.want)
               U == [T EXCEPT ![id] = Entry(n)]
           IN  /\ Serves(k, B) /\ Owns(U, B)
               /\ x = id /\ (\A i \in Ids \ {id} : Intact(h, T, i)) => \A i \in Ids : Intact(k, U, i)
<1>. DEFINE k == Memset(h, n.at + 1, x, n.want)
            U == [T EXCEPT ![id] = Entry(n)]
<1>1. Serves(k, B) /\ OnlyIn(h, k, {n}) /\ VerifyPayload(k, n.at + 1, n.want, x)
  BY MemsetTells
<1>2. /\ U = [i \in Ids |-> U[i]] /\ U[id] = Entry(n)
      /\ \A i \in Ids \ {id} : U[i] = T[i]
  <2>1. T = [i \in Ids |-> T[i]]
    BY DEF Owns
  <2>. QED  BY <2>1
<1>3. Entry(n).ptr = n.at + 1 /\ Entry(n).size = n.want
  BY DEF Entry
<1>. HIDE DEF U, k
<1>4. Owns(U, B)
  <2>1. ASSUME NEW i \in Ids PROVE U[i] = NoBlock \/ \E b \in B : b.alloc /\ U[i] = Entry(b)
    <3>1. CASE i = id
      BY <1>2, <3>1
    <3>2. CASE i # id
      BY <1>2, <3>2 DEF Owns
    <3>. QED  BY <3>1, <3>2
  <2>2. ASSUME NEW i \in Ids, NEW j \in Ids, U[i].ptr = U[j].ptr PROVE i = j \/ U[i].ptr = NULL
    <3>1. CASE i # id /\ j # id
      BY <1>2, <2>2, <3>1 DEF Owns
    <3>2. CASE i = id /\ j # id
      BY <1>2, <1>3, <2>2, <3>2
    <3>3. CASE i # id /\ j = id
      BY <1>2, <1>3, <2>2, <3>3
    <3>. QED  BY <3>1, <3>2, <3>3
  <2>. QED  BY <1>2, <2>1, <2>2 DEF Owns
<1>5. ASSUME x = id, \A i \in Ids \ {id} : Intact(h, T, i), NEW i \in Ids
      PROVE  Intact(k, U, i)
  <2>1. CASE i = id
    BY <1>1, <1>2, <1>3, <1>5, <2>1 DEF Intact
  <2>2. CASE i # id /\ T[i] = NoBlock
    <3>1. U[i].ptr = NULL /\ U[i].size = 0
      BY <1>2, <2>2 DEF NoBlock
    <3>2. Bytes(NULL, 0) = {}
      BY DEF Bytes, RoundUp, NULL
    <3>. QED  BY <3>1, <3>2 DEF Intact, VerifyPayload
  <2>3. CASE i # id /\ T[i] # NoBlock
    <3>1. PICK b \in B : b.alloc /\ T[i] = Entry(b)
      BY <2>3 DEF Owns
    <3>2. T[i].ptr = b.at + 1 /\ T[i].size = b.want
      BY <3>1 DEF Entry
    <3>3. b # n
      BY <3>2
    <3>4. VerifyPayload(h, b.at + 1, b.want, i)
      BY <1>5, <2>3, <3>2 DEF Intact
    <3>5. VerifyPayload(k, b.at + 1, b.want, i)
      BY <1>1, <3>1, <3>3, <3>4, OtherIntact
    <3>. QED  BY <1>2, <2>3, <3>2, <3>5 DEF Intact
  <2>. QED  BY <2>1, <2>2, <2>3
<1>. QED  BY <1>1, <1>4, <1>5 DEF k, U

-----------------------------------------------------------------------------
(***************************************************************************)
(* What the calls of the allocator leave of the script's table.            *)
(***************************************************************************)
\* A table of blocks that stay, and whose words are kept.
LEMMA EntriesKept ==
    ASSUME NEW h, NEW B, Serves(h, B), NEW D \in SUBSET B, NEW T, Owns(T, D),
           NEW g, NEW C, \A c \in D : c.alloc => c \in C, Keeps(h, g, Held(D))
    PROVE  /\ Owns(T, C)
           /\ \A i \in Ids : Intact(h, T, i) => Intact(g, T, i)
<1>1. Owns(T, C)
  BY DEF Owns
<1>2. ASSUME NEW i \in Ids, Intact(h, T, i) PROVE Intact(g, T, i)
  <2>1. CASE T[i] = NoBlock
    BY <2>1 DEF Intact, VerifyPayload, NoBlock, Bytes, RoundUp, NULL
  <2>2. CASE T[i] # NoBlock
    <3>1. PICK b \in D : b.alloc /\ T[i] = Entry(b)
      BY <2>2 DEF Owns
    <3>2. T[i].ptr = b.at + 1 /\ T[i].size = b.want
      BY <3>1 DEF Entry
    <3>3. VerifyPayload(h, b.at + 1, b.want, i)
      BY <1>2, <3>2 DEF Intact
    <3>4. VerifyPayload(g, b.at + 1, b.want, i)
      BY <3>1, <3>3, KeptIntact
    <3>. QED  BY <3>2, <3>4 DEF Intact
  <2>. QED  BY <2>1, <2>2
<1>. QED  BY <1>1, <1>2

\* The entries of the other ids are other blocks.
LEMMA OthersOwned ==
    ASSUME NEW h, NEW B, Serves(h, B), NEW T, Owns(T, B), NEW id \in Ids, NEW b \in B, b.alloc,
           T[id] = Entry(b)
    PROVE  LET U == [T EXCEPT ![id] = NoBlock]
           IN  Owns(U, B \ {b}) /\ \A i \in Ids : U[i].ptr # b.at + 1
<1>. DEFINE U == [T EXCEPT ![id] = NoBlock]
<1>1. U = [i \in Ids |-> U[i]] /\ U[id] = NoBlock /\ \A i \in Ids \ {id} : U[i] = T[i]
  <2>1. T = [i \in Ids |-> T[i]]
    BY DEF Owns
  <2>. QED  BY <2>1
<1>2. b.at \in Nat /\ b.at + 1 # NULL /\ T[id].ptr = b.at + 1 /\ NoBlock.ptr = NULL
  BY BlockBytes DEF Entry, NULL, NoBlock
<1>. HIDE DEF U
<1>3. ASSUME NEW i \in Ids PROVE U[i].ptr # b.at + 1
  <2>1. CASE i = id
    BY <1>1, <1>2, <2>1
  <2>2. CASE i # id
    BY <1>1, <1>2, <2>2 DEF Owns
  <2>. QED  BY <2>1, <2>2
<1>4. ASSUME NEW i \in Ids
      PROVE  U[i] = NoBlock \/ \E c \in B \ {b} : c.alloc /\ U[i] = Entry(c)
  <2>1. CASE i = id
    BY <1>1, <2>1
  <2>2. CASE i # id /\ T[i] # NoBlock
    <3>1. PICK c \in B : c.alloc /\ T[i] = Entry(c)
      BY <2>2 DEF Owns
    <3>2. U[i] = Entry(c) /\ c # b
      BY <1>1, <1>3, <2>2, <3>1 DEF Entry
    <3>. QED  BY <3>1, <3>2
  <2>3. CASE i # id /\ T[i] = NoBlock
    BY <1>1, <2>3
  <2>. QED  BY <2>1, <2>2, <2>3
<1>5. ASSUME NEW i \in Ids, NEW j \in Ids, U[i].ptr = U[j].ptr PROVE i = j \/ U[i].ptr = NULL
  <2>1. CASE i # id /\ j # id
    BY <1>1, <1>5, <2>1 DEF Owns
  <2>2. CASE i = id \/ j = id
    BY <1>1, <1>2, <1>5, <2>2
  <2>. QED  BY <2>1, <2>2
<1>6. Owns(U, B \ {b})
  BY <1>1, <1>4, <1>5 DEF Owns
<1>. QED  BY <1>3, <1>6 DEF U

\* What a call can come to.
Fates == {"uninit", "up"} \cup H!Crashes

\* What the allocator must not make the harness say.
Faults == {"init", "bad_block", "bad_payload", "lost_data", "bad_heap"}

\* o is what a call for a block of size bytes may do when T lists the blocks
\* that it is not about.
Grants(h, T, o, size) ==
    \E C :
      /\ Stands(o.heap, C) /\ o.fate \in Fates /\ h.seg.size <= o.heap.seg.size
      /\ o.fate = "up" =>
           /\ Serves(o.heap, C) /\ Owns(T, C)
           /\ \A i \in Ids : Intact(h, T, i) => Intact(o.heap, T, i)
           /\ \/ o.ptr = NULL
              \/ \E n \in C : /\ n.alloc /\ n.at + 1 = o.ptr /\ n.want = size
                              /\ \A i \in Ids : T[i].ptr # o.ptr

\* The facts about blocks that an outcome, seen as blocks, must give.
LEMMA OutcomeStands ==
    ASSUME NEW o, NEW C, NEW w, w = H!Outcome(View(o.heap, C), o.ptr, o.fate), Tells(o.heap, C),
           H!GoodOutcome(w), H!Anchored(w.heap)
    PROVE  /\ w.heap = View(o.heap, C) /\ w.heap.blocks = C /\ w.ptr = o.ptr /\ w.fate = o.fate
           /\ Stands(o.heap, C) /\ o.fate \in Fates /\ w.heap.seg = o.heap.seg
           /\ o.fate = "up" /\ H!NearInt(C) /\ H!Roomy(C) => Serves(o.heap, C)
<1>1. /\ w.heap = View(o.heap, C) /\ w.heap.blocks = C /\ w.ptr = o.ptr /\ w.fate = o.fate
      /\ w.heap.seg = o.heap.seg
  BY OutcomeParts, ViewFields
<1>2. H!GoodHeap(View(o.heap, C)) /\ (o.fate = "up" => H!Backing(View(o.heap, C)))
  BY <1>1 DEF H!GoodOutcome
<1>3. o.fate \in Fates
  BY <1>1 DEF H!GoodOutcome, Fates
<1>4. Stands(o.heap, C)
  BY <1>1, <1>2 DEF Stands
<1>. QED  BY <1>1, <1>2, <1>3, <1>4 DEF Serves

\* No block of C other than n has the header of n.
LEMMA NotTheNew ==
    ASSUME NEW h, NEW C, Serves(h, C), NEW n \in C, n.alloc, NEW T, NEW D \in SUBSET C, Owns(T, D), n \notin D
    PROVE  \A i \in Ids : T[i].ptr # n.at + 1
<1>. SUFFICES ASSUME NEW i \in Ids, T[i].ptr = n.at + 1 PROVE FALSE
  OBVIOUS
<1>1. n.at \in Nat /\ n.at + 1 # NULL
  BY BlockBytes DEF NULL
<1>2. T[i] # NoBlock
  BY <1>1 DEF NoBlock
<1>3. PICK b \in D : b.alloc /\ T[i] = Entry(b)
  BY <1>2 DEF Owns
<1>4. b \in C /\ b # n /\ b.at \in Nat
  BY <1>3, BlockBytes
<1>5. b.at = n.at
  BY <1>1, <1>3, <1>4 DEF Entry
<1>. QED  BY <1>4, <1>5, OneHeader DEF Serves, Stands

\* Every call keeps the heap at the hint, and but for myinit the pages it has.
LEMMA CallsAnchored ==
    ASSUME Obliged, NEW a, H!GoodHeap(a), H!Anchored(a)
    PROVE  /\ \A o \in H!MyInit(a) : H!Anchored(o.heap)
           /\ H!Backing(a) => \A bytes \in Nat : \A o \in H!MyMalloc(a, bytes, bytes) :
                H!Anchored(o.heap) /\ a.seg.size <= o.heap.seg.size
           /\ H!Backing(a) => \A b \in a.blocks : b.alloc =>
                \A bytes \in Nat : \A o \in H!MyRealloc(a, b, bytes) :
                  H!Anchored(o.heap) /\ a.seg.size <= o.heap.seg.size
           /\ \A b : H!Anchored(H!MyFree(a, b)) /\ H!MyFree(a, b).seg = a.seg
<1>. USE LayoutAssumption, SegmentAssumption, ClientAssumption, StackAssumption
<1>1. Requests \subseteq Nat /\ StackBytes \in Nat
  OBVIOUS
<1>2. H!Obliging
  BY DEF Obliged, H!Obliging
<1>3. \A o \in H!MyInit(a) : H!Anchored(o.heap)
  BY <1>1, <1>2, H!InitAnchored
<1>4. ASSUME H!Backing(a), NEW bytes \in Nat, NEW o \in H!MyMalloc(a, bytes, bytes)
      PROVE  H!Anchored(o.heap) /\ a.seg.size <= o.heap.seg.size
  BY <1>1, <1>2, <1>4, H!MallocAnchored
<1>5. ASSUME H!Backing(a), NEW b \in a.blocks, b.alloc, NEW bytes \in Nat, NEW o \in H!MyRealloc(a, b, bytes)
      PROVE  H!Anchored(o.heap) /\ a.seg.size <= o.heap.seg.size
  BY <1>1, <1>2, <1>5, H!ReallocAnchored
<1>6. ASSUME NEW b PROVE H!Anchored(H!MyFree(a, b)) /\ H!MyFree(a, b).seg = a.seg
  <2>1. H!MyFree(a, b) = [a EXCEPT !.blocks = H!Released(@, b)] /\ a \in H!Heaps
    BY DEF H!MyFree, H!GoodHeap
  <2>2. /\ H!MyFree(a, b).seg = a.seg /\ H!MyFree(a, b).base = a.base
        /\ H!MyFree(a, b).pages = a.pages
    BY <2>1 DEF H!Heaps
  <2>. QED  BY <2>2 DEF H!Anchored
<1>. QED  BY <1>3, <1>4, <1>5, <1>6

\* mymalloc.
LEMMA MallocGrants ==
    ASSUME Obliged, NEW h, NEW B, Serves(h, B), NEW T, Owns(T, B), NEW size \in Nat, NEW o \in MyMalloc(h, size)
    PROVE  Grants(h, T, o, size)
<1>. DEFINE a == View(h, B)
<1>1. Tells(h, B) /\ H!GoodHeap(a) /\ H!Backing(a) /\ H!Anchored(a) /\ H!NearInt(B) /\ H!Roomy(B)
  BY DEF Serves, Stands
<1>2. Shown(o, H!MyMalloc(a, size, size)) /\ Keeps(h, o.heap, Held(B))
  BY <1>1, MallocTells
<1>3. PICK C : Tells(o.heap, C) /\ H!Outcome(View(o.heap, C), o.ptr, o.fate) \in H!MyMalloc(a, size, size)
  BY <1>2 DEF Shown
<1>. DEFINE w == H!Outcome(View(o.heap, C), o.ptr, o.fate)
<1>4. w \in H!MyMalloc(a, size, size) /\ a.blocks = B /\ a.seg = h.seg
  BY <1>3, ViewFields
<1>5. w = H!Outcome(View(o.heap, C), o.ptr, o.fate)
  OBVIOUS
<1>. HIDE DEF w, a
<1>6. /\ H!GoodOutcome(w)
      /\ H!NoBlock(B, w) \/ H!NewBlock(B, w, H!Asize(size), size)
      /\ H!NearInt(w.heap.blocks) /\ H!Roomy(w.heap.blocks)
  BY <1>1, <1>4, BlockMalloc
<1>7. H!Anchored(w.heap) /\ h.seg.size <= w.heap.seg.size
  BY <1>1, <1>4, CallsAnchored
<1>8. /\ w.heap.blocks = C /\ w.ptr = o.ptr /\ w.fate = o.fate
      /\ Stands(o.heap, C) /\ o.fate \in Fates /\ h.seg.size <= o.heap.seg.size
      /\ o.fate = "up" => Serves(o.heap, C)
  BY <1>3, <1>5, <1>6, <1>7, OutcomeStands
<1>9. B \in SUBSET H!Block
  BY <1>1, TellsBlocks
<1>10. CASE H!NoBlock(B, w)
  <2>1. \A c \in B : c.alloc => c \in C
    BY <1>8, <1>9, <1>10 DEF H!NoBlock, H!SameLive
  <2>2. Owns(T, C) /\ \A i \in Ids : Intact(h, T, i) => Intact(o.heap, T, i)
    BY <1>2, <2>1, EntriesKept
  <2>3. o.ptr = NULL
    BY <1>8, <1>10, SameArithmetic DEF H!NoBlock
  <2>. QED  BY <1>8, <2>2, <2>3 DEF Grants
<1>11. CASE H!NewBlock(B, w, H!Asize(size), size)
  <2>1. PICK n \in H!Block : /\ n.alloc /\ n.want = size /\ o.ptr = n.at + 1 /\ n \notin B
                             /\ \A c \in H!Block : c.alloc => (c \in C <=> c \in B \/ c = n)
    BY <1>8, <1>11 DEF H!NewBlock, H!Payload
  <2>2. n \in C /\ \A c \in B : c.alloc => c \in C
    BY <1>9, <2>1
  <2>3. Owns(T, C) /\ \A i \in Ids : Intact(h, T, i) => Intact(o.heap, T, i)
    BY <1>2, <2>2, EntriesKept
  <2>. DEFINE D == {c \in B : c.alloc}
  <2>4. Owns(T, D) /\ D \in SUBSET C /\ n \notin D
    BY <2>1, <2>2 DEF Owns
  <2>. HIDE DEF D
  <2>5. o.fate = "up" => \A i \in Ids : T[i].ptr # n.at + 1
    BY <1>8, <2>1, <2>2, <2>4, NotTheNew
  <2>. QED  BY <1>8, <2>1, <2>2, <2>3, <2>5 DEF Grants
<1>. QED  BY <1>6, <1>10, <1>11

\* myfree of the block of id.
LEMMA FreeServes ==
    ASSUME Obliged, NEW h, NEW B, Serves(h, B), NEW T, Owns(T, B), NEW id \in Ids, NEW b \in B, b.alloc,
           T[id] = Entry(b)
    PROVE  LET g == MyFree(h, b.at + 1)
               U == [T EXCEPT ![id] = NoBlock]
           IN  \E C : /\ Serves(g, C) /\ Owns(U, C) /\ g.seg = h.seg
                      /\ \A i \in Ids : Intact(h, U, i) => Intact(g, U, i)
<1>. DEFINE a == View(h, B)
            C == H!Released(B, b)
            U == [T EXCEPT ![id] = NoBlock]
<1>1. /\ Tells(h, B) /\ H!GoodHeap(a) /\ H!Backing(a) /\ H!Anchored(a) /\ H!NearInt(B) /\ H!Roomy(B)
      /\ a.blocks = B /\ B \in SUBSET H!Block
  BY ViewFields, TellsBlocks DEF Serves, Stands
<1>2. PICK g : g = MyFree(h, b.at + 1)
  OBVIOUS
<1>3. Tells(g, C) /\ View(g, C) = H!MyFree(a, b) /\ Keeps(h, g, Held(B \ {b}))
  <2>1. Tells(h, B) /\ H!GoodHeap(View(h, B))
    BY <1>1
  <2>. QED  BY <1>2, <2>1, FreeTells
<1>4. Owns(U, B \ {b})
  BY OthersOwned
<1>5. H!Anchored(H!MyFree(a, b)) /\ View(g, C).blocks = C /\ g.seg = h.seg
  <2>1. a.seg = h.seg /\ View(g, C).seg = g.seg
    BY ViewFields
  <2>. HIDE DEF a, C
  <2>. QED  BY <1>1, <1>3, <2>1, CallsAnchored, ViewFields
<1>. HIDE DEF a, C, U
<1>6. /\ H!GoodHeap(View(g, C)) /\ H!Backing(View(g, C)) /\ H!NearInt(C) /\ H!Roomy(C)
      /\ \A c \in H!Block : c.alloc => (c \in C <=> c \in B /\ c # b)
  BY <1>1, <1>3, <1>5, BlockFree
<1>7. Serves(g, C)
  BY <1>3, <1>5, <1>6 DEF Serves, Stands
<1>8. B \ {b} \in SUBSET B /\ \A c \in B \ {b} : c.alloc => c \in C
  BY <1>1, <1>6
<1>9. Owns(U, C) /\ \A i \in Ids : Intact(h, U, i) => Intact(g, U, i)
  BY <1>3, <1>4, <1>8, EntriesKept
<1>. QED  BY <1>2, <1>5, <1>7, <1>9 DEF U

\* myinit, which the kernel lets succeed.
LEMMA InitServes ==
    ASSUME Obliged, NEW h, NEW B, Stands(h, B), NEW o \in MyInit(h)
    PROVE  o.fate = "up" /\ \E C : Serves(o.heap, C)
<1>. DEFINE a == View(h, B)
<1>1. Tells(h, B) /\ H!GoodHeap(a) /\ H!Anchored(a)
  BY DEF Stands
<1>2. PICK C : Tells(o.heap, C) /\ H!Outcome(View(o.heap, C), o.ptr, o.fate) \in H!MyInit(a)
  BY <1>1, InitTells DEF Shown
<1>. DEFINE w == H!Outcome(View(o.heap, C), o.ptr, o.fate)
<1>3. w = H!Outcome(View(o.heap, C), o.ptr, o.fate) /\ w \in H!MyInit(a)
  BY <1>2
<1>. HIDE DEF w, a
<1>4. H!GoodOutcome(w) /\ (w.fate = "up" => w.heap.blocks = {}) /\ H!Anchored(w.heap)
  BY <1>1, <1>3, BlockInit, CallsAnchored
<1>5. /\ w.heap.blocks = C /\ w.fate = o.fate
      /\ o.fate = "up" /\ H!NearInt(C) /\ H!Roomy(C) => Serves(o.heap, C)
  BY <1>2, <1>3, <1>4, OutcomeStands
<1>6. o.fate = "up"
  <2>1. h.seg.start \in {"null", "hint"}
    BY <1>1, ViewFields DEF H!Anchored, a
  <2>2. Munmaps(h.seg) = {TRUE}
    BY <2>1 DEF Munmaps, Obliged
  <2>3. \A q \in Mmaps(h.seg, 0) : q.ret = 0
    BY DEF Mmaps, Obliged, ExtendHeapSegment, SegOutcome
  <2>4. \A q \in InitHeapSegment(h.seg, 0) : q.ret = 0
    BY <2>2, <2>3 DEF InitHeapSegment
  <2>. QED  BY <2>4 DEF MyInit, Outcome, NoPage
<1>. QED  BY <1>4, <1>5, <1>6 DEF H!NearInt, H!Roomy

\* myrealloc of the block of id, which may move it or leave it.
LEMMA BlockGrants ==
    ASSUME Obliged, NEW h, NEW B, Serves(h, B), NEW T, Owns(T, B), NEW id \in Ids, NEW b \in B, b.alloc,
           T[id] = Entry(b), NEW size \in Nat, 8 * Asize(size) <= IntMax, NEW o \in MyRealloc(h, b.at + 1, size)
    PROVE  Grants(h, [T EXCEPT ![id] = NoBlock], o, size)
<1>. DEFINE a == View(h, B)
            U == [T EXCEPT ![id] = NoBlock]
<1>1. /\ Tells(h, B) /\ H!GoodHeap(a) /\ H!Backing(a) /\ H!Anchored(a) /\ H!NearInt(B) /\ H!Roomy(B)
      /\ a.blocks = B /\ B \in SUBSET H!Block /\ a.seg = h.seg
  BY ViewFields, TellsBlocks DEF Serves, Stands
<1>2. Shown(o, H!MyRealloc(a, b, size)) /\ Keeps(h, o.heap, Held(B \ {b}))
  BY <1>1, ReallocTells
<1>3. PICK C : Tells(o.heap, C) /\ H!Outcome(View(o.heap, C), o.ptr, o.fate) \in H!MyRealloc(a, b, size)
  BY <1>2 DEF Shown
<1>. DEFINE w == H!Outcome(View(o.heap, C), o.ptr, o.fate)
<1>4. w \in H!MyRealloc(a, b, size) /\ w = H!Outcome(View(o.heap, C), o.ptr, o.fate)
  BY <1>3
<1>5. Owns(U, B \ {b}) /\ \A i \in Ids : U[i].ptr # b.at + 1
  BY OthersOwned
<1>. HIDE DEF w, a, U
<1>6. /\ H!GoodOutcome(w)
      /\ \/ H!NoBlock(B, w) /\ (size = 0 \/ w.fate = "stack")
         \/ H!Kept(B, w, b, size)
         \/ H!NoBlock(H!MyFree(a, b).blocks, w) /\ w.fate \in {"hole", "null_copy"}
         \/ H!NewBlock(H!MyFree(a, b).blocks, w, H!Asize(H!Grown(size)), size)
      /\ H!NearInt(w.heap.blocks) /\ H!Roomy(w.heap.blocks)
  <2>1. 8 * H!Asize(size) <= IntMax
    BY SameArithmetic
  <2>. QED  BY <1>1, <1>4, <2>1, BlockRealloc
<1>7. H!Anchored(w.heap) /\ h.seg.size <= w.heap.seg.size
  BY <1>1, <1>4, CallsAnchored
<1>8. /\ w.heap.blocks = C /\ w.ptr = o.ptr /\ w.fate = o.fate
      /\ Stands(o.heap, C) /\ o.fate \in Fates /\ h.seg.size <= o.heap.seg.size
      /\ o.fate = "up" => Serves(o.heap, C)
  <2>1. Tells(o.heap, C) /\ H!GoodOutcome(w) /\ H!NearInt(w.heap.blocks) /\ H!Roomy(w.heap.blocks)
    BY <1>3, <1>6
  <2>2. w = H!Outcome(View(o.heap, C), o.ptr, o.fate)
    BY <1>4
  <2>. QED  BY <1>7, <2>1, <2>2, OutcomeStands
<1>9. ASSUME \A c \in B \ {b} : c.alloc => c \in C
      PROVE  Owns(U, C) /\ \A i \in Ids : Intact(h, U, i) => Intact(o.heap, U, i)
  <2>1. B \ {b} \in SUBSET B
    OBVIOUS
  <2>. QED  BY <1>2, <1>5, <1>9, <2>1, EntriesKept
<1>10. CASE H!NoBlock(B, w)
  <2>1. \A c \in B \ {b} : c.alloc => c \in C
    BY <1>1, <1>8, <1>10 DEF H!NoBlock, H!SameLive
  <2>2. o.ptr = NULL
    BY <1>8, <1>10, SameArithmetic DEF H!NoBlock
  <2>. QED  BY <1>8, <1>9, <2>1, <2>2 DEF Grants, U
<1>11. CASE H!Kept(B, w, b, size)
  <2>. DEFINE n == [b EXCEPT !.want = size]
  <2>1. n \in H!Block /\ n.alloc /\ n.at = b.at /\ n.want = size
    BY <1>1 DEF H!Block
  <2>2. o.ptr = b.at + 1
    BY <1>8, <1>11 DEF H!Kept, H!Payload
  <2>3. \A c \in H!Block : c.alloc => (c \in C <=> (c \in B /\ c # b) \/ c = n)
    BY <1>8, <1>11 DEF H!Kept
  <2>. HIDE DEF n
  <2>4. n \in C /\ \A c \in B \ {b} : c.alloc => c \in C
    BY <1>1, <2>1, <2>3
  <2>5. \A i \in Ids : U[i].ptr # o.ptr
    BY <1>5, <2>2
  <2>. QED  BY <1>8, <1>9, <2>1, <2>2, <2>4, <2>5 DEF Grants, U
<1>12. CASE w.fate \in {"hole", "null_copy"}
  BY <1>8, <1>12 DEF Grants, U
<1>13. CASE H!NewBlock(H!MyFree(a, b).blocks, w, H!Asize(H!Grown(size)), size)
  <2>. DEFINE D == {c \in B : c.alloc /\ c # b}
  <2>1. PICK n \in H!Block :
          /\ n.alloc /\ n.want = size /\ o.ptr = n.at + 1 /\ n \notin H!MyFree(a, b).blocks
          /\ \A c \in H!Block : c.alloc => (c \in C <=> c \in H!MyFree(a, b).blocks \/ c = n)
    BY <1>8, <1>13 DEF H!NewBlock, H!Payload
  <2>2. \A c \in H!Block : c.alloc => (c \in H!MyFree(a, b).blocks <=> c \in B /\ c # b)
    BY <1>1, BlockFree
  <2>3. n \in C /\ (\A c \in B \ {b} : c.alloc => c \in C) /\ n \notin D
    BY <1>1, <2>1, <2>2
  <2>4. Owns(U, D) /\ D \in SUBSET C
    BY <1>5, <2>3 DEF Owns
  <2>. HIDE DEF D
  <2>5. o.fate = "up" => \A i \in Ids : U[i].ptr # n.at + 1
    BY <1>8, <2>1, <2>3, <2>4, NotTheNew
  <2>. QED  BY <1>8, <1>9, <2>1, <2>3, <2>5 DEF Grants, U
<1>. QED  BY <1>6, <1>10, <1>11, <1>12, <1>13

\* No byte is asked about when the size is zero.
LEMMA NoBytes == ASSUME NEW ptr \in Nat PROVE Bytes(ptr, 0) = {}
BY DEF Bytes, RoundUp

\* The pointer that a grant returns.
LEMMA GrantedPtr ==
    ASSUME NEW h, NEW T, NEW o, NEW size, Grants(h, T, o, size), o.fate = "up"
    PROVE  o.ptr \in Nat
<1>1. PICK C : /\ Serves(o.heap, C)
               /\ (o.ptr = NULL \/ \E n \in C : n.alloc /\ n.at + 1 = o.ptr)
  BY DEF Grants
<1>2. CASE o.ptr = NULL
  BY <1>2 DEF NULL
<1>3. CASE o.ptr # NULL
  <2>1. PICK n \in C : n.alloc /\ n.at + 1 = o.ptr
    BY <1>1, <1>3
  <2>2. n.at \in Nat
    BY <1>1, <2>1, BlockBytes
  <2>. QED  BY <2>1, <2>2
<1>. QED  BY <1>2, <1>3

\* myrealloc of whatever the table has for id; the bytes both sizes have in
\* common are those that were there.
LEMMA ReallocGrants ==
    ASSUME Obliged, NEW h, NEW B, Serves(h, B), NEW T, Owns(T, B), NEW id \in Ids,
           NEW size \in Nat, 8 * Asize(size) <= IntMax, NEW o \in MyRealloc(h, T[id].ptr, size)
    PROVE  /\ Grants(h, [T EXCEPT ![id] = NoBlock], o, size)
           /\ o.fate = "up" /\ (o.ptr = NULL => size = 0) /\ Intact(h, T, id) =>
                VerifyPayload(o.heap, o.ptr, Min2(T[id].size, size), id)
<1>. DEFINE U == [T EXCEPT ![id] = NoBlock]
<1>1. CASE T[id] = NoBlock
  <2>1. U = T
    BY <1>1 DEF Owns
  <2>2. T[id].ptr = NULL /\ T[id].size = 0
    BY <1>1 DEF NoBlock
  <2>3. o \in MyMalloc(h, size)
    BY <2>2 DEF MyRealloc, MyMalloc
  <2>4. Grants(h, U, o, size)
    BY <2>1, <2>3, MallocGrants
  <2>5. Min2(T[id].size, size) = 0
    BY <2>2 DEF Min2
  <2>6. o.fate = "up" => o.ptr \in Nat
    BY <2>4, GrantedPtr
  <2>. QED  BY <2>4, <2>5, <2>6, NoBytes DEF VerifyPayload
<1>2. CASE T[id] # NoBlock
  <2>1. PICK b \in B : b.alloc /\ T[id] = Entry(b)
    BY <1>2 DEF Owns
  <2>2. T[id].ptr = b.at + 1 /\ T[id].size = b.want
    BY <2>1 DEF Entry
  <2>3. o \in MyRealloc(h, b.at + 1, size)
    BY <2>2
  <2>4. Grants(h, U, o, size)
    BY <2>1, <2>3, BlockGrants
  <2>5. /\ b.at \in Nat /\ b.size \in Nat /\ b.want \in Nat /\ RoundUp(b.want) \in Nat
        /\ RoundUp(b.want) <= b.size
    BY <2>1, BlockBytes
  <2>6. ASSUME o.fate = "up", o.ptr = NULL => size = 0, Intact(h, T, id)
        PROVE  VerifyPayload(o.heap, o.ptr, Min2(b.want, size), id)
    <3>1. o.ptr \in Nat
      BY <2>4, <2>6, GrantedPtr
    <3>2. CASE o.ptr = NULL
      <4>1. Min2(b.want, size) = 0
        BY <2>5, <2>6, <3>2 DEF Min2
      <4>. QED  BY <3>1, <4>1, NoBytes DEF VerifyPayload
    <3>3. CASE o.ptr # NULL
      <4>1. \A i \in 0 .. (b.size - 1) : o.heap.mem[o.ptr + i] = h.mem[(b.at + 1) + i]
        <5>1. Tells(h, B) /\ H!GoodHeap(View(h, B)) /\ H!Backing(View(h, B)) /\ H!NearInt(B)
          BY DEF Serves, Stands
        <5>. QED  BY <2>1, <2>3, <2>6, <3>3, <5>1, ReallocTells
      <4>2. PICK m \in Nat : m = Min2(b.want, size) /\ m <= b.want
        BY <2>5 DEF Min2
      <4>3. RoundUp(m) \in Nat /\ RoundUp(m) <= RoundUp(b.want)
        BY <2>5, <4>2 DEF RoundUp
      <4>. SUFFICES ASSUME NEW w \in Bytes(o.ptr, m) PROVE o.heap.mem[w] = id
        BY <4>2 DEF VerifyPayload, GET
      <4>. DEFINE i == w - o.ptr
      <4>4. i \in 0 .. (RoundUp(m) - 1) /\ w = o.ptr + i
        BY <3>1, <4>3 DEF Bytes
      <4>. HIDE DEF i
      <4>5. i \in 0 .. (b.size - 1) /\ (b.at + 1) + i \in b.at + 1 .. (b.at + 1 + RoundUp(b.want) - 1)
        BY <2>5, <4>3, <4>4
      <4>6. h.mem[(b.at + 1) + i] = id
        BY <2>2, <2>6, <4>5 DEF Intact, VerifyPayload, Bytes, GET
      <4>. QED  BY <4>1, <4>4, <4>5, <4>6
    <3>. QED  BY <3>2, <3>3
  <2>. QED  BY <2>2, <2>4, <2>6
<1>. QED  BY <1>1, <1>2

-----------------------------------------------------------------------------
(***************************************************************************)
(* The checks of the harness.                                              *)
(***************************************************************************)
\* An entry without a block is always in order.
LEMMA EntryDropped ==
    ASSUME NEW T, NEW B, Owns(T, B), NEW id \in Ids
    PROVE  LET U == [T EXCEPT ![id] = NoBlock]
           IN  /\ Owns(U, B)
               /\ \A h : (\A i \in Ids \ {id} : Intact(h, T, i)) => \A i \in Ids : Intact(h, U, i)
<1>. DEFINE U == [T EXCEPT ![id] = NoBlock]
<1>1. U = [i \in Ids |-> U[i]] /\ U[id] = NoBlock /\ \A i \in Ids \ {id} : U[i] = T[i]
  <2>1. T = [i \in Ids |-> T[i]]
    BY DEF Owns
  <2>. QED  BY <2>1
<1>2. NoBlock.ptr = NULL /\ NoBlock.size = 0 /\ Bytes(NULL, 0) = {}
  BY NoBytes DEF NoBlock, NULL
<1>. HIDE DEF U
<1>3. ASSUME NEW i \in Ids, NEW j \in Ids, U[i].ptr = U[j].ptr PROVE i = j \/ U[i].ptr = NULL
  <2>1. CASE i # id /\ j # id
    BY <1>1, <1>3, <2>1 DEF Owns
  <2>2. CASE i = id \/ j = id
    BY <1>1, <1>2, <1>3, <2>2
  <2>. QED  BY <2>1, <2>2
<1>4. ASSUME NEW i \in Ids PROVE U[i] = NoBlock \/ \E b \in B : b.alloc /\ U[i] = Entry(b)
  BY <1>1 DEF Owns
<1>5. ASSUME NEW h, \A j \in Ids \ {id} : Intact(h, T, j), NEW i \in Ids PROVE Intact(h, U, i)
  <2>1. CASE i = id
    BY <1>1, <1>2, <2>1 DEF Intact, VerifyPayload
  <2>2. CASE i # id
    BY <1>1, <1>5, <2>2 DEF Intact
  <2>. QED  BY <2>1, <2>2
<1>6. Owns(U, B)
  BY <1>1, <1>3, <1>4 DEF Owns
<1>. QED  BY <1>5, <1>6 DEF U

\* What is granted passes verify_block, and its entry and its bytes can be set.
LEMMA GrantTaken ==
    ASSUME NEW h, NEW T, NEW o, NEW size, Grants(h, T, o, size), o.fate = "up", o.ptr = NULL => size = 0,
           NEW id \in Ids, NEW x \in Nat
    PROVE  /\ \A table : (\A i \in Ids : table[i] = T[i] \/ table[i].size = 0) =>
                Accepts(o.heap, table, o.ptr, size)
           /\ LET k == Memset(o.heap, o.ptr, x, size)
                  U == [T EXCEPT ![id] = [ptr |-> o.ptr, size |-> size]]
              IN  \E C : /\ Serves(k, C) /\ Owns(U, C)
                         /\ x = id /\ (\A i \in Ids \ {id} : Intact(h, T, i)) =>
                              \A i \in Ids : Intact(k, U, i)
<1>1. PICK C : /\ Serves(o.heap, C) /\ Owns(T, C)
               /\ \A i \in Ids : Intact(h, T, i) => Intact(o.heap, T, i)
               /\ \/ o.ptr = NULL
                  \/ \E n \in C : /\ n.alloc /\ n.at + 1 = o.ptr /\ n.want = size
                                  /\ \A i \in Ids : T[i].ptr # o.ptr
  BY DEF Grants
<1>2. CASE o.ptr = NULL
  <2>1. size = 0 /\ [ptr |-> o.ptr, size |-> size] = NoBlock
    BY <1>2 DEF NoBlock
  <2>2. Memset(o.heap, o.ptr, x, size) = o.heap
    BY <1>1, <1>2, <2>1, MemsetNothing DEF Serves, Stands
  <2>3. \A table : Accepts(o.heap, table, o.ptr, size)
    BY <1>2, <2>1, NothingAccepted
  <2>4. LET U == [T EXCEPT ![id] = NoBlock]
        IN  /\ Owns(U, C)
            /\ (\A i \in Ids \ {id} : Intact(o.heap, T, i)) => \A i \in Ids : Intact(o.heap, U, i)
    BY <1>1, EntryDropped
  <2>. QED  BY <1>1, <2>1, <2>2, <2>3, <2>4
<1>3. CASE o.ptr # NULL
  <2>1. PICK n \in C : n.alloc /\ n.at + 1 = o.ptr /\ n.want = size /\ \A i \in Ids : T[i].ptr # o.ptr
    BY <1>1, <1>3
  <2>2. [ptr |-> o.ptr, size |-> size] = Entry(n)
    BY <2>1 DEF Entry
  <2>3. ASSUME NEW table, \A i \in Ids : table[i] = T[i] \/ table[i].size = 0
        PROVE  Accepts(o.heap, table, o.ptr, size)
    <3>1. Beside(table, C, n)
      <4>. SUFFICES ASSUME NEW i \in Ids, table[i].size # 0
                    PROVE  \E b \in C : b.alloc /\ b # n /\ table[i] = Entry(b)
        BY DEF Beside
      <4>1. table[i] = T[i] /\ T[i] # NoBlock
        BY <2>3 DEF NoBlock
      <4>2. PICK b \in C : b.alloc /\ T[i] = Entry(b)
        BY <1>1, <4>1 DEF Owns
      <4>3. b # n
        BY <2>1, <4>2 DEF Entry
      <4>. QED  BY <4>1, <4>2, <4>3
    <3>. QED  BY <1>1, <2>1, <3>1, NewAccepted
  <2>4. LET k == Memset(o.heap, n.at + 1, x, n.want)
            U == [T EXCEPT ![id] = Entry(n)]
        IN  /\ Serves(k, C) /\ Owns(U, C)
            /\ x = id /\ (\A i \in Ids \ {id} : Intact(o.heap, T, i)) => \A i \in Ids : Intact(k, U, i)
    BY <1>1, <2>1, EntryWritten
  <2>. QED  BY <1>1, <2>1, <2>2, <2>3, <2>4
<1>. QED  BY <1>2, <1>3

\* myfree of whatever the table has for id.
LEMMA FreeCall ==
    ASSUME Obliged, NEW h, NEW B, Serves(h, B), NEW T, Owns(T, B), NEW id \in Ids
    PROVE  LET g == MyFree(h, T[id].ptr)
               U == [T EXCEPT ![id] = NoBlock]
           IN  \E C : /\ Serves(g, C) /\ Owns(U, C) /\ g.seg = h.seg
                      /\ (\A i \in Ids : Intact(h, T, i)) => \A i \in Ids : Intact(g, U, i)
<1>. DEFINE U == [T EXCEPT ![id] = NoBlock]
<1>1. Owns(U, B) /\ \A k : (\A i \in Ids \ {id} : Intact(k, T, i)) => \A i \in Ids : Intact(k, U, i)
  BY EntryDropped
<1>. HIDE DEF U
<1>2. CASE T[id] = NoBlock
  <2>1. MyFree(h, T[id].ptr) = h
    BY <1>2 DEF NoBlock, MyFree
  <2>. QED  BY <1>1, <2>1 DEF U
<1>3. CASE T[id] # NoBlock
  <2>1. PICK b \in B : b.alloc /\ T[id] = Entry(b)
    BY <1>3 DEF Owns
  <2>2. T[id].ptr = b.at + 1
    BY <2>1 DEF Entry
  <2>3. PICK g : g = MyFree(h, b.at + 1)
    OBVIOUS
  <2>4. \E C : /\ Serves(g, C) /\ Owns(U, C) /\ g.seg = h.seg
               /\ \A i \in Ids : Intact(h, U, i) => Intact(g, U, i)
    BY <2>1, <2>3, FreeServes DEF U
  <2>. QED  BY <1>1, <2>2, <2>3, <2>4 DEF U
<1>. QED  BY <1>2, <1>3

\* validate_heap rejects the heap only for a free block of a size beyond an
\* int.
LEMMA StandsValid ==
    ASSUME NEW h, NEW B, Stands(h, B), ~ValidateHeap(h)
    PROVE  HasLargeFree(h)
<1>1. h.base = 0 /\ h.seg.start \in {"null", "hint"} /\ (h.seg.start = "null" => h.pages = 0)
  BY ViewFields DEF Stands, H!Anchored
<1>2. PICK b \in B : ~b.alloc /\ ~Checkable(h, b)
  BY NodesExact DEF Stands
<1>3. PICK i \in Buckets : b.at \in Range(FreeList(h, i))
  BY <1>2, OnList DEF Stands
<1>4. GET(h, b.at) = 8 * b.size /\ b.size \in Nat
  BY <1>2, OnList DEF Stands
<1>5. h.seg.start = "hint" /\ b.at < PageWords * h.pages
  <2>1. h.pages # 0 /\ h.pages \in Nat /\ PageWords \in Nat
    BY LayoutAssumption DEF Stands, Tells, WordHeap
  <2>2. PICK m \in Nat : m = PageWords * h.pages /\ m = h.pages * PageWords
    BY <2>1
  <2>3. LoOf(h) \in Nat /\ HiOf(h) \in Nat /\ HiOf(h) \in Words /\ 2 <= LoOf(h)
        /\ H!Row(B, LoOf(h), HiOf(h)) /\ B \in SUBSET H!Block
    BY <2>1 DEF Stands, Tells, Rests, Rep, Edges
  <2>4. HiOf(h) = m - 1
    BY <1>1, <2>2 DEF HiOf
  <2>5. b.at \in Nat /\ b.size \in Nat /\ Stop(b) <= HiOf(h) /\ Stop(b) = b.at + b.size + 2
    BY <2>3, RowFits, BlockParts DEF Stop
  <2>6. b.at < m
    <3>. HIDE DEF HiOf
    <3>. QED  BY <2>3, <2>4, <2>5
  <2>. QED  BY <1>1, <2>1, <2>2, <2>6
<1>6. GET(h, b.at) > IntMax
  BY <1>2, <1>4, <1>5, LayoutAssumption DEF Checkable
<1>. QED  BY <1>3, <1>6 DEF HasLargeFree

-----------------------------------------------------------------------------
(***************************************************************************)
(* The invariant.                                                          *)
(***************************************************************************)
\* A script under way, checked or timed, finds its blocks in the heap; one
\* that is checked finds in them what it wrote.  The one fault that may be
\* reported is an invalid heap, of one with a free block beyond an int.
Passing(h, T, v) ==
    \E B :
      /\ Stands(h, B)
      /\ v \in Faults => v = "bad_heap" /\ HasLargeFree(h)
      /\ v \in {"running", "timing"} => Serves(h, B) /\ Owns(T, B)
      /\ v = "running" => \A i \in Ids : Intact(h, T, i)

TestInv == Passing(testHeap, blocks, verdict)

\* Every request of a script can be met within an int.
SmallSizes == \A size \in Sizes : 8 * Asize(size) <= IntMax

\* A table without blocks.
LEMMA EmptyTable ==
    LET T == [i \in Ids |-> NoBlock]
    IN  \A h, B : Owns(T, B) /\ \A i \in Ids : Intact(h, T, i)
<1>1. NoBlock.ptr = NULL /\ NoBlock.size = 0 /\ Bytes(NULL, 0) = {}
  BY NoBytes DEF NoBlock, NULL
<1>2. PICK T : T = [i \in Ids |-> NoBlock]
  OBVIOUS
<1>3. T = [i \in Ids |-> T[i]] /\ \A i \in Ids : T[i] = NoBlock
  BY <1>2
<1>4. \A B : Owns(T, B)
  BY <1>1, <1>3 DEF Owns
<1>5. \A h : \A i \in Ids : Intact(h, T, i)
  BY <1>1, <1>3 DEF Intact, VerifyPayload
<1>. QED  BY <1>2, <1>4, <1>5

\* A step that ends a script, or the process.
LEMMA EndsPassing ==
    ASSUME NEW h, NEW B, Stands(h, B), NEW why, why \notin Faults \cup {"running", "timing"}, Ends(h, why)
    PROVE  TestInv'
BY DEF Ends, TestInv, Passing

\* A step that ends a request.
LEMMA DonePassing ==
    ASSUME NEW h, NEW B, Serves(h, B), NEW T, Owns(T, B), \A i \in Ids : Intact(h, T, i), Done(h, T)
    PROVE  TestInv'
<1>1. ~ValidateHeap(h) => HasLargeFree(h)
  BY StandsValid DEF Serves
<1>2. /\ testHeap' = h /\ blocks' = T
      /\ verdict' = "running" \/ (verdict' = "bad_heap" /\ HasLargeFree(h))
  BY <1>1 DEF Done
<1>. QED  BY <1>2 DEF TestInv, Passing, Serves, Faults

\* What mymalloc and myrealloc report is no fault.
LEMMA GrantEnds ==
    ASSUME NEW h, NEW T, NEW o, NEW size, Grants(h, T, o, size),
           NEW why, Ends(o.heap, why), why \in {o.fate, "malloc_null", "realloc_null", "null_write"}
    PROVE  TestInv'
<1>1. PICK C : Stands(o.heap, C) /\ o.fate \in Fates
  BY DEF Grants
<1>2. why \notin Faults \cup {"running", "timing"}
  BY <1>1 DEF Faults, Fates, H!Crashes
<1>. QED  BY <1>1, <1>2, EndsPassing

LEMMA TestInitInv == TestInit => TestInv
<1>. SUFFICES ASSUME TestInit PROVE TestInv
  OBVIOUS
<1>1. testHeap = EmptyHeap /\ verdict = "idle"
  BY DEF TestInit
<1>2. NoSegment \in Segments /\ EmptyHeap = [EmptyHeap EXCEPT !.seg = NoSegment]
  BY DEF NoSegment, Segments, EmptyHeap
<1>3. Tells(EmptyHeap, {}) /\ View(EmptyHeap, {}) = [H!EmptyHeap EXCEPT !.seg = NoSegment]
  BY <1>2, EmptyTells
<1>4. View(EmptyHeap, {}) = H!EmptyHeap
  BY <1>3, SameArithmetic DEF H!EmptyHeap
<1>5. H!GoodHeap(H!EmptyHeap) /\ H!Anchored(H!EmptyHeap)
  BY <1>2, SameArithmetic DEF H!GoodHeap, H!Heaps, H!EmptyHeap, H!Anchored, NoSegment
<1>6. Stands(testHeap, {})
  BY <1>1, <1>3, <1>4, <1>5 DEF Stands
<1>. QED  BY <1>1, <1>6 DEF TestInv, Passing, Faults

\* The requests of a script.
LEMMA AllocPassing ==
    ASSUME Obliged, TestInv, NEW id \in Ids, NEW size \in Sizes, EvalAlloc(id, size)
    PROVE  TestInv'
<1>1. PICK B : Serves(testHeap, B) /\ Owns(blocks, B) /\ \A i \in Ids : Intact(testHeap, blocks, i)
  BY DEF EvalAlloc, TestInv, Passing
<1>2. size \in Nat /\ id \in Nat
  BY ScriptAssumption, LayoutAssumption
<1>3. PICK o \in MyMalloc(testHeap, size) :
        IF o.fate # "up" THEN Ends(o.heap, o.fate)
        ELSE IF o.ptr = NULL /\ size # 0 THEN Ends(o.heap, "malloc_null")
        ELSE IF ~Accepts(o.heap, blocks, o.ptr, size) THEN Ends(o.heap, "bad_block")
        ELSE Done(Memset(o.heap, o.ptr, id, size),
                  [blocks EXCEPT ![id] = [ptr |-> o.ptr, size |-> size]])
  BY DEF EvalAlloc
<1>4. Grants(testHeap, blocks, o, size)
  BY <1>1, <1>2, MallocGrants
<1>. DEFINE k == Memset(o.heap, o.ptr, id, size)
            U == [blocks EXCEPT ![id] = [ptr |-> o.ptr, size |-> size]]
<1>5. CASE o.fate # "up"
  BY <1>3, <1>4, <1>5, GrantEnds
<1>6. CASE o.fate = "up" /\ o.ptr = NULL /\ size # 0
  BY <1>3, <1>4, <1>6, GrantEnds
<1>7. CASE o.fate = "up" /\ (o.ptr = NULL => size = 0)
  <2>1. Accepts(o.heap, blocks, o.ptr, size)
    BY <1>2, <1>4, <1>7, GrantTaken
  <2>2. PICK C : /\ Serves(k, C) /\ Owns(U, C)
                 /\ (\A i \in Ids \ {id} : Intact(testHeap, blocks, i)) => \A i \in Ids : Intact(k, U, i)
    BY <1>2, <1>4, <1>7, GrantTaken
  <2>3. Done(k, U)
    BY <1>3, <1>7, <2>1
  <2>. HIDE DEF k, U
  <2>. QED  BY <1>1, <2>2, <2>3, DonePassing
<1>. QED  BY <1>5, <1>6, <1>7

LEMMA ReallocPassing ==
    ASSUME Obliged, SmallSizes, TestInv, NEW id \in Ids, NEW size \in Sizes,
           EvalRealloc(id, size)
    PROVE  TestInv'
<1>. DEFINE old == blocks[id]
            others == [blocks EXCEPT ![id].size = 0]
            T == [blocks EXCEPT ![id] = NoBlock]
<1>1. PICK B : Serves(testHeap, B) /\ Owns(blocks, B) /\ \A i \in Ids : Intact(testHeap, blocks, i)
  BY DEF EvalRealloc, TestInv, Passing
<1>2. size \in Nat /\ id \in Nat /\ 8 * Asize(size) <= IntMax
  BY ScriptAssumption, LayoutAssumption DEF SmallSizes
<1>3. PICK o \in MyRealloc(testHeap, old.ptr, size) :
        IF o.fate # "up" THEN Ends(o.heap, o.fate)
        ELSE IF o.ptr = NULL /\ size # 0 THEN Ends(o.heap, "realloc_null")
        ELSE IF ~Accepts(o.heap, others, o.ptr, size) THEN Ends(o.heap, "bad_block")
        ELSE IF ~VerifyPayload(o.heap, o.ptr, Min2(old.size, size), id) THEN Ends(o.heap, "lost_data")
        ELSE Done(Memset(o.heap, o.ptr, id, size),
                  [blocks EXCEPT ![id] = [ptr |-> o.ptr, size |-> size]])
  BY <1>1 DEF EvalRealloc, Intact
<1>4. /\ Grants(testHeap, T, o, size)
      /\ o.fate = "up" /\ (o.ptr = NULL => size = 0) => VerifyPayload(o.heap, o.ptr, Min2(old.size, size), id)
  BY <1>1, <1>2, ReallocGrants
<1>5. /\ \A i \in Ids : others[i] = T[i] \/ others[i].size = 0
      /\ \A e : [T EXCEPT ![id] = e] = [blocks EXCEPT ![id] = e]
      /\ \A i \in Ids \ {id} : T[i] = blocks[i]
  <2>1. blocks = [i \in Ids |-> blocks[i]]
    BY <1>1 DEF Owns
  <2>2. blocks[id].ptr = blocks[id].ptr /\ [blocks[id] EXCEPT !.size = 0].size = 0
    BY <1>1 DEF Owns, Entry, NoBlock
  <2>. QED  BY <2>1, <2>2
<1>. DEFINE k == Memset(o.heap, o.ptr, id, size)
            U == [blocks EXCEPT ![id] = [ptr |-> o.ptr, size |-> size]]
<1>6. U = [T EXCEPT ![id] = [ptr |-> o.ptr, size |-> size]]
  <2>. HIDE DEF T
  <2>. QED  BY <1>5
<1>. HIDE DEF T, others
<1>7. CASE o.fate # "up"
  BY <1>3, <1>4, <1>7, GrantEnds
<1>8. CASE o.fate = "up" /\ o.ptr = NULL /\ size # 0
  BY <1>3, <1>4, <1>8, GrantEnds
<1>9. CASE o.fate = "up" /\ (o.ptr = NULL => size = 0)
  <2>1. Accepts(o.heap, others, o.ptr, size)
    <3>1. \A table : (\A i \in Ids : table[i] = T[i] \/ table[i].size = 0) => Accepts(o.heap, table, o.ptr, size)
      BY <1>2, <1>4, <1>9, GrantTaken
    <3>. QED  BY <1>5, <3>1
  <2>2. PICK C : /\ Serves(k, C) /\ Owns(U, C)
                 /\ (\A i \in Ids \ {id} : Intact(testHeap, T, i)) => \A i \in Ids : Intact(k, U, i)
    <3>. HIDE DEF U
    <3>. QED  BY <1>2, <1>4, <1>6, <1>9, GrantTaken
  <2>3. Done(k, U)
    BY <1>3, <1>4, <1>9, <2>1
  <2>4. \A i \in Ids \ {id} : Intact(testHeap, T, i)
    BY <1>1, <1>5 DEF Intact
  <2>. HIDE DEF k, U
  <2>. QED  BY <2>2, <2>3, <2>4, DonePassing
<1>. QED  BY <1>7, <1>8, <1>9

LEMMA FreePassing ==
    ASSUME Obliged, TestInv, NEW id \in Ids, EvalFree(id)
    PROVE  TestInv'
<1>1. PICK B : Serves(testHeap, B) /\ Owns(blocks, B) /\ \A i \in Ids : Intact(testHeap, blocks, i)
  BY DEF EvalFree, TestInv, Passing
<1>. DEFINE k == MyFree(testHeap, blocks[id].ptr)
            U == [blocks EXCEPT ![id] = NoBlock]
<1>2. Done(k, U)
  BY <1>1 DEF EvalFree, Intact
<1>3. PICK C : /\ Serves(k, C) /\ Owns(U, C)
               /\ (\A i \in Ids : Intact(testHeap, blocks, i)) => \A i \in Ids : Intact(k, U, i)
  BY <1>1, FreeCall
<1>. HIDE DEF k, U
<1>. QED  BY <1>1, <1>2, <1>3, DonePassing

\* The requests of a script that is timed.
LEMMA TimedPassing ==
    ASSUME NEW h, NEW T, NEW o, NEW id \in Ids, NEW size \in Nat, NEW payload, verdict = "timing",
           Grants(h, T, o, size), Timed(o, id, size, payload),
           \A e : [T EXCEPT ![id] = e] = [blocks EXCEPT ![id] = e]
    PROVE  TestInv'
<1>1. CASE o.fate # "up"
  BY <1>1, GrantEnds DEF Timed
<1>2. CASE o.fate = "up" /\ o.ptr = NULL /\ size # 0
  BY <1>2, GrantEnds DEF Timed
<1>3. CASE o.fate = "up" /\ (o.ptr = NULL => size = 0)
  <2>. DEFINE k == Memset(o.heap, o.ptr, Mark, size)
              U == [T EXCEPT ![id] = [ptr |-> o.ptr, size |-> size]]
  <2>1. PICK C : Serves(k, C) /\ Owns(U, C)
    <3>1. Mark \in Nat
      BY DEF Mark
    <3>. QED  BY <1>3, <3>1, GrantTaken
  <2>2. U = [blocks EXCEPT ![id] = [ptr |-> o.ptr, size |-> size]]
    OBVIOUS
  <2>3. testHeap' = k /\ blocks' = U /\ verdict' = "timing"
    BY <1>3, <2>2 DEF Timed
  <2>. HIDE DEF k, U
  <2>. QED  BY <2>1, <2>3 DEF TestInv, Passing, Serves, Faults
<1>. QED  BY <1>1, <1>2, <1>3

LEMMA TimePassing ==
    ASSUME Obliged, SmallSizes, TestInv, verdict = "timing", NEW id \in Ids
    PROVE  /\ \A size \in Sizes : TimeAlloc(id, size) \/ TimeRealloc(id, size) => TestInv'
           /\ TimeFree(id) => TestInv'
<1>1. PICK B : Serves(testHeap, B) /\ Owns(blocks, B)
  BY DEF TestInv, Passing
<1>2. ASSUME NEW size \in Sizes PROVE size \in Nat /\ 8 * Asize(size) <= IntMax
  BY ScriptAssumption, LayoutAssumption DEF SmallSizes
<1>3. ASSUME NEW size \in Sizes, TimeAlloc(id, size) PROVE TestInv'
  <2>1. PICK o \in MyMalloc(testHeap, size) : Timed(o, id, size, perf.cur_payload_size + size)
    BY <1>3 DEF TimeAlloc
  <2>2. Grants(testHeap, blocks, o, size)
    BY <1>1, <1>2, MallocGrants
  <2>. QED  BY <1>2, <2>1, <2>2, TimedPassing
<1>4. ASSUME NEW size \in Sizes, TimeRealloc(id, size) PROVE TestInv'
  <2>. DEFINE T == [blocks EXCEPT ![id] = NoBlock]
  <2>1. PICK o \in MyRealloc(testHeap, blocks[id].ptr, size) :
          Timed(o, id, size, perf.cur_payload_size + (size - blocks[id].size))
    BY <1>4 DEF TimeRealloc
  <2>2. Grants(testHeap, T, o, size)
    BY <1>1, <1>2, ReallocGrants
  <2>3. \A e : [T EXCEPT ![id] = e] = [blocks EXCEPT ![id] = e]
    <3>1. blocks = [i \in Ids |-> blocks[i]]
      BY <1>1 DEF Owns
    <3>. QED  BY <3>1
  <2>. HIDE DEF T
  <2>. QED  BY <1>2, <2>1, <2>2, <2>3, TimedPassing
<1>5. ASSUME TimeFree(id) PROVE TestInv'
  <2>. DEFINE k == MyFree(testHeap, blocks[id].ptr)
              U == [blocks EXCEPT ![id] = NoBlock]
  <2>1. testHeap' = k /\ blocks' = U /\ verdict' = "timing"
    BY <1>5 DEF TimeFree
  <2>2. PICK C : Serves(k, C) /\ Owns(U, C)
    BY <1>1, FreeCall
  <2>. HIDE DEF k, U
  <2>. QED  BY <2>1, <2>2 DEF TestInv, Passing, Serves, Faults
<1>. QED  BY <1>3, <1>4, <1>5

\* The beginnings and the ends of scripts.
LEMMA ScriptPassing ==
    ASSUME Obliged, TestInv, Start \/ StartTiming \/ Finish \/ FinishTiming
    PROVE  TestInv'
<1>1. PICK B : Stands(testHeap, B)
  BY DEF TestInv, Passing
<1>2. PICK T : T = [i \in Ids |-> NoBlock]
  OBVIOUS
<1>3. \A h, C : Owns(T, C) /\ \A i \in Ids : Intact(h, T, i)
  BY <1>2, EmptyTable
<1>4. CASE Start
  <2>1. PICK o \in MyInit(testHeap) : IF o.fate # "up" THEN Ends(o.heap, "init") ELSE Done(o.heap, T)
    BY <1>2, <1>4 DEF Start
  <2>2. o.fate = "up" /\ \E C : Serves(o.heap, C)
    BY <1>1, InitServes
  <2>. QED  BY <1>3, <2>1, <2>2, DonePassing
<1>5. CASE StartTiming
  <2>1. PICK o \in MyInit(testHeap) : testHeap' = o.heap
    BY <1>5 DEF StartTiming
  <2>2. blocks' = T /\ verdict' = "timing"
    BY <1>2, <1>5 DEF StartTiming
  <2>3. \E C : Serves(o.heap, C)
    BY <1>1, InitServes
  <2>. QED  BY <1>3, <2>1, <2>2, <2>3 DEF TestInv, Passing, Serves, Faults
<1>6. CASE Finish
  <2>1. \A i \in Ids : VerifyPayload(testHeap, blocks[i].ptr, blocks[i].size, i)
    BY <1>6 DEF Finish, TestInv, Passing, Intact
  <2>2. Ends(testHeap, "passed")
    BY <1>6, <2>1 DEF Finish
  <2>. QED  BY <1>1, <2>2, EndsPassing DEF Faults
<1>7. CASE FinishTiming
  BY <1>1, <1>7 DEF FinishTiming, TestInv, Passing, Faults
<1>. QED  BY <1>4, <1>5, <1>6, <1>7

LEMMA TestNextInv ==
    ASSUME Obliged, SmallSizes, TestInv, [TestNext]_testVars
    PROVE  TestInv'
<1>1. CASE UNCHANGED testVars
  BY <1>1 DEF testVars, TestInv
<1>2. CASE Start \/ StartTiming \/ Finish \/ FinishTiming
  BY <1>2, ScriptPassing
<1>3. ASSUME NEW id \in Ids, NEW size \in Sizes,
             EvalAlloc(id, size) \/ EvalRealloc(id, size) \/ TimeAlloc(id, size) \/ TimeRealloc(id, size)
      PROVE  TestInv'
  BY <1>3, AllocPassing, ReallocPassing, TimePassing DEF TimeAlloc, TimeRealloc
<1>4. ASSUME NEW id \in Ids, EvalFree(id) \/ TimeFree(id) PROVE TestInv'
  BY <1>4, FreePassing, TimePassing DEF TimeFree
<1>. QED  BY <1>1, <1>2, <1>3, <1>4 DEF TestNext

-----------------------------------------------------------------------------
\* The invariant of the harness.
THEOREM ScriptsInvariance ==
    ASSUME Obliged, SmallSizes
    PROVE  TestSpec => []TestInv
<1>1. TestInv /\ [TestNext]_testVars => TestInv'
  BY TestNextInv
<1>. QED  BY <1>1, TestInitInv, PTL DEF TestSpec

\* Whatever script it is given, of requests small enough for an int and on a
\* kernel that grants the segment, eval_correctness reports no block outside
\* the heap or over another and no byte that changed; and an invalid heap only
\* when a free block is larger than an int can count (check_freelist 497).
THEOREM OnlyLargeFail ==
    ASSUME Obliged, SmallSizes
    PROVE  TestSpec => []OnlyLargeBlocksFail
<1>1. TestInv => OnlyLargeBlocksFail
  BY DEF TestInv, Passing, OnlyLargeBlocksFail, Faults
<1>. QED  BY <1>1, ScriptsInvariance, PTL

-----------------------------------------------------------------------------
(***************************************************************************)
(* The utilization.                                                        *)
(***************************************************************************)
\* The bytes that blocks of the ids in s have in the table, each with its id.
Paid(T, s) == {p \in s \X Nat : 1 <= p[2] /\ p[2] <= T[p[1]].size}

\* What InUse folds: the sizes of a set of ids, one chosen after another.
Sums(T) == CHOOSE f : f = [s \in SUBSET Ids |->
             IF s = {} THEN 0 ELSE LET x == CHOOSE x \in s : TRUE IN T[x].size + f[s \ {x}]]

LEMMA InUseFolds ==
    ASSUME DOMAIN blocks = Ids
    PROVE  InUse = Sums(blocks)[Ids]
BY DEF InUse, FoldFunction, FoldFunctionOnSet, MapThenFoldSet, Sums

\* The table names sizes.
Sized(T) == T = [i \in Ids |-> T[i]] /\ \A i \in Ids : T[i].size \in Nat

\* One id pays its size.
LEMMA PaidOne ==
    ASSUME NEW T, Sized(T), NEW s \in SUBSET Ids, NEW i \in s, IsFiniteSet(Paid(T, s \ {i}))
    PROVE  /\ IsFiniteSet(Paid(T, s))
           /\ Cardinality(Paid(T, s)) = T[i].size + Cardinality(Paid(T, s \ {i}))
<1>. DEFINE n == T[i].size
            R == {p \in {i} \X Nat : 1 <= p[2] /\ p[2] <= n}
            f == [k \in 1 .. n |-> <<i, k>>]
<1>1. n \in Nat
  BY DEF Sized
<1>2. IsFiniteSet(1 .. n) /\ Cardinality(1 .. n) = n
  <2>. HIDE DEF n
  <2>. QED  BY <1>1, FS_Interval
<1>3. f \in [1 .. n -> R] /\ \A j, k \in 1 .. n : f[j] = f[k] => j = k
  BY <1>1
<1>4. \A p \in R : \E k \in 1 .. n : f[k] = p
  <2>. SUFFICES ASSUME NEW p \in R PROVE \E k \in 1 .. n : f[k] = p
    OBVIOUS
  <2>1. p[2] \in 1 .. n /\ p = <<i, p[2]>>
    BY <1>1
  <2>. QED  BY <2>1
<1>5. IsFiniteSet(R) /\ Cardinality(R) = n
  <2>. HIDE DEF f, R, n
  <2>. QED  BY <1>2, <1>3, <1>4, SameNumber
<1>6. Paid(T, s) = Paid(T, s \ {i}) \cup R /\ Paid(T, s \ {i}) \cap R = {}
  BY DEF Paid
<1>7. Cardinality(Paid(T, s \ {i})) \in Nat
  BY FS_CardinalityType
<1>8. /\ IsFiniteSet(Paid(T, s \ {i}) \cup R)
      /\ Cardinality(Paid(T, s \ {i}) \cup R)
           = Cardinality(Paid(T, s \ {i})) + Cardinality(R) - Cardinality(Paid(T, s \ {i}) \cap R)
  <2>1. PICK A : A = Paid(T, s \ {i}) /\ IsFiniteSet(A)
    OBVIOUS
  <2>. HIDE DEF R
  <2>2. IsFiniteSet(A \cup R) /\ Cardinality(A \cup R) = Cardinality(A) + Cardinality(R) - Cardinality(A \cap R)
    BY <1>5, <2>1, FS_Union
  <2>. QED  BY <2>1, <2>2
<1>9. Cardinality(Paid(T, s \ {i}) \cap R) = 0
  BY <1>6, FS_EmptySet
<1>. HIDE DEF R, n
<1>. QED  BY <1>1, <1>5, <1>6, <1>7, <1>8, <1>9 DEF n

\* A table of finitely many ids pays finitely many bytes.
LEMMA PaidFinite ==
    ASSUME NEW T, Sized(T)
    PROVE  \A s \in SUBSET Ids : IsFiniteSet(Paid(T, s)) /\ Cardinality(Paid(T, s)) \in Nat
<1>. DEFINE Q == {s \in SUBSET Ids : IsFiniteSet(Paid(T, s))}
<1>1. Paid(T, {}) = {}
  BY DEF Paid
<1>2. {} \in Q
  BY <1>1, FS_EmptySet
<1>3. ASSUME NEW s \in SUBSET Ids, s # {}, \A i \in s : s \ {i} \in Q PROVE s \in Q
  BY <1>3, PaidOne
<1>4. SUBSET Ids \subseteq Q
  <2>. HIDE DEF Q
  <2>. QED  BY <1>2, <1>3, ScriptAssumption, FiniteSubsets
<1>. QED  BY <1>4, FS_CardinalityType

\* The fold counts the bytes paid.
LEMMA SumsCount ==
    ASSUME NEW T, Sized(T)
    PROVE  Sums(T)[Ids] = Cardinality(Paid(T, Ids))
<1>. DEFINE D(f) == [s \in SUBSET Ids |->
                       IF s = {} THEN 0 ELSE LET x == CHOOSE x \in s : TRUE IN T[x].size + f[s \ {x}]]
            w == [s \in SUBSET Ids |-> Cardinality(Paid(T, s))]
            sums == CHOOSE f : f = D(f)
<1>1. w = D(w)
  <2>1. ASSUME NEW s \in SUBSET Ids, s = {} PROVE w[s] = D(w)[s]
    <3>1. Paid(T, {}) = {}
      BY DEF Paid
    <3>. QED  BY <2>1, <3>1, FS_EmptySet
  <2>2. ASSUME NEW s \in SUBSET Ids, s # {} PROVE w[s] = D(w)[s]
    <3>1. PICK x : x = CHOOSE y \in s : TRUE
      OBVIOUS
    <3>2. x \in s /\ s \ {x} \in SUBSET Ids
      BY <2>2, <3>1
    <3>3. Cardinality(Paid(T, s)) = T[x].size + Cardinality(Paid(T, s \ {x}))
      BY <3>2, PaidOne, PaidFinite
    <3>4. D(w)[s] = T[x].size + w[s \ {x}]
      BY <2>2, <3>1
    <3>. QED  BY <3>2, <3>3, <3>4
  <2>3. w = [s \in SUBSET Ids |-> w[s]] /\ D(w) = [s \in SUBSET Ids |-> D(w)[s]]
    OBVIOUS
  <2>. HIDE DEF w, D
  <2>4. \A s \in SUBSET Ids : w[s] = D(w)[s]
    BY <2>1, <2>2
  <2>. QED  BY <2>3, <2>4
<1>2. sums = D(sums)
  <2>. HIDE DEF w, D
  <2>. QED  BY <1>1
<1>3. Sums(T) = sums
  BY DEF Sums
<1>. HIDE DEF sums
<1>. DEFINE Q == {s \in SUBSET Ids : sums[s] = Cardinality(Paid(T, s))}
<1>4. {} \in Q
  <2>1. Paid(T, {}) = {} /\ D(sums)[{}] = 0
    BY DEF Paid
  <2>. HIDE DEF D
  <2>. QED  BY <1>2, <2>1, FS_EmptySet
<1>5. ASSUME NEW s \in SUBSET Ids, s # {}, \A i \in s : s \ {i} \in Q PROVE s \in Q
  <2>1. PICK x : x = CHOOSE y \in s : TRUE
    OBVIOUS
  <2>2. x \in s
    BY <1>5, <2>1
  <2>3. D(sums)[s] = T[x].size + sums[s \ {x}]
    BY <1>5, <2>1
  <2>4. Cardinality(Paid(T, s)) = T[x].size + Cardinality(Paid(T, s \ {x}))
    BY <2>2, PaidOne, PaidFinite
  <2>5. sums[s \ {x}] = Cardinality(Paid(T, s \ {x}))
    BY <1>5, <2>2
  <2>. HIDE DEF D
  <2>. QED  BY <1>2, <2>3, <2>4, <2>5
<1>6. SUBSET Ids \subseteq Q
  <2>. HIDE DEF Q
  <2>. QED  BY <1>4, <1>5, ScriptAssumption, FiniteSubsets
<1>. QED  BY <1>3, <1>6

\* The bytes that the blocks of a table have.
Used(T) == Cardinality(Paid(T, Ids))

LEMMA InUseIs == Sized(blocks) => InUse = Used(blocks)
<1>. SUFFICES ASSUME Sized(blocks) PROVE InUse = Used(blocks)
  OBVIOUS
<1>1. DOMAIN blocks = Ids
  BY DEF Sized
<1>. QED  BY <1>1, InUseFolds, SumsCount DEF Used

\* A table with one entry changed.
LEMMA UsedChanged ==
    ASSUME NEW T, Sized(T), NEW id \in Ids, NEW e, e.size \in Nat
    PROVE  LET U == [T EXCEPT ![id] = e]
           IN  /\ Sized(U) /\ Used(T) \in Nat /\ Used(U) \in Nat
               /\ Used(U) = Used(T) - T[id].size + e.size
<1>. DEFINE U == [T EXCEPT ![id] = e]
<1>1. Sized(U) /\ U[id] = e /\ \A i \in Ids \ {id} : U[i] = T[i]
  BY DEF Sized
<1>. HIDE DEF U
<1>2. Paid(U, Ids \ {id}) = Paid(T, Ids \ {id})
  BY <1>1 DEF Paid
<1>3. /\ Ids \in SUBSET Ids /\ Ids \ {id} \in SUBSET Ids
      /\ IsFiniteSet(Paid(T, Ids \ {id})) /\ IsFiniteSet(Paid(U, Ids \ {id}))
  BY <1>1, PaidFinite
<1>4. /\ Cardinality(Paid(T, Ids)) = T[id].size + Cardinality(Paid(T, Ids \ {id}))
      /\ Cardinality(Paid(U, Ids)) = U[id].size + Cardinality(Paid(U, Ids \ {id}))
  BY <1>1, <1>3, PaidOne
<1>5. /\ Cardinality(Paid(T, Ids)) \in Nat /\ Cardinality(Paid(U, Ids)) \in Nat
      /\ Cardinality(Paid(T, Ids \ {id})) \in Nat /\ T[id].size \in Nat
  BY <1>1, <1>3, PaidFinite DEF Sized
<1>6. Used(U) = Used(T) - T[id].size + e.size
  BY <1>1, <1>2, <1>4, <1>5 DEF Used
<1>. QED  BY <1>1, <1>5, <1>6 DEF U, Used

\* The bytes of a segment.
Capacity(pages) == 8 * PageWords * pages

LEMMA CapacityGrows ==
    ASSUME NEW m \in Nat, NEW n \in Nat, m <= n
    PROVE  Capacity(m) \in Nat /\ Capacity(n) \in Nat /\ Capacity(m) <= Capacity(n)
<1>1. PICK k \in Nat : k = 8 * PageWords
  BY LayoutAssumption
<1>2. m * k <= n * k
  BY TimesMonotone
<1>. QED  BY <1>1, <1>2 DEF Capacity

\* Blocks that share no word have no more bytes than the segment.
LEMMA UsedFits ==
    ASSUME NEW h, NEW B, Serves(h, B), NEW T, Owns(T, B)
    PROVE  Sized(T) /\ h.seg.size \in Nat /\ Used(T) <= Capacity(h.seg.size)
<1>1. h.seg.size \in Nat
  BY ViewFields DEF Serves, Stands, H!Anchored, Tells, WordHeap
<1>2. PICK N \in Nat : N = Capacity(h.seg.size)
  BY <1>1, CapacityGrows
<1>3. ASSUME NEW i \in Ids, T[i] # NoBlock
      PROVE  \E b \in B : /\ b.alloc /\ T[i].ptr = b.at + 1 /\ T[i].size = b.want
                          /\ b.at \in Nat /\ b.size \in Nat /\ b.want \in Nat
                          /\ b.want <= 8 * b.size /\ 8 * (b.at + 1) + b.want <= N
  <2>1. PICK b \in B : b.alloc /\ T[i] = Entry(b)
    BY <1>3 DEF Owns
  <2>. QED  BY <1>2, <2>1, BlockBytes DEF Entry, Capacity
<1>4. ASSUME NEW i \in Ids, T[i] = NoBlock PROVE T[i].ptr = NULL /\ T[i].size = 0
  BY <1>4 DEF NoBlock
<1>5. Sized(T)
  <2>1. \A i \in Ids : T[i].size \in Nat
    BY <1>3, <1>4
  <2>. QED  BY <2>1 DEF Owns, Sized
<1>. DEFINE S == Paid(T, Ids)
            place(p) == 8 * T[p[1]].ptr + p[2] - 1
            f == [p \in S |-> place(p)]
<1>6. ASSUME NEW p \in S
      PROVE  /\ p[1] \in Ids /\ p[2] \in Nat /\ 1 <= p[2] /\ p[2] <= T[p[1]].size /\ p = <<p[1], p[2]>>
             /\ T[p[1]] # NoBlock
  <2>1. p[1] \in Ids /\ p[2] \in Nat /\ 1 <= p[2] /\ p[2] <= T[p[1]].size /\ p = <<p[1], p[2]>>
    BY DEF Paid
  <2>. QED  BY <1>4, <2>1
<1>. HIDE DEF S
<1>7. ASSUME NEW p \in S PROVE place(p) \in 0 .. N - 1
  <2>1. PICK b \in B : /\ T[p[1]].ptr = b.at + 1 /\ T[p[1]].size = b.want
                       /\ b.at \in Nat /\ b.want \in Nat /\ 8 * (b.at + 1) + b.want <= N
    BY <1>3, <1>6
  <2>2. p[2] \in Nat /\ 1 <= p[2] /\ p[2] <= b.want
    BY <1>6, <2>1
  <2>. QED  BY <2>1, <2>2
<1>8. ASSUME NEW p \in S, NEW q \in S, place(p) = place(q) PROVE p = q
  <2>1. p[2] \in Nat /\ 1 <= p[2] /\ q[2] \in Nat /\ 1 <= q[2]
    BY <1>6
  <2>2. PICK b \in B : /\ b.alloc /\ T[p[1]].ptr = b.at + 1 /\ b.at \in Nat /\ b.size \in Nat
                       /\ p[2] <= 8 * b.size
    <3>1. PICK b \in B : /\ T[p[1]].ptr = b.at + 1 /\ T[p[1]].size = b.want /\ b.alloc
                         /\ b.at \in Nat /\ b.size \in Nat /\ b.want \in Nat /\ b.want <= 8 * b.size
      BY <1>3, <1>6
    <3>2. p[2] <= b.want
      BY <1>6, <3>1
    <3>. QED  BY <2>1, <3>1, <3>2
  <2>3. PICK c \in B : /\ c.alloc /\ T[q[1]].ptr = c.at + 1 /\ c.at \in Nat /\ c.size \in Nat
                       /\ q[2] <= 8 * c.size
    <3>1. PICK c \in B : /\ T[q[1]].ptr = c.at + 1 /\ T[q[1]].size = c.want /\ c.alloc
                         /\ c.at \in Nat /\ c.size \in Nat /\ c.want \in Nat /\ c.want <= 8 * c.size
      BY <1>3, <1>6
    <3>2. q[2] <= c.want
      BY <1>6, <3>1
    <3>. QED  BY <2>1, <3>1, <3>2
  <2>4. 8 * (b.at + 1) + p[2] - 1 = 8 * (c.at + 1) + q[2] - 1
    BY <1>8, <2>2, <2>3
  <2>5. b = c
    <3>. SUFFICES ASSUME b # c PROVE FALSE
      OBVIOUS
    <3>1. b.at + b.size + 2 <= c.at \/ c.at + c.size + 2 <= b.at
      <4>1. Clear(b, c)
        BY BlocksClear
      <4>. QED  BY <2>2, <2>3, <4>1 DEF Clear, Stop
    <3>. QED  BY <2>1, <2>2, <2>3, <2>4, <3>1
  <2>6. p[1] = q[1]
    <3>1. T[p[1]].ptr = T[q[1]].ptr /\ T[p[1]].ptr # NULL
      BY <2>2, <2>3, <2>5 DEF NULL
    <3>. QED  BY <1>6, <3>1 DEF Owns
  <2>7. p[2] = q[2]
    BY <2>1, <2>2, <2>4, <2>5
  <2>. QED  BY <1>6, <2>6, <2>7
<1>9. f \in [S -> 0 .. N - 1] /\ \A p, q \in S : f[p] = f[q] => p = q
  <2>. HIDE DEF place
  <2>. QED  BY <1>7, <1>8
<1>10. IsFiniteSet(0 .. N - 1) /\ Cardinality(0 .. N - 1) = N
  <2>1. N - 1 \in Int /\ (0 > N - 1 => N = 0) /\ (N - 1) - 0 + 1 = N
    OBVIOUS
  <2>2. PICK z : z = N - 1
    OBVIOUS
  <2>3. IsFiniteSet(0 .. z) /\ Cardinality(0 .. z) = IF 0 > z THEN 0 ELSE z - 0 + 1
    BY <2>1, <2>2, FS_Interval
  <2>. QED  BY <2>1, <2>2, <2>3
<1>11. Cardinality(S) <= N
  <2>1. f \in Injection(S, 0 .. N - 1)
    <3>. HIDE DEF f
    <3>. QED  BY <1>9 DEF Injection, IsInjective
  <2>. HIDE DEF f
  <2>. QED  BY <1>10, <2>1, FS_Injection
<1>. QED  BY <1>1, <1>2, <1>5, <1>11 DEF S, Used

\* What eval_performance keeps, of the table T and a segment of that many
\* pages: it counts no byte less than is used, and as long as it counts none
\* more, its peak fits the segment.
Accounted(T, p, pages) ==
    /\ p \in [cur_payload_size : Int, peak_payload_size : Int, max_segment_size : Int]
    /\ p.cur_payload_size >= Used(T)
    /\ p = NoPerf \/ p.max_segment_size = pages
    /\ p.cur_payload_size = Used(T) => p.peak_payload_size <= Capacity(pages)

\* One request, after which the segment has n pages.
LEMMA PeakedAccounted ==
    ASSUME NEW T, Sized(T), NEW m \in Nat, Accounted(T, perf, m), NEW n \in Nat, m <= n,
           NEW id \in Ids, NEW e, e.size \in Nat, NEW payload \in Int,
           payload >= perf.cur_payload_size - T[id].size + e.size,
           Used([T EXCEPT ![id] = e]) <= Capacity(n)
    PROVE  Accounted([T EXCEPT ![id] = e], Peaked(payload, n), n)
<1>1. PICK U : U = [T EXCEPT ![id] = e]
  OBVIOUS
<1>2. /\ Used(T) \in Nat /\ Used(U) \in Nat /\ Used(U) = Used(T) - T[id].size + e.size
      /\ Used(U) <= Capacity(n) /\ T[id].size \in Nat
  BY <1>1, UsedChanged DEF Sized
<1>3. Capacity(m) \in Nat /\ Capacity(n) \in Nat /\ Capacity(m) <= Capacity(n)
  BY CapacityGrows
<1>4. /\ perf \in [cur_payload_size : Int, peak_payload_size : Int, max_segment_size : Int]
      /\ perf.cur_payload_size >= Used(T)
      /\ perf = NoPerf \/ perf.max_segment_size = m
      /\ perf.cur_payload_size = Used(T) => perf.peak_payload_size <= Capacity(m)
  BY DEF Accounted
<1>5. payload >= Used(U) /\ (payload = Used(U) => perf.cur_payload_size = Used(T))
  BY <1>2, <1>4
<1>6. CASE n > perf.max_segment_size \/ payload > perf.peak_payload_size
  <2>1. Peaked(payload, n)
          = [cur_payload_size |-> payload, peak_payload_size |-> payload, max_segment_size |-> n]
    BY <1>6 DEF Peaked
  <2>. QED  BY <1>1, <1>2, <1>5, <2>1 DEF Accounted
<1>7. CASE ~(n > perf.max_segment_size \/ payload > perf.peak_payload_size)
  <2>1. PICK p : p = Peaked(payload, n) /\ p = [perf EXCEPT !.cur_payload_size = payload]
    BY <1>7 DEF Peaked
  <2>2. /\ p \in [cur_payload_size : Int, peak_payload_size : Int, max_segment_size : Int]
        /\ p.cur_payload_size = payload /\ p.peak_payload_size = perf.peak_payload_size
        /\ p.max_segment_size = perf.max_segment_size
    BY <1>4, <2>1
  <2>3. p.max_segment_size = n
    BY <1>4, <1>7, <2>2 DEF NoPerf
  <2>4. payload = Used(U) => p.peak_payload_size <= Capacity(n)
    BY <1>3, <1>4, <1>5, <2>2
  <2>5. Accounted(U, p, n)
    BY <1>5, <2>2, <2>3, <2>4 DEF Accounted
  <2>. QED  BY <1>1, <2>1, <2>5
<1>. QED  BY <1>6, <1>7

UtilInv == verdict \in {"timing", "timed"} =>
             Sized(blocks) /\ Accounted(blocks, perf, testHeap.seg.size)

\* No call comes to an end that is called like a phase of timing.
LEMMA GrantUntimed ==
    ASSUME NEW h, NEW T, NEW o, NEW size, Grants(h, T, o, size),
           NEW why, Ends(o.heap, why), why \in {o.fate, "malloc_null", "realloc_null", "null_write"}
    PROVE  UtilInv'
<1>1. why \notin {"timing", "timed"}
  BY DEF Grants, Fates, H!Crashes
<1>. QED  BY <1>1 DEF Ends, UtilInv

\* A request that is timed.
LEMMA TimedAccounted ==
    ASSUME TestInv, TestInv', UtilInv, verdict = "timing", NEW T, NEW o, NEW id \in Ids, NEW size \in Nat,
           Grants(testHeap, T, o, size), NEW payload \in Int,
           payload >= perf.cur_payload_size - blocks[id].size + size, Timed(o, id, size, payload)
    PROVE  UtilInv'
<1>1. CASE o.fate # "up"
  BY <1>1, GrantUntimed DEF Timed
<1>2. CASE o.fate = "up" /\ o.ptr = NULL /\ size # 0
  BY <1>2, GrantUntimed DEF Timed
<1>3. CASE o.fate = "up" /\ (o.ptr = NULL => size = 0)
  <2>. DEFINE e == [ptr |-> o.ptr, size |-> size]
  <2>1. /\ testHeap' = Memset(o.heap, o.ptr, Mark, size) /\ blocks' = [blocks EXCEPT ![id] = e]
        /\ perf' = Peaked(payload, o.heap.seg.size) /\ verdict' = "timing"
    BY <1>3 DEF Timed
  <2>2. PICK C : Serves(o.heap, C) /\ Owns(T, C) /\ testHeap.seg.size <= o.heap.seg.size
    BY <1>3 DEF Grants
  <2>3. testHeap'.seg = o.heap.seg
    <3>1. o.heap = [o.heap EXCEPT !.mem = @] /\ \A k : [o.heap EXCEPT !.mem = k].seg = o.heap.seg
      BY <2>2 DEF Serves, Stands, Tells, WordHeap
    <3>. QED  BY <2>1, <3>1 DEF Memset
  <2>4. PICK D : Serves(testHeap', D) /\ Owns(blocks', D)
    BY <2>1 DEF TestInv, Passing
  <2>5. Sized(blocks') /\ testHeap'.seg.size \in Nat /\ Used(blocks') <= Capacity(testHeap'.seg.size)
    BY <2>4, UsedFits
  <2>6. PICK A : Serves(testHeap, A)
    BY DEF TestInv, Passing
  <2>7. testHeap.seg.size \in Nat
    BY <2>6, ViewFields DEF Serves, Stands, H!Anchored, Tells, WordHeap
  <2>8. Sized(blocks) /\ Accounted(blocks, perf, testHeap.seg.size)
    BY DEF UtilInv
  <2>9. e.size = size
    OBVIOUS
  <2>. HIDE DEF e
  <2>10. Accounted(blocks', perf', testHeap'.seg.size)
    BY <2>1, <2>2, <2>3, <2>5, <2>7, <2>8, <2>9, PeakedAccounted
  <2>. QED  BY <2>1, <2>5, <2>10 DEF UtilInv
<1>. QED  BY <1>1, <1>2, <1>3

LEMMA TimeAccounted ==
    ASSUME Obliged, SmallSizes, TestInv, TestInv', UtilInv, verdict = "timing", NEW id \in Ids
    PROVE  /\ \A size \in Sizes : TimeAlloc(id, size) \/ TimeRealloc(id, size) => UtilInv'
           /\ TimeFree(id) => UtilInv'
<1>1. PICK B : Serves(testHeap, B) /\ Owns(blocks, B)
  BY DEF TestInv, Passing
<1>2. ASSUME NEW size \in Sizes PROVE size \in Nat /\ 8 * Asize(size) <= IntMax
  BY ScriptAssumption, LayoutAssumption DEF SmallSizes
<1>3. /\ Sized(blocks) /\ Accounted(blocks, perf, testHeap.seg.size)
      /\ blocks[id].size \in Nat /\ perf.cur_payload_size \in Int
  BY DEF UtilInv, Sized, Accounted
<1>4. ASSUME NEW size \in Sizes, TimeAlloc(id, size) PROVE UtilInv'
  <2>1. PICK o \in MyMalloc(testHeap, size) : Timed(o, id, size, perf.cur_payload_size + size)
    BY <1>4 DEF TimeAlloc
  <2>2. Grants(testHeap, blocks, o, size)
    BY <1>1, <1>2, MallocGrants
  <2>3. /\ perf.cur_payload_size + size \in Int
        /\ perf.cur_payload_size + size >= perf.cur_payload_size - blocks[id].size + size
    BY <1>2, <1>3
  <2>. QED  BY <1>2, <2>1, <2>2, <2>3, TimedAccounted
<1>5. ASSUME NEW size \in Sizes, TimeRealloc(id, size) PROVE UtilInv'
  <2>1. PICK o \in MyRealloc(testHeap, blocks[id].ptr, size) :
          Timed(o, id, size, perf.cur_payload_size + (size - blocks[id].size))
    BY <1>5 DEF TimeRealloc
  <2>2. Grants(testHeap, [blocks EXCEPT ![id] = NoBlock], o, size)
    BY <1>1, <1>2, ReallocGrants
  <2>3. /\ perf.cur_payload_size + (size - blocks[id].size) \in Int
        /\ perf.cur_payload_size + (size - blocks[id].size) >= perf.cur_payload_size - blocks[id].size + size
    BY <1>2, <1>3
  <2>. QED  BY <1>2, <2>1, <2>2, <2>3, TimedAccounted
<1>6. ASSUME TimeFree(id) PROVE UtilInv'
  <2>1. /\ testHeap' = MyFree(testHeap, blocks[id].ptr) /\ blocks' = [blocks EXCEPT ![id] = NoBlock]
        /\ perf' = Peaked(perf.cur_payload_size - blocks[id].size, testHeap.seg.size)
        /\ verdict' = "timing"
    BY <1>6 DEF TimeFree
  <2>2. PICK C : Serves(testHeap', C) /\ Owns(blocks', C) /\ testHeap'.seg = testHeap.seg
    BY <1>1, <2>1, FreeCall
  <2>3. Sized(blocks') /\ testHeap.seg.size \in Nat /\ Used(blocks') <= Capacity(testHeap.seg.size)
    BY <2>2, UsedFits
  <2>4. NoBlock.size = 0
    BY DEF NoBlock
  <2>5. /\ perf.cur_payload_size - blocks[id].size \in Int
        /\ perf.cur_payload_size - blocks[id].size >= perf.cur_payload_size - blocks[id].size + NoBlock.size
        /\ NoBlock.size \in Nat
    BY <1>3, <2>4
  <2>6. PICK n, payload :
          n = testHeap.seg.size /\ payload = perf.cur_payload_size - blocks[id].size
    OBVIOUS
  <2>7. /\ n \in Nat /\ n <= n /\ Accounted(blocks, perf, n) /\ payload \in Int
        /\ payload >= perf.cur_payload_size - blocks[id].size + NoBlock.size
        /\ Used([blocks EXCEPT ![id] = NoBlock]) <= Capacity(n)
    <3>1. n \in Nat
      BY <2>3, <2>6
    <3>. QED  BY <1>3, <2>1, <2>3, <2>5, <2>6, <3>1
  <2>8. Accounted([blocks EXCEPT ![id] = NoBlock], Peaked(payload, n), n)
    BY <1>3, <2>5, <2>7, PeakedAccounted
  <2>. QED  BY <2>1, <2>2, <2>3, <2>6, <2>8 DEF UtilInv
<1>. QED  BY <1>4, <1>5, <1>6

\* The steps that only eval_correctness takes.
LEMMA UntimedSteps ==
    ASSUME Obliged, SmallSizes, TestInv, NEW id \in Ids
    PROVE  /\ \A size \in Sizes : EvalAlloc(id, size) \/ EvalRealloc(id, size) => UtilInv'
           /\ EvalFree(id) => UtilInv'
<1>1. \A h, why : Ends(h, why) /\ why \notin {"timing", "timed"} => UtilInv'
  BY DEF Ends, UtilInv
<1>2. \A h, table : Done(h, table) => UtilInv'
  BY DEF Done, UtilInv
<1>3. ASSUME NEW size \in Sizes, verdict = "running"
      PROVE  /\ \A o \in MyMalloc(testHeap, size) : o.fate \notin {"timing", "timed"}
             /\ \A o \in MyRealloc(testHeap, blocks[id].ptr, size) : o.fate \notin {"timing", "timed"}
  <2>1. PICK B : Serves(testHeap, B) /\ Owns(blocks, B)
    BY <1>3 DEF TestInv, Passing
  <2>2. size \in Nat /\ 8 * Asize(size) <= IntMax
    BY ScriptAssumption, LayoutAssumption DEF SmallSizes
  <2>3. \A h, T, o : Grants(h, T, o, size) => o.fate \notin {"timing", "timed"}
    BY DEF Grants, Fates, H!Crashes
  <2>. QED  BY <2>1, <2>2, <2>3, MallocGrants, ReallocGrants
<1>4. ASSUME NEW size \in Sizes, EvalAlloc(id, size) PROVE UtilInv'
  BY <1>1, <1>2, <1>3, <1>4 DEF EvalAlloc
<1>5. ASSUME NEW size \in Sizes, EvalRealloc(id, size) PROVE UtilInv'
  <2>1. verdict = "running"
    BY <1>5 DEF EvalRealloc
  <2>2. CASE ~VerifyPayload(testHeap, blocks[id].ptr, blocks[id].size, id)
    BY <1>1, <1>5, <2>2 DEF EvalRealloc
  <2>3. CASE VerifyPayload(testHeap, blocks[id].ptr, blocks[id].size, id)
    <3>1. PICK o \in MyRealloc(testHeap, blocks[id].ptr, size) :
            \/ o.fate # "up" /\ Ends(o.heap, o.fate)
            \/ \E why \in {"realloc_null", "bad_block", "lost_data"} : Ends(o.heap, why)
            \/ \E h, table : Done(h, table)
      BY <1>5, <2>3 DEF EvalRealloc
    <3>2. o.fate \notin {"timing", "timed"}
      BY <1>3, <2>1
    <3>. QED  BY <1>1, <1>2, <3>1, <3>2
  <2>. QED  BY <2>2, <2>3
<1>6. ASSUME EvalFree(id) PROVE UtilInv'
  BY <1>1, <1>2, <1>6 DEF EvalFree
<1>. QED  BY <1>4, <1>5, <1>6

LEMMA UntimedEnds == Start \/ Finish => UtilInv'
<1>1. \A h, why : Ends(h, why) /\ why \notin {"timing", "timed"} => UtilInv'
  BY DEF Ends, UtilInv
<1>2. \A h, table : Done(h, table) => UtilInv'
  BY DEF Done, UtilInv
<1>3. ASSUME Start PROVE UtilInv'
  BY <1>1, <1>2, <1>3 DEF Start
<1>4. ASSUME Finish PROVE UtilInv'
  BY <1>1, <1>4 DEF Finish
<1>. QED  BY <1>3, <1>4

\* A run of eval_performance begins with nothing in use.
LEMMA TimingStarts ==
    ASSUME TestInv', StartTiming
    PROVE  UtilInv'
<1>1. PICK T : T = [i \in Ids |-> NoBlock]
  OBVIOUS
<1>2. blocks' = T /\ perf' = NoPerf /\ verdict' = "timing"
  BY <1>1 DEF StartTiming
<1>3. Sized(T) /\ Paid(T, Ids) = {}
  BY <1>1 DEF Sized, Paid, NoBlock
<1>4. Used(T) = 0
  BY <1>3, FS_EmptySet DEF Used
<1>5. Capacity(testHeap'.seg.size) \in Nat
  <2>1. PICK D : Serves(testHeap', D)
    BY <1>2 DEF TestInv, Passing
  <2>2. testHeap'.seg.size \in Nat
    BY <2>1, ViewFields DEF Serves, Stands, H!Anchored, Tells, WordHeap
  <2>. QED  BY <2>2, CapacityGrows
<1>. QED  BY <1>2, <1>3, <1>4, <1>5 DEF UtilInv, Accounted, NoPerf

LEMMA TestNextUtil ==
    ASSUME Obliged, SmallSizes, TestInv, TestInv', UtilInv, [TestNext]_testVars
    PROVE  UtilInv'
<1>1. CASE UNCHANGED testVars
  BY <1>1 DEF testVars, UtilInv
<1>2. CASE StartTiming
  BY <1>2, TimingStarts
<1>3. CASE FinishTiming
  BY <1>3 DEF FinishTiming, UtilInv
<1>4. CASE Start \/ Finish
  BY <1>4, UntimedEnds
<1>5. ASSUME NEW id \in Ids, NEW size \in Sizes,
             EvalAlloc(id, size) \/ EvalRealloc(id, size) \/ TimeAlloc(id, size) \/ TimeRealloc(id, size)
      PROVE  UtilInv'
  <2>1. CASE EvalAlloc(id, size) \/ EvalRealloc(id, size)
    BY <2>1, UntimedSteps
  <2>2. CASE TimeAlloc(id, size) \/ TimeRealloc(id, size)
    <3>1. verdict = "timing"
      BY <2>2 DEF TimeAlloc, TimeRealloc
    <3>. QED  BY <2>2, <3>1, TimeAccounted
  <2>. QED  BY <1>5, <2>1, <2>2
<1>6. ASSUME NEW id \in Ids, EvalFree(id) \/ TimeFree(id) PROVE UtilInv'
  BY <1>6, UntimedSteps, TimeAccounted DEF TimeFree
<1>. QED  BY <1>1, <1>2, <1>3, <1>4, <1>5, <1>6 DEF TestNext

\* The payload that eval_performance counts is never less than the blocks in
\* use have, and as long as it is no more, the peak that the utilization is
\* computed from fits the segment (eval_performance 368-414): blocks share no
\* byte and lie in the segment, which only grows while a script is timed.
THEOREM UtilizationHolds ==
    ASSUME Obliged, SmallSizes
    PROVE  TestSpec => []UtilizationSound
<1>1. TestInit => UtilInv
  BY DEF TestInit, UtilInv
<1>2. TestInv /\ UtilInv /\ [TestNext]_testVars => TestInv' /\ UtilInv'
  BY TestNextInv, TestNextUtil
<1>3. ASSUME UtilInv PROVE UtilizationSound
  <2>. SUFFICES ASSUME verdict \in {"timing", "timed"}
       PROVE  /\ perf.cur_payload_size >= InUse
              /\ perf = NoPerf \/ perf.max_segment_size = testHeap.seg.size
              /\ perf.cur_payload_size = InUse =>
                   perf.peak_payload_size <= 8 * PageWords * testHeap.seg.size
    BY DEF UtilizationSound
  <2>1. Sized(blocks) /\ Accounted(blocks, perf, testHeap.seg.size)
    BY <1>3 DEF UtilInv
  <2>. QED  BY <2>1, InUseIs DEF Accounted, Capacity
<1>. QED  BY <1>1, <1>2, <1>3, TestInitInv, PTL DEF TestSpec
=============================================================================
