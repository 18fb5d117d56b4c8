---------------------------- MODULE PartsProofs -----------------------------
(***************************************************************************)
(* The parts and programs that stand by themselves: what SegmentSpec,      *)
(* below the allocator, guarantees for every size of the reserved range    *)
(* and every sequence of increments, whatever the kernel refuses; that     *)
(* verify_block of alloctest, above it, judges every placement rightly,    *)
(* and its parser reads every script exactly; that simple.c's list owns    *)
(* every live block; what fcyc.c's timer guarantees for every range of the *)
(* counter, every kbest, limit and epsilon, and any running times; that    *)
(* mywhich.c finds every name in the first directory that has it; that the *)
(* bit puzzles are right for every width; and that thesaurus.c answers     *)
(* every word with the last line that it heads.                            *)
(***************************************************************************)
EXTENDS SegmentSpec, VerifyCalls, Script, Simple, Fcyc, Bits, MyWhich, Thesaurus, NumberFacts,
        SequenceTheorems

(***************************************************************************)
(* The segment                                                             *)
(***************************************************************************)
\* A segment whose open pages lie within its size, and whose size lies within
\* the reserved range.
Sound(s) == /\ s \in Segments
            /\ s.rw \subseteq 0 .. (s.size - 1)
            /\ s.size <= MaxPages

IInv == Sound(seg) /\ ret \in Nat \cup {NoPage}

\* The fields of a segment.
LEMMA SegmentFields ==
    ASSUME NEW s \in Segments
    PROVE  /\ s.start \in {"null", "map_failed", "hint", "elsewhere"}
           /\ s.size \in Nat /\ s.rw \in SUBSET Nat
BY DEF Segments

\* extend_heap_segment: a sound segment stays sound and loses no page; the
\* pages it reports are new and open.
LEMMA ExtendSound ==
    ASSUME NEW s, Sound(s), NEW n \in Nat, NEW o \in ExtendHeapSegment(s, n)
    PROVE  /\ Sound(o.seg) /\ s.rw \subseteq o.seg.rw
           /\ \/ o.ret = NoPage
              \/ /\ o.ret = s.size
                 /\ o.ret .. (o.ret + n - 1) \subseteq o.seg.rw
<1>. MaxPages \in Nat /\ s \in Segments /\ s.size \in Nat /\ s.rw \in SUBSET Nat
  BY SegmentFields, SegmentAssumption DEF Sound
<1>1. CASE o = SegOutcome(s, NoPage)
  BY <1>1 DEF SegOutcome
<1>2. CASE n = 0 /\ o = SegOutcome(s, s.size)
  BY <1>2 DEF SegOutcome
<1>3. CASE s.size + n <= MaxPages /\ o \in Extended(s, n)
  <2>. DEFINE grown == Enlarged(s, n)
              opened == Opened(grown, s.size)
  <2>1. grown \in Segments /\ grown.size = s.size + n /\ grown.rw = s.rw
    BY DEF Enlarged, Segments
  <2>. HIDE DEF grown
  <2>2. /\ opened \in Segments /\ opened.size = s.size + n
        /\ opened.rw = s.rw \cup s.size .. (s.size + n - 1)
    <3>1. s.size .. (grown.size - 1) \in SUBSET Nat
      BY <2>1
    <3>. QED  BY <2>1, <3>1 DEF Opened, Segments
  <2>. HIDE DEF opened
  <2>3. o = SegOutcome(opened, s.size) \/ o = SegOutcome(grown, NoPage)
    BY <1>3 DEF Extended, opened, grown
  <2>4. Sound(grown) /\ Sound(opened)
    BY <1>3, <2>1, <2>2 DEF Sound
  <2>5. CASE o = SegOutcome(opened, s.size)
    BY <2>2, <2>4, <2>5 DEF SegOutcome
  <2>6. CASE o = SegOutcome(grown, NoPage)
    BY <2>1, <2>4, <2>6 DEF SegOutcome
  <2>. QED  BY <2>3, <2>5, <2>6
<1>. QED  BY <1>1, <1>2, <1>3 DEF ExtendHeapSegment, Exceeds

\* init_heap_segment: whether munmap and mmap work or not, the result is sound.
LEMMA InitSound ==
    ASSUME NEW s, Sound(s), NEW n \in Nat, NEW o \in InitHeapSegment(s, n)
    PROVE  Sound(o.seg) /\ o.ret \in Nat \cup {NoPage}
<1>. MaxPages \in Nat /\ s \in Segments /\ s.size \in Nat /\ s.rw \in SUBSET Nat
  BY SegmentFields, SegmentAssumption DEF Sound
<1>1. CASE o = SegOutcome(s, NoPage)
  BY <1>1 DEF SegOutcome
<1>2. CASE o = SegOutcome([s EXCEPT !.start = "map_failed", !.rw = {}], NoPage)
  BY <1>2 DEF SegOutcome, Sound, Segments
<1>3. ASSUME NEW start \in Placements,
             o \in ExtendHeapSegment([start |-> start, size |-> 0, rw |-> {}], n)
      PROVE  Sound(o.seg) /\ o.ret \in Nat \cup {NoPage}
  <2>. DEFINE fresh == [start |-> start, size |-> 0, rw |-> {}]
  <2>1. Sound(fresh) /\ fresh.size = 0
    BY SegmentAssumption DEF Sound, Segments
  <2>. HIDE DEF fresh
  <2>2. o \in ExtendHeapSegment(fresh, n)
    BY <1>3 DEF fresh
  <2>. QED  BY <2>1, <2>2, ExtendSound
<1>4. \/ o = SegOutcome(s, NoPage)
      \/ o = SegOutcome([s EXCEPT !.start = "map_failed", !.rw = {}], NoPage)
      \/ \E start \in Placements :
           o \in ExtendHeapSegment([start |-> start, size |-> 0, rw |-> {}], n)
  <2>1. o \in Mmaps(s, n) \/ o = SegOutcome(s, NoPage)
    BY DEF InitHeapSegment
  <2>. QED  BY <2>1, Zenon DEF Mmaps
<1>. QED  BY <1>1, <1>2, <1>3, <1>4

\* Init and every call keep the invariant.
LEMMA Inductive == (Init => IInv) /\ (IInv /\ [Next]_vars => IInv')
<1>. MaxPages \in Nat /\ Increments \subseteq Nat
  BY SegmentAssumption, IncrementsAssumption
<1>1. Init => IInv
  BY DEF Init, IInv, Sound, Segments, NoSegment
<1>2. ASSUME IInv, NEW n \in Increments, Reinit(n) PROVE IInv'
  BY <1>2, InitSound DEF IInv, Reinit
<1>3. ASSUME IInv, NEW n \in Increments, Extend(n) PROVE IInv'
  <2>1. PICK o \in ExtendHeapSegment(seg, n) : seg' = o.seg /\ ret' = o.ret
    BY <1>3 DEF Extend
  <2>2. /\ Sound(o.seg)
        /\ o.ret = NoPage \/ o.ret = seg.size
    BY <1>3, <2>1, ExtendSound DEF IInv
  <2>3. seg.size \in Nat
    BY <1>3, SegmentFields DEF IInv, Sound
  <2>. QED  BY <2>1, <2>2, <2>3 DEF IInv
<1>4. IInv /\ UNCHANGED vars => IInv'
  BY DEF IInv, vars
<1>. QED  BY <1>1, <1>2, <1>3, <1>4 DEF Next

\* The invariant holds in every reachable state.
THEOREM SegmentInvariance == Spec => []IInv
BY Inductive, PTL DEF Spec

\* Both statics keep their shape, whatever the kernel answers (segment.c 19-20).
THEOREM StaticsTyped == Spec => []TypeOK
<1>1. IInv => TypeOK
  BY DEF IInv, Sound, TypeOK
<1>. QED  BY <1>1, SegmentInvariance, PTL

\* No page beyond heap_segment_size is open, and the size never exceeds the
\* reserved range, through any sequence of refusals.
THEOREM ExtentHolds == Spec => []OpenPagesWithinExtent
<1>1. IInv => OpenPagesWithinExtent
  BY DEF IInv, Sound, OpenPagesWithinExtent
<1>. QED  BY <1>1, SegmentInvariance, PTL

\* extend_heap_segment never hands out a page twice, never takes one back, and
\* what it reports as new is open.
THEOREM ExtendAdds == Spec => ExtendOnlyAdds
<1>1. ASSUME IInv, NEW n \in Increments, Extend(n)
      PROVE  /\ seg.rw \subseteq seg'.rw
             /\ ret' # NoPage => /\ ret' .. (ret' + n - 1) \subseteq seg'.rw
                                 /\ \A page \in seg.rw : page < ret'
  <2>1. PICK o \in ExtendHeapSegment(seg, n) : seg' = o.seg /\ ret' = o.ret
    BY <1>1 DEF Extend
  <2>2. n \in Nat
    BY IncrementsAssumption
  <2>3. /\ seg.rw \subseteq o.seg.rw
        /\ o.ret = NoPage \/ (o.ret = seg.size /\ o.ret .. (o.ret + n - 1) \subseteq o.seg.rw)
    BY <1>1, <2>1, <2>2, ExtendSound DEF IInv
  <2>4. \A page \in seg.rw : page < seg.size
    BY <1>1, SegmentFields DEF IInv, Sound
  <2>. QED  BY <2>1, <2>3, <2>4
<1>2. IInv /\ [Next]_vars =>
        [\A npages \in Increments :
           Extend(npages) => /\ seg.rw \subseteq seg'.rw
                             /\ ret' # NoPage =>
                                  /\ ret' .. (ret' + npages - 1) \subseteq seg'.rw
                                  /\ \A page \in seg.rw : page < ret']_vars
  BY <1>1
<1>. QED  BY <1>2, SegmentInvariance, PTL DEF Spec, ExtendOnlyAdds

(***************************************************************************)
(* verify_block                                                            *)
(***************************************************************************)
\* What a call of verify_block leaves in judged.
Answered ==
    judged = <<>> \/ \E ptr \in NewPtrs, size \in NewSizes :
                       judged = <<ptr, size, VerifyBlock(ptr, size, HeapStart, HeapEnd, table)>>

VerifyInv == table \in SUBSET Table /\ Answered

\* The three comparisons of verify_block hold exactly when the two blocks have
\* a byte in common, an empty new block counting as its first (450-451).
LEMMA OverlapsShareByte ==
    ASSUME NEW ptr \in Nat, NEW size \in Nat, NEW other \in Nat, NEW n \in Nat \ {0}
    PROVE  Overlaps(ptr, ptr + size, other, other + n)
             <=> (IF size = 0 THEN {ptr} ELSE BytesOf(ptr, size)) \cap BytesOf(other, n) # {}
<1>. DEFINE taken == IF size = 0 THEN {ptr} ELSE BytesOf(ptr, size)
<1>1. ASSUME Overlaps(ptr, ptr + size, other, other + n)
      PROVE  taken \cap BytesOf(other, n) # {}
  <2>1. CASE ptr >= other /\ ptr < other + n
    <3>1. ptr \in taken /\ ptr \in BytesOf(other, n)
      BY <2>1 DEF BytesOf
    <3>. QED  BY <3>1
  <2>2. CASE ptr < other /\ ptr + size > other
    <3>1. other \in taken /\ other \in BytesOf(other, n)
      BY <2>2 DEF BytesOf
    <3>. QED  BY <3>1
  <2>3. (ptr >= other /\ ptr < other + n) \/ (ptr < other /\ ptr + size > other)
    BY <1>1 DEF Overlaps
  <2>. QED  BY <2>1, <2>2, <2>3
<1>2. ASSUME NEW byte \in taken, byte \in BytesOf(other, n)
      PROVE  Overlaps(ptr, ptr + size, other, other + n)
  <2>1. byte \in Int /\ other <= byte /\ byte < other + n
    BY <1>2 DEF BytesOf
  <2>2. ptr <= byte /\ (byte < ptr + size \/ byte = ptr)
    BY <1>2 DEF BytesOf
  <2>. QED  BY <2>1, <2>2 DEF Overlaps
<1>. QED  BY <1>1, <1>2

\* verify_block accepts exactly what JudgedRightly describes.
LEMMA VerifyBlockExact ==
    ASSUME NEW ptr \in NewPtrs, NEW size \in NewSizes, table \in SUBSET Table
    PROVE  VerifyBlock(ptr, size, HeapStart, HeapEnd, table)
             = (\/ ptr = 0 /\ size = 0
                \/ /\ ptr % ALIGNMENT = 0 /\ BytesOf(ptr, size) \subseteq HeapStart .. HeapEnd - 1
                   /\ ptr \in HeapStart .. HeapEnd
                   /\ \A b \in table : b.ptr # 0 =>
                        (IF size = 0 THEN {ptr} ELSE BytesOf(ptr, size)) \cap BytesOf(b.ptr, b.size) = {})
<1>. DEFINE taken == IF size = 0 THEN {ptr} ELSE BytesOf(ptr, size)
<1>1. /\ ptr \in Nat /\ size \in Nat /\ HeapStart \in Nat \ {0} /\ HeapEnd \in Nat
      /\ \A b \in table : b.ptr \in Nat /\ b.size \in Nat
  BY VerifyAssumption DEF Table
<1>2. ptr >= HeapStart /\ ptr + size <= HeapEnd
        <=> BytesOf(ptr, size) \subseteq HeapStart .. HeapEnd - 1 /\ ptr \in HeapStart .. HeapEnd
  <2>1. ASSUME ptr >= HeapStart, ptr + size <= HeapEnd
        PROVE  BytesOf(ptr, size) \subseteq HeapStart .. HeapEnd - 1 /\ ptr \in HeapStart .. HeapEnd
    BY <1>1, <2>1 DEF BytesOf
  <2>2. ASSUME BytesOf(ptr, size) \subseteq HeapStart .. HeapEnd - 1, ptr \in HeapStart .. HeapEnd
        PROVE  ptr >= HeapStart /\ ptr + size <= HeapEnd
    <3>1. CASE size = 0
      BY <1>1, <2>2, <3>1
    <3>2. CASE size # 0
      <4>1. ptr + size - 1 \in BytesOf(ptr, size)
        BY <1>1, <3>2 DEF BytesOf
      <4>2. ptr + size - 1 \in HeapStart .. HeapEnd - 1
        BY <2>2, <4>1
      <4>. QED  BY <1>1, <2>2, <4>2
    <3>. QED  BY <3>1, <3>2
  <2>. QED  BY <2>1, <2>2
<1>3. ASSUME NEW b \in table
      PROVE  (b.ptr = 0 \/ b.size = 0 \/ ~Overlaps(ptr, ptr + size, b.ptr, b.ptr + b.size))
               <=> (b.ptr # 0 => taken \cap BytesOf(b.ptr, b.size) = {})
  <2>1. CASE b.size = 0
    <3>1. BytesOf(b.ptr, b.size) = {}
      BY <1>1, <2>1 DEF BytesOf
    <3>. QED  BY <2>1, <3>1
  <2>2. CASE b.size # 0
    BY <1>1, <2>2, OverlapsShareByte
  <2>. QED  BY <2>1, <2>2
<1>4. ptr = 0 => ptr % ALIGNMENT = 0
  BY DEF ALIGNMENT
<1>. HIDE DEF taken
<1>. QED  BY <1>1, <1>2, <1>3, <1>4 DEF VerifyBlock, taken

\* Whatever an allocator answers and whatever the script's blocks are, the
\* harness accepts a block if and only if it is aligned, lies in the heap and
\* shares no byte with another (verify_block 427-458).
THEOREM VerifyBlockRight == VerifyInit /\ [][VerifyNext]_verifyVars => []JudgedRightly
<1>1. VerifyInit => VerifyInv
  BY DEF VerifyInit, VerifyInv, Answered
<1>2. VerifyInv /\ [VerifyNext]_verifyVars => VerifyInv'
  BY DEF VerifyInv, Answered, VerifyNext, Judge, verifyVars
<1>3. VerifyInv => JudgedRightly
  <2>. SUFFICES ASSUME VerifyInv, judged # <<>> PROVE JudgedRightly
    BY DEF JudgedRightly
  <2>1. PICK ptr \in NewPtrs, size \in NewSizes :
          judged = <<ptr, size, VerifyBlock(ptr, size, HeapStart, HeapEnd, table)>>
    BY DEF VerifyInv, Answered
  <2>2. judged[1] = ptr /\ judged[2] = size
        /\ judged[3] = VerifyBlock(ptr, size, HeapStart, HeapEnd, table)
    BY <2>1
  <2>. QED  BY <2>2, VerifyBlockExact DEF VerifyInv, JudgedRightly
<1>. QED  BY <1>1, <1>2, <1>3, PTL

(***************************************************************************)
(* parse_script                                                            *)
(***************************************************************************)
\* The request op is what line l says.
Says(op, l) ==
    /\ op.id = l.id
    /\ \/ l.request = "f" /\ l.nscanned = 2 /\ op.op = "FREE"
       \/ /\ l.nscanned = 3 /\ op.size = l.size /\ l.size <= MaxInt
          /\ <<l.request, op.op>> \in {<<"a", "ALLOC">>, <<"r", "REALLOC">>}

\* While nothing is malformed: the requests read, and the largest id.
Read(f, os, id) ==
    /\ {os[k].lineno : k \in DOMAIN os} = {n \in DOMAIN f : IsRequest(f[n])}
    /\ \A j, k \in DOMAIN os : j < k => os[j].lineno < os[k].lineno
    /\ \A k \in DOMAIN os : os[k].id \in 0 .. id /\ Says(os[k], f[os[k].lineno])

Ops == [op : {"ALLOC", "REALLOC", "FREE", NONE}, id : Int, lineno : Nat, size : Nat]

\* A piece has the number of its line as long as each has one of its own.
Counted(of, f) ==
    /\ of \in Seq(Nat) /\ Len(of) = Len(f)
    /\ \A n \in 1 .. Len(f) : of[n] = n \/ \E i \in 2 .. n : of[i] = of[i - 1]

ParserInv ==
    /\ file \in Seq(Pieces) /\ ops \in Seq(Ops)
    /\ pending \in Seq(Pieces) /\ (file = <<>> => pending = <<>>) /\ Counted(lineOf, file)
    /\ nallocated \in Nat /\ maxid \in Nat /\ num_ids \in Nat
    /\ lineno = Len(file) /\ Len(ops) <= nallocated
    /\ fate \in {"reading", "parsed"} => Read(file, ops, maxid)
    /\ fate = "parsed" => num_ids = maxid + 1

\* The next piece is of the next line, or of the one before it.
LEMMA CountsOn ==
    ASSUME NEW of, NEW f \in Seq(Pieces), Counted(of, f), NEW l \in Pieces, NEW m \in Nat,
           \/ m = (IF of = <<>> THEN 0 ELSE of[Len(of)]) + 1
           \/ of # <<>> /\ m = of[Len(of)]
    PROVE  Counted(Append(of, m), Append(f, l))
<1>. DEFINE c == Len(f)
            new == Append(of, m)
<1>1. /\ c \in Nat /\ Len(Append(f, l)) = c + 1 /\ of \in Seq(Nat) /\ Len(of) = c
      /\ \A n \in 1 .. c : of[n] = n \/ \E i \in 2 .. n : of[i] = of[i - 1]
      /\ (of = <<>> <=> c = 0)
  BY DEF Counted
<1>2. /\ new \in Seq(Nat) /\ Len(new) = c + 1 /\ new[c + 1] = m
      /\ \A n \in 1 .. c : new[n] = of[n]
  BY <1>1
<1>. HIDE DEF c, new
<1>3. ASSUME NEW n \in 1 .. c PROVE new[n] = n \/ \E i \in 2 .. n : new[i] = new[i - 1]
  <2>1. CASE of[n] = n
    BY <1>2, <2>1
  <2>2. ASSUME NEW i \in 2 .. n, of[i] = of[i - 1] PROVE new[i] = new[i - 1]
    <3>1. i \in 1 .. c /\ i - 1 \in 1 .. c
      BY <1>1
    <3>. QED  BY <1>2, <2>2, <3>1
  <2>. QED  BY <1>1, <2>1, <2>2
<1>4. m = c + 1 \/ \E i \in 2 .. c + 1 : new[i] = new[i - 1]
  <2>1. CASE c = 0
    BY <1>1, <2>1
  <2>2. CASE c # 0 /\ m = of[c]
    <3>1. c + 1 \in 2 .. c + 1 /\ new[c + 1] = new[(c + 1) - 1]
      BY <1>1, <1>2, <2>2
    <3>. QED  BY <3>1
  <2>3. CASE c # 0 /\ m = of[c] + 1
    <3>1. c \in 1 .. c
      BY <1>1, <2>3
    <3>2. CASE of[c] = c
      BY <2>3, <3>2
    <3>3. ASSUME NEW i \in 2 .. c, new[i] = new[i - 1] PROVE i \in 2 .. c + 1
      BY <1>1
    <3>. QED  BY <1>2, <1>3, <2>3, <3>1, <3>2, <3>3
  <2>. QED  BY <1>1, <2>1, <2>2, <2>3
<1>5. ASSUME NEW n \in 1 .. c + 1 PROVE new[n] = n \/ \E i \in 2 .. n : new[i] = new[i - 1]
  <2>1. CASE n = c + 1
    BY <1>2, <1>4, <2>1
  <2>2. CASE n # c + 1
    <3>1. n \in 1 .. c
      BY <1>1, <2>2
    <3>. QED  BY <1>3, <3>1
  <2>. QED  BY <2>1, <2>2
<1>. QED  BY <1>1, <1>2, <1>5 DEF Counted, c, new

\* A piece that is no request leaves the requests read as they are.
LEMMA SkipReads ==
    ASSUME NEW f \in Seq(Pieces), NEW os \in Seq(Ops), NEW id \in Nat, Read(f, os, id),
           NEW l \in Pieces, ~IsRequest(l)
    PROVE  Read(Append(f, l), os, id)
<1>. DEFINE g == Append(f, l)
<1>1. /\ DOMAIN f = 1 .. Len(f) /\ DOMAIN g = 1 .. Len(f) + 1 /\ Len(f) \in Nat
      /\ \A n \in 1 .. Len(f) : g[n] = f[n]
      /\ g[Len(f) + 1] = l
  OBVIOUS
<1>. HIDE DEF g
<1>2. {n \in DOMAIN g : IsRequest(g[n])} = {n \in DOMAIN f : IsRequest(f[n])}
  BY <1>1
<1>3. \A k \in DOMAIN os : g[os[k].lineno] = f[os[k].lineno]
  BY <1>1 DEF Read
<1>. QED  BY <1>2, <1>3 DEF Read, g

\* A request is one more of them.
LEMMA RequestReads ==
    ASSUME NEW f \in Seq(Pieces), NEW os \in Seq(Ops), NEW id \in Nat, Read(f, os, id),
           NEW l \in Pieces, IsRequest(l), ~Malformed(l),
           NEW op \in Ops, op.op = OpOf(l), op.id = l.id, op.lineno = Len(f) + 1,
           op.size = IF l.nscanned = 3 THEN l.size ELSE 0
    PROVE  Read(Append(f, l), Append(os, op), IF l.id > id THEN l.id ELSE id)
<1>. DEFINE g == Append(f, l)
            ps == Append(os, op)
            top == IF l.id > id THEN l.id ELSE id
<1>1. /\ DOMAIN f = 1 .. Len(f) /\ DOMAIN g = 1 .. Len(f) + 1 /\ Len(f) \in Nat
      /\ \A n \in 1 .. Len(f) : g[n] = f[n]
      /\ g[Len(f) + 1] = l
  OBVIOUS
<1>2. /\ DOMAIN os = 1 .. Len(os) /\ DOMAIN ps = 1 .. Len(os) + 1 /\ Len(os) \in Nat
      /\ \A k \in 1 .. Len(os) : ps[k] = os[k]
      /\ ps[Len(os) + 1] = op
  OBVIOUS
<1>3. /\ l.nscanned \in 1 .. 3 /\ l.id \in Int /\ l.size \in Nat /\ MaxInt \in Nat
      /\ OpOf(l) # NONE /\ l.id >= 0 /\ l.size <= MaxInt
  BY ParserAssumption DEF Malformed
<1>4. top \in Nat /\ id <= top /\ l.id \in 0 .. top
  BY <1>3
<1>5. Says(op, l)
  BY <1>3 DEF Says, OpOf, NONE
<1>6. \A k \in 1 .. Len(os) : os[k].lineno \in 1 .. Len(f) /\ g[os[k].lineno] = f[os[k].lineno]
  BY <1>1, <1>2 DEF Read
<1>. HIDE DEF g, ps, top
<1>7. {ps[k].lineno : k \in DOMAIN ps} = {n \in DOMAIN g : IsRequest(g[n])}
  <2>1. {ps[k].lineno : k \in DOMAIN ps} = {os[k].lineno : k \in DOMAIN os} \cup {Len(f) + 1}
    BY <1>2
  <2>2. {n \in DOMAIN g : IsRequest(g[n])} = {n \in DOMAIN f : IsRequest(f[n])} \cup {Len(f) + 1}
    BY <1>1
  <2>. QED  BY <2>1, <2>2 DEF Read
<1>8. \A j, k \in DOMAIN ps : j < k => ps[j].lineno < ps[k].lineno
  BY <1>1, <1>2, <1>6 DEF Read
<1>9. ASSUME NEW k \in DOMAIN ps
      PROVE  ps[k].id \in 0 .. top /\ Says(ps[k], g[ps[k].lineno])
  <2>1. CASE k = Len(os) + 1
    BY <1>1, <1>2, <1>4, <1>5, <2>1
  <2>2. CASE k # Len(os) + 1
    <3>1. k \in DOMAIN os /\ ps[k] = os[k]
      BY <1>2, <2>2
    <3>2. os[k].id \in 0 .. id /\ Says(os[k], f[os[k].lineno])
      BY <3>1 DEF Read
    <3>. QED  BY <1>2, <1>4, <1>6, <3>1, <3>2
  <2>. QED  BY <2>1, <2>2
<1>. QED  BY <1>7, <1>8, <1>9 DEF Read, g, ps, top

\* Every piece read keeps the invariant.
LEMMA ParserStep == ParserInv /\ [ScriptNext]_scriptVars => ParserInv'
<1>. SUFFICES ASSUME ParserInv, [ScriptNext]_scriptVars PROVE ParserInv'
  OBVIOUS
<1>. DEFINE Fed == pending' \in Seq(Pieces) /\ file' # <<>> /\ Counted(lineOf', file')
<1>. HIDE DEF Fed
<1>. USE DEF ParserInv
<1>1. ASSUME NEW l \in Pieces, fate = "reading", Skip(l), Fed PROVE ParserInv'
  <2>1. Read(file', ops', maxid')
    BY <1>1, SkipReads DEF Skip
  <2>. QED  BY <1>1, <2>1 DEF Skip, Fed
<1>2. ASSUME NEW l \in Pieces, fate = "reading", Request(l), Fed PROVE ParserInv'
  <2>. DEFINE op == [op     |-> OpOf(l), id |-> l.id, lineno |-> lineno',
                     size   |-> IF l.nscanned = 3 THEN l.size ELSE 0]
  <2>1. /\ IsRequest(l) /\ file' = Append(file, l) /\ lineno' = lineno + 1 /\ num_ids' = num_ids
        /\ l.id \in Int /\ l.size \in Nat /\ Chunk \in Nat \ {0}
    BY <1>2, ParserAssumption DEF Request
  <2>2. /\ file' \in Seq(Pieces) /\ lineno' = Len(file') /\ lineno' = Len(file) + 1
        /\ pending' \in Seq(Pieces) /\ file' # <<>> /\ Counted(lineOf', file')
    BY <1>2, <2>1 DEF Fed
  <2>3. CASE fate' = "exhausted" /\ UNCHANGED <<nallocated, ops, maxid>>
    BY <2>1, <2>2, <2>3
  <2>4. CASE /\ nallocated' = Room /\ ops' = Append(ops, op)
             /\ IF Malformed(l) THEN fate' = "malformed" /\ UNCHANGED maxid
                ELSE fate' = fate /\ maxid' = IF l.id > maxid THEN l.id ELSE maxid
    <3>1. op \in Ops
      BY <2>1, <2>2 DEF Ops, OpOf, NONE
    <3>2. op.op = OpOf(l) /\ op.id = l.id /\ op.lineno = Len(file) + 1
          /\ op.size = IF l.nscanned = 3 THEN l.size ELSE 0
      BY <2>2
    <3>. HIDE DEF op
    <3>3. ops' \in Seq(Ops) /\ Len(ops') = Len(ops) + 1 /\ Len(ops) \in Nat
      BY <2>4, <3>1
    <3>4. nallocated' \in Nat /\ Len(ops') <= nallocated'
      BY <2>1, <2>4, <3>3 DEF Room
    <3>5. CASE Malformed(l)
      BY <2>1, <2>2, <2>4, <3>3, <3>4, <3>5
    <3>6. CASE ~Malformed(l)
      <4>1. maxid' \in Nat
        BY <2>1, <2>4, <3>6
      <4>2. Read(file', ops', maxid')
        BY <1>2, <2>1, <2>4, <3>1, <3>2, <3>6, RequestReads
      <4>. QED  BY <1>2, <2>1, <2>2, <2>4, <3>3, <3>4, <3>6, <4>1, <4>2
    <3>. QED  BY <3>5, <3>6
  <2>. QED  BY <1>2, <2>3, <2>4 DEF Request
<1>3. CASE Close
  BY <1>3 DEF Close, TableSize
<1>4. CASE UNCHANGED scriptVars
  BY <1>4 DEF scriptVars
<1>5. CASE ReadLine
  <2>1. PICK w \in (IF pending = <<>> THEN FileLines ELSE {pending}) :
              (Skip(Head(w)) \/ Request(Head(w))) /\ pending' = Tail(w)
    BY <1>5 DEF ReadLine
  <2>. DEFINE l == Head(w)
  <2>2. w \in Seq(Pieces) \ {<<>>}
    BY ParserAssumption
  <2>3. l \in Pieces /\ pending' \in Seq(Pieces)
    BY <2>1, <2>2
  <2>. HIDE DEF l
  <2>4. file' = Append(file, l) /\ file' # <<>>
    <3>1. file' = Append(file, l)
      BY <2>1 DEF Skip, Request, l
    <3>2. Len(Append(file, l)) = Len(file) + 1 /\ Len(file) \in Nat
      BY <2>3
    <3>. QED  BY <3>1, <3>2
  <2>5. Counted(lineOf', file')
    <3>. DEFINE last == IF lineOf = <<>> THEN 0 ELSE lineOf[Len(lineOf)]
                m == IF pending = <<>> THEN last + 1 ELSE last
    <3>1. lineOf' = Append(lineOf, m) /\ last \in Nat /\ m \in Nat
      <4>1. lineOf' = Append(lineOf, m)
        BY <1>5 DEF ReadLine
      <4>2. last \in Nat
        BY DEF Counted
      <4>. HIDE DEF last
      <4>. QED  BY <4>1, <4>2
    <3>2. pending # <<>> => lineOf # <<>>
      BY DEF Counted
    <3>. QED  BY <2>3, <2>4, <3>1, <3>2, CountsOn
  <2>. QED  BY <1>1, <1>2, <1>5, <2>1, <2>3, <2>4, <2>5 DEF ReadLine, Fed, l
<1>. QED  BY <1>3, <1>4, <1>5 DEF ScriptNext

\* Whatever the pieces that fgets gives, however many, and wherever the array
\* has to grow: a script that is accepted holds what reads as a request, in
\* order, each under the number of its line until one comes in pieces, and no
\* id is outside the table (read_line 203-213, parse_script 221-264).
THEOREM ScriptsParsed == ScriptInit /\ [][ScriptNext]_scriptVars => []ParsedExactly
<1>1. ScriptInit => ParserInv
  BY DEF ScriptInit, ScriptZero, ParserInv, Read, Counted
<1>2. ParserInv => ParsedExactly
  BY DEF ParserInv, ParsedExactly, Read, Says, Counted
<1>. QED  BY <1>1, <1>2, ParserStep, PTL

(***************************************************************************)
(* The list of simple.c                                                    *)
(***************************************************************************)
\* The n cells of the list, cs, their strings, ss, and what these spell, ts.
Chained(blocks, head, n, cs, ss, ts) ==
    /\ n \in Nat /\ cs \in [1 .. n -> Addresses] /\ ss \in [1 .. n -> Addresses]
    /\ ts \in [1 .. n -> Seq(Nat)]
    /\ head = IF n = 0 THEN NULL ELSE cs[1]
    /\ DOMAIN blocks = {cs[k] : k \in 1 .. n} \cup {ss[k] : k \in 1 .. n}
    /\ \A j, k \in 1 .. n : cs[j] # ss[k] /\ (j # k => cs[j] # cs[k] /\ ss[j] # ss[k])
    /\ \A k \in 1 .. n :
         /\ blocks[cs[k]] = [string |-> ss[k], next |-> IF k = n THEN NULL ELSE cs[k + 1]]
         /\ blocks[ss[k]] = ts[k]

\* The strings of n cells spell m numbers, the last first.
Spells(n, ts, m) ==
    \E w \in [0 .. n -> Seq(Nat)] :
      /\ w[0] = <<>> /\ \A k \in 1 .. n : w[k] = w[k - 1] \o ts[k]
      /\ w[n] = [i \in 1 .. m |-> m - i]

\* A first value before n others, and the others without their first.
Led(n, x, f) == [k \in 1 .. n + 1 |-> IF k = 1 THEN x ELSE f[k - 1]]
Rest(n, f) == [k \in 1 .. n - 1 |-> f[k + 1]]

\* The place a cell had before cell m + 1 left the list; the values of the
\* cells that stay, and these with x for cell m.
Before(m, k) == IF k <= m THEN k ELSE k + 1
Without(n, m, f) == [k \in 1 .. n - 1 |-> f[Before(m, k)]]
WithoutBut(n, m, f, x) == [k \in 1 .. n - 1 |-> IF k = m THEN x ELSE f[Before(m, k)]]

SimpleInv ==
    /\ stage \in {"push", "join", "free", "ended", "null_write"}
    /\ stage # "null_write" =>
         \E n, cs, ss, ts :
           /\ Chained(live, list, n, cs, ss, ts)
           /\ cur \in {NULL} \cup {cs[k] : k \in 1 .. n}
           /\ stage # "join" => cur = NULL
           /\ stage = "push" => Spells(n, ts, n)
           /\ stage = "join" => Spells(n, ts, NumCells)

\* The blocks are two for each cell.
LEMMA TwoEach ==
    ASSUME NEW blocks, NEW head, NEW n, NEW cs, NEW ss, NEW ts, Chained(blocks, head, n, cs, ss, ts)
    PROVE  Cardinality(DOMAIN blocks) = 2 * n
<1>. DEFINE B == DOMAIN blocks
            f == [i \in 1 .. 2 * n |-> IF i <= n THEN cs[i] ELSE ss[i - n]]
<1>1. /\ n \in Nat /\ cs \in [1 .. n -> Addresses] /\ ss \in [1 .. n -> Addresses]
      /\ B = {cs[k] : k \in 1 .. n} \cup {ss[k] : k \in 1 .. n}
      /\ \A j, k \in 1 .. n : cs[j] # ss[k] /\ (j # k => cs[j] # cs[k] /\ ss[j] # ss[k])
  BY DEF Chained
<1>2. \A i \in 1 .. 2 * n :
        /\ i <= n => i \in 1 .. n /\ f[i] = cs[i]
        /\ i > n => i - n \in 1 .. n /\ f[i] = ss[i - n]
  BY <1>1
<1>3. \A k \in 1 .. n : k \in 1 .. 2 * n /\ f[k] = cs[k] /\ k + n \in 1 .. 2 * n /\ f[k + n] = ss[k]
  BY <1>1
<1>4. f \in [1 .. 2 * n -> B]
  <2>1. \A i \in 1 .. 2 * n : f[i] \in B
    <3>. HIDE DEF f, B
    <3>. QED  BY <1>1, <1>2
  <2>. QED  BY <2>1
<1>. HIDE DEF f, B
<1>5. \A i, j \in 1 .. 2 * n : f[i] = f[j] => i = j
  <2>. SUFFICES ASSUME NEW i \in 1 .. 2 * n, NEW j \in 1 .. 2 * n, f[i] = f[j] PROVE i = j
    OBVIOUS
  <2>1. CASE i <= n /\ j <= n
    BY <1>1, <1>2, <2>1
  <2>2. CASE i > n /\ j > n
    <3>1. i - n = j - n
      BY <1>1, <1>2, <2>2
    <3>. QED  BY <1>1, <3>1
  <2>3. CASE (i <= n /\ j > n) \/ (i > n /\ j <= n)
    BY <1>1, <1>2, <2>3
  <2>. QED  BY <1>1, <2>1, <2>2, <2>3
<1>6. \A b \in B : \E i \in 1 .. 2 * n : f[i] = b
  BY <1>1, <1>3
<1>7. IsFiniteSet(1 .. 2 * n) /\ Cardinality(1 .. 2 * n) = 2 * n
  BY <1>1, FS_Interval
<1>8. Cardinality(B) = Cardinality(1 .. 2 * n)
  <2>. DEFINE I == 1 .. 2 * n
  <2>1. f \in [I -> B] /\ IsFiniteSet(I)
    BY <1>4, <1>7
  <2>2. \A i, j \in I : f[i] = f[j] => i = j
    BY <1>5
  <2>3. \A b \in B : \E i \in I : f[i] = b
    BY <1>6
  <2>. HIDE DEF I
  <2>4. Cardinality(B) = Cardinality(I)
    BY <2>1, <2>2, <2>3, SameNumber
  <2>. QED  BY <2>4 DEF I
<1>. QED  BY <1>7, <1>8 DEF B

\* push, in two free blocks.
LEMMA PushChained ==
    ASSUME NEW blocks, NEW head, NEW n, NEW cs, NEW ss, NEW ts, Chained(blocks, head, n, cs, ss, ts),
           NEW c \in Addresses \ DOMAIN blocks, NEW s \in Addresses \ DOMAIN blocks, c # s,
           NEW t \in Seq(Nat)
    PROVE  Chained(Put(Put(blocks, c, [string |-> s, next |-> head]), s, t), c, n + 1,
                   Led(n, c, cs), Led(n, s, ss), Led(n, t, ts))
<1>. DEFINE B == Put(Put(blocks, c, [string |-> s, next |-> head]), s, t)
            ds == Led(n, c, cs)
            us == Led(n, s, ss)
            vs == Led(n, t, ts)
<1>1. /\ n \in Nat /\ cs \in [1 .. n -> Addresses] /\ ss \in [1 .. n -> Addresses]
      /\ ts \in [1 .. n -> Seq(Nat)]
      /\ head = IF n = 0 THEN NULL ELSE cs[1]
      /\ DOMAIN blocks = {cs[k] : k \in 1 .. n} \cup {ss[k] : k \in 1 .. n}
      /\ \A j, k \in 1 .. n : cs[j] # ss[k] /\ (j # k => cs[j] # cs[k] /\ ss[j] # ss[k])
      /\ \A k \in 1 .. n :
           /\ blocks[cs[k]] = [string |-> ss[k], next |-> IF k = n THEN NULL ELSE cs[k + 1]]
           /\ blocks[ss[k]] = ts[k]
  BY DEF Chained
<1>2. /\ DOMAIN B = DOMAIN blocks \cup {c, s}
      /\ B[c] = [string |-> s, next |-> head] /\ B[s] = t
      /\ \A b \in DOMAIN blocks : B[b] = blocks[b]
  BY DEF Put
<1>3. /\ n + 1 \in Nat /\ 1 \in 1 .. n + 1 /\ ds[1] = c /\ us[1] = s /\ vs[1] = t
      /\ \A k \in 1 .. n + 1 : k # 1 =>
           k - 1 \in 1 .. n /\ ds[k] = cs[k - 1] /\ us[k] = ss[k - 1] /\ vs[k] = ts[k - 1]
      /\ \A k \in 1 .. n : k + 1 \in 1 .. n + 1 /\ ds[k + 1] = cs[k] /\ us[k + 1] = ss[k]
  BY <1>1 DEF Led
<1>4. /\ ds \in [1 .. n + 1 -> Addresses] /\ us \in [1 .. n + 1 -> Addresses]
      /\ vs \in [1 .. n + 1 -> Seq(Nat)]
  BY <1>1, <1>3 DEF Led
<1>. HIDE DEF B, ds, us, vs
<1>5. \A k \in 1 .. n + 1 : k # 1 => {ds[k], us[k]} \subseteq DOMAIN blocks
  BY <1>1, <1>3
<1>6. DOMAIN B = {ds[k] : k \in 1 .. n + 1} \cup {us[k] : k \in 1 .. n + 1}
  <2>1. {c, s} \subseteq {ds[k] : k \in 1 .. n + 1} \cup {us[k] : k \in 1 .. n + 1}
    BY <1>3
  <2>2. DOMAIN blocks \subseteq {ds[k] : k \in 1 .. n + 1} \cup {us[k] : k \in 1 .. n + 1}
    <3>1. \A k \in 1 .. n : \E j \in 1 .. n + 1 : ds[j] = cs[k] /\ us[j] = ss[k]
      BY <1>3
    <3>2. \A b \in DOMAIN blocks : \E k \in 1 .. n : b = cs[k] \/ b = ss[k]
      BY <1>1
    <3>. QED  BY <3>1, <3>2
  <2>3. \A k \in 1 .. n + 1 : {ds[k], us[k]} \subseteq DOMAIN blocks \cup {c, s}
    BY <1>3, <1>5
  <2>. QED  BY <1>2, <2>1, <2>2, <2>3
<1>7. ASSUME NEW j \in 1 .. n + 1, NEW k \in 1 .. n + 1
      PROVE  ds[j] # us[k] /\ (j # k => ds[j] # ds[k] /\ us[j] # us[k])
  <2>1. CASE j = 1 \/ k = 1
    BY <1>3, <1>5, <2>1
  <2>2. CASE j # 1 /\ k # 1
    BY <1>1, <1>3, <2>2
  <2>. QED  BY <2>1, <2>2
<1>8. ASSUME NEW k \in 1 .. n + 1
      PROVE  /\ B[ds[k]] = [string |-> us[k], next |-> IF k = n + 1 THEN NULL ELSE ds[k + 1]]
             /\ B[us[k]] = vs[k]
  <2>1. CASE k = 1
    <3>1. head = IF 1 = n + 1 THEN NULL ELSE ds[1 + 1]
      BY <1>1, <1>3
    <3>. QED  BY <1>2, <1>3, <2>1, <3>1
  <2>2. CASE k # 1
    <3>1. k - 1 \in 1 .. n /\ ds[k] = cs[k - 1] /\ us[k] = ss[k - 1] /\ vs[k] = ts[k - 1]
      BY <1>3, <2>2
    <3>2. B[ds[k]] = blocks[cs[k - 1]] /\ B[us[k]] = blocks[ss[k - 1]]
      BY <1>2, <1>5, <2>2, <3>1
    <3>3. (IF k - 1 = n THEN NULL ELSE cs[(k - 1) + 1]) = IF k = n + 1 THEN NULL ELSE ds[k + 1]
      BY <1>1, <1>3
    <3>. QED  BY <1>1, <3>1, <3>2, <3>3
  <2>. QED  BY <2>1, <2>2
<1>9. c = IF n + 1 = 0 THEN NULL ELSE ds[1]
  BY <1>1, <1>3
<1>10. Chained(B, c, n + 1, ds, us, vs)
  BY <1>3, <1>4, <1>6, <1>7, <1>8, <1>9 DEF Chained
<1>. QED  BY <1>10 DEF B, ds, us, vs

\* The numbers of three strings, joined in either order.
LEMMA Associative == \A s, t, u \in Seq(Nat) : (s \o t) \o u = s \o (t \o u)
<1>1. \A S : \A s, t, u \in Seq(S) : (s \o t) \o u = s \o (t \o u)
  BY ConcatAssociative, Zenon
<1>. QED  BY <1>1, SMT

\* The new cell's number goes before all the others.
LEMMA PushSpells ==
    ASSUME NEW n \in Nat, NEW ts \in [1 .. n -> Seq(Nat)], Spells(n, ts, n)
    PROVE  Spells(n + 1, Led(n, <<n>>, ts), n + 1)
<1>. DEFINE vs == Led(n, <<n>>, ts)
<1>1. PICK w \in [0 .. n -> Seq(Nat)] :
        /\ w[0] = <<>> /\ \A k \in 1 .. n : w[k] = w[k - 1] \o ts[k]
        /\ w[n] = [i \in 1 .. n |-> n - i]
  BY DEF Spells
<1>. DEFINE v == [k \in 0 .. n + 1 |-> IF k = 0 THEN <<>> ELSE <<n>> \o w[k - 1]]
<1>2. /\ v[0] = <<>> /\ vs[1] = <<n>>
      /\ \A k \in 1 .. n + 1 : v[k] = <<n>> \o w[k - 1] /\ k - 1 \in 0 .. n /\ k - 1 \in 0 .. n + 1
      /\ \A k \in 1 .. n + 1 : k # 1 => k - 1 \in 1 .. n /\ k - 1 \in 1 .. n + 1 /\ vs[k] = ts[k - 1]
  BY DEF Led
<1>3. <<n>> \in Seq(Nat) /\ <<>> \in Seq(Nat)
  OBVIOUS
<1>4. v \in [0 .. n + 1 -> Seq(Nat)]
  <2>1. \A k \in 0 .. n + 1 : v[k] \in Seq(Nat)
    <3>. SUFFICES ASSUME NEW k \in 0 .. n + 1, k # 0 PROVE v[k] \in Seq(Nat)
      BY <1>2, <1>3
    <3>1. k \in 1 .. n + 1
      OBVIOUS
    <3>2. v[k] = <<n>> \o w[k - 1] /\ w[k - 1] \in Seq(Nat)
      BY <1>2, <3>1
    <3>. HIDE DEF v
    <3>. QED  BY <1>3, <3>2, ConcatProperties
  <2>. QED  BY <2>1
<1>. HIDE DEF v, vs
<1>5. ASSUME NEW k \in 1 .. n + 1
      PROVE  v[k] = v[k - 1] \o vs[k]
  <2>1. CASE k = 1
    <3>. DEFINE one == <<n>>
    <3>1. v[k] = one \o w[0] /\ v[k - 1] = <<>> /\ vs[k] = one /\ w[0] = <<>>
      <4>1. k - 1 = 0 /\ v[k] = one \o w[k - 1]
        <5>1. k \in 1 .. n + 1 /\ k - 1 = 0
          BY <2>1
        <5>2. v[k] = <<n>> \o w[k - 1]
          BY <1>2
        <5>. QED  BY <5>1, <5>2
      <4>. HIDE DEF one
      <4>2. vs[1] = one
        BY <1>2 DEF one
      <4>. QED  BY <1>1, <1>2, <2>1, <4>1, <4>2
    <3>2. one \o <<>> = <<>> \o one
      BY <1>3, ConcatEmptySeq
    <3>. HIDE DEF one
    <3>. QED  BY <3>1, <3>2
  <2>2. CASE k # 1
    <3>1. /\ k - 1 \in 1 .. n /\ k - 1 \in 1 .. n + 1 /\ k - 1 - 1 \in 0 .. n
          /\ ts[k - 1] \in Seq(Nat) /\ w[k - 1 - 1] \in Seq(Nat)
      BY <1>2, <2>2
    <3>2. w[k - 1] = w[k - 1 - 1] \o ts[k - 1]
      BY <1>1, <3>1
    <3>3. v[k] = <<n>> \o w[k - 1] /\ v[k - 1] = <<n>> \o w[k - 1 - 1] /\ vs[k] = ts[k - 1]
      BY <1>2, <2>2, <3>1
    <3>4. (<<n>> \o w[k - 1 - 1]) \o ts[k - 1] = <<n>> \o (w[k - 1 - 1] \o ts[k - 1])
      <4>. DEFINE one == <<n>>
                  before == w[k - 1 - 1]
                  last == ts[k - 1]
      <4>1. one \in Seq(Nat) /\ before \in Seq(Nat) /\ last \in Seq(Nat)
        BY <1>3, <3>1
      <4>. HIDE DEF one, before, last
      <4>2. (one \o before) \o last = one \o (before \o last)
        BY <4>1, Associative
      <4>. QED  BY <4>2 DEF one, before, last
    <3>. QED  BY <3>2, <3>3, <3>4
  <2>. QED  BY <2>1, <2>2
<1>6. v[n + 1] = [i \in 1 .. n + 1 |-> (n + 1) - i]
  <2>1. n + 1 \in 1 .. n + 1 /\ (n + 1) - 1 = n
    OBVIOUS
  <2>2. v[n + 1] = <<n>> \o [i \in 1 .. n |-> n - i]
    <3>1. v[n + 1] = <<n>> \o w[(n + 1) - 1]
      BY <1>2, <2>1
    <3>. QED  BY <1>1, <2>1, <3>1
  <2>. DEFINE r == [i \in 1 .. n |-> n - i]
              q == [i \in 1 .. n + 1 |-> (n + 1) - i]
  <2>3. r \in Seq(Nat) /\ Len(r) = n /\ q \in Seq(Nat) /\ Len(q) = n + 1
    OBVIOUS
  <2>4. Len(<<n>> \o r) = n + 1 /\ <<n>> \o r \in Seq(Nat)
    BY <1>3, <2>3
  <2>5. \A i \in 1 .. n + 1 : (<<n>> \o r)[i] = q[i]
    <3>. SUFFICES ASSUME NEW i \in 1 .. n + 1 PROVE (<<n>> \o r)[i] = q[i]
      OBVIOUS
    <3>1. (<<n>> \o r)[i] = IF i <= 1 THEN <<n>>[i] ELSE r[i - 1]
      BY <1>3, <2>3
    <3>2. i # 1 => r[i - 1] = n - (i - 1)
      OBVIOUS
    <3>3. q[i] = (n + 1) - i
      OBVIOUS
    <3>. HIDE DEF r, q
    <3>4. CASE i = 1
      BY <3>1, <3>3, <3>4
    <3>5. CASE i # 1
      <4>1. ~(i <= 1)
        BY <3>5
      <4>2. (<<n>> \o r)[i] = r[i - 1]
        BY <3>1, <4>1
      <4>3. r[i - 1] = q[i]
        BY <3>2, <3>3, <3>5
      <4>. QED  BY <4>2, <4>3
    <3>. QED  BY <3>4, <3>5
  <2>6. <<n>> \o r = q
    <3>. HIDE DEF r, q
    <3>. QED  BY <2>3, <2>4, <2>5, SeqEqual
  <2>. QED  BY <2>2, <2>6
<1>7. Spells(n + 1, vs, n + 1)
  <2>1. \A k \in 1 .. n + 1 : v[k] = v[k - 1] \o vs[k]
    BY <1>5
  <2>2. v[0] = <<>>
    BY <1>2
  <2>. QED  BY <1>4, <1>6, <2>1, <2>2, Zenon DEF Spells
<1>. QED  BY <1>7 DEF vs

\* concat_neighbors, at cell m: the next cell and its string leave the list.
LEMMA JoinChained ==
    ASSUME NEW blocks, NEW head, NEW n, NEW cs, NEW ss, NEW ts, Chained(blocks, head, n, cs, ss, ts),
           NEW m \in 1 .. n - 1,
           NEW s \in {ss[m]} \cup (Addresses \ (DOMAIN blocks \ {ss[m]}))
    PROVE  Chained(Spliced(blocks, cs[m], s), head, n - 1,
                   Without(n, m, cs), WithoutBut(n, m, ss, s), WithoutBut(n, m, ts, ts[m] \o ts[m + 1]))
<1>. DEFINE B == Spliced(blocks, cs[m], s)
            c == cs[m]
            ds == Without(n, m, cs)
            us == WithoutBut(n, m, ss, s)
            vs == WithoutBut(n, m, ts, ts[m] \o ts[m + 1])
            D == DOMAIN blocks
            gone == {ss[m], ss[m + 1], cs[m + 1]}
<1>1. /\ n \in Nat /\ cs \in [1 .. n -> Addresses] /\ ss \in [1 .. n -> Addresses]
      /\ ts \in [1 .. n -> Seq(Nat)]
      /\ head = IF n = 0 THEN NULL ELSE cs[1]
      /\ D = {cs[k] : k \in 1 .. n} \cup {ss[k] : k \in 1 .. n}
      /\ \A j, k \in 1 .. n : cs[j] # ss[k] /\ (j # k => cs[j] # cs[k] /\ ss[j] # ss[k])
      /\ \A k \in 1 .. n :
           /\ blocks[cs[k]] = [string |-> ss[k], next |-> IF k = n THEN NULL ELSE cs[k + 1]]
           /\ blocks[ss[k]] = ts[k]
  BY DEF Chained
<1>2. m \in 1 .. n /\ m + 1 \in 1 .. n /\ n - 1 \in Nat /\ m # m + 1 /\ m # n /\ 1 \in 1 .. n - 1
  BY <1>1
<1>3. \A k \in 1 .. n - 1 :
        /\ Before(m, k) \in 1 .. n /\ Before(m, k) # m + 1
        /\ Before(m, k) = m <=> k = m
        /\ \A j \in 1 .. n - 1 : j # k => Before(m, j) # Before(m, k)
  <2>. SUFFICES ASSUME NEW k \in 1 .. n - 1
                PROVE  /\ Before(m, k) \in 1 .. n /\ Before(m, k) # m + 1
                       /\ Before(m, k) = m <=> k = m
                       /\ \A j \in 1 .. n - 1 : j # k => Before(m, j) # Before(m, k)
    OBVIOUS
  <2>1. m \in Nat /\ n \in Nat /\ m <= n - 1 /\ k \in Nat /\ k <= n - 1 /\ 1 <= k
    BY <1>1
  <2>2. Before(m, k) \in 1 .. n /\ Before(m, k) # m + 1
    BY <2>1 DEF Before
  <2>3. Before(m, k) = m <=> k = m
    BY <2>1 DEF Before
  <2>4. ASSUME NEW j \in 1 .. n - 1, j # k
        PROVE  Before(m, j) # Before(m, k)
    BY <2>1, <2>4 DEF Before
  <2>. QED  BY <2>2, <2>3, <2>4
<1>4. \A i \in 1 .. n : i # m + 1 => \E k \in 1 .. n - 1 : Before(m, k) = i
  <2>. SUFFICES ASSUME NEW i \in 1 .. n, i # m + 1 PROVE \E k \in 1 .. n - 1 : Before(m, k) = i
    OBVIOUS
  <2>1. CASE i <= m
    <3>1. i \in 1 .. n - 1 /\ Before(m, i) = i
      BY <1>1, <2>1 DEF Before
    <3>. QED  BY <3>1
  <2>2. CASE i > m
    <3>1. i - 1 \in 1 .. n - 1 /\ Before(m, i - 1) = i
      BY <1>1, <2>2 DEF Before
    <3>. QED  BY <3>1
  <2>3. i <= m \/ i > m
    BY <1>1, <1>2
  <2>. QED  BY <2>1, <2>2, <2>3
<1>5. \A k \in 1 .. n - 1 :
        /\ ds[k] = cs[Before(m, k)]
        /\ us[k] = IF k = m THEN s ELSE ss[Before(m, k)]
        /\ vs[k] = IF k = m THEN ts[m] \o ts[m + 1] ELSE ts[Before(m, k)]
  BY DEF Without, WithoutBut
<1>6. s \in Addresses /\ (s = ss[m] \/ s \notin D) /\ s # c /\ s \notin {ss[m + 1], cs[m + 1]}
  BY <1>1, <1>2
<1>7. ts[m] \o ts[m + 1] \in Seq(Nat)
  <2>1. ts[m] \in Seq(Nat) /\ ts[m + 1] \in Seq(Nat)
    BY <1>1, <1>2
  <2>. QED  BY <2>1, ConcatProperties
<1>8. /\ ds \in [1 .. n - 1 -> Addresses] /\ us \in [1 .. n - 1 -> Addresses]
      /\ vs \in [1 .. n - 1 -> Seq(Nat)]
  <2>1. \A k \in 1 .. n - 1 : cs[Before(m, k)] \in Addresses /\ ss[Before(m, k)] \in Addresses
                             /\ ts[Before(m, k)] \in Seq(Nat)
    BY <1>1, <1>3
  <2>. QED  BY <1>6, <1>7, <2>1 DEF Without, WithoutBut
<1>9. /\ blocks[c].next = cs[m + 1] /\ blocks[c].string = ss[m]
      /\ blocks[cs[m + 1]].string = ss[m + 1]
      /\ blocks[cs[m + 1]].next = IF m + 1 = n THEN NULL ELSE cs[m + 2]
      /\ blocks[ss[m]] = ts[m] /\ blocks[ss[m + 1]] = ts[m + 1]
      /\ c \in D /\ {ss[m], cs[m + 1], ss[m + 1]} \subseteq D
      /\ c \notin gone
  <2>1. blocks[c] = [string |-> ss[m], next |-> cs[m + 1]]
    BY <1>1, <1>2
  <2>2. blocks[cs[m + 1]] = [string |-> ss[m + 1], next |-> IF m + 1 = n THEN NULL ELSE cs[m + 2]]
    <3>1. (m + 1) + 1 = m + 2
      BY <1>1
    <3>. HIDE DEF c
    <3>. QED  BY <1>1, <1>2, <3>1
  <2>3. blocks[ss[m]] = ts[m] /\ blocks[ss[m + 1]] = ts[m + 1]
    BY <1>1, <1>2
  <2>4. c \in D /\ {ss[m], cs[m + 1], ss[m + 1]} \subseteq D
    BY <1>1, <1>2
  <2>5. c \notin gone
    BY <1>1, <1>2
  <2>. QED  BY <2>1, <2>2, <2>3, <2>4, <2>5
<1>. DEFINE cell == [string |-> s, next |-> IF m + 1 = n THEN NULL ELSE cs[m + 2]]
<1>. HIDE DEF ds, us, vs, D
<1>10. /\ DOMAIN B = (D \ gone) \cup {s}
       /\ B[c] = cell /\ B[s] = ts[m] \o ts[m + 1]
       /\ \A b \in D \ gone : b # c /\ b # s => B[b] = blocks[b]
  <2>. DEFINE B1 == Drop(blocks, {ss[m]})
              B2 == Put(B1, c, cell)
              B3 == Put(B2, s, ts[m] \o ts[m + 1])
  <2>. HIDE DEF cell
  <2>1. B = Drop(B3, {ss[m + 1], cs[m + 1]})
    BY <1>9 DEF Spliced, cell
  <2>2. DOMAIN B1 = D \ {ss[m]} /\ \A b \in D \ {ss[m]} : B1[b] = blocks[b]
    BY DEF Drop, Restrict, D
  <2>. HIDE DEF B1
  <2>3. DOMAIN B2 = D \ {ss[m]} /\ B2[c] = cell /\ \A b \in D \ {ss[m]} : b # c => B2[b] = blocks[b]
    BY <1>9, <2>2 DEF Put
  <2>. HIDE DEF B2
  <2>4. /\ DOMAIN B3 = (D \ {ss[m]}) \cup {s} /\ B3[s] = ts[m] \o ts[m + 1] /\ B3[c] = cell
        /\ \A b \in D \ {ss[m]} : b # c /\ b # s => B3[b] = blocks[b]
    BY <1>6, <1>9, <2>3 DEF Put
  <2>. HIDE DEF B3
  <2>5. /\ DOMAIN B = ((D \ {ss[m]}) \cup {s}) \ {ss[m + 1], cs[m + 1]}
        /\ \A b \in DOMAIN B : B[b] = B3[b]
    BY <2>1, <2>4 DEF Drop, Restrict
  <2>. HIDE DEF B
  <2>6. DOMAIN B = (D \ gone) \cup {s}
    BY <1>6, <2>5
  <2>7. c \in DOMAIN B /\ s \in DOMAIN B /\ D \ gone \subseteq DOMAIN B
    BY <1>9, <2>6
  <2>. QED  BY <2>4, <2>5, <2>6, <2>7
<1>. HIDE DEF B
<1>11. \A k \in 1 .. n - 1 :
         /\ cs[Before(m, k)] \in D \ gone
         /\ k # m => ss[Before(m, k)] \in D \ gone
  <2>. SUFFICES ASSUME NEW k \in 1 .. n - 1
                PROVE  /\ cs[Before(m, k)] \in D \ gone
                       /\ k # m => ss[Before(m, k)] \in D \ gone
    OBVIOUS
  <2>. DEFINE i == Before(m, k)
  <2>1. i \in 1 .. n /\ i # m + 1 /\ (k # m => i # m)
    BY <1>3
  <2>. HIDE DEF i
  <2>2. cs[i] \in D /\ ss[i] \in D
    BY <1>1, <2>1
  <2>3. cs[i] \notin gone /\ (k # m => ss[i] \notin gone)
    BY <1>1, <1>2, <2>1
  <2>. QED  BY <2>2, <2>3 DEF i
<1>12. DOMAIN B = {ds[k] : k \in 1 .. n - 1} \cup {us[k] : k \in 1 .. n - 1}
  <2>1. \A k \in 1 .. n - 1 : ds[k] \in DOMAIN B /\ us[k] \in DOMAIN B
    BY <1>5, <1>10, <1>11
  <2>2. ASSUME NEW b \in DOMAIN B
        PROVE  \E k \in 1 .. n - 1 : b = ds[k] \/ b = us[k]
    <3>1. CASE b = s
      BY <1>1, <1>5, <3>1
    <3>2. CASE b \in D \ gone
      <4>1. PICK i \in 1 .. n : b = cs[i] \/ b = ss[i]
        BY <1>1, <3>2
      <4>2. CASE b = cs[i]
        <5>1. i # m + 1
          BY <3>2, <4>2
        <5>. QED  BY <1>4, <1>5, <4>2, <5>1
      <4>3. CASE b = ss[i]
        <5>1. i # m + 1 /\ i # m
          BY <3>2, <4>3
        <5>2. PICK k \in 1 .. n - 1 : Before(m, k) = i
          BY <1>4, <5>1
        <5>. QED  BY <1>3, <1>5, <4>3, <5>1, <5>2
      <4>. QED  BY <4>1, <4>2, <4>3
    <3>. QED  BY <1>10, <3>1, <3>2
  <2>. QED  BY <2>1, <2>2
<1>13. ASSUME NEW j \in 1 .. n - 1, NEW k \in 1 .. n - 1
       PROVE  ds[j] # us[k] /\ (j # k => ds[j] # ds[k] /\ us[j] # us[k])
  <2>1. Before(m, j) \in 1 .. n /\ Before(m, k) \in 1 .. n /\ (j # k => Before(m, j) # Before(m, k))
    BY <1>3
  <2>2. s \notin {cs[Before(m, j)]} /\ (j # m => s # ss[Before(m, j)]) /\ (k # m => s # ss[Before(m, k)])
    <3>1. cs[Before(m, j)] \in D \ gone /\ (j # m => ss[Before(m, j)] \in D \ gone)
          /\ (k # m => ss[Before(m, k)] \in D \ gone)
      BY <1>11
    <3>. QED  BY <1>6, <3>1
  <2>3. ds[j] # us[k]
    BY <1>1, <1>5, <2>1, <2>2
  <2>4. j # k => ds[j] # ds[k]
    BY <1>1, <1>5, <2>1
  <2>5. j # k => us[j] # us[k]
    BY <1>1, <1>5, <2>1, <2>2
  <2>. QED  BY <2>3, <2>4, <2>5
<1>14. ASSUME NEW k \in 1 .. n - 1
       PROVE  /\ B[ds[k]] = [string |-> us[k], next |-> IF k = n - 1 THEN NULL ELSE ds[k + 1]]
              /\ B[us[k]] = vs[k]
  <2>1. CASE k = m
    <3>1. ds[k] = c /\ us[k] = s /\ vs[k] = ts[m] \o ts[m + 1]
      BY <1>3, <1>5, <2>1
    <3>2. (IF m + 1 = n THEN NULL ELSE cs[m + 2]) = IF k = n - 1 THEN NULL ELSE ds[k + 1]
      <4>. SUFFICES ASSUME k # n - 1 PROVE cs[m + 2] = ds[k + 1]
        BY <1>1, <2>1
      <4>1. k + 1 \in 1 .. n - 1 /\ Before(m, k + 1) = m + 2
        BY <1>1, <2>1 DEF Before
      <4>. QED  BY <1>5, <4>1
    <3>. QED  BY <1>10, <3>1, <3>2
  <2>2. CASE k # m
    <3>. DEFINE i == Before(m, k)
    <3>1. i \in 1 .. n /\ ds[k] = cs[i] /\ us[k] = ss[i] /\ vs[k] = ts[i]
      BY <1>3, <1>5, <2>2
    <3>2. cs[i] \in D \ gone /\ ss[i] \in D \ gone /\ cs[i] # c /\ cs[i] # s /\ ss[i] # c /\ ss[i] # s
      <4>1. cs[i] \in D \ gone /\ ss[i] \in D \ gone
        BY <1>11, <2>2
      <4>2. i # m
        BY <1>3, <2>2
      <4>3. cs[i] # c /\ ss[i] # c
        BY <1>1, <1>2, <3>1, <4>2
      <4>4. cs[i] # s /\ ss[i] # s
        BY <1>6, <4>1
      <4>. QED  BY <4>1, <4>3, <4>4
    <3>3. B[cs[i]] = blocks[cs[i]] /\ B[ss[i]] = blocks[ss[i]]
      BY <1>10, <3>2
    <3>4. (IF i = n THEN NULL ELSE cs[i + 1]) = IF k = n - 1 THEN NULL ELSE ds[k + 1]
      <4>. k \in Nat /\ 1 <= k /\ k <= n - 1 /\ m \in Nat /\ m <= n - 1 /\ n \in Nat /\ k # m
        <5>1. n \in Nat
          BY <1>1
        <5>. QED  BY <2>2, <5>1
      <4>1. i = n <=> k = n - 1
        BY DEF Before
      <4>2. k # n - 1 => k + 1 \in 1 .. n - 1 /\ Before(m, k + 1) = i + 1
        BY DEF Before
      <4>. QED  BY <1>5, <4>1, <4>2
    <3>. HIDE DEF i
    <3>. QED  BY <1>1, <3>1, <3>3, <3>4
  <2>. QED  BY <2>1, <2>2
<1>15. head = IF n - 1 = 0 THEN NULL ELSE ds[1]
  <2>1. Before(m, 1) = 1
    BY <1>2 DEF Before
  <2>2. n # 0 /\ n - 1 # 0
    BY <1>1, <1>2
  <2>3. head = cs[1] /\ ds[1] = cs[1]
    BY <1>1, <1>2, <1>5, <2>1, <2>2
  <2>. QED  BY <2>2, <2>3
<1>16. Chained(B, head, n - 1, ds, us, vs)
  BY <1>2, <1>8, <1>12, <1>13, <1>14, <1>15 DEF Chained
<1>. QED  BY <1>16 DEF B, ds, us, vs

\* They spell the same, with one string fewer.
LEMMA JoinSpells ==
    ASSUME NEW n \in Nat, NEW ts \in [1 .. n -> Seq(Nat)], NEW M, Spells(n, ts, M), NEW m \in 1 .. n - 1
    PROVE  Spells(n - 1, WithoutBut(n, m, ts, ts[m] \o ts[m + 1]), M)
<1>. DEFINE vs == WithoutBut(n, m, ts, ts[m] \o ts[m + 1])
<1>1. PICK w \in [0 .. n -> Seq(Nat)] :
        /\ w[0] = <<>> /\ \A k \in 1 .. n : w[k] = w[k - 1] \o ts[k]
        /\ w[n] = [i \in 1 .. M |-> M - i]
  BY DEF Spells
<1>. DEFINE v == [k \in 0 .. n - 1 |-> IF k < m THEN w[k] ELSE w[k + 1]]
<1>2. /\ \A k \in 0 .. n - 1 : v[k] = IF k < m THEN w[k] ELSE w[k + 1]
      /\ \A k \in 1 .. n - 1 : vs[k] = IF k = m THEN ts[m] \o ts[m + 1] ELSE ts[Before(m, k)]
  BY DEF WithoutBut
<1>3. v \in [0 .. n - 1 -> Seq(Nat)]
  <2>1. \A k \in 0 .. n - 1 : w[k] \in Seq(Nat) /\ w[k + 1] \in Seq(Nat)
    OBVIOUS
  <2>. QED  BY <2>1
<1>. HIDE DEF v, vs
<1>4. ASSUME NEW k \in 1 .. n - 1
      PROVE  v[k] = v[k - 1] \o vs[k]
  <2>1. k - 1 \in 0 .. n - 1 /\ k \in 0 .. n - 1 /\ k \in 1 .. n /\ k + 1 \in 1 .. n /\ (k + 1) - 1 = k
    OBVIOUS
  <2>2. CASE k < m
    <3>1. Before(m, k) = k /\ k - 1 < m /\ k # m
      BY <2>2 DEF Before
    <3>. QED  BY <1>1, <1>2, <2>1, <2>2, <3>1
  <2>3. CASE k = m
    <3>1. v[k] = w[m + 1] /\ v[k - 1] = w[m - 1] /\ vs[k] = ts[m] \o ts[m + 1]
      <4>1. k - 1 < m /\ ~(k < m)
        BY <2>3
      <4>. QED  BY <1>2, <2>1, <2>3, <4>1
    <3>2. w[m + 1] = w[m] \o ts[m + 1] /\ w[m] = w[m - 1] \o ts[m]
      BY <1>1, <2>1, <2>3
    <3>3. w[m - 1] \in Seq(Nat) /\ ts[m] \in Seq(Nat) /\ ts[m + 1] \in Seq(Nat)
      OBVIOUS
    <3>4. (w[m - 1] \o ts[m]) \o ts[m + 1] = w[m - 1] \o (ts[m] \o ts[m + 1])
      BY <3>3, Associative
    <3>. QED  BY <3>1, <3>2, <3>4
  <2>4. CASE k > m
    <3>1. Before(m, k) = k + 1 /\ ~(k < m) /\ ~(k - 1 < m) /\ k # m /\ (k - 1) + 1 = k
      BY <2>4 DEF Before
    <3>2. v[k] = w[k + 1] /\ v[k - 1] = w[k] /\ vs[k] = ts[k + 1]
      BY <1>2, <2>1, <3>1
    <3>3. w[k + 1] = w[k] \o ts[k + 1]
      BY <1>1, <2>1
    <3>. QED  BY <3>2, <3>3
  <2>5. k < m \/ k = m \/ k > m
    OBVIOUS
  <2>. QED  BY <2>2, <2>3, <2>4, <2>5
<1>5. v[0] = <<>> /\ v[n - 1] = [i \in 1 .. M |-> M - i]
  <2>1. 0 \in 0 .. n - 1 /\ 0 < m /\ n - 1 \in 0 .. n - 1 /\ ~(n - 1 < m) /\ (n - 1) + 1 = n
    OBVIOUS
  <2>2. v[0] = w[0] /\ v[n - 1] = w[n]
    BY <1>2, <2>1
  <2>. QED  BY <1>1, <2>2
<1>6. Spells(n - 1, vs, M)
  <2>1. \A k \in 1 .. n - 1 : v[k] = v[k - 1] \o vs[k]
    BY <1>4
  <2>. QED  BY <1>3, <1>5, <2>1, Zenon DEF Spells
<1>. QED  BY <1>6 DEF vs

\* free_list: the head's cell and string are freed.
LEMMA FreeChained ==
    ASSUME NEW blocks, NEW head, NEW n, NEW cs, NEW ss, NEW ts, Chained(blocks, head, n, cs, ss, ts),
           n # 0
    PROVE  /\ head = cs[1] /\ head \in DOMAIN blocks
           /\ Chained(Drop(blocks, {blocks[head].string, head}), blocks[head].next, n - 1,
                      Rest(n, cs), Rest(n, ss), Rest(n, ts))
<1>. DEFINE B == Drop(blocks, {blocks[head].string, head})
            ds == Rest(n, cs)
            us == Rest(n, ss)
            vs == Rest(n, ts)
            D == DOMAIN blocks
<1>1. /\ n \in Nat /\ cs \in [1 .. n -> Addresses] /\ ss \in [1 .. n -> Addresses]
      /\ ts \in [1 .. n -> Seq(Nat)]
      /\ head = IF n = 0 THEN NULL ELSE cs[1]
      /\ D = {cs[k] : k \in 1 .. n} \cup {ss[k] : k \in 1 .. n}
      /\ \A j, k \in 1 .. n : cs[j] # ss[k] /\ (j # k => cs[j] # cs[k] /\ ss[j] # ss[k])
      /\ \A k \in 1 .. n :
           /\ blocks[cs[k]] = [string |-> ss[k], next |-> IF k = n THEN NULL ELSE cs[k + 1]]
           /\ blocks[ss[k]] = ts[k]
  BY DEF Chained
<1>2. /\ 1 \in 1 .. n /\ head = cs[1] /\ n - 1 \in Nat
      /\ blocks[head].string = ss[1]
      /\ blocks[head].next = IF 1 = n THEN NULL ELSE cs[2]
  <2>1. 1 \in 1 .. n /\ head = cs[1] /\ n - 1 \in Nat
    BY <1>1
  <2>2. blocks[cs[1]] = [string |-> ss[1], next |-> IF 1 = n THEN NULL ELSE cs[2]]
    <3>1. 1 + 1 = 2
      OBVIOUS
    <3>. QED  BY <1>1, <2>1, <3>1
  <2>. QED  BY <2>1, <2>2
<1>3. /\ \A k \in 1 .. n - 1 : k + 1 \in 1 .. n /\ k + 1 # 1 /\ ds[k] = cs[k + 1] /\ us[k] = ss[k + 1]
                               /\ vs[k] = ts[k + 1]
      /\ \A i \in 1 .. n : i # 1 => i - 1 \in 1 .. n - 1 /\ (i - 1) + 1 = i
  BY <1>1 DEF Rest
<1>4. /\ ds \in [1 .. n - 1 -> Addresses] /\ us \in [1 .. n - 1 -> Addresses]
      /\ vs \in [1 .. n - 1 -> Seq(Nat)]
  BY <1>1, <1>3 DEF Rest
<1>. HIDE DEF ds, us, vs, D
<1>5. DOMAIN B = D \ {cs[1], ss[1]} /\ \A b \in DOMAIN B : B[b] = blocks[b]
  BY <1>2 DEF Drop, Restrict, D
<1>. HIDE DEF B
<1>6. \A i \in 1 .. n : i # 1 => cs[i] \in DOMAIN B /\ ss[i] \in DOMAIN B
  BY <1>1, <1>2, <1>5
<1>7. DOMAIN B = {ds[k] : k \in 1 .. n - 1} \cup {us[k] : k \in 1 .. n - 1}
  <2>1. \A k \in 1 .. n - 1 : ds[k] \in DOMAIN B /\ us[k] \in DOMAIN B
    BY <1>3, <1>6
  <2>2. ASSUME NEW b \in DOMAIN B
        PROVE  \E k \in 1 .. n - 1 : b = ds[k] \/ b = us[k]
    <3>1. PICK i \in 1 .. n : b = cs[i] \/ b = ss[i]
      BY <1>1, <1>5
    <3>2. i # 1
      BY <1>5, <3>1
    <3>. QED  BY <1>3, <3>1, <3>2
  <2>. QED  BY <2>1, <2>2
<1>8. \A j, k \in 1 .. n - 1 : ds[j] # us[k] /\ (j # k => ds[j] # ds[k] /\ us[j] # us[k])
  <2>. SUFFICES ASSUME NEW j \in 1 .. n - 1, NEW k \in 1 .. n - 1
                PROVE  ds[j] # us[k] /\ (j # k => ds[j] # ds[k] /\ us[j] # us[k])
    OBVIOUS
  <2>1. j # k => j + 1 # k + 1
    BY <1>1
  <2>. QED  BY <1>1, <1>3, <2>1
<1>9. ASSUME NEW k \in 1 .. n - 1
      PROVE  /\ B[ds[k]] = [string |-> us[k], next |-> IF k = n - 1 THEN NULL ELSE ds[k + 1]]
             /\ B[us[k]] = vs[k]
  <2>1. k + 1 \in 1 .. n /\ ds[k] = cs[k + 1] /\ us[k] = ss[k + 1] /\ vs[k] = ts[k + 1]
        /\ cs[k + 1] \in DOMAIN B /\ ss[k + 1] \in DOMAIN B
    BY <1>3, <1>6
  <2>2. (IF k + 1 = n THEN NULL ELSE cs[(k + 1) + 1]) = IF k = n - 1 THEN NULL ELSE ds[k + 1]
    <3>1. k + 1 = n <=> k = n - 1
      BY <1>1
    <3>2. k # n - 1 => k + 1 \in 1 .. n - 1
      BY <1>1
    <3>. QED  BY <1>3, <3>1, <3>2
  <2>3. B[ds[k]] = blocks[cs[k + 1]] /\ B[us[k]] = blocks[ss[k + 1]]
    BY <1>5, <2>1
  <2>. QED  BY <1>1, <2>1, <2>2, <2>3
<1>10. blocks[head].next = IF n - 1 = 0 THEN NULL ELSE ds[1]
  <2>1. 1 = n <=> n - 1 = 0
    BY <1>1
  <2>2. n - 1 # 0 => 1 \in 1 .. n - 1 /\ 1 + 1 = 2
    BY <1>1
  <2>. QED  BY <1>2, <1>3, <2>1, <2>2
<1>11. Chained(B, blocks[head].next, n - 1, ds, us, vs)
  BY <1>2, <1>4, <1>7, <1>8, <1>9, <1>10 DEF Chained
<1>12. head \in DOMAIN blocks
  BY <1>1, <1>2 DEF D
<1>. QED  BY <1>2, <1>11, <1>12 DEF B, ds, us, vs

\* Where the list goes on after some of its cells, and these with the next one.
Following(cells) == IF cells = <<>> THEN list ELSE live[cells[Len(cells)]].next
WithNext(cells) == IF Following(cells) = NULL THEN cells ELSE Append(cells, Following(cells))

LEMMA NextCell ==
    ASSUME NEW n, NEW cs, NEW ss, NEW ts, Chained(live, list, n, cs, ss, ts),
           NEW l \in 0 .. n, NEW q \in Seq(Addresses), Len(q) = l, \A i \in 1 .. l : q[i] = cs[i]
    PROVE  WithNext(q) = IF l = n THEN q ELSE Append(q, cs[l + 1])
<1>1. /\ n \in Nat /\ cs \in [1 .. n -> Addresses]
      /\ list = IF n = 0 THEN NULL ELSE cs[1]
      /\ \A k \in 1 .. n : live[cs[k]] = [string |-> ss[k], next |-> IF k = n THEN NULL ELSE cs[k + 1]]
  BY DEF Chained
<1>2. Following(q) = IF l = n THEN NULL ELSE cs[l + 1]
  <2>1. CASE l = 0
    <3>1. q = <<>>
      BY <2>1
    <3>2. n = 0 <=> l = n
      BY <2>1
    <3>3. l + 1 = 1
      BY <2>1
    <3>. QED  BY <1>1, <3>1, <3>2, <3>3 DEF Following
  <2>2. CASE l # 0
    <3>1. l \in 1 .. l /\ l \in 1 .. n /\ q # <<>>
      BY <1>1, <2>2
    <3>2. q[Len(q)] = cs[l]
      BY <3>1
    <3>3. live[cs[l]] = [string |-> ss[l], next |-> IF l = n THEN NULL ELSE cs[l + 1]]
      BY <1>1, <3>1
    <3>. QED  BY <3>1, <3>2, <3>3 DEF Following
  <2>. QED  BY <2>1, <2>2
<1>3. CASE l = n
  BY <1>2, <1>3 DEF WithNext
<1>4. CASE l # n
  <2>1. l + 1 \in 1 .. n
    BY <1>1, <1>4
  <2>2. cs[l + 1] # NULL
    BY <1>1, <2>1, SimpleAssumption DEF NULL
  <2>. QED  BY <1>2, <1>4, <2>2 DEF WithNext
<1>. QED  BY <1>3, <1>4

\* Read from the head, the list is the cells in their order.
LEMMA CellsAre ==
    ASSUME NEW n, NEW cs, NEW ss, NEW ts, Chained(live, list, n, cs, ss, ts)
    PROVE  Cells = cs /\ Cells \in Seq(Addresses) /\ Len(Cells) = n /\ DOMAIN Cells = 1 .. n
<1>. DEFINE most == Cardinality(DOMAIN live)
            Joins(f) == [k \in 0 .. most |-> IF k = 0 THEN <<>> ELSE WithNext(f[k - 1])]
            from == CHOOSE f : f = Joins(f)
            part(k) == [i \in 1 .. (IF k < n THEN k ELSE n) |-> cs[i]]
            w == [k \in 0 .. most |-> part(k)]
<1>1. Cells = from[most]
  BY DEF Cells, WithNext, Following
<1>2. n \in Nat /\ cs \in [1 .. n -> Addresses]
  BY DEF Chained
<1>3. most \in Nat /\ n <= most
  BY <1>2, TwoEach
<1>. HIDE DEF most
<1>4. ASSUME NEW k \in Nat
      PROVE  WithNext(part(k)) = part(k + 1)
  <2>1. CASE k >= n
    <3>1. part(k) = cs /\ part(k + 1) = cs /\ cs \in Seq(Addresses) /\ Len(cs) = n
      BY <1>2, <2>1
    <3>2. n \in 0 .. n
      BY <1>2
    <3>3. WithNext(cs) = cs
      BY <3>1, <3>2, NextCell
    <3>. QED  BY <3>1, <3>3
  <2>2. CASE k < n
    <3>. DEFINE q == [i \in 1 .. k |-> cs[i]]
    <3>1. k + 1 \in 1 .. n /\ k \in 0 .. n /\ part(k) = q /\ part(k + 1) = [i \in 1 .. k + 1 |-> cs[i]]
      BY <1>2, <2>2
    <3>2. q \in Seq(Addresses) /\ Len(q) = k /\ \A i \in 1 .. k : q[i] = cs[i]
      BY <1>2, <3>1
    <3>3. Append(q, cs[k + 1]) = [i \in 1 .. k + 1 |-> cs[i]]
      BY <3>1
    <3>4. WithNext(q) = Append(q, cs[k + 1])
      <4>. HIDE DEF q
      <4>1. WithNext(q) = IF k = n THEN q ELSE Append(q, cs[k + 1])
        BY <3>1, <3>2, NextCell
      <4>. QED  BY <1>2, <2>2, <4>1
    <3>. QED  BY <3>1, <3>3, <3>4
  <2>. QED  BY <1>2, <2>1, <2>2
<1>5. part(0) = <<>>
  BY <1>2
<1>. HIDE DEF part
<1>6. from = Joins(from)
  <2>1. w = Joins(w)
    <3>1. ASSUME NEW k \in 0 .. most
          PROVE  w[k] = IF k = 0 THEN <<>> ELSE WithNext(w[k - 1])
      <4>1. CASE k = 0
        BY <1>3, <1>5, <4>1
      <4>2. CASE k # 0
        <5>1. k - 1 \in 0 .. most /\ k - 1 \in Nat /\ (k - 1) + 1 = k
          BY <1>3, <4>2
        <5>2. WithNext(part(k - 1)) = part((k - 1) + 1)
          BY <1>4, <5>1
        <5>. QED  BY <4>2, <5>1, <5>2
      <4>. QED  BY <4>1, <4>2
    <3>. QED  BY <3>1
  <2>. HIDE DEF Joins, w
  <2>. QED  BY <2>1
<1>. HIDE DEF from
<1>7. \A k \in 0 .. most : from[k] = IF k = 0 THEN <<>> ELSE WithNext(from[k - 1])
  BY <1>6
<1>. DEFINE S == {k \in Nat : k <= most => from[k] = part(k)}
<1>8. 0 \in S
  BY <1>3, <1>5, <1>7
<1>9. ASSUME NEW k \in Nat, k \in S PROVE k + 1 \in S
  <2>. SUFFICES ASSUME k + 1 <= most PROVE from[k + 1] = part(k + 1)
    OBVIOUS
  <2>1. k <= most /\ k + 1 \in 0 .. most /\ k + 1 # 0 /\ (k + 1) - 1 = k
    BY <1>3
  <2>2. from[k + 1] = WithNext(from[k])
    <3>1. from[k + 1] = IF k + 1 = 0 THEN <<>> ELSE WithNext(from[(k + 1) - 1])
      BY <1>7, <2>1
    <3>. QED  BY <2>1, <3>1
  <2>. QED  BY <1>4, <1>9, <2>1, <2>2
<1>10. Nat \subseteq S
  <2>. HIDE DEF S
  <2>. QED  BY <1>8, <1>9, InductionOnNat
<1>11. from[most] = part(most)
  BY <1>3, <1>10
<1>12. part(most) = cs
  BY <1>2, <1>3 DEF part
<1>13. Cells = cs
  BY <1>1, <1>11, <1>12
<1>. QED  BY <1>2, <1>13

\* What the strings of the list spell.
LEMMA SpeltIs ==
    ASSUME NEW n, NEW cs, NEW ss, NEW ts, NEW M, Chained(live, list, n, cs, ss, ts), Spells(n, ts, M)
    PROVE  Spelt = [i \in 1 .. M |-> M - i]
<1>. DEFINE Joins(f) == [k \in 0 .. n |-> IF k = 0 THEN <<>> ELSE f[k - 1] \o live[live[cs[k]].string]]
            spelt == CHOOSE f : f = Joins(f)
<1>1. Spelt = spelt[n]
  <2>1. Cells = cs /\ Len(cs) = n
    BY CellsAre
  <2>. QED  BY <2>1 DEF Spelt
<1>2. n \in Nat /\ \A k \in 1 .. n : live[live[cs[k]].string] = ts[k]
  <2>1. n \in Nat /\ \A k \in 1 .. n :
          /\ live[cs[k]] = [string |-> ss[k], next |-> IF k = n THEN NULL ELSE cs[k + 1]]
          /\ live[ss[k]] = ts[k]
    BY DEF Chained
  <2>2. ASSUME NEW k \in 1 .. n PROVE live[cs[k]].string = ss[k]
    <3>1. live[cs[k]] = [string |-> ss[k], next |-> IF k = n THEN NULL ELSE cs[k + 1]]
      BY <2>1
    <3>. QED  BY <3>1
  <2>. QED  BY <2>1, <2>2
<1>3. PICK w \in [0 .. n -> Seq(Nat)] :
        /\ w[0] = <<>> /\ \A k \in 1 .. n : w[k] = w[k - 1] \o ts[k]
        /\ w[n] = [i \in 1 .. M |-> M - i]
  BY DEF Spells
<1>4. spelt = Joins(spelt)
  <2>1. w = Joins(w)
    <3>1. ASSUME NEW k \in 0 .. n
          PROVE  w[k] = IF k = 0 THEN <<>> ELSE w[k - 1] \o live[live[cs[k]].string]
      <4>1. k # 0 => k \in 1 .. n
        BY <1>2
      <4>. QED  BY <1>2, <1>3, <4>1
    <3>. QED  BY <3>1
  <2>. HIDE DEF Joins
  <2>. QED  BY <2>1
<1>. HIDE DEF spelt
<1>5. \A k \in 0 .. n : spelt[k] = IF k = 0 THEN <<>> ELSE spelt[k - 1] \o live[live[cs[k]].string]
  BY <1>4
<1>. DEFINE S == {k \in Nat : k <= n => spelt[k] = w[k]}
<1>6. 0 \in S
  BY <1>2, <1>3, <1>5
<1>7. ASSUME NEW k \in Nat, k \in S PROVE k + 1 \in S
  <2>. SUFFICES ASSUME k + 1 <= n PROVE spelt[k + 1] = w[k + 1]
    OBVIOUS
  <2>1. k <= n /\ k + 1 \in 0 .. n /\ k + 1 \in 1 .. n /\ k + 1 # 0 /\ (k + 1) - 1 = k
    <3>1. n \in Nat
      BY <1>2
    <3>. QED  BY <3>1
  <2>2. spelt[k + 1] = spelt[k] \o ts[k + 1]
    BY <1>2, <1>5, <2>1
  <2>3. w[k + 1] = w[k] \o ts[k + 1]
    BY <1>3, <2>1
  <2>. QED  BY <1>7, <2>1, <2>2, <2>3
<1>8. Nat \subseteq S
  <2>. HIDE DEF S
  <2>. QED  BY <1>6, <1>7, InductionOnNat
<1>9. spelt[n] = w[n]
  BY <1>2, <1>8
<1>. QED  BY <1>1, <1>3, <1>9

LEMMA SimpleStep == SimpleInv /\ [SimpleNext]_simpleVars => SimpleInv'
<1>. SUFFICES ASSUME SimpleInv, [SimpleNext]_simpleVars PROVE SimpleInv'
  OBVIOUS
<1>. USE SimpleAssumption
<1>1. CASE UNCHANGED simpleVars
  <2>1. stage' = stage /\ live' = live /\ list' = list /\ cur' = cur
    BY <1>1 DEF simpleVars
  <2>. QED  BY <2>1 DEF SimpleInv
<1>. SUFFICES ASSUME SimpleNext PROVE SimpleInv'
  BY <1>1
<1>2. stage # "null_write"
  BY DEF SimpleNext, Push, BeginJoin, Round, JoinNext, EndRound, FreeCell, Leave
<1>3. CASE stage' = "null_write"
  BY <1>3 DEF SimpleInv
<1>. SUFFICES ASSUME stage' # "null_write" PROVE SimpleInv'
  BY <1>3
<1>4. PICK n, cs, ss, ts :
        /\ Chained(live, list, n, cs, ss, ts)
        /\ cur \in {NULL} \cup {cs[k] : k \in 1 .. n}
        /\ stage # "join" => cur = NULL
        /\ stage = "push" => Spells(n, ts, n)
        /\ stage = "join" => Spells(n, ts, NumCells)
  BY <1>2 DEF SimpleInv
<1>5. /\ n \in Nat /\ cs \in [1 .. n -> Addresses] /\ ss \in [1 .. n -> Addresses]
      /\ ts \in [1 .. n -> Seq(Nat)]
      /\ list = IF n = 0 THEN NULL ELSE cs[1]
      /\ \A j, k \in 1 .. n : cs[j] # ss[k] /\ (j # k => cs[j] # cs[k] /\ ss[j] # ss[k])
  BY <1>4 DEF Chained
<1>6. ASSUME NEW k \in 1 .. n
      PROVE  /\ live[cs[k]] = [string |-> ss[k], next |-> IF k = n THEN NULL ELSE cs[k + 1]]
             /\ live[cs[k]].string = ss[k] /\ live[cs[k]].next = IF k = n THEN NULL ELSE cs[k + 1]
  <2>1. live[cs[k]] = [string |-> ss[k], next |-> IF k = n THEN NULL ELSE cs[k + 1]]
    BY <1>4 DEF Chained
  <2>. QED  BY <2>1
<1>7. \A k \in 1 .. n : cs[k] # NULL
  BY <1>5 DEF NULL
\* What is left to show, for the list after the step.
<1>8. ASSUME NEW m, NEW ds, NEW us, NEW vs, stage' \in {"push", "join", "free", "ended"},
             Chained(live', list', m, ds, us, vs), cur' \in {NULL} \cup {ds[k] : k \in 1 .. m},
             stage' # "join" => cur' = NULL, stage' = "push" => Spells(m, vs, m),
             stage' = "join" => Spells(m, vs, NumCells)
      PROVE  SimpleInv'
  BY <1>8 DEF SimpleInv
<1>9. stage \in {"push", "join", "free", "ended"}
  BY <1>2 DEF SimpleInv
<1>10. Pushed = n
  <2>1. Cardinality(DOMAIN live) = 2 * n
    BY <1>4, TwoEach
  <2>2. (2 * n) \div 2 = n
    BY <1>5
  <2>. QED  BY <2>1, <2>2 DEF Pushed
<1>11. CASE Push
  <2>0. PICK c \in Fresh(live) : \E s \in Fresh(Put(live, c, <<>>)) :
          /\ NULL \notin {c, s}
          /\ live' = Put(Put(live, c, [string |-> s, next |-> list]), s, <<n>>)
          /\ list' = c /\ UNCHANGED <<stage, cur>> /\ stage = "push"
    BY <1>10, <1>11 DEF Push
  <2>1. PICK s \in Fresh(Put(live, c, <<>>)) :
          /\ NULL \notin {c, s}
          /\ live' = Put(Put(live, c, [string |-> s, next |-> list]), s, <<n>>)
          /\ list' = c /\ UNCHANGED <<stage, cur>> /\ stage = "push"
    BY <2>0
  <2>2. c \in Addresses \ DOMAIN live /\ s \in Addresses \ DOMAIN live /\ c # s /\ <<n>> \in Seq(Nat)
    <3>1. DOMAIN Put(live, c, <<>>) = DOMAIN live \cup {c}
      BY DEF Put
    <3>. QED  BY <1>5, <2>1, <3>1 DEF Fresh
  <2>. DEFINE ds == Led(n, c, cs)
              us == Led(n, s, ss)
              vs == Led(n, <<n>>, ts)
  <2>3. Chained(live', list', n + 1, ds, us, vs)
    <3>1. Chained(Put(Put(live, c, [string |-> s, next |-> list]), s, <<n>>), c, n + 1, ds, us, vs)
      BY <1>4, <2>2, PushChained
    <3>. HIDE DEF ds, us, vs
    <3>. QED  BY <2>1, <3>1
  <2>4. Spells(n + 1, vs, n + 1)
    BY <1>4, <1>5, <2>1, PushSpells
  <2>5. cur' = NULL
    BY <1>4, <2>1
  <2>. HIDE DEF ds, us, vs
  <2>. QED  BY <1>8, <2>1, <2>3, <2>4, <2>5
<1>12. CASE BeginJoin
  <2>1. stage = "push" /\ n = NumCells /\ stage' = "join" /\ UNCHANGED <<live, list, cur>>
    BY <1>10, <1>12 DEF BeginJoin
  <2>2. Chained(live', list', n, cs, ss, ts) /\ cur' = NULL /\ Spells(n, ts, NumCells)
    BY <1>4, <2>1
  <2>. QED  BY <1>8, <2>1, <2>2
<1>13. CASE Round
  <2>1. stage = "join" /\ stage' \in {"join", "free"} /\ UNCHANGED <<live, list>>
        /\ (cur' = NULL \/ (stage' = "join" /\ cur' = list /\ list # NULL))
    BY <1>13 DEF Round
  <2>2. list # NULL => list \in {cs[k] : k \in 1 .. n}
    <3>. SUFFICES ASSUME list # NULL PROVE list \in {cs[k] : k \in 1 .. n}
      OBVIOUS
    <3>1. 1 \in 1 .. n /\ list = cs[1]
      BY <1>5
    <3>. QED  BY <3>1
  <2>3. cur' \in {NULL} \cup {cs[k] : k \in 1 .. n} /\ (stage' # "join" => cur' = NULL)
    BY <1>13, <2>1, <2>2 DEF Round
  <2>4. Chained(live', list', n, cs, ss, ts) /\ Spells(n, ts, NumCells)
    BY <1>4, <2>1
  <2>. QED  BY <1>8, <2>1, <2>3, <2>4
<1>14. CASE JoinNext
  <2>1. PICK s \in {live[cur].string} \cup Fresh(Drop(live, {live[cur].string})) :
          /\ s # NULL /\ live' = Spliced(live, cur, s) /\ cur' = live'[cur].next
          /\ UNCHANGED <<stage, list>> /\ stage = "join" /\ cur # NULL /\ live[cur].next # NULL
    BY <1>14 DEF JoinNext
  <2>2. PICK m \in 1 .. n : cur = cs[m]
    BY <1>4, <2>1
  <2>3. m # n /\ m \in 1 .. n - 1 /\ n - 1 \in Nat
    <3>1. live[cs[m]].next = IF m = n THEN NULL ELSE cs[m + 1]
      BY <1>6
    <3>2. m # n
      BY <2>1, <2>2, <3>1
    <3>. QED  BY <1>5, <3>2
  <2>4. s \in {ss[m]} \cup (Addresses \ (DOMAIN live \ {ss[m]}))
    <3>1. live[cur].string = ss[m]
      BY <1>6, <2>2
    <3>2. DOMAIN Drop(live, {ss[m]}) = DOMAIN live \ {ss[m]}
      BY DEF Drop, Restrict
    <3>. QED  BY <2>1, <3>1, <3>2 DEF Fresh
  <2>. DEFINE ds == Without(n, m, cs)
              us == WithoutBut(n, m, ss, s)
              vs == WithoutBut(n, m, ts, ts[m] \o ts[m + 1])
  <2>5. Chained(live', list', n - 1, ds, us, vs)
    <3>1. Chained(Spliced(live, cs[m], s), list, n - 1, ds, us, vs)
      BY <1>4, <2>3, <2>4, JoinChained
    <3>. HIDE DEF ds, us, vs
    <3>. QED  BY <2>1, <2>2, <3>1
  <2>6. Spells(n - 1, vs, NumCells)
    BY <1>4, <1>5, <2>1, <2>3, JoinSpells
  <2>7. ds[m] = cur
    BY <2>2, <2>3 DEF Before, Without
  <2>. HIDE DEF ds, us, vs
  <2>8. cur' \in {NULL} \cup {ds[k] : k \in 1 .. n - 1}
    <3>1. live'[ds[m]] = [string |-> us[m], next |-> IF m = n - 1 THEN NULL ELSE ds[m + 1]]
      BY <2>3, <2>5 DEF Chained
    <3>2. cur' = IF m = n - 1 THEN NULL ELSE ds[m + 1]
      BY <2>1, <2>7, <3>1
    <3>3. m # n - 1 => m + 1 \in 1 .. n - 1
      BY <2>3
    <3>. QED  BY <3>2, <3>3
  <2>. QED  BY <1>8, <2>1, <2>5, <2>6, <2>8
<1>15. CASE EndRound
  <2>1. stage = "join" /\ cur' = NULL /\ UNCHANGED <<stage, live, list>>
    BY <1>15 DEF EndRound
  <2>2. Chained(live', list', n, cs, ss, ts) /\ Spells(n, ts, NumCells)
    BY <1>4, <2>1
  <2>. QED  BY <1>8, <2>1, <2>2
<1>16. CASE FreeCell
  <2>1. stage = "free" /\ list # NULL /\ live' = Drop(live, {live[list].string, list})
        /\ list' = live[list].next /\ UNCHANGED <<stage, cur>>
    BY <1>16 DEF FreeCell
  <2>2. n # 0
    BY <1>5, <2>1
  <2>. DEFINE ds == Rest(n, cs)
              us == Rest(n, ss)
              vs == Rest(n, ts)
  <2>3. Chained(live', list', n - 1, ds, us, vs)
    <3>1. Chained(Drop(live, {live[list].string, list}), live[list].next, n - 1, ds, us, vs)
      BY <1>4, <2>2, FreeChained
    <3>. HIDE DEF ds, us, vs
    <3>. QED  BY <2>1, <3>1
  <2>4. cur' = NULL
    BY <1>4, <2>1
  <2>. HIDE DEF ds, us, vs
  <2>. QED  BY <1>8, <2>1, <2>3, <2>4
<1>17. CASE Leave
  <2>1. stage = "free" /\ stage' = "ended" /\ UNCHANGED <<live, list, cur>>
    BY <1>17 DEF Leave
  <2>2. Chained(live', list', n, cs, ss, ts) /\ cur' = NULL
    BY <1>4, <2>1
  <2>. QED  BY <1>8, <2>1, <2>2
<1>. QED  BY <1>11, <1>12, <1>13, <1>14, <1>15, <1>16, <1>17 DEF SimpleNext

LEMMA SimpleHolds == SimpleInv => ListOwnsHeap
<1>. SUFFICES ASSUME SimpleInv, stage \in {"push", "join", "free", "ended"} PROVE ListOwnsHeap
  BY DEF ListOwnsHeap
<1>1. PICK n, cs, ss, ts :
        /\ Chained(live, list, n, cs, ss, ts)
        /\ cur \in {NULL} \cup {cs[k] : k \in 1 .. n}
        /\ stage = "join" => Spells(n, ts, NumCells)
  BY DEF SimpleInv
<1>2. Cells = cs /\ Len(Cells) = n /\ DOMAIN Cells = 1 .. n
  BY <1>1, CellsAre
<1>3. /\ n \in Nat /\ list = IF n = 0 THEN NULL ELSE cs[1]
      /\ DOMAIN live = {cs[k] : k \in 1 .. n} \cup {ss[k] : k \in 1 .. n}
  BY <1>1 DEF Chained
<1>4. ASSUME NEW k \in 1 .. n PROVE live[cs[k]].string = ss[k]
  <2>1. live[cs[k]] = [string |-> ss[k], next |-> IF k = n THEN NULL ELSE cs[k + 1]]
    BY <1>1 DEF Chained
  <2>. QED  BY <2>1
<1>5. {list, cur} \subseteq DOMAIN live \cup {NULL}
  <2>1. n # 0 => 1 \in 1 .. n
    BY <1>3
  <2>. QED  BY <1>1, <1>3, <2>1
<1>6. {Cells[k] : k \in DOMAIN Cells} \cup {live[Cells[k]].string : k \in DOMAIN Cells} = DOMAIN live
  <2>1. {live[cs[k]].string : k \in 1 .. n} = {ss[k] : k \in 1 .. n}
    BY <1>4
  <2>. QED  BY <1>2, <1>3, <2>1
<1>7. Cardinality(DOMAIN live) = 2 * Len(Cells)
  BY <1>1, <1>2, TwoEach
<1>8. stage = "join" => Spelt = [i \in 1 .. NumCells |-> NumCells - i]
  BY <1>1, SpeltIs
<1>. QED  BY <1>5, <1>6, <1>7, <1>8 DEF ListOwnsHeap

\* However many cells are pushed and whatever addresses the allocator answers:
\* until a write to NULL, the list's cells and strings are exactly the live
\* blocks, each the part of one cell, and while the neighbours are joined the
\* strings spell all the numbers, the last first (simple.c 21-64).
THEOREM ListOwned == SimpleInit /\ [][SimpleNext]_simpleVars => []ListOwnsHeap
<1>1. SimpleInit => SimpleInv
  <2>. SUFFICES ASSUME SimpleInit PROVE SimpleInv
    OBVIOUS
  <2>. DEFINE none == [k \in 1 .. 0 |-> <<>>]
  <2>1. none \in [1 .. 0 -> Addresses] /\ none \in [1 .. 0 -> Seq(Nat)]
    OBVIOUS
  <2>2. stage = "push" /\ DOMAIN live = {} /\ list = NULL /\ cur = NULL
    BY DEF SimpleInit, SimpleZero
  <2>. HIDE DEF none
  <2>3. Chained(live, list, 0, none, none, none)
    BY <2>1, <2>2 DEF Chained
  <2>4. Spells(0, none, 0)
    <3>. DEFINE w == [k \in 0 .. 0 |-> <<>>]
    <3>1. w \in [0 .. 0 -> Seq(Nat)] /\ w[0] = <<>> /\ w[0] = [i \in 1 .. 0 |-> 0 - i]
      OBVIOUS
    <3>. HIDE DEF w
    <3>. QED  BY <3>1 DEF Spells
  <2>. QED  BY <2>2, <2>3, <2>4 DEF SimpleInv
<1>. QED  BY <1>1, SimpleStep, SimpleHolds, PTL

(***************************************************************************)
(* The cycle timer                                                         *)
(***************************************************************************)
\* The two halves of a counter value name it.
LEMMA HalvesFacts ==
    ASSUME NEW t \in 0 .. HalfMod * HalfMod - 1
    PROVE  /\ Halves(t).hi \in 0 .. HalfMod - 1 /\ Halves(t).lo \in 0 .. HalfMod - 1
           /\ Halves(t) \in [hi : 0 .. HalfMod - 1, lo : 0 .. HalfMod - 1]
           /\ t = Halves(t).hi * HalfMod + Halves(t).lo
<1>. DEFINE hi == t \div HalfMod
            lo == t % HalfMod
<1>1. HalfMod \in Nat \ {0} /\ HalfMod * HalfMod \in Nat /\ t \in Nat
  BY SamplerAssumption
<1>2. hi \in Nat /\ lo \in 0 .. HalfMod - 1 /\ t = HalfMod * hi + lo
  BY <1>1, DivideBy, Zenon
<1>3. Halves(t) = [hi |-> hi, lo |-> lo]
  BY DEF Halves
<1>. HIDE DEF hi, lo
<1>4. hi < HalfMod
  <2>. SUFFICES ASSUME HalfMod <= hi PROVE FALSE
    BY <1>1, <1>2
  <2>1. HalfMod * HalfMod <= hi * HalfMod
    BY <1>1, <1>2, TimesMonotone
  <2>2. hi * HalfMod = HalfMod * hi /\ HalfMod * hi \in Nat
    BY <1>1, <1>2
  <2>. QED  BY <1>1, <1>2, <2>1, <2>2
<1>5. HalfMod * hi = hi * HalfMod
  BY <1>1, <1>2
<1>. QED  BY <1>1, <1>2, <1>3, <1>4, <1>5

\* get_counter's subtraction in halves is the subtraction of the two counter
\* values, wherever the border between the halves lies (62-75).
LEMMA CounterExact ==
    ASSUME NEW s \in Nat, NEW d \in Nat, s + d < HalfMod * HalfMod
    PROVE  GetCounter(Halves(s), Halves(s + d)) = d
<1>. DEFINE sh == Halves(s).hi
            sl == Halves(s).lo
            nh == Halves(s + d).hi
            nl == Halves(s + d).lo
<1>1. HalfMod \in Nat \ {0} /\ s \in 0 .. HalfMod * HalfMod - 1 /\ s + d \in 0 .. HalfMod * HalfMod - 1
  BY SamplerAssumption
<1>2. /\ sh \in 0 .. HalfMod - 1 /\ sl \in 0 .. HalfMod - 1 /\ s = sh * HalfMod + sl
      /\ nh \in 0 .. HalfMod - 1 /\ nl \in 0 .. HalfMod - 1 /\ s + d = nh * HalfMod + nl
  BY <1>1, HalvesFacts
<1>3. GetCounter(Halves(s), Halves(s + d))
        = LET lo     == (nl - sl) % HalfMod
              borrow == IF lo > nl THEN 1 ELSE 0
              hi     == (nh - sh - borrow) % HalfMod
          IN  hi * HalfMod + lo
  BY DEF GetCounter
<1>. HIDE DEF sh, sl, nh, nl
<1>4. d = (nh - sh) * HalfMod + (nl - sl)
  <2>1. (nh - sh) * HalfMod = nh * HalfMod - sh * HalfMod /\ nh * HalfMod \in Nat /\ sh * HalfMod \in Nat
    BY <1>1, <1>2
  <2>. QED  BY <1>1, <1>2, <2>1
<1>5. CASE nl >= sl
  <2>1. (nl - sl) % HalfMod = nl - sl /\ ~(nl - sl > nl)
    BY <1>1, <1>2, <1>5, RemainderNear
  <2>2. nh >= sh
    <3>. SUFFICES ASSUME nh <= sh - 1 PROVE FALSE
      BY <1>2
    <3>1. (sh - nh - 1) * HalfMod >= 0
      BY <1>1, <1>2
    <3>2. (nh - sh) * HalfMod = -((sh - nh - 1) * HalfMod) - HalfMod
      BY <1>1, <1>2
    <3>. QED  BY <1>1, <1>2, <1>4, <3>1, <3>2
  <2>3. (nh - sh - 0) % HalfMod = nh - sh
    BY <1>1, <1>2, <2>2, RemainderNear
  <2>. QED  BY <1>3, <1>4, <2>1, <2>3
<1>6. CASE nl < sl
  <2>1. (nl - sl) % HalfMod = nl - sl + HalfMod /\ nl - sl + HalfMod > nl
    BY <1>1, <1>2, <1>6, RemainderNear
  <2>2. nh > sh
    <3>. SUFFICES ASSUME nh <= sh PROVE FALSE
      BY <1>2
    <3>1. (sh - nh) * HalfMod >= 0
      BY <1>1, <1>2
    <3>2. (nh - sh) * HalfMod = -((sh - nh) * HalfMod)
      BY <1>1, <1>2
    <3>. QED  BY <1>1, <1>2, <1>4, <1>6, <3>1, <3>2
  <2>3. (nh - sh - 1) % HalfMod = nh - sh - 1
    BY <1>1, <1>2, <2>2, RemainderNear
  <2>4. (nh - sh - 1) * HalfMod + (nl - sl + HalfMod) = (nh - sh) * HalfMod + (nl - sl)
    BY <1>1, <1>2
  <2>. QED  BY <1>3, <1>4, <2>1, <2>3, <2>4
<1>. QED  BY <1>2, <1>5, <1>6

-----------------------------------------------------------------------------
\* The first n of v are in ascending order.
Ascending(v, n) == \A i, j \in 0 .. n - 1 : i < j => v[i] <= v[j]

\* Those of the first n that are at most x, and the samples that are.
AtMost(v, n, x) == {i \in 0 .. n - 1 : v[i] <= x}
Below(s, x) == {j \in DOMAIN s : s[j] <= x}

\* The places of v that hold samples when count were added.
Filled(count) == IF count < KBest THEN count ELSE KBest

\* v holds the smallest of the samples s, in order: as many at most x as there
\* are samples at most x, up to kbest.
Good(v, count, s) ==
    /\ v \in [0 .. KBest - 1 -> Nat] /\ s \in Seq(Nat) /\ count \in Nat /\ Len(s) = count
    /\ Ascending(v, Filled(count))
    /\ \A x \in Nat : Cardinality(AtMost(v, Filled(count), x))
                        = IF Cardinality(Below(s, x)) < KBest THEN Cardinality(Below(s, x)) ELSE KBest

\* The sets of the invariant are finite.
LEMMA FiniteParts ==
    /\ \A v : \A n \in Nat, x \in Nat : IsFiniteSet(AtMost(v, n, x))
                /\ Cardinality(AtMost(v, n, x)) \in Nat /\ Cardinality(AtMost(v, n, x)) <= n
    /\ \A s \in Seq(Nat), x \in Nat : IsFiniteSet(Below(s, x)) /\ Cardinality(Below(s, x)) \in Nat
<1>1. ASSUME NEW v, NEW n \in Nat, NEW x \in Nat
      PROVE  /\ IsFiniteSet(AtMost(v, n, x))
             /\ Cardinality(AtMost(v, n, x)) \in Nat /\ Cardinality(AtMost(v, n, x)) <= n
  <2>1. IsFiniteSet(0 .. n - 1) /\ Cardinality(0 .. n - 1) = n
    BY FS_Interval
  <2>2. AtMost(v, n, x) \in SUBSET (0 .. n - 1)
    BY DEF AtMost
  <2>. QED  BY <2>1, <2>2, FS_Subset, FS_CardinalityType
<1>2. ASSUME NEW s \in Seq(Nat), NEW x \in Nat
      PROVE  IsFiniteSet(Below(s, x)) /\ Cardinality(Below(s, x)) \in Nat
  <2>1. IsFiniteSet(1 .. Len(s))
    BY FS_Interval
  <2>2. Below(s, x) \in SUBSET (1 .. Len(s))
    BY DEF Below
  <2>. QED  BY <2>1, <2>2, FS_Subset, FS_CardinalityType
<1>. QED  BY <1>1, <1>2

\* Where the insertion sort puts val: the greater ones move right by one, the
\* others stay (add_sample 130-136).
LEMMA SortedInPlace ==
    ASSUME NEW v \in [0 .. KBest - 1 -> Nat], NEW pos \in 0 .. KBest - 1, NEW val \in Nat
    PROVE  /\ SortedIn(v, pos, val) \in [0 .. KBest - 1 -> Nat]
           /\ \E p \in 0 .. pos :
                /\ \A i \in 0 .. p - 1 : SortedIn(v, pos, val)[i] = v[i]
                /\ SortedIn(v, pos, val)[p] = val
                /\ \A i \in p + 1 .. pos : SortedIn(v, pos, val)[i] = v[i - 1]
                /\ \A i \in p .. pos - 1 : v[i] > val
                /\ p > 0 => v[p - 1] <= val
<1>. DEFINE stop == {i \in 0 .. pos : \A j \in i .. pos - 1 : v[j] > val}
            p    == CHOOSE i \in stop : \A j \in stop : i <= j
            w    == [i \in 0 .. KBest - 1 |->
                       IF i < p \/ i > pos THEN v[i] ELSE IF i = p THEN val ELSE v[i - 1]]
<1>1. KBest \in Nat \ {0} /\ pos \in Nat
  BY SamplerAssumption
<1>2. stop \in SUBSET Nat /\ pos \in stop
  BY <1>1
<1>3. p \in stop /\ \A j \in stop : p <= j
  <2>. HIDE DEF stop
  <2>1. \E i \in stop : \A j \in stop : i <= j
    BY <1>2, LeastExists
  <2>. QED  BY <2>1
<1>4. SortedIn(v, pos, val) = w
  BY DEF SortedIn
<1>. HIDE DEF p
<1>5. p \in 0 .. pos /\ \A j \in p .. pos - 1 : v[j] > val
  BY <1>3
<1>6. p > 0 => v[p - 1] <= val
  <2>. SUFFICES ASSUME p > 0, ~(v[p - 1] <= val) PROVE FALSE
    OBVIOUS
  <2>1. p - 1 \in 0 .. pos /\ p - 1 \in 0 .. KBest - 1 /\ v[p - 1] > val
    BY <1>1, <1>5
  <2>2. ASSUME NEW j \in p - 1 .. pos - 1 PROVE v[j] > val
    <3>1. j = p - 1 \/ j \in p .. pos - 1
      BY <1>1, <1>5
    <3>. QED  BY <1>5, <2>1, <3>1
  <2>3. p - 1 \in stop
    BY <2>1, <2>2
  <2>. HIDE DEF stop
  <2>. QED  BY <1>1, <1>3, <1>5, <2>3
<1>7. w \in [0 .. KBest - 1 -> Nat]
  BY <1>1, <1>5
<1>8. /\ \A i \in 0 .. p - 1 : w[i] = v[i]
      /\ w[p] = val
      /\ \A i \in p + 1 .. pos : w[i] = v[i - 1]
  BY <1>1, <1>5
<1>. HIDE DEF w, stop
<1>. QED  BY <1>4, <1>5, <1>6, <1>7, <1>8

\* The insertion sort keeps the order, and adds val to what is at most x.
LEMMA SortedInGood ==
    ASSUME NEW v \in [0 .. KBest - 1 -> Nat], NEW pos \in 0 .. KBest - 1, NEW val \in Nat,
           Ascending(v, pos)
    PROVE  LET w == SortedIn(v, pos, val)
           IN  /\ Ascending(w, pos + 1)
               /\ \A x \in Nat : Cardinality(AtMost(w, pos + 1, x))
                                   = Cardinality(AtMost(v, pos, x)) + (IF val <= x THEN 1 ELSE 0)
<1>. DEFINE w == SortedIn(v, pos, val)
<1>1. KBest \in Nat \ {0} /\ pos \in Nat /\ pos + 1 \in Nat
  BY SamplerAssumption
<1>2. w \in [0 .. KBest - 1 -> Nat]
  BY SortedInPlace
<1>3. PICK p \in 0 .. pos :
        /\ \A i \in 0 .. p - 1 : w[i] = v[i]
        /\ w[p] = val
        /\ \A i \in p + 1 .. pos : w[i] = v[i - 1]
        /\ \A i \in p .. pos - 1 : v[i] > val
        /\ p > 0 => v[p - 1] <= val
  BY SortedInPlace
<1>. HIDE DEF w
<1>4. \A i \in 0 .. p - 1 : v[i] <= val
  <2>. SUFFICES ASSUME NEW i \in 0 .. p - 1 PROVE v[i] <= val
    OBVIOUS
  <2>1. v[i] \in Nat /\ v[p - 1] \in Nat /\ v[p - 1] <= val
    BY <1>1, <1>3
  <2>2. i < p - 1 => v[i] <= v[p - 1]
    BY <1>1, <1>3 DEF Ascending
  <2>. QED  BY <1>1, <2>1, <2>2
<1>5. Ascending(w, pos + 1)
  <2>. SUFFICES ASSUME NEW i \in 0 .. pos, NEW j \in 0 .. pos, i < j
                PROVE  w[i] <= w[j]
    BY <1>1 DEF Ascending
  <2>0. \A k \in 0 .. pos : k \in 0 .. KBest - 1
    BY <1>1
  <2>1. CASE j < p
    BY <1>1, <1>3, <2>1 DEF Ascending
  <2>2. CASE j = p
    BY <1>1, <1>3, <1>4, <2>2
  <2>3. CASE i < p /\ j > p
    <3>1. w[i] = v[i] /\ w[j] = v[j - 1] /\ v[i] <= val /\ v[j - 1] > val
      BY <1>1, <1>3, <1>4, <2>3
    <3>2. v[i] \in Nat /\ v[j - 1] \in Nat
      BY <1>1, <2>0, <2>3
    <3>. QED  BY <3>1, <3>2
  <2>4. CASE i = p
    <3>1. w[i] = val /\ w[j] = v[j - 1] /\ v[j - 1] > val
      BY <1>1, <1>3, <2>4
    <3>2. v[j - 1] \in Nat
      BY <1>1, <2>0, <2>4
    <3>. QED  BY <3>1, <3>2
  <2>5. CASE i > p
    <3>1. w[i] = v[i - 1] /\ w[j] = v[j - 1]
      BY <1>1, <1>3, <2>5
    <3>2. v[i - 1] <= v[j - 1]
      BY <1>1, <1>3, <2>5 DEF Ascending
    <3>. QED  BY <3>1, <3>2
  <2>. QED  BY <1>1, <1>3, <2>1, <2>2, <2>3, <2>4, <2>5
<1>6. ASSUME NEW x \in Nat
      PROVE  Cardinality(AtMost(w, pos + 1, x))
               = Cardinality(AtMost(v, pos, x)) + (IF val <= x THEN 1 ELSE 0)
  <2>. DEFINE A == AtMost(v, pos, x)
              B == AtMost(w, pos + 1, x) \ {p}
              f == [i \in A |-> IF i < p THEN i ELSE i + 1]
  <2>1. IsFiniteSet(A) /\ IsFiniteSet(AtMost(w, pos + 1, x)) /\ Cardinality(A) \in Nat
    BY <1>1, FiniteParts
  <2>2. \A i \in A : i \in 0 .. pos - 1 /\ v[i] <= x
    BY DEF AtMost
  <2>3. \A i \in B : i \in 0 .. pos /\ i # p /\ w[i] <= x
    BY <1>1 DEF AtMost
  <2>4. \A i \in 0 .. pos : i # p /\ w[i] <= x => i \in B
    BY <1>1 DEF AtMost
  <2>5. \A i \in 0 .. pos - 1 : v[i] <= x => i \in A
    BY DEF AtMost
  <2>6. p \in AtMost(w, pos + 1, x) <=> val <= x
    BY <1>1, <1>3 DEF AtMost
  <2>. HIDE DEF A, B
  <2>7. f \in [A -> B]
    <3>. SUFFICES ASSUME NEW i \in A PROVE (IF i < p THEN i ELSE i + 1) \in B
      OBVIOUS
    <3>1. CASE i < p
      BY <1>1, <1>3, <2>2, <2>4, <3>1
    <3>2. CASE i >= p
      <4>1. i + 1 \in p + 1 .. pos /\ w[i + 1] = v[i]
        BY <1>1, <1>3, <2>2, <3>2
      <4>. QED  BY <1>1, <2>2, <2>4, <3>2, <4>1
    <3>. QED  BY <1>1, <2>2, <3>1, <3>2
  <2>8. \A i, j \in A : f[i] = f[j] => i = j
    BY <1>1, <2>2
  <2>9. ASSUME NEW j \in B PROVE \E i \in A : f[i] = j
    <3>1. CASE j < p
      <4>1. j \in A /\ f[j] = j
        BY <1>1, <1>3, <2>3, <2>5, <3>1
      <4>. QED  BY <4>1
    <3>2. CASE j > p
      <4>1. j - 1 \in 0 .. pos - 1 /\ w[j] = v[j - 1] /\ ~(j - 1 < p)
        BY <1>1, <1>3, <2>3, <3>2
      <4>2. j - 1 \in A /\ f[j - 1] = j
        BY <2>3, <2>5, <4>1
      <4>. QED  BY <4>2
    <3>. QED  BY <1>1, <2>3, <3>1, <3>2
  <2>10. Cardinality(B) = Cardinality(A)
    <3>. HIDE DEF f
    <3>. QED  BY <2>1, <2>7, <2>8, <2>9, SameNumber
  <2>11. Cardinality(B) = IF p \in AtMost(w, pos + 1, x)
                          THEN Cardinality(AtMost(w, pos + 1, x)) - 1
                          ELSE Cardinality(AtMost(w, pos + 1, x))
    BY <2>1, FS_RemoveElement DEF B
  <2>12. Cardinality(AtMost(w, pos + 1, x)) \in Nat
    BY <2>1, FS_CardinalityType
  <2>. QED  BY <2>1, <2>6, <2>10, <2>11, <2>12 DEF A
<1>. QED  BY <1>5, <1>6 DEF w

\* A sample more: at most x are as many more as it is itself.
LEMMA BelowAppend ==
    ASSUME NEW s \in Seq(Nat), NEW val \in Nat, NEW x \in Nat
    PROVE  Cardinality(Below(Append(s, val), x))
             = Cardinality(Below(s, x)) + (IF val <= x THEN 1 ELSE 0)
<1>. DEFINE n == Len(s) + 1
            t == Append(s, val)
<1>1. /\ Len(s) \in Nat /\ DOMAIN s = 1 .. Len(s) /\ DOMAIN t = 1 .. n
      /\ t[n] = val /\ \A j \in 1 .. Len(s) : t[j] = s[j]
  OBVIOUS
<1>2. IsFiniteSet(Below(s, x)) /\ Cardinality(Below(s, x)) \in Nat /\ n \notin Below(s, x)
  <2>1. n \notin Below(s, x)
    BY <1>1 DEF Below
  <2>. QED  BY <2>1, FiniteParts
<1>3. Below(t, x) = IF val <= x THEN Below(s, x) \cup {n} ELSE Below(s, x)
  <2>. HIDE DEF t
  <2>. QED  BY <1>1 DEF Below
<1>4. Cardinality(Below(s, x) \cup {n}) = Cardinality(Below(s, x)) + 1
  <2>. HIDE DEF n
  <2>. QED  BY <1>2, FS_AddElement
<1>. QED  BY <1>2, <1>3, <1>4

\* An array without samples is good.
LEMMA EmptyGood == Good([i \in 0 .. KBest - 1 |-> 0], 0, <<>>)
<1>. DEFINE z == [i \in 0 .. KBest - 1 |-> 0]
<1>1. KBest \in Nat \ {0} /\ Filled(0) = 0
  BY SamplerAssumption DEF Filled
<1>2. z \in [0 .. KBest - 1 -> Nat] /\ <<>> \in Seq(Nat) /\ Len(<<>>) = 0
  OBVIOUS
<1>. HIDE DEF z
<1>3. ASSUME NEW x \in Nat
      PROVE  Cardinality(AtMost(z, 0, x)) = 0 /\ Cardinality(Below(<<>>, x)) = 0
  <2>1. AtMost(z, 0, x) = {}
    BY DEF AtMost
  <2>2. Below(<<>>, x) = {}
    BY DEF Below
  <2>. QED  BY <2>1, <2>2, FS_EmptySet
<1>4. Ascending(z, 0)
  BY DEF Ascending
<1>5. Good(z, 0, <<>>)
  BY <1>1, <1>2, <1>3, <1>4 DEF Good
<1>. QED  BY <1>5 DEF z

\* Of a full array all are at most x if the last is, and fewer if it is not.
LEMMA FullCount ==
    ASSUME NEW v \in [0 .. KBest - 1 -> Nat], NEW x \in Nat, Ascending(v, KBest)
    PROVE  /\ v[KBest - 1] <= x => Cardinality(AtMost(v, KBest, x)) = KBest
           /\ v[KBest - 1] > x => AtMost(v, KBest, x) = AtMost(v, KBest - 1, x)
           /\ v[KBest - 1] > x => Cardinality(AtMost(v, KBest, x)) < KBest
           /\ v[KBest - 1] <= x => Cardinality(AtMost(v, KBest - 1, x)) = KBest - 1
<1>1. KBest \in Nat \ {0} /\ KBest - 1 \in Nat /\ \A i \in 0 .. KBest - 1 : v[i] \in Nat
  BY SamplerAssumption
<1>2. \A i \in 0 .. KBest - 1 : v[i] <= v[KBest - 1]
  BY <1>1 DEF Ascending
<1>3. CASE v[KBest - 1] <= x
  <2>1. \A i \in 0 .. KBest - 1 : v[i] <= x
    BY <1>1, <1>2, <1>3
  <2>2. AtMost(v, KBest, x) = 0 .. KBest - 1 /\ AtMost(v, KBest - 1, x) = 0 .. (KBest - 1) - 1
    BY <1>1, <2>1 DEF AtMost
  <2>3. Cardinality(0 .. KBest - 1) = KBest /\ Cardinality(0 .. (KBest - 1) - 1) = KBest - 1
    BY <1>1, FS_Interval
  <2>. QED  BY <1>1, <1>3, <2>2, <2>3
<1>4. CASE v[KBest - 1] > x
  <2>1. AtMost(v, KBest, x) = AtMost(v, KBest - 1, x)
    BY <1>1, <1>4 DEF AtMost
  <2>2. Cardinality(AtMost(v, KBest - 1, x)) \in Nat /\ Cardinality(AtMost(v, KBest - 1, x)) <= KBest - 1
    BY <1>1, FiniteParts
  <2>. QED  BY <1>1, <1>4, <2>1, <2>2
<1>5. v[KBest - 1] \in Nat
  BY <1>1
<1>. QED  BY <1>3, <1>4, <1>5

\* add_sample keeps the array good: below kbest samples, at it and above it.
LEMMA KeptGood ==
    ASSUME NEW v, NEW count, NEW s, Good(v, count, s), NEW val \in Nat
    PROVE  Good(Kept(v, count, val), count + 1, Append(s, val))
<1>. DEFINE w == Kept(v, count, val)
            C(x) == Cardinality(Below(s, x))
            D(x) == Cardinality(Below(Append(s, val), x))
            one(x) == IF val <= x THEN 1 ELSE 0
<1>. SUFFICES Good(w, count + 1, Append(s, val))
  OBVIOUS
<1>. HIDE DEF w
<1>1. /\ v \in [0 .. KBest - 1 -> Nat] /\ s \in Seq(Nat) /\ count \in Nat /\ Len(s) = count
      /\ Ascending(v, Filled(count)) /\ KBest \in Nat \ {0}
  BY SamplerAssumption DEF Good
<1>2. Append(s, val) \in Seq(Nat) /\ Len(Append(s, val)) = count + 1
  BY <1>1
<1>3. \A x \in Nat : /\ D(x) = C(x) + one(x) /\ C(x) \in Nat
                     /\ Cardinality(AtMost(v, Filled(count), x)) = IF C(x) < KBest THEN C(x) ELSE KBest
  BY <1>1, BelowAppend, FiniteParts DEF Good
<1>4. CASE count < KBest
  <2>1. Filled(count) = count /\ Filled(count + 1) = count + 1 /\ count \in 0 .. KBest - 1
    BY <1>1, <1>4 DEF Filled
  <2>2. w = SortedIn(v, count, val)
    BY <1>4 DEF Kept, w
  <2>3. w \in [0 .. KBest - 1 -> Nat]
    BY <1>1, <2>1, <2>2, SortedInPlace
  <2>4. /\ Ascending(w, count + 1)
        /\ \A x \in Nat : Cardinality(AtMost(w, count + 1, x)) = Cardinality(AtMost(v, count, x)) + one(x)
    BY <1>1, <2>1, <2>2, SortedInGood
  <2>5. ASSUME NEW x \in Nat
        PROVE  Cardinality(AtMost(w, count + 1, x)) = IF D(x) < KBest THEN D(x) ELSE KBest
    <3>1. Cardinality(AtMost(v, count, x)) = IF C(x) < KBest THEN C(x) ELSE KBest
      BY <1>3, <2>1
    <3>2. Cardinality(AtMost(v, count, x)) <= count
      BY <1>1, FiniteParts
    <3>3. D(x) = C(x) + one(x) /\ C(x) \in Nat
      BY <1>3
    <3>4. C(x) < KBest /\ C(x) <= count
      BY <1>1, <1>4, <3>1, <3>2, <3>3
    <3>5. Cardinality(AtMost(w, count + 1, x)) = D(x) /\ D(x) <= KBest
      BY <1>1, <1>4, <2>4, <3>1, <3>3, <3>4
    <3>. QED  BY <1>1, <3>3, <3>5
  <2>. QED  BY <1>1, <1>2, <2>1, <2>3, <2>4, <2>5 DEF Good
<1>5. CASE count >= KBest
  <2>1. Filled(count) = KBest /\ Filled(count + 1) = KBest
    BY <1>1, <1>5 DEF Filled
  <2>2. KBest - 1 \in 0 .. KBest - 1 /\ v[KBest - 1] \in Nat /\ Ascending(v, KBest)
    BY <1>1, <2>1
  <2>3. CASE val < v[KBest - 1]
    <3>1. w = SortedIn(v, KBest - 1, val)
      BY <1>1, <1>5, <2>3 DEF Kept, w
    <3>2. w \in [0 .. KBest - 1 -> Nat]
      BY <1>1, <2>2, <3>1, SortedInPlace
    <3>3. Ascending(v, KBest - 1)
      BY <1>1, <2>2 DEF Ascending
    <3>4. (KBest - 1) + 1 = KBest
      BY <1>1
    <3>5. /\ Ascending(w, KBest)
          /\ \A x \in Nat : Cardinality(AtMost(w, KBest, x)) = Cardinality(AtMost(v, KBest - 1, x)) + one(x)
      BY <1>1, <2>2, <3>1, <3>3, <3>4, SortedInGood
    <3>6. ASSUME NEW x \in Nat
          PROVE  Cardinality(AtMost(w, KBest, x)) = IF D(x) < KBest THEN D(x) ELSE KBest
      <4>1. /\ D(x) = C(x) + one(x) /\ C(x) \in Nat
            /\ Cardinality(AtMost(v, KBest, x)) = IF C(x) < KBest THEN C(x) ELSE KBest
            /\ Cardinality(AtMost(w, KBest, x)) = Cardinality(AtMost(v, KBest - 1, x)) + one(x)
        BY <1>3, <2>1, <3>5
      <4>2. CASE v[KBest - 1] <= x
        <5>1. Cardinality(AtMost(v, KBest, x)) = KBest /\ Cardinality(AtMost(v, KBest - 1, x)) = KBest - 1
          BY <1>1, <2>2, <4>2, FullCount
        <5>2. one(x) = 1
          BY <2>2, <2>3, <4>2
        <5>. QED  BY <1>1, <4>1, <5>1, <5>2
      <4>3. CASE v[KBest - 1] > x
        <5>1. /\ AtMost(v, KBest, x) = AtMost(v, KBest - 1, x)
              /\ Cardinality(AtMost(v, KBest, x)) < KBest
          BY <1>1, <2>2, <4>3, FullCount
        <5>2. Cardinality(AtMost(v, KBest - 1, x)) = C(x) /\ C(x) < KBest
          BY <1>1, <4>1, <5>1
        <5>3. one(x) \in {0, 1}
          OBVIOUS
        <5>4. Cardinality(AtMost(w, KBest, x)) = D(x) /\ D(x) \in Nat /\ D(x) <= KBest
          BY <1>1, <4>1, <5>2, <5>3
        <5>. QED  BY <1>1, <5>4
      <4>. QED  BY <2>2, <4>2, <4>3
    <3>. QED  BY <1>1, <1>2, <2>1, <3>2, <3>5, <3>6 DEF Good
  <2>4. CASE val >= v[KBest - 1]
    <3>1. w = v
      BY <1>1, <1>5, <2>2, <2>4 DEF Kept, w
    <3>2. ASSUME NEW x \in Nat
          PROVE  Cardinality(AtMost(v, KBest, x)) = IF D(x) < KBest THEN D(x) ELSE KBest
      <4>1. /\ D(x) = C(x) + one(x) /\ C(x) \in Nat /\ one(x) \in {0, 1}
            /\ Cardinality(AtMost(v, KBest, x)) = IF C(x) < KBest THEN C(x) ELSE KBest
        BY <1>3, <2>1
      <4>2. CASE v[KBest - 1] <= x
        <5>1. Cardinality(AtMost(v, KBest, x)) = KBest
          BY <1>1, <2>2, <4>2, FullCount
        <5>. QED  BY <1>1, <4>1, <5>1
      <4>3. CASE v[KBest - 1] > x
        <5>1. one(x) = 0
          BY <2>2, <2>4, <4>3
        <5>. QED  BY <1>1, <4>1, <5>1
      <4>. QED  BY <2>2, <4>2, <4>3
    <3>. QED  BY <1>1, <1>2, <2>1, <2>2, <3>1, <3>2 DEF Good
  <2>. QED  BY <2>2, <2>3, <2>4
<1>. QED  BY <1>1, <1>4, <1>5

-----------------------------------------------------------------------------
\* The sampler while a call uses it: the array is good, the limit is not
\* reached before a run, and a sample was added before the test.
Sampling ==
    /\ at \in {"clear", "run", "add", "test"} => Good(values, samplecount, samples)
    /\ at \in {"clear", "run", "add"} => samplecount < MaxSamples
    /\ at = "test" => samplecount >= 1

FcycInv == FcycTypeOK /\ ReadingExact /\ Sampling

\* What the timed function takes is what the counter shows (mhz 81-86, fcyc 192).
LEMMA MeasuredExactly ==
    ASSUME NEW r \in Readings, NEW t \in Times, cyc' = Halves(r), took' = t
    PROVE  Reading' = t
<1>1. r \in 0 .. HalfMod * HalfMod - 1 /\ r \in Nat /\ t \in Nat /\ r + t < HalfMod * HalfMod
  BY SamplerAssumption
<1>2. r = Halves(r).hi * HalfMod + Halves(r).lo
  BY <1>1, HalvesFacts
<1>3. GetCounter(Halves(r), Halves(r + t)) = t
  BY <1>1, CounterExact
<1>4. Halves(Halves(r).hi * HalfMod + Halves(r).lo + t) = Halves(r + t)
  BY <1>2
<1>. QED  BY <1>3, <1>4 DEF Reading

\* The statics' initial values.
LEMMA FcycStarts == FcycInit => FcycInv
<1>. SUFFICES ASSUME FcycInit PROVE FcycInv
  OBVIOUS
<1>1. HalfMod \in Nat \ {0} /\ HalfMod * HalfMod - 1 >= 0
  <2>1. HalfMod \in Nat \ {0} /\ 1 * HalfMod <= HalfMod * HalfMod
    BY SamplerAssumption, TimesMonotone
  <2>. QED  BY <2>1
<1>2. Halves(0) \in [hi : 0 .. HalfMod - 1, lo : 0 .. HalfMod - 1]
  <2>1. 0 \in 0 .. HalfMod * HalfMod - 1
    BY <1>1
  <2>. QED  BY <2>1, HalvesFacts
<1>3. 0 \in 0 .. MaxSamples /\ <<>> \in Seq(Nat)
  BY SamplerAssumption
<1>. QED  BY <1>2, <1>3 DEF FcycInit, FcycInv, FcycTypeOK, ReadingExact, Sampling

\* Every statement keeps the invariant.
LEMMA FcycSteps == FcycInv /\ [FcycNext]_fcycVars => FcycInv'
<1>. SUFFICES ASSUME FcycInv, [FcycNext]_fcycVars PROVE FcycInv'
  OBVIOUS
<1>. USE DEF FcycInv
<1>1. CASE Fsecs
  BY <1>1 DEF Fsecs, measured, sampler, FcycTypeOK, ReadingExact, Sampling, Reading
<1>2. CASE Mhz
  <2>1. PICK r \in Readings : cyc' = Halves(r)
    BY <1>2 DEF Mhz
  <2>2. took' \in Times
    BY <1>2 DEF Mhz
  <2>3. Reading' = took'
    BY <2>1, <2>2, MeasuredExactly
  <2>4. cyc' \in [hi : 0 .. HalfMod - 1, lo : 0 .. HalfMod - 1] /\ took' \in Nat
    BY <2>1, <2>2, SamplerAssumption, HalvesFacts
  <2>5. /\ at' = "rated" /\ UNCHANGED <<mhz, values, samplecount, samples, cache_buf, result>>
    BY <1>2 DEF Mhz, sampler
  <2>. QED  BY <2>3, <2>4, <2>5 DEF FcycTypeOK, ReadingExact, Sampling
<1>3. CASE Rated
  <2>1. mhz' = took
    BY <1>3 DEF Rated, ReadingExact
  <2>2. at' = "init" /\ UNCHANGED <<cyc, took, values, samplecount, samples, cache_buf, result>>
    BY <1>3 DEF Rated, sampler
  <2>. QED  BY <2>1, <2>2 DEF FcycTypeOK, ReadingExact, Sampling
<1>4. CASE InitSampler
  <2>1. /\ at' = "clear" /\ UNCHANGED <<cyc, took, mhz, cache_buf, result>>
        /\ values' = [i \in 0 .. KBest - 1 |-> 0] /\ samplecount' = 0 /\ samples' = <<>>
    BY <1>4 DEF InitSampler, measured
  <2>2. Good(values', samplecount', samples')
    BY <2>1, EmptyGood
  <2>3. 0 < MaxSamples /\ 0 \in 0 .. MaxSamples
    BY SamplerAssumption
  <2>4. values' \in [0 .. KBest - 1 -> Nat] /\ samples' \in Seq(Nat)
    BY <2>2 DEF Good
  <2>. QED  BY <2>1, <2>2, <2>3, <2>4 DEF FcycTypeOK, ReadingExact, Sampling
<1>5. CASE Clear
  <2>1. /\ at = "clear" /\ at' \in {"run", "exited"} /\ cache_buf' \in BOOLEAN
        /\ UNCHANGED <<cyc, took, mhz, values, samplecount, samples, result>>
    BY <1>5 DEF Clear, measured, sampler, FcycTypeOK
  <2>. QED  BY <2>1 DEF FcycTypeOK, ReadingExact, Sampling
<1>6. CASE Run
  <2>1. PICK r \in Readings : cyc' = Halves(r)
    BY <1>6 DEF Run
  <2>2. took' \in Times
    BY <1>6 DEF Run
  <2>3. Reading' = took'
    BY <2>1, <2>2, MeasuredExactly
  <2>4. cyc' \in [hi : 0 .. HalfMod - 1, lo : 0 .. HalfMod - 1] /\ took' \in Nat
    BY <2>1, <2>2, SamplerAssumption, HalvesFacts
  <2>5. at = "run" /\ at' = "add" /\ UNCHANGED <<mhz, values, samplecount, samples, cache_buf, result>>
    BY <1>6 DEF Run, sampler
  <2>. QED  BY <2>3, <2>4, <2>5 DEF FcycTypeOK, ReadingExact, Sampling
<1>7. CASE AddSample
  <2>1. /\ at = "add" /\ at' = "test" /\ UNCHANGED <<cyc, took, mhz, cache_buf, result>>
        /\ values' = Kept(values, samplecount, took) /\ samplecount' = samplecount + 1
        /\ samples' = Append(samples, took)
    BY <1>7 DEF AddSample, measured, ReadingExact
  <2>2. Good(values, samplecount, samples) /\ took \in Nat /\ samplecount < MaxSamples
    BY <2>1 DEF Sampling, FcycTypeOK
  <2>3. Good(values', samplecount', samples')
    BY <2>1, <2>2, KeptGood
  <2>4. values' \in [0 .. KBest - 1 -> Nat] /\ samples' \in Seq(Nat)
    BY <2>3 DEF Good
  <2>5. samplecount' \in 0 .. MaxSamples /\ samplecount' >= 1
    BY <2>1, <2>2, SamplerAssumption DEF FcycTypeOK
  <2>. QED  BY <2>1, <2>3, <2>4, <2>5 DEF FcycTypeOK, ReadingExact, Sampling
<1>8. CASE Again
  <2>1. /\ at = "test" /\ at' = "clear" /\ samplecount < MaxSamples
        /\ UNCHANGED <<cyc, took, mhz, values, samplecount, samples, cache_buf, result>>
    BY <1>8 DEF Again, Wanted, measured, sampler
  <2>. QED  BY <2>1 DEF FcycTypeOK, ReadingExact, Sampling
<1>9. CASE Return
  <2>1. /\ at = "test" /\ at' = "idle" /\ result' = values[0] /\ values' = <<>>
        /\ UNCHANGED <<cyc, took, mhz, samplecount, samples, cache_buf>>
    BY <1>9 DEF Return, measured
  <2>2. values[0] \in Nat
    BY <2>1, SamplerAssumption DEF Sampling, Good
  <2>. QED  BY <2>1, <2>2 DEF FcycTypeOK, ReadingExact, Sampling
<1>10. CASE Exit
  BY <1>10 DEF Exit, measured, sampler, FcycTypeOK, ReadingExact, Sampling, Reading
<1>11. CASE UNCHANGED fcycVars
  BY <1>11 DEF fcycVars, FcycTypeOK, ReadingExact, Sampling, Reading
<1>. QED  BY <1>1, <1>2, <1>3, <1>4, <1>5, <1>6, <1>7, <1>8, <1>9, <1>10, <1>11 DEF FcycNext, Step

\* The invariant holds of every behaviour.
THEOREM FcycInvariance == FcycSpec => []FcycInv
<1>. QED  BY FcycStarts, FcycSteps, PTL DEF FcycSpec

\* The statics keep their shape and the number of samples its limit (17-42).
THEOREM FcycTypeCorrect == FcycSpec => []FcycTypeOK
<1>. QED  BY FcycInvariance, PTL DEF FcycInv

\* A reading of the counter is exact for every width of its halves and every
\* time shorter than its range (get_counter 62-75).
THEOREM CounterReadsExactly == FcycSpec => []ReadingExact
<1>. QED  BY FcycInvariance, PTL DEF FcycInv

\* The array holds the kbest smallest samples in order, for every kbest and
\* every order in which samples arrive (add_sample 119-137).
THEOREM SmallestKept == FcycSpec => []KBestKept
<1>1. FcycInv => KBestKept
  <2>. SUFFICES ASSUME FcycInv, at \in {"clear", "run", "add", "test"}
                PROVE  LET filled == {i \in 0 .. KBest - 1 : i < samplecount}
                       IN  /\ \A i, j \in filled : i < j => values[i] <= values[j]
                           /\ \A x \in Times :
                                LET below == Cardinality({j \in DOMAIN samples : samples[j] <= x})
                                IN  Cardinality({i \in filled : values[i] <= x})
                                      = IF below < KBest THEN below ELSE KBest
    BY DEF KBestKept
  <2>. DEFINE filled == {i \in 0 .. KBest - 1 : i < samplecount}
  <2>1. Good(values, samplecount, samples) /\ samplecount \in Nat /\ KBest \in Nat \ {0}
    BY SamplerAssumption DEF FcycInv, Sampling, Good
  <2>2. filled = 0 .. Filled(samplecount) - 1
    BY <2>1 DEF Filled
  <2>. HIDE DEF filled
  <2>3. \A i, j \in filled : i < j => values[i] <= values[j]
    BY <2>1, <2>2 DEF Good, Ascending
  <2>4. ASSUME NEW x \in Times
        PROVE  Cardinality({i \in filled : values[i] <= x})
                 = IF Cardinality({j \in DOMAIN samples : samples[j] <= x}) < KBest
                   THEN Cardinality({j \in DOMAIN samples : samples[j] <= x}) ELSE KBest
    <3>1. x \in Nat
      BY SamplerAssumption
    <3>2. /\ {i \in filled : values[i] <= x} = AtMost(values, Filled(samplecount), x)
          /\ {j \in DOMAIN samples : samples[j] <= x} = Below(samples, x)
      BY <2>2 DEF AtMost, Below
    <3>. QED  BY <2>1, <3>1, <3>2 DEF Good
  <2>. QED  BY <2>3, <2>4 DEF filled
<1>. QED  BY <1>1, FcycInvariance, PTL

\* What fcyc returns is the smallest sample, and unless the limit was reached
\* kbest samples lie within epsilon of it (184-201).
THEOREM ConvergedMinimumReturned == FcycSpec => ReturnsConvergedMinimum
<1>1. ASSUME FcycInv, [FcycNext]_fcycVars, at = "test", at' = "idle"
      PROVE  LET near == {j \in DOMAIN samples : Epsilon * samples[j] <= (Epsilon + 1) * result'}
             IN  /\ \E j \in DOMAIN samples : samples[j] = result'
                 /\ \A j \in DOMAIN samples : samples[j] >= result'
                 /\ Len(samples) = MaxSamples \/ Cardinality(near) >= KBest
  <2>. DEFINE near == {j \in DOMAIN samples : Epsilon * samples[j] <= (Epsilon + 1) * result'}
              first == values[0]
              last == values[KBest - 1]
  <2>1. Return
    BY <1>1 DEF FcycNext, Step, Fsecs, Mhz, Rated, InitSampler, Clear, Run, AddSample, Again, Exit, fcycVars
  <2>2. result' = first /\ ~Wanted
    BY <2>1 DEF Return
  <2>3. /\ values \in [0 .. KBest - 1 -> Nat] /\ samples \in Seq(Nat) /\ Len(samples) = samplecount
        /\ samplecount \in Nat /\ samplecount >= 1 /\ samplecount <= MaxSamples
        /\ Ascending(values, Filled(samplecount)) /\ KBest \in Nat \ {0}
        /\ \A x \in Nat : Cardinality(AtMost(values, Filled(samplecount), x))
                            = IF Cardinality(Below(samples, x)) < KBest
                              THEN Cardinality(Below(samples, x)) ELSE KBest
    BY <1>1, SamplerAssumption DEF FcycInv, FcycTypeOK, Sampling, Good
  <2>4. first \in Nat /\ last \in Nat /\ Filled(samplecount) \in Nat \ {0}
        /\ \A i \in 0 .. Filled(samplecount) - 1 : first <= values[i]
    BY <2>3 DEF Filled, Ascending
  <2>. HIDE DEF first, last
  <2>5. ASSUME NEW j \in DOMAIN samples PROVE samples[j] \in Nat /\ samples[j] >= first
    <3>1. samples[j] \in Nat
      BY <2>3
    <3>. SUFFICES ASSUME samples[j] < first PROVE FALSE
      BY <2>4, <3>1
    <3>2. AtMost(values, Filled(samplecount), samples[j]) = {}
      BY <2>3, <2>4, <3>1 DEF AtMost, Filled
    <3>3. Cardinality(Below(samples, samples[j])) = 0
      <4>1. Cardinality(Below(samples, samples[j])) \in Nat
        BY <2>3, <3>1, FiniteParts
      <4>. QED  BY <2>3, <3>1, <3>2, <4>1, FS_EmptySet
    <3>4. j \in Below(samples, samples[j])
      BY <3>1 DEF Below
    <3>. QED  BY <2>3, <3>1, <3>3, <3>4, FiniteParts, FS_EmptySet
  <2>6. \E j \in DOMAIN samples : samples[j] = first
    <3>1. 0 \in AtMost(values, Filled(samplecount), first)
      BY <2>3, <2>4 DEF AtMost, first
    <3>2. Cardinality(AtMost(values, Filled(samplecount), first)) # 0
      BY <2>4, <3>1, FiniteParts, FS_EmptySet
    <3>3. Below(samples, first) # {}
      <4>. SUFFICES ASSUME Below(samples, first) = {} PROVE FALSE
        OBVIOUS
      <4>1. Cardinality(Below(samples, first)) = 0
        BY FS_EmptySet
      <4>2. Cardinality(AtMost(values, Filled(samplecount), first))
              = IF Cardinality(Below(samples, first)) < KBest
                THEN Cardinality(Below(samples, first)) ELSE KBest
        BY <2>3, <2>4
      <4>3. 0 < KBest
        BY <2>3
      <4>. QED  BY <3>2, <4>1, <4>2, <4>3
    <3>4. PICK j \in DOMAIN samples : samples[j] <= first
      BY <3>3 DEF Below
    <3>. QED  BY <2>4, <2>5, <3>4
  <2>7. CASE HasConverged
    <3>1. samplecount >= KBest /\ (Epsilon + 1) * first >= Epsilon * last
      BY <2>7 DEF HasConverged, first, last
    <3>2. Filled(samplecount) = KBest /\ Ascending(values, KBest)
      BY <2>3, <3>1 DEF Filled
    <3>3. Cardinality(AtMost(values, KBest, last)) = KBest
      BY <2>3, <2>4, <3>2, FullCount DEF last
    <3>4. Cardinality(Below(samples, last)) \in Nat /\ Cardinality(Below(samples, last)) >= KBest
      <4>1. Cardinality(Below(samples, last)) \in Nat
        BY <2>3, <2>4, FiniteParts
      <4>. QED  BY <2>3, <2>4, <3>2, <3>3, <4>1
    <3>5. Below(samples, last) \subseteq near
      <4>. SUFFICES ASSUME NEW j \in DOMAIN samples, samples[j] <= last
                    PROVE  Epsilon * samples[j] <= (Epsilon + 1) * result'
        BY DEF Below
      <4>1. Epsilon \in Nat /\ samples[j] \in Nat
        BY <2>5, SamplerAssumption
      <4>2. samples[j] * Epsilon <= last * Epsilon
        BY <2>4, <4>1, TimesMonotone
      <4>3. Epsilon * samples[j] <= Epsilon * last
        BY <2>4, <4>1, <4>2
      <4>4. /\ Epsilon * samples[j] \in Nat /\ Epsilon * last \in Nat /\ (Epsilon + 1) * first \in Nat
        BY <2>4, <4>1
      <4>. QED  BY <2>2, <3>1, <4>3, <4>4
    <3>6. IsFiniteSet(near)
      <4>1. IsFiniteSet(1 .. Len(samples))
        BY <2>3, FS_Interval
      <4>2. near \in SUBSET (1 .. Len(samples))
        BY <2>3
      <4>. QED  BY <4>1, <4>2, FS_Subset
    <3>. HIDE DEF near
    <3>7. Cardinality(Below(samples, last)) <= Cardinality(near) /\ Cardinality(near) \in Nat
      BY <3>5, <3>6, FS_Subset, FS_CardinalityType
    <3>8. Cardinality(near) >= KBest
      BY <2>3, <3>4, <3>7
    <3>. QED  BY <2>2, <2>5, <2>6, <3>8 DEF near
  <2>8. CASE ~HasConverged
    <3>1. Len(samples) = MaxSamples
      BY <2>2, <2>3, <2>8, SamplerAssumption DEF Wanted
    <3>. QED  BY <2>2, <2>5, <2>6, <3>1
  <2>. QED  BY <2>7, <2>8
<1>. QED  BY <1>1, FcycInvariance, PTL DEF FcycSpec, ReturnsConvergedMinimum

-----------------------------------------------------------------------------
(***************************************************************************)
(* The bit puzzles                                                         *)
(***************************************************************************)
\* Of a number in reach of one addition, the bits as a signed number.
LEMMA SignedIs ==
    ASSUME NEW n \in -UMod .. UMod - 1
    PROVE  Signed(n) = IF n >= Top THEN n - UMod ELSE IF n >= -Top THEN n ELSE n + UMod
<1>1. PICK u \in Nat \ {0} : u = UMod /\ u = 2 * Top
  BY BitsAssumption DEF UMod
<1>2. n \in -u .. u - 1 /\ Top \in Nat
  BY <1>1, BitsAssumption
<1>3. n % u = IF n < 0 THEN n + u ELSE n
  BY <1>2, RemainderNear
<1>. QED  BY <1>1, <1>2, <1>3 DEF Signed

LEMMA UnsignedPegged ==
    ASSUME AllOnes = UMod - 1, NEW a \in Unsigned, NEW b \in Unsigned
    PROVE  SatAddUnsigned(a, b) = Clamped(a + b, 0, UMod - 1)
<1>1. PICK u \in Nat \ {0} : u = UMod
  BY BitsAssumption DEF UMod
<1>2. a \in 0 .. u - 1 /\ b \in 0 .. u - 1
  BY <1>1 DEF Unsigned
<1>3. PICK n \in Nat : n = a + b /\ n < 2 * u
  BY <1>2
<1>4. n % u = IF n < u THEN n ELSE n - u
  <2>1. PICK q \in Nat, r \in 0 .. u - 1 : n = u * q + r /\ r = n % u
    BY DivideBy
  <2>2. q <= 1
    <3>. SUFFICES ASSUME q - 2 \in Nat PROVE FALSE
      OBVIOUS
    <3>1. u * (q - 2) >= 0
      OBVIOUS
    <3>2. u * q = u * (q - 2) + 2 * u
      OBVIOUS
    <3>. QED  BY <1>3, <2>1, <3>1, <3>2
  <2>3. CASE q = 0
    BY <2>1, <2>3
  <2>4. CASE q = 1
    BY <2>1, <2>4
  <2>. QED  BY <2>2, <2>3, <2>4
<1>. QED  BY <1>1, <1>2, <1>3, <1>4 DEF SatAddUnsigned, Clamped

LEMMA SignedPegged ==
    ASSUME AllOnes = UMod - 1, NEW a \in Integer, NEW b \in Integer
    PROVE  SatAddSigned(a, b) =
             IF a = -Top /\ b = -Top THEN 0 ELSE Clamped(a + b, -Top, Top - 1)
<1>1. PICK t \in Nat \ {0} : t = Top /\ UMod = 2 * t
  BY BitsAssumption DEF UMod
<1>2. a \in -t .. t - 1 /\ b \in -t .. t - 1
  BY <1>1 DEF Integer
<1>3. Signed(a + b) = IF a + b >= t THEN a + b - 2 * t ELSE IF a + b >= -t THEN a + b ELSE a + b + 2 * t
  <2>1. a + b \in -UMod .. UMod - 1
    BY <1>1, <1>2
  <2>. QED  BY <1>1, <1>2, <2>1, SignedIs
<1>4. Signed(t - 1) = t - 1 /\ Signed(t) = -t
  <2>1. t - 1 \in -UMod .. UMod - 1 /\ t \in -UMod .. UMod - 1
    BY <1>1
  <2>. QED  BY <1>1, <2>1, SignedIs
<1>5. AllOnes = 2 * t - 1 /\ AllOnes >= Top /\ AllOnes - Top = t - 1
  BY <1>1
<1>. QED  BY <1>1, <1>2, <1>3, <1>4, <1>5 DEF SatAddSigned, Clamped

LEMMA CountUpTo ==
    /\ IsFiniteSet(1 .. 9) /\ Cardinality(1 .. 9) = 9
    /\ Cardinality(0 .. 10 - 1) = 10 /\ Cardinality(0 .. 7 - 1) = 7
<1>1. ASSUME NEW x \in Int, NEW y \in Int, x <= y
      PROVE  IsFiniteSet(x .. y) /\ Cardinality(x .. y) = y - x + 1
  BY <1>1, FS_Interval
<1>2. PICK x \in Int, y \in Int, z \in Int, m \in Int : x = 1 /\ y = 9 /\ z = 0 /\ m = 6
  OBVIOUS
<1>7. x <= y /\ z <= y /\ z <= m
  BY <1>2
<1>3. IsFiniteSet(x .. y) /\ Cardinality(x .. y) = y - x + 1
  BY <1>1, <1>7
<1>4. Cardinality(z .. y) = y - z + 1
  BY <1>1, <1>7
<1>5. Cardinality(z .. m) = m - z + 1
  BY <1>1, <1>7
<1>6. 10 - 1 = y /\ 7 - 1 = m /\ x = 1 /\ z = 0
  BY <1>2
<1>. QED  BY <1>2, <1>3, <1>4, <1>5, <1>6

LEMMA SingleRight ==
    ASSUME NEW r \in UsedSets, NEW c \in UsedSets, NEW b \in UsedSets, 1 .. 9 \ (r \cup c \cup b) # {}
    PROVE  IsSingle(MakeSet(r), MakeSet(c), MakeSet(b)) = (Cardinality(1 .. 9 \ (r \cup c \cup b)) = 1)
<1>1. PICK u \in SUBSET (1 .. 9) : u = r \cup c \cup b
  BY BitsAssumption
<1>2. PICK f \in SUBSET (1 .. 9) : f = 1 .. 9 \ u /\ f # {}
  BY <1>1
<1>3. IsFiniteSet(1 .. 9) /\ Cardinality(1 .. 9) = 9
  BY CountUpTo
<1>4. IsFiniteSet(u) /\ IsFiniteSet(f) /\ Cardinality(u) \in Nat /\ Cardinality(f) \in Nat
  BY <1>3, FS_Subset, FS_CardinalityType
<1>5. Cardinality(u) + Cardinality(f) = 9
  <2>1. u \cup f = 1 .. 9 /\ u \cap f = {}
    BY <1>2
  <2>2. Cardinality(u \cup f) = Cardinality(u) + Cardinality(f) - Cardinality(u \cap f)
    BY <1>4, FS_Union
  <2>3. Cardinality({}) = 0
    BY FS_EmptySet
  <2>4. Cardinality(1 .. 9) = Cardinality(u) + Cardinality(f) - 0
    BY <2>1, <2>2, <2>3
  <2>. QED  BY <1>3, <1>4, <2>4
<1>6. Cardinality(f) # 0
  BY <1>2, <1>4, FS_EmptySet
<1>7. Cardinality(Ones(10)) = 10 /\ Cardinality(Ones(7)) = 7
  BY CountUpTo DEF Ones
<1>8. IsSingle(MakeSet(r), MakeSet(c), MakeSet(b)) <=> Cardinality(u) - 10 < 0 /\ Cardinality(u) - 7 > 0
  BY <1>1, <1>7 DEF IsSingle, MakeSet, CmpBits
<1>9. IsSingle(MakeSet(r), MakeSet(c), MakeSet(b)) \in BOOLEAN
  BY DEF IsSingle
<1>. QED  BY <1>1, <1>2, <1>4, <1>5, <1>6, <1>8, <1>9

\* What bits.h has of the printed form of an instruction, where the code keeps it.
PrintedAs(op, printed) ==
    LET bytes == op[2]
    IN  IF op[1] = "imm"
        THEN bytes[3] = 0 /\ bytes[4] = 0 /\ (bytes[1] >= 16 \/ bytes[2] = 0) =>
               printed = Imm(bytes[1] + 256 * bytes[2])
        ELSE printed = op

\* Every instruction's bytes tell it from the others.
LEMMA Decodes == \A op \in Instructions : PrintedAs(op, Disassemble(Encode(op)))
<1>1. ASSUME NEW bytes \in [1 .. 4 -> Displacements]
      PROVE  PrintedAs(Imm(bytes), Disassemble(Encode(Imm(bytes))))
  <2>. DEFINE op == Imm(bytes)
  <2>1. PICK low \in 0 .. 255, high \in 0 .. 255 : low = bytes[1] /\ high = bytes[2]
    <3>1. 1 \in 1 .. 4 /\ 2 \in 1 .. 4
      OBVIOUS
    <3>2. bytes[1] \in Displacements /\ bytes[2] \in Displacements
      BY <3>1
    <3>3. bytes[1] \in 0 .. 255 /\ bytes[2] \in 0 .. 255
      <4>1. Displacements \subseteq 0 .. 255
        BY BitsAssumption
      <4>. QED  BY <3>2, <4>1
    <3>. HIDE DEF op
    <3>. QED  BY <3>3, Zenon
  <2>5. op[1] = "imm" /\ op[2] = bytes
    BY DEF Imm
  <2>. HIDE DEF op
  <2>2. Encode(op) = <<104, bytes[1], bytes[2], bytes[3], bytes[4]>>
    BY <2>5 DEF Encode
  <2>3. Disassemble(Encode(op)) = Imm(Digits(high, low))
    BY <2>1, <2>2 DEF Disassemble
  <2>4. low >= 16 \/ high = 0 => Digits(high, low) = low + 256 * high
    <3>1. CASE low >= 16
      BY <3>1 DEF Digits
    <3>2. CASE high = 0
      BY <3>2 DEF Digits
    <3>. QED  BY <3>1, <3>2
  <2>. QED  BY <2>1, <2>3, <2>4, <2>5 DEF PrintedAs, op
<1>2. \A r \in 0 .. 7 : Disassemble(Encode(Reg(r))) = Reg(r)
  BY DEF Disassemble, Encode, Reg
<1>3. \A r \in 0 .. 7 \ {4} : Disassemble(Encode(Ind(r))) = Ind(r)
  BY DEF Disassemble, Encode, Ind
<1>4. \A d \in Displacements, r \in 0 .. 7 \ {4} : Disassemble(Encode(Displ(d, r))) = Displ(d, r)
  BY DEF Disassemble, Encode, Displ
<1>5. ASSUME NEW d \in Displacements, NEW b \in 0 .. 7, NEW i \in 0 .. 7 \ {4}, NEW s \in {1, 2, 4, 8}
      PROVE  Disassemble(Encode(Scaled(d, b, i, s))) = Scaled(d, b, i, s)
  <2>1. PICK l \in 0 .. 3 : /\ s = ShiftedOne[l]
                            /\ l = CASE s = 1 -> 0 [] s = 2 -> 1 [] s = 4 -> 2 [] s = 8 -> 3
    <3>1. CASE s = 1
      BY <3>1 DEF ShiftedOne
    <3>2. CASE s = 2
      BY <3>2 DEF ShiftedOne
    <3>3. CASE s = 4
      BY <3>3 DEF ShiftedOne
    <3>4. CASE s = 8
      BY <3>4 DEF ShiftedOne
    <3>. QED  BY <3>1, <3>2, <3>3, <3>4
  <2>2. PICK x \in Nat : x = 64 * l + 8 * i + b
    OBVIOUS
  <2>3. Encode(Scaled(d, b, i, s)) = <<255, 116, x, d, 0>>
    <3>. DEFINE op  == Scaled(d, b, i, s)
                log == [n \in {1, 2, 4, 8} |->
                          CASE n = 1 -> 0 [] n = 2 -> 1 [] n = 4 -> 2 [] n = 8 -> 3]
    <3>1. op[1] = "scaled" /\ op[2] = d /\ op[3] = b /\ op[4] = i /\ op[5] = s
      BY DEF Scaled
    <3>2. log[s] = l
      BY <2>1
    <3>. HIDE DEF op
    <3>3. Encode(op) = <<255, 116, 64 * log[op[5]] + 8 * op[4] + op[3], op[2], 0>>
      BY <3>1 DEF Encode
    <3>. HIDE DEF log
    <3>4. 64 * log[op[5]] + 8 * op[4] + op[3] = x
      BY <3>1, <3>2, <2>2
    <3>5. Encode(op) = <<255, 116, x, d, 0>>
      BY <3>1, <3>3, <3>4
    <3>. QED  BY <3>5 DEF op
  <2>4. x \div 64 = l /\ (x \div 8) % 8 = i /\ x % 8 = b
    BY <2>2
  <2>5. Disassemble(<<255, 116, x, d, 0>>) = Scaled(d, x % 8, (x \div 8) % 8, ShiftedOne[x \div 64])
    BY DEF Disassemble
  <2>. QED  BY <2>1, <2>3, <2>4, <2>5
<1>6. ASSUME NEW op \in Instructions, \A bytes \in [1 .. 4 -> Displacements] : op # Imm(bytes)
      PROVE  Disassemble(Encode(op)) = op /\ op[1] # "imm"
  <2>1. Disassemble(Encode(op)) = op
    BY <1>2, <1>3, <1>4, <1>5, <1>6 DEF Instructions
  <2>2. op[1] # "imm"
    BY <1>6 DEF Instructions, Reg, Ind, Displ, Scaled
  <2>. QED  BY <2>1, <2>2
<1>. QED  BY <1>1, <1>6 DEF PrintedAs

\* The sums are pegged, single digits found and instructions printed as what
\* they encode, but for twice the least number and the immediates whose digits
\* bits.c 178 drops or runs together (sat_add_unsigned 82-92, sat_add_signed
\* 99-131, is_single 67-75, disassemble 162-210).
THEOREM BitsAnswers ==
    AllOnes = UMod - 1 => (BitsInit /\ [][BitsNext]_bitsVars => []BitsRight)
<1>. SUFFICES ASSUME AllOnes = UMod - 1
              PROVE  BitsInit /\ [][BitsNext]_bitsVars => []BitsRight
  OBVIOUS
<1>1. BitsInit => BitsRight
  BY DEF BitsInit, BitsOff, BitsRight
<1>2. BitsRight /\ [BitsNext]_bitsVars => BitsRight'
  <2>. SUFFICES ASSUME BitsRight, [BitsNext]_bitsVars PROVE BitsRight'
    OBVIOUS
  <2>1. CASE UNCHANGED bitsVars
    BY <2>1 DEF BitsRight, bitsVars
  <2>2. CASE call' = <<>>
    BY <2>2 DEF BitsRight
  <2>3. ASSUME NEW a \in Unsigned, NEW b \in Unsigned,
               call' = <<"unsigned", a, b>>, value' = SatAddUnsigned(a, b)
        PROVE  BitsRight'
    BY <2>3, UnsignedPegged DEF BitsRight
  <2>4. ASSUME NEW a \in Integer, NEW b \in Integer,
               call' = <<"signed", a, b>>, value' = SatAddSigned(a, b)
        PROVE  BitsRight'
    BY <2>4, SignedPegged DEF BitsRight
  <2>5. ASSUME NEW r \in UsedSets, NEW c \in UsedSets, NEW b \in UsedSets,
               call' = <<"single", r, c, b>>, value' = IsSingle(MakeSet(r), MakeSet(c), MakeSet(b))
        PROVE  BitsRight'
    BY <2>5, SingleRight DEF BitsRight
  <2>6. ASSUME NEW op \in Instructions, call' = <<"pushq", op>>, value' = Disassemble(Encode(op))
        PROVE  BitsRight'
    BY <2>6, Decodes DEF BitsRight, PrintedAs
  <2>. QED  BY <2>1, <2>2, <2>3, <2>4, <2>5, <2>6
            DEF BitsNext, SaturatingCall, SudokuCall, DisassembleCall
<1>. QED  BY <1>1, <1>2, PTL

-----------------------------------------------------------------------------
(***************************************************************************)
(* The command search                                                      *)
(***************************************************************************)
\* What strtok has left is the rest of the list from p on, where no directory
\* has begun, and none of those before p has the name.
Left(p) ==
    /\ p \in 1 .. Len(dirs) + 1 /\ unread = SubSeq(dirs, p, Len(dirs))
    /\ p = 1 \/ p = Len(dirs) + 1 \/ dirs[p - 1] = COLON
    /\ \A i \in Having(nextName) : p <= i

WhichInv ==
    /\ dirs \in Seq(STRING) /\ filenames \in Seq(Names) /\ nextName \in 1 .. Len(filenames) + 1
    /\ found = Answers[nextName - 1]
    /\ unread = IDLE \/ (nextName \in DOMAIN filenames /\ \E p \in Nat : Left(p))

\* The least of a set of numbers.
LEMMA MinIsLeast ==
    ASSUME NEW S \in SUBSET Nat, S # {}
    PROVE  Min(S) \in S /\ \A i \in S : Min(S) <= i
BY LeastExists DEF Min

\* Two stretches of sequences that agree element for element.
LEMMA SameStretch ==
    ASSUME NEW S, NEW s \in Seq(S), NEW t \in Seq(S),
           NEW a \in Nat \ {0}, NEW b \in Nat, b <= Len(s),
           NEW c \in Nat \ {0}, NEW d \in Nat, d <= Len(t),
           b - a = d - c, \A i \in a .. b : s[i] = t[i - a + c]
    PROVE  SubSeq(s, a, b) = SubSeq(t, c, d)
<1>1. PICK u : u = SubSeq(s, a, b)
  OBVIOUS
<1>2. PICK v : v = SubSeq(t, c, d)
  OBVIOUS
<1>3. \A i \in a .. b : i \in 1 .. Len(s) /\ s[i] \in S
  OBVIOUS
<1>4. \A i \in c .. d : i \in 1 .. Len(t) /\ t[i] \in S
  OBVIOUS
<1>5. PICK n \in Nat : n = IF a <= b THEN b - a + 1 ELSE 0
  <2>1. a <= b => b - a + 1 \in Nat
    OBVIOUS
  <2>2. 0 \in Nat
    OBVIOUS
  <2>. QED  BY <2>1, <2>2
<1>6. u \in Seq(S) /\ Len(u) = n /\ \A i \in 1 .. n : u[i] = s[a + i - 1]
  <2>1. \A i \in 1 .. n : i \in 1 .. b - a + 1
    BY <1>5
  <2>. QED  BY <1>1, <1>3, <1>5, <2>1, SubSeqProperties
<1>7. v \in Seq(S) /\ Len(v) = n /\ \A i \in 1 .. n : v[i] = t[c + i - 1]
  <2>1. (n = IF c <= d THEN d - c + 1 ELSE 0) /\ \A i \in 1 .. n : i \in 1 .. d - c + 1
    BY <1>5
  <2>. QED  BY <1>2, <1>4, <2>1, SubSeqProperties
<1>8. \A i \in 1 .. n : a + i - 1 \in a .. b /\ (a + i - 1) - a + c = c + i - 1
  BY <1>5
<1>9. \A i \in 1 .. n : u[i] = v[i]
  BY <1>6, <1>7, <1>8
<1>. QED  BY <1>1, <1>2, <1>6, <1>7, <1>9, SeqEqual

\* strtok skips to the first character that is no colon.
LEMMA SkippedTo ==
    ASSUME NEW S, NEW s \in Seq(S), NEW k, k = Skipped(s)
    PROVE  \/ k = 0 /\ \A i \in 1 .. Len(s) : s[i] = COLON
           \/ k \in 1 .. Len(s) /\ s[k] # COLON /\ \A i \in 1 .. k - 1 : s[i] = COLON
<1>1. PICK I \in SUBSET (1 .. Len(s)) : \A i \in 1 .. Len(s) : i \in I <=> s[i] # COLON
  <2>. WITNESS {i \in 1 .. Len(s) : s[i] # COLON} \in SUBSET (1 .. Len(s))
  <2>. QED  OBVIOUS
<1>2. I = {i \in 1 .. Len(s) : s[i] # COLON}
  BY <1>1
<1>3. k = IF I # {} THEN Min(I) ELSE 0
  BY <1>2 DEF Skipped, SelectInSeq
<1>4. CASE I = {}
  BY <1>1, <1>3, <1>4
<1>5. CASE I # {}
  <2>1. Min(I) \in I /\ \A i \in I : Min(I) <= i
    <3>1. I \in SUBSET Nat
      OBVIOUS
    <3>. QED  BY <1>5, <3>1, MinIsLeast
  <2>2. k \in I /\ \A i \in I : k <= i
    BY <1>3, <1>5, <2>1
  <2>3. \A i \in 1 .. k - 1 : i \in 1 .. Len(s) /\ i \notin I
    BY <2>2
  <2>. QED  BY <1>1, <2>2, <2>3
<1>. QED  BY <1>4, <1>5

\* It cuts what is left at the next one.
LEMMA CutTo ==
    ASSUME NEW S, NEW s \in Seq(S), NEW t \in Seq(S), t = Trimmed(s), Len(t) > 0, t[1] # COLON
    PROVE  \E l \in 1 .. Len(t) :
             /\ TokenEnd(s) = l /\ \A i \in 1 .. l : t[i] # COLON
             /\ l = Len(t) \/ t[l + 1] = COLON
<1>1. PICK I \in SUBSET (1 .. Len(t)) : \A i \in 1 .. Len(t) : i \in I <=> t[i] = COLON
  <2>. WITNESS {i \in 1 .. Len(t) : t[i] = COLON} \in SUBSET (1 .. Len(t))
  <2>. QED  OBVIOUS
<1>2. I = {i \in 1 .. Len(t) : t[i] = COLON}
  BY <1>1
<1>3. CASE I = {}
  <2>1. TokenEnd(s) = Len(t)
    BY <1>2, <1>3 DEF TokenEnd, SelectInSeq
  <2>. QED  BY <1>1, <1>3, <2>1
<1>4. CASE I # {}
  <2>1. Min(I) \in I /\ \A i \in I : Min(I) <= i
    <3>1. I \in SUBSET Nat
      OBVIOUS
    <3>. QED  BY <1>4, <3>1, MinIsLeast
  <2>2. PICK m \in 1 .. Len(t) : m \in I /\ m = Min(I) /\ \A i \in I : m <= i
    BY <2>1
  <2>3. m \in 2 .. Len(t) /\ t[m] = COLON /\ \A i \in 1 .. m - 1 : t[i] # COLON
    BY <1>1, <2>2
  <2>4. TokenEnd(s) = m - 1
    <3>1. m # 0
      BY <2>3
    <3>. QED  BY <1>2, <1>4, <2>2, <3>1 DEF TokenEnd, SelectInSeq
  <2>5. m - 1 \in 1 .. Len(t) /\ (m - 1) + 1 = m
    BY <2>3
  <2>. QED  BY <2>3, <2>4, <2>5
<1>. QED  BY <1>3, <1>4

\* What the token is cut to, and what is left behind it.
LEMMA TokenIs ==
    ASSUME NEW S, NEW s \in Seq(S), Skipped(s) # 0
    PROVE  \E k \in 1 .. Len(s) : \E e \in k .. Len(s) :
             /\ \A i \in 1 .. k - 1 : s[i] = COLON
             /\ \A i \in k .. e : s[i] # COLON
             /\ e = Len(s) \/ s[e + 1] = COLON
             /\ Token(s) = SubSeq(s, k, e) /\ AfterToken(s) = SubSeq(s, e + 2, Len(s))
<1>1. PICK n \in Nat : n = Len(s)
  OBVIOUS
<1>2. PICK k \in 1 .. n : k = Skipped(s) /\ s[k] # COLON /\ \A i \in 1 .. k - 1 : s[i] = COLON
  BY <1>1, SkippedTo
<1>3. PICK t : t = Trimmed(s) /\ t = SubSeq(s, k, n)
  BY <1>1, <1>2 DEF Trimmed
<1>4. /\ t \in Seq(S) /\ Len(t) = n - k + 1
      /\ \A i \in 1 .. n - k + 1 : t[i] = s[i + k - 1]
  <2>1. t = SubSeq(s, k, n)
    BY <1>3
  <2>. QED  BY <1>1, <2>1
<1>5. PICK l \in 1 .. n - k + 1 :
        /\ TokenEnd(s) = l /\ \A i \in 1 .. l : t[i] # COLON
        /\ l = n - k + 1 \/ t[l + 1] = COLON
  <2>1. Len(t) > 0 /\ t[1] # COLON
    BY <1>2, <1>4
  <2>2. \E l \in 1 .. Len(t) :
          /\ TokenEnd(s) = l /\ \A i \in 1 .. l : t[i] # COLON
          /\ l = Len(t) \/ t[l + 1] = COLON
    BY <1>3, <1>4, <2>1, CutTo
  <2>. QED  BY <1>4, <2>2
<1>6. Token(s) = SubSeq(t, 1, l) /\ AfterToken(s) = SubSeq(t, l + 2, n - k + 1)
  BY <1>3, <1>4, <1>5 DEF Token, AfterToken
<1>7. PICK e \in k .. n : e = k + l - 1 /\ l = e - k + 1
  OBVIOUS
<1>8. SubSeq(t, 1, l) = SubSeq(s, k, e)
  <2>1. \A i \in 1 .. l : i \in 1 .. n - k + 1 /\ i - 1 + k = i + k - 1
    OBVIOUS
  <2>2. /\ 1 \in Nat \ {0} /\ l \in Nat /\ l <= Len(t) /\ k \in Nat \ {0} /\ e \in Nat /\ e <= Len(s)
        /\ l - 1 = e - k /\ \A i \in 1 .. l : t[i] = s[i - 1 + k]
    BY <1>1, <1>4, <1>7, <2>1
  <2>. QED  BY <1>4, <2>2, SameStretch
<1>9. SubSeq(t, l + 2, n - k + 1) = SubSeq(s, e + 2, n)
  BY <1>1, <1>4, <1>7
<1>10. \A i \in k .. e : s[i] # COLON
  <2>. TAKE i \in k .. e
  <2>1. i - k + 1 \in 1 .. l /\ (i - k + 1) + k - 1 = i /\ i - k + 1 \in 1 .. n - k + 1
    BY <1>7
  <2>. QED  BY <1>4, <1>5, <2>1
<1>11. e = n \/ s[e + 1] = COLON
  <2>. SUFFICES ASSUME e # n PROVE s[e + 1] = COLON
    OBVIOUS
  <2>1. l + 1 \in 1 .. n - k + 1 /\ l # n - k + 1 /\ (l + 1) + k - 1 = e + 1
    BY <1>7
  <2>. QED  BY <1>4, <1>5, <2>1
<1>. QED  BY <1>1, <1>2, <1>6, <1>7, <1>8, <1>9, <1>10, <1>11

\* A step of strtok through the list: the token is the next directory, q, and
\* no directory begins before the place r that it stops at but those before p.
LEMMA NextDir ==
    ASSUME NEW S, NEW s \in Seq(S), NEW p \in 1 .. Len(s) + 1,
           p = 1 \/ p = Len(s) + 1 \/ s[p - 1] = COLON,
           Skipped(SubSeq(s, p, Len(s))) # 0
    PROVE  \E q \in Starts(s) : \E r \in 1 .. Len(s) + 1 :
             /\ p <= q /\ q < r /\ \A i \in Starts(s) : i < p \/ i = q \/ r <= i
             /\ r = Len(s) + 1 \/ s[r - 1] = COLON
             /\ Token(SubSeq(s, p, Len(s))) = DirAt(s, q)
             /\ AfterToken(SubSeq(s, p, Len(s))) = SubSeq(s, r, Len(s))
<1>1. PICK n \in Nat : n = Len(s)
  OBVIOUS
<1>2. PICK u : u = SubSeq(s, p, n)
  OBVIOUS
<1>3. u \in Seq(S) /\ Len(u) = n - p + 1 /\ \A i \in 1 .. n - p + 1 : u[i] = s[i + p - 1]
  BY <1>1, <1>2
<1>4. PICK k \in 1 .. n - p + 1 : \E e \in k .. n - p + 1 :
        /\ \A i \in 1 .. k - 1 : u[i] = COLON
        /\ \A i \in k .. e : u[i] # COLON
        /\ e = n - p + 1 \/ u[e + 1] = COLON
        /\ Token(u) = SubSeq(u, k, e) /\ AfterToken(u) = SubSeq(u, e + 2, n - p + 1)
  <2>1. Skipped(u) # 0
    BY <1>1, <1>2
  <2>. QED  BY <1>3, <2>1, TokenIs
<1>5. PICK e \in k .. n - p + 1 :
        /\ \A i \in 1 .. k - 1 : u[i] = COLON
        /\ \A i \in k .. e : u[i] # COLON
        /\ e = n - p + 1 \/ u[e + 1] = COLON
        /\ Token(u) = SubSeq(u, k, e) /\ AfterToken(u) = SubSeq(u, e + 2, n - p + 1)
  BY <1>4
<1>6. p \in 1 .. n + 1
  BY <1>1
<1>7. PICK q \in 1 .. n, f \in 1 .. n : q = k + p - 1 /\ f = e + p - 1 /\ p <= q /\ q <= f
  BY <1>6
<1>8. /\ \A i \in p .. q - 1 : s[i] = COLON
      /\ \A i \in q .. f : s[i] # COLON
      /\ f = n \/ s[f + 1] = COLON
  <2>1. \A i \in p .. n : u[i - p + 1] = s[i]
    <3>. TAKE i \in p .. n
    <3>1. i - p + 1 \in 1 .. n - p + 1 /\ (i - p + 1) + p - 1 = i
      BY <1>6
    <3>. QED  BY <1>3, <3>1
  <2>2. \A i \in p .. q - 1 : i - p + 1 \in 1 .. k - 1 /\ i \in p .. n
    BY <1>6, <1>7
  <2>3. \A i \in q .. f : i - p + 1 \in k .. e /\ i \in p .. n
    BY <1>6, <1>7
  <2>4. (e = n - p + 1 => f = n) /\ (e # n - p + 1 => f + 1 \in p .. n /\ (f + 1) - p + 1 = e + 1)
    BY <1>6, <1>7
  <2>. QED  BY <1>5, <2>1, <2>2, <2>3, <2>4
<1>9. Token(u) = SubSeq(s, q, f)
  <2>1. \A i \in k .. e : i \in 1 .. n - p + 1 /\ i - k + q = i + p - 1
    BY <1>6, <1>7
  <2>2. /\ k \in Nat \ {0} /\ e \in Nat /\ e <= Len(u) /\ q \in Nat \ {0} /\ f \in Nat /\ f <= Len(s)
        /\ e - k = f - q /\ \A i \in k .. e : u[i] = s[i - k + q]
        /\ u \in Seq(S) /\ s \in Seq(S)
    BY <1>1, <1>3, <1>6, <1>7, <2>1
  <2>3. SubSeq(u, k, e) = SubSeq(s, q, f)
    BY <2>2, SameStretch
  <2>. QED  BY <1>5, <2>3
<1>10. SubSeq(s, q, f) = DirAt(s, q)
  <2>. DEFINE J == {j \in q .. n : \A i \in q .. j : s[i] # COLON}
  <2>1. f \in J /\ \A j \in J : j <= f
    <3>1. f \in J
      BY <1>7, <1>8
    <3>2. ASSUME NEW j \in J, j > f PROVE FALSE
      <4>1. f + 1 \in q .. j /\ f # n
        BY <1>7, <3>2
      <4>. QED  BY <1>8, <3>2, <4>1
    <3>. QED  BY <1>7, <3>1, <3>2
  <2>2. J \in SUBSET Int
    OBVIOUS
  <2>. HIDE DEF J
  <2>3. Max(J) = f
    <3>1. f \in J /\ \A j \in J : f >= j /\ j \in Int
      BY <2>1, <2>2
    <3>2. PICK m : m = Max(J)
      OBVIOUS
    <3>3. m \in J /\ \A j \in J : m >= j
      BY <3>1, <3>2 DEF Max
    <3>. QED  BY <3>1, <3>2, <3>3
  <2>. QED  BY <1>1, <2>3 DEF DirAt, J
<1>11. PICK r \in 1 .. n + 1 :
         (r = n + 1 /\ f = n) \/ (r = f + 2 /\ f # n /\ r - 1 = f + 1 /\ s[r - 1] = COLON)
  <2>1. CASE f = n
    <3>. WITNESS n + 1 \in 1 .. n + 1
    <3>. QED  BY <2>1
  <2>2. CASE f # n
    <3>1. f + 2 \in 1 .. n + 1 /\ (f + 2) - 1 = f + 1
      BY <1>7, <2>2
    <3>. WITNESS f + 2 \in 1 .. n + 1
    <3>. QED  BY <1>8, <2>2, <3>1
  <2>. QED  BY <2>1, <2>2
<1>12. q < r
  BY <1>7, <1>11
<1>13. SubSeq(u, e + 2, n - p + 1) = SubSeq(s, r, n)
  <2>1. CASE f = n
    <3>1. e = n - p + 1 /\ r = n + 1
      BY <1>6, <1>7, <1>11, <2>1
    <3>2. SubSeq(u, e + 2, n - p + 1) = <<>> /\ SubSeq(s, r, n) = <<>>
      BY <1>6, <3>1
    <3>. QED  BY <3>2
  <2>2. CASE f # n
    <3>1. r = e + p + 1 /\ e + 1 <= n - p + 1
      BY <1>6, <1>7, <1>11, <2>2
    <3>2. \A i \in e + 2 .. n - p + 1 : i \in 1 .. n - p + 1 /\ i - (e + 2) + r = i + p - 1
      BY <1>6, <3>1
    <3>3. /\ e + 2 \in Nat \ {0} /\ n - p + 1 \in Nat /\ n - p + 1 <= Len(u)
          /\ r \in Nat \ {0} /\ n <= Len(s) /\ (n - p + 1) - (e + 2) = n - r
          /\ \A i \in e + 2 .. n - p + 1 : u[i] = s[i - (e + 2) + r]
          /\ u \in Seq(S) /\ s \in Seq(S)
      BY <1>1, <1>3, <1>6, <3>1, <3>2
    <3>. QED  BY <3>3, SameStretch
  <2>. QED  BY <2>1, <2>2
<1>14. q \in Starts(s)
  <2>1. q = 1 \/ s[q - 1] = COLON
    <3>1. CASE q = p
      BY <1>1, <1>7, <3>1
    <3>2. CASE q # p
      <4>1. q - 1 \in p .. q - 1
        BY <1>6, <1>7, <3>2
      <4>. QED  BY <1>8, <4>1
    <3>. QED  BY <3>1, <3>2
  <2>2. q \in q .. f
    BY <1>7
  <2>. QED  BY <1>1, <1>8, <2>1, <2>2 DEF Starts
<1>15. ASSUME NEW i \in Starts(s) PROVE i < p \/ i = q \/ r <= i
  <2>1. i \in 1 .. n /\ s[i] # COLON /\ (i = 1 \/ s[i - 1] = COLON)
    BY <1>1 DEF Starts
  <2>2. i \notin p .. q - 1
    BY <1>8, <2>1
  <2>3. i \notin q + 1 .. f
    <3>. SUFFICES ASSUME i \in q + 1 .. f PROVE FALSE
      OBVIOUS
    <3>1. i # 1 /\ i - 1 \in q .. f
      OBVIOUS
    <3>. QED  BY <1>8, <2>1, <3>1
  <2>4. i # f + 1 \/ f = n
    BY <1>8, <2>1
  <2>. QED  BY <1>6, <1>7, <1>11, <2>1, <2>2, <2>3, <2>4
<1>16. r = n + 1 \/ s[r - 1] = COLON
  BY <1>11
<1>17. /\ Token(u) = DirAt(s, q) /\ AfterToken(u) = SubSeq(s, r, n)
       /\ u = SubSeq(s, p, Len(s)) /\ n = Len(s)
  BY <1>1, <1>2, <1>5, <1>9, <1>10, <1>13
<1>. QED  BY <1>7, <1>12, <1>14, <1>15, <1>16, <1>17

\* The answers in the property exist, each made from those before.
LEMMA AnswersAre ==
    ASSUME filenames \in Seq(Names)
    PROVE  /\ Answers[0] = <<>>
           /\ \A n \in 1 .. Len(filenames) : Answers[n] = WithAnswer(n, Answers[n - 1])
<1>1. PICK m \in Nat : m = Len(filenames)
  OBVIOUS
<1>. DEFINE S == Seq({<<DirAt(dirs, Min(Having(i))), filenames[i]>> : i \in 1 .. m})
            D == [i \in 1 .. m |-> [a \in S |-> WithAnswer(i, a)]]
            F(g) == [n \in 0 .. m |-> IF n = 0 THEN <<>> ELSE WithAnswer(n, g[n - 1])]
            upto == CHOOSE g : g = F(g)
<1>2. Answers = upto
  BY <1>1 DEF Answers
<1>3. \A i \in 1 .. m, a \in S : WithAnswer(i, a) \in S
  BY DEF WithAnswer
<1>4. <<>> \in S
  OBVIOUS
<1>. HIDE DEF S
<1>5. D \in [1 .. m -> [S -> S]]
  BY <1>3
<1>6. PICK g \in [0 .. m -> S] : Iterates(g, m, <<>>, D)
  <2>. HIDE DEF D
  <2>. QED  BY <1>4, <1>5, RecursionExists
<1>7. ASSUME NEW n \in 0 .. m
      PROVE  g[n] = IF n = 0 THEN <<>> ELSE WithAnswer(n, g[n - 1])
  <2>1. g[n] = IF n = 0 THEN <<>> ELSE D[n][g[n - 1]]
    <3>. HIDE DEF D
    <3>. QED  BY <1>6 DEF Iterates
  <2>2. ASSUME n # 0 PROVE D[n][g[n - 1]] = WithAnswer(n, g[n - 1])
    <3>1. n \in 1 .. m /\ n - 1 \in 0 .. m
      BY <2>2
    <3>. QED  BY <3>1
  <2>. HIDE DEF D
  <2>. QED  BY <2>1, <2>2
<1>8. g = F(g)
  BY <1>7
<1>9. upto = F(upto)
  <2>. HIDE DEF F
  <2>. QED  BY <1>8
<1>10. Answers = [n \in 0 .. m |-> IF n = 0 THEN <<>> ELSE WithAnswer(n, Answers[n - 1])]
  <2>. HIDE DEF upto
  <2>. QED  BY <1>2, <1>9
<1>. QED  BY <1>1, <1>10

LEMMA WhichStarts == WhichInit => WhichInv
<1>. SUFFICES ASSUME WhichInit PROVE WhichInv
  OBVIOUS
<1>1. dirs \in Seq(STRING)
  BY WhichAssumption DEF WhichInit
<1>2. filenames \in Seq(Names)
  <2>1. PICK m \in 0 .. MaxNames : filenames \in [1 .. m -> Names]
    BY WhichAssumption DEF WhichInit, SeqOf
  <2>. QED  BY <2>1, WhichAssumption
<1>3. found = <<>> /\ nextName = 1 /\ unread = IDLE
  BY DEF WhichInit
<1>4. found = Answers[nextName - 1]
  BY <1>2, <1>3, AnswersAre
<1>. QED  BY <1>1, <1>2, <1>3, <1>4 DEF WhichInv

\* The invariant with all that a step leaves alone.
LEMMA StandsStill ==
    ASSUME UNCHANGED <<dirs, filenames>>
    PROVE  /\ Answers' = Answers /\ \A n : Having(n)' = Having(n)
           /\ \A p : Left(p)' <=> /\ p \in 1 .. Len(dirs) + 1 /\ unread' = SubSeq(dirs, p, Len(dirs))
                                  /\ p = 1 \/ p = Len(dirs) + 1 \/ dirs[p - 1] = COLON
                                  /\ \A i \in Having(nextName') : p <= i
<1>1. \A n : Having(n)' = Having(n)
  BY DEF Having
<1>2. Answers' = Answers
  BY DEF Answers, WithAnswer, Having
<1>. QED  BY <1>1, <1>2 DEF Left

LEMMA WhichSteps == WhichInv /\ [WhichNext]_whichVars => WhichInv'
<1>. SUFFICES ASSUME WhichInv, [WhichNext]_whichVars PROVE WhichInv'
  OBVIOUS
<1>1. UNCHANGED <<dirs, filenames>>
  BY DEF whichVars, WhichNext, CopyDirs, TryDir, GiveUp
<1>2. PICK n \in Nat, m \in Nat : n = Len(dirs) /\ m = Len(filenames)
  BY DEF WhichInv
<1>3. /\ dirs \in Seq(STRING) /\ filenames \in Seq(Names) /\ nextName \in 1 .. m + 1
      /\ found = Answers[nextName - 1]
      /\ \A i \in Starts(dirs) : i \in 1 .. n
  BY <1>2 DEF WhichInv, Starts
<1>4. CASE UNCHANGED whichVars
  <2>1. UNCHANGED <<dirs, filenames, nextName, unread, found>>
    BY <1>4 DEF whichVars
  <2>2. Answers' = Answers
    BY <1>1, StandsStill
  <2>3. \A p \in Nat : Left(p)' <=> Left(p)
    BY <2>1 DEF Left, Having
  <2>4. unread' = IDLE \/ (nextName' \in DOMAIN filenames' /\ \E p \in Nat : Left(p)')
    BY <2>1, <2>3 DEF WhichInv
  <2>. QED  BY <2>1, <2>2, <2>4 DEF WhichInv
<1>5. CASE CopyDirs
  <2>1. /\ nextName \in DOMAIN filenames /\ unread' = dirs /\ nextName' = nextName /\ found' = found
    BY <1>5 DEF CopyDirs
  <2>2. dirs = SubSeq(dirs, 1, n)
    BY <1>2, <1>3
  <2>3. Left(1)'
    <3>1. 1 \in 1 .. n + 1 /\ \A i \in Having(nextName) : 1 <= i
      BY <1>3 DEF Having
    <3>. QED  BY <1>1, <1>2, <2>1, <2>2, <3>1, StandsStill
  <2>4. found' = Answers'[nextName' - 1]
    BY <1>1, <1>3, <2>1, StandsStill
  <2>. QED  BY <1>1, <1>2, <1>3, <2>1, <2>3, <2>4 DEF WhichInv
<1>6. ASSUME unread # IDLE
      PROVE  \E p \in 1 .. n + 1 : /\ unread = SubSeq(dirs, p, n)
                                   /\ p = 1 \/ p = n + 1 \/ dirs[p - 1] = COLON
                                   /\ \A i \in Having(nextName) : p <= i
                                   /\ nextName \in 1 .. m
  BY <1>2, <1>6 DEF WhichInv, Left
<1>7. CASE TryDir
  <2>1. PICK p \in 1 .. n + 1 : /\ unread = SubSeq(dirs, p, n)
                                /\ p = 1 \/ p = n + 1 \/ dirs[p - 1] = COLON
                                /\ \A i \in Having(nextName) : p <= i
                                /\ nextName \in 1 .. m
    BY <1>6, <1>7 DEF TryDir
  <2>2. PICK q \in Starts(dirs) : \E r \in 1 .. n + 1 :
          /\ p <= q /\ q < r /\ \A i \in Starts(dirs) : i < p \/ i = q \/ r <= i
          /\ r = n + 1 \/ dirs[r - 1] = COLON
          /\ Token(unread) = DirAt(dirs, q) /\ AfterToken(unread) = SubSeq(dirs, r, n)
    <3>1. Skipped(unread) # 0
      BY <1>7 DEF TryDir
    <3>. QED  BY <1>2, <1>3, <2>1, <3>1, NextDir
  <2>3. PICK r \in 1 .. n + 1 :
          /\ p <= q /\ q < r /\ \A i \in Starts(dirs) : i < p \/ i = q \/ r <= i
          /\ r = n + 1 \/ dirs[r - 1] = COLON
          /\ Token(unread) = DirAt(dirs, q) /\ AfterToken(unread) = SubSeq(dirs, r, n)
    BY <2>2
  <2>4. \A i \in Having(nextName) : i \in Starts(dirs) /\ (i = q \/ r <= i)
    BY <1>3, <2>1, <2>3 DEF Having
  <2>5. CASE <<DirAt(dirs, q), filenames[nextName]>> \in Readable
    <3>1. /\ found' = Append(found, <<DirAt(dirs, q), filenames[nextName]>>)
          /\ nextName' = nextName + 1 /\ unread' = IDLE
      BY <1>7, <2>3, <2>5 DEF TryDir
    <3>2. q \in Having(nextName)
      BY <2>5 DEF Having
    <3>3. Min(Having(nextName)) = q
      <4>1. PICK H : H = Having(nextName)
        OBVIOUS
      <4>2. q \in H /\ H \in SUBSET Nat /\ \A i \in H : q <= i
        BY <1>3, <2>3, <2>4, <3>2, <4>1
      <4>3. Min(H) \in H /\ \A i \in H : Min(H) <= i
        BY <4>2, MinIsLeast
      <4>. QED  BY <4>1, <4>2, <4>3
    <3>4. Answers[nextName] = found'
      <4>1. Answers[nextName] = WithAnswer(nextName, Answers[nextName - 1])
        BY <1>2, <1>3, <2>1, AnswersAre
      <4>. QED  BY <1>3, <3>1, <3>2, <3>3, <4>1 DEF WithAnswer
    <3>5. found' = Answers'[nextName' - 1]
      <4>1. nextName' - 1 = nextName
        BY <2>1, <3>1
      <4>. QED  BY <1>1, <3>4, <4>1, StandsStill
    <3>6. nextName' \in 1 .. m + 1
      BY <2>1, <3>1
    <3>. QED  BY <1>1, <1>2, <1>3, <3>1, <3>5, <3>6 DEF WhichInv
  <2>6. CASE <<DirAt(dirs, q), filenames[nextName]>> \notin Readable
    <3>1. unread' = SubSeq(dirs, r, n) /\ found' = found /\ nextName' = nextName
      BY <1>7, <2>3, <2>6 DEF TryDir
    <3>2. \A i \in Having(nextName) : r <= i
      BY <2>4, <2>6 DEF Having
    <3>3. Left(r)'
      BY <1>1, <1>2, <2>3, <3>1, <3>2, StandsStill
    <3>4. found' = Answers'[nextName' - 1]
      BY <1>1, <1>3, <3>1, StandsStill
    <3>. QED  BY <1>1, <1>2, <1>3, <2>1, <3>1, <3>3, <3>4 DEF WhichInv
  <2>. QED  BY <2>5, <2>6
<1>8. CASE GiveUp
  <2>1. PICK p \in 1 .. n + 1 : /\ unread = SubSeq(dirs, p, n)
                                /\ \A i \in Having(nextName) : p <= i
                                /\ nextName \in 1 .. m
    BY <1>6, <1>8 DEF GiveUp
  <2>2. \A i \in p .. n : dirs[i] = COLON
    <3>1. PICK u : u = SubSeq(dirs, p, n)
      OBVIOUS
    <3>2. u \in Seq(STRING) /\ Len(u) = n - p + 1 /\ \A i \in 1 .. n - p + 1 : u[i] = dirs[i + p - 1]
      <4>1. \A i \in p .. n : dirs[i] \in STRING
        BY <1>2, <1>3
      <4>2. \A i \in 1 .. n - p + 1 : p + i - 1 = i + p - 1
        OBVIOUS
      <4>. QED  BY <3>1, <4>1, <4>2, SubSeqProperties
    <3>3. Skipped(u) = 0
      BY <1>8, <2>1, <3>1 DEF GiveUp
    <3>4. \A i \in 1 .. n - p + 1 : u[i] = COLON
      BY <3>2, <3>3, SkippedTo
    <3>5. \A i \in p .. n : i - p + 1 \in 1 .. n - p + 1 /\ (i - p + 1) + p - 1 = i
      OBVIOUS
    <3>. QED  BY <3>2, <3>4, <3>5
  <2>3. Having(nextName) = {}
    <3>1. \A i \in Having(nextName) : i \in 1 .. n /\ dirs[i] # COLON
      BY <1>3 DEF Having, Starts
    <3>. QED  BY <2>1, <2>2, <3>1
  <2>4. Answers[nextName] = found
    <3>1. Answers[nextName] = WithAnswer(nextName, Answers[nextName - 1])
      BY <1>2, <1>3, <2>1, AnswersAre
    <3>. QED  BY <1>3, <2>3, <3>1 DEF WithAnswer
  <2>5. found' = found /\ nextName' = nextName + 1 /\ unread' = IDLE
    BY <1>8 DEF GiveUp
  <2>6. found' = Answers'[nextName' - 1] /\ nextName' \in 1 .. m + 1
    <3>1. nextName' - 1 = nextName /\ nextName' \in 1 .. m + 1
      BY <2>1, <2>5
    <3>. QED  BY <1>1, <2>4, <2>5, <3>1, StandsStill
  <2>. QED  BY <1>1, <1>2, <1>3, <2>5, <2>6 DEF WhichInv
<1>. QED  BY <1>4, <1>5, <1>7, <1>8 DEF WhichNext

\* Whatever the list, the names and the files there are: every name is printed
\* in the first directory that has it, one answer a name, in the order of the
\* command line (cutAndFind 62-99).
THEOREM NamesFoundFirst == WhichInit /\ [][WhichNext]_whichVars => []FindsFirst
<1>1. WhichInv => FindsFirst
  BY DEF WhichInv, FindsFirst
<1>. QED  BY <1>1, WhichStarts, WhichSteps, PTL

-----------------------------------------------------------------------------
(***************************************************************************)
(* The thesaurus                                                           *)
(***************************************************************************)
Words == Seq(1 .. Base)

\* The bucket of a word.
Bucket(w) == Map!Hash(w, NUM_HEADWORDS)

\* A map as its calls leave it.
Maps == [nbuckets : {NUM_HEADWORDS}, buckets : [0 .. NUM_HEADWORDS - 1 -> Seq(Seq(Nat))], size : Nat]

\* A cell whose bytes begin with the word: the walk takes it for the word's.
Opens(w, c) == Len(w) <= Len(c) /\ \A i \in 1 .. Len(w) : c[i] = w[i]

\* Whatever word the walk takes a cell for begins a headword of the cell's
\* bucket, and has room for a value behind it.
Begun(m, X) ==
    \A b \in 0 .. NUM_HEADWORDS - 1 : \A i \in 1 .. Len(m.buckets[b]) : \A w \in Words :
        Opens(w, m.buckets[b][i]) =>
          /\ Len(w) + 2 <= Len(m.buckets[b][i])
          /\ \E x \in X : Bucket(x) = b /\ Opens(w, x)

LEMMA WordsAre ==
    ASSUME NEW w \in Words
    PROVE  /\ w \in Seq(Nat) /\ Len(w) \in Nat
           /\ \A i \in 1 .. Len(w) : w[i] \in Nat /\ 0 < w[i] /\ w[i] <= Base
<1>1. w \in Seq(Nat) /\ Len(w) \in Nat
  BY ThesaurusAssumption DEF Words
<1>2. ASSUME NEW i \in 1 .. Len(w) PROVE w[i] \in 1 .. Base
  <2>1. PICK S : S = 1 .. Base
    OBVIOUS
  <2>2. w \in Seq(S)
    BY <2>1 DEF Words
  <2>3. w[i] \in S
    BY <2>2
  <2>. QED  BY <2>1, <2>3
<1>. QED  BY <1>1, <1>2, ThesaurusAssumption

LEMMA OpensIsPrefix ==
    ASSUME NEW w \in Seq(Nat), NEW c \in Seq(Nat)
    PROVE  IsPrefix(w, c) <=> Opens(w, c)
<1>1. PICK n \in Nat : n = Len(w)
  OBVIOUS
<1>2. ASSUME n <= Len(c)
      PROVE  (SubSeq(w, 1, n) = SubSeq(c, 1, n)) <=> \A i \in 1 .. n : c[i] = w[i]
  <2>1. PICK u : u = SubSeq(w, 1, n)
    OBVIOUS
  <2>2. PICK v : v = SubSeq(c, 1, n)
    OBVIOUS
  <2>3. u \in Seq(Nat) /\ Len(u) = n /\ \A i \in 1 .. n : u[i] = w[i]
    BY <1>1, <2>1
  <2>4. v \in Seq(Nat) /\ Len(v) = n /\ \A i \in 1 .. n : v[i] = c[i]
    BY <1>1, <1>2, <2>2
  <2>5. ASSUME \A i \in 1 .. n : c[i] = w[i] PROVE u = v
    BY <2>3, <2>4, <2>5, SeqEqual
  <2>. QED  BY <2>1, <2>2, <2>3, <2>4, <2>5
<1>. QED  BY <1>1, <1>2 DEF IsPrefix, Opens

LEMMA BucketInRange == \A s \in Words : Bucket(s) \in 0 .. NUM_HEADWORDS - 1
<1>. SUFFICES ASSUME NEW s \in Words PROVE Bucket(s) \in 0 .. NUM_HEADWORDS - 1
  OBVIOUS
<1>. DEFINE L == Len(s)
            next(x, i) == (x * Multiplier + s[i]) % WordMod
            F(g) == [i \in 0 .. L |-> IF i = 0 THEN 0 ELSE next(g[i - 1], i)]
            step == [i \in 1 .. L |-> [x \in Nat |-> next(x, i)]]
            code == CHOOSE g : g = F(g)
<1>0. L \in Nat /\ s \in Seq(Nat)
  BY WordsAre
<1>1. \A x \in Nat : \A i \in 1 .. L : next(x, i) \in Nat
  <2>1. \A x \in Nat : \A i \in 1 .. L : x * Multiplier + s[i] \in Nat
    BY <1>0, ThesaurusAssumption
  <2>. QED  BY <2>1, ThesaurusAssumption
<1>2. Bucket(s) = code[L] % NUM_HEADWORDS
  BY DEF Bucket, Map!Hash
<1>. HIDE DEF L, next
<1>3. step \in [1 .. L -> [Nat -> Nat]]
  BY <1>1
<1>4. PICK g \in [0 .. L -> Nat] : Iterates(g, L, 0, step)
  <2>1. 0 \in Nat
    OBVIOUS
  <2>. HIDE DEF step
  <2>. QED  BY <1>0, <1>3, <2>1, RecursionExists
<1>5. ASSUME NEW i \in 0 .. L
      PROVE  g[i] = IF i = 0 THEN 0 ELSE next(g[i - 1], i)
  <2>1. g[i] = IF i = 0 THEN 0 ELSE step[i][g[i - 1]]
    <3>. HIDE DEF step
    <3>. QED  BY <1>4 DEF Iterates
  <2>2. ASSUME i # 0 PROVE i \in 1 .. L /\ i - 1 \in 0 .. L
    BY <1>0, <2>2
  <2>3. ASSUME i # 0 PROVE step[i][g[i - 1]] = next(g[i - 1], i)
    BY <2>2, <2>3
  <2>. HIDE DEF step
  <2>. QED  BY <2>1, <2>3
<1>6. g = F(g)
  BY <1>5
<1>7. code = F(code)
  <2>. HIDE DEF F
  <2>. QED  BY <1>6
<1>. HIDE DEF code
<1>8. code[L] \in Nat
  <2>1. CASE L = 0
    BY <1>7, <2>1
  <2>. DEFINE T == {i \in Nat : i <= L => code[i] \in Nat}
  <2>2. 0 \in T
    BY <1>0, <1>7
  <2>3. ASSUME NEW i \in Nat, i \in T PROVE i + 1 \in T
    <3>. SUFFICES ASSUME i + 1 <= L PROVE code[i + 1] \in Nat
      OBVIOUS
    <3>1. code[i + 1] = next(code[i], i + 1) /\ code[i] \in Nat /\ i + 1 \in 1 .. L
      BY <1>0, <1>7, <2>3
    <3>. QED  BY <1>1, <3>1
  <2>4. Nat \subseteq T
    <3>. HIDE DEF T
    <3>. QED  BY <2>2, <2>3, InductionOnNat
  <2>. QED  BY <1>0, <2>4
<1>. QED  BY <1>2, <1>8, ThesaurusAssumption

\* Where the walk along a bucket stops: at the first cell that the word opens.
StopsAt(q, w, k) ==
    /\ k \in 0 .. Len(q) /\ (k # 0 => Opens(w, q[k]))
    /\ \A i \in 1 .. Len(q) : Opens(w, q[i]) => k # 0 /\ k <= i

LEMMA FindIs ==
    ASSUME NEW m \in Maps, NEW w \in Words
    PROVE  StopsAt(m.buckets[Bucket(w)], w, Map!Find(m, w))
<1>0. PICK k : k = Map!Find(m, w)
  OBVIOUS
<1>1. PICK q \in Seq(Seq(Nat)) : q = m.buckets[Bucket(w)]
  BY BucketInRange DEF Maps
<1>2. PICK I \in SUBSET (1 .. Len(q)) : \A i \in 1 .. Len(q) : i \in I <=> Map!SameKey(q[i], w)
  <2>. WITNESS {i \in 1 .. Len(q) : Map!SameKey(q[i], w)} \in SUBSET (1 .. Len(q))
  <2>. QED  OBVIOUS
<1>3. I = {i \in 1 .. Len(q) : Map!SameKey(q[i], w)}
  BY <1>2
<1>4. k = IF I # {} THEN Map!Min(I) ELSE 0
  BY <1>0, <1>1, <1>3 DEF Map!Find, Map!SelectInSeq, Bucket, Maps
<1>5. \A i \in 1 .. Len(q) : i \in I <=> Opens(w, q[i])
  <2>1. \A i \in 1 .. Len(q) : q[i] \in Seq(Nat)
    OBVIOUS
  <2>. QED  BY <1>2, <2>1, WordsAre, OpensIsPrefix DEF Map!SameKey, Map!IsPrefix, IsPrefix
<1>6. CASE I = {}
  BY <1>0, <1>1, <1>4, <1>5, <1>6 DEF StopsAt
<1>7. CASE I # {}
  <2>1. Map!Min(I) \in I /\ \A i \in I : Map!Min(I) <= i
    <3>1. I \in SUBSET Nat
      OBVIOUS
    <3>. QED  BY <1>7, <3>1, LeastExists DEF Map!Min
  <2>2. k \in I /\ \A i \in I : k <= i
    BY <1>4, <1>7, <2>1
  <2>3. k \in 1 .. Len(q)
    BY <2>2
  <2>. QED  BY <1>0, <1>1, <1>5, <2>2, <2>3 DEF StopsAt
<1>. QED  BY <1>6, <1>7

\* What a lookup answers, by where the walk stops.
LEMMA GetIs ==
    ASSUME NEW m \in Maps, NEW w \in Words
    PROVE  Map!CmapGet(m, w, -1) =
             IF Map!Find(m, w) = 0 THEN -1 ELSE m.buckets[Bucket(w)][Map!Find(m, w)][Len(w) + 2]
BY DEF Map!CmapGet, Bucket, Maps

\* What a put does to its bucket: one byte behind the key in the cell that the
\* walk finds, or a new cell at the end.
CellOverwritten(q, r, i, p, v) ==
    /\ Len(r) = Len(q) /\ i \in 1 .. Len(q)
    /\ \A j \in 1 .. Len(q) : j # i => r[j] = q[j]
    /\ Len(r[i]) = Len(q[i]) /\ \A j \in 1 .. Len(q[i]) : r[i][j] = IF j = p THEN v ELSE q[i][j]

CellAdded(q, r, key, v) ==
    /\ Len(r) = Len(q) + 1 /\ \A j \in 1 .. Len(q) : r[j] = q[j]
    /\ Len(r[Len(r)]) = Len(key) + 2
    /\ \A j \in 1 .. Len(key) : r[Len(r)][j] = key[j]
    /\ r[Len(r)][Len(key) + 1] = 0 /\ r[Len(r)][Len(key) + 2] = v

IsPut(m, n, k, h, v) ==
    /\ n \in Maps
    /\ \A b \in 0 .. NUM_HEADWORDS - 1 : b # Bucket(h) => n.buckets[b] = m.buckets[b]
    /\ k # 0 => CellOverwritten(m.buckets[Bucket(h)], n.buckets[Bucket(h)], k, Len(h) + 2, v)
    /\ k = 0 => CellAdded(m.buckets[Bucket(h)], n.buckets[Bucket(h)], h, v)

LEMMA PutIs ==
    ASSUME NEW m \in Maps, NEW h \in Words, NEW v \in Nat
    PROVE  IsPut(m, Map!CmapPut(m, h, v), Map!Find(m, h), h, v)
<1>8. PICK n : n = Map!CmapPut(m, h, v)
  OBVIOUS
<1>9. PICK k : k = Map!Find(m, h)
  OBVIOUS
<1>1. PICK b \in 0 .. NUM_HEADWORDS - 1 : b = Bucket(h)
  BY BucketInRange
<1>2. PICK B \in [0 .. NUM_HEADWORDS - 1 -> Seq(Seq(Nat))] : B = m.buckets
  BY DEF Maps
<1>3. PICK q \in Seq(Seq(Nat)) : q = B[b]
  OBVIOUS
<1>4. /\ m.size \in Nat /\ m.nbuckets = NUM_HEADWORDS
      /\ m = [nbuckets |-> m.nbuckets, buckets |-> m.buckets, size |-> m.size]
  BY DEF Maps
<1>5. h \in Seq(Nat) /\ Len(h) \in Nat
  BY WordsAre
<1>6. CASE k # 0
  <2>1. k \in 1 .. Len(q) /\ q[k] \in Seq(Nat)
    BY <1>1, <1>2, <1>3, <1>6, <1>9, FindIs DEF StopsAt
  <2>2. PICK c \in Seq(Nat) : c = [q[k] EXCEPT ![Len(h) + 2] = v]
    <3>1. PICK d \in Seq(Nat) : d = q[k]
      BY <2>1
    <3>2. PICK l \in Nat : l = Len(d) /\ d \in [1 .. l -> Nat]
      OBVIOUS
    <3>3. [d EXCEPT ![Len(h) + 2] = v] \in [1 .. l -> Nat]
      BY <3>2
    <3>4. [d EXCEPT ![Len(h) + 2] = v] \in Seq(Nat)
      BY <3>3
    <3>. QED  BY <3>1, <3>4
  <2>3. PICK r \in Seq(Seq(Nat)) : r = [q EXCEPT ![k] = c]
    <3>1. [q EXCEPT ![k] = c] \in Seq(Seq(Nat))
      BY <2>1, ExceptSeq
    <3>. QED  BY <3>1
  <2>4. n = [m EXCEPT !.buckets[b][k][Len(h) + 2] = v]
    BY <1>1, <1>4, <1>6, <1>8, <1>9 DEF Map!CmapPut, Bucket
  <2>5. n = [m EXCEPT !.buckets = [B EXCEPT ![b] = r]]
    BY <1>2, <1>3, <2>2, <2>3, <2>4
  <2>6. /\ n.nbuckets = m.nbuckets /\ n.size = m.size /\ n.buckets = [B EXCEPT ![b] = r]
        /\ n = [nbuckets |-> n.nbuckets, buckets |-> n.buckets, size |-> n.size]
    BY <1>4, <2>5
  <2>7. n \in Maps
    BY <1>4, <2>6 DEF Maps
  <2>8. n.buckets[b] = r /\ \A a \in 0 .. NUM_HEADWORDS - 1 : a # b => n.buckets[a] = B[a]
    BY <2>6
  <2>9. CellOverwritten(q, r, k, Len(h) + 2, v)
    BY <2>1, <2>2, <2>3 DEF CellOverwritten
  <2>. QED  BY <1>1, <1>2, <1>3, <1>6, <1>8, <1>9, <2>7, <2>8, <2>9 DEF IsPut
<1>7. CASE k = 0
  <2>1. PICK c \in Seq(Nat) : c = h \o <<0, v>>
    <3>1. h \o <<0, v>> \in Seq(Nat)
      BY <1>5
    <3>. QED  BY <3>1
  <2>2. PICK r \in Seq(Seq(Nat)) : r = Append(q, c)
    <3>1. Append(q, c) \in Seq(Seq(Nat))
      OBVIOUS
    <3>. QED  BY <3>1
  <2>3. n = [m EXCEPT !.buckets[b] = Append(@, c), !.size = @ + 1]
    BY <1>1, <1>4, <1>7, <1>8, <1>9, <2>1 DEF Map!CmapPut, Map!BuildCell, Map!NUL, Bucket
  <2>4. /\ n.nbuckets = m.nbuckets /\ n.size = m.size + 1 /\ n.buckets = [B EXCEPT ![b] = r]
        /\ n = [nbuckets |-> n.nbuckets, buckets |-> n.buckets, size |-> n.size]
    BY <1>2, <1>3, <1>4, <2>2, <2>3
  <2>5. n \in Maps
    <3>1. m.size + 1 \in Nat /\ [B EXCEPT ![b] = r] \in [0 .. NUM_HEADWORDS - 1 -> Seq(Seq(Nat))]
      BY <1>4
    <3>2. PICK z \in Nat : z = m.size + 1
      BY <3>1
    <3>. QED  BY <1>4, <2>4, <3>1, <3>2 DEF Maps
  <2>6. n.buckets[b] = r /\ \A a \in 0 .. NUM_HEADWORDS - 1 : a # b => n.buckets[a] = B[a]
    BY <2>4
  <2>7. /\ Len(c) = Len(h) + 2 /\ \A j \in 1 .. Len(h) : c[j] = h[j]
        /\ c[Len(h) + 1] = 0 /\ c[Len(h) + 2] = v
    BY <1>5, <2>1
  <2>8. CellAdded(q, r, h, v)
    BY <2>2, <2>7 DEF CellAdded
  <2>. QED  BY <1>1, <1>2, <1>3, <1>7, <1>8, <1>9, <2>5, <2>6, <2>8 DEF IsPut
<1>. QED  BY <1>6, <1>7
\* No word of characters is found in a cell by an address written there.
LEMMA OverwrittenOpensLess ==
    ASSUME NEW q \in Seq(Seq(Nat)), NEW r \in Seq(Seq(Nat)), NEW i, NEW p \in Nat,
           NEW v \in Nat, v > Base, CellOverwritten(q, r, i, p, v), NEW w \in Words, NEW j \in 1 .. Len(q)
    PROVE  Opens(w, r[j]) => Opens(w, q[j])
<1>. SUFFICES ASSUME Opens(w, r[j]) PROVE Opens(w, q[j])
  OBVIOUS
<1>1. CASE j # i
  BY <1>1 DEF CellOverwritten
<1>2. CASE j = i
  <2>1. PICK l \in Nat : l = Len(w) /\ \A a \in 1 .. l : w[a] \in Nat /\ w[a] <= Base
    BY WordsAre
  <2>2. PICK c \in Seq(Nat), d \in Seq(Nat) : c = q[i] /\ d = r[i]
    BY <1>2 DEF CellOverwritten
  <2>3. /\ l <= Len(d) /\ \A a \in 1 .. l : d[a] = w[a]
        /\ Len(d) = Len(c) /\ \A a \in 1 .. Len(c) : d[a] = IF a = p THEN v ELSE c[a]
    BY <1>2, <2>1, <2>2 DEF Opens, CellOverwritten
  <2>4. ASSUME NEW a \in 1 .. l PROVE c[a] = w[a]
    <3>1. a \in 1 .. Len(c) /\ d[a] # v
      <4>1. d[a] = w[a] /\ w[a] # v
        BY <2>1, <2>3, ThesaurusAssumption
      <4>2. a \in 1 .. Len(c)
        BY <2>3
      <4>. QED  BY <4>1, <4>2
    <3>. QED  BY <2>3, <3>1
  <2>. QED  BY <1>2, <2>1, <2>2, <2>3, <2>4 DEF Opens
<1>. QED  BY <1>1, <1>2

\* Of two words that begin one cell, one begins the other.
LEMMA OpensBoth ==
    ASSUME NEW w \in Words, NEW x \in Words, NEW c \in Seq(Nat), Opens(w, c), Opens(x, c)
    PROVE  Opens(w, x) \/ Opens(x, w)
<1>1. PICK l \in Nat, n \in Nat : l = Len(w) /\ n = Len(x)
  BY WordsAre
<1>2. l <= n \/ n <= l
  BY <1>1
<1>. QED  BY <1>1, <1>2 DEF Opens

\* A new cell begins with its key and the words that begin this, and no others.
LEMMA NewCellOpens ==
    ASSUME NEW c \in Seq(Nat), NEW h \in Words, NEW w \in Words, Len(c) = Len(h) + 2,
           \A j \in 1 .. Len(h) : c[j] = h[j], c[Len(h) + 1] = 0
    PROVE  /\ Opens(w, c) <=> Opens(w, h)
           /\ Opens(w, h) => Len(w) <= Len(h)
<1>1. PICK l \in Nat, n \in Nat : l = Len(w) /\ n = Len(h) /\ \A a \in 1 .. l : w[a] # 0
  BY WordsAre
<1>2. ASSUME Opens(w, c) PROVE l <= n
  <2>. SUFFICES ASSUME n + 1 \in 1 .. l PROVE FALSE
    BY <1>1
  <2>. QED  BY <1>1, <1>2 DEF Opens
<1>. QED  BY <1>1, <1>2 DEF Opens

LEMMA PutBegins ==
    ASSUME NEW m \in Maps, NEW X \in SUBSET Words, Begun(m, X),
           NEW h \in Words, NEW v \in Nat, v > Base
    PROVE  Begun(Map!CmapPut(m, h, v), X \cup {h})
<1>1. PICK n : n = Map!CmapPut(m, h, v)
  OBVIOUS
<1>2. PICK k : k = Map!Find(m, h)
  OBVIOUS
<1>3. /\ n \in Maps
      /\ \A b \in 0 .. NUM_HEADWORDS - 1 : b # Bucket(h) => n.buckets[b] = m.buckets[b]
      /\ k # 0 => CellOverwritten(m.buckets[Bucket(h)], n.buckets[Bucket(h)], k, Len(h) + 2, v)
      /\ k = 0 => CellAdded(m.buckets[Bucket(h)], n.buckets[Bucket(h)], h, v)
  BY <1>1, <1>2, PutIs DEF IsPut
<1>. SUFFICES ASSUME NEW b \in 0 .. NUM_HEADWORDS - 1, NEW i \in 1 .. Len(n.buckets[b]),
                     NEW w \in Words, Opens(w, n.buckets[b][i])
              PROVE  /\ Len(w) + 2 <= Len(n.buckets[b][i])
                     /\ \E x \in X \cup {h} : Bucket(x) = b /\ Opens(w, x)
  BY <1>1 DEF Begun
<1>4. PICK q \in Seq(Seq(Nat)), r \in Seq(Seq(Nat)) : q = m.buckets[b] /\ r = n.buckets[b]
  BY <1>3 DEF Maps
<1>9. i \in 1 .. Len(r) /\ Opens(w, r[i])
  BY <1>4
<1>5. \A j \in 1 .. Len(q) : Opens(w, q[j]) =>
          Len(w) + 2 <= Len(q[j]) /\ \E x \in X : Bucket(x) = b /\ Opens(w, x)
  BY <1>4 DEF Begun
<1>6. CASE b # Bucket(h)
  BY <1>3, <1>4, <1>5, <1>6, <1>9
<1>7. CASE b = Bucket(h) /\ k # 0
  <2>1. CellOverwritten(q, r, k, Len(h) + 2, v)
    BY <1>3, <1>4, <1>7
  <2>2. i \in 1 .. Len(q) /\ Len(r[i]) = Len(q[i])
    BY <1>9, <2>1 DEF CellOverwritten
  <2>3. Len(h) + 2 \in Nat
    BY WordsAre
  <2>4. Opens(w, q[i])
    BY <1>4, <2>1, <2>2, <2>3, OverwrittenOpensLess
  <2>. QED  BY <1>4, <1>5, <2>2, <2>4
<1>8. CASE b = Bucket(h) /\ k = 0
  <2>1. CellAdded(q, r, h, v)
    BY <1>3, <1>4, <1>8
  <2>2. CASE i \in 1 .. Len(q)
    BY <1>4, <1>5, <2>1, <2>2 DEF CellAdded
  <2>3. CASE i = Len(r)
    <3>1. PICK c \in Seq(Nat) : c = r[i]
      BY <1>4
    <3>2. Len(c) = Len(h) + 2 /\ (\A j \in 1 .. Len(h) : c[j] = h[j]) /\ c[Len(h) + 1] = 0
      BY <2>1, <2>3, <3>1 DEF CellAdded
    <3>3. Opens(w, h) /\ Len(w) <= Len(h)
      BY <1>4, <3>1, <3>2, NewCellOpens
    <3>4. Len(w) \in Nat /\ Len(h) \in Nat
      BY WordsAre
    <3>. QED  BY <1>4, <1>8, <3>1, <3>2, <3>3, <3>4
  <2>4. i \in 1 .. Len(r) /\ Len(r) = Len(q) + 1
    BY <1>9, <2>1 DEF CellAdded
  <2>. QED  BY <2>2, <2>3, <2>4
<1>. QED  BY <1>6, <1>7, <1>8

LEMMA ConfusedIs ==
    ASSUME NEW w \in Words, NEW x \in Words
    PROVE  Confused(w, x) <=> w # x /\ Bucket(w) = Bucket(x) /\ (Opens(w, x) \/ Opens(x, w))
BY WordsAre, OpensIsPrefix DEF Confused, Bucket

\* A word's answer is the same in two maps in which the same cells open it.
LEMMA SameAnswer ==
    ASSUME NEW m \in Maps, NEW n \in Maps, NEW w \in Words,
           NEW q \in Seq(Seq(Nat)), q = m.buckets[Bucket(w)],
           NEW r \in Seq(Seq(Nat)), r = n.buckets[Bucket(w)],
           Len(q) <= Len(r), \A j \in 1 .. Len(q) : Opens(w, q[j]) => r[j] = q[j],
           \A j \in 1 .. Len(r) : Opens(w, r[j]) => j \in 1 .. Len(q) /\ Opens(w, q[j])
    PROVE  Map!CmapGet(n, w, -1) = Map!CmapGet(m, w, -1)
<1>1. PICK j \in 0 .. Len(q) : j = Map!Find(m, w) /\ StopsAt(q, w, j)
  BY FindIs DEF StopsAt
<1>2. PICK k \in 0 .. Len(r) : k = Map!Find(n, w) /\ StopsAt(r, w, k)
  BY FindIs DEF StopsAt
<1>3. CASE j = 0
  <2>1. k = 0
    <3>. SUFFICES ASSUME k \in 1 .. Len(r) PROVE FALSE
      OBVIOUS
    <3>1. k \in 1 .. Len(q) /\ Opens(w, q[k])
      BY <1>2 DEF StopsAt
    <3>2. \A i \in 1 .. Len(q) : Opens(w, q[i]) => j # 0
      <4>1. StopsAt(q, w, j)
        BY <1>1
      <4>. QED  BY <4>1, Zenon DEF StopsAt
    <3>3. j # 0
      BY <3>1, <3>2, Zenon
    <3>. QED  BY <1>3, <3>3
  <2>. QED  BY <1>1, <1>2, <1>3, <2>1, GetIs
<1>4. CASE j \in 1 .. Len(q)
  <2>1. Opens(w, q[j]) /\ r[j] = q[j] /\ j \in 1 .. Len(r)
    <3>1. j # 0
      BY <1>4
    <3>2. StopsAt(q, w, j)
      BY <1>1
    <3>3. Opens(w, q[j])
      BY <3>1, <3>2, Zenon DEF StopsAt
    <3>4. r[j] = q[j]
      BY <1>4, <3>3, Zenon
    <3>5. Len(q) \in Nat /\ Len(r) \in Nat
      OBVIOUS
    <3>. QED  BY <1>4, <3>3, <3>4, <3>5
  <2>2. k \in 1 .. Len(r) /\ k <= j
    BY <1>2, <2>1 DEF StopsAt
  <2>3. k \in 1 .. Len(q) /\ Opens(w, q[k])
    BY <1>2, <2>2 DEF StopsAt
  <2>4. k = j
    BY <1>1, <2>2, <2>3 DEF StopsAt
  <2>. QED  BY <1>1, <1>2, <1>4, <2>1, <2>4, GetIs
<1>. QED  BY <1>1, <1>3, <1>4

\* What is put is what the key is answered with.
LEMMA PutGets ==
    ASSUME NEW m \in Maps, NEW X, Begun(m, X), NEW h \in Words, NEW v \in Nat
    PROVE  Map!CmapGet(Map!CmapPut(m, h, v), h, -1) = v
<1>1. PICK n : n = Map!CmapPut(m, h, v)
  OBVIOUS
<1>2. PICK k : k = Map!Find(m, h)
  OBVIOUS
<1>3. /\ n \in Maps
      /\ k # 0 => CellOverwritten(m.buckets[Bucket(h)], n.buckets[Bucket(h)], k, Len(h) + 2, v)
      /\ k = 0 => CellAdded(m.buckets[Bucket(h)], n.buckets[Bucket(h)], h, v)
  BY <1>1, <1>2, PutIs DEF IsPut
<1>4. PICK q \in Seq(Seq(Nat)), r \in Seq(Seq(Nat)) : q = m.buckets[Bucket(h)] /\ r = n.buckets[Bucket(h)]
  BY <1>3, BucketInRange DEF Maps
<1>5. StopsAt(q, h, k)
  BY <1>2, <1>4, FindIs
<1>6. PICK j \in 0 .. Len(r) : j = Map!Find(n, h) /\ StopsAt(r, h, j)
  BY <1>3, <1>4, FindIs DEF StopsAt
<1>8. PICK l \in Nat : l = Len(h)
  BY WordsAre
<1>9. j # 0 /\ r[j][l + 2] = v
  <2>1. CASE k # 0
    <3>1. CellOverwritten(q, r, k, l + 2, v) /\ k \in 1 .. Len(q) /\ Opens(h, q[k])
      BY <1>3, <1>4, <1>5, <1>8, <2>1 DEF StopsAt
    <3>2. l + 2 <= Len(q[k])
      BY <1>4, <1>8, <3>1, BucketInRange DEF Begun
    <3>3. PICK c \in Seq(Nat), d \in Seq(Nat) : c = q[k] /\ d = r[k]
      BY <3>1 DEF CellOverwritten
    <3>4. Opens(h, d) /\ d[l + 2] = v
      <4>1. Len(d) = Len(c) /\ \A i \in 1 .. Len(c) : d[i] = IF i = l + 2 THEN v ELSE c[i]
        BY <3>1, <3>3 DEF CellOverwritten
      <4>2. l <= Len(c) /\ \A i \in 1 .. l : c[i] = h[i]
        BY <1>8, <3>1, <3>3 DEF Opens
      <4>3. PICK g \in Nat : g = Len(c)
        OBVIOUS
      <4>4. \A i \in 1 .. l : i \in 1 .. g /\ i # l + 2
        BY <4>2, <4>3
      <4>5. l <= Len(d) /\ \A i \in 1 .. l : d[i] = h[i]
        BY <4>1, <4>2, <4>3, <4>4
      <4>6. l + 2 \in 1 .. Len(c)
        BY <3>2, <3>3
      <4>. QED  BY <1>8, <4>1, <4>5, <4>6 DEF Opens
    <3>5. k \in 1 .. Len(r) /\ j # 0 /\ j <= k
      <4>1. k \in 1 .. Len(r)
        BY <3>1 DEF CellOverwritten
      <4>. QED  BY <1>6, <3>3, <3>4, <4>1 DEF StopsAt
    <3>6. j = k
      <4>. SUFFICES ASSUME j < k PROVE FALSE
        BY <3>5
      <4>1. j \in 1 .. Len(q) /\ Opens(h, q[j])
        BY <1>6, <3>1, <3>5 DEF StopsAt, CellOverwritten
      <4>. QED  BY <1>5, <3>1, <4>1 DEF StopsAt
    <3>. QED  BY <3>1, <3>3, <3>4, <3>6
  <2>2. CASE k = 0
    <3>1. CellAdded(q, r, h, v)
      BY <1>3, <1>4, <2>2
    <3>2. PICK c \in Seq(Nat) : c = r[Len(r)] /\ Len(r) = Len(q) + 1
      BY <3>1 DEF CellAdded
    <3>3. Opens(h, c) /\ c[l + 2] = v
      BY <1>8, <3>1, <3>2 DEF CellAdded, Opens
    <3>4. \A i \in 1 .. Len(q) : ~Opens(h, r[i])
      BY <1>5, <2>2, <3>1 DEF CellAdded, StopsAt
    <3>5. j = Len(r)
      <4>1. j # 0 /\ Opens(h, r[j])
        BY <1>6, <3>2, <3>3 DEF StopsAt
      <4>2. j \in 1 .. Len(q) + 1
        BY <3>2, <4>1
      <4>3. j \notin 1 .. Len(q)
        BY <3>4, <4>1
      <4>4. PICK g \in Nat : g = Len(q)
        OBVIOUS
      <4>. QED  BY <3>2, <4>2, <4>3, <4>4
    <3>. QED  BY <3>2, <3>3, <3>5
  <2>. QED  BY <2>1, <2>2
<1>. QED  BY <1>1, <1>3, <1>4, <1>6, <1>8, <1>9, GetIs

\* A put leaves every other answer alone whose word it is not confused with.
LEMMA PutLeaves ==
    ASSUME NEW m \in Maps, NEW h \in Words, NEW v \in Nat, v > Base,
           NEW w \in Words, w # h, ~Confused(w, h)
    PROVE  Map!CmapGet(Map!CmapPut(m, h, v), w, -1) = Map!CmapGet(m, w, -1)
<1>1. PICK n : n = Map!CmapPut(m, h, v)
  OBVIOUS
<1>2. PICK k : k = Map!Find(m, h)
  OBVIOUS
<1>3. /\ n \in Maps
      /\ \A b \in 0 .. NUM_HEADWORDS - 1 : b # Bucket(h) => n.buckets[b] = m.buckets[b]
      /\ k # 0 => CellOverwritten(m.buckets[Bucket(h)], n.buckets[Bucket(h)], k, Len(h) + 2, v)
      /\ k = 0 => CellAdded(m.buckets[Bucket(h)], n.buckets[Bucket(h)], h, v)
  BY <1>1, <1>2, PutIs DEF IsPut
<1>4. PICK q \in Seq(Seq(Nat)), r \in Seq(Seq(Nat)) : q = m.buckets[Bucket(w)] /\ r = n.buckets[Bucket(w)]
  BY <1>3, BucketInRange DEF Maps
<1>5. /\ Len(q) <= Len(r) /\ \A j \in 1 .. Len(q) : Opens(w, q[j]) => r[j] = q[j]
      /\ \A j \in 1 .. Len(r) : Opens(w, r[j]) => j \in 1 .. Len(q) /\ Opens(w, q[j])
  <2>1. CASE Bucket(w) # Bucket(h)
    <3>1. q = r
      BY <1>3, <1>4, <2>1, BucketInRange
    <3>. QED  BY <3>1
  <2>2. CASE Bucket(w) = Bucket(h) /\ k # 0
    <3>1. CellOverwritten(q, r, k, Len(h) + 2, v) /\ k \in 1 .. Len(q) /\ Opens(h, q[k])
      BY <1>2, <1>3, <1>4, <2>2, FindIs DEF StopsAt
    <3>2. ~Opens(w, q[k])
      <4>1. q[k] \in Seq(Nat)
        BY <3>1
      <4>. QED  BY <2>2, <3>1, <4>1, OpensBoth, ConfusedIs
    <3>3. \A j \in 1 .. Len(q) : Opens(w, r[j]) => Opens(w, q[j])
      <4>1. Len(h) + 2 \in Nat
        BY WordsAre
      <4>. QED  BY <3>1, <4>1, OverwrittenOpensLess
    <3>. QED  BY <3>1, <3>2, <3>3 DEF CellOverwritten
  <2>3. CASE Bucket(w) = Bucket(h) /\ k = 0
    <3>1. CellAdded(q, r, h, v)
      BY <1>3, <1>4, <2>3
    <3>2. PICK c \in Seq(Nat) : c = r[Len(r)] /\ Len(r) = Len(q) + 1
      BY <3>1 DEF CellAdded
    <3>3. ~Opens(w, c)
      <4>1. Len(c) = Len(h) + 2 /\ (\A j \in 1 .. Len(h) : c[j] = h[j]) /\ c[Len(h) + 1] = 0
        BY <3>1, <3>2 DEF CellAdded
      <4>. QED  BY <2>3, <4>1, NewCellOpens, ConfusedIs
    <3>4. \A j \in 1 .. Len(r) : j \in 1 .. Len(q) \/ j = Len(r)
      BY <3>2
    <3>. QED  BY <3>1, <3>2, <3>3, <3>4 DEF CellAdded
  <2>. QED  BY <2>1, <2>2, <2>3
<1>. QED  BY <1>1, <1>3, <1>4, <1>5, SameAnswer

\* A word that begins no headword of its bucket is not found.
LEMMA GetsNothing ==
    ASSUME NEW m \in Maps, NEW X \in SUBSET Words, Begun(m, X), NEW w \in Words,
           w \notin X, \A x \in X : ~Confused(w, x)
    PROVE  Map!CmapGet(m, w, -1) = -1
<1>1. PICK k : k = Map!Find(m, w)
  OBVIOUS
<1>2. PICK q \in Seq(Seq(Nat)) : q = m.buckets[Bucket(w)]
  BY BucketInRange DEF Maps
<1>3. k = 0 \/ (k \in 1 .. Len(q) /\ Opens(w, q[k]))
  BY <1>1, <1>2, FindIs DEF StopsAt
<1>4. ASSUME k \in 1 .. Len(q), Opens(w, q[k]) PROVE FALSE
  <2>1. PICK x \in X : Bucket(x) = Bucket(w) /\ Opens(w, x)
    BY <1>2, <1>4, BucketInRange DEF Begun
  <2>. QED  BY <2>1, ConfusedIs
<1>. QED  BY <1>1, <1>3, <1>4, GetIs
-----------------------------------------------------------------------------
\* A vector holds the words of a sequence.
Lists(v, s) == v.size = Len(s) /\ v.elems = [k \in 0 .. Len(s) - 1 |-> s[k + 1]]

Vectors ==
    {v \in [nelems : Nat, bytes : Nat, size : Nat, elems : UNION {[0 .. n - 1 -> Words] : n \in Nat}] :
       v.elems \in [0 .. v.size - 1 -> Words]}

IsAppended(v, x, u) ==
    /\ u \in Vectors /\ u.size = v.size + 1
    /\ u.elems = [k \in 0 .. v.size |-> IF k < v.size THEN v.elems[k] ELSE x]

LEMMA AppendIs ==
    ASSUME NEW v \in Vectors, NEW x \in Words
    PROVE  IsAppended(v, x, Vector!CvecInsert(v, x, v.size))
<1>1. PICK n \in Nat : n = v.size
  BY DEF Vectors
<1>2. v.elems \in [0 .. n - 1 -> Words] /\ v.nelems \in Nat /\ v.bytes \in Nat
  BY <1>1 DEF Vectors
<1>3. PICK g : g = Vector!DoubleCap(v)
  OBVIOUS
<1>4. /\ g.nelems \in Nat /\ g.bytes \in Nat /\ g.size = n
      /\ g = [nelems |-> g.nelems, bytes |-> g.bytes, size |-> g.size, elems |-> g.elems]
  <2>1. v = [nelems |-> v.nelems, bytes |-> v.bytes, size |-> v.size, elems |-> v.elems]
    BY DEF Vectors
  <2>2. 2 * v.nelems \in Nat /\ 2 * v.nelems * 8 \in Nat
    BY <1>2
  <2>. QED  BY <1>1, <1>2, <1>3, <2>1, <2>2 DEF Vector!DoubleCap
<1>. DEFINE e == [k \in 0 .. n |-> IF k < n THEN v.elems[k] ELSE x]
<1>5. e \in [0 .. n -> Words] /\ [e EXCEPT ![n] = x] = e
  BY <1>2
<1>6. PICK u : u = Vector!CvecInsert(v, x, n)
  OBVIOUS
<1>7. u = [g EXCEPT !.elems = [e EXCEPT ![n] = x], !.size = @ + 1]
  <2>1. ~(n <= v.size - 1)
    BY <1>1
  <2>2. e = [k \in 0 .. v.size |-> IF k < v.size THEN v.elems[k] ELSE x]
    BY <1>1
  <2>. HIDE DEF e
  <2>. QED  BY <1>3, <1>6, <2>1, <2>2 DEF Vector!CvecInsert
<1>. HIDE DEF e
<1>8. /\ u.size = n + 1 /\ u.elems = e /\ u.nelems = g.nelems /\ u.bytes = g.bytes
      /\ u = [nelems |-> u.nelems, bytes |-> u.bytes, size |-> u.size, elems |-> u.elems]
  BY <1>4, <1>5, <1>7
<1>9. u \in Vectors
  <2>1. PICK m \in Nat : m = n + 1
    OBVIOUS
  <2>2. u.elems \in [0 .. m - 1 -> Words]
    BY <1>5, <1>8, <2>1
  <2>. QED  BY <1>4, <1>8, <2>1, <2>2 DEF Vectors
<1>. QED  BY <1>1, <1>6, <1>8, <1>9 DEF e, IsAppended

\* The vector made of a line lists what is behind its headword.
LEMMA CollectedLists ==
    ASSUME NEW line \in Seq(Words), line # <<>>
    PROVE  Collected(line) \in Vectors /\ Lists(Collected(line), Tail(line))
<1>1. PICK n \in Nat : n + 1 = Len(line)
  <2>1. PICK l \in Nat : l = Len(line) /\ l # 0
    OBVIOUS
  <2>. WITNESS l - 1 \in Nat
  <2>. QED  BY <2>1
<1>2. \A i \in 1 .. n + 1 : line[i] \in Words
  BY <1>1
<1>. DEFINE first == Vector!CvecCreate(NUM_SYNONYMS)
            next(v, x) == Vector!CvecInsert(v, x, v.size)
            D == [i \in 1 .. n |-> [v \in Vectors |-> next(v, line[i + 1])]]
            F(g) == [i \in 1 .. n + 1 |-> IF i = 1 THEN first ELSE next(g[i - 1], line[i])]
            upto == CHOOSE g : g = F(g)
<1>3. Collected(line) = upto[n + 1]
  BY <1>1 DEF Collected
<1>4. first \in Vectors /\ first.size = 0
  <2>1. first = [nelems |-> NUM_SYNONYMS, bytes |-> 8 * NUM_SYNONYMS, size |-> 0, elems |-> <<>>]
    BY ThesaurusAssumption DEF Vector!CvecCreate
  <2>2. 8 * NUM_SYNONYMS \in Nat /\ NUM_SYNONYMS \in Nat
    BY ThesaurusAssumption
  <2>3. <<>> \in [0 .. 0 - 1 -> Words]
    OBVIOUS
  <2>4. <<>> \in UNION {[0 .. m - 1 -> Words] : m \in Nat}
    BY <2>3
  <2>5. PICK E : E = UNION {[0 .. m - 1 -> Words] : m \in Nat}
    OBVIOUS
  <2>6. first \in [nelems : Nat, bytes : Nat, size : Nat, elems : E]
    BY <2>1, <2>2, <2>4, <2>5
  <2>7. first.elems \in [0 .. first.size - 1 -> Words] /\ first.size = 0
    BY <2>1, <2>3
  <2>. HIDE DEF first
  <2>. QED  BY <2>5, <2>6, <2>7 DEF Vectors
<1>5. D \in [1 .. n -> [Vectors -> Vectors]]
  <2>1. \A i \in 1 .. n, v \in Vectors : next(v, line[i + 1]) \in Vectors
    <3>. SUFFICES ASSUME NEW i \in 1 .. n, NEW v \in Vectors PROVE next(v, line[i + 1]) \in Vectors
      OBVIOUS
    <3>1. PICK x \in Words : x = line[i + 1]
      BY <1>2
    <3>2. IsAppended(v, x, next(v, x))
      BY AppendIs
    <3>. QED  BY <3>1, <3>2 DEF IsAppended
  <2>. HIDE DEF next
  <2>. QED  BY <2>1
<1>. HIDE DEF first, next
<1>6. PICK g \in [0 .. n -> Vectors] : Iterates(g, n, first, D)
  <2>. HIDE DEF D
  <2>. QED  BY <1>4, <1>5, RecursionExists
<1>7. ASSUME NEW i \in 0 .. n
      PROVE  g[i] = IF i = 0 THEN first ELSE next(g[i - 1], line[i + 1])
  <2>1. g[i] = IF i = 0 THEN first ELSE D[i][g[i - 1]]
    <3>. HIDE DEF D
    <3>. QED  BY <1>6 DEF Iterates
  <2>2. ASSUME i # 0 PROVE D[i][g[i - 1]] = next(g[i - 1], line[i + 1])
    <3>1. i \in 1 .. n /\ i - 1 \in 0 .. n
      BY <2>2
    <3>. QED  BY <3>1
  <2>. HIDE DEF D
  <2>. QED  BY <2>1, <2>2
<1>8. PICK h : h = [i \in 1 .. n + 1 |-> g[i - 1]]
  OBVIOUS
<1>9. h = F(h)
  <2>1. ASSUME NEW i \in 1 .. n + 1
        PROVE  h[i] = IF i = 1 THEN first ELSE next(h[i - 1], line[i])
    <3>1. i - 1 \in 0 .. n /\ (i - 1) + 1 = i /\ (i # 1 => i - 1 \in 1 .. n + 1 /\ i - 1 # 0)
      OBVIOUS
    <3>2. h[i] = g[i - 1] /\ (i # 1 => h[i - 1] = g[(i - 1) - 1])
      BY <1>8, <3>1
    <3>. QED  BY <1>7, <3>1, <3>2
  <2>. QED  BY <1>8, <2>1
<1>10. upto = F(upto)
  <2>. HIDE DEF F
  <2>. QED  BY <1>9
<1>. HIDE DEF upto
<1>. DEFINE Right(i) == /\ upto[i + 1] \in Vectors /\ upto[i + 1].size = i
                        /\ \A k \in 0 .. i - 1 : upto[i + 1].elems[k] = line[k + 2]
            T == {i \in Nat : i <= n => Right(i)}
<1>11. 0 \in T
  <2>1. upto[1] = first
    BY <1>10
  <2>. QED  BY <1>4, <2>1
<1>12. ASSUME NEW i \in Nat, i \in T PROVE i + 1 \in T
  <2>. SUFFICES ASSUME i + 1 <= n PROVE Right(i + 1)
    <3>. HIDE DEF Right
    <3>. QED  OBVIOUS
  <2>1. Right(i)
    <3>. HIDE DEF Right
    <3>. QED  BY <1>12
  <2>2. PICK v \in Vectors : v = upto[i + 1] /\ v.size = i /\ \A k \in 0 .. i - 1 : v.elems[k] = line[k + 2]
    BY <2>1
  <2>3. PICK u : u = upto[i + 2]
    OBVIOUS
  <2>4. u = next(v, line[i + 2])
    <3>1. i + 2 \in 1 .. n + 1 /\ i + 2 # 1 /\ (i + 2) - 1 = i + 1
      OBVIOUS
    <3>. QED  BY <1>10, <2>2, <2>3, <3>1
  <2>5. /\ u \in Vectors /\ u.size = i + 1
        /\ u.elems = [k \in 0 .. i |-> IF k < i THEN v.elems[k] ELSE line[i + 2]]
    <3>1. PICK x \in Words : x = line[i + 2]
      BY <1>2
    <3>2. IsAppended(v, x, next(v, x))
      BY AppendIs DEF next
    <3>. QED  BY <2>2, <2>4, <3>1, <3>2 DEF IsAppended
  <2>6. \A k \in 0 .. (i + 1) - 1 : u.elems[k] = line[k + 2]
    <3>. TAKE k \in 0 .. (i + 1) - 1
    <3>1. k \in 0 .. i /\ (k < i => k \in 0 .. i - 1) /\ (~(k < i) => k = i)
      OBVIOUS
    <3>. QED  BY <2>2, <2>5, <3>1
  <2>7. (i + 1) + 1 = i + 2
    OBVIOUS
  <2>. QED  BY <2>3, <2>5, <2>6, <2>7
<1>13. n \in T
  <2>1. Nat \subseteq T
    <3>. HIDE DEF T
    <3>. QED  BY <1>11, <1>12, InductionOnNat
  <2>. QED  BY <2>1
<1>14. PICK v \in Vectors : /\ v = upto[n + 1] /\ v.size = n
                            /\ \A k \in 0 .. n - 1 : v.elems[k] = line[k + 2]
  BY <1>13
<1>15. Len(Tail(line)) = n /\ \A k \in 0 .. n - 1 : Tail(line)[k + 1] = line[k + 2]
  <2>1. Len(Tail(line)) = n /\ \A j \in 1 .. n : Tail(line)[j] = line[j + 1]
    BY <1>1
  <2>2. \A k \in 0 .. n - 1 : k + 1 \in 1 .. n /\ (k + 1) + 1 = k + 2
    OBVIOUS
  <2>. QED  BY <2>1, <2>2
<1>16. v.elems \in [0 .. n - 1 -> Words]
  BY <1>14 DEF Vectors
<1>. QED  BY <1>3, <1>14, <1>15, <1>16 DEF Lists
LEMMA PrependIs ==
    ASSUME NEW S, NEW x \in S, NEW b \in Seq(S)
    PROVE  /\ <<x>> \o b \in Seq(S) /\ Len(<<x>> \o b) = Len(b) + 1 /\ (<<x>> \o b)[1] = x
           /\ \A j \in 2 .. Len(b) + 1 : (<<x>> \o b)[j] = b[j - 1]
<1>1. PICK f \in Seq(S) : f = <<x>> /\ Len(f) = 1 /\ f[1] = x
  <2>1. <<x>> \in Seq(S) /\ Len(<<x>>) = 1 /\ <<x>>[1] = x
    OBVIOUS
  <2>. QED  BY <2>1
<1>2. PICK c : c = f \o b
  OBVIOUS
<1>3. PICK l \in Nat : l = Len(b)
  OBVIOUS
<1>4. c \in Seq(S) /\ Len(c) = 1 + l /\ \A i \in 1 .. 1 + l : c[i] = IF i <= 1 THEN f[i] ELSE b[i - 1]
  BY <1>1, <1>2, <1>3, ConcatProperties
<1>5. c[1] = x
  BY <1>1, <1>4
<1>6. \A j \in 2 .. l + 1 : c[j] = b[j - 1]
  BY <1>4
<1>. QED  BY <1>1, <1>2, <1>3, <1>4, <1>5, <1>6

\* Printing goes through all of them.
LEMMA PrintsAll ==
    ASSUME NEW v, NEW s \in Seq(Words), Lists(v, s)
    PROVE  PrintedFrom(v) = s
<1>1. PICK n \in Nat : n = Len(s)
  OBVIOUS
<1>2. v.size = n /\ v.elems = [k \in 0 .. n - 1 |-> s[k + 1]]
  BY <1>1 DEF Lists
<1>. DEFINE rest(pos) == IF pos + 1 = n THEN -1 ELSE pos + 1
            F(g) == [pos \in -1 .. n - 1 |-> IF pos = -1 THEN <<>> ELSE <<s[pos + 1]>> \o g[rest(pos)]]
            words == CHOOSE g : g = F(g)
            from(pos) == IF pos = -1 THEN <<>> ELSE SubSeq(s, pos + 1, n)
<1>3. PrintedFrom(v) = words[IF n = 0 THEN -1 ELSE 0]
  <2>1. \A pos \in 0 .. n - 1 : Vector!CvecNth(v, pos) = s[pos + 1] /\ Vector!CvecNext(v, pos) = rest(pos)
    BY <1>2 DEF Vector!CvecNth, Vector!CvecNext, Vector!NULL
  <2>. DEFINE G(g) == [pos \in -1 .. n - 1 |->
                         IF pos = -1 THEN <<>> ELSE <<Vector!CvecNth(v, pos)>> \o g[Vector!CvecNext(v, pos)]]
  <2>2. ASSUME NEW g PROVE G(g) = F(g)
    <3>1. \A pos \in -1 .. n - 1 : pos # -1 => pos \in 0 .. n - 1
      OBVIOUS
    <3>. HIDE DEF rest
    <3>. QED  BY <2>1, <3>1
  <2>3. PrintedFrom(v) = (CHOOSE g : g = G(g))[IF n = 0 THEN -1 ELSE 0]
    BY <1>2 DEF PrintedFrom, Vector!NULL, Vector!CvecFirst
  <2>. HIDE DEF F, G
  <2>4. (CHOOSE g : g = G(g)) = (CHOOSE g : g = F(g))
    BY <2>2
  <2>. QED  BY <2>3, <2>4
<1>4. ASSUME NEW pos \in 0 .. n - 1
      PROVE  from(pos) = <<s[pos + 1]>> \o from(rest(pos))
  <2>1. PICK a : a = SubSeq(s, pos + 1, n)
    OBVIOUS
  <2>2. a \in Seq(Words) /\ Len(a) = n - pos /\ \A j \in 1 .. n - pos : a[j] = s[pos + j]
    BY <1>1, <2>1
  <2>3. PICK b \in Seq(Words) : /\ b = from(rest(pos)) /\ Len(b) = n - pos - 1
                                /\ \A j \in 1 .. n - pos - 1 : b[j] = s[pos + 1 + j]
    <3>1. CASE pos + 1 = n
      <4>. WITNESS <<>> \in Seq(Words)
      <4>. QED  BY <3>1
    <3>2. CASE pos + 1 # n
      <4>1. from(rest(pos)) = SubSeq(s, pos + 2, n) /\ SubSeq(s, pos + 2, n) \in Seq(Words)
        BY <1>1, <3>2
      <4>2. PICK c \in Seq(Words) : c = SubSeq(s, pos + 2, n)
        BY <4>1
      <4>3. Len(c) = n - pos - 1 /\ \A j \in 1 .. n - pos - 1 : c[j] = s[pos + 1 + j]
        BY <1>1, <3>2, <4>2
      <4>. HIDE DEF from, rest
      <4>. QED  BY <4>1, <4>2, <4>3
    <3>. QED  BY <3>1, <3>2
  <2>4. PICK c : c = <<s[pos + 1]>> \o b
    OBVIOUS
  <2>5. /\ c \in Seq(Words) /\ Len(c) = n - pos /\ c[1] = s[pos + 1]
        /\ \A j \in 2 .. n - pos : c[j] = b[j - 1]
    <3>1. PICK x \in Words : x = s[pos + 1]
      BY <1>1
    <3>2. PICK m \in Nat : m = n - pos - 1 /\ n - pos = m + 1
      OBVIOUS
    <3>3. c = <<x>> \o b /\ Len(b) = m
      BY <2>3, <2>4, <3>1, <3>2
    <3>4. c \in Seq(Words) /\ Len(c) = m + 1 /\ c[1] = x /\ \A j \in 2 .. m + 1 : c[j] = b[j - 1]
      BY <3>3, PrependIs
    <3>. HIDE DEF from, rest
    <3>. QED  BY <3>1, <3>2, <3>4
  <2>6. \A j \in 1 .. n - pos : a[j] = c[j]
    <3>. TAKE j \in 1 .. n - pos
    <3>1. CASE j = 1
      BY <2>2, <2>5, <3>1
    <3>2. CASE j # 1
      <4>1. j \in 2 .. n - pos /\ j - 1 \in 1 .. n - pos - 1 /\ pos + 1 + (j - 1) = pos + j
        BY <3>2
      <4>. QED  BY <2>2, <2>3, <2>5, <4>1
    <3>. QED  BY <3>1, <3>2
  <2>7. a = c
    BY <2>2, <2>5, <2>6, SeqEqual
  <2>8. from(pos) = a
    BY <2>1
  <2>. QED  BY <2>3, <2>4, <2>7, <2>8
<1>5. PICK g : g = [pos \in -1 .. n - 1 |-> from(pos)]
  OBVIOUS
<1>6. g = F(g)
  <2>1. ASSUME NEW pos \in -1 .. n - 1
        PROVE  g[pos] = IF pos = -1 THEN <<>> ELSE <<s[pos + 1]>> \o g[rest(pos)]
    <3>1. CASE pos = -1
      BY <1>5, <3>1
    <3>2. CASE pos # -1
      <4>1. pos \in 0 .. n - 1 /\ rest(pos) \in -1 .. n - 1
        BY <3>2
      <4>2. g[pos] = from(pos) /\ g[rest(pos)] = from(rest(pos))
        BY <1>5, <4>1
      <4>. HIDE DEF from, rest
      <4>. QED  BY <1>4, <3>2, <4>1, <4>2
    <3>. QED  BY <3>1, <3>2
  <2>. HIDE DEF from, rest
  <2>. QED  BY <1>5, <2>1
<1>7. words = F(words)
  <2>. HIDE DEF F
  <2>. QED  BY <1>6
<1>. HIDE DEF words
<1>14. ASSUME NEW pos \in 0 .. n - 1 PROVE words[pos] = <<s[pos + 1]>> \o words[rest(pos)]
  <2>1. pos \in -1 .. n - 1 /\ pos # -1
    OBVIOUS
  <2>. HIDE DEF rest
  <2>. QED  BY <1>7, <2>1
<1>. DEFINE T == {d \in Nat : d < n => words[n - 1 - d] = from(n - 1 - d)}
<1>8. words[-1] = <<>>
  BY <1>7
<1>9. 0 \in T
  <2>. SUFFICES ASSUME n > 0 PROVE words[n - 1] = from(n - 1)
    OBVIOUS
  <2>1. n - 1 \in 0 .. n - 1 /\ rest(n - 1) = -1
    OBVIOUS
  <2>2. words[n - 1] = <<s[(n - 1) + 1]>> \o words[rest(n - 1)]
    <3>. HIDE DEF rest
    <3>. QED  BY <1>14, <2>1
  <2>3. from(n - 1) = <<s[(n - 1) + 1]>> \o from(rest(n - 1))
    BY <1>4, <2>1
  <2>4. from(-1) = <<>>
    OBVIOUS
  <2>. HIDE DEF from, rest
  <2>. QED  BY <1>8, <2>1, <2>2, <2>3, <2>4
<1>10. ASSUME NEW d \in Nat, d \in T PROVE d + 1 \in T
  <2>. SUFFICES ASSUME d + 1 < n PROVE words[n - 1 - (d + 1)] = from(n - 1 - (d + 1))
    OBVIOUS
  <2>1. PICK pos \in 0 .. n - 1 : pos = n - 1 - (d + 1) /\ pos + 1 = n - 1 - d
    <3>1. n - 1 - (d + 1) \in 0 .. n - 1 /\ (n - 1 - (d + 1)) + 1 = n - 1 - d
      OBVIOUS
    <3>. QED  BY <3>1
  <2>2. rest(pos) = n - 1 - d /\ d < n
    BY <2>1
  <2>3. words[pos] = <<s[pos + 1]>> \o words[rest(pos)]
    <3>. HIDE DEF rest
    <3>. QED  BY <1>14
  <2>4. words[n - 1 - d] = from(n - 1 - d)
    BY <1>10, <2>2
  <2>. HIDE DEF from, rest
  <2>. QED  BY <1>4, <2>1, <2>2, <2>3, <2>4
<1>11. n > 0 => words[0] = from(0)
  <2>1. Nat \subseteq T
    <3>. HIDE DEF T
    <3>. QED  BY <1>9, <1>10, InductionOnNat
  <2>. SUFFICES ASSUME n > 0 PROVE words[0] = from(0)
    OBVIOUS
  <2>2. n - 1 \in Nat /\ n - 1 < n /\ n - 1 - (n - 1) = 0
    BY <1>1
  <2>3. n - 1 \in T
    BY <2>1, <2>2
  <2>. HIDE DEF from
  <2>. QED  BY <2>2, <2>3
<1>12. n > 0 => from(0) = s
  BY <1>1
<1>13. n = 0 => s = <<>>
  BY <1>1, EmptySeq
<1>. HIDE DEF from
<1>. QED  BY <1>3, <1>8, <1>11, <1>12, <1>13

\* The lines that a word heads.
LinesOf(w) == {k \in DOMAIN text : IsEntry(text[k]) /\ text[k][1] = w}

\* The map leads from the word to a vector with the words of its last line.
Known(w) ==
    \E k \in LinesOf(w), e \in DOMAIN synonyms :
        /\ \A j \in LinesOf(w) : j <= k
        /\ Map!CmapGet(thesaurus, w, -1) = Base + e
        /\ Lists(synonyms[e], Tail(text[k]))

ThesaurusInv ==
    /\ text \in Seq(TextLines) /\ synonyms \in Seq(Vectors) /\ thesaurus \in Maps
    /\ Begun(thesaurus, Headwords)
    /\ \A w \in Headwords : (\A x \in Headwords : ~Confused(w, x)) => Known(w)
    /\ phase = "reading" => reply = <<>>
    /\ AnswersFromFile

LEMMA LinesAre ==
    /\ TextLines \subseteq Seq(Words) /\ Responses \subseteq Words
    /\ \A line \in TextLines : IsEntry(line) => line # <<>> /\ line[1] \in Words
<1>1. TextLines \subseteq Seq(Words) /\ Responses \subseteq Words
  <2>1. Seq(Words \ {<<>>}) \subseteq Seq(Words)
    OBVIOUS
  <2>. QED  BY <2>1, ThesaurusAssumption DEF Words
<1>2. ASSUME NEW line \in TextLines, IsEntry(line) PROVE line # <<>> /\ line[1] \in Words
  <2>1. line \in Seq(Words) /\ line # <<>>
    BY <1>1, <1>2 DEF IsEntry, EMPTYLINE
  <2>2. 1 \in 1 .. Len(line)
    BY <2>1, EmptySeq
  <2>. QED  BY <2>1, <2>2
<1>. QED  BY <1>1, <1>2

LEMMA HeadwordsAre ==
    ASSUME text \in Seq(TextLines)
    PROVE  /\ Headwords \in SUBSET Words
           /\ \A w : w \in Headwords <=> LinesOf(w) # {}
           /\ \A w : \A k \in LinesOf(w) : k \in 1 .. Len(text) /\ text[k] \in TextLines
<1>1. \A k \in DOMAIN text : k \in 1 .. Len(text) /\ text[k] \in TextLines
  OBVIOUS
<1>. QED  BY <1>1, LinesAre DEF Headwords, LinesOf

\* What a line more changes.
LEMMA LineRead ==
    ASSUME text \in Seq(TextLines), NEW line \in TextLines, text' = Append(text, line)
    PROVE  /\ text' \in Seq(TextLines) /\ \A k \in 1 .. Len(text) : text'[k] = text[k]
           /\ text'[Len(text) + 1] = line
           /\ Headwords' = Headwords \cup (IF IsEntry(line) THEN {line[1]} ELSE {})
           /\ \A w : LinesOf(w)' =
                LinesOf(w) \cup (IF IsEntry(line) /\ line[1] = w THEN {Len(text) + 1} ELSE {})
<1>1. PICK n \in Nat : n = Len(text)
  OBVIOUS
<1>2. /\ text' \in Seq(TextLines) /\ DOMAIN text = 1 .. n /\ DOMAIN text' = 1 .. n + 1
      /\ text'[n + 1] = line /\ \A k \in 1 .. n : text'[k] = text[k]
  BY <1>1
<1>3. \A k \in 1 .. n + 1 : k \in 1 .. n \/ k = n + 1
  OBVIOUS
<1>4. n + 1 \in 1 .. n + 1 /\ \A k \in 1 .. n : k \in 1 .. n + 1
  OBVIOUS
<1>5. ASSUME NEW w
      PROVE  LinesOf(w)' = LinesOf(w) \cup (IF IsEntry(line) /\ line[1] = w THEN {n + 1} ELSE {})
  BY <1>2, <1>3, <1>4 DEF LinesOf
<1>6. Headwords' = Headwords \cup (IF IsEntry(line) THEN {line[1]} ELSE {})
  <2>1. Headwords = {text[k][1] : k \in {j \in 1 .. n : IsEntry(text[j])}}
    BY <1>2 DEF Headwords
  <2>2. Headwords' = {text'[k][1] : k \in {j \in 1 .. n + 1 : IsEntry(text'[j])}}
    BY <1>2 DEF Headwords
  <2>. QED  BY <1>2, <1>3, <1>4, <2>1, <2>2
<1>. QED  BY <1>1, <1>2, <1>5, <1>6

LEMMA ThesaurusStarts == ThesaurusInit => ThesaurusInv
<1>. SUFFICES ASSUME ThesaurusInit PROVE ThesaurusInv
  OBVIOUS
<1>1. /\ phase = "reading" /\ text = <<>> /\ synonyms = <<>> /\ reply = <<>>
      /\ thesaurus = Map!CmapCreate(NUM_HEADWORDS)
  BY DEF ThesaurusInit, ThesaurusZero
<1>2. thesaurus = [nbuckets |-> NUM_HEADWORDS, size |-> 0,
                   buckets  |-> [i \in 0 .. NUM_HEADWORDS - 1 |-> <<>>]]
  BY <1>1, ThesaurusAssumption DEF Map!CmapCreate
<1>3. thesaurus \in Maps
  <2>1. [i \in 0 .. NUM_HEADWORDS - 1 |-> <<>>] \in [0 .. NUM_HEADWORDS - 1 -> Seq(Seq(Nat))]
    OBVIOUS
  <2>. QED  BY <1>2, <2>1 DEF Maps
<1>4. \A b \in 0 .. NUM_HEADWORDS - 1 : 1 .. Len(thesaurus.buckets[b]) = {}
  BY <1>2
<1>5. Headwords = {}
  BY <1>1 DEF Headwords
<1>. QED  BY <1>1, <1>3, <1>4, <1>5 DEF ThesaurusInv, Begun, AnswersFromFile

\* A line entered: its headword is known by it, the others as before.
LEMMA EnterKeeps ==
    ASSUME ThesaurusInv, NEW line \in TextLines, text' = Append(text, line), Enter(line)
    PROVE  /\ synonyms' \in Seq(Vectors) /\ thesaurus' \in Maps /\ Begun(thesaurus', Headwords')
           /\ \A w \in Headwords' : (\A x \in Headwords' : ~Confused(w, x)) => Known(w)'
<1>1. PICK h \in Words, u \in Vectors :
        /\ IsEntry(line) /\ h = line[1] /\ u = Collected(line) /\ Lists(u, Tail(line))
  BY LinesAre, CollectedLists DEF Enter
<1>2. PICK m \in Nat, n \in Nat : m = Len(text) /\ n = Len(synonyms)
  BY DEF ThesaurusInv
<1>3. /\ synonyms' \in Seq(Vectors) /\ Len(synonyms') = n + 1 /\ synonyms'[n + 1] = u
      /\ \A e \in 1 .. n : synonyms'[e] = synonyms[e]
  <2>1. synonyms' = Append(synonyms, u) /\ synonyms \in Seq(Vectors)
    BY <1>1 DEF Enter, ThesaurusInv
  <2>. QED  BY <1>2, <2>1
<1>4. PICK v \in Nat : v = Base + (n + 1) /\ v > Base
  <2>1. Base + (n + 1) \in Nat /\ Base + (n + 1) > Base
    BY ThesaurusAssumption
  <2>. QED  BY <2>1
<1>5. thesaurus' = Map!CmapPut(thesaurus, h, v)
  BY <1>1, <1>3, <1>4 DEF Enter
<1>6. /\ thesaurus \in Maps /\ Begun(thesaurus, Headwords) /\ Headwords \in SUBSET Words
      /\ text \in Seq(TextLines)
  BY HeadwordsAre DEF ThesaurusInv
<1>7. Headwords' = Headwords \cup {h}
  BY <1>1, <1>6, LineRead
<1>8. thesaurus' \in Maps /\ Begun(thesaurus', Headwords')
  <2>1. Map!CmapPut(thesaurus, h, v) \in Maps
    BY <1>6, PutIs DEF IsPut
  <2>2. Begun(Map!CmapPut(thesaurus, h, v), Headwords \cup {h})
    BY <1>4, <1>6, PutBegins
  <2>. QED  BY <1>5, <1>7, <2>1, <2>2
<1>9. /\ \A k \in 1 .. m : text'[k] = text[k]
      /\ text'[m + 1] = line
      /\ \A w : LinesOf(w)' = LinesOf(w) \cup (IF h = w THEN {m + 1} ELSE {})
      /\ \A w : \A k \in LinesOf(w) : k \in 1 .. m
  BY <1>1, <1>2, <1>6, LineRead, HeadwordsAre
<1>10. Known(h)'
  <2>1. m + 1 \in LinesOf(h)' /\ \A j \in LinesOf(h)' : j <= m + 1
    BY <1>9
  <2>2. n + 1 \in DOMAIN synonyms'
    BY <1>3
  <2>3. Map!CmapGet(thesaurus', h, -1) = v
    BY <1>4, <1>5, <1>6, PutGets
  <2>. QED  BY <1>1, <1>3, <1>4, <1>9, <2>1, <2>2, <2>3 DEF Known
<1>11. ASSUME NEW w \in Headwords, w # h, \A x \in Headwords' : ~Confused(w, x)
       PROVE  Known(w)'
  <2>1. Known(w) /\ ~Confused(w, h)
    BY <1>7, <1>11 DEF ThesaurusInv
  <2>2. PICK k \in LinesOf(w), e \in DOMAIN synonyms :
          /\ \A j \in LinesOf(w) : j <= k
          /\ Map!CmapGet(thesaurus, w, -1) = Base + e
          /\ Lists(synonyms[e], Tail(text[k]))
    BY <2>1 DEF Known
  <2>3. LinesOf(w)' = LinesOf(w) /\ text'[k] = text[k]
    BY <1>9, <1>11
  <2>4. e \in DOMAIN synonyms' /\ synonyms'[e] = synonyms[e]
    <3>1. e \in 1 .. n
      BY <1>2 DEF ThesaurusInv
    <3>2. e \in 1 .. n + 1
      BY <3>1
    <3>. QED  BY <1>3, <3>1, <3>2
  <2>5. Map!CmapGet(thesaurus', w, -1) = Map!CmapGet(thesaurus, w, -1)
    <3>1. w \in Words
      BY <1>6
    <3>. QED  BY <1>4, <1>5, <1>6, <1>11, <2>1, <3>1, PutLeaves
  <2>. QED  BY <2>2, <2>3, <2>4, <2>5 DEF Known
<1>. QED  BY <1>3, <1>7, <1>8, <1>10, <1>11

\* What is printed for a word that is not confused with a headword.
LEMMA QueryAnswers ==
    ASSUME ThesaurusInv, NEW w \in Words, \A x \in Headwords : ~Confused(w, x),
           NEW f, f = Map!CmapGet(thesaurus, w, -1)
    PROVE  (IF f = -1 THEN NOTHING ELSE PrintedFrom(synonyms[f - Base]))
             = IF LinesOf(w) = {} THEN NOTHING ELSE Tail(text[Max(LinesOf(w))])
<1>1. /\ thesaurus \in Maps /\ Begun(thesaurus, Headwords) /\ Headwords \in SUBSET Words
      /\ text \in Seq(TextLines)
      /\ w \in Headwords <=> LinesOf(w) # {}
      /\ \A k \in LinesOf(w) : k \in 1 .. Len(text) /\ text[k] \in TextLines
  BY HeadwordsAre DEF ThesaurusInv
<1>2. CASE LinesOf(w) = {}
  <2>1. Map!CmapGet(thesaurus, w, -1) = -1
    BY <1>1, <1>2, GetsNothing
  <2>. QED  BY <1>2, <2>1
<1>3. CASE LinesOf(w) # {}
  <2>1. Known(w)
    BY <1>1, <1>3 DEF ThesaurusInv
  <2>2. PICK k \in LinesOf(w), e \in DOMAIN synonyms :
          /\ \A j \in LinesOf(w) : j <= k
          /\ Map!CmapGet(thesaurus, w, -1) = Base + e
          /\ Lists(synonyms[e], Tail(text[k]))
    BY <2>1 DEF Known
  <2>3. e \in Nat \ {0}
    BY DEF ThesaurusInv
  <2>4. f # -1 /\ f - Base = e
    BY <2>2, <2>3, ThesaurusAssumption
  <2>5. Max(LinesOf(w)) = k
    <3>1. PICK L : L = LinesOf(w)
      OBVIOUS
    <3>2. k \in L /\ L \in SUBSET Nat /\ \A j \in L : j <= k
      BY <1>1, <2>2, <3>1
    <3>3. Max(L) \in L /\ \A j \in L : Max(L) >= j
      BY <3>2 DEF Max
    <3>. QED  BY <3>1, <3>2, <3>3
  <2>6. PrintedFrom(synonyms[e]) = Tail(text[k])
    <3>1. text[k] \in Seq(Words) /\ text[k] # <<>>
      BY <1>1, LinesAre DEF LinesOf
    <3>2. Tail(text[k]) \in Seq(Words)
      BY <3>1
    <3>. QED  BY <2>2, <3>2, PrintsAll
  <2>. QED  BY <1>3, <2>4, <2>5, <2>6
<1>. QED  BY <1>2, <1>3

LEMMA ThesaurusSteps == ThesaurusInv /\ [ThesaurusNext]_thesaurusVars => ThesaurusInv'
<1>. SUFFICES ASSUME ThesaurusInv, [ThesaurusNext]_thesaurusVars PROVE ThesaurusInv'
  OBVIOUS
<1>1. ASSUME UNCHANGED <<thesaurus, synonyms, text, reply>>, phase' = "reading" => phase = "reading"
      PROVE  ThesaurusInv'
  BY <1>1 DEF ThesaurusInv, Known, LinesOf, Headwords, AnswersFromFile
<1>2. CASE UNCHANGED thesaurusVars
  BY <1>1, <1>2 DEF thesaurusVars
<1>3. CASE ReadText
  <2>1. PICK line \in TextLines : text' = Append(text, line) /\ (Enter(line) \/ Echo(line) \/ Stop(line))
    BY <1>3 DEF ReadText
  <2>2. reply = <<>> /\ reply' = <<>> /\ text \in Seq(TextLines)
    BY <1>3 DEF ReadText, ThesaurusInv
  <2>3. text' \in Seq(TextLines)
    BY <2>1, <2>2, LineRead
  <2>4. CASE Enter(line)
    BY <2>1, <2>2, <2>3, <2>4, EnterKeeps DEF ThesaurusInv, AnswersFromFile
  <2>5. CASE Echo(line) \/ Stop(line)
    <3>1. ~IsEntry(line) /\ UNCHANGED <<thesaurus, synonyms>>
      BY <2>5 DEF Echo, Stop, IsEntry
    <3>2. /\ Headwords' = Headwords /\ \A w : LinesOf(w)' = LinesOf(w)
          /\ \A k \in 1 .. Len(text) : text'[k] = text[k]
      <4>1. /\ Headwords' = Headwords \cup (IF IsEntry(line) THEN {line[1]} ELSE {})
            /\ \A w : LinesOf(w)' =
                 LinesOf(w) \cup (IF IsEntry(line) /\ line[1] = w THEN {Len(text) + 1} ELSE {})
            /\ \A k \in 1 .. Len(text) : text'[k] = text[k]
        BY <2>1, <2>2, LineRead
      <4>2. \A w : LinesOf(w)' = LinesOf(w)
        BY <3>1, <4>1
      <4>. QED  BY <3>1, <4>1, <4>2
    <3>3. \A w : Known(w) => Known(w)'
      <4>1. \A w : \A k \in LinesOf(w) : text'[k] = text[k]
        BY <2>2, <3>2, HeadwordsAre
      <4>. QED  BY <3>1, <3>2, <4>1 DEF Known
    <3>. QED  BY <2>2, <2>3, <3>1, <3>2, <3>3 DEF ThesaurusInv, AnswersFromFile
  <2>. QED  BY <2>1, <2>4, <2>5
<1>4. CASE EndOfText
  BY <1>1, <1>4 DEF EndOfText
<1>5. CASE Quit
  BY <1>1, <1>5 DEF Quit
<1>6. ASSUME NEW w \in Responses, Query(w) PROVE ThesaurusInv'
  <2>1. PICK f : f = Map!CmapGet(thesaurus, w, -1)
    OBVIOUS
  <2>2. UNCHANGED <<thesaurus, synonyms, text>> /\ phase = "asking"
    BY <1>6 DEF Query
  <2>3. CASE UNCHANGED reply /\ phase' = "crashed"
    BY <1>1, <2>2, <2>3
  <2>4. CASE /\ reply' = <<w, IF f = -1 THEN NOTHING ELSE PrintedFrom(synonyms[f - Base])>>
             /\ phase' = phase
    <3>1. w \in Words
      BY LinesAre
    <3>2. Headwords' = Headwords /\ \A x : LinesOf(x)' = LinesOf(x)
      BY <2>2 DEF Headwords, LinesOf
    <3>3. AnswersFromFile'
      <4>. SUFFICES ASSUME \A x \in Headwords : ~Confused(w, x)
                    PROVE  reply'[2] = IF LinesOf(w) = {} THEN NOTHING ELSE Tail(text[Max(LinesOf(w))])
        BY <2>2, <2>4, <3>2 DEF AnswersFromFile, LinesOf
      <4>. QED  BY <2>1, <2>4, <3>1, QueryAnswers
    <3>4. \A x \in Headwords : Known(x) => Known(x)'
      BY <2>2, <3>2 DEF Known
    <3>. QED  BY <2>2, <2>4, <3>2, <3>3, <3>4 DEF ThesaurusInv
  <2>. QED  BY <1>6, <2>1, <2>3, <2>4 DEF Query
<1>. QED  BY <1>2, <1>3, <1>4, <1>5, <1>6 DEF ThesaurusNext

\* Whatever the file and whatever is asked: a word that is not confused with a
\* headword is answered with what follows it in the last line it heads, or with
\* nothing when it heads none, however the other headwords damage each other's
\* cells (read_thesaurus 51-80, query 88-105).
THEOREM ThesaurusAnswers ==
    ThesaurusInit /\ [][ThesaurusNext]_thesaurusVars => []AnswersFromFile
<1>1. ThesaurusInv => AnswersFromFile
  BY DEF ThesaurusInv
<1>. QED  BY <1>1, ThesaurusStarts, ThesaurusSteps, PTL
=============================================================================
