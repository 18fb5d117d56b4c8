---------------------------- MODULE SearchProofs ----------------------------
(***************************************************************************)
(* The programs that search.  Searchdir.c over any file system: no         *)
(* directory is listed twice but, once more, the one searched; and when    *)
(* the calls have returned, what was gathered is every visible file that   *)
(* can be reached and nothing else, each path once, printed in order.      *)
(* Mygrep.c over any lines: what is emphasized is the first match.         *)
(***************************************************************************)
EXTENDS SearchDir, MyGrep, NumberFacts, SequenceTheorems

\* A directory was opened when it was recorded as visited, and the one that is
\* searched once before.
Openings ==
    /\ visited \in Seq(Dirs) /\ opened \in [Dirs -> Nat]
    /\ \A d \in Dirs : opened[d] = (IF Contains(visited, d) THEN 1 ELSE 0)
                                     + (IF d = Root THEN 1 ELSE 0)

\* Entering a subdirectory records it (gather_files 180-190).
LEMMA DescendCounts ==
    ASSUME Openings, NEW e, Descend(e)
    PROVE  Openings'
<1>. DEFINE n == e.node
<1>1. /\ n \in Dirs /\ ~Contains(visited, n) /\ visited' = Append(visited, n)
      /\ opened' = [opened EXCEPT ![n] = @ + 1]
  BY DEF Descend
<1>. HIDE DEF n
<1>2. visited' \in Seq(Dirs) /\ opened' \in [Dirs -> Nat]
  BY <1>1 DEF Openings
<1>3. ASSUME NEW d \in Dirs
      PROVE  Contains(visited', d) <=> Contains(visited, d) \/ d = n
  <2>1. /\ Len(visited') = Len(visited) + 1 /\ Len(visited) \in Nat
        /\ visited'[Len(visited) + 1] = n
        /\ \A i \in 1 .. Len(visited) : visited'[i] = visited[i]
    BY <1>1 DEF Openings
  <2>. QED  BY <2>1 DEF Contains
<1>4. ASSUME NEW d \in Dirs
      PROVE  opened'[d] = (IF Contains(visited', d) THEN 1 ELSE 0) + (IF d = Root THEN 1 ELSE 0)
  <2>1. CASE d = n
    <3>1. opened'[d] = opened[d] + 1 /\ Contains(visited', d) /\ ~Contains(visited, d)
      BY <1>1, <1>3, <2>1 DEF Openings
    <3>2. opened[d] = IF d = Root THEN 1 ELSE 0
      BY <3>1 DEF Openings
    <3>. QED  BY <3>1, <3>2
  <2>2. CASE d # n
    <3>1. opened'[d] = opened[d] /\ (Contains(visited', d) <=> Contains(visited, d))
      BY <1>1, <1>3, <2>2 DEF Openings
    <3>. QED  BY <3>1 DEF Openings
  <2>. QED  BY <2>1, <2>2
<1>. QED  BY <1>2, <1>4 DEF Openings

\* What leaves visited and opened alone keeps the count.
LEMMA OthersCount ==
    ASSUME Openings, UNCHANGED <<visited, opened>>
    PROVE  Openings'
BY DEF Openings

\* No directory is entered twice whatever links, hard links and mounts lead
\* to it; the one searched is not recorded and may be listed once more
\* (gather_files 159-163, 185).
THEOREM EachListedOnce == Spec => []DirsOnce
<1>1. Init => Openings
  <2>. SUFFICES ASSUME Init PROVE Openings
    OBVIOUS
  <2>1. visited = <<>> /\ opened = [d \in Dirs |-> IF d = Root THEN 1 ELSE 0]
    BY DEF Init
  <2>2. \A d \in Dirs : ~Contains(<<>>, d)
    BY DEF Contains
  <2>. QED  BY <2>1, <2>2 DEF Openings
<1>2. Openings /\ [Next]_vars => Openings'
  <2>. SUFFICES ASSUME Openings, [Next]_vars PROVE Openings'
    OBVIOUS
  <2>1. CASE Entry
    <3>1. PICK e \in Top.unread : Skip(e) \/ Descend(e) \/ Revisit(e) \/ File(e)
      BY <2>1 DEF Entry
    <3>2. CASE Descend(e)
      BY <3>2, DescendCounts
    <3>3. CASE Skip(e) \/ Revisit(e) \/ File(e)
      BY <3>3, OthersCount DEF Skip, Revisit, File
    <3>. QED  BY <3>1, <3>2, <3>3
  <2>2. CASE Return \/ PrintMatches \/ StartAsking \/ Ask
    BY <2>2, OthersCount DEF Return, PrintMatches, StartAsking, Ask
  <2>3. CASE UNCHANGED vars
    BY <2>3, OthersCount DEF vars
  <2>. QED  BY <2>1, <2>2, <2>3 DEF Next, Gathering
<1>3. Openings => DirsOnce
  BY DEF Openings, DirsOnce
<1>. QED  BY <1>1, <1>2, <1>3, PTL DEF Spec

-----------------------------------------------------------------------------
(***************************************************************************)
(* Paths.                                                                  *)
(***************************************************************************)
Paths == Seq(Names)

\* A path leads on from where it led without its last name.
LEMMA LeadsOn ==
    ASSUME NEW t \in Trees, NEW path \in Paths
    PROVE  /\ LeadsTo(t, path) \in Nodes \cup {Gone}
           /\ path = <<>> => LeadsTo(t, path) = Root
           /\ \A name \in Names :
                LeadsTo(t, Append(path, name)) = Entered(t, LeadsTo(t, path), name)
<1>. DEFINE S == Nodes \cup {Gone}
            F(q, g) == [k \in 0 .. Len(q) |-> IF k = 0 THEN Root ELSE Entered(t, g[k - 1], q[k])]
            node(q) == CHOOSE g : g = F(q, g)
<1>1. Root \in S
  BY TreeAssumption DEF Nodes
<1>2. ASSUME NEW d \in S, NEW name PROVE Entered(t, d, name) \in S
  <2>1. CASE d \in Dirs /\ \E e \in t.entries[d] : e.name = name
    <3>. DEFINE c == CHOOSE e \in t.entries[d] : e.name = name
    <3>1. c \in t.entries[d]
      BY <2>1
    <3>2. Entered(t, d, name) = c.node
      BY <2>1 DEF Entered
    <3>. HIDE DEF c
    <3>. QED  BY <2>1, <3>1, <3>2, TreeAssumption
  <2>2. CASE ~(d \in Dirs /\ \E e \in t.entries[d] : e.name = name)
    BY <2>2 DEF Entered
  <2>. QED  BY <2>1, <2>2
<1>. HIDE DEF S
<1>3. ASSUME NEW q \in Paths
      PROVE  /\ node(q)[0] = Root /\ \A k \in 0 .. Len(q) : node(q)[k] \in S
             /\ \A k \in 1 .. Len(q) : node(q)[k] = Entered(t, node(q)[k - 1], q[k])
  <2>. DEFINE L == Len(q)
              step == [k \in 1 .. L |-> [d \in S |-> Entered(t, d, q[k])]]
              W == node(q)
  <2>1. L \in Nat
    BY DEF Paths
  <2>. HIDE DEF L
  <2>2. step \in [1 .. L -> [S -> S]]
    BY <1>2
  <2>3. PICK g \in [0 .. L -> S] : Iterates(g, L, Root, step)
    <3>. HIDE DEF step
    <3>. QED  BY <1>1, <2>1, <2>2, RecursionExists
  <2>4. ASSUME NEW k \in 0 .. L
        PROVE  g[k] = IF k = 0 THEN Root ELSE Entered(t, g[k - 1], q[k])
    <3>1. g[k] = IF k = 0 THEN Root ELSE step[k][g[k - 1]]
      <4>. HIDE DEF step
      <4>. QED  BY <2>3 DEF Iterates
    <3>2. ASSUME k # 0 PROVE k \in 1 .. L /\ k - 1 \in 0 .. L
      BY <2>1, <3>2
    <3>3. ASSUME k # 0 PROVE step[k][g[k - 1]] = Entered(t, g[k - 1], q[k])
      BY <3>2, <3>3
    <3>. HIDE DEF step
    <3>. QED  BY <3>1, <3>3
  <2>5. g = F(q, g)
    BY <2>4 DEF L
  <2>6. W = F(q, W)
    <3>. HIDE DEF F
    <3>. QED  BY <2>5
  <2>. HIDE DEF W
  <2>7. W[0] = Root /\ \A k \in 1 .. L : W[k] = Entered(t, W[k - 1], q[k])
    <3>1. 0 \in 0 .. L /\ \A k \in 1 .. L : k \in 0 .. L /\ k # 0
      BY <2>1
    <3>. QED  BY <2>6, <3>1 DEF L
  <2>. DEFINE T == {k \in Nat : k <= L => W[k] \in S}
  <2>8. 0 \in T
    BY <1>1, <2>7
  <2>9. ASSUME NEW k \in Nat, k \in T PROVE k + 1 \in T
    <3>. DEFINE j == k + 1
    <3>. SUFFICES ASSUME j <= L PROVE W[j] \in S
      OBVIOUS
    <3>1. j \in 1 .. L /\ j - 1 = k /\ W[k] \in S
      BY <2>1, <2>9
    <3>. HIDE DEF j
    <3>. QED  BY <1>2, <2>7, <3>1
  <2>10. Nat \subseteq T
    <3>. HIDE DEF T
    <3>. QED  BY <2>8, <2>9, InductionOnNat
  <2>11. \A k \in 0 .. L : W[k] \in S
    BY <2>1, <2>10
  <2>. QED  BY <2>7, <2>11 DEF W, L
<1>4. \A q : LeadsTo(t, q) = node(q)[Len(q)]
  BY DEF LeadsTo
<1>. HIDE DEF node
<1>5. Len(path) \in Nat
  BY DEF Paths
<1>6. LeadsTo(t, path) \in S /\ (path = <<>> => LeadsTo(t, path) = Root)
  BY <1>3, <1>4, <1>5
<1>7. ASSUME NEW name \in Names
      PROVE  LeadsTo(t, Append(path, name)) = Entered(t, LeadsTo(t, path), name)
  <2>. DEFINE L == Len(path)
              q == Append(path, name)
              T == {k \in Nat : k <= L => node(q)[k] = node(path)[k]}
  <2>1. /\ q \in Paths /\ Len(q) = L + 1 /\ q[L + 1] = name
        /\ \A k \in 1 .. L : q[k] = path[k]
    BY DEF Paths
  <2>. HIDE DEF q
  <2>2. 0 \in T
    BY <1>3, <2>1
  <2>3. ASSUME NEW k \in Nat, k \in T PROVE k + 1 \in T
    <3>. DEFINE j == k + 1
    <3>. SUFFICES ASSUME j <= L PROVE node(q)[j] = node(path)[j]
      OBVIOUS
    <3>1. j \in 1 .. L /\ j \in 1 .. Len(q) /\ j - 1 = k /\ node(q)[k] = node(path)[k]
      BY <1>5, <2>1, <2>3
    <3>. HIDE DEF j
    <3>2. node(q)[j] = Entered(t, node(q)[j - 1], q[j])
      BY <1>3, <2>1, <3>1
    <3>3. node(path)[j] = Entered(t, node(path)[j - 1], path[j])
      BY <1>3, <3>1
    <3>. QED  BY <2>1, <3>1, <3>2, <3>3
  <2>4. Nat \subseteq T
    <3>. HIDE DEF T
    <3>. QED  BY <2>2, <2>3, InductionOnNat
  <2>5. node(q)[L] = node(path)[L]
    BY <1>5, <2>4
  <2>6. node(q)[L + 1] = Entered(t, node(q)[L], name)
    <3>. DEFINE j == L + 1
    <3>1. j \in 1 .. Len(q) /\ j - 1 = L /\ q[j] = name
      BY <1>5, <2>1
    <3>. HIDE DEF j
    <3>2. node(q)[j] = Entered(t, node(q)[j - 1], q[j])
      BY <1>3, <2>1, <3>1
    <3>. QED  BY <3>1, <3>2 DEF j
  <2>. QED  BY <1>4, <2>1, <2>5, <2>6 DEF q
<1>. QED  BY <1>6, <1>7 DEF S

\* An entry leads to its own node: there is one of its name.
LEMMA EntryLeads ==
    ASSUME NEW t \in Trees, NEW d \in Dirs, NEW e \in t.entries[d]
    PROVE  Entered(t, d, e.name) = e.node /\ e.name \in Names /\ e.node \in Nodes \cup {Gone}
<1>. DEFINE c == CHOOSE f \in t.entries[d] : f.name = e.name
<1>1. c \in t.entries[d] /\ c.name = e.name
  OBVIOUS
<1>2. c = e
  <2>. HIDE DEF c
  <2>. QED  BY <1>1, TreeAssumption
<1>3. Entered(t, d, e.name) = c.node
  BY DEF Entered
<1>. HIDE DEF c
<1>. QED  BY <1>2, <1>3, TreeAssumption

Begins(p, q) == Len(p) <= Len(q) /\ \A k \in 1 .. Len(p) : p[k] = q[k]

\* A path behind another one, and one that begins it.
LEMMA Extensions ==
    ASSUME NEW p \in Paths, NEW q \in Paths, NEW a \in Names, NEW b \in Names
    PROVE  /\ Begins(Append(p, a), Append(q, b)) /\ Len(p) < Len(q) => Begins(Append(p, a), q)
           /\ Begins(Append(p, a), Append(p, b)) => a = b
           /\ Begins(p, p)
           /\ Begins(Append(Append(p, a), b), q) => Begins(Append(p, a), q)
           /\ Begins(Append(p, a), q) => Len(p) < Len(q)
           /\ Append(p, a) \in Paths /\ Len(Append(p, a)) = Len(p) + 1
<1>. DEFINE pa == Append(p, a)
            qb == Append(q, b)
            pb == Append(p, b)
            pab == Append(pa, b)
<1>1. /\ Len(p) \in Nat /\ Len(q) \in Nat /\ pa \in Paths /\ pb \in Paths
      /\ Len(pa) = Len(p) + 1 /\ pa[Len(p) + 1] = a /\ \A k \in 1 .. Len(p) : pa[k] = p[k]
      /\ Len(pb) = Len(p) + 1 /\ pb[Len(p) + 1] = b
      /\ Len(qb) = Len(q) + 1 /\ \A k \in 1 .. Len(q) : qb[k] = q[k]
  BY DEF Paths
<1>2. Len(pab) = Len(p) + 2 /\ \A k \in 1 .. Len(p) + 1 : pab[k] = pa[k]
  <2>. HIDE DEF pa
  <2>. QED  BY <1>1 DEF Paths
<1>. HIDE DEF pa, qb, pb, pab
<1>3. Begins(pa, qb) /\ Len(p) < Len(q) => Begins(pa, q)
  BY <1>1 DEF Begins
<1>4. Begins(pa, pb) => a = b
  BY <1>1 DEF Begins
<1>5. Begins(p, p)
  BY <1>1 DEF Begins
<1>6. Begins(pab, q) => Begins(pa, q)
  BY <1>1, <1>2 DEF Begins
<1>7. Begins(pa, q) => Len(p) < Len(q)
  BY <1>1 DEF Begins
<1>. QED  BY <1>1, <1>3, <1>4, <1>5, <1>6, <1>7 DEF pa, qb, pb, pab

-----------------------------------------------------------------------------
(***************************************************************************)
(* The calls of gather_files.                                              *)
(***************************************************************************)
Opened == {Root} \cup ToSet(visited)

Calls(t) == [dir : Dirs, path : Paths, unread : SUBSET UNION {t.entries[d] : d \in Dirs}]

\* Each call lists a directory that was opened and can be reached, under a path
\* that leads there; a later call is further down.
CallsInv ==
    /\ tree \in Trees /\ visited \in Seq(Dirs) /\ stack \in Seq(Calls(tree))
    /\ Opened \subseteq Reachable(tree)
    /\ \A i \in 1 .. Len(stack) :
         /\ stack[i].dir \in Opened
         /\ LeadsTo(tree, stack[i].path) = stack[i].dir
         /\ stack[i].unread \subseteq Listed(tree, stack[i].dir)
    /\ \A i, j \in 1 .. Len(stack) : i < j => Len(stack[i].path) < Len(stack[j].path)

LEMMA StackReturn ==
    ASSUME NEW X, NEW s \in Seq(X), s # <<>>
    PROVE  /\ Len(s) \in Nat \ {0} /\ Front(s) \in Seq(X) /\ Len(Front(s)) = Len(s) - 1
           /\ \A i \in 1 .. Len(s) - 1 : Front(s)[i] = s[i]
           /\ Last(s) = s[Len(s)] /\ s[Len(s)] \in X
<1>. DEFINE m == Len(s) - 1
            f == SubSeq(s, 1, m)
<1>1. Len(s) \in Nat \ {0} /\ m \in Nat /\ \A i \in 1 .. m : s[i] \in X
  OBVIOUS
<1>2. s[Len(s)] \in X
  BY <1>1
<1>. HIDE DEF m
<1>3. /\ f \in Seq(X) /\ Len(f) = (IF 1 <= m THEN m - 1 + 1 ELSE 0)
      /\ \A i \in 1 .. m - 1 + 1 : f[i] = s[1 + i - 1]
  BY <1>1, SubSeqProperties
<1>. HIDE DEF f
<1>4. Len(f) = m /\ \A i \in 1 .. m : f[i] = s[i]
  BY <1>1, <1>3
<1>5. Front(s) = f /\ Last(s) = s[Len(s)]
  BY DEF Front, Last, f, m
<1>. QED  BY <1>1, <1>2, <1>3, <1>4, <1>5 DEF m

LEMMA StackTop ==
    ASSUME NEW X, NEW s \in Seq(X), s # <<>>, NEW a \in X
    PROVE  LET n == Len(s)
               one == Append(Front(s), a)
           IN  /\ one \in Seq(X) /\ Len(one) = n /\ one[n] = a
               /\ \A i \in 1 .. n - 1 : one[i] = s[i]
<1>. DEFINE f == Front(s)
<1>1. /\ Len(s) \in Nat \ {0} /\ f \in Seq(X) /\ Len(f) = Len(s) - 1
      /\ \A i \in 1 .. Len(s) - 1 : f[i] = s[i]
  BY StackReturn
<1>. HIDE DEF f
<1>2. /\ Append(f, a) \in Seq(X) /\ Len(Append(f, a)) = Len(s) /\ Append(f, a)[Len(s)] = a
      /\ \A i \in 1 .. Len(s) - 1 : Append(f, a)[i] = s[i]
  BY <1>1
<1>. QED  BY <1>2 DEF f

LEMMA StackPush ==
    ASSUME NEW X, NEW s \in Seq(X), s # <<>>, NEW a \in X, NEW b \in X
    PROVE  LET n == Len(s)
               two == Front(s) \o <<a, b>>
           IN  /\ two \in Seq(X) /\ Len(two) = n + 1 /\ two[n] = a /\ two[n + 1] = b
               /\ \A i \in 1 .. n - 1 : two[i] = s[i]
<1>. DEFINE n == Len(s)
            f == Front(s)
<1>1. /\ n \in Nat \ {0} /\ f \in Seq(X) /\ Len(f) = n - 1
      /\ \A i \in 1 .. n - 1 : f[i] = s[i]
  BY StackReturn
<1>. HIDE DEF f
<1>2. /\ f \o <<a, b>> \in Seq(X) /\ Len(f \o <<a, b>>) = n + 1
      /\ (f \o <<a, b>>)[n] = a /\ (f \o <<a, b>>)[n + 1] = b
      /\ \A i \in 1 .. n - 1 : (f \o <<a, b>>)[i] = s[i]
  BY <1>1
<1>. QED  BY <1>2 DEF f

\* What reading an entry of the innermost call does to the calls: it is taken
\* from those left to read, and its directory entered or not.
Reads(e, n, s) ==
    /\ s \in Seq(Calls(tree)) /\ Len(s) >= n
    /\ \A i \in 1 .. n - 1 : s[i] = stack[i]
    /\ s[n] = [stack[n] EXCEPT !.unread = @ \ {e}]

LEMMA ReadsEntry ==
    ASSUME CallsInv, stack # <<>>, NEW e \in Top.unread
    PROVE  LET n == Len(stack)
               one == Append(Front(stack), Rest(e))
               two == Front(stack) \o <<Rest(e), Frame(e.node, PathOf(e))>>
           IN  /\ n \in Nat \ {0} /\ Top = stack[n] /\ Top \in Calls(tree)
               /\ e \in Listed(tree, Top.dir) /\ e.name \in Names /\ e.node \in Nodes \cup {Gone}
               /\ PathOf(e) \in Paths /\ LeadsTo(tree, PathOf(e)) = e.node
               /\ Reads(e, n, one) /\ Len(one) = n
               /\ e.node \in Dirs => /\ Reads(e, n, two) /\ Len(two) = n + 1
                                      /\ two[n + 1] = Frame(e.node, PathOf(e))
<1>. DEFINE n == Len(stack)
            X == Calls(tree)
            f == Frame(e.node, PathOf(e))
<1>1. /\ tree \in Trees /\ stack \in Seq(X) /\ n \in Nat \ {0} /\ Top = stack[n] /\ Top \in X
      /\ LeadsTo(tree, Top.path) = Top.dir /\ Top.unread \subseteq Listed(tree, Top.dir)
  <2>1. tree \in Trees /\ stack \in Seq(X)
    BY DEF CallsInv
  <2>2. n \in Nat \ {0} /\ Top = stack[n] /\ stack[n] \in X
    BY <2>1 DEF Top, Last
  <2>. QED  BY <2>1, <2>2 DEF CallsInv
<1>2. Top.dir \in Dirs /\ Top.path \in Paths /\ e \in tree.entries[Top.dir]
      /\ e \in Listed(tree, Top.dir)
  BY <1>1, EntryLeads DEF Calls, Listed
<1>3. /\ e.name \in Names /\ e.node \in Nodes \cup {Gone}
      /\ Entered(tree, Top.dir, e.name) = e.node
  BY <1>1, <1>2, EntryLeads
<1>4. PathOf(e) \in Paths /\ LeadsTo(tree, PathOf(e)) = e.node
  <2>1. Append(Top.path, e.name) \in Paths
    BY <1>2, <1>3, Extensions
  <2>2. LeadsTo(tree, Append(Top.path, e.name)) = Entered(tree, LeadsTo(tree, Top.path), e.name)
    BY <1>1, <1>2, <1>3, LeadsOn
  <2>. QED  BY <1>1, <1>3, <2>1, <2>2 DEF PathOf
<1>5. Rest(e) \in X /\ Rest(e) = [stack[n] EXCEPT !.unread = @ \ {e}]
  BY <1>1 DEF Rest, Calls
<1>6. ASSUME e.node \in Dirs PROVE f \in X
  <2>1. Listed(tree, e.node) \subseteq UNION {tree.entries[d] : d \in Dirs}
    BY <1>6 DEF Listed
  <2>. QED  BY <1>4, <1>6, <2>1 DEF Frame, Calls
<1>. HIDE DEF X, f
<1>7. Reads(e, n, Append(Front(stack), Rest(e))) /\ Len(Append(Front(stack), Rest(e))) = n
  <2>. DEFINE a == Rest(e)
              one == Append(Front(stack), a)
  <2>. HIDE DEF a
  <2>1. /\ one \in Seq(X) /\ Len(one) = n /\ one[n] = a
        /\ \A i \in 1 .. n - 1 : one[i] = stack[i]
    <3>1. stack # <<>> /\ stack \in Seq(X) /\ a \in X
      BY <1>1, <1>5 DEF a
    <3>. QED  BY <3>1, StackTop
  <2>. HIDE DEF one
  <2>2. Reads(e, n, one)
    BY <1>1, <1>5, <2>1 DEF Reads, a, X
  <2>. QED  BY <2>1, <2>2 DEF one, a
<1>8. ASSUME e.node \in Dirs
      PROVE  LET two == Front(stack) \o <<Rest(e), f>>
             IN  Reads(e, n, two) /\ Len(two) = n + 1 /\ two[n + 1] = f
  <2>. DEFINE a == Rest(e)
              two == Front(stack) \o <<a, f>>
  <2>. HIDE DEF a
  <2>1. /\ two \in Seq(X) /\ Len(two) = n + 1 /\ two[n] = a /\ two[n + 1] = f
        /\ \A i \in 1 .. n - 1 : two[i] = stack[i]
    <3>1. a \in X /\ f \in X /\ stack # <<>>
      BY <1>5, <1>6, <1>8 DEF a
    <3>. QED  BY <1>1, <3>1, StackPush
  <2>. HIDE DEF two
  <2>2. Reads(e, n, two)
    BY <1>1, <1>5, <2>1 DEF Reads, a, X
  <2>. QED  BY <2>1, <2>2 DEF two, a
<1>. QED  BY <1>1, <1>2, <1>3, <1>4, <1>7, <1>8 DEF f, X

LEMMA ToSetAppend ==
    ASSUME NEW X, NEW s \in Seq(X), NEW x \in X
    PROVE  ToSet(Append(s, x)) = ToSet(s) \cup {x}
<1>1. /\ Len(s) \in Nat /\ Len(Append(s, x)) = Len(s) + 1
      /\ Append(s, x)[Len(s) + 1] = x /\ \A i \in 1 .. Len(s) : Append(s, x)[i] = s[i]
      /\ DOMAIN s = 1 .. Len(s) /\ DOMAIN Append(s, x) = 1 .. Len(s) + 1
  OBVIOUS
<1>2. ASSUME NEW i \in DOMAIN Append(s, x) PROVE Append(s, x)[i] \in ToSet(s) \cup {x}
  BY <1>1 DEF ToSet
<1>3. ASSUME NEW i \in DOMAIN s PROVE s[i] \in ToSet(Append(s, x))
  <2>1. i \in DOMAIN Append(s, x) /\ Append(s, x)[i] = s[i]
    BY <1>1
  <2>. QED  BY <2>1 DEF ToSet
<1>4. x \in ToSet(Append(s, x))
  <2>1. Len(s) + 1 \in DOMAIN Append(s, x)
    BY <1>1
  <2>. QED  BY <1>1, <2>1 DEF ToSet
<1>. QED  BY <1>2, <1>3, <1>4 DEF ToSet

\* The reachable directories are the least closed set of them.
LEMMA ReachableLeast ==
    ASSUME NEW t
    PROVE  /\ Root \in Reachable(t)
           /\ \A d \in Reachable(t) : Below(t, d) \subseteq Reachable(t)
           /\ \A S \in SUBSET Dirs :
                Root \in S /\ (\A d \in S : Below(t, d) \subseteq S) => Reachable(t) \subseteq S
<1>1. Root \in Reachable(t)
  BY TreeAssumption DEF Reachable
<1>2. ASSUME NEW d \in Reachable(t), NEW c \in Below(t, d) PROVE c \in Reachable(t)
  <2>1. c \in Dirs
    BY DEF Below
  <2>2. ASSUME NEW S \in SUBSET Dirs, Root \in S, \A b \in S : Below(t, b) \subseteq S
        PROVE  c \in S
    BY <2>2 DEF Reachable
  <2>. QED  BY <2>1, <2>2 DEF Reachable
<1>3. ASSUME NEW S \in SUBSET Dirs, Root \in S, \A d \in S : Below(t, d) \subseteq S
      PROVE  Reachable(t) \subseteq S
  BY <1>3 DEF Reachable
<1>. QED  BY <1>1, <1>2, <1>3

-----------------------------------------------------------------------------
\* Reading an entry without entering it leaves the calls as they are.
LEMMA ReadsKeepCalls ==
    ASSUME CallsInv, stack # <<>>, NEW e \in Top.unread,
           Reads(e, Len(stack), stack'), Len(stack') = Len(stack), UNCHANGED <<tree, visited>>
    PROVE  CallsInv'
<1>. DEFINE n == Len(stack)
<1>1. /\ n \in Nat /\ stack \in Seq(Calls(tree)) /\ stack' \in Seq(Calls(tree))
      /\ tree' = tree /\ visited' = visited /\ Opened' = Opened
      /\ \A i \in 1 .. n - 1 : stack'[i] = stack[i]
      /\ stack'[n] = [stack[n] EXCEPT !.unread = @ \ {e}]
  BY DEF CallsInv, Reads, Opened
<1>2. ASSUME NEW i \in 1 .. n
      PROVE  /\ stack'[i].dir = stack[i].dir /\ stack'[i].path = stack[i].path
             /\ stack'[i].unread \subseteq stack[i].unread
  <2>1. CASE i = n
    <3>1. stack[n] \in Calls(tree)
      BY <1>1, <2>1
    <3>. QED  BY <1>1, <2>1, <3>1 DEF Calls
  <2>2. CASE i # n
    BY <1>1, <2>2
  <2>. QED  BY <2>1, <2>2
<1>. HIDE DEF n
<1>3. Len(stack') = n
  BY DEF n
<1>. QED  BY <1>1, <1>2, <1>3 DEF CallsInv, n

LEMMA EnteringKeepsCalls ==
    ASSUME CallsInv, stack # <<>>, NEW e \in Top.unread, Descend(e), UNCHANGED tree
    PROVE  CallsInv'
<1>. DEFINE n == Len(stack)
            f == Frame(e.node, PathOf(e))
            q == PathOf(e)
<1>1. /\ n \in Nat \ {0} /\ Top = stack[n] /\ Top \in Calls(tree)
      /\ e \in Listed(tree, Top.dir) /\ e.name \in Names /\ e.node \in Dirs /\ ~Hidden(e)
      /\ q \in Paths /\ LeadsTo(tree, q) = e.node
      /\ Reads(e, n, stack') /\ Len(stack') = n + 1 /\ stack'[n + 1] = f
  BY ReadsEntry DEF Descend
<1>2. /\ tree \in Trees /\ tree' = tree /\ visited' = Append(visited, e.node) /\ visited \in Seq(Dirs)
      /\ stack \in Seq(Calls(tree)) /\ stack' \in Seq(Calls(tree))
      /\ \A i \in 1 .. n - 1 : stack'[i] = stack[i]
      /\ stack'[n] = [stack[n] EXCEPT !.unread = @ \ {e}]
  BY <1>1 DEF CallsInv, Reads, Descend
<1>3. visited' \in Seq(Dirs) /\ Opened' = Opened \cup {e.node}
  <2>1. ToSet(visited') = ToSet(visited) \cup {e.node}
    BY <1>1, <1>2, ToSetAppend
  <2>. QED  BY <1>1, <1>2, <2>1 DEF Opened
<1>4. e.node \in Reachable(tree)
  <2>1. Top.dir \in Reachable(tree)
    BY <1>1 DEF CallsInv
  <2>2. e.node \in Below(tree, Top.dir)
    BY <1>1 DEF Below
  <2>. QED  BY <2>1, <2>2, ReachableLeast
<1>5. ASSUME NEW i \in 1 .. n
      PROVE  /\ stack'[i].dir = stack[i].dir /\ stack'[i].path = stack[i].path
             /\ stack'[i].unread \subseteq stack[i].unread
  <2>1. CASE i = n
    <3>1. stack[n] \in Calls(tree)
      BY <1>1, <2>1
    <3>. QED  BY <1>2, <2>1, <3>1 DEF Calls
  <2>2. CASE i # n
    BY <1>2, <2>2
  <2>. QED  BY <2>1, <2>2
<1>6. f.dir = e.node /\ f.path = q /\ f.unread = Listed(tree, e.node)
  BY DEF Frame
<1>7. ASSUME NEW i \in 1 .. n PROVE Len(stack[i].path) < Len(q)
  <2>1. Len(stack[i].path) <= Len(Top.path)
    <3>1. CASE i = n
      BY <1>1, <3>1 DEF Calls, Paths
    <3>2. CASE i < n
      <4>1. n \in 1 .. n
        BY <1>1
      <4>2. Len(stack[i].path) < Len(stack[n].path)
        BY <3>2, <4>1 DEF CallsInv
      <4>3. stack[i] \in Calls(tree)
        BY <1>2
      <4>. QED  BY <1>1, <4>2, <4>3 DEF Calls, Paths
    <3>. QED  BY <1>1, <3>1, <3>2
  <2>2. Len(q) = Len(Top.path) + 1
    BY <1>1 DEF PathOf, Calls, Paths
  <2>3. Len(stack[i].path) \in Nat /\ Len(Top.path) \in Nat
    <3>1. stack[i] \in Calls(tree)
      BY <1>2
    <3>. QED  BY <1>1, <3>1 DEF Calls, Paths
  <2>. QED  BY <2>1, <2>2, <2>3
<1>. HIDE DEF f, q
<1>8. ASSUME NEW i \in 1 .. n + 1
      PROVE  /\ stack'[i].dir \in Opened'
             /\ LeadsTo(tree, stack'[i].path) = stack'[i].dir
             /\ stack'[i].unread \subseteq Listed(tree, stack'[i].dir)
  <2>1. CASE i = n + 1
    BY <1>1, <1>3, <1>6, <2>1
  <2>2. CASE i \in 1 .. n
    BY <1>3, <1>5, <2>2 DEF CallsInv
  <2>. QED  BY <1>1, <2>1, <2>2
<1>9. ASSUME NEW i \in 1 .. n + 1, NEW j \in 1 .. n + 1, i < j
      PROVE  Len(stack'[i].path) < Len(stack'[j].path)
  <2>1. CASE j = n + 1
    <3>1. i \in 1 .. n
      BY <1>1, <1>9, <2>1
    <3>. QED  BY <1>1, <1>5, <1>6, <1>7, <2>1, <3>1
  <2>2. CASE j \in 1 .. n
    <3>1. i \in 1 .. n
      BY <1>1, <1>9, <2>2
    <3>. QED  BY <1>5, <1>9, <2>2, <3>1 DEF CallsInv
  <2>. QED  BY <1>1, <2>1, <2>2
<1>10. Opened' \subseteq Reachable(tree)
  BY <1>3, <1>4 DEF CallsInv
<1>. HIDE DEF n
<1>. QED  BY <1>1, <1>2, <1>3, <1>8, <1>9, <1>10 DEF CallsInv

LEMMA ReturnKeepsCalls ==
    ASSUME CallsInv, stack # <<>>, stack' = Front(stack), UNCHANGED <<tree, visited>>
    PROVE  CallsInv'
<1>. DEFINE n == Len(stack)
<1>1. stack \in Seq(Calls(tree)) /\ tree' = tree /\ visited' = visited /\ Opened' = Opened
  BY DEF CallsInv, Opened
<1>2. /\ n \in Nat \ {0} /\ stack' \in Seq(Calls(tree)) /\ Len(stack') = n - 1
      /\ \A i \in 1 .. n - 1 : stack'[i] = stack[i]
  BY <1>1, StackReturn
<1>3. \A i \in 1 .. n - 1 : i \in 1 .. n
  BY <1>2
<1>. HIDE DEF n
<1>. QED  BY <1>1, <1>2, <1>3 DEF CallsInv, n

\* Whatever is read, entered or left, the calls stay so.
LEMMA CallsKept == CallsInv /\ [Next]_vars => CallsInv'
<1>. SUFFICES ASSUME CallsInv, [Next]_vars PROVE CallsInv'
  OBVIOUS
<1>1. CASE Entry
  <2>1. /\ stack # <<>> /\ tree' = tree
        /\ \E e \in Top.unread : Skip(e) \/ Descend(e) \/ Revisit(e) \/ File(e)
    BY <1>1 DEF Entry, fixed
  <2>2. PICK e \in Top.unread : Skip(e) \/ Descend(e) \/ Revisit(e) \/ File(e)
    BY <2>1
  <2>3. CASE Descend(e)
    BY <2>1, <2>3, EnteringKeepsCalls
  <2>4. CASE Skip(e) \/ Revisit(e) \/ File(e)
    <3>1. stack' = Append(Front(stack), Rest(e)) /\ visited' = visited
      BY <2>4 DEF Skip, Revisit, File
    <3>2. Reads(e, Len(stack), stack') /\ Len(stack') = Len(stack)
      BY <2>1, <3>1, ReadsEntry
    <3>. QED  BY <2>1, <3>1, <3>2, ReadsKeepCalls
  <2>. QED  BY <2>2, <2>3, <2>4
<1>2. CASE Return
  BY <1>2, ReturnKeepsCalls DEF Return, fixed
<1>3. CASE PrintMatches \/ StartAsking \/ Ask \/ UNCHANGED vars
  <2>1. tree' = tree /\ visited' = visited /\ stack' = stack
    BY <1>3 DEF PrintMatches, StartAsking, Ask, vars, fixed
  <2>. QED  BY <2>1 DEF CallsInv, Opened
<1>. QED  BY <1>1, <1>2, <1>3 DEF Next, Gathering

-----------------------------------------------------------------------------
(***************************************************************************)
(* What the gatherers are given.                                           *)
(***************************************************************************)
Got == ToSet(matches) \cup UNION {ToSet(dateMap[day]) : day \in DOMAIN dateMap}
Used == Got \cup {stack[i].path : i \in 1 .. Len(stack)}

\* What is still to be read lies beyond every path there was.
Fresh ==
    \A i \in 1 .. Len(stack) : \A e \in stack[i].unread : \A q \in Used :
        ~Begins(Append(stack[i].path, e.name), q)

\* No path is gathered twice.
Apart ==
    /\ matches \in Seq(Paths) /\ IsInjective(matches)
    /\ \A day \in DOMAIN dateMap :
         dateMap[day] \in Seq(Paths) /\ dateMap[day] # <<>> /\ IsInjective(dateMap[day])

LEMMA InjectiveAppend ==
    ASSUME NEW X, NEW s \in Seq(X), NEW x \in X, IsInjective(s), x \notin ToSet(s)
    PROVE  IsInjective(Append(s, x))
<1>1. /\ Len(s) \in Nat /\ Append(s, x)[Len(s) + 1] = x
      /\ \A i \in 1 .. Len(s) : Append(s, x)[i] = s[i]
      /\ DOMAIN s = 1 .. Len(s) /\ DOMAIN Append(s, x) = 1 .. Len(s) + 1
  OBVIOUS
<1>2. \A i \in 1 .. Len(s) : s[i] # x
  BY <1>1 DEF ToSet
<1>3. ASSUME NEW i \in 1 .. Len(s) + 1, NEW j \in 1 .. Len(s) + 1,
             Append(s, x)[i] = Append(s, x)[j]
      PROVE  i = j
  <2>1. \/ i \in 1 .. Len(s) /\ j \in 1 .. Len(s)
        \/ i \in 1 .. Len(s) /\ j = Len(s) + 1
        \/ i = Len(s) + 1 /\ j \in 1 .. Len(s)
        \/ i = Len(s) + 1 /\ j = Len(s) + 1
    BY <1>1
  <2>2. \A k, l \in 1 .. Len(s) : s[k] = s[l] => k = l
    BY <1>1 DEF IsInjective
  <2>. QED  BY <1>1, <1>2, <1>3, <2>1, <2>2
<1>. QED  BY <1>1, <1>3 DEF IsInjective

LEMMA UsedTyped ==
    ASSUME CallsInv, Apart
    PROVE  Used \subseteq Paths
<1>1. \A s \in Seq(Paths) : ToSet(s) \subseteq Paths
  BY DEF ToSet
<1>2. Got \subseteq Paths
  BY <1>1 DEF Apart, Got
<1>3. ASSUME NEW i \in 1 .. Len(stack) PROVE stack[i].path \in Paths
  <2>1. stack[i] \in Calls(tree)
    BY DEF CallsInv
  <2>. QED  BY <2>1 DEF Calls
<1>. QED  BY <1>2, <1>3 DEF Used

\* The path of an unread entry is new.
LEMMA PathIsNew ==
    ASSUME CallsInv, Apart, Fresh, stack # <<>>, NEW e \in Top.unread
    PROVE  PathOf(e) \notin Got
<1>1. /\ Len(stack) \in 1 .. Len(stack) /\ Top = stack[Len(stack)] /\ Top \in Calls(tree)
      /\ e.name \in Names /\ PathOf(e) \in Paths
  <2>1. /\ Len(stack) \in Nat \ {0} /\ Top = stack[Len(stack)] /\ Top \in Calls(tree)
        /\ e.name \in Names /\ PathOf(e) \in Paths
    BY ReadsEntry
  <2>. QED  BY <2>1
<1>2. Top.path \in Paths
  BY <1>1 DEF Calls
<1>3. Begins(PathOf(e), PathOf(e))
  BY <1>1, <1>2, Extensions
<1>4. \A q \in Used : ~Begins(PathOf(e), q)
  BY <1>1 DEF Fresh, PathOf
<1>. QED  BY <1>3, <1>4 DEF Used

\* Reading an entry leaves what is still to be read beyond what was gathered
\* and entered, also beyond the new path.
LEMMA FreshKept ==
    ASSUME CallsInv, Apart, Fresh, stack # <<>>, NEW e \in Top.unread, tree' = tree,
           Reads(e, Len(stack), stack'), Got' \subseteq Got \cup {PathOf(e)},
           \/ Len(stack') = Len(stack)
           \/ /\ e.node \in Dirs /\ Len(stack') = Len(stack) + 1
              /\ stack'[Len(stack) + 1] = Frame(e.node, PathOf(e))
    PROVE  Fresh'
<1>. DEFINE n == Len(stack)
            p == PathOf(e)
<1>1. /\ n \in Nat \ {0} /\ Top = stack[n] /\ Top \in Calls(tree) /\ tree \in Trees
      /\ e \in Listed(tree, Top.dir) /\ e.name \in Names /\ p \in Paths
      /\ Top.path \in Paths /\ Top.dir \in Dirs
  <2>1. Top \in Calls(tree) /\ tree \in Trees
    BY ReadsEntry DEF CallsInv
  <2>. QED  BY <2>1, ReadsEntry DEF Calls
<1>2. /\ stack \in Seq(Calls(tree))
      /\ \A i \in 1 .. n - 1 : stack'[i] = stack[i]
      /\ stack'[n] = [stack[n] EXCEPT !.unread = @ \ {e}]
  BY DEF CallsInv, Reads
<1>3. ASSUME NEW i \in 1 .. n
      PROVE  /\ stack'[i].path = stack[i].path /\ stack'[i].unread \subseteq stack[i].unread
             /\ i = n => e \notin stack'[i].unread
             /\ stack[i].path \in Paths
             /\ \A f \in stack[i].unread : f.name \in Names
  <2>1. stack[i] \in Calls(tree) /\ stack[i].unread \subseteq Listed(tree, stack[i].dir)
    BY <1>2 DEF CallsInv
  <2>2. \A f \in stack[i].unread : f.name \in Names
    BY <1>1, <2>1, EntryLeads DEF Listed, Calls
  <2>3. CASE i = n
    BY <1>2, <2>1, <2>2, <2>3 DEF Calls
  <2>4. CASE i # n
    BY <1>1, <1>2, <2>1, <2>2, <2>4 DEF Calls
  <2>. QED  BY <2>3, <2>4
<1>4. Used' \subseteq Used \cup {p}
  <2>1. ASSUME NEW i \in 1 .. Len(stack') PROVE stack'[i].path \in Used \cup {p}
    <3>1. CASE i \in 1 .. n
      BY <1>3, <3>1 DEF Used
    <3>2. CASE i = n + 1 /\ Len(stack') = n + 1
      BY <3>2 DEF Frame
    <3>. QED  BY <1>1, <3>1, <3>2
  <2>. QED  BY <2>1 DEF Used
<1>5. Used \subseteq Paths
  BY UsedTyped
<1>6. \A i \in 1 .. n : \A f \in stack[i].unread : \A q \in Used : ~Begins(Append(stack[i].path, f.name), q)
  BY DEF Fresh
<1>7. Top.path \in Used /\ n \in 1 .. n
  BY <1>1 DEF Used
<1>. HIDE DEF p
<1>8. ASSUME NEW i \in 1 .. n, NEW f \in stack'[i].unread, NEW q \in Used'
      PROVE  ~Begins(Append(stack'[i].path, f.name), q)
  <2>1. f \in stack[i].unread /\ stack'[i].path = stack[i].path /\ f.name \in Names
        /\ stack[i].path \in Paths
    BY <1>3
  <2>2. CASE q \in Used
    BY <1>6, <2>1, <2>2
  <2>3. CASE q = p /\ i = n
    <3>1. f # e /\ f \in Top.unread
      BY <1>1, <1>3, <2>1, <2>3
    <3>2. f \in tree.entries[Top.dir] /\ e \in tree.entries[Top.dir]
      BY <1>1, <1>7, <3>1 DEF CallsInv, Listed
    <3>3. f.name # e.name
      BY <1>1, <3>1, <3>2, TreeAssumption
    <3>4. p = Append(Top.path, e.name)
      BY DEF p, PathOf
    <3>5. ~Begins(Append(Top.path, f.name), Append(Top.path, e.name))
      BY <1>1, <2>1, <3>3, Extensions
    <3>. QED  BY <1>1, <2>1, <2>3, <3>4, <3>5
  <2>4. CASE q = p /\ i # n
    <3>1. Len(stack[i].path) < Len(Top.path)
      BY <1>1, <1>7, <2>4 DEF CallsInv
    <3>2. ~Begins(Append(stack[i].path, f.name), Top.path)
      BY <1>6, <1>7, <2>1
    <3>3. ~Begins(Append(stack[i].path, f.name), Append(Top.path, e.name))
      BY <1>1, <2>1, <3>1, <3>2, Extensions
    <3>. QED  BY <2>1, <2>4, <3>3 DEF p, PathOf
  <2>. QED  BY <1>4, <2>2, <2>3, <2>4
<1>9. ASSUME e.node \in Dirs, NEW f \in Listed(tree, e.node), NEW q \in Used'
      PROVE  ~Begins(Append(p, f.name), q)
  <2>1. f.name \in Names
    BY <1>1, <1>9, EntryLeads DEF Listed
  <2>2. CASE q \in Used
    <3>1. ~Begins(Append(Top.path, e.name), q)
      BY <1>1, <1>6, <1>7, <2>2
    <3>2. ~Begins(Append(Append(Top.path, e.name), f.name), q)
      BY <1>1, <1>5, <2>1, <2>2, <3>1, Extensions
    <3>. QED  BY <3>2 DEF p, PathOf
  <2>3. CASE q = p
    <3>1. ~(Len(p) < Len(p))
      BY <1>1 DEF Paths
    <3>2. Begins(Append(p, f.name), p) => Len(p) < Len(p)
      BY <1>1, <2>1, Extensions
    <3>. QED  BY <2>3, <3>1, <3>2
  <2>. QED  BY <1>4, <2>2, <2>3
<1>10. ASSUME NEW i \in 1 .. Len(stack'), NEW f \in stack'[i].unread, NEW q \in Used'
       PROVE  ~Begins(Append(stack'[i].path, f.name), q)
  <2>1. CASE i \in 1 .. n
    BY <1>8, <2>1
  <2>2. CASE i = n + 1 /\ Len(stack') = n + 1
    <3>1. e.node \in Dirs /\ stack'[i] = Frame(e.node, p)
      BY <1>1, <2>2 DEF p
    <3>2. stack'[i].path = p /\ stack'[i].unread = Listed(tree, e.node)
      BY <3>1 DEF Frame
    <3>. QED  BY <1>9, <3>1, <3>2
  <2>. QED  BY <1>1, <2>1, <2>2
<1>. QED  BY <1>10 DEF Fresh

LEMMA GatherAdds ==
    ASSUME Apart, NEW p \in Paths, p \notin Got, NEW inode, Gather(p, inode)
    PROVE  Apart' /\ Got' \subseteq Got \cup {p}
<1>1. CASE GatherVector(p)
  <2>1. matches' = Append(matches, p) /\ dateMap' = dateMap /\ matches \in Seq(Paths)
    BY <1>1 DEF GatherVector, Apart
  <2>2. p \notin ToSet(matches)
    BY DEF Got
  <2>3. IsInjective(matches')
    BY <2>1, <2>2, InjectiveAppend DEF Apart
  <2>4. ToSet(matches') = ToSet(matches) \cup {p} /\ matches' \in Seq(Paths)
    BY <2>1, ToSetAppend
  <2>. QED  BY <2>1, <2>3, <2>4 DEF Apart, Got
<1>2. CASE GatherMap(p, inode)
  BY <1>2 DEF GatherMap, Apart, Got
<1>3. CASE GatherDateMap(p, inode)
  <2>. DEFINE day == DateOf[inode]
              known == day \in DOMAIN dateMap
              put == IF known THEN Append(dateMap[day], p) ELSE <<p>>
  <2>1. matches' = matches /\ dateMap' = With(dateMap, day, put)
    BY <1>3 DEF GatherDateMap
  <2>2. DOMAIN dateMap' = DOMAIN dateMap \cup {day}
    BY <2>1 DEF With
  <2>3. ASSUME NEW d \in DOMAIN dateMap'
        PROVE  dateMap'[d] = IF d = day THEN put ELSE dateMap[d]
    BY <2>1, <2>2 DEF With
  <2>4. /\ put \in Seq(Paths) /\ put # <<>> /\ IsInjective(put)
        /\ ToSet(put) \subseteq Got \cup {p}
    <3>1. CASE known
      <4>1. dateMap[day] \in Seq(Paths) /\ IsInjective(dateMap[day]) /\ p \notin ToSet(dateMap[day])
        BY <3>1 DEF Apart, Got
      <4>2. IsInjective(Append(dateMap[day], p))
        BY <4>1, InjectiveAppend
      <4>3. ToSet(Append(dateMap[day], p)) = ToSet(dateMap[day]) \cup {p}
        BY <4>1, ToSetAppend
      <4>4. Append(dateMap[day], p) \in Seq(Paths) /\ Append(dateMap[day], p) # <<>>
        <5>. DEFINE w == dateMap[day]
        <5>. HIDE DEF w
        <5>1. w \in Seq(Paths) => Append(w, p) \in Seq(Paths) /\ Len(Append(w, p)) = Len(w) + 1
                                  /\ Len(w) \in Nat
          OBVIOUS
        <5>2. Append(w, p) \in Seq(Paths) /\ Append(w, p) # <<>>
          BY <4>1, <5>1 DEF w
        <5>. QED  BY <5>2 DEF w
      <4>. QED  BY <3>1, <4>2, <4>3, <4>4 DEF Got
    <3>2. CASE ~known
      <4>1. /\ <<p>> \in Seq(Paths) /\ <<p>> # <<>> /\ DOMAIN <<p>> = {1}
            /\ ToSet(<<p>>) \subseteq {p}
        BY DEF ToSet
      <4>2. IsInjective(<<p>>)
        BY <4>1 DEF IsInjective
      <4>. QED  BY <3>2, <4>1, <4>2
    <3>. QED  BY <3>1, <3>2
  <2>. HIDE DEF put, day
  <2>5. Got' \subseteq Got \cup {p}
    <3>1. ASSUME NEW d \in DOMAIN dateMap' PROVE ToSet(dateMap'[d]) \subseteq Got \cup {p}
      <4>1. CASE d = day
        BY <2>3, <2>4, <4>1
      <4>2. CASE d # day
        BY <2>2, <2>3, <4>2 DEF Got
      <4>. QED  BY <4>1, <4>2
    <3>. QED  BY <2>1, <3>1 DEF Got
  <2>6. ASSUME NEW d \in DOMAIN dateMap'
        PROVE  dateMap'[d] \in Seq(Paths) /\ dateMap'[d] # <<>> /\ IsInjective(dateMap'[d])
    <3>1. CASE d = day
      BY <2>3, <2>4, <3>1
    <3>2. CASE d # day
      BY <2>2, <2>3, <3>2 DEF Apart
    <3>. QED  BY <3>1, <3>2
  <2>. QED  BY <2>1, <2>5, <2>6 DEF Apart
<1>. QED  BY <1>1, <1>2, <1>3 DEF Gather

\* No path is gathered twice: what a call has yet to read is new.
LEMMA ApartKept == CallsInv /\ Apart /\ Fresh /\ [Next]_vars => Apart' /\ Fresh'
<1>. SUFFICES ASSUME CallsInv, Apart, Fresh, [Next]_vars PROVE Apart' /\ Fresh'
  OBVIOUS
<1>1. CASE Entry
  <2>1. /\ stack # <<>> /\ tree' = tree
        /\ \E e \in Top.unread : Skip(e) \/ Descend(e) \/ Revisit(e) \/ File(e)
    BY <1>1 DEF Entry, fixed
  <2>2. PICK e \in Top.unread : Skip(e) \/ Descend(e) \/ Revisit(e) \/ File(e)
    BY <2>1
  <2>3. Apart' /\ Got' \subseteq Got \cup {PathOf(e)}
    <3>1. CASE UNCHANGED gathered
      BY <3>1 DEF gathered, Apart, Got
    <3>2. CASE \E inode : Gather(PathOf(e), inode)
      <4>1. PathOf(e) \in Paths /\ PathOf(e) \notin Got
        BY <2>1, ReadsEntry, PathIsNew
      <4>. QED  BY <3>2, <4>1, GatherAdds
    <3>. QED  BY <2>2, <3>1, <3>2 DEF Skip, Descend, Revisit, File
  <2>4. CASE Descend(e)
    <3>1. /\ e.node \in Dirs
          /\ stack' = Front(stack) \o <<Rest(e), Frame(e.node, PathOf(e))>>
      BY <2>4 DEF Descend
    <3>2. /\ Reads(e, Len(stack), stack') /\ Len(stack') = Len(stack) + 1
          /\ stack'[Len(stack) + 1] = Frame(e.node, PathOf(e))
      BY <2>1, <3>1, ReadsEntry
    <3>. QED  BY <2>1, <2>3, <3>1, <3>2, FreshKept
  <2>5. CASE Skip(e) \/ Revisit(e) \/ File(e)
    <3>1. stack' = Append(Front(stack), Rest(e))
      BY <2>5 DEF Skip, Revisit, File
    <3>2. Reads(e, Len(stack), stack') /\ Len(stack') = Len(stack)
      BY <2>1, <3>1, ReadsEntry
    <3>. QED  BY <2>1, <2>3, <3>2, FreshKept
  <2>. QED  BY <2>2, <2>4, <2>5
<1>2. CASE Return
  <2>1. stack # <<>> /\ stack' = Front(stack) /\ UNCHANGED gathered
    BY <1>2 DEF Return
  <2>2. Apart' /\ Got' = Got
    BY <2>1 DEF gathered, Apart, Got
  <2>3. /\ Len(stack) \in Nat \ {0} /\ Len(stack') = Len(stack) - 1
        /\ \A i \in 1 .. Len(stack) - 1 : stack'[i] = stack[i]
    BY <2>1, StackReturn DEF CallsInv
  <2>4. \A i \in 1 .. Len(stack') : i \in 1 .. Len(stack) /\ stack'[i] = stack[i]
    BY <2>3
  <2>5. Used' \subseteq Used
    BY <2>2, <2>4 DEF Used
  <2>. QED  BY <2>2, <2>4, <2>5 DEF Fresh
<1>3. CASE PrintMatches \/ StartAsking \/ Ask \/ UNCHANGED vars
  <2>1. UNCHANGED gathered /\ stack' = stack
    BY <1>3 DEF PrintMatches, StartAsking, Ask, vars, gathered
  <2>2. Apart' /\ Got' = Got
    BY <2>1 DEF gathered, Apart, Got
  <2>3. Used' = Used
    BY <2>1, <2>2 DEF Used
  <2>. QED  BY <2>1, <2>2, <2>3 DEF Fresh
<1>. QED  BY <1>1, <1>2, <1>3 DEF Next, Gathering

-----------------------------------------------------------------------------
(***************************************************************************)
(* Nothing is missed, and nothing made up.                                 *)
(***************************************************************************)
\* p is the path of the file or dead entry e of directory d.
LeafOf(t, p, d, e) ==
    /\ e \in Listed(t, d) /\ ~Hidden(e) /\ e.node \notin Dirs
    /\ p \in Paths /\ p # <<>> /\ LeadsTo(t, Front(p)) = d /\ Last(p) = e.name

Pending(d, e) == \E i \in 1 .. Len(stack) : stack[i].dir = d /\ e \in stack[i].unread

\* The gatherer has been given the entry; what it knows it by is lost when stat
\* failed for it or for another.
Took(d, e) ==
    \/ option = 0 /\ \E p \in ToSet(matches) : LeafOf(tree, p, d, e)
    \/ option = 1 /\ (blind \/ e.node \in DOMAIN map)
    \/ /\ option = 2
       /\ \/ blind
          \/ /\ DateOf[e.node] \in DOMAIN dateMap
             /\ \E p \in ToSet(dateMap[DateOf[e.node]]) : LeafOf(tree, p, d, e)

Complete ==
    \A d \in Opened : \A e \in Listed(tree, d) :
        \/ Hidden(e) \/ Pending(d, e) \/ e.node \in Opened
        \/ e.node \notin Dirs /\ (Match(searchstr, e.name) => Took(d, e))

Honest ==
    /\ option = 0 => \A p \in ToSet(matches) : \E d \in Opened : \E e \in Listed(tree, d) :
                       LeafOf(tree, p, d, e) /\ Match(searchstr, e.name)
    /\ option = 1 /\ ~blind =>
         \A n \in DOMAIN map : \E d \in Opened : \E e \in Listed(tree, d) :
             LeafOf(tree, map[n], d, e) /\ e.node = n
    /\ option = 2 /\ ~blind =>
         \A day \in DOMAIN dateMap : \A p \in ToSet(dateMap[day]) :
             \E d \in Opened : \E e \in Listed(tree, d) :
                 LeafOf(tree, p, d, e) /\ DateOf[e.node] = day

\* Reading an entry takes nothing else off what is pending.
LEMMA PendingKept ==
    ASSUME CallsInv, stack # <<>>, NEW e \in Top.unread,
           Reads(e, Len(stack), stack'), NEW d, NEW f, Pending(d, f), d # Top.dir \/ f # e
    PROVE  Pending(d, f)'
<1>. DEFINE n == Len(stack)
<1>1. n \in Nat \ {0} /\ Top = stack[n] /\ Top \in Calls(tree)
  BY ReadsEntry
<1>2. /\ \A i \in 1 .. n - 1 : stack'[i] = stack[i] /\ Len(stack') >= n /\ Len(stack') \in Nat
      /\ stack'[n] = [stack[n] EXCEPT !.unread = @ \ {e}]
  BY DEF Reads
<1>3. PICK i \in 1 .. n : stack[i].dir = d /\ f \in stack[i].unread
  BY DEF Pending
<1>4. stack'[i].dir = d /\ f \in stack'[i].unread
  <2>1. CASE i = n
    BY <1>1, <1>2, <1>3, <2>1 DEF Calls
  <2>2. CASE i # n
    BY <1>1, <1>2, <1>3, <2>2
  <2>. QED  BY <2>1, <2>2
<1>5. i \in 1 .. Len(stack')
  <2>1. Len(stack') >= n /\ Len(stack') \in Nat
    BY DEF Reads
  <2>. QED  BY <1>1, <2>1
<1>. QED  BY <1>4, <1>5 DEF Pending

\* What a gatherer has it keeps.
LEMMA TookKept ==
    ASSUME UNCHANGED <<option, tree>>, blind => blind', Apart,
           UNCHANGED gathered \/ \E p \in Paths : \E inode : Gather(p, inode),
           NEW d, NEW e, Took(d, e)
    PROVE  Took(d, e)'
<1>1. CASE UNCHANGED gathered
  BY <1>1 DEF gathered, Took
<1>2. ASSUME NEW p \in Paths, NEW inode, Gather(p, inode) PROVE Took(d, e)'
  <2>1. CASE GatherVector(p)
    <3>1. ToSet(matches') = ToSet(matches) \cup {p} /\ option = 0
      BY <2>1, ToSetAppend DEF GatherVector, Apart
    <3>. QED  BY <3>1 DEF Took
  <2>2. CASE GatherMap(p, inode)
    <3>1. option = 1 /\ DOMAIN map \subseteq DOMAIN map'
      BY <2>2 DEF GatherMap, With
    <3>. QED  BY <3>1 DEF Took
  <2>3. CASE GatherDateMap(p, inode)
    <3>. DEFINE day == DateOf[inode]
                put == IF day \in DOMAIN dateMap THEN Append(dateMap[day], p) ELSE <<p>>
    <3>1. option = 2 /\ dateMap' = With(dateMap, day, put)
      BY <2>3 DEF GatherDateMap
    <3>2. ASSUME NEW c \in DOMAIN dateMap
          PROVE  c \in DOMAIN dateMap' /\ ToSet(dateMap[c]) \subseteq ToSet(dateMap'[c])
      <4>1. c \in DOMAIN dateMap' /\ dateMap'[c] = IF c = day THEN put ELSE dateMap[c]
        BY <3>1 DEF With
      <4>2. CASE c = day
        <5>1. dateMap[c] \in Seq(Paths) /\ dateMap'[c] = Append(dateMap[c], p)
          BY <4>1, <4>2 DEF Apart
        <5>. QED  BY <4>1, <5>1, ToSetAppend
      <4>. QED  BY <4>1, <4>2
    <3>. HIDE DEF put, day
    <3>. QED  BY <3>1, <3>2 DEF Took
  <2>. QED  BY <1>2, <2>1, <2>2, <2>3 DEF Gather
<1>. QED  BY <1>1, <1>2

LEMMA FrontAndLast ==
    ASSUME NEW p \in Paths
    PROVE  /\ \A name \in Names : /\ Front(Append(p, name)) = p /\ Last(Append(p, name)) = name
                                  /\ Append(p, name) # <<>>
           /\ p # <<>> => /\ Front(p) \in Paths /\ Last(p) \in Names
                          /\ p = Append(Front(p), Last(p))
<1>1. ASSUME NEW name \in Names
      PROVE  /\ Front(Append(p, name)) = p /\ Last(Append(p, name)) = name
             /\ Append(p, name) # <<>>
  <2>. DEFINE q == Append(p, name)
              f == Front(q)
  <2>1. /\ Len(p) \in Nat /\ q \in Seq(Names) /\ Len(q) = Len(p) + 1 /\ q[Len(p) + 1] = name
        /\ p \in Seq(Names) /\ \A i \in 1 .. Len(p) : q[i] = p[i]
    BY DEF Paths
  <2>. HIDE DEF q
  <2>2. q # <<>>
    BY <2>1
  <2>3. /\ f \in Seq(Names) /\ Len(f) = Len(q) - 1 /\ Last(q) = q[Len(q)]
        /\ \A i \in 1 .. Len(q) - 1 : f[i] = q[i]
    BY <2>1, <2>2, StackReturn
  <2>. HIDE DEF f
  <2>4. Len(f) = Len(p) /\ \A i \in 1 .. Len(p) : f[i] = p[i]
    BY <2>1, <2>3
  <2>5. f = p
    BY <2>1, <2>3, <2>4
  <2>. QED  BY <2>1, <2>2, <2>3, <2>5 DEF f, q
<1>2. ASSUME p # <<>>
      PROVE  Front(p) \in Paths /\ Last(p) \in Names /\ p = Append(Front(p), Last(p))
  <2>. DEFINE f == Front(p)
              a == Last(p)
              q == Append(f, a)
  <2>1. /\ Len(p) \in Nat \ {0} /\ f \in Seq(Names) /\ Len(f) = Len(p) - 1
        /\ a = p[Len(p)] /\ p \in Seq(Names) /\ a \in Names
        /\ \A i \in 1 .. Len(p) - 1 : f[i] = p[i]
    BY <1>2, StackReturn DEF Paths
  <2>. HIDE DEF f, a
  <2>2. q \in Seq(Names) /\ Len(q) = Len(p) /\ \A i \in 1 .. Len(p) : q[i] = p[i]
    BY <2>1
  <2>. HIDE DEF q
  <2>3. q = p
    BY <2>1, <2>2
  <2>. QED  BY <2>1, <2>3 DEF f, a, q, Paths
<1>. QED  BY <1>1, <1>2

\* A file's path, as the innermost call puts it together.
LEMMA LeafPath ==
    ASSUME CallsInv, stack # <<>>, NEW e \in Top.unread, ~Hidden(e), e.node \notin Dirs
    PROVE  LeafOf(tree, PathOf(e), Top.dir, e) /\ Top.dir \in Opened
<1>1. /\ e \in Listed(tree, Top.dir) /\ e.name \in Names /\ PathOf(e) \in Paths
      /\ Top \in Calls(tree) /\ Top = stack[Len(stack)] /\ Len(stack) \in Nat \ {0}
  BY ReadsEntry
<1>2. LeadsTo(tree, Top.path) = Top.dir /\ Top.dir \in Opened
  BY <1>1 DEF CallsInv
<1>3. /\ Front(PathOf(e)) = Top.path /\ Last(PathOf(e)) = e.name /\ PathOf(e) # <<>>
  BY <1>1, FrontAndLast DEF PathOf, Calls
<1>. QED  BY <1>1, <1>2, <1>3 DEF LeafOf

\* A gatherer takes what it is given.
LEMMA FileTakes ==
    ASSUME CallsInv, Apart, stack # <<>>, NEW e \in Top.unread, File(e), UNCHANGED <<tree, option>>,
           Match(searchstr, e.name), NEW d, d = Top.dir
    PROVE  Took(d, e)'
<1>. DEFINE p == PathOf(e)
<1>1. LeafOf(tree, p, d, e) /\ p \in Paths
  BY LeafPath, ReadsEntry DEF File
<1>2. /\ blind' = (blind \/ e.node = Gone)
      /\ \E inode \in (IF e.node = Gone THEN Nodes ELSE {e.node}) : Gather(p, inode)
  BY DEF File
<1>3. PICK inode : Gather(p, inode) /\ (e.node # Gone => inode = e.node)
  BY <1>2
<1>4. Took(d, e)'
  <2>1. CASE GatherVector(p)
    <3>1. ToSet(matches') = ToSet(matches) \cup {p} /\ option = 0
      BY <1>1, <2>1, ToSetAppend DEF GatherVector, Apart
    <3>. QED  BY <1>1, <3>1 DEF Took
  <2>2. CASE GatherMap(p, inode)
    <3>1. option = 1 /\ inode \in DOMAIN map'
      BY <2>2 DEF GatherMap, With
    <3>. QED  BY <1>2, <1>3, <3>1 DEF Took
  <2>3. CASE GatherDateMap(p, inode)
    <3>. DEFINE day == DateOf[inode]
                put == IF day \in DOMAIN dateMap THEN Append(dateMap[day], p) ELSE <<p>>
    <3>1. option = 2 /\ dateMap' = With(dateMap, day, put)
      BY <2>3 DEF GatherDateMap
    <3>2. day \in DOMAIN dateMap' /\ dateMap'[day] = put
      BY <3>1 DEF With
    <3>3. p \in ToSet(put)
      <4>1. CASE day \in DOMAIN dateMap
        <5>1. dateMap[day] \in Seq(Paths)
          BY <4>1 DEF Apart
        <5>. QED  BY <1>1, <4>1, <5>1, ToSetAppend
      <4>2. CASE day \notin DOMAIN dateMap
        BY <4>2 DEF ToSet
      <4>. QED  BY <4>1, <4>2
    <3>4. e.node # Gone => day = DateOf[e.node]
      BY <1>3
    <3>. HIDE DEF put, day, p
    <3>. QED  BY <1>1, <1>2, <3>1, <3>2, <3>3, <3>4 DEF Took
  <2>. QED  BY <1>3, <2>1, <2>2, <2>3 DEF Gather
<1>. QED  BY <1>4

\* What was listed is pending or dealt with, and stays so when another entry is
\* dealt with.
LEMMA CompleteStep ==
    ASSUME CallsInv, Complete, stack # <<>>, NEW e \in Top.unread, UNCHANGED <<tree, searchstr>>,
           Reads(e, Len(stack), stack'), Opened \subseteq Opened',
           \A d, f : Took(d, f) => Took(d, f)',
           \A d \in Opened' \ Opened : \A f \in Listed(tree, d) : Pending(d, f)',
           \/ Hidden(e) \/ e.node \in Opened'
           \/ e.node \notin Dirs /\ (Match(searchstr, e.name) => \A d : d = Top.dir => Took(d, e)')
    PROVE  Complete'
<1>. SUFFICES ASSUME NEW d \in Opened', NEW f \in Listed(tree, d)
              PROVE  \/ Hidden(f) \/ Pending(d, f)' \/ f.node \in Opened'
                     \/ f.node \notin Dirs /\ (Match(searchstr, f.name) => Took(d, f)')
  BY DEF Complete, Hidden
<1>1. CASE d \notin Opened
  BY <1>1
<1>2. CASE d \in Opened /\ d = Top.dir /\ f = e
  BY <1>2
<1>3. CASE d \in Opened /\ (d # Top.dir \/ f # e)
  <2>1. Pending(d, f) => Pending(d, f)'
    BY <1>3, PendingKept
  <2>2. \/ Hidden(f) \/ Pending(d, f) \/ f.node \in Opened
        \/ f.node \notin Dirs /\ (Match(searchstr, f.name) => Took(d, f))
    BY <1>3 DEF Complete
  <2>. QED  BY <2>1, <2>2
<1>. QED  BY <1>1, <1>2, <1>3

LEMMA CompleteKept == CallsInv /\ Apart /\ Complete /\ [Next]_vars => Complete'
<1>. SUFFICES ASSUME CallsInv, Apart, Complete, [Next]_vars PROVE Complete'
  OBVIOUS
<1>0. UNCHANGED <<tree, option, searchstr>>
  BY DEF Next, Gathering, Entry, Return, PrintMatches, StartAsking, Ask, fixed, vars
<1>1. CASE Entry
  <2>1. stack # <<>> /\ \E e \in Top.unread : Skip(e) \/ Descend(e) \/ Revisit(e) \/ File(e)
    BY <1>1 DEF Entry
  <2>2. PICK e \in Top.unread : Skip(e) \/ Descend(e) \/ Revisit(e) \/ File(e)
    BY <2>1
  <2>3. PathOf(e) \in Paths
    BY <2>1, ReadsEntry
  <2>4. \A d, f : Took(d, f) => Took(d, f)'
    <3>1. UNCHANGED gathered \/ \E inode : Gather(PathOf(e), inode)
      BY <2>2 DEF Skip, Descend, Revisit, File
    <3>2. blind => blind'
      BY <2>2 DEF Skip, Descend, Revisit, File
    <3>. QED  BY <1>0, <2>3, <3>1, <3>2, TookKept
  <2>5. CASE Descend(e)
    <3>1. /\ e.node \in Dirs /\ visited' = Append(visited, e.node) /\ visited \in Seq(Dirs)
          /\ stack' = Front(stack) \o <<Rest(e), Frame(e.node, PathOf(e))>>
      BY <2>5 DEF Descend, CallsInv
    <3>2. Opened' = Opened \cup {e.node}
      <4>1. ToSet(visited') = ToSet(visited) \cup {e.node}
        BY <3>1, ToSetAppend
      <4>. QED  BY <4>1 DEF Opened
    <3>3. /\ Reads(e, Len(stack), stack') /\ Len(stack') = Len(stack) + 1
          /\ stack'[Len(stack) + 1] = Frame(e.node, PathOf(e)) /\ Len(stack) \in Nat
      BY <2>1, <3>1, ReadsEntry
    <3>4. ASSUME NEW f \in Listed(tree, e.node) PROVE Pending(e.node, f)'
      <4>. DEFINE k == Len(stack) + 1
      <4>1. k \in 1 .. Len(stack') /\ stack'[k] = Frame(e.node, PathOf(e))
        BY <3>3
      <4>2. stack'[k].dir = e.node /\ f \in stack'[k].unread
        BY <4>1 DEF Frame
      <4>. HIDE DEF k
      <4>. QED  BY <4>1, <4>2 DEF Pending
    <3>. QED  BY <1>0, <2>1, <2>4, <3>2, <3>3, <3>4, CompleteStep
  <2>6. CASE Skip(e) \/ Revisit(e) \/ File(e)
    <3>1. stack' = Append(Front(stack), Rest(e)) /\ visited' = visited /\ Opened' = Opened
      BY <2>6 DEF Skip, Revisit, File, Opened
    <3>2. Reads(e, Len(stack), stack')
      BY <2>1, <3>1, ReadsEntry
    <3>3. CASE Skip(e)
      BY <1>0, <2>1, <2>4, <3>1, <3>2, <3>3, CompleteStep DEF Skip
    <3>4. CASE Revisit(e)
      <4>1. e.node \in Opened'
        BY <3>1, <3>4 DEF Revisit, Contains, Opened, ToSet, CallsInv
      <4>. QED  BY <1>0, <2>1, <2>4, <3>1, <3>2, <4>1, CompleteStep
    <3>5. CASE File(e)
      <4>1. e.node \notin Dirs
        BY <3>5 DEF File
      <4>2. Match(searchstr, e.name) => \A d : d = Top.dir => Took(d, e)'
        BY <1>0, <2>1, <3>5, FileTakes
      <4>. QED  BY <1>0, <2>1, <2>4, <3>1, <3>2, <4>1, <4>2, CompleteStep
    <3>. QED  BY <2>6, <3>3, <3>4, <3>5
  <2>. QED  BY <2>2, <2>5, <2>6
<1>2. CASE Return
  <2>1. /\ stack # <<>> /\ Top.unread = {} /\ stack' = Front(stack) /\ UNCHANGED gathered
        /\ visited' = visited /\ blind' = blind
    BY <1>2 DEF Return
  <2>2. /\ Len(stack) \in Nat \ {0} /\ Len(stack') = Len(stack) - 1 /\ Top = stack[Len(stack)]
        /\ \A i \in 1 .. Len(stack) - 1 : stack'[i] = stack[i]
    BY <2>1, StackReturn DEF CallsInv, Top
  <2>3. ASSUME NEW d, NEW f, Pending(d, f) PROVE Pending(d, f)'
    <3>1. PICK i \in 1 .. Len(stack) : stack[i].dir = d /\ f \in stack[i].unread
      BY <2>3 DEF Pending
    <3>2. i # Len(stack)
      BY <2>1, <2>2, <3>1
    <3>3. i \in 1 .. Len(stack') /\ stack'[i] = stack[i]
      BY <2>2, <3>2
    <3>. QED  BY <3>1, <3>3 DEF Pending
  <2>4. \A d, f : Took(d, f) => Took(d, f)'
    BY <1>0, <2>1 DEF gathered, Took
  <2>5. Opened' = Opened
    BY <2>1 DEF Opened
  <2>. QED  BY <1>0, <2>3, <2>4, <2>5 DEF Complete, Hidden
<1>3. CASE PrintMatches \/ StartAsking \/ Ask \/ UNCHANGED vars
  <2>1. UNCHANGED <<gathered, stack, visited, blind>>
    BY <1>3 DEF PrintMatches, StartAsking, Ask, vars, gathered
  <2>2. \A d, f : (Took(d, f) => Took(d, f)') /\ (Pending(d, f) => Pending(d, f)')
    BY <1>0, <2>1 DEF gathered, Took, Pending
  <2>3. Opened' = Opened
    BY <2>1 DEF Opened
  <2>. QED  BY <1>0, <2>2, <2>3 DEF Complete, Hidden
<1>. QED  BY <1>1, <1>2, <1>3 DEF Next, Gathering

\* What the gatherer of the option holds came from an entry it was given.
LEMMA GatherHonest ==
    ASSUME CallsInv, Apart, Honest, stack # <<>>, NEW e \in Top.unread, File(e),
           UNCHANGED <<tree, option, searchstr>>, Match(searchstr, e.name)
    PROVE  Honest'
<1>. DEFINE p == PathOf(e)
            dir == Top.dir
<1>1. LeafOf(tree, p, dir, e) /\ dir \in Opened /\ p \in Paths /\ e \in Listed(tree, dir)
  BY LeafPath, ReadsEntry DEF File
<1>2. /\ blind' = (blind \/ e.node = Gone) /\ visited' = visited
      /\ \E inode \in (IF e.node = Gone THEN Nodes ELSE {e.node}) : Gather(p, inode)
  BY DEF File
<1>3. PICK inode : Gather(p, inode) /\ (e.node # Gone => inode = e.node)
  BY <1>2
<1>4. Opened' = Opened
  BY <1>2 DEF Opened
<1>. HIDE DEF p, dir
<1>5. CASE GatherVector(p)
  <2>1. ToSet(matches') = ToSet(matches) \cup {p} /\ option = 0
    BY <1>1, <1>5, ToSetAppend DEF GatherVector, Apart
  <2>2. ASSUME NEW q \in ToSet(matches')
        PROVE  \E d \in Opened : \E f \in Listed(tree, d) :
                   LeafOf(tree, q, d, f) /\ Match(searchstr, f.name)
    <3>1. CASE q = p
      BY <1>1, <3>1
    <3>2. CASE q \in ToSet(matches)
      BY <2>1, <3>2 DEF Honest
    <3>. QED  BY <2>1, <3>1, <3>2
  <2>. QED  BY <1>4, <2>1, <2>2 DEF Honest
<1>6. CASE GatherMap(p, inode)
  <2>1. option = 1 /\ map' = With(map, inode, p)
    BY <1>6 DEF GatherMap
  <2>2. ASSUME NEW n \in DOMAIN map', ~blind'
        PROVE  \E d \in Opened : \E f \in Listed(tree, d) :
                   LeafOf(tree, map'[n], d, f) /\ f.node = n
    <3>1. CASE n = inode
      <4>1. map'[n] = p /\ e.node = n
        BY <1>2, <1>3, <2>1, <2>2, <3>1 DEF With
      <4>. QED  BY <1>1, <4>1
    <3>2. CASE n # inode
      <4>1. n \in DOMAIN map /\ map'[n] = map[n] /\ ~blind
        BY <1>2, <2>1, <2>2, <3>2 DEF With
      <4>. QED  BY <2>1, <4>1 DEF Honest
    <3>. QED  BY <3>1, <3>2
  <2>. QED  BY <1>4, <2>1, <2>2 DEF Honest
<1>7. CASE GatherDateMap(p, inode)
  <2>. DEFINE day == DateOf[inode]
              put == IF day \in DOMAIN dateMap THEN Append(dateMap[day], p) ELSE <<p>>
  <2>1. option = 2 /\ dateMap' = With(dateMap, day, put)
    BY <1>7 DEF GatherDateMap
  <2>2. ToSet(put) \subseteq {p} \cup (IF day \in DOMAIN dateMap THEN ToSet(dateMap[day]) ELSE {})
    <3>1. CASE day \in DOMAIN dateMap
      <4>1. dateMap[day] \in Seq(Paths)
        BY <3>1 DEF Apart
      <4>2. ToSet(Append(dateMap[day], p)) = ToSet(dateMap[day]) \cup {p}
        BY <1>1, <4>1, ToSetAppend
      <4>. QED  BY <3>1, <4>2
    <3>2. CASE day \notin DOMAIN dateMap
      BY <3>2 DEF ToSet
    <3>. QED  BY <3>1, <3>2
  <2>3. ~blind' => day = DateOf[e.node]
    BY <1>2, <1>3
  <2>. HIDE DEF put, day
  <2>4. ASSUME NEW c \in DOMAIN dateMap', NEW q \in ToSet(dateMap'[c]), ~blind'
        PROVE  \E d \in Opened : \E f \in Listed(tree, d) :
                   LeafOf(tree, q, d, f) /\ DateOf[f.node] = c
    <3>1. dateMap'[c] = (IF c = day THEN put ELSE dateMap[c]) /\ (c # day => c \in DOMAIN dateMap)
      BY <2>1 DEF With
    <3>2. CASE c = day /\ q = p
      BY <1>1, <2>3, <2>4, <3>2
    <3>3. CASE ~(c = day /\ q = p)
      <4>1. c \in DOMAIN dateMap /\ q \in ToSet(dateMap[c]) /\ ~blind
        BY <1>2, <2>2, <2>4, <3>1, <3>3
      <4>. QED  BY <2>1, <4>1 DEF Honest
    <3>. QED  BY <3>2, <3>3
  <2>. QED  BY <1>4, <2>1, <2>4 DEF Honest
<1>. QED  BY <1>3, <1>5, <1>6, <1>7 DEF Gather

LEMMA HonestKept == CallsInv /\ Apart /\ Honest /\ [Next]_vars => Honest'
<1>. SUFFICES ASSUME CallsInv, Apart, Honest, [Next]_vars PROVE Honest'
  OBVIOUS
<1>0. UNCHANGED <<tree, option, searchstr>>
  BY DEF Next, Gathering, Entry, Return, PrintMatches, StartAsking, Ask, fixed, vars
<1>1. ASSUME UNCHANGED gathered, blind' = blind, Opened \subseteq Opened' PROVE Honest'
  <2>1. matches' = matches /\ map' = map /\ dateMap' = dateMap
    BY <1>1 DEF gathered
  <2>2. option = 0 => \A p \in ToSet(matches) : \E d \in Opened' : \E e \in Listed(tree, d) :
                        LeafOf(tree, p, d, e) /\ Match(searchstr, e.name)
    BY <1>1 DEF Honest
  <2>3. option = 1 /\ ~blind =>
          \A n \in DOMAIN map : \E d \in Opened' : \E e \in Listed(tree, d) :
              LeafOf(tree, map[n], d, e) /\ e.node = n
    BY <1>1 DEF Honest
  <2>4. option = 2 /\ ~blind =>
          \A day \in DOMAIN dateMap : \A p \in ToSet(dateMap[day]) :
              \E d \in Opened' : \E e \in Listed(tree, d) :
                  LeafOf(tree, p, d, e) /\ DateOf[e.node] = day
    BY <1>1 DEF Honest
  <2>. QED  BY <1>0, <1>1, <2>1, <2>2, <2>3, <2>4 DEF Honest
<1>2. visited' = visited => Opened \subseteq Opened'
  BY DEF Opened
<1>3. CASE Entry
  <2>1. stack # <<>> /\ \E e \in Top.unread : Skip(e) \/ Descend(e) \/ Revisit(e) \/ File(e)
    BY <1>3 DEF Entry
  <2>2. PICK e \in Top.unread : Skip(e) \/ Descend(e) \/ Revisit(e) \/ File(e)
    BY <2>1
  <2>3. CASE Descend(e)
    <3>1. visited' = Append(visited, e.node) /\ e.node \in Dirs /\ visited \in Seq(Dirs)
      BY <2>3 DEF Descend, CallsInv
    <3>2. ToSet(visited') = ToSet(visited) \cup {e.node}
      BY <3>1, ToSetAppend
    <3>3. Opened \subseteq Opened'
      BY <3>2 DEF Opened
    <3>. QED  BY <1>1, <2>3, <3>3 DEF Descend
  <2>4. CASE Skip(e) \/ Revisit(e) \/ (File(e) /\ ~Match(searchstr, e.name))
    BY <1>1, <1>2, <2>4 DEF Skip, Revisit, File
  <2>5. CASE File(e) /\ Match(searchstr, e.name)
    BY <1>0, <2>1, <2>5, GatherHonest
  <2>. QED  BY <2>2, <2>3, <2>4, <2>5
<1>4. CASE Return \/ PrintMatches \/ StartAsking \/ Ask \/ UNCHANGED vars
  BY <1>1, <1>2, <1>4 DEF Return, PrintMatches, StartAsking, Ask, vars, gathered
<1>. QED  BY <1>3, <1>4 DEF Next, Gathering

-----------------------------------------------------------------------------
(***************************************************************************)
(* One way to each directory, but to the one searched.                     *)
(***************************************************************************)
Ways == {Front(p) : p \in Got} \cup {stack[i].path : i \in 1 .. Len(stack)}

OneWay ==
    /\ \A u \in Ways : LeadsTo(tree, u) \in Opened
    /\ \A u, w \in Ways : LeadsTo(tree, u) = LeadsTo(tree, w) => u = w \/ LeadsTo(tree, u) = Root

\* A directory is entered once, by one way, and its files gathered by that way.
LEMMA OneWayKept == CallsInv /\ Apart /\ Fresh /\ OneWay /\ [Next]_vars => OneWay'
<1>. SUFFICES ASSUME CallsInv, Apart, Fresh, OneWay, [Next]_vars PROVE OneWay'
  OBVIOUS
<1>0. tree' = tree
  BY DEF Next, Gathering, Entry, Return, PrintMatches, StartAsking, Ask, fixed, vars
<1>1. ASSUME Ways' \subseteq Ways, Opened \subseteq Opened' PROVE OneWay'
  BY <1>0, <1>1 DEF OneWay
<1>2. CASE Entry
  <2>1. stack # <<>> /\ \E e \in Top.unread : Skip(e) \/ Descend(e) \/ Revisit(e) \/ File(e)
    BY <1>2 DEF Entry
  <2>2. PICK e \in Top.unread : Skip(e) \/ Descend(e) \/ Revisit(e) \/ File(e)
    BY <2>1
  <2>. DEFINE n == Len(stack)
              q == PathOf(e)
  <2>3. /\ n \in Nat \ {0} /\ Top = stack[n] /\ Top \in Calls(tree) /\ e.name \in Names
        /\ q \in Paths /\ LeadsTo(tree, q) = e.node
    BY <2>1, ReadsEntry
  <2>4. Front(q) = Top.path /\ Top.path \in Ways
    <3>1. Front(q) = Top.path
      BY <2>3, FrontAndLast DEF PathOf, Calls
    <3>2. n \in 1 .. n
      BY <2>3
    <3>. QED  BY <2>3, <3>1, <3>2 DEF Ways
  <2>5. Got' \subseteq Got \cup {q}
    <3>1. CASE UNCHANGED gathered
      BY <3>1 DEF gathered, Got
    <3>2. CASE \E inode : Gather(q, inode)
      <4>1. q \notin Got
        BY <2>1, ReadsEntry, PathIsNew
      <4>. QED  BY <2>3, <3>2, <4>1, GatherAdds
    <3>. QED  BY <2>2, <3>1, <3>2 DEF Skip, Descend, Revisit, File
  <2>6. {Front(p) : p \in Got'} \subseteq Ways
    BY <2>4, <2>5 DEF Ways
  <2>7. ASSUME Reads(e, n, stack') PROVE \A i \in 1 .. n : stack'[i].path = stack[i].path
    <3>1. ASSUME NEW i \in 1 .. n PROVE stack'[i].path = stack[i].path
      <4>1. CASE i = n
        <5>1. stack[n] \in Calls(tree) /\ stack'[n] = [stack[n] EXCEPT !.unread = @ \ {e}]
          BY <2>3, <2>7 DEF Reads
        <5>. QED  BY <4>1, <5>1 DEF Calls
      <4>2. CASE i # n
        <5>1. i \in 1 .. n - 1
          BY <2>3, <4>2
        <5>. QED  BY <2>7, <5>1 DEF Reads
      <4>. QED  BY <4>1, <4>2
    <3>. QED  BY <3>1
  <2>8. CASE Skip(e) \/ Revisit(e) \/ File(e)
    <3>1. stack' = Append(Front(stack), Rest(e)) /\ visited' = visited
      BY <2>8 DEF Skip, Revisit, File
    <3>2. Reads(e, n, stack') /\ Len(stack') = n
      BY <2>1, <3>1, ReadsEntry
    <3>3. Ways' \subseteq Ways
      BY <2>6, <2>7, <3>2 DEF Ways
    <3>. QED  BY <1>1, <3>1, <3>3 DEF Opened
  <2>9. CASE Descend(e)
    <3>1. /\ e.node \in Dirs /\ ~Contains(visited, e.node)
          /\ stack' = Front(stack) \o <<Rest(e), Frame(e.node, q)>>
          /\ visited' = Append(visited, e.node) /\ visited \in Seq(Dirs)
      BY <2>9 DEF Descend, CallsInv
    <3>2. /\ Reads(e, n, stack') /\ Len(stack') = n + 1
          /\ stack'[n + 1] = Frame(e.node, q)
      BY <2>1, <3>1, ReadsEntry
    <3>3. Frame(e.node, q).path = q
      BY DEF Frame
    <3>4. ASSUME NEW i \in 1 .. n + 1 PROVE stack'[i].path \in Ways \cup {q}
      <4>1. CASE i = n + 1
        BY <3>2, <3>3, <4>1
      <4>2. CASE i # n + 1
        <5>1. i \in 1 .. n
          BY <2>3, <4>2
        <5>. QED  BY <2>7, <3>2, <5>1 DEF Ways
      <4>. QED  BY <4>1, <4>2
    <3>5. Ways' \subseteq Ways \cup {q}
      BY <2>6, <3>2, <3>4 DEF Ways
    <3>6. Opened' = Opened \cup {e.node}
      <4>1. ToSet(visited') = ToSet(visited) \cup {e.node}
        BY <3>1, ToSetAppend
      <4>. QED  BY <4>1 DEF Opened
    <3>7. e.node \in Opened => e.node = Root
      <4>1. e.node \notin ToSet(visited)
        <5>1. DOMAIN visited = 1 .. Len(visited)
          BY <3>1
        <5>2. ~\E i \in 1 .. Len(visited) : visited[i] = e.node
          BY <3>1 DEF Contains
        <5>. QED  BY <5>1, <5>2 DEF ToSet
      <4>. QED  BY <4>1 DEF Opened
    <3>8. ASSUME NEW u \in Ways'
          PROVE  LeadsTo(tree, u) \in Opened' /\ (u \in Ways => LeadsTo(tree, u) \in Opened)
      BY <2>3, <3>5, <3>6 DEF OneWay
    <3>9. ASSUME NEW u \in Ways', NEW w \in Ways', LeadsTo(tree, u) = LeadsTo(tree, w)
          PROVE  u = w \/ LeadsTo(tree, u) = Root
      <4>1. CASE u \in Ways /\ w \in Ways
        BY <3>9, <4>1 DEF OneWay
      <4>2. CASE u \notin Ways \/ w \notin Ways
        BY <2>3, <3>5, <3>7, <3>8, <3>9, <4>2
      <4>. QED  BY <4>1, <4>2
    <3>. HIDE DEF q
    <3>. QED  BY <1>0, <3>8, <3>9 DEF OneWay
  <2>. QED  BY <2>2, <2>8, <2>9
<1>3. CASE Return
  <2>1. stack # <<>> /\ stack' = Front(stack) /\ UNCHANGED <<matches, dateMap, visited>>
    BY <1>3 DEF Return, gathered
  <2>2. /\ Len(stack) \in Nat \ {0} /\ Len(stack') = Len(stack) - 1
        /\ \A i \in 1 .. Len(stack) - 1 : stack'[i] = stack[i]
    BY <2>1, StackReturn DEF CallsInv
  <2>3. \A i \in 1 .. Len(stack') : i \in 1 .. Len(stack) /\ stack'[i] = stack[i]
    BY <2>2
  <2>4. Got' = Got /\ Opened' = Opened
    BY <2>1 DEF Got, Opened
  <2>5. Ways' \subseteq Ways
    BY <2>3, <2>4 DEF Ways
  <2>. QED  BY <1>1, <2>4, <2>5
<1>4. CASE PrintMatches \/ StartAsking \/ Ask \/ UNCHANGED vars
  <2>1. UNCHANGED <<matches, dateMap, visited, stack>>
    BY <1>4 DEF PrintMatches, StartAsking, Ask, vars, gathered
  <2>2. Got' = Got /\ Opened' = Opened
    BY <2>1 DEF Got, Opened
  <2>3. Ways' = Ways
    BY <2>1, <2>2 DEF Ways
  <2>. QED  BY <1>1, <2>2, <2>3
<1>. QED  BY <1>2, <1>3, <1>4 DEF Next, Gathering

-----------------------------------------------------------------------------
(***************************************************************************)
(* What is known when nothing is left to read.                             *)
(***************************************************************************)
Ordered(s, out) ==
    \E order \in Bijection(DOMAIN s, DOMAIN s) :
      /\ \A j, k \in DOMAIN s : j < k => CmpPath(s[order[j]], s[order[k]]) <= 0
      /\ out = [j \in DOMAIN s |-> s[order[j]]]

\* The search is over before anything is reported.
Phases ==
    /\ option \in {0, 1, 2} /\ searchstr \in Seq(Nat) /\ (option # 0 => searchstr = <<>>)
    /\ at # "gather" => stack = <<>>
    /\ at = "report" => option # 0
    /\ option = 0 /\ at = "done" => Ordered(matches, printed)

LEMMA PhasesKept == Phases /\ [Next]_vars => Phases'
<1>. SUFFICES ASSUME Phases, [Next]_vars PROVE Phases'
  OBVIOUS
<1>0. UNCHANGED <<tree, option, searchstr>>
  BY DEF Next, Gathering, Entry, Return, PrintMatches, StartAsking, Ask, fixed, vars
<1>1. CASE Entry \/ Return
  <2>1. at' = "gather"
    BY <1>1 DEF Entry, Return
  <2>. QED  BY <1>0, <2>1 DEF Phases
<1>2. CASE PrintMatches
  <2>1. at' = "done" /\ option = 0 /\ stack' = <<>> /\ matches' = matches
    BY <1>2 DEF PrintMatches, gathered
  <2>2. Ordered(matches, printed')
    BY <1>2 DEF PrintMatches, Ordered
  <2>. QED  BY <1>0, <2>1, <2>2 DEF Phases
<1>3. CASE StartAsking
  BY <1>0, <1>3 DEF StartAsking, Phases
<1>4. CASE Ask
  BY <1>0, <1>4 DEF Ask, Phases
<1>5. CASE UNCHANGED vars
  BY <1>5 DEF vars, Phases
<1>. QED  BY <1>1, <1>2, <1>3, <1>4, <1>5 DEF Next, Gathering

\* The conjunction is inductive.
SearchInv == CallsInv /\ Apart /\ Fresh /\ Complete /\ Honest /\ OneWay /\ Phases

LEMMA SearchInit == Init => SearchInv
<1>. SUFFICES ASSUME Init PROVE SearchInv
  OBVIOUS
<1>1. /\ tree \in Trees /\ visited = <<>> /\ matches = <<>> /\ DOMAIN map = {} /\ DOMAIN dateMap = {}
      /\ stack = <<Frame(Root, <<>>)>> /\ blind = FALSE /\ Root \in Dirs /\ at = "gather"
  BY TreeAssumption DEF Init
<1>. DEFINE f == Frame(Root, <<>>)
<1>2. <<>> \in Paths /\ LeadsTo(tree, <<>>) = Root
  <2>1. <<>> \in Paths
    BY DEF Paths
  <2>. QED  BY <1>1, <2>1, LeadsOn
<1>3. f.dir = Root /\ f.path = <<>> /\ f.unread = Listed(tree, Root) /\ f \in Calls(tree)
  BY <1>1, <1>2 DEF Frame, Calls, Listed
<1>. HIDE DEF f
<1>4. /\ stack \in Seq(Calls(tree)) /\ Len(stack) = 1 /\ stack[1] = f
  BY <1>1, <1>3 DEF f
<1>5. Opened = {Root} /\ ToSet(matches) = {} /\ Got = {} /\ Used = {<<>>}
  <2>1. ToSet(<<>>) = {}
    BY DEF ToSet
  <2>. QED  BY <1>1, <1>3, <1>4, <2>1 DEF Opened, Got, Used
<1>6. CallsInv
  <2>1. Opened \subseteq Reachable(tree)
    BY <1>5, ReachableLeast
  <2>. QED  BY <1>1, <1>2, <1>3, <1>4, <1>5, <2>1 DEF CallsInv
<1>7. Apart /\ Honest
  <2>1. <<>> \in Seq(Paths) /\ IsInjective(<<>>)
    BY DEF IsInjective
  <2>. QED  BY <1>1, <1>5, <2>1 DEF Apart, Honest
<1>8. Fresh
  <2>1. ASSUME NEW e \in f.unread PROVE ~Begins(Append(<<>>, e.name), <<>>)
    <3>1. e.name \in Names
      BY <1>1, <1>3, <2>1, EntryLeads DEF Listed
    <3>2. Begins(Append(<<>>, e.name), <<>>) => Len(<<>>) < Len(<<>>)
      BY <1>2, <3>1, Extensions
    <3>. QED  BY <3>2
  <2>2. ASSUME NEW i \in 1 .. Len(stack) PROVE i = 1
    BY <1>4
  <2>3. ASSUME NEW i \in 1 .. Len(stack), NEW e \in stack[i].unread, NEW q \in Used
        PROVE  ~Begins(Append(stack[i].path, e.name), q)
    <3>1. stack[i] = f /\ q = <<>>
      BY <1>4, <1>5, <2>2
    <3>. QED  BY <1>3, <2>1, <3>1
  <2>. QED  BY <2>3 DEF Fresh
<1>9. Complete
  <2>1. \A e \in Listed(tree, Root) : Pending(Root, e)
    BY <1>3, <1>4 DEF Pending
  <2>. QED  BY <1>5, <2>1 DEF Complete
<1>10. Phases
  <2>1. <<>> \in Seq(Nat) /\ SearchStrs \subseteq Seq(Nat)
    BY TreeAssumption
  <2>. QED  BY <2>1 DEF Init, Phases
<1>11. OneWay
  <2>1. Ways = {<<>>}
    BY <1>3, <1>4, <1>5 DEF Ways
  <2>. QED  BY <1>2, <1>5, <2>1 DEF OneWay
<1>. QED  BY <1>6, <1>7, <1>8, <1>9, <1>10, <1>11 DEF SearchInv

LEMMA SearchHolds == Spec => []SearchInv
<1>1. SearchInv /\ [Next]_vars => SearchInv'
  <2>. SUFFICES ASSUME SearchInv, [Next]_vars PROVE SearchInv'
    OBVIOUS
  <2>1. CallsInv /\ Apart /\ Fresh /\ Complete /\ Honest /\ OneWay /\ Phases
    BY DEF SearchInv
  <2>2. CallsInv' /\ Apart' /\ Fresh' /\ Complete' /\ Honest' /\ OneWay' /\ Phases'
    BY <2>1, CallsKept, ApartKept, CompleteKept, HonestKept, OneWayKept, PhasesKept
  <2>. QED  BY <2>2 DEF SearchInv
<1>. QED  BY <1>1, SearchInit, PTL DEF Spec

\* When no call is left the directories opened are those that can be reached,
\* and all their visible files have been dealt with.
LEMMA AllListed ==
    ASSUME SearchInv, stack = <<>>
    PROVE  /\ Opened = Reachable(tree)
           /\ \A d \in Reachable(tree) : \A e \in Listed(tree, d) :
                ~Hidden(e) /\ e.node \notin Dirs /\ Match(searchstr, e.name) => Took(d, e)
<1>1. \A d, e : ~Pending(d, e)
  BY DEF Pending
<1>2. Opened \subseteq Reachable(tree) /\ visited \in Seq(Dirs)
  BY DEF SearchInv, CallsInv
<1>3. Opened \in SUBSET Dirs /\ Root \in Opened
  <2>1. ToSet(visited) \subseteq Dirs
    BY <1>2 DEF ToSet
  <2>. QED  BY <2>1, TreeAssumption DEF Opened
<1>4. ASSUME NEW d \in Opened PROVE Below(tree, d) \subseteq Opened
  BY <1>1 DEF SearchInv, Complete, Below
<1>5. Opened = Reachable(tree)
  BY <1>2, <1>3, <1>4, ReachableLeast
<1>. QED  BY <1>1, <1>3, <1>5 DEF SearchInv, Complete

LEMMA LeavesAre ==
    ASSUME NEW t, NEW d, NEW e
    PROVE  <<d, e>> \in Leaves(t) <=>
             d \in Reachable(t) /\ e \in Listed(t, d) /\ ~Hidden(e) /\ e.node \notin Dirs
BY DEF Leaves

\* A leaf is a pair of a directory and an entry.
LEMMA LeafPair ==
    ASSUME NEW t, NEW l \in Leaves(t)
    PROVE  l = <<l[1], l[2]>>
BY DEF Leaves

\* The empty string is found in every name.
LEMMA EmptyMatches ==
    ASSUME NEW name \in Names
    PROVE  Match(<<>>, name)
<1>1. 1 \in DOMAIN name
  BY DEF Names
<1>. QED  BY <1>1 DEF Match, MatchHelper

\* Where a leaf's path leads to.
LEMMA LeafLeads ==
    ASSUME NEW t \in Trees, NEW p, NEW d \in Dirs, NEW e, LeafOf(t, p, d, e)
    PROVE  LeadsTo(t, p) = e.node /\ LeadsTo(t, Front(p)) = d /\ Last(p) = e.name
<1>1. /\ p \in Paths /\ p # <<>> /\ LeadsTo(t, Front(p)) = d /\ Last(p) = e.name
      /\ e \in t.entries[d]
  BY DEF LeafOf, Listed
<1>2. Front(p) \in Paths /\ Last(p) \in Names /\ p = Append(Front(p), Last(p))
  BY <1>1, FrontAndLast
<1>3. LeadsTo(t, Append(Front(p), e.name)) = Entered(t, d, e.name)
  BY <1>1, <1>2, LeadsOn
<1>. QED  BY <1>1, <1>2, <1>3, EntryLeads

\* Both maps know every file and nothing else, and the paths they hold lead to
\* the files, unless stat failed for one (gather_map, gather_dateMap 110-157).
THEOREM SearchAnswers == Spec => []AnswersTrue
<1>1. SearchInv => AnswersTrue
  <2>. SUFFICES ASSUME SearchInv, at # "gather", ~blind
                PROVE  /\ option = 1 =>
                            /\ DOMAIN map = {l[2].node : l \in Leaves(tree)}
                            /\ \A n \in DOMAIN map : LeadsTo(tree, map[n]) = n
                       /\ option = 2 =>
                            /\ DOMAIN dateMap = {DateOf[l[2].node] : l \in Leaves(tree)}
                            /\ \A day \in DOMAIN dateMap :
                                 /\ IsInjective(dateMap[day])
                                 /\ Ends(tree, ToSet(dateMap[day])) =
                                      Named({l \in Leaves(tree) : DateOf[l[2].node] = day})
    BY DEF AnswersTrue
  <2>1. stack = <<>> /\ (option # 0 => searchstr = <<>>)
    BY DEF SearchInv, Phases
  <2>2. /\ Opened = Reachable(tree) /\ Opened \subseteq Dirs /\ tree \in Trees
        /\ \A d \in Dirs : \A e \in Listed(tree, d) : e.name \in Names
    <3>1. tree \in Trees
      BY DEF SearchInv, CallsInv
    <3>2. Opened = Reachable(tree)
      BY <2>1, AllListed
    <3>. QED  BY <3>1, <3>2, EntryLeads DEF Reachable, Listed
  <2>3. ASSUME NEW l \in Leaves(tree), option # 0 PROVE Took(l[1], l[2])
    <3>. DEFINE d == l[1]
                e == l[2]
    <3>. HIDE DEF d, e
    <3>1. l = <<d, e>>
      BY LeafPair DEF d, e
    <3>2. d \in Reachable(tree) /\ e \in Listed(tree, d) /\ ~Hidden(e) /\ e.node \notin Dirs
      BY <3>1, LeavesAre
    <3>3. Match(searchstr, e.name)
      BY <2>1, <2>2, <2>3, <3>2, EmptyMatches
    <3>. QED  BY <2>1, <3>2, <3>3, AllListed DEF d, e
  <2>4. ASSUME NEW d \in Opened, NEW e, NEW p, LeafOf(tree, p, d, e)
        PROVE  /\ <<d, e>> \in Leaves(tree) /\ LeadsTo(tree, p) = e.node
               /\ LeadsTo(tree, Front(p)) = d /\ Last(p) = e.name
    BY <2>2, <2>4, LeavesAre, LeafLeads DEF LeafOf
  <2>5. ASSUME option = 1
        PROVE  /\ DOMAIN map = {l[2].node : l \in Leaves(tree)}
               /\ \A n \in DOMAIN map : LeadsTo(tree, map[n]) = n
    <3>1. ASSUME NEW n \in DOMAIN map
          PROVE  LeadsTo(tree, map[n]) = n /\ \E l \in Leaves(tree) : n = l[2].node
      <4>1. PICK d \in Opened : \E e \in Listed(tree, d) : LeafOf(tree, map[n], d, e) /\ e.node = n
        BY <2>5 DEF SearchInv, Honest
      <4>2. PICK e \in Listed(tree, d) : LeafOf(tree, map[n], d, e) /\ e.node = n
        BY <4>1
      <4>. QED  BY <2>4, <4>2
    <3>2. ASSUME NEW l \in Leaves(tree) PROVE l[2].node \in DOMAIN map
      BY <2>3, <2>5 DEF Took
    <3>. QED  BY <3>1, <3>2
  <2>6. ASSUME option = 2
        PROVE  /\ DOMAIN dateMap = {DateOf[l[2].node] : l \in Leaves(tree)}
               /\ \A day \in DOMAIN dateMap :
                    /\ IsInjective(dateMap[day])
                    /\ Ends(tree, ToSet(dateMap[day])) =
                         Named({l \in Leaves(tree) : DateOf[l[2].node] = day})
    <3>1. ASSUME NEW day \in DOMAIN dateMap, NEW p \in ToSet(dateMap[day])
          PROVE  \E l \in Leaves(tree) :
                    DateOf[l[2].node] = day /\ l[1] = LeadsTo(tree, Front(p)) /\ l[2].name = Last(p)
      <4>1. PICK d \in Opened : \E e \in Listed(tree, d) :
                                   LeafOf(tree, p, d, e) /\ DateOf[e.node] = day
        BY <2>6 DEF SearchInv, Honest
      <4>2. PICK e \in Listed(tree, d) : LeafOf(tree, p, d, e) /\ DateOf[e.node] = day
        BY <4>1
      <4>3. <<d, e>> \in Leaves(tree) /\ LeadsTo(tree, Front(p)) = d /\ Last(p) = e.name
        BY <2>4, <4>2
      <4>. QED  BY <4>2, <4>3
    <3>2. ASSUME NEW l \in Leaves(tree)
          PROVE  /\ DateOf[l[2].node] \in DOMAIN dateMap
                 /\ \E p \in ToSet(dateMap[DateOf[l[2].node]]) :
                      l[1] = LeadsTo(tree, Front(p)) /\ l[2].name = Last(p)
      <4>1. /\ DateOf[l[2].node] \in DOMAIN dateMap
            /\ \E p \in ToSet(dateMap[DateOf[l[2].node]]) : LeafOf(tree, p, l[1], l[2])
        BY <2>3, <2>6 DEF Took
      <4>. QED  BY <4>1 DEF LeafOf
    <3>3. ASSUME NEW day \in DOMAIN dateMap
          PROVE  /\ IsInjective(dateMap[day])
                 /\ Ends(tree, ToSet(dateMap[day])) =
                      Named({l \in Leaves(tree) : DateOf[l[2].node] = day})
                 /\ \E p : p \in ToSet(dateMap[day])
      <4>1. IsInjective(dateMap[day]) /\ dateMap[day] \in Seq(Paths) /\ dateMap[day] # <<>>
        BY DEF SearchInv, Apart
      <4>2. \E p : p \in ToSet(dateMap[day])
        <5>1. 1 \in DOMAIN dateMap[day]
          BY <4>1
        <5>. QED  BY <5>1 DEF ToSet
      <4>. QED  BY <3>1, <3>2, <4>1, <4>2 DEF Ends, Named
    <3>. QED  BY <3>1, <3>2, <3>3
  <2>. QED  BY <2>5, <2>6
<1>. QED  BY <1>1, SearchHolds, PTL

-----------------------------------------------------------------------------
(***************************************************************************)
(* The order the paths are printed in.                                     *)
(***************************************************************************)
Chars == Seq(Nat)

\* The characters of a path are those of the path without its last name, a
\* slash and that name.
LEMMA JoinsOn ==
    ASSUME NEW path \in Paths
    PROVE  /\ Joined(path) \in Chars
           /\ path = <<>> => Joined(path) = <<>>
           /\ \A name \in Names :
                Joined(Append(path, name)) = Joined(path) \o <<Slash>> \o name
<1>. DEFINE F(q, g) == [k \in 0 .. Len(q) |-> IF k = 0 THEN <<>> ELSE g[k - 1] \o <<Slash>> \o q[k]]
            upto(q) == CHOOSE g : g = F(q, g)
<1>1. ASSUME NEW s \in Chars, NEW name \in Names PROVE s \o <<Slash>> \o name \in Chars
  <2>1. <<Slash>> \in Seq(Nat) /\ name \in Seq(Nat)
    BY TreeAssumption DEF Names
  <2>. QED  BY <2>1 DEF Chars
<1>2. <<>> \in Chars
  BY DEF Chars
<1>3. ASSUME NEW q \in Paths
      PROVE  /\ upto(q)[0] = <<>> /\ \A k \in 0 .. Len(q) : upto(q)[k] \in Chars
             /\ \A k \in 1 .. Len(q) : upto(q)[k] = upto(q)[k - 1] \o <<Slash>> \o q[k]
  <2>. DEFINE L == Len(q)
              step == [k \in 1 .. L |-> [s \in Chars |-> s \o <<Slash>> \o q[k]]]
              W == upto(q)
  <2>1. L \in Nat /\ \A k \in 1 .. L : q[k] \in Names
    BY DEF Paths
  <2>. HIDE DEF L
  <2>2. step \in [1 .. L -> [Chars -> Chars]]
    BY <1>1, <2>1
  <2>3. PICK g \in [0 .. L -> Chars] : Iterates(g, L, <<>>, step)
    <3>. HIDE DEF step
    <3>. QED  BY <1>2, <2>1, <2>2, RecursionExists
  <2>4. ASSUME NEW k \in 0 .. L
        PROVE  g[k] = IF k = 0 THEN <<>> ELSE g[k - 1] \o <<Slash>> \o q[k]
    <3>1. g[k] = IF k = 0 THEN <<>> ELSE step[k][g[k - 1]]
      <4>. HIDE DEF step
      <4>. QED  BY <2>3 DEF Iterates
    <3>2. ASSUME k # 0 PROVE k \in 1 .. L /\ k - 1 \in 0 .. L
      BY <2>1, <3>2
    <3>3. ASSUME k # 0 PROVE step[k][g[k - 1]] = g[k - 1] \o <<Slash>> \o q[k]
      BY <3>2, <3>3
    <3>. HIDE DEF step
    <3>. QED  BY <3>1, <3>3
  <2>5. g = F(q, g)
    BY <2>4 DEF L
  <2>6. W = F(q, W)
    <3>. HIDE DEF F
    <3>. QED  BY <2>5
  <2>. HIDE DEF W
  <2>7. W[0] = <<>> /\ \A k \in 1 .. L : W[k] = W[k - 1] \o <<Slash>> \o q[k]
    <3>1. 0 \in 0 .. L /\ \A k \in 1 .. L : k \in 0 .. L /\ k # 0
      BY <2>1
    <3>. QED  BY <2>6, <3>1 DEF L
  <2>. DEFINE T == {k \in Nat : k <= L => W[k] \in Chars}
  <2>8. 0 \in T
    BY <1>2, <2>7
  <2>9. ASSUME NEW k \in Nat, k \in T PROVE k + 1 \in T
    <3>. DEFINE j == k + 1
    <3>. SUFFICES ASSUME j <= L PROVE W[j] \in Chars
      OBVIOUS
    <3>1. j \in 1 .. L /\ j - 1 = k /\ W[k] \in Chars
      BY <2>1, <2>9
    <3>. HIDE DEF j
    <3>. QED  BY <1>1, <2>1, <2>7, <3>1
  <2>10. Nat \subseteq T
    <3>. HIDE DEF T
    <3>. QED  BY <2>8, <2>9, InductionOnNat
  <2>11. \A k \in 0 .. L : W[k] \in Chars
    BY <2>1, <2>10
  <2>. HIDE DEF upto
  <2>. QED  BY <2>7, <2>11 DEF W, L
<1>4. \A q : Joined(q) = upto(q)[Len(q)]
  BY DEF Joined
<1>. HIDE DEF upto
<1>5. Len(path) \in Nat /\ Len(path) \in 0 .. Len(path) /\ (path = <<>> => Len(path) = 0)
  BY DEF Paths
<1>6. Joined(path) \in Chars /\ (path = <<>> => Joined(path) = <<>>)
  <2>1. Joined(path) = upto(path)[Len(path)]
    BY <1>4
  <2>2. upto(path)[0] = <<>> /\ \A k \in 0 .. Len(path) : upto(path)[k] \in Chars
    BY <1>3
  <2>3. upto(path)[Len(path)] \in Chars
    BY <1>5, <2>2
  <2>4. path = <<>> => upto(path)[Len(path)] = <<>>
    BY <1>5, <2>2
  <2>. QED  BY <2>1, <2>3, <2>4
<1>7. ASSUME NEW name \in Names
      PROVE  Joined(Append(path, name)) = Joined(path) \o <<Slash>> \o name
  <2>. DEFINE L == Len(path)
              q == Append(path, name)
              T == {k \in Nat : k <= L => upto(q)[k] = upto(path)[k]}
  <2>1. /\ q \in Paths /\ Len(q) = L + 1 /\ q[L + 1] = name
        /\ \A k \in 1 .. L : q[k] = path[k]
    BY DEF Paths
  <2>. HIDE DEF q
  <2>2. 0 \in T
    BY <1>3, <2>1
  <2>3. ASSUME NEW k \in Nat, k \in T PROVE k + 1 \in T
    <3>. DEFINE j == k + 1
    <3>. SUFFICES ASSUME j <= L PROVE upto(q)[j] = upto(path)[j]
      OBVIOUS
    <3>1. j \in 1 .. L /\ j \in 1 .. Len(q) /\ j - 1 = k /\ upto(q)[k] = upto(path)[k]
      BY <1>5, <2>1, <2>3
    <3>. HIDE DEF j
    <3>2. upto(q)[j] = upto(q)[j - 1] \o <<Slash>> \o q[j]
      BY <1>3, <2>1, <3>1
    <3>3. upto(path)[j] = upto(path)[j - 1] \o <<Slash>> \o path[j]
      BY <1>3, <3>1
    <3>. QED  BY <2>1, <3>1, <3>2, <3>3
  <2>4. Nat \subseteq T
    <3>. HIDE DEF T
    <3>. QED  BY <2>2, <2>3, InductionOnNat
  <2>5. upto(q)[L] = upto(path)[L]
    BY <1>5, <2>4
  <2>6. upto(q)[L + 1] = upto(q)[L] \o <<Slash>> \o name
    <3>. DEFINE j == L + 1
    <3>1. j \in 1 .. Len(q) /\ j - 1 = L /\ q[j] = name
      BY <1>5, <2>1
    <3>. HIDE DEF j
    <3>2. upto(q)[j] = upto(q)[j - 1] \o <<Slash>> \o q[j]
      BY <1>3, <2>1, <3>1
    <3>. QED  BY <3>1, <3>2 DEF j
  <2>. QED  BY <1>4, <2>1, <2>5, <2>6 DEF q
<1>. QED  BY <1>6, <1>7

\* Characters, a slash and a name.
LEMMA SlashIn ==
    ASSUME NEW w \in Chars, NEW c \in Names
    PROVE  LET s == w \o <<Slash>> \o c
           IN  /\ Len(w) \in Nat /\ Len(c) \in Nat /\ s \in Seq(Nat) /\ s # <<>>
               /\ Len(s) = Len(w) + 1 + Len(c)
               /\ s[Len(w) + 1] = Slash /\ \A k \in 1 .. Len(w) : s[k] = w[k]
               /\ \A k \in 1 .. Len(c) : s[Len(w) + 1 + k] = c[k] /\ c[k] # Slash
               /\ w \in Seq(Nat) /\ c \in Seq(Nat)
<1>1. w \in Seq(Nat) /\ c \in Seq(Nat) /\ <<Slash>> \in Seq(Nat)
  BY TreeAssumption DEF Chars, Names
<1>2. \A k \in 1 .. Len(c) : c[k] # Slash
  BY DEF Names
<1>. DEFINE s == w \o <<Slash>> \o c
<1>3. s \in Seq(Nat) /\ Len(s) = Len(w) + 1 + Len(c) /\ Len(w) \in Nat /\ Len(c) \in Nat
  BY <1>1
<1>4. s[Len(w) + 1] = Slash /\ \A k \in 1 .. Len(w) : s[k] = w[k]
  BY <1>1
<1>5. \A k \in 1 .. Len(c) : s[Len(w) + 1 + k] = c[k]
  BY <1>1
<1>. HIDE DEF s
<1>6. s # <<>>
  BY <1>3
<1>. QED  BY <1>1, <1>2, <1>3, <1>4, <1>5, <1>6 DEF s

\* Where the last slash is.
LEMMA SlashPlace ==
    ASSUME NEW w \in Chars, NEW x \in Chars, NEW c \in Names, NEW e \in Names,
           w \o <<Slash>> \o c = x \o <<Slash>> \o e
    PROVE  ~(Len(w) < Len(x))
<1>. DEFINE s == w \o <<Slash>> \o c
            r == x \o <<Slash>> \o e
            k == Len(x) - Len(w)
<1>1. /\ Len(w) \in Nat /\ Len(c) \in Nat /\ Len(s) = Len(w) + 1 + Len(c)
      /\ \A i \in 1 .. Len(c) : s[Len(w) + 1 + i] # Slash
  <2>1. \A i \in 1 .. Len(c) : s[Len(w) + 1 + i] = c[i] /\ c[i] # Slash
    BY SlashIn
  <2>2. /\ Len(w) \in Nat /\ Len(c) \in Nat /\ Len(s) = Len(w) + 1 + Len(c)
    BY SlashIn
  <2>. HIDE DEF s
  <2>. QED  BY <2>1, <2>2
<1>2. Len(x) \in Nat /\ Len(e) \in Nat /\ Len(r) = Len(x) + 1 + Len(e) /\ r[Len(x) + 1] = Slash
  BY SlashIn
<1>3. s = r
  OBVIOUS
<1>. HIDE DEF s, r
<1>. SUFFICES ASSUME Len(w) < Len(x) PROVE FALSE
  OBVIOUS
<1>4. k \in 1 .. Len(c) /\ Len(w) + 1 + k = Len(x) + 1
  BY <1>1, <1>2, <1>3
<1>. HIDE DEF k
<1>5. s[Len(w) + 1 + k] # Slash
  BY <1>1, <1>4
<1>. QED  BY <1>2, <1>3, <1>4, <1>5

Slashed(w, name) == w \o <<Slash>> \o name

\* The last slash parts a path's characters.
LEMMA LastSlash ==
    ASSUME NEW u \in Chars, NEW v \in Chars, NEW a \in Names, NEW b \in Names,
           Slashed(u, a) = Slashed(v, b)
    PROVE  u = v /\ a = b
<1>. DEFINE s == u \o <<Slash>> \o a
            r == v \o <<Slash>> \o b
<1>1. /\ Len(u) \in Nat /\ Len(a) \in Nat /\ Len(s) = Len(u) + 1 + Len(a)
      /\ \A k \in 1 .. Len(u) : s[k] = u[k]
      /\ \A k \in 1 .. Len(a) : s[Len(u) + 1 + k] = a[k]
      /\ u \in Seq(Nat) /\ a \in Seq(Nat)
  BY SlashIn
<1>2. /\ Len(v) \in Nat /\ Len(b) \in Nat /\ Len(r) = Len(v) + 1 + Len(b)
      /\ \A k \in 1 .. Len(v) : r[k] = v[k]
      /\ \A k \in 1 .. Len(b) : r[Len(v) + 1 + k] = b[k]
      /\ v \in Seq(Nat) /\ b \in Seq(Nat)
  BY SlashIn
<1>4. s = r
  BY DEF Slashed
<1>3. ~(Len(u) < Len(v)) /\ ~(Len(v) < Len(u))
  BY <1>4, SlashPlace
<1>. HIDE DEF s, r
<1>5. Len(u) = Len(v) /\ Len(a) = Len(b)
  BY <1>1, <1>2, <1>3, <1>4
<1>6. u = v
  <2>1. \A k \in 1 .. Len(u) : u[k] = v[k]
    BY <1>1, <1>2, <1>4, <1>5
  <2>2. u \in Seq(Nat) /\ v \in Seq(Nat) /\ Len(u) = Len(v)
    BY <1>1, <1>2, <1>5
  <2>. QED  BY <2>1, <2>2
<1>7. a = b
  <2>1. ASSUME NEW k \in 1 .. Len(a) PROVE a[k] = b[k]
    <3>1. s[Len(u) + 1 + k] = a[k]
      BY <1>1
    <3>2. r[Len(v) + 1 + k] = b[k]
      BY <1>2, <1>5
    <3>. QED  BY <1>4, <1>5, <3>1, <3>2
  <2>2. a \in Seq(Nat) /\ b \in Seq(Nat) /\ Len(a) = Len(b)
    BY <1>1, <1>2, <1>5
  <2>. QED  BY <2>1, <2>2
<1>. QED  BY <1>6, <1>7

\* Different paths have different characters.
LEMMA JoinedApart ==
    ASSUME NEW p \in Paths, NEW q \in Paths, Joined(p) = Joined(q)
    PROVE  p = q
<1>. DEFINE T == {n \in Nat : \A x, y \in Paths : Len(x) = n /\ Joined(x) = Joined(y) => x = y}
<1>1. ASSUME NEW x \in Paths, x # <<>>
      PROVE  /\ Front(x) \in Paths /\ Last(x) \in Names /\ x = Append(Front(x), Last(x))
             /\ Joined(x) = Joined(Front(x)) \o <<Slash>> \o Last(x)
             /\ Len(x) = Len(Front(x)) + 1 /\ Len(Front(x)) \in Nat
             /\ Joined(x) # <<>>
  <2>. DEFINE f == Front(x)
              c == Last(x)
  <2>1. f \in Paths /\ c \in Names /\ x = Append(f, c)
    BY <1>1, FrontAndLast
  <2>. HIDE DEF f, c
  <2>2. Joined(x) = Joined(f) \o <<Slash>> \o c /\ Joined(f) \in Chars
    BY <2>1, JoinsOn
  <2>3. Len(x) = Len(f) + 1 /\ Len(f) \in Nat
    BY <2>1 DEF Paths
  <2>4. Joined(x) # <<>>
    <3>1. Joined(f) \o <<Slash>> \o c # <<>>
      BY <2>1, <2>2, SlashIn
    <3>. QED  BY <2>2, <3>1
  <2>. QED  BY <2>1, <2>2, <2>3, <2>4 DEF f, c
<1>2. 0 \in T
  <2>. SUFFICES ASSUME NEW x \in Paths, NEW y \in Paths, Len(x) = 0, Joined(x) = Joined(y)
                PROVE  x = y
    OBVIOUS
  <2>1. x = <<>>
    BY DEF Paths
  <2>2. Joined(x) = <<>>
    BY <2>1, JoinsOn
  <2>. QED  BY <1>1, <2>1, <2>2
<1>3. ASSUME NEW n \in Nat, n \in T PROVE n + 1 \in T
  <2>. SUFFICES ASSUME NEW x \in Paths, NEW y \in Paths, Len(x) = n + 1, Joined(x) = Joined(y)
                PROVE  x = y
    OBVIOUS
  <2>1. x # <<>>
    OBVIOUS
  <2>2. y # <<>>
    <3>1. Joined(x) # <<>>
      BY <1>1, <2>1
    <3>. QED  BY <3>1, JoinsOn
  <2>3. Joined(Front(x)) = Joined(Front(y)) /\ Last(x) = Last(y)
    <3>. DEFINE u == Joined(Front(x))
                v == Joined(Front(y))
                a == Last(x)
                b == Last(y)
    <3>1. u \in Chars /\ v \in Chars /\ a \in Names /\ b \in Names
      BY <1>1, <2>1, <2>2, JoinsOn
    <3>2. Joined(x) = Slashed(u, a)
      BY <1>1, <2>1 DEF Slashed
    <3>3. Joined(y) = Slashed(v, b)
      BY <1>1, <2>2 DEF Slashed
    <3>4. Slashed(u, a) = Slashed(v, b)
      BY <3>2, <3>3
    <3>. HIDE DEF u, v, a, b
    <3>5. u = v /\ a = b
      BY <3>1, <3>4, LastSlash
    <3>. QED  BY <3>5 DEF u, v, a, b
  <2>4. Len(Front(x)) = n /\ Front(x) \in Paths /\ Front(y) \in Paths
    BY <1>1, <2>1, <2>2
  <2>5. Front(x) = Front(y)
    BY <1>3, <2>3, <2>4
  <2>. QED  BY <1>1, <2>1, <2>2, <2>3, <2>5
<1>4. Nat \subseteq T
  <2>. HIDE DEF T
  <2>. QED  BY <1>2, <1>3, InductionOnNat
<1>5. Len(p) \in Nat
  BY DEF Paths
<1>. QED  BY <1>4, <1>5

\* cmp_path tells paths apart: what it does not put behind another path and is
\* not the same comes before it.
LEMMA ComparesApart ==
    ASSUME NEW p \in Paths, NEW q \in Paths, p # q, CmpPath(p, q) <= 0
    PROVE  LET a == Joined(p)
               b == Joined(q)
           IN  \/ Len(a) < Len(b)
               \/ Len(a) = Len(b) /\ \E i \in DOMAIN a :
                    a[i] < b[i] /\ SubSeq(a, 1, i - 1) = SubSeq(b, 1, i - 1)
<1>. DEFINE a == Joined(p)
            b == Joined(q)
            differ == {i \in DOMAIN a : a[i] # b[i]}
<1>1. /\ a \in Seq(Nat) /\ b \in Seq(Nat) /\ a # b /\ Len(a) \in Nat /\ Len(b) \in Nat
      /\ DOMAIN a = 1 .. Len(a)
  <2>1. a \in Seq(Nat) /\ b \in Seq(Nat)
    BY JoinsOn DEF Chars
  <2>2. a # b
    BY JoinedApart
  <2>. HIDE DEF a, b
  <2>. QED  BY <2>1, <2>2
<1>2. CmpPath(p, q) = IF Len(a) # Len(b) THEN Len(a) - Len(b)
                      ELSE IF differ = {} THEN 0 ELSE a[Min(differ)] - b[Min(differ)]
  BY DEF CmpPath
<1>. HIDE DEF a, b
<1>. SUFFICES ASSUME ~(Len(a) < Len(b))
              PROVE  Len(a) = Len(b) /\ \E i \in DOMAIN a :
                       a[i] < b[i] /\ SubSeq(a, 1, i - 1) = SubSeq(b, 1, i - 1)
  BY DEF a, b
<1>3. Len(a) = Len(b)
  BY <1>1, <1>2
<1>4. differ # {} /\ differ \in SUBSET Nat
  <2>1. differ # {}
    <3>. SUFFICES ASSUME \A i \in 1 .. Len(a) : a[i] = b[i] PROVE FALSE
      BY <1>1
    <3>. QED  BY <1>1, <1>3
  <2>2. 1 .. Len(a) \subseteq Nat
    OBVIOUS
  <2>. QED  BY <1>1, <2>1, <2>2
<1>. DEFINE m == Min(differ)
<1>5. m \in differ /\ \A j \in differ : m <= j
  <2>. HIDE DEF differ
  <2>. QED  BY <1>4, LeastExists DEF Min
<1>6. a[m] - b[m] <= 0
  BY <1>2, <1>3, <1>4
<1>. HIDE DEF m
<1>7. m \in 1 .. Len(a) /\ a[m] # b[m] /\ a[m] \in Nat /\ b[m] \in Nat
  BY <1>1, <1>3, <1>5
<1>. HIDE DEF differ
<1>8. \A j \in 1 .. m - 1 : a[j] = b[j]
  <2>1. ASSUME NEW j \in 1 .. m - 1 PROVE j \in DOMAIN a /\ ~(m <= j)
    BY <1>1, <1>7
  <2>. QED  BY <1>5, <2>1 DEF differ
<1>9. SubSeq(a, 1, m - 1) = SubSeq(b, 1, m - 1)
  <2>. DEFINE k == m - 1
              x == SubSeq(a, 1, k)
              y == SubSeq(b, 1, k)
  <2>1. k \in Int /\ \A i \in 1 .. k : a[i] \in Nat /\ b[i] \in Nat /\ a[i] = b[i]
    BY <1>1, <1>3, <1>7, <1>8
  <2>. HIDE DEF k
  <2>2. /\ x \in Seq(Nat) /\ Len(x) = (IF 1 <= k THEN k - 1 + 1 ELSE 0)
        /\ \A i \in 1 .. k - 1 + 1 : x[i] = a[1 + i - 1]
    BY <2>1, SubSeqProperties
  <2>3. /\ y \in Seq(Nat) /\ Len(y) = (IF 1 <= k THEN k - 1 + 1 ELSE 0)
        /\ \A i \in 1 .. k - 1 + 1 : y[i] = b[1 + i - 1]
    BY <2>1, SubSeqProperties
  <2>. HIDE DEF x, y
  <2>4. Len(x) = Len(y) /\ \A i \in 1 .. Len(x) : x[i] = y[i]
    BY <2>1, <2>2, <2>3
  <2>5. x = y
    BY <2>2, <2>3, <2>4
  <2>. QED  BY <2>5 DEF x, y, k
<1>10. a[m] < b[m] /\ m \in DOMAIN a
  BY <1>1, <1>6, <1>7
<1>. QED  BY <1>3, <1>9, <1>10

\* The recursion of match_helper from each position finds the string where it
\* occurs (match 55-70).
LEMMA MatchFinds ==
    ASSUME NEW pat \in Seq(Nat), NEW name \in Names
    PROVE  Match(pat, name) <=> Occurs(pat, name)
<1>. DEFINE n == Len(name)
            m == Len(pat)
<1>1. /\ n \in Nat \ {0} /\ m \in Nat /\ name \in Seq(Nat) /\ DOMAIN name = 1 .. n
      /\ DOMAIN pat = 1 .. m
  <2>1. name \in Seq(Nat) /\ name # <<>>
    BY DEF Names
  <2>. QED  BY <2>1
<1>2. ASSUME NEW i \in 1 .. n - m + 1
      PROVE  /\ SubSeq(name, i, i + m - 1) \in Seq(Nat) /\ Len(SubSeq(name, i, i + m - 1)) = m
             /\ \A j \in 1 .. m : SubSeq(name, i, i + m - 1)[j] = name[i + j - 1]
  <2>. DEFINE k == i + m - 1
              s == SubSeq(name, i, k)
  <2>1. i \in Int /\ k \in Int /\ \A j \in i .. k : name[j] \in Nat
    BY <1>1
  <2>2. k - i + 1 = m /\ (i <= k => m = k - i + 1) /\ (~(i <= k) => m = 0)
    BY <1>1
  <2>. HIDE DEF k, n, m
  <2>3. /\ s \in Seq(Nat) /\ Len(s) = (IF i <= k THEN k - i + 1 ELSE 0)
        /\ \A j \in 1 .. k - i + 1 : s[j] = name[i + j - 1]
    BY <2>1, SubSeqProperties
  <2>. HIDE DEF s
  <2>4. s \in Seq(Nat) /\ Len(s) = m /\ \A j \in 1 .. m : s[j] = name[i + j - 1]
    BY <2>2, <2>3
  <2>. QED  BY <2>4 DEF s, k
<1>. HIDE DEF n, m
<1>3. ASSUME NEW i \in DOMAIN name, MatchHelper(name, i, pat)
      PROVE  Occurs(pat, name)
  <2>1. \A j \in 1 .. m : i + j - 1 <= n /\ name[i + j - 1] = pat[j]
    BY <1>1, <1>3 DEF MatchHelper, n
  <2>2. i \in 1 .. n - m + 1
    <3>1. CASE m = 0
      BY <1>1, <3>1
    <3>2. CASE m # 0
      <4>1. m \in 1 .. m
        BY <1>1, <3>2
      <4>2. i + m - 1 <= n
        BY <2>1, <4>1
      <4>. QED  BY <1>1, <4>2
    <3>. QED  BY <3>1, <3>2
  <2>. DEFINE s == SubSeq(name, i, i + m - 1)
  <2>3. s \in Seq(Nat) /\ Len(s) = m /\ \A j \in 1 .. m : s[j] = pat[j]
    BY <1>2, <2>1, <2>2
  <2>. HIDE DEF s
  <2>4. s = pat
    BY <2>3 DEF m
  <2>. QED  BY <2>2, <2>4 DEF Occurs, s, m, n
<1>4. ASSUME NEW i \in 1 .. n - m + 1, SubSeq(name, i, i + m - 1) = pat
      PROVE  Match(pat, name)
  <2>1. \A j \in 1 .. m : pat[j] = name[i + j - 1]
    BY <1>2, <1>4
  <2>2. CASE m = 0
    <3>1. MatchHelper(name, 1, pat)
      BY <1>1, <2>2 DEF MatchHelper
    <3>. QED  BY <1>1, <3>1 DEF Match
  <2>3. CASE m # 0
    <3>1. i \in 1 .. n /\ \A j \in 1 .. m : i + j - 1 <= n
      BY <1>1, <2>3
    <3>2. MatchHelper(name, i, pat)
      BY <1>1, <2>1, <3>1 DEF MatchHelper, n
    <3>. QED  BY <1>1, <3>1, <3>2 DEF Match
  <2>. QED  BY <2>2, <2>3
<1>. QED  BY <1>3, <1>4 DEF Match, Occurs, n, m

\* What is sorted is what was found, rearranged.
LEMMA OrderedKeeps ==
    ASSUME NEW s \in Seq(Paths), IsInjective(s), NEW out, Ordered(s, out)
    PROVE  /\ ToSet(out) = ToSet(s) /\ DOMAIN out = DOMAIN s
           /\ \A j, k \in DOMAIN out : j < k =>
                out[j] \in Paths /\ out[k] \in Paths /\ out[j] # out[k] /\ CmpPath(out[j], out[k]) <= 0
<1>. DEFINE D == DOMAIN s
<1>1. PICK order \in Bijection(D, D) :
        /\ \A j, k \in D : j < k => CmpPath(s[order[j]], s[order[k]]) <= 0
        /\ out = [j \in D |-> s[order[j]]]
  BY DEF Ordered
<1>2. /\ order \in [D -> D] /\ \A j, k \in D : order[j] = order[k] => j = k
      /\ \A k \in D : \E j \in D : order[j] = k
  BY DEF Bijection, Injection, Surjection, IsInjective
<1>3. D \subseteq Int /\ \A j \in D : s[j] \in Paths
  <2>1. D = 1 .. Len(s)
    OBVIOUS
  <2>. QED  BY <2>1
<1>4. ASSUME NEW j \in D, NEW k \in D, j < k PROVE s[order[j]] # s[order[k]]
  <2>1. order[j] \in D /\ order[k] \in D /\ j # k
    BY <1>2, <1>3, <1>4
  <2>. QED  BY <1>2, <2>1 DEF IsInjective
<1>5. DOMAIN out = D /\ \A j \in D : out[j] = s[order[j]] /\ order[j] \in D
  BY <1>1, <1>2
<1>. HIDE DEF D
<1>6. ToSet(out) = ToSet(s)
  BY <1>2, <1>5 DEF ToSet, D
<1>7. \A j, k \in D : j < k =>
        out[j] \in Paths /\ out[k] \in Paths /\ out[j] # out[k] /\ CmpPath(out[j], out[k]) <= 0
  BY <1>1, <1>3, <1>4, <1>5
<1>. QED  BY <1>5, <1>6, <1>7 DEF D

\* A search by name prints the reachable files whose names hold the string, all
\* of them, no path twice, no file of a subdirectory by two paths, and in
\* cmp_path's order (cmp_path 204-224, namesearch 316-325).
THEOREM SearchPrints == Spec => []PrintsMatches
<1>1. SearchInv => PrintsMatches
  <2>. SUFFICES ASSUME SearchInv, option = 0, at = "done"
                PROVE  /\ Ends(tree, ToSet(printed)) =
                            Named({l \in Leaves(tree) : Occurs(searchstr, l[2].name)})
                       /\ \A j, k \in DOMAIN printed : j < k =>
                            LET a == Joined(printed[j])
                                b == Joined(printed[k])
                            IN  \/ Len(a) < Len(b)
                                \/ Len(a) = Len(b) /\ \E i \in DOMAIN a :
                                     a[i] < b[i] /\ SubSeq(a, 1, i - 1) = SubSeq(b, 1, i - 1)
                       /\ \A p, q \in ToSet(printed) :
                            p # q /\ Ends(tree, {p}) = Ends(tree, {q}) =>
                              LeadsTo(tree, Front(p)) = Root
    BY DEF PrintsMatches
  <2>1. /\ stack = <<>> /\ Ordered(matches, printed) /\ searchstr \in Seq(Nat)
        /\ matches \in Seq(Paths) /\ IsInjective(matches)
    BY DEF SearchInv, Phases, Apart
  <2>2. /\ Opened = Reachable(tree) /\ Opened \subseteq Dirs
        /\ \A d \in Dirs : \A e \in Listed(tree, d) : e.name \in Names
    <3>1. tree \in Trees
      BY DEF SearchInv, CallsInv
    <3>2. Opened = Reachable(tree)
      BY <2>1, AllListed
    <3>. QED  BY <3>1, <3>2, EntryLeads DEF Reachable, Listed
  <2>3. /\ ToSet(printed) = ToSet(matches)
        /\ \A j, k \in DOMAIN printed : j < k =>
             /\ printed[j] \in Paths /\ printed[k] \in Paths /\ printed[j] # printed[k]
             /\ CmpPath(printed[j], printed[k]) <= 0
    BY <2>1, OrderedKeeps
  <2>4. ASSUME NEW p \in ToSet(matches)
        PROVE  \E l \in Leaves(tree) :
                  /\ Occurs(searchstr, l[2].name)
                  /\ l[1] = LeadsTo(tree, Front(p)) /\ l[2].name = Last(p)
    <3>1. PICK d \in Opened : \E e \in Listed(tree, d) :
                                 LeafOf(tree, p, d, e) /\ Match(searchstr, e.name)
      BY DEF SearchInv, Honest
    <3>2. PICK e \in Listed(tree, d) : LeafOf(tree, p, d, e) /\ Match(searchstr, e.name)
      BY <3>1
    <3>3. <<d, e>> \in Leaves(tree) /\ LeadsTo(tree, Front(p)) = d /\ Last(p) = e.name
      BY <2>2, <3>2, LeavesAre DEF LeafOf
    <3>4. Occurs(searchstr, e.name)
      BY <2>1, <2>2, <3>2, MatchFinds
    <3>. QED  BY <3>3, <3>4
  <2>5. ASSUME NEW l \in Leaves(tree), Occurs(searchstr, l[2].name)
        PROVE  \E p \in ToSet(matches) : l[1] = LeadsTo(tree, Front(p)) /\ l[2].name = Last(p)
    <3>. DEFINE d == l[1]
                e == l[2]
    <3>. HIDE DEF d, e
    <3>1. l = <<d, e>>
      BY LeafPair DEF d, e
    <3>2. d \in Reachable(tree) /\ e \in Listed(tree, d) /\ ~Hidden(e) /\ e.node \notin Dirs
      BY <3>1, LeavesAre
    <3>3. Match(searchstr, e.name)
      BY <2>1, <2>2, <2>5, <3>2, MatchFinds DEF e
    <3>4. Took(d, e)
      BY <2>1, <3>2, <3>3, AllListed
    <3>. QED  BY <3>4 DEF Took, LeafOf, d, e
  <2>6. Ends(tree, ToSet(printed)) = Named({l \in Leaves(tree) : Occurs(searchstr, l[2].name)})
    <3>. DEFINE K == {l \in Leaves(tree) : Occurs(searchstr, l[2].name)}
    <3>1. ASSUME NEW p \in ToSet(matches) PROVE <<LeadsTo(tree, Front(p)), Last(p)>> \in Named(K)
      BY <2>4 DEF Named
    <3>2. ASSUME NEW l \in K PROVE <<l[1], l[2].name>> \in Ends(tree, ToSet(matches))
      BY <2>5 DEF Ends
    <3>. QED  BY <2>3, <3>1, <3>2 DEF Ends, Named
  <2>7. ASSUME NEW p \in ToSet(printed), NEW q \in ToSet(printed),
               p # q, Ends(tree, {p}) = Ends(tree, {q})
        PROVE  LeadsTo(tree, Front(p)) = Root
    <3>1. /\ Ends(tree, {p}) = {<<LeadsTo(tree, Front(p)), Last(p)>>}
          /\ Ends(tree, {q}) = {<<LeadsTo(tree, Front(q)), Last(q)>>}
      BY DEF Ends
    <3>2. LeadsTo(tree, Front(p)) = LeadsTo(tree, Front(q)) /\ Last(p) = Last(q)
      <4>. DEFINE x == <<LeadsTo(tree, Front(p)), Last(p)>>
                  y == <<LeadsTo(tree, Front(q)), Last(q)>>
      <4>1. x = y
        <5>. HIDE DEF x, y
        <5>1. {x} = {y}
          BY <2>7, <3>1 DEF x, y
        <5>. QED  BY <5>1
      <4>2. x[1] = y[1] /\ x[2] = y[2]
        <5>. HIDE DEF x, y
        <5>. QED  BY <4>1
      <4>. QED  BY <4>2
    <3>3. p = Append(Front(p), Last(p)) /\ q = Append(Front(q), Last(q))
      <4>1. ASSUME NEW r \in ToSet(matches) PROVE r \in Paths /\ r # <<>>
        <5>1. \E d \in Opened : \E e \in Listed(tree, d) : LeafOf(tree, r, d, e)
          BY DEF SearchInv, Honest
        <5>. QED  BY <5>1 DEF LeafOf
      <4>. QED  BY <2>3, <4>1, FrontAndLast
    <3>4. Front(p) \in Ways /\ Front(q) \in Ways
      BY <2>3 DEF Ways, Got
    <3>. QED  BY <2>7, <3>2, <3>3, <3>4 DEF SearchInv, OneWay
  <2>. QED  BY <2>3, <2>6, <2>7, ComparesApart
<1>. QED  BY <1>1, SearchHolds, PTL

-----------------------------------------------------------------------------
(***************************************************************************)
(* The pattern search                                                      *)
(***************************************************************************)
\* The greatest of the numbers of an interval that are in a set.
LEMMA GreatestIs ==
    ASSUME NEW a \in Int, NEW b \in Int, NEW T \in SUBSET (a .. b), T # {}
    PROVE  Max(T) \in T /\ \A y \in T : y <= Max(T)
<1>. DEFINE R == {i \in Nat : b - i \in T}
<1>1. R \in SUBSET Nat /\ R # {}
  <2>1. PICK x \in T : TRUE
    OBVIOUS
  <2>2. b - x \in Nat /\ b - (b - x) = x
    OBVIOUS
  <2>. QED  BY <2>1, <2>2
<1>2. PICK i \in R : \A j \in R : i <= j
  <2>. HIDE DEF R
  <2>. QED  BY <1>1, LeastExists
<1>3. PICK m \in T : m = b - i
  OBVIOUS
<1>4. \A y \in T : m >= y
  <2>. TAKE y \in T
  <2>1. b - y \in Nat /\ b - (b - y) = y
    OBVIOUS
  <2>2. i <= b - y
    BY <1>2, <2>1
  <2>. QED  BY <1>3, <2>2
<1>5. PICK k : k = Max(T)
  OBVIOUS
<1>6. k \in T /\ \A y \in T : k >= y
  BY <1>4, <1>5 DEF Max
<1>7. k \in Int /\ T \subseteq Int
  BY <1>6
<1>. QED  BY <1>5, <1>6, <1>7

\* How far the walk of a star goes on (regex_match 73).
GoesOn(buf, c, k) == \/ Byte(buf, k + 1) = Byte(buf, k) /\ Byte(buf, k) = c
                     \/ c = DOT /\ Byte(buf, k + 1) # NUL

LEMMA FarIs ==
    ASSUME NEW buf, NEW i \in Nat, NEW c \in Nat \ {NUL}
    PROVE  /\ Far(buf, i, c) \in Nat /\ i <= Far(buf, i, c) /\ ~GoesOn(buf, c, Far(buf, i, c))
           /\ \A k \in i .. Far(buf, i, c) - 1 : GoesOn(buf, c, k)
<1>. DEFINE b == i + BufferSize
            R == {k \in Nat : i <= k /\ ~GoesOn(buf, c, k)}
<1>1. BufferSize \in Nat /\ b \in Nat
  BY GrepAssumption
<1>2. ~GoesOn(buf, c, b)
  <2>1. Byte(buf, b) = NUL /\ Byte(buf, b + 1) = NUL
    BY <1>1 DEF Byte
  <2>. QED  BY <2>1 DEF GoesOn
<1>3. b \in R
  BY <1>1, <1>2
<1>4. PICK j \in R : \A k \in R : j <= k
  <2>. HIDE DEF R
  <2>1. R \in SUBSET Nat
    BY DEF R
  <2>. QED  BY <1>3, <2>1, LeastExists
<1>5. j \in i .. b /\ ~GoesOn(buf, c, j) /\ \A k \in i .. j - 1 : GoesOn(buf, c, k)
  <2>1. j \in Nat /\ i <= j /\ ~GoesOn(buf, c, j) /\ j <= b
    BY <1>3, <1>4
  <2>2. ASSUME NEW k \in i .. j - 1 PROVE GoesOn(buf, c, k)
    <3>. SUFFICES ASSUME ~GoesOn(buf, c, k) PROVE FALSE
      OBVIOUS
    <3>1. k \in R
      BY <2>1
    <3>. QED  BY <1>4, <2>1, <3>1
  <2>. QED  BY <1>1, <2>1, <2>2
<1>. DEFINE Is(k) == ~GoesOn(buf, c, k) /\ \A l \in i .. k - 1 : GoesOn(buf, c, l)
<1>6. Far(buf, i, c) = CHOOSE k \in i .. b : Is(k)
  BY DEF Far, GoesOn
<1>7. Is(j)
  BY <1>5
<1>8. Far(buf, i, c) \in i .. b /\ Is(Far(buf, i, c))
  <2>. HIDE DEF Is, b
  <2>. QED  BY <1>5, <1>6, <1>7
<1>. QED  BY <1>1, <1>8

-----------------------------------------------------------------------------
Places == Nat \cup {FAIL}
Matches == [Nat -> Places]

\* The last of the places K behind which the rest matches gives e; without one,
\* e is FAIL.
LastFit(K, ends, e) ==
    \/ e = FAIL /\ \A j \in K : ends[j] = FAIL
    \/ \E m \in K : e = ends[m] /\ e # FAIL /\ \A j \in K : j > m => ends[j] = FAIL

LEMMA LastIs ==
    ASSUME NEW a \in Nat, NEW b \in Nat, NEW ends \in Matches
    PROVE  LastFit(a .. b + 1, ends, LastThatFits(a, b, ends))
<1>. DEFINE fits == {j \in a - 1 .. b : ends[j + 1] # FAIL}
<1>1. LastThatFits(a, b, ends) = IF fits = {} THEN FAIL ELSE ends[Max(fits) + 1]
  BY DEF LastThatFits
<1>2. \A j \in a .. b + 1 : j \in Nat /\ j - 1 \in a - 1 .. b /\ (j - 1) + 1 = j
  OBVIOUS
<1>3. CASE fits = {}
  <2>1. ASSUME NEW j \in a .. b + 1 PROVE ends[j] = FAIL
    <3>1. j - 1 \in a - 1 .. b /\ j - 1 \notin fits
      BY <1>2, <1>3
    <3>2. ends[(j - 1) + 1] = FAIL
      BY <3>1
    <3>. QED  BY <1>2, <3>2
  <2>. QED  BY <1>1, <1>3, <2>1 DEF LastFit
<1>4. CASE fits # {}
  <2>1. PICK k \in fits : k = Max(fits) /\ \A y \in fits : y <= k
    <3>1. fits \in SUBSET (a - 1 .. b) /\ a - 1 \in Int /\ b \in Int
      OBVIOUS
    <3>. HIDE DEF fits
    <3>. QED  BY <1>4, <3>1, GreatestIs
  <2>2. PICK m \in a .. b + 1 : m = k + 1 /\ ends[m] # FAIL
    <3>1. k + 1 \in a .. b + 1
      OBVIOUS
    <3>. QED  BY <3>1
  <2>3. ASSUME NEW j \in a .. b + 1, j > m PROVE ends[j] = FAIL
    <3>. SUFFICES ASSUME ends[j] # FAIL PROVE FALSE
      OBVIOUS
    <3>1. j - 1 \in fits
      BY <1>2
    <3>2. j - 1 <= k
      BY <2>1, <3>1
    <3>. QED  BY <2>2, <2>3, <3>2
  <2>4. LastThatFits(a, b, ends) = ends[m]
    BY <1>1, <1>4, <2>1, <2>2
  <2>. QED  BY <1>2, <2>2, <2>3, <2>4 DEF LastFit
<1>. QED  BY <1>3, <1>4

LEMMA LastTyped ==
    ASSUME NEW a \in Nat, NEW b \in Nat, NEW ends \in Matches
    PROVE  LastThatFits(a, b, ends) \in Places
<1>1. PICK e : e = LastThatFits(a, b, ends)
  OBVIOUS
<1>2. LastFit(a .. b + 1, ends, e)
  BY <1>1, LastIs
<1>3. \A m \in a .. b + 1 : ends[m] \in Places
  BY DEF Matches
<1>4. e \in Places
  BY <1>2, <1>3 DEF LastFit, Places
<1>. QED  BY <1>1, <1>4

\* One character, or one star, more in front of the rest of the pattern, whose
\* matches one and two give: as regex_match has it.
MatchStep(buf, pat, n, one, two) ==
    LET c       == pat[Len(pat) - n + 1]
        starred == n >= 2 /\ pat[Len(pat) - n + 2] = STAR
    IN  [i \in Nat |->
           IF n = 0 \/ (n = 2 /\ starred /\ Byte(buf, i) = NUL) THEN i
           ELSE IF starred /\ c # Byte(buf, i) /\ c # DOT THEN two[i]
           ELSE IF starred THEN LastThatFits(i, Far(buf, i, c), two)
           ELSE IF Byte(buf, i) = c \/ (c = DOT /\ Byte(buf, i) # NUL) THEN one[i + 1]
           ELSE FAIL]

LEMMA MatchStepTyped ==
    ASSUME NEW buf, NEW pat \in Seq(Nat \ {NUL}), NEW n \in 1 .. Len(pat),
           NEW one \in Matches, NEW two \in Matches
    PROVE  MatchStep(buf, pat, n, one, two) \in Matches
<1>1. PICK c \in Nat \ {NUL} : c = pat[Len(pat) - n + 1]
  OBVIOUS
<1>2. PICK s \in BOOLEAN : s = (n >= 2 /\ pat[Len(pat) - n + 2] = STAR)
  OBVIOUS
<1>3. ASSUME NEW i \in Nat
      PROVE  /\ i \in Places /\ two[i] \in Places /\ one[i + 1] \in Places /\ FAIL \in Places
             /\ LastThatFits(i, Far(buf, i, c), two) \in Places
  <2>1. LastThatFits(i, Far(buf, i, c), two) \in Places
    BY FarIs, LastTyped
  <2>. QED  BY <2>1 DEF Matches, Places
<1>4. MatchStep(buf, pat, n, one, two) =
        [i \in Nat |->
           IF n = 0 \/ (n = 2 /\ s /\ Byte(buf, i) = NUL) THEN i
           ELSE IF s /\ c # Byte(buf, i) /\ c # DOT THEN two[i]
           ELSE IF s THEN LastThatFits(i, Far(buf, i, c), two)
           ELSE IF Byte(buf, i) = c \/ (c = DOT /\ Byte(buf, i) # NUL) THEN one[i + 1]
           ELSE FAIL]
  BY <1>1, <1>2 DEF MatchStep
<1>. QED  BY <1>3, <1>4 DEF Matches

\* What regex_match answers for each rest of a pattern, the whole included.
IsMatch(m, buf, pat) ==
    /\ m \in [0 .. Len(pat) -> Matches] /\ m[Len(pat)] = RegexMatch(buf, pat)
    /\ \A n \in 0 .. Len(pat) : m[n] = MatchStep(buf, pat, n, m[n - 1], m[n - 2])

LEMMA MatchIs ==
    ASSUME NEW buf, NEW pat \in Seq(Nat \ {NUL})
    PROVE  \E m : IsMatch(m, buf, pat)
<1>. DEFINE L == Len(pat)
            id == [i \in Nat |-> i]
            F(g) == [n \in 0 .. L |-> MatchStep(buf, pat, n, g[n - 1], g[n - 2])]
            D == [n \in 1 .. L |-> [p \in Matches \X Matches |-> MatchStep(buf, pat, n, p[1], p[2])]]
            code == CHOOSE g : g = F(g)
<1>1. L \in Nat /\ id \in Matches
  BY DEF Matches, Places
<1>2. D \in [1 .. L -> [Matches \X Matches -> Matches]]
  BY MatchStepTyped
<1>3. PICK g \in [0 .. L -> Matches] : IteratesOnTwo(g, L, id, D)
  <2>. HIDE DEF D, id, L, F, code
  <2>. QED  BY <1>1, <1>2, RecursionOnTwo
<1>4. RegexMatch(buf, pat) = code[L]
  BY DEF RegexMatch, MatchStep
<1>. HIDE DEF code
<1>5. \A one, two : MatchStep(buf, pat, 0, one, two) = id
  BY DEF MatchStep
<1>6. \A one, two, x : MatchStep(buf, pat, 1, one, two) = MatchStep(buf, pat, 1, one, x)
  BY DEF MatchStep
<1>7. ASSUME NEW n \in 0 .. L PROVE g[n] = MatchStep(buf, pat, n, g[n - 1], g[n - 2])
  <2>1. CASE n = 0
    <3>. HIDE DEF D, id, L
    <3>. QED  BY <1>3, <1>5, <2>1 DEF IteratesOnTwo
  <2>2. CASE n = 1
    <3>1. g[0] \in Matches /\ n - 1 = 0
      BY <1>1, <2>2
    <3>2. g[1] = D[1][<<g[0], id>>] /\ 1 \in 1 .. L
      <4>. HIDE DEF D, id
      <4>. QED  BY <1>3, <2>2 DEF IteratesOnTwo
    <3>3. g[1] = MatchStep(buf, pat, 1, g[0], id)
      <4>. HIDE DEF id
      <4>. QED  BY <1>1, <3>1, <3>2
    <3>. QED  BY <1>6, <2>2, <3>1, <3>3
  <2>3. CASE n \notin {0, 1}
    <3>1. n \in 1 .. L /\ n - 1 \in 0 .. L /\ n - 2 \in 0 .. L /\ n # 0 /\ n # 1
      BY <1>1, <2>3
    <3>2. g[n] = D[n][<<g[n - 1], g[n - 2]>>] /\ g[n - 1] \in Matches /\ g[n - 2] \in Matches
      <4>. HIDE DEF D, id, L
      <4>. QED  BY <1>3, <3>1 DEF IteratesOnTwo
    <3>. QED  BY <3>1, <3>2
  <2>. QED  BY <2>1, <2>2, <2>3
<1>8. g = F(g)
  <2>1. g = [n \in 0 .. L |-> g[n]]
    OBVIOUS
  <2>. QED  BY <1>7, <2>1
<1>9. code = F(code)
  <2>. HIDE DEF F
  <2>. QED  BY <1>8 DEF code
<1>10. ASSUME NEW n \in 0 .. L PROVE code[n] = MatchStep(buf, pat, n, code[n - 1], code[n - 2])
  BY <1>9
<1>12. code[0] \in Matches
  <2>1. 0 \in 0 .. L
    BY <1>1
  <2>. HIDE DEF id, L
  <2>. QED  BY <1>1, <1>5, <1>10, <2>1
<1>13. ASSUME NEW n \in 0 .. L - 1, code[n] \in Matches, n # 0 => code[n - 1] \in Matches
       PROVE  code[n + 1] \in Matches
  <2>1. n + 1 \in 1 .. L /\ n + 1 \in 0 .. L /\ (n + 1) - 1 = n /\ (n + 1) - 2 = n - 1
    BY <1>1
  <2>2. code[n + 1] = MatchStep(buf, pat, n + 1, code[n], code[n - 1])
    <3>. HIDE DEF L
    <3>. QED  BY <1>10, <2>1
  <2>3. CASE n = 0
    <3>1. code[n + 1] = MatchStep(buf, pat, n + 1, code[n], id)
      BY <1>6, <2>2, <2>3
    <3>. QED  BY <1>1, <1>13, <2>1, <3>1, MatchStepTyped
  <2>4. CASE n # 0
    BY <1>13, <2>1, <2>2, <2>4, MatchStepTyped
  <2>. QED  BY <2>3, <2>4
<1>. DEFINE T == {n \in 0 .. L : code[n] \in Matches}
<1>14. 0 .. L \subseteq T
  <2>1. 0 \in T /\ \A n \in 0 .. L - 1 : n \in T /\ (n # 0 => n - 1 \in T) => n + 1 \in T
    BY <1>1, <1>12, <1>13
  <2>. HIDE DEF T, L
  <2>. QED  BY <1>1, <2>1, InductionOnTwo
<1>15. code \in [0 .. L -> Matches]
  <2>1. \A n \in 0 .. L : code[n] \in Matches
    BY <1>14
  <2>2. code = [n \in 0 .. L |-> MatchStep(buf, pat, n, code[n - 1], code[n - 2])]
    BY <1>9
  <2>3. code = [n \in 0 .. L |-> code[n]]
    BY <2>2
  <2>. QED  BY <2>1, <2>3
<1>. HIDE DEF F, T, D, id
<1>. QED  BY <1>4, <1>10, <1>15 DEF IsMatch

-----------------------------------------------------------------------------
\* Ends of matches in a text of n characters.
Reaching(n) == {f \in [0 .. n -> Int] : \A i \in 0 .. n : f[i] = FAIL \/ f[i] \in i .. n}

\* The places a star of c may lead to.
Reach(text, c, i) == {j \in i .. Len(text) : \A k \in i + 1 .. j : Accepts(c, text[k])}

StarEnds(text, c, i, ends) ==
    LET fits == {j \in i .. Len(text) : (\A k \in i + 1 .. j : Accepts(c, text[k])) /\ ends[j] # FAIL}
    IN  IF fits = {} THEN FAIL ELSE ends[Max(fits)]

EndsStep(text, pat, n, one, two) ==
    LET c == pat[Len(pat) - n + 1]
    IN  [i \in 0 .. Len(text) |->
           IF n = 0 THEN i
           ELSE IF n >= 2 /\ pat[Len(pat) - n + 2] = STAR THEN StarEnds(text, c, i, two)
           ELSE IF i < Len(text) /\ Accepts(c, text[i + 1]) THEN one[i + 1] ELSE FAIL]

LEMMA StarEndsIs ==
    ASSUME NEW text \in Seq(Nat), NEW c, NEW i \in 0 .. Len(text), NEW ends \in Reaching(Len(text))
    PROVE  /\ LastFit(Reach(text, c, i), ends, StarEnds(text, c, i, ends))
           /\ StarEnds(text, c, i, ends) = FAIL \/ StarEnds(text, c, i, ends) \in i .. Len(text)
<1>1. PICK n \in Nat : n = Len(text)
  OBVIOUS
<1>2. PICK K \in SUBSET (i .. n) : K = Reach(text, c, i)
  BY <1>1 DEF Reach
<1>3. PICK F \in SUBSET (i .. n) : F = {j \in K : ends[j] # FAIL}
  BY <1>2
<1>4. PICK e : e = StarEnds(text, c, i, ends) /\ e = IF F = {} THEN FAIL ELSE ends[Max(F)]
  <2>1. F = {j \in i .. n : (\A k \in i + 1 .. j : Accepts(c, text[k])) /\ ends[j] # FAIL}
    BY <1>1, <1>2, <1>3 DEF Reach
  <2>2. StarEnds(text, c, i, ends) = IF F = {} THEN FAIL ELSE ends[Max(F)]
    BY <1>1, <2>1 DEF StarEnds
  <2>. QED  BY <2>2
<1>5. \A j \in i .. n : ends[j] = FAIL \/ ends[j] \in i .. n
  BY <1>1 DEF Reaching
<1>6. CASE F = {}
  BY <1>1, <1>2, <1>3, <1>4, <1>6 DEF LastFit
<1>7. CASE F # {}
  <2>1. PICK m \in F : m = Max(F) /\ \A y \in F : y <= m
    <3>1. i \in Int /\ n \in Int
      BY <1>1
    <3>. QED  BY <1>7, <3>1, GreatestIs
  <2>2. e = ends[m] /\ e # FAIL /\ m \in K /\ m \in i .. n
    BY <1>3, <1>4, <1>7, <2>1
  <2>3. \A j \in K : j > m => ends[j] = FAIL
    <3>. TAKE j \in K
    <3>1. j \in F => j <= m
      BY <2>1
    <3>2. j \in Int /\ m \in Int
      BY <1>2, <2>2
    <3>. QED  BY <1>3, <3>1, <3>2
  <2>4. LastFit(K, ends, e)
    BY <2>2, <2>3 DEF LastFit
  <2>. QED  BY <1>1, <1>2, <1>4, <1>5, <2>2, <2>4
<1>. QED  BY <1>6, <1>7

LEMMA EndsStepTyped ==
    ASSUME NEW text \in Seq(Nat), NEW pat \in Seq(Nat \ {NUL}), NEW n \in 1 .. Len(pat),
           NEW one \in Reaching(Len(text)), NEW two \in Reaching(Len(text))
    PROVE  EndsStep(text, pat, n, one, two) \in Reaching(Len(text))
<1>1. PICK m \in Nat : m = Len(text)
  OBVIOUS
<1>2. PICK c : c = pat[Len(pat) - n + 1]
  OBVIOUS
<1>3. PICK f : f = EndsStep(text, pat, n, one, two)
  OBVIOUS
<1>4. ASSUME NEW i \in 0 .. m
      PROVE  f[i] = FAIL \/ f[i] \in i .. m
  <2>1. StarEnds(text, c, i, two) = FAIL \/ StarEnds(text, c, i, two) \in i .. m
    BY <1>1, StarEndsIs
  <2>2. ASSUME i < m PROVE one[i + 1] = FAIL \/ one[i + 1] \in i .. m
    BY <1>1, <2>2 DEF Reaching
  <2>3. \/ f[i] = StarEnds(text, c, i, two) \/ f[i] = FAIL
        \/ i < m /\ f[i] = one[i + 1]
    BY <1>1, <1>2, <1>3 DEF EndsStep
  <2>. QED  BY <2>1, <2>2, <2>3
<1>5. f = [i \in 0 .. m |-> f[i]]
  BY <1>1, <1>3 DEF EndsStep
<1>6. \A i \in 0 .. m : f[i] \in Int
  BY <1>4 DEF FAIL
<1>7. f \in [0 .. m -> Int]
  BY <1>5, <1>6
<1>. QED  BY <1>1, <1>3, <1>4, <1>7 DEF Reaching

\* What the rests of a pattern mean, the whole included.
IsMeaning(m, text, pat) ==
    /\ m \in [0 .. Len(pat) -> Reaching(Len(text))] /\ m[Len(pat)] = MatchEnds(text, pat)
    /\ \A n \in 0 .. Len(pat) : m[n] = EndsStep(text, pat, n, m[n - 1], m[n - 2])

LEMMA MeaningIs ==
    ASSUME NEW text \in Seq(Nat), NEW pat \in Seq(Nat \ {NUL})
    PROVE  \E m : IsMeaning(m, text, pat)
<1>. DEFINE L == Len(pat)
            id == [i \in 0 .. Len(text) |-> i]
            F(g) == [n \in 0 .. L |-> EndsStep(text, pat, n, g[n - 1], g[n - 2])]
            D == [n \in 1 .. L |-> [p \in Reaching(Len(text)) \X Reaching(Len(text)) |-> EndsStep(text, pat, n, p[1], p[2])]]
            code == CHOOSE g : g = F(g)
<1>1. L \in Nat /\ id \in Reaching(Len(text))
  BY DEF Reaching
<1>2. D \in [1 .. L -> [Reaching(Len(text)) \X Reaching(Len(text)) -> Reaching(Len(text))]]
  BY EndsStepTyped
<1>3. PICK g \in [0 .. L -> Reaching(Len(text))] : IteratesOnTwo(g, L, id, D)
  <2>. HIDE DEF D, id, L, F, code
  <2>. QED  BY <1>1, <1>2, RecursionOnTwo
<1>4. MatchEnds(text, pat) = code[L]
  BY DEF MatchEnds, EndsStep, StarEnds
<1>. HIDE DEF code
<1>5. \A one, two : EndsStep(text, pat, 0, one, two) = id
  BY DEF EndsStep
<1>6. \A one, two, x : EndsStep(text, pat, 1, one, two) = EndsStep(text, pat, 1, one, x)
  BY DEF EndsStep
<1>7. ASSUME NEW n \in 0 .. L PROVE g[n] = EndsStep(text, pat, n, g[n - 1], g[n - 2])
  <2>1. CASE n = 0
    <3>. HIDE DEF D, id, L
    <3>. QED  BY <1>3, <1>5, <2>1 DEF IteratesOnTwo
  <2>2. CASE n = 1
    <3>1. g[0] \in Reaching(Len(text)) /\ n - 1 = 0
      BY <1>1, <2>2
    <3>2. g[1] = D[1][<<g[0], id>>] /\ 1 \in 1 .. L
      <4>. HIDE DEF D, id
      <4>. QED  BY <1>3, <2>2 DEF IteratesOnTwo
    <3>3. g[1] = EndsStep(text, pat, 1, g[0], id)
      <4>. HIDE DEF id
      <4>. QED  BY <1>1, <3>1, <3>2
    <3>. QED  BY <1>6, <2>2, <3>1, <3>3
  <2>3. CASE n \notin {0, 1}
    <3>1. n \in 1 .. L /\ n - 1 \in 0 .. L /\ n - 2 \in 0 .. L /\ n # 0 /\ n # 1
      BY <1>1, <2>3
    <3>2. g[n] = D[n][<<g[n - 1], g[n - 2]>>] /\ g[n - 1] \in Reaching(Len(text)) /\ g[n - 2] \in Reaching(Len(text))
      <4>. HIDE DEF D, id, L
      <4>. QED  BY <1>3, <3>1 DEF IteratesOnTwo
    <3>. QED  BY <3>1, <3>2
  <2>. QED  BY <2>1, <2>2, <2>3
<1>8. g = F(g)
  <2>1. g = [n \in 0 .. L |-> g[n]]
    OBVIOUS
  <2>. QED  BY <1>7, <2>1
<1>9. code = F(code)
  <2>. HIDE DEF F
  <2>. QED  BY <1>8 DEF code
<1>10. ASSUME NEW n \in 0 .. L PROVE code[n] = EndsStep(text, pat, n, code[n - 1], code[n - 2])
  BY <1>9
<1>12. code[0] \in Reaching(Len(text))
  <2>1. 0 \in 0 .. L
    BY <1>1
  <2>. HIDE DEF id, L
  <2>. QED  BY <1>1, <1>5, <1>10, <2>1
<1>13. ASSUME NEW n \in 0 .. L - 1, code[n] \in Reaching(Len(text)), n # 0 => code[n - 1] \in Reaching(Len(text))
       PROVE  code[n + 1] \in Reaching(Len(text))
  <2>1. n + 1 \in 1 .. L /\ n + 1 \in 0 .. L /\ (n + 1) - 1 = n /\ (n + 1) - 2 = n - 1
    BY <1>1
  <2>2. code[n + 1] = EndsStep(text, pat, n + 1, code[n], code[n - 1])
    <3>. HIDE DEF L
    <3>. QED  BY <1>10, <2>1
  <2>3. CASE n = 0
    <3>1. code[n + 1] = EndsStep(text, pat, n + 1, code[n], id)
      BY <1>6, <2>2, <2>3
    <3>. QED  BY <1>1, <1>13, <2>1, <3>1, EndsStepTyped
  <2>4. CASE n # 0
    BY <1>13, <2>1, <2>2, <2>4, EndsStepTyped
  <2>. QED  BY <2>3, <2>4
<1>. DEFINE T == {n \in 0 .. L : code[n] \in Reaching(Len(text))}
<1>14. 0 .. L \subseteq T
  <2>1. 0 \in T /\ \A n \in 0 .. L - 1 : n \in T /\ (n # 0 => n - 1 \in T) => n + 1 \in T
    BY <1>1, <1>12, <1>13
  <2>. HIDE DEF T, L
  <2>. QED  BY <1>1, <2>1, InductionOnTwo
<1>15. code \in [0 .. L -> Reaching(Len(text))]
  <2>1. \A n \in 0 .. L : code[n] \in Reaching(Len(text))
    BY <1>14
  <2>2. code = [n \in 0 .. L |-> EndsStep(text, pat, n, code[n - 1], code[n - 2])]
    BY <1>9
  <2>3. code = [n \in 0 .. L |-> code[n]]
    BY <2>2
  <2>. QED  BY <2>1, <2>3
<1>. HIDE DEF F, T, D, id
<1>. QED  BY <1>4, <1>10, <1>15 DEF IsMeaning

-----------------------------------------------------------------------------
\* The buffer holds the text and a NUL behind it.
HasText(buf, text) ==
    /\ text \in Seq(Nat) /\ Byte(buf, Len(text)) = NUL
    /\ \A i \in 0 .. Len(text) - 1 : Byte(buf, i) = text[i + 1] /\ text[i + 1] # NUL

Same(f, g, n) == \A j \in 0 .. n : f[j] = g[j]

LEMMA FitsAgree ==
    ASSUME NEW K \in SUBSET Int, NEW f, NEW g, \A j \in K : f[j] = g[j],
           NEW d, LastFit(K, f, d), NEW e, LastFit(K, g, e)
    PROVE  d = e
<1>1. CASE d = FAIL
  BY <1>1 DEF LastFit
<1>2. CASE e = FAIL
  BY <1>2 DEF LastFit
<1>3. CASE d # FAIL /\ e # FAIL
  <2>1. PICK k \in K : d = f[k] /\ \A j \in K : j > k => f[j] = FAIL
    BY <1>3 DEF LastFit
  <2>2. PICK l \in K : e = g[l] /\ \A j \in K : j > l => g[j] = FAIL
    BY <1>3 DEF LastFit
  <2>3. ~(k > l) /\ ~(l > k)
    BY <1>3, <2>1, <2>2
  <2>4. k = l
    BY <2>3
  <2>. QED  BY <2>1, <2>2, <2>4
<1>. QED  BY <1>1, <1>2, <1>3

\* A star of a character leads as far as the character stands in the text, and
\* the code goes there and back.
LEMMA StarAgrees ==
    ASSUME NEW buf, NEW text, HasText(buf, text), NEW c \in Nat \ {NUL, DOT},
           NEW i \in 0 .. Len(text), Byte(buf, i) = c,
           NEW f \in Matches, NEW g \in Reaching(Len(text)), Same(f, g, Len(text))
    PROVE  LastThatFits(i, Far(buf, i, c), f) = StarEnds(text, c, i, g)
<1>1. PICK n \in Nat : n = Len(text)
  BY DEF HasText
<1>2. /\ text \in Seq(Nat) /\ Byte(buf, n) = NUL
      /\ \A k \in 0 .. n - 1 : Byte(buf, k) = text[k + 1] /\ text[k + 1] # NUL
  BY <1>1 DEF HasText
<1>3. PICK far \in Nat : /\ far = Far(buf, i, c) /\ i <= far /\ ~GoesOn(buf, c, far)
                         /\ \A k \in i .. far - 1 : GoesOn(buf, c, k)
  BY FarIs
<1>4. \A k \in Nat : GoesOn(buf, c, k) <=> Byte(buf, k + 1) = c /\ Byte(buf, k) = c
  BY DEF GoesOn
<1>5. \A k \in i .. far : Byte(buf, k) = c
  <2>. TAKE k \in i .. far
  <2>1. CASE k = i
    BY <2>1
  <2>2. CASE k # i
    <3>1. k - 1 \in i .. far - 1 /\ k - 1 \in Nat /\ (k - 1) + 1 = k
      BY <2>2
    <3>. QED  BY <1>3, <1>4, <3>1
  <2>. QED  BY <2>1, <2>2
<1>6. far < n
  <2>. SUFFICES ASSUME n <= far PROVE FALSE
    OBVIOUS
  <2>1. n \in i .. far
    BY <1>1, <1>3
  <2>. QED  BY <1>2, <1>5, <2>1
<1>7. Reach(text, c, i) = i .. far + 1
  <2>1. \A k \in 1 .. n : Accepts(c, text[k]) <=> Byte(buf, k - 1) = c
    <3>. TAKE k \in 1 .. n
    <3>1. k - 1 \in 0 .. n - 1 /\ (k - 1) + 1 = k
      OBVIOUS
    <3>. QED  BY <1>2, <3>1 DEF Accepts
  <2>2. ASSUME NEW j \in i .. far + 1 PROVE j \in Reach(text, c, i)
    <3>1. \A k \in i + 1 .. j : k \in 1 .. n /\ k - 1 \in i .. far
      BY <1>1, <1>6
    <3>2. \A k \in i + 1 .. j : Accepts(c, text[k])
      BY <1>5, <2>1, <3>1
    <3>3. j \in i .. Len(text)
      BY <1>1, <1>6
    <3>. QED  BY <3>2, <3>3 DEF Reach
  <2>3. ASSUME NEW j \in Reach(text, c, i) PROVE j \in i .. far + 1
    <3>1. j \in i .. n /\ \A k \in i + 1 .. j : Accepts(c, text[k])
      BY <1>1 DEF Reach
    <3>. SUFFICES ASSUME far + 2 <= j PROVE FALSE
      BY <1>3, <3>1
    <3>2. far + 2 \in i + 1 .. j /\ far + 2 \in 1 .. n /\ (far + 2) - 1 = far + 1
      BY <1>3, <3>1
    <3>3. Byte(buf, far + 1) = c
      BY <2>1, <3>1, <3>2
    <3>4. Byte(buf, far) = c
      BY <1>3, <1>5
    <3>. QED  BY <1>3, <1>4, <3>3, <3>4
  <2>. QED  BY <2>2, <2>3
<1>8. PICK K \in SUBSET Int : K = i .. far + 1 /\ \A j \in K : f[j] = g[j]
  <2>1. i .. far + 1 \in SUBSET Int /\ \A j \in i .. far + 1 : j \in 0 .. n
    BY <1>1, <1>6
  <2>. QED  BY <1>1, <2>1 DEF Same
<1>9. PICK d : d = LastThatFits(i, far, f) /\ LastFit(K, f, d)
  <2>1. i \in Nat
    BY <1>1
  <2>. QED  BY <1>8, <2>1, LastIs
<1>10. PICK e : e = StarEnds(text, c, i, g) /\ LastFit(K, g, e)
  BY <1>2, <1>7, <1>8, StarEndsIs
<1>11. d = e
  BY <1>8, <1>9, <1>10, FitsAgree
<1>. QED  BY <1>3, <1>9, <1>10, <1>11

\* A starred dot with nothing behind it leads to the end of the text.
LEMMA DotStarAgrees ==
    ASSUME NEW buf, NEW text, HasText(buf, text), NEW i \in 0 .. Len(text), Byte(buf, i) # NUL,
           NEW f \in Matches, NEW g \in Reaching(Len(text)), Same(f, g, Len(text)), \A j \in Nat : f[j] = j
    PROVE  LastThatFits(i, Far(buf, i, DOT), f) = Len(text) /\ StarEnds(text, DOT, i, g) = Len(text)
<1>1. PICK n \in Nat : n = Len(text)
  BY DEF HasText
<1>2. /\ text \in Seq(Nat) /\ Byte(buf, n) = NUL
      /\ \A k \in 0 .. n - 1 : Byte(buf, k) # NUL
  BY <1>1 DEF HasText
<1>3. PICK far \in Nat : /\ far = Far(buf, i, DOT) /\ i <= far /\ ~GoesOn(buf, DOT, far)
                         /\ \A k \in i .. far - 1 : GoesOn(buf, DOT, k)
  <2>1. DOT \in Nat \ {NUL} /\ i \in Nat
    BY <1>1 DEF DOT, NUL
  <2>. QED  BY <2>1, FarIs
<1>4. i \in 0 .. n - 1
  BY <1>1, <1>2
<1>5. \A k \in 0 .. n - 2 : GoesOn(buf, DOT, k)
  <2>1. \A k \in 0 .. n - 2 : k + 1 \in 0 .. n - 1
    BY <1>1
  <2>. QED  BY <1>2, <2>1 DEF GoesOn
<1>6. ~GoesOn(buf, DOT, n - 1)
  <2>1. n - 1 \in 0 .. n - 1 /\ (n - 1) + 1 = n
    BY <1>4
  <2>. QED  BY <1>2, <2>1 DEF GoesOn
<1>7. far = n - 1
  <2>1. ~(far <= n - 2)
    <3>. SUFFICES ASSUME far <= n - 2 PROVE FALSE
      OBVIOUS
    <3>1. far \in 0 .. n - 2
      OBVIOUS
    <3>. QED  BY <1>3, <1>5, <3>1
  <2>2. ~(far > n - 1)
    <3>. SUFFICES ASSUME far > n - 1 PROVE FALSE
      OBVIOUS
    <3>1. n - 1 \in i .. far - 1
      BY <1>4
    <3>. QED  BY <1>3, <1>6, <3>1
  <2>. QED  BY <1>3, <2>1, <2>2
<1>8. PICK K \in SUBSET Int : K = i .. n /\ n \in K
  BY <1>4
<1>9. \A j \in K : j \in Nat /\ f[j] = j /\ g[j] = j /\ j # FAIL /\ j <= n
  <2>1. \A j \in i .. n : j \in 0 .. n /\ j \in Nat /\ j # FAIL /\ j <= n
    BY <1>4 DEF FAIL
  <2>. QED  BY <1>1, <1>8, <2>1 DEF Same
<1>10. LastFit(K, f, n) /\ LastFit(K, g, n)
  <2>1. \A j \in K : ~(j > n)
    BY <1>9
  <2>2. f[n] = n /\ g[n] = n /\ n # FAIL
    BY <1>8, <1>9
  <2>. QED  BY <1>8, <2>1, <2>2 DEF LastFit
<1>11. LastFit(K, f, LastThatFits(i, far, f))
  <2>1. i \in Nat /\ far + 1 = n
    BY <1>4, <1>7
  <2>. QED  BY <1>8, <2>1, LastIs
<1>12. LastFit(K, g, StarEnds(text, DOT, i, g))
  <2>1. Reach(text, DOT, i) = K
    BY <1>1, <1>8 DEF Reach, Accepts
  <2>. QED  BY <1>2, <2>1, StarEndsIs
<1>13. \A d, e : LastFit(K, f, d) /\ LastFit(K, f, e) => d = e
  <2>. TAKE d, e
  <2>. SUFFICES ASSUME LastFit(K, f, d), LastFit(K, f, e) PROVE d = e
    OBVIOUS
  <2>. QED  BY <1>8, FitsAgree
<1>14. \A d, e : LastFit(K, g, d) /\ LastFit(K, g, e) => d = e
  <2>. TAKE d, e
  <2>. SUFFICES ASSUME LastFit(K, g, d), LastFit(K, g, e) PROVE d = e
    OBVIOUS
  <2>. QED  BY <1>8, FitsAgree
<1>15. LastThatFits(i, far, f) = n
  BY <1>10, <1>11, <1>13
<1>16. StarEnds(text, DOT, i, g) = n
  BY <1>10, <1>12, <1>14
<1>. QED  BY <1>1, <1>3, <1>15, <1>16

\* A star that takes nothing.
LEMMA StaysPut ==
    ASSUME NEW text \in Seq(Nat), NEW c, NEW i \in 0 .. Len(text), NEW g \in Reaching(Len(text)),
           i < Len(text) => ~Accepts(c, text[i + 1])
    PROVE  StarEnds(text, c, i, g) = g[i]
<1>1. PICK n \in Nat : n = Len(text)
  OBVIOUS
<1>2. Reach(text, c, i) = {i}
  <2>1. i \in Reach(text, c, i)
    BY DEF Reach
  <2>2. ASSUME NEW j \in Reach(text, c, i) PROVE j = i
    <3>1. j \in i .. n /\ \A k \in i + 1 .. j : Accepts(c, text[k])
      BY <1>1 DEF Reach
    <3>. SUFFICES ASSUME i + 1 <= j PROVE FALSE
      BY <3>1
    <3>2. i + 1 \in i + 1 .. j /\ i < n
      BY <3>1
    <3>. QED  BY <1>1, <3>1, <3>2
  <2>. QED  BY <2>1, <2>2
<1>3. PICK e : e = StarEnds(text, c, i, g) /\ LastFit({i}, g, e)
  BY <1>2, StarEndsIs
<1>4. e = g[i]
  BY <1>3 DEF LastFit
<1>. QED  BY <1>3, <1>4

\* One character, or one star, more: the code's answer is what the pattern means.
LEMMA StepAgrees ==
    ASSUME NEW buf, NEW text, HasText(buf, text), NEW pat \in Seq(Nat \ {NUL}), DotStarLast(pat),
           NEW n \in 1 .. Len(pat), NEW one \in Matches, NEW two \in Matches,
           NEW uno \in Reaching(Len(text)), NEW due \in Reaching(Len(text)),
           Same(one, uno, Len(text)), Same(two, due, Len(text)), n = 2 => \A j \in Nat : two[j] = j
    PROVE  Same(MatchStep(buf, pat, n, one, two), EndsStep(text, pat, n, uno, due), Len(text))
<1>1. PICK c \in Nat \ {NUL} : c = pat[Len(pat) - n + 1]
  OBVIOUS
<1>2. PICK s \in BOOLEAN : s = (n >= 2 /\ pat[Len(pat) - n + 2] = STAR)
  OBVIOUS
<1>3. PICK m \in Nat : m = Len(text)
  BY DEF HasText
<1>4. /\ text \in Seq(Nat) /\ Byte(buf, m) = NUL
      /\ \A k \in 0 .. m - 1 : Byte(buf, k) = text[k + 1] /\ text[k + 1] # NUL
  BY <1>3 DEF HasText
<1>5. s /\ c = DOT => n = 2
  <2>. SUFFICES ASSUME s, c = DOT PROVE n = 2
    OBVIOUS
  <2>1. PICK k \in 1 .. Len(pat) - 1 : k = Len(pat) - n + 1 /\ k + 1 = Len(pat) - n + 2
    <3>1. PICK L \in Nat : L = Len(pat)
      OBVIOUS
    <3>2. n \in 2 .. L
      <4>1. n >= 2
        BY <1>2, Zenon
      <4>. QED  BY <3>1, <4>1
    <3>3. L - n + 1 \in 1 .. L - 1 /\ (L - n + 1) + 1 = L - n + 2
      BY <3>1, <3>2
    <3>. QED  BY <3>1, <3>3
  <2>2. pat[k] = DOT /\ pat[k + 1] = STAR
    BY <1>1, <1>2, <2>1
  <2>3. k + 1 = Len(pat)
    BY <2>2 DEF DotStarLast
  <2>. QED  BY <2>1, <2>3
<1>6. PICK f : f = MatchStep(buf, pat, n, one, two) /\ f =
        [i \in Nat |->
           IF n = 0 \/ (n = 2 /\ s /\ Byte(buf, i) = NUL) THEN i
           ELSE IF s /\ c # Byte(buf, i) /\ c # DOT THEN two[i]
           ELSE IF s THEN LastThatFits(i, Far(buf, i, c), two)
           ELSE IF Byte(buf, i) = c \/ (c = DOT /\ Byte(buf, i) # NUL) THEN one[i + 1]
           ELSE FAIL]
  BY <1>1, <1>2 DEF MatchStep
<1>7. PICK g : g = EndsStep(text, pat, n, uno, due) /\ g =
        [i \in 0 .. m |->
           IF n = 0 THEN i
           ELSE IF s THEN StarEnds(text, c, i, due)
           ELSE IF i < m /\ Accepts(c, text[i + 1]) THEN uno[i + 1] ELSE FAIL]
  BY <1>1, <1>2, <1>3 DEF EndsStep
<1>8. ASSUME NEW i \in 0 .. m PROVE f[i] = g[i]
  <2>1. i \in Nat /\ i \in 0 .. Len(text) /\ n # 0
    BY <1>3
  <2>2. i < m => Byte(buf, i) = text[i + 1] /\ Byte(buf, i) # NUL
    BY <1>4
  <2>3. i = m => Byte(buf, i) = NUL
    BY <1>4
  <2>4. \A j \in 0 .. m : two[j] = due[j] /\ one[j] = uno[j]
    BY <1>3 DEF Same
  <2>5. ASSUME i < m => ~Accepts(c, text[i + 1]) PROVE StarEnds(text, c, i, due) = due[i]
    <3>1. i \in 0 .. Len(text) /\ (i < Len(text) => ~Accepts(c, text[i + 1]))
      BY <1>3, <2>5
    <3>. QED  BY <1>4, <3>1, StaysPut
  <2>6. CASE n = 2 /\ s /\ Byte(buf, i) = NUL
    <3>1. i = m
      BY <2>2, <2>6
    <3>2. g[i] = due[i]
      BY <1>7, <2>1, <2>5, <2>6, <3>1
    <3>3. due[i] = i
      BY <2>1, <2>4, <2>6
    <3>4. f[i] = i
      BY <1>6, <2>1, <2>6
    <3>. QED  BY <3>2, <3>3, <3>4
  <2>7. CASE s /\ c # Byte(buf, i) /\ c # DOT
    <3>1. i < m => ~Accepts(c, text[i + 1])
      BY <2>2, <2>7 DEF Accepts
    <3>2. g[i] = due[i]
      BY <1>7, <2>1, <2>5, <2>7, <3>1
    <3>3. ~(n = 2 /\ s /\ Byte(buf, i) = NUL) => f[i] = two[i]
      BY <1>6, <2>1, <2>7
    <3>. QED  BY <2>4, <2>6, <3>2, <3>3
  <2>8. CASE s /\ c = DOT /\ Byte(buf, i) # NUL
    <3>1. n = 2 /\ \A j \in Nat : two[j] = j
      BY <1>5, <2>8
    <3>2. LastThatFits(i, Far(buf, i, DOT), two) = Len(text) /\ StarEnds(text, DOT, i, due) = Len(text)
      BY <2>1, <2>8, <3>1, DotStarAgrees
    <3>3. f[i] = LastThatFits(i, Far(buf, i, c), two)
      BY <1>6, <2>1, <2>8
    <3>4. g[i] = StarEnds(text, c, i, due)
      BY <1>7, <2>1, <2>8
    <3>. QED  BY <2>8, <3>2, <3>3, <3>4
  <2>9. CASE s /\ c = Byte(buf, i) /\ c # DOT
    <3>1. LastThatFits(i, Far(buf, i, c), two) = StarEnds(text, c, i, due)
      BY <2>1, <2>9, StarAgrees
    <3>3. f[i] = LastThatFits(i, Far(buf, i, c), two)
      BY <1>6, <2>1, <2>9
    <3>4. g[i] = StarEnds(text, c, i, due)
      BY <1>7, <2>1, <2>9
    <3>. QED  BY <3>1, <3>3, <3>4
  <2>10. CASE ~s
    <3>1. f[i] = IF Byte(buf, i) = c \/ (c = DOT /\ Byte(buf, i) # NUL) THEN one[i + 1] ELSE FAIL
      BY <1>6, <2>1, <2>10
    <3>2. g[i] = IF i < m /\ Accepts(c, text[i + 1]) THEN uno[i + 1] ELSE FAIL
      BY <1>7, <2>1, <2>10
    <3>3. CASE i < m
      <4>1. i + 1 \in 0 .. m
        BY <3>3
      <4>2. one[i + 1] = uno[i + 1]
        BY <2>4, <4>1
      <4>. QED  BY <2>2, <3>1, <3>2, <3>3, <4>2 DEF Accepts
    <3>4. CASE i = m
      BY <2>3, <3>1, <3>2, <3>4
    <3>. QED  BY <3>3, <3>4
  <2>11. \/ n = 2 /\ s /\ Byte(buf, i) = NUL
         \/ s /\ c # Byte(buf, i) /\ c # DOT
         \/ s /\ c = DOT /\ Byte(buf, i) # NUL
         \/ s /\ c = Byte(buf, i) /\ c # DOT
         \/ ~s
    BY <1>5
  <2>. QED  BY <2>6, <2>7, <2>8, <2>9, <2>10, <2>11
<1>. QED  BY <1>3, <1>6, <1>7, <1>8 DEF Same

\* regex_match finds what the pattern means.
LEMMA MatchAgrees ==
    ASSUME NEW buf, NEW text, HasText(buf, text), NEW pat \in Seq(Nat \ {NUL}), DotStarLast(pat)
    PROVE  /\ Same(RegexMatch(buf, pat), MatchEnds(text, pat), Len(text))
           /\ MatchEnds(text, pat) \in Reaching(Len(text))
<1>1. PICK m : IsMatch(m, buf, pat)
  BY MatchIs
<1>2. PICK e : IsMeaning(e, text, pat)
  BY MeaningIs DEF HasText
<1>3. PICK L \in Nat : L = Len(pat)
  OBVIOUS
<1>4. PICK z \in Nat : z = Len(text)
  BY DEF HasText
<1>5. /\ m \in [0 .. L -> Matches] /\ m[L] = RegexMatch(buf, pat)
      /\ \A n \in 0 .. L : m[n] = MatchStep(buf, pat, n, m[n - 1], m[n - 2])
  BY <1>1, <1>3 DEF IsMatch
<1>6. /\ e \in [0 .. L -> Reaching(z)] /\ e[L] = MatchEnds(text, pat)
      /\ \A n \in 0 .. L : e[n] = EndsStep(text, pat, n, e[n - 1], e[n - 2])
  BY <1>2, <1>3, <1>4 DEF IsMeaning
<1>. DEFINE T == {n \in 0 .. L : Same(m[n], e[n], z)}
<1>7. (\A j \in Nat : m[0][j] = j) /\ (\A j \in 0 .. z : e[0][j] = j)
  <2>1. m[0] = MatchStep(buf, pat, 0, m[0 - 1], m[0 - 2]) /\ e[0] = EndsStep(text, pat, 0, e[0 - 1], e[0 - 2])
    BY <1>3, <1>5, <1>6
  <2>. QED  BY <1>4, <2>1 DEF MatchStep, EndsStep
<1>8. 0 \in T
  <2>1. \A j \in 0 .. z : j \in Nat
    OBVIOUS
  <2>. QED  BY <1>3, <1>7, <2>1 DEF Same
<1>9. ASSUME NEW n \in 0 .. L - 1, Same(m[n], e[n], z), n # 0 => Same(m[n - 1], e[n - 1], z)
      PROVE  Same(m[n + 1], e[n + 1], z)
  <2>1. n + 1 \in 1 .. L /\ n + 1 \in 0 .. L /\ (n + 1) - 1 = n /\ (n + 1) - 2 = n - 1
    BY <1>3
  <2>2. m[n + 1] = MatchStep(buf, pat, n + 1, m[n], m[n - 1])
    BY <1>5, <2>1
  <2>3. e[n + 1] = EndsStep(text, pat, n + 1, e[n], e[n - 1])
    BY <1>6, <2>1
  <2>4. m[n] \in Matches /\ e[n] \in Reaching(z)
    BY <1>5, <1>6
  <2>5. CASE n = 0
    <3>1. m[n + 1] = MatchStep(buf, pat, n + 1, m[n], m[n])
      BY <2>2, <2>5 DEF MatchStep
    <3>2. e[n + 1] = EndsStep(text, pat, n + 1, e[n], e[n])
      BY <2>3, <2>5 DEF EndsStep
    <3>3. n + 1 # 2
      BY <2>5
    <3>4. Same(MatchStep(buf, pat, n + 1, m[n], m[n]), EndsStep(text, pat, n + 1, e[n], e[n]), z)
      BY <1>3, <1>4, <1>9, <2>1, <2>4, <3>3, StepAgrees
    <3>. QED  BY <3>1, <3>2, <3>4
  <2>6. CASE n # 0
    <3>1. m[n - 1] \in Matches /\ e[n - 1] \in Reaching(z) /\ Same(m[n - 1], e[n - 1], z)
      BY <1>5, <1>6, <1>9, <2>6
    <3>2. n + 1 = 2 => \A j \in Nat : m[n - 1][j] = j
      <4>. SUFFICES ASSUME n + 1 = 2 PROVE n - 1 = 0
        BY <1>7
      <4>. QED  OBVIOUS
    <3>3. Same(MatchStep(buf, pat, n + 1, m[n], m[n - 1]), EndsStep(text, pat, n + 1, e[n], e[n - 1]), z)
      BY <1>3, <1>4, <1>9, <2>1, <2>4, <3>1, <3>2, StepAgrees
    <3>. QED  BY <2>2, <2>3, <3>3
  <2>. QED  BY <2>5, <2>6
<1>10. 0 .. L \subseteq T
  <2>1. \A n \in 0 .. L - 1 : n \in T /\ (n # 0 => n - 1 \in T) => n + 1 \in T
    BY <1>9
  <2>. HIDE DEF T
  <2>. QED  BY <1>8, <2>1, InductionOnTwo
<1>11. Same(m[L], e[L], z) /\ e[L] \in Reaching(z)
  BY <1>6, <1>10
<1>. QED  BY <1>4, <1>5, <1>6, <1>11

-----------------------------------------------------------------------------
\* A buffer as fgets leaves it.
Buffers == {buf \in [0 .. BufferSize - 1 -> Nat] : \E z \in 0 .. BufferSize - 1 : buf[z] = NUL}

LEMMA BufferHasText ==
    ASSUME NEW buf \in Buffers
    PROVE  /\ HasText(buf, StrAt(buf, 0))
           /\ \A i \in 0 .. Len(StrAt(buf, 0)) :
                StrAt(buf, i) = SubSeq(StrAt(buf, 0), i + 1, Len(StrAt(buf, 0)))
<1>. DEFINE R == {k \in Nat : Byte(buf, k) = NUL}
<1>1. PICK z \in 0 .. BufferSize - 1 : buf[z] = NUL /\ BufferSize \in Nat
  BY GrepAssumption DEF Buffers
<1>2. PICK n \in R : \A k \in R : n <= k
  <2>1. z \in R /\ R \in SUBSET Nat
    BY <1>1 DEF Byte
  <2>. HIDE DEF R
  <2>. QED  BY <2>1, LeastExists
<1>3. /\ n \in Nat /\ n < BufferSize /\ Byte(buf, n) = NUL
      /\ \A k \in 0 .. n - 1 : Byte(buf, k) # NUL
  <2>1. z \in R
    BY <1>1 DEF Byte
  <2>2. n <= z
    BY <1>2, <2>1
  <2>3. ASSUME NEW k \in 0 .. n - 1 PROVE Byte(buf, k) # NUL
    <3>1. k \in Nat /\ ~(n <= k)
      OBVIOUS
    <3>. QED  BY <1>2, <3>1
  <2>. QED  BY <1>1, <2>2, <2>3
<1>4. \A k \in 0 .. n - 1 : Byte(buf, k) = buf[k] /\ buf[k] \in Nat
  <2>1. \A k \in 0 .. n - 1 : k \in 0 .. BufferSize - 1 /\ k < BufferSize
    BY <1>1, <1>3
  <2>2. buf \in [0 .. BufferSize - 1 -> Nat]
    BY DEF Buffers
  <2>. QED  BY <2>1, <2>2 DEF Byte
<1>. HIDE DEF R
<1>5. ASSUME NEW i \in 0 .. n PROVE StrAt(buf, i) = [k \in 1 .. n - i |-> buf[i + k - 1]]
  <2>. DEFINE Stops(j) == Byte(buf, j) = NUL /\ \A k \in i .. j - 1 : Byte(buf, k) # NUL
  <2>1. n \in i .. i + BufferSize
    BY <1>1, <1>3
  <2>2. Stops(n)
    <3>1. \A k \in i .. n - 1 : k \in 0 .. n - 1
      BY <1>3
    <3>. QED  BY <1>3, <3>1
  <2>3. ASSUME NEW j \in i .. i + BufferSize, Stops(j) PROVE j = n
    <3>1. ~(j < n)
      <4>. SUFFICES ASSUME j < n PROVE FALSE
        OBVIOUS
      <4>1. j \in 0 .. n - 1
        BY <1>1, <1>3
      <4>. QED  BY <1>3, <2>3, <4>1
    <3>2. ~(n < j)
      <4>. SUFFICES ASSUME n < j PROVE FALSE
        OBVIOUS
      <4>1. n \in i .. j - 1
        BY <1>1, <1>3
      <4>. QED  BY <1>3, <2>3, <4>1
    <3>. QED  BY <1>1, <1>3, <3>1, <3>2
  <2>4. (CHOOSE j \in i .. i + BufferSize : Stops(j)) = n
    <3>. HIDE DEF Stops
    <3>. QED  BY <2>1, <2>2, <2>3
  <2>. QED  BY <2>4 DEF StrAt
<1>6. PICK text \in Seq(Nat) : /\ text = StrAt(buf, 0) /\ Len(text) = n
                               /\ \A k \in 1 .. n : text[k] = buf[k - 1]
  <2>. DEFINE t == [k \in 1 .. n |-> buf[k - 1]]
  <2>1. StrAt(buf, 0) = t
    <3>1. 0 \in 0 .. n /\ 1 .. n - 0 = 1 .. n /\ \A k \in 1 .. n : 0 + k - 1 = k - 1
      BY <1>3
    <3>. QED  BY <1>5, <3>1
  <2>2. \A k \in 1 .. n : buf[k - 1] \in Nat
    <3>1. \A k \in 1 .. n : k - 1 \in 0 .. n - 1
      BY <1>3
    <3>. QED  BY <1>4, <3>1
  <2>3. t \in Seq(Nat) /\ Len(t) = n
    BY <1>3, <2>2
  <2>. QED  BY <2>1, <2>3
<1>7. HasText(buf, text)
  <2>1. \A i \in 0 .. n - 1 : i + 1 \in 1 .. n /\ (i + 1) - 1 = i
    BY <1>3
  <2>2. \A i \in 0 .. n - 1 : Byte(buf, i) = text[i + 1] /\ text[i + 1] # NUL
    BY <1>3, <1>4, <1>6, <2>1
  <2>. QED  BY <1>3, <1>6, <2>2 DEF HasText
<1>8. ASSUME NEW i \in 0 .. n PROVE StrAt(buf, i) = SubSeq(text, i + 1, n)
  <2>1. \A k \in 1 .. n - i : i + k \in 1 .. n /\ (i + k) - 1 = i + k - 1 /\ k + (i + 1) - 1 = i + k
    BY <1>3
  <2>2. StrAt(buf, i) = [k \in 1 .. n - i |-> text[i + k]]
    <3>1. \A k \in 1 .. n - i : buf[i + k - 1] = text[i + k]
      BY <1>6, <2>1
    <3>. QED  BY <1>5, <3>1
  <2>3. PICK u : u = SubSeq(text, i + 1, n)
    OBVIOUS
  <2>4. u \in Seq(Nat) /\ Len(u) = n - i /\ \A k \in 1 .. n - i : u[k] = text[i + k]
    <3>1. /\ Len(SubSeq(text, i + 1, n)) = n - i
          /\ \A k \in 1 .. n - i : SubSeq(text, i + 1, n)[k] = text[i + k]
      BY <1>3, <1>6
    <3>2. SubSeq(text, i + 1, n) \in Seq(Nat)
      BY <1>3, <1>6
    <3>. QED  BY <2>3, <3>1, <3>2
  <2>5. u = [k \in 1 .. n - i |-> u[k]]
    BY <2>4
  <2>. QED  BY <2>2, <2>3, <2>4, <2>5
<1>. QED  BY <1>6, <1>7, <1>8

\* printf's precision cuts where the match says.
LEMMA PieceIs ==
    ASSUME NEW buf \in Buffers, NEW text, text = StrAt(buf, 0),
           NEW to \in 0 .. Len(text), NEW from \in 0 .. to
    PROVE  Piece(buf, from, to) = SubSeq(text, from + 1, to)
<1>1. text \in Seq(Nat)
  BY BufferHasText DEF HasText
<1>2. PICK n \in Nat : n = Len(text)
  BY <1>1
<1>3. to \in Nat /\ from \in Nat /\ from <= to /\ to <= n
  BY <1>2
<1>4. PICK u : u = StrAt(buf, from) /\ u = SubSeq(text, from + 1, n)
  BY <1>2, <1>3, BufferHasText
<1>5. u \in Seq(Nat) /\ Len(u) = n - from /\ \A k \in 1 .. n - from : u[k] = text[from + k]
  BY <1>1, <1>2, <1>3, <1>4
<1>6. Min({to - from, Len(u)}) = to - from
  <2>1. PICK a \in Nat, b \in Nat : a = to - from /\ b = Len(u) /\ a <= b
    BY <1>3, <1>5
  <2>2. Min({a, b}) = a
    BY <2>1 DEF Min
  <2>. QED  BY <2>1, <2>2
<1>7. PICK v : v = SubSeq(u, 1, to - from)
  OBVIOUS
<1>8. v \in Seq(Nat) /\ Len(v) = to - from /\ \A k \in 1 .. to - from : v[k] = text[from + k]
  BY <1>3, <1>5, <1>7
<1>9. PICK w : w = SubSeq(text, from + 1, to)
  OBVIOUS
<1>10. w \in Seq(Nat) /\ Len(w) = to - from /\ \A k \in 1 .. to - from : w[k] = text[from + k]
  BY <1>1, <1>2, <1>3, <1>9
<1>11. v = w
  BY <1>8, <1>10, SeqEqual
<1>. QED  BY <1>4, <1>6, <1>7, <1>9, <1>11 DEF Piece

LEMMA BehindIs ==
    ASSUME NEW pat \in Patterns
    PROVE  /\ pat \in Seq(Nat \ {NUL}) /\ Behind(pat) \in Seq(Nat \ {NUL})
           /\ DotStarLast(pat) => DotStarLast(Behind(pat))
<1>1. pat \in Seq(Nat \ {NUL})
  BY GrepAssumption
<1>2. CASE ~Anchored(pat)
  BY <1>1, <1>2 DEF Behind
<1>3. CASE Anchored(pat)
  <2>1. PICK q \in Seq(Nat \ {NUL}) : /\ q = Behind(pat) /\ Len(q) = Len(pat) - 1
                                      /\ \A k \in 1 .. Len(q) : q[k] = pat[k + 1]
    <3>1. pat # <<>> /\ Behind(pat) = Tail(pat)
      BY <1>3 DEF Anchored, Behind
    <3>2. /\ Tail(pat) \in Seq(Nat \ {NUL}) /\ Len(Tail(pat)) = Len(pat) - 1
          /\ \A k \in 1 .. Len(pat) - 1 : Tail(pat)[k] = pat[k + 1]
      BY <1>1, <3>1
    <3>. QED  BY <3>1, <3>2
  <2>2. ASSUME DotStarLast(pat) PROVE DotStarLast(q)
    <3>1. PICK L \in Nat : L = Len(q) /\ Len(pat) = L + 1
      BY <1>1, <2>1
    <3>2. ASSUME NEW k \in 1 .. L - 1, q[k] = DOT, q[k + 1] = STAR PROVE k + 1 = L
      <4>1. k \in 1 .. L /\ k + 1 \in 1 .. L /\ k + 1 \in 1 .. (L + 1) - 1
        BY <3>1
      <4>2. pat[k + 1] = DOT /\ pat[(k + 1) + 1] = STAR
        BY <2>1, <3>1, <3>2, <4>1
      <4>3. (k + 1) + 1 = L + 1
        BY <2>2, <3>1, <4>1, <4>2 DEF DotStarLast
      <4>. QED  BY <3>1, <4>3
    <3>. QED  BY <3>1, <3>2 DEF DotStarLast
  <2>. QED  BY <1>1, <2>1, <2>2
<1>. QED  BY <1>2, <1>3

\* What ought to be shown of a line.
Emphasized(buf, pat) ==
    LET text   == StrAt(buf, 0)
        ends   == MatchEnds(text, Behind(pat))
        places == {i \in 0 .. Len(text) - 1 : (Anchored(pat) => i = 0) /\ ends[i] # FAIL}
        start  == Min(places)
    IN  IF places = {} THEN <<>>
        ELSE <<SubSeq(text, 1, start), SubSeq(text, start + 1, ends[start]),
               SubSeq(text, ends[start] + 1, Len(text))>>

LEMMA PrintsMatch ==
    ASSUME NEW buf \in Buffers, NEW pat \in Patterns, DotStarLast(pat)
    PROVE  PrintMatch(buf, pat) = Emphasized(buf, pat)
<1>1. PICK text \in Seq(Nat) : text = StrAt(buf, 0) /\ HasText(buf, text)
  BY BufferHasText DEF HasText
<1>2. PICK n \in Nat : n = Len(text)
  BY <1>1
<1>3. PICK f : f = RegexMatch(buf, Behind(pat))
  OBVIOUS
<1>4. PICK g \in Reaching(n) : g = MatchEnds(text, Behind(pat)) /\ Same(f, g, n)
  BY <1>1, <1>2, <1>3, BehindIs, MatchAgrees
<1>5. \A i \in 0 .. n : f[i] = g[i] /\ (g[i] = FAIL \/ g[i] \in i .. n)
  BY <1>4 DEF Same, Reaching
<1>6. PICK P \in SUBSET (0 .. n - 1) :
        /\ P = {i \in 0 .. n - 1 : (Anchored(pat) => i = 0) /\ g[i] # FAIL}
        /\ P = {i \in 0 .. n - 1 : (Anchored(pat) => i = 0) /\ f[i] # FAIL}
  <2>1. \A i \in 0 .. n - 1 : f[i] = g[i]
    BY <1>5
  <2>2. {i \in 0 .. n - 1 : (Anchored(pat) => i = 0) /\ g[i] # FAIL}
          = {i \in 0 .. n - 1 : (Anchored(pat) => i = 0) /\ f[i] # FAIL}
    BY <2>1
  <2>. QED  BY <2>2
<1>7. Search(buf, pat) = IF P = {} THEN <<>> ELSE <<Min(P), f[Min(P)]>>
  BY <1>1, <1>2, <1>3, <1>6 DEF Search
<1>8. Emphasized(buf, pat) =
        IF P = {} THEN <<>>
        ELSE <<SubSeq(text, 1, Min(P)), SubSeq(text, Min(P) + 1, g[Min(P)]),
               SubSeq(text, g[Min(P)] + 1, n)>>
  BY <1>1, <1>2, <1>4, <1>6 DEF Emphasized
<1>9. CASE P = {}
  BY <1>7, <1>8, <1>9 DEF PrintMatch
<1>10. CASE P # {}
  <2>1. PICK a \in P : a = Min(P)
    <3>1. PICK x \in P : \A y \in P : x <= y
      <4>1. P \in SUBSET Nat
        OBVIOUS
      <4>. QED  BY <1>10, <4>1, LeastExists
    <3>. QED  BY <3>1 DEF Min
  <2>2. PICK b \in a .. n : b = g[a] /\ b = f[a] /\ a \in 0 .. b /\ a \in Nat
    <3>1. a \in 0 .. n /\ a \in Nat /\ g[a] # FAIL
      BY <1>6
    <3>2. g[a] \in a .. n
      BY <1>5, <3>1
    <3>. QED  BY <1>5, <3>1, <3>2
  <2>3. Search(buf, pat) = <<a, b>>
    BY <1>7, <1>10, <2>1, <2>2
  <2>4. PrintMatch(buf, pat) = <<Piece(buf, 0, a), Piece(buf, a, b), StrAt(buf, b)>>
    <3>1. <<a, b>> # <<>>
      OBVIOUS
    <3>2. <<a, b>>[1] = a /\ <<a, b>>[2] = b
      OBVIOUS
    <3>. QED  BY <2>3, <3>1, <3>2 DEF PrintMatch
  <2>5. Piece(buf, 0, a) = SubSeq(text, 1, a)
    <3>1. a \in 0 .. Len(text) /\ 0 \in 0 .. a /\ 0 + 1 = 1
      BY <1>2, <2>2
    <3>2. Piece(buf, 0, a) = SubSeq(text, 0 + 1, a)
      BY <1>1, <3>1, PieceIs
    <3>. QED  BY <3>1, <3>2
  <2>6. Piece(buf, a, b) = SubSeq(text, a + 1, b)
    <3>1. b \in 0 .. Len(text)
      BY <1>2, <2>2
    <3>. QED  BY <1>1, <2>2, <3>1, PieceIs
  <2>7. StrAt(buf, b) = SubSeq(text, b + 1, n)
    <3>1. b \in 0 .. Len(text)
      BY <1>2, <2>2
    <3>. QED  BY <1>1, <1>2, <3>1, BufferHasText
  <2>. QED  BY <1>8, <1>10, <2>1, <2>2, <2>4, <2>5, <2>6, <2>7
<1>. QED  BY <1>9, <1>10

\* The buffer holds a line once one was read, and what was shown is of it.
GrepInv ==
    /\ pattern \in Patterns /\ line \in [0 .. BufferSize - 1 -> Nat]
    /\ shown # NOLINE => line \in Buffers /\ shown = PrintMatch(line, pattern)

LEMMA GrepSteps == GrepInv /\ [GrepNext]_grepVars => GrepInv'
<1>. SUFFICES ASSUME GrepInv, [GrepNext]_grepVars PROVE GrepInv'
  OBVIOUS
<1>1. CASE UNCHANGED grepVars
  BY <1>1 DEF GrepInv, grepVars
<1>2. ASSUME NEW l \in Lines, GrepLine(l) PROVE GrepInv'
  <2>1. PICK z \in 0 .. BufferSize - 1 : z = Len(l) /\ l \in Seq(Nat)
    BY GrepAssumption
  <2>2. line' = [i \in 0 .. BufferSize - 1 |->
                   IF i < z THEN l[i + 1] ELSE IF i = z THEN NUL ELSE line[i]]
    BY <1>2, <2>1 DEF GrepLine
  <2>3. line' \in [0 .. BufferSize - 1 -> Nat] /\ line'[z] = NUL
    <3>1. \A i \in 0 .. BufferSize - 1 : line[i] \in Nat /\ (i < z => l[i + 1] \in Nat)
      BY <2>1, GrepAssumption DEF GrepInv
    <3>2. NUL \in Nat
      BY DEF NUL
    <3>. QED  BY <2>2, <3>1, <3>2
  <2>4. line' \in Buffers
    BY <2>3 DEF Buffers
  <2>5. shown' = PrintMatch(line', pattern') /\ pattern' = pattern
    BY <1>2 DEF GrepLine
  <2>. QED  BY <2>3, <2>4, <2>5 DEF GrepInv
<1>. QED  BY <1>1, <1>2 DEF GrepNext

\* Whatever lines came before and whatever the buffer held: of a line its first
\* match is emphasized, as far as the stars reach, for every pattern with
\* nothing behind a starred dot (regex_match 55-87, search 95-112,
\* print_match 130-142).
THEOREM MatchesShown == GrepInit /\ [][GrepNext]_grepVars => []ShowsFirstMatch
<1>1. GrepInit => GrepInv
  <2>. SUFFICES ASSUME GrepInit PROVE GrepInv
    OBVIOUS
  <2>1. line \in [0 .. BufferSize - 1 -> Nat]
    BY GrepAssumption DEF GrepInit
  <2>. QED  BY <2>1 DEF GrepInit, GrepInv
<1>2. GrepInv => ShowsFirstMatch
  <2>. SUFFICES ASSUME GrepInv, shown # NOLINE, DotStarLast(pattern) PROVE shown = Emphasized(line, pattern)
    BY DEF ShowsFirstMatch, Emphasized
  <2>. QED  BY PrintsMatch DEF GrepInv
<1>. QED  BY <1>1, <1>2, GrepSteps, PTL
=============================================================================
