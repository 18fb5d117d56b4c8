----------------------------- MODULE SearchDir ------------------------------
(***************************************************************************)
(* assign2/searchdir.c: a recursive search of a directory, one iteration   *)
(* of a readdir loop at a time, and the questions answered from it.  The   *)
(* program links the course's own CVector and CMap, here a sequence and a  *)
(* function.  Names are sequences of characters, a path the sequence of    *)
(* the names below the directory searched, and a node stands for an inode. *)
(***************************************************************************)
EXTENDS SequencesExt, Integers

CONSTANTS
    Trees,        \* file systems: [entries, readable], see MCSearchDir
    Dirs, Files,  \* the inodes
    Root,         \* the directory named on the command line
    Gone,         \* what an entry leads to when stat fails for it
    DateOf,       \* the month and day of a node's mtime
    SearchStrs,   \* the strings searched for
    Dot, Slash    \* the characters '.' and '/'

Nodes == Dirs \cup Files
Names == Seq(Nat \ {Slash}) \ {<<>>}

\* A directory has one entry of a name.
ASSUME TreeAssumption ==
    /\ Root \in Dirs /\ Dirs \cap Files = {} /\ Gone \notin Nodes
    /\ Slash \in Nat /\ SearchStrs \subseteq Seq(Nat)
    /\ \A t \in Trees : t.readable \subseteq Dirs /\ \A d \in Dirs :
         /\ \A e \in t.entries[d] : e.name \in Names /\ e.node \in Nodes \cup {Gone}
         /\ \A e, f \in t.entries[d] : e.name = f.name => e = f

NONE == <<>>
EMPTY == ""
QUIT == "q"

VARIABLES
    tree,       \* the file system
    option,     \* 0: by name, 1: -i, 2: -d
    searchstr,
    at,         \* "gather", "report", "done"
    stack,      \* the calls of gather_files: [dir, path, unread entries]
    visited,    \* inodes of the subdirectories entered
    matches,    \* paths whose name matched, in the order found
    map,        \* inode -> path
    dateMap,    \* month and day -> paths
    input,      \* the word last read by inodeSearch or dateSearch
    printed,    \* history: the last answer
    opened,     \* history: how often each directory was opened
    blind       \* history: whether a gatherer used a stat that failed

vars == <<tree, option, searchstr, at, stack, visited, matches, map, dateMap,
          input, printed, opened, blind>>
gathered == <<matches, map, dateMap>>
fixed == <<tree, option, searchstr>>

\* match_helper: the pattern from a position of the input on.
MatchHelper(name, i, pattern) ==
    \A j \in DOMAIN pattern : i + j - 1 <= Len(name) /\ name[i + j - 1] = pattern[j]

\* Mutant of Match: only the first position is tried.
MatchPrefix(pattern, name) == MatchHelper(name, 1, pattern)

Match(pattern, name) == \E i \in DOMAIN name : MatchHelper(name, i, pattern)

\* The entries readdir names, none if opendir fails.
Listed(t, dir) == IF dir \in t.readable THEN t.entries[dir] ELSE {}

\* A call of gather_files.
Frame(dir, path) == [dir |-> dir, path |-> path, unread |-> Listed(tree, dir)]

Init ==
    /\ tree \in Trees
    /\ \/ option = 0 /\ searchstr \in SearchStrs
       \/ option \in {1, 2} /\ searchstr = <<>>
    /\ at = "gather" /\ stack = <<Frame(Root, <<>>)>> /\ visited = <<>>
    /\ matches = <<>> /\ map = [n \in {} |-> <<>>] /\ dateMap = [n \in {} |-> <<>>]
    /\ input = EMPTY /\ printed = NONE
    /\ opened = [d \in Dirs |-> IF d = Root THEN 1 ELSE 0] /\ blind = FALSE

With(f, k, v) == [j \in DOMAIN f \cup {k} |-> IF j = k THEN v ELSE f[j]]

\* gather_vector, gather_map and gather_dateMap, each given the path and ss.
GatherVector(path) ==
    option = 0 /\ matches' = Append(matches, path) /\ UNCHANGED <<map, dateMap>>

GatherMap(path, inode) ==
    option = 1 /\ map' = With(map, inode, path) /\ UNCHANGED <<matches, dateMap>>

\* Mutant of GatherDateMap: a known day's vector is replaced by a new one.
GatherLastOfDay(path, inode) ==
    /\ option = 2 /\ UNCHANGED <<matches, map>>
    /\ dateMap' = With(dateMap, DateOf[inode], <<path>>)

GatherDateMap(path, inode) ==
    LET day == DateOf[inode]
    IN  /\ option = 2 /\ UNCHANGED <<matches, map>>
        /\ dateMap' = With(dateMap, day,
              IF day \in DOMAIN dateMap THEN Append(dateMap[day], path) ELSE <<path>>)

Gather(path, inode) ==
    GatherVector(path) \/ GatherMap(path, inode) \/ GatherDateMap(path, inode)

Top == Last(stack)
Rest(e) == [Top EXCEPT !.unread = @ \ {e}]
PathOf(e) == Append(Top.path, e.name)
Hidden(e) == e.name[1] = Dot

\* Mutant of Skip: continue jumps past the next readdir.
SkipSame(e) == Hidden(e) /\ UNCHANGED <<stack, visited, opened, gathered, blind>>

Skip(e) ==
    /\ Hidden(e) /\ stack' = Append(Front(stack), Rest(e))
    /\ UNCHANGED <<visited, opened, gathered, blind>>

\* Mutant of Descend: subdirectories are entered without a look at visited.
DescendAlways(e) ==
    /\ ~Hidden(e) /\ e.node \in Dirs
    /\ visited' = Append(visited, e.node)
    /\ opened' = [opened EXCEPT ![e.node] = @ + 1]
    /\ stack' = Front(stack) \o <<Rest(e), Frame(e.node, PathOf(e))>>
    /\ UNCHANGED <<gathered, blind>>

\* A subdirectory not visited before, by inode, is entered.
Descend(e) ==
    /\ ~Hidden(e) /\ e.node \in Dirs /\ ~Contains(visited, e.node)
    /\ visited' = Append(visited, e.node)
    /\ opened' = [opened EXCEPT ![e.node] = @ + 1]
    /\ stack' = Front(stack) \o <<Rest(e), Frame(e.node, PathOf(e))>>
    /\ UNCHANGED <<gathered, blind>>

Revisit(e) ==
    /\ ~Hidden(e) /\ e.node \in Dirs /\ Contains(visited, e.node)
    /\ stack' = Append(Front(stack), Rest(e))
    /\ UNCHANGED <<visited, opened, gathered, blind>>

\* Anything else is a file, also what stat failed for: then ss holds whatever
\* the stack held there.
File(e) ==
    /\ ~Hidden(e) /\ e.node \notin Dirs
    /\ stack' = Append(Front(stack), Rest(e))
    /\ IF Match(searchstr, e.name)
       THEN /\ blind' = (blind \/ e.node = Gone)
            /\ \E inode \in (IF e.node = Gone THEN Nodes ELSE {e.node}) :
                 Gather(PathOf(e), inode)
       ELSE UNCHANGED <<gathered, blind>>
    /\ UNCHANGED <<visited, opened>>

\* One iteration of the loop over readdir, which names entries in any order.
Entry ==
    /\ at = "gather" /\ stack # <<>>
    /\ \E e \in Top.unread : Skip(e) \/ Descend(e) \/ Revisit(e) \/ File(e)
    /\ UNCHANGED <<fixed, at, input, printed>>

\* readdir returned NULL.
Return ==
    /\ at = "gather" /\ stack # <<>> /\ Top.unread = {}
    /\ stack' = Front(stack)
    /\ UNCHANGED <<fixed, at, visited, gathered, input, printed, opened, blind>>

\* The characters of a full path below the directory.
Joined(path) ==
    LET upto[k \in 0 .. Len(path)] ==
          IF k = 0 THEN <<>> ELSE upto[k - 1] \o <<Slash>> \o path[k]
    IN  upto[Len(path)]

\* By length; at equal length strcmp of the suffixes, from the first on.
CmpPath(p, q) ==
    LET a == Joined(p)
        b == Joined(q)
        differ == {i \in DOMAIN a : a[i] # b[i]}
    IN  IF Len(a) # Len(b) THEN Len(a) - Len(b)
        ELSE IF differ = {} THEN 0 ELSE a[Min(differ)] - b[Min(differ)]

\* cvec_sort of the paths, which are printed.
PrintMatches ==
    /\ at = "gather" /\ stack = <<>> /\ option = 0
    /\ \E order \in Bijection(DOMAIN matches, DOMAIN matches) :
         /\ \A j, k \in DOMAIN matches : j < k => CmpPath(matches[order[j]], matches[order[k]]) <= 0
         /\ printed' = [j \in DOMAIN matches |-> matches[order[j]]]
    /\ at' = "done"
    /\ UNCHANGED <<fixed, stack, visited, gathered, input, opened, blind>>

StartAsking ==
    /\ at = "gather" /\ stack = <<>> /\ option # 0 /\ at' = "report"
    /\ UNCHANGED <<fixed, stack, visited, gathered, input, printed, opened, blind>>

Found(word) ==
    IF option = 1 THEN IF word \in DOMAIN map THEN <<map[word]>> ELSE NONE
    ELSE IF word \in DOMAIN dateMap THEN dateMap[word] ELSE NONE

Words == IF option = 1 THEN Nodes ELSE {DateOf[n] : n \in Nodes}

\* inodeSearch and dateSearch: scanf leaves the input alone at the end of file,
\* and the answer to it is looked up before c and "q" are tested.
Ask ==
    /\ at = "report"
    /\ \E word \in Words \cup {QUIT, input} :
         /\ input' = word
         /\ printed' = Found(word)
         /\ at' \in (IF word = QUIT THEN {"done"} ELSE IF word = input THEN {"done", "report"}
                     ELSE {"report"})
    /\ UNCHANGED <<fixed, stack, visited, gathered, opened, blind>>

Gathering == Entry \/ Return \/ PrintMatches \/ StartAsking

Next == Gathering \/ Ask

\* The search runs on by itself; its user need not ask, nor quit.
Spec == Init /\ [][Next]_vars /\ WF_vars(Gathering)

-----------------------------------------------------------------------------
\* The directories that can be reached through visible entries, and the
\* visible entries in them that are no directories.
Below(t, d) == {e.node : e \in {f \in Listed(t, d) : ~Hidden(f)}} \cap Dirs

Reachable(t) ==
    {d \in Dirs : \A S \in SUBSET Dirs :
                   Root \in S /\ (\A c \in S : Below(t, c) \subseteq S) => d \in S}

Leaves(t) ==
    UNION {{<<d, e>> : e \in {f \in Listed(t, d) : ~Hidden(f) /\ f.node \notin Dirs}} :
              d \in Reachable(t)}

\* Where a name leads to from a directory, and a path name by name.
Entered(t, d, name) ==
    IF d \in Dirs /\ \E e \in t.entries[d] : e.name = name
    THEN (CHOOSE e \in t.entries[d] : e.name = name).node
    ELSE Gone

LeadsTo(t, path) ==
    LET node[k \in 0 .. Len(path)] == IF k = 0 THEN Root ELSE Entered(t, node[k - 1], path[k])
    IN  node[Len(path)]

\* The directory a path ends in and the name there.
Ends(t, paths) == {<<LeadsTo(t, Front(p)), Last(p)>> : p \in paths}
Named(leaves) == {<<l[1], l[2].name>> : l \in leaves}

Occurs(pattern, name) ==
    \E i \in 1 .. Len(name) - Len(pattern) + 1 :
        SubSeq(name, i, i + Len(pattern) - 1) = pattern

\* However the links run, no directory is listed twice; but the one searched
\* is not recorded as visited and may be listed once more (159-163, 185).
DirsOnce == \A d \in Dirs : opened[d] <= IF d = Root THEN 2 ELSE 1

\* A name search prints the files whose name contains the string, wherever
\* they are reachable, and no others, by the length of their paths, equally
\* long ones in the characters' order (cmp_path 204-224; the header, 10-11,
\* speaks of the latter only).  No path is printed twice, and no entry of a
\* directory by two paths, unless it is the one searched, listed again when a
\* link leads back to it (159-163, 185).
PrintsMatches ==
    option = 0 /\ at = "done" =>
      /\ Ends(tree, ToSet(printed)) = Named({l \in Leaves(tree) : Occurs(searchstr, l[2].name)})
      /\ \A j, k \in DOMAIN printed : j < k =>
           LET a == Joined(printed[j])
               b == Joined(printed[k])
           IN  \/ Len(a) < Len(b)
               \/ Len(a) = Len(b) /\ \E i \in DOMAIN a :
                    a[i] < b[i] /\ SubSeq(a, 1, i - 1) = SubSeq(b, 1, i - 1)
      /\ \A p, q \in ToSet(printed) :
           p # q /\ Ends(tree, {p}) = Ends(tree, {q}) => LeadsTo(tree, Front(p)) = Root

\* The map of an inode search knows every file, and the path it holds for an
\* inode leads to it: one path, as each put replaces the one before, where the
\* header (11-12) has all of them printed.  A date search answers a day with the files of that
\* day, each path once.  Neither is said when stat failed for a file, which is
\* then put under whatever inode or day ss held (110-157, 181).
AnswersTrue ==
    at # "gather" /\ ~blind =>
      /\ option = 1 =>
           /\ DOMAIN map = {l[2].node : l \in Leaves(tree)}
           /\ \A n \in DOMAIN map : LeadsTo(tree, map[n]) = n
      /\ option = 2 =>
           /\ DOMAIN dateMap = {DateOf[l[2].node] : l \in Leaves(tree)}
           /\ \A day \in DOMAIN dateMap :
                /\ IsInjective(dateMap[day])
                /\ Ends(tree, ToSet(dateMap[day])) =
                     Named({l \in Leaves(tree) : DateOf[l[2].node] = day})

\* The recursion ends in every file system, also with links back to a
\* directory above (165-200).
GatheringEnds == at = "gather" ~> at # "gather"
=============================================================================
