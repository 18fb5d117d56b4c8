---------------------------- MODULE MCSearchDir -----------------------------
(***************************************************************************)
(* File systems for SearchDir: all small ones of two directories, and some *)
(* of three with links upwards, an unreadable directory and hidden names.  *)
(***************************************************************************)
EXTENDS SearchDir

CONSTANTS root, sub, low, f, g, gone

DotChar == 1
SlashChar == 2
A == <<3>>
AB == <<3, 4>>
C == <<5>>
HiddenA == <<DotChar, 3>>

MCDirs == {root, sub, low}
MCFiles == {f, g}
MCDateOf == [n \in MCDirs \cup MCFiles |-> IF n \in {root, f} THEN "02/29" ELSE "12/31"]
MCSearchStrs == {<<>>, <<4>>, A}

E(name, node) == [name |-> name, node |-> node]
Without(r, s) == [d \in MCDirs |-> IF d = root THEN r ELSE IF d = sub THEN s ELSE {}]

\* The entries A and AB, each missing or leading anywhere.
Small == {{E(A, n)} : n \in {root, sub, f, gone}}
           \cup {{E(A, m), E(AB, n)} : m \in {root, sub, f}, n \in {sub, f, g, gone}}

TwoDirs == [entries : {Without(r, s) : r, s \in Small}, readable : {MCDirs}]

ThreeDirs ==
    {[entries  |-> [d \in MCDirs |->
                      IF d = root THEN {E(A, sub), E(AB, f), E(HiddenA, g)}
                      ELSE IF d = sub THEN {E(A, low), E(C, n), E(HiddenA, low)}
                      ELSE {E(A, m), E(AB, g), E(C, f)}],
      readable |-> MCDirs \ closed] :
        n \in {root, sub, low, f}, m \in {root, sub, low, gone}, closed \in {{}, {low}}}

MCTrees == TwoDirs \cup ThreeDirs
=============================================================================
