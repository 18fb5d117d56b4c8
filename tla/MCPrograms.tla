----------------------------- MODULE MCPrograms -----------------------------
(***************************************************************************)
(* Instances for Programs: patterns of up to three items, and some with a  *)
(* star or caret out of place; lines over two characters; lists of         *)
(* directories, digit sets, lines of files.                                *)
(***************************************************************************)
EXTENDS Programs

MCItems == {<<1>>, <<2>>, <<DOT>>, <<1, STAR>>, <<2, STAR>>, <<DOT, STAR>>}
Unanchored ==
    {<<>>, <<STAR, 1>>, <<1, STAR, STAR>>, <<1, CARET>>} \cup MCItems
      \cup {a \o b : a, b \in MCItems} \cup {a \o b \o c : a, b, c \in MCItems}
MCPatterns == Unanchored \cup {<<CARET>> \o p : p \in Unanchored}
MCLines == {<<1, NUL, 2>>, <<STAR, 1>>} \cup UNION {[1 .. n -> {1, 2}] : n \in 0 .. 4}

MCPathLists ==
    {<<>>, <<COLON>>, <<"x">>, <<"x", COLON, "y">>, <<COLON, "y", "x", COLON, COLON, "x">>,
     <<"y", COLON, "x", COLON, "y", "x", COLON>>}
MCReadable == {<<<<"x">>, "ls">>, <<<<"y">>, "ls">>, <<<<"y", "x">>, "cc">>, <<<<"x">>, "cc">>}

MCUsedSets == {1 .. k : k \in 0 .. 9} \cup {k .. 9 : k \in 2 .. 9} \cup {{k} : k \in {4, 5}}

Line(c, n, i, s) == [kind |-> "request", request |-> c, nscanned |-> n, id |-> i, size |-> s]
Blank == [kind |-> "blank"]
Comment == [kind |-> "comment"]
\* The last two are longer than the buffer.
MCFileLines ==
    {<<l>> : l \in {Blank, Comment, Line("a", 3, 0, 5), Line("a", 3, 2, 8),
       Line("a", 2, 1, 0), Line("a", 3, -1, 1), Line("r", 3, 1, 7), Line("r", 3, 0, 8),
       Line("f", 2, 1, 0), Line("f", 3, 1, 1), Line("f", 2, 7, 0), Line("x", 3, 1, 1)}}
      \cup {<<Comment, Line("a", 3, 1, 7)>>, <<Line("f", 2, 0, 0), Comment, Blank>>}

\* Characters 1 to 3; <<1>> begins <<1, 2>> and shares a bucket with it, and
\* <<3>> shares it too.
MCTextLines ==
    {<<<<HASH, 1>>>>, EMPTYLINE, <<<<1, 2>>, <<1>>, <<3>>>>, <<<<1>>, <<2>>>>, <<<<3>>, <<1, 2>>, <<2>>, <<1>>>>,
     <<<<2>>>>, <<<<3>>, <<1>>>>, <<<<1, 2>>, <<2>>>>}
MCResponses == {<<1>>, <<2>>, <<3>>, <<1, 2>>, <<1, 3>>}
=============================================================================
