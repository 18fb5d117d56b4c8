------------------------------- MODULE Script -------------------------------
(***************************************************************************)
(* parse_script and read_line of assign7/alloctest.c: the requests of a    *)
(* script file are read line by line into an array that grows.  A line     *)
(* that is longer than the buffer of 1024 bytes comes from fgets in        *)
(* pieces, each taken for a line.  A piece is blank, a comment or what     *)
(* sscanf makes of it: the letter, how many items were scanned, the id and *)
(* the size.                                                               *)
(***************************************************************************)
EXTENDS Integers, Sequences

CONSTANTS
    FileLines,      \* the lines of script files, each the pieces it comes in
    MaxLines,       \* bound: the pieces of a file
    Chunk,          \* requests the array grows by: 500
    MaxInt          \* INT_MAX

Pieces == UNION {{line[k] : k \in DOMAIN line} : line \in FileLines}
IsRequest(l) == l.kind = "request"       \* neither "blank" nor "comment"

ASSUME ParserAssumption ==
    /\ FileLines \subseteq Seq(Pieces) \ {<<>>}
    /\ \A l \in Pieces : IsRequest(l) =>
         l.nscanned \in 1 .. 3 /\ l.id \in Int /\ l.id <= MaxInt /\ l.size \in Nat
    /\ Chunk \in Nat \ {0} /\ MaxLines \in Nat /\ MaxInt \in Nat

VARIABLES
    fate,           \* "off", "reading", "parsed", "malformed", "exhausted"
    lineno,
    nallocated,     \* the requests the array has room for
    ops,            \* script->ops, up to num_ops
    maxid,
    num_ids,        \* the size of script->blocks
    pending,        \* what fgets has left of a line
    file,           \* history: the pieces read
    lineOf          \* history: the line of the file each of them is of

scriptVars == <<fate, lineno, nallocated, ops, maxid, num_ids, pending, file, lineOf>>

ScriptZero ==
    /\ lineno = 0 /\ nallocated = 0 /\ ops = <<>> /\ maxid = 0 /\ num_ids = 0
    /\ pending = <<>> /\ file = <<>> /\ lineOf = <<>>
ScriptOff == fate = "off" /\ ScriptZero
ScriptInit == fate = "reading" /\ ScriptZero

\* Mutant of Skip: a line without a request is not counted.
SkipUncounted(l) ==
    /\ ~IsRequest(l) /\ file' = Append(file, l)
    /\ UNCHANGED <<fate, lineno, nallocated, ops, maxid, num_ids>>

Skip(l) ==
    /\ ~IsRequest(l) /\ file' = Append(file, l) /\ lineno' = lineno + 1
    /\ UNCHANGED <<fate, nallocated, ops, maxid, num_ids>>

\* The request a line names; NONE when there is none of that form.
NONE == "none"
OpOf(l) ==
    CASE l.request = "a" /\ l.nscanned = 3 -> "ALLOC"
      [] l.request = "r" /\ l.nscanned = 3 -> "REALLOC"
      [] l.request = "f" /\ l.nscanned = 2 -> "FREE"
      [] OTHER -> NONE

Malformed(l) == OpOf(l) = NONE \/ l.id < 0 \/ l.size > MaxInt

Room == IF Len(ops) = nallocated THEN nallocated + Chunk ELSE nallocated

\* One iteration of the loop; the heap may have no room for a larger array,
\* and a malformed line ends the program.
Request(l) ==
    /\ IsRequest(l) /\ file' = Append(file, l) /\ lineno' = lineno + 1
    /\ \/ /\ Room # nallocated /\ fate' = "exhausted"
          /\ UNCHANGED <<nallocated, ops, maxid>>
       \/ /\ nallocated' = Room
          /\ ops' = Append(ops, [op     |-> OpOf(l), id |-> l.id, lineno |-> lineno',
                                 size   |-> IF l.nscanned = 3 THEN l.size ELSE 0])
          /\ IF Malformed(l) THEN fate' = "malformed" /\ UNCHANGED maxid
             ELSE fate' = fate /\ maxid' = IF l.id > maxid THEN l.id ELSE maxid
    /\ UNCHANGED num_ids

\* fgets stops at the end of a line or of the buffer.
ReadLine ==
    /\ fate = "reading" /\ Len(file) < MaxLines
    /\ \E line \in (IF pending = <<>> THEN FileLines ELSE {pending}) :
         /\ Skip(Head(line)) \/ Request(Head(line))
         /\ pending' = Tail(line)
    /\ LET last == IF lineOf = <<>> THEN 0 ELSE lineOf[Len(lineOf)]
       IN  lineOf' = Append(lineOf, IF pending = <<>> THEN last + 1 ELSE last)

TableSize == maxid + 1

\* End of file.  The sum may leave int, and calloc may fail: it does for the
\* negative number that makes.
Close ==
    /\ fate = "reading" /\ pending = <<>>
    /\ \/ fate' = "parsed" /\ num_ids' = TableSize /\ TableSize <= MaxInt
       \/ fate' = "exhausted" /\ UNCHANGED num_ids
    /\ UNCHANGED <<lineno, nallocated, ops, maxid, pending, file, lineOf>>

ScriptNext == ReadLine \/ Close

-----------------------------------------------------------------------------
\* Every request is written within the array.  A parsed script is what reads
\* as a request in the file, piece by piece and in order: for a line that fits
\* the buffer the line itself, for a longer one each piece, also the tail of a
\* comment.  Each is reported under the number of its own line, unless a line
\* up to there came in pieces; nothing of another form gets through, and every
\* id has its block in the table that eval_correctness and eval_performance
\* index (read_line 203-213, parse_script 221-264).
ParsedExactly ==
    /\ Len(ops) <= nallocated
    /\ fate = "parsed" =>
         /\ {ops[k].lineno : k \in DOMAIN ops} = {n \in DOMAIN file : IsRequest(file[n])}
         /\ \A j, k \in DOMAIN ops : j < k => ops[j].lineno < ops[k].lineno
         /\ \A k \in DOMAIN ops :
              LET n == ops[k].lineno
                  l == file[n]
              IN  /\ lineOf[n] = n \/ \E i \in 2 .. n : lineOf[i] = lineOf[i - 1]
                  /\ ops[k].id = l.id /\ ops[k].id \in 0 .. num_ids - 1
                  /\ \/ l.request = "f" /\ l.nscanned = 2 /\ ops[k].op = "FREE"
                     \/ /\ l.nscanned = 3 /\ ops[k].size = l.size /\ l.size <= MaxInt
                        /\ <<l.request, ops[k].op>> \in {<<"a", "ALLOC">>, <<"r", "REALLOC">>}
=============================================================================
