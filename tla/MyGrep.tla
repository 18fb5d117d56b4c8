------------------------------- MODULE MyGrep -------------------------------
(***************************************************************************)
(* assign1/mygrep.c: the lines of a file are read into one buffer, and the *)
(* first match of the pattern in each is printed with emphasis.  Characters*)
(* are numbers, NUL ends a string, and what a line leaves of an earlier,   *)
(* longer one stays in the buffer behind its end.                          *)
(***************************************************************************)
EXTENDS SequencesExt, Integers

CONSTANTS
    Patterns,       \* the patterns, sequences of characters
    Lines,          \* the lines of the files, without their newline
    BufferSize,     \* MAX_LINE_LEN
    OldBytes        \* what an uninitialized buffer may hold

NUL == 0

ASSUME GrepAssumption ==
    /\ BufferSize \in Nat
    /\ \A l \in Lines : l \in Seq(Nat) /\ Len(l) < BufferSize
    /\ Patterns \subseteq Seq(Nat \ {NUL}) /\ OldBytes \subseteq Nat

DOT == 10
STAR == 11
CARET == 12
FAIL == -1
NOLINE == <<"none">>

VARIABLES
    pattern,
    line,           \* the buffer of grep_file
    shown           \* what was printed of the line: before, match, after

grepVars == <<pattern, line, shown>>

\* Behind the buffer a NUL: the bound of a read that runs out of it.
Byte(buf, i) == IF i < BufferSize THEN buf[i] ELSE NUL

\* The string that starts at i.
StrAt(buf, i) ==
    LET nul == CHOOSE j \in i .. i + BufferSize :
                 Byte(buf, j) = NUL /\ \A k \in i .. j - 1 : Byte(buf, k) # NUL
    IN  [k \in 1 .. nul - i |-> buf[i + k - 1]]

\* The last place the starred character c can take, taken greedily from i.
Far(buf, i, c) ==
    CHOOSE j \in i .. i + BufferSize :
      LET goesOn(k) == \/ Byte(buf, k + 1) = Byte(buf, k) /\ Byte(buf, k) = c
                       \/ c = DOT /\ Byte(buf, k + 1) # NUL
      IN  ~goesOn(j) /\ \A k \in i .. j - 1 : goesOn(k)

\* Mutant of LastThatFits: the star never gives back what it took.
FarOnly(from, far, ends) == ends[far + 1]

\* Backtracking: from far down to none at all, the first place behind which
\* the rest of the pattern matches; its end, or FAIL.
LastThatFits(from, far, ends) ==
    LET fits == {j \in from - 1 .. far : ends[j + 1] # FAIL}
    IN  IF fits = {} THEN FAIL ELSE ends[Max(fits) + 1]

\* *endp, or FAIL, for the last n characters of the pattern.
RegexMatch(buf, pat) ==
    LET match[n \in 0 .. Len(pat)] ==
          LET c       == pat[Len(pat) - n + 1]
              starred == n >= 2 /\ pat[Len(pat) - n + 2] = STAR
          IN  [i \in Nat |->
                 IF n = 0 \/ (n = 2 /\ starred /\ Byte(buf, i) = NUL) THEN i
                 ELSE IF starred /\ c # Byte(buf, i) /\ c # DOT THEN match[n - 2][i]
                 ELSE IF starred THEN LastThatFits(i, Far(buf, i, c), match[n - 2])
                 ELSE IF Byte(buf, i) = c \/ (c = DOT /\ Byte(buf, i) # NUL) THEN match[n - 1][i + 1]
                 ELSE FAIL]
    IN  match[Len(pat)]

Anchored(pat) == pat # <<>> /\ pat[1] = CARET
Behind(pat) == IF Anchored(pat) THEN Tail(pat) ELSE pat

\* The first match: [start, end], or none.  A ^ allows only the first place.
Search(buf, pat) ==
    LET match  == RegexMatch(buf, Behind(pat))
        places == {i \in 0 .. Len(StrAt(buf, 0)) - 1 : (Anchored(pat) => i = 0) /\ match[i] # FAIL}
    IN  IF places = {} THEN <<>> ELSE <<Min(places), match[Min(places)]>>

\* printf's precision stops at a NUL.
Piece(buf, from, to) ==
    SubSeq(StrAt(buf, from), 1, Min({to - from, Len(StrAt(buf, from))}))

PrintMatch(buf, pat) ==
    LET m == Search(buf, pat)
    IN  IF m = <<>> THEN <<>>
        ELSE <<Piece(buf, 0, m[1]), Piece(buf, m[1], m[2]), StrAt(buf, m[2])>>

GrepOff == pattern = <<>> /\ line = <<>> /\ shown = NOLINE

GrepInit ==
    /\ pattern \in Patterns /\ shown = NOLINE
    /\ line \in {[i \in 0 .. BufferSize - 1 |-> b] : b \in OldBytes}

\* fgets writes the line and a NUL over the buffer, print_match follows.
GrepLine(l) ==
    /\ line' = [i \in 0 .. BufferSize - 1 |->
                  IF i < Len(l) THEN l[i + 1] ELSE IF i = Len(l) THEN NUL ELSE line[i]]
    /\ shown' = PrintMatch(line', pattern)
    /\ UNCHANGED pattern

GrepNext == \E l \in Lines : GrepLine(l)

-----------------------------------------------------------------------------
Accepts(c, x) == c = DOT \/ c = x

\* What the last n characters of the pattern mean: where a match that starts at
\* i of the text ends, each star taking the most that lets the rest match.
MatchEnds(text, pat) ==
    LET ends[n \in 0 .. Len(pat)] ==
          LET c == pat[Len(pat) - n + 1]
          IN  [i \in 0 .. Len(text) |->
                 IF n = 0 THEN i
                 ELSE IF n >= 2 /\ pat[Len(pat) - n + 2] = STAR
                 THEN LET fits == {j \in i .. Len(text) :
                                     (\A k \in i + 1 .. j : Accepts(c, text[k])) /\ ends[n - 2][j] # FAIL}
                      IN  IF fits = {} THEN FAIL ELSE ends[n - 2][Max(fits)]
                 ELSE IF i < Len(text) /\ Accepts(c, text[i + 1]) THEN ends[n - 1][i + 1] ELSE FAIL]
    IN  ends[Len(pat)]

\* Behind a starred dot nothing may follow: the code looks past the end of
\* the line for it, at what an earlier line left there.
DotStarLast(pat) ==
    \A k \in 1 .. Len(pat) - 1 : pat[k] = DOT /\ pat[k + 1] = STAR => k + 1 = Len(pat)

\* Whatever lines came before, what is shown is the line itself, with its first
\* match emphasized as far as the stars reach (print_match 125-142).
ShowsFirstMatch ==
    shown # NOLINE /\ DotStarLast(pattern) =>
      LET text   == StrAt(line, 0)
          ends   == MatchEnds(text, Behind(pattern))
          places == {i \in 0 .. Len(text) - 1 : (Anchored(pattern) => i = 0) /\ ends[i] # FAIL}
          start  == Min(places)
      IN  shown = (IF places = {} THEN <<>>
                   ELSE <<SubSeq(text, 1, start), SubSeq(text, start + 1, ends[start]),
                          SubSeq(text, ends[start] + 1, Len(text))>>)
=============================================================================
