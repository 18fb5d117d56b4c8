------------------------------ MODULE MyWhich -------------------------------
(***************************************************************************)
(* assign1/mywhich.c: each name is looked for in the directories of a      *)
(* colon-separated list, which strtok cuts up in a copy made for the name. *)
(* A directory is one character of the list, or several.                   *)
(***************************************************************************)
EXTENDS SequencesExt, Integers

CONSTANTS
    PathLists,      \* the values of PATH, or of the argument behind -p
    Names,          \* the file names
    MaxNames,       \* bound: the names of a command
    Readable        \* the <<directory, name>> that fopen can read

ASSUME WhichAssumption == PathLists \subseteq Seq(STRING) /\ MaxNames \in Nat

COLON == ":"

VARIABLES
    dirs,           \* the list
    filenames,      \* the names on the command line
    nextName,       \* i of cutAndFind
    unread,         \* what strtok has not cut off dirLocal yet
    found           \* the <<directory, name>> printed

whichVars == <<dirs, filenames, nextName, unread, found>>
IDLE == <<"idle">>

WhichOff == dirs = <<>> /\ filenames = <<>> /\ nextName = 0 /\ unread = IDLE /\ found = <<>>

\* Without -p or PATH nothing happens: the empty list.
WhichInit ==
    /\ dirs \in PathLists /\ filenames \in SeqOf(Names, MaxNames)
    /\ nextName = 1 /\ unread = IDLE /\ found = <<>>

\* strtok: delimiters are skipped, then it is cut at the next one.
Skipped(s) == SelectInSeq(s, LAMBDA c : c # COLON)
Trimmed(s) == SubSeq(s, Skipped(s), Len(s))
TokenEnd(s) ==
    LET k == SelectInSeq(Trimmed(s), LAMBDA c : c = COLON)
    IN  IF k = 0 THEN Len(Trimmed(s)) ELSE k - 1
Token(s) == SubSeq(Trimmed(s), 1, TokenEnd(s))
AfterToken(s) == SubSeq(Trimmed(s), TokenEnd(s) + 2, Len(Trimmed(s)))

\* strcpy of the list into dirLocal.
CopyDirs ==
    /\ nextName \in DOMAIN filenames /\ unread = IDLE /\ unread' = dirs
    /\ UNCHANGED <<dirs, filenames, nextName, found>>

\* Mutant of TryDir: strtok cuts the list itself.
TryDirInPlace ==
    LET full == <<Token(unread), filenames[nextName]>>
    IN  /\ unread # IDLE /\ Skipped(unread) # 0
        /\ dirs' = Token(dirs)
        /\ IF full \in Readable
           THEN found' = Append(found, full) /\ nextName' = nextName + 1 /\ unread' = IDLE
           ELSE unread' = AfterToken(unread) /\ UNCHANGED <<found, nextName>>
        /\ UNCHANGED filenames

\* The next directory: if the file opens there it is printed, and that is all
\* for its name.
TryDir ==
    LET full == <<Token(unread), filenames[nextName]>>
    IN  /\ unread # IDLE /\ Skipped(unread) # 0
        /\ IF full \in Readable
           THEN found' = Append(found, full) /\ nextName' = nextName + 1 /\ unread' = IDLE
           ELSE unread' = AfterToken(unread) /\ UNCHANGED <<found, nextName>>
        /\ UNCHANGED <<dirs, filenames>>

\* strtok has returned NULL.
GiveUp ==
    /\ unread # IDLE /\ Skipped(unread) = 0
    /\ nextName' = nextName + 1 /\ unread' = IDLE /\ UNCHANGED <<dirs, filenames, found>>

WhichNext == CopyDirs \/ TryDir \/ GiveUp

-----------------------------------------------------------------------------
\* Where the directories of a list begin, its longest pieces without a colon,
\* and the one that begins there.
Starts(s) == {i \in DOMAIN s : s[i] # COLON /\ (i = 1 \/ s[i - 1] = COLON)}
DirAt(s, i) == SubSeq(s, i, Max({j \in i .. Len(s) : \A k \in i .. j : s[k] # COLON}))

\* Where the directories begin that have the n-th name.
Having(n) == {i \in Starts(dirs) : <<DirAt(dirs, i), filenames[n]>> \in Readable}

\* What should be printed for the first names.
WithAnswer(n, before) ==
    IF Having(n) = {} THEN before
    ELSE Append(before, <<DirAt(dirs, Min(Having(n))), filenames[n]>>)

Answers ==
    LET upto[n \in 0 .. Len(filenames)] == IF n = 0 THEN <<>> ELSE WithAnswer(n, upto[n - 1])
    IN  upto

\* Every name so far was printed once, in its first directory in the order of
\* the list, or not at all when none has it, also after other names have had
\* the list cut up (cutAndFind 62-99).
FindsFirst == nextName # 0 => found = Answers[nextName - 1]
=============================================================================
