----------------------------- MODULE Thesaurus ------------------------------
(***************************************************************************)
(* assign3/thesaurus.c: a map from headwords to vectors of synonyms, built *)
(* from a file of lines and then asked.  Words are sequences of characters;*)
(* a line is its words, a comment or empty.  A vector's address, the value *)
(* in the map, is Base and its number; it fills one byte of a cell, as CMap *)
(* has values of one byte.                                                 *)
(***************************************************************************)
EXTENDS SequencesExt, Integers

CONSTANTS
    NUM_SYNONYMS, NUM_HEADWORDS,    \* the hints: 16 and 35000
    Multiplier, WordMod,            \* as in CMap
    Base,                           \* characters lie up to it, addresses above
    TextLines,                      \* the lines of data files
    MaxText,                        \* bound: the lines of a file
    Responses                       \* the words asked for

Map == INSTANCE CMap WITH DefaultBuckets <- 1
Vector == INSTANCE CVector WITH ElemSize <- 8, PointerSize <- 8, DefaultCapacity <- 16

ASSUME ThesaurusAssumption ==
    /\ NUM_SYNONYMS \in Nat \ {0} /\ NUM_HEADWORDS \in Nat \ {0}
    /\ Multiplier \in Nat /\ WordMod \in Nat \ {0} /\ Base \in Nat
    /\ TextLines \subseteq Seq(Seq(1 .. Base) \ {<<>>}) /\ Responses \subseteq Seq(1 .. Base) \ {<<>>}

HASH == 35
EMPTYLINE == <<>>
NOTHING == <<<<>>>>      \* no line has an empty word

IsEntry(line) == line # EMPTYLINE /\ line[1][1] # HASH

VARIABLES
    phase,       \* "off", "reading", "asking", "ended", "crashed"
    thesaurus,   \* the map
    synonyms,    \* every vector made, by number
    text,        \* history: the lines read
    reply        \* the word last asked for, and what was printed

thesaurusVars == <<phase, thesaurus, synonyms, text, reply>>

ThesaurusZero ==
    thesaurus = Map!CmapCreate(NUM_HEADWORDS) /\ synonyms = <<>> /\ text = <<>> /\ reply = <<>>
ThesaurusOff == phase = "off" /\ ThesaurusZero
ThesaurusInit == phase = "reading" /\ ThesaurusZero

\* The words behind the headword, appended one by one.
Collected(line) ==
    LET upto[n \in 1 .. Len(line)] ==
          IF n = 1 THEN Vector!CvecCreate(NUM_SYNONYMS)
          ELSE Vector!CvecInsert(upto[n - 1], line[n], upto[n - 1].size)
    IN  upto[Len(line)]

\* Mutant of Enter: the headword is put when buffer holds the last synonym.
EnterLate(line) ==
    /\ IsEntry(line)
    /\ synonyms' = Append(synonyms, Collected(line))
    /\ thesaurus' = Map!CmapPut(thesaurus, Last(line), Base + Len(synonyms'))
    /\ UNCHANGED phase

\* The vector is put before it is filled: the map holds its address.
Enter(line) ==
    /\ IsEntry(line)
    /\ synonyms' = Append(synonyms, Collected(line))
    /\ thesaurus' = Map!CmapPut(thesaurus, line[1], Base + Len(synonyms'))
    /\ UNCHANGED phase

Echo(line) == line # EMPTYLINE /\ ~IsEntry(line) /\ UNCHANGED <<phase, thesaurus, synonyms>>

\* read_line takes an empty line for the end of the file.
Stop(line) == line = EMPTYLINE /\ phase' = "asking" /\ UNCHANGED <<thesaurus, synonyms>>

\* read_thesaurus, a line at a time.
ReadText ==
    /\ phase = "reading" /\ Len(text) < MaxText
    /\ \E line \in TextLines : text' = Append(text, line) /\ (Enter(line) \/ Echo(line) \/ Stop(line))
    /\ UNCHANGED reply

EndOfText ==
    phase = "reading" /\ phase' = "asking" /\ UNCHANGED <<thesaurus, synonyms, text, reply>>

\* The elements from cur on, as cvec_next names them.
PrintedFrom(v) ==
    LET words[cur \in -1 .. v.size - 1] ==
          IF cur = Vector!NULL THEN <<>> ELSE <<Vector!CvecNth(v, cur)>> \o words[Vector!CvecNext(v, cur)]
    IN  words[Vector!CvecFirst(v)]

\* One question: what cmap_get finds is taken for the address of a vector.
Query(response) ==
    LET found == Map!CmapGet(thesaurus, response, -1)
    IN  /\ phase = "asking"
        /\ IF found = -1 \/ found - Base \in DOMAIN synonyms
           THEN /\ reply' =
                     <<response, IF found = -1 THEN NOTHING ELSE PrintedFrom(synonyms[found - Base])>>
                /\ UNCHANGED phase
           ELSE phase' = "crashed" /\ UNCHANGED reply
        /\ UNCHANGED <<thesaurus, synonyms, text>>

\* RETURN: the map is disposed.
Quit == phase = "asking" /\ phase' = "ended" /\ UNCHANGED <<thesaurus, synonyms, text, reply>>

ThesaurusNext == ReadText \/ EndOfText \/ (\E r \in Responses : Query(r)) \/ Quit

-----------------------------------------------------------------------------
Headwords == {text[k][1] : k \in {j \in DOMAIN text : IsEntry(text[j])}}

\* Two words of one bucket of which one begins the other: the map may take one
\* for the other (sameKey).
Confused(w, x) ==
    /\ w # x /\ Map!Hash(w, NUM_HEADWORDS) = Map!Hash(x, NUM_HEADWORDS)
    /\ IsPrefix(w, x) \/ IsPrefix(x, w)

\* A word that is not confused with a headword is answered with the words of
\* the last line it heads, in the line's order, and with nothing when it heads
\* none; also while other headwords are confused and damage each other's
\* cells, and while vectors grow (query 88-105).
AnswersFromFile ==
    reply # <<>> /\ ~(\E x \in Headwords : Confused(reply[1], x)) =>
      LET heads == {k \in DOMAIN text : IsEntry(text[k]) /\ text[k][1] = reply[1]}
      IN  reply[2] = IF heads = {} THEN NOTHING ELSE Tail(text[Max(heads)])
=============================================================================
