------------------------------- MODULE Simple -------------------------------
(***************************************************************************)
(* assign7/simple.c: a linked list in blocks of the allocator, whose       *)
(* neighbours are joined until one cell is left, which is freed.  A block  *)
(* holds a cell [string, next] or a string, the sequence of the numbers    *)
(* that it spells between its dashes.                                      *)
(***************************************************************************)
EXTENDS Functions, FiniteSets, Sequences, Integers

CONSTANTS
    Addresses,     \* where blocks may lie
    NumCells       \* the cells pushed: 200

ASSUME SimpleAssumption == NumCells \in Nat /\ Addresses \subseteq Nat \ {0}

NULL == 0

VARIABLES
    stage,         \* "off", "push", "join", "free", "ended",
                   \* or the crash, "null_write"
    live,          \* the blocks, by address
    list,          \* the head
    cur            \* the cell at which concat_neighbors stands

simpleVars == <<stage, live, list, cur>>

SimpleZero == live = [a \in {} |-> <<>>] /\ list = NULL /\ cur = NULL
SimpleOff == stage = "off" /\ SimpleZero
SimpleInit == stage = "push" /\ SimpleZero

Put(blocks, a, content) == [b \in DOMAIN blocks \cup {a} |-> IF b = a THEN content ELSE blocks[b]]
Drop(blocks, as) == Restrict(blocks, DOMAIN blocks \ as)

\* mymalloc: NULL, or any free address.
Fresh(blocks) == {NULL} \cup (Addresses \ DOMAIN blocks)

Pushed == Cardinality(DOMAIN live) \div 2

\* The cell, then its string; the writes follow unchecked.
Push ==
    /\ stage = "push" /\ Pushed < NumCells
    /\ \E c \in Fresh(live) :
         \E s \in Fresh(Put(live, c, <<>>)) :
            IF NULL \in {c, s} THEN stage' = "null_write" /\ UNCHANGED <<live, list>>
            ELSE /\ live' = Put(Put(live, c, [string |-> s, next |-> list]), s, <<Pushed>>)
                 /\ list' = c /\ UNCHANGED stage
    /\ UNCHANGED cur

BeginJoin == stage = "push" /\ Pushed = NumCells /\ stage' = "join" /\ UNCHANGED <<live, list, cur>>

\* The loop of main: another round as long as two cells are left.
Round ==
    /\ stage = "join" /\ cur = NULL
    /\ IF list # NULL /\ live[list].next # NULL
       THEN cur' = list /\ UNCHANGED stage
       ELSE stage' = "free" /\ UNCHANGED cur
    /\ UNCHANGED <<live, list>>

\* Mutant of Spliced: the neighbour's string is freed, its cell is not.
SplicedLeaks(blocks, c, s) ==
    LET next == blocks[blocks[c].next]
    IN  Drop(Put(Put(Drop(blocks, {blocks[c].string}), c, [string |-> s, next |-> next.next]),
                 s, blocks[blocks[c].string] \o blocks[next.string]),
             {next.string})

\* Cell c takes over the string of its neighbour, in a block at s, and the
\* neighbour's two blocks are freed.
Spliced(blocks, c, s) ==
    LET next == blocks[blocks[c].next]
    IN  Drop(Put(Put(Drop(blocks, {blocks[c].string}), c, [string |-> s, next |-> next.next]),
                 s, blocks[blocks[c].string] \o blocks[next.string]),
             {next.string, blocks[c].next})

\* One iteration of concat_neighbors.  myrealloc keeps a string that has room
\* for both, or gives it up when it looks for room; nothing checks the answer.
JoinNext ==
    /\ stage = "join" /\ cur # NULL /\ live[cur].next # NULL
    /\ \E s \in {live[cur].string} \cup Fresh(Drop(live, {live[cur].string})) :
         IF s = NULL THEN stage' = "null_write" /\ UNCHANGED <<live, cur>>
         ELSE live' = Spliced(live, cur, s) /\ cur' = live'[cur].next /\ UNCHANGED stage
    /\ UNCHANGED list

EndRound ==
    /\ stage = "join" /\ cur # NULL /\ live[cur].next = NULL
    /\ cur' = NULL /\ UNCHANGED <<stage, live, list>>

\* One iteration of free_list: next is read before the cell is freed.
FreeCell ==
    /\ stage = "free" /\ list # NULL
    /\ live' = Drop(live, {live[list].string, list})
    /\ list' = live[list].next /\ UNCHANGED <<stage, cur>>

Leave == stage = "free" /\ list = NULL /\ stage' = "ended" /\ UNCHANGED <<live, list, cur>>

SimpleNext == Push \/ BeginJoin \/ Round \/ JoinNext \/ EndRound \/ FreeCell \/ Leave

-----------------------------------------------------------------------------
\* The cells of the list, from the head on.
Cells ==
    LET most == Cardinality(DOMAIN live)
        from[n \in 0 .. most] ==
          IF n = 0 THEN <<>>
          ELSE LET cells == from[n - 1]
                   c == IF cells = <<>> THEN list ELSE live[cells[Len(cells)]].next
               IN  IF c = NULL THEN cells ELSE Append(cells, c)
    IN  from[most]

\* The numbers the strings spell, along the list.
Spelt ==
    LET spelt[k \in 0 .. Len(Cells)] ==
          IF k = 0 THEN <<>> ELSE spelt[k - 1] \o live[live[Cells[k]].string]
    IN  spelt[Len(Cells)]

\* Whatever addresses the allocator reuses, the list's cells and strings are
\* exactly the live blocks, each the part of one cell: nothing is lost, freed
\* twice or used after it was freed; and however far the joining has come, the
\* strings spell all the numbers, the last first (concat_neighbors 52-64,
\* free_list 39-47).
ListOwnsHeap ==
    stage \in {"push", "join", "free", "ended"} =>
      /\ {list, cur} \subseteq DOMAIN live \cup {NULL}
      /\ {Cells[k] : k \in DOMAIN Cells} \cup {live[Cells[k]].string : k \in DOMAIN Cells} = DOMAIN live
      /\ Cardinality(DOMAIN live) = 2 * Len(Cells)
      /\ stage = "join" => Spelt = [n \in 1 .. NumCells |-> NumCells - n]
=============================================================================
