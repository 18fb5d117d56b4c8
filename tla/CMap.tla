-------------------------------- MODULE CMap --------------------------------
(***************************************************************************)
(* assign3/cmap.c as operators on [nbuckets, buckets, size].  A bucket is  *)
(* the sequence of its linked cells, a cell the bytes behind its next      *)
(* pointer: key, terminator, value.  Keys are sequences of characters 1    *)
(* and up; a value is one byte.  A pointer into a cell is <<bucket,        *)
(* position>>, NULL is <<>>.  The empty stub cmap_remove is left out.      *)
(***************************************************************************)
EXTENDS SequencesExt, Integers

CONSTANTS
    DefaultBuckets,   \* DEFAULT_CAPACITY: 1023
    Multiplier,       \* MULTIPLIER: 2630849305
    WordMod           \* 2^64, the range of an unsigned long

ASSUME MapAssumption == DefaultBuckets \in Nat \ {0} /\ Multiplier \in Nat /\ WordMod \in Nat \ {0}

NUL == 0
NULL == <<>>

\* Linear congruence, wrapping, folded into the buckets.
Hash(s, nbuckets) ==
    LET code[i \in 0 .. Len(s)] ==
          IF i = 0 THEN 0 ELSE (code[i - 1] * Multiplier + s[i]) % WordMod
    IN  code[Len(s)] % nbuckets

CmapCreate(hint) ==
    LET n == IF hint = 0 THEN DefaultBuckets ELSE hint
    IN  [nbuckets |-> n, buckets |-> [i \in 0 .. n - 1 |-> <<>>], size |-> 0]

BuildCell(key, v) == key \o <<NUL, v>>

\* The key a client reads through a key pointer: up to the first NUL.
KeyIn(cell) == SubSeq(cell, 1, SelectInSeq(cell, LAMBDA c : c = NUL) - 1)

\* strncmp over the length of the given key: a longer key in the cell matches.
SameKey(cell, key) == IsPrefix(key, cell)

\* Where the walk along key's bucket stops: the first match, or 0.
Find(m, key) == SelectInSeq(m.buckets[Hash(key, m.nbuckets)], LAMBDA cell : SameKey(cell, key))

\* Mutant of CmapPut: an existing key is appended like a new one.
PutAppends(m, key, v) ==
    [m EXCEPT !.buckets[Hash(key, m.nbuckets)] = Append(@, BuildCell(key, v)), !.size = @ + 1]

\* Mutant of CmapPut: the value of an existing key goes to the bucket's head.
PutReplacesHead(m, key, v) ==
    LET b == Hash(key, m.nbuckets)
    IN  IF Find(m, key) # 0 THEN [m EXCEPT !.buckets[b][1][Len(m.buckets[b][1])] = v]
        ELSE PutAppends(m, key, v)

\* An existing value is overwritten at the given key's length, not the cell's.
CmapPut(m, key, v) ==
    LET b == Hash(key, m.nbuckets)
        i == Find(m, key)
    IN  IF i # 0 THEN [m EXCEPT !.buckets[b][i][Len(key) + 2] = v]
        ELSE [m EXCEPT !.buckets[b] = Append(@, BuildCell(key, v)), !.size = @ + 1]

\* The byte behind the matched key, or NoByte for NULL.
CmapGet(m, key, noByte) ==
    LET i == Find(m, key)
    IN  IF i = 0 THEN noByte ELSE m.buckets[Hash(key, m.nbuckets)][i][Len(key) + 2]

\* Mutant of HeadFrom: the scan of the later buckets starts at the same one.
HeadFromSame(m, b) ==
    LET full == {i \in Max({b - 1, 0}) .. m.nbuckets - 1 : m.buckets[i] # <<>>}
    IN  IF full = {} THEN NULL ELSE <<Min(full), 1>>

\* The first cell of the first nonempty bucket from b on.
HeadFrom(m, b) ==
    LET full == {i \in b .. m.nbuckets - 1 : m.buckets[i] # <<>>}
    IN  IF full = {} THEN NULL ELSE <<Min(full), 1>>

CmapFirst(m) == IF m.size = 0 THEN NULL ELSE HeadFrom(m, 0)

KeyAt(m, p) == KeyIn(m.buckets[p[1]][p[2]])

\* prevkey is looked up again by its characters, then its cell's successor
\* or the next bucket's head is taken.
CmapNext(m, prev) ==
    LET key == KeyAt(m, prev)
        b   == Hash(key, m.nbuckets)
        i   == Find(m, key)
    IN  IF i = 0 THEN NULL
        ELSE IF i < Len(m.buckets[b]) THEN <<b, i + 1>> ELSE HeadFrom(m, b + 1)

\* cmap_dispose: where its iteration stands from round to round; cellptrs has
\* room for size of them.
Walk(m) ==
    LET cell[k \in 0 .. m.size] ==
          IF k = 0 THEN CmapFirst(m)
          ELSE IF cell[k - 1] = NULL THEN NULL ELSE CmapNext(m, cell[k - 1])
    IN  cell

HasNext(m, p) == p # NULL /\ p[2] < Len(m.buckets[p[1]])

\* Mutant of NextCells: the cells the iteration names are collected, not their
\* nexts.
NamedCells(m) == [k \in {j \in 0 .. m.size : Walk(m)[j] # NULL} |-> Walk(m)[k]]

\* The next pointers it collects, and frees where they are not NULL.
NextCells(m) ==
    [k \in {j \in 0 .. m.size : HasNext(m, Walk(m)[j])} |-> <<Walk(m)[k][1], Walk(m)[k][2] + 1>>]

\* The heads of the buckets, which are freed last.
Heads(m) == {<<b, 1>> : b \in {c \in 0 .. m.nbuckets - 1 : m.buckets[c] # <<>>}}
=============================================================================
