------------------------------ MODULE MapSpec -------------------------------
(***************************************************************************)
(* The map as a machine, used the way assign3/maptest.c and thesaurus.c    *)
(* use it: created with a capacity hint, filled, looked up, values written *)
(* in place through the pointer of cmap_get, iterated, disposed.           *)
(***************************************************************************)
EXTENDS CMap

CONSTANTS
    Keys,       \* the strings the clients use as keys
    Vals,       \* the bytes they store
    Hints       \* the capacity hints

ASSUME ClientAssumption ==
    /\ Keys \subseteq Seq(Nat \ {NUL}) /\ Vals \subseteq Nat /\ Hints \subseteq Nat

NoByte == -1

VARIABLES
    map,        \* the map
    cursor,     \* key of the for loop over cmap_first and cmap_next
    named,      \* the cells that loop has named
    answer      \* the key of a cmap_put or cmap_get, and the value put or found

vars == <<map, cursor, named, answer>>

Init ==
    /\ map \in {CmapCreate(h) : h \in Hints}
    /\ cursor = NULL /\ named = {} /\ answer = <<>>

\* cmap_dispose, and the next test's cmap_create.
Recreate(hint) ==
    /\ map' = CmapCreate(hint) /\ cursor' = NULL /\ named' = {} /\ answer' = <<>>

\* In the midst of iterating no key may be added (cmap.h 190).
Put(key, v) ==
    /\ cursor # NULL => Find(map, key) # 0
    /\ map' = CmapPut(map, key, v)
    /\ answer' = <<key, v>> /\ UNCHANGED <<cursor, named>>

\* *(int *)cmap_get(counts, key) is read, or counted up in place.
Get(key) == answer' = <<key, CmapGet(map, key, NoByte)>> /\ UNCHANGED <<map, cursor, named>>

Begin ==
    /\ cursor = NULL
    /\ cursor' = CmapFirst(map)
    /\ named' = {cursor'} \ {NULL}
    /\ answer' = <<>> /\ UNCHANGED map

Advance ==
    /\ cursor # NULL
    /\ cursor' = CmapNext(map, cursor)
    /\ named' = IF cursor' = NULL THEN {} ELSE named \cup {cursor'}
    /\ answer' = <<>> /\ UNCHANGED map

Next ==
    \/ \E h \in Hints : Recreate(h)
    \/ \E key \in Keys : Get(key) \/ \E v \in Vals : Put(key, v)
    \/ Begin
    \/ Advance

\* A for loop over the map, once begun, runs on.
Spec == Init /\ [][Next]_vars /\ WF_vars(Advance)

-----------------------------------------------------------------------------
Held(m) == UNION {{<<b, i>> : i \in DOMAIN m.buckets[b]} : b \in DOMAIN m.buckets}

\* The count is the number of cells, and each lies in the bucket its key hashes
\* to.  Within a bucket no key is a prefix of an earlier one, as put would have
\* taken it for that one: only therefore does the lookup of the previous key in
\* cmap_next find the very cell the iteration stands at (cmap.c 120-143, 185).
NextFindsItself ==
    /\ map.size = Cardinality(Held(map))
    /\ \A p \in Held(map) :
         KeyAt(map, p) \in Keys /\ Hash(KeyAt(map, p), map.nbuckets) = p[1]
           /\ Find(map, KeyAt(map, p)) = p[2]

\* cmap_dispose frees every cell, and each once, though it knows cells other
\* than bucket heads only through the next pointers it collected; and it never
\* collects more than its array holds (77-100).
FreesEachOnce ==
    /\ Walk(map)[map.size] = NULL
    /\ IsInjective(NextCells(map))
    /\ Range(NextCells(map)) \cap Heads(map) = {}
    /\ Range(NextCells(map)) \cup Heads(map) = Held(map)

\* The keys in a map, and the value of each.
KeysOf(m) == {KeyAt(m, p) : p \in Held(m)}
Table(m) ==
    [k \in KeysOf(m) |->
       LET p == CHOOSE q \in Held(m) : KeyAt(m, q) = k IN Last(m.buckets[p[1]][p[2]])]

\* No key has a NUL.
NoKey == <<NUL>>

\* The map is a function from keys to values, in every bucket that holds
\* several keys and while values change under an iteration.
Abstract == INSTANCE MapPromise
    WITH NoValue <- NoByte,
         table   <- Table(map),
         key     <- IF cursor = NULL THEN NoKey ELSE KeyAt(map, cursor),
         seen    <- {KeyAt(map, p) : p \in named}
ImplementsMap == Abstract!Spec

\* A loop over the keys ends, whatever values are put meanwhile.
IterationEnds == cursor # NULL ~> cursor = NULL
=============================================================================
