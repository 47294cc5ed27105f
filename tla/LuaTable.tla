------------------------------ MODULE LuaTable ------------------------------
(***************************************************************************)
(* Tables of the vendored Lua (core/contrib/lua/src/ltable.c): an array    *)
(* part and a hash part whose collisions are chained through the free      *)
(* nodes, resized together when no node is free.                           *)
(*                                                                         *)
(* A table is a record: array, node (a function from 0, empty for the dummy*)
(* node) and lastfree.  A node has a key, a value, the index of the next in*)
(* its chain or -1, and whether the collector found its key dead.          *)
(***************************************************************************)
EXTENDS Integers, Sequences, FiniteSets, FiniteSetsExt

CONSTANTS
    Integers,     \* the integer keys
    Names,        \* keys that are strings
    Pointers,     \* keys that are objects
    Floats,       \* floats with an integral value, as keys
    AsInteger,    \* the integer of each of them
    Hash,         \* the hash of a string, the address of an object
    Values, Nil,
    MaxBits       \* bound on the logarithm of a size

ASSUME TableAssumption ==
    /\ Integers \subseteq Int
    /\ AsInteger \in [Floats -> Integers]
    /\ Hash \in [Names \cup Pointers -> Nat]
    /\ MaxBits \in Nat

Keys == Integers \cup Names \cup Pointers

VARIABLES
    table,     \* the table
    cursor,    \* the key a traversal is at; Nil before the first
    visited,   \* the keys it returned
    walking    \* whether one is going on

tableVars == <<table, cursor, visited, walking>>

NoKey == [key |-> Nil, value |-> Nil, next |-> -1, dead |-> FALSE]
EmptyNodes(size) == [i \in 0 .. (size - 1) |-> NoKey]
NodeCount(t) == Cardinality(DOMAIN t.node)
IsDummy(t) == DOMAIN t.node = {}

\* luaH_new()
EmptyTable == [array |-> <<>>, node |-> EmptyNodes(0), lastfree |-> 0]

-----------------------------------------------------------------------------
(* Looking up. *)

\* mainposition(): integers and strings modulo the size, objects modulo an odd number.
MainPosition(t, k) ==
    LET size == NodeCount(t)
    IN  IF k \in Int THEN k % size
        ELSE IF k \in Names THEN Hash[k] % size
        ELSE Hash[k] % (IF size = 1 THEN 1 ELSE size - 1)

InArray(t, k) == k \in Int /\ k >= 1 /\ k <= Len(t.array)

\* The node of the chain from i with this key, or -1; a dead key is equal to none.
RECURSIVE Chain(_, _, _, _)
Chain(t, k, i, dead) ==
    IF i = -1 THEN -1
    ELSE IF t.node[i].key = k /\ t.node[i].dead \in {FALSE, dead} THEN i
    ELSE Chain(t, k, t.node[i].next, dead)

\* The dummy node holds no key.
NodeOf(t, k) == IF IsDummy(t) THEN -1 ELSE Chain(t, k, MainPosition(t, k), FALSE)

Normal(k) == IF k \in Floats THEN AsInteger[k] ELSE k

\* luaH_get()
Get(t, key) ==
    LET k == Normal(key)
    IN  IF InArray(t, k) THEN t.array[k]
        ELSE IF NodeOf(t, k) = -1 THEN Nil ELSE t.node[NodeOf(t, k)].value

-----------------------------------------------------------------------------
(* Sizes. *)

\* Seeded error: half is enough.
OptimalHalf(ints) ==
    LET Count(n) == Cardinality({k \in ints : k <= n})
        fits == {i \in 0 .. MaxBits : 2 * Count(2 ^ i) >= 2 ^ i}
    IN  IF fits = {} THEN 0 ELSE 2 ^ Max(fits)

\* computesizes(): the largest power of two more than half of which would be used.
OptimalArray(ints) ==
    LET Count(n) == Cardinality({k \in ints : k <= n})
        Slice(i) == {k \in ints : k <= 2 ^ i /\ (i = 0 \/ k > 2 ^ (i - 1))}
        fits == {i \in 0 .. MaxBits :
                    /\ Cardinality(ints) > (2 ^ i) \div 2
                    /\ Slice(i) # {}
                    /\ Count(2 ^ i) > (2 ^ i) \div 2}
    IN  IF fits = {} THEN 0 ELSE 2 ^ Max(fits)

\* numusearray(), numusehash(): the keys with a value.
UsedArray(t) == {i \in DOMAIN t.array : t.array[i] # Nil}
UsedHash(t) == {t.node[i].key : i \in {j \in DOMAIN t.node : t.node[j].value # Nil}}
ArrayIndexes(S) == {k \in S \cap Integers : k >= 1}

\* setnodevector(): the size becomes a power of two.
NodeVector(n) ==
    IF n = 0 THEN EmptyNodes(0) ELSE EmptyNodes(Min({2 ^ i : i \in {j \in 0 .. MaxBits : 2 ^ j >= n}}))

\* setarrayvector()
ArrayVector(a, n) == [i \in 1 .. n |-> IF i <= Len(a) THEN a[i] ELSE Nil]

-----------------------------------------------------------------------------
(* Inserting. *)

\* getfreepos(): the free nodes below lastfree, of which the highest is taken.
FreePos(t) == {i \in DOMAIN t.node : i < t.lastfree /\ t.node[i].key = Nil}

\* Seeded error: the moved node forgets the rest of its chain.
MoveCollidingShort(t, mp, f) ==
    LET previous == CHOOSE i \in DOMAIN t.node : t.node[i].next = mp
    IN  [t EXCEPT !.node = [@ EXCEPT ![previous].next = f,
                                     ![f] = [t.node[mp] EXCEPT !.next = -1],
                                     ![mp] = NoKey]]

\* The node at mp is not at its own main position: it moves to f, and its chain with it.
MoveColliding(t, mp, f) ==
    LET othern == MainPosition(t, t.node[mp].key)
        RECURSIVE Previous(_)
        Previous(i) == IF t.node[i].next = mp THEN i ELSE Previous(t.node[i].next)
    IN  [t EXCEPT !.node = [@ EXCEPT ![Previous(othern)].next = f,
                                     ![f] = t.node[mp],
                                     ![mp].next = -1]]

\* The node at mp stays: f is chained behind it.
ChainBehind(t, mp, f) ==
    [t EXCEPT !.node = [@ EXCEPT ![f].next = t.node[mp].next, ![mp].next = f]]

PutAt(t, i, k, v) == [t EXCEPT !.node[i] = [@ EXCEPT !.key = k, !.value = v, !.dead = FALSE]]

RECURSIVE SetKey(_, _, _), NewKey(_, _, _), Resize(_, _, _), InsertAll(_, _)

\* luaH_set(), and the value stored
SetKey(t, k, v) ==
    IF InArray(t, k) THEN [t EXCEPT !.array[k] = v]
    ELSE IF NodeOf(t, k) # -1 THEN [t EXCEPT !.node[NodeOf(t, k)].value = v]
    ELSE NewKey(t, k, v)

\* rehash(), with the extra key.
Rehash(t, k) ==
    LET used == UsedArray(t) \cup UsedHash(t) \cup {k}
        asize == OptimalArray(ArrayIndexes(used))
    IN  Resize(t, asize, Cardinality({x \in used : ~(x \in Integers /\ x >= 1 /\ x <= asize)}))

\* luaH_newkey()
NewKey(t, k, v) ==
    LET mp == MainPosition(t, k)
        f == Max(FreePos(t))
        looked == [t EXCEPT !.lastfree = f]
    IN  IF ~IsDummy(t) /\ t.node[mp].value = Nil THEN PutAt(t, mp, k, v)
        ELSE IF IsDummy(t) \/ FreePos(t) = {} THEN SetKey(Rehash(t, k), k, v)
        ELSE IF MainPosition(t, t.node[mp].key) # mp
             THEN PutAt(MoveColliding(looked, mp, f), mp, k, v)
             ELSE PutAt(ChainBehind(looked, mp, f), f, k, v)

\* The pairs of a sequence inserted one after the other.
InsertAll(t, pairs) ==
    IF pairs = <<>> THEN t
    ELSE InsertAll(SetKey(t, pairs[1][1], pairs[1][2]), Tail(pairs))

\* luaH_resize(): what the array loses and then what the old nodes held, the last first.
Resize(t, nasize, nhsize) ==
    LET array == ArrayVector(t.array, nasize)
        lost == [i \in 1 .. (IF nasize < Len(t.array) THEN Len(t.array) - nasize ELSE 0) |->
                    <<nasize + i, t.array[nasize + i]>>]
        size == NodeCount(t)
        old == [j \in 1 .. size |-> <<t.node[size - j].key, t.node[size - j].value>>]
        Present(p) == p[2] # Nil
        node == NodeVector(nhsize)
    IN  InsertAll([array |-> array, node |-> node, lastfree |-> Cardinality(DOMAIN node)],
                  SelectSeq(lost, Present) \o SelectSeq(old, Present))

-----------------------------------------------------------------------------
(* Traversal. *)

\* findindex(): array elements first, then the nodes; a dead key still has its place.
FindIndex(t, k) ==
    IF k = Nil THEN 0
    ELSE IF InArray(t, k) THEN k
    ELSE Chain(t, k, MainPosition(t, k), TRUE) + 1 + Len(t.array)

\* luaH_next(): the next key with a value, or Nil at the end.
NextKey(t, k) ==
    LET i == FindIndex(t, k)
        cells == {j \in DOMAIN t.array : j > i /\ t.array[j] # Nil}
        nodes == {j \in DOMAIN t.node : j >= i - Len(t.array) /\ t.node[j].value # Nil}
    IN  IF cells # {} THEN Min(cells)
        ELSE IF nodes # {} THEN t.node[Min(nodes)].key
        ELSE Nil

-----------------------------------------------------------------------------
(* The border. *)

RECURSIVE Halve(_, _, _)
Halve(t, i, j) ==
    IF j - i <= 1 THEN i
    ELSE IF Get(t, (i + j) \div 2) = Nil THEN Halve(t, i, (i + j) \div 2)
    ELSE Halve(t, (i + j) \div 2, j)

\* unbound_search(): doubles until an index is absent, then halves.
RECURSIVE UnboundSearch(_, _, _)
UnboundSearch(t, i, j) ==
    IF Get(t, j) # Nil THEN UnboundSearch(t, j, j * 2) ELSE Halve(t, i, j)

\* luaH_getn()
Getn(t) ==
    LET j == Len(t.array)
    IN  IF j > 0 /\ t.array[j] = Nil THEN Halve(t, 0, j)
        ELSE IF IsDummy(t) THEN j
        ELSE UnboundSearch(t, j, j + 1)

-----------------------------------------------------------------------------
TableInit ==
    /\ table = EmptyTable
    /\ cursor = Nil /\ visited = {} /\ walking = FALSE

Assign(key, v) ==
    /\ walking => Get(table, key) # Nil
    /\ table' = SetKey(table, Normal(key), v)
    /\ UNCHANGED <<cursor, visited, walking>>

\* luaH_resizearray(): a constructor stores many elements at once.
ResizeArray(n) ==
    /\ ~walking
    /\ n > Len(table.array)
    /\ table' = Resize(table, n, NodeCount(table))
    /\ UNCHANGED <<cursor, visited, walking>>

\* The collector marks the key of a node that has no value as dead (lgc.c, removeentry).
RemoveEntry(i) ==
    /\ table.node[i].value = Nil
    /\ table.node[i].key \in Names \cup Pointers
    /\ ~table.node[i].dead
    /\ table' = [table EXCEPT !.node[i].dead = TRUE]
    /\ UNCHANGED <<cursor, visited, walking>>

Begin ==
    /\ ~walking
    /\ walking' = TRUE /\ cursor' = Nil /\ visited' = {}
    /\ UNCHANGED table

Step ==
    /\ walking
    /\ LET k == NextKey(table, cursor)
       IN  /\ walking' = (k # Nil)
           /\ cursor' = k
           /\ visited' = IF k = Nil THEN {} ELSE visited \cup {k}
    /\ UNCHANGED table

TableNext ==
    \/ \E key \in Keys \cup Floats, v \in Values \cup {Nil} : Assign(key, v)
    \/ \E n \in 1 .. Max(Integers) : ResizeArray(n)
    \/ \E i \in DOMAIN table.node : RemoveEntry(i)
    \/ Begin
    \/ Step

-----------------------------------------------------------------------------
Contents == [k \in Keys |-> Get(table, k)]

Map == INSTANCE LuaMap WITH map <- Contents

\* Every lookup finds what was last assigned, through collisions, moves, dead keys and
\* rehashes: the table implements a map (ltable.c).
ImplementsMap == Map!Spec

\* The length is a border: nothing follows it, and it is 0 or an index that is present.
LengthIsBorder ==
    LET n == Getn(table)
    IN  (n # 0 => Get(table, n) # Nil) /\ Get(table, n + 1) = Nil

\* A traversal returns no key twice and none is missing at its end, although its values are
\* assigned, erased and collected meanwhile (ltable.c:158-210).
VisitsAllOnce ==
    [][walking /\ UNCHANGED table =>
          IF walking' THEN cursor' \notin visited
          ELSE \A k \in Keys : Get(table, k) # Nil => k \in visited]_tableVars

\* When no node is free for a key, the rehash makes room for it and for every key there is,
\* and more than half of the array part it chooses will be in use (ltable.c:212-247).
RehashMakesRoom ==
    FreePos(table) = {} =>
        \A k \in {x \in Keys : ~InArray(table, x) /\ NodeOf(table, x) = -1} :
            LET t == Rehash(table, k)
                indexes == UsedArray(t) \cup ({k} \cap DOMAIN t.array)
            IN  /\ Len(t.array) > 0 => 2 * Cardinality(indexes) > Len(t.array)
                /\ k \notin DOMAIN t.array => Cardinality(UsedHash(t) \cup {k}) <= NodeCount(t)

\* A table is a map to the programs that assign and traverse, whatever collides and is rehashed, erased or
\* collected in between (ltable.c).
TableIsMap == ImplementsMap /\ VisitsAllOnce

\* The two parts of a table fit together: a new key finds room, and the length is a border
\* (ltable.c).
PartsFitTogether == LengthIsBorder /\ RehashMakesRoom
=============================================================================
