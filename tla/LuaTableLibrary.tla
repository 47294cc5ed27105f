-------------------------- MODULE LuaTableLibrary ---------------------------
(***************************************************************************)
(* The table library of the vendored Lua (core/contrib/lua/src/ltablib.c). *)
(*                                                                         *)
(* Every comparison of table.sort() may call a function of the program, so *)
(* every comparison is a step, and its answer is either that of an order or*)
(* anything at all: the function may be inconsistent, and it may raise an  *)
(* error.                                                                  *)
(*                                                                         *)
(* insert, remove, move, concat, pack and unpack move or collect elements  *)
(* one at a time, in an order that must not overwrite what is still to be  *)
(* read, and compute positions and counts in lua_Integer, which wraps.     *)
(***************************************************************************)
EXTENDS Integers, Sequences, FiniteSets

LOCAL INSTANCE SequencesExt

-----------------------------------------------------------------------------
(* table.sort() *)
CONSTANTS
    Length,       \* n, the length of the list
    Elements,     \* the integers it holds
    RanLimit,     \* RANLIMIT, intervals up to this size take the middle as pivot
    Imbalance     \* 128, how uneven a partition has to be to choose pivots at random

ASSUME SortAssumption ==
    /\ Length \in Nat /\ Length >= 2
    /\ Elements \subseteq Int
    /\ RanLimit \in Nat /\ RanLimit >= 4
    /\ Imbalance \in Nat \ {0}

VARIABLES
    a,          \* the list
    original,   \* the list as it was
    ordered,    \* whether the comparison is an order
    lo, up,     \* the interval being sorted
    random,     \* whether its pivots are chosen at random
    pending,    \* the intervals the recursion has still to sort, and whether theirs are
    p, i, j,    \* the pivot's index, and the two that approach each other
    at          \* the comparison that is next, or "sorted" or "error"

sortVars == <<a, original, ordered, lo, up, random, pending, p, i, j, at>>

Swap(s, x, y) == [s EXCEPT ![x] = s[y], ![y] = s[x]]
Pivot == a[up - 1]

\* sort_comp(): whether x is before y, in what the program answers.
Answers(x, y) == IF ordered THEN {x < y} ELSE BOOLEAN

SortInit ==
    /\ original \in [1 .. Length -> Elements]
    /\ a = original
    /\ ordered \in BOOLEAN
    /\ lo = 1 /\ up = Length
    /\ pending = <<>>
    /\ random = FALSE
    /\ p = 0 /\ i = 0 /\ j = 0
    /\ at = "ends"

\* The intervals that are left, the smallest first; one of no or one element is sorted.
Continue(intervals) ==
    LET left == SelectSeq(intervals, LAMBDA x : x[1] < x[2])
    IN  IF left = <<>>
        THEN at' = "sorted" /\ UNCHANGED <<lo, up, random, pending>>
        ELSE /\ at' = "ends"
             /\ lo' = Head(left)[1] /\ up' = Head(left)[2] /\ random' = Head(left)[3]
             /\ pending' = Tail(left)

IntervalDone == Continue(pending) /\ UNCHANGED <<p, i, j>>

\* choosePivot()
Middle == IF up - lo < RanLimit \/ ~random THEN {(lo + up) \div 2}
          ELSE LET r4 == (up - lo) \div 4 IN lo + r4 .. lo + 3 * r4 - 1

-----------------------------------------------------------------------------
\* a[up] < a[lo]?
CompareEnds ==
    /\ at = "ends"
    /\ \E less \in Answers(a[up], a[lo]) : a' = IF less THEN Swap(a, lo, up) ELSE a
    /\ IF up - lo = 1 THEN IntervalDone
       ELSE at' = "low" /\ p' \in Middle /\ UNCHANGED <<lo, up, random, pending, i, j>>
    /\ UNCHANGED <<original, ordered>>

\* The pivot goes to the place before the last and the partition starts.
StartPartition(b) ==
    IF up - lo = 2 THEN a' = b /\ IntervalDone
    ELSE /\ a' = Swap(b, p, up - 1)
         /\ i' = lo /\ j' = up - 1
         /\ at' = "up"
         /\ UNCHANGED <<lo, up, random, pending, p>>

\* a[p] < a[lo]?
CompareLow ==
    /\ at = "low"
    /\ \E less \in Answers(a[p], a[lo]) :
          IF less THEN StartPartition(Swap(a, p, lo))
          ELSE at' = "high" /\ UNCHANGED <<a, lo, up, random, pending, p, i, j>>
    /\ UNCHANGED <<original, ordered>>

\* a[up] < a[p]?
CompareHigh ==
    /\ at = "high"
    /\ \E less \in Answers(a[up], a[p]) : StartPartition(IF less THEN Swap(a, p, up) ELSE a)
    /\ UNCHANGED <<original, ordered>>

\* Seeded error: an inconsistent order is not noticed on the way up.
CompareUpUnbounded ==
    /\ at = "up"
    /\ i' = i + 1
    /\ \E less \in Answers(a[i + 1], Pivot) : at' = IF less THEN "up" ELSE "down"
    /\ UNCHANGED <<a, original, ordered, lo, up, pending, random, p, j>>

\* a[++i] < P?
CompareUp ==
    /\ at = "up"
    /\ i' = i + 1
    /\ \E less \in Answers(a[i + 1], Pivot) :
          at' = IF ~less THEN "down" ELSE IF i + 1 = up - 1 THEN "error" ELSE "up"
    /\ UNCHANGED <<a, original, ordered, lo, up, pending, random, p, j>>

\* Seeded error: the interval that is left is not narrowed to one side of the pivot.
SplitSame(b, at_) ==
    /\ a' = Swap(b, up - 1, at_)
    /\ Continue(<<<<lo, at_ - 1, random>>, <<lo, up, random>>>> \o pending)

\* The pivot goes to its place and the smaller side is sorted first. When the other is much
\* larger, random pivots are tried for it (the clock may say 0, which means none).
Split(b, at_) ==
    LET left  == at_ - lo
        right == up - at_
        Uneven(small, large) == large \div Imbalance > small
    IN  /\ a' = Swap(b, up - 1, at_)
        /\ IF left < right
           THEN \E r \in IF Uneven(left, right - 1) THEN BOOLEAN ELSE {random} :
                   Continue(<<<<lo, at_ - 1, random>>, <<at_ + 1, up, r>>>> \o pending)
           ELSE \E r \in IF Uneven(right, left - 1) THEN BOOLEAN ELSE {random} :
                   Continue(<<<<at_ + 1, up, random>>, <<lo, at_ - 1, r>>>> \o pending)

\* P < a[--j]?
CompareDown ==
    /\ at = "down"
    /\ j' = j - 1
    /\ \E greater \in Answers(Pivot, a[j - 1]) :
          IF greater
          THEN /\ at' = IF j - 1 < i THEN "error" ELSE "down"
               /\ UNCHANGED <<a, lo, up, pending, random>>
          ELSE IF j - 1 < i THEN Split(a, i)
          ELSE a' = Swap(a, i, j - 1) /\ at' = "up" /\ UNCHANGED <<lo, up, random, pending>>
    /\ UNCHANGED <<original, ordered, p, i>>

\* The function of the program raises an error of its own.
ComparisonFails ==
    /\ at \notin {"sorted", "error"}
    /\ ~ordered
    /\ at' = "error"
    /\ UNCHANGED <<a, original, ordered, lo, up, pending, random, p, i, j>>

SortNext == CompareEnds \/ CompareLow \/ CompareHigh \/ CompareUp \/ CompareDown \/ ComparisonFails

-----------------------------------------------------------------------------
Occurrences(s, x) == {k \in DOMAIN s : s[k] = x}

\* With an order the list ends up sorted and no error is raised (ltablib.c:357-408).
SortsByAnOrder ==
    ordered => /\ at # "error"
               /\ at = "sorted" => \A k \in 1 .. Length - 1 : a[k] <= a[k + 1]

\* Whatever the function answers and wherever it raises an error, the list holds the elements
\* it held, and only indices of the interval are read (ltablib.c:310-339).
KeepsElements ==
    /\ \A x \in Elements : Cardinality(Occurrences(a, x)) = Cardinality(Occurrences(original, x))
    /\ at \in {"up", "down"} => i >= lo /\ i < up /\ j > lo - 1 /\ j < up

\* An inconsistent function cannot make the sort run on for ever.
SortEnds == <>(at \in {"sorted", "error"})

-----------------------------------------------------------------------------
(* The list functions *)
CONSTANTS
    Fields,       \* the values a list holds
    Empty,        \* nil
    MaxInteger,   \* LUA_MAXINTEGER, one less than a power of two
    IntMax        \* INT_MAX, the number of results a function may return

ASSUME ListAssumption ==
    /\ Empty \notin Fields
    /\ MaxInteger \in Nat /\ \E w \in 1 .. MaxInteger : 2 ^ w = MaxInteger + 1
    /\ IntMax \in 1 .. MaxInteger

VARIABLES
    list,        \* a list without holes, the table the functions are called on
    first, last, \* the positions that are given, first also as the place to insert at or remove
    place        \* where the elements are moved to

listVars == <<list, first, last, place>>

Positions == -MaxInteger - 1 .. MaxInteger

\* The table that holds a list: nil at every other integer.
TableOf(s) == [k \in Positions |-> IF k \in DOMAIN s THEN s[k] ELSE Empty]

Refused == [error |-> TRUE]

ListInit == list = <<>> /\ first = 1 /\ last = 0 /\ place = 1

\* Every call, on every list of different values.
AskList(lists) ==
    /\ list' \in lists
    /\ first' \in Positions /\ last' \in Positions /\ place' \in Positions

-----------------------------------------------------------------------------
Upward(from, count) == [n \in 1 .. count |-> from + n - 1]
Downward(from, count) == [n \in 1 .. count |-> from - n + 1]

\* t[to] = s[from] for a sequence of positions, one after the other.
CopyEach(t, positions, delta) ==
    FoldLeft(LAMBDA u, k : [u EXCEPT ![k + delta] = u[k]], t, positions)

\* Called with a position, which may be the one after the last element.
tinsert(s, pos, v) ==
    IF pos \notin 1 .. Len(s) + 1 THEN Refused
    ELSE [CopyEach(TableOf(s), Downward(Len(s), Len(s) - pos + 1), 1) EXCEPT ![pos] = v]

\* The position may be that of no element when it is the length or one more.
tremove(s, pos) ==
    IF pos # Len(s) /\ pos \notin 1 .. Len(s) + 1 THEN Refused
    ELSE [table |-> [CopyEach(TableOf(s), Upward(pos + 1, Len(s) - pos), -1)
                        EXCEPT ![IF pos < Len(s) THEN Len(s) ELSE pos] = Empty],
          removed |-> TableOf(s)[pos]]

\* Within one table
tmove(s, f, e, t) ==
    IF e < f THEN TableOf(s)
    ELSE IF ~(f > 0 \/ e < MaxInteger + f) \/ t > MaxInteger - (e - f + 1) + 1 THEN Refused
    ELSE CopyEach(TableOf(s),
                  IF t > e \/ t <= f THEN Upward(f, e - f + 1) ELSE Downward(e, e - f + 1),
                  t - f)

\* The number of results is computed in lua_Unsigned.
unpack(s, b, e) ==
    LET n == (e - b) % (2 * (MaxInteger + 1))
    IN  IF b > e THEN <<>>
        ELSE IF n >= IntMax THEN Refused
        ELSE [k \in 1 .. n + 1 |-> TableOf(s)[b + k - 1]]

\* The arguments, the last stored first, and their number.
pack(args) ==
    [table |-> FoldLeft(LAMBDA u, k : [u EXCEPT ![k] = args[k]],
                        TableOf(<<>>), Downward(Len(args), Len(args))),
     n |-> Len(args)]

\* The values that are joined with the separator.
tconcat(s, b, e) ==
    LET before == [k \in 1 .. (IF b < e THEN e - b ELSE 0) |-> TableOf(s)[b + k - 1]]
        \* where the loop stops
        stop   == IF b < e THEN e ELSE b
        values == IF stop = e THEN Append(before, TableOf(s)[stop]) ELSE before
    IN  IF \E k \in DOMAIN values : values[k] = Empty THEN Refused ELSE values

-----------------------------------------------------------------------------
\* table.insert() shifts what follows and table.remove() undoes it, or they refuse the
\* position and leave the list alone (ltablib.c:79-119).
InsertAndRemoveShift ==
    /\ \A v \in Fields :
          LET inserted == tinsert(list, first, v)
          IN  IF first \in 1 .. Len(list) + 1
              THEN inserted = TableOf(InsertAt(list, first, v))
              ELSE inserted = Refused
    /\ LET r == tremove(list, first)
       IN  CASE first \in DOMAIN list ->
                   r.removed = list[first] /\ r.table = TableOf(RemoveAt(list, first))
             [] first = Len(list) + 1 \/ (first = 0 /\ list = <<>>) ->
                   r.removed = Empty /\ r.table = TableOf(list)
             [] OTHER -> r = Refused

\* table.move() copies as if it read every element before it wrote the first, and refuses
\* exactly the ranges whose size or last position lua_Integer cannot hold (ltablib.c:128-157).
MovesAtOnce ==
    LET before == TableOf(list)
        moved  == tmove(list, first, last, place)
    IN  IF last >= first /\ (last - first + 1 > MaxInteger \/ place + last - first > MaxInteger)
        THEN moved = Refused
        ELSE moved = [k \in Positions |-> IF last >= first /\ k \in place .. place + last - first
                                     THEN before[k - place + first] ELSE before[k]]

\* table.unpack() returns the range, or refuses it because it is larger than the results a
\* function may have; never a part of it. table.pack() is its inverse (ltablib.c:194-220).
UnpacksAllOrNothing ==
    /\ unpack(list, first, last) =
          (IF last - first >= IntMax THEN Refused
           ELSE [k \in 1 .. (IF first > last THEN 0 ELSE last - first + 1) |->
                    TableOf(list)[first + k - 1]])
    /\ Len(list) <= IntMax =>
          LET packed == pack(list) IN packed.table = TableOf(list) /\ unpack(list, 1, packed.n) = list

\* table.concat() joins exactly the values of the range and refuses a range with a hole
\* (ltablib.c:160-185).
ConcatsRange ==
    tconcat(list, first, last) =
        IF first > last THEN <<>>
        ELSE IF first < 1 \/ last > Len(list) THEN Refused ELSE SubSeq(list, first, last)

\* The table library treats a table as a list: it sorts, shifts, moves and joins as if all at once, or
\* refuses (ltablib.c).
ListsAsMeant ==
    /\ SortsByAnOrder
    /\ KeepsElements
    /\ InsertAndRemoveShift
    /\ MovesAtOnce
    /\ UnpacksAllOrNothing
    /\ ConcatsRange
=============================================================================
