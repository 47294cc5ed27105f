----------------------------- MODULE FieldKinds -----------------------------
(***************************************************************************)
(* The kinds of fields (core/modules/field/src/kind_set.lua,               *)
(* kind_list.lua, kind_string.lua) over the tables of Lua that hold their  *)
(* values, where Conditions has sets: with the order of a collection, the  *)
(* duplicates of a list, and the two halves of a set (core/modules/set).   *)
(*                                                                         *)
(* A value is the array of its strings; that of a string field has one.    *)
(* Patterns are plain: expandWildcards() returns its argument and `true'.  *)
(***************************************************************************)
EXTENDS Conditions, SequencesExt

CONSTANTS
    ListFields,    \* collections of kind "list"; the others are of kind "set"
    MaxFieldCalls, \* bound on the calls for one field
    MaxValues      \* bound on the values of one call

ASSUME KindsAssumption == MaxFieldCalls \in Nat /\ MaxValues \in Nat

VARIABLES
    field,       \* the field that is called for
    fieldCalls,  \* the calls so far, a history variable
    stored,      \* its value: [set, array, keys], where ~set is nil and the keys are
                 \* the half of a set that finds a value
    reported     \* the values that the last call removed, as removeValues() returns them

fieldVars == <<field, fieldCalls, stored, reported>>

Unset == [set |-> FALSE, array |-> <<>>, keys |-> {}]

\* `value or {}'
OrEmpty(value) == [value EXCEPT !.set = TRUE]

Insert(value, s) == [value EXCEPT !.array = Append(@, s)]

\* set.append(): the keys tell whether the value is there.
AppendToSet(value, s) ==
    IF s \in value.keys THEN value
    ELSE [Insert(value, s) EXCEPT !.keys = @ \cup {s}]

\* What a collection is after each of the strings: received[n] after n of them.
ReceivedEach(f, value, strings) ==
    LET received[n \in 0 .. Len(strings)] ==
            IF n = 0 THEN OrEmpty(value)
            ELSE IF f \in ListFields THEN Insert(received[n - 1], strings[n])
            ELSE AppendToSet(received[n - 1], strings[n])
    IN  received

\* receive() of the three kinds, and merge(), which does the same with an array.
ReceiveInto(f, value, strings) ==
    IF f \in StringFields THEN [Unset EXCEPT !.set = TRUE, !.array = strings]
    ELSE ReceivedEach(f, value, strings)[Len(strings)]

\* Seeded error: the key of the value stays.
RemoveFromArray(f, value, i) == [value EXCEPT !.array = RemoveAt(@, i)]

\* set.removeAt(), or table.remove() for a list, which has no keys.
RemoveIndex(f, value, i) ==
    [value EXCEPT !.array = RemoveAt(@, i), !.keys = @ \ {value.array[i]}]

\* One turn of the loop of remove(): the index stays where a value was taken out.
RemoveTurn(f, pattern, loop) ==
    IF loop.left.array[loop.i] = pattern
    THEN [loop EXCEPT !.left = RemoveIndex(f, loop.left, loop.i), !.gone = Append(@, pattern)]
    ELSE [loop EXCEPT !.i = @ + 1]

\* The loop, which takes one value out or goes past one in each turn: turns[n] after n of them.
RemoveTurns(f, value, pattern) ==
    LET turns[n \in 0 .. Len(value.array)] ==
            IF n = 0 THEN [i |-> 1, left |-> OrEmpty(value), gone |-> <<>>]
            ELSE RemoveTurn(f, pattern, turns[n - 1])
    IN  turns

\* remove() of a kind: what is left, and what was removed, of a string nothing.
RemoveOne(f, value, pattern) ==
    IF f \in StringFields
    THEN [left |-> IF value.array = <<pattern>> THEN Unset ELSE value, gone |-> <<>>]
    ELSE LET loop == RemoveTurns(f, value, pattern)[Len(value.array)]
         IN  [left |-> loop.left, gone |-> loop.gone]

\* One turn of Field.removeValues().
RemoveEach(f, done, pattern) ==
    LET now == RemoveOne(f, done.left, pattern)
    IN  [left |-> now.left, gone |-> done.gone \o now.gone]

RemovedEach(f, value, patterns) ==
    LET removed[n \in 0 .. Len(patterns)] ==
            IF n = 0 THEN [left |-> value, gone |-> <<>>]
            ELSE RemoveEach(f, removed[n - 1], patterns[n])
    IN  removed

RemoveAll(f, value, patterns) == RemovedEach(f, value, patterns)[Len(patterns)]

-----------------------------------------------------------------------------
FieldInit ==
    /\ field \in Fields
    /\ fieldCalls = <<>>
    /\ stored = Unset
    /\ reported = <<>>

\* Field.receiveValues(); a string field is given one string.
ReceiveFieldValues ==
    /\ Len(fieldCalls) < MaxFieldCalls
    /\ \E n \in IF field \in StringFields THEN {1} ELSE 0 .. MaxValues : \E strings \in [1 .. n -> Strings] :
         /\ stored' = ReceiveInto(field, stored, strings)
         /\ fieldCalls' = Append(fieldCalls, [operation |-> ADD, strings |-> strings])
    /\ reported' = <<>>
    /\ UNCHANGED field

\* Field.removeValues()
RemoveFieldValues ==
    /\ Len(fieldCalls) < MaxFieldCalls
    /\ \E n \in 0 .. MaxValues : \E patterns \in [1 .. n -> Strings] :
         /\ LET done == RemoveAll(field, stored, patterns)
            IN  stored' = done.left /\ reported' = done.gone
         /\ fieldCalls' = Append(fieldCalls, [operation |-> REMOVE, strings |-> patterns])
    /\ UNCHANGED field

FieldNext == ReceiveFieldValues \/ RemoveFieldValues

FieldSpec == FieldInit /\ [][FieldNext]_fieldVars

-----------------------------------------------------------------------------
Elements(value) == IF value.set THEN Range(value.array) ELSE Nil

\* The strings of a value are those the operations on sets leave, which is what the models of
\* evaluation and of states rest on: no string stays behind in an array or in the keys of a set
\* (kind_set.lua:39-71, kind_list.lua:37-69, set.lua:29-39, 101-106).
ImplementsFieldValues ==
    [][fieldCalls' # fieldCalls =>
       LET call == Last(fieldCalls')
           strings == Range(call.strings)
       IN  Elements(stored') = IF call.operation = ADD THEN MergeValues(field, Elements(stored), strings)
                               ELSE RemoveValues(field, Elements(stored), strings)]_fieldVars

\* Where a string stands in the calls: <<c, n>> for the n-th string of call c.
Given(calls) == UNION {{c} \X DOMAIN calls[c].strings : c \in DOMAIN calls}
StringAt(calls, p) == calls[p[1]].strings[p[2]]
Earlier(p, q) == p[1] < q[1] \/ (p[1] = q[1] /\ p[2] < q[2])

\* The string is still there: nothing removed it since.
Stays(calls, p) ==
    /\ calls[p[1]].operation = ADD
    /\ \A k \in p[1] + 1 .. Len(calls) :
          calls[k].operation = REMOVE => StringAt(calls, p) \notin Range(calls[k].strings)

\* In a set it was there already.
Repeats(calls, p) ==
    \E q \in Given(calls) : Earlier(q, p) /\ Stays(calls, q) /\ StringAt(calls, q) = StringAt(calls, p)

Staying(f, calls) ==
    {p \in Given(calls) : Stays(calls, p) /\ (f \in ListFields \/ ~Repeats(calls, p))}

\* A collection holds its strings in the order the script added them, a list as often as they
\* were added and a set once, from where a string came in after it was last removed (set.lua:6
\* "maintain uniqueness of values while still maintaining the author's intended ordering").
HoldsWhatWasAdded ==
    field \notin StringFields =>
        LET staying == Staying(field, fieldCalls)
        IN  /\ Len(stored.array) = Cardinality(staying)
            /\ \A p \in staying :
                  stored.array[Cardinality({q \in staying : Earlier(q, p)}) + 1] = StringAt(fieldCalls, p)

CountOf(s, array) == Cardinality({k \in DOMAIN array : array[k] = s})

\* What a removal from a collection reports is what it took out, string for string; evaluate()
\* adds that back for a sibling (field.lua:298-313, query.lua:235).
RemovalsAreReported ==
    [][fieldCalls' # fieldCalls /\ field \notin StringFields /\ Last(fieldCalls').operation = REMOVE =>
          \A s \in Strings :
              CountOf(s, stored.array) = CountOf(s, stored'.array) + CountOf(s, reported')]_fieldVars

\* The arrays of a field hold what the calls ask for, in the order and the number they ask for, and tell
\* of what they lose (kind_set.lua, kind_list.lua, field.lua).
KindsHoldValues ==
    /\ ImplementsFieldValues
    /\ RemovalsAreReported
    /\ HoldsWhatWasAdded /\ [][HoldsWhatWasAdded']_fieldVars
=============================================================================
