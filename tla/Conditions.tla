----------------------------- MODULE Conditions -----------------------------
(***************************************************************************)
(* The values of fields (core/modules/field) and the `when' conditions of  *)
(* project scripts that test them (core/modules/condition).                *)
(*                                                                         *)
(* A value is the set of strings it contains: the singleton {s} for a field*)
(* of kind "string", the collected strings for the "set" and "list" kinds. *)
(* The order of a collection and the duplicates of a list are abstracted;  *)
(* Nil, Lua's nil, is a field that was never set and differs from a        *)
(* collection that was emptied.                                            *)
(*                                                                         *)
(* The parser yields an AND of clauses, a clause being an OR of alternatives*)
(* ("a or b") each of which may be negated ("not a"): a condition is a set *)
(* of clauses and a clause a set of literals.                              *)
(***************************************************************************)
EXTENDS Naturals, Sequences

CONSTANTS
    Fields,       \* registered fields
    StringFields, \* those of kind "string"; the others are collections
    ScopeFields,  \* those registered with isScope = true
    Strings,      \* the strings scripts use as values and patterns
    Nil           \* an absent value

ASSUME FieldsAssumption ==
    /\ StringFields \subseteq Fields
    /\ ScopeFields \subseteq Fields
    /\ \A S \in SUBSET Strings : Nil # S

FieldValue == {Nil} \cup (SUBSET Strings)

\* A Lua table keyed by field: values, scopes and block data are all of this type.
ValueMap == [Fields -> FieldValue]

\* The shared constant _EMPTY.
EmptyMap == [f \in Fields |-> Nil]

\* The strings found when the value is read with `value or {}`.
Held(value) == IF value = Nil THEN {} ELSE value

MergeValues(f, current, new) ==
    IF f \in StringFields THEN new ELSE Held(current) \cup new

\* Without a pattern nothing is called, and what was never set stays so.
RemoveValues(f, current, patterns) ==
    IF f \in StringFields
    THEN IF Held(current) \cap patterns # {} THEN Nil ELSE current
    ELSE IF patterns = {} THEN current ELSE Held(current) \ patterns

\* Field.receiveAllValues(map, values) for each of the maps in turn: a string that is there
\* stays, a collection grows.
ReceiveAllValues(values, maps) ==
    [f \in Fields |->
        LET given == {k \in DOMAIN maps : maps[k][f] # Nil}
        IN  IF given = {} \/ (f \in StringFields /\ values[f] # Nil)
            THEN values[f]
            ELSE IF f \in StringFields
            THEN maps[CHOOSE k \in given : \A l \in given : k <= l][f]
            ELSE Held(values[f]) \cup UNION {maps[k][f] : k \in given}]

ADD == "ADD"
REMOVE == "REMOVE"

(***************************************************************************)
(* What is left of field f after the operations (records with an operation *)
(* and data) at the places `applied' of ops were applied in order: a string*)
(* survives when some ADD brought it and nothing later removed it or, for a*)
(* string field, replaced it.                                              *)
(***************************************************************************)
SurvivorsOf(ops, applied, f) ==
    {v \in Strings : \E j \in applied :
        /\ ops[j].operation = ADD
        /\ v \in Held(ops[j].data[f])
        /\ \A k \in applied : k > j =>
              IF ops[k].operation = ADD
              THEN f \in StringFields => ops[k].data[f] = Nil
              ELSE v \notin Held(ops[k].data[f])}

Survivors(ops, f) == SurvivorsOf(ops, DOMAIN ops, f)

-----------------------------------------------------------------------------
NIL_MATCHES_ANY == TRUE
NIL_MATCHES_NONE == FALSE

Literal == [field : Fields, pattern : Strings, negated : BOOLEAN]
Clause == SUBSET Literal
Condition == SUBSET Clause

\* Fields named anywhere in the condition, under "or" and "not" as well.
FieldsTested(condition) == {literal.field : literal \in UNION condition}

\* A scope field is looked up in the scope under test, any other in the values.
TestValue(field, values, scope) ==
    IF field \in ScopeFields THEN scope[field] ELSE values[field]

\* A negation inverts the verdict for an absent value as well.
MatchLiteral(literal, values, scope, matchOnNil) ==
    LET value == TestValue(literal.field, values, scope)
        found == IF value = Nil THEN matchOnNil ELSE literal.pattern \in value
    IN  found # literal.negated

MatchesValues(condition, values, scope, matchOnNil) ==
    \A clause \in condition : \E literal \in clause :
        MatchLiteral(literal, values, scope, matchOnNil)

\* Every field the scope sets is named by the condition.
TestsScope(condition, scope) ==
    \A f \in Fields : scope[f] # Nil => f \in FieldsTested(condition)

DoesTestScopeValues(condition, scopes) ==
    \E k \in DOMAIN scopes : TestsScope(condition, scopes[k])

\* The indices at which matchesScopeAndValues() could return.
MatchingScopes(condition, values, scopes, matchOnNil) ==
    {k \in DOMAIN scopes :
        /\ TestsScope(condition, scopes[k])
        /\ MatchesValues(condition, values, scopes[k], matchOnNil)}

\* It returns the first of them, or nil.
FirstMatch(matching) == CHOOSE k \in matching : \A l \in matching : k <= l

\* Nested `when` calls: all clauses of both.
MergeConditions(outer, inner) == outer \cup inner

\* What a script stored under one condition (core/modules/block).
Block == [operation : {ADD, REMOVE}, condition : Condition, data : ValueMap]
=============================================================================
