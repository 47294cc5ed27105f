---------------------------- MODULE StateScopes ----------------------------
(***************************************************************************)
(* The scopes of a state, and how State.select(), selectAny(),             *)
(* fromScopes() and withInheritance() (core/modules/state/state.lua) derive*)
(* those of one state from another's.  A scope is a map of the scope       *)
(* fields it pins down; a state looks for the blocks that match one of its *)
(* target scopes, and the global scopes are all it could inherit from.     *)
(***************************************************************************)
EXTENDS Conditions, SequencesExt

StateScopesType ==
    [initialValues : ValueMap, localScopes : Seq(ValueMap),
     targetScopes : Seq(ValueMap), globalScopes : Seq(ValueMap)]

\* table.mergeKeys: a key of the second table wins.
MergeKeys(first, second) ==
    [f \in Fields |-> IF second[f] = Nil THEN first[f] ELSE second[f]]

\* Each outer scope in turn, merged with every local one.
CrossScopes(localScopes, outerScopes) ==
    [n \in 1 .. Len(outerScopes) * Len(localScopes) |->
        MergeKeys(localScopes[((n - 1) % Len(localScopes)) + 1],
                  outerScopes[((n - 1) \div Len(localScopes)) + 1])]

\* Seeded error: the outer scopes themselves are left out.
CrossScopesOnly(localScopes, outerScopes) == CrossScopes(localScopes, outerScopes)

\* As CrossScopes, with each outer scope itself after its merged ones.
CrossScopesAndOuter(localScopes, outerScopes) ==
    LET width == Len(localScopes) + 1
    IN  [n \in 1 .. Len(outerScopes) * width |->
            LET place == ((n - 1) % width) + 1
                outer == outerScopes[((n - 1) \div width) + 1]
            IN  IF place = width THEN outer ELSE MergeKeys(localScopes[place], outer)]

NewState(initialValues) ==
    [initialValues |-> initialValues,
     localScopes |-> <<EmptyMap>>,
     targetScopes |-> <<EmptyMap>>,
     globalScopes |-> <<EmptyMap>>]

\* container is the version of the selecting state that does not inherit.
SelectScopes(container, localScopes) ==
    [initialValues |-> ReceiveAllValues(container.initialValues, localScopes),
     localScopes |-> localScopes,
     targetScopes |-> CrossScopes(localScopes, container.targetScopes),
     globalScopes |-> CrossScopesAndOuter(localScopes, container.globalScopes)]

Select(container, scope) == SelectScopes(container, <<scope>>)

\* One scope per key and, if there are several keys, the whole scope: any of them may
\* match.  keys is the order in which pairs() happens to list them.
AnyOf(scope, keys) ==
    LET single == [k \in DOMAIN keys |-> [EmptyMap EXCEPT ![keys[k]] = scope[keys[k]]]]
    IN  IF Len(keys) > 1 THEN Append(single, scope) ELSE single

\* A call with several containers is a chain of calls with one.
FromScopes(self, container) ==
    [self EXCEPT !.targetScopes = @ \o CrossScopes(self.localScopes, container.targetScopes)]

\* Seeded error: only the container's own scope is inherited from.
InheritFromLocal(self, container) ==
    [self EXCEPT !.targetScopes = @ \o container.localScopes]

\* The state, inheriting from the state it was selected from.
InheritFrom(self, container) ==
    [self EXCEPT !.targetScopes = @ \o container.targetScopes]

-----------------------------------------------------------------------------
\* _buildValue(): nil when no enabled block has the field, or a string was removed.
BuildValue(enabled, f) ==
    LET value == Survivors(enabled, f)
        mentioned == \E k \in DOMAIN enabled : enabled[k].data[f] # Nil
    IN  IF mentioned /\ (f \in StringFields => value # {}) THEN value ELSE Nil

DefaultValue(f) == IF f \in StringFields THEN Nil ELSE {}

\* What State.fetch() answers when the query enabled those blocks.  A scope field that
\* seeded the state keeps its value.
FetchedValue(enabled, initialValues, f) ==
    LET built == BuildValue(enabled, f)
    IN  IF f \in ScopeFields /\ initialValues[f] # Nil THEN initialValues[f]
        ELSE IF built # Nil THEN built
        ELSE IF initialValues[f] # Nil THEN initialValues[f] ELSE DefaultValue(f)

\* What evaluate() reads of the state and of the store's blocks.
QueryOf(self, blocks) ==
    [blocks |-> blocks,
     initialValues |-> self.initialValues,
     localScopes |-> self.localScopes,
     targetScopes |-> self.targetScopes,
     globalScopes |-> self.globalScopes,
     fieldsTested |-> UNION {FieldsTested(blocks[k].condition) : k \in DOMAIN blocks}]
=============================================================================
