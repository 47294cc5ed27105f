------------------------------- MODULE State -------------------------------
(***************************************************************************)
(* State objects and what they cache (core/modules/state/state.lua).       *)
(*                                                                         *)
(* A state is derived from others by select(), selectAny(), fromScopes()   *)
(* and withInheritance(); it evaluates its query on the first fetch() and  *)
(* keeps the enabled blocks, every value found, and the names of the       *)
(* fields that were not set.  fromScopes() and withInheritance() build the *)
(* new state out of a copy of the old one's table: what the old one has    *)
(* cached in it comes along, and the table of unset names is shared.       *)
(*                                                                         *)
(* States are numbered by creation; 0 is Lua's nil.  The scripts add values*)
(* under conditions on scope fields, for which Query!AddsOnlyResult says   *)
(* what evaluate() returns.                                                *)
(***************************************************************************)
EXTENDS StateScopes, FiniteSets

CONSTANTS
    Scripts,       \* the scripts, sequences of blocks, one of which was run
    Selectors(_),  \* the scopes states are selected by after a script, keys in one map
    MaxStates(_)   \* bound on the states derived after a script

\* A field of kind string is given a string, and conditions name scopes.
ASSUME ScriptsAssumption ==
    \A s \in Scripts :
        /\ s \in Seq(Block)
        /\ \A k \in DOMAIN s :
              /\ s[k].operation = ADD
              /\ FieldsTested(s[k].condition) \subseteq ScopeFields
              /\ \A f \in StringFields : s[k].data[f] # {}

\* Fields are registered one by one, and states selected by scopes.
ASSUME SelectorsAssumption ==
    /\ IsFiniteSet(Fields)
    /\ \A s \in Scripts : \A selector \in Selectors(s) :
          selector \in ValueMap /\ \A f \in Fields \ ScopeFields : selector[f] = Nil

VARIABLES
    script,       \* the blocks of the store
    states,       \* the states that were derived
    unsetTables   \* the _unsetValues tables, by number

vars == <<script, states, unsetTables>>

Handles == DOMAIN states

StateRecord ==
    [scopes : StateScopesType, container : Nat,
     base : Nat,              \* _noInheritanceVersion
     inheriting : Nat,        \* _withInheritanceVersion
     evaluated : BOOLEAN,
     blocks : SUBSET Nat,     \* the enabled ones, by their places in the script
     fetched : ValueMap,      \* raw fields of the object; Nil is never stored
     unset : Nat]

\* Seeded error: new states share one table of unset names.
NewRecordSharing(scopes, container) ==
    [scopes |-> scopes, container |-> container, base |-> 0, inheriting |-> 0,
     evaluated |-> FALSE, blocks |-> {}, fetched |-> EmptyMap, unset |-> 1]

NewRecord(scopes, container) ==
    [scopes |-> scopes, container |-> container, base |-> 0, inheriting |-> 0,
     evaluated |-> FALSE, blocks |-> {}, fetched |-> EmptyMap,
     unset |-> Len(unsetTables) + 1]

StateInit ==
    /\ script \in Scripts
    /\ states = <<[scopes |-> NewState(EmptyMap), container |-> 0, base |-> 0,
                   inheriting |-> 0, evaluated |-> FALSE, blocks |-> {},
                   fetched |-> EmptyMap, unset |-> 1]>>
    /\ unsetTables = <<{}>>

-----------------------------------------------------------------------------
HasRoom == Len(states) < MaxStates(script)

\* _select() starts from the clean instance, but the container is the state it was
\* called on.
CleanInstance(h) == IF states[h].base # 0 THEN states[h].base ELSE h

Derive(h, localScopes) ==
    /\ HasRoom
    /\ states' = Append(states,
           NewRecord(SelectScopes(states[CleanInstance(h)].scopes, localScopes), h))
    /\ unsetTables' = Append(unsetTables, {})
    /\ UNCHANGED script

SelectState(h, selector) == Derive(h, <<selector>>)

Keys(selector) == {f \in Fields : selector[f] # Nil}

SelectAnyState(h, selector) ==
    \E keys \in SetToSeqs(Keys(selector)) : Derive(h, AnyOf(selector, keys))

\* _new(table.mergeKeys(state, ...)): a new object over a copy of the state's table.
CopyOf(h) == [states[h] EXCEPT !.fetched = EmptyMap]

\* Refuses ('Should include before inheriting') a state that inherits.
FromScopesOf(h, container) ==
    /\ HasRoom
    /\ states[h].base = 0
    /\ states' = Append(states,
           [CopyOf(h) EXCEPT !.scopes = FromScopes(@, states[container].scopes)])
    /\ UNCHANGED <<script, unsetTables>>

InheritingVersion(h) ==
    [CopyOf(h) EXCEPT !.scopes = InheritFrom(@, states[states[h].container].scopes),
                      !.base = h]

\* Builds the inheriting version; where there is one, or none can be, no state changes.
WithInheritance(h) ==
    /\ HasRoom
    /\ states[h].inheriting = 0
    /\ states[h].base = 0
    /\ states[h].container # 0
    /\ states' = [Append(states, InheritingVersion(h))
                     EXCEPT ![h].inheriting = Len(states) + 1]
    /\ UNCHANGED <<script, unsetTables>>

\* Query.evaluate() for scripts that only add, under conditions on scopes.
EnabledFor(scopes) ==
    {k \in DOMAIN script :
        \A among \in {scopes.targetScopes, scopes.globalScopes} :
            MatchingScopes(script[k].condition, scopes.initialValues, among, NIL_MATCHES_NONE) # {}}

BlocksOf(h) ==
    IF states[h].evaluated THEN states[h].blocks ELSE EnabledFor(states[h].scopes)

IsUnset(h, f) == f \in unsetTables[states[h].unset]

ValueOf(h, f) ==
    FetchedValue([k \in BlocksOf(h) |-> script[k]], states[h].scopes.initialValues, f)

\* What fetch() answers: the object's own field, nil for a field known to be unset, or
\* the value built from the enabled blocks.
Answer(h, f) ==
    IF states[h].fetched[f] # Nil THEN states[h].fetched[f]
    ELSE IF IsUnset(h, f) THEN Nil ELSE ValueOf(h, f)

\* A fetch that is not answered from a cache.
Fetch(h, f) ==
    /\ states[h].fetched[f] = Nil
    /\ ~IsUnset(h, f)
    /\ states' = [states EXCEPT ![h].evaluated = TRUE,
                                ![h].blocks = BlocksOf(h),
                                ![h].fetched[f] = ValueOf(h, f)]
    /\ unsetTables' = IF ValueOf(h, f) = Nil
                      THEN [unsetTables EXCEPT ![states[h].unset] = @ \cup {f}]
                      ELSE unsetTables
    /\ UNCHANGED script

-----------------------------------------------------------------------------
(***************************************************************************)
(* How modules/vstudio uses states: each is selected, given outer scopes   *)
(* and made to inherit before anything is fetched from it; the scopes are  *)
(* those of the root, workspace or project it was selected under; and of a *)
(* state that was derived further only collections are fetched.            *)
(***************************************************************************)
Untouched(h) == ~states[h].evaluated /\ unsetTables[states[h].unset] = {}

\* The states that h was selected from, directly or not.
Ancestors(h) ==
    {c \in Handles : \A among \in SUBSET Handles :
        /\ states[h].container \in among \cup {0}
        /\ \A g \in among : states[g].container \in among \cup {0}
        => c \in among}

Superseded(h) == \E g \in Handles : g > h /\ states[g].unset = states[h].unset

Selected(h, selector) ==
    \A f \in Keys(selector) : states[h].scopes.initialValues[f] # Nil

\* Each workspace, project or configuration is selected once, under its container.
SelectedBefore(h, selector) ==
    Selected(h, selector) \/ \E g \in Handles : states[g].container = h /\ Selected(g, selector)

\* fromScopes() and withInheritance() are chained to the call that returned the state.
ExporterNext ==
    \E h \in Handles :
        \/ \E selector \in Selectors(script) :
              /\ ~SelectedBefore(h, selector)
              /\ SelectState(h, selector) \/ SelectAnyState(h, selector)
        \/ /\ h = Len(states)
           /\ Untouched(h)
           /\ \/ \E c \in Ancestors(h) : FromScopesOf(h, c)
              \/ WithInheritance(h)
        \/ \E f \in Fields \ ScopeFields :
              (f \in StringFields => ~Superseded(h)) /\ Fetch(h, f)

ExporterSpec == StateInit /\ [][ExporterNext]_vars

-----------------------------------------------------------------------------
(***************************************************************************)
(* Properties.                                                             *)
(***************************************************************************)
\* State objects hold scopes, blocks and values, and refer to objects and tables that exist.
TypeOK ==
    /\ script \in Scripts
    /\ states \in Seq(StateRecord)
    /\ unsetTables \in Seq(SUBSET Fields)
    /\ \A h \in Handles :
          /\ {states[h].container, states[h].base, states[h].inheriting}
                \subseteq 0 .. Len(states)
          /\ states[h].unset \in DOMAIN unsetTables
          /\ states[h].blocks \subseteq DOMAIN script

\* What an untouched state with these scopes would answer.
FreshAnswer(h, f) ==
    FetchedValue([k \in EnabledFor(states[h].scopes) |-> script[k]],
                 states[h].scopes.initialValues, f)

\* Whatever was fetched before, from this state or one it shares a cache with, a fetch
\* answers for the scopes of the state that was asked (state.lua:116, "Retrieve a value
\* from a state", and :315, "inherit values from the parent container").
Coherent ==
    \A h \in Handles, f \in Fields \ ScopeFields : Answer(h, f) = FreshAnswer(h, f)

\* Where a block for one of the scopes of a state is looked for, it can be found: a scope
\* outside the global scopes would be ignored without a word (query.lua:110-119).
TargetsAreGlobal ==
    \A h \in Handles :
        ToSet(states[h].scopes.targetScopes) \subseteq ToSet(states[h].scopes.globalScopes)

\* The version that inherits has what its base and its container have, and nothing else.
InheritsFromContainer ==
    \A h \in Handles : \A f \in Fields \ (ScopeFields \cup StringFields) :
        states[h].base # 0 =>
            Held(FreshAnswer(h, f)) =
                Held(FreshAnswer(states[h].base, f))
                    \cup Held(FreshAnswer(states[h].container, f))

\* withInheritance() and withoutInheritance() lead back to the state they started from
\* (state.lua:317, "calling it multiple times on the same state will return the same
\* instance").
InheritancePaired ==
    \A h \in Handles :
        states[h].inheriting # 0 => states[states[h].inheriting].base = h

\* States stay what the evaluation and the exporters rely on: their parts refer to states and tables that
\* exist, scopes are found where they are looked for, and versions lead back to each other
\* (state.lua).
StatesWellFormed ==
    /\ TypeOK
    /\ TargetsAreGlobal
    /\ InheritancePaired
=============================================================================
