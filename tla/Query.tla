------------------------------- MODULE Query -------------------------------
(***************************************************************************)
(* Query.evaluate() (core/modules/state/src/query.lua): choose, from the   *)
(* blocks a script stored, those that apply to one state.                  *)
(*                                                                         *)
(* The evaluation walks the list of results and starts over from the first *)
(* block whenever a block was decided, because the values it contributed   *)
(* may satisfy the condition of a block that was passed over.  Two sets of *)
(* values are accumulated side by side: the target's own, and the global   *)
(* ones of everything the target could inherit from.                       *)
(***************************************************************************)
EXTENDS Conditions, SequencesExt

CONSTANT Queries   \* the queries State may ask for

OUT_OF_SCOPE == "OUT_OF_SCOPE"
UNKNOWN == "UNKNOWN"

\* What evaluate() reads of a state, and of Condition.allFieldsTested().
QueryType ==
    [blocks : Seq(Block), initialValues : ValueMap, localScopes : Seq(ValueMap),
     targetScopes : Seq(ValueMap), globalScopes : Seq(ValueMap),
     fieldsTested : SUBSET Fields]

ASSUME QueriesAssumption == Queries \subseteq QueryType

VARIABLES
    query,         \* the query under evaluation
    blockResults,  \* one entry per source block, and one per synthesized block
    i,             \* index of the entry to look at next
    targetValues,
    globalValues,
    status         \* "running", "done", or "failed": a Lua error was raised

vars == <<query, blockResults, i, targetValues, globalValues, status>>

Decision == {ADD, REMOVE, OUT_OF_SCOPE, UNKNOWN}

\* source is the index of the block in the script, 0 for a synthesized one.
BlockResult ==
    [source : Nat, sourceBlock : Block, targetOperation : Decision, globalOperation : Decision]

-----------------------------------------------------------------------------
\* An ADD block none of whose scopes can match is ruled out before the walk.
RuledOut(block, scopes) ==
    IF block.operation = ADD /\ ~DoesTestScopeValues(block.condition, scopes)
    THEN OUT_OF_SCOPE ELSE UNKNOWN

InitialResults(q) ==
    [k \in DOMAIN q.blocks |->
        [source |-> k,
         sourceBlock |-> q.blocks[k],
         targetOperation |-> RuledOut(q.blocks[k], q.targetScopes),
         globalOperation |-> RuledOut(q.blocks[k], q.globalScopes)]]

\* The state in which evaluate() enters its loop for query q.
Begins(q) ==
    /\ query = q
    /\ blockResults = InitialResults(q)
    /\ i = 1
    /\ targetValues = q.initialValues
    /\ globalValues = q.initialValues
    /\ status = "running"

Init == \E q \in Queries : Begins(q)

\* A later call of evaluate(), for a module that evaluates one query after another.
BeginNext(q) ==
    /\ query' = q
    /\ blockResults' = InitialResults(q)
    /\ i' = 1
    /\ targetValues' = q.initialValues
    /\ globalValues' = q.initialValues
    /\ status' = "running"

-----------------------------------------------------------------------------
InGlobalScope(block) ==
    MatchingScopes(block.condition, globalValues, query.globalScopes, NIL_MATCHES_NONE) # {}

InTargetScope(block) ==
    MatchingScopes(block.condition, targetValues, query.targetScopes, NIL_MATCHES_NONE) # {}

\* A remove block is rejected only by a value that conflicts with its condition.
CompatibleWithGlobal(block) ==
    MatchesValues(block.condition, globalValues, globalValues, NIL_MATCHES_ANY)

CompatibleTargetScopes(block) ==
    MatchingScopes(block.condition, targetValues, query.targetScopes, NIL_MATCHES_ANY)

\* Seeded error: off by one.
MatchesLocalScopeButLast(block) ==
    FirstMatch(CompatibleTargetScopes(block)) < Len(query.localScopes)

MatchesLocalScope(block) ==
    FirstMatch(CompatibleTargetScopes(block)) <= Len(query.localScopes)

\* The decision on a block, as the pair <<globalOperation, targetOperation>>.
TestAddBlock(block) ==
    IF ~InGlobalScope(block) THEN <<UNKNOWN, UNKNOWN>>
    ELSE IF InTargetScope(block) THEN <<ADD, ADD>> ELSE <<ADD, UNKNOWN>>

TestRemoveBlock(block) ==
    IF ~CompatibleWithGlobal(block) THEN <<UNKNOWN, UNKNOWN>>
    ELSE IF CompatibleTargetScopes(block) # {}
         THEN <<REMOVE, IF MatchesLocalScope(block) THEN REMOVE ELSE OUT_OF_SCOPE>>
    ELSE IF InGlobalScope(block) THEN <<OUT_OF_SCOPE, REMOVE>>
    ELSE <<REMOVE, ADD>>

TestBlock(block) ==
    IF block.operation = ADD THEN TestAddBlock(block) ELSE TestRemoveBlock(block)

\* Only an ADD adds; a block decided REMOVE or OUT_OF_SCOPE takes its values away.
AccumulateValues(values, data, operation) ==
    [f \in Fields |->
        IF f \notin query.fieldsTested \/ data[f] = Nil THEN values[f]
        ELSE IF operation = ADD THEN MergeValues(f, values[f], data[f])
        ELSE RemoveValues(f, values[f], data[f])]

\* Seeded error: values that were removed are still found.
FetchAddedValue(f) ==
    UNION {Held(blockResults[k].sourceBlock.data[f]) :
              k \in {n \in DOMAIN blockResults : blockResults[n].globalOperation = ADD}}

\* The values of field f in the global scope, from the blocks decided so far.
FetchFieldValue(f) ==
    Survivors([k \in DOMAIN blockResults |->
                  [operation |-> blockResults[k].globalOperation,
                   data |-> IF blockResults[k].globalOperation \in {ADD, REMOVE}
                            THEN blockResults[k].sourceBlock.data ELSE EmptyMap]], f)

\* What a removal meant for a sibling takes from the global scope and the target lacks.
ValuesToRestore(block) ==
    [f \in Fields |->
        LET removed == FetchFieldValue(f) \cap Held(block.data[f])
            missing == removed \ Held(targetValues[f])
        IN  IF missing = {} THEN Nil ELSE missing]

-----------------------------------------------------------------------------
Current == blockResults[i]

\* The loop stands at a block that is not decided, and the test says so.
Tests(decision) ==
    /\ status = "running"
    /\ i <= Len(blockResults)
    /\ Current.globalOperation = UNKNOWN
    /\ TestBlock(Current.sourceBlock) = decision

SkipDecided ==
    /\ status = "running"
    /\ i <= Len(blockResults)
    /\ Current.globalOperation # UNKNOWN
    /\ i' = i + 1
    /\ UNCHANGED <<query, blockResults, targetValues, globalValues, status>>

\* Seeded error: the walk starts over though nothing was decided.
PassOverStartingOver ==
    /\ Tests(<<UNKNOWN, UNKNOWN>>)
    /\ i' = 1
    /\ UNCHANGED <<query, blockResults, targetValues, globalValues, status>>

PassOver ==
    /\ Tests(<<UNKNOWN, UNKNOWN>>)
    /\ i' = i + 1
    /\ UNCHANGED <<query, blockResults, targetValues, globalValues, status>>

\* Seeded errors in AddToGlobalOnly: the target's decision is overwritten by "unknown"; the
\* walk starts over before the first entry.
AddToGlobalForgetting ==
    /\ Tests(<<ADD, UNKNOWN>>)
    /\ blockResults' = [blockResults EXCEPT ![i].targetOperation = UNKNOWN,
                                            ![i].globalOperation = ADD]
    /\ globalValues' = AccumulateValues(globalValues, Current.sourceBlock.data, ADD)
    /\ i' = 1
    /\ UNCHANGED <<query, targetValues, status>>

AddToGlobalFromZero ==
    /\ Tests(<<ADD, UNKNOWN>>)
    /\ blockResults' = [blockResults EXCEPT ![i].globalOperation = ADD]
    /\ globalValues' = AccumulateValues(globalValues, Current.sourceBlock.data, ADD)
    /\ i' = 0
    /\ UNCHANGED <<query, targetValues, status>>

\* Enabled for something the target may inherit from, but not (yet) for the target.
AddToGlobalOnly ==
    /\ Tests(<<ADD, UNKNOWN>>)
    /\ blockResults' = [blockResults EXCEPT ![i].globalOperation = ADD]
    /\ globalValues' = AccumulateValues(globalValues, Current.sourceBlock.data, ADD)
    /\ i' = 1
    /\ UNCHANGED <<query, targetValues, status>>

\* Seeded error: the walk goes on without starting over.
DecideAndGoOn(global, target) ==
    /\ Tests(<<global, target>>)
    /\ blockResults' = [blockResults EXCEPT ![i].targetOperation = target,
                                            ![i].globalOperation = global]
    /\ targetValues' = AccumulateValues(targetValues, Current.sourceBlock.data, target)
    /\ globalValues' = AccumulateValues(globalValues, Current.sourceBlock.data, global)
    /\ i' = i + 1
    /\ UNCHANGED <<query, status>>

Decide(global, target) ==
    /\ Tests(<<global, target>>)
    /\ blockResults' = [blockResults EXCEPT ![i].targetOperation = target,
                                            ![i].globalOperation = global]
    /\ targetValues' = AccumulateValues(targetValues, Current.sourceBlock.data, target)
    /\ globalValues' = AccumulateValues(globalValues, Current.sourceBlock.data, global)
    /\ i' = 1
    /\ UNCHANGED <<query, status>>

AddToBoth == Decide(ADD, ADD)

RemoveFromLocalScope == Decide(REMOVE, REMOVE)

LeaveToInheritedScope == Decide(REMOVE, OUT_OF_SCOPE)

RemovedAbove == Decide(OUT_OF_SCOPE, REMOVE)

\* The table of values of a string field is indexed like a collection: an error.
NamesStringField(block) == \E f \in StringFields : block.data[f] # Nil

\* The block that adds back what the removal takes from the container, for the target.
Synthesized(block) ==
    [source |-> 0,
     sourceBlock |-> [operation |-> ADD, condition |-> {}, data |-> ValuesToRestore(block)],
     targetOperation |-> ADD,
     globalOperation |-> OUT_OF_SCOPE]

RemovalInContainer ==
    [Current EXCEPT !.targetOperation = OUT_OF_SCOPE, !.globalOperation = REMOVE]

\* Seeded error: the synthesized block comes after the removal.
RestorationAfter(results, n, removal, synthesized) ==
    InsertAt([results EXCEPT ![n] = removal], n + 1, synthesized)

\* The list with removal at index n and the synthesized block right before it.
WithRestoration(results, n, removal, synthesized) ==
    InsertAt([results EXCEPT ![n] = removal], n, synthesized)

\* A sibling removed values: the container loses them and the target adds them back.
RestoreForSibling ==
    /\ Tests(<<REMOVE, ADD>>)
    /\ ~NamesStringField(Current.sourceBlock)
    /\ blockResults' = WithRestoration(blockResults, i, RemovalInContainer,
                                       Synthesized(Current.sourceBlock))
    /\ targetValues' = AccumulateValues(targetValues, ValuesToRestore(Current.sourceBlock), ADD)
    /\ globalValues' = AccumulateValues(globalValues, Current.sourceBlock.data, REMOVE)
    /\ i' = 1
    /\ UNCHANGED <<query, status>>

RestoreRaisesError ==
    /\ Tests(<<REMOVE, ADD>>)
    /\ NamesStringField(Current.sourceBlock)
    /\ status' = "failed"
    /\ UNCHANGED <<query, blockResults, i, targetValues, globalValues>>

Finish ==
    /\ status = "running"
    /\ i > Len(blockResults)
    /\ status' = "done"
    /\ UNCHANGED <<query, blockResults, i, targetValues, globalValues>>

Next ==
    \/ SkipDecided
    \/ PassOver
    \/ AddToGlobalOnly
    \/ AddToBoth
    \/ RemoveFromLocalScope
    \/ LeaveToInheritedScope
    \/ RemovedAbove
    \/ RestoreForSibling
    \/ RestoreRaisesError
    \/ Finish

Spec == Init /\ [][Next]_vars

-----------------------------------------------------------------------------
\* The list evaluate() returns: a block's operation is the target's.
EnabledBlocks ==
    LET enabledBlocks[n \in 0 .. Len(blockResults)] ==
            IF n = 0 THEN <<>>
            ELSE IF blockResults[n].targetOperation \in {ADD, REMOVE}
            THEN Append(enabledBlocks[n - 1], [operation |-> blockResults[n].targetOperation,
                                               data |-> blockResults[n].sourceBlock.data])
            ELSE enabledBlocks[n - 1]
    IN  enabledBlocks[Len(blockResults)]

-----------------------------------------------------------------------------
(***************************************************************************)
(* Properties.                                                             *)
(***************************************************************************)
\* The local variables of evaluate() have their types: decisions, indices and values.
TypeOK ==
    /\ query \in QueryType
    /\ blockResults \in Seq(BlockResult)
    /\ i \in Nat \ {0}
    /\ targetValues \in ValueMap
    /\ globalValues \in ValueMap
    /\ status \in {"running", "done", "failed"}

\* Entries before the loop index have been tested against the values now accumulated:
\* the reason for starting over at the first block after every decision.
PassedOverUpTo(n) ==
    \A k \in DOMAIN blockResults :
        /\ k < n
        /\ blockResults[k].globalOperation = UNKNOWN
        => TestBlock(blockResults[k].sourceBlock) = <<UNKNOWN, UNKNOWN>>

\* When evaluate() returns, no block it passed over would be decided by the final
\* values (query.lua:124-126, "any blocks that had been previously skipped over need
\* to be rechecked").
Saturated == status = "done" => PassedOverUpTo(Len(blockResults) + 1)

\* The script's blocks keep their order, each one once, whatever was inserted between.
ScriptBlocksInOrder ==
    /\ \A k \in DOMAIN blockResults : blockResults[k].source # 0 =>
          /\ blockResults[k].source \in DOMAIN query.blocks
          /\ blockResults[k].sourceBlock = query.blocks[blockResults[k].source]
    /\ \A j, k \in DOMAIN blockResults :
          j < k /\ blockResults[j].source # 0 /\ blockResults[k].source # 0 =>
              blockResults[j].source < blockResults[k].source
    /\ \A n \in DOMAIN query.blocks : \E k \in DOMAIN blockResults : blockResults[k].source = n

\* A synthesized block stands right before the removal it answers, adds values only to
\* the target, and only values that removal names (query.lua:215-252).
RestorationPrecedesRemoval ==
    \A k \in DOMAIN blockResults : blockResults[k].source = 0 =>
        /\ k + 1 \in DOMAIN blockResults
        /\ blockResults[k].targetOperation = ADD
        /\ blockResults[k].globalOperation = OUT_OF_SCOPE
        /\ blockResults[k + 1].sourceBlock.operation = REMOVE
        /\ blockResults[k + 1].globalOperation = REMOVE
        /\ blockResults[k + 1].targetOperation = OUT_OF_SCOPE
        /\ \A f \in Fields :
              Held(blockResults[k].sourceBlock.data[f])
                \subseteq Held(blockResults[k + 1].sourceBlock.data[f])

\* The strings that blocks of the script below entry k add to field f.
AddedBelow(k, f) ==
    UNION {Held(blockResults[n].sourceBlock.data[f]) :
              n \in {m \in k + 1 .. Len(blockResults) :
                        blockResults[m].source # 0 /\ blockResults[m].sourceBlock.operation = ADD}}

\* A string is restored to the target once, however many siblings removed it, unless it is
\* added below the first removal, by a block that was decided before it (query.lua:223-252).
RestoredOnce ==
    \A j, k \in DOMAIN blockResults : \A f \in Fields :
        /\ blockResults[j].source = 0
        /\ blockResults[k].source = 0
        /\ j < k
        => Held(blockResults[j].sourceBlock.data[f])
             \cap Held(blockResults[k].sourceBlock.data[f]) \subseteq AddedBelow(j, f)

Undecided == {blockResults[k].source :
                k \in {n \in DOMAIN blockResults : blockResults[n].globalOperation = UNKNOWN}}

\* Starting over cannot go on for ever: each step of the loop decides a block for good
\* or moves on to the next entry, synthesized blocks included.
EveryStepProgresses ==
    [][status' = "running" /\ query' = query =>
        \/ Undecided' \subseteq Undecided /\ Undecided' # Undecided
        \/ Undecided' = Undecided /\ i' = i + 1 /\ i' <= Len(blockResults') + 1]_vars

\* What was decided about a block of the script is never decided again, for the target
\* (a block ruled out before the walk included) or for the global scope.
DecisionsStand ==
    [][query' = query =>
        \A j \in DOMAIN blockResults, k \in DOMAIN blockResults' :
            blockResults[j].source # 0 /\ blockResults'[k].source = blockResults[j].source =>
                /\ blockResults[j].globalOperation # UNKNOWN =>
                      /\ blockResults'[k].globalOperation = blockResults[j].globalOperation
                      /\ blockResults'[k].targetOperation = blockResults[j].targetOperation
                /\ blockResults[j].targetOperation # UNKNOWN =>
                      blockResults'[k].targetOperation = blockResults[j].targetOperation]_vars

\* evaluate() returns, or raises an error: it never loops for ever.
Returns == <>(status # "running")

\* What a state without removals gets: the blocks whose condition matches one of its
\* target scopes and one of its global scopes, in script order.  Conditions that name
\* scope fields only leave nothing for later values to change.
AddsOnly == \A k \in DOMAIN query.blocks : query.blocks[k].operation = ADD

TestsOnlyScopeFields ==
    \A k \in DOMAIN query.blocks : FieldsTested(query.blocks[k].condition) \subseteq ScopeFields

Applicable(block) ==
    \A scopes \in {query.targetScopes, query.globalScopes} :
        MatchingScopes(block.condition, query.initialValues, scopes, NIL_MATCHES_NONE) # {}

AddsOnlyResult ==
    status = "done" /\ AddsOnly /\ TestsOnlyScopeFields =>
        \A k \in DOMAIN blockResults :
            /\ blockResults[k].source # 0
            /\ blockResults[k].targetOperation # REMOVE
            /\ blockResults[k].targetOperation = ADD <=> Applicable(blockResults[k].sourceBlock)

\* A block passed over for the target stays out of it only while the target's values do
\* not satisfy its condition (state_ooo_tests.lua:12, "A value that is set later should
\* be able to enable a block that was defined earlier").
TargetSaturated ==
    status = "done" =>
        \A k \in DOMAIN blockResults :
            /\ blockResults[k].sourceBlock.operation = ADD
            /\ blockResults[k].targetOperation = UNKNOWN
            => ~InTargetScope(blockResults[k].sourceBlock)

\* The list evaluate() returns is the script's: every block in its place, what no removal touches as
\* the conditions say, and what was added back only as often as it was added (query.lua).
ResultAsWritten ==
    /\ AddsOnlyResult
    /\ ScriptBlocksInOrder
    /\ RestoredOnce

\* Starting over after every decision, in a list that grows, never undoes one and always
\* gets further (query.lua:124-126, 137-140).
WalkProgresses == DecisionsStand /\ EveryStepProgresses
=============================================================================
