------------------------------- MODULE Store -------------------------------
(***************************************************************************)
(* The configuration store (core/modules/store, block, stack): scripts push*)
(* and pop conditions and add or remove values, and the store collects the *)
(* values of consecutive calls into blocks.                                *)
(*                                                                         *)
(* A block is a table that later calls change: blocks live in heap and are *)
(* named by their index; 0 is nil.  The history variable log keeps every   *)
(* call as a block of its own, the meaning the collected blocks must have. *)
(***************************************************************************)
EXTENDS Conditions, SequencesExt, FiniteSets

CONSTANTS
    Clauses,      \* the clause tables given to when(), parsed
    Given,        \* <<field, patterns>> pairs scripts add or remove
    MaxCalls,     \* bound on the calls in force, and on the blocks ever made
    MaxDepth,     \* bound on the condition stack
    MaxSnapshots  \* bound on the snapshots taken

ASSUME StoreAssumption ==
    /\ Clauses \subseteq Condition
    /\ Given \subseteq Fields \X (SUBSET Strings)

VARIABLES
    heap,          \* the block tables
    blocks,        \* _blocks, indices into heap
    currentBlock,  \* _currentBlock, an index into heap or 0
    conditions,    \* _conditions, the top last
    snapshots,     \* what snapshot() returned, kept by the caller
    log            \* history: the calls in force

vars == <<heap, blocks, currentBlock, conditions, snapshots, log>>

EMPTY_CONDITION == {}

SnapshotType == [conditions : Seq(Condition), blocks : Seq(Nat), log : Seq(Block)]

StoreInit ==
    /\ heap = <<>>
    /\ blocks = <<>>
    /\ currentBlock = 0
    /\ conditions = <<EMPTY_CONDITION>>
    /\ snapshots = <<>>
    /\ log = <<>>

-----------------------------------------------------------------------------
Top == Last(conditions)

\* Seeded error: the block of the outer condition goes on.
PushConditionOnly(clauses) ==
    /\ Len(conditions) < MaxDepth
    /\ conditions' = Append(conditions, MergeConditions(Top, clauses))
    /\ UNCHANGED <<heap, blocks, currentBlock, snapshots, log>>

\* Every clause of the outer conditions applies as well.
PushCondition(clauses) ==
    /\ Len(conditions) < MaxDepth
    /\ conditions' = Append(conditions, MergeConditions(Top, clauses))
    /\ currentBlock' = 0
    /\ UNCHANGED <<heap, blocks, snapshots, log>>

PopCondition ==
    /\ Len(conditions) > 1
    /\ conditions' = Front(conditions)
    /\ currentBlock' = 0
    /\ UNCHANGED <<heap, blocks, snapshots, log>>

\* receive(): a string replaces the one that was there, a collection grows.
Receive(data, f, values) == [data EXCEPT ![f] = MergeValues(f, data[f], values)]

\* _getBlockFor(): the current block as long as it is for the same operation.
Continues(operation) == currentBlock # 0 /\ heap[currentBlock].operation = operation

NewBlock(operation) ==
    [operation |-> operation, condition |-> Top, data |-> EmptyMap]

\* Seeded error: off by one.
LastIndex == Len(heap)

NewIndex == Len(heap) + 1

StoreValue(operation, f, values) ==
    /\ Len(log) < MaxCalls /\ Len(heap) < MaxCalls
    /\ IF Continues(operation)
       THEN /\ heap' = [heap EXCEPT ![currentBlock].data = Receive(@, f, values)]
            /\ UNCHANGED <<blocks, currentBlock>>
       ELSE /\ heap' = Append(heap, [NewBlock(operation) EXCEPT !.data = Receive(@, f, values)])
            /\ blocks' = Append(blocks, NewIndex)
            /\ currentBlock' = NewIndex
    /\ log' = Append(log, [NewBlock(operation) EXCEPT !.data = Receive(@, f, values)])
    /\ UNCHANGED <<conditions, snapshots>>

AddValue(f, values) == StoreValue(ADD, f, values)

RemoveValue(f, values) == StoreValue(REMOVE, f, values)

\* The caller keeps the old tables; the store goes on with copies of them, and pushes an
\* empty condition.
TakeSnapshot == [conditions |-> conditions, blocks |-> blocks, log |-> log]

Snapshot ==
    /\ Len(snapshots) < MaxSnapshots
    /\ snapshots' = Append(snapshots, TakeSnapshot)
    /\ conditions' = Append(conditions, MergeConditions(Top, EMPTY_CONDITION))
    /\ currentBlock' = 0
    /\ UNCHANGED <<heap, blocks, log>>

\* Seeded error: the conditions stay what they were.
RollbackBlocks(snapshot) ==
    /\ blocks' = snapshot.blocks
    /\ log' = snapshot.log
    /\ UNCHANGED <<heap, currentBlock, conditions, snapshots>>

\* The current block stays what it was.
Rollback(snapshot) ==
    /\ conditions' = snapshot.conditions
    /\ blocks' = snapshot.blocks
    /\ log' = snapshot.log
    /\ UNCHANGED <<heap, currentBlock, snapshots>>

-----------------------------------------------------------------------------
\* What project scripts can do: when(), and the functions made for every field.
ScriptNext ==
    \/ \E clauses \in Clauses : PushCondition(clauses)
    \/ PopCondition
    \/ \E given \in Given : AddValue(given[1], given[2]) \/ RemoveValue(given[1], given[2])

StoreNext ==
    \/ ScriptNext
    \/ Snapshot
    \/ \E n \in DOMAIN snapshots : Rollback(snapshots[n])

StoreSpec == StoreInit /\ [][StoreNext]_vars

-----------------------------------------------------------------------------
(***************************************************************************)
(* Properties.                                                             *)
(***************************************************************************)
\* The list, the current block and the snapshots refer to blocks that exist.
TypeOK ==
    /\ heap \in Seq(Block)
    /\ blocks \in Seq(DOMAIN heap)
    /\ currentBlock \in 0 .. Len(heap)
    /\ conditions \in Seq(Condition)
    /\ snapshots \in Seq(SnapshotType)
    /\ log \in Seq(Block)

Blocks(ids) == [n \in DOMAIN ids |-> heap[ids[n]]]

\* Conditions that any evaluation could find to hold, all others failing.
ConditionsOf(ops) == {ops[n].condition : n \in DOMAIN ops}

Applied(ops, held) == {n \in DOMAIN ops : ops[n].condition \in held}

Meaning(ops, held, f) == SurvivorsOf(ops, Applied(ops, held), f)

Removes(ops, f) ==
    \E n \in DOMAIN ops : ops[n].operation = REMOVE /\ ops[n].data[f] # Nil

\* Two lists of operations leave the same values in field f, whichever conditions hold.
SameMeaning(ops1, ops2, f) ==
    \A held \in SUBSET (ConditionsOf(ops1) \cup ConditionsOf(ops2)) :
        Meaning(ops1, held, f) = Meaning(ops2, held, f)

\* Collecting calls into blocks changes nothing: whichever conditions come to hold, the
\* blocks leave the values that the calls, one by one, would leave (store.lua:21-32).
BlocksMeanCalls ==
    \A f \in Fields :
        ~(f \in StringFields /\ Removes(log, f)) => SameMeaning(Blocks(blocks), log, f)

\* What a snapshot kept does not change behind its back: no block in it is given further
\* values (store.lua:128, "so it can be rolled back later").
SnapshotsFrozen ==
    [][\A n \in DOMAIN snapshots : \A id \in ToSet(snapshots[n].blocks) :
          heap'[id] = heap[id]]_vars
=============================================================================
