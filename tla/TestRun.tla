------------------------------ MODULE TestRun ------------------------------
(***************************************************************************)
(* The store over a run of the program that executes tests: core/modules/  *)
(* main snapshots the store before any script, the project script fills it,*)
(* and around every test of modules/testing the hooks of                   *)
(* core/modules/premake put that snapshot in place, and afterwards the     *)
(* script's configuration back.                                            *)
(***************************************************************************)
EXTENDS Store

CONSTANT MaxTests   \* bound on the tests run

VARIABLES
    phase,         \* "startup", "script", "between" tests, or in a "test"
    testsRun,
    scriptResult,  \* history: the configuration the script left
    madeBefore     \* history: how many blocks had been made when the test began

runVars == <<vars, phase, testsRun, scriptResult, madeBefore>>

Configuration == [conditions |-> conditions, blocks |-> Blocks(blocks)]

\* The upvalues _testStateSnapshot and, of the test hooks, snapshot.
TestStateSnapshot == snapshots[1]
HookSnapshot == snapshots[2]

RunInit ==
    /\ StoreInit
    /\ phase = "startup"
    /\ testsRun = 0
    /\ scriptResult = Configuration
    /\ madeBefore = 0

-----------------------------------------------------------------------------
SnapshotStateForTesting ==
    /\ phase = "startup"
    /\ Snapshot
    /\ phase' = "script"
    /\ UNCHANGED <<testsRun, scriptResult, madeBefore>>

\* when() pops what it pushed, and no more.
OpenWhens ==
    Len(conditions) - Len(TestStateSnapshot.conditions) - (IF phase = "script" THEN 1 ELSE 0)

Call ==
    \/ \E clauses \in Clauses : PushCondition(clauses)
    \/ OpenWhens > 0 /\ PopCondition
    \/ \E given \in Given : AddValue(given[1], given[2]) \/ RemoveValue(given[1], given[2])

ScriptCall ==
    /\ phase = "script"
    /\ Call
    /\ UNCHANGED <<phase, testsRun, scriptResult, madeBefore>>

\* An error in the script ends the program: every when() has returned.
FinishScript ==
    /\ phase = "script"
    /\ OpenWhens = 0
    /\ phase' = "between"
    /\ scriptResult' = Configuration
    /\ UNCHANGED <<vars, testsRun, madeBefore>>

\* Seeded error: the block in use goes on.
BlockGoesOn == UNCHANGED currentBlock

\* snapshot() leaves no current block.
NoCurrentBlock == currentBlock' = 0

\* Seeded error: the blocks stay what they were.
RestoreTestConditions ==
    /\ conditions' = TestStateSnapshot.conditions
    /\ UNCHANGED <<blocks, log>>

RestoreTestState ==
    /\ conditions' = TestStateSnapshot.conditions
    /\ blocks' = TestStateSnapshot.blocks
    /\ log' = TestStateSnapshot.log

\* onBeforeTest: snapshot(), then rollback().
BeforeTest ==
    /\ phase = "between"
    /\ testsRun < MaxTests
    /\ snapshots' = <<TestStateSnapshot, TakeSnapshot>>
    /\ NoCurrentBlock
    /\ RestoreTestState
    /\ phase' = "test"
    /\ testsRun' = testsRun + 1
    /\ madeBefore' = Len(heap)
    /\ UNCHANGED <<heap, scriptResult>>

\* setup, the test itself, and teardown.
TestCall ==
    /\ phase = "test"
    /\ Call
    /\ UNCHANGED <<phase, testsRun, scriptResult, madeBefore>>

\* onAfterTest.  An error in the test is caught with its when() calls still open.
AfterTest ==
    /\ phase = "test"
    /\ Rollback(HookSnapshot)
    /\ phase' = "between"
    /\ UNCHANGED <<testsRun, scriptResult, madeBefore>>

RunNext ==
    \/ SnapshotStateForTesting
    \/ ScriptCall
    \/ FinishScript
    \/ BeforeTest
    \/ TestCall
    \/ AfterTest

RunSpec == RunInit /\ [][RunNext]_runVars

-----------------------------------------------------------------------------
(***************************************************************************)
(* Properties.                                                             *)
(***************************************************************************)
\* Tests, failed ones too, leave the configuration of the project script as it was
\* (premake.lua:29-31, "restore it once the test has completed").
ScriptUnchangedByTests == phase = "between" => Configuration = scriptResult

\* A test sees neither the script's blocks nor those of an earlier test (premake.lua:119,
\* "without picking up user project artifacts").
TestsIsolated ==
    phase = "test" => \A n \in DOMAIN blocks : blocks[n] > madeBefore
=============================================================================
