----------------------------- MODULE MCTestRun -----------------------------
(***************************************************************************)
(* Values and conditions for model-checking Store and TestRun: a script    *)
(* alone, with every value and condition below, and a whole run, with few. *)
(***************************************************************************)
EXTENDS TestRun

VARIABLE subject   \* what is run

When(f, s) == {{[field |-> f, pattern |-> s, negated |-> FALSE]}}

MCClauses == {When("workspaces", "W"), When("projects", "P")}
MCGiven == {<<"defines", {"A"}>>, <<"defines", {"B"}>>, <<"kind", {"K"}>>, <<"kind", {"L"}>>}

Init == RunInit /\ subject \in {"script", "run"}

ScriptStep ==
    /\ subject = "script"
    /\ ScriptNext
    /\ UNCHANGED <<subject, phase, testsRun, scriptResult, madeBefore>>

RunStep ==
    /\ subject = "run"
    /\ RunNext
    /\ \A n \in DOMAIN heap' : heap'[n].data["kind"] = Nil
    /\ \A n \in DOMAIN conditions' : conditions'[n] \subseteq When("workspaces", "W")
    /\ UNCHANGED subject

Next == ScriptStep \/ RunStep

Spec == Init /\ [][Next]_<<subject, runVars>>
=============================================================================
