------------------------------ MODULE MCState ------------------------------
(***************************************************************************)
(* Scripts and selectors for model-checking State: a workspace, a project  *)
(* in it and a configuration, with one value of `defines` at every level   *)
(* and a `kind` that only the outer levels set, or only the project.       *)
(***************************************************************************)
EXTENDS State

Is(f, s) == {[field |-> f, pattern |-> s, negated |-> FALSE]}
Data(f, s) == [EmptyMap EXCEPT ![f] = {s}]
Adds(condition, data) == [operation |-> ADD, condition |-> condition, data |-> data]

InW == {Is("workspaces", "W")}
InP == InW \cup {Is("projects", "P")}
InD == {Is("configurations", "D")}

Levels ==
    <<Adds({}, Data("defines", "G")),
      Adds(InW, Data("defines", "OfW")),
      Adds(InP, Data("defines", "OfP"))>>

OfConfig == <<Adds(InP \cup InD, Data("defines", "OfD"))>>
Kind(condition) == <<Adds(condition, Data("kind", "K"))>>

PlainScripts == {Levels \o Kind(c) : c \in {InW, InP}}
ConfigScripts == {Levels \o OfConfig \o Kind(InW)}
MCScripts == PlainScripts \cup ConfigScripts

WorkspaceSelector == Data("workspaces", "W")
ProjectSelector == Data("projects", "P")
ConfigSelector ==
    [EmptyMap EXCEPT !["configurations"] = {"D"}, !["platforms"] = {"X"}]

\* Scripts without configurations are exported by workspace and project.
MCSelectors(s) ==
    {WorkspaceSelector, ProjectSelector} \cup (IF s \in ConfigScripts THEN {ConfigSelector} ELSE {})
MCMaxStates(s) == IF s \in ConfigScripts THEN 4 ELSE 5
=============================================================================
