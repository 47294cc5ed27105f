----------------------------- MODULE Hierarchy -----------------------------
(***************************************************************************)
(* The states an exporter asks for, evaluated over one script: the global  *)
(* scope, a workspace and its projects, each on its own ("only what is     *)
(* written at this level") and inheriting, as modules/vstudio derives them.*)
(* Each is fetched in turn: State.fetch() runs Query on first use.         *)
(*                                                                         *)
(* The scripts are those whose conditions name scope fields only, for      *)
(* which what a project should end up with can be read off the script.     *)
(***************************************************************************)
EXTENDS Query, StateScopes, FiniteSets

CONSTANTS
    Scripts,    \* the scripts to evaluate, sequences of blocks
    Workspace,  \* the workspace, a string
    Projects    \* its projects, a set of strings

Is(f, s) == {[field |-> f, pattern |-> s, negated |-> FALSE]}

\* The conditions of blocks written at a level: what workspace() and project() push.
InWorkspace == {Is("workspaces", Workspace)}
InProject(p) == InWorkspace \cup {Is("projects", p)}
Levels == {{}, InWorkspace} \cup {InProject(p) : p \in Projects}

\* A block that brings or takes values at one of the levels.  What workspace() and project()
\* declare is in blocks that add: the workspace anywhere, its projects in its own scope.
LevelBlock ==
    {block \in Block :
        /\ block.condition \in Levels
        /\ block.data["workspaces"] \in {Nil, {Workspace}}
        /\ block.data["projects"] # Nil =>
              block.condition = InWorkspace /\ block.data["projects"] \subseteq Projects
        /\ block.operation = REMOVE => block.data["workspaces"] = Nil /\ block.data["projects"] = Nil}

ASSUME HierarchyAssumption ==
    /\ {"workspaces", "projects"} \subseteq ScopeFields \ StringFields
    /\ Workspace \in Strings
    /\ Projects \subseteq Strings /\ IsFiniteSet(Projects)
    /\ \A s \in Scripts :
          /\ s \in Seq(LevelBlock)
          /\ \A p \in Projects : \E n \in DOMAIN s : p \in Held(s[n].data["projects"])

VARIABLES
    script,     \* the blocks of the store
    fetched     \* the values fetched so far, by state name

hierarchyVars == <<vars, script, fetched>>

-----------------------------------------------------------------------------
Scope(f, s) == [EmptyMap EXCEPT ![f] = {s}]

RootState == NewState(EmptyMap)
WorkspaceState == Select(RootState, Scope("workspaces", Workspace))
ProjectState(p) == Select(WorkspaceState, Scope("projects", p))

\* vstudio.fetchWorkspace() and vstudio.fetchProject(): no file holds global settings, so
\* the workspace inherits them and a project includes what is written for it globally.
InheritingWorkspace == InheritFrom(WorkspaceState, RootState)
InheritingProject(p) ==
    InheritFrom(FromScopes(ProjectState(p), RootState), InheritingWorkspace)

\* Names of the states: <<kind, name>>.
StateNames ==
    {<<"root", Workspace>>, <<"workspace", Workspace>>, <<"inheritingWorkspace", Workspace>>}
        \cup ({"project", "inheritingProject"} \X Projects)

StateOf(name) ==
    CASE name[1] = "root" -> RootState
      [] name[1] = "workspace" -> WorkspaceState
      [] name[1] = "inheritingWorkspace" -> InheritingWorkspace
      [] name[1] = "project" -> ProjectState(name[2])
      [] name[1] = "inheritingProject" -> InheritingProject(name[2])

\* The states are independent of each other; they are fetched in one fixed order.
FetchOrder == SetToSeq(StateNames)

-----------------------------------------------------------------------------
HierarchyInit ==
    /\ script \in Scripts
    /\ fetched = <<>>
    /\ Begins(QueryOf(StateOf(FetchOrder[1]), script))

EvaluateStep == Next /\ UNCHANGED <<script, fetched>>

\* The values are recorded and the next state is asked for, if there is one.
FetchValues ==
    /\ status = "done"
    /\ Len(fetched) < Len(FetchOrder)
    /\ fetched' = Append(fetched,
           [f \in Fields |-> FetchedValue(EnabledBlocks, query.initialValues, f)])
    /\ IF Len(fetched) + 1 = Len(FetchOrder) THEN UNCHANGED vars
       ELSE BeginNext(QueryOf(StateOf(FetchOrder[Len(fetched) + 2]), script))
    /\ UNCHANGED script

HierarchyNext == EvaluateStep \/ FetchValues

HierarchySpec == HierarchyInit /\ [][HierarchyNext]_hierarchyVars

-----------------------------------------------------------------------------
(***************************************************************************)
(* What the script asks for, and how the fetched values compare.           *)
(***************************************************************************)
AllFetched == Len(fetched) = Len(FetchOrder)

Value(name, f) ==
    Held(fetched[CHOOSE n \in DOMAIN FetchOrder : FetchOrder[n] = name][f])

Collections == Fields \ (StringFields \cup ScopeFields)

\* The values script leaves in field f at a place of the hierarchy, when every block
\* whose condition holds there is applied in script order.
Asked(place, f) ==
    LET applied == {n \in DOMAIN script :
                       MatchesValues(script[n].condition, place, place, NIL_MATCHES_NONE)}
    IN  SurvivorsOf(script, applied, f)

WorkspacePlace == Scope("workspaces", Workspace)
ProjectPlace(p) == MergeKeys(WorkspacePlace, Scope("projects", p))

\* The values the files of root, workspace and project p bring together.
FromContainers(f) == Value(<<"root", Workspace>>, f) \cup Value(<<"workspace", Workspace>>, f)
Layered(p, f) == FromContainers(f) \cup Value(<<"project", p>>, f)

\* Removing a value for one project takes it away from no other: what the script asks for
\* reaches every project through its own file or those it inherits from.
NothingLost ==
    AllFetched => \A p \in Projects, f \in Collections :
        Asked(ProjectPlace(p), f) \subseteq Layered(p, f)

\* Toolsets cannot take a value away again, so a container's file never holds one that
\* some project of it must do without (state_remove_tests.lua:41-49).
ContainersAdditive ==
    AllFetched => \A p \in Projects, f \in Collections :
        FromContainers(f) \subseteq Asked(ProjectPlace(p), f)

\* A project that inherits everything has all that the script asks for.
InheritingProjectComplete ==
    AllFetched => \A p \in Projects, f \in Collections :
        Asked(ProjectPlace(p), f) \subseteq Value(<<"inheritingProject", p>>, f)

\* Inheriting adds what the containers have, and hides nothing of it.
InheritingWorkspaceComplete ==
    AllFetched => \A f \in Collections :
        FromContainers(f) \subseteq Value(<<"inheritingWorkspace", Workspace>>, f)

\* Blocks that remove, other than for a single project.
RemovesAboveProjects ==
    \E k \in DOMAIN script :
        script[k].operation = REMOVE /\ "projects" \notin FieldsTested(script[k].condition)

\* When values are only ever removed for single projects, each project gets exactly what
\* the script asks for, by its files and when it inherits.
ExactWhenProjectsRemove ==
    AllFetched /\ ~RemovesAboveProjects => \A p \in Projects, f \in Collections :
        /\ Layered(p, f) = Asked(ProjectPlace(p), f)
        /\ Value(<<"inheritingProject", p>>, f) = Asked(ProjectPlace(p), f)

\* Together, the files of a root, a workspace and its projects say what the script says for each project:
\* nothing is lost to a sibling's removal, nothing is added where a project must not have it, and inheriting
\* states are complete by themselves (query.lua; state.lua).
ProjectFilesComplete ==
    /\ NothingLost
    /\ ContainersAdditive
    /\ InheritingProjectComplete
    /\ InheritingWorkspaceComplete
    /\ ExactWhenProjectsRemove
=============================================================================
