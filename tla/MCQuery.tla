------------------------------ MODULE MCQuery ------------------------------
(***************************************************************************)
(* Queries and hierarchies of states for model-checking: a workspace W     *)
(* with projects P1 and P2.  A single query is one of the states the API   *)
(* derives, over a script that declares them and goes on with blocks of a  *)
(* catalogue; a hierarchy is fetched as a whole, over scripts that declare *)
(* the projects anywhere among blocks about one value at any level.        *)
(***************************************************************************)
EXTENDS Hierarchy

CONSTANTS
    Tails,       \* what the scripts of single queries go on with after the declarations
    MaxMixed,    \* bound on blocks of mixed values and conditions
    MaxRemovals, \* bound on blocks about one value
    MaxBlocks    \* blocks in the script of a hierarchy besides the two declarations

VARIABLE subject   \* "query" or "hierarchy"

IsNot(f, s) == {[field |-> f, pattern |-> s, negated |-> TRUE]}

KindIsK == {Is("kind", "K")}

DeclareWorkspace ==
    [operation |-> ADD, condition |-> {}, data |-> Scope("workspaces", Workspace)]
DeclareProjects ==
    [operation |-> ADD, condition |-> InWorkspace,
     data |-> [EmptyMap EXCEPT !["projects"] = Projects]]
Declarations == <<DeclareWorkspace, DeclareProjects>>

\* Conditions on scopes and on the value of `kind`, with "not" and with "or".
ValueCatalogue ==
    [operation : {ADD, REMOVE},
     condition : {{}, InWorkspace, InProject("P1"), InProject("P2"),
                  KindIsK, InWorkspace \cup KindIsK,
                  InWorkspace \cup {IsNot("kind", "K")},
                  InWorkspace \cup {Is("projects", "P2") \cup Is("kind", "K")}},
     data : {Scope("defines", "B"), Scope("kind", "K"), Scope("kind", "L")}]

\* One value, added and removed at every level.
RemovalCatalogue ==
    [operation : {ADD, REMOVE},
     condition : {{}, InWorkspace, InProject("P1"), InProject("P2")},
     data : {Scope("defines", "B")}]

\* Blocks that later ones enable.
OutOfOrderCatalogue ==
    [operation : {ADD},
     condition : {{}, InWorkspace, KindIsK, InWorkspace \cup KindIsK},
     data : {Scope("defines", "B"), Scope("kind", "K")}]

UpTo(n, catalogue) == UNION {[1 .. k -> catalogue] : k \in 0 .. n}

MixedTails == UpTo(MaxMixed, ValueCatalogue)
AllTails == MixedTails \cup UpTo(MaxRemovals, RemovalCatalogue)
OutOfOrderTails == UpTo(MaxRemovals, OutOfOrderCatalogue)

\* P1 from the scopes of P2 targets a scope outside its global scopes.
MCStates ==
    {StateOf(name) : name \in StateNames}
        \cup {InheritFrom(ProjectState("P1"), WorkspaceState),
              FromScopes(ProjectState("P1"), ProjectState("P2"))}

MCScripts ==
    {<<DeclareWorkspace>> \o InsertAt(blocks, at, DeclareProjects) :
        at \in 1 .. MaxBlocks + 1, blocks \in [1 .. MaxBlocks -> RemovalCatalogue]}

MCQueries ==
    {QueryOf(s, blocks) : s \in MCStates, blocks \in Scripts \cup {Declarations \o tail : tail \in Tails}}

-----------------------------------------------------------------------------
SingleInit ==
    /\ subject = "query"
    /\ \E s \in MCStates, tail \in Tails : Begins(QueryOf(s, Declarations \o tail))
    /\ script = <<>>
    /\ fetched = <<>>

MCInit == SingleInit \/ (subject = "hierarchy" /\ HierarchyInit)

Evaluation == EvaluateStep /\ UNCHANGED subject
MCNext ==
    \/ subject = "query" /\ Evaluation
    \/ subject = "hierarchy" /\ HierarchyNext /\ UNCHANGED subject

MCVars == <<hierarchyVars, subject>>

\* evaluate() is one synchronous Lua call: it keeps running until it returns.
MCSpec == MCInit /\ [][MCNext]_MCVars /\ WF_MCVars(Evaluation)

SingleSpec == SingleInit /\ [][MCNext]_MCVars
=============================================================================
