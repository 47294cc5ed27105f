CONSTANTS
    Fields = {"workspaces", "projects", "kind", "defines"}
    StringFields = {"kind"}
    ScopeFields = {"workspaces", "projects"}
    Strings = {"W", "P", "A", "B", "K", "L"}
    Nil = Nil
    Clauses <- MCClauses
    Given <- MCGiven
    MaxCalls = 3
    MaxDepth = 3
    MaxSnapshots = 1
    MaxTests = 2
SPECIFICATION Spec
INVARIANTS TypeOK BlocksMeanCalls ScriptUnchangedByTests TestsIsolated
PROPERTY SnapshotsFrozen
CHECK_DEADLOCK FALSE
