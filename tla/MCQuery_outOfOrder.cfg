CONSTANTS
    Fields = {"workspaces", "projects", "kind", "defines"}
    StringFields = {"kind"}
    ScopeFields = {"workspaces", "projects"}
    Strings = {"W", "P1", "P2", "K", "L", "B"}
    Nil = Nil
    Workspace = "W"
    Projects = {"P1", "P2"}
    Tails <- OutOfOrderTails
    MaxMixed = 2
    MaxRemovals = 3
    MaxBlocks = 3
    Scripts <- MCScripts
    Queries <- MCQueries
SPECIFICATION SingleSpec
INVARIANT TargetSaturated
CHECK_DEADLOCK FALSE
