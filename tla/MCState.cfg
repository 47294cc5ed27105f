CONSTANTS
    Fields = {"workspaces", "projects", "configurations", "platforms", "kind", "defines"}
    StringFields = {"kind"}
    ScopeFields = {"workspaces", "projects", "configurations", "platforms"}
    Strings = {"W", "P", "D", "X", "K", "G", "OfW", "OfP", "OfD"}
    Nil = Nil
    Scripts <- MCScripts
    Selectors <- MCSelectors
    MaxStates <- MCMaxStates
SPECIFICATION ExporterSpec
INVARIANTS
    StatesWellFormed
    Coherent
    InheritsFromContainer
CHECK_DEADLOCK FALSE
