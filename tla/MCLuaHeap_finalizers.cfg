CONSTANTS
    Tables = {r, t, u}
    Strings = {s}
    Main = main
    Coroutine = co
    Closure = f
    Registry = r
    Slot = "slot"
    Nil = "nil"
    SweepMax = 1
    MaxStack = 3
    MaxEntries = 2
    MaxFinalizers = 2
    T = t
    U = u
    S = s
SPECIFICATION FinalizersSpec
INVARIANT AllWhiteAfterSweep
CHECK_DEADLOCK FALSE
