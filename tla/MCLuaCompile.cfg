CONSTANTS
    MAXREGS = 24
    MAXINDEXRK = 3
    MAXARG_Bx = 5
    LFIELDS_PER_FLUSH = 2
    MAXVARS = 12
    MAXUPVAL = 6
    LUAI_MAXCCALLS = 30
    STACK = 48
    Fuel = 400
    Names <- MCNames
    NumberOf <- MCNumberOf
    StringOf <- MCStringOf
    Programs <- MCPrograms
    Inputs <- MCInputs
    MAXTAGLOOP = 3
    FRAMESIZE = 6
    Numerals <- MCNumerals
INIT Init
NEXT Next
INVARIANTS
    OperatorsSound
PROPERTIES
    CompiledAsWritten
CHECK_DEADLOCK FALSE
