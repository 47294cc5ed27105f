CONSTANTS
    Alphabet <- MCAlphabet
    ClassSet <- MCClassSet
    Negated <- MCNegated
    Digits <- MCDigits
    MaxCaptures = 2
    MaxCCalls = 6
    NB = 2
    CodePoints = {65, 128, 2047, 2048, 65535, 65536, 1114111}
    Bytes = {65, 128, 191, 192, 194, 224, 240, 244, 255}
    SZINT = 2
    Format <- MCFormat
    Arguments <- MCArguments
    Byte <- MCByte
    HexValue <- MCHexValue
    Letters <- MCLetters
    Words <- MCWords
    WellFormed <- MCWellFormed
    PATH_MAX = 12
    STAR = 3
    IntBits = 5
    FloatBits = 3
    Exponents = 5
    UNIT = 4
    RANDMAX = 3
    ReadNumerals <- MCReadNumerals
SPECIFICATION Spec
INVARIANTS
    PatternsAsMeant
    EncodingsExact
    TokensAsWritten
    ConversionsKeepMeaning
    NumbersAsMeant
CHECK_DEADLOCK FALSE
