CONSTANTS
    Bytes = {"x", "r", "n"}
    Zero = "0"
    CR = "r"
    LF = "n"
    MinCapacity = 2
    MaxLength = 6
    FileNames = {"d"}
    MaxNames = 3
    Texts <- MCTexts
    Space = " "
    MaxText = 3
    ChunkSize = 2
    Word = "x"
    Tab = "t"
    ExportPath <- MCExportPath
    MaxRequests = 6
    MaxFrames = 3
    Files <- MCFiles
    Modules = {"m", "n"}
    Names = {"part", "absent"}
    Option = "none"
    EnvPath <- MCEnvPath
    NoDirectory = "none"
    MaxDepth = 4
    MaxCalls = 4
    CommandLines <- MCCommandLines
    Triggers = {"a", "b"}
    MaxDefinitions = 4
    PathNames = {"a", "**"}
    Variable = "$(V)"
    MaxSegments = 4
    Places <- MCPlaces
    MaskNames = {"a", "*", "*b", "**", "**b", "a**", "."}
    MaxMaskNames = 3
    BaseDirectory <- MCBaseDirectory
    SourceFiles <- MCSourceFiles
    MaxFiles = 3
    NameOrder <- MCNameOrder
    Fields = {"kind", "set", "list"}
    StringFields = {"kind"}
    ListFields = {"list"}
    ScopeFields = {"set"}
    Strings = {"p", "q", "r"}
    Nil = Nil
    MaxFieldCalls = 3
    MaxValues = 2
SPECIFICATION Spec
INVARIANTS
    ExportsAsCaptured
    
    PathsKeepPlace
    MasksFindAll
    TreesComplete
PROPERTIES
    ImplementsByteString
    AppendsEnd
    FilesAsReported
    ScriptsRunInContext
    KindsHoldValues
CHECK_DEADLOCK FALSE
