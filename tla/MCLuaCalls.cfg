CONSTANTS
    coroutine = coroutine
    Main = main
    Threads = {main, coroutine}
    LUAI_MAXCCALLS = 4
    ERRCCALLS = 2
    LUAI_MAXSTACK = 24
    ERRORSTACKSIZE = 34
    BASIC_STACK_SIZE = 12
    EXTRA_STACK = 5
    LUA_MINSTACK = 4
    FRAME = 4
    Bounds <- MCBounds
SPECIFICATION Spec
INVARIANTS
    CallsSound
PROPERTIES
    ImplementsCoroutines
