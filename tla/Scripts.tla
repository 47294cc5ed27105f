------------------------------ MODULE Scripts ------------------------------
(***************************************************************************)
(* Running scripts: where they are found, the context they run in, modules *)
(* and the callbacks for them (core/host/src/host/premake.c, pmk_load.c,   *)
(* pmk_locate.c and what they call; libraries/pmk_lib_g.c;                 *)
(* core/modules/_G/_G.lua; core/modules/callback/callback.lua).            *)
(*                                                                         *)
(* _SCRIPT and _SCRIPT_DIR are always set together and are one variable.   *)
(***************************************************************************)
EXTENDS Integers, Sequences, SequencesExt, FiniteSets

CONSTANTS
    Files,       \* the files there are: [root, pattern, name, dir], see Located()
    Modules,     \* names given to require()
    Names,       \* names given to doFile()
    Option,      \* the value of --scripts, or NoDirectory
    EnvPath,     \* the directories in PREMAKE6_PATH
    NoDirectory, \* stands for a directory that is not given
    MaxDepth,    \* C calls that may be open, LUAI_MAXCCALLS
    MaxCalls     \* bound on what scripts do

\* A file is somewhere, and is the only one of its name there; PREMAKE6_PATH is a list.
ASSUME ScriptFilesAssumption ==
    /\ EnvPath \in Seq({EnvPath[i] : i \in DOMAIN EnvPath})
    /\ \A f \in Files :
          /\ f.root # NoDirectory
          /\ \A g \in Files :
                f.root = g.root /\ f.pattern = g.pattern /\ f.name = g.name => f = g

VARIABLES
    script,      \* _SCRIPT and _SCRIPT_DIR
    frames,      \* the running calls, the innermost last
    loaded,      \* package.loaded: the number of the run that made each module, 0 for nil
    registered,  \* package.registered
    callbacks,   \* for each module, the contexts of its onRequire() callbacks
    phase,       \* "bootstrap", "main", and "ok" or "failed" at the end
    calls,       \* history: what scripts did so far; numbers the runs
    leaked,      \* history: the frames that an error left with another's context, or -1
    rerun        \* history: modules that were forced, or required while being loaded

scriptVars == <<script, frames, loaded, registered, callbacks, phase, calls, leaked, rerun>>

NIL == [root |-> NoDirectory, pattern |-> NoDirectory, name |-> NoDirectory, dir |-> NoDirectory]

ScriptInit ==
    /\ script = NIL
    /\ frames = <<>>
    /\ loaded = [m \in Modules |-> 0]
    /\ registered = {}
    /\ callbacks = [m \in Modules |-> <<>>]
    /\ phase = "bootstrap"
    /\ calls = 0
    /\ leaked = -1
    /\ rerun = {}

-----------------------------------------------------------------------------
\* The search path, in order (setSearchPath(), getScriptsPath()).
SearchPath ==
    (IF Option = NoDirectory THEN <<>> ELSE <<Option>>)
    \o <<"cwd">> \o EnvPath \o <<"home", "localShare", "share", "executable">>

\* _PREMAKE.PATH with its function called; nil is passed over.
SearchPaths ==
    (IF script = NIL THEN <<>> ELSE <<script.dir>>) \o SearchPath

ScriptPatterns == <<"?">>
ModulePatterns == <<"core/modules/?/?.lua", "?/?.lua", "modules/?/?.lua", "?.lua", "modules/?.lua">>

Place(seq, x) == SelectInSeq(seq, LAMBDA y : y = x)

\* The file that a name stands for, if any: the first in order of the search path, and of the
\* patterns in each of its directories.
Located(name, patterns) ==
    LET paths == SearchPaths
        there == {f \in Files :
            f.name = name /\ Place(paths, f.root) > 0 /\ Place(patterns, f.pattern) > 0}
    IN  {f \in there : \A g \in there :
            \/ Place(paths, f.root) < Place(paths, g.root)
            \/ f.root = g.root /\ Place(patterns, f.pattern) <= Place(patterns, g.pattern)}

-----------------------------------------------------------------------------
Innermost(kinds) == frames # <<>> /\ Last(frames).kind \in kinds

\* What a script does, with the calls numbered.
Step ==
    /\ phase \in {"bootstrap", "main"}
    /\ calls < MaxCalls
    /\ ~Innermost({"require"})
    /\ calls' = calls + 1

Restoring == {"chunk", "module", "force", "register", "callback"}

\* An error goes to the innermost protected call, or ends the program; no context is put
\* back on the way.
Unwind ==
    LET protected == {p \in DOMAIN frames : frames[p].kind = "pcall"}
        p == CHOOSE q \in protected : \A r \in protected : r <= q
    IN  IF protected = {}
        THEN /\ phase' = "failed"
             /\ UNCHANGED <<frames, leaked>>
        ELSE /\ frames' = SubSeq(frames, 1, p - 1)
             /\ leaked' =
                    IF \/ leaked >= p
                       \/ leaked = -1 /\ \E k \in p .. Len(frames) : frames[k].kind \in Restoring
                    THEN p - 1
                    ELSE leaked
             /\ UNCHANGED phase

Raise ==
    /\ Step
    /\ Unwind
    /\ UNCHANGED <<script, loaded, registered, callbacks, rerun>>

\* Seeded error: the context is changed when the file is loaded, and then noted.
RunLate(kind, module, at) ==
    /\ frames' = Append(frames, [kind |-> kind, module |-> module, old |-> at, at |-> at, run |-> calls'])
    /\ script' = at
    /\ UNCHANGED <<leaked, phase>>

\* runScriptChunk(), Callback.call(): the context is noted and set, and the function runs.
\* At the limit of C calls an error is raised.
Run(kind, module, at) ==
    IF Len(frames) < MaxDepth
    THEN /\ frames' = Append(frames,
                [kind |-> kind, module |-> module, old |-> script, at |-> at, run |-> calls'])
         /\ script' = at
         /\ UNCHANGED <<leaked, phase>>
    ELSE /\ Unwind
         /\ UNCHANGED script

\* doFile() and dofile(), doFileOpt() if `optional`.
DoFile(name, optional) ==
    /\ Step
    /\ IF Located(name, ScriptPatterns) # {}
       THEN \E f \in Located(name, ScriptPatterns) : Run("chunk", name, f)
       ELSE IF optional
       THEN UNCHANGED <<script, frames, leaked, phase>>
       ELSE Unwind /\ UNCHANGED script
    /\ UNCHANGED <<loaded, registered, callbacks, rerun>>

\* The callbacks there are when the module is there; those added meanwhile are for next time.
CallbacksOf(m) ==
    [kind |-> "require", module |-> m, due |-> callbacks[m]]

\* require(): Lua's own does not note that a module is being loaded.
Require(m) ==
    /\ Step
    /\ IF loaded[m] # 0
       THEN /\ frames' = Append(frames, CallbacksOf(m))
            /\ UNCHANGED <<script, leaked, phase, rerun>>
       ELSE /\ IF Located(m, ModulePatterns) # {}
               THEN \E f \in Located(m, ModulePatterns) : Run("module", m, f)
               ELSE Unwind /\ UNCHANGED script
            /\ rerun' = rerun \cup {x \in {m} : \E k \in DOMAIN frames :
                             frames[k].kind = "module" /\ frames[k].module = m}
    /\ UNCHANGED <<loaded, registered, callbacks>>

\* forceRequire() runs the module again, and no callbacks.
ForceRequire(m) ==
    /\ Step
    /\ IF Located(m, ModulePatterns) # {}
       THEN \E f \in Located(m, ModulePatterns) : Run("force", m, f)
       ELSE Unwind /\ UNCHANGED script
    /\ rerun' = rerun \cup {m}
    /\ UNCHANGED <<loaded, registered, callbacks>>

\* tryRegister(): _register.lua next to the module, if there is one.
Register(m) ==
    /\ Step
    /\ m \notin registered
    /\ \E f \in Located(m, ModulePatterns) :
          LET scripts == {s \in Files : s.dir = f.dir /\ s.name = "_register.lua"}
          IN  IF scripts = {}
              THEN /\ registered' = registered \cup {m}
                   /\ UNCHANGED <<script, frames, leaked, phase>>
              ELSE /\ \E s \in scripts : Run("register", m, s)
                   /\ UNCHANGED registered
    /\ UNCHANGED <<loaded, callbacks, rerun>>

OnRequire(m) ==
    /\ Step
    /\ callbacks' = [callbacks EXCEPT ![m] = Append(@, script)]
    /\ UNCHANGED <<script, frames, loaded, registered, phase, leaked, rerun>>

\* The next callback of require(), in the context of its maker.
RunCallback ==
    /\ phase \in {"bootstrap", "main"}
    /\ Innermost({"require"})
    /\ Last(frames).due # <<>>
    /\ LET rest == [Last(frames) EXCEPT !.due = Tail(@)]
           at == Head(Last(frames).due)
       IN  IF Len(frames) < MaxDepth
           THEN /\ frames' = Front(frames) \o <<rest, [kind |-> "callback", module |-> rest.module,
                                                       old |-> script, at |-> at, run |-> calls]>>
                /\ script' = at
                /\ UNCHANGED <<leaked, phase>>
           ELSE Unwind /\ UNCHANGED script
    /\ UNCHANGED <<loaded, registered, callbacks, calls, rerun>>

BeginProtected ==
    /\ Step
    /\ Len(frames) < MaxDepth
    /\ frames' = Append(frames, [kind |-> "pcall"])
    /\ UNCHANGED <<script, loaded, registered, callbacks, phase, leaked, rerun>>

\* The end of a require() or of a protected call, with no context to put back.
EndPlain ==
    /\ phase \in {"bootstrap", "main"}
    /\ \/ Innermost({"pcall"})
       \/ Innermost({"require"}) /\ Last(frames).due = <<>>
    /\ frames' = Front(frames)
    /\ leaked' = IF Len(frames) <= leaked THEN Len(frames) - 1 ELSE leaked
    /\ UNCHANGED <<script, loaded, registered, callbacks, phase, calls, rerun>>

\* package.loaded when a chunk has returned, with a value or without; forceRequire() then
\* notes the name it was given.
Noted(f, value) ==
    IF f.kind = "force" \/ (f.kind = "module" /\ (value \/ loaded[f.module] = 0))
    THEN [loaded EXCEPT ![f.module] = f.run]
    ELSE loaded

\* A chunk or a callback returns, and the context is put back.  A module that was required
\* is followed by its callbacks.
Return(value) ==
    /\ phase \in {"bootstrap", "main"}
    /\ Innermost(Restoring)
    /\ LET f == Last(frames)
       IN  /\ script' = f.old
           /\ loaded' = Noted(f, value)
           /\ registered' = IF f.kind = "register" THEN registered \cup {f.module} ELSE registered
           /\ frames' = IF f.kind = "module"
                        THEN Append(Front(frames), CallbacksOf(f.module))
                        ELSE Front(frames)
    /\ leaked' = IF Len(frames) <= leaked THEN -1 ELSE leaked
    /\ UNCHANGED <<callbacks, phase, calls, rerun>>

\* pmk_execute(): the entry point script, then the function it defined.
Proceed ==
    /\ frames = <<>>
    /\ \/ phase = "bootstrap" /\ phase' = "main"
       \/ phase = "main" /\ phase' = "ok"
    /\ UNCHANGED <<script, frames, loaded, registered, callbacks, calls, leaked, rerun>>

ScriptNext ==
    \/ \E name \in Names, optional \in BOOLEAN : DoFile(name, optional)
    \/ \E m \in Modules : Require(m)
    \/ \E m \in Modules : ForceRequire(m)
    \/ \E m \in Modules : Register(m)
    \/ \E m \in Modules : OnRequire(m)
    \/ RunCallback
    \/ Raise
    \/ BeginProtected
    \/ EndPlain
    \/ \E value \in BOOLEAN : Return(value)
    \/ Proceed

ScriptSpec == ScriptInit /\ [][ScriptNext]_scriptVars

-----------------------------------------------------------------------------
\* The context a script was written for: that of the innermost chunk or callback.
Lexical ==
    LET restoring == {k \in DOMAIN frames : frames[k].kind \in Restoring}
    IN  IF restoring = {} THEN NIL ELSE frames[CHOOSE k \in restoring : \A j \in restoring : j <= k].at

\* As long as no error has been caught that left a chunk or a callback, every script, and every
\* callback, runs in the context of its own file; and from the return of a chunk around that
\* error on it does again (pmk_load.c:53-80; callback.lua:29-45).
ContextIsOwn ==
    leaked = -1 => script = Lexical

\* A module is made once, if nobody forces it and it does not require itself while it is being
\* loaded: what package.loaded holds is then never replaced (_G.lua:57-67).
ModulesMadeOnce ==
    [][\A m \in Modules \ rerun' : loaded[m] # 0 => loaded'[m] = loaded[m]]_scriptVars

\* A callback for a module runs only when the module is there, in spite of errors, of modules
\* that require each other and of callbacks that require more (_G.lua:59-64).
CallbacksSeeModule ==
    \A k \in DOMAIN frames : frames[k].kind = "callback" => loaded[frames[k].module] # 0

\* Of two files of one name, a script gets the one in its own directory (premake.c:163-165).
NearestFirst ==
    [][\A f \in Files :
          /\ Len(frames') > Len(frames) /\ Last(frames').kind = "chunk"
          /\ f.root = script.dir /\ f.pattern = "?" /\ f.name = Last(frames').module
          => script' = f]_scriptVars

\* Chunks and callbacks run in the context of their own file and find the modules they were promised,
\* made once and from the nearest place, in spite of errors and of modules that require each other
\* (pmk_load.c; callback.lua; _G.lua; premake.c).
ScriptsRunInContext == [](ContextIsOwn /\ CallbacksSeeModule) /\ ModulesMadeOnce /\ NearestFirst
=============================================================================
