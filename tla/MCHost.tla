------------------------------- MODULE MCHost -------------------------------
(***************************************************************************)
(* The parts of the host and of the modules around it, each from its own   *)
(* initial state: buffers, files, exports, running scripts, the command    *)
(* line, paths, masks with wildcards, trees of source files, and the       *)
(* values of fields.                                                       *)
(***************************************************************************)
EXTENDS Exports, Scripts, Options, Paths, Matching, SourceTree, FieldKinds

VARIABLE subject   \* the machine that runs

MCTexts == {<<>>, <<"a">>, <<"b">>, <<"a", "b">>, <<"a", "b", "b">>, <<"a", "b", "a">>}
MCExportPath == <<"d">>

\* Two modules below the working directory and on the search path, two files of one name,
\* and one that registers a module.
At(root, pattern, name, dir) == [root |-> root, pattern |-> pattern, name |-> name, dir |-> dir]
MCFiles == {At("cwd", "?", "part", "cwd"),
            At("cwd", "modules/?/?.lua", "m", "cwd/modules/m"),
            At("share", "?.lua", "m", "share"),
            At("cwd/modules/m", "?", "part", "cwd/modules/m"),
            At("cwd/modules/m", "?", "_register.lua", "cwd/modules/m"),
            At("lib", "modules/?.lua", "n", "lib/modules")}
MCEnvPath == <<"lib">>

\* Every command line of up to three of these arguments.
MCArguments == {<<"a">>, <<"a", "x">>, <<"b">>}
MCCommandLines == UNION {[1 .. n -> MCArguments] : n \in 0 .. 3}

\* Files and directories at every depth, some of them with names that several masks match.
MCPlaces ==
    {[files |-> {}, directories |-> {}],
     [files |-> {<<"b">>, <<"ab">>, <<"a", "ab">>, <<"a", "a", "b">>, <<"a", "b", "b">>},
      directories |-> {<<"a">>, <<"a", "a">>, <<"a", "b">>, <<"c">>}],
     [files |-> {<<"a">>, <<"b", "ab">>, <<"b", "b", "ab">>, <<"b", "b", "a">>, <<"b", "b", "b", "a">>},
      directories |-> {<<"b">>, <<"b", "b">>, <<"b", "b", "b">>}]}

\* A project and its files, below it, beside it, above it and elsewhere.
MCBaseDirectory == <<"", "r", "p">>
MCSourceFiles ==
    {<<"", "r", "p", "b", "c">>, <<"", "r", "p", "b", "a", "c">>, <<"", "r", "p", "a", "c">>,
     <<"", "r", "p", "c">>, <<"", "r", "b", "a">>, <<"", "r", "c">>, <<"", "s", "b">>}
MCNameOrder == <<"..", "a", "b", "c", "s">>

fileVars == <<filesVars, exportVars>>
scriptsVars == <<scriptVars, optionVars>>
namesVars == <<pathVars, maskVars, treeVars, fieldVars>>
vars == <<subject, bufferVars, fileVars, scriptsVars, namesVars>>

Init ==
    /\ subject \in {"buffer", "files", "exports", "scripts", "options", "paths", "masks", "trees",
                   "fields"}
    /\ BufferInit
    /\ FilesInit
    /\ ExportInit
    /\ ScriptInit
    /\ OptionInit
    /\ PathInit
    /\ MaskInit
    /\ TreeInit
    /\ FieldInit
    /\ subject # "options" => arguments = <<>>
    /\ subject # "fields" => field \in ScopeFields

BufferStep == subject = "buffer" /\ BufferNext /\ UNCHANGED <<subject, fileVars, scriptsVars, namesVars>>
FilesStep == subject = "files" /\ FilesNext /\ UNCHANGED <<subject, bufferVars, exportVars, scriptsVars, namesVars>>
ExportStep == subject = "exports" /\ ExportNext /\ UNCHANGED <<subject, bufferVars, done, scriptsVars, namesVars>>
ScriptStep == subject = "scripts" /\ ScriptNext /\ UNCHANGED <<subject, bufferVars, fileVars, optionVars, namesVars>>
OptionStep == subject = "options" /\ OptionNext /\ UNCHANGED <<subject, bufferVars, fileVars, scriptVars, namesVars>>
PathStep == subject = "paths" /\ AskPath /\ UNCHANGED <<subject, bufferVars, fileVars, scriptsVars, maskVars, treeVars, fieldVars>>
MaskStep == subject = "masks" /\ AskMask /\ UNCHANGED <<subject, bufferVars, fileVars, scriptsVars, pathVars, treeVars, fieldVars>>
TreeStep == subject = "trees" /\ TreeNext /\ UNCHANGED <<subject, bufferVars, fileVars, scriptsVars, pathVars, maskVars, fieldVars>>
FieldStep == subject = "fields" /\ FieldNext /\ UNCHANGED <<subject, bufferVars, fileVars, scriptsVars, pathVars, maskVars, treeVars>>

Next == BufferStep \/ FilesStep \/ ExportStep \/ ScriptStep \/ OptionStep \/ PathStep \/ MaskStep \/ TreeStep
        \/ FieldStep

\* An append that was begun goes on: nothing else runs in the one thread of the host.
Appending ==
    subject = "buffer" /\ (Grow \/ Store) /\ UNCHANGED <<subject, fileVars, scriptsVars, namesVars>>

Spec == Init /\ [][Next]_vars /\ WF_vars(Appending)

\* Masks alone.
MaskSpec == Init /\ subject = "masks" /\ [][Next]_vars
=============================================================================
