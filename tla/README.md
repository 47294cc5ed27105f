# Premake 6: TLA+ models, checks and proofs

Premake runs a project script, collects what it says into a *store* of
conditional blocks, and then lets exporters *query* those blocks: a state asks
for the values that apply to a workspace, a project or a configuration, and
gets them with or without what it could inherit. The modules that do this are
written in Lua and run in a small C host with a Lua of its own. This
directory models all three, checks the models with TLC, and proves with TLAPS
what matters most about the first two. Paths below are relative to the
repository (`src/core/modules/...` is shortened to `core/modules/...`, and the
vendored Lua, `src/core/contrib/lua/src`, to the names of its files).

- [Inventory](#inventory)
- [Modules](#modules)
- [What the runs check](#what-the-runs-check)
- [Bounds](#bounds) and [fairness](#fairness)
- [Proofs](#proofs)
- [Where code and documentation disagree](#where-code-and-documentation-disagree)
- [Not modelled](#not-modelled)
- [Plan](#plan)

## Inventory

Everything runs in one thread of one process. What makes the program hard is
not concurrency but order and aliasing: tables that are shared or copied by
reference, caches filled on first use, lists rebuilt while they are walked,
hooks and callbacks around code that may raise an error, and scripts that call
the API in any order. In the interpreter it is interleaving after all: of
collector and program, of coroutines, of an operator and the metamethod it calls.

| Component | State it keeps | Operations | Interacts with | What is hard |
|---|---|---|---|---|
| Fields and their kinds (`core/modules/field`, `set`) | registry of fields by name; a kind per field (string, set, list, file, directory) | `register`, `remove`, `mergeValues`, `removeValues`, `receiveAllValues`, `matchesPattern` | scripting is told of fields that come and go | a set is an array and a table of keys; nil is not the empty collection |
| Conditions (`condition`) | an AND of clauses, each an OR of possibly negated patterns; the fields it tests | `new`, `merge`, `matchesValues`, `matchesScopeAndValues` | fields | what an absent value matches, under negation too |
| Store and blocks (`store`, `block`, `stack`) | stack of conditions, list of blocks, the block being filled | `pushCondition`, `popCondition`, `addValue`, `removeValue`, `snapshot`, `rollback` | filled by scripting, read by states | block tables are shared between the list, the current block and snapshots |
| Scripting (`scripting`) | the global functions generated for fields | `when`, `workspace`, `project`, one function per field and its `remove...` twin | store, fields | an error leaves conditions pushed |
| Query (`state/src/query.lua`) | a list of results, two accumulations of values, an index; all local to one call | `evaluate` | reads blocks and a state's scopes | the walk restarts after every decision, and inserts into the list it walks |
| State (`state`) | initial values; local, target and global scopes; enabled blocks, fetched values and unset names once fetched; links to container and inheriting version | `new`, `select`, `selectAny`, `fromScopes`, `withInheritance`, `withoutInheritance`, `fetch` | store, query | derived states are built from copies of tables that carry caches |
| DOM (`dom`), exporters (`modules/vstudio`) | trees of states per workspace, project, configuration, file | `fetch...`, `export...` | state, export, premake | which chain of selections and inclusions gives which file its values |
| Test hooks (`premake`), `modules/testing` | snapshot taken before the script, snapshot around a test | `snapshotStateForTesting`, the hooks, `runIndividualTest` | store | tests that fail in the middle |
| Premake services (`premake`), files (`io`, `pmk_mkdir.c`, ...) | the end of line; the file system | `export`, `writeFile`, `compareFile`, `touchFile`, `mkdir` | export | any system call may fail; write only what changed |
| Options, main (`options`, `main`, `_G`) | registered options and a cache of their values; `onRequire` callbacks | `register`, `all`, `valueOf`, `validate`, `execute` | host arguments | cached values; options that others define while they are executed |
| Callbacks, script context and lookup (`callback`, `pmk_load.c`, `pmk_locate.c`, ...) | `_SCRIPT`, `_SCRIPT_DIR`, `package.loaded`, the search path | `new`, `call`, `doFile`, `require`, `forceRequire`, `register` | all modules | the context after an error; modules that require each other |
| Export capture and buffers (`export`, `buffer`, `pmk_buffer.c`) | captured buffer, indentation, end of line; a growing C buffer | `capture`, `append`, `indent`, `outdent` | exporters | nesting, errors, growth at the boundary |
| Source trees (`tree`) | nodes by path | `add`, `sort`, `traverse`, `hasBranches` | exporters | nodes removed under the traversal; one empty list for all |
| Paths (`path`, host), file matching (`os`, `pmk_match.c`) | none | `normalize`, `getAbsolute`, `getRelative`, `join`; `matchFiles`, `matchDirs` | everywhere | separators, `..`, `**` |
| Host text functions | none | `escapeXml`, wildcards to patterns | exporters, fields | buffers of fixed size |
| Lua: memory (`lgc.c`) | colours, lists, phases | a step of the collector, barriers, finalizers | every other part | the program runs between the steps |
| Lua: tables and lists (`ltable.c`, `ltablib.c`) | hash and array part; none | get, set, next, length; sort, insert, move, ... | | collisions, resizing, dead keys; limits of integers |
| Lua: text and numbers (`lstrlib.c`, `lutf8lib.c`, `llex.c`, `lobject.c`) | captures; the scanner | find, gsub, pack, tokens, arithmetic | | backtracking; boundaries |
| Lua: compiler and interpreter (`lparser.c`, `lcode.c`, `lvm.c`, `ltm.c`) | registers, jump lists, labels | statements, expressions, instructions | | code is patched and merged after it was made |
| Lua: calls (`ldo.c`, `lcorolib.c`) | stacks and chains of calls per thread | call, pcall, error, resume, yield | | errors and yields jump over C functions |
| Utilities (`array`, `table`, `string`, `xml`, `terminal`, `help`, `type`), Lua's other libraries | none | pure functions, direct calls of C | | |

What makes each component correct:

- **Query.** Every block is decided by the values it ends up beside, decisions
  are final, the walk returns; a removal meant for one project leaves its
  siblings what they had; a container is never given what one of its children
  must not have.
- **State.** An answer depends on the scopes of the state and the script, not
  on what was fetched before or which state was copied.
- **Store.** Collecting calls into blocks does not change what the calls
  meant; a snapshot does not change after it was taken.
- **Test hooks.** A test starts from the configuration before the script and
  leaves the script's configuration as it found it, also when it fails.
- **Export capture.** Every capture yields what was written in it, with its own
  end of line and indentation, whatever is captured inside of it; **files**
  reported as made or equal are, and directories are never lost.
- **Scripts.** Every script and callback runs in the context of its own file;
  a module is made once; the nearest file of a name counts. **Options** found
  valid are executed, each as often and in the order it was given.
- **Paths, masks, trees, kinds.** They do what their definitions over whole
  paths, file systems and collections say.
- **Lua.** The parts premake relies on keep the meaning of tables, patterns,
  numbers, programs and coroutines, and free nothing that is still reachable.

## Modules

| Module | Models | Notes |
|---|---|---|
| `Conditions` | values and operations of field kinds as sets; matching of parsed conditions | operators |
| `FieldKinds` | the kinds over arrays and keys | shown to do what `Conditions` says |
| `Query` | `Query.evaluate()` | one action per branch of the loop |
| `StateScopes` | how the scopes of states derive from each other; `_buildValue` and `fetch` without caches | operators |
| `Hierarchy` | the states `vstudio` derives for root, workspace and projects, each evaluated and fetched | composes `Query` and `StateScopes` |
| `State` | state objects with their caches, links and shared tables | over `StateScopes` |
| `Store`, `TestRun` | the store with block tables on a heap; a run from startup over the script to tests | `TestRun` extends `Store` |
| `ByteString` | what a string buffer promises | implemented by the buffer of `Exports` |
| `Exports` | the C buffer, each round of its loop a step; the file system and the operations on it; captures and `premake.export()` | one section each |
| `Scripts`, `Options` | running scripts and modules; the command line | |
| `Paths`, `Matching`, `SourceTree` | paths as sequences of names; masks; trees of tables | the latter two build on `Paths` |
| `LuaHeap` | the collector, step by step, with the program between the steps | |
| `LuaMap`, `LuaTable`, `LuaTableLibrary` | a map; `ltable.c`; `ltablib.c` | `LuaTable` implements `LuaMap` |
| `LuaPatterns` | the matcher; what a pattern means; the host's wildcards, which become patterns, and its XML escapes | compared |
| `LuaEncodings`, `LuaLex`, `LuaNumbers` | UTF-8 and pack; the scanner; numbers | |
| `LuaCode`, `LuaParser`, `LuaExecute`, `LuaMeaning` | code generator, parser, interpreter; the meaning of the tree | compared |
| `LuaOperators` | operators with metamethods that yield or fail | |
| `Coroutines`, `LuaCalls` | what calls and coroutines promise; `ldo.c` | `LuaCalls` implements `Coroutines` |
| `MC...` | instances for TLC | several parts share one run, each from its own start |
| `Query_proofs`, `Hierarchy_proofs`, `State_proofs`, `TestRun_proofs`, `Host_proofs`, `FieldKinds_proofs`, `Tree_proofs` | theorems | `Host_proofs` is about `Exports`, `Scripts` and `Options`, `Tree_proofs` about `SourceTree` |

Comments that begin "Seeded error" mark variants of a definition with a bug in
it. No specification uses them; they show, one for each property of a run, that
the property would notice. Variables marked "history" record what happened and
decide nothing.

### Conditions and FieldKinds

In `Conditions` a value is a set of strings, and `Nil` is Lua's nil: a field
that was never set differs from a collection that was emptied. The operations
on values are `merge`, `remove` and `receiveAllValues` at that level, so order
and the duplicates of lists are abstracted. `FieldKinds` has the arrays, the keys
of a set and the loops of `kind_set.lua` and `kind_list.lua` that remove while they walk;
a loop is the function from the number of its turns to what there is after them.
`KindsHoldValues` says that the strings they leave are those of `Conditions`, in the order of the calls. Calls
may bring no strings: adding none makes a collection of what was nil, removing none leaves it nil. `receiveAllValues`
over the scopes of a state is written in closed form.

`Survivors(ops, f)` states what a sequence of additions and removals leaves
in a field without applying them one at a time; `Query`'s `_fetchFieldValue`
and `State`'s `_buildValue` are such applications.

`MatchLiteral` keeps the two corners of `_match`: an absent value matches or
not as the caller says (`NIL_MATCHES_ANY`, `NIL_MATCHES_NONE`), and a negation
inverts the verdict in that case too. A scope field is looked up in the scope
under test only, any other field in the values only.

### Query

`evaluate()` first rules out the blocks whose condition does not test the
fields of any scope (`InitialResults`) and then walks the list. At an entry
that is undecided, `_testBlock` yields a pair of decisions, one for the global
scope and one for the target; each pair is an action:

| Action | Decision `<<global, target>>` | Meaning |
|---|---|---|
| `PassOver` | `UNKNOWN, UNKNOWN` | go on to the next entry |
| `AddToGlobalOnly` | `ADD, UNKNOWN` | something the target could inherit from has it |
| `AddToBoth` | `ADD, ADD` | |
| `RemoveFromLocalScope` | `REMOVE, REMOVE` | the removal is for the state itself |
| `LeaveToInheritedScope` | `REMOVE, OUT_OF_SCOPE` | for a scope the state inherits from |
| `RemovedAbove` | `OUT_OF_SCOPE, REMOVE` | for something above the target |
| `RestoreForSibling` | `REMOVE, ADD` | for a sibling: the container loses the values, the target gets them back by a synthesized block before the removal |
| `RestoreRaisesError` | `REMOVE, ADD` | the same, for a string field |

Every decision sets the index back to 1. `SkipDecided` passes an entry that has
a global decision, `Finish` leaves the loop. The local variables of the call
are the variables of the module; `source` numbers the script's blocks so that
properties can follow them through insertions.

### StateScopes and Hierarchy

`SelectScopes`, `AnyOf`, `FromScopes` and `InheritFrom` build the three lists of
scopes exactly as `_select`, `selectAny`, `fromScopes` and `withInheritance` do,
in the same order, because `MatchesLocalScope` in `Query` depends on positions.
`selectAny` iterates with `pairs()`, whose order is undefined: `AnyOf` takes the
order as a parameter and callers quantify over it. A call of `fromScopes` with several
containers is a chain of calls with one.

`Hierarchy` derives the states `vstudio.fetchWorkspace` and `fetchProject`
derive (the workspace inherits from the root; the project includes the root's
scopes and inherits from the workspace) and the plain ones, which write only
what stands at their own level. The evaluations are those of `Query`, one after
the other. Its scripts are made of blocks as `workspace()` and `project()` write them:
at the global level, for the workspace, or for one of its projects (`LevelBlock`). They declare
every project they are evaluated for (`HierarchyAssumption`), as the states of an exporter are those of
declared projects. Only for them can be read off the script what a project should get.

### State

State objects are numbered records; 0 is nil. `fetched` stands for the raw
fields of the Lua object, which answer before `__index` does; `unset` is the
number of the table of names known to be unset, so that two states can share
one; `base` and `inheriting` are `_noInheritanceVersion` and
`_withInheritanceVersion`. `FromScopesOf` and `InheritingVersion` copy the record
the way `_new(table.mergeKeys(...))` does: blocks, links and the unset table
come along, the fetched values do not. `ExporterNext` allows the operations in
the orders `modules/vstudio` uses: a state is included from or given an inheriting version
before it is fetched from. `withoutInheritance()` reads `base` and changes nothing, so it
is no action.

### Store and TestRun

Blocks live in `heap` and are referred to by index, since later calls change a
block that a snapshot or the list refers to. `StoreValue` is `addValue` and
`removeValue` with `_getBlockFor` in it. `log` holds every call as a block of its
own: what the collected blocks must mean.

`TestRun` goes through `main`: `snapshotStateForTesting` before any script, the
script, and then tests. `BeforeTest` is the hook's `snapshot()` followed by
`rollback()` to the early snapshot, `AfterTest` the `rollback()` to the first.
A test may fail anywhere: `AfterTest` does not wait for open `when` calls.

### Buffer, files and exports

`Puts` begins an append, `Grow` is one round of the loop that computes the new
capacity, and `Store` allocates, copies and adds the bytes. `Contents` is the
string that `ByteString` appends to.

Operations on files return the set of their outcomes, since each system call may
fail: `Mkdir` makes the directories that are missing from the top until one cannot
be made, `TouchFile` appends a byte and cuts it off again, `CompareFile` reads
chunk by chunk. `done` keeps the last operation and its answer.

A capture is two actions, `BeginCapture` and `FinishCapture`, with anything
between them, also another capture. `settings` are the globals (the buffer, the
end of line, the level; the indentation string is saved and put back exactly like the level
and no variable of its own). `RaiseError` throws away the captures above the innermost protected
call without putting anything back. `lexical` holds what the settings are
meant to be, and `lost` how many calls ran around the outermost capture that an error
has thrown away and that nothing has made good yet. A capture with a path is
`premake.export()`, which writes the captured text if the file differs.

### Scripts and Options

`_SCRIPT` and `_SCRIPT_DIR` are always set together: `script`. A frame is a
running chunk, module, callback or protected call and holds the context it will put back;
`Unwind` goes to the innermost protected call and puts back nothing. `Require`, `Register`
and `ForceRequire` differ in what they look up and note. `RunCallback` runs
the callbacks a module had when it was made, one at a time. `Located` gives the file of a name
by `SearchPath` and the patterns in their order.

`AllAt` is the loop body of `options.all()`, and `All` what is yielded from each
position on, as a recursive function. `Parsed` assigns the value of every occurrence as `valueOf()` does, nil
(`NOVALUE`) too: in `a=x a` the second `a` takes the value back, and the answer is the option's default.
`ValuesCurrent` compares with `ValueMeant`, which is not defined by that loop: an argument is an option unless
it is the value of the option before (`OptionPlaces`), and the place where an option is given last has its value. `Execute` takes one turn of the iterator with the options that
are defined by then, since an option may load a module that defines more.

### Paths, masks and trees

A path is the sequence of what stands between its separators, so that leading,
doubled and trailing separators are empty names. The loops of the C code are
folds over these. `PathsKeepPlace` compares each function with where a path
leads from the root; a name `**` may stand for several directories, so joining must not take one back. `Matching` takes a mask apart like `os._match()` and is compared with
a definition of what a mask matches as a whole. `SourceTree` has nodes and
lists of children as tables with numbers, since all nodes share `_EMPTY` until they
have a child; `Visit` and `Leave` are the steps of the traversal, between which a
callback may remove nodes. A frame of `walk` is a running call of `processChildren()` with the index of
its loop, and `Advance` is what it does with the index when a child has been processed.

### Lua

`LuaHeap` has one action per phase of `singlestep()`, and per operation of a program
that creates, stores, loads, interns, closes an upvalue or runs a finalizer, with its
barrier. `LuaTable` works on records with array part, nodes and `lastfree`;
`LuaTableLibrary` makes each comparison of `sort` a step, answered by an order or by anything.
`LuaPatterns` is the backtracking matcher with its one table of captures, and
enumerates matches in the order of preference without it; XML escapes and wildcards stand at
its end, and the latter are matched as the patterns they become, for strings and for paths. `pmk_wildcards.c` escapes nothing:
`Glob` gives `.` and `%.` the meaning they have in patterns, since `testing.lua:137-145` uses them, and no claim is made of
texts with other special characters, of patterns that do not fit, nor in paths of two stars in a row or one at place 42
(`STAR`; see below). `LuaLex`, `LuaEncodings` and
`LuaNumbers` are functions of their input, compared with a definition each.

`LuaParser` calls `LuaCode` as the C code does, with a record for the state of
the lexer and the functions being compiled; assertions of the source are collected in
`broken`. `LuaExecute` runs the instructions, `LuaMeaning` evaluates the tree
of the program with cells for variables. `LuaOperators` follows one instruction
through its metamethods; a yield loses the C part, and `luaV_finishOp` goes on from the stack.
`LuaCalls` has the stack of C functions across threads (`vm.c`) and a chain of calls per
thread; every action ends where the topmost function has its next choice.

## What the runs check

| Run | Properties |
|---|---|
| `query` | `TypeOK`. `Saturated`: when `evaluate()` returns, no block it passed over would be decided by the final values, the reason for restarting the walk. `ResultAsWritten`: without removals the result is what the conditions say; insertions never drop, repeat or reorder a block of the script; two siblings that remove the same value do not make it come back twice. `RestorationPrecedesRemoval`: synthesized blocks stay right before the removal they answer. `ProjectFilesComplete`: the files of root, workspace and a project together say what the script says (nothing is lost to a sibling's removal, a container holds nothing that a project must not have, inheriting states are complete). `Returns`, `WalkProgresses`: the restarts end, and no decision is taken twice or lost though indices shift. |
| `state` | `StatesWellFormed`: states have their types, links lead where they should, no scope is looked for that the global scopes do not have. `Coherent`: an answer of a state is the answer of a fresh state with its scopes, though blocks are copied and unset names shared. `InheritsFromContainer`: the inheriting version has the values of base and container, and leads back to its base. |
| `test_run` | `TypeOK`. `BlocksMeanCalls`: whichever conditions come to hold, blocks leave the values the calls would leave. `ScriptUnchangedByTests`, `TestsIsolated`: no test sees the script's blocks or those of another test, or changes the script's configuration. `SnapshotsFrozen`: no block that a snapshot holds is given further values. |
| `host` | `ImplementsByteString`, `AppendsEnd` for the buffer. `FilesAsReported`: what is reported as made or equal is, files and directories stand in directories, and no operation loses a directory. `ExportsAsCaptured`: settings and text are those of the capture, and again after an error once the captures around it have ended; an export that changed nothing found its text in the file. `ScriptsRunInContext`, `OptionsAsGiven` as above. `PathsKeepPlace`, `MasksFindAll`, `TreesComplete`, `KindsHoldValues`. |
| `lua_heap` | `HeapSound`: nothing reachable is freed, and the colours keep their invariants. `CollectionsExact`: only garbage is finalized, weak tables keep the entries whose keys and values live, an emergency collection keeps no garbage. |
| `lua_data` | `PartsFitTogether`: every key is found from its main position, in the part it belongs to. `TableIsMap`: `LuaTable` implements `LuaMap`, and a traversal visits each key that stays once. `ListsAsMeant`, `SortAlwaysEnds`. |
| `lua_text` | `PatternsAsMeant`, `EncodingsExact`, `TokensAsWritten`, `ConversionsKeepMeaning`, `NumbersAsMeant`. |
| `lua_compile` | `CompiledAsWritten`: each program compiles without a broken assertion and does what its tree means. `OperatorsSound`: an instruction with metamethods gives the same whether they yield or not. |
| `lua_calls` | `CallsSound`: counters of C calls, handlers and open upvalues are right in every state. `ImplementsCoroutines`. Deadlock is checked in this run only. |

The three runs that are expected to find a violation (`query_out_of_order`, `host_masks`,
`lua_heap_finalizers`) are described
[below](#where-code-and-documentation-disagree).

## Bounds

Actions that could go on for ever are guarded by a bound with a name that begins with `Max`,
or by the limit the code has; the instances are small enough to be exhausted.

- **`MCQuery`**: workspace, two projects, seven states: root, workspace, inheriting
  workspace, project, inheriting project, a project that includes its
  sibling's scopes, and a project as `vstudio` derives it. Scripts declare the
  workspace and the projects and go on with at most `MaxMixed` = 2 blocks from 48 (two
  operations, eight conditions on scopes and on `kind`, among them "not" and
  "or"; values for a collection and for a string), or at most `MaxRemovals` = 3
  additions and removals of one value at four levels. With the declarations
  that is up to five entries, and up to three synthesized ones; two blocks are
  enough for one to enable the other against script order, three for an
  addition between the removals of two siblings. The hierarchies are all 2048 of
  three blocks about one value at four levels, the declaration of the
  projects anywhere among them. One value is enough because collections are
  treated one string at a time.
- **`MCState`**: five states let the chain root, workspace, project, project with the
  root's scopes, inheriting project come about, four with configurations and platforms,
  with fetches of a string and a collection at any point between. Values differ by level, so
  that an answer tells which level it came from.
- **`MCTestRun`**: for the script alone three calls, nesting of three: two calls go to one block or
  do not, the third can follow a pop, or the other operation. For a run one snapshot at startup,
  one around each of two tests, the least for one test to see the other's blocks.
- **`MCHost`**: a first capacity of 2 and texts up to 6, which grow the buffer once, several times and
  in one append; chunks of 2 and texts up to 3; directories three deep; six calls of at most three nested
  captures and protected calls; four calls of scripts
  over two modules and six files in four directories; four definitions of two options over all command lines of three
  arguments, among them options given twice; paths of up to four segments, some of them `**`; masks of up to three names out of seven; trees of three files
  out of seven that share and repeat names; three calls on fields over three strings.
- **`MCLuaHeap`**: every heap of two tables with at most two entries each, a string, a closure and a coroutine
  with no steps of the program, and small heaps with up to four. One finalizer in `lua_heap`, as two
  show what `lua_heap_finalizers` is about. `GCSWEEPMAX` is 1, so that every step of the sweep is separate.
- **`MCLuaData`**: seven keys (integers, one in the array part or not by its size, a string, an object, a float)
  that collide in up to eight nodes; lists of five elements to sort, with the thresholds lowered so that
  every way to choose a pivot occurs; integers up to 7 for positions and 5 for counts.
- **`MCLuaText`**: integers of 5 bits, floats with 3 bits of significand, so some integers are no float; bytes
  of two bits in packed data; two captures and six C calls; texts of four characters with wildcards, dots, `%` and
separators, a buffer of 12 that some do not fit, and `STAR` at 3 so that they reach it; code points
  and bytes on either side of each boundary of UTF-8.
- **`MCLuaCompile`**: limits that the code has at 255 or more are lowered (`MAXINDEXRK` 3, `MAXARG_Bx` 5,
  `LFIELDS_PER_FLUSH` 2), so that small programs reach them. Programs are a catalogue: conditions up to
  three operators in every context, loops with every kind of body, and single programs for each rule.
  Metamethods are chained up to `MAXTAGLOOP` = 3.
- **`MCLuaCalls`**: four C calls per thread, stacks of 24 places with 10 more for errors, and functions
  nested four deep in the main thread or in the coroutine. Calls, errors and yields at every depth reach each limit.
- Deadlock is checked where stopping would be wrong (`lua_calls`). Elsewhere evaluations end, and
  scripts stop.

## Fairness

`MCQuery` assumes weak fairness of a step of the evaluation: `evaluate()` is one
synchronous Lua call and nothing else runs before it returns. `MCHost` assumes it of an append that
was begun, and `MCLuaData` of a step of `table.sort()`, for the same reason. The action as a whole
is enough each time, since its alternatives exclude each other. The other instances
state no liveness: scripts and tests may stop calling.

## Proofs

The theorems hold for all values of the constants that satisfy the assumptions named in the modules: that
maps and scripts are well-typed (`FieldsAssumption`, `QueriesAssumption`, `ScriptsAssumption`,
`SelectorsAssumption`, `HierarchyAssumption`), that markers such as `Nil` are none of the values they are told from, that a file is the only
one of its name in its place (`ScriptFilesAssumption`), that texts are sequences and chunks are not empty
(`FilesAssumption`), that the first capacity is at least 2 (`BufferAssumption`), that an argument has one or two
parts (`CommandLinesAssumption`), and that the files of a project are absolute paths with nothing left to normalize, each in
some directory, and that no relative path from the project starts with the first name of a path that stays
absolute (`TreeAssumption`; what happens otherwise is told below). The bounds on the number of calls, states, tests and frames are any numbers.

### Query_proofs

- `TypeCorrect`: `Spec => []TypeOK`. `TypeOK` is inductive. The work is in the
  operators: `AccumulateValues` returns a `ValueMap`, `ValuesToRestore` too, and
  `InsertAt` a sequence of results.
- `EvaluationSaturated`: `Spec => []Saturated`. `Saturated` speaks of the final state
  only. The strengthening, `WalkInv`, says of every state that the entries
  before the index that are not decided would be passed over by the values as
  they are now, and that a finished walk stands after the last entry. It is
  inductive because every step that changes a value or the list goes back to
  index 1, where it is true of no entry, and `PassOver` adds the one entry just
  tested. This is the argument for restarting the walk.
- `RestorationOrdered`: `Spec => []RestorationPrecedesRemoval`. Inductive
  as it stands: a synthesized block and its removal are both decided, so no
  later step changes them, and an insertion happens at an undecided entry, which
  can be neither of the two, so it never comes between them.
- `DecisionsFinal`: `Spec => DecisionsStand`. A synthesized block shifts the
  indices, so a decision has to be followed by the number of the script's block.
  `DecisionInv` says that no two entries have the same number, and that an entry
  without a global decision either has no target decision or was ruled out for the
  target when the walk began. It then matches no scope of the target, which is why
  no decision of `_testBlock` contradicts the ruling (`TargetOpen`).
- `ResultWritten`: `Spec => []ResultAsWritten`. The list without the synthesized blocks is the script
  (`ListStep`); without removals an entry is decided `ADD` exactly when some scope of its kind
  matches (`AddsInv`, with what `WalkInv` says at the end); and a value is restored once
  (`OnceInv`). The last has an exception that the proof brought up: a value that is added below the removals
  and enabled before them is restored once for each of them, as the search for an addition
  goes only upwards. `RestoredOnce` names it (`AddedBelow`).
- `WalkProceeds`: `Spec => WalkProgresses`: each step moves on, or decides an entry that was undecided.

### Hierarchy_proofs

`ProjectsGetTheirFiles`: `HierarchySpec => []ProjectFilesComplete`, for scripts of any length and any number of
projects. `Sound` holds of each evaluation on the way, and `HistoryInv` of the sequence of them: what has been
fetched means what the script says (`AsMeant`), and the one in progress is sound. `Sound` consists of

- `Base`: next to the invariants of `Query_proofs`, that every entry that has been decided got the verdict that its
  level alone calls for (`VerdictInv`). The values may only open a level or leave it closed: the projects the
  global values hold are those declared by blocks that were added (`ValueInv`), so whatever the order of decisions,
  a verdict is right when it falls. `LevelsDecide` reads off the scopes which levels match in which state, and
  `Verdicts` follows `_testBlock` through its four removal decisions with it.
- `ProjectInv`, for states of single projects, the only ones that give values back: when a removal is decided,
  the blocks before it at the levels of the project have been (`ReadyFirst`); a value that was added and
  removed for a sibling afterwards is given back by a synthesized block after the one that brought it, unless a
  removal for the project itself comes there (`GivenBack`); and what is given back was added, with no removal for
  the project between (`RightlyBack`). The insertion shifts the indices; `Moved` says where an entry went.

When a walk ends every block has its verdict, although a walk may pass entries over: a level that stays closed
would contradict that every project is declared (`AllOpen`, `DoneSettled`). `LeftRemains`,
`RestoredIsLeft` and `LeftOfEnclosing` turn what is left of the list into what remains of the script at
certain levels, less what others take away (`Remains`), and the five parts compare such sets.

### State_proofs

`ExporterSpec => []StateInv` (`StateInvariant`) with `StateInv == TypeOK /\ ScopesInv /\ CacheInv`.

- `ScopesInv` relates the scopes of a state to those of its container and base: a state's targets are among its
  global scopes, which contain the container's. Every step adds one state and
  changes no scope, so the conjuncts have to hold for the new one; for `fromScopes`, which may name any
  ancestor, the set of states whose scopes are among the global ones is closed under
  containers, and holds all ancestors. The lemmas on `CrossScopes` use the rows and columns of an index (`RowsAndColumns`).
- `CacheInv` says of every state, fetched from or not, that what is cached in its record is what a fresh state
  would answer. What a copy brings along is harmless for different reasons: a clean copy is made before any fetch,
  and a version with more targets can only know a collection as unset if nothing enables it. For a string the answer is
  the last enabled block that mentions it, which is why an exporter that derives after fetching a string breaks it.
- `StatesStayWellFormed`, `CachesCoherent` and `InheritedExactly` follow from it.

### TestRun_proofs

- `StoreTypeCorrect`: `StoreSpec => []TypeOK`. The strengthening (`StoreInv`) adds that the
  stack of conditions is never empty, here or in a snapshot, and that snapshots hold numbers of existing
  blocks, since `rollback()` makes them the list again.
- `SnapshotsStayFrozen`: `StoreSpec => SnapshotsFrozen`. Values go to the current
  block only. `SnapshotsKept` says that the current block is in no snapshot:
  `snapshot()` clears it, and a new block has a number no snapshot knows.
  `rollback()` is safe although it leaves the current block alone.
- `IsolatedTests`, `ScriptKept`: `RunSpec => []TestsIsolated` and
  `RunSpec => []ScriptUnchangedByTests`, for any number of tests. `PhaseInv` says for each phase of a run
  what the snapshots hold: the one at startup no blocks, the one of the hook the
  script's configuration. With `SnapshotsKept` the values in them cannot have
  changed when they are rolled back to.
- `RunSnapshotsFrozen`: `RunSpec => SnapshotsFrozen`, from the same lemmas.
- `BlocksMean`: `RunSpec => []BlocksMeanCalls`. `Meaning` is stated by places in the list, so that one more
  operation changes it in a way that can be computed (`AppendedMeaning`, with `After`). A call that starts a block is that
  operation. One that goes to the block in use changes the last operation, and that is the same
  as the operation before and the call after it (`MergedMeaning`), except for a string field that something is
  removed from. It needs the block in use to be the last of the list and of the condition in force (`CurrentInv`).
  After a test it need not be: `rollback()` leaves it. So the claim is that it is in all phases but that one, and the
  hook that snapshots before the next test makes it true again; and that lists in snapshots mean what was called
  before they were taken (`SnapshotsMean`).

### Host_proofs

- `BufferIsByteString`: `BufferSpec => ImplementsByteString`. `BufferInv` says that the memory is as long
  as the capacity, the text fits into it, and the capacity computed so far is the buffer's own unless what is to be
  appended does not fit. `Grow` then stutters, and `Store` appends (`CopyFacts`, `StoreFacts`).
- `FilesReported`: `FilesSpec => FilesAsReported`. `SoundTree` (typed, and closed under parents) is
  preserved by each outcome of each operation; with it go two relations between the trees before and after: `Grows`
  (no directory is lost) and `KeepsText`. What `mkdir` has to make are the beginnings after the last one that exists
  (`WhatToMake`), so that every one it makes has its parent (`MadeDirectories`). A difference lies in some chunk,
  by division (`SomeChunk`, `EqualInChunks`).
- `ExportsCaptured`: `ExportSpec => []ExportsAsCaptured`. The invariant speaks of all frames, those
  included that an error has robbed of their captures. `NestedInv(c)` numbers, by `c`, the meaning that each frame
  belongs to; `PutBackAsMeant` says that a frame that no error has touched (`Intact`) will put back what is meant
  outside of it, and `OlderBuffers` that a capture puts back a buffer made before its own, so writing in one leaves
  what the others hold. The depth is a summed-up conjunct (`Depths`), which replaces an induction over runs of
  captures in `RaiseError`.
- `ScriptsInContext`: `ScriptSpec => ScriptsRunInContext`. `ContextInv`: the context is that of the innermost
  frame, and each frame puts back the one below it, up to the frame that an error has left (`Sound`).
  `ModulesInv`: what the running frames tell of `package.loaded`, so that a module that is being made is
  not made again. `PlaceIsFirst` and `OwnDirectoryFirst` say that the nearest file of a name is found.
- `OptionsFollowCommandLine`: `OptionSpec => []OptionsAsGiven`. What validation saw is what has been executed
  and what is still to come from the position on (`OptionInv`). An option that is defined meanwhile was none of
  those seen, so the rest stays the same (`SameRest`). Which arguments are options is settled one after the other
  (`OptionPlacesExist`), the walk goes from each to the next (`NextOption`), so that an option is seen last where it is
  given last (`LastValueMeant`, `ParsedIsMeant`). All of this unfolds `All`, a recursive
  function, whose existence is proved by recursion on the number of arguments left (`AllUnfolds`), and where an induction
  would be natural the greatest position that violates the claim is taken instead (`GreatestNumber`).

### FieldKinds_proofs

- `KindsHold`: `FieldSpec => KindsHoldValues`. `FieldInv` says that the array of a collection can be traced: there
  is a function `from` that takes each index to the place in the calls where its string was given, in their order, onto
  all places that stay (`Traced`); and that the keys of a set are its strings, each there once (`KeysFit`). A call is followed
  string by string, none of them included: `With` is the calls and one more of which k strings are given yet, and each turn of a loop
  leads from k - 1 to k (`AddTurn`, `RemoveEachKeeps`). A turn of the inner loop of `remove()` keeps that what is left is chosen,
  in order, from what there was, and that the index is past all that match (`Chosen`, `TurnKeeps`). `LoopExists` shows
  once that the functions which describe the loops exist, and that what a turn keeps holds after all of them;
  induction over the number of turns is done with its least counterexample (`LoopInduction`). The number and the
  order of the strings follow because the rank of a place is its index (`RankOfPlace`).

### Tree_proofs

- `TreesHold`: `TreeSpec => []TreesComplete`. `TreeInv` has two parts. `SoundTree(sources, Ways)` says of the tree that
  it has exactly one node for each path on the way to a file (`NodesSound`), that nodes share no list but `_EMPTY`, which
  is empty (`ListsOwned`), and that a node is listed once and by the node of its directory only (`ListsSound`). That
  says nothing of the node of a directory being found again, which `tree.add()` does by name: `SamePath` shows that
  two paths of one directory and one name are the same. `AddPath` is followed name by name (`Grown`, `NextStep`), with
  the same `LoopExists` and `LoopInduction` as in `FieldKinds_proofs`; for the paths themselves, `NormalizedSubstring` shows that a path
  in normal form stays what it is and `WayFacts` what `GetRelative` yields.
  `SortedTreeSound` needs that a list can be sorted at all (`SortExists`, by taking the places of the names).
- The second part, `Going`, is about the traversal. A callback may take any child out of the list that the innermost loop is in
  (`Cut`), before the index or behind it, and all outer loops stand in lists whose next child is the one being
  processed. `WalkSound` says that for each running call the children before the index *to come* (`NextIndex`: what `Advance` will
  make of it when the call inside returns) have been visited, and no others (`Split`). It is this that the comparison in
  `Advance` keeps true (`AdvanceSplits`), and the seeded `Onward` does not. `VisitedSound` adds the order, and that nothing has
  been visited below a node that has not been; `Finished` that a node which the walk has left has no child to visit.
  That no node is skipped follows for the one with the shortest path among those that would be (`WalkSkipsNothing`).

The attempts found two histories of the models wrong beyond the bounds of the runs: `lost` and `leaked` forgot an
outer error when an inner one had been made good, which takes seven and eight calls. They
were corrected, and so was a statement that followed from them.

### Only model-checked

- Liveness (`Returns`, `AppendsEnd`, `SortAlwaysEnds`), which TLAPS cannot reach.
- `Paths`, `Matching` and the modules about Lua: their algorithms are recursive or folds, and
  are compared with definitions over all bounded inputs for that reason. Of `Paths`, what `Tree_proofs` needs is proved: paths in
  normal form and the relative paths between them. The Lua modules that have a state
  machine (`LuaHeap`, `LuaTable`, `LuaCalls`) use recursive operators too; their invariants are candidates
  for proof once these are functions.

## Where code and documentation disagree

Three disagreements are runs that find the violation, under `findings` in `PROJECT.json` with
the lines quoted.

- `query_out_of_order`: a block that the global values enable is decided for
  the global scope and skipped from then on. When the target gets the value
  later, the block stays out, although out-of-order evaluation is tested and
  promised.
- `host_masks`: what is written behind `**` in a name is moved behind the rest of the mask, so `**x/y` looks
  for files whose name ends in `x`. A mask with two `**` may also find a path twice.
- `lua_heap_finalizers`: a finalizer that runs between two steps of a sweep moves its object to another
  list; if the sweep stands at it, objects stay black at the end of the cycle.

Others were met on the way and are not made into runs:

- A removal meant for a sibling of a string value raises a Lua error (`query.lua:235`; `store.lua:117` takes
  patterns of strings).
- A value removed at the root stays among the global values, and a later removal for one project adds it back to
  the others (`query.lua:199`).
- `withInheritance()` keeps a value that was removed in the scope it was added to (`query.lua:191`, `state.lua:315`).
- `fromScopes()` and `withInheritance()` after a fetch answer from the copied caches (`state.lua:342`). The exporters
  derive first and fetch later, which is why `state` passes and the theorems are about `ExporterSpec`.
- A remove block keeps only the last of several patterns of a string field (`block.lua:43`, `store.lua:117`).
- `rollback()` leaves the current block, which may be one that it removed from the list (`store.lua:149`). The test
  hooks take a snapshot first, which clears it.
- `Field.matches` stops at the first pattern for string fields (`field.lua:212`), and `removeValues` sets globals
  (`field.lua:305-308`).
- A folder `a` of the project and an absolute file below `/a` share a node of the source tree, so one filter is not
  declared; a file directly in `/` gets an undeclared filter `/` (`vcxproj.filters.lua:64`). A traversal whose callback
  removes two earlier siblings would skip nodes; no caller does.
- `pmk_os_touch` returns true after it pushed nil and a message; `onRuntimeError` in `pmk_pcall.c` uses
  strings after they were popped.
- `pmk_patternFromWildcards` cuts what does not fit and returns true: each ADD leaves room for the terminator, so
  `next < maxLen` always holds. Its comment says "`false` if the buffer is too small" (`pmk_wildcards.c:24`), and the error
  "wildcard expansion is too large" (`pmk_lib_string.c:66`) never comes. It compares `i + 1`, a place, with `'*'`, so `**`
  in a path does not match "anything to the end of the path" (line 11) and a star at place 42 swallows the next character;
  no caller asks for paths. Characters that are special in Lua's patterns are copied as they are (line 56).
- Only fields that conditions test are in `targetValues`, so the check that keeps a value from being given back to a
  target that has it ("we don't want to add duplicates", `query.lua:232-237`) passes for all others, and a list may hold it twice.
- In the vendored Lua: `luaD_shrinkstack` may leave one place less than what is in use (`ldo.c:212-231`); a numeric
  `for` with NaN as its limit and a negative step runs (`forlimit` in `lvm.c`).

A removal under a condition on a value that is set later to something else
(`kind:K` before `kind 'L'`) is applied and stays: absent values match on
purpose there, and nothing in the repository says which it should be.

## Not modelled

- Parsing of condition strings, and wildcards in patterns: conditions are given parsed, and the source leaves the
  expansion of wildcards as a placeholder (`string.lua:28`, `path.lua:22`).
- The registry of fields and the functions `scripting` generates when fields come and go.
- The tokens `${}`, `$()` and `%{}` inside a path, drive letters, symbolic links, special characters of `fnmatch()`
  other than `*`, and the order of directory entries.
- The selection, counting and reports of tests.
- The layout of solution and project files, help texts, terminal output: no state, and no property but
  the text itself. Hashes and UUIDs have none but their value.
- In Lua: generational parameters and pacing of the collector, user data, floats and constructors with an extra
  argument in compiled code, debug information, hooks, tail calls, `string.format`, transcendental functions. Whether
  closures are cached is unspecified and not compared.
- Lua's other libraries and stand-alone programs, direct calls of the operating system.

## Plan

The modules are written in the order of the table above, from the evaluation of queries outwards. Left are, in
order of importance:

1. proofs: the refinement of `LuaMap` by `LuaTable` and of `Coroutines` by `LuaCalls`, for which the recursive operators have to become
   functions;
2. models: the registry of fields with its callbacks, tokens in paths, the test runner.
