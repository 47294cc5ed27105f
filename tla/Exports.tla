------------------------------ MODULE Exports -------------------------------
(***************************************************************************)
(* Buffers, files and the output that goes to them.                        *)
(*                                                                         *)
(* The host's growing byte buffer (core/host/src/host/pmk_buffer.c and     *)
(* libraries/pmk_lib_buffer.c).  An append that does not fit computes a new*)
(* capacity in a loop, allocates zeroed memory, copies what was there, and *)
(* only then adds its own bytes.  Each round of the loop is a step.        *)
(*                                                                         *)
(* The files premake writes (core/host/src/host/pmk_isFile.c, pmk_mkdir.c, *)
(* pmk_writeFile.c, pmk_compareFile.c, pmk_touchFile.c; core/modules/io),  *)
(* on a POSIX system, where any call of the system may fail.  A path is the*)
(* sequence of its names.  Operations that may go several ways yield the   *)
(* set of their outcomes, [tree, result].                                  *)
(*                                                                         *)
(* Captured output and exported files (core/modules/export/export.lua and  *)
(* premake.export() in core/modules/premake/premake.lua).  The buffer, the *)
(* end of line and the indentation are globals that export.capture() saves *)
(* and puts back.  The stack `lexical' is what they are meant to be: the   *)
(* captures open now, each with settings of its own.                       *)
(***************************************************************************)
EXTENDS Integers, Sequences, SequencesExt, FiniteSetsExt

-----------------------------------------------------------------------------
(* Buffers *)
CONSTANTS
    Bytes,        \* what is appended
    Zero,         \* the byte calloc() leaves
    CR, LF,       \* the two that end lines
    MinCapacity,  \* 65536, the first capacity
    MaxLength     \* bound on the bytes appended

ASSUME BufferAssumption ==
    /\ MinCapacity \in Nat /\ MinCapacity >= 2
    /\ MaxLength \in Nat
    /\ {CR, LF} \subseteq Bytes
    /\ Zero \notin Bytes

VARIABLES
    capacity,   \* b->capacity
    length,     \* b->length
    data,       \* b->data, the bytes from 1
    text,       \* what pmk_bufferPuts() is to append, or <<>>
    cap         \* its local capacity

bufferVars == <<capacity, length, data, text, cap>>

BufferInit ==
    /\ capacity = 0
    /\ length = 0
    /\ data = <<>>
    /\ text = <<>>
    /\ cap = 0

Contents == SubSeq(data, 1, length)

\* Seeded error: the bytes are copied one place too early.
CopyEarly(memory, at, s) ==
    [k \in DOMAIN memory |->
        IF k >= at /\ k < at + Len(s) THEN s[k - at + 1] ELSE memory[k]]

\* memcpy(memory + at, s, len)
Copy(memory, at, s) ==
    [k \in DOMAIN memory |->
        IF k > at /\ k <= at + Len(s) THEN s[k - at] ELSE memory[k]]

-----------------------------------------------------------------------------
Required == length + Len(text)

\* A call of pmk_bufferPuts(); the loop starts from the capacity there is.
Puts(s) ==
    /\ text = <<>>
    /\ s # <<>>
    /\ length + Len(s) <= MaxLength
    /\ text' = s
    /\ cap' = capacity
    /\ UNCHANGED <<capacity, length, data>>

\* Seeded error: the first capacity is computed from none.
GrowByHalf ==
    /\ text # <<>>
    /\ Required > cap
    /\ cap' = (cap * 3) \div 2
    /\ UNCHANGED <<capacity, length, data, text>>

\* Half as much again, and never less than the first capacity.
Grow ==
    /\ text # <<>>
    /\ Required > cap
    /\ LET more == (cap * 3) \div 2
       IN  cap' = IF more <= MinCapacity THEN MinCapacity ELSE more
    /\ UNCHANGED <<capacity, length, data, text>>

\* The memory to write to: new when the old is too small.
Memory ==
    IF Required > capacity
    THEN [k \in 1 .. cap |-> IF k <= length THEN data[k] ELSE Zero]
    ELSE data

Store ==
    /\ text # <<>>
    /\ Required <= cap
    /\ data' = Copy(Memory, length, text)
    /\ capacity' = cap
    /\ length' = Required
    /\ text' = <<>>
    /\ UNCHANGED cap

BufferNext ==
    \/ \E s \in UNION {[1 .. n -> Bytes] : n \in 1 .. MaxLength} : Puts(s)
    \/ Grow
    \/ Store

BufferSpec == BufferInit /\ [][BufferNext]_bufferVars

\* What buffer.toString() and buffer.close() return: one end of line is taken off.
\* For a buffer that holds only LF the byte before the memory is read; it is the
\* top byte of the allocator's size, never CR.
Trimmed(bytes) ==
    LET n == Len(bytes)
        m == IF n > 0 /\ bytes[n] = LF THEN n - 1 ELSE n
        k == IF n > 0 /\ m > 0 /\ bytes[m] = CR THEN m - 1 ELSE m
    IN  SubSeq(bytes, 1, k)

-----------------------------------------------------------------------------
\* The memory holds bytes and zeroes, what is being appended holds bytes (pmk_buffer.c).
BufferTypeOK ==
    /\ capacity \in Nat
    /\ length \in Nat
    /\ cap \in Nat
    /\ data \in Seq(Bytes \cup {Zero})
    /\ text \in Seq(Bytes)

\* No append writes past the memory, and what was appended is never one of the zeroes
\* of the allocation (pmk_buffer.c:50-72).
WithinCapacity ==
    /\ BufferTypeOK
    /\ Len(data) = capacity
    /\ length <= capacity
    /\ \A k \in 1 .. length : data[k] \in Bytes

Abstract == INSTANCE ByteString WITH contents <- Contents

\* The buffer implements a string that grows at its end, through every reallocation, and
\* never writes past its memory (pmk_buffer.c:46-72).
ImplementsByteString ==
    /\ Abstract!Spec
    /\ WithinCapacity
    /\ [][WithinCapacity']_bufferVars

\* Every append is done: the loop that computes the capacity ends (pmk_buffer.c:50-62).
AppendsEnd == [](text # <<>> => <>(text = <<>>))

-----------------------------------------------------------------------------
(* Files *)
CONSTANTS
    FileNames,  \* of files and directories
    MaxNames,   \* bound on the names in a path
    Texts,      \* file contents, sequences of bytes
    Space,      \* the byte pmk_touchFile() appends
    MaxText,    \* bound on the length of a file
    ChunkSize   \* 4096, what pmk_compareFile() reads at a time

ASSUME FilesAssumption ==
    /\ MaxNames \in Nat
    /\ ChunkSize \in Nat \ {0}
    /\ <<>> \in Texts
    /\ Texts \subseteq Seq(UNION {Range(t) : t \in Texts})

VARIABLES
    tree,       \* what each path is
    done        \* history: the last operation and its result

filesVars == <<tree, done>>

Paths == UNION {[1 .. n -> FileNames] : n \in 1 .. MaxNames}
MISSING == [kind |-> "missing"]
DIRECTORY == [kind |-> "directory"]
File(content) == [kind |-> "file", text |-> content]

Parent(p) == Front(p)
DirectoryAt(t, p) == p = <<>> \/ t[p] = DIRECTORY
Exists(t, p) == p = <<>> \/ t[p] # MISSING
IsFile(t, p) == Exists(t, p) /\ ~DirectoryAt(t, p)

FilesInit ==
    /\ tree = [p \in Paths |-> MISSING]
    /\ done = [operation |-> "none"]

-----------------------------------------------------------------------------
\* The directories pmk_mkdir() has to make: it goes up to the first one that exists.
ToMake(t, p) ==
    {k \in 1 .. Len(p) : \A j \in k .. Len(p) : ~Exists(t, SubSeq(p, 1, j))}

\* They are made from the top, each if it can; what was made stays when one cannot.  It is
\* no error that the path exists, whatever it is.
Mkdir(t, p) ==
    LET missing == ToMake(t, p)
        base == Len(p) - Cardinality(missing)
        Made(n) == [q \in Paths |->
                       IF \E k \in base + 1 .. base + n : q = SubSeq(p, 1, k)
                       THEN DIRECTORY
                       ELSE t[q]]
    IN  IF missing = {}
        THEN {[tree |-> t, result |-> TRUE]}
        ELSE IF ~DirectoryAt(t, SubSeq(p, 1, base))
        THEN {[tree |-> t, result |-> FALSE]}
        ELSE {[tree |-> Made(n), result |-> n = Cardinality(missing)] :
                  n \in 0 .. Cardinality(missing)}

CanOpenToWrite(t, p) == DirectoryAt(t, Parent(p)) /\ ~DirectoryAt(t, p)

\* Opened and emptied, then written; nobody looks whether all was written.  The result is
\* that of opening.
WriteFile(t, p, content) ==
    {[tree |-> t, result |-> FALSE]}
    \cup (IF CanOpenToWrite(t, p)
          THEN {[tree |-> [t EXCEPT ![p] = File(SubSeq(content, 1, n))], result |-> TRUE] :
                    n \in 0 .. Len(content)}
          ELSE {})

\* Seeded error: compares the first chunk.
FirstChunkEqual(a, b) ==
    \A k \in DOMAIN a : k <= ChunkSize => a[k] = b[k]

\* The chunks of two texts of one length, compared one after the other.
ChunksEqual(a, b) ==
    \A n \in 0 .. Len(a) \div ChunkSize :
        LET last == IF (n + 1) * ChunkSize < Len(a) THEN (n + 1) * ChunkSize ELSE Len(a)
        IN  SubSeq(a, n * ChunkSize + 1, last) = SubSeq(b, n * ChunkSize + 1, last)

\* "failed" when the file cannot be opened or read.
CompareFile(t, p, content) ==
    IF ~IsFile(t, p)
    THEN {"failed"}
    ELSE IF Len(t[p].text) # Len(content)
    THEN {"failed", "noMatch"}
    ELSE {"failed", IF ChunksEqual(t[p].text, content) THEN "match" ELSE "noMatch"}

\* A file that exists gets a space, which is cut off again; any other is made.  The result
\* the script sees is true whatever happened: the library takes C's TRUE for a failure and
\* returns the last of the values it pushed.
TouchFile(t, p) ==
    IF IsFile(t, p)
    THEN {[tree |-> t, result |-> TRUE],
          [tree |-> IF Len(t[p].text) < MaxText THEN [t EXCEPT ![p].text = Append(@, Space)] ELSE t,
           result |-> TRUE]}
    ELSE {[tree |-> t, result |-> TRUE]}
         \cup (IF CanOpenToWrite(t, p)
               THEN {[tree |-> [t EXCEPT ![p] = File(<<>>)], result |-> TRUE]}
               ELSE {})

\* io.open() for writing makes the directories first, and raises an error if it cannot.
OpenForWriting(t, p) ==
    IF Len(p) = 1
    THEN WriteFile(t, p, <<>>)
    ELSE UNION {IF o.result THEN WriteFile(o.tree, p, <<>>) ELSE {o} : o \in Mkdir(t, Parent(p))}

-----------------------------------------------------------------------------
Do(operation, p, outcomes) ==
    \E o \in outcomes :
        /\ tree' = o.tree
        /\ done' = [operation |-> operation, path |-> p, result |-> o.result]

FilesNext ==
    \E p \in Paths :
        \/ Do("mkdir", p, Mkdir(tree, p))
        \/ Do("touch", p, TouchFile(tree, p))
        \/ Do("open", p, OpenForWriting(tree, p))
        \/ \E content \in Texts : Do("write", p, WriteFile(tree, p, content))
        \/ \E content \in Texts, found \in {"failed", "noMatch", "match"} :
              /\ found \in CompareFile(tree, p, content)
              /\ done' = [operation |-> "compare", path |-> p, text |-> content, result |-> found]
              /\ UNCHANGED tree

FilesSpec == FilesInit /\ [][FilesNext]_filesVars

-----------------------------------------------------------------------------
\* Whatever fails in whatever order, files and directories stand in directories, and a
\* file is never turned into a directory's place or back (pmk_mkdir.c:13-57).
TreeIsClosed ==
    /\ \A p \in Paths : Exists(tree, p) => DirectoryAt(tree, Parent(p))
    /\ DOMAIN tree = Paths

\* What was reported as made is there (pmk_mkdir.c:20-22, 46-55; pmk_writeFile.c:6-15).
ReportedIsThere ==
    done.operation \in {"mkdir", "write", "open"} /\ done.result => Exists(tree, done.path)

\* A file is reported as matching exactly if it holds the text, for every position of the
\* first difference among the chunks (pmk_compareFile.c:27-44).
MatchIsEquality ==
    done.operation = "compare" /\ done.result # "failed" =>
        (done.result = "match" <=> tree[done.path] = File(done.text))

\* Nothing is ever deleted, and text only by writing to the file (pmk_touchFile.c:48-62).
NothingDeleted ==
    [][\A p \in Paths :
          /\ Exists(tree, p) => Exists(tree, p)' /\ (DirectoryAt(tree, p) <=> DirectoryAt(tree', p))
          /\ IsFile(tree, p) /\ done'.operation \in {"mkdir", "touch", "compare"} =>
                IsPrefix(tree[p].text, tree'[p].text)]_filesVars

-----------------------------------------------------------------------------
(* Exports *)
CONSTANTS
    Word,       \* what an exporter writes
    Tab,        \* the string of one indentation
    ExportPath, \* the file premake.export() is for
    MaxRequests,\* bound on the calls
    MaxFrames   \* bound on the functions that are running

ASSUME ExportPathAssumption == ExportPath \in Paths

VARIABLES
    buffers,    \* the text in each buffer made, by the order of making
    settings,   \* the globals: [buffer, eol, level]; buffer 0 is nil
    running,    \* the running captures and protected calls, the innermost last
    lexical,    \* [text, eol, level] for the outside and for each capture
    lost,       \* how many calls ran around the capture an error last lost, or -1
    requests,   \* the calls made
    exported    \* the last result of premake.export(); whole if no error was lost in the capture

exportVars == <<buffers, settings, running, lexical, lost, requests, exported>>

NONE == <<>>            \* the path of a plain capture
NOTHING == [result |-> "nothing"]

ExportInit ==
    /\ buffers = <<>>
    /\ settings = [buffer |-> 0, eol |-> <<LF>>, level |-> 0]
    /\ running = <<>>
    /\ lexical = <<[text |-> <<>>, eol |-> <<LF>>, level |-> 0]>>
    /\ lost = -1
    /\ requests = 0
    /\ exported = NOTHING

\* string.rep() of the string of one indentation
Indentation(level) == [k \in 1 .. level |-> Tab]

Call ==
    /\ requests < MaxRequests
    /\ requests' = requests + 1
    /\ exported' = NOTHING

InnermostFrame(kind) == running # <<>> /\ Last(running).kind = kind

\* What is meant changes for the innermost capture, or for the outside.
Meant(field, value) ==
    lexical' = [lexical EXCEPT ![Len(lexical)] = [@ EXCEPT ![field] = value]]

-----------------------------------------------------------------------------
\* export.capture(), up to the call of its function.
BeginCapture(path) ==
    /\ Call
    /\ Len(running) < MaxFrames
    /\ running' = Append(running, [kind |-> "capture", path |-> path, old |-> settings])
    /\ buffers' = Append(buffers, <<>>)
    /\ settings' = [settings EXCEPT !.buffer = Len(buffers) + 1]
    /\ lexical' = Append(lexical, [Last(lexical) EXCEPT !.text = <<>>])
    /\ UNCHANGED <<lost, tree>>

\* Seeded error: a file that cannot be compared is left alone.
ExportIfDifferent(path, contents, meant) ==
    /\ "noMatch" \notin CompareFile(tree, path, contents)
    /\ exported' = [result |-> "unchanged", path |-> path, meant |-> meant,
                    contents |-> contents, whole |-> lost = -1]
    /\ UNCHANGED tree

\* premake.export(), with the contents captured: the file is written if it differs or
\* cannot be read, and nobody looks whether that succeeded.
Export(path, contents, meant) ==
    \E found \in CompareFile(tree, path, contents) :
        IF found = "match"
        THEN /\ exported' = [result |-> "unchanged", path |-> path, meant |-> meant,
                             contents |-> contents, whole |-> lost = -1]
             /\ UNCHANGED tree
        ELSE \E o \in WriteFile(tree, path, contents) :
                /\ tree' = o.tree
                /\ exported' = [result |-> "written", path |-> path, meant |-> meant,
                                contents |-> contents, whole |-> lost = -1]

\* The globals as export.capture() puts them back.
PutBack == Last(running).old

\* Its function has returned.  The buffer that is closed is the current one.
FinishCapture ==
    /\ InnermostFrame("capture")
    /\ requests < MaxRequests /\ requests' = requests + 1
    /\ settings' = PutBack
    /\ running' = Front(running)
    /\ lexical' = Front(lexical)
    /\ lost' = IF Len(running) <= lost THEN -1 ELSE lost
    /\ IF Last(running).path = NONE
       THEN exported' = NOTHING /\ UNCHANGED tree
       ELSE Export(Last(running).path, Trimmed(buffers[settings.buffer]), Trimmed(Last(lexical).text))
    /\ UNCHANGED buffers

-----------------------------------------------------------------------------
BeginPcall ==
    /\ Call
    /\ Len(running) < MaxFrames
    /\ running' = Append(running, [kind |-> "pcall"])
    /\ UNCHANGED <<buffers, settings, lexical, lost, tree>>

EndPcall ==
    /\ Call
    /\ InnermostFrame("pcall")
    /\ running' = Front(running)
    /\ lost' = IF Len(running) <= lost THEN Len(running) - 1 ELSE lost
    /\ UNCHANGED <<buffers, settings, lexical, tree>>

\* An error goes to the innermost protected call, and nothing is put back on the way.
RaiseError ==
    /\ Call
    /\ \E p \in DOMAIN running :
          /\ running[p].kind = "pcall"
          /\ \A k \in p + 1 .. Len(running) : running[k].kind = "capture"
          /\ running' = SubSeq(running, 1, p - 1)
          /\ lexical' = SubSeq(lexical, 1, Len(lexical) - (Len(running) - p))
          /\ lost' = IF lost >= p \/ (lost = -1 /\ p < Len(running)) THEN p - 1 ELSE lost
    /\ UNCHANGED <<buffers, settings, tree>>

\* What export.write() or append() writes, then the end of line of writeLine() and appendLine().
Line(indented, line, s) ==
    Indentation(IF indented THEN s.level ELSE 0) \o <<Word>> \o (IF line THEN s.eol ELSE <<>>)

\* With no capture they raise an error, which is RaiseError.
Write(indented, line) ==
    /\ Call
    /\ settings.buffer # 0
    /\ buffers' = [buffers EXCEPT ![settings.buffer] = @ \o Line(indented, line, settings)]
    /\ Meant("text", Last(lexical).text \o Line(indented, line, Last(lexical)))
    /\ UNCHANGED <<settings, running, lost, tree>>

Indent(amount) ==
    /\ Call
    /\ settings' = [settings EXCEPT !.level = @ + amount]
    /\ Meant("level", Last(lexical).level + amount)
    /\ UNCHANGED <<buffers, running, lost, tree>>

Less(level, amount) == IF level - amount < 0 THEN 0 ELSE level - amount

Outdent(amount) ==
    /\ Call
    /\ settings' = [settings EXCEPT !.level = Less(@, amount)]
    /\ Meant("level", Less(Last(lexical).level, amount))
    /\ UNCHANGED <<buffers, running, lost, tree>>

Eol(value) ==
    /\ Call
    /\ settings' = [settings EXCEPT !.eol = value]
    /\ Meant("eol", value)
    /\ UNCHANGED <<buffers, running, lost, tree>>

ExportNext ==
    \/ \E path \in {NONE, ExportPath} : BeginCapture(path)
    \/ FinishCapture
    \/ BeginPcall
    \/ EndPcall
    \/ RaiseError
    \/ \E indented, line \in BOOLEAN : Write(indented, line)
    \/ Indent(1)
    \/ Outdent(1)
    \/ Eol(<<CR, LF>>)

ExportSpec == FilesInit /\ ExportInit /\ [][ExportNext /\ UNCHANGED done]_<<filesVars, exportVars>>

-----------------------------------------------------------------------------
\* As long as no error has left a capture, every setting is the one its capture made, and the
\* open buffer holds what the capture wrote, with its indentations.  Once the captures around
\* the error are finished this holds again (export.lua:28-44).
CapturesNest ==
    lost = -1 =>
        /\ settings.level = Last(lexical).level
        /\ settings.eol = Last(lexical).eol
        /\ settings.buffer # 0 => buffers[settings.buffer] = Last(lexical).text
        /\ (settings.buffer = 0) <=> (Len(lexical) = 1)

\* If the export of a file changed nothing, the file holds what its exporter wrote; and with an
\* error in between it holds what was captured (premake.lua:98-110).
FalseMeansCurrent ==
    exported.result = "unchanged" =>
        /\ tree[exported.path] = File(exported.contents)
        /\ exported.whole => exported.contents = exported.meant

\* Files are what the operations on them report, whichever calls of the system fail: what was made is there,
\* what was compared as equal is equal, and nothing else has changed (pmk_mkdir.c, pmk_writeFile.c,
\* pmk_compareFile.c, pmk_touchFile.c).
FilesAsReported == [](TreeIsClosed /\ ReportedIsThere /\ MatchIsEquality) /\ NothingDeleted

\* What exporters write goes to the capture they opened, and from there to the file, errors or not
\* (export.lua; premake.lua).
ExportsAsCaptured == CapturesNest /\ FalseMeansCurrent
=============================================================================
