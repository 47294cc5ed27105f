------------------------------- MODULE Paths -------------------------------
(***************************************************************************)
(* The host's functions on paths (core/host/src/host/pmk_normalize.c,      *)
(* pmk_getAbsolutePath.c, pmk_getRelativePath.c, pmk_joinPath.c and the    *)
(* others of libraries/pmk_lib_path.c).                                    *)
(*                                                                         *)
(* A path is the sequence of what stands between its separators: "" is     *)
(* <<"">>, "/" is <<"", "">>, "/a/" is <<"", "a", "">>.  A variable such as*)
(* $(V) is one name, and only the first of a path.                         *)
(***************************************************************************)
EXTENDS Integers, Sequences, SequencesExt, FiniteSetsExt

CONSTANTS
    PathNames,  \* what stands between separators, apart from "", "." and ".."; "**" may be one
    Variable,   \* "$(V)"
    MaxSegments \* bound on the length of a path, and on that of a base less one

VARIABLES
    path,       \* the path asked about
    base        \* what it is relative to, or joined to

pathVars == <<path, base>>

\* Between two separators in a row, before the first and after the last.
NONAME == ""

PathsUpTo(n) ==
    LET Plain == UNION {[1 .. k -> PathNames \cup {NONAME, ".", ".."}] : k \in 1 .. n}
    IN  Plain \cup {<<Variable>> \o p : p \in {q \in Plain : Len(q) < n}}

EMPTY == <<NONAME>>
ROOT == <<NONAME, NONAME>>
DOT == <<".">>

IsVariable(p) == p[1] = Variable

\* pmk_pathKind(): a separator or a variable comes first.
IsAbsolute(p) == IsVariable(p) \/ (p[1] = NONAME /\ Len(p) > 1)

\* The separators a path starts with, of which two count.
Leading(p) ==
    IF Len(p) > 1 /\ p[1] = NONAME THEN IF Len(p) > 2 /\ p[2] = NONAME THEN 2 ELSE 1 ELSE 0

\* The path with so many leading separators and these names.
Rooted(leading, names) ==
    IF names # <<>> THEN [k \in 1 .. leading |-> NONAME] \o names
    ELSE IF leading = 0 THEN EMPTY
    ELSE [k \in 1 .. leading + 1 |-> NONAME]

-----------------------------------------------------------------------------
\* Seeded error: `..' takes back whatever came before it, another `..' too.
NormalizeAnyName(out, name) ==
    CASE name \in {NONAME, "."} -> out
      [] name = ".." /\ out.names # <<>> -> [out EXCEPT !.names = Front(@)]
      [] OTHER -> [out EXCEPT !.names = Append(@, name)]

\* One turn of the loop of normalize_substring().
NormalizeName(out, name) ==
    CASE name \in {NONAME, "."} -> out
      [] name = ".." /\ out.depth > 0 -> [names |-> Front(out.names), depth |-> out.depth - 1]
      [] name = ".." /\ out.depth = 0 -> [out EXCEPT !.names = Append(@, "..")]
      [] OTHER -> [names |-> Append(out.names, name), depth |-> out.depth + 1]

NormalizeSubstring(p) ==
    LET first == Leading(p)
        out[k \in 0 .. Len(p) - first] ==
            IF k = 0 THEN [names |-> <<>>, depth |-> 0] ELSE NormalizeName(out[k - 1], p[first + k])
    IN  Rooted(first, out[Len(p) - first].names)

\* What follows a variable is a path of its own.
Normalize(p) ==
    IF ~IsVariable(p) THEN NormalizeSubstring(p)
    ELSE IF Len(p) = 1 THEN p
    ELSE <<Variable>> \o Tail(NormalizeSubstring(EMPTY \o Tail(p)))

\* One turn of the loop of pmk_getAbsolutePath(), with the name before it if that is still there.
AbsoluteName(out, name) ==
    IF name = ".." /\ out.previous \notin {Variable, ".."}
    THEN [leading |-> IF out.names = <<>> /\ out.leading = 2 THEN 1 ELSE out.leading,
          names |-> IF Len(out.names) > 1 \/ (out.names # <<>> /\ out.leading > 0)
                    THEN Front(out.names) ELSE out.names,
          previous |-> NONAME]
    ELSE [leading |-> out.leading,
          names |-> IF name = "." THEN out.names ELSE Append(out.names, name),
          previous |-> name]

\* The last separator is taken off, the one of the root too.
GetAbsolute(p, relativeTo) ==
    LET whole == IF IsAbsolute(p) THEN p ELSE relativeTo \o p
        out == FoldLeft(AbsoluteName, [leading |-> Leading(whole), names |-> <<>>, previous |-> NONAME],
                        SelectSeq(whole, LAMBDA name : name # NONAME))
    IN  IF out.names # <<>> THEN Rooted(out.leading, out.names)
        ELSE IF out.leading = 2 THEN ROOT ELSE EMPTY

\* How many names two paths have in common from the start.
Common(a, b) ==
    Max({k \in 0 .. Len(a) : k <= Len(b) /\ \A j \in 1 .. k : a[j] = b[j]})

\* Nothing but the root in common: the target stays as it is.
GetRelative(from, to) ==
    LET a == Normalize(from)
        b == Normalize(to)
        k == Common(a, b)
    IN  IF a = b THEN DOT
        ELSE IF IsVariable(b) THEN b
        ELSE IF \A j \in 1 .. k : a[j] = NONAME THEN b
        ELSE [j \in 1 .. Len(a) - k |-> ".."] \o SubSeq(b, k + 1, Len(b))

\* pmk_getDirectory() and pmk_getFileName().
GetDirectory(p) ==
    IF Len(p) = 1 THEN DOT ELSE IF Front(p) = EMPTY THEN ROOT ELSE Front(p)

GetFileName(p) == Last(p)

GetRelativeFile(from, to) == GetRelative(GetDirectory(from), to)

\* One turn of the loop of pmk_joinPath(), which takes no name back that may stand for others.
JoinName(root, name) ==
    LET bare == SubSeq(root, 1, Max({0} \cup {k \in DOMAIN root : root[k] # NONAME}))
        trimmed == IF bare = <<>> THEN EMPTY ELSE bare
    IN  CASE name \in {NONAME, "."} -> root
          [] name = ".." ->
                IF Last(trimmed) \in {"..", "**", Variable} THEN Append(trimmed, "..")
                ELSE IF Len(trimmed) > 1 THEN Front(trimmed)
                ELSE IF trimmed \in {EMPTY, DOT} THEN <<"..">>
                ELSE DOT
          [] OTHER -> IF root = DOT THEN <<name>>
                      ELSE IF Last(root) = NONAME THEN Append(Front(root), name)
                      ELSE Append(root, name)

Join(root, part) ==
    IF IsAbsolute(part) THEN part ELSE FoldLeft(JoinName, root, part)

-----------------------------------------------------------------------------
PathInit == path = EMPTY /\ base = EMPTY

\* The questions are independent of each other.
AskPath ==
    /\ path = EMPTY /\ base = EMPTY
    /\ path' \in PathsUpTo(MaxSegments)
    /\ base' \in PathsUpTo(MaxSegments - 1)

-----------------------------------------------------------------------------
\* The place a path stands for when there are no links: from which root, how far up and down.
MeaningOf(p) ==
    LET start == IF IsVariable(p) THEN "variable" ELSE IF IsAbsolute(p) THEN "root" ELSE "here"
        Down(at, name) ==
            CASE name \in {NONAME, "."} -> at
              [] name = ".." /\ at.down # <<>> -> [at EXCEPT !.down = Front(@)]
              [] name = ".." /\ at.down = <<>> -> [at EXCEPT !.up = IF start = "root" THEN 0 ELSE @ + 1]
              [] OTHER -> [at EXCEPT !.down = Append(@, name)]
    IN  FoldLeft(Down, [start |-> start, up |-> 0, down |-> <<>>], IF IsVariable(p) THEN Tail(p) ELSE p)

IsRoot(p) == MeaningOf(p) = MeaningOf(ROOT)

\* A normalized path stands for the same place, whatever leading, doubled and trailing
\* separators it had and wherever `..` led, and it stays as it is when normalized again
\* (pmk_normalize.c:26-105).
NormalizeKeepsPlace ==
    /\ MeaningOf(Normalize(path)) = MeaningOf(path)
    /\ Normalize(Normalize(path)) = Normalize(path)

\* Of the relative paths to one place there is one normalized form; of the absolute ones, too, if
\* they start alike and do not go above their root (pmk_normalize.c:63-95).
NormalizeIsCanonical ==
    /\ MeaningOf(path) = MeaningOf(base)
    /\ Leading(path) = Leading(base)
    /\ \A p \in {path, base} : IsAbsolute(p) => ".." \notin Range(Normalize(p))
    /\ ~IsVariable(path)
    => Normalize(path) = Normalize(base)

\* A path made absolute is absolute and stands for the same place, except that the root itself
\* becomes the empty string, and that a path which climbs above a variable may lose the climb
\* (pmk_getAbsolutePath.c:33-76).
AbsoluteKeepsPlace ==
    LET whole == IF IsAbsolute(path) THEN path ELSE base \o path
    IN  IsAbsolute(whole) /\ ~IsRoot(whole) /\ (IsVariable(whole) => MeaningOf(whole).up = 0) =>
            MeaningOf(GetAbsolute(path, base)) = MeaningOf(whole)

\* A relative path leads from its base to its target, whether they were normalized or not; so does
\* the path from one file to another, seen from the directory of the first, and a file is where its
\* directory and its name say (pmk_getRelativePath.c:26-97, pmk_getRelativeFile.c:16-21).
RelativeLeadsBack ==
    IsAbsolute(base) /\ IsAbsolute(path) /\ ~IsRoot(path) /\ ~IsVariable(base) =>
        /\ MeaningOf(GetAbsolute(GetRelative(base, path), base)) = MeaningOf(path)
        /\ MeaningOf(GetAbsolute(GetRelativeFile(base, path), GetDirectory(base))) = MeaningOf(path)
        /\ MeaningOf(GetDirectory(path) \o <<GetFileName(path)>>) = MeaningOf(path)

CountOfDeep(p) == Cardinality({k \in DOMAIN p : p[k] = "**"})

\* A joined path stands for the place of the part seen from the root, if the root is normalized
\* and the part does not climb out of it.  No "**", which may stand for several directories, is
\* taken back (pmk_joinPath.c:6-58).
JoinKeepsPlace ==
    LET root == Normalize(base)
        climbs == MeaningOf(path).up
    IN  /\ ~IsAbsolute(path)
        /\ IsAbsolute(root) => climbs < Len(MeaningOf(root).down) /\ ".." \notin Range(root)
        => /\ MeaningOf(Join(root, path)) = MeaningOf(IF root = EMPTY THEN path ELSE root \o path)
           /\ CountOfDeep(Join(root, path)) = CountOfDeep(root) + CountOfDeep(path)

\* Paths that are normalized, made absolute or relative, or joined lead where they led before
\* (pmk_normalize.c, pmk_getAbsolutePath.c, pmk_getRelativePath.c, pmk_joinPath.c).
PathsKeepPlace ==
    /\ NormalizeKeepsPlace
    /\ NormalizeIsCanonical
    /\ AbsoluteKeepsPlace
    /\ RelativeLeadsBack
    /\ JoinKeepsPlace
=============================================================================
