------------------------------ MODULE Matching ------------------------------
(***************************************************************************)
(* Files and directories found by masks with wildcards (os._match() in     *)
(* core/modules/os/os.lua over core/host/src/host/pmk_match.c, on a POSIX  *)
(* system).  The system matches single names only, so a mask is taken      *)
(* apart: what comes before its first wildcard is a directory to read, and *)
(* what comes after it is looked for in the directories that matched.      *)
(*                                                                         *)
(* Names are strings, a path is as in Paths.  The working directory is the *)
(* root of the files.                                                      *)
(***************************************************************************)
EXTENDS Paths

CONSTANTS
    Places,        \* sets of files and directories: [files, directories], paths from the root
    MaskNames,     \* what masks are made of
    MaxMaskNames   \* bound on the names of a mask

VARIABLES
    place,         \* what is there
    mask,          \* what is looked for
    type           \* "files" or "directories"

maskVars == <<place, mask, type>>

Char(s, k) == SubSeq(s, k, k)
From(s, k) == SubSeq(s, k, Len(s))
HasWildcard(name) == \E k \in 1 .. Len(name) : Char(name, k) = "*"

\* "**" and what is written right behind it, as in "**.c".
IsRecursive(name) == Len(name) >= 2 /\ SubSeq(name, 1, 2) = "**"
IsSuffixed(name) == IsRecursive(name) /\ Len(name) > 2

\* fnmatch(), for "*" alone: any characters, none too.
RECURSIVE Matches(_, _)
Matches(pattern, name) ==
    IF pattern = "" THEN name = ""
    ELSE IF Char(pattern, 1) = "*"
    THEN Matches(From(pattern, 2), name) \/ (name # "" /\ Matches(pattern, From(name, 2)))
    ELSE name # "" /\ Char(pattern, 1) = Char(name, 1) /\ Matches(From(pattern, 2), From(name, 2))

\* Where a path leads from the root.
Location(p) == MeaningOf(p).down

\* What pmk_matchNext() yields one after the other: "." and ".." are passed over, a directory
\* that cannot be opened has no entries.  The system gives them in an order of its own.
Entries(directory, pattern) ==
    LET at == Location(directory)
        Below == {p \in place.files \cup place.directories :
                    /\ Len(p) = Len(at) + 1
                    /\ SubSeq(p, 1, Len(at)) = at
                    /\ Matches(pattern, Last(p))}
    IN  SetToSeq({Last(p) : p \in Below})

\* path.join() of several parts.
JoinAll(parts) == FoldLeft(Join, EMPTY, parts)

\* A mask taken apart at its first wildcard.  What stands behind "**" goes to the end of the
\* remainder, where it is a name of its own if there is no remainder yet.
Divided(m) ==
    LET wild == {k \in DOMAIN m : HasWildcard(m[k])}
        k == IF wild = {} THEN Len(m) ELSE Min(wild)
        rest == SubSeq(m, k + 1, Len(m))
        front == IF rest = <<>> THEN EMPTY ELSE rest
    IN  [directory |-> GetDirectory(SubSeq(m, 1, k)),
         pattern |-> IF IsSuffixed(m[k]) THEN "**" ELSE m[k],
         remainder |-> IF IsSuffixed(m[k])
                       THEN Append(Front(front), Last(front) \o "*" \o From(m[k], 3))
                       ELSE rest]

\* Seeded error: what follows "**" is looked for at one depth only.
DeeperAtOnce(matched, parts) ==
    IF parts.remainder # <<>> THEN {JoinAll(<<matched, parts.remainder>>)}
    ELSE IF parts.pattern = "**" THEN {JoinAll(<<matched, <<"**">>>>)}
    ELSE {}

\* The masks to look for because of a directory that matched, one at most.
Deeper(matched, parts) ==
    IF parts.pattern = "**"
    THEN {JoinAll(<<matched, <<"**">>>> \o
                  (IF parts.remainder = <<>> THEN <<>> ELSE <<parts.remainder>>))}
    ELSE IF parts.remainder # <<>> THEN {JoinAll(<<matched, parts.remainder>>)}
    ELSE {}

\* os._match(): the paths it adds to the results, in order.
RECURSIVE Found(_)
Found(given) ==
    LET parts == Divided(Normalize(given))
        names == Entries(parts.directory, parts.pattern)
        AtEntry(name) ==
            LET matched == JoinAll(<<parts.directory, <<name>>>>)
                kind == IF Location(matched) \in place.files THEN "files" ELSE "directories"
            IN  (IF parts.remainder = <<>> /\ kind = type THEN <<matched>> ELSE <<>>)
                \o (IF kind = "files" THEN <<>>
                    ELSE FlattenSeq(SetToSeq({Found(m) : m \in Deeper(matched, parts)})))
    IN  (IF parts.pattern = "**" /\ parts.remainder # <<>>
         THEN Found(JoinAll(<<parts.directory, parts.remainder>>)) ELSE <<>>)
        \o FlattenSeq([k \in DOMAIN names |-> AtEntry(names[k])])

-----------------------------------------------------------------------------
Masks == UNION {[1 .. n -> MaskNames] : n \in 1 .. MaxMaskNames}

MaskInit ==
    /\ place = [files |-> {}, directories |-> {}]
    /\ mask = EMPTY
    /\ type = "files"

\* os.matchFiles() and os.matchDirs(): for a mask that is relative, or made absolute as fields do.
AskMask ==
    /\ mask = EMPTY
    /\ place' \in Places
    /\ mask' \in {m \in Masks \cup {EMPTY \o m : m \in Masks} : Normalize(m)[1] # ".."}
    /\ type' \in {"files", "directories"}

-----------------------------------------------------------------------------
\* What a mask means for the names of a path: "**" stands for any names, and "**.c" for "**/*.c"
\* as the comment in os.lua has it.
RECURSIVE Means(_, _)
Means(m, p) ==
    IF m = <<>> THEN p = <<>>
    ELSE IF IsSuffixed(m[1])
    THEN Means(<<"**", "*" \o From(m[1], 3)>> \o Tail(m), p)
    ELSE IF m[1] = "**"
    THEN /\ p # <<>>
         /\ Means(m, Tail(p)) \/ Tail(m) = <<>> \/ Means(Tail(m), p)
    ELSE p # <<>> /\ Matches(m[1], p[1]) /\ Means(Tail(m), Tail(p))

MaskNamesOf(m) == SelectSeq(Normalize(m), LAMBDA name : name # "")
Wanted == {p \in place[type] : Means(MaskNamesOf(mask), p)}
SuffixedInside == \E k \in DOMAIN MaskNamesOf(mask) : k < Len(MaskNamesOf(mask)) /\ IsSuffixed(MaskNamesOf(mask)[k])

\* However deep the directories are and wherever the wildcards stand, the paths found are those of
\* the files, or directories, that the mask describes, and a pattern right behind "**" counts as
\* the last name of the mask (os.lua:22-92).
FindsAll == {Location(p) : p \in Range(Found(mask))} = Wanted

FindsWhatIsMeant == mask # EMPTY /\ ~SuffixedInside => FindsAll

\* "Convert patterns like '**.txt' to '**/*.txt'" (os.lua:46), whatever follows them.
SuffixIsAName == mask # EMPTY => FindsAll

\* With one "**" no path is found twice, and a path is one that can be compared with others: it is
\* in normal form, and absolute if the mask was (os.lua:71-90).
FindsOnce ==
    mask # EMPTY =>
        LET found == Found(mask)
        IN  /\ /\ Cardinality({k \in DOMAIN MaskNamesOf(mask) : IsRecursive(MaskNamesOf(mask)[k])}) < 2
               /\ ~SuffixedInside
               => IsInjective(found)
            /\ \A p \in Range(found) : Normalize(p) = p /\ (IsAbsolute(p) <=> IsAbsolute(mask))

\* A mask finds what it means, and once (os.lua).
MasksFindAll == FindsWhatIsMeant /\ FindsOnce
=============================================================================
