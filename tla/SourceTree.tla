----------------------------- MODULE SourceTree -----------------------------
(***************************************************************************)
(* Trees of source files (core/modules/tree/tree.lua), as Visual Studio    *)
(* exporters build and use them (buildVirtualSourceTree() in               *)
(* modules/vstudio/src/vcxproj.utils.lua, vcxproj.filters.lua).            *)
(*                                                                         *)
(* Nodes and lists of children are tables, and numbers here.  Every node   *)
(* starts with the one list _EMPTY, which all of them share.               *)
(***************************************************************************)
EXTENDS Paths

CONSTANTS
    BaseDirectory,  \* of the project
    SourceFiles,    \* the files it may have, absolute paths
    MaxFiles,       \* bound on those it has
    NameOrder       \* the names in alphabetical order

\* A path of the host's own file system that nothing is left to normalize in.
IsPlain(p) ==
    /\ p \in Seq(Range(p)) /\ Len(p) > 1 /\ p[1] = NONAME
    /\ \A k \in 2 .. Len(p) : p[k] \notin {NONAME, ".", "..", Variable}

\* The way from the project to a file or to a folder of the tree.
Relative(p) == GetRelative(BaseDirectory, p)

\* The project is a directory, and none of its files lies in the root directory; what is seen from
\* the project does not start with a name that something seen from the root starts with.
ASSUME TreeAssumption ==
    /\ MaxFiles \in Nat
    /\ NameOrder \in Seq(Range(NameOrder))
    /\ Variable \notin {NONAME, ".", ".."}
    /\ IsPlain(BaseDirectory)
    /\ \A f \in SourceFiles :
          /\ IsPlain(f) /\ Len(f) > 2 /\ f # BaseDirectory
          /\ Range(Relative(f)) \ {NONAME} \subseteq Range(NameOrder)
    /\ \A f, g \in SourceFiles :
          f[2] # BaseDirectory[2] /\ g[2] = BaseDirectory[2] => f[2] # Relative(g)[1]

VARIABLES
    files,       \* added so far
    sources,     \* the tree: [nodes, lists], a node being [name, path, children]
    sorted,      \* tree.sort() has run
    walk,        \* the running calls of processChildren(): [node, i], the innermost last
    visited      \* the nodes the callback was called for

treeVars == <<files, sources, sorted, walk, visited>>

ROOTNODE == 1
_EMPTY == 1

\* tree.new()
NewNode(name, p) == [name |-> name, path |-> p, children |-> _EMPTY]

Children(t, n) == t.lists[t.nodes[n].children]

\* A node gets a list of its own with its first child.
OwnList(t, parent) ==
    IF t.nodes[parent].children # _EMPTY THEN t
    ELSE [nodes |-> [t.nodes EXCEPT ![parent].children = Len(t.lists) + 1],
          lists |-> Append(t.lists, <<>>)]

\* A child that has the name is found, otherwise it is made; `at' is its number.
AddChild(t, parent, p) ==
    LET known == {n \in Range(Children(t, parent)) : t.nodes[n].name = GetFileName(p)}
        owned == OwnList(t, parent)
        new == Len(t.nodes) + 1
    IN  IF known # {} THEN [tree |-> t, at |-> CHOOSE n \in known : TRUE]
        ELSE [tree |-> [nodes |-> Append(owned.nodes, NewNode(GetFileName(p), p)),
                        lists |-> [owned.lists EXCEPT ![owned.nodes[parent].children] = Append(@, new)]],
              at |-> new]

\* tree.add(): the directories above come first, from the first name or from below the root.
AddPath(t, p) ==
    LET added[k \in 0 .. Len(p)] ==
            LET above == SubSeq(p, 1, k)
            IN  IF k = 0 \/ above \in {DOT, ROOT} \/ (above = EMPTY /\ k < Len(p))
                THEN [tree |-> t, at |-> ROOTNODE]
                ELSE AddChild(added[k - 1].tree, added[k - 1].at, above)
    IN  added[Len(p)]

Position(name) == CHOOSE k \in DOMAIN NameOrder : NameOrder[k] = name

\* tree.sort() sorts every list, by name.
InOrder(t, m, n) == Position(t.nodes[m].name) < Position(t.nodes[n].name)

Sorted(t, list) ==
    CHOOSE s \in [1 .. Len(list) -> Range(list)] : \A j, k \in 1 .. Len(list) : j < k => InOrder(t, s[j], s[k])

SortedTree(t) == [t EXCEPT !.lists = [l \in DOMAIN t.lists |-> Sorted(t, t.lists[l])]]

\* tree.hasBranches()
HasBranches(t) == \E n \in Range(Children(t, ROOTNODE)) : Children(t, n) # <<>>

-----------------------------------------------------------------------------
TreeInit ==
    /\ files = <<>>
    /\ sources = [nodes |-> <<NewNode(NONAME, EMPTY)>>, lists |-> <<<<>>>>]
    /\ sorted = FALSE
    /\ walk = <<>>
    /\ visited = <<>>

\* One turn of the loop of buildVirtualSourceTree(); collectAllSourceFiles() drops duplicates.
AddFile ==
    /\ ~sorted /\ Len(files) < MaxFiles
    /\ \E f \in SourceFiles \ Range(files) :
         /\ files' = Append(files, f)
         /\ sources' = AddPath(sources, Relative(f)).tree
    /\ UNCHANGED <<sorted, walk, visited>>

SortTree ==
    /\ ~sorted /\ files # <<>>
    /\ sorted' = TRUE
    /\ sources' = SortedTree(sources)
    /\ walk' = <<[node |-> ROOTNODE, i |-> 1]>>
    /\ UNCHANGED <<files, visited>>

\* Seeded error: the index goes on, whatever the callback has done to the list.
Onward(t, frame, child) == [frame EXCEPT !.i = @ + 1]

\* The index stays when something else has come to stand there.
Advance(t, frame, child) ==
    LET list == Children(t, frame.node)
    IN  IF frame.i \in DOMAIN list /\ list[frame.i] = child THEN [frame EXCEPT !.i = @ + 1] ELSE frame

Without(t, parent, k) == [t EXCEPT !.lists[t.nodes[parent].children] = RemoveAt(@, k)]

\* processNode() for the next child: its callback may remove the child, or one that stands
\* beside it, and then the children of the child have their turn.
Visit ==
    /\ walk # <<>>
    /\ LET frame == Last(walk)
           list == Children(sources, frame.node)
       IN  /\ frame.i \in DOMAIN list
           /\ LET child == list[frame.i] IN
                \E t \in {sources} \cup {Without(sources, frame.node, k) : k \in DOMAIN list} :
                    /\ sources' = t
                    /\ visited' = Append(visited, child)
                    /\ walk' = IF Children(t, child) = <<>>
                               THEN Append(Front(walk), Advance(t, frame, child))
                               ELSE Append(walk, [node |-> child, i |-> 1])
    /\ UNCHANGED <<files, sorted>>

\* The loop over the children of a node ends, and that of its parent goes on.
Leave ==
    /\ walk # <<>>
    /\ Last(walk).i \notin DOMAIN Children(sources, Last(walk).node)
    /\ LET above == Front(walk)
       IN  walk' = IF above = <<>> THEN <<>>
                   ELSE Append(Front(above), Advance(sources, Last(above), Last(walk).node))
    /\ UNCHANGED <<files, sources, sorted, visited>>

TreeNext == AddFile \/ SortTree \/ Visit \/ Leave

TreeSpec == TreeInit /\ [][TreeNext]_treeVars

-----------------------------------------------------------------------------
Nodes == DOMAIN sources.nodes \ {ROOTNODE}
PathOf(n) == sources.nodes[n].path
ParentsOf(n) == {m \in DOMAIN sources.nodes : n \in Range(Children(sources, m))}
Walked == sorted /\ walk = <<>>
Untouched == visited = <<>>

\* Whatever order the files come in, the tree has one node for each file and each directory
\* above it, each listed once, by the node of its directory, and the list all nodes start with
\* stays empty (tree.lua:35-57).
TreeHoldsPrefixes ==
    Untouched =>
        /\ {PathOf(n) : n \in Nodes} = UNION {Prefixes(Relative(f)) \ {<<>>, EMPTY} : f \in Range(files)}
        /\ \A l, m \in DOMAIN sources.lists :
              \A j \in DOMAIN sources.lists[l], k \in DOMAIN sources.lists[m] :
                 sources.lists[l][j] = sources.lists[m][k] => l = m /\ j = k
        /\ \A n \in Nodes : \E m \in ParentsOf(n) :
              /\ ParentsOf(n) = {m}
              /\ IF m = ROOTNODE THEN GetDirectory(PathOf(n)) \in {DOT, ROOT} ELSE PathOf(m) = GetDirectory(PathOf(n))
        /\ sources.lists[_EMPTY] = <<>>

\* Every folder a file is filed under has an identifier, and one only, and the file with the
\* identifiers is written whenever there is such a folder (vcxproj.filters.lua:40-84, 110-125).
FiltersDeclared ==
    sorted /\ Untouched =>
        LET Groups == {GetDirectory(Relative(f)) : f \in Range(files)} \ {DOT}
            Branches == {n \in Nodes : Children(sources, n) # <<>>}
            Declared == {Relative(PathOf(n)) : n \in Branches}
        IN  /\ Groups \subseteq Declared
            /\ Cardinality(Declared) = Cardinality(Branches)
            /\ HasBranches(sources) <=> Groups # {}

\* A traversal whose callback removes nodes visits all that are left, and none twice, in
\* alphabetical order at each level ("jump through hoops to allow nodes to be removed during
\* traversal", tree.lua:154-164).
TraversalSkipsNothing ==
    LET Gone == {n \in Nodes : ParentsOf(n) = {}}
        Left == {n \in Nodes : \A m \in Gone : PathOf(m) \notin Prefixes(PathOf(n))}
    IN  /\ IsInjective(visited)
        /\ Walked => Left \subseteq Range(visited)
        /\ \A j, k \in DOMAIN visited :
              j < k /\ ParentsOf(visited[j]) = ParentsOf(visited[k]) /\ ParentsOf(visited[j]) # {} =>
                  Position(sources.nodes[visited[j]].name) < Position(sources.nodes[visited[k]].name)

\* The tree of a project's files holds them all, names the folders the files are filed under, and can be
\* walked while nodes are removed (tree.lua; vcxproj.filters.lua).
TreesComplete == TreeHoldsPrefixes /\ FiltersDeclared /\ TraversalSkipsNothing
=============================================================================
