-------------------------- MODULE Hierarchy_proofs --------------------------
(***************************************************************************)
(* Proofs about Hierarchy, for every set of projects and every script whose*)
(* blocks are written at one of the levels.                                *)
(***************************************************************************)
EXTENDS Hierarchy, Query_proofs, FiniteSetTheorems, WellFoundedInduction

-----------------------------------------------------------------------------
(***************************************************************************)
(* Numbers and loops.                                                      *)
(***************************************************************************)
LEMMA LeastMember ==
    ASSUME NEW T, T \subseteq Nat, T # {}
    PROVE  \E n \in T : \A m \in T : n <= m
<1> DEFINE below == {pair \in Nat \X Nat : pair[1] < pair[2]}
<1>1. IsWellFoundedOn(below, Nat)
  BY NatLessThanWellFounded, Zenon DEF OpToRel
<1>2. PICK n \in T : \A m \in T : <<m, n>> \notin below
  <2> HIDE DEF below
  <2> QED
    BY <1>1, WFMin, Zenon
<1>3. \A m \in T : ~(m < n)
  BY <1>2
<1> QED
  BY <1>3

\* What holds before a loop and is kept by each of its turns holds after all of them.
LEMMA LoopInduction ==
    ASSUME NEW n \in Nat, NEW T, 0 \in T,
           \A k \in 1 .. n : k - 1 \in T => k \in T
    PROVE  0 .. n \subseteq T
<1> DEFINE U == 0 .. n \ T
<1>1. ASSUME U # {}
      PROVE  FALSE
  <2>1. PICK m \in U : \A k \in U : m <= k
    <3> U \subseteq Nat
      OBVIOUS
    <3> HIDE DEF U
    <3> QED
      BY <1>1, LeastMember
  <2>2. m \in 1 .. n /\ m - 1 \in 0 .. n /\ ~(m <= m - 1)
    OBVIOUS
  <2>3. m - 1 \in T
    BY <2>1, <2>2
  <2> QED
    BY <2>2, <2>3
<1> QED
  BY <1>1

\* What holds before turn k of a loop makes what holds after it.
Kept(holds, step, n) == \A k \in 1 .. n : \A x \in holds[k - 1] : step[<<x, k>>] \in holds[k]

\* There is a function that follows a loop turn by turn, and what holds after each turn is said
\* by the set of the turn.
LEMMA LoopExists ==
    ASSUME NEW n \in Nat, NEW holds, NEW base, base \in holds[0], NEW step, Kept(holds, step, n)
    PROVE  \E g : /\ g = [k \in 0 .. n |-> IF k = 0 THEN base ELSE step[<<g[k - 1], k>>]]
                  /\ \A k \in 0 .. n : g[k] \in holds[k]
<1> DEFINE Follows(g, m) ==
        /\ g = [k \in 0 .. m |-> g[k]]
        /\ g[0] = base
        /\ \A k \in 1 .. m : g[k] = step[<<g[k - 1], k>>]
        /\ \A k \in 0 .. m : g[k] \in holds[k]
           T == {m \in 0 .. n : \E g : Follows(g, m)}
<1>1. 0 \in T
  <2>1. PICK g : g = [k \in 0 .. 0 |-> base]
    OBVIOUS
  <2>2. Follows(g, 0)
    BY <2>1
  <2> QED
    BY <2>2
<1>2. ASSUME NEW m \in 1 .. n, m - 1 \in T
      PROVE  m \in T
  <2>1. PICK g : Follows(g, m - 1)
    BY <1>2
  <2>2. PICK h : h = [k \in 0 .. m |-> IF k = m THEN step[<<g[m - 1], m>>] ELSE g[k]]
    OBVIOUS
  <2>3. step[<<g[m - 1], m>>] \in holds[m]
    BY <2>1 DEF Kept
  <2>4. \A k \in 0 .. m : k = m \/ k \in 0 .. m - 1
    OBVIOUS
  <2>5. \A k \in 0 .. m - 1 : h[k] = g[k]
    BY <2>2
  <2>6. h[m] = step[<<g[m - 1], m>>]
    BY <2>2
  <2>7. h = [k \in 0 .. m |-> h[k]]
    BY <2>2
  <2>8. h[0] = base
    BY <2>1, <2>5
  <2>9. \A k \in 1 .. m : h[k] = step[<<h[k - 1], k>>]
    <3>1. ASSUME NEW k \in 1 .. m
          PROVE  h[k - 1] = g[k - 1]
      BY <2>5
    <3>2. ASSUME NEW k \in 1 .. m, k # m
          PROVE  h[k] = g[k] /\ k \in 1 .. m - 1
      BY <2>5, <3>2
    <3> QED
      BY <2>1, <2>6, <3>1, <3>2
  <2>10. \A k \in 0 .. m : h[k] \in holds[k]
    BY <2>1, <2>3, <2>4, <2>5, <2>6
  <2>11. Follows(h, m)
    BY <2>7, <2>8, <2>9, <2>10
  <2> HIDE DEF Follows
  <2> QED
    BY <2>11
<1>3. 0 .. n \subseteq T
  <2> HIDE DEF T
  <2> QED
    BY <1>1, <1>2, LoopInduction
<1>4. PICK g : Follows(g, n)
  BY <1>3
<1>5. \A k \in 0 .. n : g[k] = IF k = 0 THEN base ELSE step[<<g[k - 1], k>>]
  <2>1. \A k \in 0 .. n : k = 0 \/ k \in 1 .. n
    OBVIOUS
  <2> QED
    BY <1>4, <2>1
<1>6. g = [k \in 0 .. n |-> IF k = 0 THEN base ELSE step[<<g[k - 1], k>>]]
  BY <1>4, <1>5
<1> QED
  BY <1>4, <1>6

-----------------------------------------------------------------------------
(***************************************************************************)
(* Conditions of the levels.                                               *)
(***************************************************************************)
\* The value of a field under test, nil or strings, has string s.
Finds(value, s, matchOnNil) == IF value = Nil THEN matchOnNil ELSE s \in value

LEMMA FieldsOfIs ==
    ASSUME NEW f, NEW s
    PROVE  {literal.field : literal \in Is(f, s)} = {f}
  BY DEF Is

LEMMA FieldsOfLevels ==
    /\ FieldsTested({}) = {}
    /\ FieldsTested(InWorkspace) = {"workspaces"}
    /\ \A p : FieldsTested(InProject(p)) = {"workspaces", "projects"}
<1>1. FieldsTested({}) = {}
  BY DEF FieldsTested
<1>2. UNION InWorkspace = Is("workspaces", Workspace)
  BY DEF InWorkspace
<1>3. ASSUME NEW p
      PROVE  FieldsTested(InProject(p)) = {"workspaces", "projects"}
  <2>1. UNION InProject(p) = Is("workspaces", Workspace) \cup Is("projects", p)
    BY DEF InProject, InWorkspace
  <2>2. FieldsTested(InProject(p)) =
            {literal.field : literal \in Is("workspaces", Workspace)} \cup {literal.field : literal \in Is("projects", p)}
    BY <2>1 DEF FieldsTested
  <2>3. {literal.field : literal \in Is("workspaces", Workspace)} = {"workspaces"}
    BY FieldsOfIs
  <2>4. {literal.field : literal \in Is("projects", p)} = {"projects"}
    BY FieldsOfIs
  <2>5. PICK a, b : a = "workspaces" /\ b = "projects"
    OBVIOUS
  <2>6. FieldsTested(InProject(p)) = {a} \cup {b}
    BY <2>2, <2>3, <2>4, <2>5
  <2>7. FieldsTested(InProject(p)) = {a, b}
    BY <2>6
  <2> QED
    BY <2>5, <2>7
<1>4. FieldsTested(InWorkspace) = {literal.field : literal \in Is("workspaces", Workspace)}
  BY <1>2 DEF FieldsTested
<1>5. {literal.field : literal \in Is("workspaces", Workspace)} = {"workspaces"}
  BY FieldsOfIs
<1> QED
  BY <1>1, <1>3, <1>4, <1>5

LEMMA LevelsDiffer ==
    /\ InWorkspace # {}
    /\ \A p : InProject(p) # {} /\ InProject(p) # InWorkspace
    /\ \A p, q : InProject(p) = InProject(q) => p = q
<1>1. ASSUME NEW p, NEW q, InProject(p) = InProject(q)
      PROVE  p = q
  <2>1. Is("projects", p) \in InProject(q)
    BY <1>1 DEF InProject
  <2>2. Is("projects", p) = Is("workspaces", Workspace) \/ Is("projects", p) = Is("projects", q)
    BY <2>1 DEF InProject, InWorkspace
  <2>3. ASSUME NEW f, NEW g, NEW s, NEW t, Is(f, s) = Is(g, t)
        PROVE  f = g /\ s = t
    <3>1. [field |-> f, pattern |-> s, negated |-> FALSE] = [field |-> g, pattern |-> t, negated |-> FALSE]
      BY <2>3 DEF Is
    <3> QED
      BY <3>1
  <2>4. Is("projects", p) # Is("workspaces", Workspace)
    BY <2>3
  <2> QED
    BY <2>2, <2>3, <2>4
<1>2. "workspaces" # "projects"
  OBVIOUS
<1> QED
  BY <1>1, <1>2, FieldsOfLevels

LEMMA MatchesIs ==
    ASSUME NEW f \in ScopeFields, NEW s, NEW values, NEW scope, NEW m \in BOOLEAN
    PROVE  (\E literal \in Is(f, s) : MatchLiteral(literal, values, scope, m)) <=> Finds(scope[f], s, m)
<1>1. PICK literal : literal = [field |-> f, pattern |-> s, negated |-> FALSE]
  OBVIOUS
<1>2. Is(f, s) = {literal}
  BY <1>1 DEF Is
<1>3. literal.field = f /\ literal.pattern = s /\ literal.negated = FALSE
  BY <1>1
<1>4. MatchLiteral(literal, values, scope, m) <=> Finds(scope[f], s, m)
  <2>1. TestValue(literal.field, values, scope) = scope[f]
    BY <1>3 DEF TestValue
  <2>2. MatchLiteral(literal, values, scope, m) = ((IF scope[f] = Nil THEN m ELSE s \in scope[f]) # FALSE)
    BY <1>3, <2>1 DEF MatchLiteral
  <2>3. CASE scope[f] = Nil
    BY <2>2, <2>3 DEF Finds
  <2>4. CASE scope[f] # Nil
    <3>1. (s \in scope[f]) = TRUE \/ (s \in scope[f]) = FALSE
      OBVIOUS
    <3> QED
      BY <2>2, <2>4, <3>1 DEF Finds
  <2> QED
    BY <2>3, <2>4
<1> QED
  BY <1>2, <1>4

\* What the conditions of the levels ask of a scope; the values do not matter to them.
LEMMA MatchesLevel ==
    ASSUME NEW values, NEW scope, NEW m \in BOOLEAN
    PROVE  /\ MatchesValues({}, values, scope, m)
           /\ MatchesValues(InWorkspace, values, scope, m) <=> Finds(scope["workspaces"], Workspace, m)
           /\ \A p : MatchesValues(InProject(p), values, scope, m) <=>
                        /\ Finds(scope["workspaces"], Workspace, m)
                        /\ Finds(scope["projects"], p, m)
<1>1. "workspaces" \in ScopeFields /\ "projects" \in ScopeFields
  BY HierarchyAssumption
<1>2. MatchesValues({}, values, scope, m)
  BY DEF MatchesValues
<1>3. MatchesValues(InWorkspace, values, scope, m) <=> Finds(scope["workspaces"], Workspace, m)
  <2>1. MatchesValues(InWorkspace, values, scope, m) <=>
            \E literal \in Is("workspaces", Workspace) : MatchLiteral(literal, values, scope, m)
    BY DEF MatchesValues, InWorkspace
  <2> QED
    BY <1>1, <2>1, MatchesIs
<1>4. ASSUME NEW p
      PROVE  MatchesValues(InProject(p), values, scope, m) <=>
                        /\ Finds(scope["workspaces"], Workspace, m)
                        /\ Finds(scope["projects"], p, m)
  <2>1. MatchesValues(InProject(p), values, scope, m) <=>
            /\ \E literal \in Is("workspaces", Workspace) : MatchLiteral(literal, values, scope, m)
            /\ \E literal \in Is("projects", p) : MatchLiteral(literal, values, scope, m)
    BY DEF MatchesValues, InProject, InWorkspace
  <2> QED
    BY <1>1, <2>1, MatchesIs
<1> QED
  BY <1>2, <1>3, <1>4

-----------------------------------------------------------------------------
(***************************************************************************)
(* Scopes of the states.                                                   *)
(***************************************************************************)
InW == Scope("workspaces", Workspace)
InP(p) == Scope("projects", p)
InWP(p) == [f \in Fields |-> IF f = "workspaces" THEN {Workspace} ELSE IF f = "projects" THEN {p} ELSE Nil]

LEMMA NotNil ==
    ASSUME NEW s \in Strings
    PROVE  {s} # Nil
  BY FieldsAssumption

LEMMA ScopeFacts ==
    ASSUME NEW g \in {"workspaces", "projects"}, NEW s \in Strings
    PROVE  /\ Scope(g, s) = [f \in Fields |-> IF f = g THEN {s} ELSE Nil]
           /\ Scope(g, s) \in ValueMap
<1>1. g \in Fields
  BY HierarchyAssumption, FieldsAssumption
<1>2. Scope(g, s) = [f \in Fields |-> IF f = g THEN {s} ELSE Nil]
  BY <1>1 DEF Scope, EmptyMap
<1> QED
  BY <1>2 DEF ValueMap, FieldValue

LEMMA Merges ==
    ASSUME NEW p \in Projects
    PROVE  /\ MergeKeys(InP(p), InW) = InWP(p)
           /\ MergeKeys(InW, InP(p)) = InWP(p)
           /\ MergeKeys(InP(p), EmptyMap) = InP(p)
           /\ MergeKeys(InW, EmptyMap) = InW
           /\ InWP(p) \in ValueMap
<1>1. Workspace \in Strings /\ p \in Strings
  BY HierarchyAssumption
<1>2. {Workspace} # Nil /\ {p} # Nil
  BY <1>1, NotNil
<1>3. /\ InW = [f \in Fields |-> IF f = "workspaces" THEN {Workspace} ELSE Nil]
      /\ InP(p) = [f \in Fields |-> IF f = "projects" THEN {p} ELSE Nil]
  BY <1>1, ScopeFacts DEF InW, InP
<1>4. /\ MergeKeys(InP(p), InW) = InWP(p)
      /\ MergeKeys(InW, InP(p)) = InWP(p)
  BY <1>2, <1>3 DEF MergeKeys, InWP
<1>5. /\ MergeKeys(InP(p), EmptyMap) = InP(p)
      /\ MergeKeys(InW, EmptyMap) = InW
  BY <1>2, <1>3 DEF MergeKeys, EmptyMap
<1>6. InWP(p) \in ValueMap
  BY <1>1 DEF InWP, ValueMap, FieldValue
<1> QED
  BY <1>4, <1>5, <1>6

LEMMA CrossOne ==
    ASSUME NEW a, NEW b
    PROVE  CrossScopes(<<a>>, <<b>>) = <<MergeKeys(a, b)>>
<1>1. CrossScopes(<<a>>, <<b>>) = [n \in 1 .. 1 |-> MergeKeys(a, b)]
  BY DEF CrossScopes
<1> QED
  BY <1>1

LEMMA CrossAndOuterOne ==
    ASSUME NEW a, NEW b
    PROVE  CrossScopesAndOuter(<<a>>, <<b>>) = <<MergeKeys(a, b), b>>
<1>1. CrossScopesAndOuter(<<a>>, <<b>>) =
          [n \in 1 .. 2 |-> IF ((n - 1) % 2) + 1 = 2 THEN <<b>>[((n - 1) \div 2) + 1]
                            ELSE MergeKeys(<<a>>[((n - 1) % 2) + 1], <<b>>[((n - 1) \div 2) + 1])]
  BY DEF CrossScopesAndOuter
<1>2. /\ ((1 - 1) % 2) + 1 = 1 /\ ((1 - 1) \div 2) + 1 = 1
      /\ ((2 - 1) % 2) + 1 = 2 /\ ((2 - 1) \div 2) + 1 = 1
  OBVIOUS
<1>3. CrossScopesAndOuter(<<a>>, <<b>>) = [n \in 1 .. 2 |-> IF n = 1 THEN MergeKeys(a, b) ELSE b]
  BY <1>1, <1>2
<1> QED
  BY <1>3

LEMMA CrossAndOuterTwo ==
    ASSUME NEW a, NEW b, NEW c
    PROVE  CrossScopesAndOuter(<<a>>, <<b, c>>) = <<MergeKeys(a, b), b, MergeKeys(a, c), c>>
<1>1. CrossScopesAndOuter(<<a>>, <<b, c>>) =
          [n \in 1 .. 4 |-> IF ((n - 1) % 2) + 1 = 2 THEN <<b, c>>[((n - 1) \div 2) + 1]
                            ELSE MergeKeys(<<a>>[((n - 1) % 2) + 1], <<b, c>>[((n - 1) \div 2) + 1])]
  BY DEF CrossScopesAndOuter
<1>2. /\ ((1 - 1) % 2) + 1 = 1 /\ ((1 - 1) \div 2) + 1 = 1
      /\ ((2 - 1) % 2) + 1 = 2 /\ ((2 - 1) \div 2) + 1 = 1
      /\ ((3 - 1) % 2) + 1 = 1 /\ ((3 - 1) \div 2) + 1 = 2
      /\ ((4 - 1) % 2) + 1 = 2 /\ ((4 - 1) \div 2) + 1 = 2
  OBVIOUS
<1>3. CrossScopesAndOuter(<<a>>, <<b, c>>) =
          [n \in 1 .. 4 |-> IF n = 1 THEN MergeKeys(a, b) ELSE IF n = 2 THEN b
                            ELSE IF n = 3 THEN MergeKeys(a, c) ELSE c]
  BY <1>1, <1>2
<1> QED
  BY <1>3

LEMMA ReceiveOne ==
    ASSUME NEW g \in {"workspaces", "projects"}, NEW s \in Strings, NEW values, values[g] = Nil
    PROVE  ReceiveAllValues(values, <<Scope(g, s)>>) = [f \in Fields |-> IF f = g THEN {s} ELSE values[f]]
<1>1. PICK scope : scope = Scope(g, s)
  OBVIOUS
<1>2. \A f \in Fields : scope[f] = IF f = g THEN {s} ELSE Nil
  BY <1>1, ScopeFacts
<1>3. PICK maps : maps = <<scope>>
  OBVIOUS
<1>4. DOMAIN maps = {1} /\ maps[1] = scope
  BY <1>3
<1>5. ASSUME NEW f \in Fields
      PROVE  (LET given == {k \in DOMAIN maps : maps[k][f] # Nil}
              IN  IF given = {} \/ (f \in StringFields /\ values[f] # Nil)
                  THEN values[f]
                  ELSE IF f \in StringFields
                  THEN maps[CHOOSE k \in given : \A l \in given : k <= l][f]
                  ELSE Held(values[f]) \cup UNION {maps[k][f] : k \in given})
                = IF f = g THEN {s} ELSE values[f]
  <2>1. CASE f = g
    <3>1. maps[1][f] = {s} /\ {s} # Nil
      BY <1>2, <1>4, <2>1, NotNil
    <3>2. {k \in DOMAIN maps : maps[k][f] # Nil} = {1}
      BY <1>4, <3>1
    <3>3. f \notin StringFields
      BY <2>1, HierarchyAssumption
    <3>4. Held(values[f]) = {}
      BY <2>1 DEF Held
    <3>5. UNION {maps[k][f] : k \in {1}} = {s}
      BY <3>1
    <3> QED
      BY <2>1, <3>2, <3>3, <3>4, <3>5
  <2>2. CASE f # g
    <3>1. {k \in DOMAIN maps : maps[k][f] # Nil} = {}
      BY <1>2, <1>4, <2>2
    <3> QED
      BY <2>2, <3>1
  <2> QED
    BY <2>1, <2>2
<1>6. ReceiveAllValues(values, maps) = [f \in Fields |-> IF f = g THEN {s} ELSE values[f]]
  BY <1>5 DEF ReceiveAllValues
<1> QED
  BY <1>1, <1>3, <1>6

LEMMA JoinOne ==
    ASSUME NEW a, NEW b
    PROVE  <<a>> \o <<b>> = <<a, b>>
<1> DEFINE S == {a, b}
<1>1. <<a>> \in Seq(S) /\ Len(<<a>>) = 1 /\ <<a>>[1] = a
  OBVIOUS
<1>2. <<b>> \in Seq(S) /\ Len(<<b>>) = 1 /\ <<b>>[1] = b
  OBVIOUS
<1>3. PICK s : s = <<a>> \o <<b>>
  OBVIOUS
<1>4. s \in Seq(S) /\ Len(s) = 2 /\ s[1] = a /\ s[2] = b
  BY <1>1, <1>2, <1>3, ConcatProperties
<1>5. s = <<a, b>>
  BY <1>4
<1> QED
  BY <1>3, <1>5

LEMMA JoinTwo ==
    ASSUME NEW a, NEW b, NEW c, NEW d
    PROVE  <<a, b>> \o <<c, d>> = <<a, b, c, d>>
<1> DEFINE S == {a, b, c, d}
<1>1. <<a, b>> \in Seq(S) /\ Len(<<a, b>>) = 2 /\ <<a, b>>[1] = a /\ <<a, b>>[2] = b
  OBVIOUS
<1>2. <<c, d>> \in Seq(S) /\ Len(<<c, d>>) = 2 /\ <<c, d>>[1] = c /\ <<c, d>>[2] = d
  OBVIOUS
<1>3. PICK s : s = <<a, b>> \o <<c, d>>
  OBVIOUS
<1>4. s \in Seq(S) /\ Len(s) = 4 /\ s[1] = a /\ s[2] = b /\ s[3] = c /\ s[4] = d
  BY <1>1, <1>2, <1>3, ConcatProperties
<1>5. s = <<a, b, c, d>>
  BY <1>4
<1> QED
  BY <1>3, <1>5

LEMMA RootShape ==
    RootState = [initialValues |-> EmptyMap, localScopes |-> <<EmptyMap>>,
                 targetScopes |-> <<EmptyMap>>, globalScopes |-> <<EmptyMap>>]
  BY DEF RootState, NewState

LEMMA WorkspaceShape ==
    WorkspaceState = [initialValues |-> InW, localScopes |-> <<InW>>,
                      targetScopes |-> <<InW>>, globalScopes |-> <<InW, EmptyMap>>]
<1>1. Workspace \in Strings
  BY HierarchyAssumption
<1>2. MergeKeys(InW, EmptyMap) = InW
  <2>1. InW = [f \in Fields |-> IF f = "workspaces" THEN {Workspace} ELSE Nil]
    BY <1>1, ScopeFacts DEF InW
  <2> QED
    BY <2>1 DEF MergeKeys, EmptyMap
<1>3. ReceiveAllValues(EmptyMap, <<InW>>) = InW
  <2>1. "workspaces" \in Fields
    BY HierarchyAssumption, FieldsAssumption
  <2>2. EmptyMap["workspaces"] = Nil
    BY <2>1 DEF EmptyMap
  <2>3. ReceiveAllValues(EmptyMap, <<InW>>) = [f \in Fields |-> IF f = "workspaces" THEN {Workspace} ELSE EmptyMap[f]]
    BY <1>1, <2>2, ReceiveOne DEF InW
  <2>4. InW = [f \in Fields |-> IF f = "workspaces" THEN {Workspace} ELSE Nil]
    BY <1>1, ScopeFacts DEF InW
  <2> QED
    BY <2>3, <2>4 DEF EmptyMap
<1>4. CrossScopes(<<InW>>, <<EmptyMap>>) = <<InW>>
  BY <1>2, CrossOne
<1>5. CrossScopesAndOuter(<<InW>>, <<EmptyMap>>) = <<InW, EmptyMap>>
  BY <1>2, CrossAndOuterOne
<1>6. WorkspaceState = SelectScopes(RootState, <<InW>>)
  BY DEF WorkspaceState, Select, InW
<1> HIDE DEF InW
<1> QED
  BY <1>3, <1>4, <1>5, <1>6, RootShape DEF SelectScopes

LEMMA ProjectShape ==
    ASSUME NEW p \in Projects
    PROVE  ProjectState(p) = [initialValues |-> InWP(p), localScopes |-> <<InP(p)>>,
                              targetScopes |-> <<InWP(p)>>,
                              globalScopes |-> <<InWP(p), InW, InP(p), EmptyMap>>]
<1>1. Workspace \in Strings /\ p \in Strings
  BY HierarchyAssumption
<1>2. ReceiveAllValues(InW, <<InP(p)>>) = InWP(p)
  <2>1. "projects" \in Fields
    BY HierarchyAssumption, FieldsAssumption
  <2>2. InW = [f \in Fields |-> IF f = "workspaces" THEN {Workspace} ELSE Nil]
    BY <1>1, ScopeFacts DEF InW
  <2>3. InW["projects"] = Nil
    BY <2>1, <2>2
  <2>4. ReceiveAllValues(InW, <<InP(p)>>) = [f \in Fields |-> IF f = "projects" THEN {p} ELSE InW[f]]
    BY <1>1, <2>3, ReceiveOne DEF InP
  <2> QED
    BY <2>2, <2>4 DEF InWP
<1>3. CrossScopes(<<InP(p)>>, <<InW>>) = <<InWP(p)>>
  BY Merges, CrossOne
<1>4. CrossScopesAndOuter(<<InP(p)>>, <<InW, EmptyMap>>) = <<InWP(p), InW, InP(p), EmptyMap>>
  BY Merges, CrossAndOuterTwo
<1>5. ProjectState(p) = SelectScopes(WorkspaceState, <<InP(p)>>)
  BY DEF ProjectState, Select, InP
<1> HIDE DEF InP, InW, InWP
<1> QED
  BY <1>2, <1>3, <1>4, <1>5, WorkspaceShape DEF SelectScopes

LEMMA InheritingWorkspaceShape ==
    InheritingWorkspace = [initialValues |-> InW, localScopes |-> <<InW>>,
                           targetScopes |-> <<InW, EmptyMap>>, globalScopes |-> <<InW, EmptyMap>>]
<1>1. <<InW>> \o <<EmptyMap>> = <<InW, EmptyMap>>
  BY JoinOne
<1> HIDE DEF InW
<1> QED
  BY <1>1, RootShape, WorkspaceShape DEF InheritingWorkspace, InheritFrom

LEMMA InheritingProjectShape ==
    ASSUME NEW p \in Projects
    PROVE  InheritingProject(p) = [initialValues |-> InWP(p), localScopes |-> <<InP(p)>>,
                                   targetScopes |-> <<InWP(p), InP(p), InW, EmptyMap>>,
                                   globalScopes |-> <<InWP(p), InW, InP(p), EmptyMap>>]
<1>1. CrossScopes(<<InP(p)>>, <<EmptyMap>>) = <<InP(p)>>
  BY Merges, CrossOne
<1>4. PICK own : own = ProjectState(p)
  OBVIOUS
<1>5. own = [initialValues |-> InWP(p), localScopes |-> <<InP(p)>>,
             targetScopes |-> <<InWP(p)>>,
             globalScopes |-> <<InWP(p), InW, InP(p), EmptyMap>>]
  BY <1>4, ProjectShape
<1>6. <<InWP(p)>> \o <<InP(p)>> = <<InWP(p), InP(p)>>
  BY JoinOne
<1>2. FromScopes(own, RootState) =
          [initialValues |-> InWP(p), localScopes |-> <<InP(p)>>,
           targetScopes |-> <<InWP(p), InP(p)>>,
           globalScopes |-> <<InWP(p), InW, InP(p), EmptyMap>>]
  <2>1. RootState.targetScopes = <<EmptyMap>> /\ own.localScopes = <<InP(p)>> /\ own.targetScopes = <<InWP(p)>>
    BY <1>5, RootShape
  <2>2. PICK joined : joined = own.targetScopes \o CrossScopes(own.localScopes, RootState.targetScopes)
    OBVIOUS
  <2>3. joined = <<InWP(p), InP(p)>>
    <3>1. own.targetScopes \o CrossScopes(own.localScopes, RootState.targetScopes) = <<InWP(p)>> \o <<InP(p)>>
      BY <1>1, <2>1, Zenon
    <3> QED
      BY <1>6, <2>2, <3>1, Zenon
  <2>4. FromScopes(own, RootState) = [own EXCEPT !.targetScopes = joined]
    BY <2>2, Zenon DEF FromScopes
  <2> HIDE DEF InP, InW, InWP
  <2> QED
    BY <1>5, <2>3, <2>4
<1>3. <<InWP(p), InP(p)>> \o <<InW, EmptyMap>> = <<InWP(p), InP(p), InW, EmptyMap>>
  BY JoinTwo
<1>7. InheritingWorkspace.targetScopes = <<InW, EmptyMap>>
  BY InheritingWorkspaceShape
<1>8. PICK wide : wide = FromScopes(own, RootState)
  OBVIOUS
<1>9. PICK joined : joined = wide.targetScopes \o InheritingWorkspace.targetScopes
  OBVIOUS
<1>10. wide.targetScopes = <<InWP(p), InP(p)>>
  <2> HIDE DEF InP, InW, InWP
  <2> QED
    BY <1>2, <1>8
<1>11. joined = <<InWP(p), InP(p), InW, EmptyMap>>
  <2>1. wide.targetScopes \o InheritingWorkspace.targetScopes = <<InWP(p), InP(p)>> \o <<InW, EmptyMap>>
    BY <1>7, <1>10, Zenon
  <2> QED
    BY <1>3, <1>9, <2>1, Zenon
<1>12. InheritingProject(p) = [wide EXCEPT !.targetScopes = joined]
  BY <1>4, <1>8, <1>9, Zenon DEF InheritingProject, InheritFrom
<1> HIDE DEF InP, InW, InWP
<1> QED
  BY <1>2, <1>8, <1>11, <1>12

-----------------------------------------------------------------------------
(***************************************************************************)
(* What becomes of a block is a matter of its level.                       *)
(***************************************************************************)
Suits(condition, values, scope, matchOnNil) ==
    TestsScope(condition, scope) /\ MatchesValues(condition, values, scope, matchOnNil)

LEMMA InLevels ==
    /\ {} \in Levels /\ InWorkspace \in Levels
    /\ \A p \in Projects : InProject(p) \in Levels
    /\ \A c \in Levels : c = {} \/ c = InWorkspace \/ \E p \in Projects : c = InProject(p)
  BY DEF Levels

LEMMA ScopeValues ==
    ASSUME NEW p \in Strings
    PROVE  /\ EmptyMap["workspaces"] = Nil /\ EmptyMap["projects"] = Nil
           /\ InW["workspaces"] = {Workspace} /\ InW["projects"] = Nil
           /\ InP(p)["workspaces"] = Nil /\ InP(p)["projects"] = {p}
           /\ InWP(p)["workspaces"] = {Workspace} /\ InWP(p)["projects"] = {p}
           /\ {Workspace} # Nil /\ {p} # Nil
           /\ \A f \in Fields : f \notin {"workspaces", "projects"} =>
                 EmptyMap[f] = Nil /\ InW[f] = Nil /\ InP(p)[f] = Nil /\ InWP(p)[f] = Nil
<1>1. Workspace \in Strings
  BY HierarchyAssumption
<1>2. "workspaces" \in Fields /\ "projects" \in Fields
  BY HierarchyAssumption, FieldsAssumption
<1>3. /\ InW = [f \in Fields |-> IF f = "workspaces" THEN {Workspace} ELSE Nil]
      /\ InP(p) = [f \in Fields |-> IF f = "projects" THEN {p} ELSE Nil]
  BY <1>1, ScopeFacts DEF InW, InP
<1>4. {Workspace} # Nil /\ {p} # Nil
  BY <1>1, NotNil
<1> QED
  BY <1>2, <1>3, <1>4 DEF EmptyMap, InWP

LEMMA TestsOfScopes ==
    ASSUME NEW c, NEW p \in Strings
    PROVE  /\ TestsScope(c, EmptyMap)
           /\ TestsScope(c, InW) <=> "workspaces" \in FieldsTested(c)
           /\ TestsScope(c, InP(p)) <=> "projects" \in FieldsTested(c)
           /\ TestsScope(c, InWP(p)) <=> "workspaces" \in FieldsTested(c) /\ "projects" \in FieldsTested(c)
<1>1. "workspaces" \in Fields /\ "projects" \in Fields
  BY HierarchyAssumption, FieldsAssumption
<1> HIDE DEF InW, InP, InWP
<1> QED
  BY <1>1, ScopeValues DEF TestsScope

LEMMA SuitsLevel ==
    ASSUME NEW c \in Levels, NEW values, NEW p \in Strings
    PROVE  /\ Suits(c, values, EmptyMap, NIL_MATCHES_NONE) <=> c = {}
           /\ Suits(c, values, InW, NIL_MATCHES_NONE) <=> c = InWorkspace
           /\ ~Suits(c, values, InP(p), NIL_MATCHES_NONE)
           /\ Suits(c, values, InWP(p), NIL_MATCHES_NONE) <=> c = InProject(p)
           /\ Suits(c, values, EmptyMap, NIL_MATCHES_ANY)
           /\ Suits(c, values, InW, NIL_MATCHES_ANY) <=> c # {}
           /\ Suits(c, values, InP(p), NIL_MATCHES_ANY) <=> c = InProject(p)
           /\ Suits(c, values, InWP(p), NIL_MATCHES_ANY) <=> c = InProject(p)
<1> DEFINE Scopes == {EmptyMap, InW, InP(p), InWP(p)}
<1>1. NIL_MATCHES_NONE = FALSE /\ NIL_MATCHES_ANY = TRUE
  BY DEF NIL_MATCHES_NONE, NIL_MATCHES_ANY
<1>2. CASE c = {}
  <2>1. FieldsTested(c) = {}
    BY <1>2, FieldsOfLevels
  <2>2. ASSUME NEW scope, NEW m \in BOOLEAN
        PROVE  MatchesValues(c, values, scope, m)
    BY <1>2, MatchesLevel
  <2>3. c # InWorkspace /\ c # InProject(p)
    BY <1>2, LevelsDiffer
  <2>4. TestsScope(c, EmptyMap) /\ ~TestsScope(c, InW) /\ ~TestsScope(c, InP(p)) /\ ~TestsScope(c, InWP(p))
    BY <2>1, TestsOfScopes
  <2>5. MatchesValues(c, values, EmptyMap, NIL_MATCHES_NONE) /\ MatchesValues(c, values, EmptyMap, NIL_MATCHES_ANY)
    BY <1>1, <2>2
  <2> QED
    BY <1>2, <2>3, <2>4, <2>5, Zenon DEF Suits
<1>3. CASE c = InWorkspace
  <2>1. FieldsTested(c) = {"workspaces"}
    BY <1>3, FieldsOfLevels
  <2>2. ASSUME NEW scope, NEW m \in BOOLEAN
        PROVE  MatchesValues(c, values, scope, m) <=> Finds(scope["workspaces"], Workspace, m)
    BY <1>3, MatchesLevel
  <2>3. c # {} /\ c # InProject(p)
    BY <1>3, LevelsDiffer
  <2>4. TestsScope(c, EmptyMap) /\ TestsScope(c, InW) /\ ~TestsScope(c, InP(p)) /\ ~TestsScope(c, InWP(p))
    BY <2>1, TestsOfScopes
  <2>5. /\ ~MatchesValues(c, values, EmptyMap, NIL_MATCHES_NONE) /\ MatchesValues(c, values, EmptyMap, NIL_MATCHES_ANY)
        /\ MatchesValues(c, values, InW, NIL_MATCHES_NONE) /\ MatchesValues(c, values, InW, NIL_MATCHES_ANY)
    <3>1. /\ ~Finds(EmptyMap["workspaces"], Workspace, FALSE) /\ Finds(EmptyMap["workspaces"], Workspace, TRUE)
          /\ Finds(InW["workspaces"], Workspace, FALSE) /\ Finds(InW["workspaces"], Workspace, TRUE)
      BY ScopeValues DEF Finds
    <3> QED
      BY <2>2, <3>1 DEF NIL_MATCHES_NONE, NIL_MATCHES_ANY
  <2> QED
    BY <1>3, <2>3, <2>4, <2>5, Zenon DEF Suits
<1>4. CASE \E q \in Projects : c = InProject(q)
  <2>1. PICK q \in Projects : c = InProject(q)
    BY <1>4
  <2>2. FieldsTested(c) = {"workspaces", "projects"}
    BY <2>1, FieldsOfLevels
  <2>3. ASSUME NEW scope, NEW m \in BOOLEAN
        PROVE  MatchesValues(c, values, scope, m) <=>
                   Finds(scope["workspaces"], Workspace, m) /\ Finds(scope["projects"], q, m)
    BY <2>1, MatchesLevel
  <2>4. c # {} /\ c # InWorkspace /\ (c = InProject(p) <=> q = p)
    BY <2>1, LevelsDiffer
  <2>5. TestsScope(c, EmptyMap) /\ TestsScope(c, InW) /\ TestsScope(c, InP(p)) /\ TestsScope(c, InWP(p))
    BY <2>2, TestsOfScopes
  <2>6. /\ ~MatchesValues(c, values, EmptyMap, NIL_MATCHES_NONE)
        /\ ~MatchesValues(c, values, InW, NIL_MATCHES_NONE)
        /\ ~MatchesValues(c, values, InP(p), NIL_MATCHES_NONE)
        /\ MatchesValues(c, values, InWP(p), NIL_MATCHES_NONE) <=> q = p
    <3>1. /\ ~Finds(EmptyMap["workspaces"], Workspace, FALSE)
          /\ ~Finds(InW["projects"], q, FALSE)
          /\ ~Finds(InP(p)["workspaces"], Workspace, FALSE)
          /\ Finds(InWP(p)["workspaces"], Workspace, FALSE)
          /\ Finds(InWP(p)["projects"], q, FALSE) <=> q = p
      BY ScopeValues DEF Finds
    <3> QED
      BY <2>3, <3>1 DEF NIL_MATCHES_NONE
  <2>7. /\ MatchesValues(c, values, EmptyMap, NIL_MATCHES_ANY)
        /\ MatchesValues(c, values, InW, NIL_MATCHES_ANY)
        /\ MatchesValues(c, values, InP(p), NIL_MATCHES_ANY) <=> q = p
        /\ MatchesValues(c, values, InWP(p), NIL_MATCHES_ANY) <=> q = p
    <3>1. /\ Finds(EmptyMap["workspaces"], Workspace, TRUE) /\ Finds(EmptyMap["projects"], q, TRUE)
          /\ Finds(InW["workspaces"], Workspace, TRUE) /\ Finds(InW["projects"], q, TRUE)
          /\ Finds(InP(p)["workspaces"], Workspace, TRUE) /\ (Finds(InP(p)["projects"], q, TRUE) <=> q = p)
          /\ Finds(InWP(p)["workspaces"], Workspace, TRUE) /\ (Finds(InWP(p)["projects"], q, TRUE) <=> q = p)
      BY ScopeValues DEF Finds
    <3> QED
      BY <2>3, <3>1 DEF NIL_MATCHES_ANY
  <2> QED
    BY <2>4, <2>5, <2>6, <2>7, Zenon DEF Suits
<1> QED
  BY <1>2, <1>3, <1>4, InLevels

LEMMA MatchingSuits ==
    ASSUME NEW c, NEW values, NEW scopes, NEW m
    PROVE  MatchingScopes(c, values, scopes, m) = {k \in DOMAIN scopes : Suits(c, values, scopes[k], m)}
  BY DEF MatchingScopes, Suits

\* The first of the matching scopes is the state's own, or it is not.
LEMMA FirstOfMatching ==
    ASSUME NEW n \in Nat, NEW matching, matching \subseteq 1 .. n, matching # {}
    PROVE  FirstMatch(matching) <= 1 <=> 1 \in matching
<1>1. matching \subseteq Nat
  OBVIOUS
<1>2. PICK k \in matching : \A l \in matching : k <= l
  BY <1>1, LeastMember
<1>3. FirstMatch(matching) \in matching /\ \A l \in matching : FirstMatch(matching) <= l
  BY <1>2 DEF FirstMatch
<1>4. FirstMatch(matching) \in 1 .. n
  BY <1>3
<1> QED
  BY <1>3, <1>4

\* Conditions of the levels that enclose the state: what is added there is global.
EnclosingLevels(name) ==
    IF name[1] = "root" THEN {{}}
    ELSE IF name[1] \in {"workspace", "inheritingWorkspace"} THEN {{}, InWorkspace}
    ELSE {{}, InWorkspace, InProject(name[2])}

\* Those of the blocks that add to the state itself.
AddingLevels(name) ==
    IF name[1] = "workspace" THEN {InWorkspace}
    ELSE IF name[1] = "project" THEN {InProject(name[2])}
    ELSE EnclosingLevels(name)

\* Those of the blocks that remove from something the state is made of, and of those
\* that remove from the state itself.
ReachingLevels(name) ==
    IF name[1] = "workspace" THEN Levels \ {{}}
    ELSE IF name[1] = "project" THEN {InProject(name[2])}
    ELSE Levels

LocalLevels(name) ==
    IF name[1] = "root" THEN Levels
    ELSE IF name[1] \in {"workspace", "inheritingWorkspace"} THEN Levels \ {{}}
    ELSE {InProject(name[2])}

LEMMA NameKinds ==
    ASSUME NEW name \in StateNames
    PROVE  \/ name[1] = "root" /\ StateOf(name) = RootState
           \/ name[1] = "workspace" /\ StateOf(name) = WorkspaceState
           \/ name[1] = "inheritingWorkspace" /\ StateOf(name) = InheritingWorkspace
           \/ name[1] = "project" /\ name[2] \in Projects /\ StateOf(name) = ProjectState(name[2])
           \/ name[1] = "inheritingProject" /\ name[2] \in Projects /\ StateOf(name) = InheritingProject(name[2])
<1>1. \/ name[1] \in {"root", "workspace", "inheritingWorkspace"}
      \/ name[1] \in {"project", "inheritingProject"} /\ name[2] \in Projects
  BY DEF StateNames
<1> QED
  BY <1>1 DEF StateOf

\* What MatchingScopes says of the scopes of a state: the levels that match, and whether it is
\* the first scope, the state's own, that does.
LevelsOf(scopes, c, values, m, levels) ==
    MatchingScopes(c, values, scopes, m) # {} <=> c \in levels

OwnLevels(scopes, c, values, levels) ==
    1 \in MatchingScopes(c, values, scopes, NIL_MATCHES_ANY) <=> c \in levels

LEMMA MatchOne ==
    ASSUME NEW c, NEW values, NEW a, NEW m
    PROVE  /\ MatchingScopes(c, values, <<a>>, m) # {} <=> Suits(c, values, a, m)
           /\ 1 \in MatchingScopes(c, values, <<a>>, m) <=> Suits(c, values, a, m)
<1>1. PICK scopes : scopes = <<a>>
  OBVIOUS
<1>2. DOMAIN scopes = {1} /\ scopes[1] = a
  BY <1>1
<1>3. MatchingScopes(c, values, scopes, m) = {k \in {1} : Suits(c, values, scopes[k], m)}
  BY <1>2, MatchingSuits
<1>4. MatchingScopes(c, values, scopes, m) # {} <=> Suits(c, values, a, m)
  BY <1>2, <1>3
<1>5. 1 \in MatchingScopes(c, values, scopes, m) <=> Suits(c, values, a, m)
  BY <1>2, <1>3
<1> QED
  BY <1>1, <1>4, <1>5

LEMMA MatchTwo ==
    ASSUME NEW c, NEW values, NEW a, NEW b, NEW m
    PROVE  /\ MatchingScopes(c, values, <<a, b>>, m) # {} <=> Suits(c, values, a, m) \/ Suits(c, values, b, m)
           /\ 1 \in MatchingScopes(c, values, <<a, b>>, m) <=> Suits(c, values, a, m)
<1>1. PICK scopes : scopes = <<a, b>>
  OBVIOUS
<1>2. DOMAIN scopes = {1, 2} /\ scopes[1] = a /\ scopes[2] = b
  BY <1>1
<1>3. MatchingScopes(c, values, scopes, m) = {k \in {1, 2} : Suits(c, values, scopes[k], m)}
  BY <1>2, MatchingSuits
<1>4. MatchingScopes(c, values, scopes, m) # {} <=> Suits(c, values, a, m) \/ Suits(c, values, b, m)
  BY <1>2, <1>3
<1>5. 1 \in MatchingScopes(c, values, scopes, m) <=> Suits(c, values, a, m)
  BY <1>2, <1>3
<1> QED
  BY <1>1, <1>4, <1>5

LEMMA MatchFour ==
    ASSUME NEW c, NEW values, NEW a, NEW b, NEW d, NEW e, NEW m
    PROVE  /\ MatchingScopes(c, values, <<a, b, d, e>>, m) # {} <=>
                  \/ Suits(c, values, a, m) \/ Suits(c, values, b, m)
                  \/ Suits(c, values, d, m) \/ Suits(c, values, e, m)
           /\ 1 \in MatchingScopes(c, values, <<a, b, d, e>>, m) <=> Suits(c, values, a, m)
<1>1. PICK scopes : scopes = <<a, b, d, e>>
  OBVIOUS
<1>2. DOMAIN scopes = {1, 2, 3, 4} /\ scopes[1] = a /\ scopes[2] = b /\ scopes[3] = d /\ scopes[4] = e
  BY <1>1
<1>3. MatchingScopes(c, values, scopes, m) = {k \in {1, 2, 3, 4} : Suits(c, values, scopes[k], m)}
  BY <1>2, MatchingSuits
<1>4. MatchingScopes(c, values, scopes, m) # {} <=>
          \/ Suits(c, values, a, m) \/ Suits(c, values, b, m) \/ Suits(c, values, d, m) \/ Suits(c, values, e, m)
  BY <1>2, <1>3
<1>5. 1 \in MatchingScopes(c, values, scopes, m) <=> Suits(c, values, a, m)
  BY <1>2, <1>3
<1> QED
  BY <1>1, <1>4, <1>5

LEMMA LevelsDecide ==
    ASSUME NEW name \in StateNames, NEW c \in Levels, NEW values
    PROVE  /\ LevelsOf(StateOf(name).globalScopes, c, values, NIL_MATCHES_NONE, EnclosingLevels(name))
           /\ LevelsOf(StateOf(name).targetScopes, c, values, NIL_MATCHES_NONE, AddingLevels(name))
           /\ LevelsOf(StateOf(name).targetScopes, c, values, NIL_MATCHES_ANY, ReachingLevels(name))
           /\ OwnLevels(StateOf(name).targetScopes, c, values, LocalLevels(name))
           /\ Len(StateOf(name).localScopes) = 1
<1> USE DEF LevelsOf, OwnLevels
<1>1. Workspace \in Strings /\ Projects \subseteq Strings
  BY HierarchyAssumption
<1>2. /\ Suits(c, values, EmptyMap, NIL_MATCHES_NONE) <=> c = {}
      /\ Suits(c, values, InW, NIL_MATCHES_NONE) <=> c = InWorkspace
      /\ Suits(c, values, EmptyMap, NIL_MATCHES_ANY)
      /\ Suits(c, values, InW, NIL_MATCHES_ANY) <=> c # {}
  BY <1>1, SuitsLevel
<1>3. ASSUME NEW p \in Projects
      PROVE  /\ ~Suits(c, values, InP(p), NIL_MATCHES_NONE)
             /\ Suits(c, values, InWP(p), NIL_MATCHES_NONE) <=> c = InProject(p)
             /\ Suits(c, values, InP(p), NIL_MATCHES_ANY) <=> c = InProject(p)
             /\ Suits(c, values, InWP(p), NIL_MATCHES_ANY) <=> c = InProject(p)
  BY <1>1, SuitsLevel
<1>4. CASE name[1] = "root" /\ StateOf(name) = RootState
  <2>1. /\ StateOf(name).globalScopes = <<EmptyMap>>
        /\ StateOf(name).targetScopes = <<EmptyMap>>
        /\ StateOf(name).localScopes = <<EmptyMap>>
    BY <1>4, RootShape
  <2>2. Len(<<EmptyMap>>) = 1
    OBVIOUS
  <2>3. /\ EnclosingLevels(name) = {{}} /\ AddingLevels(name) = {{}}
        /\ ReachingLevels(name) = Levels /\ LocalLevels(name) = Levels
    BY <1>4 DEF EnclosingLevels, AddingLevels, ReachingLevels, LocalLevels
  <2> QED
    BY <1>2, <2>1, <2>2, <2>3, MatchOne
<1>5. CASE name[1] = "workspace" /\ StateOf(name) = WorkspaceState
  <2>1. /\ StateOf(name).globalScopes = <<InW, EmptyMap>>
        /\ StateOf(name).targetScopes = <<InW>>
        /\ StateOf(name).localScopes = <<InW>>
    BY <1>5, WorkspaceShape
  <2>2. Len(<<InW>>) = 1
    OBVIOUS
  <2>3. /\ EnclosingLevels(name) = {{}, InWorkspace} /\ AddingLevels(name) = {InWorkspace}
        /\ ReachingLevels(name) = Levels \ {{}} /\ LocalLevels(name) = Levels \ {{}}
    BY <1>5 DEF EnclosingLevels, AddingLevels, ReachingLevels, LocalLevels
  <2> QED
    BY <1>2, <2>1, <2>2, <2>3, MatchOne, MatchTwo
<1>6. CASE name[1] = "inheritingWorkspace" /\ StateOf(name) = InheritingWorkspace
  <2>1. /\ StateOf(name).globalScopes = <<InW, EmptyMap>>
        /\ StateOf(name).targetScopes = <<InW, EmptyMap>>
        /\ StateOf(name).localScopes = <<InW>>
    BY <1>6, InheritingWorkspaceShape
  <2>2. Len(<<InW>>) = 1
    OBVIOUS
  <2>3. /\ EnclosingLevels(name) = {{}, InWorkspace} /\ AddingLevels(name) = {{}, InWorkspace}
        /\ ReachingLevels(name) = Levels /\ LocalLevels(name) = Levels \ {{}}
    BY <1>6 DEF EnclosingLevels, AddingLevels, ReachingLevels, LocalLevels
  <2> QED
    BY <1>2, <2>1, <2>2, <2>3, MatchTwo
<1>7. CASE name[1] = "project" /\ name[2] \in Projects /\ StateOf(name) = ProjectState(name[2])
  <2>1. PICK p \in Projects : p = name[2]
    BY <1>7
  <2>2. /\ StateOf(name).globalScopes = <<InWP(p), InW, InP(p), EmptyMap>>
        /\ StateOf(name).targetScopes = <<InWP(p)>>
        /\ StateOf(name).localScopes = <<InP(p)>>
    BY <1>7, <2>1, ProjectShape
  <2>3. Len(<<InP(p)>>) = 1
    OBVIOUS
  <2>4. /\ EnclosingLevels(name) = {{}, InWorkspace, InProject(p)} /\ AddingLevels(name) = {InProject(p)}
        /\ ReachingLevels(name) = {InProject(p)} /\ LocalLevels(name) = {InProject(p)}
    BY <1>7, <2>1 DEF EnclosingLevels, AddingLevels, ReachingLevels, LocalLevels
  <2> QED
    BY <1>2, <1>3, <2>2, <2>3, <2>4, MatchOne, MatchFour
<1>8. CASE name[1] = "inheritingProject" /\ name[2] \in Projects /\ StateOf(name) = InheritingProject(name[2])
  <2>1. PICK p \in Projects : p = name[2]
    BY <1>8
  <2>2. /\ StateOf(name).globalScopes = <<InWP(p), InW, InP(p), EmptyMap>>
        /\ StateOf(name).targetScopes = <<InWP(p), InP(p), InW, EmptyMap>>
        /\ StateOf(name).localScopes = <<InP(p)>>
    BY <1>8, <2>1, InheritingProjectShape
  <2>3. Len(<<InP(p)>>) = 1
    OBVIOUS
  <2>4. /\ EnclosingLevels(name) = {{}, InWorkspace, InProject(p)}
        /\ AddingLevels(name) = {{}, InWorkspace, InProject(p)}
        /\ ReachingLevels(name) = Levels /\ LocalLevels(name) = {InProject(p)}
    BY <1>8, <2>1 DEF EnclosingLevels, AddingLevels, ReachingLevels, LocalLevels
  <2> QED
    BY <1>2, <1>3, <2>2, <2>3, <2>4, MatchFour
<1> QED
  BY <1>4, <1>5, <1>6, <1>7, <1>8, NameKinds

-----------------------------------------------------------------------------
(***************************************************************************)
(* The verdict on a block.                                                 *)
(***************************************************************************)
\* Nothing the global values hold conflicts with the workspace, or with the condition c.
WorkspaceFits == globalValues["workspaces"] = Nil \/ Workspace \in globalValues["workspaces"]

Open(c) == \A p \in Projects : c = InProject(p) => Finds(globalValues["projects"], p, TRUE)

\* A block that adds, once it is decided.
AddVerdict(name, c) ==
    IF c \in EnclosingLevels(name) THEN <<ADD, IF c \in AddingLevels(name) THEN ADD ELSE UNKNOWN>>
    ELSE <<UNKNOWN, UNKNOWN>>

\* Only a project has siblings to restore from.
Restores(name, c) == c \notin ReachingLevels(name) /\ c \notin EnclosingLevels(name)

\* What is written down for a removal when it is decided.
Settled(name, c) ==
    IF c \in ReachingLevels(name) THEN <<REMOVE, IF c \in LocalLevels(name) THEN REMOVE ELSE OUT_OF_SCOPE>>
    ELSE IF c \in EnclosingLevels(name) THEN <<OUT_OF_SCOPE, REMOVE>>
    ELSE <<REMOVE, OUT_OF_SCOPE>>

RemoveVerdict(name, c) == IF Restores(name, c) THEN <<REMOVE, ADD>> ELSE Settled(name, c)

LEMMA RestoresForProjects ==
    ASSUME NEW name \in StateNames, NEW c \in Levels, Restores(name, c)
    PROVE  name[1] = "project" /\ name[2] \in Projects
<1>1. name[1] # "root" /\ name[1] # "inheritingProject" /\ name[1] # "inheritingWorkspace"
  BY DEF Restores, ReachingLevels
<1>2. name[1] # "workspace"
  BY DEF Restores, ReachingLevels, EnclosingLevels
<1> QED
  BY <1>1, <1>2, NameKinds

LEMMA QueryFields ==
    ASSUME NEW self, NEW blocks
    PROVE  /\ QueryOf(self, blocks).blocks = blocks
           /\ QueryOf(self, blocks).initialValues = self.initialValues
           /\ QueryOf(self, blocks).localScopes = self.localScopes
           /\ QueryOf(self, blocks).targetScopes = self.targetScopes
           /\ QueryOf(self, blocks).globalScopes = self.globalScopes
           /\ QueryOf(self, blocks).fieldsTested = UNION {FieldsTested(blocks[k].condition) : k \in DOMAIN blocks}
  BY DEF QueryOf

LEMMA CompatibleOpen ==
    ASSUME NEW block, block.condition \in Levels, WorkspaceFits
    PROVE  CompatibleWithGlobal(block) <=> Open(block.condition)
<1> DEFINE c == block.condition
<1>1. CompatibleWithGlobal(block) <=> MatchesValues(c, globalValues, globalValues, TRUE)
  BY DEF CompatibleWithGlobal, NIL_MATCHES_ANY
<1>2. Finds(globalValues["workspaces"], Workspace, TRUE)
  BY DEF WorkspaceFits, Finds
<1>3. CASE c = {}
  <2>1. \A p : c # InProject(p)
    BY <1>3, LevelsDiffer
  <2>2. MatchesValues(c, globalValues, globalValues, TRUE)
    BY <1>3, MatchesLevel
  <2> QED
    BY <1>1, <2>1, <2>2 DEF Open
<1>4. CASE c = InWorkspace
  <2>1. \A p : c # InProject(p)
    BY <1>4, LevelsDiffer
  <2>2. MatchesValues(c, globalValues, globalValues, TRUE)
    BY <1>2, <1>4, MatchesLevel
  <2> QED
    BY <1>1, <2>1, <2>2 DEF Open
<1>5. CASE \E p \in Projects : c = InProject(p)
  <2>1. PICK p \in Projects : c = InProject(p)
    BY <1>5
  <2>2. MatchesValues(c, globalValues, globalValues, TRUE) <=> Finds(globalValues["projects"], p, TRUE)
    BY <1>2, <2>1, MatchesLevel
  <2>3. \A q \in Projects : c = InProject(q) => q = p
    BY <2>1, LevelsDiffer
  <2> QED
    BY <1>1, <2>1, <2>2, <2>3 DEF Open
<1> QED
  BY <1>3, <1>4, <1>5, InLevels

LEMMA Verdicts ==
    ASSUME NEW name \in StateNames, query = QueryOf(StateOf(name), script), WorkspaceFits,
           NEW block, block.condition \in Levels
    PROVE  /\ block.operation = ADD => TestBlock(block) = AddVerdict(name, block.condition)
           /\ block.operation # ADD =>
                 TestBlock(block) = IF Open(block.condition) THEN RemoveVerdict(name, block.condition)
                                    ELSE <<UNKNOWN, UNKNOWN>>
<1> DEFINE c == block.condition
<1>1. /\ query.localScopes = StateOf(name).localScopes
      /\ query.targetScopes = StateOf(name).targetScopes
      /\ query.globalScopes = StateOf(name).globalScopes
  BY QueryFields
<1>2. InGlobalScope(block) <=> c \in EnclosingLevels(name)
  BY <1>1, LevelsDecide DEF InGlobalScope, LevelsOf
<1>3. InTargetScope(block) <=> c \in AddingLevels(name)
  BY <1>1, LevelsDecide DEF InTargetScope, LevelsOf
<1>4. CompatibleTargetScopes(block) # {} <=> c \in ReachingLevels(name)
  BY <1>1, LevelsDecide DEF CompatibleTargetScopes, LevelsOf
<1>5. CompatibleTargetScopes(block) # {} => (MatchesLocalScope(block) <=> c \in LocalLevels(name))
  <2> SUFFICES ASSUME CompatibleTargetScopes(block) # {}
               PROVE  MatchesLocalScope(block) <=> c \in LocalLevels(name)
    OBVIOUS
  <2>1. Len(query.localScopes) = 1
    BY <1>1, LevelsDecide
  <2>2. 1 \in CompatibleTargetScopes(block) <=> c \in LocalLevels(name)
    BY <1>1, LevelsDecide DEF CompatibleTargetScopes, OwnLevels
  <2>3. PICK n \in Nat : CompatibleTargetScopes(block) \subseteq 1 .. n
    <3>1. CompatibleTargetScopes(block) \subseteq DOMAIN StateOf(name).targetScopes
      BY <1>1 DEF CompatibleTargetScopes, MatchingScopes
    <3>2. \E n \in Nat : DOMAIN StateOf(name).targetScopes = 1 .. n
      <4>1. \A a : DOMAIN <<a>> = 1 .. 1
        OBVIOUS
      <4>2. \A a, b : DOMAIN <<a, b>> = 1 .. 2
        OBVIOUS
      <4>3. \A a, b, d, e : DOMAIN <<a, b, d, e>> = 1 .. 4
        OBVIOUS
      <4>4. \/ \E a : StateOf(name).targetScopes = <<a>>
            \/ \E a, b : StateOf(name).targetScopes = <<a, b>>
            \/ \E a, b, d, e : StateOf(name).targetScopes = <<a, b, d, e>>
        <5>1. CASE StateOf(name) = RootState
          <6>1. StateOf(name).targetScopes = <<EmptyMap>>
            BY <5>1, RootShape
          <6> QED
            BY <6>1
        <5>2. CASE StateOf(name) = WorkspaceState
          <6>1. StateOf(name).targetScopes = <<InW>>
            BY <5>2, WorkspaceShape
          <6> QED
            BY <6>1
        <5>3. CASE StateOf(name) = InheritingWorkspace
          <6>1. StateOf(name).targetScopes = <<InW, EmptyMap>>
            BY <5>3, InheritingWorkspaceShape
          <6> QED
            BY <6>1
        <5>4. CASE name[2] \in Projects /\ StateOf(name) = ProjectState(name[2])
          <6>1. StateOf(name).targetScopes = <<InWP(name[2])>>
            BY <5>4, ProjectShape
          <6> QED
            BY <6>1
        <5>5. CASE name[2] \in Projects /\ StateOf(name) = InheritingProject(name[2])
          <6>1. StateOf(name).targetScopes = <<InWP(name[2]), InP(name[2]), InW, EmptyMap>>
            BY <5>5, InheritingProjectShape
          <6> QED
            BY <6>1
        <5> QED
          BY <5>1, <5>2, <5>3, <5>4, <5>5, NameKinds
      <4>5. 1 \in Nat /\ 2 \in Nat /\ 4 \in Nat
        OBVIOUS
      <4> QED
        BY <4>1, <4>2, <4>3, <4>4, <4>5, Zenon
    <3> QED
      BY <3>1, <3>2
  <2>4. FirstMatch(CompatibleTargetScopes(block)) <= 1 <=> 1 \in CompatibleTargetScopes(block)
    BY <2>3, FirstOfMatching
  <2> QED
    BY <2>1, <2>2, <2>4 DEF MatchesLocalScope
<1>6. CompatibleWithGlobal(block) <=> Open(c)
  BY CompatibleOpen
<1>7. ASSUME block.operation = ADD
      PROVE  TestBlock(block) = AddVerdict(name, c)
  BY <1>2, <1>3, <1>7, Zenon DEF TestBlock, TestAddBlock, AddVerdict
<1>8. ASSUME block.operation # ADD
      PROVE  TestBlock(block) = IF Open(c) THEN RemoveVerdict(name, c) ELSE <<UNKNOWN, UNKNOWN>>
  <2>1. TestBlock(block) = TestRemoveBlock(block)
    BY <1>8 DEF TestBlock
  <2>2. CASE ~Open(c)
    BY <1>6, <2>1, <2>2, Zenon DEF TestRemoveBlock
  <2>3. CASE Open(c) /\ c \in ReachingLevels(name)
    <3>1. TestRemoveBlock(block) = <<REMOVE, IF c \in LocalLevels(name) THEN REMOVE ELSE OUT_OF_SCOPE>>
      BY <1>4, <1>5, <1>6, <2>3, Zenon DEF TestRemoveBlock
    <3> QED
      BY <2>1, <2>3, <3>1 DEF RemoveVerdict, Restores, Settled
  <2>4. CASE Open(c) /\ c \notin ReachingLevels(name) /\ c \in EnclosingLevels(name)
    <3>1. TestRemoveBlock(block) = <<OUT_OF_SCOPE, REMOVE>>
      BY <1>2, <1>4, <1>6, <2>4, Zenon DEF TestRemoveBlock
    <3> QED
      BY <2>1, <2>4, <3>1 DEF RemoveVerdict, Restores, Settled
  <2>5. CASE Open(c) /\ c \notin ReachingLevels(name) /\ c \notin EnclosingLevels(name)
    <3>1. TestRemoveBlock(block) = <<REMOVE, ADD>>
      BY <1>2, <1>4, <1>6, <2>5, Zenon DEF TestRemoveBlock
    <3> QED
      BY <2>1, <2>5, <3>1 DEF RemoveVerdict, Restores
  <2> QED
    BY <2>2, <2>3, <2>4, <2>5
<1> QED
  BY <1>7, <1>8

-----------------------------------------------------------------------------
(***************************************************************************)
(* The steps of the walk.                                                  *)
(***************************************************************************)
\* The entries of the list: blocks of the script, and what they name.
Adds(k) == blockResults[k].source # 0 /\ blockResults[k].sourceBlock.operation = ADD
Removes(k) == blockResults[k].source # 0 /\ blockResults[k].sourceBlock.operation = REMOVE
At(k) == blockResults[k].sourceBlock.condition
Has(k, f, v) == v \in Held(blockResults[k].sourceBlock.data[f])
Decided(k) == blockResults[k].globalOperation # UNKNOWN

\* The decision on an entry is the verdict on its level, or is still open.
EntryOK(name, r) ==
    /\ r.source # 0 /\ r.sourceBlock.operation = ADD =>
          /\ r.globalOperation \in {UNKNOWN, ADD}
          /\ r.globalOperation = ADD => r.sourceBlock.condition \in EnclosingLevels(name)
          /\ r.targetOperation # REMOVE
          /\ r.targetOperation = ADD <=>
                r.globalOperation = ADD /\ r.sourceBlock.condition \in AddingLevels(name)
    /\ r.source # 0 /\ r.sourceBlock.operation = REMOVE =>
          \/ r.globalOperation = UNKNOWN /\ r.targetOperation = UNKNOWN
          \/ <<r.globalOperation, r.targetOperation>> = Settled(name, r.sourceBlock.condition)
    /\ r.source = 0 =>
          /\ name[1] = "project"
          /\ r.targetOperation = ADD /\ r.globalOperation = OUT_OF_SCOPE

VerdictInv(name) == \A k \in DOMAIN blockResults : EntryOK(name, blockResults[k])

\* What the accumulated values say of the scopes.
ValueInv(name) ==
    /\ WorkspaceFits
    /\ name[1] = "root" => globalValues["projects"] = Nil
    /\ name[1] \in {"project", "inheritingProject"} => name[2] \in Held(globalValues["projects"])
    /\ \A k \in DOMAIN blockResults : blockResults[k].globalOperation = ADD =>
          \A p \in Projects : Has(k, "projects", p) /\ "projects" \in query.fieldsTested =>
              p \in Held(globalValues["projects"])
    /\ \A f \in Collections : targetValues[f] = Nil

Base(name) ==
    /\ TypeOK /\ WalkInv /\ ScriptBlocksInOrder /\ RestorationPrecedesRemoval
    /\ query = QueryOf(StateOf(name), script)
    /\ script \in Scripts
    /\ VerdictInv(name)
    /\ ValueInv(name)

\* The step decides the entry at i, and leaves the others alone.
DecidesOne(global, target) ==
    /\ status = "running"
    /\ i \in DOMAIN blockResults
    /\ blockResults[i].globalOperation = UNKNOWN
    /\ SameBlocks
    /\ blockResults'[i].globalOperation = global
    /\ blockResults'[i].targetOperation = target
    /\ \A k \in DOMAIN blockResults : k # i => blockResults'[k] = blockResults[k]
    /\ globalValues' = AccumulateValues(globalValues, blockResults[i].sourceBlock.data, global)
    /\ \/ targetValues' = targetValues
       \/ targetValues' = AccumulateValues(targetValues, blockResults[i].sourceBlock.data, target)

DecidesAddition(name) ==
    /\ Adds(i)
    /\ At(i) \in EnclosingLevels(name)
    /\ DecidesOne(ADD, IF At(i) \in AddingLevels(name) THEN ADD ELSE blockResults[i].targetOperation)

DecidesRemoval(name) ==
    /\ Removes(i)
    /\ ~Restores(name, At(i))
    /\ DecidesOne(Settled(name, At(i))[1], Settled(name, At(i))[2])

DecidesRestoration(name) ==
    /\ RestoreForSibling
    /\ i \in DOMAIN blockResults
    /\ Removes(i)
    /\ Restores(name, At(i))

LEMMA LevelEntries ==
    ASSUME NEW name, query = QueryOf(StateOf(name), script), script \in Scripts, ScriptBlocksInOrder,
           NEW k \in DOMAIN blockResults, blockResults[k].source # 0
    PROVE  /\ blockResults[k].source \in DOMAIN script
           /\ blockResults[k].sourceBlock = script[blockResults[k].source]
           /\ blockResults[k].sourceBlock \in LevelBlock
<1>1. query.blocks = script
  BY QueryFields
<1>2. script \in Seq(LevelBlock)
  BY HierarchyAssumption
<1>3. /\ blockResults[k].source \in DOMAIN script
      /\ blockResults[k].sourceBlock = script[blockResults[k].source]
  BY <1>1 DEF ScriptBlocksInOrder
<1>4. script[blockResults[k].source] \in LevelBlock
  BY <1>2, <1>3
<1> QED
  BY <1>3, <1>4

LEMMA DecidesOneEntry ==
    ASSUME TypeOK, NEW global \in Decision, NEW target \in Decision, global # UNKNOWN,
           Decide(global, target)
    PROVE  DecidesOne(global, target)
<1>1. SameBlocks /\ DecidesEntry(global)
  BY DecideIsOneEntry
<1>2. /\ i \in 1 .. Len(blockResults)
      /\ Current \in BlockResult
      /\ DOMAIN blockResults = 1 .. Len(blockResults)
  BY CurrentType, LenProperties DEF Decide, Tests, TypeOK
<1>3. blockResults'[i].targetOperation = target
  <2> DEFINE d == [Current EXCEPT !.targetOperation = target, !.globalOperation = global]
  <2>1. d.targetOperation = target
    BY <1>2 DEF BlockResult
  <2>2. blockResults' = [blockResults EXCEPT ![i] = d]
    BY DEF Decide, Current
  <2> HIDE DEF d
  <2> QED
    BY <1>2, <2>1, <2>2
<1> QED
  BY <1>1, <1>3 DEF DecidesOne, DecidesEntry, Decide, Tests, Current

LEMMA AddsGlobally ==
    ASSUME TypeOK, AddToGlobalOnly
    PROVE  DecidesOne(ADD, blockResults[i].targetOperation)
<1>1. SameBlocks /\ DecidesEntry(ADD)
  BY DecideIsOneEntry, ADD # UNKNOWN DEF Decision, ADD, UNKNOWN
<1>2. /\ i \in 1 .. Len(blockResults)
      /\ Current \in BlockResult
      /\ DOMAIN blockResults = 1 .. Len(blockResults)
  BY CurrentType, LenProperties DEF AddToGlobalOnly, Tests, TypeOK
<1>3. blockResults'[i].targetOperation = blockResults[i].targetOperation
  <2> DEFINE d == [Current EXCEPT !.globalOperation = ADD]
  <2>1. d.targetOperation = Current.targetOperation
    BY <1>2 DEF BlockResult
  <2>2. blockResults' = [blockResults EXCEPT ![i] = d]
    BY DEF AddToGlobalOnly, Current
  <2> HIDE DEF d
  <2> QED
    BY <1>2, <2>1, <2>2 DEF Current
<1> QED
  BY <1>1, <1>3 DEF DecidesOne, DecidesEntry, AddToGlobalOnly, Tests, Current

LEMMA StepForms ==
    ASSUME NEW name \in StateNames, Base(name), [Next]_vars
    PROVE  /\ UNCHANGED query
           /\ \/ UNCHANGED <<blockResults, targetValues, globalValues>>
              \/ DecidesAddition(name)
              \/ DecidesRemoval(name)
              \/ DecidesRestoration(name)
<1> USE DEF Base
<1>0. UNCHANGED query
  BY ListStep
<1>1. ASSUME NEW decision, Tests(decision)
      PROVE  /\ i \in DOMAIN blockResults
             /\ Current = blockResults[i]
             /\ blockResults[i].globalOperation = UNKNOWN
             /\ blockResults[i].source # 0
             /\ At(i) \in Levels
             /\ Adds(i) \/ Removes(i)
             /\ Adds(i) => decision = AddVerdict(name, At(i))
             /\ Removes(i) => decision = <<UNKNOWN, UNKNOWN>> \/ decision = RemoveVerdict(name, At(i))
  <2>1. /\ i \in DOMAIN blockResults
        /\ Current = blockResults[i]
        /\ blockResults[i].globalOperation = UNKNOWN
        /\ TestBlock(blockResults[i].sourceBlock) = decision
    BY <1>1, CurrentType, LenProperties DEF Tests, TypeOK, Current
  <2>2. blockResults[i].source # 0
    <3>1. EntryOK(name, blockResults[i])
      BY <2>1 DEF VerdictInv
    <3> QED
      BY <2>1, <3>1 DEF EntryOK, OUT_OF_SCOPE, UNKNOWN
  <2>3. blockResults[i].sourceBlock \in LevelBlock
    BY <2>1, <2>2, LevelEntries
  <2>4. At(i) \in Levels /\ blockResults[i].sourceBlock.operation \in {ADD, REMOVE}
    BY <2>3 DEF LevelBlock, Block, At
  <2>5. /\ blockResults[i].sourceBlock.operation = ADD => decision = AddVerdict(name, At(i))
        /\ blockResults[i].sourceBlock.operation # ADD =>
              decision = IF Open(At(i)) THEN RemoveVerdict(name, At(i)) ELSE <<UNKNOWN, UNKNOWN>>
    BY <2>1, <2>4, Verdicts DEF At, ValueInv
  <2> QED
    BY <2>1, <2>2, <2>4, <2>5 DEF Adds, Removes, ADD, REMOVE
<1>2. \A a, b, c, d : <<a, b>> = <<c, d>> <=> a = c /\ b = d
  OBVIOUS
<1>3. ADD # REMOVE /\ ADD # UNKNOWN /\ ADD # OUT_OF_SCOPE /\ REMOVE # UNKNOWN /\ REMOVE # OUT_OF_SCOPE /\ OUT_OF_SCOPE # UNKNOWN
  BY DEF ADD, REMOVE, OUT_OF_SCOPE, UNKNOWN
<1>4. \A c : LET s == Settled(name, c) IN
         /\ s = <<s[1], s[2]>>
         /\ s[1] \in {REMOVE, OUT_OF_SCOPE} /\ s[2] \in {REMOVE, OUT_OF_SCOPE}
  BY DEF Settled
<1>5. \A c : AddVerdict(name, c) \in {<<UNKNOWN, UNKNOWN>>, <<ADD, UNKNOWN>>, <<ADD, ADD>>}
  BY DEF AddVerdict
<1>6. CASE AddToGlobalOnly
  <2>1. Tests(<<ADD, UNKNOWN>>)
    BY <1>6 DEF AddToGlobalOnly
  <2>2. ~Removes(i)
    <3>1. <<ADD, UNKNOWN>> # <<REMOVE, ADD>>
      BY <1>2, <1>3
    <3>2. <<ADD, UNKNOWN>> # <<UNKNOWN, UNKNOWN>>
      BY <1>2, <1>3
    <3>3. <<ADD, UNKNOWN>> # Settled(name, At(i))
      BY <1>2, <1>3, <1>4
    <3> QED
      BY <1>1, <2>1, <3>1, <3>2, <3>3 DEF RemoveVerdict
  <2>3. Adds(i) /\ AddVerdict(name, At(i)) = <<ADD, UNKNOWN>>
    BY <1>1, <2>1, <2>2
  <2>4. At(i) \in EnclosingLevels(name) /\ At(i) \notin AddingLevels(name)
    BY <1>2, <1>3, <2>3 DEF AddVerdict
  <2> QED
    BY <1>0, <1>6, <2>3, <2>4, AddsGlobally DEF DecidesAddition
<1>7. CASE AddToBoth
  <2>1. Tests(<<ADD, ADD>>)
    BY <1>7 DEF AddToBoth, Decide
  <2>2. ~Removes(i)
    <3>1. <<ADD, ADD>> # <<REMOVE, ADD>>
      BY <1>2, <1>3
    <3>2. <<ADD, ADD>> # <<UNKNOWN, UNKNOWN>>
      BY <1>2, <1>3
    <3>3. <<ADD, ADD>> # Settled(name, At(i))
      BY <1>2, <1>3, <1>4
    <3> QED
      BY <1>1, <2>1, <3>1, <3>2, <3>3 DEF RemoveVerdict
  <2>3. Adds(i) /\ AddVerdict(name, At(i)) = <<ADD, ADD>>
    BY <1>1, <2>1, <2>2
  <2>4. At(i) \in EnclosingLevels(name) /\ At(i) \in AddingLevels(name)
    BY <1>2, <1>3, <2>3 DEF AddVerdict
  <2>5. DecidesOne(ADD, ADD)
    BY <1>3, <1>7, DecidesOneEntry DEF AddToBoth, Decision
  <2> QED
    BY <1>0, <2>3, <2>4, <2>5 DEF DecidesAddition
<1>8. ASSUME NEW g \in {REMOVE, OUT_OF_SCOPE}, NEW t \in {REMOVE, OUT_OF_SCOPE}, Decide(g, t)
      PROVE  DecidesRemoval(name)
  <2>1. Tests(<<g, t>>)
    BY <1>8 DEF Decide
  <2>2. ~Adds(i)
    <3>1. /\ <<g, t>> # <<UNKNOWN, UNKNOWN>>
          /\ <<g, t>> # <<ADD, UNKNOWN>>
          /\ <<g, t>> # <<ADD, ADD>>
      BY <1>2, <1>3
    <3> QED
      BY <1>1, <1>5, <2>1, <3>1
  <2>3. /\ <<g, t>> # <<UNKNOWN, UNKNOWN>>
        /\ <<g, t>> # <<REMOVE, ADD>>
    BY <1>2, <1>3
  <2>4. Removes(i) /\ <<g, t>> = RemoveVerdict(name, At(i))
    BY <1>1, <2>1, <2>2, <2>3
  <2>5. ~Restores(name, At(i)) /\ <<g, t>> = Settled(name, At(i))
    BY <2>3, <2>4 DEF RemoveVerdict
  <2>6. g = Settled(name, At(i))[1] /\ t = Settled(name, At(i))[2]
    BY <2>5
  <2>7. DecidesOne(g, t)
    BY <1>3, <1>8, DecidesOneEntry DEF Decision
  <2> QED
    BY <2>4, <2>5, <2>6, <2>7 DEF DecidesRemoval
<1>9. CASE RemoveFromLocalScope \/ LeaveToInheritedScope \/ RemovedAbove
  BY <1>0, <1>8, <1>9 DEF RemoveFromLocalScope, LeaveToInheritedScope, RemovedAbove
<1>10. CASE RestoreForSibling
  <2>1. Tests(<<REMOVE, ADD>>)
    BY <1>10 DEF RestoreForSibling
  <2>2. ~Adds(i)
    <3>1. /\ <<REMOVE, ADD>> # <<UNKNOWN, UNKNOWN>>
          /\ <<REMOVE, ADD>> # <<ADD, UNKNOWN>>
          /\ <<REMOVE, ADD>> # <<ADD, ADD>>
      BY <1>2, <1>3
    <3> QED
      BY <1>1, <1>5, <2>1, <3>1
  <2>3. Removes(i) /\ <<REMOVE, ADD>> = RemoveVerdict(name, At(i))
    <3>1. <<REMOVE, ADD>> # <<UNKNOWN, UNKNOWN>>
      BY <1>2, <1>3
    <3> QED
      BY <1>1, <2>1, <2>2, <3>1
  <2>4. Restores(name, At(i))
    <3>1. <<REMOVE, ADD>> # Settled(name, At(i))
      BY <1>2, <1>3, <1>4
    <3> QED
      BY <2>3, <3>1 DEF RemoveVerdict
  <2> QED
    BY <1>0, <1>1, <1>10, <2>1, <2>3, <2>4 DEF DecidesRestoration
<1>11. CASE SkipDecided \/ PassOver \/ RestoreRaisesError \/ Finish \/ UNCHANGED vars
  BY <1>0, <1>11 DEF SkipDecided, PassOver, RestoreRaisesError, Finish, vars
<1> QED
  BY <1>6, <1>7, <1>9, <1>10, <1>11 DEF Next

LEMMA Accumulated ==
    ASSUME NEW values \in ValueMap, NEW data \in ValueMap, NEW operation, NEW f \in Fields
    PROVE  /\ f \notin query.fieldsTested \/ data[f] = Nil =>
                 AccumulateValues(values, data, operation)[f] = values[f]
           /\ f \in query.fieldsTested /\ data[f] # Nil /\ operation = ADD /\ f \notin StringFields =>
                 /\ AccumulateValues(values, data, operation)[f] = Held(values[f]) \cup data[f]
                 /\ AccumulateValues(values, data, operation)[f] # Nil
<1>1. AccumulateValues(values, data, operation)[f] =
          IF f \notin query.fieldsTested \/ data[f] = Nil THEN values[f]
          ELSE IF operation = ADD THEN MergeValues(f, values[f], data[f])
          ELSE RemoveValues(f, values[f], data[f])
  BY DEF AccumulateValues
<1>2. ASSUME f \in query.fieldsTested, data[f] # Nil, operation = ADD, f \notin StringFields
      PROVE  /\ AccumulateValues(values, data, operation)[f] = Held(values[f]) \cup data[f]
             /\ AccumulateValues(values, data, operation)[f] # Nil
  <2>1. AccumulateValues(values, data, operation)[f] = Held(values[f]) \cup data[f]
    BY <1>1, <1>2 DEF MergeValues
  <2>2. Held(values[f]) \cup data[f] \in SUBSET Strings
    <3>1. values[f] \in FieldValue /\ data[f] \in FieldValue
      BY DEF ValueMap
    <3> QED
      BY <1>2, <3>1 DEF FieldValue, Held
  <2> QED
    BY <2>1, <2>2, FieldsAssumption
<1> QED
  BY <1>1, <1>2

LEMMA ScopeFieldsTested ==
    ASSUME NEW name, query = QueryOf(StateOf(name), script), script \in Scripts
    PROVE  /\ query.fieldsTested \subseteq {"workspaces", "projects"}
           /\ \A n \in DOMAIN script : FieldsTested(script[n].condition) \subseteq query.fieldsTested
<1>1. query.fieldsTested = UNION {FieldsTested(script[k].condition) : k \in DOMAIN script}
  BY QueryFields
<1>2. ASSUME NEW n \in DOMAIN script
      PROVE  FieldsTested(script[n].condition) \subseteq {"workspaces", "projects"}
  <2>1. script[n] \in LevelBlock
    BY HierarchyAssumption
  <2>2. script[n].condition \in Levels
    BY <2>1 DEF LevelBlock
  <2> QED
    BY <2>2, InLevels, FieldsOfLevels
<1> QED
  BY <1>1, <1>2

LEMMA CollectionsFacts ==
    /\ Collections \subseteq Fields
    /\ "workspaces" \in Fields /\ "projects" \in Fields
    /\ "workspaces" \notin StringFields /\ "projects" \notin StringFields
    /\ "workspaces" \notin Collections /\ "projects" \notin Collections
    /\ Collections \cap StringFields = {} /\ Collections \cap ScopeFields = {}
  BY HierarchyAssumption, FieldsAssumption DEF Collections

\* Adding what a block of the script declares.
LEMMA DeclaredValues ==
    ASSUME NEW name \in StateNames, Base(name), NEW block \in LevelBlock, NEW operation,
           operation = ADD => block.condition \in EnclosingLevels(name),
           operation # ADD => block.operation = REMOVE,
           globalValues' = AccumulateValues(globalValues, block.data, operation)
    PROVE  /\ WorkspaceFits'
           /\ name[1] = "root" => globalValues'["projects"] = Nil
           /\ Held(globalValues["projects"]) \subseteq Held(globalValues'["projects"])
           /\ operation = ADD /\ "projects" \in query.fieldsTested =>
                 Held(block.data["projects"]) \subseteq Held(globalValues'["projects"])
<1> USE DEF Base
<1>1. /\ globalValues \in ValueMap
      /\ block.data \in ValueMap
      /\ block.data["workspaces"] \in {Nil, {Workspace}}
      /\ block.data["projects"] # Nil => block.condition = InWorkspace
      /\ block.operation = REMOVE => block.data["workspaces"] = Nil /\ block.data["projects"] = Nil
  BY DEF TypeOK, LevelBlock, Block
<1>2. WorkspaceFits /\ (name[1] = "root" => globalValues["projects"] = Nil)
  BY DEF ValueInv
<1>3. /\ block.data["workspaces"] = Nil => globalValues'["workspaces"] = globalValues["workspaces"]
      /\ block.data["projects"] = Nil => globalValues'["projects"] = globalValues["projects"]
      /\ "workspaces" \notin query.fieldsTested => globalValues'["workspaces"] = globalValues["workspaces"]
      /\ "projects" \notin query.fieldsTested => globalValues'["projects"] = globalValues["projects"]
  BY <1>1, Accumulated, CollectionsFacts
<1>4. ASSUME "workspaces" \in query.fieldsTested, block.data["workspaces"] # Nil
      PROVE  Workspace \in globalValues'["workspaces"]
  <2>1. operation = ADD
    BY <1>1, <1>4
  <2>2. globalValues'["workspaces"] = Held(globalValues["workspaces"]) \cup block.data["workspaces"]
    BY <1>1, <1>4, <2>1, Accumulated, CollectionsFacts
  <2> QED
    BY <1>1, <1>4, <2>2
<1>5. WorkspaceFits'
  BY <1>2, <1>3, <1>4 DEF WorkspaceFits
<1>6. ASSUME "projects" \in query.fieldsTested, block.data["projects"] # Nil
      PROVE  Held(globalValues'["projects"]) = Held(globalValues["projects"]) \cup block.data["projects"]
  <2>1. operation = ADD
    BY <1>1, <1>6
  <2>2. /\ globalValues'["projects"] = Held(globalValues["projects"]) \cup block.data["projects"]
        /\ globalValues'["projects"] # Nil
    BY <1>1, <1>6, <2>1, Accumulated, CollectionsFacts
  <2> QED
    BY <2>2 DEF Held
<1>7. ASSUME name[1] = "root"
      PROVE  block.data["projects"] = Nil
  <2>1. CASE operation = ADD
    <3>1. block.condition = {}
      BY <1>7, <2>1 DEF EnclosingLevels
    <3> QED
      BY <1>1, <3>1, LevelsDiffer
  <2>2. CASE operation # ADD
    BY <1>1, <2>2
  <2> QED
    BY <2>1, <2>2
<1>8. Held(globalValues["projects"]) \subseteq Held(globalValues'["projects"])
  BY <1>3, <1>6
<1>9. ASSUME "projects" \in query.fieldsTested
      PROVE  Held(block.data["projects"]) \subseteq Held(globalValues'["projects"])
  BY <1>6, <1>9 DEF Held
<1> QED
  BY <1>2, <1>3, <1>5, <1>7, <1>8, <1>9

\* What the list is after a synthesized block was inserted, entry by entry.
Moved(k) == IF k < i THEN k ELSE k + 1

LEMMA RestoredEntries ==
    ASSUME NEW name \in StateNames, Base(name), DecidesRestoration(name), [Next]_vars
    PROVE  LET n == Len(blockResults) IN
           /\ n \in Nat /\ i \in 1 .. n
           /\ DOMAIN blockResults = 1 .. n
           /\ DOMAIN blockResults' = 1 .. n + 1
           /\ status = "running"
           /\ name[1] = "project" /\ name[2] \in Projects
           /\ blockResults'[i].source = 0
           /\ blockResults'[i].targetOperation = ADD
           /\ blockResults'[i].globalOperation = OUT_OF_SCOPE
           /\ blockResults'[i].sourceBlock.data = ValuesToRestore(blockResults[i].sourceBlock)
           /\ blockResults'[i + 1].source = blockResults[i].source
           /\ blockResults'[i + 1].sourceBlock = blockResults[i].sourceBlock
           /\ blockResults'[i + 1].globalOperation = REMOVE
           /\ blockResults'[i + 1].targetOperation = OUT_OF_SCOPE
           /\ \A k \in 1 .. n + 1 : k # i =>
                 /\ Origin(k) \in 1 .. n
                 /\ Moved(Origin(k)) = k
                 /\ blockResults'[k].source = blockResults[Origin(k)].source
                 /\ blockResults'[k].sourceBlock = blockResults[Origin(k)].sourceBlock
                 /\ k # i + 1 => Origin(k) # i /\ blockResults'[k] = blockResults[Origin(k)]
           /\ \A k \in 1 .. n :
                 /\ Moved(k) \in 1 .. n + 1 /\ Moved(k) # i /\ Origin(Moved(k)) = k
                 /\ \A l \in 1 .. n : k < l => Moved(k) < Moved(l)
           /\ globalValues' = AccumulateValues(globalValues, blockResults[i].sourceBlock.data, REMOVE)
           /\ targetValues' = AccumulateValues(targetValues, ValuesToRestore(blockResults[i].sourceBlock), ADD)
           /\ At(i) \in Levels
<1> DEFINE n == Len(blockResults)
<1> USE DEF Base
<1>1. RestoreForSibling /\ i \in DOMAIN blockResults /\ Removes(i) /\ Restores(name, At(i))
  BY DEF DecidesRestoration
<1>2. /\ n \in Nat /\ i \in 1 .. n
      /\ DOMAIN blockResults = 1 .. n
      /\ DOMAIN blockResults' = 1 .. n + 1
      /\ blockResults'[i] = Synthesized(blockResults[i].sourceBlock)
      /\ blockResults'[i].source = 0
      /\ blockResults'[i].globalOperation = OUT_OF_SCOPE
      /\ blockResults'[i + 1].globalOperation = REMOVE
      /\ \A k \in 1 .. n + 1 : k # i =>
            /\ Origin(k) \in 1 .. n
            /\ blockResults'[k].source = blockResults[Origin(k)].source
            /\ blockResults'[k].sourceBlock = blockResults[Origin(k)].sourceBlock
            /\ k # i + 1 => blockResults'[k] = blockResults[Origin(k)]
  BY <1>1, RestoredOrigins
<1>3. /\ Synthesized(blockResults[i].sourceBlock).sourceBlock.data = ValuesToRestore(blockResults[i].sourceBlock)
      /\ Synthesized(blockResults[i].sourceBlock).targetOperation = ADD
  BY DEF Synthesized
<1>4. /\ status = "running"
      /\ globalValues' = AccumulateValues(globalValues, blockResults[i].sourceBlock.data, REMOVE)
      /\ targetValues' = AccumulateValues(targetValues, ValuesToRestore(blockResults[i].sourceBlock), ADD)
  BY <1>1 DEF RestoreForSibling, Tests, Current
<1>5. blockResults'[i + 1].targetOperation = OUT_OF_SCOPE
  <2>1. blockResults'[i + 1] = RemovalInContainer
    <3>1. i + 1 \in 1 .. n + 1 /\ ~(i + 1 < i) /\ i + 1 # i
      BY <1>2
    <3> QED
      BY <1>1, <3>1, RestoredList
  <2>2. Current \in BlockResult
    BY <1>1, <1>2, CurrentType
  <2> QED
    BY <2>1, <2>2 DEF RemovalInContainer, BlockResult
<1>6. blockResults[i].sourceBlock \in LevelBlock
  BY <1>1, LevelEntries DEF Removes
<1>7. At(i) \in Levels
  BY <1>6 DEF LevelBlock, At
<1>8. name[1] = "project" /\ name[2] \in Projects
  BY <1>1, <1>7, RestoresForProjects
<1>9. ASSUME NEW k \in 1 .. n + 1, k # i
      PROVE  Moved(Origin(k)) = k /\ (k # i + 1 => Origin(k) # i)
  BY <1>2, <1>9 DEF Moved, Origin
<1>10. ASSUME NEW k \in 1 .. n
       PROVE  /\ Moved(k) \in 1 .. n + 1 /\ Moved(k) # i /\ Origin(Moved(k)) = k
              /\ \A l \in 1 .. n : k < l => Moved(k) < Moved(l)
  BY <1>2 DEF Moved, Origin
<1>11. /\ blockResults'[i + 1].source = blockResults[i].source
       /\ blockResults'[i + 1].sourceBlock = blockResults[i].sourceBlock
  <2>1. i + 1 \in 1 .. n + 1 /\ i + 1 # i /\ Origin(i + 1) = i
    BY <1>2 DEF Origin
  <2> QED
    BY <1>2, <2>1
<1> HIDE DEF Base
<1> QED
  BY <1>2, <1>3, <1>4, <1>5, <1>7, <1>8, <1>9, <1>10, <1>11

LEMMA VerdictStep ==
    ASSUME NEW name \in StateNames, Base(name), [Next]_vars
    PROVE  VerdictInv(name)'
<1>0. \A k \in DOMAIN blockResults : EntryOK(name, blockResults[k])
  BY DEF Base, VerdictInv
<1>1. CASE blockResults' = blockResults
  BY <1>0, <1>1 DEF VerdictInv
<1>2. ADD # REMOVE /\ ADD # UNKNOWN /\ ADD # OUT_OF_SCOPE /\ REMOVE # UNKNOWN /\ REMOVE # OUT_OF_SCOPE /\ OUT_OF_SCOPE # UNKNOWN
  BY DEF ADD, REMOVE, OUT_OF_SCOPE, UNKNOWN
<1>3. CASE DecidesAddition(name)
  <2>1. /\ i \in DOMAIN blockResults
        /\ blockResults[i].globalOperation = UNKNOWN
        /\ DOMAIN blockResults' = DOMAIN blockResults
        /\ blockResults'[i].source = blockResults[i].source
        /\ blockResults'[i].sourceBlock = blockResults[i].sourceBlock
        /\ blockResults'[i].globalOperation = ADD
        /\ blockResults'[i].targetOperation =
              IF At(i) \in AddingLevels(name) THEN ADD ELSE blockResults[i].targetOperation
        /\ \A k \in DOMAIN blockResults : k # i => blockResults'[k] = blockResults[k]
        /\ blockResults[i].source # 0 /\ blockResults[i].sourceBlock.operation = ADD
        /\ At(i) \in EnclosingLevels(name)
    BY <1>3 DEF DecidesAddition, DecidesOne, SameBlocks, Adds
  <2>2. EntryOK(name, blockResults'[i])
    <3>1. EntryOK(name, blockResults[i])
      BY <1>0, <2>1
    <3> QED
      BY <1>2, <2>1, <3>1 DEF EntryOK, At
  <2>3. ASSUME NEW k \in DOMAIN blockResults
        PROVE  EntryOK(name, blockResults'[k])
    BY <1>0, <2>1, <2>2
  <2> QED
    BY <2>1, <2>3 DEF VerdictInv
<1>4. CASE DecidesRemoval(name)
  <2>1. /\ i \in DOMAIN blockResults
        /\ DOMAIN blockResults' = DOMAIN blockResults
        /\ blockResults'[i].source = blockResults[i].source
        /\ blockResults'[i].sourceBlock = blockResults[i].sourceBlock
        /\ blockResults'[i].globalOperation = Settled(name, At(i))[1]
        /\ blockResults'[i].targetOperation = Settled(name, At(i))[2]
        /\ \A k \in DOMAIN blockResults : k # i => blockResults'[k] = blockResults[k]
        /\ blockResults[i].source # 0 /\ blockResults[i].sourceBlock.operation = REMOVE
    BY <1>4 DEF DecidesRemoval, DecidesOne, SameBlocks, Removes
  <2>2. EntryOK(name, blockResults'[i])
    <3>1. \A c : Settled(name, c) = <<Settled(name, c)[1], Settled(name, c)[2]>>
      BY DEF Settled
    <3>2. <<blockResults'[i].globalOperation, blockResults'[i].targetOperation>> =
              Settled(name, blockResults'[i].sourceBlock.condition)
      BY <2>1, <3>1 DEF At
    <3> QED
      BY <1>2, <2>1, <3>2 DEF EntryOK
  <2>3. ASSUME NEW k \in DOMAIN blockResults
        PROVE  EntryOK(name, blockResults'[k])
    BY <1>0, <2>1, <2>2
  <2> QED
    BY <2>1, <2>3 DEF VerdictInv
<1>5. CASE DecidesRestoration(name)
  <2> DEFINE n == Len(blockResults)
  <2>1. /\ DOMAIN blockResults = 1 .. n
        /\ DOMAIN blockResults' = 1 .. n + 1
        /\ name[1] = "project"
        /\ blockResults'[i].source = 0
        /\ blockResults'[i].targetOperation = ADD
        /\ blockResults'[i].globalOperation = OUT_OF_SCOPE
        /\ blockResults'[i + 1].source = blockResults[i].source
        /\ blockResults'[i + 1].sourceBlock = blockResults[i].sourceBlock
        /\ blockResults'[i + 1].globalOperation = REMOVE
        /\ blockResults'[i + 1].targetOperation = OUT_OF_SCOPE
        /\ \A k \in 1 .. n + 1 : k # i =>
              /\ Origin(k) \in 1 .. n
              /\ k # i + 1 => blockResults'[k] = blockResults[Origin(k)]
    BY <1>5, RestoredEntries
  <2>2. Removes(i) /\ Restores(name, At(i))
    BY <1>5 DEF DecidesRestoration
  <2>3. EntryOK(name, blockResults'[i])
    BY <2>1 DEF EntryOK
  <2>4. EntryOK(name, blockResults'[i + 1])
    <3>1. Settled(name, At(i)) = <<REMOVE, OUT_OF_SCOPE>>
      BY <2>2 DEF Settled, Restores
    <3> QED
      BY <1>2, <2>1, <2>2, <3>1 DEF EntryOK, Removes, At
  <2>5. ASSUME NEW k \in 1 .. n + 1
        PROVE  EntryOK(name, blockResults'[k])
    BY <1>0, <2>1, <2>3, <2>4
  <2> QED
    BY <2>1, <2>5 DEF VerdictInv
<1> QED
  BY <1>1, <1>3, <1>4, <1>5, StepForms

LEMMA ValueStep ==
    ASSUME NEW name \in StateNames, Base(name), [Next]_vars
    PROVE  ValueInv(name)'
<1>1. /\ UNCHANGED query
      /\ \/ UNCHANGED <<blockResults, targetValues, globalValues>>
         \/ DecidesAddition(name)
         \/ DecidesRemoval(name)
         \/ DecidesRestoration(name)
  BY StepForms
<1>2. CASE UNCHANGED <<blockResults, targetValues, globalValues>>
  BY <1>1, <1>2 DEF Base, ValueInv, WorkspaceFits, Has
<1>3. /\ targetValues \in ValueMap
      /\ \A k \in DOMAIN blockResults : blockResults[k].sourceBlock.data \in ValueMap
      /\ \A k \in DOMAIN blockResults : blockResults[k].sourceBlock \in Block
  <2>1. \A k \in DOMAIN blockResults : blockResults[k] \in BlockResult
    BY DEF Base, TypeOK
  <2> QED
    BY <2>1 DEF Base, TypeOK, BlockResult, Block
<1>4. \A f \in Collections : f \in Fields /\ f \notin query.fieldsTested /\ targetValues[f] = Nil
  BY ScopeFieldsTested, CollectionsFacts DEF Base, ValueInv
<1>5. ASSUME NEW data \in ValueMap, NEW operation,
             targetValues' = targetValues \/ targetValues' = AccumulateValues(targetValues, data, operation)
      PROVE  \A f \in Collections : targetValues'[f] = Nil
  BY <1>3, <1>4, <1>5, Accumulated
<1>6. CASE DecidesAddition(name) \/ DecidesRemoval(name) \/ DecidesRestoration(name)
  <2>1. PICK operation :
            /\ operation = ADD => At(i) \in EnclosingLevels(name)
            /\ operation # ADD => blockResults[i].sourceBlock.operation = REMOVE
            /\ blockResults[i].source # 0
            /\ i \in DOMAIN blockResults
            /\ globalValues' = AccumulateValues(globalValues, blockResults[i].sourceBlock.data, operation)
            /\ DecidesAddition(name) => operation = ADD
    <3>1. CASE DecidesAddition(name)
      BY <3>1 DEF DecidesAddition, DecidesOne, Adds
    <3>2. CASE DecidesRemoval(name)
      <4>1. Settled(name, At(i))[1] # ADD
        BY DEF Settled, ADD, REMOVE, OUT_OF_SCOPE
      <4>2. ~DecidesAddition(name)
        BY <3>2 DEF DecidesRemoval, DecidesAddition, Adds, Removes, ADD, REMOVE
      <4> QED
        BY <3>2, <4>1, <4>2 DEF DecidesRemoval, DecidesOne, Removes
    <3>3. CASE DecidesRestoration(name)
      <4>1. ~DecidesAddition(name)
        BY <3>3 DEF DecidesRestoration, DecidesAddition, Adds, Removes, ADD, REMOVE
      <4>2. globalValues' = AccumulateValues(globalValues, blockResults[i].sourceBlock.data, REMOVE)
        BY <3>3, RestoredEntries
      <4> QED
        BY <3>3, <4>1, <4>2 DEF DecidesRestoration, Removes, ADD, REMOVE
    <3> QED
      BY <1>6, <3>1, <3>2, <3>3
  <2>2. blockResults[i].sourceBlock \in LevelBlock
    BY <2>1, LevelEntries DEF Base
  <2>3. /\ WorkspaceFits'
        /\ name[1] = "root" => globalValues'["projects"] = Nil
        /\ Held(globalValues["projects"]) \subseteq Held(globalValues'["projects"])
        /\ operation = ADD /\ "projects" \in query.fieldsTested =>
              Held(blockResults[i].sourceBlock.data["projects"]) \subseteq Held(globalValues'["projects"])
    <3>1. blockResults[i].sourceBlock.condition = At(i)
      BY DEF At
    <3> QED
      BY <2>1, <2>2, <3>1, DeclaredValues
  <2>4. \A f \in Collections : targetValues'[f] = Nil
    <3>1. CASE DecidesAddition(name) \/ DecidesRemoval(name)
      <4>1. PICK target : targetValues' = targetValues
                          \/ targetValues' = AccumulateValues(targetValues, blockResults[i].sourceBlock.data, target)
        BY <3>1 DEF DecidesAddition, DecidesRemoval, DecidesOne
      <4> QED
        BY <1>3, <1>5, <2>1, <4>1
    <3>2. CASE DecidesRestoration(name)
      <4>1. targetValues' = AccumulateValues(targetValues, ValuesToRestore(blockResults[i].sourceBlock), ADD)
        BY <3>2, RestoredEntries
      <4>2. ValuesToRestore(blockResults[i].sourceBlock) \in ValueMap
        BY <1>3, <2>1, RestoredType
      <4> QED
        BY <1>5, <4>1, <4>2
    <3> QED
      BY <1>6, <3>1, <3>2
  <2>5. \A k \in DOMAIN blockResults : blockResults[k].globalOperation = ADD =>
            \A p \in Projects : Has(k, "projects", p) /\ "projects" \in query.fieldsTested =>
                p \in Held(globalValues["projects"])
    BY DEF Base, ValueInv
  <2>6. ASSUME NEW k \in DOMAIN blockResults', blockResults'[k].globalOperation = ADD,
               NEW p \in Projects, p \in Held(blockResults'[k].sourceBlock.data["projects"]),
               "projects" \in query.fieldsTested
        PROVE  p \in Held(globalValues'["projects"])
    <3>1. CASE DecidesAddition(name) \/ DecidesRemoval(name)
      <4>1. /\ DOMAIN blockResults' = DOMAIN blockResults
            /\ blockResults'[k].sourceBlock = blockResults[k].sourceBlock
            /\ k # i => blockResults'[k] = blockResults[k]
        BY <2>6, <3>1 DEF DecidesAddition, DecidesRemoval, DecidesOne, SameBlocks
      <4>2. CASE k = i
        <5>1. DecidesAddition(name)
          <6>1. \A c : Settled(name, c)[1] # ADD
            BY DEF Settled, ADD, REMOVE, OUT_OF_SCOPE
          <6>2. DecidesRemoval(name) => blockResults'[i].globalOperation = Settled(name, At(i))[1]
            BY DEF DecidesRemoval, DecidesOne
          <6> QED
            BY <2>6, <3>1, <4>2, <6>1, <6>2
        <5> QED
          BY <2>1, <2>3, <2>6, <4>1, <4>2, <5>1
      <4>3. CASE k # i
        BY <2>3, <2>5, <2>6, <4>1, <4>3 DEF Has
      <4> QED
        BY <4>2, <4>3
    <3>2. CASE DecidesRestoration(name)
      <4>1. /\ k \in 1 .. Len(blockResults) + 1
            /\ DOMAIN blockResults = 1 .. Len(blockResults)
            /\ blockResults'[i].globalOperation = OUT_OF_SCOPE
            /\ blockResults'[i + 1].globalOperation = REMOVE
            /\ k # i => /\ Origin(k) \in 1 .. Len(blockResults)
                        /\ k # i + 1 => blockResults'[k] = blockResults[Origin(k)]
        BY <2>6, <3>2, RestoredEntries
      <4>2. k # i /\ k # i + 1
        BY <2>6, <4>1 DEF ADD, REMOVE, OUT_OF_SCOPE
      <4> QED
        BY <2>3, <2>5, <2>6, <4>1, <4>2 DEF Has
    <3> QED
      BY <1>6, <3>1, <3>2
  <2>7. name[1] \in {"project", "inheritingProject"} => name[2] \in Held(globalValues'["projects"])
    BY <2>3 DEF Base, ValueInv
  <2> QED
    BY <1>1, <2>3, <2>4, <2>6, <2>7 DEF ValueInv, Has
<1> QED
  BY <1>1, <1>2, <1>6

LEMMA BaseStep ==
    ASSUME NEW name \in StateNames, Base(name), [Next]_vars, UNCHANGED script
    PROVE  Base(name)'
<1>1. TypeOK' /\ WalkInv' /\ ScriptBlocksInOrder' /\ RestorationPrecedesRemoval'
  BY StepTypeOK, WalkInvStep, ScriptOrderStep, OrderStep DEF Base
<1>2. query' = query
  BY StepForms
<1>3. query' = QueryOf(StateOf(name), script') /\ script' \in Scripts
  BY <1>2 DEF Base
<1>4. VerdictInv(name)' /\ ValueInv(name)'
  BY VerdictStep, ValueStep
<1> QED
  BY <1>1, <1>3, <1>4 DEF Base

-----------------------------------------------------------------------------
(***************************************************************************)
(* What siblings remove is given back.                                     *)
(***************************************************************************)
\* The block is written for the project itself, and takes v away.
TakesForOwn(name, k, f, v) == Removes(k) /\ At(k) = InProject(name[2]) /\ Has(k, f, v)

\* What could be decided before a removal was.
ReadyFirst(name) ==
    \A n \in DOMAIN blockResults : Removes(n) /\ Decided(n) =>
        \A j \in DOMAIN blockResults :
            j < n /\ (Adds(j) \/ Removes(j)) /\ At(j) \in EnclosingLevels(name) => Decided(j)

\* A string that was added and removed again is given back below, or removed for the project.
GivenBack(name) ==
    \A f \in Collections : \A v \in Strings : \A j \in DOMAIN blockResults : \A n \in DOMAIN blockResults :
        /\ j < n
        /\ Adds(j) /\ Decided(j) /\ Has(j, f, v)
        /\ Removes(n) /\ blockResults[n].globalOperation = REMOVE /\ Has(n, f, v)
        => \E s \in DOMAIN blockResults :
               s > j /\ Has(s, f, v) /\ (blockResults[s].source = 0 \/ TakesForOwn(name, s, f, v))

\* What is given back was added, and was not removed for the project between.
RightlyBack(name) ==
    \A f \in Collections : \A v \in Strings : \A s \in DOMAIN blockResults :
        blockResults[s].source = 0 /\ Has(s, f, v) =>
            \E j \in DOMAIN blockResults :
                /\ Adds(j) /\ Decided(j) /\ Has(j, f, v)
                /\ \A k \in DOMAIN blockResults : TakesForOwn(name, k, f, v) /\ k > j => k > s

ProjectInv(name) ==
    name[1] = "project" => ReadyFirst(name) /\ GivenBack(name) /\ RightlyBack(name)

\* The walk does not pass over a block of a level that encloses the state.
LEMMA ReadyDecided ==
    ASSUME NEW name \in StateNames, Base(name), status = "running", name[1] = "project",
           NEW j \in DOMAIN blockResults, j < i, Adds(j) \/ Removes(j), At(j) \in EnclosingLevels(name)
    PROVE  Decided(j)
<1> SUFFICES ASSUME blockResults[j].globalOperation = UNKNOWN
             PROVE  FALSE
  BY DEF Decided
<1>1. TestBlock(blockResults[j].sourceBlock) = <<UNKNOWN, UNKNOWN>>
  BY DEF Base, WalkInv, PassedOverUpTo
<1>2. blockResults[j].sourceBlock \in LevelBlock
  BY LevelEntries DEF Base, Adds, Removes
<1>3. /\ blockResults[j].sourceBlock.condition = At(j)
      /\ At(j) \in Levels
      /\ blockResults[j].sourceBlock.operation \in {ADD, REMOVE}
  BY <1>2 DEF LevelBlock, Block, At
<1>4. /\ blockResults[j].sourceBlock.operation = ADD =>
            TestBlock(blockResults[j].sourceBlock) = AddVerdict(name, At(j))
      /\ blockResults[j].sourceBlock.operation # ADD =>
            TestBlock(blockResults[j].sourceBlock) =
                IF Open(At(j)) THEN RemoveVerdict(name, At(j)) ELSE <<UNKNOWN, UNKNOWN>>
  BY <1>3, Verdicts DEF Base, ValueInv
<1>5. Open(At(j))
  <2>1. At(j) \in {{}, InWorkspace, InProject(name[2])}
    BY DEF EnclosingLevels
  <2>2. ASSUME NEW p \in Projects, At(j) = InProject(p)
        PROVE  Finds(globalValues["projects"], p, TRUE)
    <3>1. p = name[2]
      BY <2>1, <2>2, LevelsDiffer
    <3>2. p \in Held(globalValues["projects"])
      BY <3>1 DEF Base, ValueInv
    <3> QED
      BY <3>2 DEF Held, Finds
  <2> QED
    BY <2>2 DEF Open
<1>6. \A a, b : <<a, b>> = <<UNKNOWN, UNKNOWN>> => a = UNKNOWN
  OBVIOUS
<1>7. AddVerdict(name, At(j)) # <<UNKNOWN, UNKNOWN>>
  BY <1>6 DEF AddVerdict, ADD, UNKNOWN
<1>8. RemoveVerdict(name, At(j)) # <<UNKNOWN, UNKNOWN>>
  BY <1>6 DEF RemoveVerdict, Settled, REMOVE, OUT_OF_SCOPE, UNKNOWN
<1> QED
  BY <1>1, <1>4, <1>5, <1>7, <1>8

\* The strings found for field f: added by an entry with no removal after it.
LEMMA FoundStrings ==
    ASSUME NEW f \in Collections, NEW v \in Strings
    PROVE  v \in FetchFieldValue(f) <=>
               \E j \in DOMAIN blockResults :
                   /\ blockResults[j].globalOperation = ADD /\ Has(j, f, v)
                   /\ \A k \in DOMAIN blockResults :
                         k > j /\ blockResults[k].globalOperation = REMOVE => ~Has(k, f, v)
<1> DEFINE ops == [k \in DOMAIN blockResults |->
                      [operation |-> blockResults[k].globalOperation,
                       data |-> IF blockResults[k].globalOperation \in {ADD, REMOVE}
                                THEN blockResults[k].sourceBlock.data ELSE EmptyMap]]
<1>1. f \in Fields /\ f \notin StringFields
  BY CollectionsFacts
<1>2. ADD # REMOVE
  BY DEF ADD, REMOVE
<1>3. /\ DOMAIN ops = DOMAIN blockResults
      /\ \A k \in DOMAIN blockResults : ops[k].operation = blockResults[k].globalOperation
      /\ \A k \in DOMAIN blockResults : blockResults[k].globalOperation \in {ADD, REMOVE} =>
            (v \in Held(ops[k].data[f]) <=> Has(k, f, v))
      /\ \A k \in DOMAIN blockResults : blockResults[k].globalOperation \notin {ADD, REMOVE} =>
            v \notin Held(ops[k].data[f])
  <2>1. v \notin Held(EmptyMap[f])
    BY <1>1 DEF EmptyMap, Held
  <2> QED
    BY <2>1 DEF Has
<1>4. v \in FetchFieldValue(f) <=>
          \E j \in DOMAIN ops :
              /\ ops[j].operation = ADD
              /\ v \in Held(ops[j].data[f])
              /\ \A k \in DOMAIN ops : k > j =>
                    IF ops[k].operation = ADD
                    THEN f \in StringFields => ops[k].data[f] = Nil
                    ELSE v \notin Held(ops[k].data[f])
  BY DEF FetchFieldValue, Survivors, SurvivorsOf
<1> HIDE DEF ops
<1>5. ASSUME NEW k \in DOMAIN blockResults
      PROVE  (IF ops[k].operation = ADD THEN f \in StringFields => ops[k].data[f] = Nil
              ELSE v \notin Held(ops[k].data[f]))
                <=> (blockResults[k].globalOperation = REMOVE => ~Has(k, f, v))
  BY <1>1, <1>2, <1>3
<1>6. ASSUME NEW k \in DOMAIN blockResults
      PROVE  ops[k].operation = ADD /\ v \in Held(ops[k].data[f]) <=>
                 blockResults[k].globalOperation = ADD /\ Has(k, f, v)
  BY <1>3
<1> QED
  BY <1>3, <1>4, <1>5, <1>6

LEMMA RestoredStrings ==
    ASSUME NEW block, NEW f \in Collections, NEW v \in Strings, targetValues[f] = Nil
    PROVE  v \in Held(ValuesToRestore(block)[f]) <=> v \in FetchFieldValue(f) /\ v \in Held(block.data[f])
<1> DEFINE missing == (FetchFieldValue(f) \cap Held(block.data[f])) \ Held(targetValues[f])
<1>1. ValuesToRestore(block)[f] = IF missing = {} THEN Nil ELSE missing
  BY CollectionsFacts DEF ValuesToRestore
<1>2. missing = FetchFieldValue(f) \cap Held(block.data[f])
  BY DEF Held
<1>3. missing # Nil
  <2>1. missing \subseteq Strings
    BY DEF FetchFieldValue, Survivors, SurvivorsOf
  <2> QED
    BY <2>1, FieldsAssumption
<1> HIDE DEF missing
<1>4. Held(ValuesToRestore(block)[f]) = missing
  BY <1>1, <1>3 DEF Held
<1> QED
  BY <1>2, <1>4

\* Which entry a decision makes global.
LEMMA GlobalAdds ==
    ASSUME NEW name, Base(name), NEW k \in DOMAIN blockResults
    PROVE  /\ blockResults[k].globalOperation = ADD <=> Adds(k) /\ Decided(k)
           /\ blockResults[k].globalOperation = REMOVE => Removes(k)
<1>1. EntryOK(name, blockResults[k])
  BY DEF Base, VerdictInv
<1>2. blockResults[k].source # 0 => blockResults[k].sourceBlock.operation \in {ADD, REMOVE}
  <2>1. blockResults[k] \in BlockResult
    BY DEF Base, TypeOK
  <2> QED
    BY <2>1 DEF BlockResult, Block
<1>3. \A c : Settled(name, c)[1] # ADD
  BY DEF Settled, ADD, REMOVE, OUT_OF_SCOPE
<1>4. <<blockResults[k].globalOperation, blockResults[k].targetOperation>>[1] = blockResults[k].globalOperation
  OBVIOUS
<1>5. CASE blockResults[k].source = 0
  BY <1>1, <1>5 DEF EntryOK, Adds, Removes, ADD, REMOVE, OUT_OF_SCOPE
<1>6. CASE Adds(k)
  BY <1>1, <1>6 DEF EntryOK, Adds, Removes, Decided, ADD, REMOVE, UNKNOWN
<1>7. CASE Removes(k)
  <2>1. blockResults[k].globalOperation # ADD
    BY <1>1, <1>3, <1>4, <1>7 DEF EntryOK, Removes, ADD, UNKNOWN
  <2> QED
    BY <1>7, <2>1 DEF Adds, Removes, ADD, REMOVE
<1> QED
  BY <1>2, <1>5, <1>6, <1>7 DEF Adds, Removes

\* What the project itself removes is global, as what its siblings remove is.
LEMMA OwnRemovals ==
    ASSUME NEW name \in StateNames, Base(name), name[1] = "project",
           NEW k \in DOMAIN blockResults, Removes(k), Decided(k), At(k) \notin {{}, InWorkspace}
    PROVE  blockResults[k].globalOperation = REMOVE
<1>1. EntryOK(name, blockResults[k])
  BY DEF Base, VerdictInv
<1>2. <<blockResults[k].globalOperation, blockResults[k].targetOperation>> = Settled(name, At(k))
  BY <1>1 DEF EntryOK, Removes, Decided, At
<1>3. At(k) \in EnclosingLevels(name) => At(k) \in ReachingLevels(name)
  BY DEF EnclosingLevels, ReachingLevels
<1>4. Settled(name, At(k))[1] = REMOVE
  BY <1>3 DEF Settled
<1> QED
  BY <1>2, <1>4

\* The list after an insertion, by the entries it had before.
MovedList ==
    LET n == Len(blockResults) IN
    /\ n \in Nat /\ i \in 1 .. n
    /\ DOMAIN blockResults = 1 .. n
    /\ DOMAIN blockResults' = 1 .. n + 1
    /\ \A m \in 1 .. n + 1 : m # i => \E k \in 1 .. n : m = Moved(k)
    /\ \A k \in 1 .. n :
          /\ Moved(k) \in 1 .. n + 1 /\ Moved(k) # i
          /\ blockResults'[Moved(k)].source = blockResults[k].source
          /\ blockResults'[Moved(k)].sourceBlock = blockResults[k].sourceBlock
          /\ k # i => blockResults'[Moved(k)] = blockResults[k]
    /\ \A k, l \in 1 .. n : k < l <=> Moved(k) < Moved(l)
    /\ Moved(i) = i + 1
    /\ \A k \in 1 .. n : k < i => Moved(k) = k
    /\ \A k \in 1 .. n : Moved(k) < i <=> k < i

LEMMA MovedEntries ==
    ASSUME NEW name \in StateNames, Base(name), DecidesRestoration(name), [Next]_vars
    PROVE  MovedList
<1> DEFINE n == Len(blockResults)
<1>1. /\ n \in Nat /\ i \in 1 .. n
      /\ DOMAIN blockResults = 1 .. n
      /\ DOMAIN blockResults' = 1 .. n + 1
      /\ \A k \in 1 .. n + 1 : k # i =>
            /\ Origin(k) \in 1 .. n
            /\ Moved(Origin(k)) = k
            /\ blockResults'[k].source = blockResults[Origin(k)].source
            /\ blockResults'[k].sourceBlock = blockResults[Origin(k)].sourceBlock
            /\ k # i + 1 => Origin(k) # i /\ blockResults'[k] = blockResults[Origin(k)]
      /\ \A k \in 1 .. n : Moved(k) \in 1 .. n + 1 /\ Moved(k) # i /\ Origin(Moved(k)) = k
  BY RestoredEntries
<1>2. \A k \in 1 .. n : k # i => Moved(k) # i + 1
  BY <1>1 DEF Moved
<1>3. \A k, l \in 1 .. n : k < l <=> Moved(k) < Moved(l)
  BY <1>1 DEF Moved
<1>4. /\ Moved(i) = i + 1
      /\ \A k \in 1 .. n : k < i => Moved(k) = k
      /\ \A k \in 1 .. n : Moved(k) < i <=> k < i
  BY <1>1 DEF Moved
<1>5. \A m \in 1 .. n + 1 : m # i => \E k \in 1 .. n : m = Moved(k)
  BY <1>1
<1>6. ASSUME NEW k \in 1 .. n
      PROVE  /\ Moved(k) \in 1 .. n + 1 /\ Moved(k) # i
             /\ blockResults'[Moved(k)].source = blockResults[k].source
             /\ blockResults'[Moved(k)].sourceBlock = blockResults[k].sourceBlock
             /\ k # i => blockResults'[Moved(k)] = blockResults[k]
  BY <1>1, <1>2
<1> QED
  BY <1>1, <1>3, <1>4, <1>5, <1>6 DEF MovedList

\* The list after one entry was decided.
OneDecided ==
    /\ status = "running"
    /\ i \in DOMAIN blockResults
    /\ DOMAIN blockResults' = DOMAIN blockResults
    /\ ~Decided(i)
    /\ blockResults'[i].globalOperation # UNKNOWN
    /\ blockResults[i].source # 0
    /\ \A k \in DOMAIN blockResults :
          /\ blockResults'[k].source = blockResults[k].source
          /\ blockResults'[k].sourceBlock = blockResults[k].sourceBlock
          /\ k # i => blockResults'[k] = blockResults[k]

LEMMA DecidedEntries ==
    ASSUME NEW name, DecidesAddition(name) \/ DecidesRemoval(name)
    PROVE  OneDecided
<1>1. \A c : Settled(name, c)[1] # UNKNOWN
  BY DEF Settled, REMOVE, OUT_OF_SCOPE, UNKNOWN
<1>2. PICK global, target : DecidesOne(global, target) /\ global # UNKNOWN
  BY <1>1 DEF DecidesAddition, DecidesRemoval, ADD, UNKNOWN
<1> QED
  BY <1>2 DEF DecidesOne, SameBlocks, OneDecided, DecidesAddition, DecidesRemoval, Adds, Removes, Decided

LEMMA ReadyStep ==
    ASSUME NEW name \in StateNames, Base(name), [Next]_vars, name[1] = "project", ReadyFirst(name)
    PROVE  ReadyFirst(name)'
<1>1. CASE UNCHANGED <<blockResults, targetValues, globalValues>>
  BY <1>1 DEF ReadyFirst, Adds, Removes, At, Decided
<1>2. CASE DecidesAddition(name) \/ DecidesRemoval(name)
  <2>1. OneDecided
    BY <1>2, DecidedEntries
  <2>2. ASSUME NEW n \in DOMAIN blockResults', Removes(n)', Decided(n)',
               NEW j \in DOMAIN blockResults', j < n, Adds(j)' \/ Removes(j)', At(j)' \in EnclosingLevels(name)
        PROVE  Decided(j)'
    <3>1. /\ n \in DOMAIN blockResults /\ j \in DOMAIN blockResults
          /\ Removes(n) /\ (Adds(j) \/ Removes(j)) /\ At(j) \in EnclosingLevels(name)
          /\ n # i => Decided(n)
          /\ Decided(j) => Decided(j)'
      BY <2>1, <2>2 DEF OneDecided, Adds, Removes, At, Decided
    <3>2. CASE n = i
      <4>1. Decided(j)
        BY <2>1, <2>2, <3>1, <3>2, ReadyDecided DEF OneDecided
      <4> QED
        BY <3>1, <4>1
    <3>3. CASE n # i
      BY <2>2, <3>1, <3>3 DEF ReadyFirst
    <3> QED
      BY <3>2, <3>3
  <2> QED
    BY <2>2 DEF ReadyFirst
<1>3. CASE DecidesRestoration(name)
  <2>1. MovedList
    BY <1>3, MovedEntries
  <2>2. /\ status = "running" /\ blockResults'[i].source = 0 /\ blockResults'[i + 1].globalOperation = REMOVE
    BY <1>3, RestoredEntries
  <2>3. ASSUME NEW n \in DOMAIN blockResults', Removes(n)', Decided(n)',
               NEW j \in DOMAIN blockResults', j < n, Adds(j)' \/ Removes(j)', At(j)' \in EnclosingLevels(name)
        PROVE  Decided(j)'
    <3>1. n # i /\ j # i
      BY <2>2, <2>3 DEF Adds, Removes
    <3>8. PICK nn \in DOMAIN blockResults : n = Moved(nn)
      BY <2>1, <2>3, <3>1 DEF MovedList
    <3>9. PICK jj \in DOMAIN blockResults : j = Moved(jj)
      BY <2>1, <2>3, <3>1 DEF MovedList
    <3>2. n = Moved(nn) /\ j = Moved(jj)
      BY <3>8, <3>9
    <3>3. /\ Removes(nn) /\ (Adds(jj) \/ Removes(jj)) /\ At(jj) \in EnclosingLevels(name)
          /\ jj < nn
          /\ nn # i => Decided(nn)
          /\ Decided(jj) /\ jj # i => Decided(j)'
      BY <2>1, <2>3, <3>2 DEF MovedList, Adds, Removes, At, Decided
    <3>4. jj = i => Decided(j)'
      BY <2>1, <2>2, <3>2 DEF MovedList, Decided, REMOVE, UNKNOWN
    <3>5. CASE nn = i
      <4>1. Decided(jj)
        BY <2>2, <3>3, <3>5, ReadyDecided
      <4> QED
        BY <3>3, <3>4, <4>1
    <3>6. CASE nn # i
      <4>1. Decided(jj)
        BY <3>3, <3>6 DEF ReadyFirst
      <4> QED
        BY <3>3, <3>4, <4>1
    <3> QED
      BY <3>5, <3>6
  <2> QED
    BY <2>3 DEF ReadyFirst
<1> QED
  BY <1>1, <1>2, <1>3, StepForms

LEMMA GivenStep ==
    ASSUME NEW name \in StateNames, Base(name), [Next]_vars, name[1] = "project",
           ReadyFirst(name), GivenBack(name)
    PROVE  GivenBack(name)'
<1>0. ADD # REMOVE /\ REMOVE # UNKNOWN
  BY DEF ADD, REMOVE, UNKNOWN
<1>1. CASE UNCHANGED <<blockResults, targetValues, globalValues>>
  BY <1>1 DEF GivenBack, Adds, Removes, At, Has, Decided, TakesForOwn
<1>2. CASE DecidesAddition(name) \/ DecidesRemoval(name)
  <2>1. OneDecided
    BY <1>2, DecidedEntries
  <2>2. ASSUME NEW f \in Collections, NEW v \in Strings,
               NEW j \in DOMAIN blockResults', NEW n \in DOMAIN blockResults', j < n,
               Adds(j)', Decided(j)', Has(j, f, v)',
               Removes(n)', blockResults'[n].globalOperation = REMOVE, Has(n, f, v)'
        PROVE  \E s \in DOMAIN blockResults' :
                   s > j /\ Has(s, f, v)' /\ (blockResults'[s].source = 0 \/ TakesForOwn(name, s, f, v)')
    <3>1. /\ n \in DOMAIN blockResults /\ j \in DOMAIN blockResults
          /\ Adds(j) /\ Has(j, f, v)
          /\ Removes(n) /\ Has(n, f, v)
          /\ n # i => blockResults[n].globalOperation = REMOVE
          /\ j # i => Decided(j)
      BY <2>1, <2>2 DEF OneDecided, Adds, Removes, Has, Decided
    <3>2. PICK s \in DOMAIN blockResults :
              s > j /\ Has(s, f, v) /\ (blockResults[s].source = 0 \/ TakesForOwn(name, s, f, v))
      <4>1. CASE n = i
        <5>1. DecidesRemoval(name)
          BY <1>0, <1>2, <3>1, <4>1 DEF DecidesAddition, Adds, Removes
        <5>2. Settled(name, At(i))[1] = REMOVE /\ ~Restores(name, At(i))
          BY <2>2, <4>1, <5>1 DEF DecidesRemoval, DecidesOne
        <5>3. At(i) \in ReachingLevels(name)
          <6> SUFFICES ASSUME At(i) \notin ReachingLevels(name)
                       PROVE  FALSE
            OBVIOUS
          <6>1. Settled(name, At(i)) = <<OUT_OF_SCOPE, REMOVE>>
            BY <5>2 DEF Settled, Restores
          <6> QED
            BY <5>2, <6>1 DEF OUT_OF_SCOPE, REMOVE
        <5>4. At(i) = InProject(name[2])
          BY <5>3 DEF ReachingLevels
        <5> QED
          BY <2>2, <3>1, <4>1, <5>4 DEF TakesForOwn
      <4>2. CASE n # i
        <5>1. Removes(n) /\ Decided(n)
          BY <1>0, <3>1, <4>2 DEF Decided
        <5>2. j # i
          <6> SUFFICES ASSUME j = i
                       PROVE  FALSE
            OBVIOUS
          <6>1. At(i) \in EnclosingLevels(name)
            BY <1>0, <1>2, <3>1 DEF DecidesAddition, DecidesRemoval, Adds, Removes
          <6>2. Decided(i)
            BY <2>2, <3>1, <5>1, <6>1 DEF ReadyFirst
          <6> QED
            BY <2>1, <6>2 DEF OneDecided
        <5> QED
          BY <2>2, <3>1, <4>2, <5>2 DEF GivenBack
      <4> QED
        BY <4>1, <4>2
    <3>3. Has(s, f, v)' /\ (blockResults'[s].source = 0 \/ TakesForOwn(name, s, f, v)')
      BY <2>1, <3>2 DEF OneDecided, Has, TakesForOwn, Removes, At
    <3> QED
      BY <2>1, <3>2, <3>3 DEF OneDecided
  <2> QED
    BY <2>2 DEF GivenBack
<1>3. CASE DecidesRestoration(name)
  <2>1. MovedList
    BY <1>3, MovedEntries
  <2>2. /\ status = "running" /\ blockResults'[i].source = 0
        /\ blockResults'[i].sourceBlock.data = ValuesToRestore(blockResults[i].sourceBlock)
        /\ Removes(i)
    BY <1>3, RestoredEntries DEF DecidesRestoration
  <2>3. ASSUME NEW f \in Collections, NEW v \in Strings,
               NEW j \in DOMAIN blockResults', NEW n \in DOMAIN blockResults', j < n,
               Adds(j)', Decided(j)', Has(j, f, v)',
               Removes(n)', blockResults'[n].globalOperation = REMOVE, Has(n, f, v)'
        PROVE  \E s \in DOMAIN blockResults' :
                   s > j /\ Has(s, f, v)' /\ (blockResults'[s].source = 0 \/ TakesForOwn(name, s, f, v)')
    <3>1. n # i /\ j # i
      BY <2>2, <2>3 DEF Adds, Removes
    <3>2. PICK nn \in DOMAIN blockResults : n = Moved(nn)
      BY <2>1, <2>3, <3>1 DEF MovedList
    <3>3. PICK jj \in DOMAIN blockResults : j = Moved(jj)
      BY <2>1, <2>3, <3>1 DEF MovedList
    <3>4. /\ Adds(jj) /\ Has(jj, f, v)
          /\ Removes(nn) /\ Has(nn, f, v)
          /\ nn # i => blockResults[nn].globalOperation = REMOVE
          /\ jj < nn
      BY <2>1, <2>3, <3>2, <3>3 DEF MovedList, Adds, Removes, Has
    <3>5. jj # i /\ Decided(jj)
      <4>1. jj # i
        BY <1>0, <2>2, <3>4 DEF Adds, Removes
      <4> QED
        BY <2>1, <2>3, <3>3, <4>1 DEF MovedList, Decided
    <3>6. CASE \E k \in DOMAIN blockResults :
                   /\ jj < k /\ Removes(k) /\ blockResults[k].globalOperation = REMOVE /\ Has(k, f, v)
      <4>1. PICK s \in DOMAIN blockResults :
                s > jj /\ Has(s, f, v) /\ (blockResults[s].source = 0 \/ TakesForOwn(name, s, f, v))
        BY <3>4, <3>5, <3>6 DEF GivenBack
      <4>5. PICK m \in DOMAIN blockResults' : m = Moved(s)
        BY <2>1 DEF MovedList
      <4>2. Has(m, f, v)' /\ (blockResults'[m].source = 0 \/ TakesForOwn(name, m, f, v)')
        BY <2>1, <4>1, <4>5 DEF MovedList, Has, TakesForOwn, Removes, At
      <4>3. m \in DOMAIN blockResults' /\ jj < s
        BY <2>1, <4>1 DEF MovedList
      <4>4. m > j
        <5>1. Moved(jj) < Moved(s)
          BY <2>1, <4>3 DEF MovedList
        <5> QED
          BY <2>1, <3>3, <4>5, <5>1 DEF MovedList
      <4> QED
        BY <4>2, <4>3, <4>4
    <3>7. CASE ~\E k \in DOMAIN blockResults :
                   /\ jj < k /\ Removes(k) /\ blockResults[k].globalOperation = REMOVE /\ Has(k, f, v)
      <4>1. nn = i
        BY <3>4, <3>7
      <4>2. blockResults[jj].globalOperation = ADD
        BY <3>4, <3>5, GlobalAdds
      <4>3. ASSUME NEW k \in DOMAIN blockResults, k > jj, blockResults[k].globalOperation = REMOVE, Has(k, f, v)
            PROVE  FALSE
        <5>1. Removes(k)
          BY <4>3, GlobalAdds
        <5>2. jj < k
          BY <2>1, <4>3 DEF MovedList
        <5> QED
          BY <3>7, <4>3, <5>1, <5>2
      <4>4. v \in FetchFieldValue(f)
        BY <3>4, <4>2, <4>3, FoundStrings
      <4>5. v \in Held(blockResults[i].sourceBlock.data[f])
        BY <3>4, <4>1 DEF Has
      <4>6. targetValues[f] = Nil
        BY DEF Base, ValueInv
      <4>7. v \in Held(ValuesToRestore(blockResults[i].sourceBlock)[f])
        BY <4>4, <4>5, <4>6, RestoredStrings
      <4>9. PICK s \in DOMAIN blockResults' : s = i /\ s > j
        BY <2>1, <3>3, <3>4, <4>1 DEF MovedList
      <4>8. Has(s, f, v)' /\ blockResults'[s].source = 0
        BY <2>2, <4>7, <4>9 DEF Has
      <4> QED
        BY <4>8, <4>9
    <3> QED
      BY <3>6, <3>7
  <2> QED
    BY <2>3 DEF GivenBack
<1> QED
  BY <1>1, <1>2, <1>3, StepForms

LEMMA RightlyStep ==
    ASSUME NEW name \in StateNames, Base(name), [Next]_vars, name[1] = "project", RightlyBack(name)
    PROVE  RightlyBack(name)'
<1>0. ADD # REMOVE /\ ADD # UNKNOWN
  BY DEF ADD, REMOVE, UNKNOWN
<1>1. CASE UNCHANGED <<blockResults, targetValues, globalValues>>
  BY <1>1 DEF RightlyBack, Adds, Removes, At, Has, Decided, TakesForOwn
<1>2. CASE DecidesAddition(name) \/ DecidesRemoval(name)
  <2>1. OneDecided
    BY <1>2, DecidedEntries
  <2>2. ASSUME NEW f \in Collections, NEW v \in Strings, NEW s \in DOMAIN blockResults',
               blockResults'[s].source = 0, Has(s, f, v)'
        PROVE  \E j \in DOMAIN blockResults' :
                   /\ Adds(j)' /\ Decided(j)' /\ Has(j, f, v)'
                   /\ \A k \in DOMAIN blockResults' : TakesForOwn(name, k, f, v)' /\ k > j => k > s
    <3>1. s \in DOMAIN blockResults /\ blockResults[s].source = 0 /\ Has(s, f, v)
      BY <2>1, <2>2 DEF OneDecided, Has
    <3>2. PICK j \in DOMAIN blockResults :
              /\ Adds(j) /\ Decided(j) /\ Has(j, f, v)
              /\ \A k \in DOMAIN blockResults : TakesForOwn(name, k, f, v) /\ k > j => k > s
      BY <3>1 DEF RightlyBack
    <3>3. Adds(j)' /\ Decided(j)' /\ Has(j, f, v)'
      BY <2>1, <3>2 DEF OneDecided, Adds, Decided, Has
    <3>4. \A k \in DOMAIN blockResults : TakesForOwn(name, k, f, v)' => TakesForOwn(name, k, f, v)
      BY <2>1 DEF OneDecided, TakesForOwn, Removes, At, Has
    <3> QED
      BY <2>1, <3>2, <3>3, <3>4 DEF OneDecided
  <2> QED
    BY <2>2 DEF RightlyBack
<1>3. CASE DecidesRestoration(name)
  <2>1. MovedList
    BY <1>3, MovedEntries
  <2>2. /\ status = "running" /\ blockResults'[i].source = 0
        /\ blockResults'[i].sourceBlock.data = ValuesToRestore(blockResults[i].sourceBlock)
        /\ Removes(i)
    BY <1>3, RestoredEntries DEF DecidesRestoration
  <2>3. ASSUME NEW f \in Collections, NEW v \in Strings, NEW s \in DOMAIN blockResults',
               blockResults'[s].source = 0, Has(s, f, v)'
        PROVE  \E j \in DOMAIN blockResults' :
                   /\ Adds(j)' /\ Decided(j)' /\ Has(j, f, v)'
                   /\ \A k \in DOMAIN blockResults' : TakesForOwn(name, k, f, v)' /\ k > j => k > s
    <3>1. PICK j \in DOMAIN blockResults :
              /\ Adds(j) /\ Decided(j) /\ Has(j, f, v)
              /\ \A k \in DOMAIN blockResults : TakesForOwn(name, k, f, v) /\ k > j => Moved(k) > s
      <4>1. CASE s = i
        <5>1. v \in Held(ValuesToRestore(blockResults[i].sourceBlock)[f])
          BY <2>2, <2>3, <4>1 DEF Has
        <5>2. v \in FetchFieldValue(f)
          <6>1. targetValues[f] = Nil
            BY DEF Base, ValueInv
          <6> QED
            BY <5>1, <6>1, RestoredStrings
        <5>3. PICK j \in DOMAIN blockResults :
                  /\ blockResults[j].globalOperation = ADD /\ Has(j, f, v)
                  /\ \A k \in DOMAIN blockResults :
                        k > j /\ blockResults[k].globalOperation = REMOVE => ~Has(k, f, v)
          BY <5>2, FoundStrings
        <5>4. Adds(j) /\ Decided(j)
          BY <5>3, GlobalAdds
        <5>5. ASSUME NEW k \in DOMAIN blockResults, TakesForOwn(name, k, f, v), k > j, k < i
              PROVE  FALSE
          <6>1. At(k) = InProject(name[2]) /\ Removes(k) /\ Has(k, f, v)
            BY <5>5 DEF TakesForOwn
          <6>2. At(k) \in EnclosingLevels(name) /\ At(k) \notin {{}, InWorkspace}
            BY <6>1, LevelsDiffer DEF EnclosingLevels
          <6>3. Decided(k)
            BY <2>2, <5>5, <6>1, <6>2, ReadyDecided
          <6>4. blockResults[k].globalOperation = REMOVE
            BY <6>1, <6>2, <6>3, OwnRemovals
          <6> QED
            BY <5>3, <5>5, <6>1, <6>4
        <5>6. ASSUME NEW k \in DOMAIN blockResults, TakesForOwn(name, k, f, v), k > j
              PROVE  Moved(k) > s
          <6>1. ~(k < i)
            BY <5>5, <5>6
          <6>2. ~(Moved(k) < i) /\ Moved(k) # i /\ Moved(k) \in Nat /\ i \in Nat
            BY <2>1, <6>1 DEF MovedList
          <6> QED
            BY <4>1, <6>2
        <5> QED
          BY <5>3, <5>4, <5>6
      <4>2. CASE s # i
        <5>1. PICK ss \in DOMAIN blockResults : s = Moved(ss)
          BY <2>1, <2>3, <4>2 DEF MovedList
        <5>2. blockResults[ss].source = 0 /\ Has(ss, f, v)
          BY <2>1, <2>3, <5>1 DEF MovedList, Has
        <5>3. PICK j \in DOMAIN blockResults :
                  /\ Adds(j) /\ Decided(j) /\ Has(j, f, v)
                  /\ \A k \in DOMAIN blockResults : TakesForOwn(name, k, f, v) /\ k > j => k > ss
          BY <5>2 DEF RightlyBack
        <5>4. ASSUME NEW k \in DOMAIN blockResults, TakesForOwn(name, k, f, v), k > j
              PROVE  Moved(k) > s
          <6>1. k > ss
            BY <5>3, <5>4
          <6> QED
            BY <2>1, <5>1, <6>1 DEF MovedList
        <5> QED
          BY <5>3, <5>4
      <4> QED
        BY <4>1, <4>2
    <3>2. j # i
      BY <1>0, <2>2, <3>1 DEF Adds, Removes
    <3>5. PICK n \in DOMAIN blockResults' : n = Moved(j)
      BY <2>1 DEF MovedList
    <3>3. Adds(n)' /\ Decided(n)' /\ Has(n, f, v)'
      BY <2>1, <3>1, <3>2, <3>5 DEF MovedList, Adds, Decided, Has
    <3>4. ASSUME NEW m \in DOMAIN blockResults', TakesForOwn(name, m, f, v)', m > n
          PROVE  m > s
      <4>1. m # i
        BY <2>2, <3>4 DEF TakesForOwn, Removes
      <4>2. PICK k \in DOMAIN blockResults : m = Moved(k)
        BY <2>1, <3>4, <4>1 DEF MovedList
      <4>3. TakesForOwn(name, k, f, v)
        BY <2>1, <3>4, <4>2 DEF MovedList, TakesForOwn, Removes, At, Has
      <4>4. k > j
        BY <2>1, <3>4, <3>5, <4>2 DEF MovedList
      <4> QED
        BY <3>1, <4>2, <4>3, <4>4
    <3> QED
      BY <3>3, <3>4
  <2> QED
    BY <2>3 DEF RightlyBack
<1> QED
  BY <1>1, <1>2, <1>3, StepForms

LEMMA ProjectStep ==
    ASSUME NEW name \in StateNames, Base(name), ProjectInv(name), [Next]_vars
    PROVE  ProjectInv(name)'
  BY ReadyStep, GivenStep, RightlyStep DEF ProjectInv

-----------------------------------------------------------------------------
(***************************************************************************)
(* A query begins.                                                         *)
(***************************************************************************)
\* Values that seed a state, and the last of its global scopes, which any block tests.
SeededBy(name) ==
    /\ StateOf(name) \in StateScopesType
    /\ \E k \in DOMAIN StateOf(name).globalScopes : StateOf(name).globalScopes[k] = EmptyMap
    /\ name[1] = "root" => StateOf(name).initialValues = EmptyMap
    /\ name[1] \in {"workspace", "inheritingWorkspace"} => StateOf(name).initialValues = InW
    /\ name[1] \in {"project", "inheritingProject"} =>
          name[2] \in Projects /\ StateOf(name).initialValues = InWP(name[2])

LEMMA Singles ==
    ASSUME NEW S, NEW a \in S
    PROVE  <<a>> \in Seq(S)
  OBVIOUS

LEMMA SeedOfState ==
    ASSUME NEW name \in StateNames
    PROVE  SeededBy(name)
<1>1. Workspace \in Strings /\ Projects \subseteq Strings
  BY HierarchyAssumption
<1>2. EmptyMap \in ValueMap /\ InW \in ValueMap
  BY <1>1, EmptyMapType, ScopeFacts DEF InW
<1>3. ASSUME NEW p \in Projects
      PROVE  InP(p) \in ValueMap /\ InWP(p) \in ValueMap
  BY <1>1, ScopeFacts, Merges DEF InP
<1>4. CASE name[1] = "root" /\ StateOf(name) = RootState
  <2>1. RootState \in StateScopesType /\ RootState.globalScopes[1] = EmptyMap
        /\ 1 \in DOMAIN RootState.globalScopes /\ RootState.initialValues = EmptyMap
    <3>1. <<EmptyMap>> \in Seq(ValueMap) /\ <<EmptyMap>>[1] = EmptyMap /\ 1 \in DOMAIN <<EmptyMap>>
      BY <1>2
    <3> QED
      BY <1>2, <3>1, RootShape DEF StateScopesType
  <2> QED
    BY <1>4, <2>1 DEF SeededBy
<1>5. CASE name[1] = "workspace" /\ StateOf(name) = WorkspaceState
  <2>1. WorkspaceState \in StateScopesType /\ WorkspaceState.globalScopes[2] = EmptyMap
        /\ 2 \in DOMAIN WorkspaceState.globalScopes /\ WorkspaceState.initialValues = InW
    <3>1. <<InW>> \in Seq(ValueMap) /\ <<InW, EmptyMap>> \in Seq(ValueMap)
          /\ <<InW, EmptyMap>>[2] = EmptyMap /\ 2 \in DOMAIN <<InW, EmptyMap>>
      BY <1>2
    <3> QED
      BY <1>2, <3>1, WorkspaceShape DEF StateScopesType
  <2> QED
    BY <1>5, <2>1 DEF SeededBy
<1>6. CASE name[1] = "inheritingWorkspace" /\ StateOf(name) = InheritingWorkspace
  <2>1. InheritingWorkspace \in StateScopesType /\ InheritingWorkspace.globalScopes[2] = EmptyMap
        /\ 2 \in DOMAIN InheritingWorkspace.globalScopes /\ InheritingWorkspace.initialValues = InW
    <3>1. <<InW>> \in Seq(ValueMap) /\ <<InW, EmptyMap>> \in Seq(ValueMap)
          /\ <<InW, EmptyMap>>[2] = EmptyMap /\ 2 \in DOMAIN <<InW, EmptyMap>>
      BY <1>2
    <3> QED
      BY <1>2, <3>1, InheritingWorkspaceShape DEF StateScopesType
  <2> QED
    BY <1>6, <2>1 DEF SeededBy
<1>7. ASSUME NEW p \in Projects, NEW targets \in Seq(ValueMap), NEW state,
             state = [initialValues |-> InWP(p), localScopes |-> <<InP(p)>>,
                      targetScopes |-> targets,
                      globalScopes |-> <<InWP(p), InW, InP(p), EmptyMap>>]
      PROVE  state \in StateScopesType /\ state.globalScopes[4] = EmptyMap
             /\ 4 \in DOMAIN state.globalScopes /\ state.initialValues = InWP(p)
  <2>1. PICK global : global = <<InWP(p), InW, InP(p), EmptyMap>>
    OBVIOUS
  <2>2. global \in Seq(ValueMap) /\ global[4] = EmptyMap /\ 4 \in DOMAIN global
    BY <1>2, <1>3, <2>1
  <2>3. <<InP(p)>> \in Seq(ValueMap)
    BY <1>3, Singles
  <2> QED
    BY <1>3, <1>7, <2>1, <2>2, <2>3 DEF StateScopesType
<1>8. CASE name[1] = "project" /\ name[2] \in Projects /\ StateOf(name) = ProjectState(name[2])
  <2>1. PICK p \in Projects : p = name[2]
    BY <1>8
  <2>2. <<InWP(p)>> \in Seq(ValueMap)
    BY <1>3, Singles
  <2>3. ProjectState(p) \in StateScopesType /\ ProjectState(p).globalScopes[4] = EmptyMap
        /\ 4 \in DOMAIN ProjectState(p).globalScopes /\ ProjectState(p).initialValues = InWP(p)
    BY <1>7, <2>2, ProjectShape
  <2> QED
    BY <1>8, <2>1, <2>3 DEF SeededBy
<1>9. CASE name[1] = "inheritingProject" /\ name[2] \in Projects /\ StateOf(name) = InheritingProject(name[2])
  <2>1. PICK p \in Projects : p = name[2]
    BY <1>9
  <2>2. <<InWP(p), InP(p), InW, EmptyMap>> \in Seq(ValueMap)
    BY <1>2, <1>3
  <2>3. InheritingProject(p) \in StateScopesType /\ InheritingProject(p).globalScopes[4] = EmptyMap
        /\ 4 \in DOMAIN InheritingProject(p).globalScopes /\ InheritingProject(p).initialValues = InWP(p)
    BY <1>7, <2>2, InheritingProjectShape
  <2> QED
    BY <1>9, <2>1, <2>3 DEF SeededBy
<1> QED
  BY <1>4, <1>5, <1>6, <1>8, <1>9, NameKinds

LEMMA QueryTyped ==
    ASSUME NEW name \in StateNames, NEW s \in Scripts
    PROVE  QueryOf(StateOf(name), s) \in QueryType
<1>1. StateOf(name) \in StateScopesType
  BY SeedOfState DEF SeededBy
<1>2. s \in Seq(LevelBlock)
  BY HierarchyAssumption
<1>3. LevelBlock \subseteq Block
  BY DEF LevelBlock
<1>4. s \in Seq(Block)
  BY <1>2, <1>3
<1>5. UNION {FieldsTested(s[k].condition) : k \in DOMAIN s} \subseteq Fields
  <2>1. ASSUME NEW k \in DOMAIN s
        PROVE  FieldsTested(s[k].condition) \subseteq Fields
    <3>1. s[k].condition \in Levels
      BY <1>2 DEF LevelBlock
    <3> QED
      BY <3>1, InLevels, FieldsOfLevels, CollectionsFacts
  <2> QED
    BY <2>1
<1> QED
  BY <1>1, <1>4, <1>5 DEF QueryOf, QueryType, StateScopesType

\* The invariant of one query, and what holds for projects besides.
Sound(name) == Base(name) /\ ProjectInv(name)

SoundAtFirst ==
    \A name \in StateNames : script \in Scripts /\ Begins(QueryOf(StateOf(name), script)) => Sound(name)

LEMMA BeginsSound == SoundAtFirst
<1> SUFFICES ASSUME NEW name \in StateNames, script \in Scripts, Begins(QueryOf(StateOf(name), script))
             PROVE  Sound(name)
  BY DEF SoundAtFirst
<1>1. PICK q \in QueryType : q = QueryOf(StateOf(name), script)
  BY QueryTyped
<1>2. /\ q.blocks = script
      /\ q.initialValues = StateOf(name).initialValues
      /\ q.globalScopes = StateOf(name).globalScopes
  BY <1>1, QueryFields
<1>3. /\ query = q
      /\ blockResults = InitialResults(q)
      /\ i = 1
      /\ targetValues = q.initialValues
      /\ globalValues = q.initialValues
      /\ status = "running"
  BY <1>1 DEF Begins
<1>4. SeededBy(name)
  BY SeedOfState
<1>5. TypeOK
  <2>1. q.initialValues \in ValueMap
    BY DEF QueryType
  <2>2. InitialResults(q) \in Seq(BlockResult)
    BY InitialResultsType
  <2> QED
    BY <1>3, <2>1, <2>2 DEF TypeOK
<1>6. WalkInv
  <2>1. blockResults \in Seq(BlockResult)
    BY <1>5 DEF TypeOK
  <2> QED
    BY <1>3, <2>1, NothingBeforeFirst DEF WalkInv
<1>7. /\ DOMAIN blockResults = DOMAIN script
      /\ \A k \in DOMAIN blockResults :
            /\ blockResults[k].source = k
            /\ blockResults[k].source # 0
            /\ blockResults[k].sourceBlock = script[k]
            /\ blockResults[k].targetOperation = RuledOut(script[k], q.targetScopes)
            /\ blockResults[k].globalOperation = RuledOut(script[k], q.globalScopes)
  <2>1. DOMAIN blockResults = DOMAIN script
    BY <1>2, <1>3 DEF InitialResults
  <2>2. ASSUME NEW k \in DOMAIN blockResults
        PROVE  /\ blockResults[k].source = k
               /\ blockResults[k].sourceBlock = script[k]
               /\ blockResults[k].targetOperation = RuledOut(script[k], q.targetScopes)
               /\ blockResults[k].globalOperation = RuledOut(script[k], q.globalScopes)
    <3>1. PICK t : t = RuledOut(script[k], q.targetScopes)
      OBVIOUS
    <3>2. PICK g : g = RuledOut(script[k], q.globalScopes)
      OBVIOUS
    <3>3. blockResults[k] = [source |-> k, sourceBlock |-> script[k], targetOperation |-> t, globalOperation |-> g]
      BY <1>2, <1>3, <2>1, <3>1, <3>2 DEF InitialResults
    <3> QED
      BY <3>1, <3>2, <3>3
  <2>3. \A k \in DOMAIN script : k # 0
    BY HierarchyAssumption
  <2> QED
    BY <2>1, <2>2, <2>3
<1>8. ScriptBlocksInOrder
  BY <1>2, <1>3, <1>7 DEF ScriptBlocksInOrder
<1>9. RestorationPrecedesRemoval
  BY <1>7 DEF RestorationPrecedesRemoval
<1>10. ASSUME NEW k \in DOMAIN blockResults
       PROVE  /\ blockResults[k].globalOperation = UNKNOWN
              /\ blockResults[k].targetOperation \in {UNKNOWN, OUT_OF_SCOPE}
              /\ blockResults[k].sourceBlock.operation # ADD => blockResults[k].targetOperation = UNKNOWN
  <2>1. DoesTestScopeValues(script[k].condition, q.globalScopes)
    <3>1. TestsScope(script[k].condition, EmptyMap)
      BY TestsOfScopes, HierarchyAssumption
    <3> QED
      BY <1>2, <1>4, <3>1 DEF DoesTestScopeValues, SeededBy
  <2> QED
    BY <1>7, <2>1 DEF RuledOut
<1>11. VerdictInv(name)
  BY <1>7, <1>10 DEF VerdictInv, EntryOK, ADD, REMOVE, UNKNOWN, OUT_OF_SCOPE
<1>12. ValueInv(name)
  <2>1. /\ globalValues = StateOf(name).initialValues
        /\ targetValues = StateOf(name).initialValues
    BY <1>2, <1>3
  <2>2. \A k \in DOMAIN blockResults : blockResults[k].globalOperation # ADD
    BY <1>10 DEF ADD, UNKNOWN
  <2>3. \A f \in Collections : f \in Fields /\ f \notin {"workspaces", "projects"}
    BY CollectionsFacts
  <2>4. CASE globalValues = EmptyMap /\ name[1] = "root"
    <3>1. Workspace \in Strings
      BY HierarchyAssumption
    <3>2. EmptyMap["workspaces"] = Nil /\ EmptyMap["projects"] = Nil /\ \A f \in Collections : EmptyMap[f] = Nil
      BY <2>3, <3>1, ScopeValues
    <3> QED
      BY <2>1, <2>2, <2>4, <3>2 DEF ValueInv, WorkspaceFits
  <2>5. CASE globalValues = InW /\ name[1] \in {"workspace", "inheritingWorkspace"}
    <3>1. Workspace \in Strings
      BY HierarchyAssumption
    <3>2. InW["workspaces"] = {Workspace} /\ \A f \in Collections : InW[f] = Nil
      BY <2>3, <3>1, ScopeValues
    <3> QED
      BY <2>1, <2>2, <2>5, <3>2 DEF ValueInv, WorkspaceFits
  <2>6. CASE name[2] \in Projects /\ globalValues = InWP(name[2]) /\ name[1] \in {"project", "inheritingProject"}
    <3>1. PICK p \in Strings : p = name[2]
      BY <2>6, HierarchyAssumption
    <3>2. InWP(p)["workspaces"] = {Workspace} /\ InWP(p)["projects"] = {p} /\ {p} # Nil
          /\ \A f \in Collections : InWP(p)[f] = Nil
      BY <2>3, ScopeValues
    <3>3. p \in Held(InWP(p)["projects"])
      BY <3>2 DEF Held
    <3> QED
      BY <2>1, <2>2, <2>6, <3>1, <3>2, <3>3 DEF ValueInv, WorkspaceFits
  <2> QED
    BY <1>4, <2>1, <2>4, <2>5, <2>6, NameKinds DEF SeededBy
<1>13. ProjectInv(name)
  BY <1>7, <1>10 DEF ProjectInv, ReadyFirst, GivenBack, RightlyBack, Decided
<1> QED
  BY <1>1, <1>3, <1>5, <1>6, <1>8, <1>9, <1>11, <1>12, <1>13 DEF Sound, Base

LEMMA BeginsNextSound ==
    ASSUME NEW name \in StateNames, script \in Scripts, UNCHANGED script,
           BeginNext(QueryOf(StateOf(name), script))
    PROVE  Sound(name)'
<1>1. SoundAtFirst'
  BY BeginsSound, PTL
<1>2. Begins(QueryOf(StateOf(name), script))'
  BY DEF Begins, BeginNext
<1>3. script' \in Scripts
  OBVIOUS
<1> QED
  BY <1>1, <1>2, <1>3 DEF SoundAtFirst

-----------------------------------------------------------------------------
(***************************************************************************)
(* A query is done: every block has its verdict.                           *)
(***************************************************************************)
AllSettled(name) ==
    \A k \in DOMAIN blockResults :
        /\ Adds(k) /\ At(k) \in EnclosingLevels(name) => Decided(k)
        /\ Adds(k) => /\ blockResults[k].targetOperation # REMOVE
                      /\ blockResults[k].targetOperation = ADD <=> At(k) \in AddingLevels(name)
        /\ Removes(k) => /\ blockResults[k].globalOperation = Settled(name, At(k))[1]
                         /\ blockResults[k].targetOperation = Settled(name, At(k))[2]
        /\ blockResults[k].source = 0 \/ Adds(k) \/ Removes(k)

LEMMA AddingEncloses ==
    ASSUME NEW name \in StateNames
    PROVE  AddingLevels(name) \subseteq EnclosingLevels(name)
  BY NameKinds DEF AddingLevels, EnclosingLevels

\* A block that passes the test when all is done has been decided.
LEMMA AddsDecided ==
    ASSUME NEW name \in StateNames, Base(name), status = "done",
           NEW k \in DOMAIN blockResults, Adds(k), At(k) \in EnclosingLevels(name)
    PROVE  Decided(k)
<1> SUFFICES ASSUME blockResults[k].globalOperation = UNKNOWN
             PROVE  FALSE
  BY DEF Decided
<1>1. TestBlock(blockResults[k].sourceBlock) = <<UNKNOWN, UNKNOWN>>
  <2>1. k < Len(blockResults) + 1
    BY LenProperties DEF Base, TypeOK
  <2> QED
    BY <2>1, WalkInvSaturated DEF Base, Saturated, PassedOverUpTo
<1>2. blockResults[k].sourceBlock \in LevelBlock
  BY LevelEntries DEF Base, Adds
<1>3. /\ blockResults[k].sourceBlock.condition = At(k)
      /\ At(k) \in Levels
      /\ blockResults[k].sourceBlock.operation = ADD
  BY <1>2 DEF LevelBlock, At, Adds
<1>4. TestBlock(blockResults[k].sourceBlock) = AddVerdict(name, At(k))
  BY <1>3, Verdicts DEF Base, ValueInv
<1>5. \A a, b : <<a, b>> = <<UNKNOWN, UNKNOWN>> => a = UNKNOWN
  OBVIOUS
<1> QED
  BY <1>1, <1>4, <1>5 DEF AddVerdict, ADD, UNKNOWN

LEMMA AllOpen ==
    ASSUME NEW name \in StateNames, Base(name), status = "done",
           NEW k \in DOMAIN blockResults, Removes(k)
    PROVE  Open(At(k))
<1> SUFFICES ASSUME NEW p \in Projects, At(k) = InProject(p)
             PROVE  Finds(globalValues["projects"], p, TRUE)
  BY DEF Open
<1>1. CASE name[1] = "root"
  BY <1>1 DEF Base, ValueInv, Finds
<1>2. CASE name[1] # "root"
  <2>1. PICK n \in DOMAIN script : p \in Held(script[n].data["projects"])
    BY HierarchyAssumption DEF Base
  <2>2. script[n] \in LevelBlock
    BY HierarchyAssumption DEF Base
  <2>3. script[n].condition = InWorkspace /\ script[n].operation = ADD
    <3>1. script[n].data["projects"] # Nil
      BY <2>1 DEF Held
    <3> QED
      BY <2>2, <3>1 DEF LevelBlock, Block
  <2>4. query.blocks = script
    BY QueryFields DEF Base
  <2>5. PICK m \in DOMAIN blockResults : blockResults[m].source = n
    BY <2>4 DEF Base, ScriptBlocksInOrder
  <2>6. n # 0
    BY HierarchyAssumption DEF Base
  <2>7. blockResults[m].sourceBlock = script[n]
    BY <2>5, <2>6, LevelEntries DEF Base
  <2>8. Adds(m) /\ At(m) = InWorkspace /\ Has(m, "projects", p)
    BY <2>1, <2>3, <2>5, <2>6, <2>7 DEF Adds, At, Has
  <2>9. InWorkspace \in EnclosingLevels(name)
    BY <1>2 DEF EnclosingLevels
  <2>10. blockResults[m].globalOperation = ADD
    <3>1. Decided(m)
      BY <2>8, <2>9, AddsDecided
    <3> QED
      BY <2>8, <3>1, GlobalAdds
  <2>11. "projects" \in query.fieldsTested
    <3>1. blockResults[k].source \in DOMAIN script /\ script[blockResults[k].source].condition = At(k)
      BY LevelEntries DEF Base, Removes, At
    <3>2. "projects" \in FieldsTested(At(k))
      BY FieldsOfLevels
    <3> QED
      BY <3>1, <3>2, ScopeFieldsTested DEF Base
  <2>12. p \in Held(globalValues["projects"])
    BY <2>8, <2>10, <2>11 DEF Base, ValueInv
  <2> QED
    BY <2>12 DEF Held, Finds
<1> QED
  BY <1>1, <1>2

LEMMA RemovesDecided ==
    ASSUME NEW name \in StateNames, Base(name), status = "done",
           NEW k \in DOMAIN blockResults, Removes(k)
    PROVE  Decided(k)
<1> SUFFICES ASSUME blockResults[k].globalOperation = UNKNOWN
             PROVE  FALSE
  BY DEF Decided
<1>1. TestBlock(blockResults[k].sourceBlock) = <<UNKNOWN, UNKNOWN>>
  <2>1. k < Len(blockResults) + 1
    BY LenProperties DEF Base, TypeOK
  <2> QED
    BY <2>1, WalkInvSaturated DEF Base, Saturated, PassedOverUpTo
<1>2. blockResults[k].sourceBlock \in LevelBlock
  BY LevelEntries DEF Base, Removes
<1>3. /\ blockResults[k].sourceBlock.condition = At(k)
      /\ At(k) \in Levels
      /\ blockResults[k].sourceBlock.operation # ADD
  BY <1>2 DEF LevelBlock, At, Removes, ADD, REMOVE
<1>4. TestBlock(blockResults[k].sourceBlock) = RemoveVerdict(name, At(k))
  BY <1>3, Verdicts, AllOpen DEF Base, ValueInv
<1>5. \A a, b : <<a, b>> = <<UNKNOWN, UNKNOWN>> => a = UNKNOWN
  OBVIOUS
<1> QED
  BY <1>1, <1>4, <1>5 DEF RemoveVerdict, Settled, REMOVE, OUT_OF_SCOPE, UNKNOWN

LEMMA DoneSettled ==
    ASSUME NEW name \in StateNames, Base(name), status = "done"
    PROVE  AllSettled(name)
<1> SUFFICES ASSUME NEW k \in DOMAIN blockResults
             PROVE  /\ Adds(k) /\ At(k) \in EnclosingLevels(name) => Decided(k)
                    /\ Adds(k) => /\ blockResults[k].targetOperation # REMOVE
                                  /\ blockResults[k].targetOperation = ADD <=> At(k) \in AddingLevels(name)
                    /\ Removes(k) => /\ blockResults[k].globalOperation = Settled(name, At(k))[1]
                                     /\ blockResults[k].targetOperation = Settled(name, At(k))[2]
                    /\ blockResults[k].source = 0 \/ Adds(k) \/ Removes(k)
  BY DEF AllSettled
<1>1. EntryOK(name, blockResults[k])
  BY DEF Base, VerdictInv
<1>2. Adds(k) /\ At(k) \in EnclosingLevels(name) => Decided(k)
  BY AddsDecided
<1>3. ASSUME Adds(k)
      PROVE  /\ blockResults[k].targetOperation # REMOVE
             /\ blockResults[k].targetOperation = ADD <=> At(k) \in AddingLevels(name)
  <2>1. /\ blockResults[k].globalOperation \in {UNKNOWN, ADD}
        /\ blockResults[k].targetOperation # REMOVE
        /\ blockResults[k].targetOperation = ADD <=>
              blockResults[k].globalOperation = ADD /\ At(k) \in AddingLevels(name)
    BY <1>1, <1>3 DEF EntryOK, Adds, At
  <2>2. At(k) \in AddingLevels(name) => Decided(k)
    BY <1>2, <1>3, AddingEncloses
  <2> QED
    BY <2>1, <2>2 DEF Decided
<1>4. ASSUME Removes(k)
      PROVE  /\ blockResults[k].globalOperation = Settled(name, At(k))[1]
             /\ blockResults[k].targetOperation = Settled(name, At(k))[2]
  <2>1. Decided(k)
    BY <1>4, RemovesDecided
  <2>2. <<blockResults[k].globalOperation, blockResults[k].targetOperation>> = Settled(name, At(k))
    BY <1>1, <1>4, <2>1 DEF EntryOK, Removes, At, Decided
  <2> QED
    BY <2>2
<1>5. blockResults[k].source = 0 \/ Adds(k) \/ Removes(k)
  <2>1. blockResults[k] \in BlockResult
    BY DEF Base, TypeOK
  <2> QED
    BY <2>1 DEF BlockResult, Block, Adds, Removes
<1> QED
  BY <1>2, <1>3, <1>4, <1>5

-----------------------------------------------------------------------------
(***************************************************************************)
(* What is fetched from the enabled blocks.                                *)
(***************************************************************************)
Enabled == [operation : {ADD, REMOVE}, data : ValueMap]

\* A string is left when some operation adds it and no later one takes it away: of the
\* enabled blocks, and of the first n entries of the list.
Stays(enabled, f, v) ==
    \E j \in DOMAIN enabled :
        /\ enabled[j].operation = ADD
        /\ v \in Held(enabled[j].data[f])
        /\ \A k \in DOMAIN enabled : k > j /\ enabled[k].operation # ADD => v \notin Held(enabled[k].data[f])

Left(n, f, v) ==
    \E j \in 1 .. n :
        /\ blockResults[j].targetOperation = ADD
        /\ Has(j, f, v)
        /\ \A k \in 1 .. n : k > j /\ blockResults[k].targetOperation = REMOVE => ~Has(k, f, v)

LEMMA StaysAppended ==
    ASSUME NEW enabled \in Seq(Enabled), NEW last \in Enabled, NEW f, NEW v
    PROVE  Stays(Append(enabled, last), f, v) <=>
               IF last.operation = ADD THEN v \in Held(last.data[f]) \/ Stays(enabled, f, v)
               ELSE v \notin Held(last.data[f]) /\ Stays(enabled, f, v)
<1>1. PICK n \in Nat : n = Len(enabled)
  OBVIOUS
<1>2. PICK more : more = Append(enabled, last)
  OBVIOUS
<1>3. /\ DOMAIN enabled = 1 .. n
      /\ DOMAIN more = 1 .. n + 1
      /\ more[n + 1] = last
      /\ \A k \in 1 .. n : more[k] = enabled[k]
  BY <1>1, <1>2
<1>4. ASSUME last.operation = ADD
      PROVE  Stays(more, f, v) <=> v \in Held(last.data[f]) \/ Stays(enabled, f, v)
  <2>1. v \in Held(last.data[f]) => Stays(more, f, v)
    <3> SUFFICES ASSUME v \in Held(last.data[f])
                 PROVE  Stays(more, f, v)
      OBVIOUS
    <3>1. PICK j \in DOMAIN more : j = n + 1
      BY <1>3
    <3>2. \A k \in DOMAIN more : ~(k > j)
      BY <1>3, <3>1
    <3> QED
      BY <1>3, <1>4, <3>1, <3>2 DEF Stays
  <2>2. ASSUME Stays(enabled, f, v)
        PROVE  Stays(more, f, v)
    <3>1. PICK j \in 1 .. n :
              /\ enabled[j].operation = ADD
              /\ v \in Held(enabled[j].data[f])
              /\ \A k \in 1 .. n : k > j /\ enabled[k].operation # ADD => v \notin Held(enabled[k].data[f])
      BY <1>3, <2>2 DEF Stays
    <3>2. \A k \in 1 .. n + 1 : more[k].operation # ADD => k \in 1 .. n /\ more[k] = enabled[k]
      BY <1>3, <1>4
    <3>3. j \in DOMAIN more /\ more[j] = enabled[j]
      BY <1>3
    <3> QED
      BY <1>3, <3>1, <3>2, <3>3 DEF Stays
  <2>3. ASSUME Stays(more, f, v), v \notin Held(last.data[f])
        PROVE  Stays(enabled, f, v)
    <3>1. PICK j \in 1 .. n + 1 :
              /\ more[j].operation = ADD
              /\ v \in Held(more[j].data[f])
              /\ \A k \in 1 .. n + 1 : k > j /\ more[k].operation # ADD => v \notin Held(more[k].data[f])
      BY <1>3, <2>3 DEF Stays
    <3>2. j \in 1 .. n
      BY <1>3, <2>3, <3>1
    <3>3. \A k \in 1 .. n : k \in 1 .. n + 1 /\ more[k] = enabled[k]
      BY <1>3
    <3> QED
      BY <1>3, <3>1, <3>2, <3>3 DEF Stays
  <2> QED
    BY <2>1, <2>2, <2>3
<1>5. ASSUME last.operation # ADD
      PROVE  Stays(more, f, v) <=> v \notin Held(last.data[f]) /\ Stays(enabled, f, v)
  <2>1. ASSUME v \notin Held(last.data[f]), Stays(enabled, f, v)
        PROVE  Stays(more, f, v)
    <3>1. PICK j \in 1 .. n :
              /\ enabled[j].operation = ADD
              /\ v \in Held(enabled[j].data[f])
              /\ \A k \in 1 .. n : k > j /\ enabled[k].operation # ADD => v \notin Held(enabled[k].data[f])
      BY <1>3, <2>1 DEF Stays
    <3>2. \A k \in 1 .. n + 1 : k = n + 1 \/ (k \in 1 .. n /\ more[k] = enabled[k])
      BY <1>3
    <3>3. j \in DOMAIN more /\ more[j] = enabled[j]
      BY <1>3
    <3> QED
      BY <1>3, <2>1, <3>1, <3>2, <3>3 DEF Stays
  <2>2. ASSUME Stays(more, f, v)
        PROVE  v \notin Held(last.data[f]) /\ Stays(enabled, f, v)
    <3>1. PICK j \in 1 .. n + 1 :
              /\ more[j].operation = ADD
              /\ v \in Held(more[j].data[f])
              /\ \A k \in 1 .. n + 1 : k > j /\ more[k].operation # ADD => v \notin Held(more[k].data[f])
      BY <1>3, <2>2 DEF Stays
    <3>2. j \in 1 .. n
      BY <1>3, <1>5, <3>1
    <3>3. \A k \in 1 .. n : k \in 1 .. n + 1 /\ more[k] = enabled[k]
      BY <1>3
    <3>4. n + 1 \in 1 .. n + 1 /\ n + 1 > j
      BY <3>2
    <3> QED
      BY <1>3, <1>5, <3>1, <3>2, <3>3, <3>4 DEF Stays
  <2> QED
    BY <2>1, <2>2
<1> QED
  BY <1>2, <1>4, <1>5

LEMMA LeftNext ==
    ASSUME NEW n \in Nat \ {0}, NEW f, NEW v
    PROVE  /\ blockResults[n].targetOperation = ADD => (Left(n, f, v) <=> Has(n, f, v) \/ Left(n - 1, f, v))
           /\ blockResults[n].targetOperation = REMOVE => (Left(n, f, v) <=> ~Has(n, f, v) /\ Left(n - 1, f, v))
           /\ blockResults[n].targetOperation \notin {ADD, REMOVE} => (Left(n, f, v) <=> Left(n - 1, f, v))
<1>0. ADD # REMOVE
  BY DEF ADD, REMOVE
<1>1. /\ n \in 1 .. n
      /\ \A k \in 1 .. n - 1 : k \in 1 .. n /\ n > k
      /\ \A k \in 1 .. n : k \in 1 .. n - 1 \/ k = n
      /\ \A k \in 1 .. n : ~(k > n)
  OBVIOUS
<1>2. ASSUME Left(n - 1, f, v), blockResults[n].targetOperation = REMOVE => ~Has(n, f, v)
      PROVE  Left(n, f, v)
  <2>1. PICK j \in 1 .. n - 1 :
            /\ blockResults[j].targetOperation = ADD
            /\ Has(j, f, v)
            /\ \A k \in 1 .. n - 1 : k > j /\ blockResults[k].targetOperation = REMOVE => ~Has(k, f, v)
    BY <1>2 DEF Left
  <2> QED
    BY <1>1, <1>2, <2>1 DEF Left
<1>3. ASSUME Left(n, f, v), blockResults[n].targetOperation = ADD => ~Has(n, f, v)
      PROVE  Left(n - 1, f, v) /\ (blockResults[n].targetOperation = REMOVE => ~Has(n, f, v))
  <2>1. PICK j \in 1 .. n :
            /\ blockResults[j].targetOperation = ADD
            /\ Has(j, f, v)
            /\ \A k \in 1 .. n : k > j /\ blockResults[k].targetOperation = REMOVE => ~Has(k, f, v)
    BY <1>3 DEF Left
  <2>2. j \in 1 .. n - 1
    BY <1>1, <1>3, <2>1
  <2> QED
    BY <1>1, <2>1, <2>2 DEF Left
<1>4. ASSUME blockResults[n].targetOperation = ADD, Has(n, f, v)
      PROVE  Left(n, f, v)
  BY <1>1, <1>4 DEF Left
<1> QED
  BY <1>0, <1>2, <1>3, <1>4

\* One turn of the loop that collects them.
Collect(enabled, n) ==
    IF blockResults[n].targetOperation \in {ADD, REMOVE}
    THEN Append(enabled, [operation |-> blockResults[n].targetOperation,
                          data |-> blockResults[n].sourceBlock.data])
    ELSE enabled

LEMMA CollectedIsChosen ==
    EnabledBlocks = (CHOOSE g : g = [n \in 0 .. Len(blockResults) |->
                                        IF n = 0 THEN <<>> ELSE Collect(g[n - 1], n)])[Len(blockResults)]
  BY DEF EnabledBlocks, Collect

\* What is collected leaves the same strings as the entries looked at.
Collected(n) ==
    {enabled \in Seq(Enabled) :
        \A f \in Collections : \A v \in Strings : Stays(enabled, f, v) <=> Left(n, f, v)}

LEMMA CollectsNext ==
    ASSUME TypeOK, NEW n \in DOMAIN blockResults, n - 1 \in Nat, NEW enabled \in Collected(n - 1)
    PROVE  Collect(enabled, n) \in Collected(n)
<1>1. enabled \in Seq(Enabled)
      /\ \A f \in Collections : \A v \in Strings : Stays(enabled, f, v) <=> Left(n - 1, f, v)
  BY DEF Collected
<1>2. n \in Nat \ {0}
  BY LenProperties DEF TypeOK
<1>3. blockResults[n].sourceBlock.data \in ValueMap
  <2>1. blockResults[n] \in BlockResult
    BY DEF TypeOK
  <2> QED
    BY <2>1 DEF BlockResult, Block
<1>4. CASE blockResults[n].targetOperation \in {ADD, REMOVE}
  <2>1. PICK last : last = [operation |-> blockResults[n].targetOperation, data |-> blockResults[n].sourceBlock.data]
    OBVIOUS
  <2>2. last \in Enabled
    BY <1>3, <1>4, <2>1 DEF Enabled
  <2>3. last.operation = blockResults[n].targetOperation /\ last.data = blockResults[n].sourceBlock.data
    BY <2>1
  <2>4. Collect(enabled, n) = Append(enabled, last)
    BY <1>4, <2>1 DEF Collect
  <2>5. Append(enabled, last) \in Seq(Enabled)
    BY <1>1, <2>2
  <2>6. ASSUME NEW f \in Collections, NEW v \in Strings
        PROVE  Stays(Append(enabled, last), f, v) <=> Left(n, f, v)
    <3>1. Stays(Append(enabled, last), f, v) <=>
               IF last.operation = ADD THEN v \in Held(last.data[f]) \/ Stays(enabled, f, v)
               ELSE v \notin Held(last.data[f]) /\ Stays(enabled, f, v)
      BY <1>1, <2>2, StaysAppended
    <3>2. v \in Held(last.data[f]) <=> Has(n, f, v)
      BY <2>3 DEF Has
    <3>3. Stays(enabled, f, v) <=> Left(n - 1, f, v)
      BY <1>1
    <3> QED
      BY <1>2, <1>4, <2>3, <3>1, <3>2, <3>3, LeftNext
  <2> QED
    BY <2>4, <2>5, <2>6 DEF Collected
<1>5. CASE blockResults[n].targetOperation \notin {ADD, REMOVE}
  <2>1. Collect(enabled, n) = enabled
    BY <1>5 DEF Collect
  <2> QED
    BY <1>1, <1>2, <1>5, <2>1, LeftNext DEF Collected
<1> QED
  BY <1>4, <1>5

LEMMA AllCollected ==
    ASSUME TypeOK
    PROVE  EnabledBlocks \in Collected(Len(blockResults))
<1>1. PICK n \in Nat : n = Len(blockResults) /\ DOMAIN blockResults = 1 .. n
  BY LenProperties DEF TypeOK
<1>2. PICK holds : holds = [k \in 0 .. n |-> Collected(k)]
  OBVIOUS
<1>3. PICK step : step = [p \in Seq(Enabled) \X (1 .. n) |-> Collect(p[1], p[2])]
  OBVIOUS
<1>4. <<>> \in Collected(0)
  BY DEF Collected, Stays, Left
<1>5. ASSUME NEW k \in 1 .. n, NEW x \in Collected(k - 1)
      PROVE  step[<<x, k>>] = Collect(x, k) /\ Collect(x, k) \in Collected(k)
  <2>1. x \in Seq(Enabled)
    BY DEF Collected
  <2>2. k \in DOMAIN blockResults /\ k - 1 \in Nat
    BY <1>1
  <2>3. Collect(x, k) \in Collected(k)
    BY <2>2, CollectsNext
  <2>4. step[<<x, k>>] = Collect(x, k)
    BY <1>3, <2>1
  <2> QED
    BY <2>3, <2>4
<1>6. PICK g : /\ g = [k \in 0 .. n |-> IF k = 0 THEN <<>> ELSE step[<<g[k - 1], k>>]]
              /\ \A k \in 0 .. n : g[k] \in holds[k]
  <2>1. n \in Nat /\ <<>> \in holds[0]
    BY <1>1, <1>2, <1>4
  <2>2. ASSUME NEW k \in 1 .. n, NEW x \in holds[k - 1]
        PROVE  step[<<x, k>>] \in holds[k]
    <3>1. holds[k - 1] = Collected(k - 1) /\ holds[k] = Collected(k)
      BY <1>1, <1>2
    <3> QED
      BY <1>5, <3>1
  <2>3. Kept(holds, step, n)
    BY <2>2 DEF Kept
  <2> QED
    BY <2>1, <2>3, LoopExists
<1> DEFINE Loop(h) == h = [k \in 0 .. n |-> IF k = 0 THEN <<>> ELSE Collect(h[k - 1], k)]
<1>7. Loop(g)
  <2>1. \A k \in 0 .. n : k # 0 => k \in 1 .. n /\ k - 1 \in 0 .. n
    BY <1>1
  <2>2. ASSUME NEW k \in 0 .. n, k # 0
        PROVE  step[<<g[k - 1], k>>] = Collect(g[k - 1], k)
    <3>1. k \in 1 .. n /\ g[k - 1] \in Collected(k - 1)
      BY <1>2, <1>6, <2>1, <2>2
    <3> QED
      BY <1>5, <3>1
  <2> QED
    BY <1>6, <2>2
<1>8. PICK h : h = CHOOSE e : Loop(e)
  OBVIOUS
<1>9. Loop(h)
  <2> HIDE DEF Loop
  <2> QED
    BY <1>7, <1>8
<1>10. EnabledBlocks = h[n]
  BY <1>1, <1>8, CollectedIsChosen
<1> DEFINE T == {k \in 0 .. n : h[k] \in Collected(k)}
<1>11. 0 \in T
  BY <1>1, <1>4, <1>9
<1>12. ASSUME NEW k \in 1 .. n, k - 1 \in T
       PROVE  k \in T
  <2>1. h[k] = Collect(h[k - 1], k)
    BY <1>1, <1>9
  <2>2. Collect(h[k - 1], k) \in Collected(k)
    BY <1>5, <1>12
  <2> QED
    BY <1>1, <2>1, <2>2
<1>13. 0 .. n \subseteq T
  <2> HIDE DEF T
  <2> QED
    BY <1>1, <1>11, <1>12, LoopInduction
<1> QED
  BY <1>1, <1>10, <1>13

\* What State.fetch() answers for a collection.
LEMMA FetchedStrings ==
    ASSUME TypeOK, NEW initialValues, NEW f \in Collections, initialValues[f] = Nil, NEW v \in Strings
    PROVE  v \in Held(FetchedValue(EnabledBlocks, initialValues, f)) <=> Left(Len(blockResults), f, v)
<1>1. PICK enabled \in Collected(Len(blockResults)) : enabled = EnabledBlocks
  BY AllCollected
<1>2. enabled \in Seq(Enabled) /\ (Stays(enabled, f, v) <=> Left(Len(blockResults), f, v))
  BY DEF Collected
<1>3. f \notin ScopeFields /\ f \notin StringFields
  BY CollectionsFacts
<1>4. ASSUME NEW k \in DOMAIN enabled
      PROVE  enabled[k].operation \in {ADD, REMOVE}
  <2>1. enabled[k] \in Enabled
    BY <1>2
  <2> QED
    BY <2>1 DEF Enabled
<1>5. v \in Survivors(enabled, f) <=> Stays(enabled, f, v)
  BY <1>3 DEF Survivors, SurvivorsOf, Stays
<1>6. Survivors(enabled, f) \subseteq Strings
  BY DEF Survivors, SurvivorsOf
<1>7. Survivors(enabled, f) # Nil /\ {} # Nil
  BY <1>6, FieldsAssumption
<1>8. CASE \E k \in DOMAIN enabled : enabled[k].data[f] # Nil
  <2>1. BuildValue(enabled, f) = Survivors(enabled, f)
    BY <1>3, <1>8 DEF BuildValue
  <2>2. FetchedValue(enabled, initialValues, f) = Survivors(enabled, f)
    BY <1>3, <1>7, <2>1 DEF FetchedValue
  <2> QED
    BY <1>1, <1>2, <1>5, <1>7, <2>2 DEF Held
<1>9. CASE ~\E k \in DOMAIN enabled : enabled[k].data[f] # Nil
  <2>1. BuildValue(enabled, f) = Nil
    BY <1>9 DEF BuildValue
  <2>2. FetchedValue(enabled, initialValues, f) = {}
    BY <1>3, <2>1 DEF FetchedValue, DefaultValue
  <2>3. ~Stays(enabled, f, v)
    BY <1>9 DEF Stays, Held
  <2> QED
    BY <1>1, <1>2, <1>7, <2>2, <2>3 DEF Held
<1> QED
  BY <1>8, <1>9

-----------------------------------------------------------------------------
(***************************************************************************)
(* The order of fetching, and the blocks of the script among the entries.  *)
(***************************************************************************)
LEMMA EveryStateFetched ==
    /\ FetchOrder \in Seq(StateNames)
    /\ Len(FetchOrder) \in Nat \ {0}
    /\ DOMAIN FetchOrder = 1 .. Len(FetchOrder)
    /\ \A name \in StateNames : \E n \in DOMAIN FetchOrder : FetchOrder[n] = name
    /\ \A m, n \in DOMAIN FetchOrder : FetchOrder[m] = FetchOrder[n] => m = n
<1>1. IsFiniteSet(StateNames)
  <2>1. IsFiniteSet(Projects)
    BY HierarchyAssumption
  <2>2. IsFiniteSet({"project", "inheritingProject"})
    <3>1. IsFiniteSet({"project"} \cup {"inheritingProject"})
      BY FS_Singleton, FS_AddElement
    <3> QED
      BY <3>1, FS_Singleton, FS_AddElement
  <2>3. IsFiniteSet({"project", "inheritingProject"} \X Projects)
    BY <2>1, <2>2, FS_Product
  <2>4. IsFiniteSet({<<"root", Workspace>>, <<"workspace", Workspace>>, <<"inheritingWorkspace", Workspace>>})
    <3>1. IsFiniteSet({<<"root", Workspace>>})
      BY FS_Singleton
    <3>2. IsFiniteSet({<<"root", Workspace>>} \cup {<<"workspace", Workspace>>})
      BY <3>1, FS_AddElement
    <3>3. IsFiniteSet(({<<"root", Workspace>>} \cup {<<"workspace", Workspace>>}) \cup {<<"inheritingWorkspace", Workspace>>})
      BY <3>2, FS_AddElement
    <3>4. ({<<"root", Workspace>>} \cup {<<"workspace", Workspace>>}) \cup {<<"inheritingWorkspace", Workspace>>}
            = {<<"root", Workspace>>, <<"workspace", Workspace>>, <<"inheritingWorkspace", Workspace>>}
      OBVIOUS
    <3> QED
      BY <3>3, <3>4
  <2> QED
    BY <2>3, <2>4, FS_Union DEF StateNames
<1>2. PICK n \in Nat : n = Cardinality(StateNames) /\ ExistsBijection(1 .. n, StateNames)
  BY <1>1, FS_CardinalityType
<1>3. IsFiniteSet(1 .. n) /\ Cardinality(1 .. n) = n
  <2>1. /\ IsFiniteSet(1 .. n)
        /\ Cardinality(1 .. n) = IF 1 > n THEN 0 ELSE n - 1 + 1
    BY FS_Interval
  <2> QED
    BY <2>1
<1>4. \E f \in [1 .. n -> StateNames] : IsInjective(f)
  BY <1>2 DEF ExistsBijection, Bijection, Injection
<1>5. FetchOrder \in [1 .. n -> StateNames] /\ IsInjective(FetchOrder)
  BY <1>2, <1>4 DEF FetchOrder, SetToSeq
<1>6. FetchOrder \in Surjection(1 .. n, StateNames)
  <2>1. FetchOrder \in Injection(1 .. n, StateNames)
    BY <1>5 DEF Injection
  <2> QED
    BY <1>1, <1>2, <1>3, <2>1, FS_Injection
<1>7. DOMAIN FetchOrder = 1 .. n /\ FetchOrder \in Seq(StateNames) /\ Len(FetchOrder) = n
  BY <1>5
<1>8. n # 0
  <2>1. <<"root", Workspace>> \in StateNames
    BY DEF StateNames
  <2> QED
    BY <1>6, <2>1 DEF Surjection
<1>9. \A name \in StateNames : \E k \in 1 .. n : FetchOrder[k] = name
  BY <1>6 DEF Surjection
<1>10. \A j, k \in 1 .. n : FetchOrder[j] = FetchOrder[k] => j = k
  BY <1>5 DEF IsInjective
<1> QED
  BY <1>7, <1>8, <1>9, <1>10

\* The entry of a block of the script.
Place(n) == CHOOSE k \in DOMAIN blockResults : blockResults[k].source = n

LEMMA BlocksInPlace ==
    ASSUME NEW name, query = QueryOf(StateOf(name), script), script \in Scripts, TypeOK, ScriptBlocksInOrder
    PROVE  /\ \A n \in DOMAIN script :
                 /\ n \in Nat \ {0}
                 /\ Place(n) \in DOMAIN blockResults
                 /\ blockResults[Place(n)].source = n
                 /\ blockResults[Place(n)].sourceBlock = script[n]
                 /\ script[n] \in LevelBlock
           /\ \A k \in DOMAIN blockResults : blockResults[k].source # 0 =>
                 /\ blockResults[k].source \in DOMAIN script
                 /\ Place(blockResults[k].source) = k
           /\ \A m, n \in DOMAIN script : m < n <=> Place(m) < Place(n)
<1>1. query.blocks = script
  BY QueryFields
<1>2. script \in Seq(LevelBlock)
  BY HierarchyAssumption
<1>3. ASSUME NEW n \in DOMAIN script
      PROVE  /\ n \in Nat \ {0}
             /\ Place(n) \in DOMAIN blockResults
             /\ blockResults[Place(n)].source = n
             /\ blockResults[Place(n)].sourceBlock = script[n]
             /\ script[n] \in LevelBlock
  <2>1. n \in Nat \ {0}
    BY <1>2
  <2>2. \E k \in DOMAIN blockResults : blockResults[k].source = n
    BY <1>1 DEF ScriptBlocksInOrder
  <2>3. Place(n) \in DOMAIN blockResults /\ blockResults[Place(n)].source = n
    BY <2>2 DEF Place
  <2> QED
    BY <1>1, <1>2, <2>1, <2>3 DEF ScriptBlocksInOrder
<1>4. /\ DOMAIN blockResults \subseteq Nat
      /\ \A j, k \in DOMAIN blockResults : j < k \/ k < j \/ j = k
  <2>1. DOMAIN blockResults = 1 .. Len(blockResults) /\ Len(blockResults) \in Nat
    BY LenProperties DEF TypeOK
  <2> QED
    BY <2>1
<1>5. ASSUME NEW m \in DOMAIN script, NEW n \in DOMAIN script, Place(m) < Place(n)
      PROVE  m < n
  BY <1>3, <1>5 DEF ScriptBlocksInOrder
<1>6. ASSUME NEW m \in DOMAIN script, NEW n \in DOMAIN script, m < n
      PROVE  Place(m) < Place(n)
  <2>1. ~(n < m) /\ m # n
    BY <1>3, <1>6
  <2>2. Place(m) # Place(n)
    BY <1>3, <2>1
  <2> QED
    BY <1>3, <1>4, <1>5, <2>1, <2>2
<1>7. ASSUME NEW k \in DOMAIN blockResults, blockResults[k].source # 0
      PROVE  blockResults[k].source \in DOMAIN script /\ Place(blockResults[k].source) = k
  <2>1. PICK n \in DOMAIN script : n = blockResults[k].source
    BY <1>1, <1>7 DEF ScriptBlocksInOrder
  <2>2. Place(n) \in DOMAIN blockResults /\ blockResults[Place(n)].source = n /\ ~(n < n)
    BY <1>3
  <2>3. Place(n) = k
    BY <1>4, <1>7, <2>1, <2>2 DEF ScriptBlocksInOrder
  <2> QED
    BY <2>1, <2>3
<1> QED
  BY <1>3, <1>5, <1>6, <1>7

-----------------------------------------------------------------------------
(***************************************************************************)
(* What is fetched, said of the script.                                    *)
(***************************************************************************)
Brings(n, f, v) == script[n].operation = ADD /\ v \in Held(script[n].data[f])
Takes(n, f, v) == script[n].operation = REMOVE /\ v \in Held(script[n].data[f])

\* No block after n takes the string away at one of the levels.
KeptFrom(n, levels, f, v) ==
    \A m \in DOMAIN script : m > n /\ Takes(m, f, v) => script[m].condition \notin levels

\* Levels of the blocks that take away from the state itself.
TakingLevels(name) == {c \in Levels : Settled(name, c)[2] = REMOVE}

\* Some block at one of the levels brings the string, and no later one takes it from there.
Remains(levels, taking, f, v) ==
    \E n \in DOMAIN script :
        Brings(n, f, v) /\ script[n].condition \in levels /\ KeptFrom(n, taking, f, v)

\* A sibling removed the string from the container, and the project did not.
Restored(name, f, v) ==
    \E n \in DOMAIN script :
        /\ Brings(n, f, v) /\ script[n].condition \in EnclosingLevels(name)
        /\ KeptFrom(n, TakingLevels(name), f, v)
        /\ \E m \in DOMAIN script :
              m > n /\ Takes(m, f, v) /\ script[m].condition \notin TakingLevels(name)

\* The values of a project lie between two bounds, those of any other state are exact.
StringAsMeant(name, value, f, v) ==
    IF name[1] # "project"
    THEN v \in value <=> Remains(AddingLevels(name), TakingLevels(name), f, v)
    ELSE /\ Remains(AddingLevels(name), TakingLevels(name), f, v) => v \in value
         /\ Restored(name, f, v) => v \in value
         /\ v \in value => Remains(EnclosingLevels(name), {InProject(name[2])}, f, v)

AsMeant(name, values) ==
    \A f \in Collections : \A v \in Strings : StringAsMeant(name, Held(values[f]), f, v)

LEMMA SettledReaching ==
    ASSUME NEW name \in StateNames, name[1] = "project", NEW c \in Levels
    PROVE  /\ c \in TakingLevels(name) <=> c \in EnclosingLevels(name)
           /\ c \notin EnclosingLevels(name) => Settled(name, c)[1] = REMOVE
           /\ InProject(name[2]) \in TakingLevels(name)
<1>0. REMOVE # OUT_OF_SCOPE
  BY DEF REMOVE, OUT_OF_SCOPE
<1>1. ReachingLevels(name) = {InProject(name[2])} /\ LocalLevels(name) = {InProject(name[2])}
      /\ EnclosingLevels(name) = {{}, InWorkspace, InProject(name[2])}
  BY DEF ReachingLevels, LocalLevels, EnclosingLevels
<1>2. c \in ReachingLevels(name) => Settled(name, c) = <<REMOVE, REMOVE>>
  BY <1>1 DEF Settled
<1>3. c \notin ReachingLevels(name) /\ c \in EnclosingLevels(name) => Settled(name, c) = <<OUT_OF_SCOPE, REMOVE>>
  BY DEF Settled
<1>4. c \notin ReachingLevels(name) /\ c \notin EnclosingLevels(name) => Settled(name, c) = <<REMOVE, OUT_OF_SCOPE>>
  BY DEF Settled
<1>5. \A a, b : <<a, b>>[1] = a /\ <<a, b>>[2] = b
  OBVIOUS
<1>6. c \in TakingLevels(name) <=> c \in EnclosingLevels(name)
  BY <1>0, <1>1, <1>2, <1>3, <1>4, <1>5 DEF TakingLevels
<1>7. InProject(name[2]) \in TakingLevels(name)
  <2>1. InProject(name[2]) \in Levels
    BY NameKinds, InLevels
  <2>2. Settled(name, InProject(name[2])) = <<REMOVE, REMOVE>>
    BY <1>1 DEF Settled
  <2> QED
    BY <1>5, <2>1, <2>2 DEF TakingLevels
<1> QED
  BY <1>1, <1>4, <1>5, <1>6, <1>7

\* Entries and blocks say the same of a string.
LEMMA SaidOfScript ==
    ASSUME NEW name \in StateNames, Base(name), status = "done",
           NEW f, NEW v, NEW k \in DOMAIN blockResults, blockResults[k].source # 0
    PROVE  LET n == blockResults[k].source IN
           /\ n \in DOMAIN script /\ Place(n) = k
           /\ script[n].condition \in Levels /\ script[n].condition = At(k)
           /\ Brings(n, f, v) <=> Adds(k) /\ Has(k, f, v)
           /\ Takes(n, f, v) <=> Removes(k) /\ Has(k, f, v)
           /\ blockResults[k].targetOperation = ADD <=>
                 script[n].operation = ADD /\ script[n].condition \in AddingLevels(name)
           /\ blockResults[k].targetOperation = REMOVE <=>
                 script[n].operation = REMOVE /\ script[n].condition \in TakingLevels(name)
<1>1. PICK n : n = blockResults[k].source
  OBVIOUS
<1>2. n \in DOMAIN script /\ Place(n) = k /\ blockResults[k].sourceBlock = script[n] /\ script[n] \in LevelBlock
  BY <1>1, BlocksInPlace DEF Base
<1>3. script[n].condition \in Levels /\ script[n].operation \in {ADD, REMOVE} /\ script[n].condition = At(k)
  BY <1>2 DEF LevelBlock, Block, At
<1>4. /\ Adds(k) <=> script[n].operation = ADD
      /\ Removes(k) <=> script[n].operation = REMOVE
      /\ Has(k, f, v) <=> v \in Held(script[n].data[f])
  BY <1>2 DEF Adds, Removes, Has
<1>5. AllSettled(name)
  BY DoneSettled
<1>6. \A c : Settled(name, c)[2] # ADD
  BY DEF Settled, ADD, REMOVE, OUT_OF_SCOPE
<1>7. ADD # REMOVE
  BY DEF ADD, REMOVE
<1>8. blockResults[k].targetOperation = ADD <=>
          script[n].operation = ADD /\ script[n].condition \in AddingLevels(name)
  BY <1>3, <1>4, <1>5, <1>6, <1>7 DEF AllSettled
<1>9. blockResults[k].targetOperation = REMOVE <=>
          script[n].operation = REMOVE /\ script[n].condition \in TakingLevels(name)
  BY <1>3, <1>4, <1>5, <1>7 DEF AllSettled, TakingLevels
<1> QED
  BY <1>1, <1>2, <1>3, <1>4, <1>8, <1>9 DEF Brings, Takes

\* The list leaves what remains of the script, as far as its own blocks go.
LEMMA LeftRemains ==
    ASSUME NEW name \in StateNames, Base(name), status = "done", NEW f, NEW v
    PROVE  /\ Remains(AddingLevels(name), TakingLevels(name), f, v) => Left(Len(blockResults), f, v)
           /\ Left(Len(blockResults), f, v) =>
                 \/ Remains(AddingLevels(name), TakingLevels(name), f, v)
                 \/ \E s \in DOMAIN blockResults :
                       /\ blockResults[s].source = 0 /\ Has(s, f, v)
                       /\ \A k \in DOMAIN blockResults :
                             k > s /\ blockResults[k].targetOperation = REMOVE => ~Has(k, f, v)
<1>1. DOMAIN blockResults = 1 .. Len(blockResults)
  BY LenProperties DEF Base, TypeOK
<1>2. /\ \A n \in DOMAIN script : Place(n) \in DOMAIN blockResults /\ blockResults[Place(n)].source = n /\ n # 0
      /\ \A m, n \in DOMAIN script : m < n <=> Place(m) < Place(n)
  BY BlocksInPlace DEF Base
<1>3. ASSUME NEW k \in DOMAIN blockResults, blockResults[k].targetOperation = REMOVE
      PROVE  blockResults[k].source # 0
  <2>1. EntryOK(name, blockResults[k])
    BY DEF Base, VerdictInv
  <2> QED
    BY <1>3, <2>1 DEF EntryOK, ADD, REMOVE
<1>4. ASSUME Remains(AddingLevels(name), TakingLevels(name), f, v)
      PROVE  Left(Len(blockResults), f, v)
  <2>1. PICK n \in DOMAIN script :
            Brings(n, f, v) /\ script[n].condition \in AddingLevels(name) /\ KeptFrom(n, TakingLevels(name), f, v)
    BY <1>4 DEF Remains
  <2>2. PICK j \in DOMAIN blockResults : j = Place(n) /\ blockResults[j].source = n /\ n # 0
    BY <1>2
  <2>3. blockResults[j].targetOperation = ADD /\ Has(j, f, v)
    BY <2>1, <2>2, SaidOfScript DEF Brings
  <2>4. ASSUME NEW k \in DOMAIN blockResults, k > j, blockResults[k].targetOperation = REMOVE, Has(k, f, v)
        PROVE  FALSE
    <3>1. blockResults[k].source # 0
      BY <1>3, <2>4
    <3>2. PICK m \in DOMAIN script : m = blockResults[k].source /\ Place(m) = k
      BY <3>1, SaidOfScript
    <3>3. script[m].operation = REMOVE /\ script[m].condition \in TakingLevels(name)
      BY <2>4, <3>1, <3>2, SaidOfScript
    <3>4. Takes(m, f, v)
      <4>1. v \in Held(script[m].data[f])
        BY <2>4, <3>1, <3>2, BlocksInPlace DEF Base, Has
      <4> QED
        BY <3>3, <4>1 DEF Takes
    <3>5. Place(n) < Place(m)
      BY <1>1, <2>2, <2>4, <3>2
    <3>6. n < m
      BY <1>2, <3>5
    <3>7. m > n
      BY <3>6
    <3> QED
      BY <2>1, <3>3, <3>4, <3>7 DEF KeptFrom
  <2> QED
    BY <1>1, <2>3, <2>4 DEF Left
<1>5. ASSUME Left(Len(blockResults), f, v)
      PROVE  \/ Remains(AddingLevels(name), TakingLevels(name), f, v)
             \/ \E s \in DOMAIN blockResults :
                   /\ blockResults[s].source = 0 /\ Has(s, f, v)
                   /\ \A k \in DOMAIN blockResults :
                         k > s /\ blockResults[k].targetOperation = REMOVE => ~Has(k, f, v)
  <2>1. PICK j \in DOMAIN blockResults :
            /\ blockResults[j].targetOperation = ADD
            /\ Has(j, f, v)
            /\ \A k \in DOMAIN blockResults : k > j /\ blockResults[k].targetOperation = REMOVE => ~Has(k, f, v)
    BY <1>1, <1>5 DEF Left
  <2>2. CASE blockResults[j].source = 0
    BY <2>1, <2>2
  <2>3. CASE blockResults[j].source # 0
    <3>1. PICK n \in DOMAIN script : n = blockResults[j].source /\ Place(n) = j
      BY <2>3, SaidOfScript
    <3>2. script[n].operation = ADD /\ script[n].condition \in AddingLevels(name)
      BY <2>1, <2>3, <3>1, SaidOfScript
    <3>3. v \in Held(script[n].data[f])
      BY <2>1, <2>3, <3>1, BlocksInPlace DEF Base, Has
    <3>4. ASSUME NEW m \in DOMAIN script, m > n, Takes(m, f, v), script[m].condition \in TakingLevels(name)
          PROVE  FALSE
      <4>1. PICK k \in DOMAIN blockResults : k = Place(m) /\ blockResults[k].source = m /\ m # 0
        BY <1>2
      <4>2. blockResults[k].targetOperation = REMOVE /\ Has(k, f, v)
        BY <3>4, <4>1, SaidOfScript DEF Takes
      <4>3. n < m
        BY <1>1, <3>4, BlocksInPlace DEF Base
      <4>4. Place(n) < Place(m)
        BY <1>2, <4>3
      <4>5. k > j
        BY <1>1, <3>1, <4>1, <4>4
      <4> QED
        BY <2>1, <4>2, <4>5
    <3>5. KeptFrom(n, TakingLevels(name), f, v)
      BY <3>4 DEF KeptFrom
    <3> QED
      BY <3>2, <3>3, <3>5 DEF Remains, Brings
  <2> QED
    BY <2>2, <2>3
<1> QED
  BY <1>4, <1>5

LEMMA RestoredIsLeft ==
    ASSUME NEW name \in StateNames, Sound(name), status = "done", name[1] = "project",
           NEW f \in Collections, NEW v \in Strings, Restored(name, f, v)
    PROVE  Left(Len(blockResults), f, v)
<1> USE DEF Sound
<1>1. DOMAIN blockResults = 1 .. Len(blockResults)
  BY LenProperties DEF Base, TypeOK
<1>2. /\ \A n \in DOMAIN script : Place(n) \in DOMAIN blockResults /\ blockResults[Place(n)].source = n /\ n # 0
      /\ \A m, n \in DOMAIN script : m < n <=> Place(m) < Place(n)
  BY BlocksInPlace DEF Base
<1>3. PICK n \in DOMAIN script :
          /\ Brings(n, f, v) /\ script[n].condition \in EnclosingLevels(name)
          /\ KeptFrom(n, TakingLevels(name), f, v)
          /\ \E m \in DOMAIN script : m > n /\ Takes(m, f, v) /\ script[m].condition \notin TakingLevels(name)
  BY DEF Restored
<1>4. PICK m \in DOMAIN script : m > n /\ Takes(m, f, v) /\ script[m].condition \notin TakingLevels(name)
  BY <1>3
<1>5. PICK j \in DOMAIN blockResults : j = Place(n) /\ blockResults[j].source = n /\ n # 0
  BY <1>2
<1>6. PICK k \in DOMAIN blockResults : k = Place(m) /\ blockResults[k].source = m /\ m # 0
  BY <1>2
<1>7. Adds(j) /\ Has(j, f, v) /\ Decided(j)
  <2>1. Adds(j) /\ Has(j, f, v) /\ At(j) \in EnclosingLevels(name)
    BY <1>3, <1>5, SaidOfScript
  <2> QED
    BY <2>1, AddsDecided
<1>8. Removes(k) /\ Has(k, f, v) /\ blockResults[k].globalOperation = REMOVE
  <2>1. Removes(k) /\ Has(k, f, v) /\ At(k) \notin TakingLevels(name) /\ At(k) \in Levels
    BY <1>4, <1>6, SaidOfScript
  <2>2. Settled(name, At(k))[1] = REMOVE
    BY <2>1, SettledReaching
  <2>3. AllSettled(name)
    BY DoneSettled
  <2> QED
    BY <2>1, <2>2, <2>3 DEF AllSettled
<1>9. j < k
  <2>1. n < m
    BY <1>4, BlocksInPlace DEF Base
  <2> QED
    BY <1>2, <1>5, <1>6, <2>1
<1>10. ASSUME NEW l \in DOMAIN blockResults, l > j, Removes(l), Has(l, f, v), At(l) \in TakingLevels(name)
       PROVE  FALSE
  <2>1. blockResults[l].source # 0
    BY <1>10 DEF Removes
  <2>2. PICK o \in DOMAIN script : o = blockResults[l].source /\ Place(o) = l
    BY <2>1, SaidOfScript
  <2>3. Takes(o, f, v) /\ script[o].condition \in TakingLevels(name)
    BY <1>10, <2>1, <2>2, SaidOfScript
  <2>4. Place(n) < Place(o)
    BY <1>1, <1>5, <1>10, <2>2
  <2>5. n < o
    BY <1>2, <2>4
  <2>6. o > n
    BY <2>5
  <2> QED
    BY <1>3, <2>3, <2>6 DEF KeptFrom
<1>11. PICK s \in DOMAIN blockResults :
           s > j /\ Has(s, f, v) /\ (blockResults[s].source = 0 \/ TakesForOwn(name, s, f, v))
  BY <1>7, <1>8, <1>9 DEF ProjectInv, GivenBack
<1>12. blockResults[s].source = 0
  <2> SUFFICES ASSUME TakesForOwn(name, s, f, v)
               PROVE  FALSE
    BY <1>11
  <2>1. Removes(s) /\ At(s) = InProject(name[2])
    BY DEF TakesForOwn
  <2>2. At(s) \in Levels
    BY <2>1, NameKinds, InLevels
  <2>3. At(s) \in TakingLevels(name)
    BY <2>1, <2>2, SettledReaching
  <2> QED
    BY <1>10, <1>11, <2>1, <2>3
<1>13. blockResults[s].targetOperation = ADD
  <2>1. EntryOK(name, blockResults[s])
    BY DEF Base, VerdictInv
  <2> QED
    BY <1>12, <2>1 DEF EntryOK
<1>14. ASSUME NEW l \in DOMAIN blockResults, l > s, blockResults[l].targetOperation = REMOVE, Has(l, f, v)
       PROVE  FALSE
  <2>1. blockResults[l].source # 0
    <3>1. EntryOK(name, blockResults[l])
      BY DEF Base, VerdictInv
    <3> QED
      BY <1>14, <3>1 DEF EntryOK, ADD, REMOVE
  <2>2. Removes(l) /\ At(l) \in TakingLevels(name)
    <3>1. PICK o \in DOMAIN script : o = blockResults[l].source
      BY <2>1, SaidOfScript
    <3>2. script[o].operation = REMOVE /\ script[o].condition \in TakingLevels(name)
      BY <1>14, <2>1, <3>1, SaidOfScript
    <3>3. blockResults[l].sourceBlock = script[o]
      BY <2>1, <3>1, BlocksInPlace DEF Base
    <3> QED
      BY <2>1, <3>2, <3>3 DEF Removes, At
  <2>3. l > j
    BY <1>1, <1>11, <1>14
  <2> QED
    BY <1>10, <1>14, <2>2, <2>3
<1> QED
  BY <1>1, <1>11, <1>13, <1>14 DEF Left

LEMMA LeftOfEnclosing ==
    ASSUME NEW name \in StateNames, Sound(name), status = "done", name[1] = "project",
           NEW f \in Collections, NEW v \in Strings, Left(Len(blockResults), f, v)
    PROVE  Remains(EnclosingLevels(name), {InProject(name[2])}, f, v)
<1> USE DEF Sound
<1>0. InProject(name[2]) \in TakingLevels(name)
  <2>1. InProject(name[2]) \in Levels
    BY NameKinds, InLevels
  <2> QED
    BY <2>1, SettledReaching
<1>1. CASE Remains(AddingLevels(name), TakingLevels(name), f, v)
  <2>1. PICK n \in DOMAIN script :
            Brings(n, f, v) /\ script[n].condition \in AddingLevels(name) /\ KeptFrom(n, TakingLevels(name), f, v)
    BY <1>1 DEF Remains
  <2>2. KeptFrom(n, {InProject(name[2])}, f, v)
    BY <1>0, <2>1 DEF KeptFrom
  <2> QED
    BY <2>1, <2>2, AddingEncloses DEF Remains
<1>2. CASE \E s \in DOMAIN blockResults :
               /\ blockResults[s].source = 0 /\ Has(s, f, v)
               /\ \A k \in DOMAIN blockResults :
                     k > s /\ blockResults[k].targetOperation = REMOVE => ~Has(k, f, v)
  <2>1. PICK s \in DOMAIN blockResults :
            /\ blockResults[s].source = 0 /\ Has(s, f, v)
            /\ \A k \in DOMAIN blockResults :
                  k > s /\ blockResults[k].targetOperation = REMOVE => ~Has(k, f, v)
    BY <1>2
  <2>2. PICK j \in DOMAIN blockResults :
            /\ Adds(j) /\ Decided(j) /\ Has(j, f, v)
            /\ \A k \in DOMAIN blockResults : TakesForOwn(name, k, f, v) /\ k > j => k > s
    BY <2>1 DEF ProjectInv, RightlyBack
  <2>3. At(j) \in EnclosingLevels(name)
    <3>1. EntryOK(name, blockResults[j])
      BY DEF Base, VerdictInv
    <3> QED
      BY <2>2, <3>1 DEF EntryOK, Adds, Decided, At
  <2>4. PICK n \in DOMAIN script : n = blockResults[j].source /\ Place(n) = j
    BY <2>2, SaidOfScript DEF Adds
  <2>5. Brings(n, f, v) /\ script[n].condition \in EnclosingLevels(name)
    BY <2>2, <2>3, <2>4, SaidOfScript DEF Adds
  <2>6. ASSUME NEW m \in DOMAIN script, m > n, Takes(m, f, v), script[m].condition = InProject(name[2])
        PROVE  FALSE
    <3>1. PICK k \in DOMAIN blockResults : k = Place(m) /\ blockResults[k].source = m /\ m # 0
      BY BlocksInPlace DEF Base
    <3>2. Removes(k) /\ Has(k, f, v) /\ At(k) = InProject(name[2])
      BY <2>6, <3>1, SaidOfScript
    <3>3. blockResults[k].targetOperation = REMOVE
      BY <1>0, <2>6, <3>1, SaidOfScript DEF Takes
    <3>4. n < m
      BY <2>6, BlocksInPlace DEF Base
    <3>5. Place(n) < Place(m)
      BY <3>4, BlocksInPlace DEF Base
    <3>6. k > j
      BY <2>4, <3>1, <3>5, LenProperties DEF Base, TypeOK
    <3>7. k > s
      BY <2>2, <3>2, <3>6 DEF TakesForOwn
    <3> QED
      BY <2>1, <3>2, <3>3, <3>7
  <2>7. KeptFrom(n, {InProject(name[2])}, f, v)
    BY <2>6 DEF KeptFrom
  <2> QED
    BY <2>5, <2>7 DEF Remains
<1> QED
  BY <1>1, <1>2, LeftRemains

FetchedNow == [f \in Fields |-> FetchedValue(EnabledBlocks, query.initialValues, f)]

LEMMA DoneAsMeant ==
    ASSUME NEW name \in StateNames, Sound(name), status = "done"
    PROVE  AsMeant(name, FetchedNow)
<1> USE DEF Sound
<1> SUFFICES ASSUME NEW f \in Collections, NEW v \in Strings
             PROVE  StringAsMeant(name, Held(FetchedNow[f]), f, v)
  BY DEF AsMeant
<1>1. query.initialValues[f] = Nil
  <2>1. query.initialValues = StateOf(name).initialValues
    BY QueryFields DEF Base
  <2>2. StateOf(name).initialValues \in {EmptyMap, InW} \/ (name[2] \in Projects /\ StateOf(name).initialValues = InWP(name[2]))
    BY SeedOfState, NameKinds DEF SeededBy
  <2>3. f \in Fields /\ f \notin {"workspaces", "projects"}
    BY CollectionsFacts
  <2>4. CASE StateOf(name).initialValues \in {EmptyMap, InW}
    <3>1. Workspace \in Strings
      BY HierarchyAssumption
    <3>2. EmptyMap[f] = Nil /\ InW[f] = Nil
      BY <2>3, <3>1, ScopeValues
    <3> QED
      BY <2>1, <2>4, <3>2
  <2>5. CASE name[2] \in Projects /\ StateOf(name).initialValues = InWP(name[2])
    <3>1. PICK p \in Strings : p = name[2]
      BY <2>5, HierarchyAssumption
    <3>2. InWP(p)[f] = Nil
      BY <2>3, ScopeValues
    <3> QED
      BY <2>1, <2>5, <3>1, <3>2
  <2> QED
    BY <2>2, <2>4, <2>5
<1>2. v \in Held(FetchedNow[f]) <=> Left(Len(blockResults), f, v)
  <2>1. FetchedNow[f] = FetchedValue(EnabledBlocks, query.initialValues, f)
    BY CollectionsFacts DEF FetchedNow
  <2> QED
    BY <1>1, <2>1, FetchedStrings DEF Base
<1>3. CASE name[1] # "project"
  <2>1. \A s \in DOMAIN blockResults : blockResults[s].source # 0
    BY <1>3 DEF Base, VerdictInv, EntryOK
  <2> QED
    BY <1>2, <1>3, <2>1, LeftRemains DEF StringAsMeant
<1>4. CASE name[1] = "project"
  <2>1. Remains(AddingLevels(name), TakingLevels(name), f, v) => Left(Len(blockResults), f, v)
    BY LeftRemains
  <2>2. Restored(name, f, v) => Left(Len(blockResults), f, v)
    BY <1>4, RestoredIsLeft
  <2>3. Left(Len(blockResults), f, v) => Remains(EnclosingLevels(name), {InProject(name[2])}, f, v)
    BY <1>4, LeftOfEnclosing
  <2> QED
    BY <1>2, <1>4, <2>1, <2>2, <2>3 DEF StringAsMeant
<1> QED
  BY <1>3, <1>4

-----------------------------------------------------------------------------
(***************************************************************************)
(* One state after the other is fetched as it is meant.                    *)
(***************************************************************************)
HistoryInv ==
    /\ script \in Scripts
    /\ fetched \in Seq(ValueMap) /\ Len(fetched) <= Len(FetchOrder)
    /\ \A n \in DOMAIN fetched : \A values : values = fetched[n] => AsMeant(FetchOrder[n], values)
    /\ \A n \in DOMAIN FetchOrder : n = Len(fetched) + 1 => Sound(FetchOrder[n])

LEMMA FetchedType ==
    ASSUME TypeOK
    PROVE  FetchedNow \in ValueMap
<1>1. query.initialValues \in ValueMap
  BY DEF TypeOK, QueryType
<1>2. ASSUME NEW f \in Fields
      PROVE  FetchedValue(EnabledBlocks, query.initialValues, f) \in FieldValue
  <2>1. PICK enabled : enabled = EnabledBlocks
    OBVIOUS
  <2>2. Survivors(enabled, f) \subseteq Strings
    BY DEF Survivors, SurvivorsOf
  <2>3. BuildValue(enabled, f) \in FieldValue
    BY <2>2 DEF BuildValue, FieldValue
  <2>4. query.initialValues[f] \in FieldValue
    BY <1>1 DEF ValueMap
  <2>5. DefaultValue(f) \in FieldValue
    BY DEF DefaultValue, FieldValue
  <2>6. FetchedValue(enabled, query.initialValues, f) \in FieldValue
    BY <2>3, <2>4, <2>5 DEF FetchedValue
  <2> QED
    BY <2>1, <2>6
<1> QED
  BY <1>2 DEF FetchedNow, ValueMap

LEMMA MeaningKept ==
    ASSUME NEW name, NEW values, AsMeant(name, values), UNCHANGED script
    PROVE  AsMeant(name, values)'
  BY DEF AsMeant, StringAsMeant, Remains, Restored, KeptFrom, Brings, Takes

LEMMA HistoryFirst == HierarchyInit => HistoryInv
<1> SUFFICES ASSUME HierarchyInit
             PROVE  HistoryInv
  OBVIOUS
<1>1. script \in Scripts /\ fetched = <<>> /\ Begins(QueryOf(StateOf(FetchOrder[1]), script))
  BY DEF HierarchyInit
<1>2. FetchOrder[1] \in StateNames
  BY EveryStateFetched
<1>3. Sound(FetchOrder[1])
  BY <1>1, <1>2, BeginsSound DEF SoundAtFirst
<1>4. fetched \in Seq(ValueMap) /\ Len(fetched) = 0 /\ DOMAIN fetched = {}
  BY <1>1
<1>5. Len(fetched) + 1 = 1 /\ Len(fetched) <= Len(FetchOrder)
  BY <1>4, EveryStateFetched
<1>6. \A n \in DOMAIN FetchOrder : n = Len(fetched) + 1 => Sound(FetchOrder[n])
  BY <1>3, <1>5
<1> QED
  BY <1>1, <1>4, <1>5, <1>6 DEF HistoryInv

\* A step of the query, or none.
LEMMA HistoryWalks ==
    ASSUME HistoryInv, [Next]_vars, UNCHANGED <<script, fetched>>
    PROVE  HistoryInv'
<1>1. script' = script /\ fetched' = fetched
  OBVIOUS
<1>2. ASSUME NEW n \in DOMAIN fetched, NEW values, values = fetched[n]
      PROVE  AsMeant(FetchOrder[n], values)'
  <2>1. AsMeant(FetchOrder[n], values)
    BY <1>2 DEF HistoryInv
  <2> QED
    BY <1>1, <2>1, MeaningKept
<1>3. ASSUME NEW n \in DOMAIN FetchOrder, n = Len(fetched) + 1
      PROVE  Sound(FetchOrder[n])'
  <2>1. PICK name \in StateNames : name = FetchOrder[n]
    BY EveryStateFetched
  <2>2. Sound(name)
    BY <1>3, <2>1 DEF HistoryInv
  <2>3. Base(name)' /\ ProjectInv(name)'
    BY <1>1, <2>2, BaseStep, ProjectStep DEF Sound
  <2>4. Sound(name)'
    BY <2>3 DEF Sound
  <2> QED
    BY <2>1, <2>4
<1> QED
  BY <1>1, <1>2, <1>3 DEF HistoryInv

LEMMA HistoryFetches ==
    ASSUME HistoryInv, FetchValues
    PROVE  HistoryInv'
<1>1. /\ status = "done" /\ Len(fetched) < Len(FetchOrder)
      /\ fetched' = Append(fetched, FetchedNow)
      /\ script' = script
  BY DEF FetchValues, FetchedNow
<1>2. Len(fetched) \in Nat /\ DOMAIN fetched = 1 .. Len(fetched)
  BY LenProperties DEF HistoryInv
<1>3. PICK m \in DOMAIN FetchOrder : m = Len(fetched) + 1
  BY <1>1, <1>2, EveryStateFetched
<1>4. Sound(FetchOrder[m]) /\ FetchOrder[m] \in StateNames
  BY <1>1, <1>3, EveryStateFetched DEF HistoryInv
<1>5. FetchedNow \in ValueMap
  BY <1>4, FetchedType DEF Sound, Base
<1>6. PICK now : now = FetchedNow
  OBVIOUS
<1>7. /\ fetched' \in Seq(ValueMap) /\ Len(fetched') = m
      /\ DOMAIN fetched' = 1 .. m
      /\ \A n \in 1 .. m : fetched'[n] = IF n = m THEN now ELSE fetched[n]
  BY <1>1, <1>2, <1>3, <1>5, <1>6 DEF HistoryInv
<1>8. ASSUME NEW n \in 1 .. m, NEW values, values = fetched'[n]
      PROVE  AsMeant(FetchOrder[n], values)'
  <2>1. AsMeant(FetchOrder[n], values)
    <3>1. CASE n = m
      BY <1>1, <1>4, <1>6, <1>7, <1>8, <3>1, DoneAsMeant
    <3>2. CASE n # m
      <4>1. n \in DOMAIN fetched
        BY <1>2, <1>3, <3>2
      <4>2. values = fetched[n]
        BY <1>7, <1>8, <3>2
      <4> QED
        BY <4>1, <4>2 DEF HistoryInv
    <3> QED
      BY <3>1, <3>2
  <2> QED
    BY <1>1, <2>1, MeaningKept
<1>9. ASSUME NEW n \in DOMAIN FetchOrder, n = m + 1
      PROVE  Sound(FetchOrder[n])'
  <2>1. PICK name \in StateNames : name = FetchOrder[n]
    BY EveryStateFetched
  <2>2. Len(fetched) + 2 = n /\ Len(fetched) + 1 # Len(FetchOrder)
    <3>1. n <= Len(FetchOrder) /\ Len(FetchOrder) \in Nat
      BY EveryStateFetched
    <3> QED
      BY <1>2, <1>3, <1>9, <3>1
  <2>3. BeginNext(QueryOf(StateOf(name), script))
    BY <2>1, <2>2 DEF FetchValues
  <2>4. Sound(name)'
    BY <1>1, <2>3, BeginsNextSound DEF HistoryInv
  <2> QED
    BY <2>1, <2>4
<1>10. m <= Len(FetchOrder)
  BY EveryStateFetched
<1> QED
  BY <1>1, <1>7, <1>8, <1>9, <1>10 DEF HistoryInv

LEMMA HistoryStep == HistoryInv /\ [HierarchyNext]_hierarchyVars => HistoryInv'
<1> SUFFICES ASSUME HistoryInv, [HierarchyNext]_hierarchyVars
             PROVE  HistoryInv'
  OBVIOUS
<1>1. CASE EvaluateStep
  BY <1>1, HistoryWalks DEF EvaluateStep
<1>2. CASE FetchValues
  BY <1>2, HistoryFetches
<1>3. CASE UNCHANGED hierarchyVars
  BY <1>3, HistoryWalks DEF hierarchyVars
<1> QED
  BY <1>1, <1>2, <1>3 DEF HierarchyNext

-----------------------------------------------------------------------------
(***************************************************************************)
(* What the files bring together.                                          *)
(***************************************************************************)
\* The levels whose blocks apply to a project.
LevelsOfProject(p) == {{}, InWorkspace, InProject(p)}

LEMMA FetchedMeaning ==
    ASSUME HistoryInv, AllFetched, NEW name \in StateNames, NEW f \in Collections
    PROVE  /\ Value(name, f) \subseteq Strings
           /\ \A v \in Strings : StringAsMeant(name, Value(name, f), f, v)
<1>1. DOMAIN fetched = DOMAIN FetchOrder
  BY EveryStateFetched, LenProperties DEF HistoryInv, AllFetched
<1>2. PICK n : n = CHOOSE m \in DOMAIN FetchOrder : FetchOrder[m] = name
  OBVIOUS
<1>3. n \in DOMAIN FetchOrder /\ FetchOrder[n] = name
  BY <1>2, EveryStateFetched
<1>4. Value(name, f) = Held(fetched[n][f])
  BY <1>2 DEF Value
<1>5. PICK values \in ValueMap : values = fetched[n]
  BY <1>1, <1>3 DEF HistoryInv
<1>6. AsMeant(name, values)
  BY <1>1, <1>3, <1>5 DEF HistoryInv
<1>7. values[f] \in FieldValue
  BY <1>5, CollectionsFacts DEF ValueMap
<1>8. Held(values[f]) \subseteq Strings
  BY <1>7 DEF FieldValue, Held
<1>9. Value(name, f) = Held(values[f])
  BY <1>4, <1>5
<1> QED
  BY <1>6, <1>8, <1>9 DEF AsMeant

LEMMA AskedStrings ==
    ASSUME script \in Scripts, NEW p \in Projects, NEW f \in Collections
    PROVE  /\ Asked(ProjectPlace(p), f) \subseteq Strings
           /\ \A v \in Strings : v \in Asked(ProjectPlace(p), f) <=>
                 Remains(LevelsOfProject(p), LevelsOfProject(p), f, v)
<1> DEFINE applied == {n \in DOMAIN script :
               MatchesValues(script[n].condition, ProjectPlace(p), ProjectPlace(p), NIL_MATCHES_NONE)}
<1>1. ProjectPlace(p) = InWP(p)
  BY Merges DEF ProjectPlace, WorkspacePlace, InW, InP
<1>2. InWP(p)["workspaces"] = {Workspace} /\ InWP(p)["projects"] = {p}
  BY HierarchyAssumption, ScopeValues
<1>3. ASSUME NEW n \in DOMAIN script
      PROVE  /\ script[n].condition \in Levels
             /\ script[n].operation \in {ADD, REMOVE}
  <2>1. script[n] \in LevelBlock
    BY HierarchyAssumption
  <2> QED
    BY <2>1 DEF LevelBlock, Block
<1>4. ASSUME NEW c \in Levels
      PROVE  MatchesValues(c, InWP(p), InWP(p), FALSE) <=> c \in LevelsOfProject(p)
  <2>1. {Workspace} # Nil /\ {p} # Nil
    BY HierarchyAssumption, ScopeValues
  <2>2. /\ Finds(InWP(p)["workspaces"], Workspace, FALSE)
        /\ \A q : Finds(InWP(p)["projects"], q, FALSE) <=> q = p
    BY <1>2, <2>1 DEF Finds
  <2>3. CASE c = {}
    BY <2>3, MatchesLevel DEF LevelsOfProject
  <2>4. CASE c = InWorkspace
    BY <2>2, <2>4, MatchesLevel DEF LevelsOfProject
  <2>5. ASSUME NEW q \in Projects, c = InProject(q)
        PROVE  MatchesValues(c, InWP(p), InWP(p), FALSE) <=> c \in LevelsOfProject(p)
    <3>1. MatchesValues(c, InWP(p), InWP(p), FALSE) <=> q = p
      BY <2>2, <2>5, MatchesLevel
    <3>2. c \in LevelsOfProject(p) <=> q = p
      BY <2>5, LevelsDiffer DEF LevelsOfProject
    <3> QED
      BY <3>1, <3>2
  <2> QED
    BY <2>3, <2>4, <2>5, InLevels
<1>5. \A n \in DOMAIN script : n \in applied <=> script[n].condition \in LevelsOfProject(p)
  BY <1>1, <1>3, <1>4 DEF NIL_MATCHES_NONE
<1>6. applied \subseteq DOMAIN script
  OBVIOUS
<1>7. Asked(ProjectPlace(p), f) = SurvivorsOf(script, applied, f)
  BY DEF Asked
<1> HIDE DEF applied
<1>8. Asked(ProjectPlace(p), f) \subseteq Strings
  BY <1>7 DEF SurvivorsOf
<1>9. ASSUME NEW v \in Strings
      PROVE  v \in Asked(ProjectPlace(p), f) <=> Remains(LevelsOfProject(p), LevelsOfProject(p), f, v)
  <2>1. f \notin StringFields
    BY CollectionsFacts
  <2>2. v \in Asked(ProjectPlace(p), f) <=>
            \E j \in applied :
                /\ Brings(j, f, v)
                /\ \A k \in applied : k > j => (script[k].operation = ADD \/ v \notin Held(script[k].data[f]))
    BY <1>7, <2>1 DEF SurvivorsOf, Brings
  <2>3. ADD # REMOVE
    BY DEF ADD, REMOVE
  <2>4. \A k \in applied : Takes(k, f, v) <=> ~(script[k].operation = ADD \/ v \notin Held(script[k].data[f]))
    BY <1>3, <1>6, <2>3 DEF Takes
  <2>5. v \in Asked(ProjectPlace(p), f) <=>
            \E j \in applied : Brings(j, f, v) /\ \A k \in applied : k > j => ~Takes(k, f, v)
    BY <2>2, <2>4
  <2>6. \A j : KeptFrom(j, LevelsOfProject(p), f, v) <=> \A k \in applied : k > j => ~Takes(k, f, v)
    BY <1>5, <1>6 DEF KeptFrom
  <2> QED
    BY <1>5, <1>6, <2>5, <2>6 DEF Remains
<1> QED
  BY <1>8, <1>9

LEMMA RemainsMore ==
    ASSUME NEW levels, NEW more, levels \subseteq more, NEW taking, NEW less, less \subseteq taking,
           NEW f, NEW v, Remains(levels, taking, f, v)
    PROVE  Remains(more, less, f, v)
  BY DEF Remains, KeptFrom

\* What each state's blocks come from and are taken away by.
LEMMA LevelsOfStates ==
    /\ LET name == <<"root", Workspace>> IN
       AddingLevels(name) = {{}} /\ TakingLevels(name) = Levels /\ name \in StateNames
    /\ LET name == <<"workspace", Workspace>> IN
       AddingLevels(name) = {InWorkspace} /\ TakingLevels(name) = Levels /\ name \in StateNames
    /\ LET name == <<"inheritingWorkspace", Workspace>> IN
       AddingLevels(name) = {{}, InWorkspace} /\ TakingLevels(name) = Levels \ {{}} /\ name \in StateNames
    /\ \A p \in Projects : LET name == <<"inheritingProject", p>> IN
       AddingLevels(name) = LevelsOfProject(p) /\ TakingLevels(name) = {InProject(p)} /\ name \in StateNames
    /\ \A p \in Projects : LET name == <<"project", p>> IN
       /\ AddingLevels(name) = {InProject(p)} /\ TakingLevels(name) = LevelsOfProject(p)
       /\ EnclosingLevels(name) = LevelsOfProject(p) /\ name \in StateNames
<1>0. REMOVE # OUT_OF_SCOPE
  BY DEF REMOVE, OUT_OF_SCOPE
<1>a. \A a, b : <<a, b>>[1] = a /\ <<a, b>>[2] = b
  OBVIOUS
<1>1. ASSUME NEW name, name = <<"root", Workspace>>
      PROVE  AddingLevels(name) = {{}} /\ TakingLevels(name) = Levels
  <2>1. name[1] = "root"
    BY <1>1
  <2>2. AddingLevels(name) = {{}} /\ ReachingLevels(name) = Levels /\ LocalLevels(name) = Levels
    BY <2>1 DEF AddingLevels, EnclosingLevels, ReachingLevels, LocalLevels
  <2>3. \A c \in Levels : Settled(name, c)[2] = REMOVE
    BY <1>a, <2>2 DEF Settled
  <2> QED
    BY <2>2, <2>3 DEF TakingLevels
<1>2. ASSUME NEW name, name = <<"workspace", Workspace>>
      PROVE  AddingLevels(name) = {InWorkspace} /\ TakingLevels(name) = Levels
  <2>1. name[1] = "workspace"
    BY <1>2
  <2>2. /\ AddingLevels(name) = {InWorkspace} /\ ReachingLevels(name) = Levels \ {{}}
        /\ LocalLevels(name) = Levels \ {{}} /\ EnclosingLevels(name) = {{}, InWorkspace}
    BY <2>1 DEF AddingLevels, EnclosingLevels, ReachingLevels, LocalLevels
  <2>3. \A c \in Levels : Settled(name, c)[2] = REMOVE
    BY <1>a, <2>2 DEF Settled
  <2> QED
    BY <2>2, <2>3 DEF TakingLevels
<1>3. ASSUME NEW name, name = <<"inheritingWorkspace", Workspace>>
      PROVE  AddingLevels(name) = {{}, InWorkspace} /\ TakingLevels(name) = Levels \ {{}}
  <2>1. name[1] = "inheritingWorkspace"
    BY <1>3
  <2>2. /\ AddingLevels(name) = {{}, InWorkspace} /\ ReachingLevels(name) = Levels
        /\ LocalLevels(name) = Levels \ {{}}
    BY <2>1 DEF AddingLevels, EnclosingLevels, ReachingLevels, LocalLevels
  <2>3. \A c \in Levels : Settled(name, c)[2] = REMOVE <=> c \in Levels \ {{}}
    BY <1>0, <1>a, <2>2 DEF Settled
  <2> QED
    BY <2>2, <2>3 DEF TakingLevels
<1>4. ASSUME NEW p \in Projects, NEW name, name = <<"inheritingProject", p>>
      PROVE  AddingLevels(name) = LevelsOfProject(p) /\ TakingLevels(name) = {InProject(p)}
  <2>1. name[1] = "inheritingProject" /\ name[2] = p
    BY <1>4
  <2>2. /\ AddingLevels(name) = LevelsOfProject(p) /\ ReachingLevels(name) = Levels
        /\ LocalLevels(name) = {InProject(p)}
    BY <2>1 DEF AddingLevels, EnclosingLevels, ReachingLevels, LocalLevels, LevelsOfProject
  <2>3. \A c \in Levels : Settled(name, c)[2] = REMOVE <=> c = InProject(p)
    BY <1>0, <1>a, <2>2 DEF Settled
  <2>4. InProject(p) \in Levels
    BY InLevels
  <2> QED
    BY <2>2, <2>3, <2>4 DEF TakingLevels
<1>5. ASSUME NEW p \in Projects, NEW name \in StateNames, name = <<"project", p>>
      PROVE  /\ AddingLevels(name) = {InProject(p)} /\ TakingLevels(name) = LevelsOfProject(p)
             /\ EnclosingLevels(name) = LevelsOfProject(p)
  <2>1. name[1] = "project" /\ name[2] = p
    BY <1>5
  <2>2. AddingLevels(name) = {InProject(p)} /\ EnclosingLevels(name) = LevelsOfProject(p)
    BY <2>1 DEF AddingLevels, EnclosingLevels, LevelsOfProject
  <2>3. LevelsOfProject(p) \subseteq Levels
    BY InLevels DEF LevelsOfProject
  <2>4. \A c \in Levels : c \in TakingLevels(name) <=> c \in LevelsOfProject(p)
    BY <2>1, <2>2, SettledReaching
  <2>5. TakingLevels(name) \subseteq Levels
    BY DEF TakingLevels
  <2> QED
    BY <2>2, <2>3, <2>4, <2>5
<1>6. /\ <<"root", Workspace>> \in StateNames /\ <<"workspace", Workspace>> \in StateNames
      /\ <<"inheritingWorkspace", Workspace>> \in StateNames
      /\ \A p \in Projects : <<"project", p>> \in StateNames /\ <<"inheritingProject", p>> \in StateNames
  BY DEF StateNames
<1> QED
  BY <1>1, <1>2, <1>3, <1>4, <1>5, <1>6

\* What the fetched values have to do with the script, string by string.
LEMMA ContainersFetched ==
    ASSUME HistoryInv, AllFetched, NEW f \in Collections, NEW v \in Strings
    PROVE  /\ v \in Value(<<"root", Workspace>>, f) <=> Remains({{}}, Levels, f, v)
           /\ v \in Value(<<"workspace", Workspace>>, f) <=> Remains({InWorkspace}, Levels, f, v)
           /\ v \in Value(<<"inheritingWorkspace", Workspace>>, f) <=>
                 Remains({{}, InWorkspace}, Levels \ {{}}, f, v)
<1>1. ASSUME NEW name \in StateNames, name[1] # "project"
      PROVE  v \in Value(name, f) <=> Remains(AddingLevels(name), TakingLevels(name), f, v)
  BY <1>1, FetchedMeaning DEF StringAsMeant
<1>2. v \in Value(<<"root", Workspace>>, f) <=> Remains({{}}, Levels, f, v)
  <2>1. PICK name \in StateNames : name = <<"root", Workspace>>
    BY LevelsOfStates
  <2>2. name[1] # "project" /\ AddingLevels(name) = {{}} /\ TakingLevels(name) = Levels
    BY <2>1, LevelsOfStates
  <2>3. v \in Value(name, f) <=> Remains({{}}, Levels, f, v)
    BY <1>1, <2>2
  <2> QED
    BY <2>1, <2>3
<1>3. v \in Value(<<"workspace", Workspace>>, f) <=> Remains({InWorkspace}, Levels, f, v)
  <2>1. PICK name \in StateNames : name = <<"workspace", Workspace>>
    BY LevelsOfStates
  <2>2. name[1] # "project" /\ AddingLevels(name) = {InWorkspace} /\ TakingLevels(name) = Levels
    BY <2>1, LevelsOfStates
  <2>3. v \in Value(name, f) <=> Remains({InWorkspace}, Levels, f, v)
    BY <1>1, <2>2
  <2> QED
    BY <2>1, <2>3
<1>4. v \in Value(<<"inheritingWorkspace", Workspace>>, f) <=> Remains({{}, InWorkspace}, Levels \ {{}}, f, v)
  <2>1. PICK name \in StateNames : name = <<"inheritingWorkspace", Workspace>>
    BY LevelsOfStates
  <2>2. name[1] # "project" /\ AddingLevels(name) = {{}, InWorkspace} /\ TakingLevels(name) = Levels \ {{}}
    BY <2>1, LevelsOfStates
  <2>3. v \in Value(name, f) <=> Remains({{}, InWorkspace}, Levels \ {{}}, f, v)
    BY <1>1, <2>2
  <2> QED
    BY <2>1, <2>3
<1> QED
  BY <1>2, <1>3, <1>4

LEMMA ProjectsFetched ==
    ASSUME HistoryInv, AllFetched, NEW p \in Projects, NEW f \in Collections, NEW v \in Strings
    PROVE  /\ v \in Value(<<"inheritingProject", p>>, f) <=>
                 Remains(LevelsOfProject(p), {InProject(p)}, f, v)
           /\ Remains({InProject(p)}, LevelsOfProject(p), f, v) => v \in Value(<<"project", p>>, f)
           /\ Restored(<<"project", p>>, f, v) => v \in Value(<<"project", p>>, f)
           /\ v \in Value(<<"project", p>>, f) => Remains(LevelsOfProject(p), {InProject(p)}, f, v)
<1>1. \A name \in StateNames : StringAsMeant(name, Value(name, f), f, v)
  BY FetchedMeaning
<1>2. v \in Value(<<"inheritingProject", p>>, f) <=> Remains(LevelsOfProject(p), {InProject(p)}, f, v)
  <2>1. PICK name \in StateNames : name = <<"inheritingProject", p>>
    BY LevelsOfStates
  <2>2. name[1] # "project"
    BY <2>1
  <2>3. AddingLevels(name) = LevelsOfProject(p) /\ TakingLevels(name) = {InProject(p)}
    BY <2>1, LevelsOfStates
  <2>4. v \in Value(name, f) <=> Remains(LevelsOfProject(p), {InProject(p)}, f, v)
    BY <1>1, <2>2, <2>3 DEF StringAsMeant
  <2> QED
    BY <2>1, <2>4
<1>3. ASSUME NEW name \in StateNames, name = <<"project", p>>
      PROVE  /\ Remains({InProject(p)}, LevelsOfProject(p), f, v) => v \in Value(name, f)
             /\ Restored(name, f, v) => v \in Value(name, f)
             /\ v \in Value(name, f) => Remains(LevelsOfProject(p), {InProject(p)}, f, v)
  <2>1. StringAsMeant(name, Value(name, f), f, v)
    BY <1>1
  <2>2. name[1] = "project" /\ name[2] = p
    BY <1>3
  <2>3. /\ AddingLevels(name) = {InProject(p)} /\ TakingLevels(name) = LevelsOfProject(p)
        /\ EnclosingLevels(name) = LevelsOfProject(p)
    BY <1>3, LevelsOfStates
  <2> QED
    BY <2>1, <2>2, <2>3 DEF StringAsMeant
<1> QED
  BY <1>2, <1>3, LevelsOfStates

\* What is brought outside the project reaches it through the container's file, unless a
\* sibling's removal keeps it from there: then it is given back.
LEMMA NothingIsLost ==
    ASSUME HistoryInv, AllFetched, NEW p \in Projects, NEW f \in Collections, NEW v \in Strings,
           Remains(LevelsOfProject(p), LevelsOfProject(p), f, v)
    PROVE  v \in Layered(p, f)
<1>1. PICK n \in DOMAIN script :
          Brings(n, f, v) /\ script[n].condition \in LevelsOfProject(p) /\ KeptFrom(n, LevelsOfProject(p), f, v)
  BY DEF Remains
<1>2. CASE script[n].condition = InProject(p)
  <2>1. Remains({InProject(p)}, LevelsOfProject(p), f, v)
    BY <1>1, <1>2 DEF Remains
  <2> QED
    BY <2>1, ProjectsFetched DEF Layered
<1>3. CASE /\ script[n].condition \in {{}, InWorkspace}
           /\ \E m \in DOMAIN script : m > n /\ Takes(m, f, v) /\ script[m].condition \notin LevelsOfProject(p)
  <2>1. PICK name : name = <<"project", p>>
    OBVIOUS
  <2>2. EnclosingLevels(name) = LevelsOfProject(p) /\ TakingLevels(name) = LevelsOfProject(p)
    BY <2>1, LevelsOfStates
  <2>3. Restored(name, f, v)
    BY <1>1, <1>3, <2>2 DEF Restored
  <2> QED
    BY <2>1, <2>3, ProjectsFetched DEF Layered
<1>4. CASE /\ script[n].condition \in {{}, InWorkspace}
           /\ ~\E m \in DOMAIN script : m > n /\ Takes(m, f, v) /\ script[m].condition \notin LevelsOfProject(p)
  <2>1. KeptFrom(n, Levels, f, v)
    BY <1>1, <1>4 DEF KeptFrom
  <2>2. Remains({script[n].condition}, Levels, f, v)
    BY <1>1, <2>1 DEF Remains
  <2>3. v \in Value(<<"root", Workspace>>, f) \/ v \in Value(<<"workspace", Workspace>>, f)
    BY <1>4, <2>2, ContainersFetched
  <2> QED
    BY <2>3 DEF Layered, FromContainers
<1> QED
  BY <1>1, <1>2, <1>3, <1>4 DEF LevelsOfProject

\* No block anywhere takes away what a container's file brings.
LEMMA ContainersStay ==
    ASSUME HistoryInv, AllFetched, NEW f \in Collections, NEW v \in Strings, v \in FromContainers(f)
    PROVE  /\ \A p \in Projects : Remains(LevelsOfProject(p), LevelsOfProject(p), f, v)
           /\ v \in Value(<<"inheritingWorkspace", Workspace>>, f)
<1>1. PICK c \in {{}, InWorkspace} : Remains({c}, Levels, f, v)
  BY ContainersFetched DEF FromContainers
<1>2. ASSUME NEW p \in Projects
      PROVE  Remains(LevelsOfProject(p), LevelsOfProject(p), f, v)
  <2>1. LevelsOfProject(p) \subseteq Levels /\ {c} \subseteq LevelsOfProject(p)
    BY InLevels DEF LevelsOfProject
  <2> QED
    BY <1>1, <2>1, RemainsMore
<1>3. Levels \ {{}} \subseteq Levels /\ {c} \subseteq {{}, InWorkspace}
  OBVIOUS
<1>4. Remains({{}, InWorkspace}, Levels \ {{}}, f, v)
  BY <1>1, <1>3, RemainsMore
<1> QED
  BY <1>2, <1>4, ContainersFetched

\* Where values are only removed for single projects, none that a project loses was removed
\* for all of them.
LEMMA OwnRemovalsOnly ==
    ASSUME script \in Scripts, ~RemovesAboveProjects, NEW p \in Projects, NEW f, NEW v,
           Remains(LevelsOfProject(p), {InProject(p)}, f, v)
    PROVE  Remains(LevelsOfProject(p), LevelsOfProject(p), f, v)
<1>1. PICK n \in DOMAIN script :
          Brings(n, f, v) /\ script[n].condition \in LevelsOfProject(p) /\ KeptFrom(n, {InProject(p)}, f, v)
  BY DEF Remains
<1>2. ASSUME NEW m \in DOMAIN script, m > n, Takes(m, f, v), script[m].condition \in LevelsOfProject(p)
      PROVE  FALSE
  <2>1. script[m].operation = REMOVE
    BY <1>2 DEF Takes
  <2>2. "projects" \in FieldsTested(script[m].condition)
    BY <2>1 DEF RemovesAboveProjects
  <2>3. script[m].condition # {} /\ script[m].condition # InWorkspace
    BY <2>2, FieldsOfLevels
  <2>4. script[m].condition = InProject(p)
    BY <1>2, <2>3 DEF LevelsOfProject
  <2> QED
    BY <1>1, <1>2, <2>4 DEF KeptFrom
<1>3. KeptFrom(n, LevelsOfProject(p), f, v)
  BY <1>2 DEF KeptFrom
<1> QED
  BY <1>1, <1>3 DEF Remains

LEMMA HistoryCompletes == HistoryInv => ProjectFilesComplete
<1> SUFFICES ASSUME HistoryInv, AllFetched
             PROVE  ProjectFilesComplete
  BY DEF ProjectFilesComplete, NothingLost, ContainersAdditive, InheritingProjectComplete,
         InheritingWorkspaceComplete, ExactWhenProjectsRemove
<1>1. script \in Scripts
  BY DEF HistoryInv
<1>2. ASSUME NEW f \in Collections
      PROVE  FromContainers(f) \subseteq Strings
  BY FetchedMeaning, LevelsOfStates DEF FromContainers
<1>3. ASSUME NEW p \in Projects, NEW f \in Collections
      PROVE  /\ Asked(ProjectPlace(p), f) \subseteq Strings
             /\ Layered(p, f) \subseteq Strings
             /\ Value(<<"inheritingProject", p>>, f) \subseteq Strings
  BY <1>1, <1>2, AskedStrings, FetchedMeaning, LevelsOfStates DEF Layered
<1>4. ASSUME NEW p \in Projects, NEW f \in Collections
      PROVE  Asked(ProjectPlace(p), f) \subseteq Layered(p, f)
  <2>1. ASSUME NEW v \in Asked(ProjectPlace(p), f)
        PROVE  v \in Layered(p, f)
    <3>1. v \in Strings
      BY <1>3
    <3>2. Remains(LevelsOfProject(p), LevelsOfProject(p), f, v)
      BY <1>1, <3>1, AskedStrings
    <3> QED
      BY <3>1, <3>2, NothingIsLost
  <2> QED
    BY <2>1
<1>5. ASSUME NEW p \in Projects, NEW f \in Collections
      PROVE  FromContainers(f) \subseteq Asked(ProjectPlace(p), f)
  <2>1. ASSUME NEW v \in FromContainers(f)
        PROVE  v \in Asked(ProjectPlace(p), f)
    <3>1. v \in Strings
      BY <1>2
    <3>2. Remains(LevelsOfProject(p), LevelsOfProject(p), f, v)
      BY <3>1, ContainersStay
    <3> QED
      BY <1>1, <3>1, <3>2, AskedStrings
  <2> QED
    BY <2>1
<1>6. ASSUME NEW p \in Projects, NEW f \in Collections
      PROVE  Asked(ProjectPlace(p), f) \subseteq Value(<<"inheritingProject", p>>, f)
  <2>1. ASSUME NEW v \in Asked(ProjectPlace(p), f)
        PROVE  v \in Value(<<"inheritingProject", p>>, f)
    <3>1. v \in Strings
      BY <1>3
    <3>2. Remains(LevelsOfProject(p), LevelsOfProject(p), f, v)
      BY <1>1, <3>1, AskedStrings
    <3>3. {InProject(p)} \subseteq LevelsOfProject(p)
      BY DEF LevelsOfProject
    <3>4. Remains(LevelsOfProject(p), {InProject(p)}, f, v)
      BY <3>2, <3>3, RemainsMore
    <3> QED
      BY <3>1, <3>4, ProjectsFetched
  <2> QED
    BY <2>1
<1>7. ASSUME ~RemovesAboveProjects, NEW p \in Projects, NEW f \in Collections
      PROVE  /\ Value(<<"inheritingProject", p>>, f) \subseteq Asked(ProjectPlace(p), f)
             /\ Value(<<"project", p>>, f) \subseteq Asked(ProjectPlace(p), f)
  <2>1. ASSUME NEW v \in Strings,
               v \in Value(<<"inheritingProject", p>>, f) \/ v \in Value(<<"project", p>>, f)
        PROVE  v \in Asked(ProjectPlace(p), f)
    <3>1. Remains(LevelsOfProject(p), {InProject(p)}, f, v)
      BY <2>1, ProjectsFetched
    <3>2. Remains(LevelsOfProject(p), LevelsOfProject(p), f, v)
      BY <1>1, <1>7, <3>1, OwnRemovalsOnly
    <3> QED
      BY <1>1, <3>2, AskedStrings
  <2>2. Value(<<"project", p>>, f) \subseteq Strings
    BY FetchedMeaning, LevelsOfStates
  <2> QED
    BY <1>3, <2>1, <2>2
<1>8. ContainersAdditive
  BY <1>5 DEF ContainersAdditive
<1>9. InheritingWorkspaceComplete
  <2> SUFFICES ASSUME NEW f \in Collections, NEW v \in FromContainers(f)
               PROVE  v \in Value(<<"inheritingWorkspace", Workspace>>, f)
    BY DEF InheritingWorkspaceComplete
  <2> QED
    BY <1>2, ContainersStay
<1>10. ExactWhenProjectsRemove
  BY <1>4, <1>5, <1>6, <1>7 DEF ExactWhenProjectsRemove, Layered
<1> QED
  BY <1>4, <1>6, <1>8, <1>9, <1>10
     DEF ProjectFilesComplete, NothingLost, InheritingProjectComplete

\* Whatever a script says, and however many projects share it: no removal for one project
\* takes anything from another, the files of the containers hold nothing that one of their
\* projects must be without, and what inherits is complete by itself (query.lua:82-150).
THEOREM ProjectsGetTheirFiles == HierarchySpec => []ProjectFilesComplete
<1>1. HierarchySpec => []HistoryInv
  BY HistoryFirst, HistoryStep, PTL DEF HierarchySpec
<1> QED
  BY <1>1, HistoryCompletes, PTL
=============================================================================
