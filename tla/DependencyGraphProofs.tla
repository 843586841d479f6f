------------------------ MODULE DependencyGraphProofs ------------------------
(***************************************************************************)
(* What holds of the dependency graph for every board: the search of       *)
(* _has_cycle is exact, and one editor at a time creates no cycle.         *)
(*                                                                         *)
(* The search is a recursive function whose value is a fold, so both are   *)
(* first shown to exist, then to satisfy their equations.                  *)
(***************************************************************************)
EXTENDS DependencyGraph, OrderLemmas

-----------------------------------------------------------------------------
(***************************************************************************)
(* VisitAll: a search from the nodes of a set, one after the other.        *)
(***************************************************************************)
\* The search of the nodes of s, when that of all but the last to be taken gave acc.
VisitNext(dfs, stack, before, s, acc) ==
    IF s = {} THEN before
    ELSE IF acc.found THEN acc
    ELSE dfs[[current |-> CHOOSE x \in s : TRUE, visited |-> acc.visited, stack |-> stack]]

\* iter gives the search of the nodes of each subset of S.
IsVisit(iter, dfs, stack, before, S) ==
    iter = [s \in SUBSET S |->
              VisitNext(dfs, stack, before, s, iter[s \ {CHOOSE x \in s : TRUE}])]

\* A search of a finite set of nodes exists.
LEMMA VisitExists ==
  ASSUME NEW dfs, NEW stack, NEW before, NEW S, IsFiniteSet(S)
  PROVE  \E iter : IsVisit(iter, dfs, stack, before, S)
<1> DEFINE rest(s) == s \ {CHOOSE x \in s : TRUE}
           good(g, n) == \A s \in SUBSET S : Cardinality(s) < n =>
                           g[s] = VisitNext(dfs, stack, before, s, g[rest(s)])
           P == {n \in Nat : \E g : DOMAIN g = SUBSET S /\ good(g, n)}
<1>1. \A s \in SUBSET S :
        /\ IsFiniteSet(s) /\ Cardinality(s) \in Nat /\ Cardinality(s) <= Cardinality(S)
        /\ rest(s) \in SUBSET S
        /\ s # {} => Cardinality(rest(s)) + 1 = Cardinality(s)
  <2> SUFFICES ASSUME NEW s \in SUBSET S
               PROVE  /\ IsFiniteSet(s) /\ Cardinality(s) \in Nat /\ Cardinality(s) <= Cardinality(S)
                      /\ rest(s) \in SUBSET S
                      /\ s # {} => Cardinality(rest(s)) + 1 = Cardinality(s)
    OBVIOUS
  <2>1. IsFiniteSet(s) /\ Cardinality(s) \in Nat /\ Cardinality(s) <= Cardinality(S)
    BY FS_Subset, FS_CardinalityType
  <2>2. ASSUME s # {} PROVE Cardinality(rest(s)) + 1 = Cardinality(s)
    <3>1. (CHOOSE x \in s : TRUE) \in s
      BY <2>2
    <3>2. Cardinality(rest(s)) = Cardinality(s) - 1
      BY <2>1, <3>1, FS_RemoveElement
    <3> QED BY <2>1, <3>2
  <2> QED BY <2>1, <2>2
<1> HIDE DEF rest
<1>2. 0 \in P
  <2>1. \A s \in SUBSET S : ~(Cardinality(s) < 0)
    BY <1>1
  <2>2. good([s \in SUBSET S |-> before], 0)
    BY <2>1
  <2>3. DOMAIN [s \in SUBSET S |-> before] = SUBSET S
    OBVIOUS
  <2> HIDE DEF good
  <2> QED BY <2>2, <2>3
<1>3. ASSUME NEW n \in P PROVE n + 1 \in P
  <2>1. PICK g : DOMAIN g = SUBSET S /\ good(g, n)
    OBVIOUS
  <2> DEFINE h == [s \in SUBSET S |->
                     IF Cardinality(s) < n THEN g[s]
                     ELSE VisitNext(dfs, stack, before, s, g[rest(s)])]
  <2>2. ASSUME NEW s \in SUBSET S, Cardinality(s) < n + 1
        PROVE  h[s] = VisitNext(dfs, stack, before, s, h[rest(s)])
    <3>1. h[s] = VisitNext(dfs, stack, before, s, g[rest(s)])
      BY <2>1
    <3>2. CASE s = {}
      BY <3>1, <3>2 DEF VisitNext
    <3>3. CASE s # {}
      <4>1. rest(s) \in SUBSET S /\ Cardinality(rest(s)) < n
        BY <1>1, <2>2, <3>3
      <4>2. h[rest(s)] = g[rest(s)]
        BY <4>1
      <4> QED BY <3>1, <4>2
    <3> QED BY <3>2, <3>3
  <2>3. DOMAIN h = SUBSET S /\ good(h, n + 1)
    BY <2>2
  <2> HIDE DEF h, good
  <2> QED BY <2>3
<1>4. P \in SUBSET Nat
  OBVIOUS
<1>5. P = Nat
  <2> HIDE DEF P
  <2> QED BY <1>2, <1>3, <1>4, AllNat
<1>6. Cardinality(S) + 1 \in Nat
  BY FS_CardinalityType
<1>7. PICK g : DOMAIN g = SUBSET S /\ good(g, Cardinality(S) + 1)
  BY <1>5, <1>6
<1> DEFINE iter == [s \in SUBSET S |-> g[s]]
<1>8. ASSUME NEW s \in SUBSET S
      PROVE  iter[s] = VisitNext(dfs, stack, before, s, iter[rest(s)])
  <2>1. Cardinality(s) < Cardinality(S) + 1 /\ rest(s) \in SUBSET S
    BY <1>1, <1>6
  <2> QED BY <1>7, <2>1
<1>9. iter = [s \in SUBSET S |-> VisitNext(dfs, stack, before, s, iter[rest(s)])]
  <2>1. iter = [s \in SUBSET S |-> iter[s]]
    OBVIOUS
  <2> HIDE DEF iter
  <2> QED BY <1>8, <2>1
<1> HIDE DEF iter
<1> QED BY <1>9 DEF IsVisit, rest

\* VisitAll is the search of all of S.
LEMMA VisitAllIs ==
  ASSUME NEW dfs, NEW stack, NEW before, NEW S, IsFiniteSet(S)
  PROVE  \E iter : IsVisit(iter, dfs, stack, before, S)
                   /\ VisitAll(dfs, stack, before, S) = iter[S]
<1> DEFINE iter == CHOOSE g : g = [s \in SUBSET S |->
                     IF s = {} THEN before
                     ELSE IF g[s \ {CHOOSE x \in s : TRUE}].found
                          THEN g[s \ {CHOOSE x \in s : TRUE}]
                     ELSE dfs[[current |-> CHOOSE x \in s : TRUE,
                               visited |-> g[s \ {CHOOSE x \in s : TRUE}].visited,
                               stack |-> stack]]]
<1>1. VisitAll(dfs, stack, before, S) = iter[S]
  BY DEF VisitAll, FoldSet, MapThenFoldSet
<1>2. IsVisit(iter, dfs, stack, before, S)
  <2>1. PICK g : IsVisit(g, dfs, stack, before, S)
    BY VisitExists
  <2>2. g = [s \in SUBSET S |->
                     IF s = {} THEN before
                     ELSE IF g[s \ {CHOOSE x \in s : TRUE}].found
                          THEN g[s \ {CHOOSE x \in s : TRUE}]
                     ELSE dfs[[current |-> CHOOSE x \in s : TRUE,
                               visited |-> g[s \ {CHOOSE x \in s : TRUE}].visited,
                               stack |-> stack]]]
    BY <2>1 DEF IsVisit, VisitNext
  <2>3. iter = [s \in SUBSET S |->
                     IF s = {} THEN before
                     ELSE IF iter[s \ {CHOOSE x \in s : TRUE}].found
                          THEN iter[s \ {CHOOSE x \in s : TRUE}]
                     ELSE dfs[[current |-> CHOOSE x \in s : TRUE,
                               visited |-> iter[s \ {CHOOSE x \in s : TRUE}].visited,
                               stack |-> stack]]]
    BY <2>2
  <2> HIDE DEF iter
  <2> QED BY <2>3 DEF IsVisit, VisitNext
<1> QED BY <1>1, <1>2

\* A property of {} that a set has when it has it without the element chosen of it
\* is one of every subset of a finite set.
LEMMA AllSubsets ==
  ASSUME NEW S, IsFiniteSet(S), NEW Q \in SUBSET SUBSET S, {} \in Q,
         \A s \in SUBSET S : s # {} /\ s \ {CHOOSE x \in s : TRUE} \in Q => s \in Q
  PROVE  Q = SUBSET S
<1> DEFINE rest(s) == s \ {CHOOSE x \in s : TRUE}
           P == {n \in Nat : \A s \in SUBSET S : Cardinality(s) = n => s \in Q}
<1>0. \A s \in SUBSET S : s # {} /\ rest(s) \in Q => s \in Q
  OBVIOUS
<1>1. ASSUME NEW s \in SUBSET S
      PROVE  /\ Cardinality(s) \in Nat /\ rest(s) \in SUBSET S /\ Cardinality(rest(s)) \in Nat
             /\ s # {} => Cardinality(rest(s)) + 1 = Cardinality(s)
             /\ Cardinality(s) = 0 => s = {}
  <2>1. IsFiniteSet(s) /\ Cardinality(s) \in Nat
    BY FS_Subset, FS_CardinalityType
  <2>2. Cardinality(s) = 0 => s = {}
    BY <2>1, FS_EmptySet
  <2>3. rest(s) \in SUBSET S /\ IsFiniteSet(rest(s)) /\ Cardinality(rest(s)) \in Nat
    BY <2>1, FS_RemoveElement, FS_CardinalityType
  <2>4. ASSUME s # {} PROVE Cardinality(rest(s)) + 1 = Cardinality(s)
    <3>1. (CHOOSE x \in s : TRUE) \in s
      BY <2>4
    <3>2. Cardinality(rest(s)) = Cardinality(s) - 1
      BY <2>1, <3>1, FS_RemoveElement
    <3> QED BY <2>1, <3>2
  <2> QED BY <2>1, <2>2, <2>3, <2>4
<1> HIDE DEF rest
<1>2. 0 \in P
  BY <1>1
<1>3. ASSUME NEW n \in P PROVE n + 1 \in P
  <2>1. ASSUME NEW s \in SUBSET S, Cardinality(s) = n + 1 PROVE s \in Q
    <3>1. s # {} /\ rest(s) \in SUBSET S /\ Cardinality(rest(s)) = n
      <4>1. Cardinality({}) = 0
        BY FS_EmptySet
      <4>2. s # {}
        BY <2>1, <4>1
      <4>3. Cardinality(rest(s)) + 1 = n + 1 /\ Cardinality(rest(s)) \in Nat /\ n \in Nat
        BY <1>1, <2>1, <4>2
      <4> QED BY <1>1, <4>2, <4>3
    <3>2. rest(s) \in Q
      BY <3>1
    <3> QED BY <1>0, <3>1, <3>2
  <2> QED BY <2>1
<1>4. P \in SUBSET Nat
  OBVIOUS
<1>5. P = Nat
  <2> HIDE DEF P
  <2> QED BY <1>2, <1>3, <1>4, AllNat
<1> QED BY <1>1, <1>5
-----------------------------------------------------------------------------
(***************************************************************************)
(* Dfs: the search from one node.                                          *)
(***************************************************************************)
Graphs == [Tasks -> SUBSET Tasks]

\* What the search `dfs` gives for s when its calls give what they do.
Explore(dfs, graph, s) ==
    IF s.current \in s.stack THEN [found |-> TRUE, visited |-> s.visited]
    ELSE IF s.current \in s.visited THEN [found |-> FALSE, visited |-> s.visited]
    ELSE VisitAll(dfs, s.stack \cup {s.current},
                  [found |-> FALSE, visited |-> s.visited \cup {s.current}], graph[s.current])

\* Two searches that agree on what is called agree on the visit.
LEMMA VisitAgrees ==
  ASSUME NEW g \in [Search -> Explored], NEW h,
         NEW st \in SUBSET Tasks, NEW before \in Explored, NEW S \in SUBSET Tasks,
         \A s \in Search : s.stack = st => g[s] = h[s]
  PROVE  /\ VisitAll(g, st, before, S) = VisitAll(h, st, before, S)
         /\ VisitAll(g, st, before, S) \in Explored
<1>1. IsFiniteSet(S)
  BY GraphTasksAssumption, FS_Subset
<1>2. PICK i : IsVisit(i, g, st, before, S) /\ VisitAll(g, st, before, S) = i[S]
  BY <1>1, VisitAllIs
<1>3. PICK k : IsVisit(k, h, st, before, S) /\ VisitAll(h, st, before, S) = k[S]
  BY <1>1, VisitAllIs
<1> DEFINE Q == {s \in SUBSET S : i[s] = k[s] /\ i[s] \in Explored}
<1>4. {} \in Q
  <2>1. i[{}] = before /\ k[{}] = before
    BY <1>2, <1>3 DEF IsVisit, VisitNext
  <2> QED BY <2>1
<1>5. ASSUME NEW s \in SUBSET S, s # {}, s \ {CHOOSE x \in s : TRUE} \in Q
      PROVE  s \in Q
  <2> DEFINE x == CHOOSE x \in s : TRUE
             acc == i[s \ {x}]
             call == [current |-> x, visited |-> acc.visited, stack |-> st]
  <2>1. x \in Tasks
    BY <1>5
  <2>2. acc \in Explored /\ k[s \ {x}] = acc
    BY <1>5
  <2>3. /\ i[s] = IF acc.found THEN acc ELSE g[call]
        /\ k[s] = IF acc.found THEN acc ELSE h[call]
    <3>1. i[s] = VisitNext(g, st, before, s, i[s \ {x}])
      BY <1>2 DEF IsVisit
    <3>2. k[s] = VisitNext(h, st, before, s, k[s \ {x}])
      BY <1>3 DEF IsVisit
    <3>3. \A f, a : VisitNext(f, st, before, s, a)
                     = IF a.found THEN a
                       ELSE f[[current |-> x, visited |-> a.visited, stack |-> st]]
      BY <1>5 DEF VisitNext
    <3> HIDE DEF x
    <3>4. k[s] = VisitNext(h, st, before, s, acc)
      BY <2>2, <3>2
    <3> QED BY <3>1, <3>3, <3>4
  <2>4. call \in Search /\ call.stack = st
    BY <2>1, <2>2 DEF Search, Explored
  <2> HIDE DEF call, acc, x
  <2>5. g[call] = h[call] /\ g[call] \in Explored
    BY <2>4
  <2> QED BY <2>2, <2>3, <2>5
<1>6. Q = SUBSET S
  <2> HIDE DEF Q
  <2>1. Q \in SUBSET SUBSET S
    BY DEF Q
  <2> QED BY <1>1, <1>4, <1>5, <2>1, AllSubsets
<1>7. S \in Q
  BY <1>6
<1> QED BY <1>2, <1>3, <1>7

\* How much further a search can go down.
Depth(s) == Cardinality(Tasks \ s.stack)

\* Each call goes one down.
LEMMA DepthIs ==
  ASSUME NEW s \in Search
  PROVE  /\ Depth(s) \in Nat /\ Depth(s) <= Cardinality(Tasks) /\ Cardinality(Tasks) \in Nat
         /\ s.current \notin s.stack =>
              \A c \in Search : c.stack = s.stack \cup {s.current} => Depth(c) + 1 = Depth(s)
<1>1. IsFiniteSet(Tasks) /\ Cardinality(Tasks) \in Nat
  BY GraphTasksAssumption, FS_CardinalityType
<1>2. \A T \in SUBSET Tasks : /\ IsFiniteSet(T) /\ Cardinality(T) \in Nat
                              /\ Cardinality(T) <= Cardinality(Tasks)
  BY <1>1, FS_Subset, FS_CardinalityType
<1>3. Tasks \ s.stack \in SUBSET Tasks
  OBVIOUS
<1>4. Depth(s) \in Nat /\ Depth(s) <= Cardinality(Tasks) /\ IsFiniteSet(Tasks \ s.stack)
  BY <1>2, <1>3 DEF Depth
<1>5. ASSUME s.current \notin s.stack, NEW c \in Search, c.stack = s.stack \cup {s.current}
      PROVE  Depth(c) + 1 = Depth(s)
  <2>1. s.current \in Tasks \ s.stack
    BY <1>5 DEF Search
  <2>2. Tasks \ c.stack = (Tasks \ s.stack) \ {s.current}
    BY <1>5
  <2>3. Cardinality((Tasks \ s.stack) \ {s.current}) = Cardinality(Tasks \ s.stack) - 1
    BY <1>4, <2>1, FS_RemoveElement
  <2> QED BY <1>4, <2>2, <2>3 DEF Depth
<1> QED BY <1>1, <1>4, <1>5

\* What a search gives, and that it depends only on the calls one down.
LEMMA ExploreAgrees ==
  ASSUME NEW graph \in Graphs, NEW g \in [Search -> Explored], NEW h, NEW s \in Search,
         s.current \notin s.stack =>
           \A c \in Search : c.stack = s.stack \cup {s.current} => g[c] = h[c]
  PROVE  Explore(g, graph, s) = Explore(h, graph, s) /\ Explore(g, graph, s) \in Explored
<1>1. /\ s.current \in Tasks /\ s.stack \in SUBSET Tasks /\ s.visited \in SUBSET Tasks
      /\ graph[s.current] \in SUBSET Tasks
  BY DEF Search, Graphs
<1>2. \A b \in BOOLEAN : [found |-> b, visited |-> s.visited] \in Explored
  BY <1>1 DEF Explored
<1>3. [found |-> FALSE, visited |-> s.visited \cup {s.current}] \in Explored
  BY <1>1 DEF Explored
<1>4. CASE s.current \in s.stack \/ s.current \in s.visited
  BY <1>2, <1>4 DEF Explore
<1>5. CASE ~(s.current \in s.stack \/ s.current \in s.visited)
  <2>1. s.stack \cup {s.current} \in SUBSET Tasks
    BY <1>1
  <2>2. \A c \in Search : c.stack = s.stack \cup {s.current} => g[c] = h[c]
    BY <1>5
  <2>3. /\ VisitAll(g, s.stack \cup {s.current},
                    [found |-> FALSE, visited |-> s.visited \cup {s.current}], graph[s.current])
            = VisitAll(h, s.stack \cup {s.current},
                    [found |-> FALSE, visited |-> s.visited \cup {s.current}], graph[s.current])
        /\ VisitAll(g, s.stack \cup {s.current},
                    [found |-> FALSE, visited |-> s.visited \cup {s.current}], graph[s.current])
            \in Explored
    BY <1>1, <1>3, <2>1, <2>2, VisitAgrees
  <2> QED BY <1>5, <2>3 DEF Explore
<1> QED BY <1>4, <1>5

\* The search exists.
LEMMA DfsExists ==
  ASSUME NEW graph \in Graphs
  PROVE  \E g \in [Search -> Explored] : g = [s \in Search |-> Explore(g, graph, s)]
<1> DEFINE good(g, n) == \A s \in Search : Depth(s) < n => g[s] = Explore(g, graph, s)
           P == {n \in Nat : \E g \in [Search -> Explored] : good(g, n)}
<1>1. 0 \in P
  <2>1. [s \in Search |-> [found |-> FALSE, visited |-> {}]] \in [Search -> Explored]
    BY DEF Explored
  <2>2. good([s \in Search |-> [found |-> FALSE, visited |-> {}]], 0)
    <3>1. \A s \in Search : ~(Depth(s) < 0)
      BY DepthIs
    <3> QED BY <3>1
  <2> HIDE DEF good
  <2> QED BY <2>1, <2>2
<1>2. ASSUME NEW n \in P PROVE n + 1 \in P
  <2>1. PICK g \in [Search -> Explored] : good(g, n)
    OBVIOUS
  <2> DEFINE h == [s \in Search |-> IF Depth(s) < n THEN g[s] ELSE Explore(g, graph, s)]
  <2>2. h \in [Search -> Explored]
    <3>1. \A s \in Search : g[s] \in Explored /\ Explore(g, graph, s) \in Explored
      BY ExploreAgrees
    <3> QED BY <3>1
  <2>3. ASSUME NEW s \in Search, Depth(s) < n + 1
        PROVE  h[s] = Explore(h, graph, s)
    <3>1. h[s] = Explore(g, graph, s)
      BY <2>1
    <3>2. ASSUME s.current \notin s.stack, NEW c \in Search, c.stack = s.stack \cup {s.current}
          PROVE  g[c] = h[c]
      <4>1. Depth(c) < n
        <5>1. Depth(c) + 1 = Depth(s)
          BY <3>2, DepthIs
        <5> QED BY <2>3, <5>1, DepthIs
      <4> QED BY <4>1
    <3> HIDE DEF h
    <3>3. Explore(g, graph, s) = Explore(h, graph, s)
      BY <2>2, <3>2, ExploreAgrees
    <3> QED BY <3>1, <3>3
  <2>4. good(h, n + 1)
    <3> HIDE DEF h
    <3> QED BY <2>3
  <2> HIDE DEF h, good
  <2> QED BY <2>2, <2>4
<1>3. P = Nat
  <2>1. P \in SUBSET Nat
    OBVIOUS
  <2> HIDE DEF P
  <2> QED BY <1>1, <1>2, <2>1, AllNat
<1>4. Cardinality(Tasks) + 1 \in Nat
  BY GraphTasksAssumption, FS_CardinalityType
<1>5. PICK g \in [Search -> Explored] : good(g, Cardinality(Tasks) + 1)
  BY <1>3, <1>4
<1>6. \A s \in Search : Depth(s) < Cardinality(Tasks) + 1
  BY DepthIs
<1>7. \A s \in Search : g[s] = Explore(g, graph, s)
  BY <1>5, <1>6
<1>8. g = [s \in Search |-> Explore(g, graph, s)]
  BY <1>7
<1> QED BY <1>8

\* It is what Dfs says it is.
LEMMA DfsIs ==
  ASSUME NEW graph \in Graphs
  PROVE  /\ Dfs(graph) \in [Search -> Explored]
         /\ \A s \in Search : Dfs(graph)[s] = Explore(Dfs(graph), graph, s)
<1>1. PICK g \in [Search -> Explored] : g = [s \in Search |-> Explore(g, graph, s)]
  BY DfsExists
<1>2. Dfs(graph) = CHOOSE f : f = [s \in Search |-> Explore(f, graph, s)]
  BY DEF Dfs, Explore
<1>3. Dfs(graph) = [s \in Search |-> Explore(Dfs(graph), graph, s)]
  BY <1>1, <1>2
<1> DEFINE P == {n \in Nat : \A s \in Search : Depth(s) < n => Dfs(graph)[s] = g[s]}
<1>4. 0 \in P
  <2>1. \A s \in Search : ~(Depth(s) < 0)
    BY DepthIs
  <2> QED BY <2>1
<1>5. ASSUME NEW n \in P PROVE n + 1 \in P
  <2>1. ASSUME NEW s \in Search, Depth(s) < n + 1 PROVE Dfs(graph)[s] = g[s]
    <3>1. ASSUME s.current \notin s.stack, NEW c \in Search, c.stack = s.stack \cup {s.current}
          PROVE  g[c] = Dfs(graph)[c]
      <4>1. Depth(c) + 1 = Depth(s)
        BY <3>1, DepthIs
      <4>2. Depth(c) < n
        BY <2>1, <4>1, DepthIs
      <4> QED BY <4>2
    <3>2. Explore(g, graph, s) = Explore(Dfs(graph), graph, s)
      BY <3>1, ExploreAgrees
    <3>3. g[s] = Explore(g, graph, s)
      BY <1>1
    <3>4. Dfs(graph)[s] = Explore(Dfs(graph), graph, s)
      BY <1>3
    <3> QED BY <3>2, <3>3, <3>4
  <2> QED BY <2>1
<1>6. P = Nat
  <2>1. P \in SUBSET Nat
    OBVIOUS
  <2> HIDE DEF P
  <2> QED BY <1>4, <1>5, <2>1, AllNat
<1>7. \A s \in Search : Dfs(graph)[s] = g[s]
  <2>1. Cardinality(Tasks) + 1 \in P
    BY <1>6, GraphTasksAssumption, FS_CardinalityType
  <2>2. \A s \in Search : Depth(s) < Cardinality(Tasks) + 1
    BY DepthIs
  <2> QED BY <2>1, <2>2
<1>8. DOMAIN Dfs(graph) = Search /\ \A s \in Search : Dfs(graph)[s] = Explore(Dfs(graph), graph, s)
  BY <1>3
<1>9. Dfs(graph) = [s \in Search |-> g[s]]
  <2>1. Dfs(graph) = [s \in Search |-> Dfs(graph)[s]]
    BY <1>3
  <2> QED BY <1>7, <2>1
<1> QED BY <1>8, <1>9
-----------------------------------------------------------------------------
(***************************************************************************)
(* What the search finds.  The nodes visited and no longer on the stack    *)
(* are finished: no edge leaves them and they contain no circle.  Of the   *)
(* nodes on the stack each leads to another or to the current one.         *)
(***************************************************************************)
\* Some tasks each depend on one of them.
Circle(graph, S) == S # {} /\ \A t \in S : graph[t] \cap S # {}

Finished(graph, D) ==
    /\ \A u \in D : graph[u] \subseteq D
    /\ \A S \in SUBSET D : ~Circle(graph, S)

Leads(graph, stack, current) == \A u \in stack : graph[u] \cap (stack \cup {current}) # {}

\* A search that may start.
Ready(graph, s) ==
    /\ s.stack \subseteq s.visited
    /\ Finished(graph, s.visited \ s.stack)
    /\ Leads(graph, s.stack, s.current)

\* A cycle was found, or the nodes have been visited as well and are finished.
Right(graph, stack, before, nodes, result) ==
    IF result.found THEN Cyclic(graph)
    ELSE /\ before \subseteq result.visited
         /\ nodes \subseteq result.visited \ stack
         /\ Finished(graph, result.visited \ stack)

\* A circle makes the graph cyclic.
LEMMA CircleIsCyclic ==
  ASSUME NEW graph, NEW S \in SUBSET Tasks, Circle(graph, S)
  PROVE  Cyclic(graph)
BY DEF Cyclic, Circle

\* If the search from one node is right, so is that from one after the other.
LEMMA VisitRight ==
  ASSUME NEW graph \in Graphs, NEW g \in [Search -> Explored],
         NEW st \in SUBSET Tasks, NEW v \in SUBSET Tasks, NEW S \in SUBSET Tasks,
         st \subseteq v, Finished(graph, v \ st), \A x \in S : Leads(graph, st, x),
         \A c \in Search : c.stack = st /\ Ready(graph, c)
                             => Right(graph, st, c.visited, {c.current}, g[c])
  PROVE  Right(graph, st, v, S, VisitAll(g, st, [found |-> FALSE, visited |-> v], S))
<1> DEFINE before == [found |-> FALSE, visited |-> v]
<1>1. IsFiniteSet(S)
  BY GraphTasksAssumption, FS_Subset
<1>2. PICK i : IsVisit(i, g, st, before, S) /\ VisitAll(g, st, before, S) = i[S]
  BY <1>1, VisitAllIs
<1>3. before \in Explored /\ before.found = FALSE /\ before.visited = v
  BY DEF Explored
<1> HIDE DEF before
<1> DEFINE Q == {s \in SUBSET S : i[s] \in Explored /\ Right(graph, st, v, s, i[s])}
<1>4. {} \in Q
  <2>1. i[{}] = before
    BY <1>2 DEF IsVisit, VisitNext
  <2>2. Right(graph, st, v, {}, before)
    BY <1>3 DEF Right
  <2> QED BY <1>3, <2>1, <2>2
<1>5. ASSUME NEW s \in SUBSET S, s # {}, s \ {CHOOSE x \in s : TRUE} \in Q
      PROVE  s \in Q
  <2> DEFINE x == CHOOSE x \in s : TRUE
             acc == i[s \ {x}]
             call == [current |-> x, visited |-> acc.visited, stack |-> st]
  <2>1. x \in s /\ x \in S /\ x \in Tasks
    BY <1>5
  <2>2. acc \in Explored /\ Right(graph, st, v, s \ {x}, acc)
    BY <1>5
  <2>3. i[s] = IF acc.found THEN acc ELSE g[call]
    <3>1. i[s] = VisitNext(g, st, before, s, i[s \ {x}])
      BY <1>2 DEF IsVisit
    <3> QED BY <1>5, <3>1 DEF VisitNext
  <2>4. /\ call \in Search /\ call.stack = st /\ call.current = x
        /\ call.visited = acc.visited
    BY <2>1, <2>2 DEF Search, Explored
  <2> HIDE DEF call, acc, x
  <2>5. CASE acc.found
    <3>1. i[s] = acc /\ Right(graph, st, v, s, acc)
      BY <2>2, <2>3, <2>5 DEF Right
    <3> QED BY <2>2, <3>1
  <2>6. CASE ~acc.found
    <3>1. i[s] = g[call] /\ g[call] \in Explored
      BY <2>3, <2>4, <2>6
    <3>2. v \subseteq acc.visited /\ s \ {x} \subseteq acc.visited \ st /\ Finished(graph, acc.visited \ st)
      BY <2>2, <2>6 DEF Right
    <3>3. Ready(graph, call)
      BY <2>1, <2>4, <3>2 DEF Ready
    <3>4. Right(graph, st, acc.visited, {x}, g[call])
      BY <2>4, <3>3
    <3>5. Right(graph, st, v, s, g[call])
      BY <3>2, <3>4 DEF Right
    <3> QED BY <3>1, <3>5
  <2> QED BY <2>5, <2>6
<1>6. Q = SUBSET S
  <2> HIDE DEF Q
  <2>1. Q \in SUBSET SUBSET S
    BY DEF Q
  <2> QED BY <1>1, <1>4, <1>5, <2>1, AllSubsets
<1>7. S \in Q
  BY <1>6
<1> QED BY <1>2, <1>7 DEF before

\* When the successors of a node are finished, so are they and the node.
LEMMA OneMoreFinished ==
  ASSUME NEW graph \in Graphs, NEW D \in SUBSET Tasks, NEW c \in Tasks,
         Finished(graph, D), c \notin D, graph[c] \subseteq D
  PROVE  Finished(graph, D \cup {c})
<1>1. \A u \in D \cup {c} : graph[u] \subseteq D \cup {c}
  BY DEF Finished
<1>2. ASSUME NEW S \in SUBSET (D \cup {c}), Circle(graph, S) PROVE FALSE
  <2>1. \A t \in S : graph[t] \subseteq D
    BY DEF Finished
  <2>2. Circle(graph, S \ {c})
    <3>1. \A t \in S : graph[t] \cap (S \ {c}) # {}
      BY <1>2, <2>1 DEF Circle
    <3>2. S \ {c} # {}
      BY <1>2, <3>1 DEF Circle
    <3> QED BY <3>1, <3>2 DEF Circle
  <2>3. S \ {c} \in SUBSET D
    OBVIOUS
  <2> QED BY <2>2, <2>3 DEF Finished
<1> QED BY <1>1, <1>2 DEF Finished

\* If the calls one down are right, so is the search.
LEMMA ExploreRight ==
  ASSUME NEW graph \in Graphs, NEW g \in [Search -> Explored], NEW s \in Search, Ready(graph, s),
         s.current \notin s.stack =>
           \A c \in Search : c.stack = s.stack \cup {s.current} /\ Ready(graph, c)
                               => Right(graph, c.stack, c.visited, {c.current}, g[c])
  PROVE  Right(graph, s.stack, s.visited, {s.current}, Explore(g, graph, s))
<1>1. /\ s.current \in Tasks /\ s.stack \in SUBSET Tasks /\ s.visited \in SUBSET Tasks
      /\ graph[s.current] \in SUBSET Tasks
  BY DEF Search, Graphs
<1>2. CASE s.current \in s.stack
  <2>1. Circle(graph, s.stack)
    BY <1>2 DEF Ready, Leads, Circle
  <2>2. Cyclic(graph)
    BY <1>1, <2>1, CircleIsCyclic
  <2> QED BY <1>2, <2>2 DEF Explore, Right
<1>3. CASE s.current \notin s.stack /\ s.current \in s.visited
  BY <1>3 DEF Explore, Right, Ready
<1>4. CASE s.current \notin s.stack /\ s.current \notin s.visited
  <2> DEFINE st == s.stack \cup {s.current}
             v == s.visited \cup {s.current}
             R == VisitAll(g, st, [found |-> FALSE, visited |-> v], graph[s.current])
  <2>1. Explore(g, graph, s) = R
    BY <1>4 DEF Explore
  <2>2. st \in SUBSET Tasks /\ v \in SUBSET Tasks /\ st \subseteq v /\ v \ st = s.visited \ s.stack
    BY <1>1, <1>4 DEF Ready
  <2>3. Finished(graph, v \ st)
    BY <2>2 DEF Ready
  <2>4. \A x \in graph[s.current] : Leads(graph, st, x)
    BY DEF Ready, Leads
  <2>5. \A c \in Search : c.stack = st /\ Ready(graph, c)
                            => Right(graph, st, c.visited, {c.current}, g[c])
    BY <1>4
  <2>6. [found |-> FALSE, visited |-> v] \in Explored
    BY <2>2 DEF Explored
  <2> HIDE DEF st, v
  <2>7. Right(graph, st, v, graph[s.current], R)
    BY <1>1, <2>2, <2>3, <2>4, <2>5, VisitRight
  <2>8. R \in Explored
    BY <1>1, <2>2, <2>6, VisitAgrees
  <2> HIDE DEF R
  <2>9. CASE R.found
    BY <2>1, <2>7, <2>9 DEF Right
  <2>10. CASE ~R.found
    <3>1. /\ v \subseteq R.visited /\ graph[s.current] \subseteq R.visited \ st
          /\ Finished(graph, R.visited \ st)
      BY <2>7, <2>10 DEF Right
    <3>2. /\ s.current \in R.visited /\ s.visited \subseteq R.visited
          /\ R.visited \ s.stack = (R.visited \ st) \cup {s.current}
          /\ R.visited \ st \in SUBSET Tasks /\ s.current \notin R.visited \ st
      BY <1>1, <1>4, <2>8, <3>1 DEF st, v, Explored
    <3>3. Finished(graph, R.visited \ s.stack)
      BY <1>1, <3>1, <3>2, OneMoreFinished
    <3> QED BY <2>1, <2>10, <3>2, <3>3 DEF Right
  <2> QED BY <2>9, <2>10
<1> QED BY <1>2, <1>3, <1>4

\* The search from a node is right.
LEMMA DfsRight ==
  ASSUME NEW graph \in Graphs, NEW s \in Search, Ready(graph, s)
  PROVE  Right(graph, s.stack, s.visited, {s.current}, Dfs(graph)[s])
<1> DEFINE right(z) == Ready(graph, z)
                         => Right(graph, z.stack, z.visited, {z.current}, Dfs(graph)[z])
           P == {n \in Nat : \A z \in Search : Depth(z) < n => right(z)}
<1>1. 0 \in P
  <2>1. \A z \in Search : ~(Depth(z) < 0)
    BY DepthIs
  <2> HIDE DEF right
  <2> QED BY <2>1
<1>2. ASSUME NEW n \in P PROVE n + 1 \in P
  <2>1. ASSUME NEW z \in Search, Depth(z) < n + 1 PROVE right(z)
    <3> SUFFICES ASSUME Ready(graph, z)
                 PROVE  Right(graph, z.stack, z.visited, {z.current}, Dfs(graph)[z])
      OBVIOUS
    <3>1. ASSUME z.current \notin z.stack, NEW c \in Search, c.stack = z.stack \cup {z.current},
                 Ready(graph, c)
          PROVE  Right(graph, c.stack, c.visited, {c.current}, Dfs(graph)[c])
      <4>1. Depth(c) + 1 = Depth(z)
        BY <3>1, DepthIs
      <4>2. Depth(c) < n
        BY <2>1, <4>1, DepthIs
      <4> QED BY <3>1, <4>2
    <3>2. Dfs(graph) \in [Search -> Explored] /\ Dfs(graph)[z] = Explore(Dfs(graph), graph, z)
      BY DfsIs
    <3>3. Right(graph, z.stack, z.visited, {z.current}, Explore(Dfs(graph), graph, z))
      BY <3>1, <3>2, ExploreRight
    <3> QED BY <3>2, <3>3
  <2> HIDE DEF right
  <2> QED BY <2>1
<1>3. P = Nat
  <2>1. P \in SUBSET Nat
    OBVIOUS
  <2> HIDE DEF P
  <2> QED BY <1>1, <1>2, <2>1, AllNat
<1>4. Cardinality(Tasks) + 1 \in Nat
  BY GraphTasksAssumption, FS_CardinalityType
<1>5. Depth(s) < Cardinality(Tasks) + 1
  BY DepthIs
<1>6. Cardinality(Tasks) + 1 \in P
  <2> HIDE DEF P
  <2> QED BY <1>3, <1>4
<1>7. right(s)
  <2> HIDE DEF right
  <2> QED BY <1>5, <1>6
<1> QED BY <1>7

\* _has_cycle finds a circle when there is one among what the nodes reach, and only then.
LEMMA HasCycleIs ==
  ASSUME NEW graph \in Graphs, NEW nodes \in SUBSET Tasks
  PROVE  /\ HasCycle(nodes, graph) => Cyclic(graph)
         /\ ~HasCycle(nodes, graph) =>
              \A S \in SUBSET Tasks : Circle(graph, S) => S \cap nodes = {}
<1> DEFINE R == VisitAll(Dfs(graph), {}, [found |-> FALSE, visited |-> {}], nodes)
<1>1. HasCycle(nodes, graph) = R.found
  BY DEF HasCycle
<1>2. Dfs(graph) \in [Search -> Explored]
  BY DfsIs
<1>3. /\ {} \in SUBSET Tasks /\ {} \subseteq {} /\ {} \ {} = {}
      /\ [found |-> FALSE, visited |-> {}] \in Explored
  BY DEF Explored
<1>4. Finished(graph, {}) /\ \A x \in nodes : Leads(graph, {}, x)
  BY DEF Finished, Leads, Circle
<1>5. \A c \in Search : c.stack = {} /\ Ready(graph, c)
                          => Right(graph, {}, c.visited, {c.current}, Dfs(graph)[c])
  BY DfsRight
<1>6. Right(graph, {}, {}, nodes, R)
  BY <1>2, <1>3, <1>4, <1>5, VisitRight
<1>7. R \in Explored
  BY <1>2, <1>3, VisitAgrees
<1> HIDE DEF R
<1>8. CASE R.found
  BY <1>1, <1>6, <1>7, <1>8 DEF Right, Explored
<1>9. CASE ~R.found
  <2>1. nodes \subseteq R.visited /\ Finished(graph, R.visited)
    <3>1. R.visited \ {} = R.visited
      OBVIOUS
    <3> QED BY <1>6, <1>9, <3>1 DEF Right
  <2>2. ASSUME NEW S \in SUBSET Tasks, Circle(graph, S), NEW x \in S \cap nodes PROVE FALSE
    <3>1. Circle(graph, S \cap R.visited)
      <4>1. \A t \in S \cap R.visited : graph[t] \cap (S \cap R.visited) # {}
        BY <2>1, <2>2 DEF Circle, Finished
      <4>2. S \cap R.visited # {}
        BY <2>1
      <4> QED BY <4>1, <4>2 DEF Circle
    <3>2. S \cap R.visited \in SUBSET R.visited
      OBVIOUS
    <3> QED BY <2>1, <3>1, <3>2 DEF Finished
  <2>3. \A S \in SUBSET Tasks : Circle(graph, S) => S \cap nodes = {}
    BY <2>2
  <2> QED BY <1>1, <1>9, <2>3
<1> QED BY <1>8, <1>9
-----------------------------------------------------------------------------
(***************************************************************************)
(* Types.                                                                  *)
(***************************************************************************)
\* No request makes a task depend on itself.
NotOnItself == \A r \in Requests : op[r].kind \in {"create", "edit"} => op[r].task \notin op[r].deps

TypeInv == GraphTypeOK /\ NotOnItself

\* Only an editor replaces dependencies, and of a task that has been created.
EditsAllowed ==
    \A r \in Requests : op[r].kind = "edit" => r \in Editors /\ row[op[r].task] # "unborn"

\* A task is created by one request, which removes no edge.
CreationsApart ==
    \A r \in Requests :
        op[r].kind = "create" =>
            /\ row[op[r].task] = "unborn" /\ op[r].removed = {} /\ pc[r] # "replace"
            /\ \A q \in Requests : op[q].kind = "create" /\ op[q].task = op[r].task => q = r

\* What an edit depends on has been created, once the first query has found it.
DepsCreated ==
    \A r \in Requests :
        op[r].kind = "edit" /\ pc[r] \in {"tasks", "graph", "replace", "commit"} =>
            \A d \in op[r].deps : row[d] # "unborn"

\* The search starts from the edited task too, as long as it lives.
EditSearched ==
    \A r \in Requests :
        op[r].kind = "edit" /\ pc[r] = "graph" /\ row[op[r].task] = "live" =>
            op[r].task \in op[r].seen

\* An edit that was accepted closes no circle whatever else has been committed since.
EditStillGood ==
    \A r \in Requests :
        op[r].kind = "edit" /\ pc[r] \in {"replace", "commit"} /\ row[op[r].task] = "live" =>
            ~Cyclic(Overlaid(op[r].task, op[r].deps))

\* It has removed all edges of its task.
EditReplaces ==
    \A r \in Requests :
        op[r].kind = "edit" /\ pc[r] = "commit" =>
            \A d \in edges[op[r].task] : <<op[r].task, d>> \in op[r].removed

EditInv == EditsAllowed /\ CreationsApart /\ DepsCreated

CycleInv == NoCycle /\ EditSearched /\ EditStillGood /\ EditReplaces

LEMMA NoOpIsOp == NoOp \in Op
BY GraphTasksAssumption DEF NoOp, Op

LEMMA GraphInitTyped == GraphInit => TypeInv
<1> SUFFICES ASSUME GraphInit PROVE TypeInv
  OBVIOUS
<1>1. \A r \in Requests : op[r].kind = "none"
  BY DEF GraphInit, NoOp
<1> QED BY <1>1, NoOpIsOp DEF GraphInit, TypeInv, GraphTypeOK, NotOnItself, Live

\* What a request in memory is after a step that ends or begins one.
LEMMA OpsTyped ==
  ASSUME TypeInv, NEW r \in Requests, NEW new \in Op,
         op' = [op EXCEPT ![r] = new],
         new.kind \in {"create", "edit"} => new.task \notin new.deps
  PROVE  op' \in [Requests -> Op] /\ NotOnItself'
<1>1. op' \in [Requests -> Op]
  BY DEF TypeInv, GraphTypeOK
<1>2. \A q \in Requests : op'[q] = IF q = r THEN new ELSE op[q]
  BY DEF TypeInv, GraphTypeOK
<1> QED BY <1>1, <1>2 DEF TypeInv, NotOnItself

LEMMA FinishTyped ==
  ASSUME TypeInv, NEW r \in Requests, Finish(r)
  PROVE  op' \in [Requests -> Op] /\ NotOnItself'
         /\ pc' \in [Requests -> {"idle", "existing", "tasks", "graph", "replace", "commit"}]
<1>1. op' = [op EXCEPT ![r] = NoOp] /\ NoOp.kind = "none"
  BY DEF Finish, NoOp
<1>2. op' \in [Requests -> Op] /\ NotOnItself'
  BY <1>1, NoOpIsOp, OpsTyped
<1>3. pc' \in [Requests -> {"idle", "existing", "tasks", "graph", "replace", "commit"}]
  BY DEF Finish, Goto, TypeInv, GraphTypeOK
<1> QED BY <1>2, <1>3

\* The memory of the requests after one commits.
LEMMA CommittedIs ==
  ASSUME TypeInv, NEW r \in Requests, Committed(r)
  PROVE  /\ op' \in [Requests -> Op] /\ NotOnItself'
         /\ pc' \in [Requests -> {"idle", "existing", "tasks", "graph", "replace", "commit"}]
         /\ op'[r].kind = "none" /\ pc'[r] = "idle"
         /\ \A q \in Requests \ {r} :
              /\ op'[q].kind = op[q].kind /\ op'[q].task = op[q].task
              /\ op'[q].deps = op[q].deps /\ op'[q].seen = op[q].seen
              /\ op'[q].removed = op[q].removed \ op[r].removed
              /\ pc'[q] = pc[q]
<1>1. \A q \in Requests : op[q] \in Op
  BY DEF TypeInv, GraphTypeOK
<1>2. op'[r] = NoOp
  BY DEF Committed
<1>3. \A q \in Requests \ {r} : op'[q] = [op[q] EXCEPT !.removed = @ \ op[r].removed]
  BY DEF Committed
<1>4. \A q \in Requests \ {r} :
        /\ op'[q] \in Op
        /\ op'[q].kind = op[q].kind /\ op'[q].task = op[q].task
        /\ op'[q].deps = op[q].deps /\ op'[q].seen = op[q].seen
        /\ op'[q].removed = op[q].removed \ op[r].removed
  <2> SUFFICES ASSUME NEW q \in Requests \ {r}
               PROVE  /\ op'[q] \in Op
                      /\ op'[q].kind = op[q].kind /\ op'[q].task = op[q].task
                      /\ op'[q].deps = op[q].deps /\ op'[q].seen = op[q].seen
                      /\ op'[q].removed = op[q].removed \ op[r].removed
    OBVIOUS
  <2>1. op[q].removed \ op[r].removed \in SUBSET (Tasks \X Tasks)
    BY <1>1 DEF Op
  <2>2. op[q] \in Op /\ op'[q] = [op[q] EXCEPT !.removed = op[q].removed \ op[r].removed]
    BY <1>1, <1>3
  <2> DEFINE left == op[q].removed \ op[r].removed
  <2> HIDE DEF left
  <2>3. left \in SUBSET (Tasks \X Tasks) /\ op'[q] = [op[q] EXCEPT !.removed = left]
    BY <2>1, <2>2 DEF left
  <2>4. /\ op'[q] \in Op
        /\ op'[q].kind = op[q].kind /\ op'[q].task = op[q].task
        /\ op'[q].deps = op[q].deps /\ op'[q].seen = op[q].seen
        /\ op'[q].removed = left
    BY <2>2, <2>3 DEF Op
  <2> QED BY <2>4 DEF left
<1>5. op' \in [Requests -> Op]
  <2>1. \A q \in Requests : op'[q] \in Op
    BY <1>2, <1>4, NoOpIsOp
  <2>2. op' = [q \in Requests |-> op'[q]]
    BY DEF Committed
  <2> QED BY <2>1, <2>2
<1>6. NoOp.kind = "none"
  BY DEF NoOp
<1>7. NotOnItself'
  BY <1>2, <1>4, <1>6 DEF NotOnItself, TypeInv
<1>8. /\ pc' \in [Requests -> {"idle", "existing", "tasks", "graph", "replace", "commit"}]
      /\ pc'[r] = "idle" /\ \A q \in Requests \ {r} : pc'[q] = pc[q]
  BY DEF Committed, Goto, TypeInv, GraphTypeOK
<1> QED BY <1>2, <1>4, <1>5, <1>6, <1>7, <1>8

\* No request leaves more edges than there were.
LEMMA RemainingIs ==
  ASSUME TypeInv, NEW r \in Requests
  PROVE  /\ Remaining(r) \in [Tasks -> SUBSET Tasks]
         /\ \A u \in Tasks : Remaining(r)[u] \subseteq edges[u]
         /\ \A u \in Tasks : \A d \in Remaining(r)[u] : <<u, d>> \notin op[r].removed
         /\ \A u \in Tasks : \A d \in edges[u] : <<u, d>> \notin op[r].removed => d \in Remaining(r)[u]
         /\ op[r].removed = {} => Remaining(r) = edges
BY DEF Remaining, TypeInv, GraphTypeOK, Live

\* What a request finds when it begins.
LEMMA BeginIs ==
  ASSUME TypeInv, NEW r \in Requests, NEW kind \in {"create", "edit", "delete"}, NEW t \in Tasks,
         NEW deps \in SUBSET Tasks, NEW label, Begin(r, kind, t, deps, label),
         label \in {"existing", "replace", "commit"},
         kind \in {"create", "edit"} => t \notin deps
  PROVE  /\ op' \in [Requests -> Op] /\ NotOnItself'
         /\ pc' \in [Requests -> {"idle", "existing", "tasks", "graph", "replace", "commit"}]
         /\ row' = row /\ edges' = edges /\ pc'[r] = label
         /\ op'[r].kind = kind /\ op'[r].task = t /\ op'[r].deps = deps
         /\ op'[r].removed = {}
         /\ \A q \in Requests \ {r} : op'[q] = op[q] /\ pc'[q] = pc[q]
<1> DEFINE new == [NoOp EXCEPT !.kind = kind, !.task = t, !.deps = deps]
<1>1. /\ new \in Op /\ new.kind = kind /\ new.task = t /\ new.deps = deps
      /\ new.removed = {}
  BY NoOpIsOp DEF Op, NoOp
<1>2. op' = [op EXCEPT ![r] = new]
  BY DEF Begin
<1> HIDE DEF new
<1>3. op' \in [Requests -> Op] /\ NotOnItself'
  BY <1>1, <1>2, OpsTyped
<1>4. op'[r] = new /\ \A q \in Requests \ {r} : op'[q] = op[q]
  BY <1>2 DEF TypeInv, GraphTypeOK
<1>5. /\ pc' \in [Requests -> {"idle", "existing", "tasks", "graph", "replace", "commit"}]
      /\ pc'[r] = label /\ \A q \in Requests \ {r} : pc'[q] = pc[q]
  BY DEF Begin, Goto, TypeInv, GraphTypeOK
<1> QED BY <1>1, <1>3, <1>4, <1>5 DEF Begin

\* The edges that a commit leaves, when it stores any.
LEMMA EdgesStored ==
  ASSUME TypeInv, NEW r \in Requests, CommitEdges(r), ~(Finish(r) /\ UNCHANGED <<row, edges>>)
  PROVE  /\ Committed(r) /\ op[r].kind \in {"create", "edit"} /\ pc[r] = "commit"
         /\ op[r].task \in Tasks /\ op[r].deps \subseteq Live
         /\ op[r].kind = "edit" => row[op[r].task] = "live" /\ row' = row
         /\ op[r].kind = "create" => row' = [row EXCEPT ![op[r].task] = "live"]
         /\ edges' \in [Tasks -> SUBSET Tasks]
         /\ edges'[op[r].task] = Remaining(r)[op[r].task] \cup op[r].deps
         /\ \A u \in Tasks \ {op[r].task} : edges'[u] = Remaining(r)[u]
<1>1. op[r] \in Op
  BY DEF TypeInv, GraphTypeOK
<1>2. op[r].task \in Tasks /\ op[r].deps \in SUBSET Tasks
  BY <1>1 DEF Op
<1>3. /\ op[r].deps \subseteq Live /\ (op[r].kind = "create" \/ row[op[r].task] = "live")
      /\ edges' = [Remaining(r) EXCEPT ![op[r].task] = @ \cup op[r].deps]
      /\ row' = IF op[r].kind = "create" THEN [row EXCEPT ![op[r].task] = "live"] ELSE row
      /\ Committed(r) /\ op[r].kind \in {"create", "edit"} /\ pc[r] = "commit"
  BY DEF CommitEdges
<1>4. Remaining(r) \in [Tasks -> SUBSET Tasks]
  BY RemainingIs
<1>5. /\ edges' \in [Tasks -> SUBSET Tasks]
      /\ edges'[op[r].task] = Remaining(r)[op[r].task] \cup op[r].deps
      /\ \A u \in Tasks \ {op[r].task} : edges'[u] = Remaining(r)[u]
  BY <1>2, <1>3, <1>4
<1> QED BY <1>2, <1>3, <1>5

LEMMA DeletionStored ==
  ASSUME TypeInv, NEW r \in Requests, CommitDelete(r), ~(Finish(r) /\ UNCHANGED <<row, edges>>)
  PROVE  /\ Committed(r) /\ op[r].kind = "delete" /\ op[r].task \in Tasks
         /\ row[op[r].task] = "live" /\ row' = [row EXCEPT ![op[r].task] = "gone"]
         /\ edges' = Remaining(r) /\ Remaining(r)[op[r].task] = {}
         /\ \A u \in Tasks : op[r].task \notin Remaining(r)[u]
<1>1. op[r].task \in Tasks
  BY DEF TypeInv, GraphTypeOK, Op
<1> QED BY <1>1 DEF CommitDelete

\* What the steps of one request that change no edge leave of the types.
LEMMA SameGraphTyped ==
  ASSUME TypeInv, UNCHANGED <<row, edges>>,
         op' \in [Requests -> Op], NotOnItself',
         pc' \in [Requests -> {"idle", "existing", "tasks", "graph", "replace", "commit"}]
  PROVE  TypeInv'
BY DEF TypeInv, GraphTypeOK, Live

LEMMA TypeStep == TypeInv /\ [GraphNext]_graphVars => TypeInv'
<1> SUFFICES ASSUME TypeInv, [GraphNext]_graphVars PROVE TypeInv'
  OBVIOUS
<1> USE DEF Goto
<1>1. ASSUME NEW r \in Requests, CheckExisting(r) PROVE TypeInv'
  <2>1. CASE Finish(r)
    BY <1>1, <2>1, FinishTyped, SameGraphTyped DEF CheckExisting
  <2>2. CASE UNCHANGED op
    <3>1. op' \in [Requests -> Op] /\ NotOnItself'
      BY <2>2 DEF TypeInv, GraphTypeOK, NotOnItself
    <3>2. pc' \in [Requests -> {"idle", "existing", "tasks", "graph", "replace", "commit"}]
      BY <1>1, FinishTyped DEF CheckExisting, TypeInv, GraphTypeOK
    <3> QED BY <1>1, <3>1, <3>2, SameGraphTyped DEF CheckExisting
  <2> QED BY <1>1, <2>1, <2>2 DEF CheckExisting
<1>2. ASSUME NEW r \in Requests, ReadTasks(r) PROVE TypeInv'
  <2> DEFINE new == [op[r] EXCEPT !.seen = Live]
  <2>1. op[r] \in Op /\ Live \in SUBSET Tasks
    BY DEF TypeInv, GraphTypeOK, Live
  <2>2. new \in Op /\ new.kind = op[r].kind /\ new.task = op[r].task /\ new.deps = op[r].deps
    <3> DEFINE live == Live
    <3> HIDE DEF live
    <3>1. live \in SUBSET Tasks /\ new = [op[r] EXCEPT !.seen = live]
      BY <2>1 DEF live
    <3> HIDE DEF new
    <3> QED BY <2>1, <3>1 DEF Op
  <2>3. op' = [op EXCEPT ![r] = new]
    BY <1>2 DEF ReadTasks
  <2> HIDE DEF new
  <2>4. op' \in [Requests -> Op] /\ NotOnItself'
    BY <2>2, <2>3, OpsTyped DEF TypeInv, NotOnItself
  <2>5. pc' \in [Requests -> {"idle", "existing", "tasks", "graph", "replace", "commit"}]
    BY <1>2 DEF ReadTasks, TypeInv, GraphTypeOK
  <2> QED BY <1>2, <2>4, <2>5, SameGraphTyped DEF ReadTasks
<1>3. ASSUME NEW r \in Requests, CheckCycle(r) PROVE TypeInv'
  <2>1. CASE Finish(r)
    BY <1>3, <2>1, FinishTyped, SameGraphTyped DEF CheckCycle
  <2>2. CASE UNCHANGED op
    <3>1. op' \in [Requests -> Op] /\ NotOnItself'
      BY <2>2 DEF TypeInv, GraphTypeOK, NotOnItself
    <3>2. pc' \in [Requests -> {"idle", "existing", "tasks", "graph", "replace", "commit"}]
      BY <1>3, FinishTyped DEF CheckCycle, TypeInv, GraphTypeOK
    <3> QED BY <1>3, <3>1, <3>2, SameGraphTyped DEF CheckCycle
  <2> QED BY <1>3, <2>1, <2>2 DEF CheckCycle
<1>4. ASSUME NEW r \in Requests, RemoveEdges(r) PROVE TypeInv'
  <2> DEFINE found == {e \in Tasks \X Tasks :
                         /\ e[2] \in edges[e[1]]
                         /\ e[1] = op[r].task \/ (op[r].kind = "delete" /\ e[2] = op[r].task)}
             new == [op[r] EXCEPT !.removed = found]
  <2>1. op' = [op EXCEPT ![r] = new]
    BY <1>4 DEF RemoveEdges
  <2>2. op[r] \in Op /\ found \in SUBSET (Tasks \X Tasks)
    BY DEF TypeInv, GraphTypeOK
  <2> HIDE DEF found
  <2>3. new \in Op /\ new.kind = op[r].kind /\ new.task = op[r].task /\ new.deps = op[r].deps
    BY <2>2 DEF Op
  <2> HIDE DEF new
  <2>4. op' \in [Requests -> Op] /\ NotOnItself'
    BY <2>1, <2>3, OpsTyped DEF TypeInv, NotOnItself
  <2>5. pc' \in [Requests -> {"idle", "existing", "tasks", "graph", "replace", "commit"}]
    BY <1>4 DEF RemoveEdges, TypeInv, GraphTypeOK
  <2> QED BY <1>4, <2>4, <2>5, SameGraphTyped DEF RemoveEdges
<1>5. ASSUME NEW r \in Requests, CommitEdges(r) PROVE TypeInv'
  <2>1. CASE Finish(r) /\ UNCHANGED <<row, edges>>
    BY <2>1, FinishTyped, SameGraphTyped
  <2>2. CASE ~(Finish(r) /\ UNCHANGED <<row, edges>>)
    <3> DEFINE t == op[r].task
    <3>1. /\ Committed(r) /\ op[r].kind \in {"create", "edit"}
          /\ t \in Tasks /\ op[r].deps \subseteq Live
          /\ op[r].kind = "edit" => row[t] = "live" /\ row' = row
          /\ op[r].kind = "create" => row' = [row EXCEPT ![t] = "live"]
          /\ edges' \in [Tasks -> SUBSET Tasks]
          /\ edges'[t] = Remaining(r)[t] \cup op[r].deps
          /\ \A u \in Tasks \ {t} : edges'[u] = Remaining(r)[u]
      BY <1>5, <2>2, EdgesStored
    <3>2. row' \in [Tasks -> {"unborn", "live", "gone"}] /\ row'[t] = "live"
      BY <3>1 DEF TypeInv, GraphTypeOK
    <3>3. Live' = Live \cup {t}
      BY <3>1 DEF Live, TypeInv, GraphTypeOK
    <3>4. t \notin op[r].deps
      BY <3>1 DEF TypeInv, NotOnItself
    <3>5. ASSUME NEW u \in Tasks
          PROVE  edges'[u] \subseteq Live' /\ u \notin edges'[u] /\ (edges'[u] # {} => u \in Live')
      <4>1. Remaining(r)[u] \subseteq edges[u]
        BY RemainingIs
      <4>2. /\ edges[u] \subseteq Live /\ u \notin edges[u] /\ (edges[u] # {} => u \in Live)
        BY DEF TypeInv, GraphTypeOK
      <4>3. CASE u = t
        BY <3>1, <3>3, <3>4, <4>1, <4>2, <4>3
      <4>4. CASE u # t
        BY <3>1, <3>3, <4>1, <4>2, <4>4
      <4> QED BY <4>3, <4>4
    <3>6. edges' \in [Tasks -> SUBSET Live']
      BY <3>1, <3>5
    <3> HIDE DEF t
    <3>7. /\ op' \in [Requests -> Op] /\ NotOnItself'
          /\ pc' \in [Requests -> {"idle", "existing", "tasks", "graph", "replace", "commit"}]
      BY <3>1, CommittedIs
    <3> QED BY <3>2, <3>5, <3>6, <3>7 DEF TypeInv, GraphTypeOK
  <2> QED BY <2>1, <2>2
<1>6. ASSUME NEW r \in Requests, CommitDelete(r) PROVE TypeInv'
  <2>1. CASE Finish(r) /\ UNCHANGED <<row, edges>>
    BY <2>1, FinishTyped, SameGraphTyped
  <2>2. CASE ~(Finish(r) /\ UNCHANGED <<row, edges>>)
    <3> DEFINE t == op[r].task
    <3>1. /\ Committed(r) /\ t \in Tasks
          /\ row' = [row EXCEPT ![t] = "gone"]
          /\ edges' = Remaining(r) /\ Remaining(r)[t] = {}
          /\ \A u \in Tasks : t \notin Remaining(r)[u]
      BY <1>6, <2>2, DeletionStored
    <3>2. row' \in [Tasks -> {"unborn", "live", "gone"}] /\ Live' = Live \ {t}
      BY <3>1 DEF TypeInv, GraphTypeOK, Live
    <3>3. ASSUME NEW u \in Tasks
          PROVE  edges'[u] \subseteq Live' /\ u \notin edges'[u] /\ (edges'[u] # {} => u \in Live')
      <4>1. Remaining(r)[u] \subseteq edges[u]
        BY RemainingIs
      <4>2. edges[u] \subseteq Live /\ u \notin edges[u] /\ (edges[u] # {} => u \in Live)
        BY DEF TypeInv, GraphTypeOK
      <4> QED BY <3>1, <3>2, <4>1, <4>2
    <3>4. edges' \in [Tasks -> SUBSET Live']
      BY <3>1, <3>3, RemainingIs
    <3>5. /\ op' \in [Requests -> Op] /\ NotOnItself'
          /\ pc' \in [Requests -> {"idle", "existing", "tasks", "graph", "replace", "commit"}]
      BY <3>1, CommittedIs
    <3> HIDE DEF t
    <3> QED BY <3>2, <3>3, <3>4, <3>5 DEF TypeInv, GraphTypeOK
  <2> QED BY <2>1, <2>2
<1>7. ASSUME NEW r \in Requests, Abort(r) PROVE TypeInv'
  BY <1>7, FinishTyped, SameGraphTyped DEF Abort
<1>8. ASSUME NEW r \in Requests, NEW t \in Tasks, NEW deps \in SUBSET Tasks,
             DeleteTask(r, t) \/ CreateTask(r, t, deps) \/ UpdateTask(r, t, deps)
      PROVE  TypeInv'
  <2>1. PICK kind \in {"create", "edit", "delete"}, D \in SUBSET Tasks,
             label \in {"existing", "replace", "commit"} :
          Begin(r, kind, t, D, label) /\ (kind \in {"create", "edit"} => t \notin D)
    BY <1>8 DEF DeleteTask, CreateTask, UpdateTask
  <2> QED BY <2>1, BeginIs, SameGraphTyped
<1>9. CASE UNCHANGED graphVars
  BY <1>9, SameGraphTyped DEF graphVars, TypeInv, GraphTypeOK, NotOnItself
<1> QED BY <1>1, <1>2, <1>3, <1>4, <1>5, <1>6, <1>7, <1>8, <1>9 DEF GraphNext, Step

LEMMA Typed == GraphSpec => []TypeInv
BY GraphInitTyped, TypeStep, PTL DEF GraphSpec

\* Every committed edge joins two tasks that exist, whatever the interleaving of
\* deletes, checks and inserts: the foreign keys of task_dependencies.
THEOREM EdgesJoinTasks == GraphSpec => []GraphTypeOK
<1>1. TypeInv => GraphTypeOK
  BY DEF TypeInv
<1> QED BY Typed, <1>1, PTL

\* _has_cycle is exact: with an edit laid over the committed edges it says that
\* there is a cycle when there is one, and only then, for every board.
THEOREM CheckIsExact == GraphSpec => []CycleCheckExact
<1>1. TypeInv => CycleCheckExact
  <2> SUFFICES ASSUME TypeInv, NEW t \in Live, NEW deps \in SUBSET Live
               PROVE  HasCycle(Live, Overlaid(t, deps)) <=> Cyclic(Overlaid(t, deps))
    BY DEF CycleCheckExact
  <2> DEFINE graph == Overlaid(t, deps)
  <2>1. Live \in SUBSET Tasks /\ t \in Tasks
    BY DEF Live
  <2>2. graph \in Graphs /\ \A u \in Tasks : graph[u] # {} => u \in Live
    BY <2>1 DEF Overlaid, TypeInv, GraphTypeOK, Graphs
  <2> HIDE DEF graph
  <2>3. HasCycle(Live, graph) => Cyclic(graph)
    BY <2>1, <2>2, HasCycleIs
  <2>4. ASSUME NEW S \in SUBSET Tasks, Circle(graph, S) PROVE S \cap Live # {}
    BY <2>2, <2>4 DEF Circle
  <2>5. ASSUME Cyclic(graph), ~HasCycle(Live, graph) PROVE FALSE
    <3>1. PICK S \in SUBSET Tasks : Circle(graph, S)
      BY <2>5 DEF Cyclic, Circle
    <3>2. \A T \in SUBSET Tasks : Circle(graph, T) => T \cap Live = {}
      BY <2>1, <2>2, <2>5, HasCycleIs
    <3> QED BY <2>4, <3>1, <3>2
  <2>6. HasCycle(Live, graph) <=> Cyclic(graph)
    BY <2>3, <2>5
  <2> QED BY <2>6 DEF graph
<1> QED BY Typed, <1>1, PTL
-----------------------------------------------------------------------------
(***************************************************************************)
(* Cycles of a graph that loses edges, gains a task, or is edited.         *)
(***************************************************************************)
LEMMA FewerEdges ==
  ASSUME NEW G, NEW H, \A u \in Tasks : H[u] \subseteq G[u], Cyclic(H)
  PROVE  Cyclic(G)
BY DEF Cyclic

\* A new task, on which nothing depends, is on no circle.
LEMMA NewTask ==
  ASSUME NEW G, NEW H \in Graphs, NEW t \in Tasks, \A u \in Tasks : t \notin H[u],
         \A u \in Tasks \ {t} : H[u] \subseteq G[u], Cyclic(H)
  PROVE  Cyclic(G)
<1>1. PICK S \in SUBSET Tasks : S # {} /\ \A u \in S : H[u] \cap S # {}
  BY DEF Cyclic
<1>2. \A u \in S \ {t} : G[u] \cap (S \ {t}) # {}
  BY <1>1
<1>3. S \ {t} # {}
  BY <1>1
<1> QED BY <1>2, <1>3 DEF Cyclic

\* An edit of a task from which the search set out, and which found no cycle.
LEMMA AcceptedEdit ==
  ASSUME TypeInv, NoCycle, NEW t \in Tasks, NEW deps \in SUBSET Tasks, NEW nodes \in SUBSET Tasks,
         t \in nodes, ~HasCycle(nodes, Overlaid(t, deps))
  PROVE  ~Cyclic(Overlaid(t, deps))
<1> SUFFICES ASSUME Cyclic(Overlaid(t, deps)) PROVE FALSE
  OBVIOUS
<1>1. /\ Overlaid(t, deps) \in Graphs
      /\ \A u \in Tasks \ {t} : Overlaid(t, deps)[u] = edges[u]
  BY DEF Overlaid, Graphs, TypeInv, GraphTypeOK, Live
<1>2. PICK S \in SUBSET Tasks : Circle(Overlaid(t, deps), S)
  BY DEF Cyclic, Circle
<1>3. t \notin S
  BY <1>1, <1>2, HasCycleIs
<1>4. Circle(edges, S)
  BY <1>1, <1>2, <1>3 DEF Circle
<1> QED BY <1>4, CircleIsCyclic DEF NoCycle
-----------------------------------------------------------------------------
(***************************************************************************)
(* One editor at a time makes no cycle.                                    *)
(***************************************************************************)
LEMMA EditInit == GraphInit => EditInv /\ CycleInv
<1> SUFFICES ASSUME GraphInit PROVE EditInv /\ CycleInv
  OBVIOUS
<1>1. \A r \in Requests : op[r].kind = "none"
  BY DEF GraphInit, NoOp
<1>2. NoCycle
  BY DEF GraphInit, NoCycle, Cyclic
<1> QED BY <1>1, <1>2 DEF EditInv, EditsAllowed, CreationsApart, DepsCreated, CycleInv,
                          EditSearched, EditStillGood, EditReplaces

\* What a step keeps of the other requests: their operation and where they are, less
\* the edges that the step has removed.
Kept(r) ==
    \A q \in Requests \ {r} :
        /\ op'[q].kind = op[q].kind /\ op'[q].task = op[q].task
        /\ op'[q].deps = op[q].deps /\ op'[q].seen = op[q].seen
        /\ op'[q].removed \subseteq op[q].removed
        /\ pc'[q] = pc[q]

\* The steps of a request that commit nothing.
LEMMA UncommittedStep ==
  ASSUME TypeInv, EditInv, CycleInv, NEW r \in Requests, UNCHANGED <<row, edges>>,
         \A q \in Requests \ {r} : op'[q] = op[q] /\ pc'[q] = pc[q],
         op'[r].kind = "edit" => r \in Editors /\ row[op'[r].task] # "unborn",
         op'[r].kind = "create" =>
           /\ row[op'[r].task] = "unborn" /\ op'[r].removed = {} /\ pc'[r] # "replace"
           /\ \A q \in Requests \ {r} : op[q].kind = "create" => op[q].task # op'[r].task,
         op'[r].kind = "edit" /\ pc'[r] \in {"tasks", "graph", "replace", "commit"} =>
           \A d \in op'[r].deps : row[d] # "unborn",
         op'[r].kind = "edit" /\ pc'[r] = "graph" /\ row[op'[r].task] = "live" =>
           op'[r].task \in op'[r].seen,
         op'[r].kind = "edit" /\ pc'[r] \in {"replace", "commit"} /\ row[op'[r].task] = "live" =>
           ~Cyclic(Overlaid(op'[r].task, op'[r].deps)),
         op'[r].kind = "edit" /\ pc'[r] = "commit" =>
           \A d \in edges[op'[r].task] : <<op'[r].task, d>> \in op'[r].removed
  PROVE  EditInv' /\ CycleInv'
<1>1. EditsAllowed'
  BY DEF EditInv, EditsAllowed
<1>2. CreationsApart'
  BY DEF EditInv, CreationsApart
<1>3. DepsCreated'
  BY DEF EditInv, DepsCreated
<1>4. NoCycle'
  BY DEF CycleInv, NoCycle
<1>5. EditSearched'
  BY DEF CycleInv, EditSearched
<1>6. EditStillGood'
  <2>1. \A t, deps : Overlaid(t, deps)' = Overlaid(t, deps)
    BY DEF Overlaid
  <2> QED BY <2>1 DEF CycleInv, EditStillGood, Overlaid
<1>7. EditReplaces'
  BY DEF CycleInv, EditReplaces
<1> QED BY <1>1, <1>2, <1>3, <1>4, <1>5, <1>6, <1>7 DEF EditInv, CycleInv

LEMMA FinishKeeps ==
  ASSUME TypeInv, EditInv, CycleInv, NEW r \in Requests, Finish(r), UNCHANGED <<row, edges>>
  PROVE  EditInv' /\ CycleInv'
<1>1. op'[r].kind = "none" /\ \A q \in Requests \ {r} : op'[q] = op[q] /\ pc'[q] = pc[q]
  BY DEF Finish, Goto, NoOp, TypeInv, GraphTypeOK
<1> QED BY <1>1, UncommittedStep

LEMMA UncommittedSteps ==
  ASSUME TypeInv, EditInv, CycleInv, NEW r \in Requests,
         \/ CheckExisting(r) \/ ReadTasks(r) \/ CheckCycle(r) \/ RemoveEdges(r) \/ Abort(r)
  PROVE  EditInv' /\ CycleInv'
<1>1. CASE Finish(r)
  BY <1>1, FinishKeeps DEF CheckExisting, ReadTasks, CheckCycle, RemoveEdges, Abort
<1>2. /\ op[r] \in Op /\ Live \in SUBSET Tasks
      /\ pc \in [Requests -> {"idle", "existing", "tasks", "graph", "replace", "commit"}]
      /\ op \in [Requests -> Op]
  BY DEF TypeInv, GraphTypeOK, Live
<1>3. op[r].task \in Tasks /\ op[r].deps \in SUBSET Tasks /\ op[r].seen \in SUBSET Tasks
  BY <1>2 DEF Op
<1>4. /\ op[r].kind = "edit" => r \in Editors /\ row[op[r].task] # "unborn"
      /\ op[r].kind = "create" =>
           /\ row[op[r].task] = "unborn" /\ op[r].removed = {} /\ pc[r] # "replace"
           /\ \A q \in Requests \ {r} : op[q].kind = "create" => op[q].task # op[r].task
  BY DEF EditInv, EditsAllowed, CreationsApart
<1>5. op[r].kind = "edit" /\ pc[r] \in {"tasks", "graph", "replace", "commit"} =>
        \A d \in op[r].deps : row[d] # "unborn"
  BY DEF EditInv, DepsCreated
<1>6. CASE CheckExisting(r) /\ ~Finish(r)
  <2>1. /\ pc' = [pc EXCEPT ![r] = "tasks"] /\ op' = op /\ UNCHANGED <<row, edges>>
        /\ op[r].deps \subseteq Live
    BY <1>6 DEF CheckExisting, Goto
  <2>2. pc'[r] = "tasks" /\ \A q \in Requests \ {r} : op'[q] = op[q] /\ pc'[q] = pc[q]
    BY <1>2, <2>1
  <2>3. \A d \in op[r].deps : row[d] # "unborn"
    BY <2>1 DEF Live
  <2> QED BY <1>4, <2>1, <2>2, <2>3, UncommittedStep
<1>7. CASE ReadTasks(r)
  <2>1. /\ pc' = [pc EXCEPT ![r] = "graph"] /\ op' = [op EXCEPT ![r].seen = Live]
        /\ UNCHANGED <<row, edges>> /\ pc[r] = "tasks"
    BY <1>7 DEF ReadTasks, Goto
  <2>2. pc'[r] = "graph" /\ \A q \in Requests \ {r} : op'[q] = op[q] /\ pc'[q] = pc[q]
    BY <1>2, <2>1
  <2>3. /\ op'[r].kind = op[r].kind /\ op'[r].task = op[r].task /\ op'[r].deps = op[r].deps
        /\ op'[r].removed = op[r].removed /\ op'[r].seen = Live
    <3> DEFINE live == Live
    <3>1. op' = [op EXCEPT ![r].seen = live]
      BY <2>1
    <3> HIDE DEF live
    <3>2. /\ op'[r].kind = op[r].kind /\ op'[r].task = op[r].task /\ op'[r].deps = op[r].deps
          /\ op'[r].removed = op[r].removed /\ op'[r].seen = live
      BY <1>2, <3>1 DEF Op
    <3> QED BY <3>2 DEF live
  <2>4. row[op[r].task] = "live" => op[r].task \in Live
    BY <1>3 DEF Live
  <2> QED BY <1>4, <1>5, <2>1, <2>2, <2>3, <2>4, UncommittedStep
<1>8. CASE CheckCycle(r) /\ ~Finish(r)
  <2>1. /\ pc' = [pc EXCEPT ![r] = IF op[r].kind = "create" THEN "commit" ELSE "replace"]
        /\ op' = op /\ UNCHANGED <<row, edges>> /\ pc[r] = "graph"
        /\ ~HasCycle(op[r].seen, Overlaid(op[r].task, op[r].deps))
    BY <1>8 DEF CheckCycle, Goto
  <2>2. /\ pc'[r] = IF op[r].kind = "create" THEN "commit" ELSE "replace"
        /\ \A q \in Requests \ {r} : op'[q] = op[q] /\ pc'[q] = pc[q]
    BY <1>2, <2>1
  <2>3. op[r].kind = "edit" /\ row[op[r].task] = "live" => op[r].task \in op[r].seen
    BY <2>1 DEF CycleInv, EditSearched
  <2>4. op[r].kind = "edit" /\ row[op[r].task] = "live" =>
          ~Cyclic(Overlaid(op[r].task, op[r].deps))
    BY <1>3, <2>1, <2>3, AcceptedEdit DEF CycleInv
  <2> QED BY <1>4, <1>5, <2>1, <2>2, <2>4, UncommittedStep
<1>9. CASE RemoveEdges(r)
  <2> DEFINE found == {e \in Tasks \X Tasks :
                         /\ e[2] \in edges[e[1]]
                         /\ e[1] = op[r].task \/ (op[r].kind = "delete" /\ e[2] = op[r].task)}
  <2>1. /\ pc' = [pc EXCEPT ![r] = "commit"] /\ op' = [op EXCEPT ![r].removed = found]
        /\ UNCHANGED <<row, edges>> /\ pc[r] = "replace"
    BY <1>9 DEF RemoveEdges, Goto
  <2>2. \A d \in edges[op[r].task] : <<op[r].task, d>> \in found
    BY <1>3 DEF TypeInv, GraphTypeOK, Live
  <2>3. op[r].kind # "create"
    BY <1>4, <2>1
  <2> HIDE DEF found
  <2>4. pc'[r] = "commit" /\ \A q \in Requests \ {r} : op'[q] = op[q] /\ pc'[q] = pc[q]
    BY <1>2, <2>1
  <2>5. /\ op'[r].kind = op[r].kind /\ op'[r].task = op[r].task /\ op'[r].deps = op[r].deps
        /\ op'[r].removed = found
    BY <1>2, <2>1 DEF Op
  <2>6. op[r].kind = "edit" /\ row[op[r].task] = "live" =>
          ~Cyclic(Overlaid(op[r].task, op[r].deps))
    BY <2>1 DEF CycleInv, EditStillGood
  <2> QED BY <1>4, <1>5, <2>1, <2>2, <2>3, <2>4, <2>5, <2>6, UncommittedStep
<1> QED BY <1>1, <1>6, <1>7, <1>8, <1>9 DEF Abort

LEMMA BeginSteps ==
  ASSUME TypeInv, EditInv, CycleInv, NEW r \in Requests, NEW t \in Tasks, NEW deps \in SUBSET Tasks,
         DeleteTask(r, t) \/ CreateTask(r, t, deps) \/ UpdateTask(r, t, deps)
  PROVE  EditInv' /\ CycleInv'
<1>1. CASE DeleteTask(r, t)
  <2>1. Begin(r, "delete", t, {}, "replace")
    BY <1>1 DEF DeleteTask
  <2>2. /\ UNCHANGED <<row, edges>> /\ op'[r].kind = "delete"
        /\ \A q \in Requests \ {r} : op'[q] = op[q] /\ pc'[q] = pc[q]
    BY <2>1, BeginIs
  <2> QED BY <2>2, UncommittedStep
<1>2. CASE CreateTask(r, t, deps)
  <2>1. PICK label \in {"existing", "commit"} : Begin(r, "create", t, deps, label)
    BY <1>2 DEF CreateTask
  <2>2. /\ UNCHANGED <<row, edges>> /\ op'[r].kind = "create" /\ op'[r].task = t
        /\ op'[r].removed = {} /\ pc'[r] = label
        /\ \A q \in Requests \ {r} : op'[q] = op[q] /\ pc'[q] = pc[q]
    BY <1>2, <2>1, BeginIs DEF CreateTask
  <2>3. row[t] = "unborn" /\ \A q \in Requests : op[q].kind = "create" => op[q].task # t
    BY <1>2 DEF CreateTask
  <2> QED BY <2>2, <2>3, UncommittedStep
<1>3. CASE UpdateTask(r, t, deps)
  <2>1. PICK label \in {"existing", "replace"} :
          Begin(r, "edit", t, deps, label) /\ (label = "replace" => deps = {})
    BY <1>3 DEF UpdateTask
  <2>2. /\ UNCHANGED <<row, edges>> /\ op'[r].kind = "edit" /\ op'[r].task = t
        /\ op'[r].deps = deps /\ pc'[r] = label
        /\ \A q \in Requests \ {r} : op'[q] = op[q] /\ pc'[q] = pc[q]
    BY <1>3, <2>1, BeginIs DEF UpdateTask
  <2>3. r \in Editors /\ row[t] = "live"
    BY <1>3 DEF UpdateTask
  <2>4. ~Cyclic(Overlaid(t, {}))
    <3>1. \A u \in Tasks : Overlaid(t, {})[u] \subseteq edges[u]
      BY DEF Overlaid, TypeInv, GraphTypeOK, Live
    <3> QED BY <3>1, FewerEdges DEF CycleInv, NoCycle
  <2> QED BY <2>1, <2>2, <2>3, <2>4, UncommittedStep
<1> QED BY <1>1, <1>2, <1>3

\* What a commit keeps of the invariants, from what it does to the rows and the edges.
LEMMA CommittedStep ==
  ASSUME TypeInv, EditInv, CycleInv, NEW r \in Requests, Committed(r), NEW t \in Tasks,
         \A u \in Tasks \ {t} : row'[u] = row[u],
         row'[t] \in {"live", "gone"}, row'[t] = "live" => op[r].kind \in {"create", "edit"},
         row[t] = "unborn" => op[r].kind = "create" /\ op[r].task = t,
         row[t] # "unborn" /\ row'[t] = "live" => row[t] = "live",
         NoCycle',
         \A q \in Requests \ {r} :
           op[q].kind = "edit" /\ pc[q] \in {"replace", "commit"} /\ row'[op[q].task] = "live" =>
             ~Cyclic([edges' EXCEPT ![op[q].task] = op[q].deps]),
         \A q \in Requests \ {r} :
           op[q].kind = "edit" => /\ edges'[op[q].task] \subseteq edges[op[q].task]
                                  /\ \A d \in edges'[op[q].task] : <<op[q].task, d>> \notin op[r].removed
  PROVE  EditInv' /\ CycleInv'
<1>1. /\ op'[r].kind = "none"
      /\ \A q \in Requests \ {r} :
           /\ op'[q].kind = op[q].kind /\ op'[q].task = op[q].task
           /\ op'[q].deps = op[q].deps /\ op'[q].seen = op[q].seen
           /\ op'[q].removed = op[q].removed \ op[r].removed
           /\ pc'[q] = pc[q]
  BY CommittedIs
<1>2. \A q \in Requests : op[q].task \in Tasks /\ op[q].deps \in SUBSET Tasks
  BY DEF TypeInv, GraphTypeOK, Op
<1>3. \A u \in Tasks : row[u] # "unborn" => row'[u] # "unborn" /\ (row'[u] = "live" => row[u] = "live")
  OBVIOUS
<1>4. EditsAllowed'
  BY <1>1, <1>2, <1>3 DEF EditInv, EditsAllowed
<1>5. CreationsApart'
  <2> SUFFICES ASSUME NEW q \in Requests \ {r}, op[q].kind = "create"
               PROVE  /\ row'[op[q].task] = "unborn" /\ op'[q].removed = {} /\ pc'[q] # "replace"
                      /\ \A p \in Requests \ {r} :
                           op[p].kind = "create" /\ op[p].task = op[q].task => p = q
    BY <1>1 DEF CreationsApart
  <2>1. /\ row[op[q].task] = "unborn" /\ op[q].removed = {} /\ pc[q] # "replace"
        /\ \A p \in Requests : op[p].kind = "create" /\ op[p].task = op[q].task => p = q
    BY DEF EditInv, CreationsApart
  <2>2. op[q].task # t
    BY <2>1
  <2> QED BY <1>1, <1>2, <2>1, <2>2
<1>6. DepsCreated'
  <2> SUFFICES ASSUME NEW q \in Requests \ {r}, op[q].kind = "edit",
                      pc[q] \in {"tasks", "graph", "replace", "commit"}, NEW d \in op[q].deps
               PROVE  row'[d] # "unborn"
    BY <1>1 DEF DepsCreated
  <2>1. row[d] # "unborn" /\ d \in Tasks
    BY <1>2 DEF EditInv, DepsCreated
  <2> QED BY <1>3, <2>1
<1>7. EditSearched'
  <2> SUFFICES ASSUME NEW q \in Requests \ {r}, op[q].kind = "edit", pc[q] = "graph",
                      row'[op[q].task] = "live"
               PROVE  op[q].task \in op[q].seen
    BY <1>1 DEF EditSearched
  <2>1. row[op[q].task] # "unborn"
    BY DEF EditInv, EditsAllowed
  <2>2. row[op[q].task] = "live"
    BY <1>2, <1>3, <2>1
  <2> QED BY <2>2 DEF CycleInv, EditSearched
<1>8. EditStillGood'
  BY <1>1 DEF EditStillGood, Overlaid
<1>9. EditReplaces'
  <2> SUFFICES ASSUME NEW q \in Requests \ {r}, op[q].kind = "edit", pc[q] = "commit",
                      NEW d \in edges'[op[q].task]
               PROVE  <<op[q].task, d>> \in op[q].removed \ op[r].removed
    BY <1>1 DEF EditReplaces
  <2> QED BY DEF CycleInv, EditReplaces
<1> QED BY <1>4, <1>5, <1>6, <1>7, <1>8, <1>9 DEF EditInv, CycleInv

LEMMA CreationStep ==
  ASSUME TypeInv, EditInv, CycleInv, NEW r \in Requests, CommitEdges(r), op[r].kind = "create",
         ~(Finish(r) /\ UNCHANGED <<row, edges>>)
  PROVE  EditInv' /\ CycleInv'
<1> DEFINE t == op[r].task
<1>1. /\ Committed(r) /\ t \in Tasks /\ op[r].deps \subseteq Live
      /\ row' = [row EXCEPT ![t] = "live"]
      /\ edges' \in [Tasks -> SUBSET Tasks]
      /\ edges'[t] = Remaining(r)[t] \cup op[r].deps
      /\ \A u \in Tasks \ {t} : edges'[u] = Remaining(r)[u]
  BY EdgesStored
<1>2. row[t] = "unborn" /\ op[r].removed = {} /\ Remaining(r) = edges
  BY RemainingIs DEF EditInv, CreationsApart
<1>3. row'[t] = "live" /\ \A u \in Tasks \ {t} : row'[u] = row[u]
  BY <1>1 DEF TypeInv, GraphTypeOK
<1>4. t \notin Live
  BY <1>2 DEF Live
<1>5. \A u \in Tasks : edges[u] \subseteq Live
  BY DEF TypeInv, GraphTypeOK
<1>6. \A u \in Tasks : t \notin edges'[u]
  BY <1>1, <1>2, <1>4, <1>5
<1>7. NoCycle'
  <2>1. edges' \in Graphs
    BY <1>1 DEF Graphs
  <2>2. ~Cyclic(edges')
    BY <1>1, <1>2, <1>6, <2>1, NewTask DEF CycleInv, NoCycle
  <2> QED BY <2>2 DEF NoCycle
<1>8. ASSUME NEW q \in Requests \ {r}, op[q].kind = "edit"
      PROVE  op[q].task \in Tasks /\ op[q].deps \in SUBSET Tasks /\ op[q].task # t
  <2>1. row[op[q].task] # "unborn"
    BY <1>8 DEF EditInv, EditsAllowed
  <2> QED BY <1>2, <2>1 DEF TypeInv, GraphTypeOK, Op
<1>9. ASSUME NEW q \in Requests \ {r}, op[q].kind = "edit", pc[q] \in {"replace", "commit"},
             row'[op[q].task] = "live"
      PROVE  ~Cyclic([edges' EXCEPT ![op[q].task] = op[q].deps])
  <2> DEFINE H == [edges' EXCEPT ![op[q].task] = op[q].deps]
             G == Overlaid(op[q].task, op[q].deps)
  <2>1. op[q].task \in Tasks /\ op[q].deps \in SUBSET Tasks /\ op[q].task # t
    BY <1>8, <1>9
  <2>2. ~Cyclic(G)
    BY <1>1, <1>3, <1>9, <2>1 DEF CycleInv, EditStillGood
  <2>3. t \notin op[q].deps
    BY <1>2, <1>9 DEF EditInv, DepsCreated
  <2>4. H \in Graphs /\ \A u \in Tasks : t \notin H[u]
    BY <1>1, <1>6, <2>1, <2>3 DEF Graphs
  <2>5. \A u \in Tasks \ {t} : H[u] \subseteq G[u]
    BY <1>1, <1>2, <2>1 DEF Overlaid, TypeInv, GraphTypeOK, Live
  <2> HIDE DEF H, G
  <2>6. ~Cyclic(H)
    BY <1>1, <2>2, <2>4, <2>5, NewTask
  <2> QED BY <2>6 DEF H
<1>10. \A q \in Requests \ {r} :
         op[q].kind = "edit" => /\ edges'[op[q].task] \subseteq edges[op[q].task]
                                /\ \A d \in edges'[op[q].task] : <<op[q].task, d>> \notin op[r].removed
  BY <1>1, <1>2, <1>8
<1> HIDE DEF t
<1>11. row'[t] \in {"live", "gone"} /\ op[r].kind \in {"create", "edit"} /\ op[r].task = t
  BY <1>3 DEF t
<1> QED BY <1>1, <1>2, <1>3, <1>7, <1>9, <1>10, <1>11, CommittedStep

LEMMA DeletionStep ==
  ASSUME TypeInv, EditInv, CycleInv, NEW r \in Requests, CommitDelete(r),
         ~(Finish(r) /\ UNCHANGED <<row, edges>>)
  PROVE  EditInv' /\ CycleInv'
<1> DEFINE t == op[r].task
<1>1. /\ Committed(r) /\ t \in Tasks /\ row[t] = "live" /\ op[r].kind = "delete"
      /\ row' = [row EXCEPT ![t] = "gone"] /\ edges' = Remaining(r)
  BY DeletionStored
<1>2. row'[t] = "gone" /\ \A u \in Tasks \ {t} : row'[u] = row[u]
  BY <1>1 DEF TypeInv, GraphTypeOK
<1>3. /\ edges' \in [Tasks -> SUBSET Tasks]
      /\ \A u \in Tasks : /\ edges'[u] \subseteq edges[u]
                          /\ \A d \in edges'[u] : <<u, d>> \notin op[r].removed
  BY <1>1, RemainingIs
<1>4. NoCycle'
  <2>1. ~Cyclic(edges')
    BY <1>3, FewerEdges DEF CycleInv, NoCycle
  <2> QED BY <2>1 DEF NoCycle
<1>5. \A q \in Requests : op[q].task \in Tasks /\ op[q].deps \in SUBSET Tasks
  BY DEF TypeInv, GraphTypeOK, Op
<1>6. ASSUME NEW q \in Requests \ {r}, op[q].kind = "edit", pc[q] \in {"replace", "commit"},
             row'[op[q].task] = "live"
      PROVE  ~Cyclic([edges' EXCEPT ![op[q].task] = op[q].deps])
  <2> DEFINE H == [edges' EXCEPT ![op[q].task] = op[q].deps]
             G == Overlaid(op[q].task, op[q].deps)
  <2>1. op[q].task # t /\ row[op[q].task] = "live"
    BY <1>2, <1>5, <1>6
  <2>2. ~Cyclic(G)
    BY <1>6, <2>1 DEF CycleInv, EditStillGood
  <2>3. \A u \in Tasks : H[u] \subseteq G[u]
    BY <1>3, <1>5 DEF Overlaid, TypeInv, GraphTypeOK, Live
  <2> HIDE DEF H, G
  <2>4. ~Cyclic(H)
    BY <2>2, <2>3, FewerEdges
  <2> QED BY <2>4 DEF H
<1> HIDE DEF t
<1> QED BY <1>1, <1>2, <1>3, <1>4, <1>5, <1>6, CommittedStep

\* The only step that needs the editors to take turns: another one could have committed
\* an edge between the check of this one and its commit.
LEMMA EditStep ==
  ASSUME \A p, q \in Editors : p = q,
         TypeInv, EditInv, CycleInv, NEW r \in Requests, CommitEdges(r), op[r].kind = "edit",
         ~(Finish(r) /\ UNCHANGED <<row, edges>>)
  PROVE  EditInv' /\ CycleInv'
<1> DEFINE t == op[r].task
<1>1. /\ Committed(r) /\ t \in Tasks /\ op[r].deps \subseteq Live /\ pc[r] = "commit"
      /\ row[t] = "live" /\ row' = row
      /\ edges' \in [Tasks -> SUBSET Tasks]
      /\ edges'[t] = Remaining(r)[t] \cup op[r].deps
      /\ \A u \in Tasks \ {t} : edges'[u] = Remaining(r)[u]
  BY EdgesStored
<1>2. \A q \in Requests \ {r} : op[q].kind # "edit"
  BY DEF EditInv, EditsAllowed
<1>3. Remaining(r)[t] = {}
  <2>1. \A d \in edges[t] : <<t, d>> \in op[r].removed
    BY <1>1 DEF CycleInv, EditReplaces
  <2> QED BY <1>1, <2>1, RemainingIs
<1>4. NoCycle'
  <2> DEFINE G == Overlaid(t, op[r].deps)
  <2>1. ~Cyclic(G)
    BY <1>1 DEF CycleInv, EditStillGood
  <2>2. \A u \in Tasks : edges'[u] \subseteq G[u]
    BY <1>1, <1>3, RemainingIs DEF Overlaid, TypeInv, GraphTypeOK, Live
  <2> HIDE DEF G
  <2>3. ~Cyclic(edges')
    BY <2>1, <2>2, FewerEdges
  <2> QED BY <2>3 DEF NoCycle
<1>5. \A u \in Tasks \ {t} : row'[u] = row[u]
  BY <1>1
<1> HIDE DEF t
<1> QED BY <1>1, <1>2, <1>4, <1>5, CommittedStep

LEMMA CycleStep ==
  ASSUME \A p, q \in Editors : p = q
  PROVE  TypeInv /\ EditInv /\ CycleInv /\ [GraphNext]_graphVars => EditInv' /\ CycleInv'
<1> SUFFICES ASSUME TypeInv, EditInv, CycleInv, [GraphNext]_graphVars PROVE EditInv' /\ CycleInv'
  OBVIOUS
<1>1. ASSUME NEW r \in Requests,
             \/ CheckExisting(r) \/ ReadTasks(r) \/ CheckCycle(r) \/ RemoveEdges(r) \/ Abort(r)
      PROVE  EditInv' /\ CycleInv'
  BY <1>1, UncommittedSteps
<1>2. ASSUME NEW r \in Requests, CommitEdges(r) PROVE EditInv' /\ CycleInv'
  <2>1. op[r].kind \in {"create", "edit"}
    BY <1>2 DEF CommitEdges
  <2>2. CASE Finish(r) /\ UNCHANGED <<row, edges>>
    BY <2>2, FinishKeeps
  <2>3. CASE ~(Finish(r) /\ UNCHANGED <<row, edges>>)
    BY <1>2, <2>1, <2>3, CreationStep, EditStep
  <2> QED BY <2>2, <2>3
<1>3. ASSUME NEW r \in Requests, CommitDelete(r) PROVE EditInv' /\ CycleInv'
  BY <1>3, FinishKeeps, DeletionStep
<1>4. ASSUME NEW r \in Requests, NEW t \in Tasks, NEW deps \in SUBSET Tasks,
             DeleteTask(r, t) \/ CreateTask(r, t, deps) \/ UpdateTask(r, t, deps)
      PROVE  EditInv' /\ CycleInv'
  BY <1>4, BeginSteps
<1>5. CASE UNCHANGED graphVars
  <2>1. UNCHANGED <<row, edges, pc, op>>
    BY <1>5 DEF graphVars
  <2> QED BY <2>1 DEF EditInv, EditsAllowed, CreationsApart, DepsCreated, CycleInv, NoCycle,
                      EditSearched, EditStillGood, EditReplaces, Overlaid
<1> QED BY <1>1, <1>2, <1>3, <1>4, <1>5 DEF GraphNext, Step

\* "Dependency cycle detected. Remove the cycle before saving" keeps its word when
\* dependencies are replaced by one request at a time, whatever other requests create
\* and delete meanwhile.
THEOREM OneEditorNoCycle ==
  ASSUME \A p, q \in Editors : p = q
  PROVE  GraphSpec => []NoCycle
<1>1. GraphInit => EditInv /\ CycleInv
  BY EditInit
<1>2. TypeInv /\ EditInv /\ CycleInv /\ [GraphNext]_graphVars => EditInv' /\ CycleInv'
  BY CycleStep
<1>3. CycleInv => NoCycle
  BY DEF CycleInv
<1> QED BY Typed, <1>1, <1>2, <1>3, PTL DEF GraphSpec
=============================================================================
