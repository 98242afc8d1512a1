--------------------------- MODULE DependencyGraph ---------------------------
(***************************************************************************)
(* The algorithms of catalog/graph.js, graph/tarjan.js, graph/traversal.js *)
(* on any graph that a catalog may hold: the artifacts in it list their    *)
(* dependencies, also ones that are not in the catalog.  A loop is a       *)
(* function from states to states, repeated as often as it may have to be; *)
(* a depth-first search is one too, its calls being the path it is on and, *)
(* of each node, the dependencies it has not gone to yet.                  *)
(***************************************************************************)
EXTENDS Integers, Sequences, SequencesExt, FiniteSets

CONSTANTS
  Artifacts,      (* urns in the catalog                                   *)
  Externals,      (* urns that are not, but may be depended on             *)
  MapOrder        (* the order in which the Map has them                   *)

Known == Artifacts \cup Externals

ASSUME DependencyAssumptions ==
  /\ Artifacts \cap Externals = {}
  /\ MapOrder \in Seq(Known) /\ ToSet(MapOrder) = Known
  /\ \A i, j \in DOMAIN MapOrder : MapOrder[i] = MapOrder[j] => i = j

VARIABLE dependsOn        (* dependencyGraph.dependencies                  *)

-----------------------------------------------------------------------------
(* The elements of a sequence that are in S, in their order.               *)
Among(s, S) ==
  LET among[n \in 0 .. Len(s)] ==
        CASE n = 0 -> << >>
          [] n > 0 /\ s[n] \in S -> Append(among[n - 1], s[n])
          [] OTHER -> among[n - 1]
  IN  among[Len(s)]

(* A loop from state s, until nothing changes but for n rounds at most.    *)
Repeat(step, s, n) ==
  LET rest[k \in Nat] == [x \in DOMAIN step |->
        LET y == step[x] IN IF k = 0 \/ y = x THEN x ELSE rest[k - 1][y]]
  IN  rest[n][s]

Size == Cardinality(Known)

InOrder(S) == Among(MapOrder, S)

(* dependencies.get(u) || []                                               *)
Needs(u) == IF u \in Artifacts THEN dependsOn[u] ELSE {}
Deps(u) == InOrder(Needs(u))

-----------------------------------------------------------------------------
(* getDependencyTree: the urns in the order of their first visit, and the  *)
(* arguments of the calls to come.                                         *)
VisitState == [visited : Seq(Known), calls : Seq(Known)]

Visit == [s \in VisitState |->
  IF s.calls = << >> THEN s
  ELSE LET u == Head(s.calls) IN
       IF u \in ToSet(s.visited) THEN [s EXCEPT !.calls = Tail(@)]
       ELSE [visited |-> Append(s.visited, u), calls |-> Deps(u) \o Tail(s.calls)]]

DependencyTree(root) ==
  Repeat(Visit, [visited |-> << >>, calls |-> <<root>>], Size * (Size + 1) + 1).visited

-----------------------------------------------------------------------------
(* detectCycles: the recursion stack is the path.                          *)
CyclesState ==
  [roots : Seq(Known), path : Seq(Known), todo : [Known -> Seq(Known)],
   visited : SUBSET Known, cycles : Seq(Seq(Known))]

(* dfs is called.                                                          *)
CyclesFrom(s, u) ==
  CASE u \in ToSet(s.path) ->
         [s EXCEPT !.cycles = Append(@,
            Append(SubSeq(s.path, CHOOSE i \in DOMAIN s.path : s.path[i] = u, Len(s.path)), u))]
    [] u \notin ToSet(s.path) /\ u \in s.visited -> s
    [] OTHER -> [s EXCEPT !.visited = @ \cup {u}, !.path = Append(@, u)]

FindCycles == [s \in CyclesState |->
  IF s.path = << >>
  THEN IF s.roots = << >> THEN s
       ELSE CyclesFrom([s EXCEPT !.roots = Tail(@)], Head(s.roots))
  ELSE LET v == Last(s.path) IN
       IF s.todo[v] = << >> THEN [s EXCEPT !.path = Front(@)]
       ELSE CyclesFrom([s EXCEPT !.todo[v] = Tail(@)], Head(s.todo[v]))]

DetectCycles ==
  Repeat(FindCycles,
         [roots |-> InOrder(Artifacts), path |-> << >>, todo |-> [u \in Known |-> Deps(u)],
          visited |-> {}, cycles |-> << >>],
         2 * Size * (Size + 1)).cycles

-----------------------------------------------------------------------------
(* Kahn's algorithm.                                                       *)
KahnState == [degree : [Known -> Int], queue : Seq(Known), result : Seq(Known)]

(* Mutant: a dependency is queued as soon as one dependent is done.        *)
ReleaseFirst(degree, u) ==
  [d \in Known |-> IF d \in Needs(u) THEN 0 ELSE degree[d]]

Release(degree, u) ==
  [d \in Known |-> IF d \in Needs(u) THEN degree[d] - 1 ELSE degree[d]]

Kahn == [s \in KahnState |->
  IF s.queue = << >> THEN s
  ELSE LET u == Head(s.queue)
           degree == Release(s.degree, u)
       IN  [degree |-> degree,
            queue |-> Tail(s.queue) \o Among(Deps(u), {d \in Known : degree[d] = 0}),
            result |-> Append(s.result, u)]]

Sorted(nodes, degree) ==
  Repeat(Kahn, [degree |-> degree, queue |-> Among(nodes, {u \in Known : degree[u] = 0}),
                result |-> << >>], Size).result

(* How many of S depend on each.                                           *)
Degrees(S) == [u \in Known |-> Cardinality({v \in S : u \in Needs(v)})]

(* In place of a thrown error.                                             *)
Circular == <<"circular">>

(* getBuildOrder sorts the tree of its root, getFullBuildOrder the whole   *)
(* catalog with what it depends on, but expects as many as the catalog has. *)
BuildOrder(root) ==
  LET tree == DependencyTree(root)
      sorted == Sorted(tree, Degrees(ToSet(tree)))
  IN  IF Len(sorted) = Len(tree) THEN Reverse(sorted) ELSE Circular

FullBuildOrder ==
  LET used == (UNION {dependsOn[u] : u \in Artifacts}) \ Artifacts
      nodes == InOrder(Artifacts) \o InOrder(used)
      sorted == Sorted(nodes, Degrees(ToSet(nodes)))
  IN  IF Len(sorted) = Cardinality(Artifacts) THEN Reverse(sorted) ELSE Circular

-----------------------------------------------------------------------------
(* findPath: breadth first; a path is kept per node instead of its parent. *)
SearchState == [queue : Seq(Seq(Known)), visited : SUBSET Known, path : Seq(Known)]

Search(to) == [s \in SearchState |->
  IF s.queue = << >> \/ s.path # << >> THEN s
  ELSE LET path == Head(s.queue)
           fresh == Among(Deps(Last(path)), Known \ s.visited)
       IN  IF to \in ToSet(fresh) THEN [s EXCEPT !.path = Append(path, to)]
           ELSE [s EXCEPT !.queue = Tail(@) \o [i \in DOMAIN fresh |-> Append(path, fresh[i])],
                          !.visited = @ \cup ToSet(fresh)]]

FindPath(from, to) ==
  IF from = to THEN <<from>>
  ELSE Repeat(Search(to), [queue |-> << <<from>> >>, visited |-> {from}, path |-> << >>],
              Size).path

-----------------------------------------------------------------------------
(* traversal.js.                                                           *)

Edges == {e \in Artifacts \X Known : e[2] \in dependsOn[e[1]]}

(* topologicalSort, or no order.  Edges in twice are there a second time,  *)
(* of another kind: degrees count them and outNeighbors does not.          *)
TopologicalSort(twice) ==
  LET degree == [v \in Known |-> Degrees(Known)[v] + Cardinality({e \in twice : e[2] = v})]
      sorted == Sorted(InOrder(Known), degree)
  IN  IF Len(sorted) = Size THEN sorted ELSE Circular

(* getReachableNodes and getNodesReachingTarget, level by level: the nodes *)
(* at most depth edges from u.                                             *)
Widen(edges) == [S \in SUBSET Known |-> S \cup {e[2] : e \in {f \in edges : f[1] \in S}}]

ReachableNodes(u, maxDepth) == Repeat(Widen(Edges), {u}, maxDepth)
NodesReaching(v, maxDepth) == Repeat(Widen({<<e[2], e[1]>> : e \in Edges}), {v}, maxDepth)

(* getDistances; of nodes that are not visited the distance is not used.   *)
MeasureState == [queue : Seq(Known), visited : SUBSET Known, distance : [Known -> Nat]]

Measure == [s \in MeasureState |->
  IF s.queue = << >> THEN s
  ELSE LET u == Head(s.queue)
           fresh == Among(Deps(u), Known \ s.visited)
       IN  [queue |-> Tail(s.queue) \o fresh,
            visited |-> s.visited \cup ToSet(fresh),
            distance |-> [v \in Known |-> IF v \in ToSet(fresh) THEN s.distance[u] + 1
                                          ELSE s.distance[v]]]]

Distances(u) ==
  LET s == Repeat(Measure, [queue |-> <<u>>, visited |-> {u}, distance |-> [v \in Known |-> 0]],
                  Size)
  IN  [v \in s.visited |-> s.distance[v]]

-----------------------------------------------------------------------------
(* tarjan.js.  Indices start at 1, and 0 is for not visited.               *)
TarjanState ==
  [roots : Seq(Known), path : Seq(Known), todo : [Known -> Seq(Known)],
   next : Nat, index : [Known -> Nat], low : [Known -> Nat],
   stack : Seq(Known), sccs : SUBSET SUBSET Known]

Least(x, y) == IF x < y THEN x ELSE y

(* strongConnect is called.                                                *)
Enter(s, v) ==
  [s EXCEPT !.index[v] = s.next, !.low[v] = s.next, !.next = @ + 1,
            !.stack = Append(@, v), !.path = Append(@, v)]

(* It has seen the successor w of v.                                       *)
Successor(s, v, w) ==
  CASE s.index[w] = 0 -> Enter(s, w)
    [] s.index[w] > 0 /\ w \in ToSet(s.stack) -> [s EXCEPT !.low[v] = Least(@, s.index[w])]
    [] OTHER -> s

(* Mutant: the component is not taken off the stack.                       *)
PopNothing(s, v) ==
  IF s.low[v] # s.index[v] \/ v \notin ToSet(s.stack) THEN s
  ELSE LET i == CHOOSE i \in DOMAIN s.stack : s.stack[i] = v IN
       [s EXCEPT !.sccs = @ \cup {ToSet(SubSeq(s.stack, i, Len(s.stack)))}]

(* The root of a component pops it.                                        *)
Pop(s, v) ==
  IF s.low[v] # s.index[v] \/ v \notin ToSet(s.stack) THEN s
  ELSE LET i == CHOOSE i \in DOMAIN s.stack : s.stack[i] = v IN
       [s EXCEPT !.stack = SubSeq(@, 1, i - 1),
                 !.sccs = @ \cup {ToSet(SubSeq(s.stack, i, Len(s.stack)))}]

(* It returns, to the call for the node before v, if there is one.         *)
Leave(s, v) ==
  LET path == Front(s.path) IN
  [s EXCEPT !.path = path,
            !.low = [u \in Known |-> IF path # << >> /\ u = Last(path)
                                     THEN Least(s.low[u], s.low[v]) ELSE s.low[u]]]

StrongConnect == [s \in TarjanState |->
  IF s.path = << >>
  THEN CASE s.roots = << >> -> s
         [] s.roots # << >> /\ s.index[Head(s.roots)] > 0 -> [s EXCEPT !.roots = Tail(@)]
         [] OTHER -> Enter([s EXCEPT !.roots = Tail(@)], Head(s.roots))
  ELSE LET v == Last(s.path) IN
       IF s.todo[v] = << >> THEN Leave(Pop(s, v), v)
       ELSE Successor([s EXCEPT !.todo[v] = Tail(@)], v, Head(s.todo[v]))]

(* findStronglyConnectedComponents, as sets.                               *)
Components ==
  Repeat(StrongConnect,
         [roots |-> InOrder(Known), path |-> << >>, todo |-> [u \in Known |-> Deps(u)],
          next |-> 1, index |-> [u \in Known |-> 0], low |-> [u \in Known |-> 0],
          stack |-> << >>, sccs |-> {}],
         2 * Size * (Size + 1)).sccs

(* detectCycles of the protocol graph.                                     *)
GraphCycles == {S \in Components : Cardinality(S) > 1}

-----------------------------------------------------------------------------
(* The catalog that holds this graph does not change while it is searched. *)
DependencyInit == dependsOn \in [Artifacts -> SUBSET Known]
DependencyNext == UNCHANGED dependsOn
DependencySpec == DependencyInit /\ [][DependencyNext]_dependsOn

-----------------------------------------------------------------------------
(* Properties, against definitions by reachability.                        *)

(* <<u, v>> if u reaches v in one step or more: v is in every set that has *)
(* what u depends on and what its own members depend on.                   *)
ClosedSets == {S \in SUBSET Known : \A u \in S : Needs(u) \subseteq S}
Reach == LET closed == ClosedSets IN
  {e \in Known \X Known : \A S \in closed : Needs(e[1]) \subseteq S => e[2] \in S}

ReachedFrom(u, reach) == {v \in Known : <<u, v>> \in reach}

IsBuildOrderOf(order, S, reach) ==
  /\ ToSet(order) = S /\ Len(order) = Cardinality(S)
  /\ \A i, j \in DOMAIN order : <<order[i], order[j]>> \in reach => j < i

(* A build order lists what its root needs, each once and after all that   *)
(* it depends on, catalogued or not; it is refused exactly if there is a   *)
(* cycle.  So is that of a whole catalog that lacks no dependency.  The    *)
(* protocol graph's sort, dependents first, is right for all nodes of a    *)
(* graph without parallel edges.                                           *)
OrdersAreValid ==
  LET reach == Reach
      RightFor(order, S) == IF \E v \in S : <<v, v>> \in reach THEN order = Circular
                            ELSE IsBuildOrderOf(order, S, reach)
      Reversed(order) == IF order = Circular THEN order ELSE Reverse(order)
  IN  /\ \A u \in Known : RightFor(BuildOrder(u), {u} \cup ReachedFrom(u, reach))
      /\ (\A u \in Artifacts : dependsOn[u] \subseteq Artifacts) => RightFor(FullBuildOrder, Artifacts)
      /\ RightFor(Reversed(TopologicalSort({})), Known)

(* The catalog's search reports only cycles, and at least one if there is  *)
(* any; the protocol graph's finds the groups of nodes that reach each     *)
(* other; so they agree on whether there is a cycle of two nodes or more.  *)
CyclesRight(reach) ==
  LET found == DetectCycles IN
  /\ \A c \in ToSet(found) :
       Len(c) > 1 /\ c[1] = Last(c) /\ \A i \in 1 .. (Len(c) - 1) : c[i + 1] \in dependsOn[c[i]]
  /\ (found = << >>) = (\A v \in Artifacts : <<v, v>> \notin reach)
  /\ GraphCycles = { S \in {{v \in Known : {<<u, v>>, <<v, u>>} \subseteq reach} : u \in Known} :
                     Cardinality(S) > 1 }

(* Every search that counts steps agrees with the distances, and these are *)
(* right: no edge shortens one, and some edge accounts for each.  The      *)
(* shortest path has its distance and follows edges; what a node reaches   *)
(* in so many steps is reached by it, whichever end the search starts      *)
(* from.                                                                   *)
DistancesRight(d, u, reach) ==
  /\ DOMAIN d = {u} \cup ReachedFrom(u, reach) /\ d[u] = 0
  /\ \A v \in DOMAIN d : \A w \in Needs(v) : d[w] <= d[v] + 1
  /\ \A w \in DOMAIN d \ {u} : \E v \in DOMAIN d : w \in Needs(v) /\ d[w] = d[v] + 1

PathsAgree(d, u) ==
  /\ \A v \in Known :
       LET path == FindPath(u, v) IN
       IF v \notin DOMAIN d THEN path = << >>
       ELSE /\ Len(path) = d[v] + 1 /\ path[1] = u /\ Last(path) = v
            /\ \A i \in 1 .. d[v] : path[i + 1] \in Needs(path[i])
  /\ \A n \in 0 .. Size :
       LET near == {v \in DOMAIN d : d[v] <= n} IN
       ReachableNodes(u, n) = near /\ \A v \in Known : u \in NodesReaching(v, n) <=> v \in near

(* Cycles and paths are found exactly where the graph has them.            *)
CyclesAndPathsAreFound ==
  LET reach == Reach IN
  CyclesRight(reach) /\ \A u \in Known :
    LET d == Distances(u) IN DistancesRight(d, u, reach) /\ PathsAgree(d, u)

-----------------------------------------------------------------------------
(* A claim of the sources that the code does not keep.                     *)

(* catalog/graph.js:223, getFullBuildOrder throws "if circular dependency  *)
(* detected", and traversal.js:260, topologicalSort "Returns null if graph *)
(* has cycles": without a cycle both give an order, also if the catalog    *)
(* lacks a dependency, and also if an edge of the graph is there twice.    *)
SortsFailOnlyOnCycles ==
  (\A v \in Known : <<v, v>> \notin Reach) =>
    /\ FullBuildOrder # Circular
    /\ \A e \in Edges : TopologicalSort({e}) # Circular
=============================================================================
