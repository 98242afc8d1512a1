---------------------------- MODULE ProtocolGraph ----------------------------
(***************************************************************************)
(* graph/protocol-graph.js and graph/cache.js: nodes and edges, the        *)
(* indexes of the nodes, and the cache that keeps the latest answers about *)
(* cycles and impact until the graph changes.  Parallel edges are not told *)
(* apart.                                                                  *)
(***************************************************************************)
EXTENDS Naturals, Sequences, SequencesExt, FiniteSets

CONSTANTS
  GraphUrns, Kinds,
  CacheSize       (* options.cacheSize                                     *)

ASSUME GraphAssumptions == CacheSize \in Nat \ {0} /\ "absent" \notin Kinds

VARIABLES
  nodeKind,       (* nodeKind[u]: the kind of node u, or "absent"          *)
  links,          (* the pairs of nodes with an edge between them          *)
  kindIndex,      (* kindIndex[k]: urns; the indexes by urn and authority  *)
                  (* are kept in the same way                              *)
  lru,            (* the cache: questions with answers, the least recently *)
                  (* used first                                            *)
  used,           (* the questions asked since the cache was emptied, the  *)
                  (* latest last                                           *)
  bypassed        (* has the graph been cleared past its methods since an  *)
                  (* index, or the cache, was last right?                  *)

graphVars == <<nodeKind, links, kindIndex, lru, used, bypassed>>

GraphNodes == {u \in GraphUrns : nodeKind[u] # "absent"}

GraphInit ==
  /\ nodeKind = [u \in GraphUrns |-> "absent"] /\ links = {}
  /\ kindIndex = [k \in Kinds |-> {}]
  /\ lru = << >> /\ used = << >>
  /\ bypassed = [index |-> FALSE, cache |-> FALSE]

-----------------------------------------------------------------------------
(* _invalidateCache.                                                       *)
Invalidate ==
  /\ lru' = << >> /\ used' = << >>
  /\ bypassed' = [bypassed EXCEPT !.cache = FALSE]

(* addNode: a node that is there stays as it is, placeholder or not.       *)
AddNode(u, k) ==
  /\ u \notin GraphNodes
  /\ nodeKind' = [nodeKind EXCEPT ![u] = k]
  /\ kindIndex' = [kindIndex EXCEPT ![k] = @ \cup {u}]
  /\ Invalidate
  /\ UNCHANGED links

(* removeNode takes the node's edges with it.                              *)
RemoveNode(u) ==
  /\ u \in GraphNodes
  /\ nodeKind' = [nodeKind EXCEPT ![u] = "absent"]
  /\ kindIndex' = [kindIndex EXCEPT ![nodeKind[u]] = @ \ {u}]
  /\ links' = {e \in links : u \notin {e[1], e[2]}}
  /\ Invalidate

AddEdge(u, v) ==
  /\ {u, v} \subseteq GraphNodes
  /\ links' = links \cup {<<u, v>>}
  /\ Invalidate
  /\ UNCHANGED <<nodeKind, kindIndex>>

(* Mutant: the cache is kept.                                              *)
RemoveEdgeKeepingCache(e) ==
  /\ e \in links
  /\ links' = links \ {e}
  /\ UNCHANGED <<nodeKind, kindIndex, lru, used, bypassed>>

(* removeEdge: the last edge between its nodes, or one of several.         *)
RemoveEdge(e) ==
  /\ e \in links
  /\ links' \in {links, links \ {e}}
  /\ Invalidate
  /\ UNCHANGED <<nodeKind, kindIndex>>

(* fromJSON and rollbackFromEvents empty the graph with its indexes; what  *)
(* fromJSON then adds could as well be added later.                        *)
ClearGraph ==
  /\ nodeKind' = [u \in GraphUrns |-> "absent"] /\ links' = {}
  /\ kindIndex' = [k \in Kinds |-> {}]
  /\ lru' = << >> /\ used' = << >>
  /\ bypassed' = [index |-> FALSE, cache |-> FALSE]

(* RegistryWriter.recoverFromEvents clears the graph only, which fires no  *)
(* method of this class.                                                   *)
RecoverFromEvents ==
  /\ nodeKind' = [u \in GraphUrns |-> "absent"] /\ links' = {}
  /\ bypassed' = [index |-> TRUE, cache |-> TRUE]
  /\ UNCHANGED <<kindIndex, lru, used>>

-----------------------------------------------------------------------------
(* The questions: which cycles are there, and what does a change of u      *)
(* affect?                                                                 *)
Questions == {"cycles"} \cup GraphUrns

(* The node u and those that are reached from it along edges: what is in   *)
(* every set that holds u and that no edge leaves.                         *)
Closed(S) == \A e \in links : e[1] \in S => e[2] \in S
Downstream(u) == {v \in GraphNodes : \A S \in SUBSET GraphNodes : u \in S /\ Closed(S) => v \in S}

(* Nodes on a cycle with another node; those a change affects.             *)
Computed(q) ==
  IF q = "cycles"
  THEN {u \in GraphNodes : \E v \in Downstream(u) \ {u} : u \in Downstream(v)}
  ELSE IF q \in GraphNodes
       THEN {v \in GraphNodes : <<q, v>> \in links} \cup (Downstream(q) \ {q})
       ELSE {}

Cached(q) == {i \in DOMAIN lru : lru[i].question = q}

(* A Map keeps the order of its insertions: what is deleted and set again  *)
(* comes last.                                                             *)
MovedLast(s, i) == Append(RemoveAt(s, i), s[i])

(* Mutant: a hit does not renew the place of its entry.                    *)
HitInPlace(q) == lru' = lru

(* LRUCache.get of a question that is there.                               *)
Hit(q) == \E i \in Cached(q) : lru' = MovedLast(lru, i)

(* LRUCache.set of a new question.                                         *)
WithEntry(s, x) ==
  LET added == Append(s, x) IN IF Len(added) > CacheSize THEN Tail(added) ELSE added

Miss(q) == lru' = WithEntry(lru, [question |-> q, answer |-> Computed(q)])

Ask(q) ==
  /\ \/ Cached(q) # {} /\ Hit(q)
     \/ Cached(q) = {} /\ Miss(q)
  /\ \/ \E i \in DOMAIN used : used[i] = q /\ used' = MovedLast(used, i)
     \/ q \notin ToSet(used) /\ used' = Append(used, q)
  /\ UNCHANGED <<nodeKind, links, kindIndex, bypassed>>

-----------------------------------------------------------------------------
GraphNext ==
  \/ \E u \in GraphUrns : RemoveNode(u) \/ \E k \in Kinds : AddNode(u, k)
  \/ \E u, v \in GraphUrns : AddEdge(u, v)
  \/ \E e \in links : RemoveEdge(e)
  \/ ClearGraph \/ RecoverFromEvents
  \/ \E q \in Questions : Ask(q)

GraphSpec == GraphInit /\ [][GraphNext]_graphVars

-----------------------------------------------------------------------------
(* Properties.                                                             *)

(* Every variable holds values of the shape the code gives it.             *)
GraphTypeOK ==
  /\ nodeKind \in [GraphUrns -> Kinds \cup {"absent"}]
  /\ links \subseteq GraphNodes \X GraphNodes
  /\ kindIndex \in [Kinds -> SUBSET GraphUrns]
  /\ lru \in Seq([question : Questions, answer : SUBSET GraphUrns])
  /\ used \in Seq(Questions)
  /\ bypassed \in [index : BOOLEAN, cache : BOOLEAN]

(* What the index by kind and the cache say is what the graph says, after  *)
(* any changes made through its methods.  After the registry's recovery    *)
(* the index may keep urns that are gone, and the cache answers until the  *)
(* next change; no node is ever missing from the index.                    *)
AnswersAreFresh ==
  /\ \A k \in Kinds :
       LET nodes == {u \in GraphUrns : nodeKind[u] = k} IN
       nodes \subseteq kindIndex[k] /\ (kindIndex[k] = nodes \/ bypassed.index)
  /\ bypassed.cache \/ \A x \in ToSet(lru) : x.answer = Computed(x.question)

(* The cache holds exactly the latest questions, as many as have room.     *)
LatestAreKept ==
  [i \in DOMAIN lru |-> lru[i].question] =
    SubSeq(used, IF Len(used) > CacheSize THEN Len(used) - CacheSize + 1 ELSE 1, Len(used))
=============================================================================
