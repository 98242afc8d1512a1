---------------------------- MODULE CatalogProofs ----------------------------
(***************************************************************************)
(* Proofs about what is kept beside the entries of a store: the catalog's  *)
(* indexes, for any urns, labels and artifacts; the graph's index and      *)
(* cache, for any nodes, kinds and cache size; the index and the cached    *)
(* matches of the overrides, for any rules, questions and months.          *)
(***************************************************************************)
EXTENDS CatalogIndex, ProtocolGraph, OverrideRules, SequenceTheorems, WellFoundedInduction, TLAPS

(* The indexes hold nothing of an urn that is not in the catalog and was   *)
(* never overwritten, or it would come back with the urn.                  *)
NothingLeftBehind ==
  \A u \in CatalogUrns \ Present :
    u \notin byPII /\ (u \notin overwritten => \A l \in Labels : u \notin byLabel[l])

CatalogInv ==
  CatalogTypeOK /\ NothingLeftBehind /\ QueriesFindAll /\ DependentsAreKnown

LEMMA CatalogsAre ==
  ASSUME NEW f, f \in Catalogs
  PROVE  /\ DOMAIN f \subseteq CatalogUrns
         /\ f \in [DOMAIN f -> Entries]
         /\ \A u \in DOMAIN f :
              /\ f[u].labels \subseteq Labels /\ f[u].pii \in BOOLEAN
              /\ f[u].deps \subseteq CatalogUrns
<1>1. PICK S \in SUBSET CatalogUrns : f \in [S -> Entries]
  BY DEF Catalogs
<1>2. \A e \in Entries :
        e.labels \subseteq Labels /\ e.pii \in BOOLEAN /\ e.deps \subseteq CatalogUrns
  BY CatalogAssumptions
<1> QED BY <1>1, <1>2

LEMMA CatalogsHold ==
  ASSUME NEW S \in SUBSET CatalogUrns, NEW f \in [S -> Entries]
  PROVE  f \in Catalogs
BY DEF Catalogs

LEMMA CatalogInitInv == CatalogInit => CatalogInv
<1> SUFFICES ASSUME CatalogInit PROVE CatalogInv
  OBVIOUS
<1>1. artifacts \in [{} -> Entries] /\ Present = {}
  BY DEF CatalogInit, Present
<1>2. artifacts \in Catalogs
  BY <1>1, CatalogsHold
<1> QED
  BY <1>1, <1>2 DEF CatalogInit, CatalogInv, CatalogTypeOK, NothingLeftBehind, QueriesFindAll,
     DependentsAreKnown

LEMMA AddKeepsInv ==
  ASSUME CatalogInv, NEW u \in CatalogUrns, NEW e \in Entries, Add(u, e)
  PROVE  CatalogInv'
<1> DEFINE P == Present \cup {u}
<1>1. e.labels \subseteq Labels /\ e.pii \in BOOLEAN /\ e.deps \subseteq CatalogUrns
  BY CatalogAssumptions
<1>2. Present \subseteq CatalogUrns /\ artifacts \in [Present -> Entries]
  BY CatalogsAre DEF CatalogInv, CatalogTypeOK, Present
<1>3. artifacts' \in [P -> Entries] /\ Present' = P
  BY <1>2 DEF Add, Present
<1>4. artifacts'[u] = e /\ \A v \in Present \ {u} : artifacts'[v] = artifacts[v]
  BY DEF Add
<1>5. CatalogTypeOK'
  <2>1. artifacts' \in Catalogs
    BY <1>2, <1>3, CatalogsHold
  <2> QED BY <2>1, <1>1, <1>2 DEF CatalogInv, CatalogTypeOK, Add
<1>6. NothingLeftBehind'
  BY <1>3 DEF CatalogInv, NothingLeftBehind, CatalogTypeOK, Add
<1>7. QueriesFindAll'
  <2> SUFFICES ASSUME NEW v \in P
               PROVE  /\ \A l \in Labels : IF v \in overwritten'
                           THEN l \in artifacts'[v].labels => v \in QueryByLabel(l)'
                           ELSE l \in artifacts'[v].labels <=> v \in QueryByLabel(l)'
                      /\ artifacts'[v].pii => v \in byPII'
                      /\ ~artifacts'[v].pii /\ v \notin overwritten' => v \notin byPII'
    BY <1>3 DEF QueriesFindAll, QueryByPII
  <2>1. CASE v = u
    BY <2>1, <1>1, <1>2, <1>3, <1>4
    DEF CatalogInv, CatalogTypeOK, NothingLeftBehind, QueriesFindAll, QueryByLabel, QueryByPII, Add
  <2>2. CASE v # u
    <3>1. v \in Present /\ artifacts'[v] = artifacts[v] /\ (v \in overwritten' <=> v \in overwritten)
      BY <2>2, <1>4 DEF Add
    <3>2. (v \in byPII' <=> v \in byPII) /\ \A l \in Labels : v \in byLabel'[l] <=> v \in byLabel[l]
      BY <2>2 DEF Add
    <3> QED
      BY <3>1, <3>2, <1>3 DEF CatalogInv, QueriesFindAll, QueryByLabel, QueryByPII
  <2> QED BY <2>1, <2>2
<1>8. DependentsAreKnown'
  <2> SUFFICES ASSUME NEW w \in CatalogUrns
               PROVE  /\ w \notin withdrawn' => \A v \in P :
                           w \in artifacts'[v].deps => v \in dependents'[w]
                      /\ \A v \in dependents'[w] \ overwritten' :
                           v \in P /\ w \in artifacts'[v].deps
    BY <1>3 DEF DependentsAreKnown
  <2> QED
    BY <1>1, <1>2, <1>4 DEF CatalogInv, CatalogTypeOK, DependentsAreKnown, Add
<1> QED BY <1>5, <1>6, <1>7, <1>8 DEF CatalogInv

LEMMA RemoveKeepsInv ==
  ASSUME CatalogInv, NEW u \in CatalogUrns, RemoveArtifact(u)
  PROVE  CatalogInv'
<1> DEFINE P == Present \ {u}
<1>1. u \in Present
  BY DEF RemoveArtifact
<1>2. /\ Present \subseteq CatalogUrns /\ artifacts \in [Present -> Entries]
      /\ artifacts[u].labels \subseteq Labels /\ artifacts[u].deps \subseteq CatalogUrns
  BY <1>1, CatalogsAre DEF CatalogInv, CatalogTypeOK, Present
<1>3. artifacts' \in [P -> Entries] /\ Present' = P /\ \A v \in P : artifacts'[v] = artifacts[v]
  BY <1>2 DEF RemoveArtifact, Present
<1>4. CatalogTypeOK'
  <2>1. artifacts' \in Catalogs
    BY <1>2, <1>3, CatalogsHold
  <2> QED BY <2>1, <1>2 DEF CatalogInv, CatalogTypeOK, RemoveArtifact
<1>5. NothingLeftBehind'
  BY <1>1, <1>2, <1>3
  DEF CatalogInv, CatalogTypeOK, NothingLeftBehind, QueriesFindAll, QueryByLabel, RemoveArtifact
<1>6. QueriesFindAll'
  <2> SUFFICES ASSUME NEW v \in P
               PROVE  /\ \A l \in Labels : IF v \in overwritten'
                           THEN l \in artifacts'[v].labels => v \in QueryByLabel(l)'
                           ELSE l \in artifacts'[v].labels <=> v \in QueryByLabel(l)'
                      /\ artifacts'[v].pii => v \in byPII'
                      /\ ~artifacts'[v].pii /\ v \notin overwritten' => v \notin byPII'
    BY <1>3 DEF QueriesFindAll, QueryByPII
  <2>1. v \in Present /\ v # u /\ artifacts'[v] = artifacts[v] /\ overwritten' = overwritten
    BY <1>3 DEF RemoveArtifact
  <2>2. (v \in byPII' <=> v \in byPII) /\ \A l \in Labels : v \in byLabel'[l] <=> v \in byLabel[l]
    BY <2>1 DEF RemoveArtifact
  <2> QED
    BY <2>1, <2>2, <1>3 DEF CatalogInv, QueriesFindAll, QueryByLabel, QueryByPII
<1>7. DependentsAreKnown'
  <2> SUFFICES ASSUME NEW w \in CatalogUrns
               PROVE  /\ w \notin withdrawn' => \A v \in P :
                           w \in artifacts'[v].deps => v \in dependents'[w]
                      /\ \A v \in dependents'[w] \ overwritten' :
                           v \in P /\ w \in artifacts'[v].deps
    BY <1>3 DEF DependentsAreKnown
  <2> QED
    BY <1>1, <1>2, <1>3 DEF CatalogInv, CatalogTypeOK, DependentsAreKnown, RemoveArtifact
<1> QED BY <1>4, <1>5, <1>6, <1>7 DEF CatalogInv

LEMMA LoadKeepsInv ==
  ASSUME NEW saved \in Catalogs, Load(saved)
  PROVE  CatalogInv'
<1>1. /\ Present' = DOMAIN saved /\ DOMAIN saved \subseteq CatalogUrns
      /\ \A u \in DOMAIN saved : saved[u].pii \in BOOLEAN
  BY CatalogsAre DEF Load, Present
<1>2. CatalogTypeOK' /\ NothingLeftBehind'
  BY <1>1 DEF Load, CatalogTypeOK, NothingLeftBehind
<1>3. QueriesFindAll'
  BY <1>1 DEF Load, QueriesFindAll, QueryByLabel, QueryByPII
<1>4. DependentsAreKnown'
  BY <1>1 DEF Load, DependentsAreKnown
<1> QED BY <1>2, <1>3, <1>4 DEF CatalogInv

LEMMA CatalogStepInv == CatalogInv /\ [CatalogNext]_catalogVars => CatalogInv'
<1> SUFFICES ASSUME CatalogInv, [CatalogNext]_catalogVars PROVE CatalogInv'
  OBVIOUS
<1>1. ASSUME NEW u \in CatalogUrns, RemoveArtifact(u) PROVE CatalogInv'
  BY <1>1, RemoveKeepsInv
<1>2. ASSUME NEW u \in CatalogUrns, NEW e \in Entries, Add(u, e) PROVE CatalogInv'
  BY <1>2, AddKeepsInv
<1>3. ASSUME NEW saved \in Catalogs, Load(saved) PROVE CatalogInv'
  BY <1>3, LoadKeepsInv
<1>4. CASE UNCHANGED catalogVars
  BY <1>4 DEF CatalogInv, CatalogTypeOK, NothingLeftBehind, QueriesFindAll, DependentsAreKnown,
     QueryByLabel, QueryByPII, Present, catalogVars
<1> QED BY <1>1, <1>2, <1>3, <1>4 DEF CatalogNext

(* What is in the indexes, of the urns in the catalog and of those that    *)
(* left it, however artifacts are added, overwritten, removed and loaded.  *)
THEOREM CatalogInvariant == CatalogSpec => []CatalogInv
BY CatalogInitInv, CatalogStepInv, PTL DEF CatalogSpec

(* Queries through the indexes of catalog/index.js miss no artifact they   *)
(* are for, and find others only if they were overwritten.                 *)
THEOREM NoQueryMisses == CatalogSpec => []QueriesFindAll
<1>1. CatalogInv => QueriesFindAll
  BY DEF CatalogInv
<1> QED BY <1>1, CatalogInvariant, PTL

(* The lists of dependents from which consumers and impact are found miss  *)
(* none of an urn that was never removed.                                  *)
THEOREM NoDependentIsMissed == CatalogSpec => []DependentsAreKnown
<1>1. CatalogInv => DependentsAreKnown
  BY DEF CatalogInv
<1> QED BY <1>1, CatalogInvariant, PTL

-----------------------------------------------------------------------------
(* The protocol graph: its index by kind and its cache.                    *)

(* The index holds every node of a kind, and holds nothing else unless the *)
(* graph was cleared past it.                                              *)
IndexKept ==
  /\ \A u \in GraphUrns, k \in Kinds : nodeKind[u] = k => u \in kindIndex[k]
  /\ bypassed.index \/ \A u \in GraphUrns, k \in Kinds : u \in kindIndex[k] => nodeKind[u] = k

AnswersKept == bypassed.cache \/ \A x \in ToSet(lru) : x.answer = Computed(x.question)

(* No question is remembered twice, and the cache ends with the latest of  *)
(* them, in the same order.                                                *)
LatestKept ==
  /\ \A i, j \in 1 .. Len(used) : used[i] = used[j] => i = j
  /\ Len(lru) <= CacheSize
  /\ \E d \in 0 .. Len(used) :
       /\ Len(used) = d + Len(lru) /\ (d = 0 \/ Len(lru) = CacheSize)
       /\ \A i \in 1 .. Len(lru) : lru[i].question = used[d + i]

GraphInv == GraphTypeOK /\ IndexKept /\ AnswersKept /\ LatestKept

CacheEntries == [question : Questions, answer : SUBSET GraphUrns]

LEMMA PartOfSequence ==
  ASSUME NEW S, NEW s \in Seq(S), NEW m \in Nat, NEW d \in Nat, m + d <= Len(s)
  PROVE  /\ SubSeq(s, m + 1, m + d) \in Seq(S) /\ Len(SubSeq(s, m + 1, m + d)) = d
         /\ \A k \in 1 .. d : SubSeq(s, m + 1, m + d)[k] = s[m + k]
<1> DEFINE t == SubSeq(s, m + 1, m + d)
<1>1. \A k \in m + 1 .. m + d : s[k] \in S
  OBVIOUS
<1>2. /\ t \in Seq(S) /\ Len(t) = IF m + 1 <= m + d THEN (m + d) - (m + 1) + 1 ELSE 0
      /\ \A k \in 1 .. (m + d) - (m + 1) + 1 : t[k] = s[(m + 1) + k - 1]
  BY <1>1, SubSeqProperties
<1>3. /\ (m + d) - (m + 1) + 1 = d /\ (IF m + 1 <= m + d THEN d ELSE 0) = d
      /\ \A k \in 1 .. d : (m + 1) + k - 1 = m + k
  OBVIOUS
<1> HIDE DEF t
<1>4. Len(t) = d /\ \A k \in 1 .. d : t[k] = s[m + k]
  BY <1>2, <1>3
<1> QED BY <1>2, <1>4 DEF t

(* What removing an entry leaves.                                          *)
LEMMA RemovedIs ==
  ASSUME NEW S, NEW s \in Seq(S), NEW i \in 1 .. Len(s)
  PROVE  \E n \in Nat :
           /\ Len(s) = n + 1
           /\ RemoveAt(s, i) \in Seq(S) /\ Len(RemoveAt(s, i)) = n
           /\ \A k \in 1 .. n : RemoveAt(s, i)[k] = IF k < i THEN s[k] ELSE s[k + 1]
<1>1. PICK p \in Nat, d \in Nat : i = p + 1 /\ Len(s) = p + 1 + d
  <2>1. i - 1 \in Nat /\ Len(s) - i \in Nat /\ i = (i - 1) + 1 /\ Len(s) = (i - 1) + 1 + (Len(s) - i)
    OBVIOUS
  <2> QED BY <2>1
<1> DEFINE front == SubSeq(s, 1, p)
           rest == SubSeq(s, p + 2, p + 1 + d)
           both == front \o rest
<1>2. front \in Seq(S) /\ Len(front) = p /\ \A k \in 1 .. p : front[k] = s[k]
  BY <1>1
<1>3. rest \in Seq(S) /\ Len(rest) = d /\ \A k \in 1 .. d : rest[k] = s[p + 1 + k]
  <2>1. p + 1 \in Nat /\ (p + 1) + d <= Len(s) /\ (p + 1) + 1 = p + 2
    BY <1>1
  <2> QED BY <2>1, PartOfSequence
<1>4. RemoveAt(s, i) = both
  <2>1. i - 1 = p /\ i + 1 = p + 2
    BY <1>1
  <2> QED BY <1>1, <2>1 DEF RemoveAt
<1> HIDE DEF front, rest
<1>5. /\ both \in Seq(S) /\ Len(both) = p + d
      /\ \A k \in 1 .. p + d : both[k] = IF k <= p THEN front[k] ELSE rest[k - p]
  BY <1>2, <1>3, ConcatProperties
<1>6. \A k \in 1 .. p + d : both[k] = IF k < i THEN s[k] ELSE s[k + 1]
  <2> SUFFICES ASSUME NEW k \in 1 .. p + d PROVE both[k] = IF k < i THEN s[k] ELSE s[k + 1]
    OBVIOUS
  <2>1. CASE k <= p
    BY <1>1, <1>2, <1>5, <2>1
  <2>2. CASE ~(k <= p)
    <3>1. k - p \in 1 .. d /\ p + 1 + (k - p) = k + 1
      BY <1>1, <2>2
    <3> QED BY <1>1, <1>3, <1>5, <2>2, <3>1
  <2> QED BY <2>1, <2>2
<1> HIDE DEF both
<1>7. p + d \in Nat /\ Len(s) = (p + d) + 1
  BY <1>1
<1> QED BY <1>4, <1>5, <1>6, <1>7

(* What is moved last leaves the others in their order.                    *)
LEMMA MovedLastIs ==
  ASSUME NEW S, NEW s \in Seq(S), NEW i \in 1 .. Len(s)
  PROVE  /\ MovedLast(s, i) \in Seq(S) /\ Len(MovedLast(s, i)) = Len(s) /\ Len(s) \in Nat
         /\ \A k \in 1 .. Len(s) : MovedLast(s, i)[k] =
              IF k < i THEN s[k] ELSE IF k < Len(s) THEN s[k + 1] ELSE s[i]
<1>1. PICK n \in Nat :
        /\ Len(s) = n + 1
        /\ RemoveAt(s, i) \in Seq(S) /\ Len(RemoveAt(s, i)) = n
        /\ \A k \in 1 .. n : RemoveAt(s, i)[k] = IF k < i THEN s[k] ELSE s[k + 1]
  BY RemovedIs
<1> DEFINE others == RemoveAt(s, i)
<1>2. \A x \in S : /\ Append(others, x) \in Seq(S) /\ Len(Append(others, x)) = n + 1
                   /\ \A k \in 1 .. n : Append(others, x)[k] = others[k]
                   /\ Append(others, x)[n + 1] = x
  BY <1>1
<1>3. s[i] \in S
  OBVIOUS
<1>4. \A k \in 1 .. n + 1 : (k \in 1 .. n <=> k < Len(s)) /\ (~(k < Len(s)) => k = n + 1 /\ ~(k < i))
  BY <1>1
<1> QED BY <1>1, <1>2, <1>3, <1>4 DEF MovedLast

LEMMA MovedLastUnique ==
  ASSUME NEW S, NEW s \in Seq(S), NEW i \in 1 .. Len(s),
         \A j, k \in 1 .. Len(s) : s[j] = s[k] => j = k
  PROVE  /\ \A j, k \in 1 .. Len(s) : MovedLast(s, i)[j] = MovedLast(s, i)[k] => j = k
         /\ \A k \in 1 .. Len(s) : MovedLast(s, i)[k] \in ToSet(s)
<1> DEFINE from(k) == IF k < i THEN k ELSE IF k < Len(s) THEN k + 1 ELSE i
<1>1. Len(s) \in Nat /\ \A k \in 1 .. Len(s) : MovedLast(s, i)[k] = s[from(k)]
  BY MovedLastIs
<1>2. \A k \in 1 .. Len(s) : from(k) \in 1 .. Len(s)
  BY <1>1
<1>3. \A j, k \in 1 .. Len(s) : from(j) = from(k) => j = k
  BY <1>1
<1>4. DOMAIN s = 1 .. Len(s)
  OBVIOUS
<1> HIDE DEF from
<1> QED BY <1>1, <1>2, <1>3, <1>4 DEF ToSet

(* What LRUCache.set leaves: the entry comes last, and the first goes when *)
(* there is no room.                                                       *)
LEMMA EntryAdded ==
  ASSUME NEW S, NEW s \in Seq(S), NEW x \in S, Len(s) <= CacheSize
  PROVE  /\ WithEntry(s, x) \in Seq(S) /\ Len(s) \in Nat /\ CacheSize \in Nat \ {0}
         /\ Len(s) < CacheSize =>
              /\ Len(WithEntry(s, x)) = Len(s) + 1 /\ WithEntry(s, x)[Len(s) + 1] = x
              /\ \A k \in 1 .. Len(s) : WithEntry(s, x)[k] = s[k]
         /\ Len(s) = CacheSize =>
              /\ Len(WithEntry(s, x)) = Len(s) /\ WithEntry(s, x)[Len(s)] = x
              /\ \A k \in 1 .. Len(s) - 1 : WithEntry(s, x)[k] = s[k + 1]
<1> DEFINE a == Append(s, x)
           t == WithEntry(s, x)
<1>1. /\ a \in Seq(S) /\ Len(a) = Len(s) + 1 /\ Len(s) \in Nat /\ a[Len(s) + 1] = x
      /\ \A k \in 1 .. Len(s) : a[k] = s[k]
  OBVIOUS
<1>2. CacheSize \in Nat \ {0}
  BY GraphAssumptions
<1>3. t = IF Len(a) > CacheSize THEN Tail(a) ELSE a
  BY DEF WithEntry
<1> HIDE DEF a, t
<1>4. /\ Tail(a) \in Seq(S) /\ Len(Tail(a)) = Len(s)
      /\ \A k \in 1 .. Len(s) : Tail(a)[k] = a[k + 1]
  <2>1. a # << >>
    BY <1>1
  <2>2. /\ Tail(a) \in Seq(S) /\ Len(Tail(a)) = Len(a) - 1
        /\ \A k \in 1 .. Len(Tail(a)) : Tail(a)[k] = a[k + 1]
    BY <1>1, <2>1, HeadTailProperties
  <2>3. Len(a) - 1 = Len(s)
    BY <1>1
  <2> QED BY <2>2, <2>3
<1>5. CASE Len(s) < CacheSize
  <2>1. t = a
    BY <1>1, <1>2, <1>3, <1>5
  <2> QED BY <1>1, <1>2, <1>5, <2>1 DEF t
<1>6. CASE Len(s) = CacheSize
  <2>1. t = Tail(a)
    BY <1>1, <1>2, <1>3, <1>6
  <2>2. \A k \in 1 .. Len(s) - 1 : k \in 1 .. Len(s) /\ k + 1 \in 1 .. Len(s)
    BY <1>1
  <2>3. Len(s) \in 1 .. Len(s)
    BY <1>1, <1>2, <1>6
  <2> QED BY <1>1, <1>2, <1>4, <1>6, <2>1, <2>2, <2>3 DEF t
<1> QED BY <1>1, <1>2, <1>5, <1>6

LEMMA ComputedType == \A q \in Questions : Computed(q) \in SUBSET GraphUrns
BY DEF Computed, Downstream, GraphNodes

(* An answer depends on nothing but the graph.                             *)
LEMMA ComputedStays ==
  ASSUME UNCHANGED <<nodeKind, links>>
  PROVE  \A q : Computed(q)' = Computed(q)
BY DEF Computed, Downstream, Closed, GraphNodes

-----------------------------------------------------------------------------
LEMMA GraphInitInv == GraphInit => GraphInv
<1> SUFFICES ASSUME GraphInit PROVE GraphInv
  OBVIOUS
<1>1. /\ nodeKind = [u \in GraphUrns |-> "absent"] /\ links = {}
      /\ kindIndex = [k \in Kinds |-> {}] /\ lru = << >> /\ used = << >>
      /\ bypassed = [index |-> FALSE, cache |-> FALSE]
  BY DEF GraphInit
<1>2. GraphTypeOK
  <2>1. << >> \in Seq(CacheEntries) /\ << >> \in Seq(Questions)
    OBVIOUS
  <2> QED BY <1>1, <2>1 DEF GraphTypeOK, CacheEntries
<1>3. ToSet(lru) = {}
  BY <1>1 DEF ToSet
<1> QED BY <1>1, <1>2, <1>3, GraphAssumptions DEF GraphInv, IndexKept, AnswersKept, LatestKept

(* Where the cache is emptied nothing in it can be wrong.                  *)
LEMMA EmptiedKeeps ==
  ASSUME GraphInv, lru' = << >>, used' = << >>,
         nodeKind' \in [GraphUrns -> Kinds \cup {"absent"}],
         links' \subseteq GraphNodes' \X GraphNodes', kindIndex' \in [Kinds -> SUBSET GraphUrns],
         bypassed' \in [index : BOOLEAN, cache : BOOLEAN], IndexKept'
  PROVE  GraphInv'
<1>1. << >> \in Seq(CacheEntries) /\ << >> \in Seq(Questions)
  OBVIOUS
<1>2. GraphTypeOK'
  BY <1>1 DEF GraphTypeOK, CacheEntries
<1>3. ToSet(lru') = {}
  BY DEF ToSet
<1>4. AnswersKept' /\ LatestKept'
  BY <1>3, GraphAssumptions DEF AnswersKept, LatestKept
<1> QED BY <1>2, <1>4 DEF GraphInv

LEMMA ChangesKeep ==
  ASSUME GraphInv,
         \/ \E u \in GraphUrns : RemoveNode(u) \/ \E k \in Kinds : AddNode(u, k)
         \/ \E u, v \in GraphUrns : AddEdge(u, v)
         \/ \E e \in links : RemoveEdge(e)
         \/ ClearGraph
  PROVE  GraphInv'
<1>1. /\ nodeKind \in [GraphUrns -> Kinds \cup {"absent"}] /\ links \subseteq GraphNodes \X GraphNodes
      /\ kindIndex \in [Kinds -> SUBSET GraphUrns] /\ bypassed \in [index : BOOLEAN, cache : BOOLEAN]
      /\ IndexKept
  BY DEF GraphInv, GraphTypeOK
<1>2. /\ lru' = << >> /\ used' = << >>
      /\ bypassed' \in [index : BOOLEAN, cache : BOOLEAN]
      /\ bypassed'.index = bypassed.index \/ ClearGraph
  <2>1. CASE Invalidate
    <3>1. lru' = << >> /\ used' = << >> /\ bypassed' = [bypassed EXCEPT !.cache = FALSE]
      BY <2>1 DEF Invalidate
    <3> QED BY <1>1, <3>1
  <2>2. CASE ClearGraph
    BY <2>2 DEF ClearGraph
  <2> QED BY <2>1, <2>2 DEF RemoveNode, AddNode, AddEdge, RemoveEdge
<1>3. ASSUME NEW u \in GraphUrns, RemoveNode(u)
      PROVE  /\ nodeKind' \in [GraphUrns -> Kinds \cup {"absent"}] /\ links' \subseteq GraphNodes' \X GraphNodes'
             /\ kindIndex' \in [Kinds -> SUBSET GraphUrns] /\ IndexKept'
  <2>1. /\ nodeKind[u] \in Kinds /\ nodeKind' = [nodeKind EXCEPT ![u] = "absent"]
        /\ kindIndex' = [kindIndex EXCEPT ![nodeKind[u]] = @ \ {u}]
        /\ links' = {e \in links : u \notin {e[1], e[2]}} /\ bypassed'.index = bypassed.index
    BY <1>1, <1>3 DEF RemoveNode, GraphNodes, Invalidate
  <2>2. nodeKind' \in [GraphUrns -> Kinds \cup {"absent"}] /\ kindIndex' \in [Kinds -> SUBSET GraphUrns]
    BY <1>1, <2>1
  <2>3. GraphNodes' = GraphNodes \ {u}
    BY <1>1, <2>1 DEF GraphNodes
  <2>4. links' \subseteq GraphNodes' \X GraphNodes'
    BY <1>1, <2>1, <2>3
  <2>5. IndexKept'
    BY <1>1, <2>1, GraphAssumptions DEF IndexKept
  <2> QED BY <2>2, <2>4, <2>5
<1>4. ASSUME NEW u \in GraphUrns, NEW k \in Kinds, AddNode(u, k)
      PROVE  /\ nodeKind' \in [GraphUrns -> Kinds \cup {"absent"}] /\ links' \subseteq GraphNodes' \X GraphNodes'
             /\ kindIndex' \in [Kinds -> SUBSET GraphUrns] /\ IndexKept'
  <2>1. /\ nodeKind[u] = "absent" /\ nodeKind' = [nodeKind EXCEPT ![u] = k]
        /\ kindIndex' = [kindIndex EXCEPT ![k] = @ \cup {u}]
        /\ links' = links /\ bypassed'.index = bypassed.index
    BY <1>1, <1>4 DEF AddNode, GraphNodes, Invalidate
  <2>2. nodeKind' \in [GraphUrns -> Kinds \cup {"absent"}] /\ kindIndex' \in [Kinds -> SUBSET GraphUrns]
    BY <1>1, <2>1
  <2>3. GraphNodes \subseteq GraphNodes'
    BY <1>1, <2>1, GraphAssumptions DEF GraphNodes
  <2>4. links' \subseteq GraphNodes' \X GraphNodes'
    BY <1>1, <2>1, <2>3
  <2>5. IndexKept'
    BY <1>1, <2>1, GraphAssumptions DEF IndexKept
  <2> QED BY <2>2, <2>4, <2>5
<1>5. ASSUME UNCHANGED <<nodeKind, kindIndex>>, links' \subseteq GraphNodes \X GraphNodes,
             bypassed'.index = bypassed.index
      PROVE  GraphInv'
  <2>1. GraphNodes' = GraphNodes /\ IndexKept'
    BY <1>1, <1>5 DEF GraphNodes, IndexKept
  <2> QED BY <1>1, <1>2, <1>5, <2>1, EmptiedKeeps
<1>6. ASSUME NEW u \in GraphUrns, NEW v \in GraphUrns, AddEdge(u, v) PROVE GraphInv'
  BY <1>1, <1>5, <1>6 DEF AddEdge, Invalidate
<1>7. ASSUME NEW e \in links, RemoveEdge(e) PROVE GraphInv'
  BY <1>1, <1>5, <1>7 DEF RemoveEdge, Invalidate
<1>8. CASE ClearGraph
  <2>1. /\ nodeKind' = [u \in GraphUrns |-> "absent"] /\ links' = {} /\ kindIndex' = [k \in Kinds |-> {}]
    BY <1>8 DEF ClearGraph
  <2>2. IndexKept'
    BY <2>1, GraphAssumptions DEF IndexKept
  <2> QED BY <1>2, <2>1, <2>2, EmptiedKeeps
<1> QED BY <1>2, <1>3, <1>4, <1>6, <1>7, <1>8, EmptiedKeeps

(* What gets past the methods of the class is known to.                    *)
LEMMA RecoveryKeeps == ASSUME GraphInv, RecoverFromEvents PROVE GraphInv'
<1>1. /\ nodeKind' = [u \in GraphUrns |-> "absent"] /\ links' = {}
      /\ bypassed' = [index |-> TRUE, cache |-> TRUE]
      /\ kindIndex' = kindIndex /\ lru' = lru /\ used' = used
  BY DEF RecoverFromEvents
<1>2. GraphTypeOK'
  BY <1>1 DEF GraphInv, GraphTypeOK
<1>3. IndexKept' /\ AnswersKept'
  BY <1>1, GraphAssumptions DEF IndexKept, AnswersKept
<1>4. LatestKept'
  BY <1>1 DEF GraphInv, LatestKept
<1> QED BY <1>2, <1>3, <1>4 DEF GraphInv

LEMMA AskKeeps == ASSUME GraphInv, NEW q \in Questions, Ask(q) PROVE GraphInv'
<1> DEFINE n == Len(used)
           m == Len(lru)
           entry == [question |-> q, answer |-> Computed(q)]
<1>1. /\ UNCHANGED <<nodeKind, links, kindIndex, bypassed>>
      /\ lru \in Seq(CacheEntries) /\ used \in Seq(Questions) /\ LatestKept /\ AnswersKept /\ GraphTypeOK
  BY DEF Ask, GraphInv, GraphTypeOK, CacheEntries
<1>2. /\ n \in Nat /\ m \in Nat /\ CacheSize \in Nat \ {0} /\ m <= CacheSize
      /\ DOMAIN lru = 1 .. m /\ DOMAIN used = 1 .. n
      /\ \A i, j \in 1 .. n : used[i] = used[j] => i = j
  BY <1>1, GraphAssumptions DEF LatestKept
<1>3. PICK d \in 0 .. n : /\ n = d + m /\ (d = 0 \/ m = CacheSize)
                         /\ \A i \in 1 .. m : lru[i].question = used[d + i]
  BY <1>1 DEF LatestKept
<1>4. \A i \in 1 .. m : lru[i] \in CacheEntries /\ lru[i].question = used[d + i]
  BY <1>1, <1>3
<1> HIDE DEF n, m
<1>5. entry \in CacheEntries /\ entry.question = q /\ entry.answer = Computed(q)
  BY ComputedType DEF CacheEntries
<1> HIDE DEF entry
<1>6. IndexKept'
  BY <1>1 DEF GraphInv, IndexKept
<1>7. ASSUME lru' \in Seq(CacheEntries), used' \in Seq(Questions),
             ToSet(lru') \subseteq ToSet(lru) \cup {entry}, LatestKept'
      PROVE  GraphInv'
  <2>1. GraphTypeOK'
    <3>1. GraphNodes' = GraphNodes
      BY <1>1 DEF GraphNodes
    <3> QED BY <1>1, <1>7, <3>1 DEF GraphTypeOK, CacheEntries
  <2>2. \A p : Computed(p)' = Computed(p)
    BY <1>1, ComputedStays
  <2>3. bypassed.cache \/ \A x \in ToSet(lru) \cup {entry} : x.answer = Computed(x.question)
    BY <1>1, <1>5 DEF AnswersKept
  <2>4. AnswersKept'
    BY <1>1, <1>7, <2>2, <2>3 DEF AnswersKept
  <2> QED BY <1>6, <1>7, <2>1, <2>4 DEF GraphInv
<1>8. CASE Cached(q) # {} /\ Hit(q)
  <2>1. PICK i \in 1 .. m : lru[i].question = q /\ lru' = MovedLast(lru, i)
    BY <1>2, <1>8 DEF Hit, Cached
  <2>2. used[d + i] = q /\ d + i \in 1 .. n
    BY <1>2, <1>3, <1>4, <2>1
  <2>3. used' = MovedLast(used, d + i)
    <3>1. q \in ToSet(used)
      BY <1>2, <2>2 DEF ToSet
    <3>2. PICK j \in DOMAIN used : used[j] = q /\ used' = MovedLast(used, j)
      BY <3>1 DEF Ask
    <3>3. j = d + i
      BY <1>2, <2>2, <3>2
    <3> QED BY <3>2, <3>3
  <2>4. /\ lru' \in Seq(CacheEntries) /\ Len(lru') = m
        /\ \A k \in 1 .. m : lru'[k] = IF k < i THEN lru[k] ELSE IF k < m THEN lru[k + 1] ELSE lru[i]
    BY <1>1, <2>1, MovedLastIs DEF m
  <2>5. /\ used' \in Seq(Questions) /\ Len(used') = n
        /\ \A k \in 1 .. n : used'[k] = IF k < d + i THEN used[k]
                                        ELSE IF k < n THEN used[k + 1] ELSE used[d + i]
    BY <1>1, <2>2, <2>3, MovedLastIs DEF n
  <2>6. \A j, k \in 1 .. n : used'[j] = used'[k] => j = k
    BY <1>1, <1>2, <2>2, <2>3, MovedLastUnique DEF n
  <2>7. \A k \in 1 .. m : lru'[k].question = used'[d + k]
    <3> SUFFICES ASSUME NEW k \in 1 .. m PROVE lru'[k].question = used'[d + k]
      OBVIOUS
    <3>1. d + k \in 1 .. n /\ (d + k < d + i <=> k < i) /\ (d + k < n <=> k < m)
      BY <1>2, <1>3
    <3>2. CASE k < i
      BY <1>4, <2>4, <2>5, <3>1, <3>2
    <3>3. CASE ~(k < i) /\ k < m
      <4>1. k + 1 \in 1 .. m /\ d + (k + 1) = d + k + 1
        BY <1>2, <1>3, <3>3
      <4> QED BY <1>4, <2>4, <2>5, <3>1, <3>3, <4>1
    <3>4. CASE ~(k < i) /\ ~(k < m)
      BY <2>1, <2>2, <2>4, <2>5, <3>1, <3>4
    <3> QED BY <3>2, <3>3, <3>4
  <2>8. LatestKept'
    BY <1>2, <1>3, <2>4, <2>5, <2>6, <2>7 DEF LatestKept
  <2>9. ToSet(lru') \subseteq ToSet(lru)
    <3>1. DOMAIN lru' = 1 .. m
      BY <2>4
    <3>2. \A k \in 1 .. m : k < m => k + 1 \in 1 .. m
      BY <1>2
    <3>3. \A k \in 1 .. m : lru'[k] \in ToSet(lru)
      BY <1>2, <2>1, <2>4, <3>2 DEF ToSet
    <3> QED BY <3>1, <3>3 DEF ToSet
  <2> QED BY <1>7, <2>4, <2>5, <2>8, <2>9
<1>9. CASE Cached(q) = {} /\ Miss(q)
  <2>1. lru' = WithEntry(lru, entry)
    BY <1>9 DEF Miss, entry
  <2>2. \A i \in 1 .. m : lru[i].question # q
    BY <1>2, <1>9 DEF Cached
  <2>3. /\ lru' \in Seq(CacheEntries)
        /\ m < CacheSize => /\ Len(lru') = m + 1 /\ lru'[m + 1] = entry
                            /\ \A k \in 1 .. m : lru'[k] = lru[k]
        /\ m = CacheSize => /\ Len(lru') = m /\ lru'[m] = entry
                            /\ \A k \in 1 .. m - 1 : lru'[k] = lru[k + 1]
    <3>1. Len(lru) <= CacheSize
      BY <1>2 DEF m
    <3>2. lru \in Seq(CacheEntries) /\ entry \in CacheEntries
      BY <1>1, <1>5
    <3> DEFINE t == WithEntry(lru, entry)
    <3>3. /\ t \in Seq(CacheEntries)
          /\ Len(lru) < CacheSize => /\ Len(t) = Len(lru) + 1 /\ t[Len(lru) + 1] = entry
                                     /\ \A k \in 1 .. Len(lru) : t[k] = lru[k]
          /\ Len(lru) = CacheSize => /\ Len(t) = Len(lru) /\ t[Len(lru)] = entry
                                     /\ \A k \in 1 .. Len(lru) - 1 : t[k] = lru[k + 1]
      BY <3>1, <3>2, EntryAdded
    <3>4. lru' = t
      BY <2>1
    <3> HIDE DEF t
    <3> QED BY <3>3, <3>4 DEF m
  <2>4. ToSet(lru') \subseteq ToSet(lru) \cup {entry}
    <3>1. DOMAIN lru' = 1 .. Len(lru')
      BY <2>3
    <3>2. CASE m < CacheSize
      <4> SUFFICES ASSUME NEW k \in 1 .. m + 1 PROVE lru'[k] \in ToSet(lru) \cup {entry}
        BY <2>3, <3>1, <3>2 DEF ToSet
      <4>1. k \in 1 .. m \/ k = m + 1
        BY <1>2
      <4> QED BY <1>2, <2>3, <3>2, <4>1 DEF ToSet
    <3>3. CASE m = CacheSize
      <4> SUFFICES ASSUME NEW k \in 1 .. m PROVE lru'[k] \in ToSet(lru) \cup {entry}
        BY <2>3, <3>1, <3>3 DEF ToSet
      <4>1. (k \in 1 .. m - 1 /\ k + 1 \in 1 .. m) \/ k = m
        BY <1>2
      <4> QED BY <1>2, <2>3, <3>3, <4>1 DEF ToSet
    <3> QED BY <1>2, <3>2, <3>3
  <2>5. ASSUME NEW j \in 1 .. n, used[j] = q, used' = MovedLast(used, j)
        PROVE  LatestKept' /\ used' \in Seq(Questions)
    <3>1. j <= d
      <4>1. ASSUME ~(j <= d) PROVE FALSE
        <5>1. j - d \in 1 .. m /\ d + (j - d) = j
          BY <1>2, <1>3, <4>1
        <5> QED BY <1>4, <2>2, <2>5, <5>1
      <4> QED BY <4>1
    <3>2. m = CacheSize
      BY <1>3, <3>1
    <3>3. /\ used' \in Seq(Questions) /\ Len(used') = n
          /\ \A k \in 1 .. n : used'[k] = IF k < j THEN used[k]
                                          ELSE IF k < n THEN used[k + 1] ELSE used[j]
      BY <1>1, <2>5, MovedLastIs DEF n
    <3>4. \A i, k \in 1 .. n : used'[i] = used'[k] => i = k
      BY <1>1, <1>2, <2>5, MovedLastUnique DEF n
    <3>5. \A k \in 1 .. m : lru'[k].question = used'[d + k]
      <4> SUFFICES ASSUME NEW k \in 1 .. m PROVE lru'[k].question = used'[d + k]
        OBVIOUS
      <4>1. d + k \in 1 .. n /\ ~(d + k < j) /\ (d + k < n <=> k < m)
        BY <1>2, <1>3, <3>1
      <4>2. CASE k < m
        <5>1. k \in 1 .. m - 1 /\ k + 1 \in 1 .. m /\ d + (k + 1) = d + k + 1
          BY <1>2, <1>3, <4>2
        <5> QED BY <1>4, <2>3, <3>2, <3>3, <4>1, <4>2, <5>1
      <4>3. CASE ~(k < m)
        <5>1. k = m
          BY <1>2, <4>3
        <5> QED BY <1>5, <2>3, <2>5, <3>2, <3>3, <4>1, <5>1
      <4> QED BY <4>2, <4>3
    <3>6. Len(lru') = m /\ m <= CacheSize
      BY <1>2, <2>3, <3>2
    <3>7. /\ d \in 0 .. Len(used') /\ Len(used') = d + Len(lru') /\ Len(lru') = CacheSize
          /\ \A k \in 1 .. Len(lru') : lru'[k].question = used'[d + k]
      BY <1>3, <3>2, <3>3, <3>5, <3>6
    <3> QED BY <3>3, <3>4, <3>6, <3>7 DEF LatestKept
  <2>6. ASSUME q \notin ToSet(used), used' = Append(used, q)
        PROVE  LatestKept' /\ used' \in Seq(Questions)
    <3>1. /\ used' \in Seq(Questions) /\ Len(used') = n + 1 /\ used'[n + 1] = q
          /\ \A k \in 1 .. n : used'[k] = used[k]
      BY <1>1, <2>6 DEF n
    <3>2. \A k \in 1 .. n : used[k] # q
      BY <1>2, <2>6 DEF ToSet
    <3>3. \A i, k \in 1 .. n + 1 : used'[i] = used'[k] => i = k
      <4>1. \A k \in 1 .. n + 1 : k \in 1 .. n \/ k = n + 1
        BY <1>2
      <4> QED BY <1>2, <3>1, <3>2, <4>1
    <3>4. CASE m < CacheSize
      <4>1. d = 0 /\ n = m /\ \A k \in 1 .. m + 1 : d + k = k
        BY <1>2, <1>3, <3>4
      <4>2. \A k \in 1 .. m + 1 : lru'[k].question = used'[k]
        <5>1. \A k \in 1 .. m + 1 : k \in 1 .. m \/ k = m + 1
          BY <1>2
        <5> QED BY <1>4, <1>5, <2>3, <3>1, <3>4, <4>1, <5>1
      <4>3. n + 1 = 0 + (m + 1) /\ 0 \in 0 .. n + 1 /\ m + 1 <= CacheSize
            /\ \A k \in 1 .. m + 1 : lru'[k].question = used'[0 + k]
        BY <1>2, <3>4, <4>1, <4>2
      <4> QED BY <2>3, <3>1, <3>3, <3>4, <4>3 DEF LatestKept
    <3>5. CASE m = CacheSize
      <4>1. \A k \in 1 .. m : (d + 1) + k = d + k + 1
        BY <1>3
      <4>2. \A k \in 1 .. m : lru'[k].question = used'[d + k + 1]
        <5> SUFFICES ASSUME NEW k \in 1 .. m PROVE lru'[k].question = used'[d + k + 1]
          OBVIOUS
        <5>1. CASE k < m
          <6>1. k \in 1 .. m - 1 /\ k + 1 \in 1 .. m /\ d + (k + 1) = d + k + 1 /\ d + k + 1 \in 1 .. n
            BY <1>2, <1>3, <5>1
          <6>2. lru'[k] = lru[k + 1] /\ lru[k + 1].question = used[d + k + 1]
            BY <1>4, <2>3, <3>5, <6>1
          <6>3. used'[d + k + 1] = used[d + k + 1]
            BY <3>1, <6>1
          <6> QED BY <6>2, <6>3
        <5>2. CASE ~(k < m)
          <6>1. k = m /\ d + k + 1 = n + 1
            BY <1>2, <1>3, <5>2
          <6> QED BY <1>5, <2>3, <3>1, <3>5, <6>1
        <5> QED BY <5>1, <5>2
      <4>3. n + 1 = (d + 1) + m /\ d + 1 \in 0 .. n + 1
        BY <1>2, <1>3
      <4>4. \A k \in 1 .. m : lru'[k].question = used'[(d + 1) + k]
        BY <4>1, <4>2
      <4>5. Len(lru') = m /\ m <= CacheSize
        BY <1>2, <2>3, <3>5
      <4>6. /\ d + 1 \in 0 .. Len(used') /\ Len(used') = (d + 1) + Len(lru') /\ Len(lru') = CacheSize
            /\ \A k \in 1 .. Len(lru') : lru'[k].question = used'[(d + 1) + k]
        BY <3>1, <3>5, <4>3, <4>4, <4>5
      <4> QED BY <3>1, <3>3, <4>5, <4>6 DEF LatestKept
    <3> QED BY <1>2, <3>1, <3>4, <3>5
  <2>7. LatestKept' /\ used' \in Seq(Questions)
    BY <1>2, <2>5, <2>6 DEF Ask
  <2> QED BY <1>7, <2>3, <2>4, <2>7
<1> QED BY <1>8, <1>9 DEF Ask

LEMMA GraphStepInv == ASSUME GraphInv, [GraphNext]_graphVars PROVE GraphInv'
<1>1. CASE UNCHANGED graphVars
  <2>1. /\ nodeKind' = nodeKind /\ links' = links /\ kindIndex' = kindIndex
        /\ lru' = lru /\ used' = used /\ bypassed' = bypassed
    BY <1>1 DEF graphVars
  <2>2. GraphTypeOK' /\ IndexKept' /\ LatestKept'
    BY <2>1 DEF GraphInv, GraphTypeOK, GraphNodes, IndexKept, LatestKept
  <2>3. \A p : Computed(p)' = Computed(p)
    BY <2>1, ComputedStays
  <2>4. AnswersKept'
    BY <2>1, <2>3 DEF GraphInv, AnswersKept
  <2> QED BY <2>2, <2>4 DEF GraphInv
<1>2. CASE GraphNext
  BY <1>2, ChangesKeep, RecoveryKeeps, AskKeeps DEF GraphNext
<1> QED BY <1>1, <1>2

-----------------------------------------------------------------------------
THEOREM GraphInvariant == GraphSpec => []GraphInv
<1>1. GraphInit => GraphInv
  BY GraphInitInv
<1>2. GraphInv /\ [GraphNext]_graphVars => GraphInv'
  BY GraphStepInv
<1> QED BY <1>1, <1>2, PTL DEF GraphSpec

(* For any nodes, kinds and changes: what the index by kind and the cache  *)
(* say is what the graph says, unless the registry's recovery got past     *)
(* both, and no node is ever missing from the index.                       *)
THEOREM GraphAnswersAreFresh == GraphSpec => []AnswersAreFresh
<1>1. ASSUME GraphInv PROVE AnswersAreFresh
  <2>1. ASSUME NEW k \in Kinds
        PROVE  LET nodes == {u \in GraphUrns : nodeKind[u] = k} IN
               nodes \subseteq kindIndex[k] /\ (kindIndex[k] = nodes \/ bypassed.index)
    <3>1. kindIndex[k] \subseteq GraphUrns
      BY <1>1 DEF GraphInv, GraphTypeOK
    <3> QED BY <1>1, <3>1 DEF GraphInv, IndexKept
  <2> QED BY <1>1, <2>1 DEF GraphInv, AnswersKept, AnswersAreFresh
<1> QED BY <1>1, GraphInvariant, PTL

(* For any cache size and any order of questions and changes: the cache    *)
(* holds the latest questions, as many as have room, oldest first.         *)
THEOREM LatestAnswersAreKept == GraphSpec => []LatestAreKept
<1>1. ASSUME GraphInv PROVE LatestAreKept
  <2> DEFINE n == Len(used)
             m == Len(lru)
  <2>1. /\ lru \in Seq(CacheEntries) /\ used \in Seq(Questions) /\ LatestKept
    BY <1>1 DEF GraphInv, GraphTypeOK, CacheEntries
  <2>2. n \in Nat /\ m \in Nat /\ CacheSize \in Nat \ {0} /\ DOMAIN lru = 1 .. m /\ m <= CacheSize
    BY <2>1, GraphAssumptions DEF LatestKept
  <2>3. PICK d \in 0 .. n : /\ n = d + m /\ (d = 0 \/ m = CacheSize)
                           /\ \A i \in 1 .. m : lru[i].question = used[d + i]
    BY <2>1 DEF LatestKept
  <2> HIDE DEF n, m
  <2>4. (IF n > CacheSize THEN n - CacheSize + 1 ELSE 1) = d + 1
    BY <2>2, <2>3
  <2> DEFINE t == SubSeq(used, d + 1, d + m)
  <2>5. t \in Seq(Questions) /\ Len(t) = m /\ \A k \in 1 .. m : t[k] = used[d + k]
    <3>1. d \in Nat /\ d + m <= Len(used)
      BY <2>2, <2>3 DEF n
    <3> QED BY <2>1, <2>2, <3>1, PartOfSequence
  <2> HIDE DEF t
  <2>6. DOMAIN t = 1 .. m /\ t = [k \in 1 .. m |-> t[k]]
    BY <2>5
  <2>8. [i \in DOMAIN lru |-> lru[i].question] = t
    BY <2>2, <2>3, <2>5, <2>6
  <2> QED BY <2>3, <2>4, <2>8 DEF LatestAreKept, n, t
<1> QED BY <1>1, GraphInvariant, PTL

-----------------------------------------------------------------------------
(* The overrides: the rules of a loader, their index by type, and the      *)
(* cache of a matcher.                                                     *)

(* Rules in a list: r before s; one of each id.                            *)
Order(list, r, s) == \E i, j \in 1 .. Len(list) : i < j /\ list[i] = r /\ list[j] = s
OneEach(list) == \A i, j \in 1 .. Len(list) : list[i].id = list[j].id => i = j

LEMMA OthersAre ==
  ASSUME NEW list \in Seq(RuleFiles), OneEach(list), NEW id
  PROVE  /\ Others(list, id) \in Seq(RuleFiles) /\ OneEach(Others(list, id))
         /\ ToSet(Others(list, id)) = {r \in ToSet(list) : r.id # id}
         /\ \A r, s : Order(Others(list, id), r, s) <=> r.id # id /\ s.id # id /\ Order(list, r, s)
<1>0. Len(list) \in Nat /\ DOMAIN list = 1 .. Len(list)
  OBVIOUS
<1> DEFINE held == {i \in 1 .. Len(list) : list[i].id = id}
<1>1. CASE held = {}
  <2>1. Others(list, id) = list
    BY <1>0, <1>1 DEF Others
  <2>2. \A i \in 1 .. Len(list) : list[i].id # id
    BY <1>1
  <2> QED BY <1>0, <2>1, <2>2 DEF ToSet, Order
<1>2. CASE held # {}
  <2>1. PICK m \in 1 .. Len(list) : list[m].id = id /\ Others(list, id) = RemoveAt(list, m)
    BY <1>0, <1>2 DEF Others
  <2>2. PICK n \in Nat :
          /\ Len(list) = n + 1
          /\ RemoveAt(list, m) \in Seq(RuleFiles) /\ Len(RemoveAt(list, m)) = n
          /\ \A k \in 1 .. n : RemoveAt(list, m)[k] = IF k < m THEN list[k] ELSE list[k + 1]
    BY RemovedIs
  <2> DEFINE o == RemoveAt(list, m)
             from(k) == IF k < m THEN k ELSE k + 1
  <2>3. \A k \in 1 .. n : from(k) \in 1 .. Len(list) /\ from(k) # m /\ o[k] = list[from(k)]
    BY <2>2
  <2>4. \A j, k \in 1 .. n : (j < k <=> from(j) < from(k)) /\ (from(j) = from(k) => j = k)
    BY <2>2
  <2>5. \A i \in 1 .. Len(list) : i # m => \E k \in 1 .. n : from(k) = i
    <3> SUFFICES ASSUME NEW i \in 1 .. Len(list), i # m PROVE \E k \in 1 .. n : from(k) = i
      OBVIOUS
    <3>1. CASE i < m
      BY <2>2, <3>1
    <3>2. CASE ~(i < m)
      <4>1. i - 1 \in 1 .. n /\ from(i - 1) = i
        BY <2>2, <3>2
      <4> QED BY <4>1
    <3> QED BY <3>1, <3>2
  <2>6. \A i \in 1 .. Len(list) : list[i].id # id <=> i # m
    BY <2>1 DEF OneEach
  <2>7. DOMAIN o = 1 .. n /\ Len(o) = n /\ o \in Seq(RuleFiles)
    BY <2>2
  <2> HIDE DEF from, o
  <2>8. OneEach(o)
    BY <2>3, <2>4, <2>7 DEF OneEach
  <2>9. ToSet(o) = {r \in ToSet(list) : r.id # id}
    <3>1. \A r : r \in ToSet(o) <=> \E k \in 1 .. n : r = list[from(k)]
      BY <2>3, <2>7 DEF ToSet
    <3>2. \A r : r \in ToSet(list) <=> \E i \in 1 .. Len(list) : r = list[i]
      BY <1>0 DEF ToSet
    <3>3. \A r \in ToSet(o) : r \in ToSet(list) /\ r.id # id
      BY <2>3, <2>6, <3>1, <3>2
    <3>4. \A r \in ToSet(list) : r.id # id => r \in ToSet(o)
      <4> SUFFICES ASSUME NEW r \in ToSet(list), r.id # id PROVE r \in ToSet(o)
        OBVIOUS
      <4>1. PICK i \in 1 .. Len(list) : r = list[i]
        BY <3>2
      <4>2. i # m
        BY <2>6, <4>1
      <4> QED BY <2>5, <3>1, <4>1, <4>2
    <3> QED BY <3>3, <3>4
  <2>10. \A r, s : Order(o, r, s) <=> r.id # id /\ s.id # id /\ Order(list, r, s)
    <3> SUFFICES ASSUME NEW r, NEW s
                 PROVE  Order(o, r, s) <=> r.id # id /\ s.id # id /\ Order(list, r, s)
      OBVIOUS
    <3>1. ASSUME Order(o, r, s) PROVE r.id # id /\ s.id # id /\ Order(list, r, s)
      BY <2>3, <2>4, <2>6, <2>7, <3>1 DEF Order
    <3>2. ASSUME r.id # id, s.id # id, Order(list, r, s) PROVE Order(o, r, s)
      <4>1. PICK i \in 1 .. Len(list), j \in 1 .. Len(list) : i < j /\ list[i] = r /\ list[j] = s
        BY <3>2 DEF Order
      <4>2. PICK a \in 1 .. n, b \in 1 .. n : from(a) = i /\ from(b) = j
        BY <2>5, <2>6, <3>2, <4>1
      <4> QED BY <2>3, <2>4, <2>7, <4>1, <4>2 DEF Order
    <3> QED BY <3>1, <3>2
  <2> QED BY <2>1, <2>7, <2>8, <2>9, <2>10 DEF o
<1> QED BY <1>1, <1>2

LEMMA AddedIs ==
  ASSUME NEW list \in Seq(RuleFiles), OneEach(list), NEW x \in RuleFiles,
         \A r \in ToSet(list) : r.id # x.id
  PROVE  /\ Append(list, x) \in Seq(RuleFiles) /\ OneEach(Append(list, x))
         /\ ToSet(Append(list, x)) = ToSet(list) \cup {x}
         /\ \A r, s : Order(Append(list, x), r, s) <=> Order(list, r, s) \/ (r \in ToSet(list) /\ s = x)
<1> DEFINE n == Len(list)
           a == Append(list, x)
<1>1. /\ n \in Nat /\ DOMAIN list = 1 .. n /\ DOMAIN a = 1 .. n + 1
      /\ a \in Seq(RuleFiles) /\ Len(a) = n + 1
      /\ a[n + 1] = x /\ \A i \in 1 .. n : a[i] = list[i]
  OBVIOUS
<1>2. \A i \in 1 .. n : list[i].id # x.id
  BY <1>1 DEF ToSet
<1>3. \A i : i \in 1 .. n + 1 <=> i \in 1 .. n \/ i = n + 1
  BY <1>1
<1>9. \A i \in 1 .. n : i < n + 1 /\ ~(n + 1 < i)
  BY <1>1
<1>10. ~(n + 1 < n + 1)
  BY <1>1
<1> HIDE DEF n, a
<1>4. OneEach(a)
  BY <1>1, <1>2, <1>3 DEF OneEach, n
<1>5. ToSet(a) = ToSet(list) \cup {x}
  BY <1>1, <1>3 DEF ToSet
<1>6. \A r, s : Order(a, r, s) <=> Order(list, r, s) \/ (r \in ToSet(list) /\ s = x)
  <2> SUFFICES ASSUME NEW r, NEW s
               PROVE  Order(a, r, s) <=> Order(list, r, s) \/ (r \in ToSet(list) /\ s = x)
    OBVIOUS
  <2>1. ASSUME Order(a, r, s) PROVE Order(list, r, s) \/ (r \in ToSet(list) /\ s = x)
    <3>1. PICK i \in 1 .. n + 1, j \in 1 .. n + 1 : i < j /\ a[i] = r /\ a[j] = s
      BY <1>1, <2>1 DEF Order
    <3>2. i \in 1 .. n
      BY <1>1, <1>3, <1>9, <1>10, <3>1
    <3> QED BY <1>1, <1>3, <3>1, <3>2 DEF Order, ToSet, n
  <2>2. ASSUME Order(list, r, s) PROVE Order(a, r, s)
    BY <1>1, <1>3, <2>2 DEF Order, n
  <2>3. ASSUME r \in ToSet(list), s = x PROVE Order(a, r, s)
    <3>1. PICK i \in 1 .. n : list[i] = r
      BY <1>1, <2>3 DEF ToSet
    <3>2. i \in 1 .. n + 1 /\ n + 1 \in 1 .. n + 1 /\ i < n + 1 /\ a[i] = r /\ a[n + 1] = s
      BY <1>1, <2>3, <3>1
    <3> QED BY <1>1, <3>2 DEF Order
  <2> QED BY <2>1, <2>2, <2>3
<1> QED BY <1>1, <1>4, <1>5, <1>6 DEF a

-----------------------------------------------------------------------------
(* The rules that are kept.                                                *)

LEMMA RulesAre ==
  \A r \in RuleFiles : r.type \in RuleTypes /\ Precedence(r) \in Nat
  BY DEF RuleTypes, Precedence

(* What is compared are numbers.                                           *)
LEMMA ConfidenceType ==
  ASSUME month \in FirstMonth .. LastMonth, NEW r \in RuleFiles
  PROVE  Confidence(r) \in Nat
<1>1. /\ month \in Nat /\ r.created \in Nat /\ r.created <= month
      /\ r.confidence \in Nat /\ r.verified \in Nat
  BY RuleAssumptions
<1>2. Decay(r) \in Nat
  BY <1>1 DEF Decay, Capped
<1>3. Capped(5 * r.verified, 100) \in Nat
  BY <1>1 DEF Capped
<1>4. r.confidence * Decay(r) + Capped(5 * r.verified, 100) \in Nat
  BY <1>1, <1>2, <1>3
<1> HIDE DEF Decay, Capped
<1> QED BY <1>4 DEF Confidence, Capped

LEMMA MatchConfidenceType ==
  ASSUME month \in FirstMonth .. LastMonth, NEW r \in RuleFiles, NEW q \in FieldQuestions
  PROVE  MatchConfidence(r, q) \in Nat
<1>1. Confidence(r) \in Nat
  BY ConfidenceType
<1>2. Capped(r.weight[q], 10) \in Nat
  BY RuleAssumptions DEF Capped
<1> HIDE DEF Capped, Confidence
<1> QED BY <1>1, <1>2 DEF MatchConfidence

LEMMA ConfidenceStays ==
  ASSUME month' = month, NEW r
  PROVE  Confidence(r)' = Confidence(r)
BY DEF Confidence, Decay, Capped

RulesType ==
  /\ rules \in Seq(RuleFiles) /\ rulesByType \in [RuleTypes -> Seq(RuleFiles)]
  /\ month \in FirstMonth .. LastMonth
  /\ matchCache \in [CacheKeys -> [asked : SUBSET FieldQuestions, answer : SUBSET RuleFiles]]
  /\ offered \subseteq [rule : RuleFiles, month : FirstMonth .. month]
  /\ changed \subseteq CacheKeys

(* What was loaded has been kept, or a rule that outranks it.              *)
Covered(o) == \E r \in ToSet(rules) :
  /\ r.id = o.rule.id
  /\ Precedence(r) >= Precedence(o.rule)
  /\ Precedence(r) = Precedence(o.rule) /\ o.month = month => Confidence(r) >= Confidence(o.rule)

OfferedAreCovered == \A o \in offered : Covered(o)

Indexes(index, list, t) ==
  /\ OneEach(index)
  /\ ToSet(index) = {r \in ToSet(list) : r.type = t}
  /\ \A r, s : Order(index, r, s) => Order(list, r, s)

TypesIndexed == \A t \in RuleTypes : Indexes(rulesByType[t], rules, t)

KeptInv == RulesType /\ OneEach(rules) /\ OfferedAreCovered /\ TypesIndexed

LEMMA NothingKept ==
  ASSUME NEW t PROVE OneEach(<< >>) /\ Indexes(<< >>, << >>, t) /\ << >> \in Seq(RuleFiles)
<1>1. Len(<< >>) = 0 /\ DOMAIN << >> = {} /\ << >> \in Seq(RuleFiles) /\ \A i : i \notin 1 .. 0
  OBVIOUS
<1>2. ToSet(<< >>) = {}
  BY <1>1 DEF ToSet
<1> QED BY <1>1, <1>2 DEF OneEach, Indexes, Order

LEMMA RulesInitInv == OverrideInit => KeptInv
<1> SUFFICES ASSUME OverrideInit PROVE KeptInv
  OBVIOUS
<1> USE DEF OverrideInit
<1>1. FirstMonth \in Nat /\ FirstMonth \in FirstMonth .. LastMonth
  BY RuleAssumptions
<1>2. RulesType
  BY <1>1, NothingKept DEF RulesType, Unasked
<1>3. OneEach(rules) /\ TypesIndexed
  BY NothingKept DEF TypesIndexed
<1>4. OfferedAreCovered
  BY DEF OfferedAreCovered
<1> QED BY <1>2, <1>3, <1>4 DEF KeptInv

(* An index stays one when a rule is put in the place of the one with its  *)
(* id, whatever their types.                                               *)
LEMMA PutKeepsIndex ==
  ASSUME NEW list \in Seq(RuleFiles), NEW index \in Seq(RuleFiles), OneEach(list),
         NEW t, Indexes(index, list, t), NEW x \in RuleFiles
  PROVE  LET others == Others(index, x.id)
             new == IF t = x.type THEN Append(others, x) ELSE others
         IN  new \in Seq(RuleFiles) /\ Indexes(new, Append(Others(list, x.id), x), t)
<1> DEFINE kept == Others(list, x.id)
           others == Others(index, x.id)
           all == Append(kept, x)
<1>1. /\ kept \in Seq(RuleFiles) /\ OneEach(kept)
      /\ ToSet(kept) = {r \in ToSet(list) : r.id # x.id}
      /\ \A r, s : Order(kept, r, s) <=> r.id # x.id /\ s.id # x.id /\ Order(list, r, s)
  BY OthersAre
<1>2. /\ others \in Seq(RuleFiles) /\ OneEach(others)
      /\ ToSet(others) = {r \in ToSet(index) : r.id # x.id}
      /\ \A r, s : Order(others, r, s) <=> r.id # x.id /\ s.id # x.id /\ Order(index, r, s)
  BY OthersAre DEF Indexes
<1>3. ToSet(index) = {r \in ToSet(list) : r.type = t} /\ \A r, s : Order(index, r, s) => Order(list, r, s)
  BY DEF Indexes
<1> HIDE DEF kept, others
<1>4. /\ all \in Seq(RuleFiles) /\ OneEach(all) /\ ToSet(all) = ToSet(kept) \cup {x}
      /\ \A r, s : Order(all, r, s) <=> Order(kept, r, s) \/ (r \in ToSet(kept) /\ s = x)
  BY <1>1, AddedIs
<1>5. \A r, s : Order(others, r, s) => Order(kept, r, s)
  BY <1>1, <1>2, <1>3
<1>6. ToSet(others) = {r \in ToSet(kept) : r.type = t}
  BY <1>1, <1>2, <1>3
<1>7. CASE t = x.type
  <2> DEFINE new == Append(others, x)
  <2>1. /\ new \in Seq(RuleFiles) /\ OneEach(new) /\ ToSet(new) = ToSet(others) \cup {x}
        /\ \A r, s : Order(new, r, s) <=> Order(others, r, s) \/ (r \in ToSet(others) /\ s = x)
    BY <1>2, AddedIs
  <2> HIDE DEF new, all
  <2>2. ToSet(new) = {r \in ToSet(all) : r.type = t}
    BY <1>4, <1>6, <1>7, <2>1
  <2>3. \A r, s : Order(new, r, s) => Order(all, r, s)
    BY <1>4, <1>5, <1>6, <2>1
  <2> QED BY <1>7, <2>1, <2>2, <2>3 DEF Indexes, new, all, kept, others
<1>8. CASE t # x.type
  <2> HIDE DEF all
  <2>1. ToSet(others) = {r \in ToSet(all) : r.type = t}
    BY <1>4, <1>6, <1>8
  <2>2. \A r, s : Order(others, r, s) => Order(all, r, s)
    BY <1>4, <1>5
  <2> QED BY <1>2, <1>8, <2>1, <2>2 DEF Indexes, all, kept, others
<1> QED BY <1>7, <1>8

-----------------------------------------------------------------------------
(* The loop over the rules that could match.                               *)

LEMMA LeastNumber ==
  ASSUME NEW T \in SUBSET Nat, T # {}
  PROVE  \E m \in T : \A n \in T : ~(n < m)
<1>1. \E m \in T : \A n \in T : <<n, m>> \notin OpToRel(<, Nat)
  BY NatLessThanWellFounded, WFMin
<1> QED BY <1>1 DEF OpToRel

(* What the loop has found in the first n rules: nothing, as none matches, *)
(* or the first of those that match with the most confidence.              *)
Leads(list, q, n, i) ==
  /\ Matched(list[i], q)
  /\ \A j \in 1 .. n : Matched(list[j], q) =>
       /\ MatchConfidence(list[i], q) >= MatchConfidence(list[j], q)
       /\ j < i => MatchConfidence(list[i], q) > MatchConfidence(list[j], q)

HasFound(list, q, n, S) ==
  \/ S = {} /\ \A j \in 1 .. n : ~Matched(list[j], q)
  \/ \E i \in 1 .. n : S = {list[i]} /\ Leads(list, q, n, i)

LEMMA BestIs ==
  ASSUME month \in FirstMonth .. LastMonth, NEW list \in Seq(RuleFiles), NEW q \in FieldQuestions
  PROVE  /\ BestOf(list, q) \in SUBSET RuleFiles
         /\ HasFound(list, q, Len(list), BestOf(list, q))
<1> DEFINE len == Len(list)
           Turn(S, n) == IF Matched(list[n], q) /\ \A r \in S : Better(list[n], r, q) THEN {list[n]} ELSE S
           Def(f) == [n \in 0 .. len |-> IF n = 0 THEN {} ELSE Turn(f[n - 1], n)]
           Runs(g, m) == g[0] = {} /\ \A n \in 1 .. m : g[n] = Turn(g[n - 1], n)
<1>1. len \in Nat /\ \A n \in 1 .. len : list[n] \in RuleFiles
  OBVIOUS
<1> HIDE DEF len, Turn
<1>2. \A m \in 0 .. len : \E g : Runs(g, m)
  <2> DEFINE T == {m \in 0 .. len : ~\E g : Runs(g, m)}
  <2> SUFFICES ASSUME T # {} PROVE FALSE
    OBVIOUS
  <2>1. T \in SUBSET Nat
    BY <1>1
  <2>2. PICK m \in T : \A n \in T : ~(n < m)
    BY <2>1, LeastNumber
  <2>3. \E g : Runs(g, 0)
    <3>1. Runs([n \in {0} |-> {}], 0)
      OBVIOUS
    <3> QED BY <3>1
  <2> HIDE DEF Runs
  <2>4. m \in Nat /\ m # 0 /\ m - 1 \in 0 .. len /\ m - 1 < m
    BY <1>1, <2>2, <2>3
  <2>5. PICK g : Runs(g, m - 1)
    BY <2>2, <2>4
  <2> DEFINE h == [n \in 0 .. m |-> IF n = m THEN Turn(g[m - 1], m) ELSE g[n]]
  <2> USE DEF Runs
  <2>6. \A n \in 1 .. m : h[n] = Turn(h[n - 1], n)
    <3> SUFFICES ASSUME NEW n \in 1 .. m PROVE h[n] = Turn(h[n - 1], n)
      OBVIOUS
    <3>1. h[n - 1] = g[n - 1]
      BY <2>4
    <3>2. CASE n = m
      BY <2>4, <3>1, <3>2
    <3>3. CASE n # m
      BY <2>4, <2>5, <3>1, <3>3
    <3> QED BY <3>2, <3>3
  <2>7. h[0] = {}
    BY <2>4, <2>5
  <2>8. Runs(h, m)
    BY <2>6, <2>7
  <2> HIDE DEF Runs, h
  <2> QED BY <2>2, <2>8
<1>3. PICK g : Runs(g, len)
  <2>1. len \in 0 .. len
    BY <1>1
  <2> HIDE DEF Runs
  <2> QED BY <1>2, <2>1
<1> DEFINE f == [n \in 0 .. len |-> g[n]]
<1>4. f = Def(f)
  <2>1. \A n \in 0 .. len : f[n] = g[n] /\ (n # 0 => n - 1 \in 0 .. len /\ n \in 1 .. len)
    BY <1>1
  <2>2. \A n \in 0 .. len : f[n] = IF n = 0 THEN {} ELSE Turn(f[n - 1], n)
    BY <1>1, <1>3, <2>1
  <2>3. f = [n \in 0 .. len |-> f[n]]
    OBVIOUS
  <2> HIDE DEF f
  <2> QED BY <2>2, <2>3
<1> DEFINE best == CHOOSE e : e = Def(e)
<1>5. best = Def(best)
  BY <1>4
<1>6. BestOf(list, q) = best[len]
  BY DEF BestOf, Turn, len
<1> HIDE DEF best
<1>7. best[0] = {} /\ \A n \in 1 .. len : best[n] = Turn(best[n - 1], n)
  BY <1>1, <1>5
<1> DEFINE Good(n) == best[n] \in SUBSET RuleFiles /\ HasFound(list, q, n, best[n])
<1>8. \A r \in RuleFiles : MatchConfidence(r, q) \in Nat
  BY MatchConfidenceType
<1>9. Good(0)
  BY <1>7 DEF HasFound
<1>10. ASSUME NEW n \in 1 .. len, Good(n - 1) PROVE Good(n)
  <2>1. /\ n \in Nat /\ list[n] \in RuleFiles /\ best[n] = Turn(best[n - 1], n)
        /\ \A j : j \in 1 .. n <=> j \in 1 .. n - 1 \/ j = n
        /\ \A j \in 1 .. n - 1 : j \in 1 .. len /\ j < n /\ ~(n < j)
        /\ n \in 1 .. n /\ ~(n < n)
    BY <1>1, <1>7
  <2>2. \A j \in 1 .. n : MatchConfidence(list[j], q) \in Nat
    BY <1>1, <1>8, <2>1
  <2>3. CASE best[n - 1] = {} /\ \A j \in 1 .. n - 1 : ~Matched(list[j], q)
    <3>1. CASE Matched(list[n], q)
      <4>1. best[n] = {list[n]}
        BY <2>1, <2>3, <3>1 DEF Turn
      <4>2. Leads(list, q, n, n)
        BY <2>1, <2>2, <2>3, <3>1 DEF Leads
      <4> QED BY <2>1, <4>1, <4>2 DEF HasFound
    <3>2. CASE ~Matched(list[n], q)
      BY <2>1, <2>3, <3>2 DEF Turn, HasFound
    <3> QED BY <3>1, <3>2
  <2>4. ASSUME NEW i \in 1 .. n - 1, best[n - 1] = {list[i]}, Leads(list, q, n - 1, i) PROVE Good(n)
    <3>1. i \in 1 .. n /\ list[i] \in RuleFiles
      BY <1>1, <2>1
    <3>2. CASE Matched(list[n], q) /\ Better(list[n], list[i], q)
      <4>1. best[n] = {list[n]}
        BY <2>1, <2>4, <3>2 DEF Turn
      <4>2. MatchConfidence(list[n], q) > MatchConfidence(list[i], q)
        BY <3>2 DEF Better
      <4>3. Leads(list, q, n, n)
        BY <2>1, <2>2, <2>4, <3>1, <3>2, <4>2 DEF Leads
      <4> QED BY <2>1, <4>1, <4>3 DEF HasFound
    <3>3. CASE ~(Matched(list[n], q) /\ Better(list[n], list[i], q))
      <4>1. best[n] = {list[i]}
        BY <2>1, <2>4, <3>3 DEF Turn
      <4>2. Matched(list[n], q) => MatchConfidence(list[i], q) >= MatchConfidence(list[n], q)
        BY <2>1, <2>2, <3>1, <3>3 DEF Better
      <4>3. Leads(list, q, n, i)
        BY <2>1, <2>2, <2>4, <3>1, <4>2 DEF Leads
      <4> QED BY <3>1, <4>1, <4>3 DEF HasFound
    <3> QED BY <3>2, <3>3
  <2> QED BY <1>10, <2>3, <2>4 DEF HasFound
<1> HIDE DEF Good
<1>11. \A n \in 0 .. len : Good(n)
  <2> DEFINE T == {m \in 0 .. len : ~Good(m)}
  <2> SUFFICES ASSUME T # {} PROVE FALSE
    OBVIOUS
  <2>1. T \in SUBSET Nat
    BY <1>1
  <2>2. PICK m \in T : \A n \in T : ~(n < m)
    BY <2>1, LeastNumber
  <2>3. m \in 1 .. len /\ m - 1 \in 0 .. len /\ m - 1 < m
    BY <1>1, <1>9, <2>2
  <2>4. Good(m - 1)
    BY <2>2, <2>3
  <2> QED BY <1>10, <2>2, <2>3, <2>4
<1>12. Good(len)
  BY <1>1, <1>11
<1> QED BY <1>6, <1>12 DEF Good, len

LEMMA PutKeeps ==
  ASSUME KeptInv, NEW x \in RuleFiles, Put(x), month' = month, matchCache' = matchCache,
         \A y \in ToSet(rules) : y.id = x.id => Outranks(x, y),
         offered' = offered \cup {[rule |-> x, month |-> month]}
  PROVE  KeptInv'
<1> DEFINE kept == Others(rules, x.id)
           all == Append(kept, x)
<1>1. rules \in Seq(RuleFiles) /\ OneEach(rules)
  BY DEF KeptInv, RulesType
<1>2. /\ kept \in Seq(RuleFiles) /\ OneEach(kept)
      /\ ToSet(kept) = {r \in ToSet(rules) : r.id # x.id}
  BY <1>1, OthersAre
<1> HIDE DEF kept
<1>3. /\ all \in Seq(RuleFiles) /\ OneEach(all) /\ ToSet(all) = ToSet(kept) \cup {x}
  BY <1>2, AddedIs
<1> HIDE DEF all
<1>4. rules' = all
  BY DEF Put, all, kept
<1>5. TypesIndexed' /\ rulesByType' \in [RuleTypes -> Seq(RuleFiles)]
  <2> DEFINE new(t) == IF t = x.type THEN Append(Others(rulesByType[t], x.id), x)
                       ELSE Others(rulesByType[t], x.id)
  <2>1. rulesByType' = [t \in RuleTypes |-> new(t)]
    BY DEF Put
  <2>2. \A t \in RuleTypes : rulesByType[t] \in Seq(RuleFiles) /\ Indexes(rulesByType[t], rules, t)
    BY DEF KeptInv, RulesType, TypesIndexed
  <2>3. \A t \in RuleTypes : new(t) \in Seq(RuleFiles) /\ Indexes(new(t), all, t)
    <3> SUFFICES ASSUME NEW t \in RuleTypes
                 PROVE  new(t) \in Seq(RuleFiles) /\ Indexes(new(t), all, t)
      OBVIOUS
    <3> HIDE DEF Indexes
    <3> QED BY <1>1, <2>2, PutKeepsIndex DEF all, kept
  <2> HIDE DEF new
  <2> QED BY <1>4, <2>1, <2>3 DEF TypesIndexed
<1>6. RulesType'
  <2>1. x \in RuleFiles /\ month \in FirstMonth .. month
    BY RuleAssumptions DEF KeptInv, RulesType
  <2>2. (offered \subseteq [rule : RuleFiles, month : FirstMonth .. month])'
    BY <2>1 DEF KeptInv, RulesType
  <2> QED BY <1>3, <1>4, <1>5, <2>2 DEF KeptInv, RulesType, Put
<1>7. OfferedAreCovered'
  <2> SUFFICES ASSUME NEW o \in offered' PROVE Covered(o)'
    BY DEF OfferedAreCovered
  <2>1. \A r : Confidence(r)' = Confidence(r)
    BY ConfidenceStays
  <2>2. month \in FirstMonth .. LastMonth /\ ToSet(rules) \subseteq RuleFiles
    BY <1>1 DEF KeptInv, RulesType, ToSet
  <2>3. \A r \in RuleFiles : Confidence(r) \in Nat /\ Precedence(r) \in Nat
    BY <2>2, ConfidenceType, RulesAre
  <2>4. x \in ToSet(all)
    BY <1>3
  <2>5. CASE o = [rule |-> x, month |-> month]
    BY <1>4, <2>1, <2>3, <2>4, <2>5 DEF Covered
  <2>6. CASE o \in offered
    <3>1. o.rule \in RuleFiles
      BY <2>6 DEF KeptInv, RulesType
    <3>2. PICK r \in ToSet(rules) :
            /\ r.id = o.rule.id
            /\ Precedence(r) >= Precedence(o.rule)
            /\ Precedence(r) = Precedence(o.rule) /\ o.month = month => Confidence(r) >= Confidence(o.rule)
      BY <2>6 DEF KeptInv, OfferedAreCovered, Covered
    <3>3. CASE r.id # x.id
      <4>1. r \in ToSet(all)
        BY <1>2, <1>3, <3>3
      <4> QED BY <1>4, <2>1, <3>2, <4>1 DEF Covered
    <3>4. CASE r.id = x.id
      <4>1. \/ Precedence(x) > Precedence(r)
            \/ Precedence(x) = Precedence(r) /\ Confidence(x) > Confidence(r)
        BY <3>4 DEF Outranks
      <4>2. /\ Precedence(x) >= Precedence(o.rule)
            /\ Precedence(x) = Precedence(o.rule) /\ o.month = month => Confidence(x) >= Confidence(o.rule)
        BY <2>2, <2>3, <3>1, <3>2, <4>1
      <4> QED BY <1>4, <2>1, <2>4, <3>2, <3>4, <4>2 DEF Covered
    <3> QED BY <3>3, <3>4
  <2> QED BY <2>5, <2>6
<1> QED BY <1>3, <1>4, <1>5, <1>6, <1>7 DEF KeptInv

LEMMA RefusedKeeps ==
  ASSUME KeptInv, NEW x \in RuleFiles, NEW y \in ToSet(rules), y.id = x.id, ~Outranks(x, y),
         UNCHANGED <<rules, rulesByType, changed, month, matchCache>>,
         offered' = offered \cup {[rule |-> x, month |-> month]}
  PROVE  KeptInv'
<1>1. /\ rules' = rules /\ rulesByType' = rulesByType /\ month' = month
      /\ changed' = changed /\ matchCache' = matchCache
  OBVIOUS
<1>2. \A r : Confidence(r)' = Confidence(r)
  BY <1>1, ConfidenceStays
<1>3. month \in FirstMonth .. LastMonth /\ month \in FirstMonth .. month /\ y \in RuleFiles
  BY RuleAssumptions DEF KeptInv, RulesType, ToSet
<1>4. \A r \in RuleFiles : Confidence(r) \in Nat /\ Precedence(r) \in Nat
  BY <1>3, ConfidenceType, RulesAre
<1>5. RulesType'
  BY <1>1, <1>3 DEF KeptInv, RulesType
<1>6. OneEach(rules)' /\ TypesIndexed'
  BY <1>1 DEF KeptInv, TypesIndexed
<1>7. OfferedAreCovered'
  <2> SUFFICES ASSUME NEW o \in offered' PROVE Covered(o)'
    BY DEF OfferedAreCovered
  <2>1. CASE o \in offered
    BY <1>1, <1>2, <2>1 DEF KeptInv, OfferedAreCovered, Covered
  <2>2. CASE o = [rule |-> x, month |-> month]
    <3>1. /\ Precedence(y) >= Precedence(x)
          /\ Precedence(y) = Precedence(x) => Confidence(y) >= Confidence(x)
      BY <1>3, <1>4 DEF Outranks
    <3> QED BY <1>1, <1>2, <2>2, <3>1 DEF Covered
  <2> QED BY <2>1, <2>2
<1> QED BY <1>5, <1>6, <1>7 DEF KeptInv

LEMMA KeptStepInv == ASSUME KeptInv, [OverrideNext]_overrideVars PROVE KeptInv'
<1>1. ASSUME NEW x \in RuleFiles, AddRule(x) PROVE KeptInv'
  <2>1. CASE (\A y \in {y \in ToSet(rules) : y.id = x.id} : Outranks(x, y)) /\ Put(x)
    BY <1>1, <2>1, PutKeeps DEF AddRule
  <2>2. CASE /\ \E y \in {y \in ToSet(rules) : y.id = x.id} : ~Outranks(x, y)
             /\ UNCHANGED <<rules, rulesByType, changed>>
    BY <1>1, <2>2, RefusedKeeps DEF AddRule
  <2> QED BY <1>1, <2>1, <2>2 DEF AddRule
<1>2. ASSUME UNCHANGED <<rules, rulesByType, month, offered>>,
             (matchCache \in [CacheKeys -> [asked : SUBSET FieldQuestions, answer : SUBSET RuleFiles]])',
             (changed \subseteq CacheKeys)'
      PROVE  KeptInv'
  <2>1. rules' = rules /\ rulesByType' = rulesByType /\ month' = month /\ offered' = offered
    BY <1>2
  <2>2. \A r : Confidence(r)' = Confidence(r)
    BY <2>1, ConfidenceStays
  <2>3. RulesType'
    BY <1>2, <2>1 DEF KeptInv, RulesType
  <2>4. OneEach(rules)' /\ TypesIndexed' /\ OfferedAreCovered'
    BY <2>1, <2>2 DEF KeptInv, TypesIndexed, OfferedAreCovered, Covered
  <2> QED BY <2>3, <2>4 DEF KeptInv
<1>3. ASSUME NEW q \in FieldQuestions, Match(q) PROVE KeptInv'
  <2>1. q.key \in CacheKeys /\ BestMatch(q) \in SUBSET RuleFiles
    <3>1. "pii_pattern" \in RuleTypes
      BY DEF RuleTypes
    <3> QED BY <3>1, BestIs DEF KeptInv, RulesType, BestMatch, CacheKeys
  <2> DEFINE entry == [asked |-> {q}, answer |-> BestMatch(q)]
  <2>2. entry \in [asked : SUBSET FieldQuestions, answer : SUBSET RuleFiles]
    BY <2>1
  <2>3. matchCache' = [matchCache EXCEPT ![q.key] = entry]
    BY <1>3 DEF Match
  <2> HIDE DEF entry
  <2>4. (matchCache \in [CacheKeys -> [asked : SUBSET FieldQuestions, answer : SUBSET RuleFiles]])'
    BY <2>1, <2>2, <2>3 DEF KeptInv, RulesType
  <2>5. (changed \subseteq CacheKeys)'
    BY <1>3 DEF Match, KeptInv, RulesType
  <2> QED BY <1>2, <1>3, <2>4, <2>5 DEF Match
<1>4. ASSUME ClearRules PROVE KeptInv'
  <2>1. RulesType'
    BY <1>4, NothingKept DEF ClearRules, KeptInv, RulesType
  <2>2. OneEach(rules)' /\ TypesIndexed' /\ OfferedAreCovered'
    BY <1>4, NothingKept DEF ClearRules, TypesIndexed, OfferedAreCovered
  <2> QED BY <2>1, <2>2 DEF KeptInv
<1>5. ASSUME MonthPasses PROVE KeptInv'
  <2>1. /\ rules' = rules /\ rulesByType' = rulesByType /\ offered' = offered
        /\ matchCache' = matchCache /\ changed' = CacheKeys /\ month' = month + 1 /\ month < LastMonth
    BY <1>5 DEF MonthPasses
  <2>2. month \in Nat /\ FirstMonth \in Nat /\ LastMonth \in Nat /\ FirstMonth <= month
    BY RuleAssumptions DEF KeptInv, RulesType
  <2>3. month' \in FirstMonth .. LastMonth /\ FirstMonth .. month \subseteq FirstMonth .. month'
    BY <2>1, <2>2
  <2>4. RulesType'
    BY <2>1, <2>3 DEF KeptInv, RulesType
  <2>5. OneEach(rules)' /\ TypesIndexed'
    BY <2>1 DEF KeptInv, TypesIndexed
  <2>6. OfferedAreCovered'
    <3>1. \A o \in offered : o.month # month'
      BY <2>1, <2>2 DEF KeptInv, RulesType
    <3> QED BY <2>1, <3>1 DEF KeptInv, OfferedAreCovered, Covered
  <2> QED BY <2>4, <2>5, <2>6 DEF KeptInv
<1>6. ASSUME ClearMatches PROVE KeptInv'
  BY <1>2, <1>6 DEF ClearMatches, Unasked, KeptInv, RulesType
<1>7. ASSUME UNCHANGED overrideVars PROVE KeptInv'
  BY <1>2, <1>7 DEF overrideVars, KeptInv, RulesType
<1> QED BY <1>1, <1>3, <1>4, <1>5, <1>6, <1>7 DEF OverrideNext

THEOREM RulesInvariant == OverrideSpec => []KeptInv
<1>1. OverrideInit => KeptInv
  BY RulesInitInv
<1>2. KeptInv /\ [OverrideNext]_overrideVars => KeptInv'
  BY KeptStepInv
<1> QED BY <1>1, <1>2, PTL DEF OverrideSpec

LEMMA RulesAreTyped == KeptInv => OverrideTypeOK
<1> SUFFICES ASSUME KeptInv PROVE OverrideTypeOK
  OBVIOUS
<1>1. RulesType /\ FirstMonth \in Nat /\ LastMonth \in Nat
  BY RuleAssumptions DEF KeptInv
<1>2. ToSet(rules) \subseteq RuleFiles
  BY <1>1 DEF RulesType, ToSet
<1>3. ASSUME NEW t \in RuleTypes PROVE ToSet(rulesByType[t]) \subseteq RuleFiles
  <2>1. rulesByType[t] \in Seq(RuleFiles)
    BY <1>1 DEF RulesType
  <2> QED BY <2>1 DEF ToSet
<1>4. FirstMonth .. month \subseteq FirstMonth .. LastMonth
  BY <1>1 DEF RulesType
<1> QED BY <1>1, <1>2, <1>3, <1>4 DEF RulesType, OverrideTypeOK

(* In whatever order rules are loaded, retyped and aged, of each id one    *)
(* that no other outranks is kept, and the types index what is kept        *)
(* (loader.js: addRule, removeRule).                                       *)
THEOREM LoadOrderDoesNotMatter == OverrideSpec => []LoadOrderIsIrrelevant
<1>1. KeptInv => LoadOrderIsIrrelevant
  <2> SUFFICES ASSUME KeptInv PROVE LoadOrderIsIrrelevant
    OBVIOUS
  <2>1. /\ DOMAIN rules = 1 .. Len(rules)
        /\ \A t \in RuleTypes : DOMAIN rulesByType[t] = 1 .. Len(rulesByType[t])
    BY DEF KeptInv, RulesType
  <2>2. \A o \in offered : \E r \in ToSet(rules) :
          /\ r.id = o.rule.id
          /\ Precedence(r) >= Precedence(o.rule)
          /\ Precedence(r) = Precedence(o.rule) /\ o.month = month => Confidence(r) >= Confidence(o.rule)
    BY DEF KeptInv, OfferedAreCovered, Covered
  <2>3. \A i, j \in DOMAIN rules : rules[i].id = rules[j].id => i = j
    BY <2>1 DEF KeptInv, OneEach
  <2>4. \A r, s : AddedBefore(r, s) <=> Order(rules, r, s)
    BY <2>1 DEF AddedBefore, Order
  <2>5. ASSUME NEW t \in RuleTypes
        PROVE  /\ ToSet(rulesByType[t]) = {r \in ToSet(rules) : r.type = t}
               /\ \A i, j \in DOMAIN rulesByType[t] :
                    i < j => AddedBefore(rulesByType[t][i], rulesByType[t][j])
    <3>1. Indexes(rulesByType[t], rules, t)
      BY DEF KeptInv, TypesIndexed
    <3>2. \A i, j \in DOMAIN rulesByType[t] :
            i < j => Order(rulesByType[t], rulesByType[t][i], rulesByType[t][j])
      BY <2>1 DEF Order
    <3> HIDE DEF Order
    <3> QED BY <2>4, <3>1, <3>2 DEF Indexes
  <2> QED BY <2>2, <2>3, <2>5 DEF LoadOrderIsIrrelevant
<1> QED BY <1>1, RulesInvariant, PTL

-----------------------------------------------------------------------------
(* The answers of the matcher.                                             *)

Candidates(q) == {i \in DOMAIN rules : rules[i].type = "pii_pattern" /\ Matched(rules[i], q)}
Best(q) == {i \in Candidates(q) : \A j \in Candidates(q) :
              \/ MatchConfidence(rules[i], q) > MatchConfidence(rules[j], q)
              \/ MatchConfidence(rules[i], q) = MatchConfidence(rules[j], q) /\ i <= j}
AnswerIs(q, a) == a = {rules[i] : i \in Best(q)}

MatchesAreBest ==
  \A k \in CacheKeys \ changed, q \in FieldQuestions, a \in SUBSET RuleFiles :
    q \in matchCache[k].asked /\ a = matchCache[k].answer => AnswerIs(q, a)

(* The loop goes through the index of one type; that is enough, as it is   *)
(* in the order of the rules.                                              *)
LEMMA BestMatchIs ==
  ASSUME KeptInv, NEW q \in FieldQuestions
  PROVE  AnswerIs(q, BestMatch(q))
<1> DEFINE list == rulesByType["pii_pattern"]
           n == Len(list)
           m == Len(rules)
           mc(i) == MatchConfidence(rules[i], q)
<1>1. /\ list \in Seq(RuleFiles) /\ Indexes(list, rules, "pii_pattern")
      /\ rules \in Seq(RuleFiles) /\ OneEach(rules) /\ month \in FirstMonth .. LastMonth
  BY DEF KeptInv, RulesType, TypesIndexed, RuleTypes
<1>2. /\ n \in Nat /\ m \in Nat /\ DOMAIN rules = 1 .. m
      /\ \A i \in 1 .. m : rules[i] \in RuleFiles
  BY <1>1
<1>3. \A r \in ToSet(rules) : r.type = "pii_pattern" <=> \E i \in 1 .. n : list[i] = r
  BY <1>1 DEF Indexes, ToSet
<1>4. \A i \in 1 .. n : \E k \in 1 .. m : rules[k] = list[i] /\ list[i].type = "pii_pattern"
  <2>1. \A i \in 1 .. n : list[i] \in ToSet(list)
    BY <1>1 DEF ToSet
  <2>2. ToSet(list) = {r \in ToSet(rules) : r.type = "pii_pattern"}
    BY <1>1 DEF Indexes
  <2>3. \A r \in ToSet(rules) : \E k \in 1 .. m : rules[k] = r
    BY <1>2 DEF ToSet
  <2> HIDE DEF list, n
  <2> QED BY <2>1, <2>2, <2>3
<1>5. \A i \in 1 .. m : rules[i] \in ToSet(rules)
  BY <1>2 DEF ToSet
<1>6. \A i, j \in 1 .. n : i < j => \E k, l \in 1 .. m : k < l /\ rules[k] = list[i] /\ rules[l] = list[j]
  <2> SUFFICES ASSUME NEW i \in 1 .. n, NEW j \in 1 .. n, i < j
               PROVE  \E k, l \in 1 .. m : k < l /\ rules[k] = list[i] /\ rules[l] = list[j]
    OBVIOUS
  <2>1. Order(list, list[i], list[j])
    BY DEF Order
  <2>2. Order(rules, list[i], list[j])
    BY <1>1, <2>1 DEF Indexes
  <2> QED BY <2>2 DEF Order
<1>7. \A i \in 1 .. m : mc(i) \in Nat
  BY <1>1, <1>2, MatchConfidenceType
<1>8. \A i, j \in 1 .. m : rules[i] = rules[j] => i = j
  BY <1>1 DEF OneEach
<1>9. HasFound(list, q, n, BestMatch(q))
  BY <1>1, BestIs DEF BestMatch
<1> HIDE DEF list, n, m
<1>10. \A i \in 1 .. m : i \in Candidates(q) <=> Matched(rules[i], q) /\ \E j \in 1 .. n : list[j] = rules[i]
  BY <1>2, <1>3, <1>5 DEF Candidates
<1>11. Candidates(q) \subseteq 1 .. m
  BY <1>2 DEF Candidates
<1>12. CASE BestMatch(q) = {} /\ \A j \in 1 .. n : ~Matched(list[j], q)
  <2>1. Candidates(q) = {}
    BY <1>10, <1>11, <1>12
  <2> QED BY <1>12, <2>1 DEF AnswerIs, Best
<1>13. ASSUME NEW i \in 1 .. n, BestMatch(q) = {list[i]}, Leads(list, q, n, i)
       PROVE  AnswerIs(q, BestMatch(q))
  <2>1. PICK k \in 1 .. m : rules[k] = list[i]
    BY <1>4
  <2>2. k \in Candidates(q)
    BY <1>10, <1>13, <2>1 DEF Leads
  <2>3. ASSUME NEW j \in Candidates(q)
        PROVE  mc(k) > mc(j) \/ (mc(k) = mc(j) /\ k <= j)
    <3>1. j \in 1 .. m /\ mc(j) \in Nat /\ mc(k) \in Nat
      BY <1>7, <1>11, <2>3
    <3>2. PICK h \in 1 .. n : list[h] = rules[j] /\ Matched(list[h], q)
      BY <1>10, <2>3, <3>1
    <3>3. mc(k) >= mc(j) /\ (h < i => mc(k) > mc(j))
      BY <1>13, <2>1, <3>2 DEF Leads
    <3>4. CASE h < i
      BY <3>3, <3>4
    <3>5. CASE h = i
      <4>1. k = j
        BY <1>8, <2>1, <3>1, <3>2, <3>5
      <4> QED BY <3>1, <4>1
    <3>6. CASE i < h
      <4>1. k < j
        BY <1>6, <1>8, <2>1, <3>1, <3>2, <3>6
      <4> QED BY <3>1, <3>3, <4>1
    <3>7. h < i \/ h = i \/ i < h
      BY <1>2
    <3> QED BY <3>4, <3>5, <3>6, <3>7
  <2>4. k \in Best(q)
    BY <2>2, <2>3 DEF Best
  <2>5. ASSUME NEW j \in Best(q) PROVE j = k
    <3>1. j \in Candidates(q) /\ (mc(j) > mc(k) \/ (mc(j) = mc(k) /\ j <= k))
      BY <2>2, <2>5 DEF Best
    <3>2. j \in 1 .. m /\ mc(j) \in Nat /\ mc(k) \in Nat
      BY <1>7, <1>11, <3>1
    <3>3. mc(k) > mc(j) \/ (mc(k) = mc(j) /\ k <= j)
      BY <2>3, <3>1
    <3> HIDE DEF mc
    <3> QED BY <3>1, <3>2, <3>3
  <2>6. {rules[j] : j \in Best(q)} = {list[i]}
    BY <2>1, <2>4, <2>5
  <2> QED BY <1>13, <2>6 DEF AnswerIs
<1> QED BY <1>9, <1>12, <1>13 DEF HasFound

LEMMA BestStays ==
  ASSUME rules' = rules, month' = month, NEW q, NEW a
  PROVE  AnswerIs(q, a)' <=> AnswerIs(q, a)
<1>1. \A r : Confidence(r)' = Confidence(r)
  BY ConfidenceStays
<1>2. \A r : MatchConfidence(r, q)' = MatchConfidence(r, q)
  BY <1>1 DEF MatchConfidence
<1>3. Candidates(q)' = Candidates(q)
  BY DEF Candidates
<1> QED BY <1>2, <1>3 DEF AnswerIs, Best

LEMMA MatchesStepInv ==
  ASSUME KeptInv, MatchesAreBest, [OverrideNext]_overrideVars
  PROVE  MatchesAreBest'
<1> SUFFICES ASSUME NEW k \in (CacheKeys \ changed)', NEW q \in FieldQuestions,
                    NEW a \in SUBSET RuleFiles,
                    q \in matchCache'[k].asked, a = matchCache'[k].answer
             PROVE  AnswerIs(q, a)'
  BY DEF MatchesAreBest
<1>1. ASSUME changed' = changed, rules' = rules, month' = month,
             matchCache'[k] = matchCache[k]
      PROVE  AnswerIs(q, a)'
  BY <1>1, BestStays DEF MatchesAreBest
<1>2. ASSUME NEW r \in RuleFiles, AddRule(r) PROVE AnswerIs(q, a)'
  BY <1>1, <1>2 DEF AddRule, Put
<1>3. ASSUME NEW p \in FieldQuestions, Match(p) PROVE AnswerIs(q, a)'
  <2>1. /\ rules' = rules /\ month' = month /\ changed' = changed \ {p.key} /\ k \in CacheKeys
        /\ matchCache' = [matchCache EXCEPT ![p.key] = [asked |-> {p}, answer |-> BestMatch(p)]]
    BY <1>3 DEF Match, CacheKeys
  <2>2. DOMAIN matchCache = CacheKeys
    BY DEF KeptInv, RulesType
  <2>3. CASE k = p.key
    <3>1. matchCache'[k] = [asked |-> {p}, answer |-> BestMatch(p)]
      BY <2>1, <2>2, <2>3
    <3>2. q = p /\ a = BestMatch(p)
      BY <3>1
    <3> QED BY <2>1, <3>2, BestMatchIs, BestStays
  <2>4. CASE k # p.key
    <3>1. matchCache'[k] = matchCache[k] /\ k \in CacheKeys \ changed
      BY <2>1, <2>2, <2>4
    <3> QED BY <2>1, <3>1, BestStays DEF MatchesAreBest
  <2> QED BY <2>3, <2>4
<1>4. ASSUME ClearRules \/ MonthPasses PROVE AnswerIs(q, a)'
  BY <1>4 DEF ClearRules, MonthPasses, CacheKeys
<1>5. ASSUME ClearMatches PROVE AnswerIs(q, a)'
  BY <1>5 DEF ClearMatches, Unasked, CacheKeys
<1>6. ASSUME UNCHANGED overrideVars PROVE AnswerIs(q, a)'
  BY <1>1, <1>6 DEF overrideVars
<1> QED BY <1>2, <1>3, <1>4, <1>5, <1>6 DEF OverrideNext

(* Whatever was loaded, retyped, aged and asked before: a cached match is  *)
(* the best of the rules that are kept, as long as neither they nor the    *)
(* month have changed (matcher.js: matchPIIPattern).                       *)
THEOREM CachedMatchesAreBest == OverrideSpec => []BestMatchAnswers
<1>1. OverrideInit => KeptInv /\ MatchesAreBest
  BY RulesInitInv DEF OverrideInit, MatchesAreBest, Unasked
<1>2. KeptInv /\ MatchesAreBest /\ [OverrideNext]_overrideVars => (KeptInv /\ MatchesAreBest)'
  BY KeptStepInv, MatchesStepInv
<1>3. KeptInv /\ MatchesAreBest => BestMatchAnswers
  <2> SUFFICES ASSUME KeptInv, MatchesAreBest, NEW k \in CacheKeys \ changed, NEW q \in matchCache[k].asked
               PROVE  AnswerIs(q, matchCache[k].answer)
    BY DEF BestMatchAnswers, AnswerIs, Best, Candidates
  <2>1. matchCache[k].asked \subseteq FieldQuestions /\ matchCache[k].answer \in SUBSET RuleFiles
    BY DEF KeptInv, RulesType
  <2> QED BY <2>1 DEF MatchesAreBest
<1> QED BY <1>1, <1>2, <1>3, PTL DEF OverrideSpec
=============================================================================
