----------------------------- MODULE CatalogIndex -----------------------------
(***************************************************************************)
(* catalog/index.js and catalog/query.js: the artifacts of a catalog, the  *)
(* indexes that queries go through, and the lists of dependents.  A label  *)
(* stands for a value of any of the indexes by namespace, tag, owner, type *)
(* and classification, which are all kept in the same way.                 *)
(***************************************************************************)
EXTENDS Naturals, FiniteSets

CONSTANTS
  CatalogUrns, Labels,
  Entries         (* artifacts: their labels, whether they hold personal   *)
                  (* data, and the urns they depend on                     *)

ASSUME CatalogAssumptions ==
  Entries \subseteq [labels : SUBSET Labels, pii : BOOLEAN, deps : SUBSET CatalogUrns]

VARIABLES
  artifacts,      (* a function on the urns in the catalog                 *)
  byLabel,        (* byLabel[l]: urns                                      *)
  byPII,
  dependents,     (* dependents[u]: urns                                   *)
  overwritten,    (* the urns that were added while they were there, since *)
                  (* the catalog was cleared                               *)
  withdrawn       (* the urns removed since then                           *)

catalogVars == <<artifacts, byLabel, byPII, dependents, overwritten, withdrawn>>

Catalogs == UNION {[S -> Entries] : S \in SUBSET CatalogUrns}
Present == DOMAIN artifacts

CatalogInit ==
  /\ artifacts = [u \in {} |-> {}]
  /\ byLabel = [l \in Labels |-> {}]
  /\ byPII = {}
  /\ dependents = [u \in CatalogUrns |-> {}]
  /\ overwritten = {} /\ withdrawn = {}

-----------------------------------------------------------------------------
(* add.  What an artifact that is replaced had in the indexes stays there. *)
Add(u, e) ==
  /\ artifacts' = [v \in Present \cup {u} |-> IF v = u THEN e ELSE artifacts[v]]
  /\ byLabel' = [l \in Labels |-> IF l \in e.labels THEN byLabel[l] \cup {u} ELSE byLabel[l]]
  /\ byPII' = IF e.pii THEN byPII \cup {u} ELSE byPII
  /\ dependents' = [v \in CatalogUrns |->
                      IF v \in e.deps THEN dependents[v] \cup {u} ELSE dependents[v]]
  /\ overwritten' = IF u \in Present THEN overwritten \cup {u} ELSE overwritten
  /\ UNCHANGED withdrawn

(* Mutants: the personal-data index, or the lists of dependents, are not   *)
(* told.                                                                   *)
RemoveArtifactKeepingPII(u) ==
  LET e == artifacts[u] IN
  /\ u \in Present
  /\ artifacts' = [v \in Present \ {u} |-> artifacts[v]]
  /\ byLabel' = [l \in Labels |-> IF l \in e.labels THEN byLabel[l] \ {u} ELSE byLabel[l]]
  /\ dependents' = [v \in CatalogUrns |->
       IF v = u THEN {} ELSE {w \in dependents[v] : w = u => v \notin e.deps}]
  /\ withdrawn' = withdrawn \cup {u}
  /\ UNCHANGED <<overwritten, byPII>>
RemoveArtifactKeepingEdges(u) ==
  LET e == artifacts[u] IN
  /\ u \in Present
  /\ artifacts' = [v \in Present \ {u} |-> artifacts[v]]
  /\ byLabel' = [l \in Labels |-> IF l \in e.labels THEN byLabel[l] \ {u} ELSE byLabel[l]]
  /\ byPII' = byPII \ {u}
  /\ dependents' = [dependents EXCEPT ![u] = {}]
  /\ withdrawn' = withdrawn \cup {u}
  /\ UNCHANGED overwritten

(* remove.  The urn's own list of dependents goes, whoever depends on it.  *)
RemoveArtifact(u) ==
  LET e == artifacts[u] IN
  /\ u \in Present
  /\ artifacts' = [v \in Present \ {u} |-> artifacts[v]]
  /\ byLabel' = [l \in Labels |-> IF l \in e.labels THEN byLabel[l] \ {u} ELSE byLabel[l]]
  /\ byPII' = byPII \ {u}
  /\ dependents' = [v \in CatalogUrns |->
       IF v = u THEN {} ELSE {w \in dependents[v] : w = u => v \notin e.deps}]
  /\ withdrawn' = withdrawn \cup {u}
  /\ UNCHANGED overwritten

(* load and fromJSON clear the catalog and add what was saved; clear saves *)
(* nothing.                                                                *)
Load(saved) ==
  /\ artifacts' = saved
  /\ byLabel' = [l \in Labels |-> {u \in DOMAIN saved : l \in saved[u].labels}]
  /\ byPII' = {u \in DOMAIN saved : saved[u].pii}
  /\ dependents' = [v \in CatalogUrns |-> {u \in DOMAIN saved : v \in saved[u].deps}]
  /\ overwritten' = {} /\ withdrawn' = {}

CatalogNext ==
  \/ \E u \in CatalogUrns : RemoveArtifact(u) \/ \E e \in Entries : Add(u, e)
  \/ \E saved \in Catalogs : Load(saved)

CatalogSpec == CatalogInit /\ [][CatalogNext]_catalogVars

-----------------------------------------------------------------------------
(* query.js: the urns that an index gives, and of those the artifacts.     *)

QueryByLabel(l) == byLabel[l] \cap Present
QueryByPII(has) == IF has THEN byPII \cap Present ELSE Present \ byPII

-----------------------------------------------------------------------------
(* Properties.                                                             *)

(* Every variable holds values of the shape the code gives it.             *)
CatalogTypeOK ==
  /\ artifacts \in Catalogs
  /\ byLabel \in [Labels -> SUBSET CatalogUrns] /\ byPII \subseteq CatalogUrns
  /\ dependents \in [CatalogUrns -> SUBSET CatalogUrns]
  /\ overwritten \subseteq CatalogUrns /\ withdrawn \subseteq CatalogUrns

(* A query finds every artifact it is for, and no artifact with personal   *)
(* data passes for one without; an answer is too large, or misses one      *)
(* without personal data, only because of artifacts that were overwritten, *)
(* however many removals and additions came between.                       *)
QueriesFindAll ==
  \A u \in Present :
    /\ \A l \in Labels : IF u \in overwritten
         THEN l \in artifacts[u].labels => u \in QueryByLabel(l)
         ELSE l \in artifacts[u].labels <=> u \in QueryByLabel(l)
    /\ artifacts[u].pii => u \in QueryByPII(TRUE) \ QueryByPII(FALSE)
    /\ ~artifacts[u].pii /\ u \notin overwritten => u \in QueryByPII(FALSE) \ QueryByPII(TRUE)

(* The list of an urn's dependents, from which consumers and impact are    *)
(* found, has every artifact that depends on it unless the urn was removed *)
(* meanwhile, and no other unless that was overwritten.                    *)
DependentsAreKnown ==
  \A u \in CatalogUrns :
    LET needing == {v \in Present : u \in artifacts[v].deps} IN
    /\ u \notin withdrawn => needing \subseteq dependents[u]
    /\ dependents[u] \ overwritten \subseteq needing
=============================================================================
