--------------------------- MODULE ComponentsProofs ---------------------------
(***************************************************************************)
(* The components that are checked together: a behaviour of all of them is *)
(* one of each, so what is proved of a component by itself holds in it.    *)
(* With the request batcher, for any requests, keys and batch size.        *)
(***************************************************************************)
EXTENDS MCComponents, ServiceProofs, WorkflowProofs, CatalogProofs

-----------------------------------------------------------------------------
(* The request batcher.                                                    *)

Handled(q) == q.pc \in {"runs", "ran"}
BatchRequest == [pc : {"idle", "waits", "runs", "ran", "replaced"}, key : Keys]

(* Fewer requests wait than make a batch, and a timer runs for them; the   *)
(* batches hold the requests with a handler, each in one of them.          *)
WaitingIsTimed == At("waits") # {} => batchTimer
FewWait == Cardinality(At("waits")) < BatchSize
InOneBatch ==
  /\ \A r \in Requests : Handled(request[r]) <=> \E B \in batches : r \in B
  /\ \A B, C \in batches : B \cap C # {} => B = C
  /\ {} \notin batches

BatcherInv == BatcherTypeOK /\ WaitingIsTimed /\ FewWait /\ InOneBatch

LEMMA MovedIs ==
  ASSUME NEW held \in [Requests -> BatchRequest], NEW R \in SUBSET Requests,
         NEW pc \in {"idle", "waits", "runs", "ran", "replaced"}
  PROVE  /\ Moved(held, R, pc) \in [Requests -> BatchRequest]
         /\ \A r \in Requests : /\ r \in R => Moved(held, R, pc)[r].pc = pc
                                /\ r \notin R => Moved(held, R, pc)[r] = held[r]
<1>1. \A r \in Requests : [held[r] EXCEPT !.pc = pc] \in BatchRequest /\ [held[r] EXCEPT !.pc = pc].pc = pc
  BY DEF BatchRequest
<1> QED BY <1>1 DEF Moved

(* When requests leave the queue, the rest is no larger.                   *)
LEMMA FewerWait ==
  ASSUME FewWait, At("waits")' \subseteq At("waits")
  PROVE  FewWait'
<1>1. IsFiniteSet(At("waits"))
  BY BatcherAssumptions, FS_Subset DEF At
<1>2. Cardinality(At("waits")') <= Cardinality(At("waits")) /\ IsFiniteSet(At("waits")')
  BY <1>1, FS_Subset
<1>3. Cardinality(At("waits")) \in Nat /\ Cardinality(At("waits")') \in Nat
  BY <1>1, <1>2, FS_CardinalityType
<1> QED BY <1>2, <1>3, BatcherAssumptions DEF FewWait

LEMMA NoneWait == ASSUME At("waits")' = {} PROVE FewWait' /\ WaitingIsTimed'
BY FS_EmptySet, BatcherAssumptions DEF FewWait, WaitingIsTimed

(* A batch that is sent off, or rejected at once, keeps the batches apart: *)
(* none of its requests had a handler.                                     *)
LEMMA ProcessBatchKeeps ==
  ASSUME BatcherInv, NEW held \in [Requests -> BatchRequest], ProcessBatch(held),
         \A r \in Requests : Handled(held[r]) <=> Handled(request[r])
  PROVE  BatcherInv'
<1> DEFINE R == {r \in Requests : held[r].pc = "waits"}
<1>1. R \in SUBSET Requests /\ \A r \in R : ~Handled(request[r])
  BY DEF Handled
<1>2. ASSUME request' = Moved(held, R, "runs"), batches' = batches \cup ({R} \ {{}})
      PROVE  BatcherInv'
  <2>1. /\ request' \in [Requests -> BatchRequest]
        /\ \A r \in Requests : (r \in R => request'[r].pc = "runs") /\ (r \notin R => request'[r] = held[r])
    BY <1>1, <1>2, MovedIs
  <2>2. \A r \in Requests : request'[r].pc # "waits"
    BY <2>1
  <2>3. At("waits")' = {}
    BY <2>2 DEF At
  <2>4. \A r \in Requests : Handled(request'[r]) <=> r \in R \/ Handled(request[r])
    BY <2>1 DEF Handled
  <2>5. InOneBatch'
    <3>1. \A r \in Requests : Handled(request'[r]) <=> \E B \in batches' : r \in B
      BY <1>2, <2>4 DEF BatcherInv, InOneBatch
    <3>2. \A B \in batches : B \cap R = {}
      BY <1>1 DEF BatcherInv, InOneBatch, BatcherTypeOK
    <3>3. \A B, C \in batches' : B \cap C # {} => B = C
      BY <1>2, <3>2 DEF BatcherInv, InOneBatch
    <3>4. {} \notin batches'
      BY <1>2 DEF BatcherInv, InOneBatch
    <3> QED BY <3>1, <3>3, <3>4 DEF InOneBatch
  <2>6. BatcherTypeOK'
    BY <1>1, <1>2, <2>1 DEF BatcherInv, BatcherTypeOK, BatchRequest, ProcessBatch
  <2> QED BY <2>3, <2>5, <2>6, NoneWait DEF BatcherInv
<1>3. ASSUME request' = Moved(held, R, "idle"), batches' = batches
      PROVE  BatcherInv'
  <2>1. /\ request' \in [Requests -> BatchRequest]
        /\ \A r \in Requests : (r \in R => request'[r].pc = "idle") /\ (r \notin R => request'[r] = held[r])
    BY <1>1, <1>3, MovedIs
  <2>2. At("waits")' = {}
    <3>1. \A r \in Requests : request'[r].pc # "waits"
      BY <2>1
    <3> QED BY <3>1 DEF At
  <2>3. \A r \in Requests : Handled(request'[r]) <=> Handled(request[r])
    BY <1>1, <2>1 DEF Handled
  <2>4. InOneBatch'
    BY <1>3, <2>3 DEF BatcherInv, InOneBatch
  <2>5. BatcherTypeOK'
    BY <1>3, <2>1 DEF BatcherInv, BatcherTypeOK, BatchRequest, ProcessBatch
  <2> QED BY <2>2, <2>4, <2>5, NoneWait DEF BatcherInv
<1> QED BY <1>2, <1>3 DEF ProcessBatch

LEMMA AddRequestKeeps ==
  ASSUME BatcherInv, NEW r \in Requests, AddRequest(r)
  PROVE  BatcherInv'
<1> DEFINE same == {q \in At("waits") : request[q].key = request[r].key}
           step == Moved(request, same, "replaced")
<1>1. request \in [Requests -> BatchRequest] /\ request[r].pc = "idle" /\ same \in SUBSET Requests
  BY DEF BatcherInv, BatcherTypeOK, BatchRequest, AddRequest, At
<1>2. /\ step \in [Requests -> BatchRequest]
      /\ \A q \in Requests : /\ q \in same => step[q].pc = "replaced"
                             /\ q \notin same => step[q] = request[q]
  BY <1>1, MovedIs
<1>3. Added(r) = Moved(step, {r}, "waits")
  BY DEF Added
<1>4. \A q \in same : request[q].pc = "waits"
  BY DEF At
<1> HIDE DEF same, step
<1>5. /\ Added(r) \in [Requests -> BatchRequest]
      /\ \A q \in Requests : /\ q = r => Added(r)[q].pc = "waits"
                             /\ q # r => Added(r)[q] = step[q]
  <2>1. {r} \in SUBSET Requests /\ \A q : q \in {r} <=> q = r
    OBVIOUS
  <2> QED BY <1>2, <1>3, <2>1, MovedIs
<1>6. ASSUME NEW q \in Requests PROVE Handled(Added(r)[q]) <=> Handled(request[q])
  BY <1>1, <1>2, <1>4, <1>5 DEF Handled
<1>7. CASE ProcessBatch(Added(r))
  BY <1>5, <1>6, <1>7, ProcessBatchKeeps
<1>8. CASE /\ ~(Cardinality({q \in Requests : Added(r)[q].pc = "waits"}) >= BatchSize)
           /\ request' = Added(r) /\ batchTimer' = TRUE /\ UNCHANGED batches
  <2>1. BatcherTypeOK'
    BY <1>5, <1>8 DEF BatcherInv, BatcherTypeOK, BatchRequest
  <2>2. InOneBatch'
    BY <1>6, <1>8 DEF BatcherInv, InOneBatch
  <2>3. At("waits")' = {q \in Requests : Added(r)[q].pc = "waits"}
    BY <1>8 DEF At
  <2>4. IsFiniteSet(At("waits")')
    BY <2>3, BatcherAssumptions, FS_Subset
  <2>5. Cardinality(At("waits")') \in Nat /\ ~(Cardinality(At("waits")') >= BatchSize)
    BY <1>8, <2>3, <2>4, FS_CardinalityType
  <2>6. FewWait'
    BY <2>5, BatcherAssumptions DEF FewWait
  <2>7. WaitingIsTimed'
    BY <1>8 DEF WaitingIsTimed
  <2> QED BY <2>1, <2>2, <2>6, <2>7 DEF BatcherInv
<1> QED BY <1>7, <1>8 DEF AddRequest

LEMMA SettlingKeeps ==
  ASSUME BatcherInv, (\E r \in Requests : HandlerSettles(r)) \/ \E B \in batches : BatchSettles(B)
  PROVE  BatcherInv'
<1>1. request \in [Requests -> BatchRequest] /\ batches \subseteq SUBSET Requests
  BY DEF BatcherInv, BatcherTypeOK, BatchRequest
<1>2. ASSUME NEW R \in SUBSET Requests, NEW pc \in {"idle", "ran"}, request' = Moved(request, R, pc),
             \A r \in R : request[r].pc \in {"runs", "ran"}, batchTimer' = batchTimer,
             batches' \subseteq batches, InOneBatch'
      PROVE  BatcherInv'
  <2>1. /\ request' \in [Requests -> BatchRequest]
        /\ \A r \in Requests : (r \in R => request'[r].pc = pc) /\ (r \notin R => request'[r] = request[r])
    BY <1>1, <1>2, MovedIs
  <2>2. At("waits")' = At("waits")
    BY <1>2, <2>1 DEF At
  <2>3. BatcherTypeOK'
    BY <1>1, <1>2, <2>1 DEF BatcherInv, BatcherTypeOK, BatchRequest
  <2> QED BY <1>2, <2>2, <2>3, FewerWait DEF BatcherInv, WaitingIsTimed
<1>3. ASSUME NEW r \in Requests, HandlerSettles(r) PROVE BatcherInv'
  <2>1. /\ request[r].pc = "runs" /\ request' = Moved(request, {r}, "ran")
        /\ batchTimer' = batchTimer /\ batches' = batches
    BY <1>3 DEF HandlerSettles, At
  <2>2. \A q \in Requests : (q = r => request'[q].pc = "ran") /\ (q # r => request'[q] = request[q])
    BY <1>1, <2>1, MovedIs
  <2>3. \A q \in Requests : Handled(request'[q]) <=> Handled(request[q])
    BY <2>1, <2>2 DEF Handled
  <2>4. InOneBatch'
    BY <2>1, <2>3 DEF BatcherInv, InOneBatch
  <2> QED BY <1>2, <2>1, <2>4
<1>4. ASSUME NEW B \in batches, BatchSettles(B) PROVE BatcherInv'
  <2>1. /\ \A r \in B : r \in Requests /\ request[r].pc = "ran"
        /\ request' = Moved(request, B, "idle")
        /\ batchTimer' = batchTimer /\ batches' = batches \ {B}
    BY <1>1, <1>4 DEF BatchSettles, At
  <2>2. \A q \in Requests : (q \in B => request'[q].pc = "idle") /\ (q \notin B => request'[q] = request[q])
    BY <1>1, <2>1, MovedIs
  <2>3. \A q \in Requests : Handled(request'[q]) <=> Handled(request[q]) /\ q \notin B
    BY <2>2 DEF Handled
  <2>4. InOneBatch'
    <3>1. \A C \in batches' : C \in batches /\ C # B /\ C \cap B = {}
      BY <2>1 DEF BatcherInv, InOneBatch
    <3>2. \A q \in Requests : Handled(request'[q]) <=> \E C \in batches' : q \in C
      BY <2>1, <2>3, <3>1 DEF BatcherInv, InOneBatch
    <3> QED BY <3>1, <3>2 DEF BatcherInv, InOneBatch
  <2> QED BY <1>1, <1>2, <2>1, <2>4
<1> QED BY <1>3, <1>4

(* BatcherTypeOK and what OnlyReplacedHang rests on: whatever is added,    *)
(* replaced, timed out and settled, fewer requests wait than make a batch, *)
(* the timer runs whenever one waits, and each handler that has begun      *)
(* belongs to one batch (performance-optimizations.js: addRequest,         *)
(* processBatch).                                                          *)
THEOREM BatcherInvariant == BatcherSpec => []BatcherInv
<1>1. BatcherInit => BatcherInv
  <2> SUFFICES ASSUME BatcherInit PROVE BatcherInv
    OBVIOUS
  <2>1. /\ request \in [Requests -> BatchRequest] /\ \A r \in Requests : request[r].pc = "idle"
        /\ batches = {} /\ batchTimer = FALSE
    BY DEF BatcherInit, Idle, BatchRequest
  <2>2. At("waits") = {}
    BY <2>1 DEF At
  <2>3. FewWait /\ WaitingIsTimed
    BY <2>2, FS_EmptySet, BatcherAssumptions DEF FewWait, WaitingIsTimed
  <2> QED BY <2>1, <2>3 DEF BatcherInv, BatcherTypeOK, BatchRequest, InOneBatch, Handled
<1>2. BatcherInv /\ [BatcherNext]_batcherVars => BatcherInv'
  <2> SUFFICES ASSUME BatcherInv, [BatcherNext]_batcherVars PROVE BatcherInv'
    OBVIOUS
  <2>1. CASE BatchTimerFires
    <3>1. request \in [Requests -> BatchRequest] /\ ProcessBatch(request)
      BY <2>1 DEF BatcherInv, BatcherTypeOK, BatchRequest, BatchTimerFires
    <3> QED BY <3>1, ProcessBatchKeeps
  <2>2. ASSUME NEW r \in Requests, AddRequest(r) PROVE BatcherInv'
    BY <2>2, AddRequestKeeps
  <2>3. CASE (\E r \in Requests : HandlerSettles(r)) \/ \E B \in batches : BatchSettles(B)
    BY <2>3, SettlingKeeps
  <2>4. CASE UNCHANGED batcherVars
    BY <2>4 DEF batcherVars, BatcherInv, BatcherTypeOK, WaitingIsTimed, FewWait, InOneBatch, At
  <2> QED BY <2>1, <2>2, <2>3, <2>4 DEF BatcherNext
<1> QED BY <1>1, <1>2, PTL DEF BatcherSpec

-----------------------------------------------------------------------------
(* The components together.                                                *)

LEMMA EachInit ==
  ComponentsInit => /\ Init /\ MCPInit /\ ServerInit /\ WorkflowInit /\ WorkbenchInit
                    /\ BatcherInit /\ CatalogInit /\ GraphInit /\ OverrideInit
                    /\ DependencyInit
<1>1. [u \in Artifacts |-> {}] \in [Artifacts -> SUBSET Known]
  OBVIOUS
<1> QED BY <1>1 DEF ComponentsInit, DependencyInit

(* A step of one is a step of it, or changes nothing, for every other.     *)
LEMMA EachStep ==
  ASSUME [ComponentsNext]_allVars
  PROVE  /\ [Next]_vars /\ [MCPNext]_mcpVars /\ [ServerNext]_serverVars
         /\ [WorkflowNext]_workflowVars /\ [WorkbenchNext]_workbenchVars
         /\ [BatcherNext]_batcherVars /\ [CatalogNext]_catalogVars /\ [GraphNext]_graphVars
         /\ [OverrideNext]_overrideVars /\ [DependencyNext]_dependsOn
BY DEF ComponentsNext, allVars, OfA2A, OfMCP, OfServer, OfWorkflow, OfWorkbench, OfBatcher,
       OfCatalog, OfGraph, OfDependency, OfOverride

(* What is checked of the components together is checked of each of them:  *)
(* every behaviour of ComponentsSpec is one of every component.            *)
THEOREM EachIsItself ==
  ComponentsSpec => /\ Spec /\ MCPSpec /\ ServerSpec /\ WorkflowSpec /\ WorkbenchSpec
                    /\ BatcherSpec /\ CatalogSpec /\ GraphSpec /\ OverrideSpec /\ DependencySpec
BY EachInit, EachStep, PTL
   DEF ComponentsSpec, Spec, MCPSpec, ServerSpec, WorkflowSpec, WorkbenchSpec,
       BatcherSpec, CatalogSpec, GraphSpec, OverrideSpec, DependencySpec

(* EveryTypeOK, the type invariant of the run of all components: each part *)
(* of it is the type invariant of a component.                             *)
THEOREM ComponentsTypeCorrect == ComponentsSpec => []EveryTypeOK
<1>1. /\ MCPInv => MCPTypeOK
      /\ WorkflowInv => WorkflowTypeOK
      /\ WorkbenchInv => WorkbenchTypeOK
      /\ BatcherInv => BatcherTypeOK
      /\ CatalogInv => CatalogTypeOK
      /\ GraphInv => GraphTypeOK
  BY DEF MCPInv, WorkflowInv, WorkbenchInv, BatcherInv, CatalogInv, GraphInv
<1>2. KeptInv => OverrideTypeOK
  BY RulesAreTyped
<1>3. /\ TypeOK /\ MCPTypeOK /\ ServerTypeOK /\ WorkflowTypeOK /\ WorkbenchTypeOK
      /\ BatcherTypeOK /\ CatalogTypeOK /\ GraphTypeOK /\ OverrideTypeOK
      => EveryTypeOK
  BY DEF EveryTypeOK
<1> QED BY <1>1, <1>2, <1>3, EachIsItself, RequestsAreCalls, MCPInvariant, ServerTypeCorrect,
           WorkflowInvariant, WorkbenchInvariant, BatcherInvariant, CatalogInvariant,
           GraphInvariant, RulesInvariant, PTL
=============================================================================
