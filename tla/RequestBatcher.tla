---------------------------- MODULE RequestBatcher ----------------------------
(***************************************************************************)
(* mcp-server/performance-optimizations.js, RequestBatcher: requests wait  *)
(* under their keys until there are batchSize of them or a timer fires;    *)
(* then their handlers run side by side, and the promises settle when the  *)
(* last handler has.                                                       *)
(***************************************************************************)
EXTENDS Naturals, FiniteSets

CONSTANTS Requests, Keys, BatchSize

ASSUME BatcherAssumptions == BatchSize \in Nat \ {0} /\ IsFiniteSet(Requests)

VARIABLES
  request,        (* request[r]: its key, and how far it has come          *)
  batchTimer,     (* is the timer armed?                                   *)
  batches         (* the batches whose handlers run, sets of requests      *)

batcherVars == <<request, batchTimer, batches>>

(*   waits      in pendingRequests                                         *)
(*   runs       its handler has not settled                                *)
(*   ran        its handler has, its batch has not                         *)
(*   replaced   another request has its place in pendingRequests           *)
Idle(k) == [pc |-> "idle", key |-> k]
At(pc) == {r \in Requests : request[r].pc = pc}

BatcherInit ==
  /\ request \in [Requests -> {Idle(k) : k \in Keys}]
  /\ batchTimer = FALSE
  /\ batches = {}

-----------------------------------------------------------------------------
(* processBatch, with the requests as they are in req: all that wait are   *)
(* handled together.  If a handler throws before it returns a promise,     *)
(* every request of the batch is rejected at once.                         *)
Moved(req, R, pc) == [r \in Requests |-> IF r \in R THEN [req[r] EXCEPT !.pc = pc] ELSE req[r]]

ProcessBatch(req) ==
  LET R == {r \in Requests : req[r].pc = "waits"} IN
  /\ batchTimer' = FALSE
  /\ \/ request' = Moved(req, R, "runs") /\ batches' = batches \cup ({R} \ {{}})
     \/ R # {} /\ request' = Moved(req, R, "idle") /\ UNCHANGED batches

(* addRequest.  A request under the same key is replaced.                  *)
Added(r) ==
  LET same == {q \in At("waits") : request[q].key = request[r].key} IN
  Moved(Moved(request, same, "replaced"), {r}, "waits")

(* Mutant: the timer is armed with the first request only.                 *)
AddRequestArmingOnce(r) ==
  /\ request[r].pc = "idle"
  /\ IF Cardinality({q \in Requests : Added(r)[q].pc = "waits"}) >= BatchSize
     THEN ProcessBatch(Added(r))
     ELSE request' = Added(r) /\ batchTimer' = (batches = {}) /\ UNCHANGED batches

AddRequest(r) ==
  /\ request[r].pc = "idle"
  /\ IF Cardinality({q \in Requests : Added(r)[q].pc = "waits"}) >= BatchSize
     THEN ProcessBatch(Added(r))
     ELSE request' = Added(r) /\ batchTimer' = TRUE /\ UNCHANGED batches

BatchTimerFires == batchTimer /\ ProcessBatch(request)

HandlerSettles(r) ==
  /\ r \in At("runs")
  /\ request' = Moved(request, {r}, "ran")
  /\ UNCHANGED <<batchTimer, batches>>

(* Promise.allSettled: every promise of the batch settles.                 *)
BatchSettles(B) ==
  /\ B \in batches /\ B \subseteq At("ran")
  /\ request' = Moved(request, B, "idle")
  /\ batches' = batches \ {B}
  /\ UNCHANGED batchTimer

-----------------------------------------------------------------------------
BatcherNext ==
  \/ BatchTimerFires
  \/ \E r \in Requests : AddRequest(r) \/ HandlerSettles(r)
  \/ \E B \in batches : BatchSettles(B)

BatcherSpec == BatcherInit /\ [][BatcherNext]_batcherVars

Together(r) == \E B \in batches : r \in B /\ BatchSettles(B)

(* Timers fire, and what Promise.allSettled awaits is continued.  Nothing  *)
(* says that a handler settles.                                            *)
FairBatcherSpec ==
  /\ BatcherSpec /\ WF_batcherVars(BatchTimerFires)
  /\ \A r \in Requests : WF_batcherVars(Together(r))

-----------------------------------------------------------------------------
(* Properties.                                                             *)

(* Every variable holds values of the shape the code gives it.             *)
BatcherTypeOK ==
  /\ request \in [Requests -> [pc : {"idle", "waits", "runs", "ran", "replaced"}, key : Keys]]
  /\ batchTimer \in BOOLEAN
  /\ batches \subseteq SUBSET Requests

(* A handler of the batch of r, its own or another, has not settled.       *)
Held(r) == \E B \in batches : r \in B /\ \E q \in B : request[q].pc = "runs"

(* Every request is answered, whether its batch went for its size or for   *)
(* its age, unless another one replaces it, for then it waits for ever, or *)
(* a handler of its batch never settles.                                   *)
OnlyReplacedHang ==
  \A r \in Requests :
    []<>~Held(r) =>
      (request[r].pc \in {"waits", "runs", "ran"} ~> request[r].pc \in {"idle", "replaced"})
=============================================================================
