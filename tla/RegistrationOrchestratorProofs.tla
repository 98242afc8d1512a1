------------------- MODULE RegistrationOrchestratorProofs -------------------
(***************************************************************************)
(* What the orchestrator guarantees for any callers, manifests, urns,      *)
(* faults and restarts: the first owner of a urn keeps it, the graph       *)
(* follows the catalog, and, when callers take turns on a manifest,        *)
(* nothing is catalogued that is not registered.                           *)
(*                                                                         *)
(* The last ties the files to the memory of the process, and the call of   *)
(* the pipeline that register awaits is what ties them: what the call has  *)
(* read, and what it has saved, is still in the file when register goes on *)
(* and the catalog is changed.                                             *)
(***************************************************************************)
EXTENDS RegistrationOrchestrator, TLAPS

(* The pipeline with what is proved about it.                              *)
Turns == INSTANCE RegistrationPipelineProofs WITH Faults <- Faults \ {"die"}

(* A register call that runs its transition has a manifest with a urn.     *)
JobSound(j) ==
  /\ j \in Job /\ j.skip \in Skips \cup {FALSE}
  /\ j.pc = "transition" => j.manifest \in WithUrn
  /\ j.pc = "idle" <=> j.m = None

JobsSound == job \in [Clients -> Job] /\ \A c \in Clients : JobSound(job[c])

GraphSound ==
  /\ catalog \in [Urns -> WithUrn \cup {None}]
  /\ node \in [Urns -> {"none", "placeholder", "full"}]
  /\ edges \cup severed \subseteq Urns \X Urns
  /\ \A u \in Urns : node[u] # "none" => u \in WellFormed
  /\ GraphFollowsCatalog

RegistryInv == Turns!IInv /\ JobsSound /\ GraphSound

(* What register knows of the file when the call it awaits returns.        *)
Awaits(c) ==
  LET j == job[c]
      k == client[c]
      s == snap[j.m]
  IN
  /\ j.pc = "load" =>
       /\ Turns!Busy(c) => k.m = j.m /\ k.kind = "query"
       /\ ~Turns!Busy(c) /\ k.res = "ok" => s.file = "ok" /\ s.vs = k.got
  /\ j.pc = "transition" =>
       /\ s.file = "ok" /\ s.vs.state.manifest = j.manifest
       /\ Turns!Busy(c) => k.m = j.m /\ k.kind \in {"read", "recheck"} /\ k.ev = "register"
       /\ k.pc = "append" \/ (~Turns!Busy(c) /\ k.res = "ok") => s.vs.state.cur = "REGISTERED"

(* A manifest belongs to the register call on it until that has logged.    *)
JobsInv ==
  /\ \A c \in Clients : job[c].pc \notin {"idle", "load", "transition"} => ~Turns!Busy(c)
  /\ \A c, d \in Clients : Turns!Busy(c) /\ client[c].m = job[d].m => c = d
  /\ \A c, d \in Clients : job[c].m = job[d].m /\ job[c].m # None => c = d
  /\ \A c \in Clients : Awaits(c)

Registered(f) ==
  \E m \in Ids : snap[m].file = "ok" /\ snap[m].vs.state.cur = "REGISTERED"
                 /\ snap[m].vs.state.manifest = f

CatalogInv == \A u \in Urns : catalog[u] # None => Registered(catalog[u])

OrchestratorInv == RegistryInv /\ Turns!TurnsInv /\ JobsInv /\ CatalogInv

-----------------------------------------------------------------------------
(* What the proofs about the pipeline assume of its constants.             *)
LEMMA PipelineAssumed == Turns!PipelineAssumptions
BY OrchestratorAssumptions
DEF States, Turns!States, Events, Turns!Events, Transitions, Turns!Transitions, Turns!FaultKinds

(* The pipeline the orchestrator calls is the one the proofs are about.    *)
LEMMA SameStep ==
  ASSUME NEW c \in Clients
  PROVE  /\ Pipeline!Continue(c) <=> Turns!Continue(c)
         /\ Pipeline!Abort(c) <=> Turns!Abort(c)
<1>1. Pipeline!Continue(c) <=> Turns!Continue(c)
  BY DEF Pipeline!Continue, Turns!Continue,
         Pipeline!LoadSnapshot, Turns!LoadSnapshot,
         Pipeline!SnapshotUnusable, Turns!SnapshotUnusable,
         Pipeline!ReplayLog, Turns!ReplayLog,
         Pipeline!SaveRecovered, Turns!SaveRecovered,
         Pipeline!Commit, Turns!Commit,
         Pipeline!AppendEvent, Turns!AppendEvent,
         Pipeline!Deliver, Turns!Deliver,
         Pipeline!InitializeRead, Turns!InitializeRead,
         Pipeline!QueryRead, Turns!QueryRead,
         Pipeline!ComputeNewState, Turns!ComputeNewState,
         Pipeline!ValidateVersion, Turns!ValidateVersion,
         Pipeline!Retry, Turns!Retry,
         Pipeline!Fail, Turns!Fail,
         Pipeline!Return, Turns!Return,
         Pipeline!Step, Turns!Step,
         Pipeline!NoCall, Turns!NoCall,
         Pipeline!NoContext, Turns!NoContext,
         Pipeline!Absent, Turns!Absent,
         Pipeline!EmptyState, Turns!EmptyState,
         Pipeline!Recovered, Turns!Recovered,
         Pipeline!Saved, Turns!Saved,
         Pipeline!Logged, Turns!Logged,
         Pipeline!Created, Turns!Created,
         Pipeline!InitialState, Turns!InitialState,
         Pipeline!AllowedRows, Turns!AllowedRows,
         Pipeline!GuardAllows, Turns!GuardAllows,
         Pipeline!After, Turns!After,
         Pipeline!Transitions, Turns!Transitions
<1>2. Pipeline!Abort(c) <=> Turns!Abort(c)
  BY DEF Pipeline!Abort, Turns!Abort, Pipeline!Fault, Turns!Fault, Pipeline!Busy, Turns!Busy,
         Pipeline!Fail, Turns!Fail, Pipeline!Step, Turns!Step,
         Pipeline!NoCall, Turns!NoCall, Pipeline!NoContext, Turns!NoContext,
         Pipeline!Absent, Turns!Absent, Pipeline!EmptyState, Turns!EmptyState
<1> QED BY <1>1, <1>2

(* A call of the pipeline that the orchestrator or its caller makes.       *)
Enters(c, m) ==
  \/ \E f \in WithUrn : Pipeline!Initialize(c, m, f)
  \/ \E e \in Pipeline!Events : \E ctx \in Pipeline!ContextsOf(e) :
       Pipeline!TransitionState(c, m, e, ctx)
  \/ Pipeline!GetCurrentState(c, m)

LEMMA SameCalls ==
  ASSUME NEW c \in Clients, NEW m \in Ids
  PROVE  /\ Pipeline!Busy(c) <=> Turns!Busy(c)
         /\ Pipeline!BusyOn(m) <=> Turns!BusyOn(m)
         /\ Pipeline!GetCurrentState(c, m) <=> Turns!GetCurrentState(c, m)
         /\ \A e, ctx : Pipeline!TransitionState(c, m, e, ctx) <=>
                          Turns!TransitionState(c, m, e, ctx)
         /\ \A f : Pipeline!Initialize(c, m, f) <=> Turns!Initialize(c, m, f)
         /\ Enters(c, m) => Turns!Calls(c, m)
<1>1. /\ Pipeline!Busy(c) <=> Turns!Busy(c)
      /\ Pipeline!BusyOn(m) <=> Turns!BusyOn(m)
  BY DEF Pipeline!Busy, Turns!Busy, Pipeline!BusyOn, Turns!BusyOn
<1>2. Pipeline!NoCall = Turns!NoCall
  BY DEF Pipeline!NoCall, Turns!NoCall, Pipeline!NoContext, Turns!NoContext,
         Pipeline!Absent, Turns!Absent, Pipeline!EmptyState, Turns!EmptyState
<1>3. \A k : Pipeline!Enter(c, m, k) <=> Turns!Enter(c, m, k)
  BY <1>1 DEF Pipeline!Enter, Turns!Enter, Pipeline!Step, Turns!Step
<1>4. Pipeline!GetCurrentState(c, m) <=> Turns!GetCurrentState(c, m)
  BY <1>2, <1>3 DEF Pipeline!GetCurrentState, Turns!GetCurrentState
<1>5. ASSUME NEW e, NEW ctx
      PROVE  Pipeline!TransitionState(c, m, e, ctx) <=> Turns!TransitionState(c, m, e, ctx)
  BY <1>2, <1>3 DEF Pipeline!TransitionState, Turns!TransitionState
<1>6. ASSUME NEW f PROVE Pipeline!Initialize(c, m, f) <=> Turns!Initialize(c, m, f)
  BY <1>2, <1>3 DEF Pipeline!Initialize, Turns!Initialize
<1>7. /\ WithUrn \subseteq Manifests /\ Pipeline!Events = Turns!Events
      /\ \A e : Pipeline!ContextsOf(e) = Turns!ContextsOf(e)
  BY OrchestratorAssumptions
  DEF Pipeline!Events, Turns!Events, Pipeline!ContextsOf, Turns!ContextsOf
<1>8. Enters(c, m) => Turns!Calls(c, m)
  BY <1>4, <1>5, <1>6, <1>7 DEF Enters, Turns!Calls
<1> QED BY <1>1, <1>4, <1>5, <1>6, <1>8

LEMMA SameInit == Pipeline!Init => Turns!Init
BY DEF Pipeline!Init, Turns!Init, Pipeline!NoFile, Turns!NoFile,
       Pipeline!EmptyLog, Turns!EmptyLog, Pipeline!NoCall, Turns!NoCall,
       Pipeline!NoContext, Turns!NoContext, Pipeline!Absent, Turns!Absent,
       Pipeline!EmptyState, Turns!EmptyState

LEMMA SameTypes == Turns!TypeOK => Pipeline!TypeOK
BY DEF Pipeline!TypeOK, Turns!TypeOK, Pipeline!Snapshot, Turns!Snapshot,
       Pipeline!Versioned, Turns!Versioned, Pipeline!ManifestState, Turns!ManifestState,
       Pipeline!EventLog, Turns!EventLog, Pipeline!Call, Turns!Call,
       Pipeline!Context, Turns!Context, Pipeline!States, Turns!States,
       Pipeline!Events, Turns!Events, Pipeline!Transitions, Turns!Transitions

-----------------------------------------------------------------------------
(* RegistryInv holds whether or not callers take turns.                    *)
LEMMA NoJobSound == JobSound(NoJob)
BY OrchestratorAssumptions DEF JobSound, NoJob, Job

LEMMA JobStepSound ==
  ASSUME JobsSound, NEW c \in Clients, NEW j, JobSound(j), JobStep(c, j)
  PROVE  JobsSound' /\ job'[c] = j /\ \A d \in Clients : d # c => job'[d] = job[d]
BY DEF JobsSound, JobStep, JobSound

LEMMA ThrowSound ==
  ASSUME JobsSound, NEW c \in Clients, job[c].pc # "idle", Throw(c)
  PROVE  /\ JobsSound' /\ job'[c].pc = "logError" /\ job'[c].m = job[c].m
         /\ \A d \in Clients : d # c => job'[d] = job[d]
<1> DEFINE j == [job[c] EXCEPT !.pc = "logError"]
<1>1. JobSound(job[c])
  BY DEF JobsSound
<1>2. j \in Job /\ j.pc = "logError" /\ j.m = job[c].m /\ j.skip = job[c].skip
  BY <1>1 DEF JobSound, Job
<1>3. JobSound(j) /\ JobStep(c, j)
  BY <1>1, <1>2 DEF JobSound, Throw
<1> HIDE DEF j
<1> QED BY <1>2, <1>3, JobStepSound

(* The urn's node and every edge's ends are there with the manifest that   *)
(* needs them, as far as they are well-formed.                             *)
LEMMA WriteKeepsGraph ==
  ASSUME GraphSound, NEW f \in WithUrn, WriteRegistry(f)
  PROVE  GraphSound' /\ catalog' = [catalog EXCEPT ![UrnOf[f]] = f]
<1> DEFINE u == UrnOf[f]
           added == EdgesOf(f)
<1>1. u \in Urns /\ DepsOf[f] \subseteq Urns /\ WellFormed \subseteq Urns
  BY OrchestratorAssumptions
<1>2. /\ catalog' = [catalog EXCEPT ![u] = f]
      /\ edges' = edges \cup added /\ severed' = severed \ added
      /\ node' = [v \in Urns |->
           CASE node[v] # "none"            -> node[v]
             [] v \in {u} \cap WellFormed    -> "full"
             [] v \in {e[2] : e \in added}   -> "placeholder"
             [] OTHER                       -> "none"]
  BY DEF WriteRegistry
<1>3. /\ \A e \in added : e[1] = u /\ u \in WellFormed /\ e[2] \in DepsOf[f] \cap WellFormed
      /\ \A d \in DepsOf[f] \cap WellFormed : u \in WellFormed => <<u, d>> \in added
      /\ added \subseteq Urns \X Urns
  BY <1>1 DEF EdgesOf
<1> HIDE DEF added
<1>4. \A v \in Urns : /\ node'[v] \in {"none", "placeholder", "full"}
                      /\ node[v] # "none" => node'[v] # "none"
                      /\ v = u /\ u \in WellFormed => node'[v] # "none"
                      /\ \A e \in added : v = e[2] => node'[v] # "none"
                      /\ node'[v] # "none" => v \in WellFormed
  BY <1>2, <1>3 DEF GraphSound
<1>5. /\ catalog' \in [Urns -> WithUrn \cup {None}]
      /\ node' \in [Urns -> {"none", "placeholder", "full"}]
      /\ edges' \cup severed' \subseteq Urns \X Urns
  BY <1>1, <1>2, <1>3, <1>4 DEF GraphSound
<1>6. ASSUME NEW e \in edges' PROVE node'[e[1]] # "none" /\ node'[e[2]] # "none"
  <2>1. CASE e \in added
    BY <1>1, <1>3, <1>4, <2>1
  <2>2. CASE e \in edges
    BY <1>4, <2>2 DEF GraphSound, GraphFollowsCatalog
  <2> QED BY <1>2, <2>1, <2>2
<1>7. ASSUME NEW v \in Urns, catalog'[v] # None
      PROVE  /\ v \in WellFormed <=> node'[v] # "none"
             /\ v \in WellFormed =>
                  \A d \in DepsOf[catalog'[v]] \cap WellFormed : <<v, d>> \in edges' \cup severed'
  <2>1. CASE v = u
    <3>1. catalog'[v] = f
      BY <1>1, <1>2, <2>1 DEF GraphSound
    <3> QED BY <1>2, <1>3, <1>4, <2>1, <3>1
  <2>2. CASE v # u
    <3>1. catalog'[v] = catalog[v]
      BY <1>2, <2>2 DEF GraphSound
    <3>2. v \in WellFormed => node[v] # "none"
      BY <1>7, <3>1 DEF GraphSound, GraphFollowsCatalog
    <3>3. v \in WellFormed =>
            \A d \in DepsOf[catalog[v]] \cap WellFormed : <<v, d>> \in edges \cup severed
      BY <1>7, <3>1 DEF GraphSound, GraphFollowsCatalog
    <3> QED BY <1>2, <1>4, <3>1, <3>2, <3>3
  <2> QED BY <2>1, <2>2
<1> QED BY <1>2, <1>4, <1>5, <1>6, <1>7 DEF GraphSound, GraphFollowsCatalog

LEMMA AdminKeepsGraph ==
  ASSUME GraphSound, RecoverFromEvents \/ \E u \in Urns : Unregister(u)
  PROVE  /\ GraphSound'
         /\ \A v \in Urns : catalog'[v] # None => catalog'[v] = catalog[v]
<1>1. CASE RecoverFromEvents
  BY <1>1 DEF RecoverFromEvents, GraphSound, GraphFollowsCatalog
<1>2. ASSUME NEW u \in Urns, Unregister(u)
      PROVE  /\ GraphSound'
             /\ \A v \in Urns : catalog'[v] # None => catalog'[v] = catalog[v]
  <2>1. /\ catalog' = [catalog EXCEPT ![u] = None]
        /\ node' = [node EXCEPT ![u] = "none"]
        /\ edges' = {e \in edges : u \notin {e[1], e[2]}}
        /\ severed' = severed \cup {e \in edges : e[2] = u}
    BY <1>2 DEF Unregister, AdminCall
  <2>2. \A e \in edges' : node'[e[1]] # "none" /\ node'[e[2]] # "none"
    BY <2>1 DEF GraphSound, GraphFollowsCatalog
  <2>3. \A v \in Urns : catalog'[v] # None => catalog'[v] = catalog[v] /\ v # u
    BY <2>1 DEF GraphSound
  <2>4. ASSUME NEW v \in Urns, catalog'[v] # None
        PROVE  /\ v \in WellFormed <=> node'[v] # "none"
               /\ v \in WellFormed =>
                    \A d \in DepsOf[catalog'[v]] \cap WellFormed :
                      <<v, d>> \in edges' \cup severed'
    <3>1. v # u /\ catalog'[v] = catalog[v] /\ node'[v] = node[v]
      BY <2>1, <2>3, <2>4 DEF GraphSound
    <3>2. v \in WellFormed =>
            \A d \in DepsOf[catalog[v]] \cap WellFormed : <<v, d>> \in edges \cup severed
      BY <2>4, <3>1 DEF GraphSound, GraphFollowsCatalog
    <3>3. ASSUME NEW d, <<v, d>> \in edges \cup severed
          PROVE  <<v, d>> \in edges' \cup severed'
      BY <2>1, <3>1, <3>3
    <3> QED BY <2>4, <3>1, <3>2, <3>3 DEF GraphSound, GraphFollowsCatalog
  <2>5. /\ catalog' \in [Urns -> WithUrn \cup {None}]
        /\ node' \in [Urns -> {"none", "placeholder", "full"}]
        /\ edges' \cup severed' \subseteq Urns \X Urns
        /\ \A v \in Urns : node'[v] # "none" => v \in WellFormed
    BY <2>1 DEF GraphSound
  <2> QED BY <2>2, <2>3, <2>4, <2>5 DEF GraphSound, GraphFollowsCatalog
<1> QED BY <1>1, <1>2

LEMMA StutterGraph == ASSUME GraphSound, UNCHANGED registry PROVE GraphSound'
BY DEF GraphSound, GraphFollowsCatalog, registry

LEMMA StutterFiles ==
  ASSUME Turns!IInv, UNCHANGED <<snap, log, client>>,
         ops' \in 0 .. MaxOps, faults' \in 0 .. MaxFaults
  PROVE  Turns!IInv'
BY DEF Turns!IInv, Turns!CallSound, Turns!Carried

-----------------------------------------------------------------------------
(* One lemma for each action.                                              *)
LEMMA AdmitCounts == ASSUME Turns!IInv, NEW c, NEW m, Admit(c, m) PROVE ops' \in 0 .. MaxOps
BY OrchestratorAssumptions DEF Admit, Turns!IInv

LEMMA StartRegistry ==
  ASSUME RegistryInv, NEW c \in Clients, NEW m \in Ids,
         PipelineCall(c, m) \/ \E skip \in Skips : Register(c, m, skip)
  PROVE  RegistryInv'
<1>1. Enters(c, m) /\ Admit(c, m) /\ UNCHANGED registry
  BY DEF PipelineCall, Register, Enters
<1>2. Turns!IInv'
  BY <1>1, AdmitCounts, SameCalls, PipelineAssumed, Turns!CallIInv DEF RegistryInv
<1>3. CASE job' = job
  BY <1>1, <1>2, <1>3, StutterGraph DEF RegistryInv, JobsSound, JobSound
<1>4. ASSUME NEW skip \in Skips, Register(c, m, skip) PROVE JobsSound'
  <2> DEFINE j == [NoJob EXCEPT !.pc = "load", !.m = m, !.skip = skip]
  <2>1. JobSound(j)
    BY OrchestratorAssumptions DEF JobSound, NoJob, Job
  <2> QED BY <1>4, <2>1, JobStepSound DEF Register, RegistryInv
<1> QED BY <1>1, <1>2, <1>3, <1>4, StutterGraph DEF RegistryInv, PipelineCall

LEMMA PipelineStepRegistry ==
  ASSUME RegistryInv, NEW c \in Clients, PipelineStep(c) PROVE RegistryInv'
<1>1. Turns!IInv'
  BY SameStep, PipelineAssumed, Turns!ContinueIInv DEF PipelineStep, RegistryInv
<1> QED BY <1>1, StutterGraph DEF PipelineStep, RegistryInv, JobsSound, JobSound

LEMMA LoadReturnedRegistry ==
  ASSUME RegistryInv, NEW c \in Clients, LoadReturned(c) PROVE RegistryInv'
<1> DEFINE j == job[c]
           f == client[c].got.state.manifest
           n == [j EXCEPT !.pc = "transition", !.manifest = f]
<1>1. j.pc = "load" /\ JobSound(j) /\ j.m \in Ids /\ UNCHANGED registry
  BY DEF LoadReturned, RegistryInv, JobsSound, JobSound, Job
<1>2. CASE Throw(c) /\ UNCHANGED pvars
  BY <1>1, <1>2, ThrowSound, StutterFiles, StutterGraph DEF RegistryInv, pvars, Turns!IInv
<1>3. ASSUME f \in WithUrn, JobStep(c, n), UNCHANGED ops,
             Pipeline!TransitionState(c, j.m, "register", Pipeline!NoContext)
      PROVE  RegistryInv'
  <2>1. n \in Job /\ n.pc = "transition" /\ n.manifest = f /\ n.m = j.m /\ n.skip = j.skip
    BY <1>1, <1>3 DEF JobSound, Job
  <2> HIDE DEF n
  <2>2. JobSound(n)
    BY <1>1, <1>3, <2>1 DEF JobSound
  <2>3. Pipeline!NoContext \in Pipeline!ContextsOf("register") /\ "register" \in Pipeline!Events
    BY DEF Pipeline!NoContext, Pipeline!ContextsOf, Pipeline!Events
  <2>4. Turns!Calls(c, j.m)
    BY <1>1, <1>3, <2>3, SameCalls DEF Enters
  <2>5. ops' \in 0 .. MaxOps
    BY <1>3 DEF RegistryInv, Turns!IInv
  <2>6. Turns!IInv'
    BY <1>1, <2>4, <2>5, PipelineAssumed, Turns!CallIInv DEF RegistryInv
  <2> QED BY <1>1, <1>3, <2>2, <2>6, JobStepSound, StutterGraph DEF RegistryInv
<1> QED BY <1>2, <1>3 DEF LoadReturned

LEMMA TransitionReturnedRegistry ==
  ASSUME RegistryInv, NEW c \in Clients, TransitionReturned(c) PROVE RegistryInv'
<1> DEFINE j == job[c]
           n == [j EXCEPT !.pc = "logRegistry"]
<1>1. j.pc = "transition" /\ JobSound(j) /\ UNCHANGED pvars
  BY DEF TransitionReturned, RegistryInv, JobsSound
<1>2. Turns!IInv'
  BY <1>1, StutterFiles DEF RegistryInv, pvars, Turns!IInv
<1>3. CASE Throw(c) /\ UNCHANGED registry
  BY <1>1, <1>2, <1>3, ThrowSound, StutterGraph DEF RegistryInv
<1>4. CASE WriteRegistry(j.manifest) /\ JobStep(c, n)
  <2>1. n \in Job /\ n.pc = "logRegistry" /\ n.m = j.m /\ n.skip = j.skip
    BY <1>1 DEF JobSound, Job
  <2> HIDE DEF n
  <2>2. JobSound(n)
    BY <1>1, <2>1 DEF JobSound
  <2> QED BY <1>1, <1>2, <1>4, <2>2, JobStepSound, WriteKeepsGraph DEF RegistryInv, JobSound
<1> QED BY <1>3, <1>4 DEF TransitionReturned

LEMMA EventLoggedRegistry ==
  ASSUME RegistryInv, NEW c \in Clients, EventLogged(c) \/ AppendFails(c) PROVE RegistryInv'
<1>1. /\ UNCHANGED <<snap, log, client, ops, registry>>
      /\ job[c].pc \in {"logRegistry", "logIntegration", "logError"} /\ JobSound(job[c])
  BY DEF EventLogged, AppendFails, pvars, RegistryInv, JobsSound
<1>2. faults' \in 0 .. MaxFaults
  BY OrchestratorAssumptions DEF EventLogged, AppendFails, pvars, RegistryInv, Turns!IInv
<1>3. Turns!IInv'
  BY <1>1, <1>2, StutterFiles DEF RegistryInv, Turns!IInv
<1>4. JobsSound'
  <2>1. JobSound([job[c] EXCEPT !.pc = "logIntegration"])
    BY <1>1 DEF JobSound, Job
  <2> QED BY <1>1, <2>1, NoJobSound, JobStepSound, ThrowSound
          DEF EventLogged, AppendFails, RegistryInv
<1> QED BY <1>1, <1>3, <1>4, StutterGraph DEF RegistryInv

LEMMA AdminRegistry ==
  ASSUME RegistryInv, RecoverFromEvents \/ \E u \in Urns : Unregister(u) PROVE RegistryInv'
<1>1. UNCHANGED <<snap, log, client, faults, job>> /\ ops' \in 0 .. MaxOps
  BY OrchestratorAssumptions DEF RecoverFromEvents, Unregister, AdminCall, RegistryInv, Turns!IInv
<1>2. Turns!IInv'
  BY <1>1, StutterFiles DEF RegistryInv, Turns!IInv
<1> QED BY <1>1, <1>2, AdminKeepsGraph DEF RegistryInv, JobsSound, JobSound

LEMMA PipelineFaultRegistry ==
  ASSUME RegistryInv, NEW c \in Clients, PipelineFault(c) PROVE RegistryInv'
<1>1. Turns!IInv'
  BY SameStep, PipelineAssumed, Turns!DisturbIInv DEF PipelineFault, RegistryInv, Turns!Disturb
<1> QED BY <1>1, StutterGraph DEF PipelineFault, RegistryInv, JobsSound, JobSound

LEMMA DieRegistry ==
  ASSUME RegistryInv, Die PROVE RegistryInv'
<1>1. faults' \in 0 .. MaxFaults /\ ops' \in 0 .. MaxOps /\ snap' = snap
  BY OrchestratorAssumptions DEF Die, RegistryInv, Turns!IInv
<1>2. PICK torn \in SUBSET {m \in Ids : Appending(m)} :
        log' = [m \in Ids |-> [log[m] EXCEPT !.torn = @ \/ m \in torn]]
  BY DEF Die
<1>3. log' \in [Ids -> Turns!EventLog]
  BY <1>2 DEF RegistryInv, Turns!IInv, Turns!EventLog
<1>4. \A m \in Ids : Turns!Reviewed(log'[m])
  BY <1>2 DEF RegistryInv, Turns!IInv, Turns!EventLog, Turns!Reviewed
<1>5. Pipeline!NoCall = Turns!NoCall
  BY DEF Pipeline!NoCall, Turns!NoCall, Pipeline!NoContext, Turns!NoContext,
         Pipeline!Absent, Turns!Absent, Pipeline!EmptyState, Turns!EmptyState
<1>6. client' \in [Clients -> Turns!Call] /\ \A c \in Clients : Turns!CallSound(client'[c])
  BY <1>5, PipelineAssumed, Turns!NoCallSound DEF Die
<1>7. Turns!IInv'
  BY <1>1, <1>3, <1>4, <1>6 DEF RegistryInv, Turns!IInv
<1>8. JobsSound'
  BY NoJobSound DEF Die, JobsSound, JobSound
<1>9. GraphSound'
  BY DEF Die, GraphSound, GraphFollowsCatalog
<1> QED BY <1>7, <1>8, <1>9 DEF RegistryInv

LEMMA RegistryStep == ASSUME RegistryInv, [Next]_vars PROVE RegistryInv'
<1>1. CASE UNCHANGED vars
  BY <1>1, StutterFiles, StutterGraph
  DEF vars, pvars, RegistryInv, Turns!IInv, JobsSound, JobSound
<1>2. CASE \E c \in Clients : Start(c)
  BY <1>2, StartRegistry DEF Start
<1>3. CASE \E c \in Clients : Continue(c)
  BY <1>3, PipelineStepRegistry, LoadReturnedRegistry, TransitionReturnedRegistry,
     EventLoggedRegistry DEF Continue
<1>4. CASE RecoverFromEvents \/ \E u \in Urns : Unregister(u)
  BY <1>4, AdminRegistry
<1>5. CASE Disturb
  BY <1>5, DieRegistry, PipelineFaultRegistry, EventLoggedRegistry DEF Disturb
<1> QED BY <1>1, <1>2, <1>3, <1>4, <1>5 DEF Next, Rest

LEMMA InitRegistry == Init => RegistryInv
<1> SUFFICES ASSUME Init PROVE RegistryInv
  OBVIOUS
<1>1. Turns!IInv
  BY SameInit, PipelineAssumed, Turns!InitIInv DEF Init
<1>2. JobsSound
  BY NoJobSound DEF Init, JobsSound, JobSound
<1>3. GraphSound
  BY DEF Init, GraphSound, GraphFollowsCatalog
<1> QED BY <1>1, <1>2, <1>3 DEF RegistryInv

THEOREM RegistryInvariant == Spec => []RegistryInv
<1>1. RegistryInv /\ [Next]_vars => RegistryInv'
  BY RegistryStep
<1> QED BY <1>1, InitRegistry, PTL DEF Spec

(* Every variable keeps the shape the code gives it.                       *)
THEOREM OrchestratorTypeCorrect == Spec => []TypeOK
<1>1. RegistryInv => TypeOK
  BY SameTypes DEF RegistryInv, JobsSound, GraphSound, TypeOK, Turns!IInv, Turns!TypeOK
<1> QED BY <1>1, RegistryInvariant, PTL

(* No edge dangles; a catalogued manifest has its node and its edges as    *)
(* far as the graph accepts the urns, except those whose other end has     *)
(* been unregistered since.                                                *)
THEOREM GraphIsComplete == Spec => []GraphFollowsCatalog
<1>1. RegistryInv => GraphFollowsCatalog
  BY DEF RegistryInv, GraphSound
<1> QED BY <1>1, RegistryInvariant, PTL

(* Only the end of a transition adds to the catalog.                       *)
LEMMA CatalogChanges ==
  ASSUME RegistryInv, [Next]_vars
  PROVE  \/ \A u \in Urns : catalog'[u] \in {catalog[u], None}
         \/ \E c \in Clients :
              /\ TransitionReturned(c) /\ job[c].manifest \in WithUrn
              /\ job[c].skip \/ catalog[UrnOf[job[c].manifest]] = None
              /\ catalog' = [catalog EXCEPT ![UrnOf[job[c].manifest]] = job[c].manifest]
<1>1. CASE UNCHANGED registry
  BY <1>1 DEF registry
<1>2. CASE RecoverFromEvents \/ \E u \in Urns : Unregister(u)
  BY <1>2, AdminKeepsGraph DEF RegistryInv
<1>3. CASE Die
  BY <1>3 DEF Die
<1>4. ASSUME NEW c \in Clients, TransitionReturned(c), ~UNCHANGED registry
      PROVE  /\ job[c].manifest \in WithUrn
             /\ job[c].skip \/ catalog[UrnOf[job[c].manifest]] = None
             /\ catalog' = [catalog EXCEPT ![UrnOf[job[c].manifest]] = job[c].manifest]
  BY <1>4 DEF TransitionReturned, WriteRegistry, RegistryInv, JobsSound, JobSound
<1>5. \/ UNCHANGED registry \/ Die \/ RecoverFromEvents
      \/ \E u \in Urns : Unregister(u)
      \/ \E c \in Clients : TransitionReturned(c)
  BY DEF Next, Rest, vars, Start, PipelineCall, Register, Continue, PipelineStep, LoadReturned,
         EventLogged, Disturb, PipelineFault, AppendFails
<1> QED BY <1>1, <1>2, <1>3, <1>4, <1>5

(* Of two racing registrations of one urn the second throws, unless it     *)
(* asked not to be checked.                                                *)
THEOREM FirstOwnerKeepsUrn == Spec => FirstOwnerStays
<1> DEFINE Skipping(u) ==
      \E c \in Clients : job[c].pc = "transition" /\ job[c].skip /\ UrnOf[job[c].manifest] = u
<1>1. ASSUME RegistryInv, [Next]_vars, NEW u \in Urns, catalog[u] # None,
             catalog'[u] \notin {catalog[u], None}
      PROVE  Skipping(u)
  <2>1. PICK c \in Clients :
          /\ TransitionReturned(c)
          /\ job[c].skip \/ catalog[UrnOf[job[c].manifest]] = None
          /\ catalog' = [catalog EXCEPT ![UrnOf[job[c].manifest]] = job[c].manifest]
    BY <1>1, CatalogChanges
  <2>2. UrnOf[job[c].manifest] = u
    BY <1>1, <2>1 DEF RegistryInv, GraphSound
  <2>3. job[c].skip /\ job[c].pc = "transition"
    BY <1>1, <2>1, <2>2 DEF TransitionReturned
  <2> QED BY <2>2, <2>3
<1>2. RegistryInv /\ [Next]_vars =>
        [\A u \in Urns :
           catalog[u] # None /\ catalog'[u] \notin {catalog[u], None} => Skipping(u)]_vars
  BY <1>1
<1> QED BY <1>2, RegistryInvariant, PTL DEF Spec, FirstOwnerStays

-----------------------------------------------------------------------------
(* Callers that take turns.  No other caller works on c's manifest m.      *)
Mine(c, m) ==
  \A d \in Clients : d # c => job[d].m # m /\ ~(Turns!Busy(d) /\ client[d].m = m)

LEMMA OwnManifests ==
  ASSUME OrchestratorInv, NEW c \in Clients
  PROVE  /\ job[c].m # None => job[c].m \in Ids /\ Mine(c, job[c].m)
         /\ Turns!Busy(c) => client[c].m \in Ids /\ Mine(c, client[c].m)
         /\ \A m \in Ids : ~ActiveOn(m) => Mine(c, m)
<1>1. job[c].m # None => job[c].m \in Ids /\ Mine(c, job[c].m)
  BY DEF OrchestratorInv, RegistryInv, JobsSound, JobSound, Job, JobsInv, Mine
<1>2. Turns!Busy(c) => client[c].m \in Ids
  BY DEF OrchestratorInv, RegistryInv, Turns!IInv, Turns!CallSound, Turns!Busy
<1>3. Turns!Busy(c) => Mine(c, client[c].m)
  BY DEF OrchestratorInv, JobsInv, Turns!TurnsInv, Mine
<1>4. \A m \in Ids : ~ActiveOn(m) => Mine(c, m)
  BY SameCalls DEF ActiveOn, Mine, Turns!BusyOn
<1> QED BY <1>1, <1>2, <1>3, <1>4

(* A step of c alone, on manifests of its own, disturbs no other caller.   *)
LEMMA StepKeepsJobs ==
  ASSUME OrchestratorInv, NEW c \in Clients,
         \A d \in Clients : d # c => job'[d] = job[d] /\ client'[d] = client[d],
         \A m \in Ids : snap'[m] = snap[m] \/ Mine(c, m),
         job'[c].m # None => Mine(c, job'[c].m),
         Turns!Busy(c)' => Mine(c, client'[c].m),
         job'[c].pc \notin {"idle", "load", "transition"} => ~Turns!Busy(c)',
         Awaits(c)'
  PROVE  JobsInv'
<1>1. \A d \in Clients : d # c => (Turns!Busy(d)' <=> Turns!Busy(d))
  BY DEF Turns!Busy
<1>2. ASSUME NEW d \in Clients
      PROVE  job'[d].pc \notin {"idle", "load", "transition"} => ~Turns!Busy(d)'
  BY <1>1 DEF OrchestratorInv, JobsInv
<1>3. ASSUME NEW d \in Clients, NEW e \in Clients, Turns!Busy(d)', client'[d].m = job'[e].m
      PROVE  d = e
  <2>1. CASE d = c /\ e # c
    BY <1>3, <2>1 DEF Mine
  <2>2. CASE d # c /\ e = c
    BY <1>1, <1>3, <2>2, OwnManifests, OrchestratorAssumptions DEF Mine
  <2>3. CASE d # c /\ e # c
    BY <1>1, <1>3, <2>3 DEF OrchestratorInv, JobsInv
  <2> QED BY <2>1, <2>2, <2>3
<1>4. ASSUME NEW d \in Clients, NEW e \in Clients, job'[d].m = job'[e].m, job'[d].m # None
      PROVE  d = e
  BY <1>4 DEF OrchestratorInv, JobsInv, Mine
<1>5. ASSUME NEW d \in Clients, d # c
      PROVE  Awaits(d)'
  <2>1. Awaits(d) /\ job'[d] = job[d] /\ client'[d] = client[d]
    BY <1>5 DEF OrchestratorInv, JobsInv
  <2>2. CASE job[d].m = None
    BY <2>1, <2>2 DEF Awaits, OrchestratorInv, RegistryInv, JobsSound, JobSound
  <2>3. CASE job[d].m # None
    <3>1. job[d].m \in Ids
      BY <2>3, OwnManifests
    <3>2. snap'[job[d].m] = snap[job[d].m]
      BY <1>5, <3>1 DEF Mine
    <3> QED BY <1>1, <1>5, <2>1, <3>2 DEF Awaits
  <2> QED BY <2>2, <2>3
<1> QED BY <1>2, <1>3, <1>4, <1>5 DEF JobsInv

(* What is registered stays catalogued as such.                            *)
LEMMA StepKeepsCatalog ==
  ASSUME CatalogInv,
         \A m \in Ids : snap[m].file = "ok" /\ snap[m].vs.state.cur = "REGISTERED" =>
           snap'[m] = snap[m],
         \A u \in Urns : \/ catalog'[u] \in {catalog[u], None}
                         \/ \E f : f = catalog'[u] /\ Registered(f)'
  PROVE  CatalogInv'
<1>1. ASSUME NEW f, Registered(f) PROVE Registered(f)'
  BY <1>1 DEF Registered
<1>2. ASSUME NEW u \in Urns, catalog'[u] # None PROVE Registered(catalog[u])'
  <2>1. PICK f : f = catalog'[u] /\ Registered(f)'
    BY <1>1, <1>2 DEF CatalogInv
  <2> QED BY <2>1 DEF Registered
<1> QED BY <1>2 DEF CatalogInv

TurnsStep == Turns!TurnsInv /\ JobsInv /\ CatalogInv

-----------------------------------------------------------------------------
(* One lemma for each action.                                              *)
LEMMA StartTurns ==
  ASSUME OrchestratorInv, Exclusive = TRUE, NEW c \in Clients, NEW m \in Ids,
         PipelineCall(c, m) \/ \E skip \in Skips : Register(c, m, skip)
  PROVE  TurnsStep'
<1>1. Enters(c, m) /\ Admit(c, m) /\ UNCHANGED registry
  BY DEF PipelineCall, Register, Enters
<1>2. Turns!Calls(c, m) /\ ~ActiveOn(m) /\ ~Active(c) /\ ~Turns!BusyOn(m)
  BY <1>1, SameCalls DEF Admit, ActiveOn
<1>3. Turns!TurnsInv'
  BY <1>2, PipelineAssumed, Turns!CallKeepsTurns DEF OrchestratorInv, RegistryInv
<1>4. /\ snap' = snap /\ client'[c].pc = "load" /\ client'[c].m = m
      /\ \A d \in Clients : d # c => client'[d] = client[d]
      /\ Turns!GetCurrentState(c, m) => client'[c].kind = "query"
  BY <1>2, PipelineAssumed, Turns!CallEntered DEF OrchestratorInv, RegistryInv
<1>5. Mine(c, m)
  BY <1>2, OwnManifests
<1>6. CASE PipelineCall(c, m)
  <2>1. job' = job /\ job[c].pc = "idle" /\ job[c].m = None
    BY <1>2, <1>6 DEF PipelineCall, Active, OrchestratorInv, RegistryInv, JobsSound, JobSound
  <2>2. JobsInv'
    BY <1>4, <1>5, <2>1, StepKeepsJobs DEF Awaits
  <2> QED BY <1>1, <1>3, <1>4, <2>2, StepKeepsCatalog
          DEF TurnsStep, OrchestratorInv, registry
<1>7. ASSUME NEW skip \in Skips, Register(c, m, skip) PROVE TurnsStep'
  <2> DEFINE j == [NoJob EXCEPT !.pc = "load", !.m = m, !.skip = skip]
  <2>1. j.pc = "load" /\ j.m = m
    BY DEF NoJob
  <2>2. job' = [job EXCEPT ![c] = j] /\ Turns!GetCurrentState(c, m)
    BY <1>7, SameCalls DEF Register, JobStep
  <2> HIDE DEF j
  <2>3. job'[c] = j /\ \A d \in Clients : d # c => job'[d] = job[d]
    BY <2>2 DEF OrchestratorInv, RegistryInv, JobsSound
  <2>4. Awaits(c)'
    BY <1>4, <2>1, <2>2, <2>3 DEF Awaits, Turns!Busy
  <2>5. JobsInv'
    BY <1>4, <1>5, <2>1, <2>3, <2>4, StepKeepsJobs
  <2> QED BY <1>1, <1>3, <1>4, <2>5, StepKeepsCatalog
          DEF TurnsStep, OrchestratorInv, registry
<1> QED BY <1>6, <1>7

(* An await of the call that register waits for, or of any other.          *)
LEMMA PipelineStepTurns ==
  ASSUME OrchestratorInv, NEW c \in Clients, PipelineStep(c)
  PROVE  TurnsStep'
<1> DEFINE j == job[c]
           k == client[c]
<1>1. Turns!Continue(c) /\ job' = job /\ UNCHANGED registry
  BY SameStep DEF PipelineStep
<1>2. Turns!IInv /\ Turns!TurnsInv /\ Turns!PipelineAssumptions
  BY PipelineAssumed DEF OrchestratorInv, RegistryInv
<1>3. Turns!TurnsInv'
  BY <1>1, <1>2, Turns!ContinueKeepsTurns
<1>4. /\ Turns!Busy(c) /\ \A d \in Clients : d # c => client'[d] = client[d]
      /\ \A m \in Ids : m # k.m => snap'[m] = snap[m]
  BY <1>1, <1>2, Turns!OthersUndisturbed
<1>5. k.m \in Ids /\ Mine(c, k.m) /\ (j.m # None => Mine(c, j.m))
  BY <1>4, OwnManifests
<1>6. Turns!Busy(c)' => client'[c].m = k.m
  BY <1>1, <1>2, Turns!OthersUndisturbed
<1>7. Awaits(c)'
  <2>1. CASE j.pc = "load"
    <3>1. k.m = j.m /\ k.kind = "query"
      BY <1>4, <2>1 DEF OrchestratorInv, JobsInv, Awaits
    <3> QED BY <1>1, <1>2, <2>1, <3>1, Turns!QueryOutcome DEF Awaits
  <2>2. CASE j.pc = "transition"
    <3> DEFINE s == snap[j.m]
               t == snap'[j.m]
    <3>1. /\ s.file = "ok" /\ s.vs.state.manifest = j.manifest
          /\ k.m = j.m /\ k.kind \in {"read", "recheck"} /\ k.ev = "register"
          /\ k.pc = "append" => s.vs.state.cur = "REGISTERED"
      BY <1>4, <2>2 DEF OrchestratorInv, JobsInv, Awaits
    <3>2. /\ t.file = "ok" /\ t.vs.state.manifest = j.manifest
          /\ Turns!Busy(c)' => /\ client'[c].m = j.m /\ client'[c].ev = "register"
                               /\ client'[c].kind \in {"read", "recheck"}
          /\ client'[c].pc = "append" =>
               \E from : <<from, "register", t.vs.state.cur>> \in Turns!Transitions
          /\ ~Turns!Busy(c)' /\ client'[c].res = "ok" => k.pc = "append" /\ t = s
      BY <1>1, <1>2, <3>1, Turns!TransitionOutcome
    <3>3. \A from, to : <<from, "register", to>> \in Turns!Transitions => to = "REGISTERED"
      BY DEF Turns!Transitions
    <3>4. client'[c].pc = "append" \/ (~Turns!Busy(c)' /\ client'[c].res = "ok") =>
            t.vs.state.cur = "REGISTERED"
      BY <3>1, <3>2, <3>3
    <3> QED BY <1>1, <2>2, <3>2, <3>4 DEF Awaits
  <2> QED BY <1>1, <2>1, <2>2 DEF Awaits
<1>8. j.pc \in {"idle", "load", "transition"}
  BY <1>4 DEF OrchestratorInv, JobsInv
<1>9. JobsInv'
  BY <1>1, <1>4, <1>5, <1>6, <1>7, <1>8, StepKeepsJobs
<1>10. \A m \in Ids : snap[m].file = "ok" /\ snap[m].vs.state.cur = "REGISTERED" =>
         snap'[m] = snap[m]
  BY <1>1, <1>2, Turns!RegisteredStays
<1> QED BY <1>1, <1>3, <1>9, <1>10, StepKeepsCatalog DEF TurnsStep, OrchestratorInv, registry

(* A step that only moves c's register call on, while none runs for it.    *)
LEMMA JobStepTurns ==
  ASSUME OrchestratorInv, NEW c \in Clients, UNCHANGED <<snap, log, client>>,
         \A d \in Clients : d # c => job'[d] = job[d],
         ~Turns!Busy(c), job'[c].m \in {job[c].m, None},
         job'[c].pc \notin {"load", "transition"}
  PROVE  Turns!TurnsInv' /\ JobsInv'
<1>1. Turns!TurnsInv'
  BY DEF OrchestratorInv, Turns!TurnsInv, Turns!Busy
<1>2. ~Turns!Busy(c)' /\ Awaits(c)' /\ (job'[c].m # None => Mine(c, job'[c].m))
  BY OwnManifests DEF Turns!Busy, Awaits
<1>3. JobsInv'
  BY <1>2, StepKeepsJobs
<1> QED BY <1>1, <1>3

LEMMA LoadReturnedTurns ==
  ASSUME OrchestratorInv, NEW c \in Clients, LoadReturned(c)
  PROVE  TurnsStep'
<1> DEFINE j == job[c]
           k == client[c]
           f == k.got.state.manifest
           n == [j EXCEPT !.pc = "transition", !.manifest = f]
           s == snap[j.m]
<1>1. j.pc = "load" /\ JobSound(j) /\ UNCHANGED registry
  BY DEF LoadReturned, OrchestratorInv, RegistryInv, JobsSound
<1>2. ~Turns!Busy(c) /\ j.m \in Ids /\ Mine(c, j.m)
  BY <1>1, SameCalls, OwnManifests DEF LoadReturned, Ready, JobSound
<1>3. CASE Throw(c) /\ UNCHANGED pvars
  <2>1. /\ job'[c].pc = "logError" /\ job'[c].m = j.m
        /\ \A d \in Clients : d # c => job'[d] = job[d]
    BY <1>1, <1>3, ThrowSound DEF OrchestratorInv, RegistryInv
  <2>2. Turns!TurnsInv' /\ JobsInv'
    BY <1>2, <1>3, <2>1, JobStepTurns DEF pvars
  <2> QED BY <1>1, <1>3, <2>2, StepKeepsCatalog DEF TurnsStep, OrchestratorInv, pvars, registry
<1>4. ASSUME k.res = "ok", f \in WithUrn, JobStep(c, n),
             Pipeline!TransitionState(c, j.m, "register", Pipeline!NoContext)
      PROVE  TurnsStep'
  <2>1. n.pc = "transition" /\ n.manifest = f /\ n.m = j.m /\ job' = [job EXCEPT ![c] = n]
    BY <1>1, <1>4 DEF JobSound, Job, JobStep
  <2> HIDE DEF n
  <2>2. job'[c] = n /\ \A d \in Clients : d # c => job'[d] = job[d]
    BY <2>1 DEF OrchestratorInv, RegistryInv, JobsSound
  <2>3. Pipeline!NoContext \in Pipeline!ContextsOf("register") /\ "register" \in Pipeline!Events
    BY DEF Pipeline!NoContext, Pipeline!ContextsOf, Pipeline!Events
  <2>4. /\ Turns!Calls(c, j.m)
        /\ Turns!TransitionState(c, j.m, "register", Pipeline!NoContext)
    BY <1>2, <1>4, <2>3, SameCalls DEF Enters
  <2>5. ~Turns!BusyOn(j.m)
    BY <1>2 DEF Mine, Turns!BusyOn
  <2>6. Turns!TurnsInv'
    BY <1>2, <2>4, <2>5, PipelineAssumed, Turns!CallKeepsTurns DEF OrchestratorInv, RegistryInv
  <2>7. /\ snap' = snap /\ client'[c].pc = "load" /\ client'[c].m = j.m
        /\ \A d \in Clients : d # c => client'[d] = client[d]
        /\ client'[c].kind = "read" /\ client'[c].ev = "register"
    BY <1>2, <2>4, PipelineAssumed, Turns!CallEntered DEF OrchestratorInv, RegistryInv
  <2>8. s.file = "ok" /\ s.vs = k.got
    BY <1>1, <1>2, <1>4 DEF OrchestratorInv, JobsInv, Awaits
  <2>9. Awaits(c)'
    BY <2>1, <2>2, <2>7, <2>8 DEF Awaits, Turns!Busy
  <2>10. JobsInv'
    BY <1>2, <2>1, <2>2, <2>7, <2>9, StepKeepsJobs
  <2> QED BY <1>1, <2>6, <2>7, <2>10, StepKeepsCatalog
          DEF TurnsStep, OrchestratorInv, registry
<1> QED BY <1>3, <1>4 DEF LoadReturned

(* The transition is over: the manifest is catalogued, and is REGISTERED.  *)
LEMMA TransitionReturnedTurns ==
  ASSUME OrchestratorInv, NEW c \in Clients, TransitionReturned(c)
  PROVE  TurnsStep'
<1> DEFINE j == job[c]
           k == client[c]
           n == [j EXCEPT !.pc = "logRegistry"]
           s == snap[j.m]
<1>1. j.pc = "transition" /\ JobSound(j) /\ UNCHANGED pvars /\ ~Turns!Busy(c) /\ j.m \in Ids
  BY SameCalls, OwnManifests
  DEF TransitionReturned, Ready, OrchestratorInv, RegistryInv, JobsSound, JobSound,
      Pipeline!Busy, Turns!Busy
<1>2. CASE Throw(c) /\ UNCHANGED registry
  <2>1. /\ job'[c].pc = "logError" /\ job'[c].m = j.m
        /\ \A d \in Clients : d # c => job'[d] = job[d]
    BY <1>1, <1>2, ThrowSound DEF OrchestratorInv, RegistryInv
  <2>2. Turns!TurnsInv' /\ JobsInv'
    BY <1>1, <2>1, JobStepTurns DEF pvars
  <2> QED BY <1>1, <1>2, <2>2, StepKeepsCatalog DEF TurnsStep, OrchestratorInv, pvars, registry
<1>3. CASE k.res = "ok" /\ WriteRegistry(j.manifest) /\ JobStep(c, n)
  <2>1. n.pc = "logRegistry" /\ n.m = j.m /\ job' = [job EXCEPT ![c] = n]
    BY <1>1, <1>3 DEF JobSound, Job, JobStep
  <2> HIDE DEF n
  <2>2. job'[c] = n /\ \A d \in Clients : d # c => job'[d] = job[d]
    BY <2>1 DEF OrchestratorInv, RegistryInv, JobsSound
  <2>3. Turns!TurnsInv' /\ JobsInv'
    BY <1>1, <2>1, <2>2, JobStepTurns DEF pvars
  <2>4. s.file = "ok" /\ s.vs.state.manifest = j.manifest /\ s.vs.state.cur = "REGISTERED"
    BY <1>1, <1>3 DEF OrchestratorInv, JobsInv, Awaits
  <2>5. PICK g : g = j.manifest /\ Registered(g)'
    <3>1. PICK f : f = j.manifest
      OBVIOUS
    <3> QED BY <1>1, <2>4, <3>1 DEF Registered, pvars
  <2>6. catalog' = [catalog EXCEPT ![UrnOf[j.manifest]] = j.manifest]
    BY <1>3 DEF WriteRegistry
  <2>7. \A u \in Urns : \/ catalog'[u] \in {catalog[u], None}
                        \/ \E f : f = catalog'[u] /\ Registered(f)'
    BY <2>5, <2>6 DEF OrchestratorInv, RegistryInv, GraphSound
  <2> QED BY <1>1, <2>3, <2>7, StepKeepsCatalog DEF TurnsStep, OrchestratorInv, pvars
<1> QED BY <1>2, <1>3 DEF TransitionReturned

LEMMA EventLoggedTurns ==
  ASSUME OrchestratorInv, NEW c \in Clients, EventLogged(c) \/ AppendFails(c)
  PROVE  TurnsStep'
<1>1. /\ UNCHANGED <<snap, log, client, registry>>
      /\ job[c].pc \in {"logRegistry", "logIntegration", "logError"} /\ JobSound(job[c])
  BY DEF EventLogged, AppendFails, pvars, OrchestratorInv, RegistryInv, JobsSound
<1>2. ~Turns!Busy(c)
  BY <1>1 DEF OrchestratorInv, JobsInv
<1>3. /\ job'[c].m \in {job[c].m, None} /\ job'[c].pc \notin {"load", "transition"}
      /\ \A d \in Clients : d # c => job'[d] = job[d]
  <2>1. CASE Throw(c)
    BY <1>1, <2>1, ThrowSound DEF OrchestratorInv, RegistryInv
  <2>2. CASE JobStep(c, NoJob)
    BY <2>2 DEF JobStep, NoJob, OrchestratorInv, RegistryInv, JobsSound
  <2>3. CASE JobStep(c, [job[c] EXCEPT !.pc = "logIntegration"])
    BY <1>1, <2>3 DEF JobStep, JobSound, Job, OrchestratorInv, RegistryInv, JobsSound
  <2> QED BY <2>1, <2>2, <2>3 DEF EventLogged, AppendFails
<1>4. Turns!TurnsInv' /\ JobsInv'
  BY <1>1, <1>2, <1>3, JobStepTurns
<1> QED BY <1>1, <1>4, StepKeepsCatalog DEF TurnsStep, OrchestratorInv, registry

LEMMA UnchangedTurns ==
  ASSUME OrchestratorInv, UNCHANGED <<snap, log, client, job>>
  PROVE  Turns!TurnsInv' /\ JobsInv'
<1>1. \A c \in Clients : Turns!Busy(c)' <=> Turns!Busy(c)
  BY DEF Turns!Busy
<1>2. Turns!TurnsInv'
  BY <1>1 DEF OrchestratorInv, Turns!TurnsInv
<1>3. \A c \in Clients : Awaits(c)'
  BY <1>1 DEF OrchestratorInv, JobsInv, Awaits
<1> QED BY <1>1, <1>2, <1>3 DEF OrchestratorInv, JobsInv

LEMMA AdminTurns ==
  ASSUME OrchestratorInv, RecoverFromEvents \/ \E u \in Urns : Unregister(u)
  PROVE  TurnsStep'
<1>1. UNCHANGED <<snap, log, client, job>>
  BY DEF RecoverFromEvents, Unregister, AdminCall
<1>2. \A u \in Urns : catalog'[u] \in {catalog[u], None}
  BY AdminKeepsGraph DEF OrchestratorInv, RegistryInv
<1> QED BY <1>1, <1>2, UnchangedTurns, StepKeepsCatalog DEF TurnsStep, OrchestratorInv

LEMMA PipelineFaultTurns ==
  ASSUME OrchestratorInv, NEW c \in Clients, PipelineFault(c)
  PROVE  TurnsStep'
<1>1. Turns!Abort(c) /\ job' = job /\ UNCHANGED registry
  BY SameStep DEF PipelineFault
<1>2. Turns!TurnsInv'
  BY <1>1, PipelineAssumed, Turns!AbortKeepsTurns DEF OrchestratorInv, RegistryInv
<1>3. /\ Turns!Busy(c) /\ snap' = snap
      /\ client' = [client EXCEPT ![c] = [Turns!NoCall EXCEPT !.res = "error"]]
  BY <1>1 DEF Turns!Abort, Turns!Fail, Turns!Step
<1>4. /\ client'[c].pc = "idle" /\ client'[c].res = "error"
      /\ \A d \in Clients : d # c => client'[d] = client[d]
  BY <1>3 DEF OrchestratorInv, RegistryInv, Turns!IInv, Turns!NoCall
<1>5. ~Turns!Busy(c)'
  BY <1>4 DEF Turns!Busy
<1>6. Awaits(c)'
  BY <1>1, <1>3, <1>4, <1>5 DEF Awaits, OrchestratorInv, JobsInv
<1>7. JobsInv'
  BY <1>1, <1>3, <1>4, <1>5, <1>6, OwnManifests, StepKeepsJobs
<1> QED BY <1>1, <1>2, <1>3, <1>7, StepKeepsCatalog DEF TurnsStep, OrchestratorInv, registry

(* The process dies: nothing is catalogued and nothing is under way.       *)
LEMMA DieTurns ==
  ASSUME OrchestratorInv, Die
  PROVE  TurnsStep'
<1>1. PICK torn \in SUBSET {m \in Ids : Appending(m)} :
        log' = [m \in Ids |-> [log[m] EXCEPT !.torn = @ \/ m \in torn]]
  BY DEF Die
<1>2. \A c \in Clients : client'[c].pc = "idle" /\ client'[c].attempt = 0
  BY DEF Die, Pipeline!NoCall
<1>3. \A c \in Clients : ~Turns!Busy(c)'
  BY <1>2 DEF Turns!Busy
<1>4. ASSUME NEW m \in Ids PROVE Turns!FileSound(snap'[m], log'[m])
  <2>1. Turns!FileSound(snap[m], log[m]) /\ log[m] \in Turns!EventLog /\ snap' = snap
    BY DEF OrchestratorInv, RegistryInv, Turns!TurnsInv, Turns!IInv, Die
  <2>2. log'[m] = [log[m] EXCEPT !.torn = @ \/ m \in torn]
    BY <1>1
  <2>3. log'[m].torn \/ log'[m] = log[m]
    BY <2>1, <2>2 DEF Turns!EventLog
  <2> QED BY <2>1, <2>2, <2>3 DEF Turns!FileSound, Turns!EventLog
<1>5. Turns!TurnsInv'
  BY <1>2, <1>3, <1>4 DEF Turns!TurnsInv
<1>6. \A c \in Clients : job'[c].pc = "idle" /\ job'[c].m = None
  BY DEF Die, NoJob
<1>7. JobsInv'
  BY <1>3, <1>6 DEF JobsInv, Awaits
<1>8. CatalogInv'
  BY DEF Die, CatalogInv
<1> QED BY <1>5, <1>7, <1>8 DEF TurnsStep

LEMMA StepKeepsTurns ==
  ASSUME OrchestratorInv, Exclusive = TRUE, [Next]_vars
  PROVE  OrchestratorInv'
<1> SUFFICES TurnsStep'
  BY RegistryStep DEF TurnsStep, OrchestratorInv
<1>1. CASE UNCHANGED vars
  BY <1>1, UnchangedTurns, StepKeepsCatalog
  DEF vars, pvars, registry, TurnsStep, OrchestratorInv
<1>2. CASE \E c \in Clients : Start(c)
  BY <1>2, StartTurns DEF Start
<1>3. CASE \E c \in Clients : Continue(c)
  BY <1>3, PipelineStepTurns, LoadReturnedTurns, TransitionReturnedTurns, EventLoggedTurns
  DEF Continue
<1>4. CASE RecoverFromEvents \/ \E u \in Urns : Unregister(u)
  BY <1>4, AdminTurns
<1>5. CASE Disturb
  BY <1>5, DieTurns, PipelineFaultTurns, EventLoggedTurns DEF Disturb
<1> QED BY <1>1, <1>2, <1>3, <1>4, <1>5 DEF Next, Rest

LEMMA InitTurns == Init => OrchestratorInv
<1> SUFFICES ASSUME Init PROVE OrchestratorInv
  OBVIOUS
<1>1. RegistryInv
  BY InitRegistry
<1>2. Turns!TurnsInv
  BY SameInit, PipelineAssumed, Turns!InitTurns DEF Init
<1>3. \A c \in Clients : ~Turns!Busy(c)
  BY SameInit DEF Init, Turns!Init, Turns!Busy, Turns!NoCall
<1>4. \A c \in Clients : job[c].pc = "idle" /\ job[c].m = None
  BY DEF Init, NoJob
<1>5. JobsInv
  BY <1>3, <1>4 DEF JobsInv, Awaits
<1>6. CatalogInv
  BY DEF Init, CatalogInv
<1> QED BY <1>1, <1>2, <1>5, <1>6 DEF OrchestratorInv

THEOREM OrchestratorInvariant == ASSUME Exclusive = TRUE PROVE Spec => []OrchestratorInv
<1>1. OrchestratorInv /\ [Next]_vars => OrchestratorInv'
  BY StepKeepsTurns
<1> QED BY <1>1, InitTurns, PTL DEF Spec

(* Whatever fails on the way, and wherever the process dies, a manifest in *)
(* the catalog is stored as REGISTERED, when callers take turns.           *)
THEOREM CatalogIsRegistered ==
  ASSUME Exclusive = TRUE PROVE Spec => []CataloguedIsRegistered
<1>1. OrchestratorInv => CataloguedIsRegistered
  BY DEF OrchestratorInv, CatalogInv, Registered, CataloguedIsRegistered,
         Pipeline!Valid, Pipeline!Stored
<1> QED BY <1>1, OrchestratorInvariant, PTL
=============================================================================
