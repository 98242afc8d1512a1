---------------------- MODULE RegistrationOrchestrator ----------------------
(***************************************************************************)
(* registration-orchestrator.js with registry-writer.js and the catalog    *)
(* adapter: the pipeline's files on one side, the in-memory catalog and    *)
(* protocol graph of one process on the other, and the register operation  *)
(* that is meant to change both.                                           *)
(*                                                                         *)
(* All callers live in one process.  When a pipeline call returns, the     *)
(* orchestrator's continuation runs as a microtask, before any other file  *)
(* operation completes or any other call starts.                           *)
(***************************************************************************)
EXTENDS Naturals, LifecycleTable

CONSTANTS
  Clients, Ids, Manifests, WithUrn, Reviewers, None, MaxAttempts, Exclusive,
  Faults,       (* the pipeline's "abort", and the process's "die"         *)
  MaxOps, MaxFaults,
  Urns,         (* the urns manifests and dependencies name                *)
  WellFormed,   (* those the protocol graph takes for a urn                *)
  UrnOf,        (* UrnOf[f]: the urn of a manifest that has one            *)
  DepsOf,       (* DepsOf[f]: the urns it depends on                       *)
  Skips,        (* the values of skipConflictCheck callers pass            *)
  Admin         (* which of "unregister", "recover" are called             *)

ASSUME OrchestratorAssumptions ==
  /\ WithUrn \subseteq Manifests
  /\ None \notin Ids \cup Manifests \cup Reviewers
  /\ None \notin States /\ None \notin Events /\ None \notin Transitions
  /\ MaxAttempts \in Nat \ {0}
  /\ Exclusive \in BOOLEAN
  /\ Faults \subseteq {"abort", "die"}
  /\ MaxOps \in Nat /\ MaxFaults \in Nat
  /\ WellFormed \subseteq Urns
  /\ UrnOf \in [WithUrn -> Urns]
  /\ DepsOf \in [WithUrn -> SUBSET Urns]
  /\ Skips \subseteq BOOLEAN
  /\ Admin \subseteq {"unregister", "recover"}

VARIABLES
  snap, log, client, ops, faults,   (* the pipeline's                       *)
  job,          (* job[c]: the register operation c is in                  *)
  catalog,      (* catalog[u]: the manifest catalogued under u, or None    *)
  node,         (* node[u]: u's node in the protocol graph                 *)
  edges,        (* the DEPENDS_ON edges <<from, to>>                       *)
  severed       (* history: edges lost since with the node they went to    *)

pvars == <<snap, log, client, ops, faults>>
registry == <<catalog, node, edges, severed>>
vars == <<pvars, job, registry>>

Pipeline == INSTANCE RegistrationPipeline WITH Faults <- Faults \ {"die"}

-----------------------------------------------------------------------------
(*   pc   "load"            the manifest is being loaded                   *)
(*        "transition"      the pipeline's REGISTER transition runs        *)
(*        "logRegistry"     the writer's completion event is appended      *)
(*        "logIntegration"  the orchestrator's own event is appended       *)
(*        "logError"        the error event is appended                    *)
Job == [ pc : {"idle", "load", "transition", "logRegistry", "logIntegration",
               "logError"},
         m : Ids \cup {None}, manifest : WithUrn \cup {None}, skip : BOOLEAN ]
NoJob == [pc |-> "idle", m |-> None, manifest |-> None, skip |-> FALSE]

JobStep(c, j) == job' = [job EXCEPT ![c] = j]
Throw(c) == JobStep(c, [job[c] EXCEPT !.pc = "logError"])

Ready(c) == job[c].pc \in {"load", "transition"} /\ ~Pipeline!Busy(c)
NoMicrotask == \A c \in Clients : ~Ready(c)

Active(c) == job[c].pc # "idle" \/ Pipeline!Busy(c)
ActiveOn(m) == Pipeline!BusyOn(m) \/ \E c \in Clients : job[c].m = m

Init ==
  /\ Pipeline!Init
  /\ job = [c \in Clients |-> NoJob]
  /\ catalog = [u \in Urns |-> None]
  /\ node = [u \in Urns |-> "none"]
  /\ edges = {} /\ severed = {}

-----------------------------------------------------------------------------
(* Entry points.  initialize accepts only what validateManifest does.      *)

Admit(c, m) ==
  /\ NoMicrotask
  /\ ~Active(c)
  /\ Exclusive => ~ActiveOn(m)
  /\ ops < MaxOps
  /\ ops' = ops + 1

PipelineCall(c, m) ==
  /\ Admit(c, m)
  /\ \/ \E f \in WithUrn : Pipeline!Initialize(c, m, f)
     \/ \E e \in Pipeline!Events \ {"register"} :
          \E ctx \in Pipeline!ContextsOf(e) : Pipeline!TransitionState(c, m, e, ctx)
     \/ Pipeline!GetCurrentState(c, m)
  /\ UNCHANGED <<job, registry>>

Register(c, m, skip) ==
  /\ Admit(c, m)
  /\ Pipeline!GetCurrentState(c, m)
  /\ JobStep(c, [NoJob EXCEPT !.pc = "load", !.m = m, !.skip = skip])
  /\ UNCHANGED registry

(* One file operation of the pipeline completes.                           *)
PipelineStep(c) ==
  /\ NoMicrotask
  /\ Pipeline!Continue(c)
  /\ UNCHANGED <<job, registry>>

-----------------------------------------------------------------------------
(* The continuations of register.                                          *)

(* The edges f's registration adds: none unless the graph accepts its urn  *)
(* for a node, and then only to the urns it accepts.                       *)
EdgesOf(f) == ({UrnOf[f]} \cap WellFormed) \X (DepsOf[f] \cap WellFormed)

(* Mutant: the catalog maps the urn to itself.                             *)
WriteUrn(f) ==
  /\ catalog' = [catalog EXCEPT ![UrnOf[f]] = UrnOf[f]]
  /\ node' = [v \in Urns |->
       CASE node[v] # "none"               -> node[v]
         [] v \in {UrnOf[f]} \cap WellFormed -> "full"
         [] v \in {e[2] : e \in EdgesOf(f)}  -> "placeholder"
         [] OTHER                          -> "none"]
  /\ edges' = edges \cup EdgesOf(f)
  /\ severed' = severed \ EdgesOf(f)

(* registryWriter.register up to its first await: check again, add to the  *)
(* catalog, then the node, a placeholder for each unknown dependency, and  *)
(* the edges.  A node that exists is left as it is.  What addNode throws   *)
(* at an ill-formed urn is swallowed: the manifest stays catalogued, and   *)
(* that node and the edges at it are missing.                              *)
WriteRegistry(f) ==
  /\ catalog' = [catalog EXCEPT ![UrnOf[f]] = f]
  /\ node' = [v \in Urns |->
       CASE node[v] # "none"               -> node[v]
         [] v \in {UrnOf[f]} \cap WellFormed -> "full"
         [] v \in {e[2] : e \in EdgesOf(f)}  -> "placeholder"
         [] OTHER                          -> "none"]
  /\ edges' = edges \cup EdgesOf(f)
  /\ severed' = severed \ EdgesOf(f)

(* Mutant: the registry is updated before the transition.                  *)
LoadReturnedWritesFirst(c) ==
  LET j == job[c]
      f == client[c].got.state.manifest
      free == f \in WithUrn /\ (j.skip \/ catalog[UrnOf[f]] = None)
      proceed == client[c].res = "ok" /\ free
  IN
  /\ Ready(c) /\ j.pc = "load"
  /\ \/ /\ ~proceed /\ Throw(c)
        /\ UNCHANGED <<pvars, registry>>
     \/ /\ proceed
        /\ Pipeline!TransitionState(c, j.m, "register", Pipeline!NoContext)
        /\ JobStep(c, [j EXCEPT !.pc = "transition", !.manifest = f])
        /\ WriteRegistry(f)
        /\ UNCHANGED ops

(* The manifest is loaded: check for a conflict, start the transition.     *)
LoadReturned(c) ==
  LET j == job[c]
      f == client[c].got.state.manifest
      free == f \in WithUrn /\ (j.skip \/ catalog[UrnOf[f]] = None)
      proceed == client[c].res = "ok" /\ free
  IN
  /\ Ready(c) /\ j.pc = "load"
  /\ \/ /\ ~proceed /\ Throw(c)
        /\ UNCHANGED pvars
     \/ /\ proceed
        /\ Pipeline!TransitionState(c, j.m, "register", Pipeline!NoContext)
        /\ JobStep(c, [j EXCEPT !.pc = "transition", !.manifest = f])
        /\ UNCHANGED ops
  /\ UNCHANGED registry

(* Mutants: the writer relies on the first conflict check; a failed        *)
(* transition is not passed on.                                            *)
TransitionReturnedUnchecked(c) ==
  LET j == job[c]
      proceed == client[c].res = "ok"
  IN
  /\ Ready(c) /\ j.pc = "transition"
  /\ \/ /\ ~proceed /\ Throw(c)
        /\ UNCHANGED registry
     \/ /\ proceed
        /\ WriteRegistry(j.manifest)
        /\ JobStep(c, [j EXCEPT !.pc = "logRegistry"])
  /\ UNCHANGED pvars
TransitionReturnedSwallowed(c) ==
  LET j == job[c] IN
  /\ Ready(c) /\ j.pc = "transition"
  /\ client[c].res = "ok" /\ (j.skip \/ catalog[UrnOf[j.manifest]] = None)
  /\ WriteRegistry(j.manifest)
  /\ JobStep(c, [j EXCEPT !.pc = "logRegistry"])
  /\ UNCHANGED pvars

TransitionReturned(c) ==
  LET j == job[c]
      u == UrnOf[j.manifest]
      proceed == client[c].res = "ok" /\ (j.skip \/ catalog[u] = None)
  IN
  /\ Ready(c) /\ j.pc = "transition"
  /\ \/ /\ ~proceed /\ Throw(c)
        /\ UNCHANGED registry
     \/ /\ proceed
        /\ WriteRegistry(j.manifest)
        /\ JobStep(c, [j EXCEPT !.pc = "logRegistry"])
  /\ UNCHANGED pvars

(* The events register logs itself change nothing that replay reads.       *)
EventLogged(c) ==
  /\ NoMicrotask
  /\ \/ job[c].pc = "logRegistry"
        /\ JobStep(c, [job[c] EXCEPT !.pc = "logIntegration"])
     \/ job[c].pc \in {"logIntegration", "logError"} /\ JobStep(c, NoJob)
  /\ UNCHANGED <<pvars, registry>>

-----------------------------------------------------------------------------
(* The rest of the writer's interface.                                     *)

AdminCall(kind) ==
  /\ kind \in Admin
  /\ NoMicrotask
  /\ ops < MaxOps
  /\ ops' = ops + 1
  /\ UNCHANGED <<snap, log, client, faults, job>>

(* Mutant: the edges of a dropped node stay.                               *)
UnregisterNodeOnly(u) ==
  /\ AdminCall("unregister")
  /\ catalog' = [catalog EXCEPT ![u] = None]
  /\ node' = [node EXCEPT ![u] = "none"]
  /\ UNCHANGED <<edges, severed>>

(* Dropping a node drops the edges at both its ends.  What depended on it  *)
(* stays catalogued, and is not connected to it again when it comes back.  *)
Unregister(u) ==
  /\ AdminCall("unregister")
  /\ catalog' = [catalog EXCEPT ![u] = None]
  /\ node' = [node EXCEPT ![u] = "none"]
  /\ edges' = {e \in edges : u \notin {e[1], e[2]}}
  /\ severed' = severed \cup {e \in edges : e[2] = u}

RecoverFromEvents ==
  /\ AdminCall("recover")
  /\ catalog' = [u \in Urns |-> None]
  /\ node' = [u \in Urns |-> "none"]
  /\ edges' = {} /\ severed' = {}

-----------------------------------------------------------------------------
(* Faults: a file operation rejects, or the process dies.                  *)

PipelineFault(c) ==
  /\ NoMicrotask
  /\ Pipeline!Abort(c)
  /\ UNCHANGED <<job, registry>>

AppendFails(c) ==
  /\ NoMicrotask
  /\ "abort" \in Faults /\ faults < MaxFaults /\ faults' = faults + 1
  /\ \/ job[c].pc \in {"logRegistry", "logIntegration"} /\ Throw(c)
     \/ job[c].pc = "logError" /\ JobStep(c, NoJob)
  /\ UNCHANGED <<snap, log, client, ops, registry>>

Appending(m) ==
  \E c \in Clients :
    \/ client[c].pc = "append" /\ client[c].m = m
    \/ job[c].pc \in {"logRegistry", "logIntegration", "logError"} /\ job[c].m = m

(* The files survive, with any append under way perhaps torn; the catalog, *)
(* the graph and every call are gone.                                      *)
Die ==
  /\ "die" \in Faults /\ faults < MaxFaults /\ faults' = faults + 1
  /\ \E torn \in SUBSET {m \in Ids : Appending(m)} :
       log' = [m \in Ids |-> [log[m] EXCEPT !.torn = @ \/ m \in torn]]
  /\ client' = [c \in Clients |-> Pipeline!NoCall]
  /\ job' = [c \in Clients |-> NoJob]
  /\ catalog' = [u \in Urns |-> None]
  /\ node' = [u \in Urns |-> "none"]
  /\ edges' = {} /\ severed' = {}
  /\ UNCHANGED <<snap, ops>>

-----------------------------------------------------------------------------
Continue(c) ==
  PipelineStep(c) \/ LoadReturned(c) \/ TransitionReturned(c) \/ EventLogged(c)

Start(c) ==
  \E m \in Ids : PipelineCall(c, m) \/ \E skip \in Skips : Register(c, m, skip)

Disturb == Die \/ \E c \in Clients : PipelineFault(c) \/ AppendFails(c)

Rest == ops = MaxOps /\ (\A c \in Clients : ~Active(c)) /\ UNCHANGED vars

Next ==
  \/ \E c \in Clients : Start(c) \/ Continue(c)
  \/ \E u \in Urns : Unregister(u)
  \/ RecoverFromEvents
  \/ Disturb
  \/ Rest

Spec == Init /\ [][Next]_vars

FairSpec == Spec /\ \A c \in Clients : WF_vars(Continue(c))

-----------------------------------------------------------------------------
(* Properties.                                                             *)

(* Every variable holds values of the shape the code gives it.             *)
TypeOK ==
  /\ Pipeline!TypeOK
  /\ job \in [Clients -> Job]
  /\ catalog \in [Urns -> WithUrn \cup {None}]
  /\ node \in [Urns -> {"none", "placeholder", "full"}]
  /\ edges \cup severed \subseteq Urns \X Urns

(* A catalogued manifest is replaced by another only in the turn in which  *)
(* a register call that skips the conflict check writes: the writer        *)
(* repeats the check, so of two racing registrations of one urn the second *)
(* throws.                                                                 *)
FirstOwnerStays ==
  [][\A u \in Urns :
       catalog[u] # None /\ catalog'[u] \notin {catalog[u], None} =>
         \E c \in Clients :
           job[c].pc = "transition" /\ job[c].skip /\ UrnOf[job[c].manifest] = u]_vars

(* When callers take turns on each manifest, nothing is catalogued that    *)
(* is not stored as REGISTERED, whatever fails on the way.                 *)
CataloguedIsRegistered ==
  \A u \in Urns : catalog[u] # None =>
    \E m \in Ids :
      /\ Pipeline!Valid(m)
      /\ Pipeline!Stored(m).cur = "REGISTERED"
      /\ Pipeline!Stored(m).manifest = catalog[u]

(* No edge dangles.  A catalogued manifest has a node and its edges as far *)
(* as the graph accepts the urns: one whose own urn is ill-formed has none *)
(* of it, and any other has a node and each edge to a well-formed urn,     *)
(* unless that urn has been unregistered since.                            *)
GraphFollowsCatalog ==
  /\ \A e \in edges : node[e[1]] # "none" /\ node[e[2]] # "none"
  /\ \A u \in Urns : catalog[u] # None =>
       /\ u \in WellFormed <=> node[u] # "none"
       /\ u \in WellFormed =>
            \A d \in DepsOf[catalog[u]] \cap WellFormed : <<u, d>> \in edges \cup severed

(* Every register call returns or throws, after logging which.             *)
EveryRegisterReturns == \A c \in Clients : job[c].pc # "idle" ~> job[c].pc = "idle"

-----------------------------------------------------------------------------
(* Claims of the sources that the code does not keep.                      *)

(* registration-orchestrator.js:9, register "atomically" transitions and   *)
(* updates the catalog: a REGISTERED manifest that no call is working on   *)
(* is in the catalog.                                                      *)
RegisteredIsCatalogued ==
  \A m \in Ids :
    LET s == Pipeline!Stored(m) IN
    Pipeline!Valid(m) /\ s.cur = "REGISTERED" /\ ~ActiveOn(m) =>
      catalog[UrnOf[s.manifest]] = s.manifest
=============================================================================
