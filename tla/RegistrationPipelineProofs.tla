--------------------- MODULE RegistrationPipelineProofs ---------------------
(***************************************************************************)
(* What RegistrationPipeline guarantees under every interleaving and every *)
(* fault, for any number of clients, manifests, calls and retries: its     *)
(* type invariant, and that what is stored carries the evidence the guards *)
(* asked for.                                                              *)
(*                                                                         *)
(* The snapshot alone does not tell why this holds.  A stored state comes  *)
(* from a call's computed state, which comes from a stored state some      *)
(* reads ago, or from replaying the log, which calls extend long after     *)
(* they computed.  So the invariant IInv says the same of every place a    *)
(* state travels through.                                                  *)
(***************************************************************************)
EXTENDS RegistrationPipeline, TLAPS

Sound(s) == Reviewed(s) /\ Provenance(s)

(* The context carries what the event about to be logged needs.            *)
Carried(k) ==
  /\ k.next.state.cur = "APPROVED" => k.ctx.reviewer # None /\ k.ctx.notes
  /\ k.next.state.cur = "REJECTED" => k.ctx.reason

CallSound(k) ==
  /\ k \in Call
  /\ Sound(k.next.state)
  /\ Sound(k.got.state)
  /\ k.kind = "recheck" => Carried(k)
  /\ k.pc \in {"commit", "append"} => k.kind \in {"init", "recheck"}
  /\ k.pc # "idle" => k.m \in Ids
  /\ k.kind \in {"read", "recheck"} => k.ev \in Events

IInv ==
  /\ snap \in [Ids -> Snapshot]
  /\ log \in [Ids -> EventLog]
  /\ client \in [Clients -> Call]
  /\ ops \in 0 .. MaxOps
  /\ faults \in 0 .. MaxFaults
  /\ \A m \in Ids : Sound(snap[m].vs.state)
  /\ \A m \in Ids : Reviewed(log[m])
  /\ \A c \in Clients : CallSound(client[c])

-----------------------------------------------------------------------------
(* Values.                                                                 *)

(* The constants of the model have the types the variables are given.      *)
LEMMA ConstantTypes ==
  /\ EmptyState \in ManifestState
  /\ Absent \in Versioned
  /\ NoFile \in Snapshot
  /\ Corrupted \in Snapshot
  /\ EmptyLog \in EventLog
  /\ NoContext \in Context
<1>1. EmptyState \in ManifestState
  BY DEF EmptyState, ManifestState
<1>2. Absent \in Versioned
  BY <1>1 DEF Absent, Versioned
<1>3. NoFile \in Snapshot /\ Corrupted \in Snapshot
  BY <1>2 DEF NoFile, Corrupted, Snapshot
<1>4. EmptyLog \in EventLog
  BY DEF EmptyLog, EventLog
<1>5. NoContext \in Context
  BY DEF NoContext, Context
<1> QED BY <1>1, <1>2, <1>3, <1>4, <1>5

LEMMA NoCallSound == CallSound(NoCall) /\ NoCall \in Call
<1>1. NoCall \in Call
  BY ConstantTypes DEF NoCall, Call
<1>2. Sound(EmptyState)
  BY PipelineAssumptions DEF EmptyState, Sound, Reviewed, Provenance, States
<1> QED BY <1>1, <1>2 DEF NoCall, Absent, CallSound

(* What a transition computes from a sound state is sound, and its context *)
(* carries the evidence the log will need.                                 *)
LEMMA AfterSound ==
  ASSUME NEW s \in ManifestState, Sound(s), NEW e \in Events, NEW ctx \in Context,
         NEW r \in AllowedRows(s, e, ctx)
  PROVE  /\ After(s, r, ctx) \in ManifestState
         /\ Sound(After(s, r, ctx))
         /\ r[3] = "APPROVED" => ctx.reviewer # None /\ ctx.notes
         /\ r[3] = "REJECTED" => ctx.reason
<1> DEFINE t == After(s, r, ctx)
<1>1. /\ r \in Transitions /\ r[1] = s.cur /\ r[2] = e
      /\ GuardAllows(e, s.manifest, ctx)
  BY DEF AllowedRows
<1>2. /\ r[3] \in States
      /\ r[3] = "APPROVED" => r[2] = "approve"
      /\ r[3] = "REJECTED" => r[2] = "reject"
      /\ r[3] = "REGISTERED" => r[1] = "APPROVED" /\ r[2] = "register"
  BY <1>1 DEF Transitions, States
<1>3. t \in ManifestState
  BY <1>1, <1>2 DEF After, ManifestState, Context
<1>4. /\ r[3] = "APPROVED" => ctx.reviewer # None /\ ctx.notes
      /\ r[3] = "REJECTED" => ctx.reason
  BY <1>1, <1>2 DEF GuardAllows
<1>5. Reviewed(t)
  BY <1>4 DEF After, Reviewed, ManifestState, Context
<1>6. Provenance(t)
  <2> SUFFICES ASSUME r[3] = "REGISTERED"
               PROVE  t.reviewer # None /\ t.notes /\ t.manifest \in WithUrn
    BY <1>1 DEF After, Provenance
  <2>1. s.reviewer # None /\ s.notes
    BY <1>1, <1>2 DEF Sound, Reviewed
  <2>2. s.manifest \in WithUrn
    BY <1>1, <1>2 DEF GuardAllows
  <2> QED BY <2>1, <2>2 DEF After, ManifestState, Context
<1> QED BY <1>3, <1>4, <1>5, <1>6 DEF Sound

LEMMA CreatedSound ==
  ASSUME NEW f \in Manifests \cup {None}
  PROVE  Created(f) \in Versioned /\ Sound(Created(f).state)
<1>1. Created(f).state \in ManifestState
  BY DEF Created, EmptyState, ManifestState, InitialState, States
<1>2. Created(f).version \in Nat
  BY DEF Created
<1>3. Sound(Created(f).state)
  BY DEF Created, EmptyState, InitialState, Sound, Reviewed, Provenance
<1> QED BY <1>1, <1>2, <1>3 DEF Created, Versioned

(* Recovery yields a state that has passed no transition since.            *)
LEMMA RecoveredSound ==
  ASSUME NEW l \in EventLog, Reviewed(l), NEW initial \in {None, InitialState}
  PROVE  Recovered(l, initial) \in Versioned /\ Sound(Recovered(l, initial).state)
<1> DEFINE s == Recovered(l, initial).state
<1>1. s \in ManifestState
  BY DEF Recovered, EventLog, ManifestState, InitialState, States
<1>2. Reviewed(s)
  BY PipelineAssumptions DEF Recovered, Reviewed, EventLog, InitialState, States
<1>3. Provenance(s)
  BY DEF Recovered, Provenance
<1>4. Recovered(l, initial) \in Versioned
  BY <1>1 DEF Recovered, Versioned
<1> QED BY <1>2, <1>3, <1>4 DEF Sound

(* The log stays sound when a sound call appends to it.                    *)
LEMMA LoggedSound ==
  ASSUME NEW l \in EventLog, Reviewed(l), NEW k, CallSound(k), k.pc = "append"
  PROVE  Logged(l, k) \in EventLog /\ Reviewed(Logged(l, k))
<1>1. CASE l.torn
  BY <1>1 DEF Logged
<1>2. CASE ~l.torn /\ k.kind = "init"
  BY <1>2 DEF Logged, EventLog, Reviewed
<1>3. CASE ~l.torn /\ k.kind # "init"
  <2>1. k.kind = "recheck" /\ Carried(k) /\ k \in Call
    BY <1>3 DEF CallSound
  <2>2. /\ k.next.state.cur \in States \cup {None}
        /\ k.ctx.reviewer \in Reviewers \cup {None}
        /\ k.ctx.notes \in BOOLEAN /\ k.ctx.reason \in BOOLEAN
    BY <2>1 DEF Call, Versioned, ManifestState, Context
  <2> DEFINE n == Logged(l, k)
  <2>3. n = [ events   |-> l.events + 1,
              cur      |-> k.next.state.cur,
              reviewer |-> IF k.ctx.reviewer # None THEN k.ctx.reviewer
                           ELSE l.reviewer,
              notes    |-> l.notes \/ k.ctx.notes,
              reason   |-> l.reason \/ k.ctx.reason,
              torn     |-> l.torn ]
    BY <1>3 DEF Logged, EventLog
  <2>4. n \in EventLog
    BY <2>2, <2>3 DEF EventLog
  <2>5. Reviewed(n)
    BY <2>1, <2>2, <2>3 DEF Reviewed, Carried
  <2> QED BY <2>4, <2>5
<1> QED BY <1>1, <1>2, <1>3

(* A call that moves to a sound call keeps the client part of IInv.        *)
LEMMA StepSound ==
  ASSUME client \in [Clients -> Call], \A d \in Clients : CallSound(client[d]),
         NEW c \in Clients, NEW k, CallSound(k), Step(c, k)
  PROVE  client' \in [Clients -> Call] /\ \A d \in Clients : CallSound(client'[d])
BY DEF Step, CallSound

LEMMA FailSound == CallSound([NoCall EXCEPT !.res = "error"])
<1> DEFINE k == [NoCall EXCEPT !.res = "error"]
<1>1. k \in Call
  BY NoCallSound DEF Call
<1>2. /\ k.next = NoCall.next /\ k.got = NoCall.got /\ k.kind = NoCall.kind
      /\ k.pc = NoCall.pc
  BY DEF NoCall
<1> QED BY <1>1, <1>2, NoCallSound DEF CallSound, NoCall

LEMMA ReturnSound ==
  ASSUME NEW vs \in Versioned, Sound(vs.state)
  PROVE  CallSound([NoCall EXCEPT !.res = "ok", !.got = vs])
<1> DEFINE k == [NoCall EXCEPT !.res = "ok", !.got = vs]
<1>1. k \in Call
  BY NoCallSound DEF Call
<1>2. /\ k.next = NoCall.next /\ k.got = vs /\ k.kind = NoCall.kind
      /\ k.pc = NoCall.pc
  BY DEF NoCall
<1> QED BY <1>1, <1>2, NoCallSound DEF CallSound, NoCall

-----------------------------------------------------------------------------
(* What a read leads to.  In each lemma c is a busy call, and vs what its  *)
(* read returned.                                                          *)

ClientsSound ==
  client \in [Clients -> Call] /\ \A d \in Clients : CallSound(client[d])

LEMMA InitializeReadSound ==
  ASSUME ClientsSound, NEW c \in Clients, client[c].pc # "idle",
         NEW vs \in Versioned, Sound(vs.state), InitializeRead(c, vs)
  PROVE  ClientsSound'
<1> DEFINE k == client[c]
           n == [k EXCEPT !.pc = "commit", !.corrupt = FALSE, !.got = Absent,
                          !.next = Created(k.ctx.manifest)]
<1>1. CASE Fail(c)
  BY <1>1, FailSound, StepSound DEF Fail, ClientsSound
<1>2. CASE Step(c, n)
  <2>1. k \in Call /\ CallSound(k) /\ k.kind = "init"
    BY DEF ClientsSound, InitializeRead
  <2>2. Created(k.ctx.manifest) \in Versioned /\ Sound(Created(k.ctx.manifest).state)
    BY <2>1, CreatedSound DEF Call, Context
  <2>3. n \in Call
    BY <2>1, <2>2, ConstantTypes DEF Call
  <2>4. Sound(Absent.state)
    BY NoCallSound DEF CallSound, NoCall
  <2>5. CallSound(n)
    BY <2>1, <2>2, <2>3, <2>4 DEF CallSound, Call
  <2> QED BY <1>2, <2>5, StepSound DEF ClientsSound
<1> QED BY <1>1, <1>2 DEF InitializeRead

LEMMA ComputeNewStateSound ==
  ASSUME ClientsSound, NEW c \in Clients, client[c].pc # "idle",
         NEW vs \in Versioned, Sound(vs.state), ComputeNewState(c, vs)
  PROVE  ClientsSound'
<1> DEFINE k == client[c]
           n(r) == [k EXCEPT !.pc = "load", !.kind = "recheck",
                             !.corrupt = FALSE, !.got = Absent,
                             !.base = vs.version,
                             !.next = [version |-> 0,
                                       state |-> After(vs.state, r, k.ctx)]]
<1>1. CASE Fail(c)
  BY <1>1, FailSound, StepSound DEF Fail, ClientsSound
<1>2. ASSUME NEW r \in AllowedRows(vs.state, k.ev, k.ctx), Step(c, n(r))
      PROVE  ClientsSound'
  <2>1. k \in Call /\ CallSound(k) /\ k.kind = "read"
    BY DEF ClientsSound, ComputeNewState
  <2>2. k.ev \in Events /\ k.ctx \in Context /\ vs.state \in ManifestState
    BY <2>1 DEF CallSound, Call, Versioned
  <2> DEFINE t == After(vs.state, r, k.ctx)
  <2>3. /\ t \in ManifestState /\ Sound(t)
        /\ r[3] = "APPROVED" => k.ctx.reviewer # None /\ k.ctx.notes
        /\ r[3] = "REJECTED" => k.ctx.reason
    BY <2>2, AfterSound
  <2>4. t.cur = r[3]
    BY DEF After
  <2>5. [version |-> 0, state |-> t] \in Versioned
    BY <2>3 DEF Versioned
  <2>6. n(r) \in Call
    BY <2>1, <2>5, ConstantTypes DEF Call, Versioned
  <2>7. Sound(Absent.state)
    BY NoCallSound DEF CallSound, NoCall
  <2>8. CallSound(n(r))
    <3> HIDE DEF t
    <3>1. /\ n(r).next.state = t /\ n(r).got = Absent /\ n(r).ctx = k.ctx
          /\ n(r).pc = "load" /\ n(r).m = k.m /\ n(r).ev = k.ev
      BY <2>1 DEF Call, t
    <3> QED BY <2>1, <2>2, <2>3, <2>4, <2>6, <2>7, <3>1 DEF CallSound, Carried
  <2> QED BY <1>2, <2>8, StepSound DEF ClientsSound
<1> QED BY <1>1, <1>2 DEF ComputeNewState

LEMMA ValidateVersionSound ==
  ASSUME ClientsSound, NEW c \in Clients, client[c].pc # "idle",
         NEW vs \in Versioned, ValidateVersion(c, vs)
  PROVE  ClientsSound'
<1> DEFINE k == client[c]
           again == [k EXCEPT !.pc = "load", !.kind = "read", !.corrupt = FALSE,
                              !.got = Absent, !.base = 0, !.next = Absent,
                              !.attempt = @ + 1]
           n == [k EXCEPT !.pc = "commit", !.corrupt = FALSE, !.got = Absent,
                          !.next.version = vs.version + 1]
<1>1. k \in Call /\ CallSound(k) /\ k.kind = "recheck"
  BY DEF ClientsSound, ValidateVersion
<1>2. Sound(Absent.state)
  BY NoCallSound DEF CallSound, NoCall
<1>3. CASE Fail(c)
  BY <1>3, FailSound, StepSound DEF Fail, ClientsSound
<1>4. CASE Step(c, again)
  <2>1. k.attempt + 1 \in Nat
    BY <1>1 DEF Call
  <2>2. again \in Call
    BY <1>1, <2>1, ConstantTypes DEF Call
  <2>3. CallSound(again)
    BY <1>1, <1>2, <2>2 DEF CallSound, Call
  <2> QED BY <1>4, <2>3, StepSound DEF ClientsSound
<1>5. CASE Step(c, n)
  <2>1. n.next \in Versioned /\ n.next.state = k.next.state
    BY <1>1 DEF Call, Versioned
  <2>2. n \in Call
    BY <1>1, <2>1, ConstantTypes DEF Call
  <2>3. CallSound(n)
    BY <1>1, <1>2, <2>1, <2>2 DEF CallSound, Carried, Call
  <2> QED BY <1>5, <2>3, StepSound DEF ClientsSound
<1> QED BY <1>3, <1>4, <1>5 DEF ValidateVersion, Retry

LEMMA DeliverSound ==
  ASSUME ClientsSound, NEW c \in Clients, client[c].pc # "idle",
         NEW vs \in Versioned, Sound(vs.state), Deliver(c, vs)
  PROVE  ClientsSound'
<1>1. CASE QueryRead(c, vs)
  BY <1>1, ReturnSound, StepSound DEF QueryRead, Return, ClientsSound
<1> QED BY <1>1, InitializeReadSound, ComputeNewStateSound, ValidateVersionSound DEF Deliver

-----------------------------------------------------------------------------
(* IInv is inductive.                                                      *)

LEMMA InitIInv == Init => IInv
<1> SUFFICES ASSUME Init PROVE IInv
  OBVIOUS
<1>1. ops \in 0 .. MaxOps /\ faults \in 0 .. MaxFaults
  BY PipelineAssumptions DEF Init
<1>2. /\ snap \in [Ids -> Snapshot] /\ log \in [Ids -> EventLog]
      /\ client \in [Clients -> Call]
  BY ConstantTypes, NoCallSound DEF Init
<1>3. \A m \in Ids : Sound(snap[m].vs.state)
  BY NoCallSound DEF Init, NoFile, NoCall, CallSound
<1>4. \A m \in Ids : Reviewed(log[m])
  BY PipelineAssumptions DEF Init, EmptyLog, Reviewed, States
<1>5. \A c \in Clients : CallSound(client[c])
  BY NoCallSound DEF Init
<1> QED BY <1>1, <1>2, <1>3, <1>4, <1>5 DEF IInv

(* A call enters with a sound record.                                      *)
LEMMA EnterSound ==
  ASSUME ClientsSound, NEW c \in Clients, NEW m \in Ids, NEW k, CallSound(k),
         k.kind \in {"init", "query", "read"}, Enter(c, m, k)
  PROVE  ClientsSound'
<1> DEFINE n == [k EXCEPT !.pc = "load", !.m = m]
<1>1. n \in Call
  BY DEF CallSound, Call
<1>2. CallSound(n)
  BY <1>1 DEF CallSound, Call
<1> QED BY <1>2, StepSound DEF Enter, ClientsSound

LEMMA ContextsOfType == \A e \in Events : ContextsOf(e) \subseteq Context
  BY DEF ContextsOf, Context

(* A caller enters the pipeline.                                           *)
Calls(c, m) ==
  \/ \E f \in Manifests : Initialize(c, m, f)
  \/ \E e \in Events : \E ctx \in ContextsOf(e) : TransitionState(c, m, e, ctx)
  \/ GetCurrentState(c, m)

LEMMA CallIInv ==
  ASSUME IInv, NEW c \in Clients, NEW m \in Ids, Calls(c, m), ops' \in 0 .. MaxOps
  PROVE  IInv'
<1>1. ClientsSound
  BY DEF IInv, ClientsSound
<1>2. ASSUME NEW f \in Manifests, Initialize(c, m, f)
      PROVE  ClientsSound' /\ UNCHANGED <<snap, log, faults>>
  <2> DEFINE k == [NoCall EXCEPT !.kind = "init", !.ctx.manifest = f]
  <2>1. k \in Call
    BY NoCallSound DEF Call, Context
  <2>2. /\ k.next = NoCall.next /\ k.got = NoCall.got /\ k.kind = "init"
        /\ k.pc = "idle"
    BY DEF NoCall
  <2>3. CallSound(k)
    BY <2>1, <2>2, NoCallSound DEF CallSound, NoCall
  <2> HIDE DEF k
  <2>4. Enter(c, m, k)
    BY <1>2 DEF Initialize, k
  <2> QED BY <1>1, <2>2, <2>3, <2>4, EnterSound DEF Enter
<1>3. ASSUME NEW e \in Events, NEW ctx \in ContextsOf(e), TransitionState(c, m, e, ctx)
      PROVE  ClientsSound' /\ UNCHANGED <<snap, log, faults>>
  <2> DEFINE k == [NoCall EXCEPT !.kind = "read", !.ev = e, !.ctx = ctx]
  <2>1. k \in Call
    BY NoCallSound, ContextsOfType DEF Call
  <2>2. /\ k.next = NoCall.next /\ k.got = NoCall.got /\ k.kind = "read"
        /\ k.pc = "idle" /\ k.ev = e
    BY DEF NoCall
  <2>3. CallSound(k)
    BY <2>1, <2>2, NoCallSound DEF CallSound, NoCall
  <2> HIDE DEF k
  <2>4. Enter(c, m, k)
    BY <1>3 DEF TransitionState, k
  <2> QED BY <1>1, <2>2, <2>3, <2>4, EnterSound DEF Enter
<1>4. ASSUME GetCurrentState(c, m)
      PROVE  ClientsSound' /\ UNCHANGED <<snap, log, faults>>
  <2>1. NoCall.kind = "query"
    BY DEF NoCall
  <2> QED BY <1>1, <1>4, <2>1, NoCallSound, EnterSound DEF GetCurrentState, Enter
<1>5. ClientsSound' /\ UNCHANGED <<snap, log, faults>>
  BY <1>2, <1>3, <1>4 DEF Calls
<1> QED BY <1>5 DEF IInv, ClientsSound

LEMMA StartIInv == ASSUME IInv, NEW c \in Clients, Start(c) PROVE IInv'
<1>1. ops' \in 0 .. MaxOps
  BY PipelineAssumptions DEF IInv, Start
<1> QED BY <1>1, CallIInv DEF Start, Calls

LEMMA ContinueIInv == ASSUME IInv, NEW c \in Clients, Continue(c) PROVE IInv'
<1> DEFINE k == client[c]
<1>1. ClientsSound /\ k \in Call /\ CallSound(k)
  BY DEF IInv, ClientsSound
<1>2. CASE LoadSnapshot(c)
  <2>1. k.pc # "idle" /\ k.m \in Ids
    BY <1>1, <1>2 DEF LoadSnapshot, CallSound
  <2>2. snap[k.m].vs \in Versioned /\ Sound(snap[k.m].vs.state)
    BY <2>1 DEF IInv, Snapshot
  <2>3. ClientsSound'
    BY <1>1, <1>2, <2>1, <2>2, DeliverSound DEF LoadSnapshot
  <2> QED BY <1>2, <2>3 DEF LoadSnapshot, IInv, ClientsSound
<1>3. CASE SnapshotUnusable(c)
  <2> DEFINE n == [k EXCEPT !.pc = "replay",
                            !.corrupt = (snap[k.m].file = "corrupt")]
  <2>1. n \in Call
    BY <1>1 DEF Call
  <2>2. CallSound(n)
    BY <1>1, <1>3, <2>1 DEF CallSound, Carried, Call, SnapshotUnusable
  <2>3. ClientsSound'
    BY <1>1, <1>3, <2>2, StepSound DEF SnapshotUnusable, ClientsSound
  <2> QED BY <1>3, <2>3 DEF SnapshotUnusable, IInv, ClientsSound
<1>4. CASE ReplayLog(c)
  <2> DEFINE initial == IF k.kind = "init" THEN None ELSE InitialState
             r == Recovered(log[k.m], initial)
             n == [k EXCEPT !.pc = "save", !.got = r]
  <2>1. k.pc = "replay" /\ k.m \in Ids
    BY <1>1, <1>4 DEF ReplayLog, CallSound
  <2>2. r \in Versioned /\ Sound(r.state)
    BY <2>1, RecoveredSound DEF IInv
  <2>3. Absent \in Versioned /\ Sound(Absent.state)
    BY ConstantTypes, NoCallSound DEF CallSound, NoCall
  <2>4. ASSUME Fail(c) PROVE ClientsSound'
    BY <1>1, <2>4, FailSound, StepSound DEF Fail, ClientsSound
  <2>5. ASSUME Deliver(c, Absent) PROVE ClientsSound'
    BY <1>1, <2>1, <2>3, <2>5, DeliverSound
  <2>6. ASSUME Step(c, n) PROVE ClientsSound'
    <3> HIDE DEF r
    <3>1. n \in Call
      BY <1>1, <2>2 DEF Call
    <3>2. CallSound(n)
      BY <1>1, <2>1, <2>2, <3>1 DEF CallSound, Carried, Call
    <3> QED BY <1>1, <2>6, <3>2, StepSound DEF ClientsSound
  <2>7. ClientsSound'
    BY <1>4, <2>4, <2>5, <2>6 DEF ReplayLog
  <2> QED BY <1>4, <2>7 DEF ReplayLog, IInv, ClientsSound
<1>5. CASE SaveRecovered(c)
  <2>1. k.pc # "idle" /\ k.m \in Ids /\ k.got \in Versioned /\ Sound(k.got.state)
    BY <1>1, <1>5 DEF SaveRecovered, CallSound, Call
  <2>2. ClientsSound'
    BY <1>1, <1>5, <2>1, DeliverSound DEF SaveRecovered
  <2>3. snap' \in [Ids -> Snapshot] /\ \A m \in Ids : Sound(snap'[m].vs.state)
    BY <1>5, <2>1 DEF SaveRecovered, Saved, Snapshot, IInv
  <2> QED BY <1>5, <2>2, <2>3 DEF SaveRecovered, IInv, ClientsSound
<1>6. CASE Commit(c)
  <2> DEFINE n == [k EXCEPT !.pc = "append"]
  <2>1. k.pc = "commit" /\ k.m \in Ids /\ k.next \in Versioned /\ Sound(k.next.state)
    BY <1>1, <1>6 DEF Commit, CallSound, Call
  <2>2. n \in Call
    BY <1>1 DEF Call
  <2>3. CallSound(n)
    BY <1>1, <2>1, <2>2 DEF CallSound, Carried, Call
  <2>4. ClientsSound'
    BY <1>1, <1>6, <2>3, StepSound DEF Commit, ClientsSound
  <2>5. snap' \in [Ids -> Snapshot] /\ \A m \in Ids : Sound(snap'[m].vs.state)
    BY <1>6, <2>1 DEF Commit, Saved, Snapshot, IInv
  <2> QED BY <1>6, <2>4, <2>5 DEF Commit, IInv, ClientsSound
<1>7. CASE AppendEvent(c)
  <2>1. k.pc = "append" /\ k.m \in Ids
    BY <1>1, <1>7 DEF AppendEvent, CallSound
  <2>2. Logged(log[k.m], k) \in EventLog /\ Reviewed(Logged(log[k.m], k))
    BY <1>1, <2>1, LoggedSound DEF IInv
  <2>3. log' = [log EXCEPT ![k.m] = Logged(log[k.m], k)]
    BY <1>7 DEF AppendEvent
  <2>4. log' \in [Ids -> EventLog] /\ \A m \in Ids : Reviewed(log'[m])
    BY <2>1, <2>2, <2>3 DEF IInv
  <2>5. Absent \in Versioned /\ Sound(Absent.state)
    BY ConstantTypes, NoCallSound DEF CallSound, NoCall
  <2>6. ClientsSound'
    BY <1>1, <1>7, <2>5, ReturnSound, StepSound DEF AppendEvent, Return, ClientsSound
  <2> QED BY <1>7, <2>4, <2>6 DEF AppendEvent, IInv, ClientsSound
<1> QED BY <1>2, <1>3, <1>4, <1>5, <1>6, <1>7 DEF Continue

LEMMA DisturbIInv == ASSUME IInv, Disturb PROVE IInv'
<1>1. ClientsSound
  BY DEF IInv, ClientsSound
<1>2. ASSUME NEW kind, Fault(kind) PROVE faults' \in 0 .. MaxFaults
  BY <1>2, PipelineAssumptions DEF Fault, IInv
<1>3. ASSUME NEW c \in Clients, Abort(c) PROVE IInv'
  <2>1. ClientsSound'
    BY <1>1, <1>3, FailSound, StepSound DEF Abort, Fail, ClientsSound
  <2> QED BY <1>2, <1>3, <2>1 DEF Abort, IInv, ClientsSound
<1>4. ASSUME NEW c \in Clients, TearAppend(c) PROVE IInv'
  <2>1. ClientsSound'
    BY <1>1, <1>4, FailSound, StepSound DEF TearAppend, Fail, ClientsSound
  <2>2. log' \in [Ids -> EventLog]
    BY <1>4 DEF TearAppend, IInv, EventLog
  <2>3. \A m \in Ids : Reviewed(log'[m])
    BY <1>4 DEF TearAppend, IInv, Reviewed, EventLog
  <2> QED BY <1>2, <1>4, <2>1, <2>2, <2>3 DEF TearAppend, IInv, ClientsSound
<1>5. ASSUME NEW c \in Clients, ReadFails(c) PROVE IInv'
  <2> DEFINE k == client[c]
             n == [k EXCEPT !.pc = "replay", !.corrupt = TRUE]
  <2>1. k \in Call /\ CallSound(k)
    BY <1>1 DEF ClientsSound
  <2>2. n \in Call
    BY <2>1 DEF Call
  <2>3. CallSound(n)
    BY <1>5, <2>1, <2>2 DEF CallSound, Carried, Call, ReadFails
  <2>4. ClientsSound'
    BY <1>1, <1>5, <2>3, StepSound DEF ReadFails, ClientsSound
  <2> QED BY <1>2, <1>5, <2>4 DEF ReadFails, IInv, ClientsSound
<1>6. Sound(Absent.state)
  BY NoCallSound DEF CallSound, NoCall
<1>7. ASSUME NEW m \in Ids, LoseSnapshot(m) PROVE IInv'
  <2>1. snap' \in [Ids -> Snapshot] /\ \A d \in Ids : Sound(snap'[d].vs.state)
    BY <1>6, <1>7, ConstantTypes DEF LoseSnapshot, NoFile, IInv
  <2> QED BY <1>2, <1>7, <2>1 DEF LoseSnapshot, IInv
<1>8. ASSUME NEW m \in Ids, CorruptSnapshot(m) PROVE IInv'
  <2>1. snap' \in [Ids -> Snapshot] /\ \A d \in Ids : Sound(snap'[d].vs.state)
    BY <1>6, <1>8, ConstantTypes DEF CorruptSnapshot, Corrupted, IInv
  <2> QED BY <1>2, <1>8, <2>1 DEF CorruptSnapshot, IInv
<1>9. ASSUME NEW m \in Ids, DeleteManifestState(m) PROVE IInv'
  <2>1. snap' \in [Ids -> Snapshot] /\ \A d \in Ids : Sound(snap'[d].vs.state)
    BY <1>6, <1>9, ConstantTypes DEF DeleteManifestState, NoFile, IInv
  <2>2. Reviewed(EmptyLog)
    BY PipelineAssumptions DEF EmptyLog, Reviewed, States
  <2>3. log' \in [Ids -> EventLog] /\ \A d \in Ids : Reviewed(log'[d])
    BY <1>9, <2>2, ConstantTypes DEF DeleteManifestState, IInv
  <2> QED BY <1>2, <1>9, <2>1, <2>3 DEF DeleteManifestState, IInv
<1> QED BY <1>3, <1>4, <1>5, <1>7, <1>8, <1>9 DEF Disturb

LEMMA StutterIInv == ASSUME IInv, UNCHANGED vars PROVE IInv'
  BY DEF IInv, vars, CallSound, Carried

THEOREM InductiveInvariant == Spec => []IInv
<1>1. IInv /\ [Next]_vars => IInv'
  BY StartIInv, ContinueIInv, DisturbIInv, StutterIInv DEF Next, Rest
<1> QED BY <1>1, InitIInv, PTL DEF Spec

-----------------------------------------------------------------------------
(* The theorems.                                                           *)

(* Every variable keeps the shape the code gives it: a stored or pending   *)
(* state is built from lifecycle states, known manifests and reviewers.    *)
THEOREM TypeCorrect == Spec => []TypeOK
<1>1. IInv => TypeOK
  BY DEF IInv, TypeOK
<1> QED BY <1>1, InductiveInvariant, PTL

(* No interleaving of calls and faults stores an approval without reviewer *)
(* and notes, or a rejection without a reason.                             *)
THEOREM ApprovalsAreReviewed == Spec => []ReviewEvidence
<1>1. IInv => ReviewEvidence
  BY DEF IInv, ReviewEvidence, Sound, Stored
<1> QED BY <1>1, InductiveInvariant, PTL

(* No interleaving of calls and faults lets a transition store a state the *)
(* table does not lead to, or register a manifest nobody approved or that  *)
(* has no urn.                                                             *)
THEOREM RegistrationsHaveProvenance == Spec => []RegistrationProvenance
<1>1. IInv => RegistrationProvenance
  BY DEF IInv, RegistrationProvenance, Sound, Stored
<1> QED BY <1>1, InductiveInvariant, PTL
-----------------------------------------------------------------------------
(* What the pipeline guarantees to callers that take turns on a manifest,  *)
(* however many manifests they work on at once and whichever calls or      *)
(* appends die: that it implements the lifecycle, for any number of        *)
(* callers, manifests, calls and faults.                                   *)
(*                                                                         *)
(* A call reads in one await and writes in another.  That nothing has      *)
(* changed in between is the invariant: what a suspended call holds still  *)
(* agrees with the file of its manifest.                                   *)

TakingTurns == Exclusive = TRUE /\ Faults \subseteq {"abort", "tear"}

(* What a suspended call k knows of s, the snapshot of its manifest.       *)
Knows(k, s) ==
  k.pc # "idle" =>
    /\ k.pc \in {"replay", "save"} =>
         /\ s.file = "missing" /\ ~k.corrupt
         /\ k.kind # "recheck" /\ (k.pc = "save" => k.kind # "init")
    /\ k.pc = "save" => k.got = Recovered(EmptyLog, InitialState)
    /\ k.pc = "commit" /\ k.kind = "init" =>
         s.file = "missing" /\ k.next.version = 1 /\ k.next.state.cur = InitialState
    /\ k.pc \in {"load", "commit"} /\ k.kind = "recheck" =>
         /\ s.file = "ok" /\ k.base = s.vs.version
         /\ <<s.vs.state.cur, k.ev, k.next.state.cur>> \in Transitions
         /\ k.next.state.manifest = s.vs.state.manifest
         /\ k.pc = "commit" => k.next.version = s.vs.version + 1
    /\ k.pc = "append" => s.file = "ok" /\ s.vs = k.next

(* A snapshot is there once a transition was logged, and never damaged.    *)
FileSound(s, l) ==
  /\ s.file \in {"missing", "ok"}
  /\ s.file = "missing" => s.vs = Absent /\ (l.torn \/ l = EmptyLog)
  /\ s.file = "ok" => s.vs.state.cur # None

TurnsInv ==
  /\ \A m \in Ids : FileSound(snap[m], log[m])
  /\ \A c \in Clients : client[c].attempt = 0
  /\ \A c \in Clients : Busy(c) => Knows(client[c], snap[client[c].m])
  /\ \A c, d \in Clients : Busy(c) /\ Busy(d) /\ client[c].m = client[d].m => c = d

-----------------------------------------------------------------------------
(* A busy call that moves on, or ends, disturbs what no other call knows.  *)
LEMMA MoveKeepsTurns ==
  ASSUME IInv, TurnsInv, NEW c \in Clients, Busy(c), NEW n, Step(c, n), n.attempt = 0,
         n.pc # "idle" => n.m = client[c].m /\ Knows(n, snap'[client[c].m]),
         \A m \in Ids : m # client[c].m => snap'[m] = snap[m],
         \A m \in Ids : FileSound(snap'[m], log'[m])
  PROVE  TurnsInv'
<1>1. client \in [Clients -> Call] /\ \A d \in Clients : Busy(d) => client[d].m \in Ids
  BY DEF IInv, CallSound, Busy
<1>2. client'[c] = n /\ \A d \in Clients : d # c => client'[d] = client[d]
  BY <1>1 DEF Step
<1>3. ASSUME NEW d \in Clients, Busy(d)'
      PROVE  Knows(client'[d], snap'[client'[d].m])
  <2>1. CASE d = c
    BY <1>2, <1>3, <2>1 DEF Busy
  <2>2. CASE d # c
    <3>1. Busy(d) /\ client'[d] = client[d]
      BY <1>2, <1>3, <2>2 DEF Busy
    <3>2. client[d].m \in Ids /\ client[d].m # client[c].m
      BY <1>1, <2>2, <3>1 DEF TurnsInv
    <3> QED BY <3>1, <3>2 DEF TurnsInv
  <2> QED BY <2>1, <2>2
<1>4. ASSUME NEW d \in Clients, NEW e \in Clients, Busy(d)', Busy(e)', client'[d].m = client'[e].m
      PROVE  d = e
  <2>1. /\ Busy(d) /\ client'[d].m = client[d].m
        /\ Busy(e) /\ client'[e].m = client[e].m
    BY <1>2, <1>4 DEF Busy
  <2> QED BY <1>4, <2>1 DEF TurnsInv
<1> QED BY <1>2, <1>3, <1>4 DEF TurnsInv

(* A call that enters while no other works on its manifest.                *)
LEMMA EnterKeepsTurns ==
  ASSUME IInv, TurnsInv, NEW c \in Clients, NEW m \in Ids, ~BusyOn(m),
         NEW k \in Call, k.attempt = 0, k.kind # "recheck", Enter(c, m, k)
  PROVE  TurnsInv'
<1> DEFINE n == [k EXCEPT !.pc = "load", !.m = m]
<1>1. n.pc = "load" /\ n.m = m /\ n.attempt = 0 /\ n.kind # "recheck"
  BY DEF Call
<1>2. client \in [Clients -> Call] /\ client' = [client EXCEPT ![c] = n]
  BY DEF IInv, Enter, Step
<1> HIDE DEF n
<1>3. client'[c] = n /\ \A d \in Clients : d # c => client'[d] = client[d]
  BY <1>2
<1>4. snap' = snap /\ log' = log
  BY DEF Enter
<1>5. Knows(n, snap[m])
  BY <1>1 DEF Knows
<1>6. \A d \in Clients : Busy(d)' => Knows(client'[d], snap'[client'[d].m])
  BY <1>1, <1>3, <1>4, <1>5 DEF TurnsInv, Busy
<1>7. \A d, e \in Clients : Busy(d)' /\ Busy(e)' /\ client'[d].m = client'[e].m => d = e
  BY <1>1, <1>3 DEF TurnsInv, Busy, BusyOn
<1>8. \A i \in Ids : FileSound(snap'[i], log'[i])
  BY <1>4 DEF TurnsInv
<1> QED BY <1>1, <1>3, <1>6, <1>7, <1>8 DEF TurnsInv

LEMMA EndedCalls ==
  /\ [NoCall EXCEPT !.res = "error"].pc = "idle"
  /\ [NoCall EXCEPT !.res = "error"].attempt = 0
  /\ \A vs : /\ [NoCall EXCEPT !.res = "ok", !.got = vs].pc = "idle"
             /\ [NoCall EXCEPT !.res = "ok", !.got = vs].attempt = 0
BY DEF NoCall

LEMMA CreatedStarts ==
  ASSUME NEW f
  PROVE  Created(f).version = 1 /\ Created(f).state.cur = InitialState
BY DEF Created, EmptyState

(* What a call does with the snapshot s that it has just read or written.  *)
LEMMA DeliverKnows ==
  ASSUME IInv, NEW c \in Clients, Busy(c), client[c].attempt = 0,
         NEW s \in Snapshot, NEW l, FileSound(s, l),
         client[c].kind = "recheck" =>
           /\ s.file = "ok" /\ client[c].base = s.vs.version
           /\ <<s.vs.state.cur, client[c].ev, client[c].next.state.cur>> \in Transitions
           /\ client[c].next.state.manifest = s.vs.state.manifest,
         Deliver(c, s.vs)
  PROVE  \E n : /\ Step(c, n) /\ n.attempt = 0
                /\ n.pc # "idle" => n.m = client[c].m /\ Knows(n, s)
<1> DEFINE k == client[c]
           vs == s.vs
<1>1. k \in Call /\ vs \in Versioned
  BY DEF IInv, Snapshot
<1>2. vs = Absent <=> s.file = "missing"
  BY DEF FileSound, Absent, EmptyState
<1>3. CASE Fail(c) \/ Return(c, vs)
  BY <1>3, EndedCalls DEF Fail, Return
<1>4. CASE InitializeRead(c, vs) /\ ~Fail(c)
  <2> DEFINE n == [k EXCEPT !.pc = "commit", !.corrupt = FALSE, !.got = Absent,
                            !.next = Created(k.ctx.manifest)]
  <2>1. k.kind = "init" /\ vs = Absent /\ Step(c, n)
    BY <1>4 DEF InitializeRead
  <2>2. /\ n.pc = "commit" /\ n.kind = "init" /\ n.m = k.m /\ n.attempt = 0
        /\ n.next = Created(k.ctx.manifest)
    BY <1>1, <2>1 DEF Call
  <2> HIDE DEF n
  <2>3. n.next.version = 1 /\ n.next.state.cur = InitialState
    BY <2>2, CreatedStarts
  <2>4. Knows(n, s)
    BY <1>2, <2>1, <2>2, <2>3 DEF Knows
  <2> QED BY <2>1, <2>2, <2>4
<1>5. ASSUME NEW r \in AllowedRows(vs.state, k.ev, k.ctx), ComputeNewState(c, vs), vs # Absent,
             Step(c, [k EXCEPT !.pc = "load", !.kind = "recheck",
                               !.corrupt = FALSE, !.got = Absent, !.base = vs.version,
                               !.next = [version |-> 0, state |-> After(vs.state, r, k.ctx)]])
      PROVE  \E n : /\ Step(c, n) /\ n.attempt = 0
                    /\ n.pc # "idle" => n.m = client[c].m /\ Knows(n, s)
  <2> DEFINE n == [k EXCEPT !.pc = "load", !.kind = "recheck",
                            !.corrupt = FALSE, !.got = Absent, !.base = vs.version,
                            !.next = [version |-> 0, state |-> After(vs.state, r, k.ctx)]]
  <2>1. r \in Transitions /\ r[1] = vs.state.cur /\ r[2] = k.ev
    BY DEF AllowedRows
  <2>2. r = <<r[1], r[2], r[3]>>
    BY <2>1 DEF Transitions
  <2>3. /\ n.pc = "load" /\ n.kind = "recheck" /\ n.m = k.m /\ n.attempt = 0
        /\ n.ev = k.ev /\ n.base = vs.version
        /\ n.next = [version |-> 0, state |-> After(vs.state, r, k.ctx)]
    BY <1>1 DEF Call
  <2>4. n.next.state.cur = r[3] /\ n.next.state.manifest = vs.state.manifest
    BY <2>3 DEF After
  <2>5. s.file = "ok"
    BY <1>2, <1>5 DEF FileSound
  <2>6. Step(c, n)
    BY <1>5
  <2> HIDE DEF n
  <2>7. Knows(n, s)
    BY <2>1, <2>2, <2>3, <2>4, <2>5 DEF Knows
  <2> QED BY <2>3, <2>6, <2>7
<1>6. CASE ValidateVersion(c, vs)
  <2> DEFINE n == [k EXCEPT !.pc = "commit", !.corrupt = FALSE, !.got = Absent,
                            !.next.version = vs.version + 1]
  <2>1. k.kind = "recheck" /\ Step(c, n)
    BY <1>6 DEF ValidateVersion
  <2>2. k.next \in Versioned
    BY <1>1 DEF Call
  <2>3. /\ n.pc = "commit" /\ n.kind = "recheck" /\ n.m = k.m /\ n.attempt = 0
        /\ n.ev = k.ev /\ n.base = k.base
        /\ n.next = [k.next EXCEPT !.version = vs.version + 1]
    BY <1>1, <2>1 DEF Call
  <2>4. n.next.version = vs.version + 1 /\ n.next.state = k.next.state
    BY <2>2, <2>3 DEF Versioned
  <2> HIDE DEF n
  <2>5. Knows(n, s)
    BY <2>1, <2>3, <2>4 DEF Knows
  <2> QED BY <2>1, <2>3, <2>5
<1> QED BY <1>3, <1>4, <1>5, <1>6 DEF Deliver, QueryRead, ComputeNewState

-----------------------------------------------------------------------------
(* The operations of a call, one await at a time.                          *)
LEMMA ContinueKeepsTurns ==
  ASSUME IInv, TurnsInv, NEW c \in Clients, Continue(c)
  PROVE  TurnsInv'
<1> DEFINE k == client[c]
           m == k.m
           s == snap[m]
<1>1. Busy(c) /\ k \in Call /\ CallSound(k) /\ m \in Ids /\ s \in Snapshot
  BY DEF IInv, CallSound, Busy, Continue, LoadSnapshot, SnapshotUnusable, ReplayLog,
         SaveRecovered, Commit, AppendEvent
<1>2. Knows(k, s) /\ FileSound(s, log[m]) /\ k.attempt = 0
  BY <1>1 DEF TurnsInv
<1>3. \A i \in Ids : FileSound(snap[i], log[i])
  BY DEF TurnsInv
<1>4. CASE LoadSnapshot(c)
  <2>1. k.pc = "load" /\ Deliver(c, s.vs) /\ UNCHANGED <<snap, log>>
    BY <1>4 DEF LoadSnapshot
  <2>2. k.kind = "recheck" =>
          /\ s.file = "ok" /\ k.base = s.vs.version
          /\ <<s.vs.state.cur, k.ev, k.next.state.cur>> \in Transitions
          /\ k.next.state.manifest = s.vs.state.manifest
    BY <1>1, <1>2, <2>1 DEF Knows
  <2>3. PICK n : /\ Step(c, n) /\ n.attempt = 0
                 /\ n.pc # "idle" => n.m = m /\ Knows(n, s)
    BY <1>1, <1>2, <2>1, <2>2, DeliverKnows
  <2> QED BY <1>1, <1>3, <2>1, <2>3, MoveKeepsTurns
<1>5. CASE SnapshotUnusable(c)
  <2> DEFINE n == [k EXCEPT !.pc = "replay", !.corrupt = (s.file = "corrupt")]
  <2>1. k.pc = "load" /\ s.file # "ok" /\ Step(c, n) /\ UNCHANGED <<snap, log>>
    BY <1>5 DEF SnapshotUnusable
  <2>2. s.file = "missing" /\ k.kind # "recheck"
    BY <1>1, <1>2, <2>1 DEF Knows, FileSound
  <2>3. n.pc = "replay" /\ ~n.corrupt /\ n.kind = k.kind /\ n.m = m /\ n.attempt = 0
    BY <1>1, <1>2, <2>2 DEF Call
  <2> HIDE DEF n
  <2>4. Knows(n, s)
    BY <2>2, <2>3 DEF Knows
  <2> QED BY <1>1, <1>3, <2>1, <2>3, <2>4, MoveKeepsTurns
<1>6. CASE ReplayLog(c)
  <2> DEFINE initial == IF k.kind = "init" THEN None ELSE InitialState
             r == Recovered(log[m], initial)
             n == [k EXCEPT !.pc = "save", !.got = r]
  <2>1. k.pc = "replay" /\ UNCHANGED <<snap, log>>
    BY <1>6 DEF ReplayLog
  <2>2. s.file = "missing" /\ s.vs = Absent /\ ~k.corrupt /\ k.kind # "recheck"
    BY <1>1, <1>2, <2>1 DEF Knows, FileSound
  <2>3. CASE log[m].torn
    <3>1. Fail(c)
      BY <1>6, <2>3 DEF ReplayLog
    <3> QED BY <1>1, <1>3, <2>1, <3>1, EndedCalls, MoveKeepsTurns DEF Fail
  <2>4. CASE ~log[m].torn /\ k.kind = "init"
    <3>1. r.state.cur = None
      BY <1>2, <2>2, <2>4 DEF FileSound, EmptyLog, Recovered
    <3>2. Deliver(c, s.vs)
      BY <1>6, <2>2, <2>4, <3>1 DEF ReplayLog
    <3>3. PICK q : /\ Step(c, q) /\ q.attempt = 0
                   /\ q.pc # "idle" => q.m = m /\ Knows(q, s)
      BY <1>1, <1>2, <2>2, <3>2, DeliverKnows
    <3> QED BY <1>1, <1>3, <2>1, <3>3, MoveKeepsTurns
  <2>5. CASE ~log[m].torn /\ k.kind # "init"
    <3>1. r = Recovered(EmptyLog, InitialState) /\ r.state.cur # None
      BY <1>2, <2>2, <2>5, PipelineAssumptions
      DEF FileSound, EmptyLog, Recovered, InitialState, States
    <3>2. Step(c, n)
      BY <1>6, <2>5, <3>1 DEF ReplayLog
    <3>3. r = Recovered(EmptyLog, InitialState)
      BY <3>1
    <3> HIDE DEF r
    <3>4. n.pc = "save" /\ n.got = r /\ n.kind = k.kind /\ n.m = m /\ n.attempt = 0 /\ ~n.corrupt
      BY <1>1, <1>2, <2>2 DEF Call
    <3> HIDE DEF n
    <3>5. Knows(n, s)
      BY <2>2, <2>5, <3>3, <3>4 DEF Knows
    <3> QED BY <1>1, <1>3, <2>1, <3>2, <3>4, <3>5, MoveKeepsTurns
  <2> QED BY <2>3, <2>4, <2>5
<1>7. CASE SaveRecovered(c)
  <2> DEFINE t == Saved(k.got)
  <2>1. k.pc = "save" /\ snap' = [snap EXCEPT ![m] = t] /\ Deliver(c, k.got) /\ log' = log
    BY <1>7 DEF SaveRecovered
  <2>2. k.kind # "recheck" /\ k.got = Recovered(EmptyLog, InitialState)
    BY <1>1, <1>2, <2>1 DEF Knows, Busy
  <2>3. t.file = "ok" /\ t.vs = k.got /\ t \in Snapshot
    BY <1>1 DEF Saved, Snapshot, Call
  <2>4. t.vs.state.cur = InitialState /\ InitialState # None
    BY <2>2, <2>3, PipelineAssumptions DEF Recovered, EmptyLog, InitialState, States
  <2> HIDE DEF t
  <2>5. FileSound(t, log[m])
    BY <2>3, <2>4 DEF FileSound
  <2>6. PICK n : /\ Step(c, n) /\ n.attempt = 0
                 /\ n.pc # "idle" => n.m = m /\ Knows(n, t)
    BY <1>1, <1>2, <2>1, <2>2, <2>3, <2>5, DeliverKnows
  <2>7. snap'[m] = t /\ \A i \in Ids : i # m => snap'[i] = snap[i]
    BY <1>1, <2>1 DEF IInv
  <2> QED BY <1>1, <1>3, <2>1, <2>5, <2>6, <2>7, MoveKeepsTurns
<1>8. CASE Commit(c)
  <2> DEFINE n == [k EXCEPT !.pc = "append"]
             t == Saved(k.next)
  <2>1. k.pc = "commit" /\ snap' = [snap EXCEPT ![m] = t] /\ Step(c, n) /\ log' = log
    BY <1>8 DEF Commit
  <2>2. t.file = "ok" /\ t.vs = k.next
    BY DEF Saved
  <2>3. k.next.state.cur \in States
    <3>1. CASE k.kind = "init"
      BY <1>1, <1>2, <2>1, <3>1 DEF Knows, Busy, InitialState, States
    <3>2. CASE k.kind = "recheck"
      BY <1>1, <1>2, <2>1, <3>2 DEF Knows, Busy, Transitions, States
    <3> QED BY <1>1, <2>1, <3>1, <3>2 DEF CallSound
  <2>4. n.pc = "append" /\ n.next = k.next /\ n.m = m /\ n.attempt = 0
    BY <1>1, <1>2 DEF Call
  <2> HIDE DEF n, t
  <2>5. FileSound(t, log[m]) /\ Knows(n, t)
    BY <2>2, <2>3, <2>4, PipelineAssumptions DEF FileSound, Knows
  <2>6. snap'[m] = t /\ \A i \in Ids : i # m => snap'[i] = snap[i]
    BY <1>1, <2>1 DEF IInv
  <2> QED BY <1>1, <1>3, <2>1, <2>4, <2>5, <2>6, MoveKeepsTurns
<1>9. CASE AppendEvent(c)
  <2>1. k.pc = "append" /\ Return(c, Absent) /\ snap' = snap
        /\ log' = [log EXCEPT ![m] = Logged(@, k)]
    BY <1>9 DEF AppendEvent
  <2>2. s.file = "ok"
    BY <1>1, <1>2, <2>1 DEF Knows
  <2>3. \A i \in Ids : FileSound(snap'[i], log'[i])
    BY <1>3, <2>1, <2>2 DEF FileSound, IInv
  <2> QED BY <1>1, <2>1, <2>3, EndedCalls, MoveKeepsTurns DEF Return
<1> QED BY <1>4, <1>5, <1>6, <1>7, <1>8, <1>9 DEF Continue

(* A call that is cut short, with its append perhaps torn.                 *)
LEMMA AbortKeepsTurns ==
  ASSUME IInv, TurnsInv, NEW c \in Clients, Abort(c) \/ TearAppend(c)
  PROVE  TurnsInv'
<1>1. Busy(c) /\ Step(c, [NoCall EXCEPT !.res = "error"]) /\ snap' = snap
  BY DEF Abort, TearAppend, Fail, Busy
<1>2. \A i \in Ids : FileSound(snap'[i], log'[i])
  <2>1. CASE Abort(c)
    BY <2>1 DEF Abort, TurnsInv
  <2>2. CASE TearAppend(c)
    <3>1. client[c].pc = "append" /\ log' = [log EXCEPT ![client[c].m].torn = TRUE]
      BY <2>2 DEF TearAppend
    <3>2. snap[client[c].m].file = "ok"
      BY <1>1, <3>1 DEF TurnsInv, Knows
    <3> QED BY <1>1, <3>1, <3>2 DEF TurnsInv, FileSound, IInv
  <2> QED BY <2>1, <2>2
<1> QED BY <1>1, <1>2, EndedCalls, MoveKeepsTurns

LEMMA CallKeepsTurns ==
  ASSUME IInv, TurnsInv, NEW c \in Clients, NEW m \in Ids, ~BusyOn(m), Calls(c, m)
  PROVE  TurnsInv'
<1>1. ASSUME NEW f \in Manifests, Initialize(c, m, f) PROVE TurnsInv'
  <2> DEFINE k == [NoCall EXCEPT !.kind = "init", !.ctx.manifest = f]
  <2>1. k \in Call /\ k.attempt = 0 /\ k.kind = "init"
    BY NoCallSound DEF Call, Context, NoCall
  <2> HIDE DEF k
  <2>2. Enter(c, m, k)
    BY <1>1 DEF Initialize, k
  <2> QED BY <2>1, <2>2, EnterKeepsTurns
<1>2. ASSUME NEW e \in Events, NEW ctx \in ContextsOf(e), TransitionState(c, m, e, ctx)
      PROVE  TurnsInv'
  <2> DEFINE k == [NoCall EXCEPT !.kind = "read", !.ev = e, !.ctx = ctx]
  <2>1. k \in Call
    BY NoCallSound, ContextsOfType DEF Call
  <2>2. k.attempt = 0 /\ k.kind = "read"
    BY DEF NoCall
  <2> HIDE DEF k
  <2>3. Enter(c, m, k)
    BY <1>2 DEF TransitionState, k
  <2> QED BY <2>1, <2>2, <2>3, EnterKeepsTurns
<1>3. ASSUME GetCurrentState(c, m) PROVE TurnsInv'
  <2>1. NoCall.attempt = 0 /\ NoCall.kind = "query"
    BY DEF NoCall
  <2> QED BY <1>3, <2>1, NoCallSound, EnterKeepsTurns DEF GetCurrentState
<1> QED BY <1>1, <1>2, <1>3 DEF Calls

LEMMA StartKeepsTurns ==
  ASSUME IInv, TurnsInv, TakingTurns, NEW c \in Clients, Start(c)
  PROVE  TurnsInv'
<1>1. PICK m \in Ids : ~BusyOn(m) /\ Calls(c, m)
  BY DEF Start, TakingTurns, Calls
<1> QED BY <1>1, CallKeepsTurns

LEMMA InitTurns == Init => TurnsInv
BY DEF Init, TurnsInv, FileSound, NoFile, Busy, NoCall

(* No lost, corrupted, unreadable or deleted snapshots among the faults.   *)
LEMMA StepKeepsTurns ==
  ASSUME IInv, TurnsInv, TakingTurns, [Next]_vars
  PROVE  TurnsInv'
<1>1. CASE UNCHANGED vars
  BY <1>1 DEF vars, TurnsInv, Busy
<1>2. CASE \E c \in Clients : Start(c) \/ Continue(c)
  BY <1>2, StartKeepsTurns, ContinueKeepsTurns
<1>3. CASE Disturb
  BY <1>3, AbortKeepsTurns
  DEF TakingTurns, Disturb, Fault, ReadFails, LoseSnapshot, CorruptSnapshot, DeleteManifestState
<1> QED BY <1>1, <1>2, <1>3 DEF Next, Rest

(* Callers that take turns know, whenever they write, what they overwrite. *)
THEOREM TurnsInvariant == ASSUME TakingTurns PROVE Spec => [](IInv /\ TurnsInv)
<1>1. IInv /\ TurnsInv /\ IInv' /\ [Next]_vars => TurnsInv'
  BY StepKeepsTurns
<1> QED BY <1>1, InitTurns, InductiveInvariant, PTL DEF Spec

-----------------------------------------------------------------------------
(* The refinement: recovery of a missing snapshot and the rename of a      *)
(* first one create the manifest, the rename of a later one is a row of    *)
(* the table, and nothing else can be seen in the file.                    *)
LEMMA SavingRefines ==
  ASSUME IInv, TurnsInv, NEW c \in Clients, SaveRecovered(c) \/ Commit(c)
  PROVE  Lifecycle!Next
<1> DEFINE k == client[c]
           vs == IF k.pc = "save" THEN k.got ELSE k.next
           phase == [i \in Ids |-> IF Valid(i) THEN Stored(i).cur ELSE None]
           version == [i \in Ids |-> snap[i].vs.version]
<1>1. Busy(c) /\ k.m \in Ids
  BY DEF IInv, CallSound, Busy, SaveRecovered, Commit
<1>2. PICK m \in Ids : m = k.m
  BY <1>1
<1>3. Busy(c) /\ CallSound(k) /\ m \in Ids /\ Knows(k, snap[m]) /\ FileSound(snap[m], log[m])
  BY <1>1, <1>2 DEF IInv, TurnsInv
<1>4. snap' = [snap EXCEPT ![m] = Saved(vs)] /\ k.pc \in {"save", "commit"}
  BY <1>2 DEF SaveRecovered, Commit
<1>5. snap'[m].file = "ok" /\ snap'[m].vs = vs /\ \A i \in Ids : i # m => snap'[i] = snap[i]
  BY <1>3, <1>4 DEF IInv, Saved
<1>6. phase' = [phase EXCEPT ![m] = vs.state.cur]
  BY <1>3, <1>5 DEF Valid, Stored
<1>7. version' = [version EXCEPT ![m] = vs.version]
  BY <1>3, <1>5
<1>8. CASE k.pc = "save" \/ k.kind = "init"
  <2>1. snap[m].file = "missing" /\ snap[m].vs = Absent
    BY <1>3, <1>4, <1>8 DEF Knows, FileSound, Busy
  <2>2. vs.version = 1 /\ vs.state.cur = InitialState
    <3>1. CASE k.pc = "save"
      <4>1. vs = Recovered(EmptyLog, InitialState)
        BY <1>3, <3>1 DEF Knows, Busy
      <4> QED BY <4>1 DEF Recovered, EmptyLog
    <3>2. CASE k.pc = "commit" /\ k.kind = "init"
      BY <1>3, <3>2 DEF Knows, Busy
    <3> QED BY <1>4, <1>8, <3>1, <3>2
  <2>3. phase[m] = None
    BY <1>3, <2>1 DEF Valid
  <2> HIDE DEF vs
  <2>4. Lifecycle!Create(m)
    BY <1>6, <1>7, <2>2, <2>3 DEF Lifecycle!Create, Lifecycle!InitialState, InitialState
  <2> QED BY <2>4 DEF Lifecycle!Next
<1>9. CASE k.pc = "commit" /\ k.kind = "recheck"
  <2>1. /\ snap[m].file = "ok" /\ <<snap[m].vs.state.cur, k.ev, vs.state.cur>> \in Transitions
        /\ vs.version = snap[m].vs.version + 1
    BY <1>3, <1>9 DEF Knows, Busy
  <2>2. phase[m] = snap[m].vs.state.cur /\ version[m] = snap[m].vs.version
    BY <1>3, <2>1 DEF Valid, Stored
  <2>3. vs.state.cur \in States /\ k.ev \in Events
    BY <2>1 DEF Transitions, States, Events
  <2>4. PICK e \in Events : e = k.ev
    BY <2>3
  <2> HIDE DEF vs
  <2>5. Lifecycle!Fire(m, e)
    BY <1>6, <1>7, <2>1, <2>2, <2>3, <2>4
    DEF Lifecycle!Fire, Lifecycle!Transitions, Transitions, Lifecycle!States, States
  <2> QED BY <2>5 DEF Lifecycle!Next, Lifecycle!Events, Events
<1> QED BY <1>3, <1>4, <1>8, <1>9 DEF CallSound

LEMMA StepRefines ==
  ASSUME IInv, TurnsInv, TakingTurns, [Next]_vars
  PROVE  [Lifecycle!Next]_(Lifecycle!lvars)
<1>1. CASE \E c \in Clients : SaveRecovered(c) \/ Commit(c)
  BY <1>1, SavingRefines
<1>2. CASE snap' = snap
  BY <1>2 DEF Lifecycle!lvars, Valid, Stored
<1>3. \/ snap' = snap
      \/ \E c \in Clients : SaveRecovered(c) \/ Commit(c)
  <2>1. CASE \E c \in Clients : Start(c)
    BY <2>1 DEF Start, Initialize, TransitionState, GetCurrentState, Enter
  <2>2. CASE \E c \in Clients : Continue(c)
    BY <2>2 DEF Continue, LoadSnapshot, SnapshotUnusable, ReplayLog, AppendEvent
  <2>3. CASE Disturb
    BY <2>3 DEF Disturb, TakingTurns, Fault, Abort, TearAppend, ReadFails, LoseSnapshot,
                CorruptSnapshot, DeleteManifestState
  <2> QED BY <2>1, <2>2, <2>3 DEF Next, Rest, vars
<1> QED BY <1>1, <1>2, <1>3

(* With callers that take turns, the files, awaits, recoveries and cut     *)
(* short calls of the pipeline amount to the atomic lifecycle.             *)
THEOREM TurnsImplementLifecycle == ASSUME TakingTurns PROVE Spec => ImplementsLifecycle
<1>1. Init => Lifecycle!Init
  BY DEF Init, Lifecycle!Init, Valid, NoFile, Absent
<1>2. IInv /\ TurnsInv /\ [Next]_vars => [Lifecycle!Next]_(Lifecycle!lvars)
  BY StepRefines
<1> QED BY <1>1, <1>2, TurnsInvariant, PTL DEF Spec, ImplementsLifecycle, Lifecycle!Spec
-----------------------------------------------------------------------------
(* Losing snapshots.  Callers still take turns and no append fails, but a  *)
(* snapshot may vanish at any moment, also under a call that has read it.  *)
LosingSnapshots == Exclusive = TRUE /\ Faults \subseteq {"lose"}

(* Replaying the log l yields the lifecycle state and review data of s.    *)
Agrees(s, l) ==
  LET r == Recovered(l, InitialState).state
  IN <<r.cur, r.reviewer, r.notes, r.reason>> = <<s.cur, s.reviewer, s.notes, s.reason>>

(* Before the first transition there is nothing that a log could give back. *)
LogSound(l) ==
  /\ ~l.torn
  /\ l.cur = None => l.reviewer = None /\ ~l.notes /\ ~l.reason

(* What a suspended call k has computed agrees with the log l as it will   *)
(* be when k has appended to it; until k commits the snapshot s, if it is  *)
(* there, agrees with the log as it is.                                    *)
Foresees(k, s, l) ==
  /\ ~k.corrupt
  /\ k.pc = "save" => Agrees(k.got.state, l)
  /\ k.kind = "recheck" \/ k.pc \in {"commit", "append"} => Agrees(k.next.state, Logged(l, k))
  /\ s.file = "ok" => IF k.pc = "append" THEN s.vs = k.next ELSE Agrees(s.vs.state, l)

ReplayInv ==
  /\ \A m \in Ids : snap[m].file \in {"missing", "ok"} /\ LogSound(log[m])
  /\ \A m \in Ids : Quiet(m) => Agrees(Stored(m), log[m])
  /\ \A c \in Clients : Busy(c) => Foresees(client[c], snap[client[c].m], log[client[c].m])
  /\ \A c, d \in Clients : Busy(c) /\ Busy(d) /\ client[c].m = client[d].m => c = d

(* A log always replays to some lifecycle state.                           *)
LEMMA AgreesHasState ==
  ASSUME NEW s, NEW l, Agrees(s, l)
  PROVE  s.cur # None
<1>1. InitialState # None
  BY PipelineAssumptions DEF InitialState, States
<1> QED BY <1>1 DEF Agrees, Recovered

(* A transition computed from a state that agrees with the log agrees with *)
(* the log that its event is in.                                           *)
LEMMA AfterAgrees ==
  ASSUME NEW s \in ManifestState, NEW l \in EventLog, ~l.torn, Agrees(s, l),
         NEW e, NEW ctx \in Context, NEW r \in AllowedRows(s, e, ctx),
         NEW k, k.kind = "recheck", k.ctx = ctx, k.next.state = After(s, r, ctx)
  PROVE  Agrees(k.next.state, Logged(l, k))
<1> DEFINE t == After(s, r, ctx)
           n == Logged(l, k)
<1>1. /\ n.cur = r[3] /\ n.reviewer = (IF ctx.reviewer # None THEN ctx.reviewer ELSE l.reviewer)
      /\ n.notes = (l.notes \/ ctx.notes) /\ n.reason = (l.reason \/ ctx.reason)
  BY DEF Logged, EventLog, After
<1>2. r[3] # None
  BY PipelineAssumptions DEF AllowedRows, Transitions, States
<1>3. s.reviewer = l.reviewer /\ s.notes = l.notes /\ s.reason = l.reason
  BY DEF Agrees, Recovered
<1>4. /\ t.cur = r[3] /\ t.reviewer = (IF ctx.reviewer # None THEN ctx.reviewer ELSE s.reviewer)
      /\ t.notes = (ctx.notes \/ s.notes) /\ t.reason = (ctx.reason \/ s.reason)
  BY DEF After
<1>5. (l.notes \/ ctx.notes) = (ctx.notes \/ s.notes)
      /\ (l.reason \/ ctx.reason) = (ctx.reason \/ s.reason)
  BY <1>3 DEF EventLog, Context, ManifestState
<1>6. t.notes = n.notes /\ t.reason = n.reason /\ t.cur = n.cur /\ t.reviewer = n.reviewer
  BY <1>1, <1>3, <1>4, <1>5
<1> HIDE DEF t, n
<1>7. Agrees(t, n)
  BY <1>1, <1>2, <1>6 DEF Agrees, Recovered
<1> QED BY <1>7 DEF t, n

(* So does a manifest created while no transition has been logged.         *)
LEMMA CreatedAgrees ==
  ASSUME NEW l \in EventLog, LogSound(l), l.cur = None,
         NEW f, NEW k, k.kind = "init", k.next = Created(f)
  PROVE  Agrees(k.next.state, Logged(l, k))
<1> DEFINE n == Logged(l, k)
<1>1. n.cur = None /\ n.reviewer = None /\ n.notes = FALSE /\ n.reason = FALSE
  BY DEF Logged, EventLog, LogSound
<1>2. /\ k.next.state.cur = InitialState /\ k.next.state.reviewer = None
      /\ k.next.state.notes = FALSE /\ k.next.state.reason = FALSE
  <2>1. Created(f).state.cur = InitialState /\ Created(f).state.reviewer = None
    BY DEF Created, EmptyState
  <2>2. Created(f).state.notes = FALSE /\ Created(f).state.reason = FALSE
    BY DEF Created, EmptyState
  <2> QED BY <2>1, <2>2
<1> HIDE DEF n
<1>3. Agrees(k.next.state, n)
  BY <1>1, <1>2 DEF Agrees, Recovered
<1> QED BY <1>3 DEF n

(* A busy call that moves on, or ends, disturbs no other manifest.         *)
LEMMA MoveKeepsReplay ==
  ASSUME IInv, ReplayInv, NEW c \in Clients, Busy(c), NEW n, Step(c, n),
         \A i \in Ids : i # client[c].m => snap'[i] = snap[i] /\ log'[i] = log[i],
         snap'[client[c].m].file \in {"missing", "ok"}, LogSound(log'[client[c].m]),
         n.pc # "idle" =>
           n.m = client[c].m /\ Foresees(n, snap'[client[c].m], log'[client[c].m]),
         n.pc = "idle" /\ snap'[client[c].m].file = "ok" =>
           Agrees(snap'[client[c].m].vs.state, log'[client[c].m])
  PROVE  ReplayInv'
<1> DEFINE m == client[c].m
<1>1. client \in [Clients -> Call] /\ \A d \in Clients : Busy(d) => client[d].m \in Ids
  BY DEF IInv, CallSound, Busy
<1>2. client'[c] = n /\ \A d \in Clients : d # c => client'[d] = client[d]
  BY <1>1 DEF Step
<1>3. \A d \in Clients : d # c /\ Busy(d) => client[d].m # m
  BY DEF ReplayInv
<1>4. ASSUME NEW d \in Clients, Busy(d)'
      PROVE  Foresees(client'[d], snap'[client'[d].m], log'[client'[d].m])
  <2>1. CASE d = c
    BY <1>2, <1>4, <2>1 DEF Busy
  <2>2. CASE d # c
    <3>1. Busy(d) /\ client'[d] = client[d]
      BY <1>2, <1>4, <2>2 DEF Busy
    <3>2. client[d].m \in Ids /\ client[d].m # m
      BY <1>1, <1>3, <2>2, <3>1
    <3> QED BY <3>1, <3>2 DEF ReplayInv
  <2> QED BY <2>1, <2>2
<1>5. ASSUME NEW i \in Ids, Quiet(i)' PROVE Agrees(Stored(i)', log'[i])
  <2>1. CASE i = m
    <3>1. n.pc = "idle"
      BY <1>2, <1>5, <2>1 DEF Quiet, BusyOn, Busy
    <3> QED BY <1>5, <2>1, <3>1 DEF Quiet, Valid, Stored
  <2>2. CASE i # m
    <3>1. ~BusyOn(i)
      BY <1>2, <1>5, <2>2 DEF Quiet, BusyOn, Busy
    <3> QED BY <1>5, <2>2, <3>1 DEF Quiet, Valid, Stored, ReplayInv
  <2> QED BY <2>1, <2>2
<1>6. ASSUME NEW d \in Clients, NEW e \in Clients, Busy(d)', Busy(e)', client'[d].m = client'[e].m
      PROVE  d = e
  <2>1. /\ Busy(d) /\ client'[d].m = client[d].m
        /\ Busy(e) /\ client'[e].m = client[e].m
    BY <1>2, <1>6 DEF Busy
  <2> QED BY <1>6, <2>1 DEF ReplayInv
<1>7. \A i \in Ids : snap'[i].file \in {"missing", "ok"} /\ LogSound(log'[i])
  BY DEF ReplayInv
<1> QED BY <1>4, <1>5, <1>6, <1>7 DEF ReplayInv

(* A call that enters finds a snapshot that agrees with the log, or none.  *)
LEMMA EnterKeepsReplay ==
  ASSUME IInv, ReplayInv, NEW c \in Clients, NEW m \in Ids, ~BusyOn(m),
         NEW k \in Call, k.kind # "recheck", ~k.corrupt, Enter(c, m, k)
  PROVE  ReplayInv'
<1> DEFINE n == [k EXCEPT !.pc = "load", !.m = m]
<1>1. n.pc = "load" /\ n.m = m /\ n.kind # "recheck" /\ ~n.corrupt
  BY DEF Call
<1>2. client \in [Clients -> Call] /\ client' = [client EXCEPT ![c] = n]
  BY DEF IInv, Enter, Step
<1> HIDE DEF n
<1>3. client'[c] = n /\ \A d \in Clients : d # c => client'[d] = client[d]
  BY <1>2
<1>4. snap' = snap /\ log' = log /\ ~Busy(c)
  BY DEF Enter
<1>5. Foresees(n, snap[m], log[m])
  BY <1>1 DEF Foresees, ReplayInv, Quiet, Valid, Stored
<1>6. \A d \in Clients : Busy(d)' => Foresees(client'[d], snap'[client'[d].m], log'[client'[d].m])
  BY <1>1, <1>3, <1>4, <1>5 DEF ReplayInv, Busy
<1>7. \A d, e \in Clients : Busy(d)' /\ Busy(e)' /\ client'[d].m = client'[e].m => d = e
  BY <1>1, <1>3 DEF ReplayInv, Busy, BusyOn
<1>8. ASSUME NEW i \in Ids, Quiet(i)' PROVE Agrees(Stored(i)', log'[i])
  <2>1. ~BusyOn(i)
    BY <1>3, <1>4, <1>8 DEF Quiet, BusyOn, Busy
  <2> QED BY <1>4, <1>8, <2>1 DEF Quiet, Valid, Stored, ReplayInv
<1> QED BY <1>4, <1>6, <1>7, <1>8 DEF ReplayInv

(* What a call does with the state vs that it has just read or recovered.  *)
LEMMA DeliverForesees ==
  ASSUME IInv, NEW c \in Clients, Busy(c), ~client[c].corrupt,
         NEW s \in Snapshot, NEW l \in EventLog, LogSound(l),
         s.file = "ok" => Agrees(s.vs.state, l),
         client[c].kind = "recheck" => Agrees(client[c].next.state, Logged(l, client[c])),
         NEW vs \in Versioned, Deliver(c, vs),
         vs # Absent => Agrees(vs.state, l),
         vs = Absent => l.cur = None
  PROVE  \E n : Step(c, n) /\ (n.pc # "idle" => n.m = client[c].m /\ Foresees(n, s, l))
<1> DEFINE k == client[c]
<1>1. k \in Call /\ k.ctx \in Context
  BY DEF IInv, Call
<1>2. CASE Fail(c) \/ Return(c, vs)
  BY <1>2, EndedCalls DEF Fail, Return
<1>3. CASE InitializeRead(c, vs) /\ ~Fail(c)
  <2> DEFINE n == [k EXCEPT !.pc = "commit", !.corrupt = FALSE, !.got = Absent,
                            !.next = Created(k.ctx.manifest)]
  <2>1. k.kind = "init" /\ vs = Absent /\ Step(c, n)
    BY <1>3 DEF InitializeRead
  <2>2. /\ n.pc = "commit" /\ n.kind = "init" /\ n.m = k.m /\ ~n.corrupt
        /\ n.next = Created(k.ctx.manifest)
    BY <1>1, <2>1 DEF Call
  <2> HIDE DEF n
  <2>3. Agrees(n.next.state, Logged(l, n))
    BY <2>1, <2>2, CreatedAgrees
  <2>4. Foresees(n, s, l)
    BY <2>2, <2>3 DEF Foresees
  <2> QED BY <2>1, <2>2, <2>4
<1>4. ASSUME NEW r \in AllowedRows(vs.state, k.ev, k.ctx), vs # Absent,
             Step(c, [k EXCEPT !.pc = "load", !.kind = "recheck",
                               !.corrupt = FALSE, !.got = Absent, !.base = vs.version,
                               !.next = [version |-> 0, state |-> After(vs.state, r, k.ctx)]])
      PROVE  \E n : Step(c, n) /\ (n.pc # "idle" => n.m = k.m /\ Foresees(n, s, l))
  <2> DEFINE n == [k EXCEPT !.pc = "load", !.kind = "recheck",
                            !.corrupt = FALSE, !.got = Absent, !.base = vs.version,
                            !.next = [version |-> 0, state |-> After(vs.state, r, k.ctx)]]
  <2>1. /\ n.pc = "load" /\ n.kind = "recheck" /\ n.m = k.m /\ n.ctx = k.ctx /\ ~n.corrupt
        /\ n.next = [version |-> 0, state |-> After(vs.state, r, k.ctx)]
    BY <1>1 DEF Call
  <2>2. n.next.state = After(vs.state, r, k.ctx)
    BY <2>1
  <2>3. Step(c, n)
    BY <1>4
  <2> HIDE DEF n
  <2>4. vs.state \in ManifestState
    BY DEF Versioned
  <2>5. Agrees(n.next.state, Logged(l, n))
    BY <1>1, <1>4, <2>1, <2>2, <2>4, AfterAgrees DEF LogSound
  <2>6. Foresees(n, s, l)
    BY <2>1, <2>5 DEF Foresees
  <2> QED BY <2>1, <2>3, <2>6
<1>5. CASE ValidateVersion(c, vs) /\ ~Fail(c)
  <2> DEFINE again == [k EXCEPT !.pc = "load", !.kind = "read", !.corrupt = FALSE,
                                !.got = Absent, !.base = 0, !.next = Absent,
                                !.attempt = @ + 1]
             n == [k EXCEPT !.pc = "commit", !.corrupt = FALSE, !.got = Absent,
                            !.next.version = vs.version + 1]
  <2>1. k.kind = "recheck" /\ (Step(c, again) \/ Step(c, n))
    BY <1>5 DEF ValidateVersion, Retry
  <2>2. k.next \in Versioned
    BY <1>1 DEF Call
  <2>3. /\ again.pc = "load" /\ again.m = k.m /\ again.kind = "read" /\ ~again.corrupt
        /\ n.pc = "commit" /\ n.kind = "recheck" /\ n.m = k.m /\ n.ctx = k.ctx /\ ~n.corrupt
        /\ n.next = [k.next EXCEPT !.version = vs.version + 1]
    BY <1>1, <2>1 DEF Call
  <2>4. n.next.state = k.next.state
    BY <2>2, <2>3 DEF Versioned
  <2> HIDE DEF again, n
  <2>5. Logged(l, n) = Logged(l, k)
    BY <2>1, <2>3, <2>4 DEF Logged
  <2>6. Foresees(again, s, l) /\ Foresees(n, s, l)
    BY <2>1, <2>3, <2>4, <2>5 DEF Foresees
  <2> QED BY <2>1, <2>3, <2>6
<1>6. CASE ComputeNewState(c, vs)
  BY <1>2, <1>4, <1>6 DEF ComputeNewState
<1> QED BY <1>2, <1>3, <1>5, <1>6 DEF Deliver, QueryRead

(* The operations of a call, one await at a time.                          *)
LEMMA ContinueKeepsReplay ==
  ASSUME IInv, ReplayInv, NEW c \in Clients, Continue(c)
  PROVE  ReplayInv'
<1> DEFINE k == client[c]
           m == k.m
           s == snap[m]
           l == log[m]
<1>1. /\ Busy(c) /\ k \in Call /\ CallSound(k) /\ m \in Ids
      /\ s \in Snapshot /\ l \in EventLog
  BY DEF IInv, CallSound, Busy, Continue, LoadSnapshot, SnapshotUnusable, ReplayLog,
         SaveRecovered, Commit, AppendEvent
<1>2. Foresees(k, s, l) /\ s.file \in {"missing", "ok"} /\ LogSound(l)
  BY <1>1 DEF ReplayInv
<1>3. k.pc # "append" /\ s.file = "ok" => Agrees(s.vs.state, l)
  BY <1>2 DEF Foresees
<1>4. k.kind = "recheck" => Agrees(k.next.state, Logged(l, k))
  BY <1>2 DEF Foresees
<1>5. ~k.corrupt
  BY <1>2 DEF Foresees
<1>6. CASE LoadSnapshot(c)
  <2>1. k.pc = "load" /\ s.file = "ok" /\ Deliver(c, s.vs) /\ UNCHANGED <<snap, log>>
    BY <1>6 DEF LoadSnapshot
  <2>2. s.vs \in Versioned /\ Agrees(s.vs.state, l)
    BY <1>1, <1>3, <2>1 DEF Snapshot
  <2>3. s.vs # Absent
    BY <2>2, AgreesHasState DEF Absent, EmptyState
  <2>4. PICK n : Step(c, n) /\ (n.pc # "idle" => n.m = m /\ Foresees(n, s, l))
    BY <1>1, <1>2, <1>4, <1>5, <2>1, <2>2, <2>3, DeliverForesees
  <2> QED BY <1>1, <1>2, <2>1, <2>2, <2>4, MoveKeepsReplay
<1>7. CASE SnapshotUnusable(c)
  <2> DEFINE n == [k EXCEPT !.pc = "replay", !.corrupt = (s.file = "corrupt")]
  <2>1. k.pc = "load" /\ s.file = "missing" /\ Step(c, n) /\ UNCHANGED <<snap, log>>
    BY <1>2, <1>7 DEF SnapshotUnusable
  <2>2. /\ n.pc = "replay" /\ ~n.corrupt /\ n.kind = k.kind /\ n.m = m /\ n.ctx = k.ctx
        /\ n.next = k.next
    BY <1>1, <2>1 DEF Call
  <2> HIDE DEF n
  <2>3. Logged(l, n) = Logged(l, k)
    BY <2>2 DEF Logged
  <2>4. Foresees(n, s, l)
    BY <1>4, <2>1, <2>2, <2>3 DEF Foresees
  <2> QED BY <1>1, <1>2, <2>1, <2>2, <2>4, MoveKeepsReplay
<1>8. CASE ReplayLog(c)
  <2> DEFINE initial == IF k.kind = "init" THEN None ELSE InitialState
             r == Recovered(l, initial)
             n == [k EXCEPT !.pc = "save", !.got = r]
  <2>1. k.pc = "replay" /\ UNCHANGED <<snap, log>> /\ ~l.torn
    BY <1>2, <1>8 DEF ReplayLog, LogSound
  <2>2. CASE r.state.cur = None
    <3>1. l.cur = None
      BY <2>2 DEF Recovered
    <3>2. Deliver(c, Absent)
      BY <1>5, <1>8, <2>1, <2>2 DEF ReplayLog
    <3>3. Absent \in Versioned
      BY ConstantTypes
    <3>4. PICK q : Step(c, q) /\ (q.pc # "idle" => q.m = m /\ Foresees(q, s, l))
      BY <1>1, <1>2, <1>3, <1>4, <1>5, <2>1, <3>1, <3>2, <3>3, DeliverForesees
    <3> QED BY <1>1, <1>2, <1>3, <2>1, <3>4, MoveKeepsReplay
  <2>3. CASE r.state.cur # None
    <3>1. Step(c, n)
      BY <1>8, <2>1, <2>3 DEF ReplayLog
    <3>2. r.state = Recovered(l, InitialState).state
      BY <2>3 DEF Recovered
    <3>3. Agrees(r.state, l)
      BY <3>2 DEF Agrees
    <3> HIDE DEF r
    <3>4. /\ n.pc = "save" /\ n.got = r /\ n.kind = k.kind /\ n.m = m /\ n.ctx = k.ctx
          /\ n.next = k.next /\ ~n.corrupt
      BY <1>1, <1>5 DEF Call
    <3> HIDE DEF n
    <3>5. Logged(l, n) = Logged(l, k)
      BY <3>4 DEF Logged
    <3>6. Foresees(n, s, l)
      BY <1>3, <1>4, <2>1, <3>3, <3>4, <3>5 DEF Foresees
    <3> QED BY <1>1, <1>2, <2>1, <3>1, <3>4, <3>6, MoveKeepsReplay
  <2> QED BY <2>2, <2>3
<1>9. CASE SaveRecovered(c)
  <2> DEFINE t == Saved(k.got)
  <2>1. k.pc = "save" /\ snap' = [snap EXCEPT ![m] = t] /\ Deliver(c, k.got) /\ log' = log
    BY <1>9 DEF SaveRecovered
  <2>2. t.file = "ok" /\ t.vs = k.got /\ t \in Snapshot /\ k.got \in Versioned
    BY <1>1 DEF Saved, Snapshot, Call
  <2>3. Agrees(k.got.state, l)
    BY <1>2, <2>1 DEF Foresees
  <2>4. k.got # Absent
    BY <2>3, AgreesHasState DEF Absent, EmptyState
  <2> HIDE DEF t
  <2>5. PICK n : Step(c, n) /\ (n.pc # "idle" => n.m = m /\ Foresees(n, t, l))
    BY <1>1, <1>2, <1>4, <1>5, <2>1, <2>2, <2>3, <2>4, DeliverForesees
  <2>6. snap'[m] = t /\ \A i \in Ids : i # m => snap'[i] = snap[i]
    BY <1>1, <2>1 DEF IInv
  <2> QED BY <1>1, <1>2, <2>1, <2>2, <2>3, <2>5, <2>6, MoveKeepsReplay
<1>10. CASE Commit(c)
  <2> DEFINE n == [k EXCEPT !.pc = "append"]
             t == Saved(k.next)
  <2>1. k.pc = "commit" /\ snap' = [snap EXCEPT ![m] = t] /\ Step(c, n) /\ log' = log
    BY <1>10 DEF Commit
  <2>2. t.file = "ok" /\ t.vs = k.next
    BY DEF Saved
  <2>3. /\ n.pc = "append" /\ n.next = k.next /\ n.m = m /\ n.kind = k.kind /\ n.ctx = k.ctx
        /\ ~n.corrupt
    BY <1>1, <1>5 DEF Call
  <2> HIDE DEF n, t
  <2>4. Logged(l, n) = Logged(l, k)
    BY <2>3 DEF Logged
  <2>5. Foresees(n, t, l)
    BY <1>2, <2>1, <2>2, <2>3, <2>4 DEF Foresees
  <2>6. snap'[m] = t /\ \A i \in Ids : i # m => snap'[i] = snap[i]
    BY <1>1, <2>1 DEF IInv
  <2> QED BY <1>1, <1>2, <2>1, <2>2, <2>3, <2>5, <2>6, MoveKeepsReplay
<1>11. CASE AppendEvent(c)
  <2>1. k.pc = "append" /\ Return(c, Absent) /\ snap' = snap
        /\ log' = [log EXCEPT ![m] = Logged(@, k)]
    BY <1>11 DEF AppendEvent
  <2>2. log'[m] = Logged(l, k) /\ \A i \in Ids : i # m => log'[i] = log[i]
    BY <1>1, <2>1 DEF IInv
  <2>3. Agrees(k.next.state, Logged(l, k)) /\ (s.file = "ok" => s.vs = k.next)
    BY <1>2, <2>1 DEF Foresees
  <2>4. LogSound(Logged(l, k))
    <3>1. CASE k.kind = "init"
      BY <1>1, <1>2, <3>1 DEF Logged, LogSound, EventLog
    <3>2. CASE k.kind # "init"
      <4>1. Logged(l, k).cur = k.next.state.cur /\ ~Logged(l, k).torn
        BY <1>1, <1>2, <3>2 DEF Logged, LogSound, EventLog
      <4> QED BY <2>3, <4>1, AgreesHasState DEF LogSound
    <3> QED BY <3>1, <3>2
  <2> QED BY <1>1, <1>2, <2>1, <2>2, <2>3, <2>4, EndedCalls, MoveKeepsReplay DEF Return
<1> QED BY <1>6, <1>7, <1>8, <1>9, <1>10, <1>11 DEF Continue

(* What a call expects of a snapshot it expects only if there is one.      *)
LEMMA LoseKeepsReplay ==
  ASSUME IInv, ReplayInv, NEW m \in Ids, LoseSnapshot(m)
  PROVE  ReplayInv'
<1>1. client' = client /\ log' = log /\ snap' = [snap EXCEPT ![m] = NoFile]
  BY DEF LoseSnapshot
<1>2. \A i \in Ids : snap'[i] = snap[i] \/ snap'[i].file = "missing"
  BY <1>1 DEF IInv, NoFile
<1>3. \A c \in Clients : Busy(c) => client[c].m \in Ids
  BY DEF IInv, CallSound, Busy
<1>4. \A c \in Clients : Busy(c)' => Foresees(client'[c], snap'[client'[c].m], log'[client'[c].m])
  BY <1>1, <1>2, <1>3 DEF ReplayInv, Foresees, Busy
<1>5. \A i \in Ids : Quiet(i)' => Agrees(Stored(i)', log'[i])
  BY <1>1, <1>2 DEF ReplayInv, Quiet, Valid, Stored, BusyOn, Busy
<1> QED BY <1>1, <1>2, <1>4, <1>5 DEF ReplayInv, Busy

LEMMA CallKeepsReplay ==
  ASSUME IInv, ReplayInv, NEW c \in Clients, NEW m \in Ids, ~BusyOn(m), Calls(c, m)
  PROVE  ReplayInv'
<1>1. ASSUME NEW f \in Manifests, Initialize(c, m, f) PROVE ReplayInv'
  <2> DEFINE k == [NoCall EXCEPT !.kind = "init", !.ctx.manifest = f]
  <2>1. k \in Call /\ k.kind = "init" /\ ~k.corrupt
    BY NoCallSound DEF Call, Context, NoCall
  <2> HIDE DEF k
  <2>2. Enter(c, m, k)
    BY <1>1 DEF Initialize, k
  <2> QED BY <2>1, <2>2, EnterKeepsReplay
<1>2. ASSUME NEW e \in Events, NEW ctx \in ContextsOf(e), TransitionState(c, m, e, ctx)
      PROVE  ReplayInv'
  <2> DEFINE k == [NoCall EXCEPT !.kind = "read", !.ev = e, !.ctx = ctx]
  <2>1. k \in Call
    BY NoCallSound, ContextsOfType DEF Call
  <2>2. k.kind = "read" /\ ~k.corrupt
    BY DEF NoCall
  <2> HIDE DEF k
  <2>3. Enter(c, m, k)
    BY <1>2 DEF TransitionState, k
  <2> QED BY <2>1, <2>2, <2>3, EnterKeepsReplay
<1>3. ASSUME GetCurrentState(c, m) PROVE ReplayInv'
  <2>1. NoCall.kind = "query" /\ ~NoCall.corrupt
    BY DEF NoCall
  <2> QED BY <1>3, <2>1, NoCallSound, EnterKeepsReplay DEF GetCurrentState
<1> QED BY <1>1, <1>2, <1>3 DEF Calls

LEMMA InitReplay == Init => ReplayInv
BY DEF Init, ReplayInv, LogSound, EmptyLog, NoFile, Busy, NoCall, Quiet, Valid

LEMMA StepKeepsReplay ==
  ASSUME IInv, ReplayInv, LosingSnapshots, [Next]_vars
  PROVE  ReplayInv'
<1>1. CASE UNCHANGED vars
  BY <1>1 DEF vars, ReplayInv, Busy, Quiet, Valid, Stored, BusyOn
<1>2. ASSUME NEW c \in Clients, Start(c) PROVE ReplayInv'
  <2>1. PICK m \in Ids : ~BusyOn(m) /\ Calls(c, m)
    BY <1>2 DEF Start, LosingSnapshots, Calls
  <2> QED BY <2>1, CallKeepsReplay
<1>3. CASE Disturb
  <2>1. \A kind : Fault(kind) => kind = "lose"
    BY DEF LosingSnapshots, Fault
  <2>2. \E m \in Ids : LoseSnapshot(m)
    BY <1>3, <2>1 DEF Disturb, Abort, TearAppend, ReadFails, CorruptSnapshot, DeleteManifestState
  <2> QED BY <2>2, LoseKeepsReplay
<1> QED BY <1>1, <1>2, <1>3, ContinueKeepsReplay DEF Next, Rest

(* Whenever no call works on a manifest whose snapshot is there, losing it *)
(* would lose nothing: what recovery would save has the same lifecycle     *)
(* state, reviewer, notes and reason, also if snapshots were lost and      *)
(* recovered before, between two reads of one call or under its commit.    *)
THEOREM LostSnapshotsAreReplayed == ASSUME LosingSnapshots PROVE Spec => []ReplayMatchesSnapshot
<1>1. IInv /\ ReplayInv /\ IInv' /\ [Next]_vars => ReplayInv'
  BY StepKeepsReplay
<1>2. ReplayInv => ReplayMatchesSnapshot
  BY DEF ReplayInv, ReplayMatchesSnapshot, Agrees
<1> QED BY <1>1, <1>2, InitReplay, InductiveInvariant, PTL DEF Spec

-----------------------------------------------------------------------------
(* What a caller that awaits a call may rely on when it goes on.           *)
LEMMA OthersUndisturbed ==
  ASSUME IInv, NEW c \in Clients, Continue(c)
  PROVE  /\ Busy(c) /\ (Busy(c)' => client'[c].m = client[c].m)
         /\ \A d \in Clients : d # c => client'[d] = client[d]
         /\ \A m \in Ids : m # client[c].m => snap'[m] = snap[m]
<1>1. Busy(c)
  BY DEF Busy, Continue, LoadSnapshot, SnapshotUnusable, ReplayLog, SaveRecovered, Commit,
         AppendEvent
<1> DEFINE k == client[c]
           Moves == \E n : Step(c, n) /\ (n.pc # "idle" => n.m = k.m)
<1>2. Moves
  <2>1. k \in Call
    BY DEF IInv
  <2>2. ASSUME Fail(c) \/ \E vs : Return(c, vs) PROVE Moves
    BY <2>2, EndedCalls DEF Fail, Return
  <2>3. ASSUME NEW vs, InitializeRead(c, vs) PROVE Moves
    <3> DEFINE n == [k EXCEPT !.pc = "commit", !.corrupt = FALSE, !.got = Absent,
                              !.next = Created(k.ctx.manifest)]
    <3>1. n.m = k.m
      BY <2>1 DEF Call
    <3>2. Fail(c) \/ Step(c, n)
      BY <2>3 DEF InitializeRead
    <3> HIDE DEF n
    <3> QED BY <2>2, <3>1, <3>2
  <2>4. ASSUME NEW vs, ComputeNewState(c, vs) PROVE Moves
    <3>1. ASSUME NEW r,
                 Step(c, [k EXCEPT !.pc = "load", !.kind = "recheck",
                                   !.corrupt = FALSE, !.got = Absent, !.base = vs.version,
                                   !.next = [version |-> 0, state |-> After(vs.state, r, k.ctx)]])
          PROVE  Moves
      <4> DEFINE n == [k EXCEPT !.pc = "load", !.kind = "recheck",
                                !.corrupt = FALSE, !.got = Absent, !.base = vs.version,
                                !.next = [version |-> 0, state |-> After(vs.state, r, k.ctx)]]
      <4>1. n.m = k.m
        BY <2>1 DEF Call
      <4>2. Step(c, n)
        BY <3>1
      <4> HIDE DEF n
      <4> QED BY <4>1, <4>2
    <3> QED BY <2>2, <2>4, <3>1 DEF ComputeNewState
  <2>5. ASSUME NEW vs, ValidateVersion(c, vs) PROVE Moves
    <3> DEFINE again == [k EXCEPT !.pc = "load", !.kind = "read", !.corrupt = FALSE,
                                  !.got = Absent, !.base = 0, !.next = Absent,
                                  !.attempt = @ + 1]
               n == [k EXCEPT !.pc = "commit", !.corrupt = FALSE, !.got = Absent,
                              !.next.version = vs.version + 1]
    <3>1. Fail(c) \/ Step(c, again) \/ Step(c, n)
      BY <2>5 DEF ValidateVersion, Retry
    <3>2. again.m = k.m /\ n.m = k.m
      BY <2>1 DEF Call
    <3> HIDE DEF again, n
    <3> QED BY <2>2, <3>1, <3>2
  <2>6. ASSUME NEW vs, Deliver(c, vs) PROVE Moves
    BY <2>2, <2>3, <2>4, <2>5, <2>6 DEF Deliver, QueryRead
  <2>7. CASE SnapshotUnusable(c)
    <3> DEFINE n == [k EXCEPT !.pc = "replay", !.corrupt = (snap[k.m].file = "corrupt")]
    <3>1. n.m = k.m /\ Step(c, n)
      BY <2>1, <2>7 DEF SnapshotUnusable, Call
    <3> HIDE DEF n
    <3> QED BY <3>1
  <2>8. CASE ReplayLog(c)
    <3> DEFINE r == Recovered(log[k.m], IF k.kind = "init" THEN None ELSE InitialState)
               n == [k EXCEPT !.pc = "save", !.got = r]
    <3>1. Fail(c) \/ Deliver(c, Absent) \/ Step(c, n)
      BY <2>8 DEF ReplayLog
    <3> HIDE DEF r
    <3>2. n.m = k.m
      BY <2>1 DEF Call
    <3> HIDE DEF n
    <3> QED BY <2>2, <2>6, <3>1, <3>2
  <2>9. CASE Commit(c)
    <3> DEFINE n == [k EXCEPT !.pc = "append"]
    <3>1. n.m = k.m /\ Step(c, n)
      BY <2>1, <2>9 DEF Commit, Call
    <3> HIDE DEF n
    <3> QED BY <3>1
  <2> HIDE DEF Moves
  <2> QED BY <2>2, <2>6, <2>7, <2>8, <2>9
          DEF Continue, LoadSnapshot, SaveRecovered, AppendEvent
<1>3. \A d \in Clients : d # c => client'[d] = client[d]
  BY <1>2 DEF IInv, Step
<1>4. snap' = snap \/ \E vs : snap' = [snap EXCEPT ![client[c].m] = Saved(vs)]
  BY DEF Continue, LoadSnapshot, SnapshotUnusable, ReplayLog, SaveRecovered, Commit,
         AppendEvent
<1>5. \A m \in Ids : m # client[c].m => snap'[m] = snap[m]
  BY <1>4 DEF IInv
<1>6. Busy(c)' => client'[c].m = k.m
  BY <1>2 DEF IInv, Step, Busy
<1> QED BY <1>1, <1>3, <1>5, <1>6

(* No row leaves REGISTERED, and recovery writes only what is missing.     *)
LEMMA RegisteredStays ==
  ASSUME IInv, TurnsInv, NEW c \in Clients, Continue(c), NEW m \in Ids,
         snap[m].file = "ok", snap[m].vs.state.cur = "REGISTERED"
  PROVE  snap'[m] = snap[m]
<1> DEFINE k == client[c]
<1>1. CASE snap' = snap
  BY <1>1
<1>2. CASE k.m # m
  BY <1>2, OthersUndisturbed
<1>3. CASE k.m = m /\ (SaveRecovered(c) \/ Commit(c))
  <2>1. Busy(c) /\ CallSound(k)
    BY OthersUndisturbed DEF IInv
  <2>2. Knows(k, snap[m])
    BY <1>3, <2>1 DEF TurnsInv
  <2>3. \A r \in Transitions : r[1] # "REGISTERED"
    BY DEF Transitions
  <2>4. k.pc \in {"save", "commit"} /\ (k.pc = "commit" => k.kind \in {"init", "recheck"})
    BY <1>3, <2>1 DEF SaveRecovered, Commit, CallSound
  <2> QED BY <2>1, <2>2, <2>3, <2>4 DEF Knows, Busy
<1> QED
  BY <1>1, <1>2, <1>3
  DEF Continue, LoadSnapshot, SnapshotUnusable, ReplayLog, AppendEvent

(* A query that is answered is answered with what is in the file.          *)
LEMMA QueryOutcome ==
  ASSUME IInv, TurnsInv, NEW c \in Clients, Continue(c), client[c].kind = "query"
  PROVE  /\ Busy(c)' => client'[c].m = client[c].m /\ client'[c].kind = "query"
         /\ ~Busy(c)' /\ client'[c].res = "ok" =>
              /\ snap'[client[c].m].file = "ok"
              /\ snap'[client[c].m].vs = client'[c].got
<1> DEFINE k == client[c]
           s == snap[k.m]
<1>1. Busy(c) /\ k \in Call /\ CallSound(k) /\ k.m \in Ids
  BY OthersUndisturbed DEF IInv, CallSound, Busy
<1>2. Knows(k, s) /\ FileSound(s, log[k.m])
  BY <1>1 DEF TurnsInv
<1>3. ASSUME NEW n, Step(c, n) PROVE client'[c] = n
  BY <1>3 DEF IInv, Step
<1>4. CASE Fail(c)
  <2>1. client'[c] = [NoCall EXCEPT !.res = "error"]
    BY <1>3, <1>4 DEF Fail
  <2> QED BY <2>1 DEF NoCall, Busy
<1>5. ASSUME NEW vs, QueryRead(c, vs)
      PROVE  ~Busy(c)' /\ client'[c].got = vs
  <2>1. client'[c] = [NoCall EXCEPT !.res = "ok", !.got = vs]
    BY <1>3, <1>5 DEF QueryRead, Return
  <2> QED BY <2>1 DEF NoCall, Busy
<1>6. \A vs : Deliver(c, vs) => QueryRead(c, vs)
  BY DEF Deliver, InitializeRead, ComputeNewState, ValidateVersion
<1>7. CASE LoadSnapshot(c)
  BY <1>5, <1>6, <1>7 DEF LoadSnapshot
<1>8. CASE SnapshotUnusable(c)
  <2> DEFINE n == [k EXCEPT !.pc = "replay", !.corrupt = (s.file = "corrupt")]
  <2>1. n.pc = "replay" /\ n.kind = "query" /\ n.m = k.m
    BY <1>1 DEF Call
  <2>2. client'[c] = n
    BY <1>3, <1>8 DEF SnapshotUnusable
  <2> QED BY <2>1, <2>2 DEF Busy
<1>9. CASE ReplayLog(c)
  <2> DEFINE r == Recovered(log[k.m], InitialState)
             n == [k EXCEPT !.pc = "save", !.got = r]
  <2>1. InitialState # None
    BY PipelineAssumptions DEF InitialState, States
  <2>2. r.state.cur # None
    BY <2>1 DEF Recovered
  <2>3. Fail(c) \/ Step(c, n)
    BY <1>9, <2>2 DEF ReplayLog
  <2> HIDE DEF r
  <2>4. n.pc = "save" /\ n.kind = "query" /\ n.m = k.m
    BY <1>1 DEF Call
  <2>5. CASE Step(c, n)
    BY <1>3, <2>4, <2>5 DEF Busy
  <2> QED BY <1>4, <2>3, <2>5
<1>10. CASE SaveRecovered(c)
  <2>1. QueryRead(c, k.got) /\ snap' = [snap EXCEPT ![k.m] = Saved(k.got)]
    BY <1>6, <1>10 DEF SaveRecovered
  <2>2. snap'[k.m] = Saved(k.got)
    BY <1>1, <2>1 DEF IInv
  <2> QED BY <1>5, <2>1, <2>2 DEF Saved
<1> QED
  BY <1>1, <1>7, <1>8, <1>9, <1>10 DEF Continue, Commit, AppendEvent, CallSound

(* A transition keeps the manifest, and returns only after its target is   *)
(* in the file.                                                            *)
LEMMA TransitionOutcome ==
  ASSUME IInv, TurnsInv, NEW c \in Clients, Continue(c),
         client[c].kind \in {"read", "recheck"}, snap[client[c].m].file = "ok"
  PROVE  LET k == client[c]
             s == snap'[k.m]
         IN
         /\ s.file = "ok" /\ s.vs.state.manifest = snap[k.m].vs.state.manifest
         /\ Busy(c)' => /\ client'[c].m = k.m /\ client'[c].ev = k.ev
                        /\ client'[c].kind \in {"read", "recheck"}
         /\ client'[c].pc = "append" => \E from : <<from, k.ev, s.vs.state.cur>> \in Transitions
         /\ ~Busy(c)' /\ client'[c].res = "ok" => k.pc = "append" /\ s = snap[k.m]
<1> DEFINE k == client[c]
           s == snap[k.m]
<1>1. Busy(c) /\ k \in Call /\ CallSound(k) /\ k.m \in Ids
  BY OthersUndisturbed DEF IInv, CallSound, Busy
<1>2. Knows(k, s)
  BY <1>1 DEF TurnsInv
<1>3. ASSUME NEW n, Step(c, n) PROVE client'[c] = n
  BY <1>3 DEF IInv, Step
<1>4. k.pc \notin {"replay", "save"}
  BY <1>1, <1>2 DEF Knows, Busy
<1>5. CASE LoadSnapshot(c)
  <2>1. snap' = snap /\ k.pc = "load"
    BY <1>5 DEF LoadSnapshot
  <2>2. CASE Fail(c)
    <3>1. client'[c] = [NoCall EXCEPT !.res = "error"]
      BY <1>3, <2>2 DEF Fail
    <3> QED BY <2>1, <3>1 DEF NoCall, Busy
  <2>3. ASSUME NEW n, Step(c, n), n.pc \in {"load", "commit"}, n.m = k.m, n.ev = k.ev,
               n.kind \in {"read", "recheck"}
        PROVE  /\ Busy(c)' /\ client'[c].pc # "append"
               /\ client'[c].m = k.m /\ client'[c].ev = k.ev
               /\ client'[c].kind \in {"read", "recheck"}
    BY <1>3, <2>3 DEF Busy
  <2>4. Fail(c) \/ \E n : /\ Step(c, n) /\ n.pc \in {"load", "commit"}
                         /\ n.m = k.m /\ n.ev = k.ev /\ n.kind \in {"read", "recheck"}
    <3> DEFINE Moves(n) == /\ Step(c, n) /\ n.pc \in {"load", "commit"}
                           /\ n.m = k.m /\ n.ev = k.ev /\ n.kind \in {"read", "recheck"}
    <3>1. CASE ComputeNewState(c, s.vs)
      <4>1. ASSUME NEW r,
                   Step(c, [k EXCEPT !.pc = "load", !.kind = "recheck",
                                     !.corrupt = FALSE, !.got = Absent, !.base = s.vs.version,
                                     !.next = [version |-> 0, state |-> After(s.vs.state, r, k.ctx)]])
            PROVE  \E n : Moves(n)
        <5> DEFINE n == [k EXCEPT !.pc = "load", !.kind = "recheck",
                                  !.corrupt = FALSE, !.got = Absent, !.base = s.vs.version,
                                  !.next = [version |-> 0, state |-> After(s.vs.state, r, k.ctx)]]
        <5>1. n.pc = "load" /\ n.m = k.m /\ n.ev = k.ev /\ n.kind = "recheck"
          BY <1>1 DEF Call
        <5>2. Step(c, n)
          BY <4>1
        <5> HIDE DEF n
        <5> QED BY <5>1, <5>2
      <4> QED BY <3>1, <4>1 DEF ComputeNewState
    <3>2. CASE ValidateVersion(c, s.vs) /\ ~Fail(c)
      <4> DEFINE again == [k EXCEPT !.pc = "load", !.kind = "read", !.corrupt = FALSE,
                                    !.got = Absent, !.base = 0, !.next = Absent,
                                    !.attempt = @ + 1]
                 n == [k EXCEPT !.pc = "commit", !.corrupt = FALSE, !.got = Absent,
                                !.next.version = s.vs.version + 1]
      <4>1. k.kind = "recheck" /\ (Step(c, again) \/ Step(c, n))
        BY <3>2 DEF ValidateVersion, Retry
      <4>2. /\ again.pc = "load" /\ again.m = k.m /\ again.ev = k.ev /\ again.kind = "read"
            /\ n.pc = "commit" /\ n.m = k.m /\ n.ev = k.ev /\ n.kind = k.kind
        BY <1>1 DEF Call
      <4> HIDE DEF again, n
      <4> QED BY <4>1, <4>2
    <3> QED BY <1>5, <3>1, <3>2 DEF LoadSnapshot, Deliver, InitializeRead, QueryRead
  <2> QED BY <1>1, <2>1, <2>2, <2>3, <2>4
<1>6. CASE Commit(c)
  <2> DEFINE n == [k EXCEPT !.pc = "append"]
  <2>1. k.pc = "commit" /\ k.kind = "recheck" /\ client'[c] = n
    BY <1>1, <1>3, <1>6 DEF Commit, CallSound
  <2>2. n.pc = "append" /\ n.m = k.m /\ n.ev = k.ev /\ n.kind = k.kind
    BY <1>1 DEF Call
  <2>3. snap'[k.m] = Saved(k.next)
    BY <1>1, <1>6 DEF Commit, IInv
  <2>4. /\ <<s.vs.state.cur, k.ev, k.next.state.cur>> \in Transitions
        /\ k.next.state.manifest = s.vs.state.manifest
    BY <1>2, <2>1 DEF Knows
  <2>5. /\ snap'[k.m].file = "ok" /\ snap'[k.m].vs.state.manifest = s.vs.state.manifest
        /\ <<s.vs.state.cur, k.ev, snap'[k.m].vs.state.cur>> \in Transitions
    BY <2>3, <2>4 DEF Saved
  <2> HIDE DEF n
  <2> QED BY <2>1, <2>2, <2>5 DEF Busy
<1>7. CASE AppendEvent(c)
  <2>1. client'[c] = [NoCall EXCEPT !.res = "ok", !.got = Absent]
    BY <1>3, <1>7 DEF AppendEvent, Return
  <2>2. snap' = snap /\ k.pc = "append"
    BY <1>7 DEF AppendEvent
  <2> QED BY <2>1, <2>2 DEF NoCall, Busy
<1> QED
  BY <1>4, <1>5, <1>6, <1>7 DEF Continue, SnapshotUnusable, ReplayLog, SaveRecovered

(* What a call is right after it was made.                                 *)
LEMMA CallEntered ==
  ASSUME IInv, NEW c \in Clients, NEW m \in Ids, Calls(c, m)
  PROVE  /\ ~Busy(c) /\ UNCHANGED <<snap, log, faults>>
         /\ client'[c].pc = "load" /\ client'[c].m = m
         /\ \A d \in Clients : d # c => client'[d] = client[d]
         /\ GetCurrentState(c, m) => client'[c].kind = "query"
         /\ \A e, ctx : TransitionState(c, m, e, ctx) =>
              client'[c].kind = "read" /\ client'[c].ev = e
<1>1. PICK k \in Call : Enter(c, m, k)
  <2>1. ASSUME NEW f \in Manifests, Initialize(c, m, f) PROVE \E k \in Call : Enter(c, m, k)
    <3>1. [NoCall EXCEPT !.kind = "init", !.ctx.manifest = f] \in Call
      BY NoCallSound DEF Call, Context
    <3> QED BY <2>1, <3>1 DEF Initialize
  <2>2. ASSUME NEW e \in Events, NEW ctx \in ContextsOf(e), TransitionState(c, m, e, ctx)
        PROVE  \E k \in Call : Enter(c, m, k)
    <3>1. [NoCall EXCEPT !.kind = "read", !.ev = e, !.ctx = ctx] \in Call
      BY NoCallSound, ContextsOfType DEF Call
    <3> QED BY <2>2, <3>1 DEF TransitionState
  <2> QED BY <2>1, <2>2, NoCallSound DEF Calls, GetCurrentState
<1>2. client' = [client EXCEPT ![c] = [k EXCEPT !.pc = "load", !.m = m]]
  BY <1>1 DEF Enter, Step
<1>3. client'[c].pc = "load" /\ client'[c].m = m
  BY <1>1, <1>2 DEF IInv, Call
<1>4. \A d \in Clients : d # c => client'[d] = client[d]
  BY <1>2 DEF IInv
<1>5. ASSUME GetCurrentState(c, m) PROVE client'[c].kind = "query"
  BY <1>5 DEF GetCurrentState, Enter, Step, NoCall, IInv
<1>6. ASSUME NEW e, NEW ctx, TransitionState(c, m, e, ctx)
      PROVE  client'[c].kind = "read" /\ client'[c].ev = e
  BY <1>6 DEF TransitionState, Enter, Step, NoCall, IInv
<1> QED BY <1>1, <1>3, <1>4, <1>5, <1>6 DEF Enter
=============================================================================
