------------------------ MODULE RegistrationPipeline ------------------------
(***************************************************************************)
(* registration-pipeline.js over optimistic-lock.js, file-persistence.js,  *)
(* event-sourcing.js and atomic-writer.js: several clients (concurrent     *)
(* promises of one process, or processes sharing the base directory) drive *)
(* manifests through the lifecycle.  Each manifest has a snapshot file     *)
(* (state.json, replaced by rename) and an append-only event log.          *)
(*                                                                         *)
(* A step runs from one file-system await to the next: what the code does  *)
(* between two awaits is one atomic turn of the event loop.                *)
(***************************************************************************)
EXTENDS Naturals, LifecycleTable

CONSTANTS
  Clients,      (* callers of the pipeline                                 *)
  Ids,          (* manifest identifiers                                    *)
  Manifests,    (* manifests a caller may initialize with                  *)
  WithUrn,      (* the manifests that carry a urn                          *)
  Reviewers,    (* reviewer identities                                     *)
  None,         (* JavaScript's undefined                                  *)
  MaxAttempts,  (* retryConfig.maxAttempts                                 *)
  Exclusive,    (* do callers serialise their calls per manifest?          *)
  Faults,       (* which of FaultKinds the environment may inject          *)
  MaxOps,       (* bound: calls made in one behaviour                      *)
  MaxFaults     (* bound: faults injected in one behaviour                 *)

FaultKinds == {"abort", "tear", "lose", "corrupt", "unreadable", "delete"}

ASSUME PipelineAssumptions ==
  /\ WithUrn \subseteq Manifests
  /\ None \notin Ids /\ None \notin Manifests /\ None \notin Reviewers
  /\ None \notin States /\ None \notin Events /\ None \notin Transitions
  /\ MaxAttempts \in Nat \ {0}
  /\ Exclusive \in BOOLEAN
  /\ Faults \subseteq FaultKinds
  /\ MaxOps \in Nat /\ MaxFaults \in Nat

VARIABLES
  snap,         (* snap[m]: the file state.json of manifest m              *)
  log,          (* log[m]: events.log of m, as what replaying it gives     *)
  client,       (* client[c]: the call c is in, or its last outcome        *)
  ops,          (* calls made so far                                       *)
  faults        (* faults injected so far                                  *)

vars == <<snap, log, client, ops, faults>>

-----------------------------------------------------------------------------
(* Data.                                                                   *)

ManifestState ==
  [ cur : States \cup {None}, manifest : Manifests \cup {None},
    reviewer : Reviewers \cup {None}, notes : BOOLEAN, reason : BOOLEAN,
    last : Transitions \cup {None} ]

Versioned == [version : Nat, state : ManifestState]

EmptyState == [ cur |-> None, manifest |-> None, reviewer |-> None,
                notes |-> FALSE, reason |-> FALSE, last |-> None ]

(* null: no versioned state.                                               *)
Absent == [version |-> 0, state |-> EmptyState]

Snapshot == [file : {"missing", "corrupt", "ok"}, vs : Versioned]
NoFile == [file |-> "missing", vs |-> Absent]
Corrupted == [file |-> "corrupt", vs |-> Absent]
Saved(vs) == [file |-> "ok", vs |-> vs]

(* The log is kept as the left fold replayEvents computes over it, which   *)
(* an append extends by one application of applyStateTransitionEvent.      *)
(* "events" counts its creation and transition events; a torn line makes   *)
(* every later parse of the file fail.                                     *)
EventLog == [ events : Nat, cur : States \cup {None},
              reviewer : Reviewers \cup {None}, notes : BOOLEAN,
              reason : BOOLEAN, torn : BOOLEAN ]
EmptyLog == [ events |-> 0, cur |-> None, reviewer |-> None,
              notes |-> FALSE, reason |-> FALSE, torn |-> FALSE ]

(* What a call carries: initialize its manifest, approve its reviewer and  *)
(* notes, reject its reason, register the conflict its caller found.       *)
Context == [ manifest : Manifests \cup {None}, reviewer : Reviewers \cup {None},
             notes : BOOLEAN, reason : BOOLEAN, conflict : BOOLEAN ]
NoContext == [ manifest |-> None, reviewer |-> None, notes |-> FALSE,
               reason |-> FALSE, conflict |-> FALSE ]
(* Mutant: approve(manifestId, reviewNotes, reviewer).                     *)
ContextsSwapped(e) ==
  [ manifest : {None},
    reviewer : IF e = "approve" THEN BOOLEAN ELSE {None},
    notes    : IF e = "approve" THEN Reviewers \cup {None} ELSE {FALSE},
    reason   : IF e = "reject" THEN BOOLEAN ELSE {FALSE},
    conflict : IF e = "register" THEN BOOLEAN ELSE {FALSE} ]

ContextsOf(e) ==
  [ manifest : {None},
    reviewer : IF e = "approve" THEN Reviewers \cup {None} ELSE {None},
    notes    : IF e = "approve" THEN BOOLEAN ELSE {FALSE},
    reason   : IF e = "reject" THEN BOOLEAN ELSE {FALSE},
    conflict : IF e = "register" THEN BOOLEAN ELSE {FALSE} ]

(* Mutants: canApprove forgets the notes; canRegister forgets the urn.     *)
GuardWithoutNotes(e, manifest, ctx) ==
  /\ e \in {"submit_for_review", "register"} => manifest \in WithUrn
  /\ e = "approve" => ctx.reviewer # None
  /\ e = "reject" => ctx.reason
  /\ e = "register" => ~ctx.conflict
GuardWithoutUrn(e, manifest, ctx) ==
  /\ e = "submit_for_review" => manifest \in WithUrn
  /\ e = "approve" => ctx.reviewer # None /\ ctx.notes
  /\ e = "reject" => ctx.reason
  /\ e = "register" => ~ctx.conflict

(* evaluateGuard; the manifest is the stored one, whatever the context.    *)
GuardAllows(e, manifest, ctx) ==
  /\ e \in {"submit_for_review", "register"} => manifest \in WithUrn
  /\ e = "approve" => ctx.reviewer # None /\ ctx.notes
  /\ e = "reject" => ctx.reason
  /\ e = "register" => ~ctx.conflict

(* canTransition and then the event's guard: at most one row.              *)
AllowedRows(s, e, ctx) ==
  {r \in Transitions :
     r[1] = s.cur /\ r[2] = e /\ GuardAllows(e, s.manifest, ctx)}

(* The next state: the row taken, and the context spread over the old state. *)
After(s, row, ctx) ==
  [ cur      |-> row[3],
    manifest |-> s.manifest,
    reviewer |-> IF ctx.reviewer # None THEN ctx.reviewer ELSE s.reviewer,
    notes    |-> ctx.notes \/ s.notes,
    reason   |-> ctx.reason \/ s.reason,
    last     |-> row ]

Created(manifest) ==
  [version |-> 1,
   state |-> [EmptyState EXCEPT !.cur = InitialState, !.manifest = manifest]]

(* recoverFromEventLog: the replayed state, at version 1.                  *)
Recovered(l, initial) ==
  [version |-> 1,
   state |-> [ cur      |-> IF l.cur = None THEN initial ELSE l.cur,
               manifest |-> None,
               reviewer |-> l.reviewer,
               notes    |-> l.notes,
               reason   |-> l.reason,
               last     |-> None ]]

-----------------------------------------------------------------------------
(* A call in progress.                                                     *)
(*   pc     the await it is suspended at                                   *)
(*   kind   what it reads for: "init" and "query" read once, a transition  *)
(*          reads to compute ("read") and again to validate ("recheck")    *)
(*   base   the version compareAndSwap read first                          *)
(*   next   the versioned state it is about to save                        *)
(*   got    the recovered state it is about to save, or a query's answer   *)
Call ==
  [ pc : {"idle", "load", "replay", "save", "commit", "append"},
    kind : {"init", "query", "read", "recheck"},
    m : Ids \cup {None}, ev : Events \cup {None}, ctx : Context,
    attempt : Nat, corrupt : BOOLEAN, base : Nat,
    next : Versioned, got : Versioned, res : {"none", "ok", "error"} ]

NoCall == [ pc |-> "idle", kind |-> "query", m |-> None, ev |-> None,
            ctx |-> NoContext, attempt |-> 0, corrupt |-> FALSE, base |-> 0,
            next |-> Absent, got |-> Absent, res |-> "none" ]

Busy(c) == client[c].pc # "idle"
BusyOn(m) == \E c \in Clients : Busy(c) /\ client[c].m = m

Step(c, call) == client' = [client EXCEPT ![c] = call]
Fail(c) == Step(c, [NoCall EXCEPT !.res = "error"])
Return(c, answer) == Step(c, [NoCall EXCEPT !.res = "ok", !.got = answer])

Init ==
  /\ snap = [m \in Ids |-> NoFile]
  /\ log = [m \in Ids |-> EmptyLog]
  /\ client = [c \in Clients |-> NoCall]
  /\ ops = 0
  /\ faults = 0

-----------------------------------------------------------------------------
(* Entry points.                                                           *)

Enter(c, m, call) ==
  /\ ~Busy(c)
  /\ Step(c, [call EXCEPT !.pc = "load", !.m = m])
  /\ UNCHANGED <<snap, log, faults>>

Initialize(c, m, manifest) ==
  Enter(c, m, [NoCall EXCEPT !.kind = "init", !.ctx.manifest = manifest])

TransitionState(c, m, e, ctx) ==
  Enter(c, m, [NoCall EXCEPT !.kind = "read", !.ev = e, !.ctx = ctx])

GetCurrentState(c, m) == Enter(c, m, NoCall)

-----------------------------------------------------------------------------
(* What a call does with the versioned state its read returned.            *)

InitializeRead(c, vs) ==
  LET k == client[c] IN
  /\ k.kind = "init"
  /\ \/ vs # Absent /\ Fail(c)
     \/ /\ vs = Absent
        /\ Step(c, [k EXCEPT !.pc = "commit", !.corrupt = FALSE, !.got = Absent,
                             !.next = Created(k.ctx.manifest)])

QueryRead(c, vs) == client[c].kind = "query" /\ Return(c, vs)

ComputeNewState(c, vs) ==
  LET k == client[c]
      rows == AllowedRows(vs.state, k.ev, k.ctx)
  IN
  /\ k.kind = "read"
  /\ \/ (vs = Absent \/ rows = {}) /\ Fail(c)
     \/ /\ vs # Absent
        /\ \E r \in rows :
             Step(c, [k EXCEPT !.pc = "load", !.kind = "recheck",
                               !.corrupt = FALSE, !.got = Absent,
                               !.base = vs.version,
                               !.next = [version |-> 0,
                                         state |-> After(vs.state, r, k.ctx)]])

(* retryWithBackoff after an OptimisticLockException.                      *)
Retry(c) ==
  LET k == client[c] IN
  \/ /\ k.attempt + 1 < MaxAttempts
     /\ Step(c, [k EXCEPT !.pc = "load", !.kind = "read", !.corrupt = FALSE,
                          !.got = Absent, !.base = 0, !.next = Absent,
                          !.attempt = @ + 1])
  \/ k.attempt + 1 >= MaxAttempts /\ Fail(c)

(* Mutant: the version is saved without the increment.                     *)
ValidateWithoutIncrement(c, vs) ==
  LET k == client[c] IN
  /\ k.kind = "recheck"
  /\ \/ k.base # vs.version /\ Retry(c)
     \/ /\ k.base = vs.version
        /\ Step(c, [k EXCEPT !.pc = "commit", !.corrupt = FALSE, !.got = Absent,
                             !.next.version = vs.version])

ValidateVersion(c, vs) ==
  LET k == client[c] IN
  /\ k.kind = "recheck"
  /\ \/ k.base # vs.version /\ Retry(c)
     \/ /\ k.base = vs.version
        /\ Step(c, [k EXCEPT !.pc = "commit", !.corrupt = FALSE, !.got = Absent,
                             !.next.version = vs.version + 1])

Deliver(c, vs) ==
  \/ InitializeRead(c, vs)
  \/ QueryRead(c, vs)
  \/ ComputeNewState(c, vs)
  \/ ValidateVersion(c, vs)

-----------------------------------------------------------------------------
(* loadStateWithRecovery, one await at a time.                             *)

LoadSnapshot(c) ==
  LET m == client[c].m IN
  /\ client[c].pc = "load"
  /\ snap[m].file = "ok"
  /\ Deliver(c, snap[m].vs)
  /\ UNCHANGED <<snap, log, ops, faults>>

(* Mutant: a missing snapshot is waited for.                               *)
SnapshotAwaited(c) ==
  /\ client[c].pc = "load"
  /\ snap[client[c].m].file = "corrupt"
  /\ Step(c, [client[c] EXCEPT !.pc = "replay", !.corrupt = TRUE])
  /\ UNCHANGED <<snap, log, ops, faults>>

(* No snapshot, or one that does not parse: turn to the event log.         *)
SnapshotUnusable(c) ==
  LET m == client[c].m IN
  /\ client[c].pc = "load"
  /\ snap[m].file # "ok"
  /\ Step(c, [client[c] EXCEPT !.pc = "replay",
                               !.corrupt = (snap[m].file = "corrupt")])
  /\ UNCHANGED <<snap, log, ops, faults>>

ReplayLog(c) ==
  LET k == client[c]
      l == log[k.m]
      r == Recovered(l, IF k.kind = "init" THEN None ELSE InitialState)
      found == k.corrupt \/ r.state.cur # None
  IN
  /\ k.pc = "replay"
  /\ \/ l.torn /\ Fail(c)
     \/ ~l.torn /\ ~found /\ Deliver(c, Absent)
     \/ ~l.torn /\ found /\ Step(c, [k EXCEPT !.pc = "save", !.got = r])
  /\ UNCHANGED <<snap, log, ops, faults>>

SaveRecovered(c) ==
  LET k == client[c] IN
  /\ k.pc = "save"
  /\ snap' = [snap EXCEPT ![k.m] = Saved(k.got)]
  /\ Deliver(c, k.got)
  /\ UNCHANGED <<log, ops, faults>>

-----------------------------------------------------------------------------
(* Writing: the snapshot by rename, then the event.                        *)

Commit(c) ==
  LET k == client[c] IN
  /\ k.pc = "commit"
  /\ snap' = [snap EXCEPT ![k.m] = Saved(k.next)]
  /\ Step(c, [k EXCEPT !.pc = "append"])
  /\ UNCHANGED <<log, ops, faults>>

(* Mutant: replay takes the event's reviewer even when it has none.        *)
LoggedWithoutDefault(l, k) ==
  IF l.torn THEN l
  ELSE IF k.kind = "init" THEN [l EXCEPT !.events = @ + 1]
  ELSE [l EXCEPT !.events = @ + 1,
                 !.cur = k.next.state.cur,
                 !.reviewer = k.ctx.reviewer,
                 !.notes = @ \/ k.ctx.notes,
                 !.reason = @ \/ k.ctx.reason]

(* The log once the call's event is in it.  After a torn line nothing that *)
(* is appended can be read back.                                           *)
Logged(l, k) ==
  IF l.torn THEN l
  ELSE IF k.kind = "init" THEN [l EXCEPT !.events = @ + 1]
  ELSE [l EXCEPT !.events = @ + 1,
                 !.cur = k.next.state.cur,
                 !.reviewer = IF k.ctx.reviewer # None
                              THEN k.ctx.reviewer ELSE @,
                 !.notes = @ \/ k.ctx.notes,
                 !.reason = @ \/ k.ctx.reason]

AppendEvent(c) ==
  LET k == client[c] IN
  /\ k.pc = "append"
  /\ log' = [log EXCEPT ![k.m] = Logged(@, k)]
  /\ Return(c, Absent)
  /\ UNCHANGED <<snap, ops, faults>>

-----------------------------------------------------------------------------
(* Faults.                                                                 *)

Fault(kind) == kind \in Faults /\ faults < MaxFaults /\ faults' = faults + 1

(* The process dies, or a file operation rejects: the call stops where it  *)
(* is; a temporary file may stay behind, which nobody reads.               *)
Abort(c) ==
  /\ Fault("abort")
  /\ Busy(c)
  /\ Fail(c)
  /\ UNCHANGED <<snap, log, ops>>

(* The process dies within the append and leaves half a line.              *)
TearAppend(c) ==
  /\ Fault("tear")
  /\ client[c].pc = "append"
  /\ log' = [log EXCEPT ![client[c].m].torn = TRUE]
  /\ Fail(c)
  /\ UNCHANGED <<snap, ops>>

(* Reading a sound snapshot fails (EMFILE, EIO): readJsonSafe reports a    *)
(* parse failure, so the snapshot is taken for corrupted.                  *)
ReadFails(c) ==
  /\ Fault("unreadable")
  /\ client[c].pc = "load"
  /\ snap[client[c].m].file = "ok"
  /\ Step(c, [client[c] EXCEPT !.pc = "replay", !.corrupt = TRUE])
  /\ UNCHANGED <<snap, log, ops>>

LoseSnapshot(m) ==
  /\ Fault("lose")
  /\ snap[m].file # "missing"
  /\ snap' = [snap EXCEPT ![m] = NoFile]
  /\ UNCHANGED <<log, client, ops>>

CorruptSnapshot(m) ==
  /\ Fault("corrupt")
  /\ snap[m].file = "ok"
  /\ snap' = [snap EXCEPT ![m] = Corrupted]
  /\ UNCHANGED <<log, client, ops>>

DeleteManifestState(m) ==
  /\ Fault("delete")
  /\ snap' = [snap EXCEPT ![m] = NoFile]
  /\ log' = [log EXCEPT ![m] = EmptyLog]
  /\ UNCHANGED <<client, ops>>

-----------------------------------------------------------------------------
Start(c) ==
  /\ ops < MaxOps
  /\ ops' = ops + 1
  /\ \E m \in Ids :
       /\ Exclusive => ~BusyOn(m)
       /\ \/ \E f \in Manifests : Initialize(c, m, f)
          \/ \E e \in Events : \E ctx \in ContextsOf(e) : TransitionState(c, m, e, ctx)
          \/ GetCurrentState(c, m)

Continue(c) ==
  \/ LoadSnapshot(c) \/ SnapshotUnusable(c) \/ ReplayLog(c) \/ SaveRecovered(c)
  \/ Commit(c) \/ AppendEvent(c)

Disturb ==
  \/ \E c \in Clients : Abort(c) \/ TearAppend(c) \/ ReadFails(c)
  \/ \E m \in Ids : LoseSnapshot(m) \/ CorruptSnapshot(m) \/ DeleteManifestState(m)

(* The bound on calls is used up and every call has returned.              *)
Rest == ops = MaxOps /\ (\A c \in Clients : ~Busy(c)) /\ UNCHANGED vars

Next == (\E c \in Clients : Start(c) \/ Continue(c)) \/ Disturb \/ Rest

Spec == Init /\ [][Next]_vars

(* The event loop resumes every suspended call whose await has settled.    *)
FairSpec == Spec /\ \A c \in Clients : WF_vars(Continue(c))

-----------------------------------------------------------------------------
(* Properties.                                                             *)

(* Every variable holds values of the shape the code gives it.             *)
TypeOK ==
  /\ snap \in [Ids -> Snapshot]
  /\ log \in [Ids -> EventLog]
  /\ client \in [Clients -> Call]
  /\ ops \in 0 .. MaxOps
  /\ faults \in 0 .. MaxFaults

Valid(m) == snap[m].file = "ok"
Stored(m) == snap[m].vs.state

Reviewed(s) ==
  /\ s.cur = "APPROVED" => s.reviewer # None /\ s.notes
  /\ s.cur = "REJECTED" => s.reason

Provenance(s) ==
  s.last # None =>
    /\ s.last \in Transitions
    /\ s.last[3] = s.cur
    /\ s.cur = "REGISTERED" => s.reviewer # None /\ s.notes /\ s.manifest \in WithUrn

(* A manifest stored as APPROVED names the reviewer and has review notes,  *)
(* and one stored as REJECTED has a reason, however the calls interleaved  *)
(* and whether the snapshot was written by a transition or by recovery.    *)
ReviewEvidence == \A m \in Ids : Valid(m) => Reviewed(Stored(m))

(* A manifest whose last write was a transition got where it is by a row   *)
(* of the table; if it is REGISTERED it was approved by somebody, with     *)
(* notes, and carries a urn.                                               *)
RegistrationProvenance == \A m \in Ids : Valid(m) => Provenance(Stored(m))

Quiet(m) == Valid(m) /\ ~BusyOn(m)

(* When callers take turns, losing a snapshot between calls loses no       *)
(* progress: the log replays to the stored lifecycle state and review data. *)
ReplayMatchesSnapshot ==
  \A m \in Ids : Quiet(m) =>
    LET r == Recovered(log[m], InitialState).state
        s == Stored(m)
    IN <<r.cur, r.reviewer, r.notes, r.reason>>
         = <<s.cur, s.reviewer, s.notes, s.reason>>

(* The pipeline implements the atomic lifecycle.                           *)
Lifecycle == INSTANCE RegistrationLifecycle WITH
  phase   <- [m \in Ids |-> IF Valid(m) THEN Stored(m).cur ELSE None],
  version <- [m \in Ids |-> snap[m].vs.version]

ImplementsLifecycle == Lifecycle!Spec

(* Every call returns or throws: a call that loses the race is retried at  *)
(* most MaxAttempts times, and no recovery path leaves it hanging.         *)
EveryCallReturns == \A c \in Clients : Busy(c) ~> ~Busy(c)

-----------------------------------------------------------------------------
(* Claims of the sources that the code does not keep.                      *)

TransitionSaved(m) == snap'[m] # snap[m] /\ snap'[m].vs.state.last # None

(* optimistic-lock.js:4, "preventing concurrent write conflicts": a saved  *)
(* transition replaces exactly the version it was computed from.           *)
NoConflictingWrites ==
  [][\A m \in Ids : Valid(m) /\ TransitionSaved(m) =>
       snap'[m].vs.version = snap[m].vs.version + 1]_vars

(* event-sourcing.js:9, "Recovery from corrupted state snapshots": what    *)
(* recovery saves for a manifest with a readable log has its manifest.     *)
RecoveryKeepsManifest ==
  [][\A m \in Ids :
       /\ snap[m].file = "corrupt" /\ snap'[m].file = "ok"
       /\ log[m].events > 0
       => snap'[m].vs.state.manifest # None]_vars
=============================================================================
