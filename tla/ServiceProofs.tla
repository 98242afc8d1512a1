---------------------------- MODULE ServiceProofs ----------------------------
(***************************************************************************)
(* Proofs about the two clients and the server.                            *)
(*                                                                         *)
(* The requests of the A2A client use the breaker as it is meant to be     *)
(* used, so what is proved of the breaker holds of that client.  The MCP   *)
(* client answers every call, watches its connection and stays down once   *)
(* shut down, for any number of reconnections, retries, tool calls and     *)
(* pings.  The registry server agrees with itself, for any agents, number  *)
(* of concurrent registrations and capacity.                               *)
(***************************************************************************)
EXTENDS A2AClient, MCPClient, RegistryServer, FiniteSetTheorems, TLAPS

-----------------------------------------------------------------------------
(* The A2A client.                                                         *)

Proofs == INSTANCE CircuitBreakerProofs

LEMMA InitRefines == Init => Breaker!Init
BY DEF Init

(* Each step of a request is a call of the breaker, its return, or nothing *)
(* the breaker sees.                                                       *)
LEMMA StepRefines == [Next]_vars => [Breaker!Next]_(Breaker!vars)
<1> SUFFICES ASSUME [Next]_vars PROVE [Breaker!Next]_(Breaker!vars)
  OBVIOUS
<1> USE DEF Breaker!Next, Breaker!Execute, Breaker!Settle
<1>1. breakerVars' = breakerVars => Breaker!vars' = Breaker!vars
  BY DEF breakerVars, Breaker!vars, Breaker!breaker
<1>2. ASSUME NEW c \in Callers, Begin(c) PROVE Breaker!Next
  BY <1>2 DEF Begin
<1>3. ASSUME NEW c \in Callers, Retry(c) PROVE [Breaker!Next]_(Breaker!vars)
  BY <1>1, <1>3 DEF Retry, Fail
<1>4. ASSUME NEW c \in Callers, Continue(c) PROVE [Breaker!Next]_(Breaker!vars)
  <2>1. CASE FetchSettles(c)
    BY <1>1, <1>3, <2>1 DEF FetchSettles, Return, Fail
  <2>2. CASE BodySettles(c)
    BY <1>1, <1>3, <2>2 DEF BodySettles, Return
  <2>3. CASE SleepEnds(c)
    BY <1>1, <2>3 DEF SleepEnds
  <2>4. CASE AuthSettles(c)
    BY <1>1, <1>3, <2>4 DEF AuthSettles
  <2> QED BY <1>4, <2>1, <2>2, <2>3, <2>4 DEF Continue
<1>5. CASE Elsewhere
  BY <1>5 DEF Elsewhere
<1>6. CASE UNCHANGED vars
  BY <1>1, <1>6 DEF vars, breakerVars
<1> QED BY <1>2, <1>4, <1>5, <1>6 DEF Next

(* A request, whatever its fetches, bodies and pauses do, is one call of   *)
(* the breaker, which it reports to exactly once.                          *)
THEOREM RequestsReportOnce == Spec => ReportsOnce
BY InitRefines, StepRefines, PTL DEF Spec, ReportsOnce, Breaker!Spec

LEMMA SameBreaker == Breaker!Spec => Proofs!Spec
<1>1. Breaker!Init <=> Proofs!Init
  BY DEF Breaker!Init, Proofs!Init
<1>2. Breaker!Next <=> Proofs!Next
  BY DEF
       Breaker!Init, Proofs!Init, Breaker!Next, Proofs!Next,
       Breaker!vars, Proofs!vars, Breaker!breaker, Proofs!breaker,
       Breaker!Execute, Proofs!Execute, Breaker!Settle,
       Proofs!Settle, Breaker!Reject, Proofs!Reject,
       Breaker!Admit, Proofs!Admit, Breaker!Succeed,
       Proofs!Succeed, Breaker!Throw, Proofs!Throw, Breaker!Reset,
       Proofs!Reset, Breaker!Tick, Proofs!Tick, Breaker!Recover,
       Proofs!Recover, Breaker!Refused, Proofs!Refused,
       Breaker!Running, Proofs!Running, Breaker!HalfOpen,
       Proofs!HalfOpen, Breaker!RecordSuccess,
       Proofs!RecordSuccess, Breaker!RecordFailure,
       Proofs!RecordFailure, Breaker!Increment, Proofs!Increment
<1>3. Breaker!vars = Proofs!vars /\ Breaker!vars' = Proofs!vars'
  BY DEF Breaker!vars, Proofs!vars, Breaker!breaker, Proofs!breaker
<1>4. [Breaker!Next]_(Breaker!vars) => [Proofs!Next]_(Proofs!vars)
  BY <1>2, <1>3
<1> QED BY <1>1, <1>4, PTL DEF Breaker!Spec, Proofs!Spec

(* Only requests that threw trip the breaker: refused ones do not, and a   *)
(* request that failed several times before it gave up counts once.        *)
THEOREM OnlyFailedRequestsTrip == Spec => TripsOnThrownErrors
<1>1. Proofs!Spec => Proofs!TripsOnThrownErrors
  BY BreakerAssumptions, Proofs!OnlyThrownErrorsTrip
<1>2. Proofs!TripsOnThrownErrors => TripsOnThrownErrors
  BY DEF TripsOnThrownErrors, Breaker!TripsOnThrownErrors, Proofs!TripsOnThrownErrors,
         Breaker!vars, Proofs!vars, Breaker!breaker, Proofs!breaker
<1> QED BY <1>1, <1>2, RequestsReportOnce, SameBreaker, PTL DEF ReportsOnce

(* Once open, the client's breaker stays open for the whole time-out,      *)
(* whatever requests under way report.                                     *)
THEOREM RequestsKeepItOpen == Spec => OpenForTheWholeTimeout
<1>1. Proofs!Spec => Proofs!OpenForTheWholeTimeout
  BY BreakerAssumptions, Proofs!StaysOpen
<1>2. Proofs!OpenForTheWholeTimeout => OpenForTheWholeTimeout
  BY DEF OpenForTheWholeTimeout, Breaker!OpenForTheWholeTimeout,
         Proofs!OpenForTheWholeTimeout, Breaker!Reset, Proofs!Reset,
         Breaker!vars, Proofs!vars, Breaker!breaker, Proofs!breaker
<1> QED BY <1>1, <1>2, RequestsReportOnce, SameBreaker, PTL DEF ReportsOnce

(* A request is under way exactly while its call of the breaker is, and a  *)
(* pause comes before an attempt that is left.                             *)
RequestsKept ==
  /\ req \in [Callers -> Request]
  /\ \A c \in Callers : req[c].pc # "idle" <=> Breaker!Running(c)
  /\ \A c \in Callers : req[c].pc = "sleep" => req[c].attempt < MaxRetries

(* One request moves, and its call with it; the others stay.               *)
LEMMA OneRequestMoves ==
  ASSUME RequestsKept, call \in [Callers -> Breaker!Calls], NEW c \in Callers, NEW r \in Request,
         RequestStep(c, r), r.pc = "sleep" => r.attempt < MaxRetries,
         \/ r.pc = "idle" /\ call' = [call EXCEPT ![c] = "none"]
         \/ r.pc # "idle" /\ \E v \in {"sound", "pending"} : call' = [call EXCEPT ![c] = v]
         \/ (r.pc = "idle" <=> req[c].pc = "idle") /\ call' = call
  PROVE  RequestsKept'
<1>1. req' = [req EXCEPT ![c] = r] /\ req \in [Callers -> Request]
  BY DEF RequestStep, RequestsKept
<1>2. req' \in [Callers -> Request] /\ req'[c] = r
  BY <1>1
<1>3. \A d \in Callers : d # c => req'[d] = req[d] /\ call'[d] = call[d]
  BY <1>1
<1>4. r.pc # "idle" <=> call'[c] # "none"
  BY DEF RequestsKept, Breaker!Running
<1> QED BY <1>2, <1>3, <1>4 DEF RequestsKept, Breaker!Running

LEMMA RequestStepKeeps ==
  ASSUME RequestsKept, call \in [Callers -> Breaker!Calls], [Next]_vars
  PROVE  RequestsKept'
<1>1. /\ req \in [Callers -> Request]
      /\ \A c \in Callers : /\ req[c].attempt \in 0 .. MaxRetries
                            /\ req[c].pc # "idle" <=> call[c] # "none"
                            /\ req[c].pc = "sleep" => req[c].attempt < MaxRetries
  BY DEF RequestsKept, Request, Breaker!Running
<1>2. MaxRetries \in Nat
  BY ClientAssumptions
<1>3. /\ NoRequest.pc = "idle" /\ [NoRequest EXCEPT !.pc = "auth"] \in Request
      /\ \A res \in {"ok", "auth", "timeout", "exhausted", "refused"} :
           [NoRequest EXCEPT !.res = res] \in Request /\ [NoRequest EXCEPT !.res = res].pc = "idle"
  BY <1>2 DEF NoRequest, Request
<1>4. \A c \in Callers, pc \in {"fetch", "body", "sleep"} :
        [req[c] EXCEPT !.pc = pc] \in Request /\ [req[c] EXCEPT !.pc = pc].pc = pc
        /\ [req[c] EXCEPT !.pc = pc].attempt = req[c].attempt
  BY <1>1 DEF Request
<1>5. ASSUME NEW c \in Callers, Begin(c) PROVE RequestsKept'
  <2>1. CASE Breaker!Reject(c) /\ Ended(c, "refused")
    <3>1. call' = call /\ req[c].pc = "idle"
      BY <1>1, <2>1 DEF Breaker!Reject, Breaker!Running
    <3> QED BY <1>3, <2>1, <3>1, OneRequestMoves DEF Ended
  <2>2. CASE Breaker!Admit(c) /\ RequestStep(c, [NoRequest EXCEPT !.pc = "auth"])
    <3>1. \E v \in {"sound", "pending"} : call' = [call EXCEPT ![c] = v]
      BY <2>2 DEF Breaker!Admit
    <3>2. [NoRequest EXCEPT !.pc = "auth"].pc = "auth"
      BY DEF NoRequest
    <3> QED BY <1>3, <2>2, <3>1, <3>2, OneRequestMoves
  <2> QED BY <1>5, <2>1, <2>2 DEF Begin
<1>6. ASSUME NEW c \in Callers, Return(c) \/ \E res \in {"auth", "timeout", "exhausted"} : Fail(c, res)
      PROVE  RequestsKept'
  <2>1. PICK res \in {"ok", "auth", "timeout", "exhausted"} : Ended(c, res)
    BY <1>6 DEF Return, Fail
  <2>2. call' = [call EXCEPT ![c] = "none"]
    BY <1>6 DEF Return, Fail, Breaker!Succeed, Breaker!Throw
  <2> QED BY <1>3, <2>1, <2>2, OneRequestMoves DEF Ended
<1>7. ASSUME NEW c \in Callers, req[c].pc # "idle", Retry(c) PROVE RequestsKept'
  <2>1. CASE req[c].attempt < MaxRetries /\ RequestStep(c, [req[c] EXCEPT !.pc = "sleep"]) /\ UNCHANGED breakerVars
    <3>1. call' = call
      BY <2>1 DEF breakerVars
    <3> QED BY <1>4, <1>7, <2>1, <3>1, OneRequestMoves
  <2>2. CASE Fail(c, "exhausted")
    BY <1>6, <2>2
  <2> QED BY <1>7, <2>1, <2>2 DEF Retry
<1>8. ASSUME NEW c \in Callers, Continue(c) PROVE RequestsKept'
  <2>1. CASE FetchSettles(c)
    <3>1. CASE RequestStep(c, [req[c] EXCEPT !.pc = "body"]) /\ UNCHANGED breakerVars
      <4>1. call' = call /\ req[c].pc = "fetch"
        BY <2>1, <3>1 DEF breakerVars, FetchSettles
      <4> QED BY <1>4, <3>1, <4>1, OneRequestMoves
    <3> QED BY <1>6, <1>7, <2>1, <3>1 DEF FetchSettles
  <2>2. CASE BodySettles(c)
    BY <1>6, <1>7, <2>2 DEF BodySettles
  <2>3. CASE SleepEnds(c)
    <3> DEFINE r == [req[c] EXCEPT !.pc = "auth", !.attempt = @ + 1]
    <3>1. req[c].pc = "sleep" /\ call' = call /\ RequestStep(c, r)
      BY <2>3 DEF SleepEnds, breakerVars
    <3>2. req[c] \in Request /\ req[c].attempt < MaxRetries /\ req[c].attempt \in 0 .. MaxRetries
      BY <1>1, <3>1
    <3>3. r \in Request /\ r.pc = "auth"
      <4>1. req[c].attempt + 1 \in 0 .. MaxRetries
        BY <1>2, <3>2
      <4> QED BY <3>2, <4>1 DEF Request
    <3> QED BY <3>1, <3>3, OneRequestMoves
  <2>4. CASE AuthSettles(c)
    <3>1. CASE RequestStep(c, [req[c] EXCEPT !.pc = "fetch"]) /\ UNCHANGED breakerVars
      <4>1. call' = call /\ req[c].pc = "auth"
        BY <2>4, <3>1 DEF breakerVars, AuthSettles
      <4> QED BY <1>4, <3>1, <4>1, OneRequestMoves
    <3> QED BY <1>7, <2>4, <3>1 DEF AuthSettles
  <2> QED BY <1>8, <2>1, <2>2, <2>3, <2>4 DEF Continue
<1>9. ASSUME UNCHANGED <<req, call>> PROVE RequestsKept'
  BY <1>9 DEF RequestsKept, Breaker!Running
<1>10. CASE Elsewhere
  BY <1>9, <1>10 DEF Elsewhere, Breaker!Reset, Breaker!Tick, Breaker!Recover
<1>11. CASE UNCHANGED vars
  BY <1>9, <1>11 DEF vars, breakerVars
<1> QED BY <1>5, <1>8, <1>10, <1>11 DEF Next

(* TypeOK: the client's variables and the breaker's have their types, and  *)
(* a request is under way exactly while its call of the breaker is, with   *)
(* no more than MaxRetries attempts after the first (a2a-client.js:        *)
(* request).                                                               *)
THEOREM RequestsAreCalls == Spec => []TypeOK
<1>1. Proofs!Spec => []Proofs!Inv
  BY BreakerAssumptions, Proofs!BreakerInvariant
<1>2. Proofs!Inv => Breaker!TypeOK
  BY DEF Proofs!Inv, Proofs!TypeOK, Breaker!TypeOK, Proofs!CircuitStates, Breaker!CircuitStates,
         Proofs!Calls, Breaker!Calls
<1>3. Init => RequestsKept
  <2> SUFFICES ASSUME Init PROVE RequestsKept
    OBVIOUS
  <2>1. NoRequest \in Request /\ NoRequest.pc = "idle"
    BY ClientAssumptions DEF NoRequest, Request
  <2> QED BY <2>1 DEF Init, Breaker!Init, RequestsKept, Breaker!Running
<1>4. RequestsKept /\ Breaker!TypeOK /\ [Next]_vars => RequestsKept'
  BY RequestStepKeeps DEF Breaker!TypeOK
<1>5. Breaker!TypeOK /\ RequestsKept => TypeOK
  BY DEF RequestsKept, TypeOK
<1> QED BY <1>1, <1>2, <1>3, <1>4, <1>5, RequestsReportOnce, SameBreaker, PTL DEF Spec, ReportsOnce

-----------------------------------------------------------------------------
(* The MCP client.                                                         *)

(* A request was written to a child, and only _cleanup takes the child     *)
(* away, having rejected every request; so whichever opening is answered,  *)
(* there is a child.                                                       *)
WaitingHasChild == \A r \in Requesters : Waiting(r) => process # "none"

(* The retry policy pauses only when an attempt is left.                   *)
AttemptIsLeft == \A o \in Openers : opener[o].pc = "sleep" => opener[o].attempt < OpenRetries

MCPInv ==
  /\ MCPTypeOK /\ WaitingHasChild /\ AttemptIsLeft
  /\ NothingWaitsDisconnected /\ ConnectedIsMonitored

Timers == [latest : BOOLEAN, older : BOOLEAN]

LEMMA MCPInitInv == MCPInit => MCPInv
<1> SUFFICES ASSUME MCPInit PROVE MCPInv
  OBVIOUS
<1>1. opener \in [Openers -> Opening] /\ \A o \in Openers : opener[o].pc = "idle"
  BY MCPAssumptions DEF MCPInit, NotOpening, Opening
<1>2. /\ reconnectAttempts \in 0 .. MaxReconnects /\ reconnect \in Timers
      /\ pending \in [Requesters -> {"none", "current", "old", "gone"}]
      /\ deadline \in [Tools -> {"off", "armed", "fired"}]
  BY MCPAssumptions DEF MCPInit, Timers
<1> QED
  BY <1>1, <1>2
  DEF Timers, MCPInit, MCPInv, MCPTypeOK, WaitingHasChild, AttemptIsLeft, NothingWaitsDisconnected,
      ConnectedIsMonitored, Waiting, Requesters

(* An opening call whose request is rejected is no longer initializing.    *)
LEMMA RejectedOpeners ==
  ASSUME MCPInv
  PROVE  /\ Rejected \in [Openers -> Opening]
         /\ \A o \in Openers : /\ Rejected[o].pc # "init"
                               /\ Rejected[o].pc = "sleep" => Rejected[o].attempt < OpenRetries
<1>1. ASSUME NEW o \in Openers
      PROVE  /\ Rejected[o] \in Opening /\ Rejected[o].pc # "init"
             /\ Rejected[o].pc = "sleep" => Rejected[o].attempt < OpenRetries
  <2>1. opener[o] \in Opening
    BY DEF MCPInv, MCPTypeOK
  <2>2. CASE Waiting(o)
    <3>1. Rejected[o] = [opener[o] EXCEPT !.pc = "failed"]
      BY <2>2 DEF Rejected
    <3> QED BY <3>1, <2>1 DEF Opening
  <2>3. CASE ~Waiting(o)
    BY <2>1, <2>3 DEF Rejected, MCPInv, MCPTypeOK, AttemptIsLeft
  <2> QED BY <2>2, <2>3
<1> QED BY <1>1 DEF Rejected

(* Rejecting everything leaves nothing waiting.                            *)
LEMMA RejectAllRejects ==
  ASSUME MCPInv, NEW unhandled \in SUBSET Pings, RejectAll(unhandled)
  PROVE  /\ pending' \in [Requesters -> {"none", "current", "old", "gone"}]
         /\ \A r \in Requesters : pending'[r] = "none"
         /\ lost' \subseteq Pings /\ deadline' \in [Tools -> {"off", "armed", "fired"}]
BY DEF RejectAll

LEMMA CleanupKeepsInv ==
  ASSUME MCPInv, NEW timers \in Timers, Cleanup(timers),
         opener' \in [Openers -> Opening],
         \A o \in Openers : /\ opener'[o].pc # "init"
                            /\ opener'[o].pc = "sleep" => opener'[o].attempt < OpenRetries
  PROVE  MCPInv'
<1>1. /\ pending' \in [Requesters -> {"none", "current", "old", "gone"}]
      /\ \A r \in Requesters : pending'[r] = "none"
      /\ lost' \subseteq Pings /\ deadline' \in [Tools -> {"off", "armed", "fired"}]
  BY RejectAllRejects DEF Cleanup, MCPInv, MCPTypeOK
<1>2. reconnect' \in [latest : BOOLEAN, older : BOOLEAN]
  BY DEF Cleanup, Timers
<1>3. MCPTypeOK'
  BY <1>1, <1>2 DEF Cleanup, MCPInv, MCPTypeOK, Waiting, Requesters
<1> QED
  BY <1>1, <1>3 DEF Cleanup, MCPInv, WaitingHasChild, AttemptIsLeft, NothingWaitsDisconnected,
     ConnectedIsMonitored, Waiting, Requesters

LEMMA DisconnectionKeepsInv ==
  ASSUME MCPInv, NEW unhandled \in SUBSET Pings, HandleDisconnection(unhandled),
         UNCHANGED <<shutdown, heartbeat>>, older' \in BOOLEAN,
         process' \in {"none", "alive", "dead"}, process # "none" => process' # "none"
  PROVE  MCPInv'
<1>1. CASE shutdown
  BY <1>1 DEF HandleDisconnection, MCPInv, MCPTypeOK, WaitingHasChild, AttemptIsLeft,
     NothingWaitsDisconnected, ConnectedIsMonitored, Waiting
<1>2. CASE ~shutdown
  <2>1. /\ pending' \in [Requesters -> {"none", "current", "old", "gone"}]
        /\ \A r \in Requesters : pending'[r] = "none"
        /\ lost' \subseteq Pings /\ deadline' \in [Tools -> {"off", "armed", "fired"}]
    BY <1>2, RejectAllRejects DEF HandleDisconnection
  <2>2. /\ reconnectAttempts' \in 0 .. MaxReconnects
        /\ reconnect' \in [latest : BOOLEAN, older : BOOLEAN]
    <3>1. Reconnect /\ reconnectAttempts \in 0 .. MaxReconnects
      BY <1>2 DEF HandleDisconnection, MCPInv, MCPTypeOK
    <3>2. reconnectAttempts' \in 0 .. MaxReconnects
      BY <3>1, MCPAssumptions DEF Reconnect
    <3>3. (reconnect.older \/ reconnect.latest) \in BOOLEAN
      OBVIOUS
    <3>4. [latest |-> TRUE, older |-> reconnect.older \/ reconnect.latest] \in
            [latest : BOOLEAN, older : BOOLEAN]
      BY <3>3, Zenon
    <3>5. reconnect \in [latest : BOOLEAN, older : BOOLEAN]
      BY DEF MCPInv, MCPTypeOK
    <3> QED BY <3>1, <3>2, <3>4, <3>5, Zenon DEF Reconnect
  <2>3. connected' = FALSE /\ opener' = Rejected
    BY <1>2 DEF HandleDisconnection
  <2>4. MCPTypeOK'
    BY <2>1, <2>2, <2>3, RejectedOpeners DEF MCPInv, MCPTypeOK, Waiting, Requesters
  <2> QED
    BY <2>1, <2>3, <2>4, RejectedOpeners DEF MCPInv, WaitingHasChild, AttemptIsLeft,
       NothingWaitsDisconnected, ConnectedIsMonitored, Waiting, Requesters
<1> QED BY <1>1, <1>2

LEMMA SpawnKeepsInv ==
  ASSUME MCPInv, NEW o \in Openers, ~Waiting(o), NEW n \in 0 .. OpenRetries,
         Spawn(o, n), reconnect' \in Timers
  PROVE  MCPInv'
<1>1. /\ pending' \in [Requesters -> {"none", "current", "old", "gone"}]
      /\ \A r \in Requesters : Waiting(r)' <=> Waiting(r)
  BY DEF Spawn, MCPInv, MCPTypeOK, Waiting
<1>2. [pc |-> "starting", attempt |-> n, spawned |-> process' = "alive"] \in Opening
  BY DEF Opening
<1>3. /\ opener' \in [Openers -> Opening] /\ opener'[o].pc = "starting"
      /\ \A q \in Openers \ {o} : opener'[q] = opener[q]
  BY <1>2 DEF Spawn, MCPInv, MCPTypeOK
<1>4. /\ process' \in {"alive", "dead"} /\ older' \in BOOLEAN
      /\ UNCHANGED <<connected, shutdown, reconnectAttempts, heartbeat, lost, deadline>>
  BY DEF Spawn, MCPInv, MCPTypeOK
<1>5. MCPTypeOK'
  BY <1>1, <1>3, <1>4 DEF MCPInv, MCPTypeOK, Timers, Requesters
<1> QED
  BY <1>1, <1>3, <1>4, <1>5 DEF MCPInv, WaitingHasChild, AttemptIsLeft, NothingWaitsDisconnected,
     ConnectedIsMonitored, Requesters

LEMMA OpenKeepsInv ==
  ASSUME MCPInv, NEW o \in Openers, NEW timers \in Timers, Open(o, timers)
  PROVE  MCPInv'
<1>1. CASE UNCHANGED <<connected, shutdown, reconnectAttempts, process, older, heartbeat, opener,
                       pending, lost, deadline>> /\ reconnect' = timers
  BY <1>1 DEF MCPInv, MCPTypeOK, WaitingHasChild, AttemptIsLeft, NothingWaitsDisconnected,
     ConnectedIsMonitored, Waiting, Timers
<1>2. CASE Spawn(o, 0) /\ reconnect' = timers
  <2>1. ~Waiting(o) /\ 0 \in 0 .. OpenRetries
    BY MCPAssumptions DEF Open, MCPInv, MCPTypeOK
  <2> QED BY <1>2, <2>1, SpawnKeepsInv
<1>3. CASE Cleanup(timers) /\ opener' = Rejected
  BY <1>3, RejectedOpeners, CleanupKeepsInv
<1> QED BY <1>1, <1>2, <1>3 DEF Open

LEMMA StartedKeepsInv ==
  ASSUME MCPInv, NEW o \in Openers, Started(o)
  PROVE  MCPInv'
<1>1. opener[o] \in Opening /\ ~Waiting(o) /\ o \in Requesters /\ o \notin Tools \cup Pings
  BY MCPAssumptions DEF Started, MCPInv, MCPTypeOK, Requesters
<1>2. CASE opener' = [opener EXCEPT ![o].pc = "failed"] /\ UNCHANGED pending
  <2>1. opener' \in [Openers -> Opening]
    BY <1>1, <1>2 DEF MCPInv, MCPTypeOK, Opening
  <2> QED
    BY <1>1, <1>2, <2>1 DEF Started, MCPInv, MCPTypeOK, WaitingHasChild, AttemptIsLeft,
       NothingWaitsDisconnected, ConnectedIsMonitored, Waiting
<1>3. CASE /\ process # "none" /\ opener' = [opener EXCEPT ![o].pc = "init"]
           /\ pending' = [pending EXCEPT ![o] = IF process = "alive" THEN "current" ELSE "gone"]
  <2>1. opener' \in [Openers -> Opening]
    BY <1>1, <1>3 DEF MCPInv, MCPTypeOK, Opening
  <2>2. /\ pending' \in [Requesters -> {"none", "current", "old", "gone"}]
        /\ Waiting(o)' /\ \A r \in Requesters \ {o} : Waiting(r)' <=> Waiting(r)
    BY <1>1, <1>3 DEF MCPInv, MCPTypeOK, Waiting
  <2>3. opener'[o].pc = "init" /\ \A q \in Openers \ {o} : opener'[q] = opener[q]
    BY <1>3 DEF MCPInv, MCPTypeOK
  <2>4. UNCHANGED <<connected, shutdown, reconnectAttempts, process, older, heartbeat, reconnect,
                    lost, deadline>>
    BY DEF Started
  <2>5. MCPTypeOK'
    BY <2>1, <2>2, <2>3, <2>4 DEF MCPInv, MCPTypeOK, Requesters
  <2> QED
    BY <1>1, <1>3, <2>2, <2>3, <2>4, <2>5 DEF MCPInv, WaitingHasChild, AttemptIsLeft,
       NothingWaitsDisconnected, ConnectedIsMonitored, Requesters
<1> QED BY <1>2, <1>3 DEF Started

LEMMA AttemptFailedKeepsInv ==
  ASSUME MCPInv, NEW o \in Openers, AttemptFailed(o)
  PROVE  MCPInv'
<1>1. opener[o] \in Opening /\ ~Waiting(o)
  BY DEF AttemptFailed, MCPInv, MCPTypeOK
<1>2. CASE /\ opener[o].attempt < OpenRetries /\ opener' = [opener EXCEPT ![o].pc = "sleep"]
           /\ UNCHANGED <<connected, shutdown, reconnectAttempts, process, older, heartbeat,
                          reconnect, pending, lost, deadline>>
  <2>1. opener' \in [Openers -> Opening]
    BY <1>1, <1>2 DEF MCPInv, MCPTypeOK, Opening
  <2> QED
    BY <1>1, <1>2, <2>1 DEF MCPInv, MCPTypeOK, WaitingHasChild, AttemptIsLeft,
       NothingWaitsDisconnected, ConnectedIsMonitored, Waiting
<1>3. CASE Cleanup(reconnect) /\ opener' = [Rejected EXCEPT ![o] = NotOpening]
  <2>1. NotOpening \in Opening /\ NotOpening.pc = "idle"
    BY MCPAssumptions DEF NotOpening, Opening
  <2>2. /\ opener' \in [Openers -> Opening]
        /\ \A q \in Openers : /\ opener'[q].pc # "init"
                              /\ opener'[q].pc = "sleep" => opener'[q].attempt < OpenRetries
    BY <1>3, <2>1, RejectedOpeners
  <2>3. reconnect \in Timers
    BY DEF MCPInv, MCPTypeOK, Timers
  <2> QED BY <1>3, <2>2, <2>3, CleanupKeepsInv
<1> QED BY <1>2, <1>3 DEF AttemptFailed

LEMMA ExecuteToolKeepsInv ==
  ASSUME MCPInv, NEW t \in Tools, ExecuteTool(t)
  PROVE  MCPInv'
<1>1. t \in Requesters /\ t \notin Openers
  BY MCPAssumptions DEF Requesters
<1>2. Sent \in {"none", "current", "gone"} /\ (Sent # "none" => process # "none")
  BY DEF Sent
<1>3. /\ pending' \in [Requesters -> {"none", "current", "old", "gone"}]
      /\ pending'[t] = Sent /\ \A r \in Requesters \ {t} : pending'[r] = pending[r]
      /\ deadline' \in [Tools -> {"off", "armed", "fired"}]
  BY <1>1, <1>2 DEF ExecuteTool, MCPInv, MCPTypeOK
<1> QED
  BY <1>1, <1>2, <1>3 DEF ExecuteTool, MCPInv, MCPTypeOK, WaitingHasChild, AttemptIsLeft,
     NothingWaitsDisconnected, ConnectedIsMonitored, Waiting, Requesters

LEMMA ToolTimesOutKeepsInv ==
  ASSUME MCPInv, NEW t \in Tools, ToolTimesOut(t)
  PROVE  MCPInv'
<1>1. t \in Requesters /\ t \notin Openers
  BY MCPAssumptions DEF Requesters
<1>2. /\ pending' \in [Requesters -> {"none", "current", "old", "gone"}]
      /\ \A r \in Requesters : Waiting(r)' => Waiting(r)
      /\ \A r \in Requesters \ {t} : pending'[r] = pending[r]
      /\ deadline' \in [Tools -> {"off", "armed", "fired"}]
  BY <1>1 DEF ToolTimesOut, MCPInv, MCPTypeOK, Waiting
<1> QED
  BY <1>1, <1>2 DEF ToolTimesOut, MCPInv, MCPTypeOK, WaitingHasChild, AttemptIsLeft,
     NothingWaitsDisconnected, ConnectedIsMonitored, Waiting, Requesters

LEMMA HeartbeatKeepsInv ==
  ASSUME MCPInv, Heartbeat
  PROVE  MCPInv'
<1>1. CASE connected
  <2>1. PICK p \in Pings : /\ pending' = [pending EXCEPT ![p] = Sent]
                           /\ lost' = IF Sent = "none" THEN {p} ELSE {}
    BY <1>1 DEF Heartbeat
  <2>2. p \in Requesters /\ p \notin Openers
    BY MCPAssumptions DEF Requesters
  <2>3. Sent \in {"none", "current", "gone"} /\ (Sent # "none" => process # "none")
    BY DEF Sent
  <2>4. /\ pending' \in [Requesters -> {"none", "current", "old", "gone"}]
        /\ pending'[p] = Sent /\ \A r \in Requesters \ {p} : pending'[r] = pending[r]
        /\ lost' \subseteq Pings
    BY <2>1, <2>2, <2>3 DEF MCPInv, MCPTypeOK
  <2> QED
    BY <1>1, <2>2, <2>3, <2>4 DEF Heartbeat, MCPInv, MCPTypeOK, WaitingHasChild, AttemptIsLeft,
       NothingWaitsDisconnected, ConnectedIsMonitored, Waiting, Requesters
<1>2. CASE ~connected
  <2>1. HandleDisconnection({}) /\ UNCHANGED <<shutdown, process, older, heartbeat>>
    BY <1>2 DEF Heartbeat
  <2> QED BY <2>1, DisconnectionKeepsInv DEF MCPInv, MCPTypeOK
<1> QED BY <1>1, <1>2

LEMMA AnswersKeepsInv ==
  ASSUME MCPInv, NEW r \in Requesters, Answers(r)
  PROVE  MCPInv'
<1>1. /\ pending' \in [Requesters -> {"none", "current", "old", "gone"}]
      /\ ~Waiting(r)' /\ \A q \in Requesters \ {r} : Waiting(q)' <=> Waiting(q)
  BY DEF Answers, MCPInv, MCPTypeOK, Waiting
<1>2. Waiting(r) /\ process # "none"
  BY DEF Answers, Waiting, MCPInv, WaitingHasChild
<1>3. CASE r \in Openers /\ Connected(r)
  <2>1. NotOpening \in Opening /\ NotOpening.pc = "idle"
    BY MCPAssumptions DEF NotOpening, Opening
  <2>2. /\ opener' \in [Openers -> Opening] /\ opener'[r].pc = "idle"
        /\ \A q \in Openers \ {r} : opener'[q] = opener[q]
    BY <1>3, <2>1 DEF Connected, MCPInv, MCPTypeOK
  <2>3. /\ connected' = TRUE /\ reconnectAttempts' = 0 /\ heartbeat' = TRUE
        /\ UNCHANGED <<lost, deadline, shutdown, process, older, reconnect>>
    BY <1>3, MCPAssumptions DEF Connected, Answers
  <2>4. MCPTypeOK'
    BY <1>1, <2>2, <2>3, MCPAssumptions DEF MCPInv, MCPTypeOK, Requesters
  <2> QED
    BY <1>1, <1>2, <2>2, <2>3, <2>4 DEF MCPInv, WaitingHasChild, AttemptIsLeft,
       NothingWaitsDisconnected, ConnectedIsMonitored, Requesters
<1>4. CASE /\ r \in Openers /\ opener' = [opener EXCEPT ![r].pc = "failed"]
           /\ UNCHANGED <<connected, reconnectAttempts, heartbeat>>
  <2>1. opener[r] \in Opening
    BY <1>4 DEF MCPInv, MCPTypeOK
  <2>2. /\ opener' \in [Openers -> Opening] /\ opener'[r].pc = "failed"
        /\ \A q \in Openers \ {r} : opener'[q] = opener[q]
    BY <1>4, <2>1 DEF MCPInv, MCPTypeOK, Opening
  <2>3. UNCHANGED <<lost, deadline, shutdown, process, older, reconnect>>
    BY <1>4, MCPAssumptions DEF Answers
  <2>4. MCPTypeOK'
    BY <1>1, <1>4, <2>2, <2>3 DEF MCPInv, MCPTypeOK, Requesters
  <2> QED
    BY <1>1, <1>4, <2>2, <2>3, <2>4 DEF MCPInv, WaitingHasChild, AttemptIsLeft,
       NothingWaitsDisconnected, ConnectedIsMonitored, Requesters
<1>5. CASE r \notin Openers
  <2>1. /\ UNCHANGED <<connected, reconnectAttempts, heartbeat, opener, shutdown, process, older,
                       reconnect>>
        /\ lost' \subseteq Pings /\ deadline' \in [Tools -> {"off", "armed", "fired"}]
    BY <1>5 DEF Answers, MCPInv, MCPTypeOK
  <2> QED
    BY <1>1, <1>5, <2>1 DEF MCPInv, MCPTypeOK, WaitingHasChild, AttemptIsLeft,
       NothingWaitsDisconnected, ConnectedIsMonitored, Requesters
<1> QED BY <1>3, <1>4, <1>5, MCPAssumptions DEF Answers

LEMMA ChildExitsKeepsInv ==
  ASSUME MCPInv, ChildExits
  PROVE  MCPInv'
<1>1. /\ process' \in {"none", "alive", "dead"} /\ older' \in BOOLEAN
      /\ process # "none" => process' # "none"
      /\ UNCHANGED <<shutdown, heartbeat>>
  BY DEF ChildExits, MCPInv, MCPTypeOK
<1>2. CASE HandleDisconnection({})
  BY <1>1, <1>2, DisconnectionKeepsInv
<1>3. CASE shutdown /\ ~HandleDisconnection({})
  <2>1. PICK gone \in SUBSET {r \in Requesters : pending[r] = "old"} :
          pending' = [r \in Requesters |->
            IF r \in gone \/ (pending[r] = "current" /\ process' = "dead")
            THEN "gone" ELSE pending[r]]
    BY <1>3 DEF ChildExits
  <2>2. /\ pending' \in [Requesters -> {"none", "current", "old", "gone"}]
        /\ \A r \in Requesters : Waiting(r)' <=> Waiting(r)
    BY <2>1 DEF MCPInv, MCPTypeOK, Waiting
  <2>3. UNCHANGED <<connected, reconnectAttempts, reconnect, opener, lost, deadline>>
    BY <1>3 DEF ChildExits
  <2> QED
    BY <1>1, <2>2, <2>3 DEF MCPInv, MCPTypeOK, WaitingHasChild, AttemptIsLeft,
       NothingWaitsDisconnected, ConnectedIsMonitored, Requesters
<1> QED BY <1>2, <1>3 DEF ChildExits

LEMMA MCPStepInv == MCPInv /\ [MCPNext]_mcpVars => MCPInv'
<1> SUFFICES ASSUME MCPInv, [MCPNext]_mcpVars PROVE MCPInv'
  OBVIOUS
<1> USE DEF Timers
<1>1. reconnect \in Timers
  BY DEF MCPInv, MCPTypeOK
<1>2. CASE UserOpens
  BY <1>1, <1>2, OpenKeepsInv DEF UserOpens, Openers
<1>3. CASE Close
  <2>1. CASE Cleanup(reconnect) /\ opener' = Rejected
    BY <1>1, <2>1, RejectedOpeners, CleanupKeepsInv
  <2>2. CASE UNCHANGED mcpVars
    BY <2>2 DEF MCPInv, MCPTypeOK, WaitingHasChild, AttemptIsLeft, NothingWaitsDisconnected,
       ConnectedIsMonitored, Waiting, mcpVars
  <2> QED BY <1>3, <2>1, <2>2 DEF Close
<1>4. ASSUME NEW o \in Openers, PauseEnds(o) PROVE MCPInv'
  <2>1. opener[o] \in Opening /\ opener[o].attempt < OpenRetries /\ ~Waiting(o)
    BY <1>4 DEF PauseEnds, MCPInv, MCPTypeOK, AttemptIsLeft
  <2>2. opener[o].attempt + 1 \in 0 .. OpenRetries
    BY <2>1, MCPAssumptions DEF Opening
  <2> QED BY <1>1, <1>4, <2>1, <2>2, SpawnKeepsInv DEF PauseEnds
<1>5. ASSUME NEW o \in Reconnects, ReconnectFires(o) PROVE MCPInv'
  <2>1. PICK timers \in Timers : Open(o, timers)
    BY <1>1, <1>5 DEF ReconnectFires
  <2> QED BY <2>1, OpenKeepsInv DEF Openers
<1>6. ASSUME NEW p \in Pings, PingFailed(p) PROVE MCPInv'
  <2>1. lost \ {p} \in SUBSET Pings
    BY DEF MCPInv, MCPTypeOK
  <2> QED BY <1>6, <2>1, DisconnectionKeepsInv DEF PingFailed, MCPInv, MCPTypeOK
<1>7. CASE UNCHANGED mcpVars
  BY <1>7 DEF MCPInv, MCPTypeOK, WaitingHasChild, AttemptIsLeft, NothingWaitsDisconnected,
     ConnectedIsMonitored, Waiting, mcpVars
<1> QED
  BY <1>2, <1>3, <1>4, <1>5, <1>6, <1>7, HeartbeatKeepsInv, ChildExitsKeepsInv, StartedKeepsInv,
     AttemptFailedKeepsInv, ExecuteToolKeepsInv, ToolTimesOutKeepsInv, AnswersKeepsInv
  DEF MCPNext, ContinueOpen

(* Whatever opens, answers, exits and timers race, what waits was sent to  *)
(* a child the client still has, and pauses leave an attempt.              *)
THEOREM MCPInvariant == MCPSpec => []MCPInv
BY MCPInitInv, MCPStepInv, PTL DEF MCPSpec

(* No tool call and no ping outlives the connection it was made on.        *)
THEOREM LostConnectionsReject == MCPSpec => []NothingWaitsDisconnected
<1>1. MCPInv => NothingWaitsDisconnected
  BY DEF MCPInv
<1> QED BY <1>1, MCPInvariant, PTL

(* A connected client has a child and a heartbeat, whichever of its racing *)
(* open calls connected it.                                                *)
THEOREM ConnectionsAreMonitored == MCPSpec => []ConnectedIsMonitored
<1>1. MCPInv => ConnectedIsMonitored
  BY DEF MCPInv
<1> QED BY <1>1, MCPInvariant, PTL

-----------------------------------------------------------------------------
(* No timer is armed that was not.                                         *)
TimersOnlyGo == (reconnect'.latest => reconnect.latest) /\ (reconnect'.older => reconnect.older)

LEMMA TimersTaken ==
  ASSUME NEW timers \in Timers, timers.latest => reconnect.latest, timers.older => reconnect.older,
         Cleanup(timers) \/ reconnect' = timers
  PROVE  TimersOnlyGo
<1>1. CASE reconnect' = timers
  BY <1>1 DEF TimersOnlyGo
<1>2. CASE Cleanup(timers)
  <2>1. reconnect' = [timers EXCEPT !.latest = FALSE]
    BY <1>2 DEF Cleanup
  <2>2. ~reconnect'.latest /\ reconnect'.older = timers.older
    BY <2>1 DEF Timers
  <2> QED BY <2>2 DEF TimersOnlyGo
<1> QED BY <1>1, <1>2

LEMMA StepAfterShutdown ==
  ASSUME MCPInv, [MCPNext]_mcpVars, shutdown
  PROVE  TimersOnlyGo
<1>1. reconnect \in Timers
  BY DEF MCPInv, MCPTypeOK, Timers
<1>2. CASE UNCHANGED reconnect
  BY <1>2 DEF TimersOnlyGo
<1>3. ASSUME Cleanup(reconnect) PROVE TimersOnlyGo
  BY <1>1, <1>3, TimersTaken
<1>4. ASSUME NEW o \in Openers, NEW timers \in Timers, Open(o, timers),
             timers.latest => reconnect.latest, timers.older => reconnect.older
      PROVE  TimersOnlyGo
  BY <1>4, TimersTaken DEF Open
<1>5. CASE UserOpens
  BY <1>1, <1>4, <1>5 DEF UserOpens, Openers
<1>6. ASSUME NEW o \in Reconnects, ReconnectFires(o) PROVE TimersOnlyGo
  <2>1. CASE reconnect.latest /\ Open(o, [reconnect EXCEPT !.latest = FALSE])
    <3>1. [reconnect EXCEPT !.latest = FALSE] \in Timers
      BY <1>1 DEF Timers
    <3>2. /\ [reconnect EXCEPT !.latest = FALSE].latest => reconnect.latest
          /\ [reconnect EXCEPT !.latest = FALSE].older => reconnect.older
      BY <1>1 DEF Timers
    <3> QED BY <2>1, <3>1, <3>2, <1>4 DEF Openers
  <2>2. ASSUME NEW more \in BOOLEAN, reconnect.older, Open(o, [reconnect EXCEPT !.older = more])
        PROVE  TimersOnlyGo
    <3>1. [reconnect EXCEPT !.older = more] \in Timers
      BY <1>1 DEF Timers
    <3>2. /\ [reconnect EXCEPT !.older = more].latest => reconnect.latest
          /\ [reconnect EXCEPT !.older = more].older => reconnect.older
      BY <1>1, <2>2 DEF Timers
    <3> QED BY <2>2, <3>1, <3>2, <1>4 DEF Openers
  <2> QED BY <1>6, <2>1, <2>2 DEF ReconnectFires
<1>7. ASSUME NEW unhandled, HandleDisconnection(unhandled) PROVE UNCHANGED reconnect
  BY <1>7 DEF HandleDisconnection
<1>8. CASE Heartbeat \/ ChildExits \/ \E p \in Pings : PingFailed(p)
  BY <1>2, <1>7, <1>8 DEF Heartbeat, ChildExits, PingFailed
<1>9. ASSUME NEW o \in Openers, ContinueOpen(o) PROVE TimersOnlyGo
  BY <1>2, <1>3, <1>9 DEF ContinueOpen, Started, AttemptFailed, PauseEnds
<1>10. CASE Close
  BY <1>2, <1>3, <1>10 DEF Close, mcpVars
<1>11. CASE \/ \E t \in Tools : ExecuteTool(t) \/ ToolTimesOut(t)
            \/ \E r \in Requesters : Answers(r)
            \/ UNCHANGED mcpVars
  BY <1>2, <1>11 DEF ExecuteTool, ToolTimesOut, Answers, mcpVars
<1> QED BY <1>5, <1>6, <1>8, <1>9, <1>10, <1>11 DEF MCPNext

(* Once shut down, by close or by an open that failed, the client arms no  *)
(* reconnect timer, whatever still exits, fails or beats.                  *)
THEOREM NothingReconnects == MCPSpec => NoReconnectAfterShutdown
<1>1. MCPInv /\ [MCPNext]_mcpVars =>
        [shutdown => (reconnect'.latest => reconnect.latest)
                     /\ (reconnect'.older => reconnect.older)]_mcpVars
  BY StepAfterShutdown DEF TimersOnlyGo
<1> QED BY <1>1, MCPInvariant, PTL DEF MCPSpec, NoReconnectAfterShutdown

-----------------------------------------------------------------------------
(* The registry server.                                                    *)

Most == MaxAgents + Cardinality(Registrants)

(* An index whose count, list and set of agents agree.                     *)
Sound == {x \in Index : Agree(x)}

(* Whatever index a restart may load, from the file or from a write that   *)
(* is under way, is below the bound.                                       *)
SavesInv ==
  /\ file.what \in Sound /\ file.what.total < Most
  /\ write \in [Writers -> [on : BOOLEAN, what : Sound, mixed : BOOLEAN]]
  /\ \A w \in Writers : write[w].what.total < Most

(* The registry that requests go to holds at least as many agents as the   *)
(* other, and those that are being stored fit below the bound as well.     *)
CountInv ==
  /\ mem \in [Registries -> Sound]
  /\ mem["own"].total <= mem["service"].total
  /\ mem["service"].total + Cardinality(Storing) < Most

CallsInv ==
  /\ registration \in [Registrants -> {NoCall} \cup [pc : {"store"}, agent : Agents]]
  /\ server = "down" => Storing = {}

(* The cache is empty whenever the registries are loaded.                  *)
CacheInv ==
  /\ cache \in [Queries -> [held : BOOLEAN, agents : SUBSET Agents]]
  /\ probe \in [held : BOOLEAN, agents : SUBSET Agents]
  /\ server = "down" => ~cache["plain"].held
  /\ PlainAnswersFresh

ServerInv == SavesInv /\ CountInv /\ CallsInv /\ CacheInv

-----------------------------------------------------------------------------
(* The empty index has its type and is below the bound.                    *)
LEMMA EmptyFits == Empty \in Sound /\ Empty.total = 0 /\ 0 < Most /\ Most \in Nat
<1>1. Cardinality(Registrants) \in Nat /\ Cardinality(Registrants) # 0
  BY FS_CardinalityType, FS_EmptySet, ServerAssumptions
<1>2. Empty \in Sound /\ Empty.total = 0
  <2>1. Empty \in Index /\ Empty.total = 0 /\ Empty.index = {} /\ Empty.listed = << >>
    BY DEF Empty, Index
  <2> QED
    BY <2>1 DEF Sound, Agree, ToSet
<1> QED
  BY <1>1, <1>2, ServerAssumptions DEF Most

(* The registrations under way are finitely many, at most one per call.    *)
LEMMA StoringCounts ==
  /\ IsFiniteSet(Storing) /\ Cardinality(Storing) \in Nat
  /\ Cardinality(Registrants) \in Nat /\ Cardinality(Storing) <= Cardinality(Registrants)
<1>1. Storing \subseteq Registrants
  BY DEF Storing
<1> QED
  BY <1>1, FS_Subset, FS_CardinalityType, ServerAssumptions

(* An index with one more registration lists it and counts one more.       *)
LEMMA UpdateCounts ==
  ASSUME NEW x \in Sound, NEW a \in Agents
  PROVE  Updated(x, a) \in Sound /\ Updated(x, a).total = x.total + 1
<1>1. /\ x.index \in SUBSET Agents /\ x.listed \in Seq(Agents) /\ x.total \in Nat
      /\ x.index = ToSet(x.listed) /\ x.total = Len(x.listed)
  BY DEF Sound, Index, Agree
<1> DEFINE q == x.listed
<1>2. /\ Append(q, a) \in Seq(Agents) /\ Len(Append(q, a)) = Len(q) + 1
      /\ DOMAIN q = 1 .. Len(q) /\ DOMAIN Append(q, a) = 1 .. Len(q) + 1
      /\ Append(q, a)[Len(q) + 1] = a /\ \A i \in 1 .. Len(q) : Append(q, a)[i] = q[i]
  BY <1>1
<1>3. ToSet(Append(q, a)) = ToSet(q) \cup {a}
  <2> HIDE DEF Append
  <2>1. 1 .. Len(q) + 1 = (1 .. Len(q)) \cup {Len(q) + 1}
    BY <1>1
  <2> QED
    BY <1>2, <2>1 DEF ToSet
<1>4. /\ Updated(x, a).index = x.index \cup {a} /\ Updated(x, a).listed = Append(q, a)
      /\ Updated(x, a).total = x.total + 1
  BY DEF Updated
<1>5. Updated(x, a) \in Index
  BY <1>1, <1>2 DEF Updated, Index
<1> QED
  BY <1>1, <1>2, <1>3, <1>4, <1>5 DEF Sound, Agree

(* What a registry remembers may be written.                               *)
LEMMA MemoryFits ==
  ASSUME CountInv, NEW r \in Registries
  PROVE  mem[r] \in Sound /\ mem[r].total < Most
<1>1. mem["own"] \in Sound /\ mem["service"] \in Sound
  BY DEF CountInv, Registries
<1>2. mem["own"].total \in Nat /\ mem["service"].total \in Nat
  BY <1>1 DEF Sound, Index
<1>3. mem["service"].total < Most /\ mem["own"].total < Most
  BY <1>2, StoringCounts, EmptyFits DEF CountInv
<1> QED
  BY <1>1, <1>3 DEF Registries

(* A write that begins has the memory of its registry in hand.             *)
LEMMA BeginningFits ==
  ASSUME CountInv, NEW writes \in [Writers -> [on : BOOLEAN, what : Sound, mixed : BOOLEAN]],
         \A v \in Writers : writes[v].what.total < Most,
         NEW w \in Writers
  PROVE  /\ Began(writes, w) \in [Writers -> [on : BOOLEAN, what : Sound, mixed : BOOLEAN]]
         /\ \A v \in Writers : Began(writes, w)[v].what.total < Most
<1> DEFINE others == {v \in Writers : writes[v].on}
           W == [on : BOOLEAN, what : Sound, mixed : BOOLEAN]
           b(v) == [on |-> v = w \/ writes[v].on,
                    what |-> IF v = w THEN mem[w.of] ELSE writes[v].what,
                    mixed |-> IF v = w THEN others # {} ELSE v \in others \/ writes[v].mixed]
<1>1. w.of \in Registries
  BY DEF Writers
<1>2. mem[w.of] \in Sound /\ mem[w.of].total < Most
  BY <1>1, MemoryFits
<1>3. ASSUME NEW v \in Writers
      PROVE  b(v) \in W /\ b(v).what.total < Most
  <2>1. writes[v] \in W
    OBVIOUS
  <2>2. writes[v].on \in BOOLEAN /\ writes[v].what \in Sound /\ writes[v].mixed \in BOOLEAN
    BY <2>1
  <2>3. b(v).what \in Sound /\ b(v).what.total < Most
    BY <2>2, <1>2
  <2>4. b(v).on \in BOOLEAN /\ b(v).mixed \in BOOLEAN
    BY <2>2
  <2> QED
    BY <2>3, <2>4
<1>4. Began(writes, w) = [v \in Writers |-> b(v)]
  BY DEF Began
<1> QED
  BY <1>3, <1>4

(* A write that ends leaves nothing in the file but what was to be saved.  *)
LEMMA EndingFits ==
  ASSUME SavesInv, NEW w \in Writers
  PROVE  /\ \A f \in Left(w) : f.what \in Sound /\ f.what.total < Most
         /\ WriteEnded(w) \in [Writers -> [on : BOOLEAN, what : Sound, mixed : BOOLEAN]]
         /\ \A v \in Writers : WriteEnded(w)[v].what.total < Most
<1>1. write[w].what \in Sound /\ write[w].what.total < Most
  BY DEF SavesInv
<1>2. Saved(write[w].what).what = write[w].what /\ Torn.what = Empty
  BY DEF Saved, Torn
<1>3. \A f \in Left(w) : f.what \in Sound /\ f.what.total < Most
  BY <1>1, <1>2, EmptyFits DEF Left, SavesInv
<1>4. NoWrite \in [on : BOOLEAN, what : Sound, mixed : BOOLEAN] /\ NoWrite.what.total < Most
  BY EmptyFits DEF NoWrite
<1> QED
  BY <1>3, <1>4 DEF WriteEnded, SavesInv

-----------------------------------------------------------------------------
(* Each part of the invariant holds after a step that leaves its state be. *)
LEMMA SavesKept == ASSUME SavesInv, UNCHANGED <<file, write>> PROVE SavesInv'
BY DEF SavesInv

LEMMA CountKept == ASSUME CountInv, UNCHANGED <<mem, registration>> PROVE CountInv'
BY DEF CountInv, Storing

LEMMA CallsKept ==
  ASSUME CallsInv, UNCHANGED registration, server' = "down" => server = "down"
  PROVE  CallsInv'
BY DEF CallsInv, Storing

LEMMA CacheKept ==
  ASSUME CacheInv, UNCHANGED <<mem, cache, probe>>, server' = "down" => server = "down"
  PROVE  CacheInv'
BY DEF CacheInv, PlainAnswersFresh, Found, Listed

(* Saving: the interval's and the two of stop().                           *)
LEMMA SavingKeeps ==
  ASSUME ServerInv,
         NEW r \in Registries, SaveBegins(r) \/ SaveEnds(r)
  PROVE  ServerInv'
<1> DEFINE w == Writer(r, "interval")
<1>1. w \in Writers
  BY DEF Writer, Writers
<1>2. SavesInv'
  <2>1. CASE SaveBegins(r)
    <3>1. write' = Began(write, w) /\ file' = Torn
      BY <2>1 DEF SaveBegins
    <3>2. Torn.what = Empty
      BY DEF Torn
    <3> QED
      BY <1>1, <3>1, <3>2, BeginningFits, EmptyFits DEF ServerInv, SavesInv, Most
  <2>2. CASE SaveEnds(r)
    <3>1. write' = WriteEnded(w) /\ file' \in Left(w)
      BY <2>2 DEF SaveEnds
    <3> QED
      BY <1>1, <3>1, EndingFits DEF ServerInv, SavesInv, Most
  <2> QED
    BY <2>1, <2>2
<1>3. UNCHANGED <<server, mem, registration, cache, probe>>
  BY DEF SaveBegins, SaveEnds
<1> QED
  BY <1>2, <1>3, CountKept, CallsKept, CacheKept DEF ServerInv

(* A registration that passes the check of the capacity.                   *)
LEMMA RegisterKeeps ==
  ASSUME ServerInv,
         NEW c \in Registrants, NEW a \in Agents, Register(c, a)
  PROVE  ServerInv'
<1>1. registration[c].pc = "idle"
  BY DEF Register
<1>2. registration' = [registration EXCEPT ![c] = [pc |-> "store", agent |-> a]]
  BY DEF Register
<1>3. registration \in [Registrants -> {NoCall} \cup [pc : {"store"}, agent : Agents]]
  BY DEF ServerInv, CallsInv
<1>4. Storing' = Storing \cup {c}
  BY <1>1, <1>2, <1>3 DEF Storing
<1>5. registration' \in [Registrants -> {NoCall} \cup [pc : {"store"}, agent : Agents]]
  BY <1>2, <1>3
<1>6. CountInv'
  <2>1. Cardinality(Storing') <= Cardinality(Registrants) /\ Cardinality(Storing') \in Nat
    <3>1. Storing' \subseteq Registrants
      BY <1>4 DEF Storing
    <3> QED
      BY <3>1, FS_Subset, FS_CardinalityType, ServerAssumptions
  <2>2. mem["service"].total < MaxAgents /\ mem' = mem
    BY DEF Register
  <2>3. mem["service"].total \in Nat
    BY DEF ServerInv, CountInv, Registries, Sound, Index
  <2>4. mem["service"].total + Cardinality(Storing') < Most
    BY <2>1, <2>2, <2>3, StoringCounts, ServerAssumptions DEF Most
  <2> QED
    BY <2>2, <2>4 DEF ServerInv, CountInv, Most
<1>7. CallsInv'
  BY <1>5 DEF CallsInv, Register
<1>8. UNCHANGED <<server, mem, file, write, cache, probe>>
  BY DEF Register
<1> QED
  BY <1>6, <1>7, <1>8, SavesKept, CacheKept DEF ServerInv

(* A registration whose file is written, or not.                           *)
LEMMA StoredKeeps ==
  ASSUME ServerInv,
         NEW c \in Registrants, Stored(c)
  PROVE  ServerInv'
<1> DEFINE a == registration[c].agent
<1>1. registration[c].pc = "store" /\ registration' = [registration EXCEPT ![c] = NoCall]
  BY DEF Stored
<1>2. registration \in [Registrants -> {NoCall} \cup [pc : {"store"}, agent : Agents]]
  BY DEF ServerInv, CallsInv
<1>3. a \in Agents
  BY <1>1, <1>2 DEF NoCall
<1>4. c \in Storing /\ Storing' = Storing \ {c}
  BY <1>1, <1>2 DEF Storing, NoCall
<1>5. Cardinality(Storing') = Cardinality(Storing) - 1
  BY <1>4, FS_RemoveElement, StoringCounts
<1>6. mem \in [Registries -> Sound] /\ mem["service"] \in Sound /\ mem["own"] \in Sound
  BY DEF ServerInv, CountInv, Registries
<1>7. mem["own"].total \in Nat /\ mem["service"].total \in Nat
  BY <1>6 DEF Sound, Index
<1>8. CountInv'
  <2>1. CASE mem' = mem
    <3>1. mem["service"].total + Cardinality(Storing') < Most
      BY <1>5, <1>7, StoringCounts, EmptyFits DEF ServerInv, CountInv
    <3> QED
      BY <2>1, <3>1 DEF ServerInv, CountInv, Most
  <2>2. CASE mem' = [mem EXCEPT !["service"] = Updated(@, a)]
    <3>1. Updated(mem["service"], a) \in Sound
          /\ Updated(mem["service"], a).total = mem["service"].total + 1
      BY <1>3, <1>6, UpdateCounts
    <3>2. mem'["own"] = mem["own"] /\ mem'["service"] = Updated(mem["service"], a)
          /\ mem' \in [Registries -> Sound]
      BY <2>2, <1>6, <3>1 DEF Registries
    <3>3. mem'["service"].total + Cardinality(Storing') < Most
      BY <3>1, <3>2, <1>5, <1>7, StoringCounts, EmptyFits DEF ServerInv, CountInv
    <3>4. mem'["own"].total <= mem'["service"].total
      BY <3>1, <3>2, <1>7 DEF ServerInv, CountInv
    <3> QED
      BY <3>2, <3>3, <3>4 DEF CountInv, Most
  <2> QED
    BY <2>1, <2>2 DEF Stored
<1>9. CallsInv'
  <2>1. registration' \in [Registrants -> {NoCall} \cup [pc : {"store"}, agent : Agents]]
    BY <1>1, <1>2
  <2>2. server' = "down" => Storing' = {}
    BY <1>4 DEF ServerInv, CallsInv, Stored
  <2> QED
    BY <2>1, <2>2 DEF CallsInv
<1>10. CacheInv'
  <2>1. CASE UNCHANGED <<mem, cache>>
    BY <2>1, CacheKept DEF ServerInv, Stored
  <2>2. CASE cache' = [q \in Queries |-> NoAnswer]
    BY <2>2 DEF ServerInv, CacheInv, PlainAnswersFresh, NoAnswer, Queries, Stored
  <2> QED
    BY <2>1, <2>2 DEF Stored
<1>11. SavesInv'
  BY SavesKept DEF ServerInv, Stored
<1> QED
  BY <1>8, <1>9, <1>10, <1>11 DEF ServerInv

(* The queries and the age of their answers.                               *)
LEMMA QueriesKeep ==
  ASSUME ServerInv,
         PlainQuery \/ HealthQuery \/ HealthFetched \/ \E q \in Queries : Expires(q)
  PROVE  ServerInv'
<1>1. UNCHANGED <<server, mem, file, write, registration>>
  BY DEF PlainQuery, HealthQuery, HealthFetched, Expires
<1>2. Found \subseteq Agents
  <2>1. mem["service"].index \subseteq Agents /\ mem["service"].index = ToSet(mem["service"].listed)
    BY DEF ServerInv, CountInv, Registries, Sound, Index, Agree
  <2> QED
    BY <2>1 DEF Found, Listed
<1>3. /\ cache \in [Queries -> [held : BOOLEAN, agents : SUBSET Agents]]
      /\ probe \in [held : BOOLEAN, agents : SUBSET Agents]
      /\ server = "down" => ~cache["plain"].held
      /\ cache["plain"].held => cache["plain"].agents = Found
  BY DEF ServerInv, CacheInv, PlainAnswersFresh
<1>4. Found' = Found
  BY <1>1 DEF Found, Listed
<1>5. CacheInv'
  <2>1. CASE PlainQuery
    <3>1. cache' = [cache EXCEPT !["plain"] = Answer(Found)] /\ server = "up" /\ probe' = probe
      BY <2>1 DEF PlainQuery
    <3>2. cache'["plain"] = Answer(Found) /\ cache' \in [Queries -> [held : BOOLEAN, agents : SUBSET Agents]]
      BY <3>1, <1>2, <1>3 DEF Queries, Answer
    <3> QED
      BY <1>1, <1>3, <1>4, <3>1, <3>2 DEF CacheInv, PlainAnswersFresh, Answer
  <2>2. CASE HealthQuery \/ HealthFetched
    <3>1. Answer(Found) \in [held : BOOLEAN, agents : SUBSET Agents]
          /\ NoAnswer \in [held : BOOLEAN, agents : SUBSET Agents]
      BY <1>2 DEF Answer, NoAnswer
    <3>2. /\ probe' \in [held : BOOLEAN, agents : SUBSET Agents]
          /\ \/ cache' = cache
             \/ cache' = [cache EXCEPT !["health"] = Answer(Found)]
             \/ cache' = [cache EXCEPT !["health"] = probe]
      BY <2>2, <3>1, <1>3 DEF HealthQuery, HealthFetched
    <3>3. cache'["plain"] = cache["plain"] /\ cache' \in [Queries -> [held : BOOLEAN, agents : SUBSET Agents]]
      BY <3>2, <3>1, <1>3 DEF Queries
    <3> QED
      BY <1>1, <1>3, <1>4, <3>2, <3>3 DEF CacheInv, PlainAnswersFresh
  <2>3. CASE \E q \in Queries : Expires(q)
    <3>1. PICK q \in Queries : cache' = [cache EXCEPT ![q] = NoAnswer]
      BY <2>3 DEF Expires
    <3>2. probe' = probe
      BY <2>3 DEF Expires
    <3>3. NoAnswer \in [held : BOOLEAN, agents : SUBSET Agents] /\ ~NoAnswer.held
      BY DEF NoAnswer
    <3>4. /\ cache' \in [Queries -> [held : BOOLEAN, agents : SUBSET Agents]]
          /\ cache'["plain"] = cache["plain"] \/ ~cache'["plain"].held
      BY <3>1, <3>3, <1>3 DEF Queries
    <3> QED
      BY <1>1, <1>3, <1>4, <3>2, <3>4 DEF CacheInv, PlainAnswersFresh
  <2> QED
    BY <2>1, <2>2, <2>3
<1> QED
  BY <1>1, <1>5, SavesKept, CountKept, CallsKept DEF ServerInv

(* Starting: the loaded index is below the bound, and nothing is being     *)
(* stored or remembered by the cache yet.                                  *)
LEMMA StartKeeps == ASSUME ServerInv, Start PROVE ServerInv'
<1>1. UNCHANGED <<file, write, registration, cache, probe>> /\ server = "down" /\ server' = "up"
  BY DEF Start
<1>2. mem' = [r \in Registries |-> file.what]
  BY DEF Start, Loaded
<1>3. file.what \in Sound /\ file.what.total < Most /\ file.what.total \in Nat
  BY DEF ServerInv, SavesInv, Sound, Index
<1>4. mem'["own"] = file.what /\ mem'["service"] = file.what /\ mem' \in [Registries -> Sound]
  BY <1>2, <1>3 DEF Registries
<1>5. Storing' = {} /\ Cardinality(Storing') = 0
  BY <1>1, FS_EmptySet DEF ServerInv, CallsInv, Storing
<1>6. CountInv'
  BY <1>3, <1>4, <1>5, EmptyFits DEF CountInv, Most
<1>7. CacheInv'
  BY <1>1 DEF ServerInv, CacheInv, PlainAnswersFresh
<1> QED
  BY <1>1, <1>6, <1>7, SavesKept, CallsKept DEF ServerInv

(* Stopping: two saves, and the cache cleared between them.                *)
LEMMA StopKeeps ==
  ASSUME ServerInv, Stop \/ ServiceStopped \/ Stopped
  PROVE  ServerInv'
<1>1. UNCHANGED <<mem, registration, probe>> /\ server # "down" /\ server' # "down"
  BY DEF Stop, ServiceStopped, Stopped
<1>2. Writer("service", "stop") \in Writers /\ Writer("own", "stop") \in Writers
  BY DEF Writer, Writers, Registries
<1>3. Torn.what = Empty
  BY DEF Torn
<1>4. SavesInv'
  <2>1. CASE Stop
    BY <2>1, <1>2, <1>3, BeginningFits, EmptyFits DEF ServerInv, SavesInv, Most, Stop
  <2>2. CASE ServiceStopped
    <3>1. /\ WriteEnded(Writer("service", "stop"))
               \in [Writers -> [on : BOOLEAN, what : Sound, mixed : BOOLEAN]]
          /\ \A v \in Writers : WriteEnded(Writer("service", "stop"))[v].what.total < Most
      BY <1>2, EndingFits DEF ServerInv
    <3> QED
      BY <2>2, <3>1, <1>2, <1>3, BeginningFits, EmptyFits
         DEF ServerInv, SavesInv, Most, ServiceStopped
  <2>3. CASE Stopped
    BY <2>3, <1>2, EndingFits DEF ServerInv, SavesInv, Most, Stopped
  <2> QED
    BY <2>1, <2>2, <2>3
<1>5. CacheInv'
  <2>1. CASE UNCHANGED cache
    BY <1>1, <2>1, CacheKept DEF ServerInv
  <2>2. CASE cache' = [q \in Queries |-> NoAnswer]
    BY <1>1, <2>2 DEF ServerInv, CacheInv, PlainAnswersFresh, NoAnswer, Queries
  <2> QED
    BY <2>1, <2>2 DEF Stop, ServiceStopped, Stopped
<1> QED
  BY <1>1, <1>4, <1>5, CountKept, CallsKept DEF ServerInv

(* The end of the process leaves the file.                                 *)
LEMMA GoneKeeps == ASSUME ServerInv, Gone PROVE ServerInv'
<1>1. /\ mem' = [r \in Registries |-> Empty] /\ write' = [w \in Writers |-> NoWrite]
      /\ registration' = [c \in Registrants |-> NoCall] /\ cache' = [q \in Queries |-> NoAnswer]
      /\ probe' = NoAnswer /\ file' = file
  BY DEF Gone
<1>2. SavesInv'
  <2>1. NoWrite \in [on : BOOLEAN, what : Sound, mixed : BOOLEAN] /\ NoWrite.what.total < Most
    BY EmptyFits DEF NoWrite
  <2> QED
    BY <1>1, <2>1 DEF ServerInv, SavesInv, Most
<1>3. Storing' = {} /\ Cardinality(Storing') = 0
  BY <1>1, FS_EmptySet DEF Storing, NoCall
<1>4. CountInv'
  BY <1>1, <1>3, EmptyFits DEF CountInv, Registries, Most
<1>5. CallsInv'
  BY <1>1, <1>3 DEF CallsInv
<1>6. CacheInv'
  BY <1>1 DEF CacheInv, PlainAnswersFresh, NoAnswer, Queries
<1> QED
  BY <1>2, <1>4, <1>5, <1>6 DEF ServerInv

-----------------------------------------------------------------------------
(* The strengthened invariant: whatever is in memory, in the file or on    *)
(* its way there counts what it lists, and no more agents than racing      *)
(* registrations allow.                                                    *)
THEOREM ServerInvariant == ServerSpec => []ServerInv
<1>1. ServerInit => ServerInv
  <2> SUFFICES ASSUME ServerInit PROVE ServerInv
    OBVIOUS
  <2>1. /\ server = "down" /\ mem = [r \in Registries |-> Empty] /\ file = Missing
        /\ write = [w \in Writers |-> NoWrite] /\ registration = [c \in Registrants |-> NoCall]
        /\ cache = [q \in Queries |-> NoAnswer] /\ probe = NoAnswer
    BY DEF ServerInit
  <2>2. SavesInv
    <3>1. NoWrite \in [on : BOOLEAN, what : Sound, mixed : BOOLEAN] /\ NoWrite.what.total < Most
      BY EmptyFits DEF NoWrite
    <3>2. file.what = Empty
      BY <2>1 DEF Missing
    <3> QED
      BY <2>1, <3>1, <3>2, EmptyFits DEF SavesInv
  <2>3. Storing = {} /\ Cardinality(Storing) = 0
    BY <2>1, FS_EmptySet DEF Storing, NoCall
  <2>4. CountInv
    BY <2>1, <2>3, EmptyFits DEF CountInv, Registries
  <2>5. CallsInv
    BY <2>1, <2>3 DEF CallsInv
  <2>6. CacheInv
    BY <2>1 DEF CacheInv, PlainAnswersFresh, NoAnswer, Queries
  <2> QED
    BY <2>2, <2>4, <2>5, <2>6 DEF ServerInv
<1>2. ServerInv /\ [ServerNext]_serverVars => ServerInv'
  <2> SUFFICES ASSUME ServerInv, [ServerNext]_serverVars PROVE ServerInv'
    OBVIOUS
  <2>1. CASE Start
    BY <2>1, StartKeeps
  <2>2. CASE Stop \/ ServiceStopped \/ Stopped
    BY <2>2, StopKeeps
  <2>3. CASE Exit \/ Crash
    BY <2>3, GoneKeeps DEF Exit, Crash
  <2>4. CASE \E c \in Registrants : Stored(c)
    BY <2>4, StoredKeeps
  <2>5. CASE \E c \in Registrants, a \in Agents : Register(c, a)
    BY <2>5, RegisterKeeps
  <2>6. CASE \E r \in Registries : SaveBegins(r) \/ SaveEnds(r)
    BY <2>6, SavingKeeps
  <2>7. CASE PlainQuery \/ HealthQuery \/ HealthFetched \/ \E q \in Queries : Expires(q)
    BY <2>7, QueriesKeep
  <2>8. CASE StartFails \/ UNCHANGED serverVars
    BY <2>8, SavesKept, CountKept, CallsKept, CacheKept DEF ServerInv, StartFails, serverVars
  <2> QED
    BY <2>1, <2>2, <2>3, <2>4, <2>5, <2>6, <2>7, <2>8 DEF ServerNext
<1> QED
  BY <1>1, <1>2, PTL DEF ServerSpec

(* However many registrations pass the check together, and whatever is     *)
(* saved, lost and loaded again, maxAgents is exceeded by less than the    *)
(* number of registrations that can be under way.                          *)
THEOREM OvershootIsBounded == ServerSpec => []OvershootIsRacing
<1>1. ServerInv => OvershootIsRacing
  <2> SUFFICES ASSUME ServerInv, NEW r \in Registries
               PROVE  mem[r].total + Cardinality(Storing) < MaxAgents + Cardinality(Registrants)
    BY DEF OvershootIsRacing
  <2>1. mem["own"] \in Sound /\ mem["service"] \in Sound
    BY DEF ServerInv, CountInv, Registries
  <2>2. mem["own"].total \in Nat /\ mem["service"].total \in Nat
    BY <2>1 DEF Sound, Index
  <2>3. mem[r].total <= mem["service"].total
    BY <2>2 DEF ServerInv, CountInv, Registries
  <2>4. mem[r].total \in Nat
    BY <2>2 DEF Registries
  <2> QED
    BY <2>2, <2>3, <2>4, StoringCounts, EmptyFits DEF ServerInv, CountInv, Most
<1> QED
  BY <1>1, ServerInvariant, PTL

(* In every registry and in the file that a restart may load, the count is *)
(* the number of entries of the list and the list names the agents of the  *)
(* index, however registrations race and writes overlap, whatever a crash  *)
(* loses and however often the server is restarted.                        *)
THEOREM CountsAgreeWithLists == ServerSpec => []CountsAgree
<1>1. ServerInv => CountsAgree
  BY DEF ServerInv, SavesInv, CountInv, CountsAgree, Sound
<1> QED
  BY <1>1, ServerInvariant, PTL

(* For any agents and calls: a cached answer to a query without health is  *)
(* what the registry would answer now.                                     *)
THEOREM PlainAnswersAreFresh == ServerSpec => []PlainAnswersFresh
<1>1. ServerInv => PlainAnswersFresh
  BY DEF ServerInv, CacheInv
<1> QED
  BY <1>1, ServerInvariant, PTL

(* The types, and that each phase of stop() waits for the save it began.  *)
FileTypes == [is : {"missing", "torn", "saved"}, what : Index]

ServerShape ==
  /\ server \in {"down", "up", "closing", "ending", "stopped"}
  /\ file \in FileTypes /\ registered \subseteq Agents
  /\ write[Writer("service", "stop")].on <=> server = "closing"
  /\ write[Writer("own", "stop")].on <=> server = "ending"

(* The file after a save: what was saved, or what overlapping saves left.  *)
LEMMA LeftHasType ==
  ASSUME ServerInv, ServerShape, NEW w \in Writers
  PROVE  Left(w) \subseteq FileTypes /\ Torn \in FileTypes
<1>1. Empty \in Index /\ write[w].what \in Index
  BY EmptyFits DEF ServerInv, SavesInv, Sound
<1>2. Torn \in FileTypes /\ Saved(write[w].what) \in FileTypes
  BY <1>1 DEF Torn, Saved, FileTypes
<1> QED BY <1>2 DEF Left, ServerShape

(* Which writes are under way after one has begun, or ended.               *)
LEMMA WritesUnderWay ==
  ASSUME NEW w \in Writers, NEW v \in Writers
  PROVE  /\ \A writes : Began(writes, w)[v].on <=> v = w \/ writes[v].on
         /\ ServerInv => (WriteEnded(w)[v].on <=> v # w /\ write[v].on)
<1>1. \A writes : Began(writes, w)[v].on <=> v = w \/ writes[v].on
  BY DEF Began
<1>2. ServerInv => (WriteEnded(w)[v].on <=> v # w /\ write[v].on)
  BY DEF ServerInv, SavesInv, WriteEnded, NoWrite
<1> QED BY <1>1, <1>2

LEMMA ShapeKept ==
  ASSUME ServerInv, ServerShape, [ServerNext]_serverVars
  PROVE  ServerShape'
<1> DEFINE s == Writer("service", "stop")  o == Writer("own", "stop")
<1>1. /\ s \in Writers /\ o \in Writers /\ s # o
      /\ \A r \in Registries : /\ Writer(r, "interval") \in Writers
                               /\ Writer(r, "interval") # s /\ Writer(r, "interval") # o
  BY DEF Writer, Writers, Registries
<1>2. Torn \in FileTypes
  BY <1>1, LeftHasType
<1>3. /\ server \in {"down", "up", "closing", "ending", "stopped"}
      /\ file \in FileTypes /\ registered \subseteq Agents
      /\ write[s].on <=> server = "closing"
      /\ write[o].on <=> server = "ending"
  BY DEF ServerShape
<1>4. ASSUME server' \in {"down", "up", "closing", "ending", "stopped"},
             file' \in FileTypes, registered' \subseteq Agents,
             write'[s].on <=> server' = "closing", write'[o].on <=> server' = "ending"
      PROVE  ServerShape'
  BY <1>4 DEF ServerShape, Writer, FileTypes, Index
<1> HIDE DEF s, o
<1>5. ASSUME server' = server, write' = write, file' = file, registered' \subseteq Agents PROVE ServerShape'
  BY <1>3, <1>4, <1>5
<1>6. CASE Start
  BY <1>3, <1>4, <1>6 DEF Start
<1>7. CASE Stop
  BY <1>1, <1>2, <1>3, <1>4, <1>7, WritesUnderWay DEF Stop, s
<1>8. CASE ServiceStopped
  BY <1>1, <1>2, <1>3, <1>4, <1>8, WritesUnderWay DEF ServiceStopped, s, o
<1>9. CASE Stopped
  BY <1>1, <1>3, <1>4, <1>9, WritesUnderWay, LeftHasType DEF Stopped, o
<1>10. CASE Exit \/ Crash
  <2>1. /\ server' = "down" /\ file' = file /\ registered' \subseteq Agents
        /\ write' = [w \in Writers |-> NoWrite]
    BY <1>3, <1>10 DEF Exit, Crash, Gone
  <2>2. ~write'[s].on /\ ~write'[o].on
    BY <1>1, <2>1 DEF NoWrite
  <2> QED BY <1>3, <1>4, <2>1, <2>2
<1>11. ASSUME NEW c \in Registrants, Stored(c) PROVE ServerShape'
  <2>1. registration[c].pc = "store"
    BY <1>11 DEF Stored
  <2>2. registration[c].agent \in Agents
    BY <2>1 DEF ServerInv, CallsInv, NoCall
  <2>3. Told(c) \subseteq Agents
    BY <2>2 DEF Told
  <2> QED BY <1>3, <1>5, <1>11, <2>3 DEF Stored
<1>12. ASSUME NEW r \in Registries, SaveBegins(r) PROVE ServerShape'
  BY <1>1, <1>2, <1>3, <1>4, <1>12, WritesUnderWay DEF SaveBegins
<1>13. ASSUME NEW r \in Registries, SaveEnds(r) PROVE ServerShape'
  BY <1>1, <1>3, <1>4, <1>13, WritesUnderWay, LeftHasType DEF SaveEnds
<1>14. ASSUME NEW c \in Registrants, NEW a \in Agents, Register(c, a) PROVE ServerShape'
  BY <1>3, <1>5, <1>14 DEF Register
<1>15. CASE PlainQuery \/ HealthQuery \/ HealthFetched \/ \E q \in Queries : Expires(q)
  BY <1>3, <1>5, <1>15 DEF PlainQuery, HealthQuery, HealthFetched, Expires
<1>16. CASE StartFails \/ UNCHANGED serverVars
  BY <1>3, <1>5, <1>16 DEF StartFails, serverVars
<1> QED BY <1>6, <1>7, <1>8, <1>9, <1>10, <1>11, <1>12, <1>13, <1>14, <1>15, <1>16 DEF ServerNext

(* ServerTypeOK: the server's variables have their types, and stop() is    *)
(* waiting for a save of its own exactly in the two states in which it     *)
(* began one (registry-api.js: stop).                                      *)
THEOREM ServerTypeCorrect == ServerSpec => []ServerTypeOK
<1>1. ServerInit => ServerShape
  <2> SUFFICES ASSUME ServerInit PROVE ServerShape
    OBVIOUS
  <2>1. Writer("service", "stop") \in Writers /\ Writer("own", "stop") \in Writers
    BY DEF Writer, Writers, Registries
  <2>2. file \in FileTypes
    BY EmptyFits DEF ServerInit, Missing, FileTypes, Sound
  <2> QED BY <2>1, <2>2 DEF ServerInit, ServerShape, NoWrite
<1>2. ServerInv /\ ServerShape /\ [ServerNext]_serverVars => ServerShape'
  BY ShapeKept
<1>3. ServerInv /\ ServerShape => ServerTypeOK
  <2> SUFFICES ASSUME ServerInv, ServerShape PROVE ServerTypeOK
    OBVIOUS
  <2>1. mem \in [Registries -> Index] /\ write \in [Writers -> [on : BOOLEAN, what : Index, mixed : BOOLEAN]]
    <3>1. Sound \subseteq Index
      BY DEF Sound
    <3>2. mem \in [Registries -> Sound] /\ write \in [Writers -> [on : BOOLEAN, what : Sound, mixed : BOOLEAN]]
      BY DEF ServerInv, CountInv, SavesInv
    <3> HIDE DEF Sound
    <3> QED BY <3>1, <3>2
  <2>2. \A c \in Registrants : registration[c] \in [pc : {"store"}, agent : Agents] \cup {NoCall}
    BY DEF ServerInv, CallsInv
  <2> QED BY <2>1, <2>2 DEF ServerInv, CacheInv, ServerShape, FileTypes, ServerTypeOK
<1> QED BY <1>1, <1>2, <1>3, ServerInvariant, PTL DEF ServerSpec
=============================================================================
