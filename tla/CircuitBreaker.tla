--------------------------- MODULE CircuitBreaker ---------------------------
(***************************************************************************)
(* circuit-breaker.js: calls that are under way when the breaker changes   *)
(* state report their results later, and are counted in whatever state it  *)
(* is in by then.                                                          *)
(*                                                                         *)
(* The counters are compared with their thresholds and with zero only, so  *)
(* they are kept up to the threshold; the deadline nextAttemptTime is kept *)
(* as the time left until it.  Neither bounds the behaviour: there is no   *)
(* limit on calls or time.                                                 *)
(***************************************************************************)
EXTENDS CircuitConfig

VARIABLES
  state, failureCount, successCount,
  wait,         (* ticks until nextAttemptTime; 0 when it is past or null  *)
  call,         (* call[c]: c's function under way                         *)
  healthy,      (* has the service recovered for good?                     *)
  thrown        (* history: functions that threw since the last success in *)
                (* CLOSED, half-open or reset, as failureCount is meant to *)

breaker == <<state, failureCount, successCount, wait, thrown>>
vars == <<breaker, call, healthy>>

CircuitStates == {"closed", "open", "half_open"}

(* A sound call was made after the service recovered: it will succeed.     *)
Calls == {"none", "pending", "sound"}
Running(c) == call[c] # "none"

Increment(n, limit) == IF n < limit THEN n + 1 ELSE n

Init ==
  /\ state = "closed"
  /\ failureCount = 0 /\ successCount = 0 /\ wait = 0
  /\ call = [c \in Callers |-> "none"]
  /\ healthy = FALSE
  /\ thrown = 0

-----------------------------------------------------------------------------
(* Recording results.                                                      *)

(* Mutants: any state but CLOSED may close; any failure at the threshold   *)
(* opens, also in OPEN.                                                    *)
RecordSuccessClosing ==
  LET succeeded == Increment(successCount, SuccessThreshold)
      closing == state # "closed" /\ succeeded >= SuccessThreshold
  IN
  /\ state' = IF closing THEN "closed" ELSE state
  /\ successCount' = IF closing THEN 0 ELSE succeeded
  /\ failureCount' = IF closing \/ state = "closed" THEN 0 ELSE failureCount
  /\ wait' = IF closing THEN 0 ELSE wait
  /\ thrown' = IF closing \/ state = "closed" THEN 0 ELSE thrown
RecordFailureReopening(real) ==
  LET failed == Increment(failureCount, FailureThreshold)
      opening == failed >= FailureThreshold
  IN
  /\ failureCount' = failed
  /\ state' = IF opening THEN "open" ELSE state
  /\ wait' = IF opening THEN Timeout ELSE wait
  /\ thrown' = IF real THEN Increment(thrown, FailureThreshold) ELSE thrown
  /\ UNCHANGED successCount

(* _recordSuccess with _transitionToClosed.                                *)
RecordSuccess ==
  LET succeeded == Increment(successCount, SuccessThreshold)
      closing == state = "half_open" /\ succeeded >= SuccessThreshold
  IN
  /\ state' = IF closing THEN "closed" ELSE state
  /\ successCount' = IF closing THEN 0 ELSE succeeded
  /\ failureCount' = IF closing \/ state = "closed" THEN 0 ELSE failureCount
  /\ wait' = IF closing THEN 0 ELSE wait
  /\ thrown' = IF closing \/ state = "closed" THEN 0 ELSE thrown

(* _recordFailure with _transitionToOpen; real tells a function that threw *)
(* from a call that was refused.                                           *)
RecordFailure(real) ==
  LET failed == Increment(failureCount, FailureThreshold)
      opening == state # "open" /\ failed >= FailureThreshold
  IN
  /\ failureCount' = failed
  /\ state' = IF opening THEN "open" ELSE state
  /\ wait' = IF opening THEN Timeout ELSE wait
  /\ thrown' = IF real THEN Increment(thrown, FailureThreshold) ELSE thrown
  /\ UNCHANGED successCount

-----------------------------------------------------------------------------
(* execute.                                                                *)

Refused == state = "open" /\ wait > 0

(* Failing fast throws within the try block, so it is recorded as well.    *)
Reject(c) ==
  /\ ~Running(c)
  /\ Refused
  /\ RecordFailure(FALSE)
  /\ UNCHANGED <<call, healthy>>

HalfOpen ==
  /\ state = "open"
  /\ state' = "half_open"
  /\ successCount' = 0 /\ failureCount' = 0 /\ thrown' = 0
  /\ UNCHANGED wait

(* Mutant: the failures that opened the breaker are kept.                  *)
AdmitKeepingFailures(c) ==
  /\ ~Running(c)
  /\ ~Refused
  /\ \/ /\ state = "open"
        /\ state' = "half_open"
        /\ successCount' = 0 /\ thrown' = 0
        /\ UNCHANGED <<failureCount, wait>>
     \/ state # "open" /\ UNCHANGED breaker
  /\ call' = [call EXCEPT ![c] = IF healthy THEN "sound" ELSE "pending"]
  /\ UNCHANGED healthy

(* The call is let through; past the deadline it half-opens the breaker.   *)
Admit(c) ==
  /\ ~Running(c)
  /\ ~Refused
  /\ HalfOpen \/ (state # "open" /\ UNCHANGED breaker)
  /\ call' = [call EXCEPT ![c] = IF healthy THEN "sound" ELSE "pending"]
  /\ UNCHANGED healthy

Succeed(c) ==
  /\ Running(c)
  /\ RecordSuccess
  /\ call' = [call EXCEPT ![c] = "none"]
  /\ UNCHANGED healthy

Throw(c) ==
  /\ call[c] = "pending"
  /\ RecordFailure(TRUE)
  /\ call' = [call EXCEPT ![c] = "none"]
  /\ UNCHANGED healthy

Reset ==
  /\ state' = "closed"
  /\ failureCount' = 0 /\ successCount' = 0 /\ wait' = 0
  /\ thrown' = 0
  /\ UNCHANGED <<call, healthy>>

-----------------------------------------------------------------------------
(* The environment.                                                        *)

Tick ==
  /\ wait > 0
  /\ wait' = wait - 1
  /\ UNCHANGED <<state, failureCount, successCount, thrown, call, healthy>>

Recover == ~healthy /\ healthy' = TRUE /\ UNCHANGED <<breaker, call>>

-----------------------------------------------------------------------------
Execute(c) == Reject(c) \/ Admit(c)
Settle(c) == Succeed(c) \/ Throw(c)

Next ==
  \/ \E c \in Callers : Execute(c) \/ Settle(c)
  \/ Reset \/ Tick \/ Recover

Spec == Init /\ [][Next]_vars

-----------------------------------------------------------------------------
(* Properties.                                                             *)

(* Every variable holds values of the shape the code gives it.             *)
TypeOK ==
  /\ state \in CircuitStates
  /\ failureCount \in 0 .. FailureThreshold
  /\ successCount \in 0 .. SuccessThreshold
  /\ wait \in 0 .. Timeout
  /\ call \in [Callers -> Calls]
  /\ healthy \in BOOLEAN
  /\ thrown \in 0 .. FailureThreshold

(* The breaker opens only when FailureThreshold functions really threw     *)
(* since the last success in CLOSED, half-open or reset: the calls it      *)
(* refused, which it counts as failures too, never trip it again.          *)
TripsOnThrownErrors ==
  [][state # "open" /\ state' = "open" => thrown' = FailureThreshold]_vars

(* Once open, the breaker stays open until its deadline, whatever calls    *)
(* made earlier report meanwhile; only reset() ends it sooner.             *)
OpenForTheWholeTimeout ==
  [][state = "open" /\ state' # "open" => wait = 0 \/ Reset]_vars

(* When the service recovers and callers go on calling, the breaker ends   *)
(* up closed for good: neither refused calls nor late failures keep        *)
(* pushing the deadline away.                                              *)
Recovers == healthy ~> [](state = "closed")
=============================================================================
