------------------------ MODULE CircuitBreakerProofs ------------------------
(* Proofs about the circuit breaker, for every threshold and time-out and  *)
(* any number of callers.                                                  *)
EXTENDS CircuitBreaker, TLAPS

(* failureCount also counts the calls an open breaker refused, thrown does *)
(* not: they agree again in every other state.                             *)
Inv ==
  /\ TypeOK
  /\ state # "open" => failureCount = thrown

LEMMA IncrementInRange ==
  ASSUME NEW limit \in Nat, NEW n \in 0 .. limit
  PROVE  Increment(n, limit) \in 0 .. limit
BY DEF Increment

LEMMA InitInv == Init => Inv
<1> SUFFICES ASSUME Init PROVE Inv
  OBVIOUS
<1>1. call \in [Callers -> Calls]
  BY DEF Init, Calls
<1>2. healthy \in BOOLEAN /\ state \in CircuitStates
  BY DEF Init, CircuitStates
<1>3. \A limit \in Nat : 0 \in 0 .. limit
  OBVIOUS
<1> QED BY <1>1, <1>2, <1>3, BreakerAssumptions DEF Init, Inv, TypeOK

(* Recording a success keeps the counters in range and in agreement.       *)
LEMMA SuccessInv ==
  ASSUME Inv, RecordSuccess
  PROVE  /\ state' \in CircuitStates /\ wait' \in 0 .. Timeout
         /\ failureCount' \in 0 .. FailureThreshold
         /\ successCount' \in 0 .. SuccessThreshold
         /\ thrown' \in 0 .. FailureThreshold
         /\ state' # "open" => failureCount' = thrown'
<1>1. Increment(successCount, SuccessThreshold) \in 0 .. SuccessThreshold
  BY BreakerAssumptions, IncrementInRange DEF Inv, TypeOK
<1> QED BY <1>1, BreakerAssumptions DEF Inv, TypeOK, RecordSuccess, CircuitStates

(* So does recording a thrown error, in any state, and a refusal in OPEN.  *)
LEMMA FailureInv ==
  ASSUME Inv, NEW real \in BOOLEAN, RecordFailure(real), real \/ state = "open"
  PROVE  /\ state' \in CircuitStates /\ wait' \in 0 .. Timeout
         /\ failureCount' \in 0 .. FailureThreshold
         /\ successCount' \in 0 .. SuccessThreshold
         /\ thrown' \in 0 .. FailureThreshold
         /\ state' # "open" => failureCount' = thrown'
<1>1. /\ Increment(failureCount, FailureThreshold) \in 0 .. FailureThreshold
      /\ Increment(thrown, FailureThreshold) \in 0 .. FailureThreshold
  BY BreakerAssumptions, IncrementInRange DEF Inv, TypeOK
<1> QED BY <1>1, BreakerAssumptions DEF Inv, TypeOK, RecordFailure, CircuitStates

LEMMA StepInv == Inv /\ [Next]_vars => Inv'
<1> SUFFICES ASSUME Inv, [Next]_vars PROVE Inv'
  OBVIOUS
<1>1. ASSUME NEW c \in Callers, Reject(c) PROVE Inv'
  <2>1. RecordFailure(FALSE) /\ state = "open"
    BY <1>1 DEF Reject, Refused
  <2> QED BY <2>1, <1>1, FailureInv DEF Inv, TypeOK, Reject
<1>2. ASSUME NEW c \in Callers, Admit(c) PROVE Inv'
  <2>1. call' \in [Callers -> Calls]
    BY <1>2 DEF Inv, TypeOK, Admit, Calls
  <2>2. CASE HalfOpen
    BY <2>1, <2>2, <1>2, BreakerAssumptions DEF Inv, TypeOK, Admit, HalfOpen, CircuitStates
  <2>3. CASE UNCHANGED breaker
    BY <2>1, <2>3, <1>2 DEF Inv, TypeOK, Admit, breaker
  <2> QED BY <1>2, <2>2, <2>3 DEF Admit
<1>3. ASSUME NEW c \in Callers, Succeed(c) PROVE Inv'
  BY <1>3, SuccessInv DEF Inv, TypeOK, Succeed, Calls
<1>4. ASSUME NEW c \in Callers, Throw(c) PROVE Inv'
  BY <1>4, FailureInv DEF Inv, TypeOK, Throw, Calls
<1>5. CASE Reset
  BY <1>5, BreakerAssumptions DEF Inv, TypeOK, Reset, CircuitStates
<1>6. CASE Tick
  BY <1>6, BreakerAssumptions DEF Inv, TypeOK, Tick
<1>7. CASE Recover
  BY <1>7 DEF Inv, TypeOK, Recover, breaker
<1>8. CASE UNCHANGED vars
  BY <1>8 DEF Inv, TypeOK, vars, breaker
<1> QED
  BY <1>1, <1>2, <1>3, <1>4, <1>5, <1>6, <1>7, <1>8 DEF Next, Execute, Settle

(* The counters are within their thresholds and, while the breaker is not  *)
(* open, failureCount is the number of functions that threw.               *)
THEOREM BreakerInvariant == Spec => []Inv
BY InitInv, StepInv, PTL DEF Spec

-----------------------------------------------------------------------------
LEMMA StepTrips ==
  ASSUME Inv, [Next]_vars, state # "open", state' = "open"
  PROVE  thrown' = FailureThreshold
<1>1. PICK c \in Callers : Throw(c)
  <2>1. ASSUME NEW c \in Callers, Reject(c) PROVE FALSE
    BY <2>1 DEF Reject, Refused
  <2>2. ASSUME NEW c \in Callers, Admit(c) PROVE FALSE
    BY <2>2 DEF Admit, HalfOpen, breaker
  <2>3. ASSUME NEW c \in Callers, Succeed(c) PROVE FALSE
    BY <2>3 DEF Succeed, RecordSuccess
  <2>4. ~Reset /\ ~Tick /\ ~Recover /\ ~UNCHANGED vars
    BY DEF Reset, Tick, Recover, vars, breaker
  <2> QED BY <2>1, <2>2, <2>3, <2>4 DEF Next, Execute, Settle
<1>2. failureCount = thrown /\ thrown \in 0 .. FailureThreshold
  BY DEF Inv, TypeOK
<1>3. Increment(failureCount, FailureThreshold) >= FailureThreshold
  BY <1>1 DEF Throw, RecordFailure
<1>4. thrown' = Increment(thrown, FailureThreshold)
  BY <1>1 DEF Throw, RecordFailure
<1> QED BY <1>2, <1>3, <1>4, BreakerAssumptions DEF Increment

(* The breaker opens only when FailureThreshold functions really threw     *)
(* since the last success in CLOSED, half-open or reset, whatever calls    *)
(* settle in between and however many it refused before.                   *)
THEOREM OnlyThrownErrorsTrip == Spec => TripsOnThrownErrors
<1>1. Inv /\ [Next]_vars
      => [state # "open" /\ state' = "open" => thrown' = FailureThreshold]_vars
  BY StepTrips
<1> QED BY <1>1, BreakerInvariant, PTL DEF Spec, TripsOnThrownErrors

LEMMA StepLeavesOpen ==
  ASSUME [Next]_vars, state = "open", state' # "open", Inv
  PROVE  wait = 0 \/ Reset
<1> SUFFICES ASSUME ~Reset PROVE ~Refused
  BY DEF Refused, Inv, TypeOK
<1>1. ASSUME NEW c \in Callers, Reject(c) \/ Succeed(c) \/ Throw(c) PROVE FALSE
  BY <1>1 DEF Reject, Succeed, Throw, RecordSuccess, RecordFailure
<1>2. ~Tick /\ ~Recover /\ ~UNCHANGED vars
  BY DEF Tick, Recover, vars, breaker
<1> QED BY <1>1, <1>2 DEF Next, Execute, Settle, Admit

(* Once open, the breaker is left at its deadline or by reset(), never by  *)
(* a late answer to a call made before it opened.                          *)
THEOREM StaysOpen == Spec => OpenForTheWholeTimeout
<1>1. Inv /\ [Next]_vars
      => [state = "open" /\ state' # "open" => wait = 0 \/ Reset]_vars
  BY StepLeavesOpen
<1> QED BY <1>1, BreakerInvariant, PTL DEF Spec, OpenForTheWholeTimeout
=============================================================================
