---------------------------- MODULE CircuitConfig ----------------------------
(* The configuration of a circuit breaker and who calls it.                *)
EXTENDS Naturals

CONSTANTS
  Callers,            (* who calls execute                                 *)
  FailureThreshold, SuccessThreshold,
  Timeout             (* config.timeout, in ticks                          *)

ASSUME BreakerAssumptions ==
  /\ FailureThreshold \in Nat
  /\ SuccessThreshold \in Nat
  /\ Timeout \in Nat
=============================================================================
