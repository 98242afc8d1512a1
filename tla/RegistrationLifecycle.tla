----------------------- MODULE RegistrationLifecycle ------------------------
(***************************************************************************)
(* What the registration pipeline promises its callers: every manifest     *)
(* moves through the lifecycle one table row at a time, and its version    *)
(* grows by one with every move.  No files, no retries, no concurrency:    *)
(* each operation is one atomic step.                                      *)
(***************************************************************************)
EXTENDS Naturals, LifecycleTable

CONSTANTS
  Ids,          (* manifest identifiers                                    *)
  None          (* the state of a manifest nobody has created              *)

VARIABLES
  phase,        (* phase[m]: the lifecycle state, or None                  *)
  version       (* version[m]: 0 before creation                           *)

lvars == <<phase, version>>

Init ==
  /\ phase = [m \in Ids |-> None]
  /\ version = [m \in Ids |-> 0]

Create(m) ==
  /\ phase[m] = None
  /\ phase' = [phase EXCEPT ![m] = InitialState]
  /\ version' = [version EXCEPT ![m] = 1]

Fire(m, e) ==
  \E t \in States :
    /\ <<phase[m], e, t>> \in Transitions
    /\ phase' = [phase EXCEPT ![m] = t]
    /\ version' = [version EXCEPT ![m] = @ + 1]

Next == \E m \in Ids : Create(m) \/ \E e \in Events : Fire(m, e)

Spec == Init /\ [][Next]_lvars
=============================================================================
