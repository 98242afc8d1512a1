------------------------------ MODULE A2AClient ------------------------------
(***************************************************************************)
(* a2a-client.js: a request is one call of the circuit breaker, and within *)
(* it a loop of fetches, each with its abort timer, with pauses between.   *)
(***************************************************************************)
EXTENDS CircuitConfig

CONSTANT MaxRetries     (* config.maxRetries                               *)

ASSUME ClientAssumptions == MaxRetries \in Nat

VARIABLES
  state, failureCount, successCount, wait, call, healthy, thrown,
  req             (* req[c]: the request c is in, or how its last one ended *)

breakerVars == <<state, failureCount, successCount, wait, call, healthy, thrown>>
vars == <<breakerVars, req>>

Breaker == INSTANCE CircuitBreaker

(*   auth    the abort timer runs, the token is awaited                    *)
(*   fetch   the request is sent, the timer runs or has fired              *)
(*   body    the answer's headers are in, the timer is cleared, the body   *)
(*           is awaited                                                    *)
(*   sleep   the pause before the next attempt                             *)
Request == [ pc : {"idle", "auth", "fetch", "body", "sleep"}, attempt : 0 .. MaxRetries,
             res : {"none", "ok", "auth", "timeout", "exhausted", "refused"} ]
NoRequest == [pc |-> "idle", attempt |-> 0, res |-> "none"]

RequestStep(c, r) == req' = [req EXCEPT ![c] = r]
Ended(c, res) == RequestStep(c, [NoRequest EXCEPT !.res = res])

Init ==
  /\ Breaker!Init
  /\ req = [c \in Callers |-> NoRequest]

-----------------------------------------------------------------------------
(* request.                                                                *)

Begin(c) ==
  \/ Breaker!Reject(c) /\ Ended(c, "refused")
  \/ Breaker!Admit(c) /\ RequestStep(c, [NoRequest EXCEPT !.pc = "auth"])

Return(c) == Breaker!Succeed(c) /\ Ended(c, "ok")
Fail(c, res) == Breaker!Throw(c) /\ Ended(c, res)

(* Mutants: the error is reported to the breaker at each attempt; the last *)
(* attempt is retried without being counted.                               *)
RetryReporting(c) ==
  \/ /\ req[c].attempt < MaxRetries
     /\ RequestStep(c, [req[c] EXCEPT !.pc = "sleep"])
     /\ Breaker!RecordFailure(TRUE)
     /\ UNCHANGED <<call, healthy>>
  \/ req[c].attempt = MaxRetries /\ Fail(c, "exhausted")
RetryForever(c) ==
  /\ RequestStep(c, [req[c] EXCEPT !.pc = "sleep", !.attempt = 0])
  /\ UNCHANGED breakerVars

(* A retryable status or error: pause, or give up after the last attempt.  *)
Retry(c) ==
  \/ /\ req[c].attempt < MaxRetries
     /\ RequestStep(c, [req[c] EXCEPT !.pc = "sleep"])
     /\ UNCHANGED breakerVars
  \/ req[c].attempt = MaxRetries /\ Fail(c, "exhausted")

(* createAuthHeaders is through, with a token or, if the provider failed,  *)
(* without one: the request is sent.  A URN that names no agent, say, is   *)
(* an error that is retried.  Nothing ends the wait for the provider.      *)
AuthSettles(c) ==
  /\ req[c].pc = "auth"
  /\ \/ RequestStep(c, [req[c] EXCEPT !.pc = "fetch"]) /\ UNCHANGED breakerVars
     \/ call[c] = "pending" /\ Retry(c)

(* fetch settles: with an answer that is read as it is or has a body to    *)
(* parse, with a status to retry or a network error, with 401 or 403, or   *)
(* because the timer aborts it, or did before it was sent.  Only time-outs *)
(* and authentication errors are not retried.  A sound call meets a        *)
(* service that answers.                                                   *)
FetchSettles(c) ==
  /\ req[c].pc = "fetch"
  /\ \/ Return(c)
     \/ RequestStep(c, [req[c] EXCEPT !.pc = "body"]) /\ UNCHANGED breakerVars
     \/ call[c] = "pending" /\ Retry(c)
     \/ Fail(c, "auth")
     \/ Fail(c, "timeout")

(* Mutant: the answer is returned past the breaker.                        *)
BodySettlesUnreported(c) ==
  /\ req[c].pc = "body"
  /\ Ended(c, "ok")
  /\ UNCHANGED breakerVars

(* A body that does not parse is an error like any other: it is retried.   *)
BodySettles(c) ==
  /\ req[c].pc = "body"
  /\ \/ Return(c)
     \/ call[c] = "pending" /\ Retry(c)

SleepEnds(c) ==
  /\ req[c].pc = "sleep"
  /\ RequestStep(c, [req[c] EXCEPT !.pc = "auth", !.attempt = @ + 1])
  /\ UNCHANGED breakerVars

-----------------------------------------------------------------------------
Continue(c) == AuthSettles(c) \/ FetchSettles(c) \/ BodySettles(c) \/ SleepEnds(c)

Elsewhere == (Breaker!Reset \/ Breaker!Tick \/ Breaker!Recover) /\ UNCHANGED req

Next == (\E c \in Callers : Begin(c) \/ Continue(c)) \/ Elsewhere

Spec == Init /\ [][Next]_vars

(* Callers go on calling, a fetch settles at the latest by its timer,      *)
(* pauses end, time passes.  Nothing makes a token or a body arrive: they  *)
(* do if the services have recovered.                                      *)
Driven(c) ==
  \/ Begin(c) \/ FetchSettles(c) \/ SleepEnds(c)
  \/ healthy /\ (AuthSettles(c) \/ BodySettles(c))

FairSpec ==
  /\ Spec
  /\ \A c \in Callers : WF_vars(Driven(c))
  /\ WF_vars(Breaker!Tick /\ UNCHANGED req)

-----------------------------------------------------------------------------
(* Properties.                                                             *)

(* Every variable holds values of the shape the code gives it, and a       *)
(* request is under way exactly while its breaker call is.                 *)
TypeOK ==
  /\ Breaker!TypeOK
  /\ req \in [Callers -> Request]
  /\ \A c \in Callers : req[c].pc # "idle" <=> Breaker!Running(c)

(* A request is one call of the breaker, which it reports to exactly once  *)
(* whatever its fetches met.                                               *)
ReportsOnce == Breaker!Spec

TripsOnThrownErrors == Breaker!TripsOnThrownErrors
OpenForTheWholeTimeout == Breaker!OpenForTheWholeTimeout
Recovers == Breaker!Recovers

(* Every request ends, with an answer or an error, however often it is     *)
(* retried, unless it waits for ever for a token or a body, which no timer *)
(* ends.                                                                   *)
EveryRequestSettles ==
  \A c \in Callers :
    []<>(req[c].pc \notin {"auth", "body"} \/ healthy) =>
      (req[c].pc # "idle" ~> req[c].pc = "idle")
=============================================================================
