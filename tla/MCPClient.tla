------------------------------ MODULE MCPClient ------------------------------
(***************************************************************************)
(* mcp-client.js: one client, the child processes it spawns, the promises  *)
(* that wait for their answers, the heartbeat interval and the reconnect   *)
(* timers.  Callbacks of the event loop are atomic; the continuations of   *)
(* the promises they reject run before the next callback.                  *)
(*                                                                         *)
(* Of the children only the current one (this.process) is named; those it  *)
(* replaced are kept as "some older child lives", and the reconnect timers *)
(* set before the latest as "some older timer is armed".  So there is no   *)
(* bound on spawns or reconnections, only on concurrent promises.          *)
(***************************************************************************)
EXTENDS Naturals, FiniteSets

CONSTANTS
  User,           (* the user's open call                                  *)
  Reconnects,     (* open calls of reconnect timers                        *)
  Tools,          (* executeTool calls                                     *)
  Pings,          (* heartbeats waiting for their answer                   *)
  MaxReconnects,  (* config.maxRetries: reconnections                      *)
  OpenRetries     (* the retry policy's maxRetries within one open         *)

Openers == {User} \cup Reconnects
Requesters == Openers \cup Tools \cup Pings

ASSUME MCPAssumptions ==
  /\ MaxReconnects \in Nat /\ OpenRetries \in Nat
  /\ User \notin Reconnects
  /\ Openers \cap (Tools \cup Pings) = {} /\ Tools \cap Pings = {}

VARIABLES
  connected, shutdown, reconnectAttempts,
  process,        (* this.process: "none" (null), "alive" or "dead"        *)
  older,          (* does a child that this.process replaced still live?   *)
  heartbeat,      (* is the heartbeat interval running?                    *)
  reconnect,      (* the armed reconnect timers: the latest, older ones    *)
  opener,         (* opener[o]: the open call o is in                      *)
  pending,        (* pending[r]: where r's request in pendingRequests went *)
  lost,           (* pings whose rejection the heartbeat has yet to handle *)
  deadline        (* deadline[t]: executeTool's timer                      *)

mcpVars == <<connected, shutdown, reconnectAttempts, process, older, heartbeat,
          reconnect, opener, pending, lost, deadline>>

(*   starting   _connect waits for the child, spawned or not               *)
(*   init       the initialize request is pending                          *)
(*   failed     the attempt was rejected, the retry policy runs next       *)
(*   sleep      the pause before the next attempt                          *)
Opening == [ pc : {"idle", "starting", "init", "failed", "sleep"},
             attempt : 0 .. OpenRetries, spawned : BOOLEAN ]
NotOpening == [pc |-> "idle", attempt |-> 0, spawned |-> FALSE]

MCPInit ==
  /\ connected = FALSE /\ shutdown = FALSE /\ reconnectAttempts = 0
  /\ process = "none" /\ older = FALSE
  /\ heartbeat = FALSE
  /\ reconnect = [latest |-> FALSE, older |-> FALSE]
  /\ opener = [o \in Openers |-> NotOpening]
  /\ pending = [r \in Requesters |-> "none"]
  /\ lost = {}
  /\ deadline = [t \in Tools |-> "off"]

(* No rejected promise has its continuation still to run.                  *)
NoMicrotask == lost = {} /\ \A o \in Openers : opener[o].pc # "failed"

-----------------------------------------------------------------------------
(* Rejecting, disconnecting, cleaning up.                                  *)

Waiting(r) == pending[r] # "none"

(* Every pending request is rejected.  Tool calls just end.                *)
RejectAll(unhandled) ==
  /\ pending' = [r \in Requesters |-> "none"]
  /\ lost' = unhandled \cup {p \in Pings : Waiting(p)}
  /\ deadline' = [t \in Tools |-> "off"]

Rejected == [o \in Openers |->
  IF Waiting(o) THEN [opener[o] EXCEPT !.pc = "failed"] ELSE opener[o]]

Reconnect ==
  \/ /\ reconnectAttempts < MaxReconnects
     /\ reconnectAttempts' = reconnectAttempts + 1
     /\ reconnect' = [latest |-> TRUE, older |-> reconnect.older \/ reconnect.latest]
  \/ /\ reconnectAttempts = MaxReconnects
     /\ UNCHANGED <<reconnectAttempts, reconnect>>

(* Mutants: pending requests are forgotten, not rejected; the shutdown is  *)
(* not looked at.                                                          *)
DisconnectWithoutReject(unhandled) ==
  /\ lost' = unhandled
  /\ UNCHANGED <<opener, pending, deadline>>
  /\ \/ shutdown /\ UNCHANGED <<connected, reconnectAttempts, reconnect>>
     \/ ~shutdown /\ connected' = FALSE /\ Reconnect
DisconnectAfterShutdown(unhandled) ==
  /\ connected' = FALSE
  /\ RejectAll(unhandled)
  /\ opener' = Rejected
  /\ Reconnect

(* _handleDisconnection; unhandled are the pings still to be handled.      *)
HandleDisconnection(unhandled) ==
  \/ /\ shutdown
     /\ lost' = unhandled
     /\ UNCHANGED <<connected, reconnectAttempts, reconnect, opener, pending, deadline>>
  \/ /\ ~shutdown
     /\ connected' = FALSE
     /\ RejectAll(unhandled)
     /\ opener' = Rejected
     /\ Reconnect

(* Mutant: the client still calls itself connected.                        *)
CleanupStayingConnected(timers) ==
  /\ shutdown' = TRUE
  /\ heartbeat' = FALSE
  /\ reconnect' = [timers EXCEPT !.latest = FALSE]
  /\ RejectAll(lost)
  /\ process' = "none"
  /\ UNCHANGED <<connected, reconnectAttempts, older>>

(* _cleanup: it clears the latest timer and kills the current child only.  *)
Cleanup(timers) ==
  /\ shutdown' = TRUE
  /\ heartbeat' = FALSE
  /\ reconnect' = [timers EXCEPT !.latest = FALSE]
  /\ RejectAll(lost)
  /\ process' = "none"
  /\ connected' = FALSE
  /\ UNCHANGED <<reconnectAttempts, older>>

-----------------------------------------------------------------------------
(* open.                                                                   *)

(* _connect: the child is spawned, or will report an error.  One that      *)
(* lives is replaced, not killed.                                          *)
Spawn(o, attempt) ==
  /\ process' \in {"alive", "dead"}
  /\ older' = (older \/ process = "alive")
  /\ pending' = [r \in Requesters |-> IF pending[r] = "current" THEN "old" ELSE pending[r]]
  /\ opener' = [opener EXCEPT ![o] =
       [pc |-> "starting", attempt |-> attempt, spawned |-> process' = "alive"]]
  /\ UNCHANGED <<connected, shutdown, reconnectAttempts, heartbeat, lost, deadline>>

(* timers are those that are left armed.  A client that is connected throws *)
(* at once; otherwise the breaker admits the call, or refuses it (see      *)
(* CircuitBreaker for when), which cleans up.                              *)
Open(o, timers) ==
  /\ NoMicrotask
  /\ opener[o].pc = "idle"
  /\ \/ /\ connected
        /\ reconnect' = timers
        /\ UNCHANGED <<connected, shutdown, reconnectAttempts, process, older,
                       heartbeat, opener, pending, lost, deadline>>
     \/ ~connected /\ Spawn(o, 0) /\ reconnect' = timers
     \/ ~connected /\ Cleanup(timers) /\ opener' = Rejected

UserOpens == Open(User, reconnect)

(* A reconnect timer fires.                                                *)
ReconnectFires(o) ==
  \/ reconnect.latest /\ Open(o, [reconnect EXCEPT !.latest = FALSE])
  \/ reconnect.older /\ \E more \in BOOLEAN : Open(o, [reconnect EXCEPT !.older = more])

(* A child that could not be spawned has reported its error; for any other *)
(* a hundred milliseconds have passed, and initialize is sent to what      *)
(* this.process is by now.                                                 *)
Started(o) ==
  /\ NoMicrotask
  /\ opener[o].pc = "starting"
  /\ \/ /\ ~opener[o].spawned \/ process = "none"
        /\ opener' = [opener EXCEPT ![o].pc = "failed"]
        /\ UNCHANGED pending
     \/ /\ opener[o].spawned /\ process # "none"
        /\ opener' = [opener EXCEPT ![o].pc = "init"]
        /\ pending' = [pending EXCEPT ![o] = IF process = "alive" THEN "current" ELSE "gone"]
  /\ UNCHANGED <<connected, shutdown, reconnectAttempts, process, older, heartbeat,
                 reconnect, lost, deadline>>

(* The retry policy: pause, or give up and clean up.                       *)
AttemptFailed(o) ==
  /\ opener[o].pc = "failed"
  /\ \/ /\ opener[o].attempt < OpenRetries
        /\ opener' = [opener EXCEPT ![o].pc = "sleep"]
        /\ UNCHANGED <<connected, shutdown, reconnectAttempts, process, older,
                       heartbeat, reconnect, pending, lost, deadline>>
     \/ /\ opener[o].attempt = OpenRetries
        /\ Cleanup(reconnect)
        /\ opener' = [Rejected EXCEPT ![o] = NotOpening]

PauseEnds(o) ==
  /\ NoMicrotask
  /\ opener[o].pc = "sleep"
  /\ Spawn(o, opener[o].attempt + 1)
  /\ UNCHANGED reconnect

(* initialize is answered: nothing else is looked at before the client     *)
(* calls itself connected.                                                 *)
Connected(o) ==
  /\ connected' = TRUE
  /\ reconnectAttempts' = 0
  /\ heartbeat' = TRUE
  /\ opener' = [opener EXCEPT ![o] = NotOpening]

-----------------------------------------------------------------------------
(* close, executeTool.                                                     *)

(* Closing a client that is not connected does nothing.                    *)
Close ==
  /\ NoMicrotask
  /\ \/ connected /\ Cleanup(reconnect) /\ opener' = Rejected
     \/ ~connected /\ UNCHANGED mcpVars

Sent == CASE process = "alive" -> "current"
          [] process = "dead"  -> "gone"
          [] OTHER             -> "none"

ExecuteTool(t) ==
  /\ NoMicrotask
  /\ connected /\ ~Waiting(t)
  /\ pending' = [pending EXCEPT ![t] = Sent]
  /\ deadline' = [deadline EXCEPT ![t] = IF Sent = "none" THEN "off" ELSE "armed"]
  /\ UNCHANGED <<connected, shutdown, reconnectAttempts, process, older, heartbeat,
                 reconnect, opener, lost>>

(* The map is keyed by the number of the message; the timer of a tool call *)
(* and its abort handler look its request id up.                           *)
Key(r) == [number |-> r]
FoundPending(requestId) == \E r \in Requesters : Waiting(r) /\ Key(r) = requestId

ToolTimesOut(t) ==
  /\ NoMicrotask
  /\ deadline[t] = "armed"
  /\ \/ /\ FoundPending([reqId |-> t])
        /\ pending' = [pending EXCEPT ![t] = "none"]
        /\ deadline' = [deadline EXCEPT ![t] = "off"]
     \/ /\ ~FoundPending([reqId |-> t])
        /\ deadline' = [deadline EXCEPT ![t] = "fired"]
        /\ UNCHANGED pending
  /\ UNCHANGED <<connected, shutdown, reconnectAttempts, process, older, heartbeat,
                 reconnect, opener, lost>>

-----------------------------------------------------------------------------
(* Timers.                                                                 *)

(* The interval goes on while the client is not connected: listTools then  *)
(* throws, which counts as another disconnection.                          *)
Heartbeat ==
  /\ NoMicrotask
  /\ heartbeat
  /\ \/ /\ connected
        /\ \E p \in Pings :
             /\ ~Waiting(p)
             /\ pending' = [pending EXCEPT ![p] = Sent]
             /\ lost' = IF Sent = "none" THEN {p} ELSE {}
        /\ UNCHANGED <<connected, reconnectAttempts, reconnect, opener, deadline>>
     \/ ~connected /\ HandleDisconnection({})
  /\ UNCHANGED <<shutdown, process, older, heartbeat>>

PingFailed(p) ==
  /\ p \in lost
  /\ HandleDisconnection(lost \ {p})
  /\ UNCHANGED <<shutdown, process, older, heartbeat>>

-----------------------------------------------------------------------------
(* Children.                                                               *)

Answers(r) ==
  /\ NoMicrotask
  /\ \/ pending[r] = "current" /\ process = "alive"
     \/ pending[r] = "old" /\ older
  /\ pending' = [pending EXCEPT ![r] = "none"]
  /\ \/ /\ r \in Openers
        /\ \/ Connected(r)
           \/ /\ opener' = [opener EXCEPT ![r].pc = "failed"]
              /\ UNCHANGED <<connected, reconnectAttempts, heartbeat>>
        /\ UNCHANGED <<lost, deadline>>
     \/ /\ r \in Tools
        /\ deadline' = [deadline EXCEPT ![r] = "off"]
        /\ UNCHANGED <<connected, reconnectAttempts, heartbeat, opener, lost>>
     \/ /\ r \in Pings
        /\ lost' \in {{}, {r}}
        /\ UNCHANGED <<connected, reconnectAttempts, heartbeat, opener, deadline>>
  /\ UNCHANGED <<shutdown, process, older, reconnect>>

(* A child exits.  Whichever it is, the client takes it for the connection *)
(* unless it has ever been shut down: then nobody is told.                 *)
ChildExits ==
  /\ NoMicrotask
  /\ \/ process = "alive" /\ process' = "dead" /\ UNCHANGED older
     \/ older /\ older' \in BOOLEAN /\ UNCHANGED process
  /\ \/ /\ ~shutdown
        /\ HandleDisconnection({})
     \/ /\ shutdown
        /\ \E gone \in SUBSET {r \in Requesters : pending[r] = "old"} :
             /\ process' # process => gone = {}
             /\ ~older' => {r \in Requesters : pending[r] = "old"} = gone
             /\ pending' = [r \in Requesters |->
                  IF r \in gone \/ (pending[r] = "current" /\ process' = "dead")
                  THEN "gone" ELSE pending[r]]
        /\ UNCHANGED <<connected, reconnectAttempts, reconnect, opener, lost, deadline>>
  /\ UNCHANGED <<shutdown, heartbeat>>

-----------------------------------------------------------------------------
ContinueOpen(o) == Started(o) \/ AttemptFailed(o) \/ PauseEnds(o)

MCPNext ==
  \/ UserOpens \/ Close \/ Heartbeat \/ ChildExits
  \/ \E o \in Openers : ContinueOpen(o)
  \/ \E o \in Reconnects : ReconnectFires(o)
  \/ \E t \in Tools : ExecuteTool(t) \/ ToolTimesOut(t)
  \/ \E p \in Pings : PingFailed(p)
  \/ \E r \in Requesters : Answers(r)

MCPSpec == MCPInit /\ [][MCPNext]_mcpVars

(* The event loop runs continuations and fires timers that are due.        *)
FairMCPSpec ==
  /\ MCPSpec
  /\ \A o \in Openers : WF_mcpVars(ContinueOpen(o))
  /\ \A p \in Pings : WF_mcpVars(PingFailed(p))
  /\ \A t \in Tools : WF_mcpVars(ToolTimesOut(t))

-----------------------------------------------------------------------------
(* Properties.                                                             *)

(* Every variable holds values of the shape the code gives it, and an open *)
(* call is initializing exactly while its request is pending.              *)
MCPTypeOK ==
  /\ connected \in BOOLEAN /\ shutdown \in BOOLEAN
  /\ reconnectAttempts \in 0 .. MaxReconnects
  /\ process \in {"none", "alive", "dead"} /\ older \in BOOLEAN
  /\ heartbeat \in BOOLEAN
  /\ reconnect \in [latest : BOOLEAN, older : BOOLEAN]
  /\ opener \in [Openers -> Opening]
  /\ pending \in [Requesters -> {"none", "current", "old", "gone"}]
  /\ lost \subseteq Pings
  /\ deadline \in [Tools -> {"off", "armed", "fired"}]
  /\ \A o \in Openers : opener[o].pc = "init" <=> Waiting(o)

(* No tool call and no ping outlives the connection it was made on: a lost *)
(* or closed connection rejects them all.                                  *)
NothingWaitsDisconnected ==
  \A r \in Tools \cup Pings : Waiting(r) => connected

(* A connected client has a child to write to and a heartbeat that watches *)
(* it, whichever of several racing open calls connected it.                *)
ConnectedIsMonitored == connected => process # "none" /\ heartbeat

(* Once closed, or once an open has failed, the client schedules no        *)
(* reconnection: what older timers still do is all that can follow.        *)
NoReconnectAfterShutdown ==
  [][shutdown => (reconnect'.latest => reconnect.latest)
                 /\ (reconnect'.older => reconnect.older)]_mcpVars

-----------------------------------------------------------------------------
(* Claims of the sources that the code does not keep.                      *)

(* mcp-client.js:7, "Tool execution with timeout and cancellation": every  *)
(* tool call ends, at the latest by its timer.                             *)
EveryToolCallEnds == \A t \in Tools : Waiting(t) ~> ~Waiting(t)
=============================================================================
