---------------------------- MODULE RegistryServer ----------------------------
(***************************************************************************)
(* registry-api.js with the two registries a server creates by default:    *)
(* its own (this.registry) and the one of its discovery service, which is  *)
(* where every request goes.  Both keep their index in memory and write it *)
(* to the same index.json, at intervals and when the server stops.         *)
(*                                                                         *)
(* Handlers run between two awaits of file or network I/O; promises that   *)
(* are settled already continue at once.  Agents are of one domain.        *)
(***************************************************************************)
EXTENDS Naturals, FiniteSets, Sequences, SequencesExt

CONSTANTS
  Agents,       (* urns                                                    *)
  Registrants,  (* registrations that may be under way together            *)
  MaxAgents     (* config.maxAgents                                        *)

ASSUME ServerAssumptions ==
  /\ MaxAgents \in Nat
  /\ IsFiniteSet(Agents) /\ IsFiniteSet(Registrants) /\ Registrants # {}

VARIABLES
  server,       (* "down", "up", or how far stop() has come                *)
  mem,          (* mem[r]: the indexes and statistics of registry r        *)
  file,         (* index.json                                              *)
  write,        (* write[w]: the call of writeFile that w waits for        *)
  registration, (* registration[c]: the agent c registers, if any          *)
  cache,        (* the discovery service's answers, per kind of query      *)
  probe,        (* the query with includeHealth that waits for its fetches *)
  registered    (* the agents whose clients were told "registered" by a    *)
                (* server not yet told to stop, since the last crash       *)

serverVars == <<server, mem, file, write, registration, cache, probe, registered>>

Registries == {"own", "service"}
Writers == [of : Registries, at : {"interval", "stop"}]
Queries == {"plain", "health"}

(* index, the list of the domain in domainIndex (an agent may be listed    *)
(* more than once) and stats.totalAgents.                                  *)
Index == [index : SUBSET Agents, listed : Seq(Agents), total : Nat]
Empty == [index |-> {}, listed |-> << >>, total |-> 0]

Listed(r) == ToSet(mem[r].listed)

(* What index.json holds: not there, not JSON, or an index.                *)
Missing == [is |-> "missing", what |-> Empty]
Torn == [is |-> "torn", what |-> Empty]
Saved(x) == [is |-> "saved", what |-> x]

NoWrite == [on |-> FALSE, what |-> Empty, mixed |-> FALSE]
NoCall == [pc |-> "idle", agent |-> "none"]
NoAnswer == [held |-> FALSE, agents |-> {}]
Answer(agents) == [held |-> TRUE, agents |-> agents]

ServerInit ==
  /\ server = "down"
  /\ mem = [r \in Registries |-> Empty]
  /\ file = Missing
  /\ write = [w \in Writers |-> NoWrite]
  /\ registration = [c \in Registrants |-> NoCall]
  /\ cache = [q \in Queries |-> NoAnswer]
  /\ probe = NoAnswer
  /\ registered = {}

-----------------------------------------------------------------------------
(* URNRegistry: registerAgent.                                             *)

Storing == {c \in Registrants : registration[c].pc = "store"}

(* Mutant: the capacity is not checked.                                    *)
RegisterUnchecked(c, a) ==
  /\ server = "up" /\ registration[c].pc = "idle"
  /\ a \notin mem["service"].index
  /\ registration' = [registration EXCEPT ![c] = [pc |-> "store", agent |-> a]]
  /\ UNCHANGED <<server, mem, file, write, cache, probe, registered>>

(* The checks, and the agent's file begins to be written.  A request that  *)
(* is refused changes nothing.                                             *)
Register(c, a) ==
  /\ server = "up" /\ registration[c].pc = "idle"
  /\ a \notin mem["service"].index
  /\ mem["service"].total < MaxAgents
  /\ registration' = [registration EXCEPT ![c] = [pc |-> "store", agent |-> a]]
  /\ UNCHANGED <<server, mem, file, write, cache, probe, registered>>

(* Mutant: a list holds an agent once, but each registration is counted.   *)
UpdatedOnce(x, a) == [index |-> x.index \cup {a}, total |-> x.total + 1,
                      listed |-> IF a \in ToSet(x.listed) THEN x.listed ELSE Append(x.listed, a)]

(* _updateIndexes and _updateStats.                                        *)
Updated(x, a) == [index |-> x.index \cup {a},
                  listed |-> Append(x.listed, a), total |-> x.total + 1]

Told(c) == IF server = "up" THEN {registration[c].agent} ELSE {}

(* Mutant: the cache is not cleared.                                       *)
StoredKeepingCache(c) ==
  /\ registration[c].pc = "store"
  /\ mem' = [mem EXCEPT !["service"] = Updated(@, registration[c].agent)]
  /\ registered' = registered \cup Told(c)
  /\ registration' = [registration EXCEPT ![c] = NoCall]
  /\ UNCHANGED <<server, file, write, cache, probe>>

(* The agent's file is written, and the discovery service clears its cache; *)
(* or the file cannot be written and the client is told so.                *)
Stored(c) ==
  /\ registration[c].pc = "store"
  /\ \/ /\ mem' = [mem EXCEPT !["service"] = Updated(@, registration[c].agent)]
        /\ cache' = [q \in Queries |-> NoAnswer]
        /\ registered' = registered \cup Told(c)
     \/ UNCHANGED <<mem, cache, registered>>
  /\ registration' = [registration EXCEPT ![c] = NoCall]
  /\ UNCHANGED <<server, file, write, probe>>

-----------------------------------------------------------------------------
(* URNRegistry: _saveIndex.  writeFile truncates the file, then writes.    *)

Writing == {w \in Writers : write[w].on}
Writer(r, at) == [of |-> r, at |-> at]

(* A write that overlaps another one may leave any mixture of the two.     *)
Began(writes, w) ==
  LET others == {v \in Writers : writes[v].on} IN
  [v \in Writers |->
    [on |-> v = w \/ writes[v].on,
     what |-> IF v = w THEN mem[w.of] ELSE writes[v].what,
     mixed |-> IF v = w THEN others # {} ELSE v \in others \/ writes[v].mixed]]

Left(w) == IF write[w].mixed THEN {Saved(write[w].what), Torn, file}
           ELSE {Saved(write[w].what)}

WriteEnded(w) == [write EXCEPT ![w] = NoWrite]

(* The interval of a registry runs until that registry shuts down.  A save *)
(* does not last longer than the interval.                                 *)
IntervalRuns(r) == server = "up" \/ (server = "closing" /\ r = "own")

SaveBegins(r) ==
  /\ IntervalRuns(r)
  /\ ~write[Writer(r, "interval")].on
  /\ write' = Began(write, Writer(r, "interval"))
  /\ file' = Torn
  /\ UNCHANGED <<server, mem, registration, cache, probe, registered>>

SaveEnds(r) ==
  /\ write[Writer(r, "interval")].on
  /\ file' \in Left(Writer(r, "interval"))
  /\ write' = WriteEnded(Writer(r, "interval"))
  /\ UNCHANGED <<server, mem, registration, cache, probe, registered>>

-----------------------------------------------------------------------------
(* AgentDiscoveryService: discoverAgents.                                  *)

(* _getAllAgents: the agents of every domain, each once.                   *)
Found == Listed("service")

(* A query without health waits for nothing between looking for the agents *)
(* and caching the answer.                                                 *)
PlainQuery ==
  /\ server = "up"
  /\ ~cache["plain"].held
  /\ cache' = [cache EXCEPT !["plain"] = Answer(Found)]
  /\ UNCHANGED <<server, mem, file, write, registration, probe, registered>>

(* One with health fetches the health of each agent that has an endpoint.  *)
HealthQuery ==
  /\ server = "up"
  /\ ~cache["health"].held
  /\ \/ /\ ~probe.held /\ Found # {}
        /\ probe' = Answer(Found)
        /\ UNCHANGED cache
     \/ /\ cache' = [cache EXCEPT !["health"] = Answer(Found)]
        /\ UNCHANGED probe
  /\ UNCHANGED <<server, mem, file, write, registration, registered>>

HealthFetched ==
  /\ probe.held
  /\ cache' = [cache EXCEPT !["health"] = probe]
  /\ probe' = NoAnswer
  /\ UNCHANGED <<server, mem, file, write, registration, registered>>

(* Mutant: the age of an answer is not looked at.                          *)
ExpiresNever(q) == cache[q].held /\ UNCHANGED serverVars

(* An answer older than cacheTtl counts as none.                           *)
Expires(q) ==
  /\ cache[q].held
  /\ cache' = [cache EXCEPT ![q] = NoAnswer]
  /\ UNCHANGED <<server, mem, file, write, registration, probe, registered>>

-----------------------------------------------------------------------------
(* RegistryAPIServer: start and stop; the process.                         *)

(* initialize of both registries: _loadIndex.                              *)
Loaded == [r \in Registries |-> file.what]

Start ==
  /\ server = "down"
  /\ file # Torn
  /\ server' = "up"
  /\ mem' = Loaded
  /\ UNCHANGED <<file, write, registration, cache, probe, registered>>

(* A file that is not JSON fails every start.                              *)
StartFails == server = "down" /\ file = Torn /\ UNCHANGED serverVars

(* The discovery service shuts down first: its interval is cleared and its *)
(* index saved.                                                            *)
Stop ==
  /\ server = "up"
  /\ server' = "closing"
  /\ write' = Began(write, Writer("service", "stop"))
  /\ file' = Torn
  /\ UNCHANGED <<mem, registration, cache, probe, registered>>

(* Then its cache is cleared, and the server's own registry shuts down.    *)
ServiceStopped ==
  /\ server = "closing"
  /\ server' = "ending"
  /\ write' = Began(WriteEnded(Writer("service", "stop")), Writer("own", "stop"))
  /\ file' = Torn
  /\ cache' = [q \in Queries |-> NoAnswer]
  /\ UNCHANGED <<mem, registration, probe, registered>>

Stopped ==
  /\ server = "ending"
  /\ server' = "stopped"
  /\ file' \in Left(Writer("own", "stop"))
  /\ write' = WriteEnded(Writer("own", "stop"))
  /\ UNCHANGED <<mem, registration, cache, probe, registered>>

Gone ==
  /\ server' = "down"
  /\ mem' = [r \in Registries |-> Empty]
  /\ write' = [w \in Writers |-> NoWrite]
  /\ registration' = [c \in Registrants |-> NoCall]
  /\ cache' = [q \in Queries |-> NoAnswer]
  /\ probe' = NoAnswer
  /\ UNCHANGED file

(* The process ends once nothing is under way.                             *)
Exit ==
  /\ server = "stopped"
  /\ Writing = {} /\ Storing = {} /\ ~probe.held
  /\ Gone
  /\ UNCHANGED registered

Crash == server # "down" /\ Gone /\ registered' = {}

-----------------------------------------------------------------------------
ServerNext ==
  \/ Start \/ StartFails \/ Stop \/ ServiceStopped \/ Stopped \/ Exit \/ Crash
  \/ \E c \in Registrants : Stored(c) \/ \E a \in Agents : Register(c, a)
  \/ \E r \in Registries : SaveBegins(r) \/ SaveEnds(r)
  \/ PlainQuery \/ HealthQuery \/ HealthFetched
  \/ \E q \in Queries : Expires(q)

ServerSpec == ServerInit /\ [][ServerNext]_serverVars

(* Answers grow older.                                                     *)
FairServerSpec == ServerSpec /\ WF_serverVars(Expires("health"))

-----------------------------------------------------------------------------
(* Properties.                                                             *)

(* Every variable holds values of the shape the code gives it; stop()      *)
(* waits for the save that it began.                                       *)
ServerTypeOK ==
  /\ server \in {"down", "up", "closing", "ending", "stopped"}
  /\ mem \in [Registries -> Index]
  /\ file \in [is : {"missing", "torn", "saved"}, what : Index]
  /\ write \in [Writers -> [on : BOOLEAN, what : Index, mixed : BOOLEAN]]
  /\ \A c \in Registrants : registration[c] \in [pc : {"store"}, agent : Agents] \cup {NoCall}
  /\ cache \in [Queries -> [held : BOOLEAN, agents : SUBSET Agents]]
  /\ probe \in [held : BOOLEAN, agents : SUBSET Agents]
  /\ registered \subseteq Agents
  /\ write[Writer("service", "stop")].on <=> server = "closing"
  /\ write[Writer("own", "stop")].on <=> server = "ending"

(* The statistics count what the list holds and every listed agent can be  *)
(* looked up, through racing registrations, saves, crashes and restarts.   *)
Agree(x) ==
  /\ x.index = ToSet(x.listed)
  /\ x.total = Len(x.listed)
CountsAgree == (\A r \in Registries : Agree(mem[r])) /\ Agree(file.what)

(* The capacity is exceeded by racing registrations only, each by one, and *)
(* a restart does not let it grow further.                                 *)
OvershootIsRacing ==
  \A r \in Registries : mem[r].total + Cardinality(Storing) < MaxAgents + Cardinality(Registrants)

(* A cached answer without health is what a new query would find.          *)
PlainAnswersFresh == cache["plain"].held => cache["plain"].agents = Found

(* An answer with health that misses registered agents is not given for    *)
(* ever, though it may be cached after the registration cleared the cache. *)
HealthIsStale == cache["health"].held /\ ~(Found \subseteq cache["health"].agents)
FreshnessRegained == HealthIsStale ~> ~HealthIsStale

-----------------------------------------------------------------------------
(* A claim of the sources that the code does not keep.                     *)

(* urn-registry.js:4-5, "Provides persistent storage for agent metadata    *)
(* and capabilities with: File-based persistence for agent data": unless   *)
(* the process crashes, a server that is up knows every agent whose client *)
(* was told that it is registered before an orderly stop was asked for.    *)
RegisteredSurvivesRestart == server = "up" => registered \subseteq mem["service"].index
=============================================================================
