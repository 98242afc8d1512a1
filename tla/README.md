# OSSP Workbench: formal models

TLA+ models, TLC checks and TLAPS proofs for the OSSP Workbench
(`src/`), a JavaScript toolchain around protocol manifests: it parses and
validates them, moves them through a review lifecycle, keeps a catalog and a
dependency graph of the registered ones, generates code and documents from
them, and runs agents, tools and workflows over two client protocols (A2A over
HTTP, MCP over a child process).

Everything here runs on Node.js.  A process has one event loop: code between
two `await`s is atomic, everything else interleaves.  The base directories are
shared by processes, the in-memory stores are not.

## 1. Inventory

### 1.1 Components

| Component | Where | State | Operations | Talks to |
|---|---|---|---|---|
| Registration pipeline | `packages/protocols/core/registration/` (`registration-pipeline.js`, `optimistic-lock.js`, `file-persistence.js`, `event-sourcing.js`, `atomic-writer.js`, `state-machine-definition.js`) | per manifest: `state.json` (version, state) and `events.log` | `initialize`, `submitForReview`, `approve`, `reject`, `register`, `revertToDraft`, `getCurrentState`; compare-and-swap with retries; recovery by replay; deletion | the file system; called by the orchestrator |
| Registration orchestrator, registry writer | `registration-orchestrator.js`, `registry-writer.js`, `adapters/catalog-index.js` | the catalog and graph of the process, calls under way | `register`, `unregister`, `recoverFromEvents` and the pipeline's operations | pipeline, catalog, graph, event log |
| URN catalog index | `packages/protocols/src/catalog/` | primary map, secondary indexes (namespace, tag, owner, ...), dependency and consumer lists | `add`, `remove`, `load`, `clear`, queries, build orders, cycle search, paths | orchestrator, builder |
| Protocol graph | `packages/protocols/core/graph/` | nodes, edges, urn/kind/authority indexes, LRU cache, batch event log | `addNode`, `removeNode`, `addEdge`, `removeEdge`, batches and their rollback, traversals, impact and PII analyses | registry writer, visualization |
| Overrides | `packages/protocols/core/overrides/` | the rules loaded, indexed by type; a cache of matches | loading, clearing, matching | importers |
| Governance, diff, parsers, cross-validation, protocol manifests | `packages/protocols/{core,diff,parsers,validation,src}` | none between calls (a reference cache in the parser) | conversions and comparisons | each other, command line |
| Circuit breaker, retry policies | `packages/runtime/runtime/{circuit-breaker,retry-policies}.js` | breaker state, counters, deadline | `execute`, `reset` | A2A and MCP clients |
| A2A client | `a2a-client.js`, `a2a-auth.js` | per request: attempt, timer | `request` with retries, timeout, authentication | breaker, HTTP |
| MCP client | `mcp-client.js` | connection state, child process, pending requests, heartbeat and reconnect timers, shutdown flag | `open`, `close`, `listTools`, `executeTool`, reconnection | breaker, retry policy, child process |
| URN registry, discovery, resolver | `urn-registry.js`, `agent-discovery-service.js`, `urn-resolver.js` | agents, indexes, index file; result caches | `registerAgent`, queries, persistence; cached discovery | each other, HTTP surfaces |
| HTTP surfaces | `well-known-server.js`, `registry-api.js`, `acm-*.js` | the server's own registry beside the discovery service's | start, stop, routing | registry, discovery |
| MCP server performance layer | `packages/runtime/services/mcp-server/` | batcher and cache maps | batching, caching | MCP server |
| Workflow library | `packages/runtime/workflow-library/` | one execution: step states, attempts, compensation stack | `execute` | agents, tools |
| Workbench orchestrator | `src/workbench/runtime/` | a run's queue of parallel steps, order counter, records | running workflows | agents |
| Workflow definitions, feedback | `packages/runtime/{workflow,feedback}` | manifest review state; progress trackers | transitions, reports | workbench |
| Importers, generators, catalog builder, visualization, command line, viewer, test helpers | `packages/runtime/...`, `src/...`, `cli/` | none that outlives a call | input and output | the rest |

### 1.2 What is hard, and what must hold

* **Pipeline.**  Two files per manifest, written one after the other, by
  callers that read first and write several awaits later.  A read may itself
  write (recovery).  A process may die between any two file operations, within
  an append, or meet a read error that is taken for corruption.  It must hold
  that every stored state has the evidence (reviewer, notes, reason, urn) its
  guards asked for; that versions and lifecycle states move by the table; that
  the log can rebuild the snapshot; that every call ends.
* **Orchestrator.**  One operation over two stores, one on disk and one in
  memory, with no transaction around them.  It must hold that the first owner
  of a urn keeps it, that nothing is catalogued that is not registered, that
  the graph follows the catalog, that every call ends.
* **Catalog and graph.**  Several indexes over one set of entries, under add,
  overwrite, remove and re-add in any order: a query must miss nothing, and
  an index may only be too large for a reason that can be named.  A cache over
  the graph must not outlive a change.  Orders, cycles and paths must be right
  for every graph.
* **Overrides.**  The rule kept of several with one id must not depend on the
  order in which packs are loaded; cached matches must be current.
* **Breaker, A2A, MCP.**  Late answers, timers that race answers, retries
  within retries, child processes that exit at any time, reconnection: every
  request must settle, an open breaker must admit nothing, a closed client must
  stay closed.
* **Registry server.**  Capacity and duplicates are checked before an await and
  used after it; an index file is written in place, at intervals, by two
  registries; the process crashes and restarts; cached answers are computed
  before a registration and stored after it.
* **Workflows.**  Branches fail while others run; steps that completed must be
  undone, the latest first, alone; attempts, pauses and failing compensations
  must come to an end.  Workers of a group share an order counter across awaits.
* **Batcher.**  A batch goes for its size or for its age; nobody must be left
  out.

The `hazards` of `PROJECT.json` name the line each of these bites at and the
properties that cover it.

## 2. Plan

The modules were written in this order, the most important behaviour first.

1. **Pipeline**: `LifecycleTable`, `RegistrationLifecycle` (the abstract
   specification), `RegistrationPipeline`; proofs in
   `RegistrationPipelineProofs`.
2. **Orchestrator**: `RegistrationOrchestrator`, which instantiates the
   pipeline and adds catalog, graph and registry writer; proofs in
   `RegistrationOrchestratorProofs`.
3. **Breaker and A2A client**: `CircuitConfig`, `CircuitBreaker`, `A2AClient`
   composing it; proofs in `CircuitBreakerProofs` and `ServiceProofs`.
4. **MCP client**: `MCPClient`; proofs in `ServiceProofs`, too.
5. **Registry server**: `RegistryServer`; proofs in `ServiceProofs`, too.
6. **Stores with indexes and caches**: `CatalogIndex`, `ProtocolGraph`,
   `OverrideRules`, all three with proofs in `CatalogProofs`; `DependencyGraph`,
   with `DependencyProofs`.
7. **Workflows and the rest**: `WorkflowExecutor` and `WorkbenchRun`, with
   proofs in `WorkflowProofs`; `RequestBatcher`, with proofs in
   `ComponentsProofs`.
8. `MCComponents` checks 3 to 7 in one run, and `ComponentsProofs` shows that a
   behaviour of all of them is one of each.

What the plan has left: a registry used without a server (its lazy
initialization); and the pure comparisons (cross-validation rules, diff
classification), which have no state to go wrong between calls.

## 3. The models

A step of every model is one turn of the event loop: the code from one
suspension to the next.  Data is cut down to what the guards look at; log
wording, timestamps, ids, delays and metrics are left out.

### 3.1 Registration pipeline

`LifecycleTable` is `state-machine-definition.js`: states, events, transition
rows.  `RegistrationPipeline` keeps, per manifest, `snap` (the file
`state.json`: missing, corrupt, or a versioned state) and `log` (the file
`events.log`, kept as the fold `replayEvents` computes over it, plus "a line is
torn"), and per caller the call it is in: where it is suspended and what its
closures hold.  A version-checked transition takes four awaits or more: *load*
(possibly *replay* and *save*, which is recovery), compute, *load* again,
compare, *commit* (rename), *append*.

| Action | Code |
|---|---|
| `Initialize`, `TransitionState`, `GetCurrentState` | the entry points of `registration-pipeline.js` |
| `LoadSnapshot`, `SnapshotUnusable`, `ReplayLog`, `SaveRecovered` | `loadStateWithRecovery`, one await each |
| `Deliver` and its four cases | what the caller does with the state it read: `initialize`, `getCurrentState`, `computeNewState`, the check in `compareAndSwap` with `retryWithBackoff` |
| `Commit`, `AppendEvent` | `writeJsonAtomic`'s rename, `appendEvent` |
| `Abort`, `TearAppend`, `ReadFails`, `LoseSnapshot`, `CorruptSnapshot`, `DeleteManifestState` | rejections and crashes, half-written lines, unreadable files, lost, damaged and deleted files |

`RegistrationLifecycle` is the abstract specification: per manifest a phase and
a version, moved by one atomic step along the table.

### 3.2 Orchestrator

`RegistrationOrchestrator` instantiates the pipeline and adds `job` (a
`register` call's await), `catalog`, `node` and `edges`.  `Register` loads,
checks the urn, calls the pipeline, and in the turn in which that returns runs
`registryWriter.register` up to its first await: the second conflict check, the
catalog entry, the node, placeholders and edges.  The catalog takes any urn that
is not empty, the graph only `WellFormed` ones: what `addNode` and `addEdge`
throw is collected by `_applyGraphUpdates` and goes no further, so
`WriteRegistry` may leave a catalogued manifest without a node, or without some
of its edges.  The history `severed` has the edges that `Unregister` took with
the node they lead to.  `EventLogged` are the
appends that follow, `Throw` the error path, which appends too.  `Unregister`,
`RecoverFromEvents` (which empties both stores) and `Die` (a restart) are the
rest of the interface.  `MCRegistrationOrchestrator` starts the runs with
two approved manifests on disk (`SpecOnDisk`), of which the process may have
registered one: states the pipeline reaches by three or four calls, so that the
bound on calls is spent on the orchestrator.  The theorems are about `Spec`,
which starts with no files.

### 3.3 Circuit breaker and A2A client

`CircuitBreaker` is `circuit-breaker.js`: its state, counters (kept up to their
thresholds, which is all they are compared with) and deadline (kept as the
time left), the calls whose promise is pending, and one history variable,
`thrown`.  A refused call throws within the `try` block and is counted as a
failure (`Reject`).  `A2AClient` instantiates it: a request is one call of the
breaker, and within it attempts with pauses between: each waits for a token
(`auth`), for the headers (`fetch`) and for the body (`body`).  The abort timer
ends only the second wait: before the fetch nobody looks at its signal, after it
the timer is cleared.  `CircuitConfig` holds the constants both share.

### 3.4 MCP client

`MCPClient` is `mcp-client.js`: the connection state, the child named by
`process` and whether a replaced one still lives, the heartbeat, the armed
reconnect timers, the `open` calls under way (the user's and those of reconnect
timers), and `pendingRequests`.  Rejected promises are continued before the
next callback (`NoMicrotask`).  The breaker inside `open` is abstracted to one
that may admit or refuse; `CircuitBreaker` says when it does.

### 3.5 Registry server

`RegistryServer` is a `RegistryAPIServer` as its constructor makes it by
default, with two `URNRegistry` objects: its own and its discovery service's.
Both keep in `mem` their index, the list of their domain (in which an agent
that was registered twice stands twice) and the number of registrations, and
save them to one `file`; requests reach the second only.

| Action | Code |
|---|---|
| `Register`, `Stored` | `registerAgent` before and after its await |
| `SaveBegins`, `SaveEnds` | `_saveIndex` on each registry's interval: `writeFile` truncates, then writes; two that overlap may leave a mixture |
| `PlainQuery`, `HealthQuery`, `HealthFetched`, `Expires` | `discoverAgents` with its cache, without and with an await |
| `Start`, `StartFails`, `Stop`, `ServiceStopped`, `Stopped`, `Exit`, `Crash` | `start` and `stop` of the server, the process |

### 3.6 Workflow executor and workbench run

`WorkflowExecutor` is one `execute` of a definition given as a constant: each
step has a status, a list of steps is under way when its parent runs, and a
step begins when those before it in its list have passed.  Tasks have attempts,
with a time limit if they are `timed` (`_executeWithTimeout` awaits the others
as long as they take), and pauses; `stack` is the compensation stack, `todo`
what is left of it while compensating.  `completed` and `tried` are histories:
the second has, for each compensation that had its turn, the step it is for and
whether it completed, failed or was skipped, as the loop goes on in any case.
A conditional without cases throws (`CasesOf`).
`Entered` are the lists under way: the workflow's, the branches of running
parallel steps, the cases that running conditionals chose.  Nothing in
`validator.js` refuses two steps with one id (line 135 only says that it "will
be caught by validation"); the executor keeps results by id, and the model is
of workflows whose ids are unique (`NestingAssumptions`).
`WorkbenchRun` is a `run` of the workbench orchestrator: units one after the
other, each a group whose steps a few workers take from a queue; a worker reads
the order before the adapter's await and the record is kept after it.

### 3.7 Request batcher

`RequestBatcher` keeps where each request is: waiting under its key, with its
handler running, settled but its batch not, or replaced by another under the
same key.  `ProcessBatch` is reached by size (`AddRequest`) and by age
(`BatchTimerFires`); a handler that throws before it returns a promise rejects
the whole batch.  `Promise.allSettled` has no limit: a handler that never settles
holds the other requests of its batch, too (`Held`).

### 3.8 Catalog index, protocol graph, dependency graph

`CatalogIndex` is the catalog's `add`, `remove`, `load` and `clear` over the
primary index, one index that stands for all those kept in its way (`byLabel`),
the index of personal data and the lists of dependents.  The history variables
`overwritten` and `withdrawn` name the two reasons for which an index may
disagree.  `ProtocolGraph` has nodes, edges, the index by kind and the LRU
cache of answers, a sequence that `MovedLast` and `WithEntry` treat as
`LRUCache.get` and `set` treat their `Map`; what a node reaches is what every
set closed under edges that holds it contains.  `RecoverFromEvents` is the registry writer, which clears the
graph without the class that owns the indexes (`bypassed`).
`DependencyGraph` has no behaviour: its variable is a graph, every graph of the
given size is an initial state, and the algorithms of `catalog/graph.js`,
`graph/tarjan.js` and `graph/traversal.js` (cycle search, build orders,
breadth-first paths, Tarjan's components, the topological sort, distances,
reachability to a depth) are compared with definitions by reachability.
Each is a loop: a function from states to states, which `Repeat` applies until
nothing changes, for at most a given number of rounds.  A depth-first search is
a loop, too: its state is the path of calls it is in and, for each node, the
dependencies it has not gone to yet, so a call that returns finds its own loop
where it left it.  That the rounds suffice is proved.  `MapOrder` is the order
in which the code's `Map` has the artifacts, each once.

### 3.9 Overrides

`OverrideRules` is the loader's `addRule` with precedence of sources and
confidence that decays by month, and the matcher's best match with its cache.
`removeRule` filters by id, and as one rule is kept of each id `Others` takes
that one out.  The matcher's loop is the function `best` over the first *n*
rules of the index of its type.
Scores are integers (tenths and thousandths) where the code has fractions.

### 3.10 The composition

Components 3.3 to 3.9 share no state with the pipeline or each other.
`MCComponents` is their sum: a variable `part`, chosen at the start, says which
component a behaviour is about; only that one moves and the others stay as
they began.  Fairness is each component's own, conjoined with `part`.  So one
run checks them all, and its state space is the sum of theirs, not the
product.  Where components do interact, modules are composed: the orchestrator
instantiates the pipeline, the A2A client the breaker.

## 4. Runs

| Run | Checks | Bounds |
|---|---|---|
| `pipeline_any_interleaving` | `TypeOK`, `ReviewEvidence`, `RegistrationProvenance`, `EveryCallReturns` | 2 callers, 1 manifest id, with and without urn, 4 calls, 1 fault of any kind |
| `pipeline_taking_turns` | `ImplementsLifecycle` | 2 callers, 2 manifests, 5 calls, 1 abort or torn append |
| `pipeline_lost_snapshot` | `ReplayMatchesSnapshot` | 2 callers, 2 reviewers, 6 calls (two approvals in a row need six), 2 losses |
| `orchestrator` | `TypeOK`, `FirstOwnerStays`, `CataloguedIsRegistered`, `GraphFollowsCatalog`, `EveryRegisterReturns` | 2 callers, 2 manifests that claim one urn or of which one has an ill-formed urn, dependencies on an unknown and on an ill-formed urn, 2 calls, with and without the check, unregistration, registry recovery, 2 aborts or restarts |
| `components` | the 28 properties below | see below |
| `claim_*` | one claim of the sources each, violated: see section 6 | the smallest instance that shows it |

The properties of `components`, all but `EveryTypeOK` by component, and the
instance each has:

| Component | Properties | Bounds |
|---|---|---|
| Breaker and A2A client | `ReportsOnce`, `TripsOnThrownErrors`, `OpenForTheWholeTimeout`, `Recovers`, `EveryRequestSettles` | 2 concurrent requests, thresholds 2, deadline 2 ticks, 1 retry; no bound on calls or time |
| MCP client | `NothingWaitsDisconnected`, `ConnectedIsMonitored`, `NoReconnectAfterShutdown` | the user's `open` and one reconnection at once, one tool call and one ping, 1 retry; no bound on spawns or time |
| Registry server | `CountsAgree`, `OvershootIsRacing`, `PlainAnswersFresh`, `FreshnessRegained` | 2 agents, capacity 1, 2 registrations at once: they exceed the capacity and may repeat an agent; any number of saves, crashes and restarts |
| Workflow executor | `CompensatesAlone`, `UndoesWhatCompleted`, `WorkflowSettles` | a conditional without cases, then a saga of two branches, one of them conditional, with two compensations, each policy, 2 attempts; every task may fail at any attempt, and half of them have no time limit |
| Workbench run | `OrderSeparatesUnits`, `SeesEarlierUnits`, `RunReturns` | 2 workers for groups of 3, 1, 0 and 3 steps, each step may fail, with and without `failFast` |
| Request batcher | `OnlyReplacedHang` | 3 requests, 2 keys, batches of 2 |
| Catalog index | `QueriesFindAll`, `DependentsAreKnown` | 2 urns, 3 kinds of artifact, no bound on operations |
| Protocol graph | `AnswersAreFresh`, `LatestAreKept` | 2 urns of 2 kinds, 3 questions for a cache of 2, no bound on operations |
| Dependency graph | `OrdersAreValid`, `CyclesAndPathsAreFound` | every graph of 3 artifacts that may also depend on one outside the catalog |
| Overrides | `LoadOrderIsIrrelevant`, `BestMatchAnswers` | 4 rules, 3 of one id, from three sources; 2 months; a question with and without samples |

`MaxOps` and `MaxFaults` (pipeline and orchestrator) and `LastMonth`
(overrides) are the only bounds added to the code's own limits; they stand in
guards, and when `MaxOps` is used up, `Rest` stutters, so deadlock is checked everywhere.
Components whose histories would grow without end keep sets, or the last of
each question, in their place.

Two callers suffice for the races here: each is between one call's
read and another's write of the same thing.  Four calls take a manifest
from nothing to REGISTERED; a race or a recovery at any point of that way fits
in.  One fault of any kind at any point is the usual bound; the orchestrator's run
and the one about repeated loss allow two, and the invariants proved in section 5
hold for any number.
Thresholds of two are the least at which "one too many" and "one too few"
differ from "the first"; a cache of two and three questions are the least at
which the order of use matters; three artifacts have every shape of two cycles
that share a node.

*Mutants.*  Operators introduced by "Mutant" in a comment are versions of the
definition that follows with a plausible bug: a dropped guard, a missing reset,
a swapped order.  `PROJECT.json` pairs every checked property with one that
violates it under the same configuration.

*Running.*  `tlc -config X.cfg M` for the pairs in `PROJECT.json`, `tlapm M.tla`
for the eight `*Proofs` modules.  The longest run, `components`, has about
64,000 states and takes about two minutes, most of them on liveness and on the
graphs.

*Fairness.*

* `EveryCallReturns`, `EveryRegisterReturns`: the event loop resumes a call
  whose await has settled, and file operations settle (resolve or reject).
* `Recovers`, `EveryRequestSettles`: callers go on calling, time passes, and a
  fetch settles, at the latest by its abort timer.  Nothing makes a token or a
  body arrive (`a2a-client.js:319`, `:350`): they do in a service that has
  recovered (`healthy`), which is what `Recovers` is about, and
  `EveryRequestSettles` is of requests that do not wait for one for ever.
* `FreshnessRegained`: an answer in the cache grows older than its time to live.
* `WorkflowSettles`: timers fire and settled promises continue.  No task need
  ever answer if it has a timeout; where one without (`executor.js:519`) never
  does, the property says nothing.
* `RunReturns`: adapters answer or throw; the orchestrator sets no limit.
* `OnlyReplacedHang`: the batch timer fires, and what `Promise.allSettled` has
  awaited is continued.  Handlers need not settle; the property is of requests
  whose batch no handler holds for ever.
* `EveryToolCallEnds` fails under the fairness of timers and of continuations.

No fairness is assumed of users, faults, servers or child processes.

*Assumptions of the runs in which callers take turns.*  `Exclusive = TRUE`
means that no two calls on one manifest overlap; nothing in the code ensures
it.  The runs say what the code achieves for callers that do, and
`claim_no_conflicting_writes` what happens otherwise.

## 5. Proofs

All by TLAPS, for every value of the constants that meets the named
assumptions of the module.  Every invariant and every action property that a
passing run checks is a theorem, and so is the refinement; only liveness is not.

**Pipeline, any interleaving** (`RegistrationPipelineProofs`): `TypeOK`,
`ReviewEvidence` and `RegistrationProvenance`, whatever interleaves and fails.
Neither of the last two is inductive: what is saved is what some suspended
call carries, and what recovery saves is what the log folds to.
`IInv` therefore also says that the state every call is about to save, the
recovered state it has read, and the state the log replays to are reviewed, and
that the pending transition row matches the state it carries.  The
interesting case is a call whose manifest was overwritten by another between
its two reads: its state was computed from one consistent read, so its evidence
is complete even when it should not have been saved.

**Pipeline, taking turns** (`RegistrationPipelineProofs`, assuming
`Exclusive` and no faults but cut short calls and appends):
`ImplementsLifecycle`, a refinement: every step of the pipeline is a step
of `RegistrationLifecycle` or changes nothing it sees.  `TurnsInv` adds to
`IInv` that at most one busy call works on each manifest, that a snapshot is
never damaged, and `Knows`: what a suspended call has read still agrees with
the file when it writes (its base version is the stored one, the row it took
starts in the stored state, what it saved is what is stored while it appends).

There too, but with lost snapshots in place of cut short calls
(`LosingSnapshots`): `ReplayMatchesSnapshot`.  Its invariant, `ReplayInv`, says
what holds at each await of the one busy call: what the call has computed agrees
with the log as it will be when the call has appended, and until it renames, the
snapshot, if it is there, agrees with the log as it is (`Foresees`).  Between
the rename and the append the log is one event behind the snapshot.

**Orchestrator** (`RegistrationOrchestratorProofs`): `TypeOK`,
`GraphFollowsCatalog` and `FirstOwnerStays` whatever interleaves, from
`RegistryInv` (no node has an ill-formed urn); and, when callers take turns,
`CataloguedIsRegistered`.  The last relates memory to disk, so its invariant, `OrchestratorInv`, has the
pipeline's two in it, and `Awaits`: what `register` relies on when the call it
awaits returns.  That call has its manifest to itself, and once it is past its
save the file says REGISTERED.  A file that says so is never changed again by
callers that take turns (`RegisteredStays`), so what is catalogued stays true
after the job is gone.  The pipeline's lemmas are used through an instance of
`RegistrationPipelineProofs`; `SameStep` and `SameCalls` show that the actions of this
instance are those of the orchestrator's own.

**Breaker** (`CircuitBreakerProofs`): the breaker
opens only on thrown errors, and stays open until its deadline.  The invariant
is that `failureCount` and `thrown` agree except in OPEN, where refusals are
counted: leaving OPEN resets both.

**A2A client** (`ServiceProofs`): its specification implies the breaker's
(`RequestsReportOnce`, a step-by-step refinement), so both breaker theorems
hold of it.  Its type invariant (`RequestsAreCalls`) is one of the breaker's and
of requests, of which a step moves one (`OneRequestMoves`).

**MCP client** (`ServiceProofs`): `NothingWaitsDisconnected`,
`ConnectedIsMonitored` and `NoReconnectAfterShutdown`.  To be inductive the
first two need to know that whatever waits for an answer has a child to wait
for, whichever of the racing `open` calls made it (`WaitingHasChild`), and the
type invariant that a paused attempt to connect has one left (`AttemptIsLeft`).

**Registry server** (`ServiceProofs`): `ServerTypeOK`, `CountsAgree`,
`OvershootIsRacing` and `PlainAnswersFresh`.  A restart loads what the file
says, which is what some write left, which is what some registry remembered
when the write began: the bound on the count, and the agreement of index, list
and count, are therefore stated of all of them (`SavesInv`, `Sound`), and the
registry that requests reach counts the registrations under way with it
(`CountInv`).

**Workflow executor** (`WorkflowProofs`, assuming `NestingAssumptions`: each
step has one place in one list, and steps are not inside each other in a
circle): `CompensatesAlone` and `UndoesWhatCompleted`.  The first is about a
tree of any depth, of which a step only knows its own lists.  `WorkflowInv`
says that a step under way is in a list under way, that is, in the workflow's
or inside a step that runs, and that a step of a list begins when those before
it have passed.  If something were still under way when the workflow's list has
ended, then of all such steps there is one that is inside no other (a chain of
steps that run inside each other ends, by the second assumption): its list is
the workflow's, which has ended.  The second says that every compensation that
is owed has its turn, in reverse order, whatever the others came to, and is left
completed or failed as its turn ended; that it succeeds nobody can say, as the
loop goes on after one that fails.  The stack is what completed and can be
undone, in the order in which it completed, and the steps in `tried` followed by
what is left of `todo`, read backwards, are that stack, or its last entry
(`Turns`); a turn that begins is the only one that changes the status of its
compensation (`OutcomesKept`).

**Workbench run** (`WorkflowProofs`): `OrderSeparatesUnits` and
`SeesEarlierUnits`.  Orders are read before an await and used after it, so
`WorkbenchInv` bounds all those handed out (`OrdersKept`): at least the number
of records of the units before, at most that plus the records of the unit so
far, and once recorded smaller than what the next unit starts with.
`UnitKept`: a step of the unit waits, is worked on or has its record, and the
unit ends with steps that wait only when it was aborted.

**Catalog** (`CatalogProofs`): `QueriesFindAll` and `DependentsAreKnown`.
`NothingLeftBehind` is the strengthening: a urn that is not in the catalog is
in no index either, unless it was overwritten, or it would come back with the
stale entry when it is added again.

**Protocol graph** (`CatalogProofs`): `AnswersAreFresh` and `LatestAreKept`.
`LatestKept` says that no question is remembered twice and that the cache is
the end of the sequence of the questions used, `d` places in, where `d` is 0
until the cache is full: what a hit moves and what an eviction drops are then
the same in both sequences (`MovedLastIs`, `EntryAdded`).

**Overrides** (`CatalogProofs`): `LoadOrderIsIrrelevant` and
`BestMatchAnswers`.  `KeptInv` has one rule for each id, a kept rule that
covers each loaded one (as precedence and confidence are compared one after the
other, a rule that outranks the one that covers it covers it, too), and the
index of each type in the order of the rules (`PutKeepsIndex`).  That the
matcher's loop finds the first of the best rules of its list (`BestIs`) is an
induction over the list.  The library's induction theorems cannot be used, as
they take an operator, but its theorem that a set of numbers has a least
element can (`LeastNumber`): from it follow both that the recursive function is
defined and what it returns, by a least counterexample.

**Dependency graph** (`DependencyProofs`): `OrdersAreValid` and
`CyclesAndPathsAreFound`, for every finite graph; nothing is assumed but
`DependencyAssumptions`.  `OrdersAreValid` is of whole catalogs that hold every
dependency and of the topological sort of graphs without parallel edges; for the
others the sorts are wrong (`ParallelEdgeGivesNoOrder` for the second), which is
the subject of `claim_sorts_fail_only_on_cycles`.  The variable never moves: what is proved is what the
algorithms compute.  Each loop has an invariant of its rounds and a number that
every round that changes something makes smaller, and `RepeatEnds` says once
what follows: the loop keeps its invariant and stops within that number of
rounds.  Its induction, and the others here, are over sets of numbers: one that
has 0 and with each number the next has all (`CountUp`, from `LeastOne`).

* *Orders* (Kahn's algorithm; `SortOk`): a node's degree is the number of its
  dependencies still to come (`Waiting`), plus what it has too many of; what
  is queued has none left, what is sorted comes after all it needs (`After`).
  If the queue is empty too early, every node left needs one that is left, and
  in a finite graph there is a cycle.
* *Distances and paths* (`BreadthOk`): the distances of the queue's nodes rise
  and differ by at most one, those that were taken from it are final.  The search
  for a path has the same queue with paths for nodes.
* *Cycles* (`CyclesOk`, `Explored`): as long as no cycle was reported, a node
  that has been left is on none and needs only nodes that have been left; and
  what is reported is a stretch of the search's path, closed by an edge.
* *Tarjan's components* (`TarjanOk`; theorem `ComponentsAre`): each node on the
  stack reaches one on the search's path that is not above it (`Leads`), and
  one on the path reaches all above it (`Below`); the low link of a node on the
  path is the number of one on the stack that it reaches (`LowLinks`), and no
  edge that was followed from what lies above it, up to the next node of the
  path, leads lower (`Lowest`).  So when a node is left with its own number
  as low link, what lies above it is its class (`IsClass`).
  This invariant was checked with TLC on all graphs of three and four nodes first.

**Request batcher** (`ComponentsProofs`): `BatcherInv`.  Fewer requests wait
than make a batch, those that wait have a timer (which is why none waits for
ever in the run), and each request whose handler runs is in exactly one batch.

**All components** (`ComponentsProofs`): `EachIsItself`, that the specification
of the composed run, for any constants, implies that of every component (without
its fairness), so a theorem about a component holds in it; and from it
`EveryTypeOK`.

Only model-checked is liveness (`EveryCallReturns`, `EveryRegisterReturns`,
`Recovers`, `EveryRequestSettles`, `FreshnessRegained`, `WorkflowSettles`,
`RunReturns`, `OnlyReplacedHang`): it rests on fairness, whose `ENABLED` the
prover cannot reason about.

## 6. Where the code departs from its own claims

Each is a run that ends in a counterexample.

* `claim_no_conflicting_writes`: `compareAndSwap` compares in one await and
  saves in another, so two callers can both save version *n*+1
  (`optimistic-lock.js:4` promises to prevent it).
* `claim_recovery_keeps_manifest`: recovery loses the manifest, which only the
  skipped creation event holds (`event-sourcing.js:9`).
* `claim_registered_is_catalogued`: the transition to REGISTERED is saved
  before the second conflict check refuses the catalog entry
  (`registration-orchestrator.js:9`, "atomically").
* `claim_tool_calls_end`: the timer and the abort handler of a tool call look
  for its request id among message numbers and never find it
  (`mcp-client.js:7`).
* `claim_registered_survives_restart`: the server's own registry, which no
  request reaches, saves its index last when the server stops, over the one
  with the registrations (`urn-registry.js:4`; `registry-api.js:168`).
* `claim_compensation_is_rollback`: compensations are steps of the list and are
  carried out on the way forward, when nothing has failed
  (`workflow-library/README.md:154`; `executor.js:144`).
* `claim_sorts_fail_only_on_cycles`: of a catalog without cycles the full build
  order throws "Circular dependency detected" when a dependency is not in it,
  since it counts what it sorted against the artifacts alone
  (`catalog/graph.js:267`; line 223 says it throws on cycles); and the
  topological sort returns null for an acyclic graph with two parallel edges
  (`graph/traversal.js:264`; line 260 says "if graph has cycles").

Noticed on the way, and stated in the properties as exceptions: overwriting a
catalog entry leaves the old one in the indexes, and removing one forgets who
depends on it (`QueriesFindAll`, `DependentsAreKnown`); the registry's recovery
leaves the graph's indexes and cache (`AnswersAreFresh`); a cached match is reused
for other data and after rules were loaded (`BestMatchAnswers`); a replaced
request waits for ever, and so does a batch of which a handler never settles
(`OnlyReplacedHang`); a request waits as long as its token or its body takes
(`EveryRequestSettles`), a workflow as long as a task without a timeout
(`WorkflowSettles`); what the graph refuses is catalogued all the same
(`GraphFollowsCatalog`); and a compensation that fails or is skipped leaves its
step as it is in a workflow called COMPENSATED (`UndoesWhatCompleted`).

## 7. Not modelled

Most of the repository is not a system with states: importers, generators,
governance documents, templates, the command line, the viewer, catalog
pictures, manifest factories and validators, archived tools and test helpers
are functions from inputs to outputs, text for the most part, and a model of
them would be a copy.  That is why the map covers a small share of the
lines: it holds the parts that keep state between calls or suspend within one,
and the graph algorithms.  `PROJECT.json` lists each component that is
`not_modelled`, or `partly`, with what is left out.  The validation rules across
protocols and the diff engine are pure comparisons of two documents, path by
path, with no reference definition simpler than the code.

Within the modelled parts these are left out: the directory layout and temporary
file names, event emission, metrics, log output and the lengths of delays; API
endpoint nodes of the graph; `transitionState` with contexts the API methods do
not build; a write error on the MCP child's standard input that nobody listens
to (it ends the process); `listTools` and `getToolSchema` called by users, which
are requests without a timer like the heartbeat's; workflows nested in
workflows; version ranges of urns; `applyBatch` of the graph.

Seven hazards in `PROJECT.json` have no property.  Four are what the code does
and no doc forbids, and properties except it by name: what removing a catalog
entry forgets, what the registry's recovery leaves in the graph's indexes and
cache, matches cached for other data or older rules, and a sound snapshot that
is overwritten after a read error.  The order of log entries between racing
callers has no property beside the race itself.  A `URNRegistry` used without
a server initializes itself lazily and operations may race through that; what a
task that lost against its timer goes on to do is outside the executor.  Notes in
`PROJECT.json` also say where a property covers only part of a hazard.
