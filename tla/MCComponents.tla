----------------------------- MODULE MCComponents -----------------------------
(***************************************************************************)
(* The components that share no state with the registration pipeline or    *)
(* with each other, checked in one run: a behaviour is that of one of      *)
(* them, chosen at the start, while the others stay as they began.         *)
(***************************************************************************)
EXTENDS A2AClient, MCPClient, RegistryServer, WorkflowExecutor, WorkbenchRun,
        RequestBatcher, CatalogIndex, ProtocolGraph, DependencyGraph, OverrideRules,
        TLC

VARIABLE part

(* An order: after an audit that lacks its cases it is charged for while   *)
(* its goods are picked, or are not; only what was picked is refunded.     *)
(* Picking and refunding take as long as they take.                        *)
Saga == [
  steps |-> {"audit", "ship", "charge", "choose", "pick", "unpick", "refund"},
  top |-> <<"audit", "ship", "unpick", "refund">>,
  kind |-> [s \in {"charge", "pick"} |-> "task"]
           @@ [s \in {"unpick", "refund"} |-> "compensation"]
           @@ ("ship" :> "parallel") @@ [s \in {"audit", "choose"} |-> "conditional"],
  lists |-> ("ship" :> << <<"charge">>, <<"choose">> >>) @@ ("choose" :> << <<"pick">>, << >> >>)
            @@ ("audit" :> << << >> >>)
            @@ [s \in {"charge", "pick", "unpick", "refund"} |-> << >>],
  dependsOn |-> ("refund" :> {"pick"})
            @@ [s \in {"audit", "ship", "charge", "choose", "pick", "unpick"} |-> {}],
  conditional |-> {"pick"},
  goesOn |-> {"audit", "unpick"},
  compensation |-> ("pick" :> "unpick") @@ ("charge" :> "refund")
            @@ [s \in {"audit", "ship", "choose", "unpick", "refund"} |-> "none"],
  timed |-> {"charge", "unpick"} ]

(* Three steps for two workers, one, none, and three again.                *)
WorkbenchUnits == << <<"s1", "s2", "s3">>, <<"s4">>, << >>, <<"s5", "s6", "s7">> >>

CatalogEntries == {
  [labels |-> {"l"}, pii |-> TRUE, deps |-> {}],
  [labels |-> {"l"}, pii |-> FALSE, deps |-> {"u", "v"}],
  [labels |-> {}, pii |-> FALSE, deps |-> {"v"}] }

(* Three artifacts, and what they may depend on beside each other.         *)
GraphOrder == <<1, 2, 3, 4>>
(* One artifact that may depend on itself and on one that is missing.      *)
PairOrder == <<"a", "missing">>

(* What a field is called, without and with samples of its data.           *)
EmailQuestions == [key : {"email"}, sample : BOOLEAN]

(* Three rules for one id, one of them of another type, and a rival.       *)
Rule(id, source, confidence, created, name, data) ==
  [id |-> id, type |-> "pii_pattern", source |-> source, confidence |-> confidence,
   verified |-> 2, created |-> created,
   weight |-> [q \in EmailQuestions |-> name + (IF q.sample THEN data ELSE 0)]]
RulePacks == {
  Rule("x", "community", 90, 3, 5, 4),
  Rule("x", "community", 100, 2, 0, 4),
  [Rule("x", "project", 50, 0, 5, 4) EXCEPT !.type = "api_pattern"],
  Rule("y", "organization", 100, 0, 5, 0) }

-----------------------------------------------------------------------------
(* The graphs of DependencyGraph are all initial states of their own.      *)
ComponentsInit ==
  /\ Init /\ MCPInit /\ ServerInit /\ WorkflowInit /\ WorkbenchInit
  /\ BatcherInit /\ CatalogInit /\ GraphInit /\ OverrideInit
  /\ part \in {"a2a", "mcp", "server", "workflow", "workbench", "batcher", "catalog",
               "graph", "dependencies", "overrides"}
  /\ part # "workflow" => policy = "none"
  /\ part # "workbench" => ~failFast
  /\ part # "batcher" => request = [r \in Requests |-> Idle("k1")]
  /\ IF part = "dependencies" THEN DependencyInit ELSE dependsOn = [u \in Artifacts |-> {}]

(* A step of one component leaves the variables of the others alone.       *)
OfA2A == part = "a2a" /\ UNCHANGED <<part, mcpVars, serverVars, workflowVars, workbenchVars,
           batcherVars, catalogVars, graphVars, dependsOn, overrideVars>>
OfMCP == part = "mcp" /\ UNCHANGED <<part, vars, serverVars, workflowVars, workbenchVars,
           batcherVars, catalogVars, graphVars, dependsOn, overrideVars>>
OfServer == part = "server" /\ UNCHANGED <<part, vars, mcpVars, workflowVars, workbenchVars,
              batcherVars, catalogVars, graphVars, dependsOn, overrideVars>>
OfWorkflow == part = "workflow" /\ UNCHANGED <<part, vars, mcpVars, serverVars, workbenchVars,
                batcherVars, catalogVars, graphVars, dependsOn, overrideVars>>
OfWorkbench == part = "workbench" /\ UNCHANGED <<part, vars, mcpVars, serverVars, workflowVars,
                 batcherVars, catalogVars, graphVars, dependsOn, overrideVars>>
OfBatcher == part = "batcher" /\ UNCHANGED <<part, vars, mcpVars, serverVars, workflowVars,
               workbenchVars, catalogVars, graphVars, dependsOn, overrideVars>>
OfCatalog == part = "catalog" /\ UNCHANGED <<part, vars, mcpVars, serverVars, workflowVars,
               workbenchVars, batcherVars, graphVars, dependsOn, overrideVars>>
OfGraph == part = "graph" /\ UNCHANGED <<part, vars, mcpVars, serverVars, workflowVars,
             workbenchVars, batcherVars, catalogVars, dependsOn, overrideVars>>
OfDependency == part = "dependencies" /\ UNCHANGED <<part, vars, mcpVars, serverVars, workflowVars,
                  workbenchVars, batcherVars, catalogVars, graphVars, overrideVars>>
OfOverride == part = "overrides" /\ UNCHANGED <<part, vars, mcpVars, serverVars, workflowVars,
                workbenchVars, batcherVars, catalogVars, graphVars, dependsOn>>

ComponentsNext ==
  \/ OfA2A /\ Next
  \/ OfMCP /\ MCPNext
  \/ OfServer /\ ServerNext
  \/ OfWorkflow /\ WorkflowNext
  \/ OfWorkbench /\ WorkbenchNext
  \/ OfBatcher /\ BatcherNext
  \/ OfCatalog /\ CatalogNext
  \/ OfGraph /\ GraphNext
  \/ OfDependency /\ DependencyNext
  \/ OfOverride /\ OverrideNext

allVars == <<part, vars, mcpVars, serverVars, workflowVars, workbenchVars, batcherVars,
             catalogVars, graphVars, dependsOn, overrideVars>>

(* The fairness of each component's own specification.                     *)
ComponentsSpec ==
  /\ ComponentsInit /\ [][ComponentsNext]_allVars
  /\ \A c \in Callers : WF_vars(part = "a2a" /\ Driven(c))
  /\ WF_vars(part = "a2a" /\ Breaker!Tick /\ UNCHANGED req)
  /\ WF_serverVars(part = "server" /\ Expires("health"))
  /\ WF_workflowVars(part = "workflow" /\ Executes)
  /\ WF_workbenchVars(part = "workbench" /\ WorksOn)
  /\ WF_batcherVars(part = "batcher" /\ BatchTimerFires)
  /\ \A r \in Requests : WF_batcherVars(part = "batcher" /\ Together(r))

-----------------------------------------------------------------------------
(* Every variable of every component holds values of the shape the code    *)
(* gives it.                                                               *)
EveryTypeOK ==
  /\ TypeOK /\ MCPTypeOK /\ ServerTypeOK /\ WorkflowTypeOK /\ WorkbenchTypeOK
  /\ BatcherTypeOK /\ CatalogTypeOK /\ GraphTypeOK /\ OverrideTypeOK
=============================================================================
