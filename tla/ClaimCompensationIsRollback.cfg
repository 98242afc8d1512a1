\* The saga alone matters here: a compensation that is a step of the list.
SPECIFICATION ComponentsSpec
CONSTANTS
  Callers          = {"c1", "c2"}
  FailureThreshold = 2
  SuccessThreshold = 2
  Timeout          = 2
  MaxRetries       = 1
  User             = "user"
  Reconnects       = {"reconnect1"}
  Tools            = {"tool"}
  Pings            = {"ping"}
  MaxReconnects    = 1
  OpenRetries      = 1
  Agents           = {"a1", "a2"}
  Registrants      = {"c1", "c2"}
  MaxAgents        = 1
  Workflow         <- Saga
  MaxAttempts      = 2
  Units            <- WorkbenchUnits
  Concurrency      = 2
  Requests         = {"r1", "r2", "r3"}
  Keys             = {"k1", "k2"}
  BatchSize        = 2
  CatalogUrns      = {"u", "v"}
  Labels           = {"l"}
  Entries          <- CatalogEntries
  GraphUrns        = {"u", "v"}
  Kinds            = {"api", "data"}
  CacheSize        = 2
  Artifacts        = {1, 2, 3}
  Externals        = {4}
  MapOrder         <- GraphOrder
  RuleFiles        <- RulePacks
  FieldQuestions   <- EmailQuestions
  FirstMonth       = 3
  LastMonth        = 4
INVARIANTS
  CompensationIsRollback
