\* The server may leave a tool call unanswered.
SPECIFICATION FairMCPSpec
CONSTANTS
  User        = "user"
  Reconnects  = {"reconnect1"}
  Tools       = {"tool"}
  Pings       = {"ping"}
  MaxReconnects = 2
  OpenRetries = 1
PROPERTIES
  EveryToolCallEnds
