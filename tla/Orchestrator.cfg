\* Two manifests claim one urn, or one has an ill-formed urn; callers take turns on each manifest while two faults strike.
SPECIFICATION FairSpecOnDisk
CONSTANTS
  None        = None
  c1          = c1
  c2          = c2
  m1          = m1
  m2          = m2
  r1          = r1
  app         = app
  rival       = rival
  odd         = odd
  uApp        = uApp
  uLib        = uLib
  uOdd        = uOdd
  Clients     = {c1, c2}
  Ids         = {m1, m2}
  Manifests   = {app, rival, odd}
  WithUrn     = {app, rival, odd}
  Reviewers   = {r1}
  MaxAttempts = 2
  Exclusive   = TRUE
  Faults      = {"abort", "die"}
  MaxOps      = 2
  MaxFaults   = 2
  Urns        = {uApp, uLib, uOdd}
  WellFormed  = {uApp, uLib}
  Skips       = {TRUE, FALSE}
  Admin       = {"unregister", "recover"}
  UrnOf       <- Urn
  DepsOf      <- Deps
INVARIANTS
  TypeOK
  CataloguedIsRegistered
  GraphFollowsCatalog
PROPERTIES
  FirstOwnerStays
  EveryRegisterReturns
