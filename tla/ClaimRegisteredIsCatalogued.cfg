\* Two manifests claim one urn, two callers race, nothing fails.
SPECIFICATION SpecOnDisk
CONSTANTS
  None        = None
  c1          = c1
  c2          = c2
  m1          = m1
  m2          = m2
  r1          = r1
  app         = app
  rival       = rival
  uApp        = uApp
  odd         = odd
  uLib        = uLib
  uOdd        = uOdd
  Clients     = {c1, c2}
  Ids         = {m1, m2}
  Manifests   = {app, rival, odd}
  WithUrn     = {app, rival, odd}
  Reviewers   = {r1}
  MaxAttempts = 2
  Exclusive   = FALSE
  Faults      = {}
  MaxOps      = 2
  MaxFaults   = 1
  Urns        = {uApp, uLib, uOdd}
  WellFormed  = {uApp, uLib}
  Skips       = {FALSE}
  Admin       = {}
  UrnOf       <- Urn
  DepsOf      <- Deps
INVARIANTS
  RegisteredIsCatalogued
