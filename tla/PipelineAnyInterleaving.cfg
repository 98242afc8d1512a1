\* Two callers race on one manifest while any one fault strikes.
SPECIFICATION FairSpec
CONSTANTS
  None        = None
  c1          = c1
  c2          = c2
  m1          = m1
  bare        = bare
  full        = full
  r1          = r1
  Clients     = {c1, c2}
  Ids         = {m1}
  Manifests   = {bare, full}
  WithUrn     = {full}
  Reviewers   = {r1}
  MaxAttempts = 2
  Exclusive   = FALSE
  Faults      = {"abort", "tear", "lose", "corrupt", "unreadable", "delete"}
  MaxOps      = 4
  MaxFaults   = 1
INVARIANTS
  TypeOK
  ReviewEvidence
  RegistrationProvenance
PROPERTIES
  EveryCallReturns
