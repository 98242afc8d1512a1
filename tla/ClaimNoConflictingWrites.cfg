\* Two callers race, nothing fails.
SPECIFICATION Spec
CONSTANTS
  None        = None
  c1          = c1
  c2          = c2
  m1          = m1
  full        = full
  r1          = r1
  Clients     = {c1, c2}
  Ids         = {m1}
  Manifests   = {full}
  WithUrn     = {full}
  Reviewers   = {r1}
  MaxAttempts = 2
  Exclusive   = FALSE
  Faults      = {}
  MaxOps      = 4
  MaxFaults   = 1
PROPERTIES
  NoConflictingWrites
