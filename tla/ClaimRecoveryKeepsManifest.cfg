\* One caller; the snapshot is corrupted once.
SPECIFICATION Spec
CONSTANTS
  None        = None
  c1          = c1
  m1          = m1
  full        = full
  r1          = r1
  Clients     = {c1}
  Ids         = {m1}
  Manifests   = {full}
  WithUrn     = {full}
  Reviewers   = {r1}
  MaxAttempts = 2
  Exclusive   = TRUE
  Faults      = {"corrupt"}
  MaxOps      = 2
  MaxFaults   = 1
PROPERTIES
  RecoveryKeepsManifest
