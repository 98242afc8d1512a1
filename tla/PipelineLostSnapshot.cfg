\* Callers take turns; snapshots get lost between and during calls.
SPECIFICATION Spec
CONSTANTS
  None        = None
  c1          = c1
  c2          = c2
  m1          = m1
  full        = full
  r1          = r1
  r2          = r2
  Clients     = {c1, c2}
  Ids         = {m1}
  Manifests   = {full}
  WithUrn     = {full}
  Reviewers   = {r1, r2}
  MaxAttempts = 2
  Exclusive   = TRUE
  Faults      = {"lose"}
  MaxOps      = 6
  MaxFaults   = 2
SYMMETRY Interchangeable
INVARIANTS
  ReplayMatchesSnapshot
