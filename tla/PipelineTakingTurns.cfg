\* Callers serialise their calls per manifest; calls and appends may die.
SPECIFICATION Spec
CONSTANTS
  None        = None
  c1          = c1
  c2          = c2
  m1          = m1
  m2          = m2
  full        = full
  r1          = r1
  Clients     = {c1, c2}
  Ids         = {m1, m2}
  Manifests   = {full}
  WithUrn     = {full}
  Reviewers   = {r1}
  MaxAttempts = 2
  Exclusive   = TRUE
  Faults      = {"abort", "tear"}
  MaxOps      = 5
  MaxFaults   = 1
PROPERTIES
  ImplementsLifecycle
