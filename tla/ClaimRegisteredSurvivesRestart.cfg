\* Two agents and room for both, two registrations at once.
SPECIFICATION ServerSpec
CONSTANTS
  Agents      = {"a1", "a2"}
  Registrants = {"c1", "c2"}
  MaxAgents   = 2
INVARIANTS
  RegisteredSurvivesRestart
