SPECIFICATION Spec
CONSTANTS
  N = 2
  Verbs = {"unlock"}
  Secret <- TildeSecret
  MaxFaults = 0
INVARIANTS
  AttemptedWhenOthersFail
