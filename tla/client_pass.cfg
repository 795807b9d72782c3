SPECIFICATION Spec
CONSTANTS
  N = 2
  Verbs = {"unlock", "force", "status"}
  Secret <- AnySecret
  MaxFaults = 1
INVARIANTS
  TypeOK
  SuccessTruthful
  EveryLockedAttempted
  UnreachableMeansSilent
