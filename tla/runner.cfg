SPECIFICATION Spec
CONSTANTS
  CommandTimeout = 3
  DrainTimeout = 2
  MaxTime = 12
INVARIANTS
  TypeOK
  Bounded
  NoneLeftAlone
  ResultTruthful
CHECK_DEADLOCK FALSE
