SPECIFICATION Spec
CONSTANTS
  Interval = 5
  PanicInterval = 1
  PanicMax = 6
  ProbeMax = 2
  PassMax = 3
  MaxTime = 24
INVARIANTS
  TypeOK
  Prompt
  HammeringBounded
CHECK_DEADLOCK FALSE
