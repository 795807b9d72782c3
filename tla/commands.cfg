SPECIFICATION PartSpec
CONSTANTS
  Executable = {"old", "new"}
  Platforms = {"Linux", "Darwin"}
  MaxFaults = 3
  MaxKeys = 3
  Limit = 2
  MaxLength = 5
  N = 2
INVARIANTS
  PartTypeOK
  ReportedAtBoot
  CleanUninstall
  PrivateWins
  CreatedIsPair
  RoundTrip
  CapExact
  CleanBill
  NoFalseAlarm
PROPERTIES
  PairChanges
CHECK_DEADLOCK FALSE
