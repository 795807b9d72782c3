SPECIFICATION Spec
CONSTANTS
  Executable = {"old", "new"}
  Platforms = {"Linux"}
  MaxFaults = 0
INVARIANTS
  RunsInstalled
