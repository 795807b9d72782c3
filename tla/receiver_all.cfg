SPECIFICATION Spec
CONSTANTS
  s1 = s1
  s2 = s2
  s3 = s3
  Segment <- MCSegment
  SafeSegment <- MCSafe
  Dataset <- WideHost
  EncRoot <- MCEncRoot
  CanMount <- PoolUnmountable
  MountPoint <- ChildLegacy
  MaxFaults = 1
  Session = {s1, s2}
  Commands <- AllCommands
  Passphrases <- RightOrWrong
  AllowLists <- WithNested
SYMMETRY AnySession
INVARIANTS
  TypeOK
PROPERTIES
  Authorised
