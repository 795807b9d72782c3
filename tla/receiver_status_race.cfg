SPECIFICATION HSpec
CONSTANTS
  s1 = s1
  s2 = s2
  s3 = s3
  Segment <- MCSegment
  SafeSegment <- MCSafe
  Dataset <- NestedHost
  EncRoot <- MCEncRoot
  CanMount <- PoolUnmountable
  MountPoint <- AllPaths
  MaxFaults = 1
  Session = {s1, s2}
  Commands <- LockCommands
  Passphrases <- RightOrWrong
  AllowLists <- OnlyA
INVARIANTS
  StatusTruthful
