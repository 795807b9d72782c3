SPECIFICATION Spec
CONSTANTS
  s1 = s1
  s2 = s2
  s3 = s3
  Segment <- MCSegment
  SafeSegment <- MCSafe
  Dataset <- FlatHost
  EncRoot <- MCEncRoot
  CanMount <- AllOn
  MountPoint <- AllPaths
  MaxFaults = 2
  Session = {s1, s2, s3}
  Commands <- CalmCommands
  Passphrases <- RightOrEmpty
  AllowLists <- AandC
SYMMETRY AnySession
INVARIANTS
  NothingHidden
