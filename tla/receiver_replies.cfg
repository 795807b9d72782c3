SPECIFICATION HSpec
CONSTANTS
  s1 = s1
  s2 = s2
  s3 = s3
  Segment <- MCSegment
  SafeSegment <- MCSafe
  Dataset <- ReplyHost
  EncRoot <- MCEncRoot
  CanMount <- PoolUnmountable
  MountPoint <- AllPaths
  MaxFaults = 2
  Session = {s1, s2}
  Commands <- ReplyCommands
  Passphrases <- RightOrWrong
  AllowLists <- AandP
SYMMETRY AnySession
INVARIANTS
  RepliesTruthful
  KeyRepliesTruthful
