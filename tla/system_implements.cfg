SPECIFICATION SystemSpec
CONSTANTS
  s1 = s1
  s2 = s2
  s3 = s3
  Segment <- MCSegment
  SafeSegment <- MCSafe
  Dataset <- MixedHost
  EncRoot <- MCEncRoot
  CanMount <- AllOn
  MountPoint <- AllPaths
  MaxFaults = 2
  Session = {s1, s2}
  Commands <- NoCommands
  Passphrases <- RightOrWrong
  AllowLists <- AandC
  Names <- TwoNames
  Verbs = {"unlock", "status"}
  Secret <- AnyRead
SYMMETRY AnySession
PROPERTIES
  ImplementsClient
