SPECIFICATION SyncSpec
CONSTANTS
  Paths <- MCPaths
  LinkTargets <- MCLinkTargets
  StartTree <- MCTree
  StartData <- MCData
  Bytes <- MCBytes
  Copies <- MCCopies
  Options <- MCOptions
  Inodes = {1, 2, 3, 4}
  Fds = {1, 2}
  Flags = {"r", "wx"}
  MaxCalls = 2
  MaxFaults = 1
  MaxMeddles = 1
INVARIANTS
  DescriptorsReturned
PROPERTIES
  
  TreesAreWhole
CHECK_DEADLOCK FALSE
