SPECIFICATION Spec
CONSTANTS
  Names <- MCNames
  Files <- MCFiles
  MainOf <- MCMainOf
  Entry <- MCEntry
  Specs <- MCSpecs
  Builtins = {"fs"}
  GlobalVendor <- MCGlobalVendor
  HasBabel = TRUE
  Edited <- MCEdited
  RacyEdits = FALSE
  Kills = FALSE
  MaxRequires = 3
  MaxEdits = 2
  MaxProcesses = 2
  MaxDeletes = 1
INVARIANTS
  EvaluatedOnce
  
  
CHECK_DEADLOCK FALSE
