SPECIFICATION SpawnSyncSpec
CONSTANTS
  PipeSize = 2
  Inputs <- MCSmallInputs
  MaxWritten <- MCLongOut
  Faults <- MCFaults
  Signals = TRUE
INVARIANTS
  NoMutualWait
  OutputComplete
  NothingLeft
