SPECIFICATION ChildSpec
CONSTANTS
  Delays <- MCDelays
  BackSteps = {}
  MaxSetBacks = 0
  MaxTimers = 2
  MaxTime = 0
  Fds = {3, 4, 5}
  EventMasks <- MCRead
  Pids = {7, 8}
  PidReuse = FALSE
  CloseWatched = FALSE
  MaxWatchers = 4
  MaxForks = 2
  MaxMicrotasks = 0
  MaxCreated = 2
  PipeSize = 1
  MaxWritten <- MCLongOut
  MaxDestroys = 1
INVARIANTS
  
  EndIsComplete
PROPERTIES
  EndsAreReported
CHECK_DEADLOCK FALSE
