SPECIFICATION Spec
CONSTANTS
  Delays = {1}
  BackSteps = {}
  MaxSetBacks = 0
  MaxTimers = 1
  MaxTime = 1
  Fds = {3}
  EventMasks <- MCWrite
  Pids = {7, 8}
  PidReuse = TRUE
  CloseWatched = FALSE
  MaxWatchers = 2
  MaxForks = 2
  MaxMicrotasks = 0
  MaxCreated = 3
PROPERTIES
  ReadyWatcherIsCalled
  DueTimerRuns
  CaughtSigchldReaps
CHECK_DEADLOCK FALSE
