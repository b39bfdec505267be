SPECIFICATION Spec
CONSTANTS
  Delays <- MCDelays
  BackSteps = {1}
  MaxSetBacks = 1
  MaxTimers = 2
  MaxTime = 1
  Fds = {3}
  EventMasks <- MCRead
  Pids = {7, 8}
  PidReuse = FALSE
  CloseWatched = FALSE
  MaxWatchers = 2
  MaxForks = 2
  MaxMicrotasks = 1
  MaxCreated = 3
INVARIANTS
  TablesAgree
  SleepsDrained
  SleepEndsForTimers
  ExitsOnlyWhenIdle
PROPERTIES
  UnwatchedStaysSilent
  
CHECK_DEADLOCK FALSE
