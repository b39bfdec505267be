SPECIFICATION SocketSpec
CONSTANTS
  Delays <- MCDelays
  BackSteps = {}
  MaxSetBacks = 0
  MaxTimers = 6
  MaxTime = 0
  Fds = {3}
  EventMasks <- MCRead
  Pids = {7}
  PidReuse = FALSE
  CloseWatched = FALSE
  MaxWatchers = 0
  MaxForks = 0
  MaxMicrotasks = 0
  MaxCreated = 0
  SendBuffer = 1
  WriteSizes = {2}
  MaxCalls = 3
  MaxFromPeer = 1
INVARIANTS
  SentInOrder
  FinAfterData
  NoOrphanWatcher
PROPERTIES
  BothEndsClose
CHECK_DEADLOCK FALSE
