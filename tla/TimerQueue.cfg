SPECIFICATION TimerSpec
CONSTANTS
  Delays <- MCShortDelays
  BackSteps = {1}
  MaxSetBacks = 1
  MaxTimers = 3
  MaxTime = 1
INVARIANTS
  CancelledStaysSilent
  FifoPerDelay
PROPERTIES
  PassEnds
