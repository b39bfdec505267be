SPECIFICATION StreamsSpec
CONSTANTS
  Chunks = 2
  MaxOps = 3
  HighWaterMark = 2
  EmptyPushes = {"paused"}
INVARIANTS
  FinishIsComplete
PROPERTIES
  
  PipelineFinishes
CHECK_DEADLOCK FALSE
