SPECIFICATION Spec
CONSTANTS
  Chunks = 2
  Faults = 1
  Plans <- MCPlans
INVARIANTS
  ConsumersInOrder
  
  RejectionsAreSeen

  
CHECK_DEADLOCK FALSE
