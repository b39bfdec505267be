SPECIFICATION HttpSpec
CONSTANTS
  MaxBody = 2
  MaxPauses = 1
  Requests = 2
  Habits = {}

  
PROPERTIES
  AnswerIsChannel
CHECK_DEADLOCK FALSE
