SPECIFICATION Spec
CONSTANTS
  Ring = 3
  ReadSize = 4
  KernelSize = 4
  WriteSizes = {1}
  MaxWrites = 2
  MaxDestroys = 1
  EndsEarly = FALSE

  
PROPERTIES
  DirectionsAreChannels
  BothEndsClose
CHECK_DEADLOCK FALSE
