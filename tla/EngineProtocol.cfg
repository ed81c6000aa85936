SPECIFICATION FairSpec
CONSTANTS
  MaxProgress = 3
  PipeCapacity = 2
  None = None
 
PROPERTIES  EngineEndsWithClient
CHECK_DEADLOCK FALSE
