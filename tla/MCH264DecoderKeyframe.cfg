CONSTANTS
  PoolSize = 1
  Capacity = 2
  MaxFrames = 3
  MaxInits = 2
  MaxFailures = 0
SPECIFICATION Spec
INVARIANT KeyframeFirst
CHECK_DEADLOCK FALSE
