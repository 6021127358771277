CONSTANTS
  PoolSize = 1
  Capacity = 2
  MaxFrames = 4
  MaxInits = 2
  MaxFailures = 1
SPECIFICATION FairSpec
INVARIANTS TypeOK KeyframeFirstUnlessSlip PicturesInOrder
PROPERTY DecodeReturns
CHECK_DEADLOCK FALSE
