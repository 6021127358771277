CONSTANTS
  Subtypes = {h264, other}
  NoType = NoType
  MaxSamples = 2
  MaxWork = 3
  MaxRequests = 2
  MaxPutFailures = 1
SPECIFICATION MediaFairSpec
INVARIANTS TypeOK DeliveredInOrder WriterNeverStarves MarkerAfterSamples
  NullCallsExplained
PROPERTIES ImplementsChannel ImplementsStreamSink QuietAfterRelease PendingWorkEnds
CHECK_DEADLOCK FALSE
