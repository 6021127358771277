CONSTANTS
  Sides = {capture, render}
  MaxThreads = 2
  MaxFailures = 2
SPECIFICATION FairSpec
INVARIANTS TypeOK TransportingMeansStreaming CrashesExplained
PROPERTIES WaitsEnd
CHECK_DEADLOCK FALSE
