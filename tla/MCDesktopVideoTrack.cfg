CONSTANTS
  MaxFrames = 3
  MaxQueued = 2
SPECIFICATION FairSpec
INVARIANTS TypeOK TornOnlyIfPassed UsesExplained
PROPERTIES StartAndStopTakeEffect
CHECK_DEADLOCK FALSE
