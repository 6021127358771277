CONSTANTS
  MaxFrames = 4
  MaxGenerations = 3
  MaxLosses = 1
  MaxWriteFailures = 1
  RtpModulus = 8
  IdModulus = 16
  FirstTimestamp = 5
SPECIFICATION FairSpec
INVARIANTS TypeOK MatchUnlessLatePop HarmOnlyByFailure
PROPERTIES ImagesOnlyWhileRegistered QueueDrains
CHECK_DEADLOCK FALSE
