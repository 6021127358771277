CONSTANTS
  MaxFrames = 4
  MaxGenerations = 2
  MaxLosses = 0
  MaxWriteFailures = 0
  RtpModulus = 8
  IdModulus = 16
  FirstTimestamp = 5
SPECIFICATION Spec
INVARIANT AttributesMatch
CHECK_DEADLOCK FALSE
