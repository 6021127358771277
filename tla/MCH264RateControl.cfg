CONSTANTS
  Resolutions = {vga, hd}
  Bitrates = {10, 11, 20}
  FrameRates = {15, 30}
  UnsetRates = {0, 511}
  Half = 256
  MinInterval = 2
  MaxCalls = 4
SPECIFICATION FairSpec
INVARIANTS TypeOK RatesOffOnlyIfStale RequestKept
PROPERTIES RateChangesSpaced PostponedApplied
CHECK_DEADLOCK FALSE
