CONSTANTS
  Resolutions = {vga}
  Bitrates = {10, 20}
  FrameRates = {30}
  UnsetRates = {0}
  Half = 256
  MinInterval = 2
  MaxCalls = 4
SPECIFICATION Spec
INVARIANT RatesNearRequested
CHECK_DEADLOCK FALSE
