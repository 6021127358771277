CONSTANTS
  Capabilities <- MCCapabilities
  SourceLists <- MCAnyDevices
  PlainTypes = {"I420", "YUY2", "YV12", "NV12"}
  NoCapability = NoCapability
  MaxReaders = 2
  MaxFailures = 0
SPECIFICATION FairSpec
PROPERTY CallReturns
CHECK_DEADLOCK FALSE
