CONSTANTS
  Capabilities <- MCCapabilities
  SourceLists <- MCAnyDevices
  PlainTypes = {"I420", "YUY2", "YV12", "NV12"}
  NoCapability = NoCapability
  MaxReaders = 3
  MaxFailures = 2
SPECIFICATION FairSpec
INVARIANTS TypeOK OneReader NoFrameAfterDestroy
PROPERTY CallReturnsIfMatching
CHECK_DEADLOCK FALSE
