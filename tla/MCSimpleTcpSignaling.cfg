CONSTANTS
  Scripts <- MCScripts
  MaxCandidates = 2
  MaxSendFailures = 1
  MaxDrops = 2
SPECIFICATION FairSpec
INVARIANTS TypeOK HandledInOrder LinesInOrder AnswersMatchOffers
PROPERTY OfferAnswered
CHECK_DEADLOCK FALSE
