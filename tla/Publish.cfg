SPECIFICATION FairSpec
CONSTANTS
  Requests <- MCRequests
  Matches <- MCMatches
  MaxPushRetries = 3
  MaxWrites = 2
  BaseDelay = 50
  MaxDelay = 75
  None = None
CHECK_DEADLOCK FALSE
INVARIANTS
  TypeOK
  DoneMeansPublished
  SummaryTruthful
  BackoffInRange
PROPERTY
  PushEnds
