SPECIFICATION FairSpec
CONSTANTS
  NoTimeout = NoTimeout
  Requests <- LiveRequests
  MaxRetries = 1
  MayCancel = FALSE
PROPERTIES
  TimedBuildEnds
  FailureEndsBuild
  GoroutinesExit
