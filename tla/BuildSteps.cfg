SPECIFICATION Spec
CONSTANTS
  NoTimeout = NoTimeout
  Requests <- MCRequests
  MaxRetries = 1
  MayCancel = TRUE
INVARIANTS
  TypeOK
  DepsRespected
  PushOnlyIfBuilt
  LeftoversExplained
  ReportsRootCause
PROPERTY
  ImplementsAbs
