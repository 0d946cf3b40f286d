SPECIFICATION Spec
CONSTANTS
  Limit <- MCLimit
  CleanPath <- MCCleanPath
  ReservedPaths <- MCReserved
  Inputs <- SecretInputs
CHECK_DEADLOCK FALSE
INVARIANT
  EnvsIncludeEquals
