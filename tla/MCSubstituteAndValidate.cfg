SPECIFICATION Spec
CONSTANTS
  Limit <- MCLimit
  CleanPath <- MCCleanPath
  ReservedPaths <- MCReserved
  Inputs <- MCInputs
CHECK_DEADLOCK FALSE
INVARIANTS
  SubstitutionsFaithful
  TagsSane
  SecretsDecryptable
  VolumesShared
