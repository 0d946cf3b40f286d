SPECIFICATION FairSpec
CONSTANTS
  Second = 1
  Lefts = {4, 7}
  Latency = 1
  MaxTime = 11
  Scenarios = {{"gcloud", "metadata"}, {"docker", "late"}, {"docker", "login"}, {"kms"}}
  None = None
CHECK_DEADLOCK FALSE
INVARIANTS
  TypeOK
  CredentialsFresh
  ChainWhole
  UserLoginKept
PROPERTY
  RefreshEnds
