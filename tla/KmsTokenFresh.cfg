SPECIFICATION Spec
CONSTANTS
  Second = 1
  Lefts = {6}
  Latency = 1
  MaxTime = 8
  Scenarios = {{"kms"}}
  None = None
CHECK_DEADLOCK FALSE
INVARIANT
  KmsTokenFresh
