SPECIFICATION Spec
CONSTANTS
  NoTimeout = NoTimeout
  Candidates <- MCCandidates
  BuildTimeouts <- MCTimeouts
  MaxTimeout = 2
  MaxNumSteps = 3
  Malformed <- MCMalformed
  BadEnv <- MCBadEnv
INVARIANTS
  TypeOK
  AcceptedIsRunnable
  RejectedIsInvalid
  AcceptedTimeoutsNest
