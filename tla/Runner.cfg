SPECIFICATION FairSpec
CONSTANTS
  Calls = {c1, c2}
  Cleaner = Cleaner
CHECK_DEADLOCK FALSE
INVARIANTS
  TypeOK
  NoProcessLost
  LeaksOnlyWhenCancelled
  CleanKillsAllOrFails
PROPERTIES
  ImplementsAbs
  CancelledCommandDies
