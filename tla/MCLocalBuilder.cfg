SPECIFICATION Spec
CONSTANTS
  Commands <- MCCommands
  MaxRuns = 2
INVARIANTS
  TypeOK
  NeverRefused
  LeftoversGone
  LittleLeftWhenDone
  WorkspaceWritten
