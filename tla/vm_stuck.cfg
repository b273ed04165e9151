SPECIFICATION Spec
CONSTANTS
  None = None
  TypeIsWellFormed <- MCWellFormed
  DeclaredValue <- MCDeclared
  JoinedValue <- MCJoined
  ValueFits <- MCFits
  Programs <- StuckPrograms
  MaxCallDepth = 3
  MaxLength = 1
  MaxInstructions = 60
  Schedules <- MCSchedules
INVARIANT NeverStuck
CHECK_DEADLOCK FALSE
