SPECIFICATION FrontendSpec
CONSTANTS
  None = None
  TypeIsWellFormed <- MCWellFormed
  DeclaredValue <- MCDeclared
  JoinedValue <- MCJoined
  ValueFits <- MCFits
  Programs <- SoundPrograms
  Sources <- SoundSources
  MaxInstantiationDepth = 3
  MaxCallDepth = 3
  MaxLength = 1
  MaxInstructions = 40
  Schedules <- MCSchedules
INVARIANTS AcceptedIsVerified VerifiedIsClosed VmTypeOK StackMapsAreExact NeverStuck FactsDescribeFrame RootsAreComplete NoCycleOutlivesExecution
PROPERTY AnalysisOnlyWidens
CHECK_DEADLOCK FALSE
