SPECIFICATION FrontendSpec
CONSTANTS
  None = None
  TypeIsWellFormed <- MCWellFormed
  DeclaredValue <- MCDeclared
  JoinedValue <- MCJoined
  ValueFits <- MCFits
  Programs = {}
  Sources <- LabelledGenerics
  MaxInstantiationDepth = 3
  MaxCallDepth = 3
  MaxLength = 1
  MaxInstructions = 40
  Schedules <- MCSchedules
INVARIANT InstancesKeepLabels
CHECK_DEADLOCK FALSE
