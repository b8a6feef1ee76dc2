SPECIFICATION ReplaySpec
CONSTANTS
  Branches = 2
  Operation = {"random", "readA"}
  AsyncOperation = {"readA"}
  MaxLength = 3
  MayChange = TRUE
  Programs <- JoinedOrSequential
CHECK_DEADLOCK FALSE
INVARIANTS Reproduces SameEffects
PROPERTY ReplayTerminates
