SPECIFICATION ReplaySpec
CONSTANTS
  Branches = 2
  Operation = {"random", "readA"}
  AsyncOperation = {"readA"}
  MaxLength = 2
  MayChange = FALSE
  Programs <- AllPrograms
CHECK_DEADLOCK FALSE
INVARIANTS Reproduces
