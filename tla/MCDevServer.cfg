SPECIFICATION Spec
CONSTANTS
  m1 = m1
  Modules <- OneModule
  WithAdapters = {1}
  MaxStarts = 2
  MaxEdits = 2
  MaxFaults = 1
  Faults = {"configuration", "worker", "store"}
CHECK_DEADLOCK FALSE
INVARIANTS ServedCode SettledCurrent
PROPERTIES InstalledForward DisposalEnds
