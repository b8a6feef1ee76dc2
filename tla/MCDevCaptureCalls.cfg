SPECIFICATION Spec
CONSTANTS
  None = None
  Invocation = {i1, i2, i3}
  Effect = {e1}
  Kinds = {"sync", "async"}
  Generation = {g1, g2}
  MaxPending = 2
  MaxSession = 2
SYMMETRY Symmetry
CHECK_DEADLOCK FALSE
INVARIANTS TraceExact OneGeneration NothingLost BlockedUpward FlushDrains
PROPERTY SinkDiscipline
