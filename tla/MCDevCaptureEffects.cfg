SPECIFICATION Spec
CONSTANTS
  None = None
  Invocation = {i1, i2}
  Effect = {e1, e2, e3}
  Kinds = {"fetch", "body"}
  Generation = {g1}
  MaxPending = 2
  MaxSession = 1
SYMMETRY Symmetry
CHECK_DEADLOCK FALSE
INVARIANTS TraceReadable ResponsesResolve CountersRight
