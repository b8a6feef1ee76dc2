SPECIFICATION MCSpec
CONSTANTS
  Calls = {c1, c2}
  Completions = {v, w}
  FileOf <- MCFileOf
  MaxSessions = 1
  MaxReviews = 1
  MaxFaults = 1
  Absent = Absent
SYMMETRY MCSymmetry
INVARIANTS Accounted NondeterministicDropped
PROPERTY OnlyAsDecided
CHECK_DEADLOCK FALSE
