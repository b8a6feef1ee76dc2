SPECIFICATION MCSpec
CONSTANTS
  Objects = {1, 2}
  Recorded = {0}
  Replayed = {0, 1, 2}
  MaxDepth = 2
  MaxNodes = 6
  Epsilon = 1
INVARIANTS AcceptedIsWhole RoundTrips VerdictIsTrue
CHECK_DEADLOCK FALSE
