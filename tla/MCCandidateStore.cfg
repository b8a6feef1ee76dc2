SPECIFICATION Spec
CONSTANTS
  s1 = s1
  r1 = r1
  a = a
  b = b
  f = f
  None = None
  Sessions = {s1}
  Reviewers = {r1}
  Outputs = {a, b}
  Callable <- MCGroup
  Group <- MCGroup
  Policies <- MCPolicies
  Cases = 2
  Generations = 2
  MaxSealed = 2
  MaxFaults = 1
  Limits <- MCLimits
SYMMETRY Interchangeable
CHECK_DEADLOCK FALSE
PROPERTIES OracleChangesOnlyAsShown RecoveryConverges OldOrNew SealedIsFormed
