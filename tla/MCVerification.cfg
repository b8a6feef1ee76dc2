SPECIFICATION MCSpec
CONSTANTS
  Version <- MCVersion
  Profile <- MCProfile
  Adapted <- MCAdapted
  MaxEdits = 2
  MaxFaults = 1
  Absent = Absent
INVARIANTS ExitContract VerdictDeserved
PROPERTIES NothingRunsEarly VerifyEnds
CHECK_DEADLOCK FALSE
