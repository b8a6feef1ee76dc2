SPECIFICATION Spec
CONSTANTS
  Pages = 2
  Kinds = {"observation", "counts", "block", "refused"}
  MaxMade = 1
  MaxFaults = 1
  Limit = 1
  Reserve = 5
  Quota = 3
CHECK_DEADLOCK FALSE
PROPERTIES ForgottenWhenStored ImplementsLog BacklogDrains
