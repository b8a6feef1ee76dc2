SPECIFICATION Spec
CONSTANTS
  modA = modA
  modB = modB
  modC = modC
  nameF = nameF
  nameG = nameG
  None = None
  Files <- MCFiles
  Names <- MCNames
  Directory <- MCDirectory
  Selected = {modA}
  Projects <- MCProjects
INVARIANTS CurrentIsFresh TargetsAreSafe BorrowedSeen
CHECK_DEADLOCK FALSE
