SPECIFICATION Spec
CONSTANTS
  modA = modA
  modB = modB
  modC = modC
  pkg = pkg
  nameF = nameF
  nameG = nameG
  missing = missing
  None = None
  Modules <- MCModules
  Names <- MCNames
  Packages = {pkg}
  Entry <- MCEntry
  Projects <- MCProjects
  Edited <- MCEdited
  Lockfiles <- EditedLocks
  MaxEdits = 1
INVARIANTS Sound  AssumptionCovers GatesAgree
CHECK_DEADLOCK FALSE
