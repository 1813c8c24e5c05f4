SPECIFICATION FairSpec
CONSTANTS
  s1 = s1
  s2 = s2
  admin = admin
  Seats = {s1, s2}
  SOPs = 2
  Integrates = TRUE
  HasMemory = TRUE
  Admins = {admin}
  Edits = {"holder", "archive", "sync", "patch"}
  MaxEdits = 1
  MaxRestarts = 1
CHECK_DEADLOCK FALSE
INVARIANTS
  TypeOK
  StagesTell
  OperationalIsWhole
  OutcomeShown
PROPERTIES
  ImplementsDeployContract
  DeploymentEnds
