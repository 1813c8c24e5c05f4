SPECIFICATION Spec
CONSTANTS
  s1 = s1
  s2 = s2
  admin = admin
  Seats = {s1, s2}
  SOPs = 1
  Integrates = TRUE
  HasMemory = TRUE
  Admins = {admin}
  Edits = {"sync"}
  MaxEdits = 1
  MaxRestarts = 0
CHECK_DEADLOCK FALSE
PROPERTY
  SyncTouchesOnlyServices
