SPECIFICATION Spec
CONSTANTS
  a = a
  b = b
  c = c
  d = d
  Nodes = {a, b}
  Edges <- ChainEdges
  Guarded <- NoGuards
  MaxAttempts <- RetryA
  ErrorStrategy = "continue"
  StoreMode = "memory"
  Runs = {r1}
  Processes = {p1}
  MaxAlive = 1
  MaxFaults = 0
  Interventions = {}
  NoRun = NoRun
  NoProc = NoProc
INVARIANTS
  RetryUnblocksSuccessors
CHECK_DEADLOCK FALSE
