SPECIFICATION Spec
CONSTANTS
  a = a
  b = b
  c = c
  d = d
  Nodes = {a, b}
  Edges <- ChainEdges
  Guarded <- NoGuards
  MaxAttempts <- RetryA
  ErrorStrategy = "abort"
  StoreMode = "memory"
  Runs = {r1}
  Processes = {p1}
  MaxAlive = 1
  MaxFaults = 0
  Interventions = {}
  NoRun = NoRun
  NoProc = NoProc
INVARIANTS
  RetriesAreMade
CHECK_DEADLOCK FALSE
