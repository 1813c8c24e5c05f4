SPECIFICATION Spec
CONSTANTS
  a = a
  b = b
  c = c
  d = d
  Nodes = {a, b, c}
  Edges <- ForkEdges
  Guarded <- GuardIntoB
  MaxAttempts <- RetryA
  ErrorStrategy = "abort"
  StoreMode = "postgres"
  Runs = {r1, r2}
  Processes = {p1, p2}
  MaxAlive = 1
  MaxFaults = 1
  Interventions = {"cancel"}
  NoRun = NoRun
  NoProc = NoProc
INVARIANTS
  RunningHasExecutor
  IsRunningHonest
CHECK_DEADLOCK FALSE
