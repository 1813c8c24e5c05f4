SPECIFICATION FairSpec
CONSTANTS
  a = a
  b = b
  c = c
  d = d
  Nodes = {a, b, c, d}
  Edges <- DiamondEdges
  Guarded <- GuardIntoC
  MaxAttempts <- RetryABD
  ErrorStrategy = "continue"
  StoreMode = "memory"
  Runs = {r1, r2}
  Processes = {p1}
  MaxAlive = 1
  MaxFaults = 0
  Interventions = {"pause", "resume", "cancel", "stop"}
  NoRun = NoRun
  NoProc = NoProc
INVARIANTS
  TypeOK
  PredecessorsSucceeded
  NodesRunOnce
  AllNodesExecuted
  
PROPERTIES
  ImplementsGraphRun
  RunsEnd
  RunningSettles
CHECK_DEADLOCK FALSE
