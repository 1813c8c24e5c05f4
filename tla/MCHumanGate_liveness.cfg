SPECIFICATION FairSpec
CONSTANTS
  g1 = g1
  p1 = p1
  Gates <- Two
  NodeGates <- OnlyNode
  MinApprovals <- One
  MaxRejections <- Tolerated
  Occurs = {"approve", "reject", "delegate", "stop", "timeout"}
  MaxTrouble = 1
  MaxRestarts = 0
INVARIANT
  QuorumDecides
PROPERTIES
  ResponseApplied
  DecisionReachesNode
  GateEnds
\* people may stop acting
CHECK_DEADLOCK FALSE
