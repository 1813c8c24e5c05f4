SPECIFICATION Spec
CONSTANTS
  g1 = g1
  p1 = p1
  Gates <- OnlyNode
  NodeGates <- OnlyNode
  MinApprovals <- One
  MaxRejections <- Tolerated
  Occurs = {"approve", "reject", "delegate", "expire", "delete", "answer", "respond", "cancel", "stop", "timeout"}
  MaxTrouble = 1
  MaxRestarts = 1
INVARIANTS
  TypeOK
  DecisionsAgree
PROPERTY
  ImplementsGateContract
\* people may stop acting
CHECK_DEADLOCK FALSE
