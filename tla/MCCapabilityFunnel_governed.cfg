SPECIFICATION Spec
CONSTANTS
  c1 = c1
  c2 = c2
  r1 = r1
  Callers = {c1, c2}
  Requests = {r1}
  Policies <- DenyOverAllow
  TTL = 1
  MaxEval = 1
  Ranks <- TwoRanks
  MinRank = 3
SYMMETRY Symmetry
INVARIANTS
  TypeOK
  FreshAllow
PROPERTY
  ImplementsInvocationContract
