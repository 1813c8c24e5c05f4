SPECIFICATION FairSpec
CONSTANTS
  j1 = j1
  j2 = j2
  a = a
  b = b
  Jobs = {j1}
  Hashes = {a, b}
  Content <- TwoChunks
  MaxRuns <- Bounds
  MaxTrouble = 1
INVARIANTS
  TypeOK
  CompletedIsWhole
PROPERTIES
  ImplementsContentContract
  JobEnds
