SPECIFICATION Spec
CONSTANTS
  j1 = j1
  j2 = j2
  a = a
  b = b
  Jobs = {j1, j2}
  Hashes = {a}
  Content <- OneChunk
  MaxRuns <- Bounds
  MaxTrouble = 0
INVARIANT NeverReportSuccess
