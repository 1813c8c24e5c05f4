SPECIFICATION FairSpec
CONSTANTS
  r1 = r1
  Requests = {r1}
  Drafts = {r1}
  NamedGates = {r1}
  MissLimit = 2
  MaxRestarts = 1
INVARIANTS
  TypeOK
  VerdictFounded
  AnnouncedOnce
PROPERTIES
  VerdictStays
  ImplementsRequestContract
  RunEndSeen
