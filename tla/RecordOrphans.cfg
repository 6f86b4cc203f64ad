SPECIFICATION Spec
CONSTANTS
  h1 = h1
  h2 = h2
  h3 = h3
  s1 = s1
  s2 = s2
  NoSession = NoSession
  Hooks = {h1, h2}
  Kind <- OrphansKind
  Session <- OrphansSession
  Existing = {s1}
  Oversize = {}
  MaxStarts = 1
  MaxClock = 1
INVARIANTS
  ReferentialIntegrity
CHECK_DEADLOCK FALSE
