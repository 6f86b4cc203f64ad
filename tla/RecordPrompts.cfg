SPECIFICATION Spec
CONSTANTS
  h1 = h1
  h2 = h2
  h3 = h3
  s1 = s1
  s2 = s2
  NoSession = NoSession
  Hooks = {h1, h2, h3}
  Kind <- PromptsKind
  Session <- PromptsSession
  Existing = {s1}
  Oversize = {}
  MaxStarts = 1
  MaxClock = 1
SYMMETRY PromptsSymmetry
INVARIANTS
  TypeOK
  NoSilentLoss
  LinkIsFresh
PROPERTIES
  SettledWhenDone
CHECK_DEADLOCK FALSE
