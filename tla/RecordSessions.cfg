\* A session is opened, a command too long for the daemon runs in it, and a
\* session without an id is closed, across two lives of the daemon. No property
\* here depends on the time of an event.
SPECIFICATION FairSpec
CONSTANTS
  h1 = h1
  h2 = h2
  h3 = h3
  s1 = s1
  s2 = s2
  NoSession = NoSession
  Hooks = {h1, h2, h3}
  Kind <- SessionsKind
  Session <- SessionsSession
  Existing = {}
  Oversize = {h2}
  MaxStarts = 2
  MaxClock = 0
INVARIANT
  NoSilentDuplicate
PROPERTIES
  HookTerminates
  ImplementsTraceLog
CHECK_DEADLOCK FALSE
