\* Two inits, one of them with --force, and a hook open any database there may
\* be, and the inits merge settings the user saves once more meanwhile.
SPECIFICATION InstallSpec
CONSTANTS
  o1 = o1
  o2 = o2
  o3 = o3
  Openers = {o1, o2, o3}
  Inits = {o1, o2}
  Forced = {o2}
  Commands <- SomeCommands
  Barq <- SomeBarq
  Own <- SomeOwn
  UserFiles <- SomeFiles
  MaxSaves = 1
INVARIANTS
  InstallTypeOK
  OpenedStoreUsable
  FailsOnlyInCompany
  UserHooksKept
  EventsHookedOnce
PROPERTY
  RegressesOnlyInCompany
\* Processes end.
CHECK_DEADLOCK FALSE
