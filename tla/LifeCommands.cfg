SPECIFICATION FairSpec
CONSTANTS
  Daemons = {d1, d2, d3}
  NoDaemon = NoDaemon
INVARIANTS
  TypeOK
  AtMostOneDaemon
  FilesNameServingDaemon
PROPERTIES
  StopEnds
  StartsLeaveDaemon
CHECK_DEADLOCK FALSE
