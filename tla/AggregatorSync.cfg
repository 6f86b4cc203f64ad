\* A sync and another client: the server refuses the version sync sends.
SPECIFICATION Spec
CONSTANTS
  p1 = p1
  p2 = p2
  sync = sync
  ann = ann
  bob = bob
  mallory = mallory
  Empty = Empty
  Posts = {p1, sync}
  Sender <- SyncSender
  Readers = {r1}
  Docs <- SomeDocs
  Members = {ann, bob}
  MaxEdits = 3
  MaxStarts = 1
INVARIANT
  SyncUnderstood
CHECK_DEADLOCK FALSE
