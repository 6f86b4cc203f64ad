\* Two clients post documents, accepted or not, while /stats is read once and
\* the server is started twice and killed at any time.
SPECIFICATION FairSpec
CONSTANTS
  p1 = p1
  p2 = p2
  sync = sync
  ann = ann
  bob = bob
  mallory = mallory
  Empty = Empty
  Posts = {p1, p2}
  Sender <- IngestSender
  Readers = {r1}
  Docs <- SomeDocs
  Members = {ann, bob}
  MaxEdits = 3
  MaxStarts = 2
INVARIANTS
  TypeOK
  WholeDocument
  AnswerTruthful
  FiguresBracketed
PROPERTY
  LockReleased
\* Nobody is obliged to send another request.
CHECK_DEADLOCK FALSE
