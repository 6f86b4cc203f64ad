\* Two refreshes overlap, or a watch polls, or three requests are answered,
\* while HEAD moves and the trace is written.
SPECIFICATION FairSpec
CONSTANTS
  Found <- SomeFound
  TopN = 2
  MaxHead = 2
  MaxTrace = 2
  Slots = {1, 2}
  Lines = {"stats", "other", "malformed", "blank", "long"}
  MaxLines = 3
INVARIANTS
  TypeOK
  CursorOnList
  AnswersCoherent
PROPERTIES
  BackOnlyByOverlap
  CatchesUp
  WatchStops
\* The user quits the tui, a signal ends watch and a client closes the input
\* of mcp.
CHECK_DEADLOCK FALSE
