\* A signal reaches an mcp server whose client says nothing.
SPECIFICATION FairSpec
CONSTANTS
  Found <- SomeFound
  TopN = 2
  MaxHead = 1
  MaxTrace = 1
  Slots = {1}
  Lines = {"stats"}
  MaxLines = 1
PROPERTY
  SignalEndsServer
CHECK_DEADLOCK FALSE
