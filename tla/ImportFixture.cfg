\* One import of the chat the compatibility test imports.
SPECIFICATION Spec
CONSTANTS
  p1 = p1
  p2 = p2
  NoId = NoId
  Everything = Everything
  Imports = {p1}
  Logs <- FixtureLogs
  Chats <- FixtureChats
  HookRows = {}
  Live <- SomeLive
  Filters = {}
INVARIANT ImportedCorrectly
CHECK_DEADLOCK FALSE
