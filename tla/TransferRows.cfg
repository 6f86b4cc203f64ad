\* Two imports of any logs, run again, killed and failing anywhere, and hooks
\* write while an export collects its document.
SPECIFICATION Spec
CONSTANTS
  p1 = p1
  p2 = p2
  NoId = NoId
  Everything = Everything
  Imports = {p1, p2}
  Logs <- SomeLogs
  Chats <- SomeChats
  HookRows <- SomeHookRows
  Live <- SomeLive
  Filters <- SomeFilters
SYMMETRY ImportsSymmetry
INVARIANTS
  TypeOK
  AnnouncedIsStored
  ChatExtracted
  LinksLead
  DocumentBracketed
PROPERTY GapsStay
\* Nobody is obliged to import or export again.
CHECK_DEADLOCK FALSE
