SPECIFICATION Spec
CONSTANTS
  Img <- MCImg
  Urls <- MCUrls
  Fragments <- MCFragments
  Containers <- MCContainers
  MaxParts = 3
  MaxLines = 3
  RenderMode = "links"
  Budget = 6
  NoticeLen = 1
  MaxImages = 2
  Attachments = 1
  Loads = {1}
INVARIANTS
  TypeOK
  TextKept
  CellsApart
  MarksMatchLoads
  FitsEvent
CHECK_DEADLOCK FALSE
