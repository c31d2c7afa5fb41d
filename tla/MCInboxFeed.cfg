SPECIFICATION Spec
CONSTANTS
  p1 = p1 p2 = p2 doc1 = doc1 doc2 = doc2 v1 = v1 v2 = v2 c1 = c1
  Publishers <- MCPublishers
  Paths <- MCPaths
  Contents <- MCContents
  Drafts <- MCDrafts
  MaxAttempts = 2
  MaxPosts = 1
  Listeners <- MCListeners
  Rewriters <- MCRewriters
  Page = 2
  Modes = {"bridge", "start"}
  MaxStarts = 2
  MaxFaults = 1
INVARIANTS
  TypeOK SavedCursorAccounted AnnouncedFileIsPinned LinesInOrder OutOfTurnIsOld
PROPERTIES
  PlainEventsDelivered
CHECK_DEADLOCK FALSE
