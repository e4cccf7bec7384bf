CONSTANTS
  Threads = {t1, t2}
  NoThread = NoThread
  Tags = {g, s}
  SelfTags = {s}
  NoTag = NoTag
  MaxRequests = 3
  MaxDepth = 3
SPECIFICATION Spec
INVARIANTS
  TypeOK
  TagTracksClosure
PROPERTIES
  OrderUnlessNested
  EveryRequestRuns
CHECK_DEADLOCK TRUE
