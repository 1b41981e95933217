SPECIFICATION FairSpec
CONSTANTS
  p1 = p1
  b1 = b1
  Pieces = {p1, p2}
  Blocks = {b1, b2}
  Extent <- Straddling
  Objs = {o1, o2}
  NoObj = NoObj
  Readers = {r1}
  Beyond = Beyond
  Wrapping = Wrapping
  MaxCache = 0
  Failing = {}
  StaleRequests = FALSE
\* a task that is destroyed stops; DestructorEnds says it does not stop before
CHECK_DEADLOCK FALSE
INVARIANTS
  DownloadedOnDisk
  NotRedispatched
  CacheFits
PROPERTIES
  ReadsAnswered
  ChecksEnd
  DestructorEnds
