SPECIFICATION Spec
CONSTANTS
  p1 = p1
  b1 = b1
  Pieces = {p1, p2}
  Blocks = {b1, b2}
  Extent <- Straddling
  Objs = {o1, o2}
  NoObj = NoObj
  Readers = {r1}
  Beyond = Beyond
  Wrapping = Wrapping
  MaxCache = 1
  Failing = {}
  StaleRequests = FALSE
INVARIANT CompleteMeansAll
