SPECIFICATION Spec
CONSTANTS
  p1 = p1
  b1 = b1
  Pieces = {p1, p2}
  Blocks = {b1, b2}
  Extent <- OneFile
  Objs = {o1, o2, o3}
  NoObj = NoObj
  Readers = {r1, r2}
  Beyond = Beyond
  Wrapping = Wrapping
  MaxCache = 1
  Failing = {}
  StaleRequests = TRUE
SYMMETRY Symmetry
INVARIANTS
  TypeOK
  StateTracksPipeline
  NoDataRace
  ReadSuccessIsTrue
  ReadsAreShared
PROPERTIES
  VerifiedStaysVerified
