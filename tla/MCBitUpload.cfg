SPECIFICATION Spec
CONSTANTS
  c1 = c1
  c2 = c2
  r1 = r1
  r2 = r2
  Conns = {c1, c2}
  Requests = {r1, r2}
  Asks <- AskAll
  Unreadable = {r2}
  Quota = 2
  MaxRequests = 2
  MaxPending = 3
  Counting = TRUE
  MaxRounds = 3
\* the model stops counting, and uploading, at MaxRounds
CHECK_DEADLOCK FALSE
INVARIANTS
  TypeOK
  ChainUnbroken
  UploadRate
