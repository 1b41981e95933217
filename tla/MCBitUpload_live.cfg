SPECIFICATION FairSpec
CONSTANTS
  c1 = c1
  c2 = c2
  r1 = r1
  r2 = r2
  Conns = {c1, c2}
  Requests = {r1, r2}
  Asks <- AskApart
  Unreadable = {}
  Quota = 2
  MaxRequests = 2
  MaxPending = 3
  Counting = FALSE
  MaxRounds = 0
PROPERTIES
  RequestsServed
