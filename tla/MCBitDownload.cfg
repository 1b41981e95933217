SPECIFICATION Spec
CONSTANTS
  c1 = c1
  c2 = c2
  Peers = {c1, c2}
  PieceCount = 2
  BlockCount = 2
  MaxOutstanding = 2
  EndLeft = 1
  Misbehave = {"choke", "drop", "timeout", "rehandshake", "rebitfield"}
  MaxFails = 1
SYMMETRY Symmetry
INVARIANTS
  RequestsTimed
  BlocksConserved
  NoBlockLost
  OutstandingBounded
  SilentHoldNothing
  CompleteIsQuiet
PROPERTIES
  TimedOutIsNotAskedAgain
