SPECIFICATION Spec
CONSTANTS
  c1 = c1
  c2 = c2
  Peers = {c1, c2}
  PieceCount = 2
  BlockCount = 2
  MaxOutstanding = 1
  EndLeft = 1
  Misbehave = {}
  MaxFails = 0
SYMMETRY Symmetry
INVARIANTS
  EveryPeerMayRequest
