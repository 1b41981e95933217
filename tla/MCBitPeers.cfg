SPECIFICATION Spec
CONSTANTS
  Conns = {c1, c2}
  Infos = {i1, i2}
  NoInfo = NoInfo
  Updater = Updater
  MinPeerCount = 2
  MaxSends = 3
  MaxMessages = 2
  MaxPieces = 1
SYMMETRY Symmetry
INVARIANTS OneOwner ObserversAttached ConnectedReceives AbsentUsesAreKnown NoDoubleConnect ClosedLeave
PROPERTY LifeSpec
