SPECIFICATION Spec
CONSTANTS
  Trackers = {t1, t2}
  Operations = {o1, o2, o3}
  Threads = {h1, h2}
  NoOne = NoOne
  TimerCount = 3
  ClockSize = 2
  Delays = {1}
  MaxTime = 3
  MaxBufferSize = 4
  MaxNumPerChunk = 2
  AlignSize = 2
  Sizes = {1, 2, 3, 5}
  MaxLive = 3
  PieceCount = 5
  PieceLength = 4
  BlockLength = 1
  FileLengths = {0, 1, 3, 6}
  MaxFiles = 3
  MaxPayload = 2
  MaxMessages = 3
  Bits = 2
  Torrents <- MapsTorrents
  PeerMaps <- MapsPeers
  Characters <- MetaCharacters
  HashSize = 2
  PeerSize = 3
  Objects <- MetaObjects
  TorrentFiles <- MetaTorrents
  TrackerAnswers <- MetaAnswers
\* the parts come to an end: a service is destroyed, the clock stops, a stream ends
CHECK_DEADLOCK FALSE
INVARIANTS
  TimersFire
  CompletionsOnce
  BuffersDisjoint
  FramesWhole
  SearchFindsFirst
  BytesPlaced
  ReadAsWritten
PROPERTIES
  TrackerKeepsTrying
  ResolveAnswered
