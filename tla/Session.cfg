CONSTANTS
  MaxConn = 2
  MaxMsg = 2
  ServerVersions <- MCServerVersions
  Unreadable = {1}
SPECIFICATION FairSpec
INVARIANTS
  InOrder
  DecoderKnowsVersion
  ReaderEndsClosed
PROPERTIES
  QueueServed
  HandshakeEnds
CHECK_DEADLOCK FALSE
