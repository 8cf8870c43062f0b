\* Three sessions, little data: who closes what, and what must get there.
SPECIFICATION Spec
CONSTANTS
  a = a
  b = b
  c = c
  Unfilled = Unfilled
  Byte <- MCByte
  Message <- MCOneMessage
  PeerChunk <- MCOneChunk
  SockBuf = 1
  MaxSessions = 3
  MaxOut = 1
  MaxIn = 1
INVARIANTS
  TypeOK
  NoOrphanIoThread
  DisconnectedOncePerSession
  LateNoticeOnlyAfterOtherClose
  ForeignTeardownNeedsUserDisconnect
  LateConnectedOnlyAfterOtherClose
  ErrorAlwaysReported
PROPERTIES
  DisconnectReturns
  ErrorTearsDown
  SendProgress
CHECK_DEADLOCK FALSE
