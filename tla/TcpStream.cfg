\* One session and its leftovers in the next, more data.
SPECIFICATION Spec
CONSTANTS
  a = a
  b = b
  c = c
  Unfilled = Unfilled
  Byte <- MCByte
  Message <- MCMessage
  PeerChunk <- MCPeerChunk
  SockBuf = 2
  MaxSessions = 2
  MaxOut = 2
  MaxIn = 2
INVARIANTS
  SendStream
  HalfMessageOnlyOnError
  ReceivedStream
PROPERTY
  ImplementsByteSession
CHECK_DEADLOCK FALSE
