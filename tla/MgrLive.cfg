\* TcpSocket's specification, and liveness; a short header, so that a message
\* and the first byte of the next one fit.
SPECIFICATION MgrSpec
CONSTANTS
  Unfilled = Unfilled
  HeaderLen = 2
  ByteBase = 16
  Byte <- MCByte
  AppMessage <- MCAppMessage
  PeerMessage <- MCPeerMessage
  Message <- MCMessage
  PeerChunk <- MCPeerChunk
  SockBuf = 1
  MaxSessions = 2
  MaxOut = 1
  MaxIn = 4
PROPERTIES
  Spec
  WrittenIsDispatched
CHECK_DEADLOCK FALSE
