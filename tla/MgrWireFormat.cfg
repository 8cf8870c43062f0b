\* The documented frame against the one sent.
SPECIFICATION MgrSpec
CONSTANTS
  Unfilled = Unfilled
  HeaderLen = 4
  ByteBase = 16
  Byte <- MCByte
  AppMessage <- MCAppMessage
  PeerMessage <- MCPeerMessage
  Message <- MCMessage
  PeerChunk <- MCPeerChunk
  SockBuf = 5
  MaxSessions = 1
  MaxOut = 1
  MaxIn = 0
INVARIANT
  LengthCountsTagAndChecksum
CHECK_DEADLOCK FALSE
