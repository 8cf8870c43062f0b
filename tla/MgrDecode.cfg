\* Two connections, frames cut anywhere.
SPECIFICATION MgrSpec
CONSTANTS
  Unfilled = Unfilled
  HeaderLen = 4
  ByteBase = 16
  Byte <- MCByte
  AppMessage <- MCAppMessage
  PeerMessage <- MCPeerMessages
  Message <- MCMessage
  PeerChunk <- MCPeerChunk
  SockBuf = 5
  MaxSessions = 2
  MaxOut = 0
  MaxIn = 10
INVARIANTS
  MgrTypeOK
  DecodedArePeerMessages
  DispatchInOrder
  OldMessageOnlyAfterErrorClose
PROPERTY
  ImplementsInbox
CHECK_DEADLOCK FALSE
