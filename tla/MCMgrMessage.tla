---------------------------- MODULE MCMgrMessage ----------------------------
(* Small instances of MgrMessage, with the header of the code; a byte has  *)
(* sixteen values, so that the length's modulus fits TLC's integers.          *)
EXTENDS MgrMessage

MCByte == 0..ByteBase - 1
MCAppMessage == {<<1>>}
MCPeerMessages == {<<7, 8>>, << >>}
MCPeerMessage == {<<7>>}
MCMessage == {Encode(m) : m \in AppMessage}
Pieces(s) == {SubSeq(s, i, j) : i, j \in 1..Len(s)} \ {<< >>}
MCPeerChunk == UNION {Pieces(Encode(m)) : m \in PeerMessage}
=============================================================================
