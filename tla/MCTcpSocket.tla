---------------------------- MODULE MCTcpSocket ----------------------------
(* Small instances of TcpSocket. *)
EXTENDS TcpSocket

CONSTANTS a, b, c

MCByte == {a, b, c}
\* A message that may be sent in two pieces and one that may not.
MCMessage == {<<a, b>>, <<c>>}
MCOneMessage == {<<a, b>>}
MCPeerChunk == {<<a>>, <<b>>}
MCOneChunk == {<<a>>}
=============================================================================
