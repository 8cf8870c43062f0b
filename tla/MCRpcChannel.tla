---------------------------- MODULE MCRpcChannel ----------------------------
(* Small instances of RpcChannel: one request type that is answered and    *)
(* one that is not, in each direction.                                     *)
EXTENDS RpcChannel

CONSTANTS SignIn, NotifyLoadedScene, EnterScene, Query

MCRequest == {SignIn, NotifyLoadedScene}
MCOneWay == {NotifyLoadedScene}
MCServiceRequest == {EnterScene, Query}
MCSilent == {EnterScene}
MCNone == {}
=============================================================================
