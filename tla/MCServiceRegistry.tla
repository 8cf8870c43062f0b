------------------------- MODULE MCServiceRegistry -------------------------
(* The four services of the program, and one more type: a service with a   *)
(* stub beside it, sharing a request with another.                         *)
EXTENDS ServiceRegistry

CONSTANTS UserSignIn, UserLogin, NotifyLoadedScene, MoveState, EnterScene,
          CreatePlayerPawn

MCServiceName ==
  << <<"C", "2", "A">>, <<"C", "2", "G">>, <<"C", "2", "G">>,
     <<"G", "2", "C">>, <<"C", "2">> >>
MCMethods ==
  << <<UserSignIn>>, <<UserLogin>>, <<NotifyLoadedScene, MoveState>>,
     <<EnterScene, CreatePlayerPawn>>, <<MoveState, UserLogin>> >>
MCLinked ==
  {<<1, TRUE>>, <<2, TRUE>>, <<3, TRUE>>, <<4, FALSE>>, <<5, FALSE>>, <<5, TRUE>>}
=============================================================================
