---------------------------- MODULE GameSession ----------------------------
(***************************************************************************)
(* What the game does with the channel: signing in (TestUI.cpp and the     *)
(* stub's callback, Rpc/c2a_user_stub.cpp), entering a scene and taking    *)
(* over a pawn (Rpc/g2c_scene.cpp, MgrActor.cpp), and telling the server   *)
(* that a level is loaded (ThirdPersonMPGameMode.cpp).                     *)
(*                                                                         *)
(* It composes with RpcChannel: each action is an action there, plus what  *)
(* the game does in the same call.  OpenLevel only sets what to open; the  *)
(* engine loads it before its next tick, and another message may be        *)
(* dispatched before that.  The server is external: it creates a pawn when *)
(* it likes, and enters a scene after a sign-in.                           *)
(***************************************************************************)
EXTENDS RpcChannel

CONSTANT Account          \* what the user may enter; 0 is what no number reads as

Stamp == Account \cup {0}            \* the accid field of a message
SignIns == [kind : {"signIn"}, accid : Account, stamp : Stamp]
(* older is a ghost: the level was only for EnterScenes of older           *)
(* connections.                                                            *)
Notices == [kind : {"notifyLoaded"}, stamp : Stamp, older : BOOLEAN]

NoPawn == -1                         \* for the default pawn

(* conn and answered are ghosts: the connection, and whether every         *)
(* EnterScene before it has been answered by a notice.                     *)
Enters == [kind : {"enterScene"}, conn : 1..MaxConnections]
Pawns == [kind : {"createPawn"}, conn : 1..MaxConnections, accid : Account,
          answered : BOOLEAN]

ASSUME GameAssumption ==
  /\ Account \subseteq Nat
  /\ Request = SignIns \cup Notices /\ OneWay = Notices
  /\ ServiceRequest = Enters \cup Pawns /\ Silent = ServiceRequest

VARIABLES
  m_accid,       \* UMgrMessage's
  uiShown,
  pendingLevel,  \* OpenLevel, or the program's start, asked for a level
  worlds,        \* how many have been loaded
  pawn           \* whose pawn the controller has

VARIABLES        \* ghosts
  calls,         \* the request of each call
  click,         \* the last click's call, and how many callbacks preceded it
  pendingFor,    \* the EnterScenes that pendingLevel is for, and whence
  notified,      \* the EnterScenes the server has been told are loaded
  peerSigned,    \* the server has had a sign-in on this connection
  peerAwaits,    \* EnterScenes it has sent on it, less notices it has had
  misled         \* connections that had an older level's notice among these

sceneVars == <<uiShown, pendingLevel, worlds, pawn, pendingFor, notified>>
clickVars == <<calls, click>>
serverVars == <<peerSigned, peerAwaits, misled>>
gameVars == <<m_accid, sceneVars, clickVars, serverVars>>
allVars == <<vars, gameVars>>

(* The level of the program's start is loaded after Initialize.            *)
GameInit ==
  /\ Init
  /\ m_accid = 0 /\ uiShown = FALSE
  /\ pendingLevel = TRUE /\ worlds = 0 /\ pawn = NoPawn
  /\ calls = << >> /\ click = [call |-> 0, seen |-> 0]
  /\ pendingFor = {} /\ notified = {}
  /\ peerSigned = FALSE /\ peerAwaits = 0 /\ misled = {}

PendingOf(conn) == {e \in pendingFor : e.conn = conn}
LoadedNotice ==
  [kind |-> "notifyLoaded", stamp |-> m_accid,
   older |-> pendingFor # {} /\ PendingOf(connections) = {}]
NotifiedOf(es) == notified \cup {e.id : e \in es}

-----------------------------------------------------------------------------
(* Mistakes the properties below would show; GameSpec uses none of them.   *)

ButtonSendsFirst(accid) ==
  LET request == [kind |-> "signIn", accid |-> accid, stamp |-> m_accid]
  IN  /\ uiShown /\ uiShown' = FALSE
      /\ m_accid' = accid /\ SendRequest(request)
      /\ calls' = Append(calls, request)
      /\ click' = [call |-> sent', seen |-> Len(callbacks)]
  /\ UNCHANGED <<pendingLevel, worlds, pawn, pendingFor, notified, serverVars>>

ButtonWaitsForAnswer(accid) ==
  LET request == [kind |-> "signIn", accid |-> accid, stamp |-> m_accid]
  IN  /\ uiShown /\ uiShown' = FALSE
      /\ m_accid' = m_accid /\ SendRequest(request)
      /\ calls' = Append(calls, request)
      /\ click' = [call |-> sent', seen |-> Len(callbacks)]
  /\ UNCHANGED <<pendingLevel, worlds, pawn, pendingFor, notified, serverVars>>

LoadLevelNotifiesFirst ==
  /\ pendingLevel /\ pendingLevel' \in BOOLEAN /\ worlds' = worlds + 1
  /\ pawn' = NoPawn /\ uiShown' \in BOOLEAN
  /\ SendRequest(LoadedNotice) /\ calls' = Append(calls, LoadedNotice)
  /\ notified' = IF connected THEN NotifiedOf(pendingFor) ELSE notified
  /\ pendingFor' = IF pendingLevel' THEN pendingFor ELSE {}
  /\ UNCHANGED <<m_accid, click, serverVars>>

LoadLevelSilently ==
  /\ pendingLevel /\ pendingLevel' = FALSE /\ worlds' = worlds + 1
  /\ pawn' = NoPawn /\ uiShown' \in BOOLEAN /\ pendingFor' = {}
  /\ UNCHANGED <<vars, m_accid, clickVars, notified, serverVars>>

EnterSceneIgnored(msg) ==
  /\ pendingLevel' = pendingLevel
  /\ pendingFor' = pendingFor \cup {[id |-> msg.id, conn |-> msg.request.conn]}
  /\ UNCHANGED <<m_accid, uiShown, worlds, pawn, notified>>

-----------------------------------------------------------------------------
(* The user and the engine *)

(* UTestUI::onButtonTest: SetAccid, Send, which stamps the message with    *)
(* GetAccid, and the widget hides, whatever became of the message.         *)
onButtonTest(accid) ==
  LET request == [kind |-> "signIn", accid |-> accid, stamp |-> m_accid']
  IN  /\ uiShown /\ uiShown' = FALSE
      /\ m_accid' = accid /\ SendRequest(request)
      /\ calls' = Append(calls, request)
      /\ click' = [call |-> sent', seen |-> Len(callbacks)]
  /\ UNCHANGED <<pendingLevel, worlds, pawn, pendingFor, notified, serverVars>>

(* C2G_NotifyLoadedScene, stamped with GetAccid too.                       *)
C2G_NotifyLoadedScene ==
  /\ SendRequest(LoadedNotice) /\ calls' = Append(calls, LoadedNotice)
  /\ notified' = IF connected THEN NotifiedOf(pendingFor) ELSE notified
  /\ pendingFor' = {}

(* The engine opens the level, with a new game mode, a default pawn and    *)
(* perhaps a new widget; the game mode's BeginPlay notifies the server.    *)
LoadLevel ==
  /\ pendingLevel /\ pendingLevel' = FALSE /\ worlds' = worlds + 1
  /\ pawn' = NoPawn /\ uiShown' \in BOOLEAN
  /\ C2G_NotifyLoadedScene
  /\ UNCHANGED <<m_accid, click, serverVars>>

-----------------------------------------------------------------------------
(* What the stub's callback and the services do when OnMessage calls them  *)

(* C2A_UserSignIn_DoneCb, for a call that got one; the other stubs' do     *)
(* nothing.                                                                *)
DoneCb ==
  /\ m_accid' = IF callbacks' = callbacks THEN m_accid
                ELSE LET request == calls[callbacks'[Len(callbacks')].call]
                     IN  IF request.kind = "signIn" THEN request.accid
                         ELSE m_accid
  /\ UNCHANGED sceneVars

G2C_EnterScene(msg) ==
  /\ pendingLevel' = TRUE
  /\ pendingFor' = pendingFor \cup {[id |-> msg.id, conn |-> msg.request.conn]}
  /\ UNCHANGED <<m_accid, uiShown, worlds, pawn, notified>>

(* ChangeApawn: the controller possesses the pawn.                         *)
ChangeApawn(owner) == pawn' = owner

(* It spawns a pawn in the world there is, which the engine may refuse.    *)
G2C_CreatePlayerPawn(msg) ==
  /\ \/ msg.request.accid = m_accid /\ ChangeApawn(m_accid)
     \/ UNCHANGED pawn
  /\ UNCHANGED <<m_accid, uiShown, pendingLevel, worlds, pendingFor, notified>>

(* UMgrMessage ticks with a world.                                         *)
Dispatch ==
  /\ worlds > 0
  /\ OnMessage
  /\ LET msg == Head(toClient)
     IN  \/ /\ msg.type = "response"
            /\ DoneCb \/ UNCHANGED <<m_accid, sceneVars>>
         \/ /\ msg.type = "request" /\ msg.request.kind = "enterScene"
            /\ G2C_EnterScene(msg)
         \/ /\ msg.type = "request" /\ msg.request.kind = "createPawn"
            /\ G2C_CreatePlayerPawn(msg)
         \/ msg.type = "other" /\ UNCHANGED <<m_accid, sceneVars>>
  /\ UNCHANGED <<clickVars, serverVars>>

-----------------------------------------------------------------------------
(* The server and the connection *)

ServerEnters ==
  /\ peerSigned /\ peerAwaits' = peerAwaits + 1
  /\ PeerCalls([kind |-> "enterScene", conn |-> connections], "none")
  /\ UNCHANGED <<m_accid, sceneVars, clickVars, peerSigned, misled>>

ServerCreates(accid) ==
  /\ PeerCalls([kind |-> "createPawn", conn |-> connections, accid |-> accid,
                answered |-> peerSigned /\ peerAwaits = 0], "none")
  /\ UNCHANGED gameVars

(* The server counts notices; it cannot tell which level one is for.       *)
ServerReceives ==
  /\ PeerReceives
  /\ LET msg == Head(toPeer)
         kind == IF msg.type = "request" THEN msg.request.kind ELSE "reply"
         counts == kind = "notifyLoaded" /\ peerAwaits > 0
     IN  /\ peerSigned' = (peerSigned \/ kind = "signIn")
         /\ peerAwaits' = IF counts THEN peerAwaits - 1 ELSE peerAwaits
         /\ misled' = IF counts /\ msg.request.older
                        THEN misled \cup {connections} ELSE misled
  /\ UNCHANGED <<m_accid, sceneVars, clickVars>>

SessionEnds ==
  /\ ConnectionEnds
  /\ peerSigned' = FALSE /\ peerAwaits' = 0
  /\ UNCHANGED <<m_accid, sceneVars, clickVars, misled>>

SessionStarts ==
  /\ Reconnect /\ UNCHANGED gameVars

OtherSteps ==
  /\ \/ \E id \in DOMAIN peerOwes, body \in Answers : PeerAnswers(id, body)
     \/ PeerSendsOther \/ DisconnectEmpties
  /\ UNCHANGED gameVars

-----------------------------------------------------------------------------
GameNext ==
  \/ \E accid \in Account : onButtonTest(accid) \/ ServerCreates(accid)
  \/ LoadLevel \/ Dispatch
  \/ ServerEnters \/ ServerReceives
  \/ SessionEnds \/ SessionStarts \/ OtherSteps

(* The engine loads a level it was asked for, and ticks UMgrMessage.       *)
GameFairness == WF_allVars(LoadLevel) /\ WF_allVars(Dispatch)
GameSpec == GameInit /\ [][GameNext]_allVars /\ GameFairness

-----------------------------------------------------------------------------
(* Properties *)

(* Types; and the level pending, when there is one, is the one asked for.  *)
GameTypeOK ==
  /\ m_accid \in Stamp /\ pawn \in Stamp \cup {NoPawn}
  /\ uiShown \in BOOLEAN /\ pendingLevel \in BOOLEAN
  /\ peerSigned \in BOOLEAN /\ misled \subseteq 1..MaxConnections
  /\ worlds \in Nat /\ peerAwaits \in Nat
  /\ calls \in Seq(Request) /\ Len(calls) = sent
  /\ click \in [call : 0..sent, seen : 0..Len(callbacks)]
  /\ pendingFor \subseteq [id : 1..MaxPeerId, conn : 1..MaxConnections]
  /\ notified \subseteq 1..MaxPeerId
  /\ pendingFor # {} => pendingLevel

(* The account is the one of the last click, or of a sign-in before it     *)
(* whose answer came after that click: SetAccid runs before the server has *)
(* answered, and the callback of a late answer runs it again.              *)
AccidIsOfLastClickOrLateAnswer ==
  IF click.call = 0 THEN m_accid = 0
  ELSE \/ m_accid = calls[click.call].accid
       \/ \E i \in click.seen + 1..Len(callbacks) :
            /\ callbacks[i].call < click.call
            /\ calls[callbacks[i].call].kind = "signIn"
            /\ calls[callbacks[i].call].accid = m_accid

(* Whatever late answers do to the account, a sign-in travels under the    *)
(* account it signs in.                                                    *)
SignInUnderItsAccount ==
  \A i \in 1..Len(toPeer) :
    LET msg == toPeer[i]
    IN  msg.type = "request" /\ msg.request.kind = "signIn"
          => msg.request.stamp = msg.request.accid

(* A server that has had a notice for every EnterScene creates a pawn that *)
(* the client does not throw away with the level it is about to leave,     *)
(* though OpenLevel is deferred and a tick dispatches all there is.  Two   *)
(* cases are excepted.  The level is only for EnterScenes that outlived an *)
(* older connection; or the server of the pawn's connection has had the    *)
(* notice of such a level and took it for one of its own EnterScenes'.     *)
PawnOutlivesTravel ==
  (toClient # << >> /\ worlds > 0 /\ Head(toClient).type = "request"
     /\ Head(toClient).request.kind = "createPawn"
     /\ Head(toClient).request.answered)
    => LET conn == Head(toClient).request.conn
       IN  \/ ~pendingLevel \/ conn \in misled
           \/ pendingFor # {} /\ \A e \in pendingFor : e.conn < conn

(* An EnterScene that has reached the client's queue is loaded and the     *)
(* server told, even when several are dispatched before one load; unless   *)
(* the connection ends or has ended.                                       *)
EnterSceneNotifies ==
  \A id \in 1..MaxPeerId :
    (\E i \in 1..Len(toClient) :
       toClient[i].type = "request" /\ toClient[i].id = id
         /\ toClient[i].request.kind = "enterScene")
      ~> id \in notified \/ ~connected \/ m_id = MaxId

=============================================================================
