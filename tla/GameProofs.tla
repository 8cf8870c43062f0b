----------------------------- MODULE GameProofs -----------------------------
(***************************************************************************)
(* Theorems about GameSession, for every choice of the constants.  Each of *)
(* its steps is a step of RpcChannel, so what is proved of the channel     *)
(* holds with the game on top of it; the account then follows the last     *)
(* click by an induction over the calls made since; and a pawn survives    *)
(* because its connection's levels and notices under way never exceed what *)
(* the server still awaits, as long as no older level's notice counts.     *)
(***************************************************************************)
EXTENDS GameSession, RpcChannelProofs

(* The calls made, and the click among them: no sign-in came after it.     *)
Calls ==
  /\ calls \in Seq(Request) /\ Len(calls) = m_id
  /\ click \in [call : 0..m_id, seen : 0..Len(callbacks)]
  /\ click.call # 0 => calls[click.call].kind = "signIn"
  /\ \A k \in click.call + 1..m_id : calls[k].kind # "signIn"

GameInv ==
  /\ CallInv /\ Calls /\ GameTypeOK
  /\ AccidIsOfLastClickOrLateAnswer /\ SignInUnderItsAccount

LEMMA RequestShape ==
  /\ SignIns \subseteq Request /\ Notices \subseteq Request
  /\ \A r \in Request : /\ r.kind \in {"signIn", "notifyLoaded"}
                        /\ r.kind = "signIn" => r \in SignIns /\ r.accid \in Account
BY GameAssumption DEF SignIns, Notices

LEMMA NoticeShape ==
  ASSUME m_accid \in Stamp
  PROVE  /\ LoadedNotice \in Request /\ LoadedNotice.kind = "notifyLoaded"
         /\ LoadedNotice.older
              <=> pendingFor # {} /\ PendingOf(connections) = {}
<1> DEFINE o == pendingFor # {} /\ PendingOf(connections) = {}
<1>1. o \in BOOLEAN
  OBVIOUS
<1>2. LoadedNotice = [kind |-> "notifyLoaded", stamp |-> m_accid, older |-> o]
  BY DEF LoadedNotice
<1>3. LoadedNotice.older <=> o
  <2> HIDE DEF o
  <2> QED BY <1>1, <1>2
<1>4. LoadedNotice \in Notices
  <2> HIDE DEF o
  <2> QED BY <1>1, <1>2 DEF Notices
<1> QED BY <1>2, <1>3, <1>4, RequestShape

LEMMA ConnShape ==
  \A r \in ServiceRequest : r.conn \in 1..MaxConnections
BY GameAssumption DEF Enters, Pawns

LEMMA Counts ==
  ASSUME CallInv
  PROVE  /\ m_id \in Nat /\ sent = m_id /\ Len(callbacks) \in Nat
         /\ \A i \in 1..Len(callbacks) : callbacks[i].call \in 1..m_id
<1>1. /\ m_id \in Nat /\ sent = m_id /\ callbacks \in Seq(Callback)
      /\ CalledBack \subseteq 1..m_id
  BY Bounds DEF CallInv, CallTable
<1> QED BY <1>1, LenProperties DEF CalledBack

-----------------------------------------------------------------------------
(* The channel *)

LEMMA ClickCalls ==
  ASSUME GameInv, NEW accid \in Account, onButtonTest(accid)
  PROVE  \E r \in Request : SendRequest(r)
<1> DEFINE r == [kind |-> "signIn", accid |-> accid, stamp |-> m_accid']
<1>1. r \in Request
  BY RequestShape DEF onButtonTest, SignIns, Stamp
<1>2. SendRequest(r)
  BY DEF onButtonTest
<1> QED BY <1>1, <1>2

LEMMA LoadCalls ==
  ASSUME GameInv, LoadLevel
  PROVE  \E r \in Request : SendRequest(r)
<1>1. LoadedNotice \in Request
  BY NoticeShape DEF GameInv, GameTypeOK
<1>2. SendRequest(LoadedNotice)
  BY DEF LoadLevel, C2G_NotifyLoadedScene
<1> QED BY <1>1, <1>2

LEMMA ServerCalls ==
  ASSUME GameInv,
         ServerEnters \/ \E accid \in Account : ServerCreates(accid)
  PROVE  \E r \in ServiceRequest, fault \in Faults : PeerCalls(r, fault)
<1>1. connections \in 1..MaxConnections /\ "none" \in Faults
  BY DEF GameInv, CallInv, Delays, Faults
<1>2. CASE ServerEnters
  <2>1. [kind |-> "enterScene", conn |-> connections] \in ServiceRequest
    BY <1>1, GameAssumption DEF Enters
  <2> QED BY <1>1, <1>2, <2>1 DEF ServerEnters
<1>3. ASSUME NEW accid \in Account, ServerCreates(accid)
      PROVE  \E r \in ServiceRequest, fault \in Faults : PeerCalls(r, fault)
  <2> DEFINE a == peerSigned /\ peerAwaits = 0
             r == [kind |-> "createPawn", conn |-> connections,
                   accid |-> accid, answered |-> a]
  <2>1. a \in BOOLEAN
    OBVIOUS
  <2>2. PeerCalls(r, "none")
    BY <1>3 DEF ServerCreates
  <2> HIDE DEF a
  <2>3. r \in ServiceRequest
    BY <1>1, <2>1, GameAssumption DEF Pawns
  <2> QED BY <1>1, <2>2, <2>3
<1> QED BY <1>2, <1>3

(* Every step of the game is a step of the channel, or none.               *)
LEMMA ChannelStep ==
  ASSUME GameInv, [GameNext]_allVars PROVE [Next]_vars
<1>1. ASSUME NEW accid \in Account, onButtonTest(accid) PROVE Next
  BY <1>1, ClickCalls DEF Next
<1>2. CASE LoadLevel
  BY <1>2, LoadCalls DEF Next
<1>3. CASE ServerEnters \/ \E accid \in Account : ServerCreates(accid)
  BY <1>3, ServerCalls DEF Next
<1>4. CASE Dispatch
  BY <1>4 DEF Dispatch, Next
<1>5. CASE ServerReceives \/ SessionEnds \/ SessionStarts \/ OtherSteps
  BY <1>5 DEF ServerReceives, SessionEnds, SessionStarts, OtherSteps, Next
<1>6. CASE UNCHANGED allVars
  BY <1>6 DEF allVars
<1> QED BY <1>1, <1>2, <1>3, <1>4, <1>5, <1>6 DEF GameNext

-----------------------------------------------------------------------------
(* What a step of the channel does to the queue of messages out            *)

Stamped(msg) ==
  msg.type = "request" /\ msg.request.kind = "signIn"
    => msg.request.stamp = msg.request.accid

LEMMA StampedSent ==
  ASSUME GameInv, NEW msg, Stamped(msg), Transmit(msg)
  PROVE  SignInUnderItsAccount'
<1>1. toPeer \in Seq(GoodToPeer) /\ \A i \in 1..Len(toPeer) : Stamped(toPeer[i])
  BY DEF GameInv, CallInv, Wire, SignInUnderItsAccount, Stamped
<1>2. \A i \in 1..Len(toPeer') : Stamped(toPeer'[i])
  <2>1. CASE connected
    <3>1. toPeer' = Append(toPeer, msg)
      BY <2>1 DEF Transmit
    <3> QED BY <1>1, <3>1
  <2>2. CASE ~connected
    BY <1>1, <2>2 DEF Transmit
  <2> QED BY <2>1, <2>2
<1> QED BY <1>2 DEF SignInUnderItsAccount, Stamped

LEMMA StampedLeft ==
  ASSUME GameInv,
         toPeer' = toPeer \/ toPeer' = << >>
           \/ (toPeer # << >> /\ toPeer' = Tail(toPeer))
  PROVE  SignInUnderItsAccount'
<1>1. toPeer \in Seq(GoodToPeer) /\ \A i \in 1..Len(toPeer) : Stamped(toPeer[i])
  BY DEF GameInv, CallInv, Wire, SignInUnderItsAccount, Stamped
<1>2. \A i \in 1..Len(toPeer') : Stamped(toPeer'[i])
  BY <1>1
<1> QED BY <1>2 DEF SignInUnderItsAccount, Stamped

LEMMA StampedOnMessage ==
  ASSUME GameInv, OnMessage PROVE SignInUnderItsAccount'
<1> DEFINE msg == Head(toClient)
<1>1. CASE stubHandleResponseMsg(msg) \/ UNCHANGED toPeer
  BY <1>1, StampedLeft DEF stubHandleResponseMsg
<1>2. CASE serviceHandleRequestMsg(msg)
  <2>1. CASE UNCHANGED toPeer
    BY <2>1, StampedLeft
  <2>2. ASSUME NEW body, Reply(msg.id, body) PROVE SignInUnderItsAccount'
    <3>1. Stamped([type |-> "response", id |-> msg.id, body |-> body])
      BY DEF Stamped
    <3> QED BY <2>2, <3>1, StampedSent DEF Reply
  <2> QED BY <1>2, <2>1, <2>2 DEF serviceHandleRequestMsg,
     NewDelayResponse
<1> QED BY <1>1, <1>2 DEF OnMessage, In!Handle

-----------------------------------------------------------------------------
(* The account *)

(* Nothing about the account changes while nobody clicks, no callback runs *)
(* and no call is made.                                                    *)
LEMMA AccountKept ==
  ASSUME GameInv, UNCHANGED <<m_accid, clickVars, m_id, callbacks>>
  PROVE  Calls' /\ AccidIsOfLastClickOrLateAnswer'
BY DEF GameInv, Calls, AccidIsOfLastClickOrLateAnswer, clickVars

LEMMA CalledAgain ==
  ASSUME GameInv, NEW r \in Request, SendRequest(r), calls' = Append(calls, r)
  PROVE  /\ m_id' = m_id + 1 /\ m_id \in Nat /\ sent' = m_id'
         /\ callbacks' = callbacks
         /\ calls' \in Seq(Request) /\ Len(calls') = m_id'
         /\ calls'[m_id'] = r
         /\ \A k \in 1..m_id : calls'[k] = calls[k]
         /\ \A i \in 1..Len(callbacks) :
              callbacks'[i].call \in 1..m_id
<1>1. /\ m_id \in Nat /\ sent = m_id
      /\ \A i \in 1..Len(callbacks) : callbacks[i].call \in 1..m_id
  BY Counts DEF GameInv
<1>2. m_id' = m_id + 1 /\ sent' = sent + 1 /\ callbacks' = callbacks
  BY DEF SendRequest
<1>3. calls \in Seq(Request) /\ Len(calls) = m_id
  BY DEF GameInv, Calls
<1>4. /\ calls' \in Seq(Request) /\ Len(calls') = m_id + 1
      /\ calls'[m_id + 1] = r
      /\ \A k \in 1..m_id : calls'[k] = calls[k]
  BY <1>1, <1>3
<1> QED BY <1>1, <1>2, <1>4

LEMMA AccountClick ==
  ASSUME GameInv, NEW accid \in Account, onButtonTest(accid)
  PROVE  Calls' /\ AccidIsOfLastClickOrLateAnswer' /\ SignInUnderItsAccount'
<1> DEFINE r == [kind |-> "signIn", accid |-> accid, stamp |-> accid]
<1>1. /\ m_accid' = accid /\ SendRequest(r) /\ calls' = Append(calls, r)
      /\ click' = [call |-> sent', seen |-> Len(callbacks)]
  BY DEF onButtonTest
<1>2. r \in Request
  BY RequestShape DEF SignIns, Stamp
<1>3. /\ m_id' = m_id + 1 /\ m_id \in Nat /\ sent' = m_id'
      /\ callbacks' = callbacks
      /\ calls' \in Seq(Request) /\ Len(calls') = m_id' /\ calls'[m_id'] = r
  BY <1>1, <1>2, CalledAgain
<1>4. Len(callbacks) \in Nat
  BY Counts DEF GameInv
<1>5. click'.call = m_id' /\ calls'[click'.call] = r
      /\ click' \in [call : 0..m_id', seen : 0..Len(callbacks')]
  BY <1>1, <1>3, <1>4
<1>6. Calls'
  BY <1>3, <1>5 DEF Calls
<1>7. AccidIsOfLastClickOrLateAnswer'
  BY <1>1, <1>3, <1>5 DEF AccidIsOfLastClickOrLateAnswer
<1>8. SignInUnderItsAccount'
  <2> DEFINE msg == [type |-> "request", id |-> m_id', request |-> r, n |-> sent']
  <2>1. Stamped(msg)
    BY DEF Stamped
  <2>2. Transmit(msg)
    BY <1>1 DEF SendRequest
  <2> QED BY <2>1, <2>2, StampedSent
<1> QED BY <1>6, <1>7, <1>8

LEMMA AccountLoad ==
  ASSUME GameInv, LoadLevel
  PROVE  Calls' /\ AccidIsOfLastClickOrLateAnswer' /\ SignInUnderItsAccount'
<1> DEFINE r == LoadedNotice
<1>1. SendRequest(r) /\ calls' = Append(calls, r) /\ UNCHANGED <<m_accid, click>>
  BY DEF LoadLevel, C2G_NotifyLoadedScene
<1>2. r \in Request /\ r.kind = "notifyLoaded"
  BY NoticeShape DEF GameInv, GameTypeOK
<1> HIDE DEF r
<1>3. /\ m_id' = m_id + 1 /\ m_id \in Nat /\ sent' = m_id'
      /\ callbacks' = callbacks
      /\ calls' \in Seq(Request) /\ Len(calls') = m_id' /\ calls'[m_id'] = r
      /\ \A k \in 1..m_id : calls'[k] = calls[k]
      /\ \A i \in 1..Len(callbacks) : callbacks[i].call \in 1..m_id
  BY <1>1, <1>2, CalledAgain
<1>4. /\ click \in [call : 0..m_id, seen : 0..Len(callbacks)]
      /\ Len(callbacks) \in Nat
  BY Counts DEF GameInv, Calls
<1>5. Calls'
  <2>1. click' \in [call : 0..m_id', seen : 0..Len(callbacks')]
    BY <1>1, <1>3, <1>4
  <2>2. click'.call # 0 => calls'[click'.call].kind = "signIn"
    BY <1>1, <1>3, <1>4 DEF GameInv, Calls
  <2>3. \A k \in click'.call + 1..m_id' : calls'[k].kind # "signIn"
    <3> TAKE k \in click'.call + 1..m_id'
    <3>1. CASE k = m_id'
      BY <1>2, <1>3, <3>1
    <3>2. CASE k # m_id'
      <4>1. k \in click.call + 1..m_id /\ k \in 1..m_id
        BY <1>1, <1>3, <1>4, <3>2
      <4> QED BY <1>3, <4>1 DEF GameInv, Calls
    <3> QED BY <3>1, <3>2
  <2> QED BY <1>3, <2>1, <2>2, <2>3 DEF Calls
<1>6. AccidIsOfLastClickOrLateAnswer'
  <2>1. CASE click.call = 0
    BY <1>1, <2>1 DEF GameInv, AccidIsOfLastClickOrLateAnswer
  <2>2. CASE click.call # 0 /\ m_accid = calls[click.call].accid
    BY <1>1, <1>3, <1>4, <2>2 DEF AccidIsOfLastClickOrLateAnswer
  <2>3. CASE click.call # 0 /\ m_accid # calls[click.call].accid
    <3>1. PICK i \in click.seen + 1..Len(callbacks) :
            /\ callbacks[i].call < click.call
            /\ calls[callbacks[i].call].kind = "signIn"
            /\ calls[callbacks[i].call].accid = m_accid
      BY <2>3 DEF GameInv, AccidIsOfLastClickOrLateAnswer
    <3>2. i \in 1..Len(callbacks)
      BY <1>4
    <3>3. calls'[callbacks[i].call] = calls[callbacks[i].call]
      BY <1>3, <3>2
    <3>4. click'.call # 0
      BY <1>1, <2>3
    <3> QED BY <1>1, <1>3, <3>1, <3>3, <3>4 DEF AccidIsOfLastClickOrLateAnswer
  <2> QED BY <2>1, <2>2, <2>3
<1>7. SignInUnderItsAccount'
  <2> DEFINE msg == [type |-> "request", id |-> m_id', request |-> r, n |-> sent']
  <2>1. Stamped(msg)
    BY <1>2 DEF Stamped
  <2>2. Transmit(msg)
    BY <1>1 DEF SendRequest
  <2> QED BY <2>1, <2>2, StampedSent
<1> QED BY <1>5, <1>6, <1>7

(* A message makes at most one callback run, and no call.                  *)
LEMMA DispatchCallbacks ==
  ASSUME GameInv, OnMessage
  PROVE  /\ m_id' = m_id /\ sent' = sent
         /\ \/ callbacks' = callbacks
            \/ \E c \in 1..m_id : \E a : 
                 callbacks' = Append(callbacks, [call |-> c, answer |-> a])
<1> DEFINE msg == Head(toClient)
<1>1. CASE serviceHandleRequestMsg(msg) \/ UNCHANGED ownVars
  BY <1>1 DEF serviceHandleRequestMsg, NewDelayResponse, ownVars
<1>2. CASE stubHandleResponseMsg(msg)
  <2>1. m_id' = m_id /\ sent' = sent
    BY <1>2 DEF stubHandleResponseMsg
  <2>2. CASE msg.id \in DOMAIN m_outstandings /\ callbacks' # callbacks
    <3>1. callbacks' = Append(callbacks,
            [call |-> m_outstandings[msg.id].n, answer |-> msg.n])
      BY <1>2, <2>2 DEF stubHandleResponseMsg
    <3>2. m_outstandings[msg.id].n \in 1..m_id
      BY <2>2 DEF GameInv, CallInv, CallTable
    <3> QED BY <2>1, <3>1, <3>2
  <2>3. CASE ~(msg.id \in DOMAIN m_outstandings /\ callbacks' # callbacks)
    BY <1>2, <2>1, <2>3 DEF stubHandleResponseMsg
  <2> QED BY <2>2, <2>3
<1> QED BY <1>1, <1>2 DEF OnMessage, In!Handle

LEMMA AccountCallback ==
  ASSUME GameInv, UNCHANGED <<clickVars, m_id>>,
         NEW c \in 1..m_id, NEW a,
         callbacks' = Append(callbacks, [call |-> c, answer |-> a]),
         m_accid' = m_accid
           \/ m_accid' = IF calls[c].kind = "signIn" THEN calls[c].accid
                         ELSE m_accid
  PROVE  Calls' /\ AccidIsOfLastClickOrLateAnswer' /\ m_accid' \in Stamp
<1> DEFINE e == [call |-> c, answer |-> a]
           L == Len(callbacks)
<1>1. /\ callbacks \in Seq(Callback) /\ L \in Nat /\ m_id \in Nat
      /\ calls \in Seq(Request) /\ Len(calls) = m_id
      /\ click \in [call : 0..m_id, seen : 0..L]
  BY Counts DEF GameInv, Calls, CallInv, CallTable
<1>2. /\ Len(callbacks') = L + 1 /\ callbacks'[L + 1] = e
      /\ \A i \in 1..L : callbacks'[i] = callbacks[i]
  BY <1>1
<1>3. calls[c] \in Request
  BY <1>1
<1>4. m_accid' \in Stamp
  BY <1>3, RequestShape DEF GameInv, GameTypeOK, Stamp
<1>5. Calls'
  BY <1>1, <1>2 DEF GameInv, Calls, clickVars
<1>6. UNCHANGED <<calls, click>>
  BY DEF clickVars
<1>7. ASSUME m_accid' = m_accid PROVE AccidIsOfLastClickOrLateAnswer'
  <2>1. CASE click.call = 0 \/ m_accid = calls[click.call].accid
    BY <1>6, <1>7, <2>1 DEF GameInv, AccidIsOfLastClickOrLateAnswer
  <2>2. CASE click.call # 0 /\ m_accid # calls[click.call].accid
    <3>1. PICK i \in click.seen + 1..L :
            /\ callbacks[i].call < click.call
            /\ calls[callbacks[i].call].kind = "signIn"
            /\ calls[callbacks[i].call].accid = m_accid
      BY <2>2 DEF GameInv, AccidIsOfLastClickOrLateAnswer
    <3>2. i \in 1..L /\ i \in click.seen + 1..Len(callbacks')
      BY <1>1, <1>2
    <3>3. callbacks'[i] = callbacks[i]
      BY <1>2, <3>2
    <3>4. click.call # 0
      BY <2>2
    <3> QED BY <1>6, <1>7, <3>1, <3>2, <3>3, <3>4
            DEF AccidIsOfLastClickOrLateAnswer
  <2> QED BY <2>1, <2>2
<1>8. ASSUME m_accid' # m_accid PROVE AccidIsOfLastClickOrLateAnswer'
  <2>1. calls[c].kind = "signIn" /\ m_accid' = calls[c].accid
    BY <1>8
  <2>2. c <= click.call
    <3> SUFFICES ASSUME ~(c <= click.call) PROVE FALSE
      OBVIOUS
    <3>1. c \in click.call + 1..m_id
      BY <1>1
    <3> QED BY <2>1, <3>1 DEF GameInv, Calls
  <2>3. click.call # 0
    BY <1>1, <2>2
  <2>4. CASE c = click.call
    BY <1>6, <2>1, <2>3, <2>4 DEF AccidIsOfLastClickOrLateAnswer
  <2>5. CASE c < click.call
    <3>1. L + 1 \in click.seen + 1..Len(callbacks')
      BY <1>1, <1>2
    <3>2. callbacks'[L + 1].call = c
      BY <1>2
    <3> HIDE DEF L, e
    <3> QED BY <1>6, <2>1, <2>3, <2>5, <3>1, <3>2
            DEF AccidIsOfLastClickOrLateAnswer
  <2> QED BY <1>1, <2>2, <2>4, <2>5
<1> QED BY <1>4, <1>5, <1>7, <1>8

LEMMA AccountDispatch ==
  ASSUME GameInv, Dispatch
  PROVE  Calls' /\ AccidIsOfLastClickOrLateAnswer' /\ m_accid' \in Stamp
<1>1. /\ OnMessage /\ UNCHANGED clickVars
      /\ \/ UNCHANGED m_accid
         \/ DoneCb
  BY DEF Dispatch, G2C_EnterScene, G2C_CreatePlayerPawn, ChangeApawn
<1>2. m_id' = m_id
  BY <1>1, DispatchCallbacks
<1>3. CASE callbacks' = callbacks
  <2>1. m_accid' = m_accid
    BY <1>1, <1>3 DEF DoneCb
  <2> QED BY <1>1, <1>2, <1>3, <2>1, AccountKept DEF GameInv, GameTypeOK
<1>4. CASE callbacks' # callbacks
  <2>1. PICK c \in 1..m_id : \E a :
          callbacks' = Append(callbacks, [call |-> c, answer |-> a])
    BY <1>1, <1>4, DispatchCallbacks
  <2>2. PICK a : callbacks' = Append(callbacks, [call |-> c, answer |-> a])
    BY <2>1
  <2>3. callbacks'[Len(callbacks')].call = c
    <3>1. callbacks \in Seq(Callback)
      BY DEF GameInv, CallInv, CallTable
    <3> QED BY <2>2, <3>1
  <2>4. m_accid' = m_accid
          \/ m_accid' = IF calls[c].kind = "signIn" THEN calls[c].accid
                        ELSE m_accid
    BY <1>1, <1>4, <2>3 DEF DoneCb
  <2> QED BY <1>1, <1>2, <2>2, <2>4, AccountCallback
<1> QED BY <1>3, <1>4

-----------------------------------------------------------------------------
(* The step *)

LEMMA TypeDispatch ==
  ASSUME GameInv, Dispatch
  PROVE  GameTypeOK'
<1>1. /\ Calls' /\ m_accid' \in Stamp
      /\ OnMessage /\ UNCHANGED <<clickVars, serverVars>>
  BY AccountDispatch DEF Dispatch
<1>2. sent' = sent /\ m_id' = m_id /\ sent = m_id
  BY <1>1, DispatchCallbacks, Counts DEF GameInv
<1>3. /\ calls' \in Seq(Request) /\ Len(calls') = sent'
      /\ click' \in [call : 0..sent', seen : 0..Len(callbacks')]
  BY <1>1, <1>2 DEF Calls
<1>4. /\ pawn' \in Stamp \cup {NoPawn}
      /\ {uiShown', pendingLevel'} \subseteq BOOLEAN /\ worlds' \in Nat
      /\ pendingFor' \subseteq [id : 1..MaxPeerId, conn : 1..MaxConnections]
      /\ notified' \subseteq 1..MaxPeerId
      /\ pendingFor' # {} => pendingLevel'
  <2> USE DEF GameInv, GameTypeOK
  <2> DEFINE msg == Head(toClient)
  <2>1. msg \in GoodToClient
    <3>1. toClient \in Seq(GoodToClient) /\ toClient # << >>
      BY <1>1 DEF CallInv, Wire, OnMessage, In!Handle
    <3> QED BY <3>1, SeqTail
  <2>2. CASE UNCHANGED sceneVars
    BY <2>2 DEF sceneVars
  <2>3. CASE msg.type = "request" /\ G2C_EnterScene(msg)
    <3>1. msg.id \in 1..MaxPeerId /\ msg.request.conn \in 1..MaxConnections
      BY <2>1, <2>3, ClientMessageShape, ConnShape
    <3>2. pendingLevel' = TRUE
      BY <2>3 DEF G2C_EnterScene
    <3> HIDE DEF msg
    <3> QED BY <2>3, <3>1, <3>2 DEF G2C_EnterScene
  <2>4. CASE G2C_CreatePlayerPawn(msg)
    BY <2>4 DEF G2C_CreatePlayerPawn, ChangeApawn
  <2> QED BY <2>2, <2>3, <2>4 DEF Dispatch, DoneCb
<1> QED BY <1>1, <1>3, <1>4 DEF GameInv, GameTypeOK, serverVars

(* The steps that touch neither calls, callbacks nor account.              *)
LEMMA TypeOther ==
  ASSUME GameInv,
         ServerEnters \/ (\E accid \in Account : ServerCreates(accid))
           \/ ServerReceives \/ SessionEnds \/ SessionStarts \/ OtherSteps
           \/ UNCHANGED allVars
  PROVE  /\ GameTypeOK' /\ SignInUnderItsAccount'
         /\ Calls' /\ AccidIsOfLastClickOrLateAnswer'
<1>1. UNCHANGED <<m_accid, sceneVars, clickVars, m_id, sent, callbacks>>
  BY DEF ServerEnters, ServerCreates, ServerReceives, SessionEnds,
         SessionStarts, OtherSteps, allVars, gameVars, vars, PeerCalls,
         PeerReceives, ConnectionEnds, Reconnect, PeerAnswers, PeerSendsOther,
         DisconnectEmpties, In!Sends, In!End, In!Connect, In!Empty, peerVars, ownVars
<1>2. misled' \subseteq 1..MaxConnections /\ peerSigned' \in BOOLEAN
  BY DEF CallInv, Delays, ServerEnters, ServerCreates, ServerReceives, SessionEnds,
         SessionStarts, OtherSteps, allVars, gameVars, serverVars, GameInv,
         GameTypeOK
<1>a. peerAwaits' \in Nat
  <2>1. peerAwaits \in Nat
    BY DEF GameInv, GameTypeOK
  <2>2. CASE ServerReceives
    <3>1. \/ peerAwaits' = peerAwaits
          \/ peerAwaits > 0 /\ peerAwaits' = peerAwaits - 1
      BY <2>2 DEF ServerReceives
    <3> QED BY <2>1, <3>1
  <2>3. CASE ~ServerReceives
    <3>1. peerAwaits' \in {peerAwaits, peerAwaits + 1, 0}
      BY <2>3
         DEF ServerEnters, ServerCreates, SessionEnds, SessionStarts,
             OtherSteps, allVars, gameVars, serverVars
    <3> QED BY <2>1, <3>1
  <2> QED BY <2>2, <2>3
<1>3. GameTypeOK'
  BY <1>1, <1>2, <1>a DEF GameInv, GameTypeOK, sceneVars, clickVars
<1>4. SignInUnderItsAccount'
  BY StampedLeft
     DEF ServerEnters, ServerCreates, ServerReceives, SessionEnds,
         SessionStarts, OtherSteps, allVars, vars, PeerCalls, PeerReceives,
         ConnectionEnds, Reconnect, PeerAnswers, PeerSendsOther,
         DisconnectEmpties, In!Sends, In!End, In!Connect, In!Empty, peerVars
<1> QED BY <1>1, <1>3, <1>4, AccountKept

LEMMA TypeCalls ==
  ASSUME GameInv, CallInv', Calls',
         LoadLevel \/ \E accid \in Account : onButtonTest(accid)
  PROVE  GameTypeOK'
<1>1. sent' = m_id' /\ UNCHANGED serverVars
  BY Counts
     DEF LoadLevel, C2G_NotifyLoadedScene, onButtonTest, CallInv, CallTable
<1>2. /\ calls' \in Seq(Request) /\ Len(calls') = sent'
      /\ click' \in [call : 0..sent', seen : 0..Len(callbacks')]
  BY <1>1 DEF Calls
<1>3. m_accid' \in Stamp /\ pawn' \in Stamp \cup {NoPawn}
  BY DEF LoadLevel, C2G_NotifyLoadedScene, onButtonTest, GameInv, GameTypeOK,
         Stamp
<1>4. /\ pendingFor' \subseteq [id : 1..MaxPeerId, conn : 1..MaxConnections]
      /\ notified' \subseteq 1..MaxPeerId
      /\ pendingFor' # {} => pendingLevel'
  BY DEF LoadLevel, C2G_NotifyLoadedScene, onButtonTest, GameInv, GameTypeOK,
         NotifiedOf
<1>5. uiShown' \in BOOLEAN /\ pendingLevel' \in BOOLEAN
  BY DEF LoadLevel, C2G_NotifyLoadedScene, onButtonTest, GameInv, GameTypeOK
<1>6. worlds' \in Nat
  <2>1. worlds \in Nat /\ worlds' \in {worlds, worlds + 1}
    BY DEF LoadLevel, C2G_NotifyLoadedScene, onButtonTest, GameInv, GameTypeOK
  <2> QED BY <2>1
<1> QED BY <1>1, <1>2, <1>3, <1>4, <1>5, <1>6
           DEF GameInv, GameTypeOK, serverVars

LEMMA GameStep == GameInv /\ [GameNext]_allVars => GameInv'
<1> SUFFICES ASSUME GameInv, [GameNext]_allVars PROVE GameInv'
  OBVIOUS
<1>1. CallInv'
  BY ChannelStep, CallStep DEF GameInv
<1>2. ASSUME NEW accid \in Account, onButtonTest(accid) PROVE GameInv'
  BY <1>1, <1>2, AccountClick, TypeCalls DEF GameInv
<1>3. CASE LoadLevel
  BY <1>1, <1>3, AccountLoad, TypeCalls DEF GameInv
<1>4. CASE Dispatch
  <2>1. OnMessage
    BY <1>4 DEF Dispatch
  <2> QED BY <1>1, <1>4, <2>1, AccountDispatch, TypeDispatch, StampedOnMessage
             DEF GameInv
<1>5. CASE ServerEnters \/ (\E accid \in Account : ServerCreates(accid))
             \/ ServerReceives \/ SessionEnds \/ SessionStarts \/ OtherSteps
             \/ UNCHANGED allVars
  BY <1>1, <1>5, TypeOther DEF GameInv
<1> QED BY <1>2, <1>3, <1>4, <1>5 DEF GameNext

LEMMA GameInitial == GameInit => GameInv
<1> SUFFICES ASSUME GameInit PROVE GameInv
  OBVIOUS
<1> USE DEF GameInit
<1>1. CallInv
  BY CallInit
<1>2. m_id = 0 /\ sent = 0 /\ callbacks = << >> /\ toPeer = << >>
  BY DEF Init
<1>3. Calls
  BY <1>2 DEF Calls
<1>4. GameTypeOK
  <2>1. calls \in Seq(Request) /\ Len(calls) = sent
        /\ click \in [call : 0..sent, seen : 0..Len(callbacks)]
    BY <1>2
  <2>2. /\ m_accid \in Stamp /\ pawn \in Stamp \cup {NoPawn}
        /\ worlds \in Nat /\ peerAwaits \in Nat
        /\ pendingFor = {} /\ notified = {} /\ misled = {}
    BY DEF Stamp
  <2> QED BY <2>1, <2>2 DEF GameTypeOK
<1>5. AccidIsOfLastClickOrLateAnswer /\ SignInUnderItsAccount
  BY <1>2 DEF AccidIsOfLastClickOrLateAnswer, SignInUnderItsAccount
<1> QED BY <1>1, <1>3, <1>4, <1>5 DEF GameInv

THEOREM GameInvariant == GameSpec => []GameInv
BY GameInitial, GameStep, PTL DEF GameSpec

-----------------------------------------------------------------------------
(* Theorems *)

(* Types of the game's state.                                              *)
THEOREM GameTypeOKThm == GameSpec => []GameTypeOK
<1>1. GameInv => GameTypeOK
  BY DEF GameInv
<1> QED BY <1>1, GameInvariant, PTL

(* The account is that of the last click, or a late answer has put an      *)
(* older one back: whatever is lost, late or repeated.                     *)
THEOREM AccidThm == GameSpec => []AccidIsOfLastClickOrLateAnswer
<1>1. GameInv => AccidIsOfLastClickOrLateAnswer
  BY DEF GameInv
<1> QED BY <1>1, GameInvariant, PTL

(* A sign-in travels under the account it signs in.                        *)
THEOREM SignInThm == GameSpec => []SignInUnderItsAccount
<1>1. GameInv => SignInUnderItsAccount
  BY DEF GameInv
<1> QED BY <1>1, GameInvariant, PTL

(* The game is a user of the channel: its behaviours are the channel's, so *)
(* a stub's callback gets the request its response answers and no call two *)
(* of them, and the table of calls is exact.                               *)
THEOREM GameUsesChannel ==
  GameSpec => /\ Init /\ [][Next]_vars
              /\ []CallbackForItsRequest /\ []OutstandingExact
<1>1. GameInit => Init
  BY DEF GameInit
<1>2. GameInv => CallbackForItsRequest /\ OutstandingExact
  BY DEF GameInv, CallInv, CallTable, OutstandingExact
<1>3. GameInv /\ [GameNext]_allVars => [Next]_vars
  BY ChannelStep
<1> QED BY <1>1, <1>2, <1>3, GameInvariant, PTL DEF GameSpec

-----------------------------------------------------------------------------
(* Pawns and travel.  The server counts the notices it gets against the    *)
(* EnterScenes it has sent.  While a connection lasts, its EnterScenes     *)
(* under way, the level they have asked for and the notices under way that *)
(* pay for one are never more than the server awaits, unless the server    *)
(* has counted the notice of an older connection's level among them.       *)

EntersOf(c) == {m \in GoodToClient :
  m.type = "request" /\ m.request.kind = "enterScene" /\ m.request.conn = c}
AnsweredPawns(c) == {m \in GoodToClient :
  /\ m.type = "request" /\ m.request.kind = "createPawn"
  /\ m.request.answered /\ m.request.conn = c}

(* What no EnterScene of connection c precedes.                            *)
Late(c) ==
  {m \in GoodToClient : m.type = "request" /\ m.request.conn < c}
    \cup (IF c \in misled THEN {} ELSE AnsweredPawns(c))

NoticesOut == {m \in GoodToPeer :
  m.type = "request" /\ m.request.kind = "notifyLoaded" /\ ~m.request.older}
SignInsOut == {m \in GoodToPeer :
  m.type = "request" /\ m.request.kind = "signIn"}

Places(s, T) == {i \in 1..Len(s) : s[i] \in T}
CountOf(s, T) == Cardinality(Places(s, T))
Traveling == IF PendingOf(connections) = {} THEN 0 ELSE 1
NoticesLast == \A i, j \in 1..Len(toPeer) :
  i < j /\ toPeer[i] \in SignInsOut => toPeer[j] \notin NoticesOut

(* No EnterScene is of a connection yet to come; without a connection      *)
(* nothing is under way to the server; nobody signs in without a world; a  *)
(* level asked for after the first is asked for by an EnterScene.          *)
Beginnings ==
  /\ \A i \in 1..Len(toClient), c \in Nat :
       toClient[i] \in EntersOf(c) => c <= connections
  /\ \A e \in pendingFor : e.conn <= connections
  /\ ~connected => toPeer = << >> /\ ~peerSigned
  /\ worlds = 0 => /\ ~uiShown /\ ~peerSigned /\ pendingFor = {}
                   /\ Places(toPeer, SignInsOut) = {}
  /\ pendingLevel /\ worlds # 0 => pendingFor # {}

Debt ==
  connected /\ connections \notin misled =>
    /\ peerSigned =>
         CountOf(toClient, EntersOf(connections)) + Traveling
           + CountOf(toPeer, NoticesOut) <= peerAwaits
    /\ ~peerSigned => /\ Places(toClient, EntersOf(connections)) = {}
                      /\ Traveling = 0 /\ NoticesLast

(* Nothing of an older connection, and no answered pawn of its own, is     *)
(* behind an EnterScene or the level it asked for.                         *)
InOrder ==
  \A c \in Nat :
    /\ \A i, j \in 1..Len(toClient) :
         i < j /\ toClient[i] \in EntersOf(c) => toClient[j] \notin Late(c)
    /\ PendingOf(c) # {} => Places(toClient, Late(c)) = {}

Travel == Beginnings /\ Debt /\ InOrder

LEMMA PlacesFinite ==
  ASSUME NEW S, NEW s \in Seq(S), NEW T
  PROVE  IsFiniteSet(Places(s, T)) /\ CountOf(s, T) \in Nat
<1>1. Len(s) \in Nat
  BY LenProperties
<1>2. IsFiniteSet(1..Len(s))
  BY <1>1, FS_Interval
<1>3. IsFiniteSet(Places(s, T))
  BY <1>2, FS_Subset DEF Places
<1> QED BY <1>3, FS_CardinalityType DEF CountOf

LEMMA CountNone ==
  ASSUME NEW S, NEW s \in Seq(S), NEW T
  PROVE  CountOf(s, T) = 0 <=> Places(s, T) = {}
BY PlacesFinite, FS_EmptySet DEF CountOf

LEMMA CountEmpty ==
  ASSUME NEW T PROVE Places(<< >>, T) = {} /\ CountOf(<< >>, T) = 0
<1>1. Places(<< >>, T) = {}
  BY DEF Places
<1> QED BY <1>1, FS_EmptySet DEF CountOf

LEMMA CountAppend ==
  ASSUME NEW S, NEW s \in Seq(S), NEW e \in S, NEW T
  PROVE  /\ e \in T => CountOf(Append(s, e), T) = CountOf(s, T) + 1
         /\ e \notin T => Places(Append(s, e), T) = Places(s, T)
         /\ e \notin T => CountOf(Append(s, e), T) = CountOf(s, T)
<1> DEFINE L == Len(s)
           t == Append(s, e)
<1>1. /\ L \in Nat /\ Len(t) = L + 1 /\ t[L + 1] = e
      /\ \A i \in 1..L : t[i] = s[i]
  BY AppendProperties, LenProperties
<1>2. IsFiniteSet(Places(s, T)) /\ L + 1 \notin Places(s, T)
  BY <1>1, PlacesFinite DEF Places
<1>3. 1..Len(t) = 1..L \cup {L + 1}
  BY <1>1
<1> HIDE DEF L, t
<1>4. ASSUME e \in T PROVE Places(t, T) = Places(s, T) \cup {L + 1}
  BY <1>1, <1>3, <1>4 DEF Places, L
<1>5. ASSUME e \notin T PROVE Places(t, T) = Places(s, T)
  BY <1>1, <1>3, <1>5 DEF Places, L
<1>6. ASSUME e \in T PROVE CountOf(t, T) = CountOf(s, T) + 1
  BY <1>2, <1>4, <1>6, FS_AddElement DEF CountOf
<1> QED BY <1>5, <1>6 DEF CountOf, t

LEMMA CountTail ==
  ASSUME NEW S, NEW s \in Seq(S), s # << >>, NEW T
  PROVE  /\ Head(s) \in T => CountOf(s, T) = CountOf(Tail(s), T) + 1
         /\ Head(s) \notin T => CountOf(s, T) = CountOf(Tail(s), T)
<1> DEFINE t == Tail(s)
           A == Places(t, T)
           B == Places(s, T) \ {1}
           f == [i \in A |-> i + 1]
<1>1. /\ t \in Seq(S) /\ Len(s) \in Nat /\ Len(s) > 0 /\ Len(t) = Len(s) - 1
      /\ Head(s) = s[1]
      /\ \A i \in 1..Len(t) : t[i] = s[i + 1]
  BY HeadTailProperties, LenProperties, EmptySeq
<1>2. /\ f \in [A -> B]
      /\ \A i, j \in A : f[i] = f[j] => i = j
      /\ \A k \in B : \E i \in A : f[i] = k
  <2>1. \A i \in A : i + 1 \in B
    BY <1>1 DEF Places
  <2>2. \A k \in B : k - 1 \in A /\ (k - 1) + 1 = k
    BY <1>1 DEF Places
  <2>3. \A i \in A : i \in Int
    BY DEF Places
  <2> HIDE DEF A, B
  <2> QED BY <2>1, <2>2, <2>3
<1>3. IsFiniteSet(A) /\ IsFiniteSet(Places(s, T))
      /\ CountOf(t, T) = Cardinality(A)
  BY <1>1, PlacesFinite DEF CountOf
<1>4. Cardinality(B) = Cardinality(A)
  <2> HIDE DEF f, A, B
  <2>1. f \in Bijection(A, B)
    BY <1>2, Fun_IsBij
  <2>2. ExistsBijection(A, B)
    BY <2>1 DEF ExistsBijection
  <2> QED BY <1>3, <2>2, FS_Bijection
<1>5. Cardinality(B) = IF 1 \in Places(s, T) THEN CountOf(s, T) - 1
                       ELSE CountOf(s, T)
  BY <1>3, FS_RemoveElement DEF CountOf
<1>6. 1 \in Places(s, T) <=> Head(s) \in T
  BY <1>1 DEF Places
<1>7. CountOf(s, T) \in Nat
  BY PlacesFinite
<1> HIDE DEF t, A, B, f
<1> QED BY <1>3, <1>4, <1>5, <1>6, <1>7 DEF t

(* What joins a queue at its end leaves the order of the others alone.     *)
LEMMA AppendOut ==
  ASSUME NEW S, NEW s \in Seq(S), NEW e \in S, NEW T, NEW U,
         e \notin U \/ Places(s, T) = {},
         \A i, j \in 1..Len(s) : i < j /\ s[i] \in T => s[j] \notin U
  PROVE  \A i, j \in 1..Len(Append(s, e)) :
           i < j /\ Append(s, e)[i] \in T => Append(s, e)[j] \notin U
<1> DEFINE L == Len(s)
           t == Append(s, e)
<1>1. /\ L \in Nat /\ Len(t) = L + 1 /\ t[L + 1] = e
      /\ \A i \in 1..L : t[i] = s[i]
  BY AppendProperties, LenProperties
<1> HIDE DEF t
<1> SUFFICES ASSUME NEW i \in 1..L + 1, NEW j \in 1..L + 1,
                    i < j, t[i] \in T
             PROVE  t[j] \notin U
  BY <1>1 DEF t
<1>2. i \in 1..L /\ s[i] \in T /\ i \in Places(s, T)
  BY <1>1 DEF Places
<1>3. CASE j = L + 1
  BY <1>1, <1>2, <1>3
<1>4. CASE j # L + 1
  BY <1>1, <1>2, <1>4
<1> QED BY <1>3, <1>4

LEMMA TailOut ==
  ASSUME NEW S, NEW s \in Seq(S), s # << >>, NEW T, NEW U,
         \A i, j \in 1..Len(s) : i < j /\ s[i] \in T => s[j] \notin U
  PROVE  /\ Places(s, U) = {} => Places(Tail(s), U) = {}
         /\ Head(s) \in T => Places(Tail(s), U) = {}
         /\ \A i, j \in 1..Len(Tail(s)) :
              i < j /\ Tail(s)[i] \in T => Tail(s)[j] \notin U
<1> DEFINE t == Tail(s)
<1>1. /\ Len(s) \in Nat /\ Len(s) > 0 /\ Len(t) = Len(s) - 1
      /\ Head(s) = s[1]
      /\ \A i \in 1..Len(t) : t[i] = s[i + 1]
  BY HeadTailProperties, LenProperties, EmptySeq
<1> HIDE DEF t
<1>2. \A i \in 1..Len(t) : i + 1 \in 1..Len(s) /\ 1 < i + 1
  BY <1>1
<1>3. 1 \in 1..Len(s)
  BY <1>1
<1>4. Places(s, U) = {} => Places(t, U) = {}
  BY <1>1, <1>2 DEF Places
<1>5. Head(s) \in T => Places(t, U) = {}
  BY <1>1, <1>2, <1>3 DEF Places
<1>6. \A i, j \in 1..Len(t) : i < j /\ t[i] \in T => t[j] \notin U
  BY <1>1, <1>2
<1> QED BY <1>4, <1>5, <1>6 DEF t

LEMMA TravelTypes ==
  ASSUME GameInv
  PROVE  /\ toPeer \in Seq(GoodToPeer) /\ toClient \in Seq(GoodToClient)
         /\ connections \in Nat /\ peerAwaits \in Nat /\ worlds \in Nat
         /\ Traveling \in {0, 1} /\ connected \in BOOLEAN
         /\ \A T : CountOf(toPeer, T) \in Nat /\ CountOf(toClient, T) \in Nat
<1>1. toPeer \in Seq(GoodToPeer) /\ toClient \in Seq(GoodToClient)
  BY DEF GameInv, CallInv, Wire
<1> QED BY <1>1, PlacesFinite DEF GameInv, CallInv, Delays, GameTypeOK, Traveling

(* What a message to the server does to what is under way to it.           *)
LEMMA CallGood ==
  ASSUME GameInv, NEW r \in Request, SendRequest(r)
  PROVE  /\ \E msg \in GoodToPeer : /\ msg.type = "request" /\ msg.request = r
                                    /\ Transmit(msg)
         /\ UNCHANGED <<connVars, toClient>>
<1> DEFINE msg == [type |-> "request", id |-> m_id', request |-> r, n |-> sent']
<1>1. m_id' \in 1..MaxId /\ sent' = m_id'
  BY Bounds DEF SendRequest, GameInv, CallInv, CallTable
<1>2. msg \in GoodToPeer
  BY <1>1 DEF GoodToPeer, ToPeerMessage
<1> QED BY <1>2 DEF SendRequest

LEMMA OtherOut ==
  ASSUME GameInv, NEW msg \in GoodToPeer, Transmit(msg), msg \notin NoticesOut
  PROVE  /\ CountOf(toPeer', NoticesOut) = CountOf(toPeer, NoticesOut)
         /\ NoticesLast => NoticesLast'
         /\ msg \notin SignInsOut
              => Places(toPeer', SignInsOut) = Places(toPeer, SignInsOut)
<1>1. toPeer \in Seq(GoodToPeer)
  BY TravelTypes
<1>2. CASE toPeer' = Append(toPeer, msg)
  <2>1. NoticesLast => NoticesLast'
    <3> SUFFICES ASSUME NoticesLast PROVE NoticesLast'
      OBVIOUS
    <3>1. \A i, j \in 1..Len(toPeer) :
            i < j /\ toPeer[i] \in SignInsOut => toPeer[j] \notin NoticesOut
      BY DEF NoticesLast
    <3>2. \A i, j \in 1..Len(Append(toPeer, msg)) :
            i < j /\ Append(toPeer, msg)[i] \in SignInsOut
              => Append(toPeer, msg)[j] \notin NoticesOut
      BY <1>1, <3>1, AppendOut
    <3> QED BY <1>2, <3>2 DEF NoticesLast
  <2> QED BY <1>1, <1>2, <2>1, CountAppend
<1>3. CASE toPeer' = toPeer
  BY <1>3 DEF NoticesLast
<1> QED BY <1>2, <1>3 DEF Transmit

(* The order holds while nothing joins the queue or the levels asked for.  *)
LEMMA InOrderKept ==
  ASSUME InOrder, misled \subseteq misled', pendingFor' \subseteq pendingFor,
         UNCHANGED toClient
  PROVE  InOrder'
<1> SUFFICES ASSUME NEW c \in Nat
             PROVE  /\ \A i, j \in 1..Len(toClient') :
                         i < j /\ toClient'[i] \in EntersOf(c)
                           => toClient'[j] \notin Late(c)'
                    /\ PendingOf(c)' # {} => Places(toClient', Late(c)') = {}
  BY DEF InOrder
<1>1. Late(c)' \subseteq Late(c)
  BY DEF Late
<1>2. PendingOf(c)' \subseteq PendingOf(c)
  BY DEF PendingOf
<1>3. /\ \A i, j \in 1..Len(toClient) :
           i < j /\ toClient[i] \in EntersOf(c) => toClient[j] \notin Late(c)
      /\ PendingOf(c) # {} => Places(toClient, Late(c)) = {}
  BY DEF InOrder
<1>4. Places(toClient', Late(c)') \subseteq Places(toClient, Late(c))
  BY <1>1 DEF Places
<1>5. \A i, j \in 1..Len(toClient') :
        i < j /\ toClient'[i] \in EntersOf(c) => toClient'[j] \notin Late(c)'
  BY <1>1, <1>3
<1> QED BY <1>2, <1>3, <1>4, <1>5

(* A message may join it behind which nothing is late.                     *)
LEMMA InOrderJoined ==
  ASSUME GameInv, InOrder, NEW msg \in GoodToClient,
         toClient' = Append(toClient, msg), UNCHANGED <<misled, pendingFor>>,
         \A c \in Nat : msg \in Late(c) =>
           Places(toClient, EntersOf(c)) = {} /\ PendingOf(c) = {}
  PROVE  InOrder'
<1>1. toClient \in Seq(GoodToClient)
  BY TravelTypes
<1> SUFFICES ASSUME NEW c \in Nat
             PROVE  /\ \A i, j \in 1..Len(toClient') :
                         i < j /\ toClient'[i] \in EntersOf(c)
                           => toClient'[j] \notin Late(c)'
                    /\ PendingOf(c)' # {} => Places(toClient', Late(c)') = {}
  BY DEF InOrder
<1>2. Late(c)' = Late(c) /\ PendingOf(c)' = PendingOf(c)
  BY DEF Late, PendingOf
<1>3. /\ \A i, j \in 1..Len(toClient) :
           i < j /\ toClient[i] \in EntersOf(c) => toClient[j] \notin Late(c)
      /\ PendingOf(c) # {} => Places(toClient, Late(c)) = {}
  BY DEF InOrder
<1>4. \A i, j \in 1..Len(toClient') :
        i < j /\ toClient'[i] \in EntersOf(c) => toClient'[j] \notin Late(c)
  <2>1. msg \notin Late(c) \/ Places(toClient, EntersOf(c)) = {}
    OBVIOUS
  <2> QED BY <1>1, <1>3, <2>1, AppendOut
<1>5. PendingOf(c) # {} => Places(toClient', Late(c)) = {}
  BY <1>1, <1>3, CountAppend
<1> QED BY <1>2, <1>4, <1>5

(* Nothing is of a connection yet to come.                                 *)
LEMMA NothingAhead ==
  ASSUME GameInv, Travel, NEW c \in Nat, connections < c
  PROVE  Places(toClient, EntersOf(c)) = {} /\ PendingOf(c) = {}
<1>1. connections \in Nat
  BY TravelTypes
<1>2. \A e \in pendingFor : e.conn # c
  BY <1>1 DEF Travel, Beginnings
<1>3. \A i \in 1..Len(toClient) : toClient[i] \notin EntersOf(c)
  BY <1>1 DEF Travel, Beginnings
<1> QED BY <1>2, <1>3 DEF Places, PendingOf

LEMMA TravelClick ==
  ASSUME GameInv, Travel, NEW accid \in Account, onButtonTest(accid)
  PROVE  Travel'
<1> DEFINE r == [kind |-> "signIn", accid |-> accid, stamp |-> accid]
<1>1. /\ uiShown /\ ~uiShown' /\ SendRequest(r)
      /\ UNCHANGED <<pendingLevel, worlds, pendingFor, peerSigned, peerAwaits,
                     misled>>
  BY DEF onButtonTest, serverVars
<1>2. r \in Request
  BY RequestShape DEF SignIns, Stamp
<1>3. PICK msg \in GoodToPeer : msg.request = r /\ Transmit(msg)
  BY <1>1, <1>2, CallGood
<1>4. UNCHANGED <<connections, connected, toClient>>
  BY <1>1, <1>2, CallGood DEF connVars
<1>5. worlds # 0 /\ msg \notin NoticesOut
  BY <1>1, <1>3 DEF Travel, Beginnings, NoticesOut
<1>6. /\ CountOf(toPeer', NoticesOut) = CountOf(toPeer, NoticesOut)
      /\ NoticesLast => NoticesLast'
  BY <1>3, <1>5, OtherOut
<1>7. Traveling' = Traveling
  BY <1>1, <1>4 DEF Traveling, PendingOf
<1>8. Beginnings'
  BY <1>1, <1>3, <1>4, <1>5 DEF Travel, Beginnings, Transmit
<1>9. Debt'
  BY <1>1, <1>4, <1>6, <1>7 DEF Travel, Debt
<1>10. InOrder'
  BY <1>1, <1>4, InOrderKept DEF Travel
<1> QED BY <1>8, <1>9, <1>10 DEF Travel

(* The load of a level turns the travel it was into a notice that pays, or *)
(* into one that does not when it was no travel of this connection.        *)
LEMMA TravelLoad == GameInv /\ Travel /\ LoadLevel => Travel'
<1> SUFFICES ASSUME GameInv, Travel, LoadLevel PROVE Travel'
  OBVIOUS
<1> DEFINE older == pendingFor # {} /\ PendingOf(connections) = {}
           E == EntersOf(connections)
<1>1. /\ SendRequest(LoadedNotice) /\ pendingLevel /\ ~pendingLevel'
      /\ worlds' = worlds + 1 /\ pendingFor' = {}
      /\ UNCHANGED <<peerSigned, peerAwaits, misled>>
  BY DEF LoadLevel, C2G_NotifyLoadedScene, serverVars
<1>2. /\ LoadedNotice \in Request /\ LoadedNotice.kind = "notifyLoaded"
      /\ LoadedNotice.older <=> older
  BY NoticeShape DEF GameInv, GameTypeOK
<1>3. PICK msg \in GoodToPeer : /\ msg.type = "request"
                                /\ msg.request = LoadedNotice /\ Transmit(msg)
  BY <1>1, <1>2, CallGood
<1>4. UNCHANGED <<connections, connected, toClient>>
  BY <1>1, <1>2, CallGood DEF connVars
<1>5. /\ toPeer \in Seq(GoodToPeer) /\ toClient \in Seq(GoodToClient)
      /\ peerAwaits \in Nat /\ worlds \in Nat /\ Traveling \in {0, 1}
      /\ CountOf(toPeer, NoticesOut) \in Nat /\ CountOf(toClient, E) \in Nat
  BY TravelTypes
<1>6. /\ worlds' # 0 /\ Traveling' = 0
      /\ Traveling = 0 <=> PendingOf(connections) = {}
  BY <1>1, <1>5 DEF Traveling, PendingOf
<1>7. msg \in NoticesOut <=> ~older
  <2> HIDE DEF older
  <2> QED BY <1>2, <1>3 DEF NoticesOut
<1>8. Beginnings'
  BY <1>3, <1>4, <1>6, <1>1 DEF Travel, Beginnings, Transmit
<1>9. InOrder'
  BY <1>1, <1>4, InOrderKept DEF Travel
<1>10. ASSUME connected, connections \notin misled, peerSigned PROVE Debt'
  <2>1. CountOf(toClient, E) + Traveling + CountOf(toPeer, NoticesOut)
          <= peerAwaits
    BY <1>10 DEF Travel, Debt
  <2>2. toPeer' = Append(toPeer, msg) /\ pendingFor # {}
    BY <1>1, <1>3, <1>10 DEF Transmit, Travel, Beginnings
  <2>3. CountOf(toPeer', NoticesOut) = CountOf(toPeer, NoticesOut) + Traveling
    <3> HIDE DEF E
    <3>1. CASE Traveling = 0
      BY <1>5, <1>6, <1>7, <2>2, <3>1, CountAppend
    <3>2. CASE Traveling = 1
      BY <1>5, <1>6, <1>7, <2>2, <3>2, CountAppend
    <3> QED BY <1>5, <3>1, <3>2
  <2>4. CountOf(toClient, E) + Traveling' + CountOf(toPeer', NoticesOut)
          <= peerAwaits
    <3> HIDE DEF E
    <3> QED BY <1>5, <1>6, <2>1, <2>3
  <2> QED BY <1>1, <1>4, <1>10, <2>4 DEF Debt
<1>11. ASSUME connected, connections \notin misled, ~peerSigned PROVE Debt'
  <2>1. Places(toClient, E) = {} /\ Traveling = 0 /\ NoticesLast
    BY <1>11 DEF Travel, Debt
  <2>2. NoticesLast'
    <3>1. CASE msg \notin NoticesOut
      BY <1>3, <2>1, <3>1, OtherOut
    <3>2. CASE msg \in NoticesOut
      <4>1. pendingFor = {}
        BY <1>6, <1>7, <2>1, <3>2
      <4>2. Places(toPeer, SignInsOut) = {}
        BY <1>1, <4>1 DEF Travel, Beginnings
      <4>3. toPeer' = Append(toPeer, msg)
        BY <1>3, <1>11 DEF Transmit
      <4>4. \A i, j \in 1..Len(Append(toPeer, msg)) :
              i < j /\ Append(toPeer, msg)[i] \in SignInsOut
                => Append(toPeer, msg)[j] \notin NoticesOut
        BY <1>5, <2>1, <4>2, AppendOut DEF NoticesLast
      <4> QED BY <4>3, <4>4 DEF NoticesLast
    <3> QED BY <3>1, <3>2
  <2> QED BY <1>1, <1>4, <1>6, <1>11, <2>1, <2>2 DEF Debt
<1>12. ASSUME ~(connected /\ connections \notin misled) PROVE Debt'
  BY <1>1, <1>4, <1>12 DEF Debt
<1> QED BY <1>8, <1>9, <1>10, <1>11, <1>12 DEF Travel

LEMMA OutDispatch ==
  ASSUME GameInv, OnMessage
  PROVE  /\ CountOf(toPeer', NoticesOut) = CountOf(toPeer, NoticesOut)
         /\ NoticesLast => NoticesLast'
         /\ Places(toPeer', SignInsOut) = Places(toPeer, SignInsOut)
         /\ ~connected => toPeer' = toPeer
<1> DEFINE msg == Head(toClient)
<1>1. msg \in GoodToClient
  BY SeqTail DEF GameInv, CallInv, Wire, OnMessage, In!Handle
<1>2. CASE toPeer' = toPeer
  BY <1>2 DEF NoticesLast
<1>3. ASSUME NEW body \in Answers, Reply(msg.id, body), msg.type = "request"
      PROVE  /\ CountOf(toPeer', NoticesOut) = CountOf(toPeer, NoticesOut)
             /\ NoticesLast => NoticesLast'
             /\ Places(toPeer', SignInsOut) = Places(toPeer, SignInsOut)
             /\ ~connected => toPeer' = toPeer
  <2> DEFINE out == [type |-> "response", id |-> msg.id, body |-> body]
  <2>1. msg.id \in 1..MaxPeerId
    BY <1>1, <1>3, ClientMessageShape
  <2>2. out \in GoodToPeer
    <3> HIDE DEF msg
    <3> QED BY <2>1 DEF GoodToPeer, ToPeerMessage
  <2>3. out \notin NoticesOut /\ out \notin SignInsOut
    BY DEF NoticesOut, SignInsOut
  <2>4. Transmit(out)
    BY <1>3 DEF Reply
  <2> HIDE DEF out
  <2> QED BY <2>2, <2>3, <2>4, OtherOut DEF Transmit
<1>4. "error" \in Answers /\ "value" \in Answers
  BY DEF Answers
<1>5. toPeer' = toPeer
        \/ (msg.type = "request" /\ \E body \in Answers : Reply(msg.id, body))
  BY <1>4 DEF OnMessage, In!Handle, stubHandleResponseMsg, serviceHandleRequestMsg,
     NewDelayResponse
<1> QED BY <1>2, <1>3, <1>5

(* An EnterScene that is handled turns into the travel it asks for.        *)
LEMMA TravelDispatch == GameInv /\ Travel /\ Dispatch => Travel'
<1> SUFFICES ASSUME GameInv, Travel, Dispatch PROVE Travel'
  OBVIOUS
<1> DEFINE msg == Head(toClient)
           at == msg.request.conn
           E == EntersOf(connections)
           n == CountOf(toPeer, NoticesOut)
           entered == /\ msg \in EntersOf(at) /\ at \in Nat /\ pendingLevel'
                      /\ pendingFor' = pendingFor \cup {[id |-> msg.id, conn |-> at]}
<1>1. /\ OnMessage /\ worlds > 0 /\ toClient # << >> /\ toClient' = Tail(toClient)
      /\ UNCHANGED <<connections, connected, peerSigned, peerAwaits, misled>>
  BY DEF Dispatch, OnMessage, In!Handle, serverVars
<1>2. /\ toPeer \in Seq(GoodToPeer) /\ toClient \in Seq(GoodToClient)
      /\ peerAwaits \in Nat /\ worlds \in Nat /\ Traveling \in {0, 1}
      /\ n \in Nat /\ CountOf(toClient, E) \in Nat
  BY TravelTypes
<1>3. msg \in GoodToClient /\ toClient' \in Seq(GoodToClient)
      /\ CountOf(toClient', E) \in Nat
  BY <1>1, <1>2, SeqTail, PlacesFinite
<1>4. UNCHANGED worlds /\ (UNCHANGED <<pendingLevel, pendingFor>> \/ entered)
  <2>1. CASE UNCHANGED sceneVars
    BY <2>1 DEF sceneVars
  <2>2. CASE G2C_CreatePlayerPawn(msg)
    BY <2>2 DEF G2C_CreatePlayerPawn
  <2>3. CASE /\ msg.type = "request" /\ msg.request.kind = "enterScene"
             /\ G2C_EnterScene(msg)
    <3>1. at \in 1..MaxConnections
      BY <1>3, <2>3, ClientMessageShape, ConnShape
    <3>2. msg \in EntersOf(at) /\ at \in Nat
      <4> HIDE DEF msg
      <4> QED BY <1>3, <2>3, <3>1, Bounds DEF EntersOf
    <3> QED BY <2>3, <3>2 DEF G2C_EnterScene
  <2> QED BY <2>1, <2>2, <2>3 DEF Dispatch, DoneCb, sceneVars
<1>5. /\ CountOf(toPeer', NoticesOut) = n
      /\ NoticesLast => NoticesLast'
      /\ ~connected => toPeer' = toPeer
  BY <1>1, OutDispatch
<1>6. \A c \in Nat : PendingOf(c)' # {} =>
        PendingOf(c) # {} \/ (entered /\ c = at)
  <2> HIDE DEF msg
  <2> QED BY <1>4 DEF PendingOf
<1>7. Beginnings'
  <2>1. \A i \in 1..Len(toClient') : \E j \in 1..Len(toClient) :
          toClient'[i] = toClient[j]
    BY <1>1, <1>2
  <2>2. \A i \in 1..Len(toClient'), c \in Nat :
          toClient'[i] \in EntersOf(c) => c <= connections
    BY <2>1 DEF Travel, Beginnings
  <2>3. entered => at <= connections
    <3>1. 1 \in 1..Len(toClient) /\ msg = toClient[1]
      BY <1>1, <1>2
    <3> HIDE DEF msg
    <3> QED BY <3>1 DEF Travel, Beginnings
  <2>4. \A e \in pendingFor' : e.conn <= connections
    <3> HIDE DEF msg
    <3> QED BY <1>4, <2>3 DEF Travel, Beginnings
  <2>5. worlds' # 0
    BY <1>1, <1>2, <1>4
  <2>6. pendingLevel' => pendingFor' # {}
    <3> HIDE DEF msg
    <3> QED BY <1>4, <2>5 DEF Travel, Beginnings
  <2> QED BY <1>1, <1>5, <2>2, <2>4, <2>5, <2>6 DEF Travel, Beginnings
<1>8. InOrder'
  <2> SUFFICES ASSUME NEW c \in Nat
               PROVE  /\ \A i, j \in 1..Len(toClient') :
                           i < j /\ toClient'[i] \in EntersOf(c)
                             => toClient'[j] \notin Late(c)'
                      /\ PendingOf(c)' # {} => Places(toClient', Late(c)') = {}
    BY DEF InOrder
  <2>1. Late(c)' = Late(c)
    BY <1>1 DEF Late
  <2>2. /\ \A i, j \in 1..Len(toClient) :
             i < j /\ toClient[i] \in EntersOf(c) => toClient[j] \notin Late(c)
        /\ PendingOf(c) # {} => Places(toClient, Late(c)) = {}
    BY DEF Travel, InOrder
  <2>3. /\ Places(toClient, Late(c)) = {} => Places(toClient', Late(c)) = {}
        /\ msg \in EntersOf(c) => Places(toClient', Late(c)) = {}
        /\ \A i, j \in 1..Len(toClient') :
             i < j /\ toClient'[i] \in EntersOf(c) => toClient'[j] \notin Late(c)
    BY <1>1, <1>2, <2>2, TailOut
  <2>4. PendingOf(c)' # {} => Places(toClient', Late(c)) = {}
    <3> HIDE DEF msg
    <3> QED BY <1>6, <2>2, <2>3
  <2> QED BY <2>1, <2>3, <2>4
<1>9. /\ CountOf(toClient', E) + Traveling' <= CountOf(toClient, E) + Traveling
      /\ Traveling' \in {0, 1}
  <2>1. /\ msg \in E => CountOf(toClient, E) = CountOf(toClient', E) + 1
        /\ msg \notin E => CountOf(toClient, E) = CountOf(toClient', E)
    <3> HIDE DEF E
    <3> QED BY <1>1, <1>2, CountTail
  <2>2. msg \notin E => (PendingOf(connections)' # {} => PendingOf(connections) # {})
    <3> SUFFICES ASSUME msg \notin E, NEW e \in pendingFor', e.conn = connections
                 PROVE  e \in pendingFor
      BY <1>1 DEF PendingOf
    <3>1. ASSUME entered, e = [id |-> msg.id, conn |-> at] PROVE FALSE
      <4>1. at = connections
        <5> HIDE DEF msg
        <5> QED BY <3>1
      <4> QED BY <3>1, <4>1
    <3> HIDE DEF msg
    <3> QED BY <1>4, <3>1
  <2>3. msg \notin E => (Traveling' = 1 => Traveling = 1)
    BY <1>1, <2>2 DEF Traveling, PendingOf
  <2>4. Traveling' \in {0, 1}
    BY DEF Traveling
  <2> HIDE DEF E, msg
  <2> QED BY <1>2, <1>3, <2>1, <2>3, <2>4
<1>10. ASSUME connected, connections \notin misled, peerSigned PROVE Debt'
  <2>1. CountOf(toClient, E) + Traveling + n <= peerAwaits
    BY <1>10 DEF Travel, Debt
  <2>2. CountOf(toClient', E) + Traveling' + n <= peerAwaits
    <3> HIDE DEF E, n
    <3> QED BY <1>2, <1>3, <1>9, <2>1
  <2> HIDE DEF n
  <2> QED BY <1>1, <1>5, <1>10, <2>2 DEF Debt
<1>11. ASSUME connected, connections \notin misled, ~peerSigned PROVE Debt'
  <2>1. Places(toClient, E) = {} /\ Traveling = 0 /\ NoticesLast
    BY <1>11 DEF Travel, Debt
  <2>2. Places(toClient', E) = {} /\ Traveling' = 0
    <3> HIDE DEF E
    <3>1. CountOf(toClient, E) = 0
      BY <1>2, <2>1, CountNone
    <3>2. CountOf(toClient', E) = 0 /\ Traveling' = 0
      BY <1>3, <1>9, <2>1, <3>1
    <3> QED BY <1>3, <3>2, CountNone
  <2> QED BY <1>1, <1>5, <1>11, <2>1, <2>2 DEF Debt
<1>12. ASSUME ~(connected /\ connections \notin misled) PROVE Debt'
  BY <1>1, <1>12 DEF Debt
<1> QED BY <1>7, <1>8, <1>10, <1>11, <1>12 DEF Travel

-----------------------------------------------------------------------------
(* The server's steps *)

LEMMA CalledGood ==
  ASSUME GameInv, NEW r \in ServiceRequest, PeerCalls(r, "none")
  PROVE  /\ \E msg \in GoodToClient : /\ msg.type = "request"
                                      /\ msg.request = r
                                      /\ toClient' = Append(toClient, msg)
         /\ connected /\ UNCHANGED <<connections, connected, toPeer>>
<1> DEFINE msg == [type |-> "request", id |-> peerId', request |-> r,
                   fault |-> "none"]
<1>1. peerId' \in 1..MaxPeerId
  BY Bounds DEF PeerCalls, GameInv, CallInv, Delays
<1>2. msg \in GoodToClient
  BY <1>1 DEF GoodToClient, ToClientMessage, Faults
<1> QED BY <1>2 DEF PeerCalls, In!Sends

LEMMA TravelEnters == GameInv /\ Travel /\ ServerEnters => Travel'
<1> SUFFICES ASSUME GameInv, Travel, ServerEnters PROVE Travel'
  OBVIOUS
<1> DEFINE r == [kind |-> "enterScene", conn |-> connections]
           E == EntersOf(connections)
           n == CountOf(toPeer, NoticesOut)
<1>1. /\ PeerCalls(r, "none") /\ peerSigned /\ peerAwaits' = peerAwaits + 1
      /\ UNCHANGED <<uiShown, pendingLevel, pendingFor, worlds, peerSigned,
                     misled>>
  BY DEF ServerEnters, sceneVars
<1>2. r \in ServiceRequest /\ connections \in Nat
  BY GameAssumption DEF Enters, GameInv, CallInv, Delays
<1>3. PICK msg \in GoodToClient : /\ msg.type = "request" /\ msg.request = r
                                  /\ toClient' = Append(toClient, msg)
  BY <1>1, <1>2, CalledGood
<1>4. connected /\ UNCHANGED <<connections, connected, toPeer>>
  BY <1>1, <1>2, CalledGood
<1>5. /\ toClient \in Seq(GoodToClient) /\ peerAwaits \in Nat
      /\ n \in Nat /\ CountOf(toClient, E) \in Nat /\ Traveling \in {0, 1}
  BY TravelTypes
<1>6. Traveling' = Traveling /\ worlds' = worlds
  BY <1>1, <1>4 DEF Traveling, PendingOf
<1>7. worlds # 0
  BY <1>1 DEF Travel, Beginnings
<1>8. \A i \in 1..Len(toClient'), c \in Nat :
        toClient'[i] \in EntersOf(c) => c <= connections
  <2> SUFFICES ASSUME NEW i \in 1..Len(toClient'), NEW c \in Nat,
                      toClient'[i] \in EntersOf(c)
               PROVE  c <= connections
    OBVIOUS
  <2>1. CASE toClient'[i] = msg
    BY <1>2, <1>3, <2>1 DEF EntersOf
  <2>2. CASE i \in 1..Len(toClient) /\ toClient'[i] = toClient[i]
    BY <2>2 DEF Travel, Beginnings
  <2>3. \/ toClient'[i] = msg
        \/ i \in 1..Len(toClient) /\ toClient'[i] = toClient[i]
    BY <1>3, <1>5, AppendProperties, LenProperties
  <2> QED BY <2>1, <2>2, <2>3
<1>9. Beginnings'
  BY <1>1, <1>4, <1>6, <1>7, <1>8 DEF Travel, Beginnings
<1>10. InOrder'
  <2>1. \A c \in Nat : msg \in Late(c) => connections < c
    BY <1>3 DEF Late, AnsweredPawns
  <2> QED BY <1>1, <1>2, <1>3, <2>1, NothingAhead, InOrderJoined DEF Travel
<1>11. Debt'
  <2> SUFFICES ASSUME connections \notin misled PROVE Debt'
    BY <1>1, <1>4 DEF Debt
  <2>1. CountOf(toClient, E) + Traveling + n <= peerAwaits
    BY <1>1, <1>4 DEF Travel, Debt
  <2>2. CountOf(toClient', E) = CountOf(toClient, E) + 1
    <3>1. msg \in E
      BY <1>3 DEF EntersOf
    <3> HIDE DEF E
    <3> QED BY <1>3, <1>5, <3>1, CountAppend
  <2>3. CountOf(toClient', E) + Traveling + n <= peerAwaits + 1
    <3> HIDE DEF E, n
    <3> QED BY <1>5, <2>1, <2>2
  <2> QED BY <1>1, <1>4, <1>6, <2>3 DEF Debt
<1> QED BY <1>9, <1>10, <1>11 DEF Travel

(* A server that has been paid creates its pawn behind no EnterScene.      *)
LEMMA TravelCreates ==
  ASSUME GameInv, Travel, NEW accid \in Account, ServerCreates(accid)
  PROVE  Travel'
<1> DEFINE paid == peerSigned /\ peerAwaits = 0
           r == [kind |-> "createPawn", conn |-> connections,
                 accid |-> accid, answered |-> paid]
           E == EntersOf(connections)
           n == CountOf(toPeer, NoticesOut)
<1>1. /\ PeerCalls(r, "none")
      /\ UNCHANGED <<uiShown, pendingLevel, pendingFor, worlds, peerSigned,
                     peerAwaits, misled>>
  BY DEF ServerCreates, sceneVars, gameVars, serverVars
<1>2. r \in ServiceRequest /\ connections \in Nat
  <2>1. paid \in BOOLEAN
    OBVIOUS
  <2> HIDE DEF paid
  <2> QED BY <2>1, GameAssumption DEF Pawns, GameInv, CallInv, Delays
<1>3. PICK msg \in GoodToClient : /\ msg.type = "request" /\ msg.request = r
                                  /\ toClient' = Append(toClient, msg)
  BY <1>1, <1>2, CalledGood
<1>4. connected /\ UNCHANGED <<connections, connected, toPeer>>
  BY <1>1, <1>2, CalledGood
<1>5. /\ \A c \in Nat : msg \notin EntersOf(c)
      /\ \A c \in Nat : msg \in Late(c) =>
           connections < c \/ (c = connections /\ c \notin misled /\ paid)
  <2> HIDE DEF paid
  <2> QED BY <1>3 DEF EntersOf, AnsweredPawns, Late
<1>6. /\ toClient \in Seq(GoodToClient) /\ peerAwaits \in Nat
      /\ n \in Nat /\ CountOf(toClient, E) \in Nat /\ Traveling \in {0, 1}
  BY TravelTypes
<1>7. Traveling' = Traveling /\ worlds' = worlds
  BY <1>1, <1>4 DEF Traveling, PendingOf
<1>8. /\ Places(toClient', E) = Places(toClient, E)
      /\ CountOf(toClient', E) = CountOf(toClient, E)
  <2>1. msg \notin E
    BY <1>2, <1>5
  <2> HIDE DEF E
  <2> QED BY <1>3, <1>6, <2>1, CountAppend
<1>9. \A i \in 1..Len(toClient'), c \in Nat :
        toClient'[i] \in EntersOf(c) => c <= connections
  <2> SUFFICES ASSUME NEW i \in 1..Len(toClient'), NEW c \in Nat,
                      toClient'[i] \in EntersOf(c)
               PROVE  c <= connections
    OBVIOUS
  <2>1. \/ toClient'[i] = msg
        \/ i \in 1..Len(toClient) /\ toClient'[i] = toClient[i]
    BY <1>3, <1>6, AppendProperties, LenProperties
  <2> QED BY <1>5, <2>1 DEF Travel, Beginnings
<1>10. Beginnings'
  BY <1>1, <1>4, <1>9 DEF Travel, Beginnings
<1>11. Debt'
  BY <1>1, <1>4, <1>7, <1>8 DEF Travel, Debt, NoticesLast
<1>12. ASSUME paid, connections \notin misled
       PROVE  Places(toClient, E) = {} /\ PendingOf(connections) = {}
  <2>1. CountOf(toClient, E) + Traveling + n <= 0
    BY <1>4, <1>12 DEF Travel, Debt
  <2> HIDE DEF E, n
  <2>2. CountOf(toClient, E) = 0 /\ Traveling = 0
    BY <1>6, <2>1
  <2>3. PendingOf(connections) = {}
    BY <2>2 DEF Traveling
  <2> QED BY <1>6, <2>2, <2>3, CountNone
<1>13. InOrder'
  <2>1. \A c \in Nat : msg \in Late(c) =>
          Places(toClient, EntersOf(c)) = {} /\ PendingOf(c) = {}
    <3> TAKE c \in Nat
    <3>1. CASE connections < c
      BY <3>1, NothingAhead
    <3>2. CASE c = connections /\ c \notin misled /\ paid
      BY <1>12, <3>2
    <3> HIDE DEF paid
    <3> QED BY <1>5, <3>1, <3>2
  <2> QED BY <1>1, <1>3, <2>1, InOrderJoined DEF Travel
<1> QED BY <1>10, <1>11, <1>13 DEF Travel

(* The server has a sign-in, and then a notice for each debt it settles.   *)
LEMMA TravelReceives == GameInv /\ Travel /\ ServerReceives => Travel'
<1> SUFFICES ASSUME GameInv, Travel, ServerReceives PROVE Travel'
  OBVIOUS
<1> DEFINE msg == Head(toPeer)
           kind == IF msg.type = "request" THEN msg.request.kind ELSE "reply"
           counts == kind = "notifyLoaded" /\ peerAwaits > 0
           E == EntersOf(connections)
           e == CountOf(toClient, E)
           n == CountOf(toPeer, NoticesOut)
<1>1. /\ connected /\ toPeer # << >> /\ toPeer' = Tail(toPeer)
      /\ peerSigned' = (peerSigned \/ kind = "signIn")
      /\ peerAwaits' = IF counts THEN peerAwaits - 1 ELSE peerAwaits
      /\ misled' = IF counts /\ msg.request.older
                     THEN misled \cup {connections} ELSE misled
      /\ UNCHANGED <<uiShown, pendingLevel, pendingFor, worlds, connections,
                     connected, toClient>>
  BY DEF ServerReceives, PeerReceives, sceneVars, connVars
<1>2. /\ toPeer \in Seq(GoodToPeer) /\ peerAwaits \in Nat
      /\ n \in Nat /\ e \in Nat /\ Traveling \in {0, 1}
  BY TravelTypes
<1>3. msg \in GoodToPeer /\ toPeer' \in Seq(GoodToPeer)
      /\ CountOf(toPeer', NoticesOut) \in Nat
  BY <1>1, <1>2, SeqTail, PlacesFinite
<1>4. /\ msg \in NoticesOut <=> kind = "notifyLoaded" /\ ~msg.request.older
      /\ msg \in SignInsOut <=> kind = "signIn"
  <2> HIDE DEF msg
  <2> QED BY <1>3 DEF NoticesOut, SignInsOut
<1>5. Traveling' = Traveling /\ misled \subseteq misled'
  BY <1>1 DEF Traveling, PendingOf
<1>6. /\ msg \in NoticesOut => n = CountOf(toPeer', NoticesOut) + 1
      /\ msg \notin NoticesOut => n = CountOf(toPeer', NoticesOut)
  BY <1>1, <1>2, CountTail
<1>7. NoticesLast => /\ NoticesLast'
                     /\ msg \in SignInsOut => Places(toPeer', NoticesOut) = {}
  <2> SUFFICES ASSUME NoticesLast
               PROVE  /\ NoticesLast'
                      /\ msg \in SignInsOut => Places(toPeer', NoticesOut) = {}
    OBVIOUS
  <2>1. \A i, j \in 1..Len(toPeer) :
          i < j /\ toPeer[i] \in SignInsOut => toPeer[j] \notin NoticesOut
    BY DEF NoticesLast
  <2>2. /\ msg \in SignInsOut => Places(Tail(toPeer), NoticesOut) = {}
        /\ \A i, j \in 1..Len(Tail(toPeer)) :
             i < j /\ Tail(toPeer)[i] \in SignInsOut
               => Tail(toPeer)[j] \notin NoticesOut
    BY <1>1, <1>2, <2>1, TailOut
  <2> QED BY <1>1, <2>2 DEF NoticesLast
<1>8. worlds = 0 => Places(toPeer', SignInsOut) = {} /\ msg \notin SignInsOut
  <2> SUFFICES ASSUME worlds = 0
               PROVE  Places(toPeer', SignInsOut) = {} /\ msg \notin SignInsOut
    OBVIOUS
  <2>1. CountOf(toPeer, SignInsOut) = 0
    BY <1>2, CountNone DEF Travel, Beginnings
  <2>2. CountOf(toPeer', SignInsOut) \in Nat
    BY <1>3, PlacesFinite
  <2>3. CountOf(toPeer', SignInsOut) = 0 /\ msg \notin SignInsOut
    <3>1. /\ msg \in SignInsOut
               => CountOf(toPeer, SignInsOut) = CountOf(toPeer', SignInsOut) + 1
          /\ msg \notin SignInsOut
               => CountOf(toPeer, SignInsOut) = CountOf(toPeer', SignInsOut)
      BY <1>1, <1>2, CountTail
    <3> HIDE DEF msg
    <3> QED BY <2>1, <2>2, <3>1
  <2> QED BY <1>3, <2>3, CountNone
<1>9. Beginnings'
  BY <1>1, <1>4, <1>8 DEF Travel, Beginnings
<1>10. InOrder'
  BY <1>1, <1>5, InOrderKept DEF Travel
<1>11. ASSUME connections \notin misled', peerSigned PROVE Debt'
  <2>1. e + Traveling + n <= peerAwaits
    BY <1>1, <1>5, <1>11 DEF Travel, Debt
  <2>2. e + Traveling + CountOf(toPeer', NoticesOut) <= peerAwaits'
    <3>1. ~(counts /\ msg.request.older)
      BY <1>1, <1>11
    <3> HIDE DEF e, n, msg, kind
    <3>2. CASE msg \in NoticesOut
      <4>1. peerAwaits > 0 /\ n = CountOf(toPeer', NoticesOut) + 1
        BY <1>2, <1>3, <1>6, <2>1, <3>2
      <4>2. peerAwaits' = peerAwaits - 1
        BY <1>1, <1>4, <3>2, <4>1
      <4> QED BY <1>2, <1>3, <2>1, <4>1, <4>2
    <3>3. CASE msg \notin NoticesOut
      <4>1. ~counts
        BY <1>4, <3>1, <3>3
      <4> HIDE DEF counts
      <4> QED BY <1>1, <1>6, <2>1, <3>3, <4>1
    <3> QED BY <3>2, <3>3
  <2>3. peerSigned'
    BY <1>1, <1>11
  <2> QED BY <1>1, <1>5, <2>2, <2>3 DEF Debt
<1>12. ASSUME connections \notin misled', ~peerSigned PROVE Debt'
  <2>1. Places(toClient, E) = {} /\ Traveling = 0 /\ NoticesLast
    BY <1>1, <1>5, <1>12 DEF Travel, Debt
  <2>2. CASE msg \in SignInsOut
    <3>1. Places(toPeer', NoticesOut) = {}
      BY <1>7, <2>1, <2>2
    <3>2. CountOf(toPeer', NoticesOut) = 0
      BY <1>3, <3>1, CountNone
    <3>3. e = 0
      <4> HIDE DEF E
      <4>1. toClient \in Seq(GoodToClient)
        BY TravelTypes
      <4> QED BY <2>1, <4>1, CountNone
    <3>4. peerAwaits' = peerAwaits
      BY <1>1, <1>4, <2>2
    <3>5. e + Traveling' + CountOf(toPeer', NoticesOut) <= peerAwaits'
      <4> HIDE DEF e
      <4> QED BY <1>2, <1>5, <2>1, <3>2, <3>3, <3>4
    <3> QED BY <1>1, <1>4, <2>2, <3>5 DEF Debt
  <2>3. CASE msg \notin SignInsOut
    <3>1. ~peerSigned'
      BY <1>1, <1>4, <1>12, <2>3
    <3> QED BY <1>1, <1>5, <1>7, <2>1, <3>1 DEF Debt
  <2> QED BY <2>2, <2>3
<1>13. ASSUME connections \in misled' PROVE Debt'
  BY <1>1, <1>13 DEF Debt
<1> QED BY <1>9, <1>10, <1>11, <1>12, <1>13 DEF Travel

(* What is left when a connection ends is in the order it was.             *)
LEMMA TravelFront ==
  ASSUME GameInv, Travel, NEW k \in 0..Len(toClient),
         toClient' = SubSeq(toClient, 1, k),
         ~connected', toPeer' = << >>, ~peerSigned',
         UNCHANGED <<uiShown, pendingLevel, pendingFor, worlds, misled,
                     connections>>
  PROVE  Travel'
<1>1. /\ toClient \in Seq(GoodToClient) /\ Len(toClient) \in Nat
      /\ Len(toClient') = k
      /\ \A i \in 1..k : i \in 1..Len(toClient) /\ toClient'[i] = toClient[i]
  BY TravelTypes, SubSeqProperties, LenProperties
<1>2. Beginnings'
  BY <1>1, CountEmpty DEF Travel, Beginnings
<1>3. InOrder'
  <2> SUFFICES ASSUME NEW c \in Nat
               PROVE  /\ \A i, j \in 1..Len(toClient') :
                           i < j /\ toClient'[i] \in EntersOf(c)
                             => toClient'[j] \notin Late(c)'
                      /\ PendingOf(c)' # {} => Places(toClient', Late(c)') = {}
    BY DEF InOrder
  <2>1. Late(c)' = Late(c) /\ PendingOf(c)' = PendingOf(c)
    BY DEF Late, PendingOf
  <2>2. /\ \A i, j \in 1..Len(toClient) :
             i < j /\ toClient[i] \in EntersOf(c) => toClient[j] \notin Late(c)
        /\ PendingOf(c) # {} => Places(toClient, Late(c)) = {}
    BY DEF Travel, InOrder
  <2>3. \A i, j \in 1..Len(toClient') :
          i < j /\ toClient'[i] \in EntersOf(c) => toClient'[j] \notin Late(c)
    BY <1>1, <2>2
  <2>4. Places(toClient', Late(c)) \subseteq Places(toClient, Late(c))
    BY <1>1 DEF Places
  <2> QED BY <2>1, <2>2, <2>3, <2>4
<1> QED BY <1>2, <1>3 DEF Travel, Debt

(* A new connection has no EnterScene of its own and no level they asked   *)
(* for: one still pending is an older connection's.                        *)
LEMMA TravelStarts == GameInv /\ Travel /\ SessionStarts => Travel'
<1> SUFFICES ASSUME GameInv, Travel, SessionStarts PROVE Travel'
  OBVIOUS
<1>1. /\ ~connected /\ connections' = connections + 1
      /\ UNCHANGED <<uiShown, pendingLevel, pendingFor, worlds, peerSigned,
                     peerAwaits, misled, toPeer, toClient>>
  BY DEF SessionStarts, Reconnect, In!Connect, gameVars, sceneVars, serverVars
<1>2. connections \in Nat /\ toPeer = << >> /\ ~peerSigned
  BY <1>1, TravelTypes DEF Travel, Beginnings
<1>3. \A e \in pendingFor : e.conn \in Nat /\ e.conn <= connections
  BY DEF Travel, Beginnings, GameInv, GameTypeOK
<1>4. Beginnings'
  <2>1. \A i \in 1..Len(toClient'), c \in Nat :
          toClient'[i] \in EntersOf(c) => c <= connections'
    BY <1>1, <1>2 DEF Travel, Beginnings
  <2>2. \A e \in pendingFor' : e.conn <= connections'
    BY <1>1, <1>2, <1>3
  <2> QED BY <1>1, <1>2, <2>1, <2>2 DEF Travel, Beginnings
<1>5. connections < connections' /\ connections' \in Nat
  BY <1>1, <1>2
<1>6. Places(toClient, EntersOf(connections')) = {}
      /\ PendingOf(connections') = {}
  <2> DEFINE k == connections'
  <2>1. connections < k /\ k \in Nat
    BY <1>5
  <2> HIDE DEF k
  <2>2. Places(toClient, EntersOf(k)) = {} /\ PendingOf(k) = {}
    BY <2>1, NothingAhead
  <2> QED BY <2>2 DEF k
<1>7. Traveling' = 0
  BY <1>1, <1>6 DEF Traveling, PendingOf
<1>8. NoticesLast'
  BY <1>1, <1>2 DEF NoticesLast
<1>9. Debt'
  BY <1>1, <1>2, <1>6, <1>7, <1>8 DEF Debt
<1>10. InOrder'
  BY <1>1, InOrderKept DEF Travel
<1> QED BY <1>4, <1>9, <1>10 DEF Travel

LEMMA TravelSame ==
  ASSUME Travel,
         UNCHANGED <<uiShown, pendingLevel, pendingFor, worlds, peerSigned,
                     peerAwaits, misled, connections, connected, toPeer,
                     toClient>>
  PROVE  Travel'
<1>1. Traveling' = Traveling /\ (NoticesLast => NoticesLast')
  BY DEF Traveling, PendingOf, NoticesLast
<1>2. InOrder'
  BY InOrderKept DEF Travel
<1> QED BY <1>1, <1>2 DEF Travel, Beginnings, Debt

(* Another message is neither a pawn nor an EnterScene.                    *)
LEMMA TravelIn ==
  ASSUME GameInv, Travel, NEW msg \in GoodToClient, msg.type # "request",
         toClient' = Append(toClient, msg),
         UNCHANGED <<uiShown, pendingLevel, pendingFor, worlds, peerSigned,
                     peerAwaits, misled, connections, connected, toPeer>>
  PROVE  Travel'
<1> DEFINE E == EntersOf(connections)
<1>1. toClient \in Seq(GoodToClient)
  BY TravelTypes
<1>2. (\A c \in Nat : msg \notin EntersOf(c) /\ msg \notin Late(c)) /\ msg \notin E
  BY DEF EntersOf, Late, AnsweredPawns
<1>3. /\ Places(toClient', E) = Places(toClient, E)
      /\ CountOf(toClient', E) = CountOf(toClient, E)
  <2> HIDE DEF E
  <2> QED BY <1>1, <1>2, CountAppend
<1>4. \A i \in 1..Len(toClient'), c \in Nat :
        toClient'[i] \in EntersOf(c) => c <= connections
  <2> SUFFICES ASSUME NEW i \in 1..Len(toClient'), NEW c \in Nat,
                      toClient'[i] \in EntersOf(c)
               PROVE  c <= connections
    OBVIOUS
  <2>1. \/ toClient'[i] = msg
        \/ i \in 1..Len(toClient) /\ toClient'[i] = toClient[i]
    BY <1>1, AppendProperties, LenProperties
  <2> QED BY <1>2, <2>1 DEF Travel, Beginnings
<1>5. Traveling' = Traveling /\ (NoticesLast => NoticesLast')
  BY DEF Traveling, PendingOf, NoticesLast
<1>6. Beginnings'
  BY <1>4 DEF Travel, Beginnings
<1>7. Debt'
  BY <1>3, <1>5 DEF Travel, Debt
<1>8. InOrder'
  BY <1>2, InOrderJoined DEF Travel
<1> QED BY <1>6, <1>7, <1>8 DEF Travel

LEMMA TravelOther == GameInv /\ Travel /\ OtherSteps => Travel'
<1> SUFFICES ASSUME GameInv, Travel, OtherSteps PROVE Travel'
  OBVIOUS
<1>1. UNCHANGED <<uiShown, pendingLevel, pendingFor, worlds, peerSigned,
                  peerAwaits, misled>>
  BY DEF OtherSteps, gameVars, sceneVars, serverVars
<1>2. ASSUME NEW id \in DOMAIN peerOwes, NEW body \in Answers,
             PeerAnswers(id, body)
      PROVE  Travel'
  <2> DEFINE msg == [type |-> "response", id |-> id, body |-> body,
                     n |-> peerOwes[id].n]
  <2>1. msg \in GoodToClient
    BY DEF GoodToClient, ToClientMessage, GameInv, CallInv, Owed
  <2>2. toClient' = Append(toClient, msg)
        /\ UNCHANGED <<connections, connected, toPeer>>
    BY <1>2 DEF PeerAnswers, In!Sends
  <2> QED BY <1>1, <2>1, <2>2, TravelIn
<1>3. CASE PeerSendsOther
  <2> DEFINE msg == [type |-> "other"]
  <2>1. msg \in GoodToClient
    BY DEF GoodToClient, ToClientMessage
  <2>2. toClient' = Append(toClient, msg)
        /\ UNCHANGED <<connections, connected, toPeer>>
    BY <1>3 DEF PeerSendsOther, In!Sends
  <2> QED BY <1>1, <2>1, <2>2, TravelIn
<1>4. CASE DisconnectEmpties
  <2>1. /\ ~connected /\ toClient' = << >>
        /\ UNCHANGED <<connections, connected, toPeer>>
    BY <1>4 DEF DisconnectEmpties, In!Empty
  <2>2. toPeer = << >> /\ ~peerSigned
    BY <2>1 DEF Travel, Beginnings
  <2>3. toClient' = SubSeq(toClient, 1, 0) /\ 0 \in 0..Len(toClient)
    BY <2>1, TravelTypes, LenProperties
  <2> QED BY <1>1, <2>1, <2>2, <2>3, TravelFront
<1> QED BY <1>2, <1>3, <1>4 DEF OtherSteps

LEMMA TravelStep ==
  GameInv /\ Travel /\ [GameNext]_allVars => Travel'
<1> SUFFICES ASSUME GameInv, Travel, [GameNext]_allVars PROVE Travel'
  OBVIOUS
<1>1. CASE SessionEnds
  <2>1. /\ connected' = FALSE /\ toPeer' = << >> /\ peerSigned' = FALSE
        /\ UNCHANGED <<uiShown, pendingLevel, pendingFor, worlds, misled,
                       connections>>
        /\ \E k \in 0..Len(toClient) : toClient' = SubSeq(toClient, 1, k)
    BY <1>1 DEF SessionEnds, ConnectionEnds, In!End, sceneVars
  <2> QED BY <2>1, TravelFront
<1>2. CASE UNCHANGED allVars
  BY <1>2, TravelSame
     DEF allVars, vars, gameVars, sceneVars, serverVars, connVars
<1> QED BY <1>1, <1>2, TravelClick, TravelLoad, TravelDispatch, TravelEnters,
           TravelCreates, TravelReceives, TravelStarts, TravelOther
        DEF GameNext

LEMMA TravelInit == GameInit => Travel
<1> SUFFICES ASSUME GameInit PROVE Travel
  OBVIOUS
<1>1. /\ toPeer = << >> /\ toClient = << >> /\ worlds = 0 /\ ~uiShown
      /\ ~peerSigned /\ pendingFor = {} /\ connected
  BY DEF GameInit, Init
<1>2. \A c : PendingOf(c) = {}
  BY <1>1 DEF PendingOf
<1>3. Traveling = 0
  BY <1>2 DEF Traveling
<1>4. Len(toClient) = 0 /\ Len(toPeer) = 0
  BY <1>1
<1>5. Beginnings
  BY <1>1, <1>4, CountEmpty DEF Beginnings
<1>6. Debt
  BY <1>1, <1>3, <1>4, CountEmpty DEF Debt, NoticesLast
<1>7. InOrder
  BY <1>2, <1>4 DEF InOrder
<1> QED BY <1>5, <1>6, <1>7 DEF Travel

(* The inductive invariant of pawns and travel.                            *)
THEOREM TravelInvariant == GameSpec => []Travel
BY GameInvariant, TravelInit, TravelStep, PTL DEF GameSpec

(* A server that has had a notice for every EnterScene creates a pawn that *)
(* the client does not throw away, unless the level pending is only for    *)
(* older connections' EnterScenes or the server counted such a level's     *)
(* notice as one of its own: for any number of scenes, pawns, connections. *)
THEOREM PawnThm == GameSpec => []PawnOutlivesTravel
<1>1. GameInv /\ Travel => PawnOutlivesTravel
  <2> DEFINE msg == Head(toClient)
             conn == msg.request.conn
  <2> SUFFICES ASSUME GameInv, Travel, toClient # << >>, worlds > 0,
                      msg.type = "request",
                      msg.request.kind = "createPawn",
                      msg.request.answered,
                      pendingLevel, conn \notin misled
               PROVE  pendingFor # {} /\ \A e \in pendingFor : e.conn < conn
    BY DEF PawnOutlivesTravel
  <2>1. toClient \in Seq(GoodToClient) /\ worlds \in Nat
    BY TravelTypes
  <2>2. 1 \in 1..Len(toClient) /\ msg = toClient[1] /\ msg \in GoodToClient
    BY <2>1, HeadTailProperties, LenProperties, EmptySeq
  <2>3. pendingFor # {}
    BY <2>1 DEF Travel, Beginnings
  <2>4. conn \in Nat
    BY <2>2, ClientMessageShape, ConnShape
  <2>5. \A e \in pendingFor : e.conn < conn
    <3> SUFFICES ASSUME NEW e \in pendingFor PROVE e.conn < conn
      OBVIOUS
    <3> DEFINE k == e.conn
    <3>1. k \in Nat /\ PendingOf(k) # {}
      BY DEF GameInv, GameTypeOK, PendingOf
    <3> HIDE DEF k
    <3>2. Places(toClient, Late(k)) = {}
      BY <3>1 DEF Travel, InOrder
    <3>3. msg \notin Late(k)
      BY <2>2, <3>2 DEF Places
    <3>4. ~(conn < k) /\ conn # k
      <4> HIDE DEF msg
      <4> QED BY <2>2, <3>3 DEF Late, AnsweredPawns
    <3> HIDE DEF conn
    <3>5. k < conn
      BY <2>4, <3>1, <3>4
    <3> QED BY <3>5 DEF k
  <2> QED BY <2>3, <2>5
<1> QED BY <1>1, GameInvariant, TravelInvariant, PTL
=============================================================================
