-------------------------- MODULE RpcChannelProofs --------------------------
(***************************************************************************)
(* Theorems about RpcChannel, for every choice of the constants: types,    *)
(* the matching of responses to calls, and the conservation of replies.    *)
(*                                                                         *)
(* The id of a call stands for the call everywhere it travels: n, the      *)
(* ghost that says which call a record is about, equals the id under which *)
(* the record is found.  That is what makes CallInv inductive.             *)
(***************************************************************************)
EXTENDS RpcChannel, TLAPS, SequenceTheorems, FiniteSetTheorems,
        FunctionTheorems

GoodToPeer == {m \in ToPeerMessage : m.type = "request" => m.n = m.id}
GoodToClient == {m \in ToClientMessage : m.type = "response" => m.n = m.id}
Callback == [call : 1..MaxId, answer : 1..MaxId]

Wire == toPeer \in Seq(GoodToPeer) /\ toClient \in Seq(GoodToClient)

Owed == \A id \in DOMAIN peerOwes :
          id \in 1..MaxId /\ peerOwes[id] \in [n : {id}, left : Nat]

CallTable ==
  /\ m_id \in 0..MaxId /\ sent = m_id
  /\ callbacks \in Seq(Callback)
  /\ DOMAIN m_outstandings = (1..m_id) \ CalledBack
  /\ CalledBack \subseteq 1..m_id
  /\ \A id \in DOMAIN m_outstandings :
       m_outstandings[id] \in [request : Request, n : {id}]
  /\ CallbackForItsRequest
  /\ Len(callbacks) = Cardinality(CalledBack)

Delays ==
  /\ m_delayResponseId \in Nat
  /\ DOMAIN m_delayResponse \subseteq 1..m_delayResponseId
  /\ \A d \in DOMAIN m_delayResponse :
       m_delayResponse[d] \in [msgId : handled, response : BOOLEAN]
  /\ handled \subseteq 1..MaxPeerId /\ abandoned \subseteq handled
  /\ peerId \in 0..MaxPeerId
  /\ connections \in 1..MaxConnections /\ connected \in BOOLEAN

CallInv == Wire /\ Owed /\ CallTable /\ Delays

(* The constants a step's arithmetic needs.                                *)
LEMMA Bounds == /\ MaxId \in Nat /\ MaxPeerId \in Nat
                /\ MaxAnswers \in Nat /\ MaxConnections \in Nat \ {0}
  BY RpcAssumption

-----------------------------------------------------------------------------
(* The two channels *)

LEMMA SeqAppend ==
  ASSUME NEW S, NEW s \in Seq(S), NEW e \in S
  PROVE  Append(s, e) \in Seq(S)
  BY AppendProperties

LEMMA SeqTail ==
  ASSUME NEW S, NEW s \in Seq(S), s # << >>
  PROVE  Head(s) \in S /\ Tail(s) \in Seq(S)
  BY HeadTailProperties

LEMMA SeqFront ==
  ASSUME NEW S, NEW s \in Seq(S), NEW k \in 0..Len(s)
  PROVE  SubSeq(s, 1, k) \in Seq(S)
<1>1. \A i \in 1..k : s[i] \in S
  BY ElementOfSeq, LenProperties
<1> QED BY <1>1, SubSeqProperties, LenProperties

(* What a queued response or request looks like.                           *)
LEMMA ClientMessageShape ==
  ASSUME NEW m \in GoodToClient
  PROVE  /\ m.type = "response" => /\ m.id \in 1..MaxId /\ m.n = m.id
                                   /\ m.body \in Answers
         /\ m.type = "request" => /\ m.id \in 1..MaxPeerId
                                  /\ m.request \in ServiceRequest
                                  /\ m.fault \in Faults
  BY DEF GoodToClient, ToClientMessage

(* Sending without a connection loses the message.                         *)
LEMMA TransmitWire ==
  ASSUME Wire, NEW msg \in GoodToPeer, Transmit(msg)
  PROVE  toPeer' \in Seq(GoodToPeer)
<1>1. CASE connected
  BY <1>1, SeqAppend DEF Wire, Transmit
<1>2. CASE ~connected
  BY <1>2 DEF Wire, Transmit
<1> QED BY <1>1, <1>2

LEMMA ReplyWire ==
  ASSUME Wire, NEW id \in 1..MaxPeerId, NEW body \in Answers, Reply(id, body)
  PROVE  toPeer' \in Seq(GoodToPeer)
<1>1. [type |-> "response", id |-> id, body |-> body] \in GoodToPeer
  BY DEF GoodToPeer, ToPeerMessage
<1> QED BY <1>1, TransmitWire DEF Reply

-----------------------------------------------------------------------------
(* The call table *)

LEMMA CallTableKept == CallTable /\ UNCHANGED ownVars => CallTable'
<1> SUFFICES ASSUME CallTable, UNCHANGED ownVars PROVE CallTable'
  OBVIOUS
<1>1. UNCHANGED <<m_id, m_outstandings, sent, callbacks>>
  BY DEF ownVars
<1>2. CalledBack' = CalledBack /\ Callback' = Callback
  BY <1>1 DEF CalledBack, Callback
<1>3. CallbackForItsRequest'
  BY <1>1 DEF CallbackForItsRequest, CallTable
<1> QED BY <1>1, <1>2, <1>3 DEF CallTable

(* A new call has an id no call had.                                       *)
LEMMA SendRequestCalls ==
  ASSUME CallTable, NEW r \in Request, SendRequest(r)
  PROVE  CallTable'
<1> USE DEF SendRequest, CallTable
<1>1. m_id' = m_id + 1 /\ m_id' \in 1..MaxId /\ sent' = m_id' /\ m_id \in Nat
  BY Bounds
<1>2. callbacks' = callbacks /\ CalledBack' = CalledBack
  BY DEF CalledBack
<1>3. DOMAIN m_outstandings' = DOMAIN m_outstandings \cup {m_id'}
  BY DEF With
<1>4. \A id \in DOMAIN m_outstandings' :
        m_outstandings'[id] \in [request : Request, n : {id}]
  BY <1>1, <1>3 DEF With
<1>5. 1..m_id' = (1..m_id) \cup {m_id'} /\ m_id' \notin 1..m_id
  BY <1>1
<1>6. /\ DOMAIN m_outstandings' = (1..m_id') \ CalledBack'
      /\ CalledBack' \subseteq 1..m_id'
  BY <1>2, <1>3, <1>5
<1> QED BY <1>1, <1>2, <1>4, <1>6 DEF CallbackForItsRequest, Callback

(* One more callback, one more call called back.                           *)
LEMMA OneMoreCallback ==
  ASSUME callbacks \in Seq(Callback), NEW c \in Callback,
         callbacks' = Append(callbacks, c)
  PROVE  /\ callbacks' \in Seq(Callback)
         /\ Len(callbacks') = Len(callbacks) + 1
         /\ CalledBack' = CalledBack \cup {c.call}
         /\ CallbackForItsRequest /\ c.call = c.answer /\ c.call \notin CalledBack
              => CallbackForItsRequest'
<1>1. /\ callbacks' \in Seq(Callback) /\ Len(callbacks') = Len(callbacks) + 1
      /\ Len(callbacks) \in Nat
      /\ \A i \in 1..Len(callbacks) : callbacks'[i] = callbacks[i]
      /\ callbacks'[Len(callbacks) + 1] = c
  BY AppendProperties, LenProperties
<1>2. 1..Len(callbacks') = (1..Len(callbacks)) \cup {Len(callbacks) + 1}
  BY <1>1
<1>3. CalledBack' = CalledBack \cup {c.call}
  BY <1>1, <1>2 DEF CalledBack
<1>4. ASSUME CallbackForItsRequest, c.call = c.answer, c.call \notin CalledBack
      PROVE  CallbackForItsRequest'
  <2>1. \A i \in 1..Len(callbacks) : callbacks[i].call # c.call
    BY <1>4 DEF CalledBack
  <2>2. \A i, j \in 1..Len(callbacks') :
          callbacks'[i].call = callbacks'[j].call => i = j
    BY <1>1, <1>2, <1>4, <2>1 DEF CallbackForItsRequest
  <2>3. \A i \in 1..Len(callbacks') :
          callbacks'[i].call = callbacks'[i].answer
    BY <1>1, <1>2, <1>4 DEF CallbackForItsRequest
  <2> QED BY <2>2, <2>3 DEF CallbackForItsRequest
<1> QED BY <1>1, <1>3, <1>4

(* A response that ends its call moves the call from the table to the      *)
(* callbacks; any other response changes neither.                          *)
LEMMA StubCalls ==
  ASSUME CallTable, NEW msg \in GoodToClient, msg.type = "response",
         stubHandleResponseMsg(msg)
  PROVE  CallTable'
<1> USE DEF CallTable
<1>1. CASE msg.body = "value" /\ msg.id \in DOMAIN m_outstandings
  <2> DEFINE c == [call |-> m_outstandings[msg.id].n, answer |-> msg.n]
  <2>1. /\ UNCHANGED <<m_id, sent>> /\ callbacks' = Append(callbacks, c)
        /\ m_outstandings' = Without(m_outstandings, msg.id)
    BY <1>1 DEF stubHandleResponseMsg
  <2>2. msg.id \in 1..MaxId /\ msg.n = msg.id
    BY ClientMessageShape
  <2>3. c.call = msg.id /\ c.answer = msg.id /\ c \in Callback
    BY <1>1, <2>2 DEF Callback
  <2>4. msg.id \in 1..m_id /\ msg.id \notin CalledBack
    BY <1>1
  <2>5. /\ callbacks' \in Seq(Callback) /\ Len(callbacks') = Len(callbacks) + 1
        /\ CalledBack' = CalledBack \cup {msg.id}
        /\ CallbackForItsRequest'
    BY <2>1, <2>3, <2>4, OneMoreCallback
  <2>6. IsFiniteSet(CalledBack)
    <3>1. m_id \in Int /\ 0 \in Int /\ 1 \in Int
      BY Bounds
    <3>2. IsFiniteSet(1..m_id)
      BY <3>1, FS_Interval
    <3> QED BY <3>2, FS_Subset
  <2>7. Len(callbacks') = Cardinality(CalledBack')
    BY <2>4, <2>5, <2>6, FS_AddElement
  <2>8. /\ DOMAIN m_outstandings' = DOMAIN m_outstandings \ {msg.id}
        /\ \A id \in DOMAIN m_outstandings' :
             m_outstandings'[id] \in [request : Request, n : {id}]
    BY <2>1 DEF Without
  <2> QED BY <2>1, <2>4, <2>5, <2>7, <2>8
<1>2. CASE ~(msg.body = "value" /\ msg.id \in DOMAIN m_outstandings)
  BY <1>2, CallTableKept DEF stubHandleResponseMsg, ownVars
<1> QED BY <1>1, <1>2

-----------------------------------------------------------------------------
(* The service side *)

LEMMA DelaysKept ==
  Delays /\ UNCHANGED <<serviceVars, peerId, connVars>> => Delays'
  BY DEF Delays, serviceVars, connVars

LEMMA ServiceDelays ==
  ASSUME Delays, NEW msg \in GoodToClient, msg.type = "request",
         serviceHandleRequestMsg(msg), UNCHANGED <<peerId, connVars>>
  PROVE  Delays'
<1> USE DEF Delays, connVars
<1>1. msg.id \in 1..MaxPeerId /\ UNCHANGED abandoned
  BY ClientMessageShape DEF serviceHandleRequestMsg, NewDelayResponse
<1>2. handled' = handled \/ handled' = handled \cup {msg.id}
  BY DEF serviceHandleRequestMsg, NewDelayResponse
<1>3. CASE UNCHANGED <<m_delayResponseId, m_delayResponse>>
  BY <1>1, <1>2, <1>3
<1>4. CASE /\ m_delayResponseId' = m_delayResponseId + 1
           /\ m_delayResponse' = With(m_delayResponse, m_delayResponseId',
                [msgId |-> msg.id, response |-> FALSE])
           /\ handled' = handled \cup {msg.id}
  <2>1. /\ m_delayResponseId' \in Nat /\ m_delayResponseId' \in 1..m_delayResponseId'
        /\ 1..m_delayResponseId \subseteq 1..m_delayResponseId'
    BY <1>4
  <2>2. DOMAIN m_delayResponse' = DOMAIN m_delayResponse \cup {m_delayResponseId'}
    BY <1>4 DEF With
  <2>3. \A d \in DOMAIN m_delayResponse' :
          m_delayResponse'[d] \in [msgId : handled', response : BOOLEAN]
    BY <1>4, <2>2 DEF With
  <2> QED BY <1>1, <1>4, <2>1, <2>2, <2>3
<1> QED BY <1>3, <1>4 DEF serviceHandleRequestMsg, NewDelayResponse

LEMMA ServiceWire ==
  ASSUME Wire, NEW msg \in GoodToClient, msg.type = "request",
         serviceHandleRequestMsg(msg)
  PROVE  toPeer' \in Seq(GoodToPeer)
<1>1. msg.id \in 1..MaxPeerId
  BY ClientMessageShape
<1>2. CASE UNCHANGED toPeer
  BY <1>2 DEF Wire
<1>3. CASE Reply(msg.id, "error") \/ Reply(msg.id, "value")
  BY <1>1, <1>3, ReplyWire DEF Answers
<1> QED BY <1>2, <1>3 DEF serviceHandleRequestMsg, NewDelayResponse

LEMMA SetResponseDelays ==
  ASSUME Delays, NEW d \in DOMAIN m_delayResponse, SetResponse(d)
  PROVE  Delays'
<1>1. /\ UNCHANGED <<m_delayResponseId, handled, abandoned, peerId, connVars>>
      /\ m_delayResponse' = [m_delayResponse EXCEPT ![d].response = TRUE]
  BY DEF SetResponse, peerVars
<1>2. /\ DOMAIN m_delayResponse' = DOMAIN m_delayResponse
      /\ \A e \in DOMAIN m_delayResponse' :
           m_delayResponse'[e] \in [msgId : handled', response : BOOLEAN]
  BY <1>1 DEF Delays
<1> QED BY <1>1, <1>2 DEF Delays, connVars

LEMMA DoDelayResponseDelays ==
  ASSUME Delays, NEW d \in DOMAIN m_delayResponse, DoDelayResponse(d)
  PROVE  Delays'
<1>1. /\ UNCHANGED <<m_delayResponseId, handled, peerId, connVars>>
      /\ m_delayResponse' = Without(m_delayResponse, d)
      /\ \/ abandoned' = abandoned
         \/ abandoned' = abandoned \cup {m_delayResponse[d].msgId}
  BY DEF DoDelayResponse, peerVars
<1>2. /\ DOMAIN m_delayResponse' \subseteq DOMAIN m_delayResponse
      /\ \A e \in DOMAIN m_delayResponse' :
           m_delayResponse'[e] = m_delayResponse[e]
  BY <1>1 DEF Without
<1>3. m_delayResponse[d].msgId \in handled
  BY DEF Delays
<1> QED BY <1>1, <1>2, <1>3 DEF Delays, connVars

LEMMA DoDelayResponseWire ==
  ASSUME Wire, Delays, NEW d \in DOMAIN m_delayResponse, DoDelayResponse(d)
  PROVE  toPeer' \in Seq(GoodToPeer)
<1>1. m_delayResponse[d].msgId \in 1..MaxPeerId
  BY DEF Delays
<1>2. CASE UNCHANGED toPeer
  BY <1>2 DEF Wire
<1>3. CASE Reply(m_delayResponse[d].msgId, "value")
  BY <1>1, <1>3, ReplyWire DEF Answers
<1> QED BY <1>2, <1>3 DEF DoDelayResponse

-----------------------------------------------------------------------------
(* Steps *)

LEMMA CallInit == Init => CallInv
<1> SUFFICES ASSUME Init PROVE CallInv
  OBVIOUS
<1> USE DEF Init
<1>1. Wire /\ Owed
  BY EmptySeq DEF Wire, Owed
<1>2. CalledBack = {} /\ Len(callbacks) = 0
  BY DEF CalledBack
<1>3. 1..m_id = {} /\ DOMAIN m_outstandings = {}
  OBVIOUS
<1>4. callbacks \in Seq(Callback) /\ CallbackForItsRequest
  BY <1>2, EmptySeq DEF CallbackForItsRequest
<1>5. CallTable
  BY <1>2, <1>3, <1>4, FS_EmptySet, Bounds DEF CallTable
<1>6. Delays
  BY Bounds DEF Delays
<1> QED BY <1>1, <1>5, <1>6 DEF CallInv

LEMMA CallOnMessage == CallInv /\ OnMessage => CallInv'
<1> SUFFICES ASSUME CallInv, OnMessage PROVE CallInv'
  OBVIOUS
<1> USE DEF CallInv
<1> DEFINE msg == Head(toClient)
<1>1. /\ toClient # << >> /\ toClient' = Tail(toClient)
      /\ UNCHANGED <<peerVars, connVars>>
  BY DEF OnMessage, In!Handle, connVars
<1>2. msg \in GoodToClient /\ toClient' \in Seq(GoodToClient)
  BY <1>1, SeqTail DEF Wire
<1>3. UNCHANGED <<peerId, peerOwes, connVars>>
  BY <1>1 DEF peerVars
<1>4. Owed'
  BY <1>3 DEF Owed
<1>5. CASE msg.type = "response" /\ stubHandleResponseMsg(msg)
  <2>1. CallTable'
    BY <1>2, <1>5, StubCalls
  <2>2. UNCHANGED serviceVars /\ UNCHANGED toPeer
    BY <1>5 DEF stubHandleResponseMsg
  <2>3. Delays'
    BY <1>3, <2>2, DelaysKept
  <2> QED BY <1>2, <1>4, <2>1, <2>2, <2>3 DEF Wire
<1>6. CASE msg.type = "request" /\ serviceHandleRequestMsg(msg)
  <2>1. UNCHANGED ownVars
    BY <1>6 DEF serviceHandleRequestMsg, NewDelayResponse
  <2>2. CallTable'
    BY <2>1, CallTableKept
  <2>3. Delays'
    BY <1>2, <1>3, <1>6, ServiceDelays
  <2>4. toPeer' \in Seq(GoodToPeer)
    BY <1>2, <1>6, ServiceWire
  <2> QED BY <1>2, <1>4, <2>2, <2>3, <2>4 DEF Wire
<1>7. CASE msg.type = "other" /\ UNCHANGED <<ownVars, serviceVars, toPeer>>
  <2>1. CallTable' /\ Delays'
    BY <1>3, <1>7, CallTableKept, DelaysKept
  <2> QED BY <1>2, <1>4, <1>7, <2>1 DEF Wire
<1> QED BY <1>5, <1>6, <1>7 DEF OnMessage, In!Handle, connVars

LEMMA CallSendRequest ==
  ASSUME CallInv, NEW r \in Request, SendRequest(r)
  PROVE  CallInv'
<1> USE DEF CallInv
<1>1. /\ UNCHANGED <<serviceVars, peerVars, connVars, toClient>>
      /\ Transmit([type |-> "request", id |-> m_id', request |-> r, n |-> sent'])
      /\ m_id' \in 1..MaxId /\ sent' = m_id'
  BY Bounds DEF SendRequest, CallTable
<1>2. [type |-> "request", id |-> m_id', request |-> r, n |-> sent']
        \in GoodToPeer
  BY <1>1 DEF GoodToPeer, ToPeerMessage
<1>3. CASE connected
  <2>1. toPeer' \in Seq(GoodToPeer)
    BY <1>1, <1>2, <1>3, SeqAppend DEF Transmit, Wire
  <2> QED BY <1>1, <2>1, SendRequestCalls, DelaysKept DEF peerVars, Wire, Owed
<1>4. CASE ~connected
  <2>1. toPeer' \in Seq(GoodToPeer)
    BY <1>1, <1>4 DEF Transmit, Wire
  <2> QED BY <1>1, <2>1, SendRequestCalls, DelaysKept DEF peerVars, Wire, Owed
<1> QED BY <1>3, <1>4

LEMMA CallDelayed ==
  ASSUME CallInv, NEW d \in DOMAIN m_delayResponse,
         SetResponse(d) \/ DoDelayResponse(d)
  PROVE  CallInv'
<1> USE DEF CallInv
<1>1. UNCHANGED <<ownVars, peerVars, toClient>>
  BY DEF SetResponse, DoDelayResponse
<1>2. CallTable' /\ Owed'
  BY <1>1, CallTableKept DEF Owed, peerVars
<1>3. Delays'
  BY SetResponseDelays, DoDelayResponseDelays
<1>4. toPeer' \in Seq(GoodToPeer)
  <2>1. CASE SetResponse(d)
    BY <2>1 DEF SetResponse, Wire
  <2>2. CASE DoDelayResponse(d)
    BY <2>2, DoDelayResponseWire
  <2> QED BY <2>1, <2>2
<1> QED BY <1>1, <1>2, <1>3, <1>4 DEF Wire

LEMMA CallPeerReceives == CallInv /\ PeerReceives => CallInv'
<1> SUFFICES ASSUME CallInv, PeerReceives PROVE CallInv'
  OBVIOUS
<1> USE DEF CallInv
<1> DEFINE msg == Head(toPeer)
<1>1. /\ toPeer # << >> /\ toPeer' = Tail(toPeer)
      /\ UNCHANGED <<ownVars, serviceVars, peerId, connVars, toClient>>
  BY DEF PeerReceives
<1>2. msg \in GoodToPeer /\ toPeer' \in Seq(GoodToPeer)
  BY <1>1, SeqTail DEF Wire
<1>3. Owed'
  <2>1. CASE UNCHANGED peerOwes
    BY <2>1 DEF Owed
  <2>2. CASE msg.type = "request"
             /\ \E k \in 0..MaxAnswers :
                  peerOwes' = With(peerOwes, msg.id, [n |-> msg.n, left |-> k])
    <3>1. PICK k \in 0..MaxAnswers :
            peerOwes' = With(peerOwes, msg.id, [n |-> msg.n, left |-> k])
      BY <2>2
    <3>2. msg.id \in 1..MaxId /\ msg.n = msg.id
      BY <1>2, <2>2 DEF GoodToPeer, ToPeerMessage
    <3> QED BY <3>1, <3>2, Bounds DEF Owed, With
  <2> QED BY <2>1, <2>2 DEF PeerReceives
<1>4. CallTable' /\ Delays'
  BY <1>1, CallTableKept, DelaysKept
<1> QED BY <1>1, <1>2, <1>3, <1>4 DEF Wire

LEMMA CallPeerAnswers ==
  ASSUME CallInv, NEW id \in DOMAIN peerOwes, NEW body \in Answers,
         PeerAnswers(id, body)
  PROVE  CallInv'
<1> USE DEF CallInv
<1> DEFINE msg == [type |-> "response", id |-> id, body |-> body,
                   n |-> peerOwes[id].n]
<1>1. /\ peerOwes[id].left > 0
      /\ peerOwes' = [peerOwes EXCEPT ![id].left = @ - 1]
      /\ toClient' = Append(toClient, msg)
      /\ UNCHANGED <<ownVars, serviceVars, peerId, connVars, toPeer>>
  BY DEF PeerAnswers, In!Sends, connVars
<1>2. id \in 1..MaxId /\ peerOwes[id] \in [n : {id}, left : Nat]
  BY DEF Owed
<1>3. msg \in GoodToClient
  BY <1>2 DEF GoodToClient, ToClientMessage
<1>4. toClient' \in Seq(GoodToClient)
  BY <1>1, <1>3, SeqAppend DEF Wire
<1>5. Owed'
  BY <1>1, <1>2 DEF Owed
<1>6. CallTable' /\ Delays'
  BY <1>1, CallTableKept, DelaysKept
<1> QED BY <1>1, <1>4, <1>5, <1>6 DEF Wire

LEMMA CallPeerCalls ==
  ASSUME CallInv, NEW r \in ServiceRequest, NEW fault \in Faults,
         PeerCalls(r, fault)
  PROVE  CallInv'
<1> USE DEF CallInv
<1> DEFINE msg == [type |-> "request", id |-> peerId', request |-> r,
                   fault |-> fault]
<1>1. /\ peerId < MaxPeerId /\ peerId' = peerId + 1
      /\ toClient' = Append(toClient, msg)
      /\ UNCHANGED <<ownVars, m_delayResponseId, m_delayResponse, handled,
                     abandoned, peerOwes, connVars, toPeer>>
  BY DEF PeerCalls, In!Sends, connVars
<1>2. peerId' \in 1..MaxPeerId /\ peerId' \in 0..MaxPeerId
  BY <1>1, Bounds DEF Delays
<1>3. msg \in GoodToClient
  BY <1>2 DEF GoodToClient, ToClientMessage
<1>4. toClient' \in Seq(GoodToClient)
  BY <1>1, <1>3, SeqAppend DEF Wire
<1>5. Owed' /\ CallTable' /\ Delays'
  BY <1>1, <1>2, CallTableKept DEF Owed, Delays, connVars
<1> QED BY <1>1, <1>4, <1>5 DEF Wire

(* Whatever the connection's end discards, what is left is as it was.      *)
LEMMA CallConnectionEnds == CallInv /\ ConnectionEnds => CallInv'
<1> SUFFICES ASSUME CallInv, ConnectionEnds PROVE CallInv'
  OBVIOUS
<1> USE DEF CallInv
<1>1. /\ connected' = FALSE /\ toPeer' = << >>
      /\ UNCHANGED <<ownVars, serviceVars, peerVars, connections>>
  BY DEF ConnectionEnds, In!End, peerVars
<1>2. PICK k \in 0..Len(toClient) : toClient' = SubSeq(toClient, 1, k)
  BY DEF ConnectionEnds, In!End, peerVars
<1>3. toClient' \in Seq(GoodToClient) /\ toPeer' \in Seq(GoodToPeer)
  BY <1>1, <1>2, SeqFront, EmptySeq DEF Wire
<1>4. Owed' /\ CallTable'
  BY <1>1, CallTableKept DEF Owed, peerVars
<1>5. Delays'
  BY <1>1 DEF Delays, serviceVars, peerVars
<1> QED BY <1>3, <1>4, <1>5 DEF Wire

(* The emptied queue is what a connection's end that keeps nothing leaves. *)
LEMMA EmptiesIsFront ==
  CallInv /\ DisconnectEmpties
    => \E k \in 0..Len(toClient) : toClient' = SubSeq(toClient, 1, k)
<1> SUFFICES ASSUME CallInv, DisconnectEmpties
             PROVE  \E k \in 0..Len(toClient) : toClient' = SubSeq(toClient, 1, k)
  OBVIOUS
<1>1. toClient \in Seq(GoodToClient) /\ toClient' = << >>
  BY DEF CallInv, Wire, DisconnectEmpties, In!Empty, connVars
<1>2. 0 \in 0..Len(toClient) /\ SubSeq(toClient, 1, 0) = << >>
  BY <1>1
<1> WITNESS 0 \in 0..Len(toClient)
<1> QED BY <1>1, <1>2

LEMMA CallDisconnectEmpties == CallInv /\ DisconnectEmpties => CallInv'
<1> SUFFICES ASSUME CallInv, DisconnectEmpties PROVE CallInv'
  OBVIOUS
<1> USE DEF CallInv
<1>1. /\ toClient' = << >>
      /\ UNCHANGED <<ownVars, serviceVars, peerVars, connVars, toPeer>>
  BY DEF DisconnectEmpties, In!Empty, connVars
<1>2. toClient' \in Seq(GoodToClient)
  BY <1>1, EmptySeq
<1>3. Owed' /\ CallTable' /\ Delays'
  BY <1>1, CallTableKept, DelaysKept DEF Owed, peerVars
<1> QED BY <1>1, <1>2, <1>3 DEF Wire

LEMMA CallReconnect == CallInv /\ Reconnect => CallInv'
<1> SUFFICES ASSUME CallInv, Reconnect PROVE CallInv'
  OBVIOUS
<1> USE DEF CallInv
<1>1. /\ connected' = TRUE /\ connections' = connections + 1
      /\ connections < MaxConnections
      /\ UNCHANGED <<ownVars, serviceVars, peerVars, toPeer, toClient>>
  BY DEF Reconnect, In!Connect
<1>2. Wire' /\ Owed' /\ CallTable'
  BY <1>1, CallTableKept DEF Wire, Owed, peerVars
<1>3. Delays'
  BY <1>1, Bounds DEF Delays, serviceVars, peerVars
<1> QED BY <1>2, <1>3

LEMMA CallOther ==
  CallInv /\ (PeerSendsOther \/ UNCHANGED vars) => CallInv'
<1> SUFFICES ASSUME CallInv, PeerSendsOther \/ UNCHANGED vars PROVE CallInv'
  OBVIOUS
<1> USE DEF CallInv
<1>1. UNCHANGED <<ownVars, serviceVars, peerVars, connVars, toPeer>>
  BY DEF PeerSendsOther, In!Sends, connVars, vars
<1>2. Owed' /\ CallTable' /\ Delays'
  BY <1>1, CallTableKept, DelaysKept DEF Owed, peerVars
<1>3. toClient' \in Seq(GoodToClient)
  <2>1. CASE PeerSendsOther
    <3>1. [type |-> "other"] \in GoodToClient
      BY DEF GoodToClient, ToClientMessage
    <3>2. toClient' = Append(<< >>, [type |-> "other"])
      BY <2>1 DEF PeerSendsOther, In!Sends, connVars
    <3> QED BY <3>1, <3>2, SeqAppend, EmptySeq
  <2>2. CASE UNCHANGED vars
    BY <2>2 DEF vars, Wire
  <2> QED BY <2>1, <2>2
<1> QED BY <1>1, <1>2, <1>3 DEF Wire

THEOREM CallStep == CallInv /\ [Next]_vars => CallInv'
<1> SUFFICES ASSUME CallInv, [Next]_vars PROVE CallInv'
  OBVIOUS
<1>1. ASSUME NEW r \in Request, SendRequest(r) PROVE CallInv'
  BY <1>1, CallSendRequest
<1>2. ASSUME NEW d \in DOMAIN m_delayResponse,
             SetResponse(d) \/ DoDelayResponse(d)
      PROVE  CallInv'
  BY <1>2, CallDelayed
<1>3. CASE OnMessage
  BY <1>3, CallOnMessage
<1>4. CASE PeerReceives
  BY <1>4, CallPeerReceives
<1>5. ASSUME NEW id \in DOMAIN peerOwes, NEW body \in Answers,
             PeerAnswers(id, body)
      PROVE  CallInv'
  BY <1>5, CallPeerAnswers
<1>6. ASSUME NEW r \in ServiceRequest, NEW fault \in Faults,
             PeerCalls(r, fault)
      PROVE  CallInv'
  BY <1>6, CallPeerCalls
<1>7. CASE PeerSendsOther \/ UNCHANGED vars
  BY <1>7, CallOther
<1>8. CASE ConnectionEnds
  BY <1>8, CallConnectionEnds
<1>9. CASE Reconnect
  BY <1>9, CallReconnect
<1>10. CASE DisconnectEmpties
  BY <1>10, CallDisconnectEmpties
<1> QED BY <1>1, <1>2, <1>3, <1>4, <1>5, <1>6, <1>7, <1>8, <1>9, <1>10 DEF Next

-----------------------------------------------------------------------------
(* Theorems *)

(* The inductive invariant holds.                                          *)
THEOREM CallInvariant == Spec => []CallInv
<1>1. Init => CallInv
  BY CallInit
<1>2. CallInv /\ [Next]_vars => CallInv'
  BY CallStep
<1> QED BY <1>1, <1>2, PTL DEF Spec

(* Types: the call table, the delayed responses and both channels.         *)
THEOREM RpcTypeOKThm == Spec => []RpcTypeOK
<1>1. CallInv => RpcTypeOK
  <2> SUFFICES ASSUME CallInv PROVE RpcTypeOK
    OBVIOUS
  <2> USE DEF CallInv
  <2>1. GoodToPeer \subseteq ToPeerMessage /\ GoodToClient \subseteq ToClientMessage
    BY DEF GoodToPeer, GoodToClient
  <2>2. toPeer \in Seq(ToPeerMessage) /\ toClient \in Seq(ToClientMessage)
    BY <2>1, SeqMonotonic DEF Wire
  <2>3. /\ m_id \in 0..MaxId /\ sent = m_id
        /\ DOMAIN m_outstandings \subseteq 1..m_id
        /\ \A id \in DOMAIN m_outstandings :
             m_outstandings[id] \in [request : Request, n : 1..MaxId]
    BY Bounds DEF CallTable
  <2>4. callbacks \in Seq([call : 1..MaxId, answer : 1..MaxId])
    BY DEF CallTable, Callback
  <2>5. /\ DOMAIN m_delayResponse \subseteq 1..m_delayResponseId
        /\ \A d \in DOMAIN m_delayResponse :
             m_delayResponse[d] \in [msgId : 1..MaxPeerId, response : BOOLEAN]
        /\ connections \in 1..MaxConnections /\ connected \in BOOLEAN
        /\ handled \subseteq 1..MaxPeerId /\ abandoned \subseteq handled
    BY DEF Delays
  <2> QED BY <2>2, <2>3, <2>4, <2>5 DEF RpcTypeOK
<1> QED BY <1>1, CallInvariant, PTL

(* stubHandleResponseMsg hands a response to the callback of the request   *)
(* it answers and none a second time, for any number of calls, answers and *)
(* connections, whichever connection an answer comes in.                   *)
THEOREM CallbackThm == Spec => []CallbackForItsRequest
<1>1. CallInv => CallbackForItsRequest
  BY DEF CallInv, CallTable
<1> QED BY <1>1, CallInvariant, PTL

(* m_outstandings is exactly the calls without a callback, and a call gets *)
(* no second one however often its answer comes.                           *)
THEOREM OutstandingThm == Spec => []OutstandingExact
<1>1. CallInv => OutstandingExact
  BY DEF CallInv, CallTable, OutstandingExact
<1> QED BY <1>1, CallInvariant, PTL

-----------------------------------------------------------------------------
(* Replies: where each request of the server is *)

(* The requests not yet handled are the server's own and all different.    *)
Asked ==
  /\ \A i \in 1..Len(toClient) :
       toClient[i].type = "request" => toClient[i].id \in (1..peerId) \ handled
  /\ \A i, j \in 1..Len(toClient) :
       /\ toClient[i].type = "request" /\ toClient[j].type = "request"
       /\ toClient[i].id = toClient[j].id
       => i = j

(* The delayed requests are all different and none was given up.           *)
Delayed ==
  /\ \A d, e \in DOMAIN m_delayResponse :
       m_delayResponse[d].msgId = m_delayResponse[e].msgId => d = e
  /\ DelayedIds \cap abandoned = {}

(* Each request has the replies it should have.                            *)
Replied ==
  /\ DOMAIN replies = 1..peerId /\ handled \subseteq 1..peerId
  /\ \A p \in handled :
       replies[p] = IF p \in DelayedIds \cup abandoned THEN 0 ELSE 1
  /\ \A p \in (1..peerId) \ handled : replies[p] = 0

ReplyInv == Asked /\ Delayed /\ Replied

replyVars == <<m_delayResponse, handled, replies, abandoned, peerId>>

LEMMA RepliedKept ==
  Delayed /\ Replied /\ UNCHANGED replyVars => Delayed' /\ Replied'
<1> SUFFICES ASSUME Delayed, Replied, UNCHANGED replyVars
             PROVE  Delayed' /\ Replied'
  OBVIOUS
<1>1. DelayedIds' = DelayedIds
  BY DEF DelayedIds, replyVars
<1> QED BY <1>1 DEF Delayed, Replied, replyVars

(* Without the message in front, only its request can be handled.          *)
LEMMA AskedTail ==
  ASSUME Wire, Asked, toClient # << >>, toClient' = Tail(toClient),
         peerId' = peerId,
         \/ handled' = handled
         \/ /\ Head(toClient).type = "request"
            /\ handled' = handled \cup {Head(toClient).id}
  PROVE  Asked'
<1>1. /\ Len(toClient) \in Nat /\ Len(toClient') = Len(toClient) - 1
      /\ \A i \in 1..Len(toClient') : toClient'[i] = toClient[i + 1]
      /\ Len(toClient) > 0 /\ Head(toClient) = toClient[1]
  BY HeadTailProperties, LenProperties, EmptySeq DEF Wire
<1>2. \A i \in 1..Len(toClient') :
        i \in Int /\ i + 1 \in 1..Len(toClient) /\ i + 1 # 1
  BY <1>1
<1>3. 1 \in 1..Len(toClient)
  BY <1>1
<1>4. \A i \in 1..Len(toClient') :
        toClient'[i].type = "request"
          => toClient'[i].id \in (1..peerId') \ handled'
  BY <1>1, <1>2, <1>3 DEF Asked
<1>5. \A i, j \in 1..Len(toClient') :
        /\ toClient'[i].type = "request" /\ toClient'[j].type = "request"
        /\ toClient'[i].id = toClient'[j].id
        => i + 1 = j + 1
  BY <1>1, <1>2 DEF Asked
<1> QED BY <1>2, <1>4, <1>5 DEF Asked

(* A message that is no request, or a request with a new id, may join.     *)
LEMMA AskedAppend ==
  ASSUME Wire, Asked, NEW msg \in GoodToClient,
         toClient' = Append(toClient, msg), handled' = handled,
         handled \subseteq 1..peerId, peerId \in Nat,
         \/ msg.type # "request" /\ peerId' = peerId
         \/ peerId' = peerId + 1 /\ msg.id = peerId'
  PROVE  Asked'
<1>1. /\ Len(toClient) \in Nat /\ Len(toClient') = Len(toClient) + 1
      /\ \A i \in 1..Len(toClient) : toClient'[i] = toClient[i]
      /\ toClient'[Len(toClient) + 1] = msg
  BY AppendProperties, LenProperties DEF Wire
<1>2. 1..Len(toClient') = (1..Len(toClient)) \cup {Len(toClient) + 1}
  BY <1>1
<1>3. 1..peerId \subseteq 1..peerId' /\ peerId + 1 \notin 1..peerId
  OBVIOUS
<1>4. \A i \in 1..Len(toClient) :
        toClient'[i].type = "request" =>
          toClient'[i].id \in (1..peerId') \ handled'
            /\ (msg.type = "request" => toClient'[i].id # msg.id)
  BY <1>1, <1>3 DEF Asked
<1>5. msg.type = "request" => msg.id \in (1..peerId') \ handled'
  BY <1>3
<1> QED BY <1>1, <1>2, <1>4, <1>5 DEF Asked

LEMMA AskedFront ==
  ASSUME Wire, Asked, NEW k \in 0..Len(toClient),
         toClient' = SubSeq(toClient, 1, k), UNCHANGED <<peerId, handled>>
  PROVE  Asked'
<1>1. Len(toClient) \in Nat /\ \A i \in 1..k : toClient[i] \in GoodToClient
  BY ElementOfSeq, LenProperties DEF Wire
<1>2. /\ Len(toClient') = k
      /\ \A i \in 1..k : toClient'[i] = toClient[i] /\ i \in 1..Len(toClient)
  BY <1>1, SubSeqProperties
<1> QED BY <1>2 DEF Asked

(* A reply to a request that is not handled yet makes it handled; a        *)
(* request that is delayed, or silent, gets none.                          *)
LEMMA ReplyService ==
  ASSUME CallInv, ReplyInv, NEW msg \in GoodToClient, msg.type = "request",
         msg.id \in (1..peerId) \ handled,
         serviceHandleRequestMsg(msg), peerId' = peerId
  PROVE  Delayed' /\ Replied'
<1> USE DEF CallInv, ReplyInv
<1>1. /\ UNCHANGED abandoned /\ DelayedIds \subseteq handled
      /\ abandoned \subseteq handled
  BY DEF serviceHandleRequestMsg, NewDelayResponse, DelayedIds, Delays
<1>2. CASE /\ replies' = [replies EXCEPT ![msg.id] = @ + 1]
           /\ handled' = handled \cup {msg.id} /\ UNCHANGED m_delayResponse
  <2>1. DelayedIds' = DelayedIds
    BY <1>2 DEF DelayedIds
  <2>2. /\ DOMAIN replies' = 1..peerId'
        /\ \A p \in 1..peerId :
             replies'[p] = IF p = msg.id THEN 1 ELSE replies[p]
    BY <1>2 DEF Replied
  <2>3. Replied'
    BY <1>1, <1>2, <2>1, <2>2 DEF Replied
  <2> QED BY <1>1, <1>2, <2>1, <2>3 DEF Delayed
<1>3. CASE /\ m_delayResponseId' = m_delayResponseId + 1
           /\ m_delayResponse' = With(m_delayResponse, m_delayResponseId',
                [msgId |-> msg.id, response |-> FALSE])
           /\ handled' = handled \cup {msg.id} /\ UNCHANGED replies
  <2>1. /\ m_delayResponseId' \notin DOMAIN m_delayResponse
        /\ DOMAIN m_delayResponse' = DOMAIN m_delayResponse \cup {m_delayResponseId'}
        /\ m_delayResponse'[m_delayResponseId'].msgId = msg.id
        /\ \A d \in DOMAIN m_delayResponse :
             m_delayResponse'[d] = m_delayResponse[d]
    BY <1>3 DEF Delays, With
  <2>2. DelayedIds' = DelayedIds \cup {msg.id}
    BY <2>1 DEF DelayedIds
  <2>3. \A d \in DOMAIN m_delayResponse : m_delayResponse[d].msgId # msg.id
    BY DEF Delays
  <2>4. \A d, e \in DOMAIN m_delayResponse' :
          m_delayResponse'[d].msgId = m_delayResponse'[e].msgId => d = e
    BY <2>1, <2>3 DEF Delayed
  <2>5. Replied'
    BY <1>1, <1>3, <2>2 DEF Replied
  <2> QED BY <1>1, <2>2, <2>4, <2>5 DEF Delayed
<1>4. CASE UNCHANGED <<m_delayResponse, handled, replies>>
  BY <1>1, <1>4, RepliedKept DEF replyVars
<1> QED BY <1>2, <1>3, <1>4 DEF serviceHandleRequestMsg,
     NewDelayResponse, Reply

LEMMA ReplyOnMessage == CallInv /\ ReplyInv /\ OnMessage => ReplyInv'
<1> SUFFICES ASSUME CallInv, ReplyInv, OnMessage PROVE ReplyInv'
  OBVIOUS
<1> DEFINE msg == Head(toClient)
<1>1. /\ toClient # << >> /\ toClient' = Tail(toClient) /\ peerId' = peerId
      /\ Wire /\ Asked
  BY DEF OnMessage, In!Handle, connVars, peerVars, CallInv, ReplyInv
<1>2. msg \in GoodToClient /\ msg = toClient[1] /\ 1 \in 1..Len(toClient)
  BY <1>1, SeqTail, LenProperties, EmptySeq DEF Wire
<1>3. CASE msg.type = "request" /\ serviceHandleRequestMsg(msg)
  <2>1. msg.id \in (1..peerId) \ handled
    BY <1>1, <1>2, <1>3 DEF Asked
  <2>2. Delayed' /\ Replied'
    BY <1>1, <1>2, <1>3, <2>1, ReplyService
  <2>3. handled' = handled \/ handled' = handled \cup {msg.id}
    BY <1>3 DEF serviceHandleRequestMsg, NewDelayResponse
  <2>4. Asked'
    BY <1>1, <1>3, <2>3, AskedTail
  <2> QED BY <2>2, <2>4 DEF ReplyInv
<1>4. CASE UNCHANGED serviceVars
  <2>1. UNCHANGED replyVars /\ handled' = handled
    BY <1>1, <1>4 DEF serviceVars, replyVars
  <2> QED BY <1>1, <2>1, AskedTail, RepliedKept DEF ReplyInv
<1> QED BY <1>3, <1>4 DEF OnMessage, In!Handle, connVars, stubHandleResponseMsg

LEMMA ReplyDelayed ==
  ASSUME CallInv, ReplyInv, NEW d \in DOMAIN m_delayResponse,
         SetResponse(d) \/ DoDelayResponse(d)
  PROVE  ReplyInv'
<1> USE DEF ReplyInv
<1>1. UNCHANGED <<peerId, handled, toClient>>
  BY DEF SetResponse, DoDelayResponse, peerVars
<1>2. Asked'
  BY <1>1 DEF Asked
<1>3. CASE SetResponse(d)
  <2>1. /\ UNCHANGED <<replies, abandoned>>
        /\ DOMAIN m_delayResponse' = DOMAIN m_delayResponse
        /\ \A e \in DOMAIN m_delayResponse :
             m_delayResponse'[e].msgId = m_delayResponse[e].msgId
    BY <1>3 DEF SetResponse, CallInv, Delays
  <2>2. DelayedIds' = DelayedIds
    BY <2>1 DEF DelayedIds
  <2> QED BY <1>1, <1>2, <2>1, <2>2 DEF Delayed, Replied
<1>4. CASE DoDelayResponse(d)
  <2> DEFINE id == m_delayResponse[d].msgId
  <2>1. /\ DOMAIN m_delayResponse' = DOMAIN m_delayResponse \ {d}
        /\ \A e \in DOMAIN m_delayResponse' :
             m_delayResponse'[e] = m_delayResponse[e]
    BY <1>4 DEF DoDelayResponse, Without
  <2>2. DelayedIds' = DelayedIds \ {id} /\ id \in DelayedIds
    BY <2>1 DEF DelayedIds, Delayed
  <2>3. /\ id \in handled /\ handled \subseteq 1..peerId /\ id \notin abandoned
        /\ replies[id] = 0 /\ id \in DOMAIN replies
    BY <2>2 DEF CallInv, Delays, Delayed, Replied
  <2>4. \/ /\ replies' = [replies EXCEPT ![id] = @ + 1]
           /\ abandoned' = abandoned
        \/ replies' = replies /\ abandoned' = abandoned \cup {id}
    BY <1>4 DEF DoDelayResponse, Reply
  <2>5. Delayed'
    BY <2>1, <2>2, <2>4 DEF Delayed
  <2>6. CASE /\ replies' = [replies EXCEPT ![id] = @ + 1]
             /\ abandoned' = abandoned
    <3>1. /\ DOMAIN replies' = DOMAIN replies
          /\ \A p \in DOMAIN replies :
               replies'[p] = IF p = id THEN 1 ELSE replies[p]
      BY <2>3, <2>6
    <3>2. Replied'
      BY <1>1, <2>2, <2>3, <2>6, <3>1 DEF Replied
    <3> QED BY <1>2, <2>5, <3>2
  <2>7. CASE replies' = replies /\ abandoned' = abandoned \cup {id}
    <3>1. DelayedIds' \cup abandoned' = DelayedIds \cup abandoned
      BY <2>2, <2>7
    <3>2. Replied'
      BY <1>1, <2>7, <3>1 DEF Replied
    <3> QED BY <1>2, <2>5, <3>2
  <2> QED BY <2>4, <2>6, <2>7
<1> QED BY <1>3, <1>4

LEMMA ReplyPeerCalls ==
  ASSUME CallInv, ReplyInv, NEW r \in ServiceRequest, NEW fault \in Faults,
         PeerCalls(r, fault)
  PROVE  ReplyInv'
<1> USE DEF ReplyInv
<1> DEFINE msg == [type |-> "request", id |-> peerId', request |-> r,
                   fault |-> fault]
<1>1. /\ peerId' = peerId + 1 /\ toClient' = Append(toClient, msg)
      /\ peerId \in Nat /\ peerId' \in 1..MaxPeerId
      /\ replies' = With(replies, peerId', 0)
      /\ UNCHANGED <<m_delayResponse, handled, abandoned>>
  BY Bounds DEF PeerCalls, In!Sends, connVars, CallInv, Delays
<1>2. msg \in GoodToClient
  BY <1>1 DEF GoodToClient, ToClientMessage
<1>3. Asked'
  BY <1>1, <1>2, AskedAppend DEF CallInv, Replied
<1>4. DelayedIds' = DelayedIds
  BY <1>1 DEF DelayedIds
<1>5. 1..peerId' = (1..peerId) \cup {peerId'} /\ peerId' \notin 1..peerId
  BY <1>1
<1>6. /\ DOMAIN replies' = 1..peerId'
      /\ replies'[peerId'] = 0
      /\ \A p \in 1..peerId : replies'[p] = replies[p]
  BY <1>1, <1>5 DEF Replied, With
<1>7. Replied'
  BY <1>1, <1>4, <1>5, <1>6 DEF Replied
<1> QED BY <1>1, <1>3, <1>4, <1>7 DEF Delayed

(* The steps that touch no request of the server.                          *)
LEMMA ReplyOther ==
  ASSUME CallInv, ReplyInv, UNCHANGED replyVars,
         \/ UNCHANGED toClient
         \/ \E msg \in GoodToClient :
              msg.type # "request" /\ toClient' = Append(toClient, msg)
         \/ \E k \in 0..Len(toClient) : toClient' = SubSeq(toClient, 1, k)
  PROVE  ReplyInv'
<1> USE DEF ReplyInv
<1>1. Delayed' /\ Replied'
  BY RepliedKept
<1>2. UNCHANGED <<peerId, handled>> /\ peerId \in Nat /\ Wire
      /\ handled \subseteq 1..peerId
  BY Bounds DEF replyVars, CallInv, Delays, Replied
<1>3. CASE UNCHANGED toClient
  BY <1>1, <1>2, <1>3 DEF Asked
<1>4. ASSUME NEW msg \in GoodToClient, msg.type # "request",
             toClient' = Append(toClient, msg)
      PROVE  Asked'
  BY <1>2, <1>4, AskedAppend
<1>5. ASSUME NEW k \in 0..Len(toClient), toClient' = SubSeq(toClient, 1, k)
      PROVE  Asked'
  BY <1>2, <1>5, AskedFront
<1> QED BY <1>1, <1>3, <1>4, <1>5

LEMMA ReplyInit == Init => ReplyInv
<1> SUFFICES ASSUME Init PROVE ReplyInv
  OBVIOUS
<1> USE DEF Init
<1>1. Len(toClient) = 0 /\ 1..peerId = {}
  OBVIOUS
<1>2. DOMAIN replies = {} /\ DOMAIN m_delayResponse = {} /\ handled = {}
  OBVIOUS
<1> QED BY <1>1, <1>2 DEF ReplyInv, Asked, Delayed, Replied, DelayedIds

THEOREM ReplyStep == CallInv /\ ReplyInv /\ [Next]_vars => ReplyInv'
<1> SUFFICES ASSUME CallInv, ReplyInv, [Next]_vars PROVE ReplyInv'
  OBVIOUS
<1>1. ASSUME NEW d \in DOMAIN m_delayResponse,
             SetResponse(d) \/ DoDelayResponse(d)
      PROVE  ReplyInv'
  BY <1>1, ReplyDelayed
<1>2. CASE OnMessage
  BY <1>2, ReplyOnMessage
<1>3. ASSUME NEW r \in ServiceRequest, NEW fault \in Faults,
             PeerCalls(r, fault)
      PROVE  ReplyInv'
  BY <1>3, ReplyPeerCalls
<1>4. ASSUME NEW r \in Request, SendRequest(r) PROVE ReplyInv'
  <2>1. UNCHANGED replyVars /\ UNCHANGED toClient
    BY <1>4 DEF SendRequest, serviceVars, peerVars, replyVars
  <2> QED BY <2>1, ReplyOther
<1>5. ASSUME NEW id \in DOMAIN peerOwes, NEW body \in Answers,
             PeerAnswers(id, body)
      PROVE  ReplyInv'
  <2> DEFINE msg == [type |-> "response", id |-> id, body |-> body,
                     n |-> peerOwes[id].n]
  <2>1. UNCHANGED replyVars /\ toClient' = Append(toClient, msg)
    BY <1>5 DEF PeerAnswers, In!Sends, connVars, serviceVars, replyVars
  <2>2. id \in 1..MaxId /\ peerOwes[id].n = id
    BY DEF CallInv, Owed
  <2>3. msg \in GoodToClient /\ msg.type # "request"
    BY <2>2 DEF GoodToClient, ToClientMessage
  <2> QED BY <2>1, <2>3, ReplyOther
<1>6. CASE PeerSendsOther
  <2>1. /\ UNCHANGED replyVars /\ toClient = << >>
        /\ toClient' = << [type |-> "other"] >>
    BY <1>6 DEF PeerSendsOther, In!Sends, connVars, serviceVars, peerVars, replyVars
  <2>2. [type |-> "other"] \in GoodToClient
    BY DEF GoodToClient, ToClientMessage
  <2>3. toClient' = Append(toClient, [type |-> "other"])
    BY <2>1
  <2> QED BY <2>1, <2>2, <2>3, ReplyOther
<1>7. CASE ConnectionEnds
  <2>1. UNCHANGED replyVars
    BY <1>7 DEF ConnectionEnds, In!End, peerVars, serviceVars, replyVars
  <2> QED BY <1>7, <2>1, ReplyOther DEF ConnectionEnds, In!End, peerVars
<1>8. CASE PeerReceives \/ Reconnect \/ UNCHANGED vars
  <2>1. UNCHANGED replyVars /\ UNCHANGED toClient
    BY <1>8 DEF PeerReceives, Reconnect, In!Connect, vars, serviceVars, peerVars, replyVars
  <2> QED BY <2>1, ReplyOther
<1>9. CASE DisconnectEmpties
  <2>1. UNCHANGED replyVars
    BY <1>9 DEF DisconnectEmpties, In!Empty, connVars, serviceVars, peerVars, replyVars
  <2> QED BY <1>9, <2>1, EmptiesIsFront, ReplyOther
<1> QED BY <1>1, <1>2, <1>3, <1>4, <1>5, <1>6, <1>7, <1>8, <1>9 DEF Next

(* Different delayed requests are as many as the delayed responses.        *)
LEMMA DelayedCount ==
  CallInv /\ Delayed
    => Cardinality(DelayedIds) = Cardinality(DOMAIN m_delayResponse)
<1> SUFFICES ASSUME CallInv, Delayed
             PROVE  Cardinality(DelayedIds) = Cardinality(DOMAIN m_delayResponse)
  OBVIOUS
<1> DEFINE S == DOMAIN m_delayResponse
           f == [d \in S |-> m_delayResponse[d].msgId]
<1>1. m_delayResponseId \in Int /\ S \subseteq 1..m_delayResponseId
  BY DEF CallInv, Delays
<1>2. IsFiniteSet(S)
  <2>1. IsFiniteSet(1..m_delayResponseId)
    BY <1>1, FS_Interval
  <2> QED BY <1>1, <2>1, FS_Subset
<1>3. /\ f \in [S -> DelayedIds]
      /\ \A d, e \in S : f[d] = f[e] => d = e
      /\ \A id \in DelayedIds : \E d \in S : f[d] = id
  BY DEF DelayedIds, Delayed
<1>4. f \in Bijection(S, DelayedIds)
  <2> HIDE DEF f, S
  <2> QED BY <1>3, Fun_IsBij
<1>5. ExistsBijection(S, DelayedIds)
  <2> HIDE DEF f, S
  <2> QED BY <1>4 DEF ExistsBijection
<1> QED BY <1>2, <1>5, FS_Bijection

(* Each request of the server is answered once, or delayed, or given up,   *)
(* through faults, delays and the loss of connections.                     *)
THEOREM ReplyThm == Spec => []ReplyConservation
<1>1. Init => ReplyInv
  BY ReplyInit
<1>2. CallInv /\ ReplyInv /\ [Next]_vars => ReplyInv'
  BY ReplyStep
<1>3. CallInv /\ ReplyInv => ReplyConservation
  BY DelayedCount DEF ReplyInv, Delayed, Replied, ReplyConservation
<1> QED BY <1>1, <1>2, <1>3, CallInvariant, PTL DEF Spec

=============================================================================
