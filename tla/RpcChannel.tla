----------------------------- MODULE RpcChannel -----------------------------
(***************************************************************************)
(* RpcChannel (Network/muduo/RpcChannel.cpp) and the delayed responses of  *)
(* UMgrMessage: the calls the client makes, matched to their responses by  *)
(* id, and the calls the server makes on the client's services.            *)
(*                                                                         *)
(* Everything here runs on the game thread.  What comes from the server    *)
(* comes through Inbox, which MgrMessage implements: every step below that *)
(* touches toClient or connected is a step of it, under no other guard     *)
(* than the bounds and the server's own.  When a connection ends, what is  *)
(* under way is lost, except messages already decoded (MessageQueue        *)
(* survives an error close); sending without a connection loses the        *)
(* message.  RpcChannel itself is never told of a connection's end.  The   *)
(* server is external; it may answer a call never, once or again, in the   *)
(* connection of the call or a later one, and an answer may be an error or *)
(* serialise to nothing.                                                   *)
(***************************************************************************)
EXTENDS Integers, Sequences, FiniteSets

CONSTANTS Request,         \* request types GetServiceInfo knows, for calls out
          OneWay,          \* those of them the server never answers
          ServiceRequest,  \* request types of the client's own services
          Silent,          \* those of them whose response is EmptyResponse
          MaxId,           \* bound: calls the client makes
          MaxPeerId,       \* bound: calls the server makes
          MaxAnswers,      \* bound: answers the server gives to one call
          MaxConnections   \* bound: connections

ASSUME RpcAssumption ==
  /\ OneWay \subseteq Request /\ Silent \subseteq ServiceRequest
  /\ {MaxId, MaxPeerId, MaxAnswers} \subseteq Nat
  /\ MaxConnections \in Nat \ {0}

VARIABLES
  m_id,
  m_outstandings,      \* id -> the call; n is a ghost, which call it is
  m_delayResponseId,
  m_delayResponse,     \* delay id -> msgId, and whether response is set
  connections,         \* ghost: connections so far
  connected,
  toPeer, toClient,    \* messages under way
  peerId,              \* the server's own call counter
  peerOwes             \* id of a call -> the call, and answers still to come

VARIABLES              \* ghosts
  sent,                \* calls made
  callbacks,           \* DoneCallbacks run: which call, which call's answer
  handled,             \* two-way requests of the server handled, fault or not
  replies,             \* msgId -> responses sent for it
  abandoned            \* delayed requests done without a response

ownVars == <<m_id, m_outstandings, sent, callbacks>>
serviceVars == <<m_delayResponseId, m_delayResponse, handled, replies, abandoned>>
peerVars == <<peerId, peerOwes>>
connVars == <<connections, connected>>
vars == <<ownVars, serviceVars, peerVars, connVars, toPeer, toClient>>

Without(f, x) == [y \in DOMAIN f \ {x} |-> f[y]]
With(f, x, v) == [y \in DOMAIN f \cup {x} |-> IF y = x THEN v ELSE f[y]]

(* An index out of range is not among them: ServiceDescriptor::method     *)
(* never answers null, so what happens then is undefined; the server names *)
(* only methods that exist.                                                *)
Faults == {"none", "noService", "wrongProto"}
Answers == {"value", "blank", "error"}

ToPeerMessage ==
  [type : {"request"}, id : 1..MaxId, request : Request, n : 1..MaxId]
    \cup [type : {"response"}, id : 1..MaxPeerId, body : Answers]
ToClientMessage ==
  [type : {"response"}, id : 1..MaxId, body : Answers, n : 1..MaxId]
    \cup [type : {"request"}, id : 1..MaxPeerId, request : ServiceRequest,
          fault : Faults]
    \cup [type : {"other"}]

In == INSTANCE Inbox WITH Content <- ToClientMessage

Init ==
  /\ m_id = 0 /\ m_outstandings = << >>
  /\ m_delayResponseId = 0 /\ m_delayResponse = << >>
  /\ connections = 1 /\ connected = TRUE
  /\ toPeer = << >> /\ toClient = << >>
  /\ peerId = 0 /\ peerOwes = << >>
  /\ sent = 0 /\ callbacks = << >>
  /\ handled = {} /\ replies = << >> /\ abandoned = {}

-----------------------------------------------------------------------------
(* Mistakes the properties below would show; Spec uses none of them.       *)

StubKeepsCall(msg) ==
  /\ IF msg.body = "value" /\ msg.id \in DOMAIN m_outstandings
       THEN callbacks' = Append(callbacks,
              [call |-> m_outstandings[msg.id].n, answer |-> msg.n])
       ELSE UNCHANGED callbacks
  /\ UNCHANGED <<m_id, m_outstandings, sent, serviceVars, toPeer>>

StubTakesBlank(msg) ==
  /\ IF msg.id \in DOMAIN m_outstandings
       THEN m_outstandings' = Without(m_outstandings, msg.id)
       ELSE UNCHANGED m_outstandings
  /\ UNCHANGED <<m_id, sent, callbacks, serviceVars, toPeer>>

RecordBeforeIncrement(r) ==
  /\ m_id < MaxId
  /\ m_id' = m_id + 1 /\ sent' = sent + 1
  /\ m_outstandings' = With(m_outstandings, m_id, [request |-> r, n |-> sent'])
  /\ toPeer' = Append(toPeer,
       [type |-> "request", id |-> m_id', request |-> r, n |-> sent'])
  /\ UNCHANGED <<callbacks, serviceVars, peerVars, connVars, toClient>>

DoDelayResponseKeeps(d) ==
  /\ IF m_delayResponse[d].response
       THEN replies' = [replies EXCEPT ![m_delayResponse[d].msgId] = @ + 1]
       ELSE replies' = replies
  /\ UNCHANGED <<ownVars, m_delayResponseId, m_delayResponse, handled,
                 abandoned, peerVars, connVars, toClient, toPeer>>

-----------------------------------------------------------------------------
(* The client calls the server *)

Transmit(msg) ==
  toPeer' = IF connected THEN Append(toPeer, msg) ELSE toPeer

(* RpcChannel::Send(request).                                              *)
SendRequest(r) ==
  /\ m_id < MaxId
  /\ m_id' = m_id + 1 /\ sent' = sent + 1
  /\ m_outstandings' = With(m_outstandings, m_id', [request |-> r, n |-> sent'])
  /\ Transmit([type |-> "request", id |-> m_id', request |-> r, n |-> sent'])
  /\ UNCHANGED <<callbacks, serviceVars, peerVars, connVars, toClient>>

(* stubHandleResponseMsg: an answer without a response field, an error     *)
(* among them, is dropped before the call is looked up; so is an answer    *)
(* nobody waits for.                                                       *)
stubHandleResponseMsg(msg) ==
  /\ IF msg.body = "value" /\ msg.id \in DOMAIN m_outstandings
       THEN /\ m_outstandings' = Without(m_outstandings, msg.id)
            /\ callbacks' = Append(callbacks,
                 [call |-> m_outstandings[msg.id].n, answer |-> msg.n])
       ELSE UNCHANGED <<m_outstandings, callbacks>>
  /\ UNCHANGED <<m_id, sent, serviceVars, toPeer>>

-----------------------------------------------------------------------------
(* The server calls the client *)

Reply(msgId, body) ==
  /\ replies' = [replies EXCEPT ![msgId] = @ + 1]
  /\ Transmit([type |-> "response", id |-> msgId, body |-> body])

(* UMgrMessage::NewDelayResponse, which a handler that delays calls.       *)
NewDelayResponse(msgId) ==
  /\ m_delayResponseId' = m_delayResponseId + 1
  /\ m_delayResponse' = With(m_delayResponse, m_delayResponseId',
       [msgId |-> msgId, response |-> FALSE])

(* serviceHandleRequestMsg: a fault is answered with an error, even where  *)
(* a good request is not answered; an EmptyResponse is not sent; a handler *)
(* may delay, keeping what NewDelayResponse gives it.                      *)
serviceHandleRequestMsg(msg) ==
  /\ \/ /\ msg.fault # "none"
        /\ Reply(msg.id, "error") /\ handled' = handled \cup {msg.id}
        /\ UNCHANGED <<m_delayResponseId, m_delayResponse>>
     \/ /\ msg.fault = "none" /\ msg.request \in Silent
        /\ UNCHANGED <<m_delayResponseId, m_delayResponse, handled, replies,
                       toPeer>>
     \/ /\ msg.fault = "none" /\ msg.request \notin Silent
        /\ Reply(msg.id, "value") /\ handled' = handled \cup {msg.id}
        /\ UNCHANGED <<m_delayResponseId, m_delayResponse>>
     \/ /\ msg.fault = "none" /\ msg.request \notin Silent
        /\ NewDelayResponse(msg.id)
        /\ handled' = handled \cup {msg.id}
        /\ UNCHANGED <<replies, toPeer>>
  /\ UNCHANGED <<ownVars, abandoned>>

(* The service sets the response of the SDelayResponse it was given; no    *)
(* service of the repository does yet, so this is external.                *)
SetResponse(d) ==
  /\ ~m_delayResponse[d].response
  /\ m_delayResponse' = [m_delayResponse EXCEPT ![d].response = TRUE]
  /\ UNCHANGED <<ownVars, m_delayResponseId, handled, replies, abandoned,
                 peerVars, connVars, toPeer, toClient>>

(* UMgrMessage::DoDelayResponse, then DoneCallback, which sends nothing    *)
(* when the response was never set.  With an unknown id it does nothing.   *)
DoDelayResponse(d) ==
  /\ m_delayResponse' = Without(m_delayResponse, d)
  /\ IF m_delayResponse[d].response
       THEN Reply(m_delayResponse[d].msgId, "value") /\ abandoned' = abandoned
       ELSE /\ abandoned' = abandoned \cup {m_delayResponse[d].msgId}
            /\ UNCHANGED <<replies, toPeer>>
  /\ UNCHANGED <<ownVars, m_delayResponseId, handled, peerVars, connVars,
                 toClient>>

(* RpcChannel::OnMessage; a message of another type (an empty frame parses *)
(* to one) is dropped.                                                     *)
OnMessage ==
  /\ In!Handle
  /\ LET msg == Head(toClient)
     IN  \/ msg.type = "response" /\ stubHandleResponseMsg(msg)
         \/ msg.type = "request" /\ serviceHandleRequestMsg(msg)
         \/ msg.type = "other" /\ UNCHANGED <<ownVars, serviceVars, toPeer>>
  /\ UNCHANGED <<peerVars, connections>>

-----------------------------------------------------------------------------
(* The server and the connection *)

PeerReceives ==
  /\ connected /\ toPeer # << >>
  /\ toPeer' = Tail(toPeer)
  /\ LET msg == Head(toPeer)
     IN  IF msg.type = "request" /\ msg.request \notin OneWay
           THEN \E k \in 0..MaxAnswers :
                  peerOwes' = With(peerOwes, msg.id, [n |-> msg.n, left |-> k])
           ELSE UNCHANGED peerOwes
  /\ UNCHANGED <<ownVars, serviceVars, peerId, connVars, toClient>>

PeerAnswers(id, body) ==
  /\ peerOwes[id].left > 0
  /\ peerOwes' = [peerOwes EXCEPT ![id].left = @ - 1]
  /\ In!Sends([type |-> "response", id |-> id, body |-> body,
               n |-> peerOwes[id].n])
  /\ UNCHANGED <<ownVars, serviceVars, peerId, connections, toPeer>>

PeerCalls(r, fault) ==
  /\ peerId < MaxPeerId /\ peerId' = peerId + 1
  /\ In!Sends([type |-> "request", id |-> peerId', request |-> r,
               fault |-> fault])
  /\ replies' = With(replies, peerId', 0)
  /\ UNCHANGED <<ownVars, m_delayResponseId, m_delayResponse, handled,
                 abandoned, peerOwes, connections, toPeer>>

PeerSendsOther ==
  /\ toClient = << >> /\ In!Sends([type |-> "other"])
  /\ UNCHANGED <<ownVars, serviceVars, peerVars, connections, toPeer>>

ConnectionEnds ==
  /\ In!End /\ toPeer' = << >>
  /\ UNCHANGED <<ownVars, serviceVars, peerVars, connections>>

(* UMgrMessage::Disconnect after an error has closed the connection: there *)
(* is no thread to wait for, and the queue is emptied.                     *)
DisconnectEmpties ==
  /\ In!Empty
  /\ UNCHANGED <<ownVars, serviceVars, peerVars, connections, toPeer>>

Reconnect ==
  /\ connections < MaxConnections /\ connections' = connections + 1
  /\ In!Connect
  /\ UNCHANGED <<ownVars, serviceVars, peerVars, toPeer>>

-----------------------------------------------------------------------------
Next ==
  \/ \E r \in Request : SendRequest(r)
  \/ \E d \in DOMAIN m_delayResponse : SetResponse(d) \/ DoDelayResponse(d)
  \/ OnMessage
  \/ PeerReceives
  \/ \E id \in DOMAIN peerOwes, body \in Answers : PeerAnswers(id, body)
  \/ \E r \in ServiceRequest, fault \in Faults : PeerCalls(r, fault)
  \/ PeerSendsOther
  \/ ConnectionEnds \/ DisconnectEmpties \/ Reconnect

(* The engine ticks UMgrMessage, which hands queued messages on.           *)
Spec == Init /\ [][Next]_vars /\ WF_vars(OnMessage)

-----------------------------------------------------------------------------
(* Properties *)

(* Types; a response is told from a request of the same id by its field.   *)
RpcTypeOK ==
  /\ m_id \in 0..MaxId /\ sent = m_id
  /\ DOMAIN m_outstandings \subseteq 1..m_id
  /\ \A id \in DOMAIN m_outstandings :
       m_outstandings[id] \in [request : Request, n : 1..MaxId]
  /\ DOMAIN m_delayResponse \subseteq 1..m_delayResponseId
  /\ \A d \in DOMAIN m_delayResponse :
       m_delayResponse[d] \in [msgId : 1..MaxPeerId, response : BOOLEAN]
  /\ connections \in 1..MaxConnections /\ connected \in BOOLEAN
  /\ toPeer \in Seq(ToPeerMessage) /\ toClient \in Seq(ToClientMessage)
  /\ callbacks \in Seq([call : 1..MaxId, answer : 1..MaxId])
  /\ handled \subseteq 1..MaxPeerId /\ abandoned \subseteq handled

(* A stub's callback gets the request its response answers, and a call has *)
(* one callback at most, however often the connection was lost and in      *)
(* whichever connection late or repeated answers arrive.                   *)
CallbackForItsRequest ==
  /\ \A i \in 1..Len(callbacks) : callbacks[i].call = callbacks[i].answer
  /\ \A i, j \in 1..Len(callbacks) :
       callbacks[i].call = callbacks[j].call => i = j

CalledBack == {callbacks[i].call : i \in 1..Len(callbacks)}

(* m_outstandings holds exactly the calls that had no callback (so the     *)
(* calls that never will stay in it), and there are no more callbacks.     *)
OutstandingExact ==
  /\ DOMAIN m_outstandings = (1..m_id) \ CalledBack
  /\ Len(callbacks) = Cardinality(CalledBack)

DelayedIds == {m_delayResponse[d].msgId : d \in DOMAIN m_delayResponse}

(* A request of the server that wants an answer is, once handled, in       *)
(* exactly one of three places: answered, once; delayed, once; or given    *)
(* up by a service that never set the response.                            *)
ReplyConservation ==
  /\ Cardinality(DelayedIds) = Cardinality(DOMAIN m_delayResponse)
  /\ DelayedIds \cap abandoned = {}
  /\ \A p \in handled :
       replies[p] = IF p \in DelayedIds \cup abandoned THEN 0 ELSE 1
  /\ \A p \in DOMAIN replies \ handled : replies[p] = 0

(* An answer with a response that has reached the client ends its call,    *)
(* unless the connection's end discards it first.                          *)
AnswerEndsCall ==
  \A id \in 1..MaxId :
    (\E i \in 1..Len(toClient) :
       toClient[i].type = "response" /\ toClient[i].id = id
         /\ toClient[i].body = "value")
      ~> (id \notin DOMAIN m_outstandings \/ ~connected)

(* RpcChannel.cpp:54 says the error reply tells the requester of the       *)
(* error: a call answered with an error would then be over.                *)
ErrorEndsCall ==
  [][\A id \in 1..MaxId :
       (toClient # << >> /\ toClient' = Tail(toClient)
          /\ Head(toClient).type = "response" /\ Head(toClient).id = id
          /\ Head(toClient).body = "error")
         => id \notin DOMAIN m_outstandings']_vars

=============================================================================
