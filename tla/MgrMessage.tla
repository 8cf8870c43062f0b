----------------------------- MODULE MgrMessage -----------------------------
(***************************************************************************)
(* UMgrMessage (System/Subsystem/MgrMessage.cpp), the subsystem that owns  *)
(* the TCP connection: it frames what goes out, decodes what comes in (on  *)
(* the IO thread, inside the connection's callback), queues the decoded    *)
(* messages and hands them to the RPC channel when the game thread ticks.  *)
(*                                                                         *)
(* It composes with TcpSocket: each action here is an action there, plus   *)
(* what UMgrMessage does in the same call.  On the wire a frame is a       *)
(* little-endian length of HeaderLen bytes and a body of that length.      *)
(***************************************************************************)
EXTENDS TcpSocket

CONSTANTS HeaderLen,     \* kHeaderLen, 4
          ByteBase,      \* 256
          AppMessage,    \* serialised messages the client sends
          PeerMessage    \* serialised messages the server sends

(* What a unit of byte i + 1 of a length counts: ByteBase to the power i.  *)
Weight[i \in 0..HeaderLen] == IF i = 0 THEN 1 ELSE ByteBase * Weight[i - 1]

Modulus == Weight[HeaderLen]         \* of a uint32

LengthBytes(n) == [i \in 1..HeaderLen |-> (n \div Weight[i - 1]) % ByteBase]

(* InternalSendPbcFunc: the length, then the message.                      *)
Encode(m) == LengthBytes(Len(m)) \o m

(* The uint32 at the front of the buffer, low byte first.                   *)
DecodeLength(buf) ==
  LET upTo[i \in 0..HeaderLen] ==
        IF i = 0 THEN 0 ELSE upTo[i - 1] + buf[i] * Weight[i - 1]
  IN  upTo[HeaderLen]

ASSUME MgrAssumption ==
  /\ HeaderLen \in Nat \ {0} /\ ByteBase \in Nat \ {0, 1}
  /\ Byte = 0..ByteBase - 1
  /\ AppMessage \subseteq ByteSeq /\ PeerMessage \subseteq ByteSeq
  /\ Message = {Encode(m) : m \in AppMessage}
  /\ \A m \in PeerMessage :
       /\ Len(m) < Modulus - HeaderLen
       /\ \A i, j \in 1..HeaderLen + Len(m) :
            i <= j => SubSeq(Encode(m), i, j) \in PeerChunk

VARIABLES
  phase,          \* "new", "on" after Initialize, "off" after Deinitialize
  ticking,        \* the game thread is inside TickMessageQueue's loop
  MessageQueue,   \* decoded messages, each with ghost session and number
  decoded,        \* ghost: messages decoded in this session
  lastDispatched, \* ghost: session and number of the last message dispatched
  peerMsgs,       \* ghost: messages the server has begun to write
  peerRest        \* what it has still to write of the last of them

mgrVars == <<phase, ticking, MessageQueue, decoded, lastDispatched>>
peerVars == <<peerMsgs, peerRest>>
allVars == <<vars, mgrVars, peerVars>>

MgrInit ==
  /\ Init
  /\ phase = "new" /\ ticking = FALSE /\ MessageQueue = << >>
  /\ decoded = << >> /\ lastDispatched = [session |-> 0, n |-> 0]
  /\ peerMsgs = << >> /\ peerRest = << >>

FreeGameThread == phase = "on" /\ ~ticking

-----------------------------------------------------------------------------
(* Mistakes the properties below would show; MgrSpec uses none of them.    *)

FrameReadyTooLate ==
  /\ Len(RecvData) > HeaderLen
  /\ Len(RecvData) > (HeaderLen + DecodeLength(RecvData)) % Modulus

DecodeTakesAll ==
  LET body == SubSeq(RecvData, HeaderLen + 1, Len(RecvData))
  IN  /\ CallbackConsume(Len(RecvData))
      /\ decoded' = Append(decoded, body)
      /\ MessageQueue' = Append(MessageQueue,
           [session |-> session, n |-> Len(decoded'), body |-> body])
  /\ UNCHANGED <<phase, ticking, lastDispatched, peerVars>>

JoinDoneKeepsQueue == JoinDone /\ UNCHANGED <<mgrVars, peerVars>>

ExecuteTaskWhileTicking == ExecuteTask /\ UNCHANGED <<mgrVars, peerVars>>

DisconnectWithoutWaiting ==
  /\ gamePc = "idle" /\ runnable
  /\ bManuallyStop' = TRUE /\ runnable' = FALSE
  /\ closedBy' = Append(closedBy, User) /\ MessageQueue' = << >>
  /\ UNCHANGED <<gamePc, session, closer, gameTasks, ioPc, bConnectionError,
                 outVars, SendBuffer, accepted, inVars, link, peerSent,
                 ticking, decoded, lastDispatched, peerVars>>

TickDropsRest ==
  /\ ticking /\ gamePc = "idle"
  /\ ticking' = FALSE /\ MessageQueue' = << >>
  /\ UNCHANGED <<vars, phase, decoded, lastDispatched, peerVars>>

-----------------------------------------------------------------------------
(* The game thread *)

NewSession ==
  /\ Connect
  /\ decoded' = << >> /\ peerMsgs' = << >> /\ peerRest' = << >>

(* Initialize binds the callbacks and connects; the services it registers  *)
(* afterwards are there before the game thread does anything else.         *)
Initialize ==
  /\ phase = "new" /\ phase' = "on"
  /\ NewSession
  /\ UNCHANGED <<ticking, MessageQueue, lastDispatched>>

(* UMgrMessage::Connect, while there is no connection.                     *)
MgrConnect ==
  /\ FreeGameThread
  /\ NewSession
  /\ UNCHANGED <<phase, ticking, MessageQueue, lastDispatched>>

(* InternalDisconnectFunc: close the connection, then empty the queue; the *)
(* second half of it is in MgrJoinDone when there is a thread to wait for. *)
DisconnectAndEmpty ==
  /\ gamePc = "idle"
  /\ IF runnable
       THEN Disconnect /\ UNCHANGED MessageQueue
       ELSE MessageQueue' = << >> /\ UNCHANGED vars
  /\ UNCHANGED <<ticking, decoded, lastDispatched, peerVars>>

MgrDisconnect == FreeGameThread /\ DisconnectAndEmpty /\ UNCHANGED phase

(* Deinitialize: the three functions become no-ops.                        *)
Deinitialize == FreeGameThread /\ DisconnectAndEmpty /\ phase' = "off"

(* A Disconnect an error notice asked for does not go through UMgrMessage  *)
(* and leaves the queue as it is.                                          *)
MgrJoinDone ==
  /\ JoinDone
  /\ MessageQueue' = IF closer = User THEN << >> ELSE MessageQueue
  /\ UNCHANGED <<phase, ticking, decoded, lastDispatched, peerVars>>

MgrExecuteTask == ~ticking /\ ExecuteTask /\ UNCHANGED <<mgrVars, peerVars>>

(* SendMessage, by a caller on the game thread or by a handler that        *)
(* TickMessageQueue runs.                                                  *)
SendMessage(m) ==
  /\ phase = "on"
  /\ Send(Encode(m))
  /\ UNCHANGED <<mgrVars, peerVars>>

(* One round of TickMessageQueue's loop: RpcChannel::OnMessage gets the    *)
(* oldest message.                                                         *)
TickDispatch ==
  /\ gamePc = "idle" /\ MessageQueue # << >>
  /\ ticking' = TRUE
  /\ LET head == Head(MessageQueue)
     IN  lastDispatched' = [session |-> head.session, n |-> head.n]
  /\ MessageQueue' = Tail(MessageQueue)
  /\ UNCHANGED <<vars, phase, decoded, peerVars>>

TickEnds ==
  /\ ticking /\ gamePc = "idle" /\ MessageQueue = << >>
  /\ ticking' = FALSE
  /\ UNCHANGED <<vars, phase, MessageQueue, decoded, lastDispatched, peerVars>>

-----------------------------------------------------------------------------
(* ReceivedMessageDelegate, the decoder, on the IO thread *)

(* Both tests of the decoding loop, in uint32 arithmetic.                  *)
FrameReady ==
  /\ Len(RecvData) > HeaderLen
  /\ Len(RecvData) >= (HeaderLen + DecodeLength(RecvData)) % Modulus

Decode ==
  LET length == DecodeLength(RecvData)
      body == SubSeq(RecvData, HeaderLen + 1, HeaderLen + length)
  IN  /\ CallbackConsume((HeaderLen + length) % Modulus)
      /\ decoded' = Append(decoded, body)
      /\ MessageQueue' = Append(MessageQueue,
           [session |-> session, n |-> Len(decoded'), body |-> body])
  /\ UNCHANGED <<phase, ticking, lastDispatched, peerVars>>

DecoderStep ==
  \/ ioPc = "deliver" /\ FrameReady /\ Decode
  \/ ioPc = "deliver" /\ ~FrameReady /\ CallbackReturn
       /\ UNCHANGED <<mgrVars, peerVars>>

IoRunOutsideDecoder ==
  /\ ioPc # "deliver"
  /\ IoThread
  /\ UNCHANGED <<mgrVars, peerVars>>

MgrIoThread == DecoderStep \/ IoRunOutsideDecoder

-----------------------------------------------------------------------------
(* The server, which frames its messages as the client does; the network   *)
(* cuts the stream anywhere.                                               *)

PeerWrites(m, n) ==
  LET bytes == IF peerRest = << >> THEN Encode(m) ELSE peerRest
  IN  /\ n \in 1..Len(bytes)
      /\ PeerSends(SubSeq(bytes, 1, n))
      /\ peerRest' = SubSeq(bytes, n + 1, Len(bytes))
      /\ peerMsgs' = IF peerRest = << >> THEN Append(peerMsgs, m) ELSE peerMsgs
  /\ UNCHANGED mgrVars

NetworkStep == (PeerReads \/ LinkBreaks) /\ UNCHANGED <<mgrVars, peerVars>>

-----------------------------------------------------------------------------
MgrNext ==
  \/ Initialize \/ MgrConnect \/ MgrDisconnect \/ Deinitialize
  \/ MgrJoinDone \/ MgrExecuteTask
  \/ \E m \in AppMessage : SendMessage(m)
  \/ TickDispatch \/ TickEnds
  \/ MgrIoThread
  \/ \E m \in PeerMessage, n \in 1..MaxIn : PeerWrites(m, n)
  \/ NetworkStep

(* As TcpSocket's fairness; the engine also ticks the subsystem.           *)
MgrFairness ==
  /\ WF_allVars(MgrIoThread) /\ WF_allVars(MgrExecuteTask)
  /\ WF_allVars(MgrJoinDone)
  /\ WF_allVars(TickDispatch) /\ WF_allVars(TickEnds)

MgrSpec == MgrInit /\ [][MgrNext]_allVars /\ MgrFairness

-----------------------------------------------------------------------------
(* Properties *)

QueuedMessage == [session : 1..MaxSessions, n : Nat \ {0}, body : ByteSeq]

(* Types; and the game thread does not wait for a thread inside the loop   *)
(* that dispatches messages.                                               *)
MgrTypeOK ==
  /\ ticking => gamePc = "idle"
  /\ phase \in {"new", "on", "off"} /\ ticking \in BOOLEAN
  /\ MessageQueue \in Seq(QueuedMessage)
  /\ decoded \in Seq(ByteSeq)
  /\ lastDispatched \in [session : 0..MaxSessions, n : Nat]
  /\ peerMsgs \in Seq(PeerMessage) /\ peerRest \in ByteSeq

(* What the decoder queues are the server's messages of this connection,   *)
(* whole and in order, wherever the stream was cut and whatever the last   *)
(* connection left behind.                                                 *)
DecodedArePeerMessages ==
  /\ Len(decoded) <= Len(peerMsgs)
  /\ decoded = SubSeq(peerMsgs, 1, Len(decoded))

(* f directly follows e in the order the messages were decoded.            *)
Follows(e, f) ==
  \/ f.session = e.session /\ f.n = e.n + 1
  \/ f.session > e.session /\ f.n = 1

(* The game thread sees the messages in that order, none twice, and none   *)
(* left out while its connection lasts, across the two threads and across  *)
(* reconnections.                                                          *)
DispatchInOrder ==
  /\ \A i \in 1..Len(MessageQueue) - 1 :
       Follows(MessageQueue[i], MessageQueue[i + 1])
  /\ MessageQueue # << >> => Follows(lastDispatched, Head(MessageQueue))

(* A queued message of a connection that is gone means that an error       *)
(* notice closed it, and everything after it: after a manual disconnect    *)
(* nothing old is dispatched, though the decoder runs until the join.      *)
OldMessageOnlyAfterErrorClose ==
  \A i \in 1..Len(MessageQueue) :
    \A s \in MessageQueue[i].session..Len(closedBy) : closedBy[s] # User

(* A message the server has written whole is dispatched without waiting    *)
(* for more bytes, unless the connection breaks or ends or the sending     *)
(* loop is blocked.  An empty message may wait for the next: the decoder   *)
(* wants more than a header.                                               *)
WrittenIsDispatched ==
  \A s \in 1..MaxSessions, k \in 1..MaxIn :
    (session = s /\ Len(peerMsgs) = k /\ peerRest = << >>
       /\ peerMsgs[k] # << >>)
      ~> \/ session # s \/ ioPc = "done" \/ link # "up" \/ SendBlocked
         \/ lastDispatched.session = s /\ lastDispatched.n >= k

(* There is a connection from the moment the new thread's Init has made    *)
(* one to that thread's end.                                               *)
Connected == ioPc \notin {"init", "done"}

Undecoded == SubSeq(peerMsgs, Len(decoded) + 1, Len(peerMsgs))

In == INSTANCE Inbox WITH
        Content <- PeerMessage,
        connected <- Connected,
        toClient <- [i \in 1..Len(MessageQueue) |-> MessageQueue[i].body]
                      \o (IF Connected THEN Undecoded ELSE << >>)

(* To the game thread all this is one sequence of the server's messages,   *)
(* handled whole, in order and once; what it loses, it loses to the end of *)
(* a connection, and from the back.                                        *)
ImplementsInbox == In!Spec

(* The header comment of MgrMessage.cpp: the length field counts a tag of  *)
(* at least one byte, the payload and a checksum of four.                  *)
LengthCountsTagAndChecksum ==
  \A i \in 1..Len(SendBuffer), m \in AppMessage :
    SendBuffer[i] = Encode(m) => DecodeLength(SendBuffer[i]) > Len(m) + 4

=============================================================================
