-------------------------- MODULE MgrMessageProofs --------------------------
(***************************************************************************)
(* Theorems about MgrMessage, for every choice of the constants: it takes  *)
(* only steps that TcpSocket allows, and what it queues is in order.       *)
(***************************************************************************)
EXTENDS MgrMessage, TcpStreamProofs

-----------------------------------------------------------------------------
(* Every step of UMgrMessage is one of the connection or leaves it alone.  *)
(* The server's pieces need an invariant: what it has still to write is    *)
(* the end of a frame, so every piece of it is one of the pieces           *)
(* TcpSocket's peer may send.                                              *)

FrameEnd(m, k) == SubSeq(Encode(m), k, HeaderLen + Len(m))

PeerRest ==
  peerRest # << >> =>
    \E m \in PeerMessage : \E k \in 1..HeaderLen + Len(m) :
      peerRest = FrameEnd(m, k)

(* A frame has its header and its body.                                    *)
LEMMA FrameProperties ==
  ASSUME NEW m \in PeerMessage
  PROVE  /\ m \in ByteSeq /\ Len(m) \in Nat
         /\ \E S : Encode(m) \in Seq(S)
         /\ Len(Encode(m)) = HeaderLen + Len(m)
<1> DEFINE h == LengthBytes(Len(m))
           T == {h[i] : i \in 1..HeaderLen}
           S == T \cup Byte
<1>1. HeaderLen \in Nat \ {0} /\ m \in ByteSeq /\ Len(m) \in Nat
  BY MgrAssumption DEF ByteSeq
<1>2. h \in Seq(S) /\ Len(h) = HeaderLen
  <2>1. DOMAIN h = 1..HeaderLen /\ h = [i \in 1..HeaderLen |-> h[i]]
    BY DEF LengthBytes
  <2>2. \A i \in 1..HeaderLen : h[i] \in S
    OBVIOUS
  <2> HIDE DEF h, S
  <2> QED BY <1>1, <2>1, <2>2
<1>3. m \in Seq(S)
  BY <1>1 DEF ByteSeq
<1> HIDE DEF h, S
<1>4. h \o m \in Seq(S) /\ Len(h \o m) = HeaderLen + Len(m)
  BY <1>2, <1>3, ConcatProperties
<1> QED BY <1>1, <1>4 DEF Encode, h

(* A piece of the end of a frame is a piece of the frame.                  *)
LEMMA PieceOfFrame ==
  ASSUME NEW m \in PeerMessage, NEW k \in 1..HeaderLen + Len(m),
         NEW n \in 1..Len(FrameEnd(m, k))
  PROVE  /\ SubSeq(FrameEnd(m, k), 1, n) \in PeerChunk
         /\ LET rest == SubSeq(FrameEnd(m, k), n + 1, Len(FrameEnd(m, k)))
            IN  rest # << >> =>
                  \E j \in 1..HeaderLen + Len(m) : rest = FrameEnd(m, j)
<1> DEFINE e == Encode(m)
           l == HeaderLen + Len(m)
<1>1. PICK S : e \in Seq(S)
  BY FrameProperties
<1>2. l \in Nat /\ Len(e) = l /\ k \in 1..l /\ l \in 1..Len(e) /\ k \in 1..Len(e)
  BY FrameProperties, MgrAssumption
<1>3. \A i, j \in 1..l : i <= j => SubSeq(e, i, j) \in PeerChunk
  BY MgrAssumption
<1> HIDE DEF e, l
<1>4. /\ SubSeq(e, k, l) \in Seq(S)
      /\ Len(SubSeq(e, k, l)) = l - k + 1
  <2>1. \A i \in k..l : e[i] \in S
    BY <1>1, <1>2, ElementOfSeq
  <2> QED BY <1>2, <2>1, SubSeqProperties
<1>5. n \in 1..l - k + 1
  BY <1>4 DEF FrameEnd, e, l
<1>6. SubSeq(SubSeq(e, k, l), 1, n) = SubSeq(e, k, k + n - 1)
  <2>1. 1 \in 1..l - k + 1
    BY <1>2, <1>5
  <2>2. SubSeq(SubSeq(e, k, l), 1, n) = SubSeq(e, k + 1 - 1, k + n - 1)
    BY <1>1, <1>2, <1>5, <2>1, SubSeqOfSubSeq
  <2>3. k + 1 - 1 = k
    BY <1>2
  <2> QED BY <2>2, <2>3
<1>7. SubSeq(e, k, k + n - 1) \in PeerChunk
  <2>1. k + n - 1 \in 1..l /\ k <= k + n - 1
    BY <1>2, <1>5
  <2> QED BY <1>2, <1>3, <2>1
<1>8. CASE n = l - k + 1
  <2>1. SubSeq(SubSeq(e, k, l), n + 1, l - k + 1) = << >>
    BY <1>2, <1>4, <1>8, SubSeqEmpty
  <2> QED BY <1>4, <1>6, <1>7, <2>1 DEF FrameEnd, e, l
<1>9. CASE n < l - k + 1
  <2>1. n + 1 \in 1..l - k + 1 /\ l - k + 1 \in 1..l - k + 1 /\ k + n \in 1..l
    BY <1>2, <1>5, <1>9
  <2>2. SubSeq(SubSeq(e, k, l), n + 1, l - k + 1)
          = SubSeq(e, k + (n + 1) - 1, k + (l - k + 1) - 1)
    BY <1>1, <1>2, <2>1, SubSeqOfSubSeq
  <2>3. k + (n + 1) - 1 = k + n /\ k + (l - k + 1) - 1 = l
    BY <1>2, <1>5
  <2>4. SubSeq(SubSeq(e, k, l), n + 1, l - k + 1) = SubSeq(e, k + n, l)
    BY <2>2, <2>3
  <2> QED BY <1>4, <1>6, <1>7, <2>1, <2>4 DEF FrameEnd, e, l
<1> QED BY <1>2, <1>5, <1>8, <1>9
(* What the server writes next, and what is left of its frame after that.  *)
LEMMA PeerWritesPiece ==
  ASSUME PeerRest, NEW m \in PeerMessage, NEW n, PeerWrites(m, n)
  PROVE  (\E c \in PeerChunk : PeerSends(c)) /\ PeerRest'
<1> DEFINE bytes == IF peerRest = << >> THEN Encode(m) ELSE peerRest
<1>1. /\ n \in 1..Len(bytes) /\ PeerSends(SubSeq(bytes, 1, n))
      /\ peerRest' = SubSeq(bytes, n + 1, Len(bytes))
  BY DEF PeerWrites
<1>2. \E p \in PeerMessage : \E k \in 1..HeaderLen + Len(p) :
        bytes = FrameEnd(p, k)
  <2>1. CASE peerRest = << >>
    <3>1. 1 \in 1..HeaderLen + Len(m)
      BY FrameProperties, MgrAssumption
    <3>2. Encode(m) = FrameEnd(m, 1)
      BY FrameProperties, SubSeqFull DEF FrameEnd
    <3> QED BY <2>1, <3>1, <3>2
  <2>2. CASE peerRest # << >>
    BY <2>2 DEF PeerRest
  <2> QED BY <2>1, <2>2
<1> HIDE DEF bytes
<1>3. PICK p \in PeerMessage : \E k \in 1..HeaderLen + Len(p) :
        bytes = FrameEnd(p, k)
  BY <1>2
<1>4. PICK k \in 1..HeaderLen + Len(p) : bytes = FrameEnd(p, k)
  BY <1>3
<1>5. SubSeq(bytes, 1, n) \in PeerChunk
  BY <1>1, <1>4, PieceOfFrame
<1>6. peerRest' # << >> =>
        \E j \in 1..HeaderLen + Len(p) : peerRest' = FrameEnd(p, j)
  BY <1>1, <1>4, PieceOfFrame
<1>7. PeerRest'
  BY <1>6 DEF PeerRest, FrameEnd, Encode, LengthBytes
<1> QED BY <1>1, <1>5, <1>7

LEMMA StepRefines ==
  ASSUME PeerRest, [MgrNext]_allVars
  PROVE  [Next]_vars /\ PeerRest'
<1>1. CASE UNCHANGED peerRest /\ [Next]_vars
  BY <1>1 DEF PeerRest, FrameEnd, Encode, LengthBytes
<1>2. CASE Initialize \/ MgrConnect
  <2>1. Connect /\ peerRest' = << >>
    BY <1>2 DEF Initialize, MgrConnect, NewSession
  <2> QED BY <2>1 DEF Next, PeerRest
<1>3. CASE MgrDisconnect \/ Deinitialize
  <2>1. DisconnectAndEmpty
    BY <1>3 DEF MgrDisconnect, Deinitialize
  <2>2. (Disconnect \/ UNCHANGED vars) /\ UNCHANGED peerRest
    BY <2>1 DEF DisconnectAndEmpty, peerVars
  <2> QED BY <1>1, <2>2 DEF Next
<1>4. CASE MgrJoinDone \/ MgrExecuteTask
  <2>1. (JoinDone \/ ExecuteTask) /\ UNCHANGED peerRest
    BY <1>4 DEF MgrJoinDone, MgrExecuteTask, peerVars
  <2> QED BY <1>1, <2>1 DEF Next
<1>5. CASE \E m \in AppMessage : SendMessage(m)
  <2>1. PICK m \in AppMessage : SendMessage(m)
    BY <1>5
  <2>2. Encode(m) \in Message
    BY MgrAssumption
  <2>3. Send(Encode(m)) /\ UNCHANGED peerRest
    BY <2>1 DEF SendMessage, peerVars
  <2> QED BY <1>1, <2>2, <2>3 DEF Next
<1>6. CASE TickDispatch \/ TickEnds
  <2>1. UNCHANGED vars /\ UNCHANGED peerRest
    BY <1>6 DEF TickDispatch, TickEnds, peerVars
  <2> QED BY <1>1, <2>1
<1>7. CASE MgrIoThread
  <2>1. (IoThread \/ CallbackReturn \/ \E n : CallbackConsume(n))
          /\ UNCHANGED peerRest
    BY <1>7 DEF MgrIoThread, DecoderStep, IoRunOutsideDecoder, Decode, peerVars
  <2>2. ASSUME NEW n, CallbackConsume(n) PROVE IoRun
    <3>1. n \in 1..Len(RecvData)
      BY <2>2 DEF CallbackConsume
    <3> QED BY <2>2, <3>1 DEF IoRun
  <2>3. IoThread
    BY <2>1, <2>2 DEF IoThread, IoRun
  <2> QED BY <1>1, <2>1, <2>3 DEF Next
<1>8. CASE \E m \in PeerMessage, n \in 1..MaxIn : PeerWrites(m, n)
  <2>1. (\E c \in PeerChunk : PeerSends(c)) /\ PeerRest'
    BY <1>8, PeerWritesPiece
  <2> QED BY <2>1 DEF Next
<1>9. CASE NetworkStep
  <2>1. (PeerReads \/ LinkBreaks) /\ UNCHANGED peerRest
    BY <1>9 DEF NetworkStep, peerVars
  <2> QED BY <1>1, <2>1 DEF Next
<1>10. CASE UNCHANGED allVars
  BY <1>1, <1>10 DEF allVars, peerVars
<1> QED BY <1>2, <1>3, <1>4, <1>5, <1>6, <1>7, <1>8, <1>9, <1>10 DEF MgrNext

(* Whatever UMgrMessage, its callers and the server do, the connection     *)
(* only does what TcpSocket allows (safety; the fairness is left to TLC).  *)
THEOREM MgrRefinesTcpThm == MgrSpec => Init /\ [][Next]_vars
<1>1. MgrInit => Init /\ PeerRest
  BY DEF MgrInit, PeerRest
<1>2. PeerRest /\ [MgrNext]_allVars => [Next]_vars /\ PeerRest'
  BY StepRefines
<1> QED BY <1>1, <1>2, PTL DEF MgrSpec

-----------------------------------------------------------------------------
(* The queue between the two threads *)

IsSeq(s) == \E S : s \in Seq(S)

(* The last message the decoder has made that is not lost with a queue.    *)
Newest == IF MessageQueue = << >> THEN lastDispatched
                                  ELSE MessageQueue[Len(MessageQueue)]

QueueTypes ==
  /\ IsSeq(MessageQueue) /\ IsSeq(decoded) /\ session \in Nat
  /\ lastDispatched.session \in 0..session /\ lastDispatched.n \in Nat
  /\ \A i \in 1..Len(MessageQueue) :
       MessageQueue[i].session \in 1..session /\ MessageQueue[i].n \in Nat

(* While the IO thread may decode, the newest message is the last it has   *)
(* decoded in this session, or it has decoded none yet: a queue is emptied *)
(* only when the thread has ended.                                         *)
Numbered ==
  ioPc # "done" =>
    IF Newest.session = session THEN Newest.n = Len(decoded)
                                ELSE decoded = << >>

QueueInv ==
  QueueTypes /\ Numbered /\ DispatchInOrder /\ OldMessageOnlyAfterErrorClose

LEMMA AppendAny ==
  ASSUME NEW s, IsSeq(s), NEW x
  PROVE  /\ IsSeq(Append(s, x)) /\ Append(s, x) # << >>
         /\ Len(s) \in Nat /\ Len(Append(s, x)) = Len(s) + 1
         /\ \A i \in 1..Len(s) : Append(s, x)[i] = s[i]
         /\ Append(s, x)[Len(s) + 1] = x
<1>1. PICK S : s \in Seq(S)
  BY DEF IsSeq
<1>2. s \in Seq(S \cup {x}) /\ x \in S \cup {x}
  BY <1>1
<1> QED BY <1>2, AppendProperties DEF IsSeq

LEMMA TailAny ==
  ASSUME NEW s, IsSeq(s), s # << >>
  PROVE  /\ IsSeq(Tail(s)) /\ Len(s) \in Nat \ {0}
         /\ Len(Tail(s)) = Len(s) - 1
         /\ \A i \in 1..Len(s) - 1 : Tail(s)[i] = s[i + 1]
         /\ Head(s) = s[1]
         /\ Tail(s) = << >> <=> Len(s) = 1
<1>1. PICK S : s \in Seq(S)
  BY DEF IsSeq
<1>2. /\ Tail(s) \in Seq(S) /\ Len(s) \in Nat \ {0}
      /\ Len(Tail(s)) = Len(s) - 1 /\ Head(s) = s[1]
      /\ \A i \in 1..Len(s) - 1 : Tail(s)[i] = s[i + 1]
  BY <1>1, HeadTailProperties, EmptySeq, LenProperties
<1>3. Tail(s) = << >> <=> Len(s) = 1
  BY <1>2, EmptySeq
<1> QED BY <1>2, <1>3 DEF IsSeq

LEMMA EmptyAny == IsSeq(<< >>) /\ Len(<< >>) = 0
BY EmptySeq DEF IsSeq

LEMMA QueueInit == MgrInit => QueueInv
<1> SUFFICES ASSUME MgrInit PROVE QueueInv
  OBVIOUS
<1>1. /\ MessageQueue = << >> /\ decoded = << >> /\ session = 0
      /\ lastDispatched = [session |-> 0, n |-> 0] /\ ioPc = "done"
  BY DEF MgrInit, Init
<1> QED
  BY <1>1, EmptyAny DEF QueueInv, QueueTypes, Numbered, DispatchInOrder,
                        OldMessageOnlyAfterErrorClose

(* A step that leaves the queue and the connections alone.                 *)
LEMMA QueueKept ==
  ASSUME QueueInv, ioPc = "done" => ioPc' = "done",
         UNCHANGED <<session, closedBy, MessageQueue, decoded, lastDispatched>>
  PROVE  QueueInv'
<1>1. QueueTypes' /\ OldMessageOnlyAfterErrorClose'
  BY DEF QueueInv, QueueTypes, OldMessageOnlyAfterErrorClose
<1>2. Numbered'
  BY DEF QueueInv, Numbered, Newest
<1>3. DispatchInOrder'
  BY DEF QueueInv, DispatchInOrder, Follows
<1> QED BY <1>1, <1>2, <1>3 DEF QueueInv

(* A queue that is emptied once the thread has ended.                      *)
LEMMA QueueEmptied ==
  ASSUME QueueInv, MessageQueue' = << >>, ioPc' = "done",
         UNCHANGED <<session, decoded, lastDispatched>>
  PROVE  QueueInv'
BY EmptyAny DEF QueueInv, QueueTypes, Numbered, DispatchInOrder,
                OldMessageOnlyAfterErrorClose

LEMMA QueueNewSession ==
  ASSUME QueueInv, LifeInv, NewSession, UNCHANGED <<MessageQueue, lastDispatched>>
  PROVE  QueueInv'
<1>1. /\ session' = session + 1 /\ decoded' = << >> /\ UNCHANGED closedBy
      /\ session \in Nat
  BY DEF NewSession, Connect, LifeInv, LifeTypes
<1>2. QueueTypes'
  BY <1>1, EmptyAny DEF QueueInv, QueueTypes
<1>3. Newest.session <= session
  <2>1. CASE MessageQueue = << >>
    BY <2>1 DEF Newest, QueueInv, QueueTypes
  <2>2. CASE MessageQueue # << >>
    BY <2>2, TailAny DEF Newest, QueueInv, QueueTypes
  <2> QED BY <2>1, <2>2
<1>4. Newest' = Newest
  BY DEF Newest
<1>5. Numbered'
  <2>1. Newest'.session # session'
    <3>1. Newest.session \in Nat
      BY TailAny DEF Newest, QueueInv, QueueTypes
    <3> QED BY <1>1, <1>3, <1>4, <3>1
  <2> QED BY <1>1, <2>1 DEF Numbered
<1>6. DispatchInOrder' /\ OldMessageOnlyAfterErrorClose'
  BY <1>1 DEF QueueInv, DispatchInOrder, OldMessageOnlyAfterErrorClose, Follows
<1> QED BY <1>2, <1>5, <1>6 DEF QueueInv

(* The connection is gone.  If its user closed it the queue is empty, and  *)
(* if a notice did it the queue may hold its messages.                     *)
LEMMA QueueJoinDone ==
  ASSUME QueueInv, LifeInv, MgrJoinDone
  PROVE  QueueInv'
<1>1. /\ JoinDone /\ ioPc = "done" /\ ioPc' = "done"
      /\ closedBy' = Append(closedBy, closer)
      /\ UNCHANGED <<session, decoded, lastDispatched>>
      /\ MessageQueue' = IF closer = 0 THEN << >> ELSE MessageQueue
  BY DEF MgrJoinDone, JoinDone, User
<1>2. CASE closer = 0
  BY <1>1, <1>2, QueueEmptied
<1>3. CASE closer # 0
  <2>1. UNCHANGED MessageQueue
    BY <1>1, <1>3
  <2>2. QueueTypes' /\ Numbered' /\ DispatchInOrder'
    BY <1>1, <2>1 DEF QueueInv, QueueTypes, Numbered, DispatchInOrder, Follows
  <2>3. /\ closedBy \in Seq(Nat) /\ closer \in Nat
    BY DEF LifeInv, LifeTypes
  <2>4. /\ Len(closedBy') = Len(closedBy) + 1
        /\ \A t \in 1..Len(closedBy) : closedBy'[t] = closedBy[t]
        /\ closedBy'[Len(closedBy) + 1] = closer
    BY <1>1, <2>3, AppendProperties
  <2>5. OldMessageOnlyAfterErrorClose'
    <3> SUFFICES ASSUME NEW i \in 1..Len(MessageQueue),
                        NEW t \in MessageQueue[i].session..Len(closedBy')
                 PROVE  closedBy'[t] # 0
      BY <2>1 DEF OldMessageOnlyAfterErrorClose, User
    <3>1. MessageQueue[i].session \in 1..session
      BY DEF QueueInv, QueueTypes
    <3>2. CASE t = Len(closedBy) + 1
      BY <1>3, <2>4, <3>2
    <3>3. CASE t <= Len(closedBy)
      <4>1. t \in 1..Len(closedBy) /\ t \in MessageQueue[i].session..Len(closedBy)
        BY <2>3, <3>1, <3>3
      <4>2. closedBy[t] # 0
        BY <4>1 DEF QueueInv, OldMessageOnlyAfterErrorClose, User
      <4> QED BY <2>4, <4>1, <4>2
    <3> QED BY <2>3, <2>4, <3>1, <3>2, <3>3
  <2> QED BY <2>2, <2>5 DEF QueueInv
<1> QED BY <1>2, <1>3

(* The oldest message leaves the queue.                                    *)
LEMMA QueueDispatch ==
  ASSUME QueueInv, TickDispatch
  PROVE  QueueInv'
<1> DEFINE q == MessageQueue
<1>1. /\ q # << >> /\ MessageQueue' = Tail(q)
      /\ lastDispatched' = [session |-> Head(q).session, n |-> Head(q).n]
      /\ UNCHANGED <<session, ioPc, closedBy, decoded>>
  BY DEF TickDispatch, vars, gameVars
<1>2. /\ IsSeq(Tail(q)) /\ Len(q) \in Nat \ {0}
      /\ Len(Tail(q)) = Len(q) - 1 /\ Head(q) = q[1]
      /\ \A i \in 1..Len(q) - 1 : Tail(q)[i] = q[i + 1]
      /\ Tail(q) = << >> <=> Len(q) = 1
  BY <1>1, TailAny DEF QueueInv, QueueTypes
<1>3. \A i \in 1..Len(q) - 1 : i + 1 \in 1..Len(q)
  BY <1>2
<1>4. /\ lastDispatched'.session = q[1].session
      /\ lastDispatched'.n = q[1].n
  BY <1>1, <1>2
<1>5. QueueTypes'
  <2>1. lastDispatched'.session \in 0..session' /\ lastDispatched'.n \in Nat
    BY <1>1, <1>2, <1>4 DEF QueueInv, QueueTypes
  <2>2. \A i \in 1..Len(Tail(q)) :
          Tail(q)[i].session \in 1..session' /\ Tail(q)[i].n \in Nat
    BY <1>1, <1>2, <1>3 DEF QueueInv, QueueTypes
  <2> QED BY <1>1, <1>2, <2>1, <2>2 DEF QueueInv, QueueTypes
<1>6. Numbered'
  <2>1. Newest'.session = Newest.session /\ Newest'.n = Newest.n
    <3>1. CASE Len(q) = 1
      BY <1>1, <1>2, <1>4, <3>1 DEF Newest
    <3>2. CASE Len(q) # 1
      <4>1. /\ Len(q) - 1 \in 1..Len(q) - 1 /\ (Len(q) - 1) + 1 = Len(q)
        BY <1>2, <3>2
      <4>2. Tail(q)[Len(q) - 1] = q[Len(q)]
        BY <1>2, <4>1
      <4> QED BY <1>1, <1>2, <3>2, <4>2 DEF Newest
    <3> QED BY <3>1, <3>2
  <2> QED BY <1>1, <2>1 DEF QueueInv, Numbered
<1>7. DispatchInOrder'
  <2>1. \A i \in 1..Len(Tail(q)) - 1 : Follows(Tail(q)[i], Tail(q)[i + 1])
    <3> SUFFICES ASSUME NEW i \in 1..Len(Tail(q)) - 1
                 PROVE  Follows(Tail(q)[i], Tail(q)[i + 1])
      OBVIOUS
    <3>1. i \in 1..Len(q) - 1 /\ i + 1 \in 1..Len(q) - 1
      BY <1>2
    <3>2. Follows(q[i + 1], q[(i + 1) + 1])
      BY <3>1 DEF QueueInv, DispatchInOrder
    <3> QED BY <1>2, <3>1, <3>2
  <2>2. Tail(q) # << >> => Follows(lastDispatched', Tail(q)[1])
    <3> SUFFICES ASSUME Tail(q) # << >>
                 PROVE  Follows(lastDispatched', Tail(q)[1])
      OBVIOUS
    <3>1. 1 \in 1..Len(q) - 1 /\ Tail(q)[1] = q[1 + 1]
      BY <1>2
    <3>2. Follows(q[1], q[1 + 1])
      BY <3>1 DEF QueueInv, DispatchInOrder
    <3> QED BY <1>4, <3>1, <3>2 DEF Follows
  <2>3. Tail(q) # << >> => Head(Tail(q)) = Tail(q)[1]
    BY <1>2, TailAny
  <2> QED BY <1>1, <2>1, <2>2, <2>3 DEF DispatchInOrder, Follows
<1>8. OldMessageOnlyAfterErrorClose'
  BY <1>1, <1>2, <1>3 DEF QueueInv, OldMessageOnlyAfterErrorClose
<1> QED BY <1>5, <1>6, <1>7, <1>8 DEF QueueInv

(* The decoder appends a message.                                          *)
LEMMA QueueDecode ==
  ASSUME QueueInv, LifeInv, Decode
  PROVE  QueueInv'
<1> DEFINE q == MessageQueue
           new == MessageQueue'[Len(q) + 1]
<1>1. PICK body :
        /\ decoded' = Append(decoded, body)
        /\ MessageQueue' = Append(MessageQueue,
             [session |-> session, n |-> Len(decoded'), body |-> body])
  BY DEF Decode
<1>2. /\ ioPc = "deliver" /\ ioPc' = "deliver"
      /\ UNCHANGED <<session, closedBy, lastDispatched>>
  BY DEF Decode, CallbackConsume, gameVars
<1>3. /\ runnable /\ session \in Nat \ {0} /\ Len(closedBy) = session - 1
  BY <1>2 DEF LifeInv, LifeTypes, Threads
<1>4. /\ IsSeq(decoded') /\ Len(decoded) \in Nat
      /\ Len(decoded') = Len(decoded) + 1
  BY <1>1, AppendAny DEF QueueInv, QueueTypes
<1>5. /\ IsSeq(MessageQueue') /\ MessageQueue' # << >>
      /\ Len(q) \in Nat /\ Len(MessageQueue') = Len(q) + 1
      /\ \A i \in 1..Len(q) : MessageQueue'[i] = q[i]
      /\ new.session = session /\ new.n = Len(decoded) + 1
  BY <1>1, <1>4, AppendAny DEF QueueInv, QueueTypes
<1> HIDE DEF new
<1>6. \A i \in 1..Len(MessageQueue') : i \in 1..Len(q) \/ i = Len(q) + 1
  BY <1>5
<1>7. QueueTypes'
  <2>1. \A i \in 1..Len(MessageQueue') :
          /\ MessageQueue'[i].session \in 1..session'
          /\ MessageQueue'[i].n \in Nat
    BY <1>2, <1>3, <1>4, <1>5, <1>6 DEF QueueInv, QueueTypes, new
  <2> QED BY <1>2, <1>4, <1>5, <2>1 DEF QueueInv, QueueTypes
<1>8. Numbered'
  <2>1. Newest' = new
    BY <1>5 DEF Newest, new
  <2> QED BY <1>2, <1>4, <1>5, <2>1 DEF Numbered
<1>9. Follows(Newest, new)
  <2>1. Newest.session \in 0..session
    BY <1>5, TailAny DEF Newest, QueueInv, QueueTypes
  <2>2. CASE Newest.session = session
    BY <1>2, <1>5, <2>2 DEF QueueInv, Numbered, Follows
  <2>3. CASE Newest.session # session
    <3>1. Len(decoded) = 0
      BY <1>2, <2>3, EmptyAny DEF QueueInv, Numbered
    <3> QED BY <1>3, <1>5, <2>1, <2>3, <3>1 DEF Follows
  <2> QED BY <2>2, <2>3
<1>10. DispatchInOrder'
  <2>1. CASE q = << >>
    <3>1. Len(q) = 0 /\ Newest = lastDispatched
      BY <2>1, EmptyAny DEF Newest
    <3>2. Head(MessageQueue') = new
      BY <1>5, <3>1, TailAny DEF new
    <3>3. Follows(lastDispatched', Head(MessageQueue'))
      BY <1>2, <1>9, <3>1, <3>2
    <3>4. \A i \in 1..Len(MessageQueue') - 1 :
            Follows(MessageQueue'[i], MessageQueue'[i + 1])
      BY <1>5, <3>1
    <3> QED BY <3>3, <3>4 DEF DispatchInOrder, Follows
  <2>2. CASE q # << >>
    <3>1. Len(q) \in Nat \ {0} /\ Head(q) = q[1] /\ Newest = q[Len(q)]
      BY <2>2, TailAny DEF QueueInv, QueueTypes, Newest
    <3>2. Head(MessageQueue') = Head(q)
      BY <1>5, <3>1, TailAny
    <3>3. \A i \in 1..Len(MessageQueue') - 1 :
            Follows(MessageQueue'[i], MessageQueue'[i + 1])
      <4> SUFFICES ASSUME NEW i \in 1..Len(q)
                   PROVE  Follows(MessageQueue'[i], MessageQueue'[i + 1])
        BY <1>5
      <4>1. CASE i = Len(q)
        BY <1>5, <1>9, <3>1, <4>1 DEF new
      <4>2. CASE i # Len(q)
        <5>1. i \in 1..Len(q) - 1 /\ i + 1 \in 1..Len(q)
          BY <1>5, <4>2
        <5> QED BY <1>5, <5>1 DEF QueueInv, DispatchInOrder
      <4> QED BY <4>1, <4>2
    <3>4. Follows(lastDispatched', Head(MessageQueue'))
      BY <1>2, <2>2, <3>2 DEF QueueInv, DispatchInOrder
    <3> QED BY <3>3, <3>4 DEF DispatchInOrder, Follows
  <2> QED BY <2>1, <2>2
<1>11. OldMessageOnlyAfterErrorClose'
  <2> SUFFICES ASSUME NEW i \in 1..Len(MessageQueue'),
                      NEW t \in MessageQueue'[i].session..Len(closedBy)
               PROVE  closedBy[t] # 0
    BY <1>2 DEF OldMessageOnlyAfterErrorClose, User
  <2>1. CASE i \in 1..Len(q)
    BY <1>5, <2>1 DEF QueueInv, OldMessageOnlyAfterErrorClose, User
  <2>2. CASE i = Len(q) + 1
    BY <1>3, <1>5, <2>2 DEF new
  <2> QED BY <1>6, <2>1, <2>2
<1> QED BY <1>7, <1>8, <1>10, <1>11 DEF QueueInv

LEMMA QueueStep ==
  ASSUME QueueInv, LifeInv, [MgrNext]_allVars
  PROVE  QueueInv'
<1>1. CASE Initialize \/ MgrConnect
  BY <1>1, QueueNewSession DEF Initialize, MgrConnect
<1>2. CASE MgrDisconnect \/ Deinitialize
  <2>1. DisconnectAndEmpty
    BY <1>2 DEF MgrDisconnect, Deinitialize
  <2>2. CASE runnable
    <3>1. UNCHANGED <<session, closedBy, MessageQueue, decoded, lastDispatched,
                      ioPc>>
      BY <2>1, <2>2 DEF DisconnectAndEmpty, Disconnect, StopAndJoin
    <3> QED BY <3>1, QueueKept
  <2>3. CASE ~runnable
    <3>1. MessageQueue' = << >> /\ UNCHANGED <<session, decoded, lastDispatched>>
          /\ ioPc' = ioPc
      BY <2>1, <2>3 DEF DisconnectAndEmpty, vars, gameVars
    <3>2. ioPc = "done"
      BY <2>3 DEF LifeInv, Threads
    <3> QED BY <3>1, <3>2, QueueEmptied
  <2> QED BY <2>2, <2>3
<1>3. CASE MgrJoinDone
  BY <1>3, QueueJoinDone
<1>4. CASE MgrExecuteTask
  <2>1. UNCHANGED <<session, closedBy, MessageQueue, decoded, lastDispatched,
                    ioPc>>
    BY <1>4 DEF MgrExecuteTask, ExecuteTask, StopAndJoin, gameVars, mgrVars
  <2> QED BY <2>1, QueueKept
<1>5. CASE \E m \in AppMessage : SendMessage(m)
  <2>1. UNCHANGED <<session, closedBy, MessageQueue, decoded, lastDispatched,
                    ioPc>>
    BY <1>5 DEF SendMessage, Send, gameVars, mgrVars
  <2> QED BY <2>1, QueueKept
<1>6. CASE TickDispatch
  BY <1>6, QueueDispatch
<1>7. CASE TickEnds
  <2>1. UNCHANGED <<session, closedBy, MessageQueue, decoded, lastDispatched,
                    ioPc>>
    BY <1>7 DEF TickEnds, vars, gameVars
  <2> QED BY <2>1, QueueKept
<1>8. CASE DecoderStep
  <2>1. CASE Decode
    BY <2>1, QueueDecode
  <2>2. CASE CallbackReturn /\ UNCHANGED <<mgrVars, peerVars>>
    <3>1. ioPc = "deliver"
          /\ UNCHANGED <<session, closedBy, MessageQueue, decoded, lastDispatched>>
      BY <2>2 DEF CallbackReturn, Goto, gameVars, mgrVars
    <3> QED BY <3>1, QueueKept
  <2> QED BY <1>8, <2>1, <2>2 DEF DecoderStep
<1>9. CASE IoRunOutsideDecoder
  <2>1. UNCHANGED <<MessageQueue, decoded, lastDispatched>> /\ IoThread
    BY <1>9 DEF IoRunOutsideDecoder, mgrVars
  <2>2. CASE IoInit
    <3>1. UNCHANGED <<session, closedBy>> /\ ioPc = "init"
      BY <2>2 DEF IoInit, InitFailsSilently, InitCannotConnect, InitConnects, Goto
    <3> QED BY <2>1, <3>1, QueueKept
  <2>3. CASE IoRun \/ Exit
    <3>1. UNCHANGED <<session, closedBy>> /\ ioPc # "done"
      BY <2>3 DEF IoRun, RunLoopTop, RunPeek, SendData, SendFails, RunCheck,
                  RunPending, RecvSome, RecvFails, RunReceived, CallbackConsume,
                  CallbackReturn, Exit, Goto, gameVars
    <3> QED BY <2>1, <3>1, QueueKept
  <2> QED BY <2>1, <2>2, <2>3 DEF IoThread
<1>10. CASE \E m \in PeerMessage, n \in 1..MaxIn : PeerWrites(m, n)
  <2>1. UNCHANGED <<session, closedBy, MessageQueue, decoded, lastDispatched,
                    ioPc>>
    BY <1>10 DEF PeerWrites, PeerSends, gameVars, mgrVars
  <2> QED BY <2>1, QueueKept
<1>11. CASE NetworkStep \/ UNCHANGED allVars
  <2>1. UNCHANGED <<session, closedBy, MessageQueue, decoded, lastDispatched,
                    ioPc>>
    BY <1>11 DEF NetworkStep, PeerReads, LinkBreaks, gameVars, mgrVars, allVars,
                 vars
  <2> QED BY <2>1, QueueKept
<1> QED BY <1>1, <1>2, <1>3, <1>4, <1>5, <1>6, <1>7, <1>8, <1>9, <1>10, <1>11
        DEF MgrNext, MgrIoThread

(* The queue's order, the numbers of its messages and what it may hold of  *)
(* earlier connections, as one inductive invariant.                        *)
THEOREM QueueInvariant == MgrSpec => [](LifeInv /\ QueueInv)
<1>1. MgrSpec => []LifeInv
  BY MgrRefinesTcpThm, LifeInit, LifeStep, PTL
<1>2. QueueInv /\ LifeInv /\ [MgrNext]_allVars => QueueInv'
  BY QueueStep
<1> QED BY <1>1, <1>2, QueueInit, PTL DEF MgrSpec

(* The game thread sees the messages of each connection in the order the   *)
(* decoder made them on the IO thread, none twice and none left out before *)
(* the connection's end.                                                   *)
THEOREM DispatchInOrderThm == MgrSpec => []DispatchInOrder
<1>1. QueueInv => DispatchInOrder
  BY DEF QueueInv
<1> QED BY <1>1, QueueInvariant, PTL

(* After a manual disconnect no message of the closed connection, nor of   *)
(* an earlier one, is left to be dispatched.                               *)
THEOREM OldMessageThm == MgrSpec => []OldMessageOnlyAfterErrorClose
<1>1. QueueInv => OldMessageOnlyAfterErrorClose
  BY DEF QueueInv
<1> QED BY <1>1, QueueInvariant, PTL
=============================================================================
