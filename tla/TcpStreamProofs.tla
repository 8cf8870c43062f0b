-------------------------- MODULE TcpStreamProofs --------------------------
(***************************************************************************)
(* Theorems about the bytes TcpSocket carries, for every choice of the     *)
(* constants: type correctness, the order and completeness of both         *)
(* streams, and that the two of them with the life cycle implement         *)
(* ByteSession.  Each direction has an inductive invariant of its own;     *)
(* both need to know where the IO thread can be after an error.            *)
(***************************************************************************)
EXTENDS TcpSocketProofs, SequenceTheorems

Cell == Byte \cup {Unfilled}

ErrorPcs == {"check", "received", "top", "exit", "done"}

(* After a failed Send or Recv the IO thread only leaves.                  *)
ErrInv ==
  /\ ioPc \in IoPcs /\ bConnectionError \in BOOLEAN
  /\ bConnectionError => ioPc \in ErrorPcs

SendInv ==
  /\ unsent \in ByteSeq /\ partial \in ByteSeq /\ window \in 0..SockBuf
  /\ SendBuffer \in Seq(Message) /\ accepted \in Seq(Message)
  /\ delivered \in Seq(Message)
  /\ SendStream
  /\ partial # << >> => ioPc = "send" \/ bConnectionError

RecvTypes ==
  /\ missing \in Nat /\ RecvData \in Seq(Cell)
  /\ netIn \in ByteSeq /\ peerSent \in ByteSeq /\ consumed \in ByteSeq
  /\ link \in {"none", "up", "down"}

(* The cells not yet filled are the last ones of RecvData, and there are   *)
(* some only during a Recv or after a failed one.                          *)
RecvInv ==
  /\ RecvTypes
  /\ missing <= Len(RecvData) /\ Filled \in ByteSeq
  /\ missing > 0 => ioPc = "recv" \/ bConnectionError
  /\ ioPc = "init" =>
       /\ link = "none" /\ missing = 0 /\ RecvData = << >>
       /\ netIn = << >> /\ peerSent = << >> /\ consumed = << >>
  /\ ReceivedStream

-----------------------------------------------------------------------------
(* Sequences *)

LEMMA FrontOfConcat ==
  ASSUME NEW S, NEW s \in Seq(S), NEW t \in Seq(S)
  PROVE  SubSeq(s \o t, 1, Len(s)) = s
<1>1. /\ s \o t \in Seq(S) /\ Len(s \o t) = Len(s) + Len(t)
      /\ \A i \in 1..Len(s) + Len(t) :
           (s \o t)[i] = IF i <= Len(s) THEN s[i] ELSE t[i - Len(s)]
  BY ConcatProperties
<1>2. Len(s) \in Nat /\ Len(t) \in Nat
  BY LenProperties
<1>3. \A i \in 1..Len(s) : (s \o t)[i] = s[i]
  BY <1>1, <1>2
<1>4. \A i \in 1..Len(s) : (s \o t)[i] \in S
  BY <1>3, ElementOfSeq
<1>5. /\ SubSeq(s \o t, 1, Len(s)) \in Seq(S)
      /\ Len(SubSeq(s \o t, 1, Len(s))) = Len(s)
      /\ \A i \in 1..Len(s) : SubSeq(s \o t, 1, Len(s))[i] = (s \o t)[i]
  <2>1. /\ SubSeq(s \o t, 1, Len(s)) \in Seq(S)
        /\ Len(SubSeq(s \o t, 1, Len(s)))
             = IF 1 <= Len(s) THEN Len(s) - 1 + 1 ELSE 0
        /\ \A i \in 1..Len(s) - 1 + 1 :
             SubSeq(s \o t, 1, Len(s))[i] = (s \o t)[1 + i - 1]
    BY <1>2, <1>4, SubSeqProperties
  <2>2. \A i \in 1..Len(s) : i \in 1..Len(s) - 1 + 1 /\ 1 + i - 1 = i
    BY <1>2
  <2> QED BY <1>2, <2>1, <2>2
<1> QED BY <1>3, <1>5, SeqEqual

LEMMA SplitAt ==
  ASSUME NEW S, NEW s \in Seq(S), NEW n \in 0..Len(s)
  PROVE  /\ SubSeq(s, 1, n) \in Seq(S) /\ Len(SubSeq(s, 1, n)) = n
         /\ SubSeq(s, n + 1, Len(s)) \in Seq(S)
         /\ Len(SubSeq(s, n + 1, Len(s))) = Len(s) - n
         /\ s = SubSeq(s, 1, n) \o SubSeq(s, n + 1, Len(s))
<1>1. Len(s) \in Nat
  BY LenProperties
<1>2. SubSeq(s, 1, n) \in Seq(S) /\ Len(SubSeq(s, 1, n)) = n
  <2>1. \A i \in 1..n : s[i] \in S
    BY <1>1, ElementOfSeq
  <2> QED BY <1>1, <2>1, SubSeqProperties
<1>3. /\ SubSeq(s, n + 1, Len(s)) \in Seq(S)
      /\ Len(SubSeq(s, n + 1, Len(s))) = Len(s) - n
  <2>1. \A i \in n + 1..Len(s) : s[i] \in S
    BY <1>1, ElementOfSeq
  <2> QED BY <1>1, <2>1, SubSeqProperties
<1>4. SubSeq(s, 1, n) \o SubSeq(s, n + 1, Len(s)) = SubSeq(s, 1, Len(s))
  <2>1. 1 \in 1..Len(s) + 1 /\ n \in 1 - 1..Len(s) /\ Len(s) \in n..Len(s)
    BY <1>1
  <2> QED BY <2>1, ConcatAdjacentSubSeq
<1> QED BY <1>2, <1>3, <1>4, SubSeqFull

LEMMA HeadThenTail ==
  ASSUME NEW S, NEW d \in Seq(S), NEW s \in Seq(S), s # << >>
  PROVE  Append(d, Head(s)) \o Tail(s) = d \o s
<1>1. /\ Head(s) \in S /\ Tail(s) \in Seq(S)
  BY HeadTailProperties
<1>2. Append(d, Head(s)) = d \o <<Head(s)>>
  BY <1>1, AppendIsConcat
<1>3. <<Head(s)>> \o Tail(s) = s
  <2>1. Len(s) \in Nat \ {0}
    BY EmptySeq
  <2>2. SubSeq(s, 1, Len(s)) = <<s[1]>> \o SubSeq(s, 2, Len(s))
    BY <2>1, SubSeqRecursiveFirst
  <2>3. Head(s) = s[1] /\ Tail(s) = SubSeq(s, 2, Len(s))
    BY <2>1, TailIsSubSeq
  <2> QED BY <2>2, <2>3, SubSeqFull
<1>4. <<Head(s)>> \in Seq(S)
  BY <1>1
<1> QED BY <1>1, <1>2, <1>3, <1>4, ConcatAssociative

-----------------------------------------------------------------------------
(* Sending *)

LEMMA SendInit == Init => SendInv
<1> SUFFICES ASSUME Init PROVE SendInv
  OBVIOUS
<1>1. /\ unsent = << >> /\ partial = << >> /\ window = 0 /\ SendBuffer = << >>
      /\ accepted = << >> /\ delivered = << >> /\ ioPc = "done"
  BY DEF Init
<1>2. /\ unsent \in ByteSeq /\ partial \in ByteSeq /\ SendBuffer \in Seq(Message)
      /\ accepted \in Seq(Message) /\ delivered \in Seq(Message)
  BY <1>1, EmptySeq DEF ByteSeq
<1>3. window \in 0..SockBuf
  BY <1>1, ConstantsAssumption
<1>4. SendStream
  BY <1>1, <1>2, ConcatEmptySeq DEF SendStream
<1> QED BY <1>1, <1>2, <1>3, <1>4 DEF SendInv

LEMMA SendUnchanged ==
  ASSUME SendInv, UNCHANGED <<unsent, delivered, partial, SendBuffer, accepted>>,
         window' \in 0..SockBuf,
         ioPc' = "send" => ioPc = "send",
         ioPc = "send" => ioPc' = "send" \/ bConnectionError',
         bConnectionError => bConnectionError'
  PROVE  SendInv'
BY DEF SendInv, SendStream

LEMMA SendConnect == Connect => SendInv'
<1> SUFFICES ASSUME Connect PROVE SendInv'
  OBVIOUS
<1>1. /\ unsent' = << >> /\ partial' = << >> /\ window' = 0
      /\ SendBuffer' = << >> /\ accepted' = << >> /\ delivered' = << >>
      /\ ioPc' = "init"
  BY DEF Connect
<1>2. /\ unsent' \in ByteSeq /\ partial' \in ByteSeq
      /\ SendBuffer' \in Seq(Message)
      /\ accepted' \in Seq(Message) /\ delivered' \in Seq(Message)
  BY <1>1, EmptySeq DEF ByteSeq
<1>3. window' \in 0..SockBuf
  BY <1>1, ConstantsAssumption
<1>4. SendStream'
  BY <1>1, <1>2, ConcatEmptySeq DEF SendStream
<1> QED BY <1>1, <1>2, <1>3, <1>4 DEF SendInv

(* Appending after a concatenation is concatenating with the longer queue. *)
LEMMA ConcatAppend ==
  ASSUME NEW S, NEW s \in Seq(S), NEW t \in Seq(S), NEW x \in S
  PROVE  s \o Append(t, x) = Append(s \o t, x)
<1>1. <<x>> \in Seq(S) /\ s \o t \in Seq(S)
  BY ConcatProperties
<1>2. Append(t, x) = t \o <<x>> /\ Append(s \o t, x) = (s \o t) \o <<x>>
  BY <1>1, AppendIsConcat
<1>3. (s \o t) \o <<x>> = s \o (t \o <<x>>)
  BY <1>1, ConcatAssociative
<1> QED BY ONLY <1>2, <1>3

LEMMA SendEnqueue ==
  ASSUME SendInv, NEW m \in Message, Send(m)
  PROVE  SendInv'
<1>1. /\ SendBuffer' = Append(SendBuffer, m) /\ accepted' = Append(accepted, m)
      /\ UNCHANGED <<unsent, delivered, partial, window, ioPc, bConnectionError>>
  BY DEF Send, outVars, flagVars
<1>2. /\ SendBuffer \in Seq(Message) /\ accepted \in Seq(Message)
      /\ delivered \in Seq(Message) /\ delivered \o SendBuffer = accepted
  BY DEF SendInv, SendStream
<1>3. /\ SendBuffer' \in Seq(Message) /\ accepted' \in Seq(Message)
      /\ SendBuffer' # << >>
      /\ SendBuffer # << >> => Head(SendBuffer') = Head(SendBuffer)
  BY <1>1, <1>2, AppendProperties, HeadTailAppend
<1>4. delivered \o Append(SendBuffer, m) = Append(delivered \o SendBuffer, m)
  BY <1>2, ConcatAppend
<1>5. SendStream'
  BY <1>1, <1>2, <1>3, <1>4 DEF SendInv, SendStream
<1> QED BY <1>1, <1>3, <1>5 DEF SendInv

LEMMA SendPeek == SendInv /\ ErrInv /\ RunPeek => SendInv'
<1> SUFFICES ASSUME SendInv, ErrInv, RunPeek PROVE SendInv'
  OBVIOUS
<1>1. /\ ioPc = "peek"
      /\ UNCHANGED <<delivered, partial, window, SendBuffer, accepted,
                     bConnectionError>>
  BY DEF RunPeek, Goto, flagVars
<1>2. partial = << >>
  BY <1>1 DEF SendInv, ErrInv, ErrorPcs
<1>3. CASE ioPc' = "send" /\ SendBuffer # << >> /\ unsent' = Head(SendBuffer)
  <2>1. unsent' \in Message
    BY <1>3, HeadTailProperties DEF SendInv
  <2>2. unsent' \in ByteSeq
    BY <2>1, ConstantsAssumption DEF NonEmpty
  <2>3. Head(SendBuffer') = partial' \o unsent'
    BY <1>1, <1>2, <1>3, <2>2, ConcatEmptySeq DEF ByteSeq
  <2> QED BY <1>1, <1>2, <1>3, <2>2, <2>3 DEF SendInv, SendStream
<1>4. CASE ioPc' = "check" /\ unsent' = unsent
  BY <1>1, <1>2, <1>4 DEF SendInv, SendStream
<1> QED BY <1>3, <1>4 DEF RunPeek, Goto

LEMMA SendSome ==
  ASSUME SendInv, NEW n, SendData(n)
  PROVE  SendInv'
<1>1. /\ ioPc = "send" /\ n \in 1..Len(unsent) /\ n <= SockBuf - window
      /\ window' = window + n
      /\ unsent' = SubSeq(unsent, n + 1, Len(unsent))
      /\ UNCHANGED <<accepted, bConnectionError>>
  BY DEF SendData, flagVars
<1>2. /\ unsent \in Seq(Byte) /\ partial \in Seq(Byte)
      /\ SendBuffer \in Seq(Message) /\ SendBuffer # << >>
      /\ Head(SendBuffer) = partial \o unsent
      /\ delivered \in Seq(Message) /\ accepted \in Seq(Message)
      /\ delivered \o SendBuffer = accepted
      /\ Len(unsent) \in Nat
  BY <1>1, LenProperties DEF SendInv, SendStream, ByteSeq
<1>3. window' \in 0..SockBuf
  BY <1>1, <1>2, ConstantsAssumption DEF SendInv
<1> DEFINE first == SubSeq(unsent, 1, n)
<1>4. /\ first \in Seq(Byte) /\ unsent' \in Seq(Byte)
      /\ unsent = first \o unsent'
  <2>1. n \in 0..Len(unsent)
    BY <1>1, <1>2
  <2> QED BY <1>1, <1>2, <2>1, SplitAt
<1>5. CASE n < Len(unsent)
  <2>1. /\ partial' = partial \o first
        /\ UNCHANGED <<ioPc, SendBuffer, delivered>>
    BY <1>5 DEF SendData
  <2>2. partial' \in Seq(Byte)
    BY <1>2, <1>4, <2>1, ConcatProperties
  <2> HIDE DEF first
  <2>3. (partial \o first) \o unsent' = partial \o (first \o unsent')
    <3>1. /\ partial \in Seq(Byte) /\ first \in Seq(Byte)
          /\ unsent' \in Seq(Byte)
      BY <1>2, <1>4
    <3> QED BY <3>1, ConcatAssociative
  <2>4. Head(SendBuffer) = partial' \o unsent'
    BY <1>2, <1>4, <2>1, <2>3
  <2> QED BY <1>1, <1>2, <1>3, <1>4, <2>1, <2>2, <2>4
          DEF SendInv, SendStream, ByteSeq
<1>6. CASE ~(n < Len(unsent))
  <2>1. /\ partial' = << >> /\ ioPc' = "peek"
        /\ delivered' = Append(delivered, Head(SendBuffer))
        /\ SendBuffer' = Tail(SendBuffer)
    BY <1>2, <1>6 DEF SendData
  <2>2. Head(SendBuffer) \in Message /\ SendBuffer' \in Seq(Message)
    BY <1>2, <2>1, HeadTailProperties
  <2>3. delivered' \in Seq(Message)
    BY <1>2, <2>1, <2>2, AppendProperties
  <2>4. delivered' \o SendBuffer' = accepted
    BY <1>2, <2>1, HeadThenTail
  <2>5. partial' \in Seq(Byte)
    BY <2>1, EmptySeq
  <2> HIDE DEF first
  <2> QED BY <1>1, <1>2, <1>3, <1>4, <2>1, <2>2, <2>3, <2>4, <2>5
          DEF SendInv, SendStream, ByteSeq
<1> QED BY <1>5, <1>6

LEMMA SendFailing == SendInv /\ SendFails => SendInv'
<1> SUFFICES ASSUME SendInv, SendFails PROVE SendInv'
  OBVIOUS
<1>1. /\ ioPc = "send" /\ ioPc' = "check" /\ bConnectionError' = TRUE
      /\ UNCHANGED <<unsent, delivered, partial, window, SendBuffer, accepted>>
  BY DEF SendFails, Goto, outVars
<1>2. window' \in 0..SockBuf
  BY <1>1 DEF SendInv
<1> QED BY <1>1, <1>2, SendUnchanged

LEMMA ErrStep == ErrInv /\ [Next]_vars => ErrInv'
<1> SUFFICES ASSUME ErrInv, [Next]_vars PROVE ErrInv'
  OBVIOUS
<1> USE DEF ErrInv, ErrorPcs, IoPcs, Goto, flagVars
<1>1. CASE UNCHANGED vars
  BY <1>1 DEF vars
<1>2. CASE Connect
  <2>1. ioPc' = "init" /\ bConnectionError' = FALSE
    BY <1>2 DEF Connect
  <2> QED BY <2>1
<1>3. CASE Disconnect \/ JoinDone \/ ExecuteTask
  BY <1>3 DEF Disconnect, JoinDone, ExecuteTask
<1>4. CASE \E m \in Message : Send(m)
  BY <1>4 DEF Send
<1>5. CASE IoInit
  BY <1>5 DEF IoInit, InitFailsSilently, InitCannotConnect, InitConnects
<1>6. CASE RunLoopTop \/ RunPeek \/ RunCheck \/ RunPending \/ RunReceived
             \/ CallbackReturn \/ Exit
  BY <1>6 DEF RunLoopTop, RunPeek, RunCheck, RunPending, RunReceived,
              CallbackReturn, Exit
<1>7. CASE SendFails \/ RecvFails
  BY <1>7 DEF SendFails, RecvFails
<1>8. CASE \E n \in 1..SockBuf : SendData(n)
  BY <1>8 DEF SendData
<1>9. CASE \E n : RecvSome(n) \/ CallbackConsume(n)
  BY <1>9 DEF RecvSome, CallbackConsume
<1>10. CASE PeerReads \/ LinkBreaks \/ \E c \in PeerChunk : PeerSends(c)
  BY <1>10 DEF PeerReads, LinkBreaks, PeerSends
<1> QED BY <1>1, <1>2, <1>3, <1>4, <1>5, <1>6, <1>7, <1>8, <1>9, <1>10
        DEF Next, IoThread, IoRun

LEMMA SendStep == SendInv /\ ErrInv /\ [Next]_vars => SendInv'
<1> SUFFICES ASSUME SendInv, ErrInv, [Next]_vars PROVE SendInv'
  OBVIOUS
<1> USE DEF Goto, flagVars, outVars
<1>0. window \in 0..SockBuf
  BY DEF SendInv
<1>1. CASE UNCHANGED vars
  BY <1>0, <1>1, SendUnchanged DEF vars
<1>2. CASE Disconnect \/ JoinDone \/ ExecuteTask
  BY <1>0, <1>2, SendUnchanged DEF Disconnect, JoinDone, ExecuteTask
<1>3. CASE \E m \in Message : Send(m)
  BY <1>3, SendEnqueue
<1>4. CASE IoInit
  BY <1>0, <1>4, SendUnchanged
     DEF IoInit, InitFailsSilently, InitCannotConnect, InitConnects
<1>5. CASE RunLoopTop \/ RunCheck \/ RunPending \/ RunReceived
             \/ CallbackReturn \/ Exit
  BY <1>0, <1>5, SendUnchanged
     DEF RunLoopTop, RunCheck, RunPending, RunReceived, CallbackReturn, Exit
<1>6. CASE RecvFails
  BY <1>0, <1>6, SendUnchanged DEF RecvFails
<1>7. CASE \E n \in 1..SockBuf : SendData(n)
  BY <1>7, SendSome
<1>8. CASE \E n : RecvSome(n) \/ CallbackConsume(n)
  BY <1>0, <1>8, SendUnchanged DEF RecvSome, CallbackConsume
<1>9. CASE LinkBreaks \/ \E c \in PeerChunk : PeerSends(c)
  BY <1>0, <1>9, SendUnchanged DEF LinkBreaks, PeerSends
<1>10. CASE PeerReads
  <2>1. /\ window > 0 /\ window' = window - 1
        /\ UNCHANGED <<ioPc, bConnectionError, unsent, delivered, partial,
                       SendBuffer, accepted>>
    BY <1>10 DEF PeerReads
  <2>2. window' \in 0..SockBuf
    BY <1>0, <2>1, ConstantsAssumption
  <2> QED BY <2>1, <2>2, SendUnchanged
<1> QED BY <1>1, <1>2, <1>3, <1>4, <1>5, <1>6, <1>7, <1>8, <1>9, <1>10,
           SendConnect, SendPeek, SendFailing DEF Next, IoThread, IoRun

-----------------------------------------------------------------------------
(* Receiving *)

LEMMA NewCellsType ==
  ASSUME NEW n \in Nat
  PROVE  NewCells(n) \in Seq(Cell) /\ Len(NewCells(n)) = n
BY DEF NewCells, Cell

LEMMA FilledWhole == RecvInv /\ missing = 0 => Filled = RecvData
<1> SUFFICES ASSUME RecvInv, missing = 0 PROVE Filled = RecvData
  OBVIOUS
<1>1. RecvData \in Seq(Cell)
  BY DEF RecvInv, RecvTypes
<1>2. Len(RecvData) - missing = Len(RecvData)
  BY <1>1, LenProperties
<1> QED BY <1>1, <1>2, SubSeqFull DEF Filled

AllArrived == peerSent \in ByteSeq /\ consumed \o Filled \o netIn = peerSent

(* A stream with nothing missing is a prefix of itself.                    *)
LEMMA WholeStream == AllArrived => ReceivedStream
<1> SUFFICES ASSUME AllArrived PROVE ReceivedStream
  OBVIOUS
<1> USE DEF AllArrived
<1>1. Len(peerSent) <= Len(peerSent) /\ peerSent = SubSeq(peerSent, 1, Len(peerSent))
  BY LenProperties, SubSeqFull DEF ByteSeq
<1> QED BY <1>1 DEF ReceivedStream

NothingYet ==
  /\ missing = 0 /\ RecvData = << >> /\ netIn = << >>
  /\ peerSent = << >> /\ consumed = << >> /\ link = "none"

LEMMA NothingMissing == NothingYet => AllArrived /\ Filled = << >>
<1> SUFFICES ASSUME NothingYet PROVE AllArrived /\ Filled = << >>
  OBVIOUS
<1> USE DEF NothingYet
<1>1. Filled = << >>
  <2>1. Len(RecvData) - missing < 1
    OBVIOUS
  <2> QED BY <2>1 DEF Filled
<1>2. << >> \in Seq(Byte)
  BY EmptySeq
<1>3. consumed \o Filled \o netIn = peerSent
  BY <1>1, <1>2, ConcatEmptySeq
<1> QED BY <1>1, <1>2, <1>3 DEF AllArrived, ByteSeq

LEMMA NothingArrived == NothingYet => RecvInv
<1> SUFFICES ASSUME NothingYet PROVE RecvInv
  OBVIOUS
<1>1. Filled = << >> /\ ReceivedStream
  BY NothingMissing, WholeStream
<1>2. << >> \in Seq(Byte) /\ << >> \in Seq(Cell) /\ Len(<< >>) = 0
  BY EmptySeq
<1>3. RecvTypes
  BY <1>2 DEF RecvTypes, ByteSeq, NothingYet
<1> QED BY <1>1, <1>2, <1>3 DEF RecvInv, ByteSeq, NothingYet

LEMMA RecvInit == Init => RecvInv
BY NothingArrived DEF Init, NothingYet

LEMMA RecvConnect == Connect => RecvInv'
<1>1. Connect => NothingYet'
  BY DEF Connect, NothingYet
<1> QED BY <1>1, NothingArrived, PTL

LEMMA RecvUnchanged ==
  ASSUME RecvInv, UNCHANGED <<missing, RecvData, netIn, consumed, peerSent>>,
         link' \in {link, "none"},
         ioPc' = "init" => ioPc = "init",
         ioPc = "recv" => ioPc' = "recv" \/ bConnectionError',
         bConnectionError => bConnectionError'
  PROVE  RecvInv'
<1>1. RecvTypes'
  BY DEF RecvInv, RecvTypes
<1>2. Filled' = Filled
  BY DEF Filled
<1>3. ReceivedStream'
  BY <1>2 DEF RecvInv, ReceivedStream
<1> QED BY <1>1, <1>2, <1>3 DEF RecvInv

(* The seam between two neighbours may move.                               *)
LEMMA SeamLeft ==
  ASSUME NEW S, NEW u \in Seq(S), NEW v \in Seq(S), NEW x \in Seq(S),
         NEW y \in Seq(S)
  PROVE  (u \o v) \o x \o y = u \o (v \o x) \o y
<1>1. (u \o v) \o x = u \o (v \o x)
  BY ConcatAssociative
<1> QED BY <1>1

LEMMA StreamKept ==
  ASSUME ReceivedStream, UNCHANGED peerSent, link' \in {link, "down"},
         (consumed \o Filled \o netIn)' = consumed \o Filled \o netIn
  PROVE  ReceivedStream'
BY DEF ReceivedStream

LEMMA RecvPending == RecvInv /\ ErrInv /\ RunPending => RecvInv'
<1> SUFFICES ASSUME RecvInv, ErrInv, RunPending PROVE RecvInv'
  OBVIOUS
<1>1. /\ ioPc = "pending"
      /\ UNCHANGED <<netIn, consumed, link, peerSent, bConnectionError>>
  BY DEF RunPending, Goto, flagVars
<1>2. ~bConnectionError
  BY <1>1 DEF ErrInv, ErrorPcs
<1>3. missing = 0
  BY <1>1, <1>2 DEF RecvInv, RecvTypes
<1>4. CASE ioPc' = "top" /\ UNCHANGED <<missing, RecvData>>
  BY <1>1, <1>4, RecvUnchanged
<1>5. CASE /\ ioPc' = "recv" /\ missing' = Len(netIn)
           /\ RecvData' = RecvData \o NewCells(Len(netIn))
  <2>1. /\ Filled = RecvData /\ RecvData \in Seq(Cell)
        /\ Len(netIn) \in Nat /\ Len(RecvData) \in Nat
    BY <1>3, FilledWhole, LenProperties DEF RecvInv, RecvTypes, ByteSeq
  <2>2. /\ NewCells(Len(netIn)) \in Seq(Cell)
        /\ Len(NewCells(Len(netIn))) = Len(netIn)
    BY <2>1, NewCellsType
  <2>3. /\ RecvData' \in Seq(Cell)
        /\ Len(RecvData') = Len(RecvData) + Len(netIn)
    <3>1. /\ RecvData \o NewCells(Len(netIn)) \in Seq(Cell)
          /\ Len(RecvData \o NewCells(Len(netIn)))
               = Len(RecvData) + Len(NewCells(Len(netIn)))
      BY <2>1, <2>2, ConcatProperties
    <3> QED BY <1>5, <2>2, <3>1
  <2>4. Len(RecvData') - missing' = Len(RecvData) /\ missing' <= Len(RecvData')
    BY <1>5, <2>1, <2>3
  <2>5. Filled' = RecvData
    <3>1. SubSeq(RecvData', 1, Len(RecvData)) = RecvData
      BY <1>5, <2>1, <2>2, FrontOfConcat
    <3> QED BY <2>4, <3>1 DEF Filled
  <2>6. ReceivedStream'
    BY <1>1, <2>1, <2>5, StreamKept DEF RecvInv
  <2>7. RecvTypes'
    BY <1>1, <1>5, <2>1, <2>3 DEF RecvInv, RecvTypes
  <2>8. Filled' \in ByteSeq
    BY <2>1, <2>5 DEF RecvInv
  <2> QED BY <1>5, <2>4, <2>6, <2>7, <2>8 DEF RecvInv
<1> QED BY <1>4, <1>5 DEF RunPending, Goto

LEMMA RecvReads ==
  ASSUME RecvInv, NEW n, RecvSome(n)
  PROVE  RecvInv'
<1>1. /\ ioPc = "recv" /\ n \in 1..missing /\ n <= Len(netIn)
      /\ RecvData' = Filled \o SubSeq(netIn, 1, n) \o NewCells(missing - n)
      /\ netIn' = SubSeq(netIn, n + 1, Len(netIn))
      /\ missing' = missing - n
      /\ ioPc' = IF n < missing THEN "recv" ELSE "received"
      /\ UNCHANGED <<consumed, link, peerSent>>
  BY DEF RecvSome
<1>2. /\ netIn \in Seq(Byte) /\ Filled \in Seq(Byte) /\ consumed \in Seq(Byte)
      /\ missing \in Nat
  BY DEF RecvInv, RecvTypes, ByteSeq
<1> DEFINE read == SubSeq(netIn, 1, n)
<1> DEFINE rest == NewCells(missing - n)
<1>3. /\ read \in Seq(Byte) /\ netIn' \in Seq(Byte) /\ netIn = read \o netIn'
  <2>1. n \in 0..Len(netIn)
    BY <1>1, <1>2, LenProperties
  <2> QED BY <1>1, <1>2, <2>1, SplitAt
<1>4. rest \in Seq(Cell) /\ Len(rest) = missing - n /\ missing - n \in Nat
  <2>1. missing - n \in Nat
    BY <1>1, <1>2
  <2> QED BY <2>1, NewCellsType
<1>5. RecvData' = (Filled \o read) \o rest
  BY <1>1
<1> HIDE DEF read, rest
<1>6. Filled \o read \in Seq(Byte) /\ Len(Filled \o read) \in Nat
  BY <1>2, <1>3, ConcatProperties, LenProperties
<1>7. Filled \o read \in Seq(Cell)
  <2>1. Byte \subseteq Cell
    BY DEF Cell
  <2> QED BY <1>6, <2>1, SeqMonotonic
<1>8. /\ RecvData' \in Seq(Cell)
      /\ Len(RecvData') = Len(Filled \o read) + (missing - n)
  BY <1>4, <1>5, <1>7, ConcatProperties
<1>9. Len(RecvData') - missing' = Len(Filled \o read)
        /\ missing' <= Len(RecvData') /\ missing' \in Nat
  BY <1>1, <1>2, <1>4, <1>6, <1>8
<1>10. Filled' = Filled \o read
  <2>1. SubSeq(RecvData', 1, Len(Filled \o read)) = Filled \o read
    BY <1>4, <1>5, <1>7, FrontOfConcat
  <2> QED BY <1>9, <2>1 DEF Filled
<1>11. ReceivedStream'
  <2>1. consumed \o (Filled \o read) \o netIn'
          = consumed \o Filled \o (read \o netIn')
    <3>1. /\ consumed \in Seq(Byte) /\ Filled \in Seq(Byte)
          /\ read \in Seq(Byte) /\ netIn' \in Seq(Byte)
      BY <1>2, <1>3
    <3>2. consumed \o Filled \in Seq(Byte)
      BY <3>1, ConcatProperties
    <3>3. (consumed \o Filled) \o read = consumed \o (Filled \o read)
      BY <3>1, ConcatAssociative
    <3>4. ((consumed \o Filled) \o read) \o netIn'
            = (consumed \o Filled) \o (read \o netIn')
      BY <3>1, <3>2, ConcatAssociative
    <3> QED BY <3>3, <3>4
  <2> QED BY <1>1, <1>3, <1>10, <2>1, StreamKept DEF RecvInv
<1>12. RecvTypes'
  BY <1>1, <1>3, <1>8, <1>9 DEF RecvInv, RecvTypes, ByteSeq
<1>13. missing' > 0 => ioPc' = "recv"
  BY <1>1, <1>2
<1>14. ioPc' # "init" /\ Filled' \in ByteSeq
  BY <1>1, <1>6, <1>10 DEF ByteSeq
<1> QED BY <1>9, <1>11, <1>12, <1>13, <1>14 DEF RecvInv

LEMMA RecvConsume ==
  ASSUME RecvInv, ErrInv, NEW n, CallbackConsume(n)
  PROVE  RecvInv'
<1>1. /\ ioPc = "deliver" /\ n \in 1..Len(RecvData)
      /\ consumed' = consumed \o SubSeq(RecvData, 1, n)
      /\ RecvData' = SubSeq(RecvData, n + 1, Len(RecvData))
      /\ UNCHANGED <<ioPc, bConnectionError, missing, netIn, link, peerSent>>
  BY DEF CallbackConsume, flagVars
<1>2. ~bConnectionError
  BY <1>1 DEF ErrInv, ErrorPcs
<1>3. missing = 0
  BY <1>1, <1>2 DEF RecvInv, RecvTypes
<1>4. /\ Filled = RecvData /\ RecvData \in Seq(Byte)
      /\ consumed \in Seq(Byte) /\ netIn \in Seq(Byte)
  BY <1>3, FilledWhole DEF RecvInv, RecvTypes, ByteSeq
<1> DEFINE eaten == SubSeq(RecvData, 1, n)
<1>5. /\ eaten \in Seq(Byte) /\ RecvData' \in Seq(Byte)
      /\ RecvData = eaten \o RecvData'
  <2>1. n \in 0..Len(RecvData)
    BY <1>1, <1>4, LenProperties
  <2> QED BY <1>1, <1>4, <2>1, SplitAt
<1>6. consumed' = consumed \o eaten
  BY <1>1
<1> HIDE DEF eaten
<1>7. consumed' \in Seq(Byte)
  BY <1>4, <1>5, <1>6, ConcatProperties
<1>8. RecvData' \in Seq(Cell) /\ Len(RecvData') \in Nat
  <2>1. Byte \subseteq Cell
    BY DEF Cell
  <2> QED BY <1>5, <2>1, SeqMonotonic, LenProperties
<1>9. Filled' = RecvData'
  <2>1. Len(RecvData') - missing' = Len(RecvData')
    BY <1>1, <1>3, <1>8
  <2> QED BY <1>8, <2>1, SubSeqFull DEF Filled
<1>10. ReceivedStream'
  <2>1. (consumed \o eaten) \o RecvData' \o netIn
          = consumed \o (eaten \o RecvData') \o netIn
    <3>1. /\ consumed \in Seq(Byte) /\ eaten \in Seq(Byte)
          /\ RecvData' \in Seq(Byte) /\ netIn \in Seq(Byte)
      BY <1>4, <1>5
    <3> QED BY <3>1, SeamLeft
  <2> QED BY <1>1, <1>4, <1>5, <1>6, <1>9, <2>1, StreamKept DEF RecvInv
<1>11. RecvTypes'
  BY <1>1, <1>7, <1>8 DEF RecvInv, RecvTypes, ByteSeq
<1>12. missing' <= Len(RecvData') /\ ~(missing' > 0)
  BY <1>1, <1>3, <1>8
<1>13. Filled' \in ByteSeq /\ ioPc' # "init"
  BY <1>1, <1>5, <1>9 DEF ByteSeq
<1> QED BY <1>10, <1>11, <1>12, <1>13 DEF RecvInv

LEMMA WholeStreamNext == AllArrived' => ReceivedStream'
BY WholeStream, PTL

LEMMA RecvLinkUp == RecvInv /\ InitConnects => RecvInv'
<1> SUFFICES ASSUME RecvInv, InitConnects PROVE RecvInv'
  OBVIOUS
<1>1. /\ ioPc = "init" /\ ioPc' = "top" /\ link' = "up"
      /\ UNCHANGED <<missing, RecvData, netIn, consumed, peerSent>>
  BY DEF InitConnects, Goto, inVars
<1>2. NothingYet
  BY <1>1 DEF RecvInv, NothingYet
<1>3. AllArrived'
  BY <1>1, <1>2, NothingMissing DEF AllArrived, Filled
<1>4. ReceivedStream'
  BY <1>3, WholeStreamNext
<1>5. missing' <= Len(RecvData') /\ ~(missing' > 0) /\ Filled' \in ByteSeq
  <2>1. missing = 0 /\ RecvData = << >>
    BY <1>2 DEF NothingYet
  <2>2. Filled' = Filled
    BY <1>1 DEF Filled
  <2> QED BY <1>1, <2>1, <2>2 DEF RecvInv
<1>6. RecvTypes'
  BY <1>1 DEF RecvInv, RecvTypes
<1> QED BY <1>1, <1>4, <1>5, <1>6 DEF RecvInv

LEMMA RecvPeerSends ==
  ASSUME RecvInv, NEW c \in PeerChunk, PeerSends(c)
  PROVE  RecvInv'
<1>1. /\ link = "up" /\ netIn' = netIn \o c /\ peerSent' = peerSent \o c
      /\ UNCHANGED <<missing, RecvData, consumed, link, ioPc,
                     bConnectionError>>
  BY DEF PeerSends, flagVars
<1>2. /\ c \in Seq(Byte) /\ netIn \in Seq(Byte) /\ peerSent \in Seq(Byte)
      /\ consumed \in Seq(Byte) /\ Filled \in Seq(Byte)
      /\ consumed \o Filled \o netIn = peerSent
  BY <1>1, ConstantsAssumption
     DEF RecvInv, RecvTypes, ReceivedStream, NonEmpty, ByteSeq
<1>3. netIn' \in Seq(Byte) /\ peerSent' \in Seq(Byte)
  BY <1>1, <1>2, ConcatProperties
<1>4. Filled' = Filled
  BY <1>1 DEF Filled
<1>5. (consumed \o Filled) \o (netIn \o c) = peerSent \o c
  <2>1. /\ consumed \o Filled \in Seq(Byte)
        /\ netIn \in Seq(Byte) /\ c \in Seq(Byte)
    BY <1>2, ConcatProperties
  <2>2. ((consumed \o Filled) \o netIn) \o c = (consumed \o Filled) \o (netIn \o c)
    BY <2>1, ConcatAssociative
  <2> QED BY <1>2, <2>2
<1>6. AllArrived'
  BY <1>1, <1>3, <1>4, <1>5 DEF AllArrived, ByteSeq
<1>7. ReceivedStream'
  BY <1>6, WholeStreamNext
<1>8. RecvTypes'
  BY <1>1, <1>3 DEF RecvInv, RecvTypes, ByteSeq
<1>9. ioPc' # "init"
  BY <1>1 DEF RecvInv
<1> QED BY <1>1, <1>4, <1>7, <1>8, <1>9 DEF RecvInv

LEMMA RecvLinkBreaks == RecvInv /\ LinkBreaks => RecvInv'
<1> SUFFICES ASSUME RecvInv, LinkBreaks PROVE RecvInv'
  OBVIOUS
<1>1. /\ link = "up" /\ link' = "down" /\ netIn' \in {netIn, << >>}
      /\ UNCHANGED <<missing, RecvData, consumed, peerSent, ioPc,
                     bConnectionError>>
  BY DEF LinkBreaks, flagVars
<1>2. /\ netIn \in Seq(Byte) /\ peerSent \in Seq(Byte)
      /\ consumed \in Seq(Byte) /\ Filled \in Seq(Byte)
      /\ consumed \o Filled \o netIn = peerSent
  BY <1>1 DEF RecvInv, RecvTypes, ReceivedStream, ByteSeq
<1>3. Filled' = Filled
  BY <1>1 DEF Filled
<1>4. ReceivedStream'
  <2> DEFINE got == consumed \o Filled
  <2>1. got \in Seq(Byte) /\ Len(got) \in Nat /\ Len(netIn) \in Nat
    BY <1>2, ConcatProperties, LenProperties
  <2>2. got \o netIn = peerSent
    BY <1>2
  <2> HIDE DEF got
  <2>3. Len(peerSent) = Len(got) + Len(netIn)
    BY <1>2, <2>1, <2>2, ConcatProperties
  <2>4. SubSeq(peerSent, 1, Len(got)) = got
    BY <1>2, <2>1, <2>2, FrontOfConcat
  <2>5. got \o << >> = got
    BY <2>1, ConcatEmptySeq
  <2>6. got' = got
    BY <1>1, <1>3 DEF got
  <2>7. CASE netIn' = netIn
    BY <1>1, <1>3, <2>7, StreamKept DEF RecvInv
  <2>8. CASE netIn' = << >>
    <3>1. (consumed \o Filled \o netIn)' = got
      BY <2>5, <2>6, <2>8 DEF got
    <3>2. peerSent' = peerSent /\ Len(got) <= Len(peerSent)
      BY <1>1, <2>1, <2>3
    <3> QED BY <1>1, <2>4, <3>1, <3>2 DEF ReceivedStream
  <2> QED BY <1>1, <2>7, <2>8
<1>5. netIn' \in Seq(Byte)
  BY <1>1, <1>2, EmptySeq
<1>6. RecvTypes'
  BY <1>1, <1>5 DEF RecvInv, RecvTypes, ByteSeq
<1>7. ioPc' # "init"
  BY <1>1 DEF RecvInv
<1> QED BY <1>1, <1>3, <1>4, <1>6, <1>7 DEF RecvInv

LEMMA RecvStep == RecvInv /\ ErrInv /\ [Next]_vars => RecvInv'
<1> SUFFICES ASSUME RecvInv, ErrInv, [Next]_vars PROVE RecvInv'
  OBVIOUS
<1> USE DEF Goto, flagVars, inVars
<1>1. CASE UNCHANGED vars
  BY <1>1, RecvUnchanged DEF vars
<1>2. CASE Disconnect \/ JoinDone \/ ExecuteTask
  BY <1>2, RecvUnchanged DEF Disconnect, JoinDone, ExecuteTask
<1>3. CASE \E m \in Message : Send(m)
  BY <1>3, RecvUnchanged DEF Send
<1>4. CASE InitFailsSilently \/ InitCannotConnect
  BY <1>4, RecvUnchanged DEF InitFailsSilently, InitCannotConnect
<1>5. CASE RunLoopTop \/ RunPeek \/ RunCheck \/ RunReceived \/ CallbackReturn
  BY <1>5, RecvUnchanged
     DEF RunLoopTop, RunPeek, RunCheck, RunReceived, CallbackReturn
<1>6. CASE SendFails \/ RecvFails
  BY <1>6, RecvUnchanged DEF SendFails, RecvFails
<1>7. CASE \E n \in 1..SockBuf : SendData(n)
  <2>1. PICK n \in 1..SockBuf : SendData(n)
    BY <1>7
  <2> QED BY <2>1, RecvUnchanged DEF SendData
<1>8. CASE Exit \/ PeerReads
  BY <1>8, RecvUnchanged DEF Exit, PeerReads
<1>9. CASE \E n : RecvSome(n) \/ CallbackConsume(n)
  BY <1>9, RecvReads, RecvConsume
<1>10. CASE \E c \in PeerChunk : PeerSends(c)
  BY <1>10, RecvPeerSends
<1> QED BY <1>1, <1>2, <1>3, <1>4, <1>5, <1>6, <1>7, <1>8, <1>9, <1>10,
           RecvConnect, RecvLinkUp, RecvPending, RecvLinkBreaks
        DEF Next, IoThread, IoInit, IoRun

LEMMA ErrInit == Init => ErrInv
BY DEF Init, ErrInv, IoPcs, ErrorPcs

(* The invariants of both streams hold of every reachable state.           *)
THEOREM StreamInvariant == Spec => [](ErrInv /\ SendInv /\ RecvInv)
BY ErrInit, SendInit, RecvInit, ErrStep, SendStep, RecvStep, PTL DEF Spec

-----------------------------------------------------------------------------
(* Types *)

SessionBounds ==
  /\ session \in 0..MaxSessions /\ closer \in 0..MaxSessions
  /\ closedBy \in Seq(0..MaxSessions)

LEMMA BoundsStep == LifeInv /\ SessionBounds /\ [Next]_vars => SessionBounds'
<1> SUFFICES ASSUME LifeInv, SessionBounds, [Next]_vars PROVE SessionBounds'
  OBVIOUS
<1> USE DEF SessionBounds
<1>1. CASE UNCHANGED gameVars
  BY <1>1 DEF gameVars
<1>2. CASE Connect
  <2>1. /\ session < MaxSessions /\ session' = session + 1
        /\ UNCHANGED <<closer, closedBy>>
    BY <1>2 DEF Connect
  <2>2. session' \in 0..MaxSessions
    BY <2>1, ConstantsAssumption
  <2> QED BY <2>1, <2>2
<1>3. CASE Disconnect
  <2>1. closer' = 0 /\ UNCHANGED <<session, closedBy>>
    BY <1>3 DEF Disconnect, StopAndJoin, User
  <2> QED BY <2>1, ConstantsAssumption
<1>4. CASE JoinDone
  <2>1. closedBy' = Append(closedBy, closer) /\ UNCHANGED <<session, closer>>
    BY <1>4 DEF JoinDone
  <2> QED BY <2>1
<1>5. CASE ExecuteTask
  <2>1. CASE StopAndJoin(Head(gameTasks).session)
    <3>1. Head(gameTasks) = gameTasks[1] /\ 1 \in 1..Len(gameTasks)
      BY <1>5 DEF ExecuteTask, LifeInv, LifeTypes
    <3>2. Head(gameTasks).session \in 1..session
      BY <3>1 DEF LifeInv, Notices
    <3>3. /\ closer' = Head(gameTasks).session
          /\ UNCHANGED <<session, closedBy>>
      BY <2>1 DEF StopAndJoin
    <3>4. closer' \in 0..MaxSessions
      BY <3>2, <3>3, ConstantsAssumption
    <3> QED BY <3>3, <3>4
  <2>2. CASE UNCHANGED gameVars
    BY <1>1, <2>2
  <2> QED BY <1>5, <2>1, <2>2 DEF ExecuteTask
<1>6. CASE IoInit
  BY <1>6 DEF IoInit, InitFailsSilently, InitCannotConnect, InitConnects
<1>7. CASE IoRun \/ Exit
  <2>1. UNCHANGED gameVars
    BY <1>7 DEF IoRun, RunLoopTop, RunPeek, SendData, SendFails, RunCheck,
                RunPending, RecvSome, RecvFails, RunReceived, CallbackConsume,
                CallbackReturn, Exit
  <2> QED BY <1>1, <2>1
<1>8. CASE \/ PeerReads \/ LinkBreaks
           \/ \E m \in Message : Send(m)
           \/ \E c \in PeerChunk : PeerSends(c)
  BY <1>1, <1>8 DEF PeerReads, LinkBreaks, Send, PeerSends
<1>9. CASE UNCHANGED vars
  BY <1>1, <1>9 DEF vars
<1> QED BY <1>2, <1>3, <1>4, <1>5, <1>6, <1>7, <1>8, <1>9
        DEF Next, IoThread

LEMMA BoundsInvariant == Spec => []SessionBounds
<1>1. Init => SessionBounds
  <2> SUFFICES ASSUME Init PROVE SessionBounds
    OBVIOUS
  <2>1. session = 0 /\ closer = 0 /\ closedBy = << >>
    BY DEF Init, User
  <2> QED BY <2>1, ConstantsAssumption DEF SessionBounds
<1> QED BY <1>1, BoundsStep, LifeInvariant, PTL DEF Spec

LEMMA NoticeTypes ==
  LifeInv /\ SessionBounds
    => gameTasks \in Seq([kind : TaskKinds, session : 1..MaxSessions])
<1> SUFFICES ASSUME LifeInv, SessionBounds
             PROVE  gameTasks \in Seq([kind : TaskKinds, session : 1..MaxSessions])
  OBVIOUS
<1>1. gameTasks \in Seq([kind : TaskKinds, session : Nat])
  BY DEF LifeInv, LifeTypes
<1>2. ASSUME NEW i \in 1..Len(gameTasks)
      PROVE  gameTasks[i] \in [kind : TaskKinds, session : 1..MaxSessions]
  <2>1. gameTasks[i] \in [kind : TaskKinds, session : Nat]
    BY <1>1, ElementOfSeq
  <2>2. gameTasks[i].session \in 1..session
    BY DEF LifeInv, Notices
  <2>3. gameTasks[i].session \in 1..MaxSessions
    BY <2>2, ConstantsAssumption DEF SessionBounds
  <2> QED BY <2>1, <2>3
<1>3. 1 \in Int /\ Len(gameTasks) \in Int
  BY <1>1, LenProperties
<1>4. SubSeq(gameTasks, 1, Len(gameTasks))
        \in Seq([kind : TaskKinds, session : 1..MaxSessions])
  BY <1>2, <1>3, SubSeqProperties
<1> QED BY <1>1, <1>4, SubSeqFull

(* Every variable keeps its type; in particular the callback never takes a *)
(* cell of RecvData that Recv has not filled.                              *)
THEOREM TypeOKThm == Spec => []TypeOK
<1>1. LifeInv /\ SessionBounds /\ SendInv /\ RecvInv => TypeOK
  <2> SUFFICES ASSUME LifeInv, SessionBounds, SendInv, RecvInv PROVE TypeOK
    OBVIOUS
  <2>1. /\ gamePc \in GamePcs /\ runnable \in BOOLEAN /\ ioPc \in IoPcs
        /\ bManuallyStop \in BOOLEAN /\ bConnectionError \in BOOLEAN
    BY DEF LifeInv, LifeTypes
  <2>2. gameTasks \in Seq([kind : TaskKinds, session : 1..MaxSessions])
    BY NoticeTypes
  <2>3. /\ unsent \in ByteSeq /\ partial \in ByteSeq /\ window \in 0..SockBuf
        /\ SendBuffer \in Seq(Message) /\ accepted \in Seq(Message)
        /\ delivered \in Seq(Message)
    BY DEF SendInv
  <2>4. /\ missing \in Nat /\ RecvData \in Seq(Byte \cup {Unfilled})
        /\ netIn \in ByteSeq /\ peerSent \in ByteSeq /\ consumed \in ByteSeq
        /\ link \in {"none", "up", "down"}
    BY DEF RecvInv, RecvTypes, Cell
  <2> QED BY <2>1, <2>2, <2>3, <2>4 DEF TypeOK, SessionBounds
<1> QED BY <1>1, LifeInvariant, BoundsInvariant, StreamInvariant, PTL

-----------------------------------------------------------------------------
(* No message given to Send is lost, repeated or overtaken on its way to   *)
(* the socket, however Send cuts it.                                       *)
THEOREM SendStreamThm == Spec => []SendStream
<1>1. SendInv => SendStream
  BY DEF SendInv
<1> QED BY <1>1, StreamInvariant, PTL

(* A stopped connection leaves the peer no half message.                   *)
THEOREM HalfMessageThm == Spec => []HalfMessageOnlyOnError
<1>1. SendInv => HalfMessageOnlyOnError
  BY DEF SendInv, HalfMessageOnlyOnError
<1> QED BY <1>1, StreamInvariant, PTL

(* What the callback is given is what the peer wrote, without a gap,       *)
(* however Recv cuts it and whatever the callback leaves behind.           *)
THEOREM ReceivedStreamThm == Spec => []ReceivedStream
<1>1. RecvInv => ReceivedStream
  BY DEF RecvInv
<1> QED BY <1>1, StreamInvariant, PTL

-----------------------------------------------------------------------------
(* TcpSocket implements ByteSession: the life cycle, the two streams and   *)
(* the threads that carry them, seen together by the two who use the       *)
(* connection.                                                             *)

(* The socket is connected only while the thread runs.                     *)
LinkWithThread == link # "none" => ioPc \notin {"init", "done"}

LEMMA LinkStep == LifeInv /\ RecvInv /\ LinkWithThread /\ [Next]_vars => LinkWithThread'
<1> SUFFICES ASSUME LifeInv, RecvInv, LinkWithThread, [Next]_vars
             PROVE  LinkWithThread'
  OBVIOUS
<1> USE DEF LinkWithThread
<1>1. CASE Connect
  BY <1>1 DEF Connect
<1>2. CASE Disconnect \/ JoinDone \/ ExecuteTask \/ \E m \in Message : Send(m)
  BY <1>2 DEF Disconnect, JoinDone, ExecuteTask, Send
<1>3. CASE IoInit
  <2>1. ioPc = "init" /\ link = "none"
    BY <1>3 DEF IoInit, InitFailsSilently, InitCannotConnect, InitConnects,
                Goto, RecvInv
  <2> QED BY <1>3, <2>1 DEF IoInit, InitFailsSilently, InitCannotConnect,
                            InitConnects, Goto
<1>4. CASE IoRun
  <2>1. CASE RunLoopTop \/ RunCheck \/ RunReceived \/ CallbackReturn
    BY <2>1 DEF RunLoopTop, RunCheck, RunReceived, CallbackReturn, Goto
  <2>2. CASE RunPeek \/ RunPending \/ SendFails \/ RecvFails
    BY <2>2 DEF RunPeek, RunPending, SendFails, RecvFails, Goto
  <2>3. CASE \E n \in 1..SockBuf : SendData(n)
    BY <2>3 DEF SendData
  <2>4. CASE \E n : RecvSome(n) \/ CallbackConsume(n)
    BY <2>4 DEF RecvSome, CallbackConsume
  <2> QED BY <1>4, <2>1, <2>2, <2>3, <2>4 DEF IoRun
<1>5. CASE Exit
  BY <1>5 DEF Exit
<1>6. CASE PeerReads \/ LinkBreaks \/ \E c \in PeerChunk : PeerSends(c)
  BY <1>6 DEF PeerReads, LinkBreaks, PeerSends
<1>7. CASE UNCHANGED vars
  BY <1>7 DEF vars
<1> QED BY <1>1, <1>2, <1>3, <1>4, <1>5, <1>6, <1>7 DEF Next, IoThread

SessionInv == LifeInv /\ ErrInv /\ SendInv /\ RecvInv /\ LinkWithThread

LEMMA SessionInvariant == Spec => []SessionInv
<1>1. Init => LinkWithThread
  BY DEF Init, LinkWithThread
<1>2. Spec => []LinkWithThread
  BY <1>1, LinkStep, LifeInvariant, StreamInvariant, PTL DEF Spec
<1> QED BY <1>2, LifeInvariant, StreamInvariant, PTL DEF SessionInv

(* With a message that has gone out whole, the next one given is taken.    *)
LEMMA SessionTake ==
  ASSUME SessionInv, NEW n \in 1..SockBuf, SendData(n)
  PROVE  [Session!Next]_Session!vars
<1>1. /\ ioPc = "send" /\ runnable
      /\ UNCHANGED <<session, runnable, accepted, peerSent, consumed>>
  BY DEF SendData, SessionInv, LifeInv, Threads, gameVars, inVars
<1>2. CASE n < Len(unsent)
  BY <1>1, <1>2 DEF SendData, Session!vars
<1>3. CASE ~(n < Len(unsent))
  <2>1. delivered' = Append(delivered, partial \o unsent)
    BY <1>3 DEF SendData
  <2>2. /\ delivered \in Seq(Message) /\ SendBuffer \in Seq(Message)
        /\ delivered \o SendBuffer = accepted
        /\ SendBuffer # << >> /\ Head(SendBuffer) = partial \o unsent
    BY <1>1 DEF SessionInv, SendInv, SendStream
  <2>3. /\ Len(delivered) \in Nat /\ Len(SendBuffer) \in Nat \ {0}
        /\ Head(SendBuffer) = SendBuffer[1]
    BY <2>2, EmptySeq
  <2>4. /\ Len(accepted) = Len(delivered) + Len(SendBuffer)
        /\ accepted[Len(delivered) + 1] = SendBuffer[1]
    <3>1. /\ Len(delivered \o SendBuffer) = Len(delivered) + Len(SendBuffer)
          /\ \A i \in 1..Len(delivered) + Len(SendBuffer) :
               (delivered \o SendBuffer)[i]
                 = IF i <= Len(delivered) THEN delivered[i]
                   ELSE SendBuffer[i - Len(delivered)]
      BY <2>2, ConcatProperties
    <3>2. /\ Len(delivered) + 1 \in 1..Len(delivered) + Len(SendBuffer)
          /\ ~(Len(delivered) + 1 <= Len(delivered))
          /\ Len(delivered) + 1 - Len(delivered) = 1
      BY <2>3
    <3> QED BY <2>2, <3>1, <3>2
  <2>5. Len(delivered) < Len(accepted)
    BY <2>3, <2>4
  <2>6. Session!Take
    BY <1>1, <2>1, <2>2, <2>3, <2>4, <2>5 DEF Session!Take
  <2> QED BY <2>6 DEF Session!Next
<1> QED BY <1>2, <1>3

LEMMA ThreeParts ==
  ASSUME NEW S, NEW a \in Seq(S), NEW b \in Seq(S), NEW c \in Seq(S)
  PROVE  a \o b \o c = a \o (b \o c)
BY ConcatAssociative

(* What the upper layer removes is the next of what the peer wrote.        *)
LEMMA SessionRead ==
  ASSUME SessionInv, RecvInv', NEW n \in 1..Len(RecvData), CallbackConsume(n)
  PROVE  [Session!Next]_Session!vars
<1>1. /\ ioPc = "deliver" /\ runnable
      /\ UNCHANGED <<session, runnable, accepted, delivered, peerSent>>
      /\ consumed' = consumed \o SubSeq(RecvData, 1, n)
  BY DEF CallbackConsume, SessionInv, LifeInv, Threads, gameVars, outVars
<1>2. /\ consumed \in ByteSeq /\ consumed' \in ByteSeq
      /\ peerSent \in ByteSeq /\ Filled' \in ByteSeq /\ netIn' \in ByteSeq
      /\ RecvData \in Seq(Cell)
  BY <1>1 DEF SessionInv, RecvInv, RecvTypes
<1>3. Len(consumed') = Len(consumed) + n
  <2>1. /\ SubSeq(RecvData, 1, n) \in Seq(Cell)
        /\ Len(SubSeq(RecvData, 1, n)) = n
    <3>1. n \in 0..Len(RecvData)
      BY <1>2, LenProperties
    <3> QED BY <1>2, <3>1, SplitAt
  <2>2. consumed \in Seq(Cell)
    BY <1>2 DEF ByteSeq, Cell
  <2> QED BY <1>1, <2>1, <2>2, ConcatProperties
<1> DEFINE m == Len(consumed')
           rest == Filled' \o netIn'
<1>4. consumed' = SubSeq(peerSent, 1, m) /\ m <= Len(peerSent)
  <2>1. rest \in ByteSeq /\ Len(rest) \in Nat
    BY <1>2, ConcatProperties, LenProperties DEF ByteSeq
  <2>2. consumed' \o Filled' \o netIn' = consumed' \o rest
    <3>1. /\ consumed' \in Seq(Byte) /\ Filled' \in Seq(Byte)
          /\ netIn' \in Seq(Byte)
      BY <1>2 DEF ByteSeq
    <3> QED BY <3>1, ThreeParts
  <2>3. /\ Len(consumed' \o rest) <= Len(peerSent)
        /\ consumed' \o rest = SubSeq(peerSent, 1, Len(consumed' \o rest))
    BY <1>1, <2>2 DEF RecvInv, ReceivedStream
  <2>4. Len(consumed' \o rest) = m + Len(rest)
    BY <1>2, <2>1, ConcatProperties DEF ByteSeq
  <2>5. m \in Nat /\ Len(peerSent) \in Nat
    BY <1>2, LenProperties DEF ByteSeq
  <2>6. m \in 0..Len(peerSent) /\ m + Len(rest) \in 0..Len(peerSent)
    BY <2>1, <2>3, <2>4, <2>5
  <2>7. consumed' = SubSeq(consumed' \o rest, 1, m)
    BY <1>2, <2>1, FrontOfConcat DEF ByteSeq
  <2>8. SubSeq(SubSeq(peerSent, 1, m + Len(rest)), 1, m) = SubSeq(peerSent, 1, m)
    <3> DEFINE k == m + Len(rest)
               t == SubSeq(peerSent, 1, k)
    <3>1. /\ t \in Seq(Byte) /\ Len(t) = k
      BY <1>2, <2>6, SplitAt DEF ByteSeq
    <3>2. /\ SubSeq(t, 1, m) \in Seq(Byte) /\ Len(SubSeq(t, 1, m)) = m
          /\ SubSeq(peerSent, 1, m) \in Seq(Byte)
          /\ Len(SubSeq(peerSent, 1, m)) = m
      <4>1. m \in 0..Len(t)
        BY <2>1, <2>5, <3>1
      <4>2. peerSent \in Seq(Byte)
        BY <1>2 DEF ByteSeq
      <4> HIDE DEF t, k, m
      <4> QED BY <2>6, <3>1, <4>1, <4>2, SplitAt
    <3>3. \A i \in 1..m : SubSeq(t, 1, m)[i] = SubSeq(peerSent, 1, m)[i]
      <4>1. peerSent \in Seq(Byte) /\ k \in Nat /\ m <= k /\ k <= Len(peerSent)
        BY <1>2, <2>1, <2>5, <2>6 DEF ByteSeq
      <4> QED BY <2>5, <3>1, <4>1
    <3> QED BY <2>5, <3>2, <3>3, SeqEqual
  <2> QED BY <2>3, <2>4, <2>6, <2>7, <2>8
<1>5. m \in Len(consumed) + 1..Len(peerSent)
  BY <1>2, <1>3, <1>4, LenProperties DEF ByteSeq
<1>6. Session!Read
  BY <1>1, <1>4, <1>5 DEF Session!Read
<1> QED BY <1>6 DEF Session!Next

LEMMA SessionStep ==
  SessionInv /\ RecvInv' /\ [Next]_vars => [Session!Next]_Session!vars
<1> SUFFICES ASSUME SessionInv, RecvInv', [Next]_vars
             PROVE  [Session!Next]_Session!vars
  OBVIOUS
<1>1. CASE Connect
  <2>1. Session!Open
    BY <1>1 DEF Connect, Session!Open
  <2> QED BY <2>1 DEF Session!Next
<1>2. CASE \E m \in Message : Send(m)
  <2>1. Session!Give
    BY <1>2 DEF Send, Session!Give, gameVars, outVars, inVars
  <2> QED BY <2>1 DEF Session!Next
<1>3. CASE JoinDone
  <2>1. runnable
    BY <1>3 DEF JoinDone, SessionInv, LifeInv, Threads
  <2>2. Session!Close
    BY <1>3, <2>1 DEF JoinDone, Session!Close, outVars, inVars
  <2> QED BY <2>2 DEF Session!Next
<1>4. CASE Disconnect \/ ExecuteTask
  BY <1>4 DEF Disconnect, ExecuteTask, StopAndJoin, gameVars, outVars, inVars,
              Session!vars
<1>5. CASE IoInit \/ Exit
  BY <1>5 DEF IoInit, InitFailsSilently, InitCannotConnect, InitConnects, Exit,
              gameVars, outVars, inVars, Session!vars
<1>6. CASE IoRun
  <2>1. CASE RunLoopTop \/ RunCheck \/ RunReceived \/ CallbackReturn
    BY <2>1 DEF RunLoopTop, RunCheck, RunReceived, CallbackReturn, gameVars,
                outVars, inVars, Session!vars
  <2>2. CASE RunPeek \/ RunPending \/ SendFails \/ RecvFails
    BY <2>2 DEF RunPeek, RunPending, SendFails, RecvFails, gameVars, outVars,
                inVars, Session!vars
  <2>3. CASE \E n \in 1..missing : RecvSome(n)
    BY <2>3 DEF RecvSome, gameVars, outVars, Session!vars
  <2> QED BY <1>6, <2>1, <2>2, <2>3, SessionTake, SessionRead DEF IoRun
<1>7. CASE PeerReads \/ LinkBreaks
  BY <1>7 DEF PeerReads, LinkBreaks, gameVars, outVars, inVars, Session!vars
<1>8. CASE \E c \in PeerChunk : PeerSends(c)
  <2>1. runnable
    BY <1>8 DEF PeerSends, SessionInv, LinkWithThread, LifeInv, Threads
  <2>2. Session!Write
    BY <1>8, <2>1 DEF PeerSends, Session!Write, gameVars, outVars
  <2> QED BY <2>2 DEF Session!Next
<1>9. CASE UNCHANGED vars
  BY <1>9 DEF vars, gameVars, outVars, inVars, Session!vars
<1> QED BY <1>1, <1>2, <1>3, <1>4, <1>5, <1>6, <1>7, <1>8, <1>9
           DEF Next, IoThread

(* The two threads, their buffers and their notices are, for those who use *)
(* the connection, a ByteSession: whatever the cuts and the interleaving.  *)
THEOREM SessionThm == Spec => ImplementsByteSession
<1>1. Init => Session!Init
  BY DEF Init, Session!Init
<1>2. SessionInv => RecvInv
  BY DEF SessionInv
<1> QED BY <1>1, <1>2, SessionInvariant, SessionStep, PTL
           DEF Spec, ImplementsByteSession, Session!Spec

=============================================================================
