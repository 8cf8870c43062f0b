------------------------------ MODULE TcpSocket ------------------------------
(***************************************************************************)
(* The client's TCP connection: FTCPSocket, the facade the game thread     *)
(* calls (Network/TcpSocket.cpp), and FTCPSocketRunnable, the object its   *)
(* IO thread runs (Network/TcpSocketRunnable.cpp).                         *)
(*                                                                         *)
(* Two threads interleave.  They share SendBuffer (a single-producer,      *)
(* single-consumer queue of messages), RecvData (a byte array),            *)
(* bManuallyStop (an atomic flag) and the game thread's task queue, to     *)
(* which the IO thread posts its notices.  The engine (thread creation and *)
(* join, task queue), the kernel socket and the peer are external: they    *)
(* are modelled from how the code uses them.                               *)
(*                                                                         *)
(* A message is a non-empty sequence of bytes; what a byte is does not     *)
(* matter here.                                                            *)
(***************************************************************************)
EXTENDS Integers, Sequences, FiniteSets

CONSTANTS Byte,         \* the bytes that travel
          Unfilled,     \* a cell of RecvData SetNum added and Recv has not written
          Message,      \* the byte arrays Send may be given
          PeerChunk,    \* the byte sequences the peer may write at once
          SockBuf,      \* bytes the kernel holds that the peer has not read
          MaxSessions,  \* bound: how often Connect makes a runnable
          MaxOut,       \* bound: messages Send takes in one session
          MaxIn         \* bound: bytes the peer writes in one session

ByteSeq == Seq(Byte)
NonEmpty(S) == {s \in S : s # << >>}

ASSUME ConstantsAssumption ==
  /\ Unfilled \notin Byte
  /\ Message \subseteq NonEmpty(ByteSeq)
  /\ PeerChunk \subseteq NonEmpty(ByteSeq)
  /\ SockBuf \in Nat \ {0}
  /\ MaxSessions \in Nat /\ MaxOut \in Nat /\ MaxIn \in Nat

VARIABLES
  gamePc,          \* the game thread: "idle", or blocked "creating" or "joining"
  runnable,        \* SocketRunnablePtr.IsValid()
  session,         \* ghost: how many runnables Connect has made
  closer,          \* ghost: whose Disconnect is joining, User or a session's task
  closedBy,        \* ghost: closedBy[s] is who ran the Disconnect that ended s
  gameTasks        \* AsyncTask(GameThread): the notices not yet executed

VARIABLES
  ioPc,            \* the IO thread; "done" when there is no such thread
  bManuallyStop,
  bConnectionError,
  unsent,          \* Buffer from SendedCount on, while the IO thread sends it
  missing,         \* PendingDataSize - BytesReadTotal, while it receives
  SendBuffer,
  RecvData

VARIABLES
  link,            \* the connection: "none", "up" or "down"
  window,          \* bytes the kernel has taken and the peer has not read
  netIn,           \* bytes the peer has written and Recv has not returned
  accepted,        \* ghost: messages Send has taken in this session
  delivered,       \* ghost: messages the socket has taken whole
  partial,         \* ghost: what the socket has taken of the next one
  peerSent,        \* ghost: bytes the peer has written in this session
  consumed         \* ghost: bytes the callback has removed from RecvData

gameVars == <<gamePc, runnable, session, closer, closedBy>>
outVars  == <<unsent, delivered, partial, window>>
inVars   == <<missing, RecvData, netIn, consumed>>
flagVars == <<bManuallyStop, bConnectionError>>
vars == <<gameVars, gameTasks, ioPc, flagVars, outVars, SendBuffer, accepted,
          inVars, link, peerSent>>

User == 0
GamePcs == {"idle", "creating", "joining"}
IoPcs == {"init", "top", "peek", "send", "check", "pending", "recv",
          "received", "deliver", "exit", "done"}
TaskKinds == {"connected", "disconnect"}

Task(kind, s) == [kind |-> kind, session |-> s]
TaskQueued(t) == \E i \in 1..Len(gameTasks) : gameTasks[i] = t

(* What Recv has written of RecvData, and what SetNum has added to it.     *)
Filled == SubSeq(RecvData, 1, Len(RecvData) - missing)
NewCells(n) == [i \in 1..n |-> Unfilled]

Goto(from, to) == ioPc = from /\ ioPc' = to
Post(kind) == gameTasks' = Append(gameTasks, Task(kind, session))

-----------------------------------------------------------------------------
(* Mistakes the properties below would show, each a variant of the action  *)
(* it is named after.  Spec uses none of them.                             *)

StopAndJoinForgetsStop(who) ==
  /\ bManuallyStop' = bManuallyStop
  /\ gamePc' = "joining" /\ closer' = who
  /\ UNCHANGED <<runnable, session, closedBy>>

JoinDoneWithoutWaiting ==
  /\ gamePc = "joining"
  /\ gamePc' = "idle" /\ runnable' = FALSE
  /\ closedBy' = Append(closedBy, closer)
  /\ UNCHANGED <<session, closer, gameTasks, ioPc, flagVars, outVars,
                 SendBuffer, accepted, inVars, link, peerSent>>

ExecuteTaskUnconditionally ==
  /\ gamePc = "idle" /\ gameTasks # << >>
  /\ gameTasks' = Tail(gameTasks)
  /\ IF Head(gameTasks).kind = "disconnect"
       THEN /\ bManuallyStop' = TRUE
            /\ gamePc' = "joining" /\ closer' = Head(gameTasks).session
            /\ UNCHANGED <<runnable, session, closedBy>>
       ELSE UNCHANGED <<gameVars, bManuallyStop>>
  /\ UNCHANGED <<ioPc, bConnectionError, outVars, SendBuffer, accepted,
                 inVars, link, peerSent>>

SendDataStopsHalfway(n) ==
  /\ ioPc = "send" /\ link = "up"
  /\ n \in 1..Len(unsent) /\ n <= SockBuf - window
  /\ window' = window + n
  /\ unsent' = SubSeq(unsent, n + 1, Len(unsent))
  /\ IF n < Len(unsent)
       THEN /\ partial' = partial \o SubSeq(unsent, 1, n)
            /\ ioPc' = IF bManuallyStop THEN "check" ELSE "send"
            /\ UNCHANGED <<SendBuffer, delivered>>
       ELSE /\ partial' = << >>
            /\ delivered' = Append(delivered, partial \o unsent)
            /\ SendBuffer' = Tail(SendBuffer)
            /\ ioPc' = "peek"
  /\ UNCHANGED <<gameVars, gameTasks, flagVars, accepted, inVars, link,
                 peerSent>>

SendFailsAndPops ==
  /\ link = "down"
  /\ Goto("send", "check")
  /\ bConnectionError' = TRUE
  /\ SendBuffer' = Tail(SendBuffer)
  /\ UNCHANGED <<gameVars, gameTasks, bManuallyStop, outVars, accepted,
                 inVars, link, peerSent>>

SendFailsAndReports ==
  /\ link = "down"
  /\ Goto("send", "check") /\ Post("disconnect")
  /\ bConnectionError' = TRUE
  /\ UNCHANGED <<gameVars, bManuallyStop, outVars, SendBuffer, accepted,
                 inVars, link, peerSent>>

InitReportsConnectedAnyway ==
  /\ Goto("init", "done") /\ gamePc' = "idle"
  /\ gameTasks' = gameTasks \o <<Task("disconnect", session), Task("connected", session)>>
  /\ UNCHANGED <<runnable, session, closer, closedBy, flagVars, outVars,
                 SendBuffer, accepted, inVars, link, peerSent>>

RunPendingOverwrites ==
  /\ IF netIn = << >>
       THEN Goto("pending", "top") /\ UNCHANGED <<missing, RecvData>>
       ELSE /\ Goto("pending", "recv")
            /\ missing' = Len(netIn)
            /\ RecvData' = NewCells(Len(netIn))
  /\ UNCHANGED <<gameVars, gameTasks, flagVars, outVars, SendBuffer, accepted,
                 netIn, consumed, link, peerSent>>

RunPendingBlocks ==
  /\ netIn # << >>
  /\ Goto("pending", "recv")
  /\ missing' = Len(netIn)
  /\ RecvData' = RecvData \o NewCells(Len(netIn))
  /\ UNCHANGED <<gameVars, gameTasks, flagVars, outVars, SendBuffer, accepted,
                 netIn, consumed, link, peerSent>>

RunReceivedUnguarded ==
  /\ Goto("received", "deliver")
  /\ UNCHANGED <<gameVars, gameTasks, flagVars, outVars, SendBuffer, accepted,
                 inVars, link, peerSent>>

ExitSilently ==
  /\ Goto("exit", "done") /\ link' = "none"
  /\ UNCHANGED <<gameVars, gameTasks, flagVars, outVars, SendBuffer, accepted,
                 inVars, peerSent>>

-----------------------------------------------------------------------------
(* The game thread *)

Init ==
  /\ gamePc = "idle" /\ runnable = FALSE
  /\ session = 0 /\ closer = User /\ closedBy = << >>
  /\ gameTasks = << >>
  /\ ioPc = "done" /\ bManuallyStop = FALSE /\ bConnectionError = FALSE
  /\ unsent = << >> /\ missing = 0
  /\ SendBuffer = << >> /\ RecvData = << >>
  /\ link = "none" /\ window = 0 /\ netIn = << >>
  /\ accepted = << >> /\ delivered = << >> /\ partial = << >>
  /\ peerSent = << >> /\ consumed = << >>

(* FTCPSocket::Connect: nothing when a runnable exists; else both buffers  *)
(* are emptied, a new runnable is made and FRunnableThread::Create blocks  *)
(* until the new thread has run Init.                                      *)
Connect ==
  /\ gamePc = "idle" /\ ~runnable
  /\ session < MaxSessions
  /\ gamePc' = "creating" /\ runnable' = TRUE /\ session' = session + 1
  /\ ioPc' = "init" /\ bManuallyStop' = FALSE /\ bConnectionError' = FALSE
  /\ SendBuffer' = << >> /\ RecvData' = << >>
  /\ unsent' = << >> /\ missing' = 0
  /\ link' = "none" /\ window' = 0 /\ netIn' = << >>
  /\ accepted' = << >> /\ delivered' = << >> /\ partial' = << >>
  /\ peerSent' = << >> /\ consumed' = << >>
  /\ UNCHANGED <<closer, closedBy, gameTasks>>

(* FTCPSocket::Send: queued while a runnable exists, whatever became of    *)
(* its thread; dropped otherwise.                                          *)
Send(m) ==
  /\ gamePc = "idle" /\ runnable
  /\ Len(accepted) < MaxOut
  /\ SendBuffer' = Append(SendBuffer, m)
  /\ accepted' = Append(accepted, m)
  /\ UNCHANGED <<gameVars, gameTasks, ioPc, flagVars, outVars, inVars, link,
                 peerSent>>

(* FTCPSocket::Disconnect up to WaitForCompletion: stop the runnable, then *)
(* block.  who is User, or the session whose error notice runs it.         *)
StopAndJoin(who) ==
  /\ bManuallyStop' = TRUE
  /\ gamePc' = "joining" /\ closer' = who
  /\ UNCHANGED <<runnable, session, closedBy>>

Disconnect ==
  /\ gamePc = "idle" /\ runnable
  /\ StopAndJoin(User)
  /\ UNCHANGED <<gameTasks, ioPc, bConnectionError, outVars, SendBuffer,
                 accepted, inVars, link, peerSent>>

(* The rest of Disconnect, once the IO thread has ended: both pointers are *)
(* reset and DisconnectedDelegate runs.                                    *)
JoinDone ==
  /\ gamePc = "joining" /\ ioPc = "done"
  /\ gamePc' = "idle" /\ runnable' = FALSE
  /\ closedBy' = Append(closedBy, closer)
  /\ UNCHANGED <<session, closer, gameTasks, ioPc, flagVars, outVars,
                 SendBuffer, accepted, inVars, link, peerSent>>

(* The engine runs the oldest task on the game thread.  A connected notice *)
(* runs ConnectDelegate; an error notice runs Disconnect on the FTCPSocket *)
(* as it now is, for the lambda holds no session.                          *)
ExecuteTask ==
  /\ gamePc = "idle" /\ gameTasks # << >>
  /\ gameTasks' = Tail(gameTasks)
  /\ IF Head(gameTasks).kind = "disconnect" /\ runnable
       THEN StopAndJoin(Head(gameTasks).session)
       ELSE UNCHANGED <<gameVars, bManuallyStop>>
  /\ UNCHANGED <<ioPc, bConnectionError, outVars, SendBuffer, accepted,
                 inVars, link, peerSent>>

-----------------------------------------------------------------------------
(* The IO thread: FTCPSocketRunnable *)

(* Init without a socket, or with a host name that does not resolve: it    *)
(* returns false and tells nobody.  Run and Exit are not called.           *)
InitFailsSilently ==
  /\ Goto("init", "done") /\ gamePc' = "idle"
  /\ UNCHANGED <<runnable, session, closer, closedBy, gameTasks, flagVars,
                 outVars, SendBuffer, accepted, inVars, link, peerSent>>

(* Init whose SocketPtr->Connect fails: it posts the error notice.         *)
InitCannotConnect ==
  /\ Goto("init", "done") /\ gamePc' = "idle"
  /\ Post("disconnect")
  /\ UNCHANGED <<runnable, session, closer, closedBy, flagVars, outVars,
                 SendBuffer, accepted, inVars, link, peerSent>>

InitConnects ==
  /\ Goto("init", "top") /\ gamePc' = "idle"
  /\ Post("connected")
  /\ link' = "up"
  /\ UNCHANGED <<runnable, session, closer, closedBy, flagVars, outVars,
                 SendBuffer, accepted, inVars, peerSent>>

(* What GetConnectionState may answer: a broken link may still look        *)
(* connected; a link that can be neither read nor written for five seconds *)
(* may look unconnected.                                                   *)
MayLookConnected == link \in {"up", "down"}
MayLookUnconnected == link = "down" \/ (window = SockBuf /\ netIn = << >>)

(* The test at the end of Run's loop body, then the loop condition.        *)
RunLoopTop ==
  /\ \/ /\ bManuallyStop \/ bConnectionError
        /\ Goto("top", "exit")
     \/ /\ ~bManuallyStop /\ ~bConnectionError /\ MayLookUnconnected
        /\ Goto("top", "exit")
     \/ /\ ~bManuallyStop /\ ~bConnectionError /\ MayLookConnected
        /\ Goto("top", "peek")
  /\ UNCHANGED <<gameVars, gameTasks, flagVars, outVars, SendBuffer, accepted,
                 inVars, link, peerSent>>

(* The condition of the sending loop; Peek copies the oldest message.      *)
RunPeek ==
  /\ IF ~bManuallyStop /\ ~bConnectionError /\ SendBuffer # << >>
       THEN Goto("peek", "send") /\ unsent' = Head(SendBuffer)
       ELSE Goto("peek", "check") /\ unsent' = unsent
  /\ UNCHANGED <<gameVars, gameTasks, flagVars, delivered, partial, window,
                 SendBuffer, accepted, inVars, link, peerSent>>

(* One blocking SocketPtr->Send that took n bytes; with the last of them   *)
(* the message is popped.                                                  *)
SendData(n) ==
  /\ ioPc = "send" /\ link = "up"
  /\ n \in 1..Len(unsent) /\ n <= SockBuf - window
  /\ window' = window + n
  /\ unsent' = SubSeq(unsent, n + 1, Len(unsent))
  /\ IF n < Len(unsent)
       THEN /\ partial' = partial \o SubSeq(unsent, 1, n)
            /\ UNCHANGED <<ioPc, SendBuffer, delivered>>
       ELSE /\ partial' = << >>
            /\ delivered' = Append(delivered, partial \o unsent)
            /\ SendBuffer' = Tail(SendBuffer)
            /\ ioPc' = "peek"
  /\ UNCHANGED <<gameVars, gameTasks, flagVars, accepted, inVars, link,
                 peerSent>>

(* SocketPtr->Send fails on a broken link; the message stays queued.       *)
SendFails ==
  /\ link = "down"
  /\ Goto("send", "check")
  /\ bConnectionError' = TRUE
  /\ UNCHANGED <<gameVars, gameTasks, bManuallyStop, outVars, SendBuffer,
                 accepted, inVars, link, peerSent>>

(* The test between sending and receiving.                                 *)
RunCheck ==
  /\ Goto("check", IF bManuallyStop \/ bConnectionError THEN "exit" ELSE "pending")
  /\ UNCHANGED <<gameVars, gameTasks, flagVars, outVars, SendBuffer, accepted,
                 inVars, link, peerSent>>

(* HasPendingData; when some is, SetNum makes room for all of it.          *)
RunPending ==
  /\ IF netIn = << >>
       THEN Goto("pending", "top") /\ UNCHANGED <<missing, RecvData>>
       ELSE /\ Goto("pending", "recv")
            /\ missing' = Len(netIn)
            /\ RecvData' = RecvData \o NewCells(Len(netIn))
  /\ UNCHANGED <<gameVars, gameTasks, flagVars, outVars, SendBuffer, accepted,
                 netIn, consumed, link, peerSent>>

(* One SocketPtr->Recv that returned n bytes.                              *)
RecvSome(n) ==
  /\ ioPc = "recv" /\ n \in 1..missing /\ n <= Len(netIn)
  /\ RecvData' = Filled \o SubSeq(netIn, 1, n) \o NewCells(missing - n)
  /\ netIn' = SubSeq(netIn, n + 1, Len(netIn))
  /\ missing' = missing - n
  /\ ioPc' = IF n < missing THEN "recv" ELSE "received"
  /\ UNCHANGED <<gameVars, gameTasks, flagVars, outVars, SendBuffer, accepted,
                 consumed, link, peerSent>>

(* SocketPtr->Recv fails on a broken link; the unfilled cells stay.        *)
RecvFails ==
  /\ link = "down"
  /\ Goto("recv", "received")
  /\ bConnectionError' = TRUE
  /\ UNCHANGED <<gameVars, gameTasks, bManuallyStop, outVars, SendBuffer,
                 accepted, inVars, link, peerSent>>

(* The guard of NewDataReceivedDelegate.                                   *)
RunReceived ==
  /\ Goto("received",
          IF ~bManuallyStop /\ ~bConnectionError THEN "deliver" ELSE "top")
  /\ UNCHANGED <<gameVars, gameTasks, flagVars, outVars, SendBuffer, accepted,
                 inVars, link, peerSent>>

(* ReceivedMessageDelegate runs on the IO thread, owns RecvData meanwhile, *)
(* removes bytes from its front and returns.                               *)
CallbackConsume(n) ==
  /\ ioPc = "deliver" /\ n \in 1..Len(RecvData)
  /\ consumed' = consumed \o SubSeq(RecvData, 1, n)
  /\ RecvData' = SubSeq(RecvData, n + 1, Len(RecvData))
  /\ UNCHANGED <<gameVars, gameTasks, ioPc, flagVars, outVars, SendBuffer,
                 accepted, missing, netIn, link, peerSent>>

CallbackReturn ==
  /\ Goto("deliver", "top")
  /\ UNCHANGED <<gameVars, gameTasks, flagVars, outVars, SendBuffer, accepted,
                 inVars, link, peerSent>>

(* FTCPSocketRunnable::Exit: an error is reported unless a Stop came first,*)
(* and the socket is closed.                                               *)
Exit ==
  /\ Goto("exit", "done")
  /\ IF bConnectionError /\ ~bManuallyStop
       THEN Post("disconnect")
       ELSE UNCHANGED gameTasks
  /\ link' = "none"
  /\ UNCHANGED <<gameVars, flagVars, outVars, SendBuffer, accepted, inVars,
                 peerSent>>

-----------------------------------------------------------------------------
(* The peer and the network *)

PeerReads ==
  /\ link = "up" /\ window > 0
  /\ window' = window - 1
  /\ UNCHANGED <<gameVars, gameTasks, ioPc, flagVars, unsent, delivered,
                 partial, SendBuffer, accepted, inVars, link, peerSent>>

PeerSends(c) ==
  /\ link = "up" /\ Len(peerSent) + Len(c) <= MaxIn
  /\ netIn' = netIn \o c
  /\ peerSent' = peerSent \o c
  /\ UNCHANGED <<gameVars, gameTasks, ioPc, flagVars, outVars, SendBuffer,
                 accepted, missing, RecvData, consumed, link>>

(* The connection breaks; what has arrived may be discarded with it.       *)
LinkBreaks ==
  /\ link = "up" /\ link' = "down"
  /\ netIn' \in {netIn, << >>}
  /\ UNCHANGED <<gameVars, gameTasks, ioPc, flagVars, outVars, SendBuffer,
                 accepted, missing, RecvData, consumed, peerSent>>

-----------------------------------------------------------------------------
IoInit == InitFailsSilently \/ InitCannotConnect \/ InitConnects
IoRun == \/ RunLoopTop \/ RunPeek \/ SendFails \/ RunCheck \/ RunPending
         \/ RecvFails \/ RunReceived \/ CallbackReturn
         \/ \E n \in 1..SockBuf : SendData(n)
         \/ \E n \in 1..missing : RecvSome(n)
         \/ \E n \in 1..Len(RecvData) : CallbackConsume(n)
IoThread == IoInit \/ IoRun \/ Exit

Next ==
  \/ Connect \/ Disconnect \/ JoinDone \/ ExecuteTask
  \/ \E m \in Message : Send(m)
  \/ IoThread
  \/ PeerReads \/ LinkBreaks
  \/ \E c \in PeerChunk : PeerSends(c)

(* The operating system schedules the IO thread; the engine's loop drains  *)
(* its task queue and a thread whose wait is over goes on.  Users, the     *)
(* peer and the network owe nothing.                                       *)
Fairness == WF_vars(IoThread) /\ WF_vars(ExecuteTask) /\ WF_vars(JoinDone)

Spec == Init /\ [][Next]_vars /\ Fairness

-----------------------------------------------------------------------------
(* Properties *)

(* Types.  consumed \in ByteSeq also says that the upper layer never takes *)
(* a cell Recv did not fill: the guard before NewDataReceivedDelegate must *)
(* hold against the cells a failed Recv leaves in RecvData.                *)
TypeOK ==
  /\ gamePc \in GamePcs /\ runnable \in BOOLEAN
  /\ session \in 0..MaxSessions
  /\ closer \in 0..MaxSessions /\ closedBy \in Seq(0..MaxSessions)
  /\ gameTasks \in Seq([kind : TaskKinds, session : 1..MaxSessions])
  /\ ioPc \in IoPcs
  /\ bManuallyStop \in BOOLEAN /\ bConnectionError \in BOOLEAN
  /\ unsent \in ByteSeq /\ missing \in Nat
  /\ SendBuffer \in Seq(Message)
  /\ RecvData \in Seq(Byte \cup {Unfilled})
  /\ link \in {"none", "up", "down"}
  /\ window \in 0..SockBuf /\ netIn \in ByteSeq
  /\ accepted \in Seq(Message) /\ delivered \in Seq(Message)
  /\ partial \in ByteSeq /\ peerSent \in ByteSeq /\ consumed \in ByteSeq


(* A connection that is not there has no thread, so Connect may empty      *)
(* SendBuffer and RecvData, which the IO thread otherwise consumes and     *)
(* fills: the game thread is the consumer only when there is no other.     *)
NoOrphanIoThread == ~runnable => ioPc = "done"

(* Every connection ends with exactly one DisconnectedDelegate call,       *)
(* whichever of the user and the error notices asked for it, in whatever   *)
(* order.                                                                  *)
DisconnectedOncePerSession ==
  Len(closedBy) = IF runnable THEN session - 1 ELSE session

(* An error notice that outlives its connection (and will hit the next)    *)
(* means that something else than this notice closed its connection.       *)
LateNoticeOnlyAfterOtherClose ==
  \A i \in 1..Len(gameTasks) :
    LET t == gameTasks[i]
    IN  t.kind = "disconnect" /\ t.session <= Len(closedBy)
          => closedBy[t.session] # t.session

(* The error notice carries no session, so it can tear down a connection   *)
(* it does not belong to; that takes a user who disconnected by hand while *)
(* a notice was queued: the first connection that did not end by its own   *)
(* error was ended by the user.                                            *)
ForeignTeardownNeedsUserDisconnect ==
  \A s \in 1..Len(closedBy) :
    (closedBy[s] # s /\ \A u \in 1..s-1 : closedBy[u] = u)
      => closedBy[s] = User

(* An IO thread that died of a Send or Recv error has told the game        *)
(* thread: the notice that will tear the connection down is still queued.  *)
ErrorAlwaysReported ==
  (gamePc = "idle" /\ runnable /\ ioPc = "done" /\ bConnectionError)
    => TaskQueued(Task("disconnect", session))

(* What the socket has taken, then what is half sent, then what is queued  *)
(* are the messages given to Send, in order: none is lost, repeated or     *)
(* overtaken while the connection lives.                                   *)
SendStream ==
  /\ delivered \o SendBuffer = accepted
  /\ ioPc = "send" \/ partial # << >> =>
       SendBuffer # << >> /\ Head(SendBuffer) = partial \o unsent

(* Only a failed Send leaves the kernel with half a message for the peer:  *)
(* Stop lets the one in hand go to it whole.  What of it the peer reads is *)
(* the network's.                                                          *)
HalfMessageOnlyOnError ==
  ioPc = "done" /\ ~bConnectionError => partial = << >>

(* What the callback has removed, what RecvData holds and what the kernel  *)
(* holds are what the peer wrote, in order and without a gap.              *)
ReceivedStream ==
  LET arrived == consumed \o Filled \o netIn
  IN  /\ Len(arrived) <= Len(peerSent)
      /\ arrived = SubSeq(peerSent, 1, Len(arrived))
      /\ link = "up" => arrived = peerSent

(* ConnectDelegate(true) is a task as well, so it can come after the end   *)
(* of its connection, or during the next one.  Only somebody else than     *)
(* this connection's own error notice can have ended it then: the notices  *)
(* of one connection run in order.                                         *)
LateConnectedOnlyAfterOtherClose ==
  \A i \in 1..Len(gameTasks) :
    LET t == gameTasks[i]
    IN  t.kind = "connected" /\ t.session <= Len(closedBy)
          => closedBy[t.session] # t.session

(* The two threads, the buffers and the notices together are a ByteSession *)
(* for the two who use it: what the socket has taken, and what the upper   *)
(* layer has removed from RecvData, grow in order, only while the          *)
(* connection is open, and start again with the next.                      *)
Session == INSTANCE ByteSession WITH
  Piece <- PeerChunk,
  number <- session, open <- runnable,
  given <- accepted, taken <- delivered,
  written <- peerSent, read <- consumed

ImplementsByteSession == Session!Spec

(* The socket cannot take the message in hand: the peer does not read.     *)
SendBlocked == ioPc = "send" /\ link = "up" /\ window = SockBuf

(* Disconnect's join ends, unless the blocking Send it waits for never     *)
(* does (the sending loop does not look at bManuallyStop).                 *)
DisconnectReturns == gamePc = "joining" ~> (gamePc = "idle" \/ SendBlocked)

(* A Send or Recv error ends the connection it happened on.                *)
ErrorTearsDown ==
  \A s \in 1..MaxSessions :
    (session = s /\ runnable /\ bConnectionError)
      ~> ~(session = s /\ runnable)

(* A queued message leaves the queue unless the IO thread is gone or the   *)
(* peer does not read.                                                     *)
SendProgress ==
  SendBuffer # << >> ~> (SendBuffer = << >> \/ ioPc = "done" \/ SendBlocked)

=============================================================================
