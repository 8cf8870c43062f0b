--------------------------- MODULE TcpSocketProofs ---------------------------
(***************************************************************************)
(* Theorems about TcpSocket, for every choice of bytes, messages, buffer   *)
(* size and bounds.                                                        *)
(*                                                                         *)
(* The lifecycle (who closes which connection, and when a thread exists)   *)
(* depends on the control state alone, so it has an inductive invariant of *)
(* its own, LifeInv.                                                       *)
(***************************************************************************)
EXTENDS TcpSocket, TLAPS

ErrorNotice(i) == gameTasks[i].kind = "disconnect"

LifeTypes ==
  /\ gamePc \in GamePcs /\ runnable \in BOOLEAN
  /\ session \in Nat /\ closer \in Nat /\ closedBy \in Seq(Nat)
  /\ gameTasks \in Seq([kind : TaskKinds, session : Nat])
  /\ ioPc \in IoPcs
  /\ bManuallyStop \in BOOLEAN /\ bConnectionError \in BOOLEAN

(* Who exists and who waits for whom.                                      *)
Threads ==
  /\ ~runnable => (ioPc = "done" /\ gamePc = "idle")
  /\ gamePc = "creating" <=> ioPc = "init"
  /\ ioPc = "init" => ~bConnectionError
  /\ runnable => session > 0 /\ (bManuallyStop <=> gamePc = "joining")
  /\ Len(closedBy) = IF runnable THEN session - 1 ELSE session

(* The queued error notices: at most one of each connection, none of one   *)
(* whose thread still runs, none of a connection that its notice closed.   *)
Notices ==
  /\ \A i \in 1..Len(gameTasks) : gameTasks[i].session \in 1..session
  /\ \A i, j \in 1..Len(gameTasks) :
       ErrorNotice(i) /\ ErrorNotice(j)
         /\ gameTasks[i].session = gameTasks[j].session => i = j
  /\ ioPc # "done" =>
       \A i \in 1..Len(gameTasks) :
         ErrorNotice(i) => gameTasks[i].session # session
  /\ \A i \in 1..Len(gameTasks) :
       ErrorNotice(i) /\ gameTasks[i].session <= Len(closedBy)
         => closedBy[gameTasks[i].session] # gameTasks[i].session

(* What is known of the Disconnect in progress.                            *)
Closing ==
  gamePc = "joining" =>
    /\ closer \in 0..session
    /\ closer \notin {User, session} => closedBy[closer] # closer
    /\ \A i \in 1..Len(gameTasks) :
         ErrorNotice(i) => gameTasks[i].session # closer

(* A foreign notice closed a connection only after its own connection had  *)
(* been closed by another.                                                 *)
Closed ==
  \A s \in 1..Len(closedBy) :
    closedBy[s] \notin {User, s} =>
      closedBy[s] \in 1..s-1 /\ closedBy[closedBy[s]] # closedBy[s]

LifeInv == LifeTypes /\ Threads /\ Notices /\ Closing /\ Closed
             /\ ErrorAlwaysReported

USE DEF User

LEMMA LifeInit == Init => LifeInv
<1> SUFFICES ASSUME Init PROVE LifeInv
  OBVIOUS
<1>1. /\ gamePc = "idle" /\ runnable = FALSE /\ session = 0 /\ closer = 0
      /\ closedBy = << >> /\ gameTasks = << >> /\ ioPc = "done"
      /\ bManuallyStop = FALSE /\ bConnectionError = FALSE
  BY DEF Init
<1>2. Len(closedBy) = 0 /\ Len(gameTasks) = 0
  BY <1>1
<1>3. LifeTypes
  <2>1. closedBy \in Seq(Nat)
    BY <1>1
  <2>2. gameTasks \in Seq([kind : TaskKinds, session : Nat])
    BY <1>1
  <2>3. session \in Nat /\ closer \in Nat
    BY <1>1
  <2>4. gamePc \in GamePcs /\ ioPc \in IoPcs
    BY <1>1 DEF GamePcs, IoPcs
  <2>5. runnable \in BOOLEAN /\ bManuallyStop \in BOOLEAN
          /\ bConnectionError \in BOOLEAN
    BY <1>1
  <2> QED BY <2>1, <2>2, <2>3, <2>4, <2>5 DEF LifeTypes
<1>4. Threads /\ ErrorAlwaysReported
  BY <1>1, <1>2 DEF Threads, ErrorAlwaysReported
<1>5. Notices /\ Closing /\ Closed
  BY <1>1, <1>2 DEF Notices, Closing, Closed
<1> QED BY <1>3, <1>4, <1>5 DEF LifeInv

Running == IoPcs \ {"init", "done"}

(* A step of the IO thread inside Run touches none of this.                *)
LEMMA LifeRunStep ==
  ASSUME LifeInv, ioPc \in Running, ioPc' \in Running,
         bConnectionError' \in BOOLEAN,
         UNCHANGED <<gameVars, gameTasks, bManuallyStop>>
  PROVE  LifeInv'
BY DEF LifeInv, LifeTypes, Threads, Notices, Closing, Closed, ErrorNotice,
       ErrorAlwaysReported, TaskQueued, Running, gameVars, IoPcs

(* Nor does what happens outside the two threads, nor Send.                *)
LEMMA LifeOutside ==
  ASSUME LifeInv, UNCHANGED <<gameVars, gameTasks, flagVars, ioPc>>
  PROVE  LifeInv'
BY DEF LifeInv, LifeTypes, Threads, Notices, Closing, Closed, ErrorNotice,
       ErrorAlwaysReported, TaskQueued, flagVars, gameVars

LEMMA LifeConnect == LifeInv /\ Connect => LifeInv'
<1> SUFFICES ASSUME LifeInv, Connect PROVE LifeInv'
  OBVIOUS
<1>1. /\ gamePc = "idle" /\ ~runnable
      /\ gamePc' = "creating" /\ runnable' = TRUE /\ session' = session + 1
      /\ ioPc' = "init" /\ bManuallyStop' = FALSE
      /\ bConnectionError' = FALSE
      /\ UNCHANGED <<closer, closedBy, gameTasks>>
  BY DEF Connect
<1>2. LifeTypes'
  <2>1. session' \in Nat /\ gamePc' \in GamePcs /\ ioPc' \in IoPcs
    BY <1>1 DEF LifeInv, LifeTypes, GamePcs, IoPcs
  <2>2. closedBy' \in Seq(Nat) /\ closer' \in Nat
          /\ gameTasks' \in Seq([kind : TaskKinds, session : Nat])
    BY <1>1 DEF LifeInv, LifeTypes
  <2>3. runnable' \in BOOLEAN /\ bManuallyStop' \in BOOLEAN
          /\ bConnectionError' \in BOOLEAN
    BY <1>1
  <2> QED BY <2>1, <2>2, <2>3 DEF LifeTypes
<1>3. Threads'
  BY <1>1 DEF LifeInv, LifeTypes, Threads
<1>4. Notices'
  BY <1>1 DEF LifeInv, LifeTypes, Threads, Notices, ErrorNotice
<1>5. Closing' /\ Closed'
  BY <1>1 DEF LifeInv, Closing, Closed
<1>6. ErrorAlwaysReported'
  BY <1>1 DEF ErrorAlwaysReported
<1> QED BY <1>2, <1>3, <1>4, <1>5, <1>6 DEF LifeInv

LEMMA LifeStopAndJoin ==
  ASSUME LifeInv, gamePc = "idle", runnable, NEW who \in 0..session,
         StopAndJoin(who), UNCHANGED <<ioPc, bConnectionError>>,
         gameTasks' \in Seq([kind : TaskKinds, session : Nat]),
         Notices',
         \A i \in 1..Len(gameTasks') :
           ErrorNotice(i)' => gameTasks'[i].session # who,
         who \notin {User, session} => closedBy[who] # who
  PROVE  LifeInv'
<1> USE DEF LifeInv, StopAndJoin
<1>1. LifeTypes' /\ Threads'
  BY DEF LifeTypes, Threads, GamePcs
<1>2. Closing' /\ Closed'
  BY DEF Closing, Closed, ErrorNotice
<1>3. ErrorAlwaysReported'
  BY DEF ErrorAlwaysReported
<1> QED BY <1>1, <1>2, <1>3

LEMMA LifeDisconnect == LifeInv /\ Disconnect => LifeInv'
<1> SUFFICES ASSUME LifeInv, Disconnect PROVE LifeInv'
  OBVIOUS
<1>1. Notices'
  BY DEF LifeInv, Notices, Disconnect, StopAndJoin, ErrorNotice
<1>2. \A i \in 1..Len(gameTasks') :
        ErrorNotice(i)' => gameTasks'[i].session # 0
  BY DEF LifeInv, LifeTypes, Notices, Disconnect, ErrorNotice
<1>3. 0 \in 0..session
  BY DEF LifeInv, LifeTypes
<1> QED
  BY <1>1, <1>2, <1>3, LifeStopAndJoin DEF Disconnect, LifeInv, LifeTypes

LEMMA LifeJoinDone == LifeInv /\ JoinDone => LifeInv'
<1> SUFFICES ASSUME LifeInv, JoinDone PROVE LifeInv'
  OBVIOUS
<1> USE DEF LifeInv, JoinDone
<1>1. runnable /\ Len(closedBy) = session - 1 /\ session \in Nat \ {0}
  BY DEF LifeTypes, Threads
<1>2. LifeTypes'
  <2>1. closedBy' \in Seq(Nat)
    BY DEF LifeTypes
  <2>2. runnable' \in BOOLEAN /\ bManuallyStop' \in BOOLEAN
          /\ bConnectionError' \in BOOLEAN
    BY DEF LifeTypes, flagVars
  <2> QED BY <2>1, <2>2 DEF LifeTypes, GamePcs
<1>3. /\ Len(closedBy') = session
      /\ closedBy'[session] = closer
      /\ \A s \in 1..session-1 : closedBy'[s] = closedBy[s]
  BY <1>1 DEF LifeTypes
<1>4. Threads'
  BY <1>1, <1>3 DEF LifeTypes, Threads
<1>5. Notices'
  BY <1>1, <1>3 DEF LifeTypes, Notices, Closing, ErrorNotice
<1>6. Closing' /\ ErrorAlwaysReported'
  BY DEF Closing, ErrorAlwaysReported
<1>7. Closed'
  <2> SUFFICES ASSUME NEW s \in 1..session, closedBy'[s] \notin {0, s}
               PROVE  /\ closedBy'[s] \in 1..s-1
                      /\ closedBy'[closedBy'[s]] # closedBy'[s]
    BY <1>3 DEF Closed
  <2>1. CASE s = session
    BY <2>1, <1>1, <1>3 DEF Closing, LifeTypes
  <2>2. CASE s < session
    BY <2>2, <1>1, <1>3 DEF Closed, LifeTypes
  <2> QED BY <2>1, <2>2, <1>1
<1> QED BY <1>2, <1>4, <1>5, <1>6, <1>7

(* The notices that stay when the oldest is taken.                         *)
LEMMA LifeTakeNotice ==
  ASSUME LifeInv, gameTasks # << >>, gameTasks' = Tail(gameTasks),
         UNCHANGED <<session, ioPc, closedBy>>
  PROVE  /\ gameTasks' \in Seq([kind : TaskKinds, session : Nat])
         /\ Notices'
         /\ \A i \in 1..Len(gameTasks') : gameTasks'[i] = gameTasks[i + 1]
         /\ Len(gameTasks') = Len(gameTasks) - 1
         /\ 1 \in 1..Len(gameTasks) /\ Head(gameTasks) = gameTasks[1]
<1>1. gameTasks \in Seq([kind : TaskKinds, session : Nat])
  BY DEF LifeInv, LifeTypes
<1>2. /\ gameTasks' \in Seq([kind : TaskKinds, session : Nat])
      /\ Len(gameTasks') = Len(gameTasks) - 1
      /\ \A i \in 1..Len(gameTasks') : gameTasks'[i] = gameTasks[i + 1]
      /\ 1 \in 1..Len(gameTasks) /\ Head(gameTasks) = gameTasks[1]
  BY <1>1
<1>3. \A i \in 1..Len(gameTasks') : i + 1 \in 1..Len(gameTasks)
  BY <1>1, <1>2
<1>4. Notices'
  BY <1>2, <1>3 DEF LifeInv, Notices, ErrorNotice
<1> QED BY <1>2, <1>4

LEMMA LifeExecuteTask == LifeInv /\ ExecuteTask => LifeInv'
<1> SUFFICES ASSUME LifeInv, ExecuteTask PROVE LifeInv'
  OBVIOUS
<1> DEFINE t == Head(gameTasks)
<1>1. UNCHANGED <<session, ioPc, closedBy, bConnectionError>>
  BY DEF ExecuteTask, StopAndJoin, gameVars
<1>2. /\ gameTasks' \in Seq([kind : TaskKinds, session : Nat])
      /\ Notices'
      /\ \A i \in 1..Len(gameTasks') : gameTasks'[i] = gameTasks[i + 1]
      /\ Len(gameTasks') = Len(gameTasks) - 1
      /\ 1 \in 1..Len(gameTasks) /\ t = gameTasks[1]
  BY <1>1, LifeTakeNotice DEF ExecuteTask
<1>3. CASE t.kind = "disconnect" /\ runnable
  <2>1. t.session \in 1..session
    BY <1>2 DEF LifeInv, Notices
  <2>2. StopAndJoin(t.session) /\ gamePc = "idle"
    BY <1>3 DEF ExecuteTask
  <2>3. \A i \in 1..Len(gameTasks') :
          ErrorNotice(i)' => gameTasks'[i].session # t.session
    <3> SUFFICES ASSUME NEW i \in 1..Len(gameTasks'), ErrorNotice(i)',
                        gameTasks'[i].session = t.session
                 PROVE  FALSE
      OBVIOUS
    <3>1. i + 1 \in 1..Len(gameTasks) /\ i + 1 # 1
      BY <1>2 DEF LifeInv, LifeTypes
    <3>2. ErrorNotice(i + 1) /\ ErrorNotice(1)
      BY <1>2, <1>3 DEF ErrorNotice
    <3>3. gameTasks[i + 1].session = gameTasks[1].session
      BY <1>2
    <3> QED BY <1>2, <3>1, <3>2, <3>3 DEF LifeInv, Notices
  <2>4. t.session # session => closedBy[t.session] # t.session
    <3>1. t.session # session => t.session <= Len(closedBy)
      BY <1>3, <2>1 DEF LifeInv, LifeTypes, Threads
    <3> QED BY <1>2, <1>3, <3>1 DEF LifeInv, Notices, ErrorNotice
  <2>5. t.session \in 0..session
    BY <2>1 DEF LifeInv, LifeTypes
  <2> QED
    BY <1>1, <1>2, <1>3, <2>2, <2>3, <2>4, <2>5, LifeStopAndJoin
<1>4. CASE ~(t.kind = "disconnect" /\ runnable)
  <2>1. UNCHANGED <<gameVars, bManuallyStop>> /\ gamePc = "idle"
    BY <1>4 DEF ExecuteTask
  <2>2. LifeTypes' /\ Threads' /\ Closing' /\ Closed'
    BY <1>1, <1>2, <2>1 DEF LifeInv, LifeTypes, Threads, Closing, Closed,
                            gameVars
  <2>3. ErrorAlwaysReported'
    <3> SUFFICES ASSUME runnable, ioPc = "done", bConnectionError
                 PROVE  TaskQueued(Task("disconnect", session))'
      BY <1>1, <2>1 DEF ErrorAlwaysReported, gameVars
    <3>1. PICK i \in 1..Len(gameTasks) :
            gameTasks[i] = Task("disconnect", session)
      BY <2>1 DEF LifeInv, ErrorAlwaysReported, TaskQueued
    <3>2. i # 1
      BY <1>2, <1>4, <3>1 DEF Task
    <3>3. i - 1 \in 1..Len(gameTasks')
      BY <1>2, <3>1, <3>2 DEF LifeInv, LifeTypes
    <3>4. gameTasks'[i - 1] = gameTasks[(i - 1) + 1]
      BY <1>2, <3>3
    <3>5. (i - 1) + 1 = i
      BY <3>1
    <3> QED BY <1>1, <3>1, <3>3, <3>4, <3>5 DEF TaskQueued, Task
  <2> QED BY <1>2, <2>2, <2>3 DEF LifeInv
<1> QED BY <1>3, <1>4

(* The notices when the IO thread posts one.                               *)
LEMMA LifePost ==
  ASSUME LifeInv, runnable, ioPc # "done", NEW kind \in TaskKinds, Post(kind),
         UNCHANGED <<session, closedBy>>,
         kind = "disconnect" => ioPc' = "done"
  PROVE  /\ gameTasks' \in Seq([kind : TaskKinds, session : Nat])
         /\ Notices'
         /\ Len(gameTasks') = Len(gameTasks) + 1
         /\ gameTasks'[Len(gameTasks')] = Task(kind, session)
         /\ \A i \in 1..Len(gameTasks) : gameTasks'[i] = gameTasks[i]
<1>1. /\ gameTasks \in Seq([kind : TaskKinds, session : Nat])
      /\ session \in Nat /\ session > 0
      /\ Len(closedBy) = session - 1
  BY DEF LifeInv, LifeTypes, Threads
<1>2. Task(kind, session) \in [kind : TaskKinds, session : Nat]
  BY <1>1 DEF Task
<1>3. /\ gameTasks' \in Seq([kind : TaskKinds, session : Nat])
      /\ Len(gameTasks') = Len(gameTasks) + 1
      /\ gameTasks'[Len(gameTasks')] = Task(kind, session)
      /\ \A i \in 1..Len(gameTasks) : gameTasks'[i] = gameTasks[i]
  BY <1>1, <1>2 DEF Post
<1> DEFINE n == Len(gameTasks')
<1>4. \A i \in 1..n : i = n \/ i \in 1..Len(gameTasks)
  BY <1>1, <1>3
<1>5. gameTasks'[n].kind = kind /\ gameTasks'[n].session = session
  BY <1>3 DEF Task
<1>6. \A i \in 1..n : gameTasks'[i].session \in 1..session'
  BY <1>1, <1>3, <1>4, <1>5 DEF LifeInv, Notices
<1>7. \A i, j \in 1..n :
        ErrorNotice(i)' /\ ErrorNotice(j)'
          /\ gameTasks'[i].session = gameTasks'[j].session => i = j
  BY <1>3, <1>4, <1>5 DEF LifeInv, Notices, ErrorNotice
<1>8. ioPc' # "done" =>
        \A i \in 1..n : ErrorNotice(i)' => gameTasks'[i].session # session'
  BY <1>3, <1>4, <1>5 DEF LifeInv, Notices, ErrorNotice, TaskKinds
<1>9. ASSUME NEW i \in 1..n, ErrorNotice(i)',
             gameTasks'[i].session <= Len(closedBy')
      PROVE  closedBy'[gameTasks'[i].session] # gameTasks'[i].session
  <2>1. i # n
    BY <1>1, <1>5, <1>9
  <2>2. i \in 1..Len(gameTasks) /\ gameTasks'[i] = gameTasks[i]
    BY <1>3, <1>4, <2>1
  <2> QED BY <1>9, <2>2 DEF LifeInv, Notices, ErrorNotice
<1> QED BY <1>3, <1>6, <1>7, <1>8, <1>9 DEF Notices

LEMMA LifeIoInit == LifeInv /\ IoInit => LifeInv'
<1> SUFFICES ASSUME LifeInv, IoInit PROVE LifeInv'
  OBVIOUS
<1>1. /\ ioPc = "init" /\ gamePc = "creating" /\ runnable
      /\ gamePc' = "idle" /\ ioPc' \in {"done", "top"}
      /\ UNCHANGED <<runnable, session, closer, closedBy, flagVars>>
  BY DEF IoInit, InitFailsSilently, InitCannotConnect, InitConnects, Goto,
         LifeInv, Threads
<1>2. /\ gameTasks' \in Seq([kind : TaskKinds, session : Nat])
      /\ Notices'
  <2>1. CASE InitFailsSilently
    <3>1. UNCHANGED gameTasks /\ ioPc' = "done"
      BY <2>1 DEF InitFailsSilently, Goto
    <3> QED BY <1>1, <3>1 DEF LifeInv, LifeTypes, Notices, ErrorNotice
  <2>2. CASE InitCannotConnect
    <3>1. Post("disconnect") /\ ioPc' = "done"
      BY <2>2 DEF InitCannotConnect, Goto
    <3> QED BY <1>1, <3>1, LifePost DEF TaskKinds
  <2>3. CASE InitConnects
    <3>1. Post("connected") /\ ioPc' = "top"
      BY <2>3 DEF InitConnects, Goto
    <3> QED BY <1>1, <3>1, LifePost DEF TaskKinds
  <2> QED BY <2>1, <2>2, <2>3 DEF IoInit
<1>3. LifeTypes' /\ Threads' /\ Closing' /\ Closed'
  BY <1>1, <1>2 DEF LifeInv, LifeTypes, Threads, Closing, Closed, GamePcs,
                    IoPcs, flagVars
<1>4. ErrorAlwaysReported'
  BY <1>1 DEF LifeInv, Threads, ErrorAlwaysReported, flagVars
<1> QED BY <1>2, <1>3, <1>4 DEF LifeInv

LEMMA LifeExit == LifeInv /\ Exit => LifeInv'
<1> SUFFICES ASSUME LifeInv, Exit PROVE LifeInv'
  OBVIOUS
<1>1. /\ ioPc = "exit" /\ ioPc' = "done" /\ runnable
      /\ UNCHANGED <<gameVars, flagVars>>
  BY DEF Exit, Goto, LifeInv, Threads
<1>2. CASE bConnectionError /\ ~bManuallyStop
  <2>1. Post("disconnect")
    BY <1>2 DEF Exit
  <2>2. /\ gameTasks' \in Seq([kind : TaskKinds, session : Nat])
        /\ Notices'
        /\ Len(gameTasks') = Len(gameTasks) + 1
        /\ gameTasks'[Len(gameTasks')] = Task("disconnect", session)
    BY <1>1, <2>1, LifePost DEF TaskKinds, gameVars
  <2>3. Len(gameTasks') \in 1..Len(gameTasks')
    BY <2>2 DEF LifeInv, LifeTypes
  <2>4. ErrorAlwaysReported'
    BY <1>1, <2>2, <2>3 DEF ErrorAlwaysReported, TaskQueued, Task, gameVars
  <2>5. LifeTypes' /\ Threads' /\ Closed'
    BY <1>1, <2>2 DEF LifeInv, LifeTypes, Threads, Closed, IoPcs, gameVars,
                      flagVars
  <2>6. Closing'
    BY <1>1, <1>2 DEF LifeInv, Threads, Closing, gameVars
  <2> QED BY <2>2, <2>4, <2>5, <2>6 DEF LifeInv
<1>3. CASE ~(bConnectionError /\ ~bManuallyStop)
  <2>1. UNCHANGED gameTasks
    BY <1>3 DEF Exit
  <2>2. ErrorAlwaysReported'
    BY <1>1, <1>3 DEF LifeInv, Threads, ErrorAlwaysReported, gameVars,
                      flagVars
  <2> QED BY <1>1, <2>1, <2>2 DEF LifeInv, LifeTypes, Threads, Notices,
             Closing, Closed, ErrorNotice, IoPcs, gameVars, flagVars
<1> QED BY <1>2, <1>3

LEMMA LifeIoRun == LifeInv /\ IoRun => LifeInv'
<1> SUFFICES ASSUME LifeInv, IoRun PROVE LifeInv'
  OBVIOUS
<1>1. /\ ioPc \in Running /\ ioPc' \in Running
      /\ bConnectionError' \in BOOLEAN
      /\ UNCHANGED <<gameVars, gameTasks, bManuallyStop>>
  <2> USE DEF Running, IoPcs, Goto, flagVars, LifeInv, LifeTypes
  <2>1. CASE RunLoopTop \/ RunCheck \/ RunReceived \/ CallbackReturn
    BY <2>1 DEF RunLoopTop, RunCheck, RunReceived, CallbackReturn
  <2>2. CASE RunPeek \/ RunPending
    BY <2>2 DEF RunPeek, RunPending
  <2>3. CASE SendFails \/ RecvFails
    BY <2>3 DEF SendFails, RecvFails
  <2>4. CASE \E n \in 1..SockBuf : SendData(n)
    BY <2>4 DEF SendData
  <2>5. CASE \E n : RecvSome(n) \/ CallbackConsume(n)
    BY <2>5 DEF RecvSome, CallbackConsume
  <2> QED BY <2>1, <2>2, <2>3, <2>4, <2>5 DEF IoRun
<1> QED BY <1>1, LifeRunStep

THEOREM LifeStep == LifeInv /\ [Next]_vars => LifeInv'
<1> SUFFICES ASSUME LifeInv, [Next]_vars PROVE LifeInv'
  OBVIOUS
<1>1. CASE IoThread
  BY <1>1, LifeIoInit, LifeIoRun, LifeExit DEF IoThread
<1>2. CASE UNCHANGED vars
  BY <1>2, LifeOutside DEF vars, gameVars, flagVars
<1>3. CASE \E m \in Message : Send(m)
  BY <1>3, LifeOutside DEF Send
<1>4. CASE PeerReads \/ LinkBreaks \/ \E c \in PeerChunk : PeerSends(c)
  BY <1>4, LifeOutside DEF PeerReads, LinkBreaks, PeerSends
<1> QED BY <1>1, <1>2, <1>3, <1>4, LifeConnect, LifeDisconnect, LifeJoinDone,
           LifeExecuteTask DEF Next

(* LifeInv holds of every state TcpSocket reaches.                         *)
THEOREM LifeInvariant == Spec => []LifeInv
BY LifeInit, LifeStep, PTL DEF Spec

-----------------------------------------------------------------------------
(* Whatever the interleaving of user, notices and IO thread, no thread is  *)
(* left behind by a connection that is gone.                               *)
THEOREM NoOrphanThm == Spec => []NoOrphanIoThread
<1>1. LifeInv => NoOrphanIoThread
  BY DEF LifeInv, Threads, NoOrphanIoThread
<1> QED BY <1>1, LifeInvariant, PTL

(* Every connection is closed exactly once.                                *)
THEOREM ClosedOnceThm == Spec => []DisconnectedOncePerSession
<1>1. LifeInv => DisconnectedOncePerSession
  BY DEF LifeInv, Threads, DisconnectedOncePerSession
<1> QED BY <1>1, LifeInvariant, PTL

(* A notice outlives its connection only when another closed it.           *)
THEOREM LateNoticeThm == Spec => []LateNoticeOnlyAfterOtherClose
<1>1. LifeInv => LateNoticeOnlyAfterOtherClose
  BY DEF LifeInv, Notices, ErrorNotice, LateNoticeOnlyAfterOtherClose
<1> QED BY <1>1, LifeInvariant, PTL

(* A notice tears down a foreign connection only after the user has        *)
(* disconnected by hand.                                                   *)
THEOREM ForeignTeardownThm == Spec => []ForeignTeardownNeedsUserDisconnect
<1>1. LifeInv => ForeignTeardownNeedsUserDisconnect
  BY DEF LifeInv, Closed, ForeignTeardownNeedsUserDisconnect
<1> QED BY <1>1, LifeInvariant, PTL

(* A Send or Recv error that ended the IO thread is known to the game      *)
(* thread or waits in its queue.                                           *)
THEOREM ErrorReportedThm == Spec => []ErrorAlwaysReported
<1>1. LifeInv => ErrorAlwaysReported
  BY DEF LifeInv
<1> QED BY <1>1, LifeInvariant, PTL

-----------------------------------------------------------------------------
(* The connected notices *)

ConnectedNotice(i) == gameTasks[i].kind = "connected"

(* A connection's connected notice is queued before its error notice, and  *)
(* is gone when that one runs.                                             *)
ConnectedFirst ==
  /\ \A i, j \in 1..Len(gameTasks) :
       i < j /\ ErrorNotice(i) /\ ConnectedNotice(j)
         => gameTasks[i].session # gameTasks[j].session
  /\ gamePc = "joining" =>
       \A i \in 1..Len(gameTasks) :
         ConnectedNotice(i) => gameTasks[i].session # closer
  /\ LateConnectedOnlyAfterOtherClose

LEMMA ConnectedInit == Init => ConnectedFirst
<1> SUFFICES ASSUME Init PROVE ConnectedFirst
  OBVIOUS
<1>1. gameTasks = << >> /\ Len(gameTasks) = 0 /\ gamePc = "idle"
  BY DEF Init
<1> QED BY <1>1 DEF ConnectedFirst, LateConnectedOnlyAfterOtherClose

(* Steps that leave the queue alone and start no Disconnect.               *)
LEMMA ConnectedUnchanged ==
  ASSUME ConnectedFirst, UNCHANGED <<gameTasks, closedBy, closer>>,
         gamePc' = "joining" => gamePc = "joining"
  PROVE  ConnectedFirst'
BY DEF ConnectedFirst, ConnectedNotice, ErrorNotice,
       LateConnectedOnlyAfterOtherClose

LEMMA ConnectedPost ==
  ASSUME LifeInv, ConnectedFirst, runnable, ioPc # "done",
         NEW kind \in TaskKinds, Post(kind),
         UNCHANGED <<session, closedBy, closer>>,
         gamePc' = "joining" => gamePc = "joining" /\ kind = "disconnect",
         kind = "disconnect" => ioPc' = "done"
  PROVE  ConnectedFirst'
<1> DEFINE n == Len(gameTasks')
<1>1. /\ n = Len(gameTasks) + 1 /\ Len(gameTasks) \in Nat
      /\ gameTasks'[n] = Task(kind, session)
      /\ \A i \in 1..Len(gameTasks) : gameTasks'[i] = gameTasks[i]
  BY LifePost DEF LifeInv, LifeTypes
<1>2. \A i \in 1..n : i = n \/ i \in 1..Len(gameTasks)
  BY <1>1
<1>3. gameTasks'[n].kind = kind /\ gameTasks'[n].session = session
  BY <1>1 DEF Task
<1>4. session \in Nat /\ Len(closedBy) = session - 1
  BY DEF LifeInv, LifeTypes, Threads
<1>5. ASSUME NEW i \in 1..n, NEW j \in 1..n, i < j, ErrorNotice(i)',
             ConnectedNotice(j)'
      PROVE  gameTasks'[i].session # gameTasks'[j].session
  <2>1. i \in 1..Len(gameTasks) /\ ErrorNotice(i)
    BY <1>1, <1>2, <1>5 DEF ErrorNotice
  <2>2. CASE j = n
    <3>1. gameTasks[i].session # session
      BY <2>1 DEF LifeInv, Notices
    <3> QED BY <1>1, <1>3, <2>1, <2>2, <3>1
  <2>3. CASE j # n
    BY <1>1, <1>2, <1>5, <2>1, <2>3 DEF ConnectedFirst, ConnectedNotice
  <2> QED BY <2>2, <2>3
<1>6. ASSUME gamePc' = "joining", NEW i \in 1..n, ConnectedNotice(i)'
      PROVE  gameTasks'[i].session # closer'
  <2>1. i \in 1..Len(gameTasks)
    BY <1>2, <1>3, <1>6 DEF ConnectedNotice
  <2> QED BY <1>1, <1>6, <2>1 DEF ConnectedFirst, ConnectedNotice
<1>7. ASSUME NEW i \in 1..n, ConnectedNotice(i)',
             gameTasks'[i].session <= Len(closedBy')
      PROVE  closedBy'[gameTasks'[i].session] # gameTasks'[i].session
  <2>1. i # n
    BY <1>3, <1>4, <1>7
  <2>2. i \in 1..Len(gameTasks) /\ gameTasks'[i] = gameTasks[i]
    BY <1>1, <1>2, <2>1
  <2> QED BY <1>7, <2>2 DEF ConnectedFirst, ConnectedNotice,
                            LateConnectedOnlyAfterOtherClose
<1> QED BY <1>5, <1>6, <1>7 DEF ConnectedFirst, ConnectedNotice,
                                LateConnectedOnlyAfterOtherClose

LEMMA ConnectedExecuteTask ==
  LifeInv /\ ConnectedFirst /\ ExecuteTask => ConnectedFirst'
<1> SUFFICES ASSUME LifeInv, ConnectedFirst, ExecuteTask PROVE ConnectedFirst'
  OBVIOUS
<1> DEFINE t == Head(gameTasks)
<1>1. UNCHANGED <<session, ioPc, closedBy>> /\ gamePc = "idle"
  BY DEF ExecuteTask, StopAndJoin, gameVars
<1>2. /\ \A i \in 1..Len(gameTasks') : gameTasks'[i] = gameTasks[i + 1]
      /\ Len(gameTasks') = Len(gameTasks) - 1 /\ Len(gameTasks) \in Nat
      /\ 1 \in 1..Len(gameTasks) /\ t = gameTasks[1]
  BY <1>1, LifeTakeNotice DEF ExecuteTask, LifeInv, LifeTypes
<1>3. \A i \in 1..Len(gameTasks') : i + 1 \in 1..Len(gameTasks) /\ 1 < i + 1
  BY <1>2
<1>4. \A i, j \in 1..Len(gameTasks') : i < j => i + 1 < j + 1
  OBVIOUS
<1>5. \A i, j \in 1..Len(gameTasks') :
        i < j /\ ErrorNotice(i)' /\ ConnectedNotice(j)'
          => gameTasks'[i].session # gameTasks'[j].session
  BY <1>2, <1>3, <1>4 DEF ConnectedFirst, ErrorNotice, ConnectedNotice
<1>6. ASSUME gamePc' = "joining", NEW i \in 1..Len(gameTasks'),
             ConnectedNotice(i)'
      PROVE  gameTasks'[i].session # closer'
  <2>1. closer' = t.session /\ ErrorNotice(1)
    BY <1>1, <1>2, <1>6 DEF ExecuteTask, StopAndJoin, ErrorNotice, gameVars
  <2> QED BY <1>2, <1>3, <1>6, <2>1 DEF ConnectedFirst, ConnectedNotice
<1>7. LateConnectedOnlyAfterOtherClose'
  BY <1>1, <1>2, <1>3 DEF ConnectedFirst, LateConnectedOnlyAfterOtherClose
<1> QED BY <1>5, <1>6, <1>7 DEF ConnectedFirst

LEMMA ConnectedJoinDone ==
  LifeInv /\ ConnectedFirst /\ JoinDone => ConnectedFirst'
<1> SUFFICES ASSUME LifeInv, ConnectedFirst, JoinDone PROVE ConnectedFirst'
  OBVIOUS
<1>1. /\ gamePc = "joining" /\ gamePc' = "idle" /\ UNCHANGED gameTasks
      /\ closedBy' = Append(closedBy, closer)
  BY DEF JoinDone
<1>2. /\ closedBy \in Seq(Nat) /\ closer \in Nat /\ session \in Nat
      /\ Len(closedBy) = session - 1
  BY <1>1 DEF LifeInv, LifeTypes, Threads
<1>3. /\ Len(closedBy') = session /\ closedBy'[session] = closer
      /\ \A s \in 1..Len(closedBy) : closedBy'[s] = closedBy[s]
  BY <1>1, <1>2
<1>4. ASSUME NEW i \in 1..Len(gameTasks), ConnectedNotice(i)
      PROVE  closedBy'[gameTasks[i].session] # gameTasks[i].session
  <2>1. gameTasks[i].session \in 1..session
    BY DEF LifeInv, Notices
  <2>2. CASE gameTasks[i].session = session
    BY <1>1, <1>3, <1>4, <2>2 DEF ConnectedFirst
  <2>3. CASE gameTasks[i].session # session
    <3>1. gameTasks[i].session \in 1..Len(closedBy)
      BY <1>2, <2>1, <2>3
    <3> QED BY <1>2, <1>3, <1>4, <3>1
               DEF ConnectedFirst, ConnectedNotice,
                   LateConnectedOnlyAfterOtherClose
  <2> QED BY <2>2, <2>3
<1> QED BY <1>1, <1>4 DEF ConnectedFirst, ConnectedNotice, ErrorNotice,
                          LateConnectedOnlyAfterOtherClose

LEMMA ConnectedStep ==
  LifeInv /\ ConnectedFirst /\ [Next]_vars => ConnectedFirst'
<1> SUFFICES ASSUME LifeInv, ConnectedFirst, [Next]_vars PROVE ConnectedFirst'
  OBVIOUS
<1>1. CASE Connect
  BY <1>1, ConnectedUnchanged DEF Connect
<1>2. CASE Disconnect
  <2>1. /\ UNCHANGED <<gameTasks, closedBy, session>> /\ closer' = 0
    BY <1>2 DEF Disconnect, StopAndJoin
  <2>2. \A i \in 1..Len(gameTasks) : gameTasks[i].session \in 1..session
    BY DEF LifeInv, Notices
  <2> QED BY <2>1, <2>2 DEF ConnectedFirst, ConnectedNotice, ErrorNotice,
                            LateConnectedOnlyAfterOtherClose
<1>3. CASE IoInit
  <2>1. /\ ioPc = "init" /\ runnable /\ gamePc' = "idle"
        /\ UNCHANGED <<session, closer, closedBy>>
    BY <1>3 DEF IoInit, InitFailsSilently, InitCannotConnect, InitConnects,
                Goto, LifeInv, Threads
  <2>2. CASE InitFailsSilently
    BY <2>1, <2>2, ConnectedUnchanged DEF InitFailsSilently
  <2>3. CASE InitCannotConnect
    BY <2>1, <2>3, ConnectedPost DEF InitCannotConnect, Goto, TaskKinds
  <2>4. CASE InitConnects
    BY <2>1, <2>4, ConnectedPost DEF InitConnects, Goto, TaskKinds
  <2> QED BY <1>3, <2>2, <2>3, <2>4 DEF IoInit
<1>4. CASE IoRun
  <2>1. UNCHANGED <<gameVars, gameTasks>>
    <3>1. CASE RunLoopTop \/ RunCheck \/ RunReceived \/ CallbackReturn
      BY <3>1 DEF RunLoopTop, RunCheck, RunReceived, CallbackReturn
    <3>2. CASE RunPeek \/ RunPending \/ SendFails \/ RecvFails
      BY <3>2 DEF RunPeek, RunPending, SendFails, RecvFails
    <3>3. CASE \E n \in 1..SockBuf : SendData(n)
      BY <3>3 DEF SendData
    <3>4. CASE \E n : RecvSome(n) \/ CallbackConsume(n)
      BY <3>4 DEF RecvSome, CallbackConsume
    <3> QED BY <1>4, <3>1, <3>2, <3>3, <3>4 DEF IoRun
  <2> QED BY <2>1, ConnectedUnchanged DEF gameVars
<1>5. CASE Exit
  <2>1. /\ ioPc = "exit" /\ ioPc' = "done" /\ runnable
        /\ UNCHANGED gameVars
    BY <1>5 DEF Exit, Goto, LifeInv, Threads
  <2>2. CASE bConnectionError /\ ~bManuallyStop
    BY <1>5, <2>1, <2>2, ConnectedPost DEF Exit, TaskKinds, gameVars
  <2>3. CASE ~(bConnectionError /\ ~bManuallyStop)
    BY <1>5, <2>1, <2>3, ConnectedUnchanged DEF Exit, gameVars
  <2> QED BY <2>2, <2>3
<1>6. CASE \E m \in Message : Send(m)
  BY <1>6, ConnectedUnchanged DEF Send, gameVars
<1>7. CASE PeerReads \/ LinkBreaks \/ \E c \in PeerChunk : PeerSends(c)
  BY <1>7, ConnectedUnchanged DEF PeerReads, LinkBreaks, PeerSends, gameVars
<1>8. CASE UNCHANGED vars
  BY <1>8, ConnectedUnchanged DEF vars, gameVars
<1> QED BY <1>1, <1>2, <1>3, <1>4, <1>5, <1>6, <1>7, <1>8,
           ConnectedExecuteTask, ConnectedJoinDone DEF Next, IoThread

(* A connection whose own error ended it has been announced before: its    *)
(* connected notice never comes after its end.                             *)
THEOREM LateConnectedThm == Spec => []LateConnectedOnlyAfterOtherClose
<1>1. Spec => []ConnectedFirst
  BY LifeInvariant, ConnectedInit, ConnectedStep, PTL DEF Spec
<1>2. ConnectedFirst => LateConnectedOnlyAfterOtherClose
  BY DEF ConnectedFirst
<1> QED BY <1>1, <1>2, PTL

=============================================================================
