# Verification of the ThirdPersonMP client

This directory holds a TLA+ model of the client in `src/`: what its parts do,
what TLC has checked of them on small instances, and what TLAPS has proved of
them for every value of the parameters. The client is an Unreal Engine game
that talks to a server over one TCP connection. Its own logic is small; almost
everything that can go wrong in it is in the network stack, which has two
threads, buffers they share, notices posted from one to the other, and a call
protocol that outlives the connection it runs over. On top of the stack the game
signs in, travels between levels and reports its moves.

Paths below are relative to `src/Source/ThirdPersonMP/`.

## The system

| Component | State it keeps | Operations |
|---|---|---|
| TCP connection (`Network/TcpSocket`, `Network/TcpSocketRunnable`) | the runnable and thread pointers; `SendBuffer`, a queue of byte arrays; `RecvData`, a byte array; `bManuallyStop`, `bConnectionError`; the socket | `Connect`, `Disconnect`, `Send` on the game thread; `Init`, `Run`, `Exit` on the IO thread; the notices the IO thread posts |
| Message transport `UMgrMessage` (`System/Subsystem/MgrMessage`) | three functions that are no-ops before `Initialize` and after `Deinitialize`; `MessageQueue`; the account id; the service tables; delayed responses | `Initialize`, `Deinitialize`, `Connect`, `Disconnect`, `SendMessage`, `Tick`, the frame decoder, `registerService`, `NewDelayResponse`, `DoDelayResponse` |
| `RpcChannel` (`Network/muduo/RpcChannel`) | `m_id`, `m_outstandings` | `Send` a request, `OnMessage`, `serviceHandleRequestMsg`, `stubHandleResponseMsg`, `DoneCallback` |
| Service registry (`MgrDynamicFactory`, `create_dynamic.h`, `Singleton`) | constructors by type name, filled by static initialisers | `RegistService`, `CreateService` |
| Services and stubs (`Rpc/`), `TestUI`, the game mode, `UMgrActor` | the account id, the world, the possessed pawn | sign in, notify loaded, enter a scene, create the pawn |
| Move synchronisation (`System/MyPlayerController`) | what was last sent | compare each tick, send when changed |

How they interact:

    UI, game mode, controller, services         game thread
        | UMgrMessage::Send(request)    ^ handler / stub callback
        v                               |
      RpcChannel  (calls by id)         |
        | SendMessage                   ^ OnMessage, from Tick
        v                               |
      UMgrMessage (frames)   ->   MessageQueue
        | FTCPSocket::Send              ^ enqueued by the decoder, IO thread
        v                               |
      SendBuffer                     RecvData
        | Peek, Pop                     ^ Recv
        v                               |
      FTCPSocketRunnable::Run           |        IO thread
        |                               |
      socket  <----------------------- server

The IO thread tells the game thread of a connection, and of an error, with a
task in the engine's queue. The task of an error calls `Disconnect` on the
`FTCPSocket`. `Disconnect` raises `bManuallyStop` and joins the thread.

What is hard here, with the properties that answer it, is the list "hazards" in
`PROJECT.json`. In short:

* **Interleaving.** The user, the queued notices and the IO thread may each end
  a connection, in any order, and the notice does not say which connection it
  is about. Correct means: each connection ends exactly once, no thread
  outlives it, no error goes unreported, and a notice can only hit the wrong
  connection when a user disconnected by hand.
* **Two buffers, two threads.** One side pushes while the other takes; `Send`
  and `Recv` of the socket move part of what they are asked to; a failed `Recv`
  leaves cells nobody wrote. Correct means: both directions are the same
  sequence at both ends, and no such cell is ever read.
* **A byte stream carrying frames.** Frames arrive in any pieces, and what is
  left over must not leak into the next connection. Correct means: what is
  decoded is what the server sent, and it is dispatched in that order.
* **Calls that outlive connections.** Answers are lost, late or repeated; a
  handler may delay its answer. Correct means: a callback gets the request its
  answer is for, at most once, and a request is answered once or deliberately
  not at all.
* **Blocking.** The game thread waits for the IO thread, which makes blocking
  socket calls.
* **State set before it is true.** The account is set before the server allows
  it; a level is asked for in one tick and there in the next; a move is noted as
  synchronised before anything is sent. Correct means: a sign-in travels under its
  own account, no pawn is created for a level about to be thrown away, and the backend
  is never further from the player than the tolerance, each with the exceptions
  the properties name.

## Modules

### `TcpSocket`: the connection

`FTCPSocket` and `FTCPSocketRunnable`, one specification with two threads.
`gamePc` and `ioPc` are the program counters. The game thread's operations are
atomic up to the points where it blocks: `Connect` stops in `"creating"` (the
engine's `FRunnableThread::Create` returns when the new thread has run `Init`)
and `Disconnect` in `"joining"` (`WaitForCompletion`). While it blocks it does
nothing else, so the tasks in `gameTasks` wait.

| Action | Code |
|---|---|
| `Connect`, `Send`, `Disconnect`, `JoinDone` | the facade; `Disconnect` is split at its join, `JoinDone` is the rest |
| `ExecuteTask` | the engine runs a queued notice: `ConnectDelegate`, or `Disconnect` |
| `InitFailsSilently`, `InitCannotConnect`, `InitConnects` | the three ways out of `FTCPSocketRunnable::Init` |
| `RunLoopTop`, `RunPeek`, `SendData`, `SendFails`, `RunCheck`, `RunPending`, `RecvSome`, `RecvFails`, `RunReceived`, `CallbackConsume`, `CallbackReturn` | `Run`, cut wherever it reads or writes something the other thread or the network may change |
| `Exit` | `FTCPSocketRunnable::Exit`; `Run` returned first |
| `PeerReads`, `PeerSends`, `LinkBreaks` | the server and the network |

A run of `Connect` is a *session*. The code has no session number: `session`,
`closer`, `closedBy` and the field of the same name in a notice are ghosts, and
no guard looks at them apart from the bound on their number. `accepted`,
`delivered`, `partial`, `peerSent` and `consumed` are ghosts too; they record
what has gone through each end of the two streams.

External behaviour taken from how the code uses it: a blocking `Send` takes
from one byte to as many as the kernel has room for, and waits when it has none;
`Recv` of what is pending returns at least one byte; on a broken link both fail; `HasPendingData` is
exact; `GetConnectionState` may answer "connected" on a broken link, and "not
connected" on a link that is broken or that for a while can be neither read nor
written.

### `MgrMessage`: frames, the decoder and the queue

Extends `TcpSocket` and composes with it: every action is an action there in
conjunction with what `UMgrMessage` does in the same call. The decoder replaces
the free choice `TcpSocket` leaves to the callback (`CallbackConsume` any number of
bytes) by the decoding loop, one round a step, since the queue it fills is
shared. `Deinitialize` is `Disconnect`, then no-ops. `TickDispatch` is one round of the
tick's loop, and a handler it runs may send (`SendMessage`) but the game thread
does nothing else until `TickEnds`. The notice of an error goes to `FTCPSocket`
directly and does not empty the queue, as in the code.

Frames are real: `Encode` writes a little-endian length, `DecodeLength` reads it
back, and the test of the decoder wraps as its `uint32` does.

### `RpcChannel`: calls by id

Calls out, their responses, calls in with their faults, and the delayed
responses `UMgrMessage` keeps. All of it runs on the game thread, so the
interleaving is that of messages: they come through `Inbox` (below), and a connection that ends
loses what is under way except a prefix of it. The server answers
a call never, once or more than once, in the connection of the call or a later one, with a value,
with an error, or with a value that serialises to nothing. That a service sets a delayed response is
external: no code in the repository does yet. The wire's record of a call carries the ghost
`n`, which call it is, so that a property can say which request an answer was
really for.

### `ServiceRegistry`: which object serves a request

The static object of each service class registers it (`Registor`,
`RegistService`) in any order and with either spelling of its type's name;
`Initialize` then connects and runs `registerService`, which is cut into its
rounds (`ParseService`, `RegisterMethod`, `ServiceParsed`) because the IO thread
may queue requests meanwhile. A type name is a pair, the service type and whether it ends
in `_Stub`: the code tries the first, then the second, and the second overwrites
the object in the array. `Tick` looks up what a queued request names. A request
of `Send` is looked up in `m_mapRequest2ServiceInfo`, which two services that share a request
type both write.

### `GameSession`: signing in, travelling, taking over a pawn

Extends `RpcChannel` and composes with it as `MgrMessage` does with `TcpSocket`.

| Action | Code |
|---|---|
| `onButtonTest` | `UTestUI::onButtonTest`: the account is set, the sign-in sent, the widget hidden |
| `LoadLevel`, `C2G_NotifyLoadedScene` | the engine opens the level asked for; the game mode's `BeginPlay` notifies the server |
| `Dispatch` with `DoneCb`, `G2C_EnterScene`, `G2C_CreatePlayerPawn`, `ChangeApawn` | what `OnMessage` ends in: the sign-in's callback and the services of `Rpc/` |
| `ServerEnters`, `ServerCreates`, `ServerReceives`, `SessionEnds`, `SessionStarts`, `OtherSteps` | the server and the connection |

`OpenLevel` sets what to open; the engine loads it before its next tick of the
world. The tick of `UMgrMessage` that dispatched the request may dispatch more before that, so
`Dispatch` and `LoadLevel` interleave. The server sends `EnterScene` only after a sign-in on that
connection, but creates pawns when it likes; each of its `CreatePlayerPawn` carries the ghost
`answered`: every `EnterScene` before it has had its notice.

A notice says that a level is loaded, not which (`set_mapid(1)`), and an `EnterScene` may outlive its
connection in `MessageQueue`. So a server may count the notice of an older connection's level for an
`EnterScene` of its own. The field `older` of a notice says that its level was for such
`EnterScene`s only, and `misled` which connections have counted one; no guard looks at either.

### `MoveSync`: telling the backend where the player is

`AMyPlayerController`. A tick compares the rotation, the location and the speed with the last ones
synchronised (`isNeedSyncMove`) and sends them (`syncMove`). Between ticks the engine may
change anything (`Move`): the player may lose its character and get one back. A new
level brings a new controller, whose last state is zero. `given` is the last state given to the
connection; that it arrives, in order, is what `TcpSocket` promises, so the
module does not repeat the queues. The cast in `FRotator2Rotate` truncates, and below zero it
has two outcomes, those of processors that wrap and of processors that saturate.

### Abstract specifications

`ByteSession` is what a TCP connection promises its users: sessions one after the other, each with
two streams that start empty, arrive in order and without a gap, and end together. `TcpSocket`
implements it (`ImplementsByteSession`): thread, kernel, buffers, notices and joins are
all behind it. `Inbox` is what a user of `UMgrMessage` may count on: one sequence of the
server's messages, handled from the front, once each; a connection's end may drop a tail of it.
`MgrMessage` implements it, its queue with what is not decoded yet standing for
the sequence (`ImplementsInbox`). `RpcChannel` is built on it: an instance of `Inbox` with its messages
for contents supplies the part of every action that concerns `toClient` or `connected` (`In!Sends`,
`In!Handle`, `In!End`, `In!Empty`, `In!Connect`). So whatever an `Inbox` may do, the channel
has to cope with, within the bounds and with the messages the server has reason to send. That joins
the two modules, which are too large to be checked together, for safety. It does not join their liveness: that a
message is dispatched at all is `WrittenIsDispatched` of `mgr_live`, and that a dispatched answer ends its
call is `AnswerEndsCall` of `rpc_calls`.

      GameSession --extends--> RpcChannel --is built on--> Inbox
                                                            ^ implements
      ServiceRegistry      MoveSync                     MgrMessage
                                                            | implements
                                  ByteSession <--implements-- TcpSocket

### Variants

Each module has a section of *mistakes*: variants of its actions that a slip in
the code would give (a join forgotten, a message popped though its send failed,
cells overwritten instead of appended). The specification uses none of them.
They are there to be put in the place of the action they vary, and every
property is violated by one: `PROJECT.json`, "mutants", has the pairs.

## What is checked

A name in `PROJECT.json` "runs" is a module and a configuration here.

| Run | Question | Answer |
|---|---|---|
| `tcp_lifecycle` | Who ends which connection, over three of them; does `Disconnect` return, does an error end its connection, do messages leave | Each ends once, with its thread; an error is reported and ends it; a foreign notice needs a manual disconnect. All gets there, unless the peer does not read and `Send` blocks |
| `tcp_stream` | Are both byte streams intact, through partial sends and receives and leftovers of another connection; is the socket a `ByteSession` | Yes; only a failed `Send` leaves half a message |
| `mgr_decode` | Is what is dispatched what the server wrote, in order | Yes, it is an `Inbox`; messages of an older connection are dispatched only when an error closed it |
| `mgr_live` | Does `MgrMessage` implement `TcpSocket`, fairness included; is a whole message dispatched without waiting for more | Yes, an empty message excepted |
| `mgr_wire_format` | Is the frame the documented one (`MgrMessage.cpp:3`) | No: no tag, no checksum, a length of the payload alone |
| `rpc_calls` | Calls both ways: is each call of the server answered at most once and none forgotten; does an answer that has arrived end its call | Yes, if a service that delays ends with `DoDelayResponse` |
| `registry` | Is a request that comes during registration served, by the right service; is every request of a service known | Yes, in whatever order the classes register |
| `game_accounts` | Whose account, and which callback, is it, when calls are answered late, twice or never | The last click's, unless a late answer has put an older one back; a sign-in itself always travels under its own account. A callback gets its own request, and the table keeps exactly the calls without a callback |
| `game_scene` | Is a pawn created for a world about to be replaced; is the server told of every level it asked for | No pawn of a server that waits for the notice of each level, with two exceptions: the level is for `EnterScene`s of older connections only, or the server has counted the notice of such a level for an `EnterScene` of its own. It is told, though several requests may share a load, unless the connection ends |
| `move_sync` | Does the backend stay within the tolerance of the player | Yes, after each tick, unless a send was skipped for want of a character or a connection |
| `move_no_need` | Does `isNeedSyncMove` say whether the backend needs the movement (`MyPlayerController.h:28`) | No: what was skipped for want of a character counts as synchronised |
| `rpc_error_reply` | Does an error reply tell the requester (`RpcChannel.cpp:54`) | No: the stub drops it and the call stays in the table |

Three runs end in a violation. They show places where a comment and the code
disagree, and "findings" quotes both. The
one of `MoveSync` is felt by other players: a player that turned while it had no character is
shown as before until it next moves. (The run's last steps are a `Possess`, which also sets the control
rotation: it takes an engine that sets the one the player had.) `BackendWithinTolerance` says that this,
a missing connection, and a controller or connection that is new are the only ways to fall behind. The
comment `rpc_error_reply` quotes stands where the client makes such a reply to the server; the run applies it to
the other direction, in which the same messages travel.

Three more results are worth a reader's attention, though nothing in the
repository says otherwise. (A third comment, that the game thread only writes `SendBuffer`
(`TcpSocket.h:26`), is inexact and harmless: `Connect` empties it, and `NoOrphanIoThread` says that
no IO thread exists then.) `ForeignTeardownNeedsUserDisconnect` is the strongest
form that holds: after a manual `Disconnect` and `Connect`, a notice of the old
connection's error, still queued, closes the new one. And `OutstandingExact`
says that a call never answered stays in `m_outstandings` for the life of the
client: the timeout in `RpcChannel.cpp:171` is commented out. And
`AccidIsOfLastClickOrLateAnswer` needs its second half: a user who signs in under one
account and, before the answer, under another, is set back to the first when that answer
comes, and the calls that follow carry it.

### Bounds

Every bound is a constant. They cap ghosts and inputs, never what the code
counts.

* `MaxSessions`. Two connections are enough for anything to leak from one into
  the next; three let a notice outlive one and hit one that is not its
  successor.
* `MaxOut`, `MaxIn`, `SockBuf`. Two messages, one of two bytes and one of one, and a
  kernel that holds one or two bytes: a message is cut, the kernel is full, a
  second message waits behind. Two bytes received are two reads of one or one of two.
* `HeaderLen`, `ByteBase`. `mgr_decode` and `mgr_wire_format` use the code's
  header of four bytes, with bytes of sixteen values instead of 256, so that the modulus
  of the length fits TLC's integers. `MaxIn = 10` is a message of two bytes and
  an empty one; it sends nothing itself (`MaxOut = 0`), the other direction being
  `tcp_stream`'s. `mgr_live` uses a header of two, a kernel of one byte and `MaxIn = 4`: a
  message and the first byte of the next, in each of two connections.
* `rpc_calls` has two calls in each direction over two connections, one answered and one
  not, so that both may be answered in either order, in the connection of the
  call or the next. `game_accounts`, with five calls and `MaxAnswers = 2`, lets a third call be
  made between two answers, and an answer come twice.
* The registry has the four services of the program and a fifth that has a stub beside it and shares
  a request with another; `MaxCalls = 2` requests come at any time.
* `game_accounts` has two accounts, two connections and five calls: a click, a second one, and an answer to
  the first that comes after it, in the next connection if need be. `game_scene`
  has four requests of the server over three connections, so that an `EnterScene` outlives one
  connection and is loaded in the next but one. Both exceptions of `PawnOutlivesTravel` occur there: without either it is violated.
* `MoveSync` needs no bound: its state is finite. Yaws are one that truncates to another's, one that does not
  and one whose cast is undefined; three locations in a row are two steps within the tolerance that
  together are outside it; `Modulus` stands for 2^32, which is beyond TLC's integers.

`CHECK_DEADLOCK FALSE` is in every configuration but those of `MoveSync`: nobody has to press a button,
the server need not speak, and the bounds use up what users and server may do.
A client with nothing to do is not stuck. What must not get stuck is said by the liveness
properties.

### Fairness

Weak fairness of the IO thread (the operating system schedules it), of
`ExecuteTask` and `JoinDone` (the engine's loop drains its task queue, and a
thread whose wait is over continues), of the tick (the engine ticks its
subsystems), of `OnMessage` and `Dispatch` (that tick) and of `LoadLevel` (the engine
loads a level it was asked for before its next tick). There is none for users, the
server, the network or a service that delays: no property may count on them. A
blocking `Send` to a peer that does not read is not enabled, so fairness does
not get past it; the properties name it as `SendBlocked`. `Init` of the IO
thread is one step: that host resolution (a loop on `IsComplete`) and the blocking
`Connect` return, in success or failure, is assumed of the engine.

## What is proved

`tlapm` checks every proof to the last leaf. The constants are arbitrary, under
`ConstantsAssumption`: messages and the peer's pieces are not empty, `Unfilled`
is not a byte, the kernel's buffer has room for at least one byte, the bounds
are natural numbers. The bounds only appear as guards on inputs, so the
theorems do not depend on how large they are.

**`TcpSocketProofs`**: the life cycle. The six invariants of `tcp_lifecycle`
other than `TypeOK` depend on the control state alone and have one inductive
invariant, `LifeInv`. None of them is inductive by itself. That a connection is
closed once needs to know that `gamePc = "joining"` only while there is a
runnable (`Threads`). That a late notice did not close its own connection needs:
there is at most one error notice of each connection, there is none while its
thread runs (`Notices`), and while a notice's own `Disconnect` is joining no second
copy of it is queued (`Closing`). `ForeignTeardownNeedsUserDisconnect` then follows from
`Closed`: if a foreign notice closed `s`, its own connection was closed by
something else, and the first in such a chain is a user's. The step lemma has
one lemma for each action that touches control state; actions that only move data
are dealt with at once.

**`TcpStreamProofs`**: the data. `ErrInv` says where the IO thread can be after an
error. `SendInv` and `RecvInv` are the two streams, each with the types it needs
and one fact that makes it inductive: half a message is outside the queue's head only
while it is being sent or after an error; cells are unfilled only during a `Recv` or
after a failed one, and they are the last ones. From the second it follows that the
decoder is never given an unfilled cell, which is the content of `TypeOK`. The
work is in rewriting concatenations and subsequences; the lemmas on sequences at
the front of the module (`FrontOfConcat`, `SplitAt`, `HeadThenTail`) carry it.
`SessionBounds` adds the upper bounds `TypeOK` states of sessions, on top of `LifeInv`.

The module ends with the refinement of `ByteSession` (`SessionThm`), from the invariants of
both. Most steps leave the abstract state alone; the work is in those that do
not. A message is taken when its last byte has gone out, and bytes are read when the decoder
consumes them; `SendInv` and `RecvInv` say that what is taken or read next is next in its stream. The
only new fact is when there is a link (`LinkWithThread`).

**`MgrMessageProofs`**: the transport, under `MgrAssumption` (the messages are
byte sequences, and `TcpSocket`'s messages and pieces are their frames and the
frames' pieces). `MgrRefinesTcpThm` is the safety half of the refinement: every
step of `MgrNext` is a step of `Next` or leaves the connection alone. All but the
server's steps are so by what they call; for those, `PeerRest` says that what the server
has still to write is the end of a frame, so that what it writes next is a piece
`TcpSocket`'s peer may send, wherever the stream is cut. Through the refinement the
invariants of `TcpSocket` hold here too, and `LifeInv` is one `QueueInv` needs.
`DispatchInOrder` is not inductive alone: `Numbered` adds that, while the IO thread can
still decode, the newest message of the queue (or the last dispatched, if the queue is empty)
is the last one decoded. It is kept because the queue is emptied only once the thread has
ended, and that a `Disconnect` which finds no runnable also finds no thread is `LifeInv`'s.

**`MgrDecodeProofs`**: what is decoded. Three steps lead from bytes to the `Inbox`.

1. *A length survives its encoding* (`FrameRoundTrip`), for every `HeaderLen` and `ByteBase`. The
   library's induction theorems take a predicate as a parameter, which the provers cannot
   instantiate; its theorem that a well-founded relation has minimal elements (`WFMin`) takes
   a set, and `IntervalInduction` follows from it: a set that contains 0 and, with each
   number, the next contains the interval. With it, the sum of the first `k` digits' values is the
   length modulo `Weight[k]` (`NextDigit`, `DecodeEncode`). `Weight` is a recursive function; that its
   recursion has a solution is shown first (`WeightSteps`).
2. *The decoder is always at the end of a frame* (`WireInv`). `FrameEnds` says that there is a
   function from the server's messages to the positions where their frames end in the stream of its bytes,
   each frame between its neighbours' ends. `DecodedSoFar` says that as many bytes are consumed as
   the frames of the decoded messages have. `FrameInHand` then needs no case for how the stream
   was cut: whatever `RecvData` holds starts at the head of the next frame, so a complete header is that frame's,
   and the test of the decoder passes only when the whole frame is there. `WireInvariant` rests on `RecvInv` of
   `TcpStreamProofs` for the bytes, through `MgrSessionInv`, and `DecodedThm` follows.
   (`MgrSessionThm` states what that lemma gives besides: the connection is a `ByteSession` here too.)
3. *The queue and the wire are one sequence* (`InboxThm`). The abstract sequence is the bodies in
   `MessageQueue` followed by the messages of this connection not decoded yet. A decoding moves the boundary and
   leaves the sequence alone; the end of a connection cuts the second part, `Disconnect` empties the first.
   `QueueOfPeer` and `GameThreadInv` say that what is queued are messages of the server, never a piece of one, and
   that the game thread does not dispatch while it waits for a thread, which is also the content of `MgrTypeOK`.

**`RpcChannelProofs`**: the calls, under `RpcAssumption` (bounds are natural
numbers, and there is at least one connection). `CallInv` says that a call's ghost number
and its id agree wherever the call is: on the wire, in what the server owes, in
`m_outstandings`; the server keeps what it owes when a connection ends. So an answer finds the call it
answers, whichever connection brings it, and the table and the callbacks partition `1..m_id`, from which
it follows that a call has one callback at most. `ReplyInv` says that the requests
under way are all different and not handled before, and that those delayed are all different
and not given up; a reply then never counts twice.

**`RegistryProofs`**: the registry, under `RegistryAssumption` (a method list and a name for each
type, classes with types of the enum). The invariant says how far the array and the map
are filled at each position of the loop: the object of every type passed, and of the type
under way its stub or its service, with every method passed noted. What
is noted of a request stays right when a later service overwrites it, because it is
overwritten as a whole.

**`GameProofs`**: the game, under `GameAssumption` (accounts are numbers, and the channel's requests are
the game's). `ChannelStep` shows each step to be one of `RpcChannel`, so `CallInv` holds and
`GameUsesChannel` carries `CallbackForItsRequest` over: the callback of a sign-in gets that sign-in. On
top of it `Calls` says that no sign-in came after the last click, so a callback that sets the
account is the last click's or an earlier call's, and then it is newer than the click.

`PawnOutlivesTravel` relates what is under way in both directions to the level pending, and `Travel` is its
inductive invariant. Its core is `Debt`, a balance: while a connection lasts whose server has counted no older
level's notice for its own, the `EnterScene`s of this connection still queued, plus one if they have already
asked for a level, plus the notices under way that are not `older` are at most what the server awaits. Each step
moves a unit from one account to the next: handling an `EnterScene` turns it into the pending level, the load
turns that into a notice, the server's receipt of the notice pays. So when the server awaits nothing there is no
`EnterScene` ahead of the pawn it creates and no level of its connection pending, and it stays so: `InOrder`
says that no answered pawn waits behind an `EnterScene` of its connection or under the level that one asked for.
Before the sign-in arrives nothing is owed, and no notice follows the sign-in on the wire (`NoticesLast`): the
notice of the program's start must not pay for a later `EnterScene`. That is why `Beginnings` says that nobody
signs in without a world. The balance counts places in a queue, not ids, so no fact about the uniqueness of
messages is needed; `CountAppend` and `CountTail` carry it.
TLC checked `Travel` on the instance of `game_scene` before it was proved.

**`MoveProofs`**: the moves, under `MoveAssumption` (whole numbers, the zero state among
them, and a modulus). `TickSettles` and `HeldIsGiven` are inductive together with the types, and
`BackendWithinTolerance` follows from the two: what is held is what was given, and after a tick
what is held is within the tolerance of the player.

Only model-checked:

* liveness, in all modules: fairness and `ENABLED` are beyond the prover;
* that `MgrMessage` implements the fairness of `TcpSocket`.

Every safety property a passing run checks, invariant or refinement, is a theorem.

## What is not modelled

* The engine: `FRunnableThread`, `AsyncTask`, `FSocket`, `TQueue` are external, as
  described above. `FTCPSocket`'s destructor calls `Disconnect` after `Deinitialize` has; it then
  does nothing. A notice still queued when the object is destroyed would use a
  pointer that is gone: the engine destroys it at exit, and the model has no
  destroyed state.
* A method index outside a service's methods: `ServiceDescriptor::method` does not test
  it, so the behaviour is undefined, and the test of its result for null can
  never fire (`RpcChannel.cpp:72`). The server of the model names methods that exist.
* A frame length the server could not have meant (a corrupted header): the
  decoder's arithmetic is modelled with its wrap, but `MgrAssumption` excludes such frames.
* The address a reply copies from its request (`accid`, `from`), the guid of a move, parsing
  and logging. The number `SERVICETYPE_MAX`, for which `at()` would throw: whether the enum has
  it as a value is decided outside the repository.
* The pawns of the world: the model keeps the one the controller has. The factory of plain objects
  beside the one of services (`Regist`, `Create`), which has no user.
* The engine glue: input bindings of the template character, log macros and base classes, which
  call the engine and keep no state of the program's own.
* Retired code (the asio and muduo stack, mostly commented out), the editor
  module, the vendored protobuf, configuration and assets. The message and service
  definitions are in a submodule that is not in the repository.

The repository's 205,000 lines are for the most part the source of protobuf, copied
unchanged under `src/myproto/include/google` and used here as a library, and the editor module,
which was written for other modules than this repository has and is no part of the running
client. The code that is this program's own and alive is some 1,500 lines, headers and
blank lines included; the modules here cover its control. A model of the vendored parser, descriptors
and code generators would be a model of another project, so the share of all lines stays small.

## What could follow

* The two users of `Inbox` in one module, `RpcChannel`'s calls travelling in `MgrMessage`'s frames, with the
  theorems about calls carried over to it.
* The address a reply copies, if the server's routing is ever part of the repository.
