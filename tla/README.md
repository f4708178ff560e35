# Messenger_cpp: TLA+ models, checks and proofs

The repository is a series of messaging servers, each a step towards a
messenger: sequential echo servers, a threaded echo server, an IOCP echo
server, a chat on a completion port (`tests/chat`), a producer/consumer server
with a task queue (`acos3`) and the beginnings of the messenger proper
(`cool_server`: completion-port core, WebSocket connections, frame codec, JWT,
SQLite wrapper). All are C++ on Winsock, built with g++ (MinGW), and the parts
that are hard to get right are the concurrent ones.

Run `tlc -config MCxxx.cfg MCxxx` for the checks and `tlapm XxxProofs.tla` for
the proofs.

| module | models | kind |
|---|---|---|
| `TaskFifo` | what `ThreadSafeQueue` promises: an atomic FIFO that can be closed | abstract |
| `TaskQueue` | `acos3/thread_server.h:25-67`, every lock and condition-variable step | component |
| `ThreadServer` | `acos3/thread_server.cpp`, `run_thread_server.cpp`; instantiates `TaskQueue` | composition |
| `ChatRoom` | what the chat promises: one instant per message | abstract |
| `ChatServer` | `tests/chat/chat_server.cpp`, `chat_run.cpp` | component |
| `CompletionService` | what `IOCPCore` promises | abstract |
| `IocpCore` | `cool_server/iocp_core.cpp`, `.h` | component |
| `Frame` | `cool_server/frame.cpp`, `.h`: the codec, as operators | algorithm |
| `FrameStream` | `processData` and `read_buffer_` over a TCP stream; extends `Frame` | component |
| `WsChannel` | what a connection promises its owner | abstract |
| `WsConnection` | `cool_server/websocket_connection.cpp`, called by `IOCPCore`, with `Server::handleNewConnection` | composition |
| `CoolServer` | `cool_server/server.cpp`, `run.cpp`, `socket_utils.cpp` | component |
| `TaskQueueProofs`, `ThreadServerProofs`, `ChatServerProofs`, `IocpCoreProofs`, `FrameStreamProofs`, `WsConnectionProofs`, `WsChannelProofs`, `CoolServerProofs` | theorems | proofs |
| `MCTaskQueue`, `MCThreadServer`, `MCChatServer`, `MCIocpCore`, `MCFrameStream`, `MCWsConnection`, `MCCoolServer` | instances for TLC | checking |

## 1. The system

### acos3: producer/consumer server
State: `ThreadSafeQueue` (queue, `stopFlag`, `mtx`, `cv`), `isRunning`,
`workerThreads` (one worker), `clientThreads` (detached threads that stay in
the vector), `consoleMutex`, `socketMutex`, `serverSocket`.
Operations: `push`, `pop`, `empty`, `size`, `stop`; `startServer`, `run`
(starts the worker, accepts), `handleClient` (one thread per client: receive,
push, close), `processTasks` with `sendResponse` (the worker), `closeServer`.
Interaction: handlers push, the worker pops and sends on the handle that the
task carries, main stops everything.
Hard: two conditions read separately (`isRunning`, `empty()`), the lost wakeup,
handles that are reused, the order of the shutdown, nested mutexes, vectors
changed by two threads.
Correct when: no task is lost, doubled or overtaken; every task pushed before
the shutdown is answered; a response goes to its client; the shutdown ends;
nobody sends once Winsock is cleaned up.

### tests/chat: chat on a completion port
State: the list of clients with nickname and state, `clientsMutex`, one
`ClientContext` per client with its one receive, the port, the pool, the
detached acceptor, `isRunning`.
Operations: `acceptConnections`, `addClient`, `startAsyncReceive`,
`workerThread`, `handleIOCompletion` (nickname, then chat), `broadcastMessage`,
`removeClient`, `stopServer`.
Interaction: through the port (a receive is armed, completes, is dequeued by any
worker) and through the list under `clientsMutex`.
Hard: who owns a context at each moment, removal by a SOCKET that is reused,
broadcasts of several workers, stop against a busy pool, a mutex locked twice.
Correct when: each client is always served by exactly one receive; a context is
not used once deleted; all see messages in one order; stop wakes every worker.

### cool_server: the messenger
* `IOCPCore`: port, worker threads, three callbacks under `callbacks_mutex_`,
  `is_running_`. Correct when completions reach their callback at most once,
  one at a time, never after `stop`, and `stop` ends.
* `WebSocketConnection`: `socket_` under `socket_mutex_`, `is_closed_`, one read
  operation with its buffer, write operations on the heap, `read_buffer_`, two
  callbacks under `callbacks_mutex_`. Operations: `asyncRead`,
  `handleIOCompletion`, `processData`, `handleFrame`, `sendText`, `sendBinary`,
  `sendPong`, `close`, the setters. Interaction: workers of `IOCPCore` bring
  completions, the owner sends and closes, callbacks go to `Server`. Hard:
  `close` is called under mutexes it takes itself, the read is posted before the
  callbacks are set, one buffer serves every read, the life of write operations.
  Correct when frames are handled once and in order, `close` is told once, every
  operation has one owner at a time, and an open connection keeps reading.
* `Frame`: header, length and masking arithmetic, no state. Hard: three forms of
  the length and their boundaries, frames cut anywhere by TCP. Correct when what
  is received is what was sent, at once, and nothing grows without bound.
* `Server`, `run.cpp`: `listen_socket_`, `is_running_`, the core, `clients_`;
  start, Ctrl+C in a thread of its own. Correct when a client that connects is
  served and stop may come at any time.
* `RFC6455Handler` (unfinished; `handleHandshake` returns null), `auth` (tokens;
  the expiry is issued and not tested), `db` (SQLite wrapper with a cursor):
  nothing in the program calls them. `socket_utils`: stateless wrappers.

### tests/IOCP_echo, tests/thread_echo
The pool of the chat with one context that alternates read and write; detached
handlers against a `closeServer` that says it waits for them.

### The rest
`oop_echo`, `simple_echo`, the clients, `front`, `draft_dash`, `test_dash`:
sequential loops or static pages, nothing to check.

## 2. Models and code

Every module keeps one program counter per thread (`at`; `pc` in `TaskQueue`).
A step is what no other thread can split: an atomic load or store, a lock
acquisition when a second lock may be wanted inside, a whole critical section
otherwise, one system call. Locking is "owner or Free"; a thread that locks a
mutex it owns blocks, as a MinGW `std::mutex` does. `UNCHANGED` groups name the
variables a step leaves alone.

**TaskQueue.** `PushLock`, `PushBody` (append, `notify_one`, unlock); `PopLock`,
`PopTest` (the wait predicate), `PopWait` (unlock and sleep, atomic as in
`std::condition_variable`), `PopRelock` and `SpuriousWake`, `PopFront`,
`PopNothing`; `StopStore`, `StopNotify`, which take no mutex in the code.
`waiting` is the wait set of `cv`. A woken thread must lock again before it
tests again. `PopNothing` is the return of the empty task.

**ThreadServer.** One process per client handler, the worker, `run` and main. A
task is (client, number, handle): text is abstracted to who sent it and when.
`sock` maps each open handle to a connection, so a handle closed by
`CloseClient` may denote another connection after `AcceptClient`; `SendDelivers`
records who really got a response. `answered`, `pushed` and `drain` are history.
Every step on the queue is `TaskQueue`'s action, conjoined, so that the queue in
this model is the one checked and proved there. `WorkerTest`/`WorkerEmpty` are
the two halves of `isRunning || !empty()`. The
`std::terminate` of a joinable `std::thread` is the place `"terminated"`
(`ClearThreads`, `JoinRun`). Lock-print-unlock blocks that hold nothing else
are left out; the two places where a second mutex is taken with one held
(`LogSize`, `SendReport`) are not. `Cleanup` invalidates all handles, as
`WSACleanup` does.

**ChatServer.** `io[c]` is the state of the one receive: armed, queued at the
port, idle (in somebody's hands). `Complete` is the kernel; several lines may
arrive at once, and `last = 0` is the end or failure of a connection.
`Publish` is `handleIOCompletion` up to the broadcast; each `Send` is a step, so
clients can be compared in the middle of a broadcast. `RearmFails` is the path
143 -> 233 that locks `clientsMutex` twice. `RemoveFound` looks the client up by
SOCKET, which the system may have reused. The list is a set and a broadcast goes
through it in any order, a superset of what the vector does. The branch of
`handleIOCompletion` for an unknown context (183-187) is not an action because
`NoUseAfterFree` shows that it cannot be reached.

**IocpCore.** The owner sets callbacks, starts the workers and stops. A setter
locks `callbacks_mutex_` (`SetLock`) and assigns under it (`SetStore`), before
the start or while workers call. A completion has a kind and an outcome; `HasCallback` is the decision of lines
43-70, including that a failed CONNECTION is passed to nobody and that other
keys (`WebSocketConnection` passes `this`) match no branch. `Complete` is the
kernel or `postCompletion`.

**Frame, FrameStream.** A frame is a sequence of bytes. The number of values of
a byte, the widths of the two extended lengths and of the key and the limit are
constants (256, 2, 8, 4 and 16 MB in the code); `Small` = 125 and `ShortMax` =
65535 follow from them as they do in the code. `Xor` is a constant operator, so
the proofs use no more of `^` than that it undoes itself. `ParseHeader` returns
"wait", "throw" or "ok" for `false`, the exception and `true`. In `FrameStream`
`wire` is the TCP stream; `Receive(n)` takes any number of bytes up to the size
`asyncRead` offers (`ReadSize`, with `expected_payload_size_`) and appends them;
`HandleFrame` takes one whole frame off the front, `WaitForMore` goes back to
reading, `Reject` is the exception that closes. `isClosed` is `is_closed_`: a
Close frame sets it, and so may anybody else at any moment (`CloseElsewhere`).
`processData` does not look at it, so the frames that were read with a Close
frame are handled after it; `asyncRead` does, so `WaitForMore` posts no read on a
closed connection, and a read that completes on one is dropped
(`ReceiveClosed`). What `close` itself does and waits for is in `WsConnection`. Bytes of the key are a sequence;
the 32-bit integer of the code is packed and unpacked big end first on both
sides. `Digits`, `Number` and `Power` write and read a length in base `Base`, as
recursive functions so that theorems can be proved about them. Peers encode
lengths minimally (section 6).

**WsConnection.** A thread is the stack of places it is at, so that a call made
under a lock (`close` from `handleFrame`, from `asyncWrite`, from `asyncRead`)
returns to the code that holds the lock. `core`, `sock` and `cb` are
`IOCPCore::callbacks_mutex_`, `socket_mutex_` and `callbacks_mutex_`. `Init`: a
worker is in `handleNewConnection`, inside the constructor, called under `core`
as `IocpCore`'s `OneCallbackAtATime` shows. `io` follows each operation: none,
with the kernel, queued at the port, in hand, freed, and "lost" for a write
whose completion finds `is_closed_` (45) and is never deleted. `TestOpen` and
the critical section after it are two steps, because the test is outside the
lock. `New` is the operation that `asyncWrite` allocates. `ReadFails` and
`WriteFails` are calls that fail at once and close under `sock`, the latter after
the operation was deleted (198). A write that completes is freed by its
`unique_ptr` when `handleIOCompletion` returns (`FreeOp`), after 0 bytes only once
`close` is done (`IoNothing`). `Shut`
closes the socket, which completes what is pending; the close frame is not
sent, since `asyncWrite` sees `is_closed_` (178). `Tell` is the callback. The
bytes of a read are the whole frames it completes (`FrameStream` has the rest).
Nothing in the repository connects `handleIOCompletion` to the core: no read
or write callback is set, and reads complete under the key `this`, which
`IOCPCore` drops (`CompletionService` says so). The model therefore takes the
class at its public interface: completions come as `IOCPCore` would bring them.

**CoolServer.** `main` goes through `start` call by call, with every outcome its
calls may have; results that the code ignores do not stop it. `ctrlC` is the
thread in which Windows runs `signalHandler`. `Exit` destroys the `Server` and
with it stops what still runs. `ConnectionCallback` is never enabled: that is the
finding of the run, not an omission.

**Undefined behaviour.** Where the code races or uses freed memory the models
stop short of it (list in section 6) or say so (section 7);
no step assumes a benign outcome silently. After `ClearClients` the acceptor's
`WSARecv` on the closed SOCKET fails.

## 3. Runs

| run | instance | shows |
|---|---|---|
| `task_queue` | 2 producers, 2 consumers, queue of 3 | `NoStrandedTask`; `StopMissesAtMostOne`: the unlocked `stop` can miss one consumer, not two; `QueuedTaskIsTaken` (liveness); `FifoSpec`: implements `TaskFifo` |
| `thread_server` | 2 clients, 2 handles, 2 messages each | `TasksAccountedFor`, `GracefulDrain`, `NoSendUnderCleanup`, `HandlerOwnsItsSocket`, `MissesOnlyTheGone`; deadlock is checked |
| `thread_server_live` | 2 clients in turn on 1 handle, 1 message each | `PushedIsAnswered`; `HangsOnlyAsleep`: a shutdown stuck in its join has its worker asleep, so the lost wakeup is the only hang |
| `stale_handle`, `stop_hangs` | 2 clients, 2 handles, 1 message each | defects 1 and 2 of section 7 |
| `chat_server` | 2 workers, 2 clients, 2 handles, 2 lines each | `NoUseAfterFree`, `OneReceive`, `RemovesItsOwn`, `WakesEveryWorker`, `SameOrder`, `RoomSpec`: implements `ChatRoom`; a deadlock other than a worker that locked itself out would be reported |
| `chat_server_live` | the same with 1 handle | `ReadAgain`; `HangsOnlyStuck`: only a worker that locked itself out keeps `stopServer` from returning |
| `iocp_core` | 2 workers, 2 operations of any kind and outcome | `OneCallbackAtATime`, setters included, `WakesEveryWorker`, `ServiceSpec`: implements `CompletionService`; `EveryCompletionServed`, `StopReturns` (liveness) |
| `ws_stream` | 5-bit bytes, 2 frames of 18 kinds, every cut | `FramesInOrder`: the frames handled are those sent; `NothingWithheld`: no read is posted while a whole frame waits; `BufferBounded`; `RefusedForAReason`; the connection may be closed at any moment |
| `ws_connection` | 2 workers, the owner's thread, 3 writes, 2 frames in batches of up to 2 | `OneReader`, `NoFrameTooEarly`, `WriteLife`, `ChannelSpec`: implements `WsChannel`; `ClosesUnlessLocked`, `KeepsReading` (liveness); a deadlock other than threads that wait for their own or each other's mutex would be reported |
| `ws_close_hangs` | 1 worker, 1 frame | defect 3 of section 7 |
| `cool_server` | 2 clients | defect 4 of section 7 |

Every property has a mutant: a plausible slip in one definition (marked
`Mutant:` in the modules) under which TLC finds that property violated.

**Bounds.** `MaxMsgs`, `MaxQueue`, `MaxLines` cap what clients send; `Conns`,
`Ops` are each used once. Two of each actor are enough for every race in the
list: two clients are needed for a reused handle, for the order of messages and
for a broadcast that meets a newcomer; two workers for overlapping completions
and for wake-ups that reach the wrong one; two messages for order within a
client. The safety runs of the servers use symmetry over interchangeable
clients, handles and workers; runs with liveness properties do not.
`thread_server_live` has one handle, so that its two clients follow each other;
the safety run has two at once.

In `ws_stream` a byte has 32 values, so lengths up to 13 fit the second byte, up
to 31 the next byte and up to 1023 two more; the limit is 36 and the frames have
lengths 0, 1, 2, 6, 13, 14, 31, 32, 36 and 37: both sides of every boundary of the
code, masked and not. With two frames a read may end inside the first, between
them or inside the second; more would repeat this. In `ws_connection` two
workers meet in one connection, three operations allow one write in flight, one
that failed and one to come, a batch can hold a
frame behind the one that closes, and the owner's thread crosses any of it.

The properties proved in section 5 do not depend on any of these bounds.

**Deadlock** is checked in every passing run. The only stuttering ends are the
end of the process, a stream that has been read to its end, a worker of the chat
that waits for its own mutex, and in `WsConnection` threads that wait for their
own or for each other's mutex (`Locked`).

## 4. Fairness

Assumed: every thread keeps running, and one that keeps finding a mutex free or
a packet queued gets it (strong fairness per thread: Windows locks and the port
starve nobody for ever). This needs that calls return: `send` (clients read),
callbacks of `IOCPCore`. In `CoolServer` weak fairness is enough, as no step is
disabled by another thread before the process ends. Not assumed: that clients connect, type or leave, that
anybody presses Enter or calls `stop`, that a sleeping thread wakes by itself,
that `accept` returns while the listening socket is open, that a peer sends a
frame, that a pending read ever completes.

## 5. Proofs

TLAPS proves these for every value of the constants under the named assumptions
(`QueueAssumption`, `ServerAssumption`, `ChatAssumption`, `CoreAssumption`,
`ConnectionAssumption`: the actors are distinct, bounds are naturals, the workers
of a pool are finitely many; `FrameAssumption`: the number of values of a byte
is a multiple of 32, so that an opcode fits below the flag, the longer length field
is longer, and `Xor` with the same byte undoes itself; `StreamAssumption`: frames
have valid opcodes, a payload and a key of bytes and a length that fits the longer
field, as a `size_t` does, and the smallest read is no larger than the limit).

* `TaskQueueProofs`. Invariant `QueueInv`: types, the owner of `mtx` is the one
  in a critical section, and `Sleepers` (a thread in the wait set is asleep, one
  that is about to sleep still finds the queue empty because it holds `mtx`).
  It is what makes `NoStrandedTask` inductive: a push cannot fall between test
  and sleep. Likewise `StopMissesAtMostOne`: `stop` can, but only one thread is
  between test and sleep. Theorems: `QueueTypes`, `QueueIsNeverRaced`, `PushWakesSomeone`,
  `StopMissesOne`, `QueueImplementsFifo` (step simulation: `PushBody`,
  `PopFront`, `PopNothing`, `StopStore` map to the abstract steps, the rest
  stutter).
* `ThreadServerProofs`. Invariant `ServerInv`: types; `Known` (a handler that
  runs has a handle); `Sockets` (an open handle denotes the connection that holds
  it); `Phases` (where main is tells whether the worker has been joined and the
  flag cleared); `TasksAccountedFor`; `Drained` (a worker that leaves after
  seeing an empty queue has answered everything pushed before the flag was
  cleared). Theorems: `ServerTypes`, `NoTaskLost`, `ShutdownDrains`,
  `CleanupIsSafe`, `HandlersKeepApart`. The nested locks:
  a log line locks the queue under `consoleMutex`, a failed send reports under
  `socketMutex`. Where a thread is tells which mutexes it holds (`Owners`), so all
  take them in the order `socketMutex`, `consoleMutex`, `mtx` (`MutexesAreOrdered`)
  and no threads wait for one another in a circle (`NoDeadlockOverMutexes`): what
  holds up `closeServer` is a blocked call or a missed wakeup, not a lock cycle.
  Two theorems say how far the defects 1 and 2 of section 7 go. `Trail` follows the
  handle of a task from the handler that pushed it through the queue to the send;
  hence `OnlyTheGoneAreMissed`, the invariant `MissesOnlyTheGone`: a response that misses its sender goes to a client
  with the same handle, and only after the sender's handler has ended. And once
  the worker has missed the notification and no handler is about to push (`Missed`),
  nothing but a spontaneous wakeup ends the wait (`MissedForGood`).
* `ChatServerProofs`. Invariant `ChatInv`. Its core is that a context is in one
  place: with the kernel, in one packet at the port (`InPort`), or in one
  thread's hands (`InHands`), and whoever has it finds it in the list until
  `stopServer` clears that (`Listed`, `Served`). `OneReceive` counts three sets
  and is not inductive; that each of them holds at most one element is. `Locked`
  and `Broadcasting` say that `clientsMutex` is held from the lookup to the end
  of the broadcast. `RemovesItsOwn` needs `OwnSocket`: no two clients in the list
  share a SOCKET, because one that is closed is erased before the lock that the
  next `AddClient` needs is released. `Numbering` says that a packet carries the
  lines after those handled. `SameOrder` needs `OrderInv`: the number of a
  message tells it from others (`Passed`), and whoever has the message that is being
  sent has it last and is not sent it again (`Casting`), so that a message reaches
  the inboxes one broadcast after the other. Theorems: `ChatTypes`, `ContextsLive`,
  `OneReceiveEach`, `RemovesTheRightClient`, `StopWakesPool`, `OneOrderForAll`, and
  `PoolIsARoom`: the chat implements `ChatRoom`. In that refinement a broadcast takes effect
  when it starts: who is still in `todo` counts as having the message, which
  is well defined since one thread at a time has recipients left; a leaving
  client is out of the room once its removal has begun. `HangsOnlyStuck` and
  `ReadAgain` make an exception of `Stuck`, a thread that waits for a mutex it
  owns; `StuckRoomIsSilent` and `StuckNeverStops` say what the exception amounts
  to: it is for good, the room does not change any more, and `stopServer` does not
  get past its join, since the thread is never the acceptor, whom `stopServer` does not
  wait for (`AcceptorFree`).
* `IocpCoreProofs`. Invariant `CoreInv`: types, the places of owner and workers
  tied to `is_running_` (`Phases`), `callbacks_mutex_` owned by the worker in a
  callback or by the owner in a setter (`LockHeld`), and that once packets are posted no fewer are queued
  than workers wait. A dequeue lowers both sides by one (`WakeStep`, with
  cardinalities). `Distinct` says that no operation is at
  the port twice or both there and with a worker. Theorems: `CoreTypes`,
  `CallbacksExclude`, `StopWakesAll`, and `CoreIsAService`:
  the core implements `CompletionService`, where `Distinct` is why a step that
  takes one packet takes one completion.
* `FrameStreamProofs`. The library's induction theorems take an operator;
  `Induct` states induction over a set, `Recursion` and `Recursive` that a step
  given as a function has a solution, and from these follow the facts about the
  recursive functions of `Frame` (`Powers`, `Numbers`).
  * The codec. `ReadsBack`: the digits of a length, in any base and any width that
    holds it, are read back as that length. `UnmaskingRestores`: unmasking what was
    masked gives the payload back. `HeaderSizeAgrees`: `headerSize`, which looks at
    the payload length, gives the length of the header that `createFrame` writes.
    `Layout` says what a frame is byte by byte; from it `HeaderRead` and `FrameRead`:
    on a part of the stream that starts with a frame, `parseHeader` throws only for
    a frame above the limit, waits only if the frame is not whole, and else gives
    the fields written, with the bytes of the next frames behind making no
    difference.
  * The stream. `BufferInv`: between reads the buffer holds less than a header and a
    payload within the limit, because `parseHeader` waits for less than a header
    (`HeaderBounds`) and refuses longer payloads before any of their bytes is waited
    for. `StreamInv` adds what makes the order of frames inductive: `Cut`, that the
    bytes not handled, read or not, are the frames not handled one behind the other,
    given as the place where each of them ends. A send adds an end (`CutSends`), a
    read moves none (`CutReceives`), a handled frame shifts them (`CutHandles`).
    Theorems: `BufferStaysBounded`, `StreamInvariant`, `FramesComeInOrder`,
    `NothingIsWithheld`, `RefusedWithAReason`: however TCP cuts the stream.
* `WsConnectionProofs`. Invariant `ConnInv` = `ShapeInv` and `DataInv`. A worker
  has something on its stack exactly when it owns `core`, and its stack is well
  formed: at the bottom where the callback ends, above it at most one place of
  `handleIOCompletion` (`ShapeInv`); a worker in `processData` has the read in
  hand, and `core` is free only once both callbacks are set (`DataInv`). A lock
  alone is not inductive: that a callback of a worker cannot overtake another
  needs the link between stack and owner. `NeutralGoto`/`NeutralData` do the
  steps that stay within a call once, `WorkerGoto`/`InnerData` the others.
  `WriteLife` rests on the link between `freeOp` on a stack and the operation in
  that worker's hands: a write leaves the kernel once, and what is freed is never
  the read.
  Theorems: `ConnInvariant`, `OneReaderAlways`, `CallbacksSetFirst`,
  `WritesFreedOnce`.
* `WsChannelProofs`. Invariant `ChannelInv` adds to `ConnInv`: `OnTop` (`close`
  past its `exchange`, and `handleFrame`, call nothing, so such a place is on top
  of its stack), `Closing` (at most one thread is past the `exchange`, `told` is 0
  until it is done, and after the shutdown of the socket no read is with the
  kernel) and `Buffer` (a read is posted with an empty buffer, and between the
  test in `processData` and `handleFrame` nobody empties it; what was handled has
  lower numbers than what will come). `CalmStep` does the steps that enter no such
  place once. Theorems: `ChannelInvariant`, `ConnectionTypes`, and
  `ConnectionIsAChannel`: the connection implements `WsChannel`.
  The rest is about its mutexes, the exception `Locked` of `ClosesUnlessLocked`
  and `KeepsReading`. `LockInv`: the owner of a mutex is the thread that has its
  unlock ahead, and `LockShape` says where on a stack an unlock can be
  (`MutexOwners`). The circles in question are over `socket_mutex_` and
  `callbacks_mutex_`, as a thread that waits for the mutex of `IOCPCore` holds
  nothing; with two mutexes any circle contains one of one or two threads
  (`CirclesAreSmall`), which is why `Locked` looks for no others. While a connection
  is open there is none, of whatever size (`OpenNeverLocked`); one that has formed
  stays (`LockedForGood`), its connection is closed without `on_close_` having been
  called (`LockedNotTold`), and if a worker is in it, all workers stand
  still (`LockedWorkerStopsAll`).
* `CoolServerProofs`. `CtrlCStopsInOrder`: `TornDownInOrder` holds wherever
  Ctrl+C finds `main`. `OrderInv` ties `is_running_`, the core, Winsock and the
  places of both threads together: `is_running_` is set last in `start` and
  cleared first in `stop`, so a `stop` that goes ahead finds everything up.
  `NobodyIsServed`: defect 4 of section 7 for any number of clients.

Every invariant and every safety property of the passing runs is proved. Only
model-checked: liveness under fairness (out of the prover's reach), namely
`QueuedTaskIsTaken`, `PushedIsAnswered`, `HangsOnlyAsleep`, `ReadAgain`,
`HangsOnlyStuck`, `EveryCompletionServed`, `StopReturns`, `ClosesUnlessLocked` and
`KeepsReading`; and the violations. Only proved, without a run that lists them:
`TornDownInOrder`, the mutual exclusion of `QueueIsNeverRaced`, `InLockOrder`,
`NoCircularWait`, and what follows a defect or a lockout (`MissedForGood`, `StuckRoomIsSilent`, `StuckNeverStops`, the theorems on `Locked`,
`NobodyIsServed`).

## 6. Not modelled, and why

* Contents of buffers and text, socket set-up failures before a server runs.
* The destruction of a `Server` that detached threads still use (acos3 and
  chat), memory the kernel writes after `stopServer` deleted a context with an
  armed receive, `buffer[1024]` written when a receive fills the buffer.
* A `send` that blocks because a client does not read.
* Clients, sequential echo servers, web pages (section 1).
* `WebSocketConnection`: `associateSocket` (a second association of the socket
  under another key (189) fails and is only logged), exceptions thrown by
  callbacks, the destructor (the callbacks hold the connection by `shared_ptr`,
  so it lives as long as they do), the error code that `IOCPCore` passes as byte
  count for a failed read (49).
* Peers that encode a length longer than necessary: `headerSize` (frame.cpp:65)
  then takes the header for shorter than it is. Fragmented messages: the code
  hands on each frame by itself, and so does the model.
* The contents of `clients_`: nothing but the log reads it.
* An `IOCPCore` that Ctrl+C destroys while `main` is inside `runWorkerThreads`.
* The RFC 6455 handler, `auth` and `db`: no other code calls them. The handler
  returns null for every handshake and uses a class without implementation;
  `auth` rests on base64 and HMAC functions without a body; `db` hands each call
  to SQLite. A model would be one of code that does not exist or of a library.
* The IOCP and the threaded echo server: smaller forms of the chat's pool and of
  acos3's detached handlers, with nothing the larger models lack.

## 7. Disagreements between code and text

1. `thread_server.cpp:67`: "check that the socket is still valid" tests only for
   `INVALID_SOCKET`; a handle that was closed and reused passes (`stale_handle`;
   the response of a client that is still served cannot go astray
   in this way: `OnlyTheGoneAreMissed`).
2. `thread_server.h:60`: `stop` stores and notifies without `mtx`; the wait for
   the worker never ends (`stop_hangs`, `MissedForGood`).
3. `websocket_connection.cpp:120`: `close` is called with `callbacks_mutex_`
   held and takes it again for "calling the callback"; every Close frame of a
   peer locks a worker out for good, and with it all connections, because
   `IOCPCore`'s mutex is held too (`ws_close_hangs`, `LockedWorkerStopsAll`).
4. `server.cpp:35`: an accept is only posted from the callback that a completed
   accept would run, with a buffer that `acceptEx` refuses; the client of
   `test.js` is never served (`cool_server`, `NobodyIsServed`).

Also visible in the models, without a run of their own:

* `chat_server.cpp:143`: a receive that fails at once locks `clientsMutex`
  twice (`RearmFails`); `HangsOnlyStuck` says that it is the only way
  `stopServer` can hang.
* `websocket_connection.cpp:39, 199`: calls that fail at once do the same with
  `socket_mutex_`; and a reply (116) crosses a `close` on another thread. All
  are `Locked`, the exception in `ClosesUnlessLocked` and `KeepsReading`.
* `websocket_connection.cpp:166`: the close frame is never sent, since
  `is_closed_` is set before. Line 45: writes that complete after a close are
  not deleted ("lost" in `WriteLife`).
* `thread_server.cpp:190`: Enter before the worker exists destroys a joinable
  thread (the place "terminated" of `ThreadServer`). Line 245: `closeServer`
  clears the vector to which `run` appends under `consoleMutex`.
* `chat_server.cpp:202` takes all that the first receive returns as the nickname,
  so a first message that arrives with it is not said (`ChatRoom!Join`).

## 8. Plan

Done: acos3 with its queue, the chat server, and of cool_server the core, the
connection, the frame codec and the server, each with its runs and its proofs. What would come next:

1. Proofs: section 5 says what follows once the chat or a connection is locked out
   or a shutdown has been missed. That a system outside these states is able to move
   speaks of `ENABLED`; it stays with the liveness runs.
2. The blocking `send` of acos3 and the chat, with bounded socket buffers.
3. The RFC 6455 handler, once something calls it and it performs a handshake;
   then `CoolServer` over `WsConnection`, once a connection can be accepted.
