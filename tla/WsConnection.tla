---------------------------- MODULE WsConnection ----------------------------
(***************************************************************************)
(* One WebSocketConnection of cool_server: created by a worker of IOCPCore *)
(* (Server::handleNewConnection), served by workers that pass completions  *)
(* to handleIOCompletion, and used by one more thread through sendText and *)
(* close.  IOCPCore calls under its callbacks_mutex_ (here: core), as      *)
(* IocpCore shows.  Bytes are left to FrameStream: a read brings frames.   *)
(*                                                                         *)
(* A thread is the stack of the places it is at, callee first.             *)
(***************************************************************************)
EXTENDS Naturals, Sequences, FiniteSets

CONSTANTS Workers, App,  \* threads of IOCPCore; a thread of the program
          Writes,        \* the AsyncOperations of asyncWrite
          Free,          \* nobody owns the mutex
          MaxFrames,     \* bound on the frames of the peer
          MaxBatch,      \* bound on the frames one read completes
          MaxSends       \* bound on the calls of sendText by App

Threads == Workers \cup {App}
Read == "read"  \* read_operation_
Ops == Writes \cup {Read}
Kinds == {"Text", "Ping", "Close", "Other", "Bad"}

ASSUME ConnectionAssumption ==
    /\ App \notin Workers /\ Free \notin Threads
    /\ Read \notin Writes
    /\ MaxFrames \in Nat /\ MaxBatch \in Nat /\ MaxSends \in Nat

VARIABLES stack,       \* where each thread is
          core,        \* IOCPCore::callbacks_mutex_
          sock,        \* socket_mutex_
          cb,          \* callbacks_mutex_
          isClosed,    \* is_closed_
          socketOpen,  \* socket_ is not INVALID_SOCKET
          onMessage,   \* on_message_ is set
          onClose,     \* on_close_ is set
          io,          \* state of each operation
          job,         \* the operation each worker was given
          ended,       \* the completed read brought 0 bytes
          inbound,     \* frames in read_buffer_ that are not handled
          frames,      \* frames the peer has sent
          sends,       \* calls of sendText by App
          said,        \* numbers of the frames given to on_message_
          told         \* calls of on_close_

locks == <<core, sock, cb>>
flags == <<isClosed, socketOpen, onMessage, onClose>>
data == <<ended, inbound, frames>>
owner == <<sends, said, told>>
vars == <<stack, locks, flags, io, job, data, owner>>

Top(t) == IF stack[t] = << >> THEN "idle" ELSE Head(stack[t])
Begin(t, places) == Top(t) = "idle" /\ stack' = [stack EXCEPT ![t] = places]

\* << >> returns, <<p>> goes on at p, <<p, q>> calls p and then goes on at q.
Goto(t, from, to) == Top(t) = from /\ stack' = [stack EXCEPT ![t] = to \o Tail(@)]
-----------------------------------------------------------------------------
Constructed(c) ==
    /\ \E creator \in Workers :
          /\ stack = [t \in Threads |-> IF t = creator THEN <<"asyncRead", "setMessage">> ELSE << >>]
          /\ core = IF c THEN creator ELSE Free
    /\ sock = Free /\ cb = Free
    /\ isClosed = FALSE /\ socketOpen = TRUE
    /\ onMessage = FALSE /\ onClose = FALSE
    /\ io = [o \in Ops |-> "none"]
    /\ job = [w \in Workers |-> Read]
    /\ ended = FALSE /\ inbound = << >> /\ frames = 0
    /\ sends = 0 /\ said = << >> /\ told = 0

\* Mutant: the connection callback runs without the mutex of IOCPCore.
InitUnlocked == Constructed(FALSE)

\* A worker is in handleNewConnection, in the constructor.
Init == Constructed(TRUE)

SetMessageCallback(w) ==
    /\ Goto(w, "setMessage", <<"setClose">>)
    /\ cb = Free /\ onMessage' = TRUE
    /\ UNCHANGED <<locks, isClosed, socketOpen, onClose, io, job, data, owner>>

\* The last step of handleNewConnection that another thread can tell.
SetCloseCallback(w) ==
    /\ Goto(w, "setClose", <<"leave">>)
    /\ cb = Free /\ onClose' = TRUE
    /\ UNCHANGED <<locks, isClosed, socketOpen, onMessage, io, job, data, owner>>
-----------------------------------------------------------------------------
\* IOCPCore: a packet is taken and the callback is called; Leave is its end.
Take(w, o) ==
    /\ Begin(w, <<"io", "leave">>)
    /\ core = Free /\ core' = w
    /\ io[o] = "queued" /\ io' = [io EXCEPT ![o] = "inHand"]
    /\ job' = [job EXCEPT ![w] = o]
    /\ UNCHANGED <<sock, cb, flags, data, owner>>

Leave(w) ==
    /\ Goto(w, "leave", << >>)
    /\ core' = Free
    /\ UNCHANGED <<sock, cb, flags, io, job, data, owner>>

\* The peer sends frames, or ends the connection.
KernelReads(batch) ==
    /\ io[Read] = "kernel" /\ io' = [io EXCEPT ![Read] = "queued"]
    /\ frames' = frames + Len(batch) /\ frames' <= MaxFrames
    /\ inbound' = [i \in 1..Len(batch) |-> [kind |-> batch[i], id |-> frames + i]]
    /\ UNCHANGED <<stack, locks, flags, job, ended, owner>>

KernelEnds ==
    /\ io[Read] = "kernel" /\ io' = [io EXCEPT ![Read] = "queued"]
    /\ ended' = TRUE
    /\ UNCHANGED <<stack, locks, flags, job, inbound, frames, owner>>

KernelWrites(o) ==
    /\ io[o] = "kernel" /\ io' = [io EXCEPT ![o] = "queued"]
    /\ UNCHANGED <<stack, locks, flags, job, data, owner>>
-----------------------------------------------------------------------------
\* handleIOCompletion.  After a close it returns at once: a write is not freed.
IoClosed(w) ==
    /\ Goto(w, "io", << >>)
    /\ isClosed
    /\ io' = [io EXCEPT ![job[w]] = IF @ = "inHand" /\ job[w] # Read THEN "lost" ELSE "none"]
    /\ inbound' = IF job[w] = Read THEN << >> ELSE inbound
    /\ UNCHANGED <<locks, flags, job, ended, frames, owner>>

\* A write is complete: the unique_ptr frees it when handleIOCompletion returns.
IoWritten(w) ==
    /\ Goto(w, "io", <<"freeOp">>)
    /\ ~isClosed /\ job[w] # Read
    /\ UNCHANGED <<locks, flags, io, job, data, owner>>

\* A write of 0 bytes closes first.
IoNothing(w) ==
    /\ Goto(w, "io", <<"close", "freeOp">>)
    /\ ~isClosed /\ job[w] # Read
    /\ UNCHANGED <<locks, flags, io, job, data, owner>>

FreeOp(w) ==
    /\ Goto(w, "freeOp", << >>)
    /\ io' = [io EXCEPT ![job[w]] = "freed"]
    /\ UNCHANGED <<locks, flags, job, data, owner>>

\* Mutant: the unique_ptr takes whatever operation completed.
FreeReadToo(w) ==
    /\ Goto(w, "io", <<"close">>)
    /\ ~isClosed /\ job[w] = Read /\ ended
    /\ io' = [io EXCEPT ![Read] = "freed"]
    /\ UNCHANGED <<locks, flags, job, data, owner>>

IoEnd(w) ==
    /\ Goto(w, "io", <<"close">>)
    /\ ~isClosed /\ job[w] = Read /\ ended
    /\ io' = [io EXCEPT ![Read] = "none"]
    /\ UNCHANGED <<locks, flags, job, data, owner>>

\* Mutant: the next read is posted before the data of this one is used.
RearmFirst(w) ==
    /\ Goto(w, "io", <<"asyncRead", "parse">>)
    /\ ~isClosed /\ job[w] = Read /\ ~ended
    /\ UNCHANGED <<locks, flags, io, job, data, owner>>

IoData(w) ==
    /\ Goto(w, "io", <<"parse">>)
    /\ ~isClosed /\ job[w] = Read /\ ~ended
    /\ UNCHANGED <<locks, flags, io, job, data, owner>>

\* Mutant: processData without the asyncRead behind it.
ForgetToRearm(w) ==
    /\ Goto(w, "parse", << >>)
    /\ inbound = << >>
    /\ io' = [io EXCEPT ![Read] = "none"]
    /\ UNCHANGED <<locks, flags, job, data, owner>>

\* processData has no whole frame left.
ParseDone(w) ==
    /\ Goto(w, "parse", <<"asyncRead">>)
    /\ inbound = << >>
    /\ io' = [io EXCEPT ![Read] = "none"]
    /\ UNCHANGED <<locks, flags, job, data, owner>>

\* parseHeader throws, and handleIOCompletion closes.
ParseBad(w) ==
    /\ Goto(w, "parse", <<"close">>)
    /\ inbound # << >> /\ Head(inbound).kind = "Bad"
    /\ inbound' = << >>
    /\ io' = [io EXCEPT ![Read] = "none"]
    /\ UNCHANGED <<locks, flags, job, ended, frames, owner>>

\* handleFrame up to its switch.
LockFrame(w) ==
    /\ Goto(w, "parse", <<"frame", "unlockCb", "parse">>)
    /\ inbound # << >> /\ Head(inbound).kind # "Bad"
    /\ cb = Free /\ cb' = w
    /\ UNCHANGED <<core, sock, flags, io, job, data, owner>>

\* The switch: on_message_ echoes (Server::handleClientMessage), a Ping is
\* answered, a Close closes, the rest is ignored.
HandleFrame(w) ==
    LET kind == Head(inbound).kind
    IN /\ Goto(w, "frame", CASE kind = "Text" /\ onMessage -> <<"asyncWrite">>
                             [] kind = "Ping" -> <<"asyncWrite">>
                             [] kind = "Close" -> <<"close">>
                             [] OTHER -> << >>)
       /\ inbound' = Tail(inbound)
       /\ said' = IF kind = "Text" /\ onMessage THEN Append(said, Head(inbound).id) ELSE said
       /\ UNCHANGED <<locks, flags, io, job, ended, frames, sends, told>>

UnlockCb(w) ==
    /\ Goto(w, "unlockCb", << >>)
    /\ cb' = Free
    /\ UNCHANGED <<core, sock, flags, io, job, data, owner>>
-----------------------------------------------------------------------------
\* asyncRead and asyncWrite: the test of is_closed_, then a critical section.
SkipClosed(t) ==
    /\ Goto(t, "asyncRead", << >>) \/ Goto(t, "asyncWrite", << >>)
    /\ isClosed
    /\ UNCHANGED <<locks, flags, io, job, data, owner>>

TestOpen(t) ==
    /\ Goto(t, "asyncRead", <<"recv">>) \/ Goto(t, "asyncWrite", <<"send">>)
    /\ ~isClosed
    /\ UNCHANGED <<locks, flags, io, job, data, owner>>

SocketGone(t) ==
    /\ Goto(t, "recv", << >>) \/ Goto(t, "send", << >>)
    /\ sock = Free /\ ~socketOpen
    /\ UNCHANGED <<locks, flags, io, job, data, owner>>

PostRead(t) ==
    /\ Goto(t, "recv", << >>)
    /\ sock = Free /\ socketOpen
    /\ io' = [io EXCEPT ![Read] = "kernel"]
    /\ UNCHANGED <<locks, flags, job, data, owner>>

\* The operation that new gives asyncWrite: whichever, each only once.
New(o) == io[o] = "none" /\ o = CHOOSE p \in Writes : io[p] = "none"

PostWrite(t, o) ==
    /\ Goto(t, "send", << >>)
    /\ sock = Free /\ socketOpen
    /\ New(o) /\ io' = [io EXCEPT ![o] = "kernel"]
    /\ UNCHANGED <<locks, flags, job, data, owner>>

\* WSARecv or WSASend fails at once: close, with socket_mutex_ held.  The operation
\* of the write is deleted first.
ReadFails(t) ==
    /\ Goto(t, "recv", <<"close", "unlockSock">>)
    /\ socketOpen
    /\ sock = Free /\ sock' = t
    /\ UNCHANGED <<core, cb, flags, io, job, data, owner>>

WriteFails(t, o) ==
    /\ Goto(t, "send", <<"close", "unlockSock">>)
    /\ socketOpen
    /\ sock = Free /\ sock' = t
    /\ New(o) /\ io' = [io EXCEPT ![o] = "freed"]
    /\ UNCHANGED <<core, cb, flags, job, data, owner>>

UnlockSock(t) ==
    /\ Goto(t, "unlockSock", << >>)
    /\ sock' = Free
    /\ UNCHANGED <<core, cb, flags, io, job, data, owner>>
-----------------------------------------------------------------------------
\* close: is_closed_.exchange(true).
CloseAgain(t) ==
    /\ Goto(t, "close", << >>)
    /\ isClosed
    /\ UNCHANGED <<locks, flags, io, job, data, owner>>

\* Mutant: a load, and a store that closers can both reach.
CloseTested(t) ==
    /\ \/ Goto(t, "close", <<"store">>) /\ ~isClosed /\ UNCHANGED isClosed
       \/ Goto(t, "store", <<"shut">>) /\ isClosed' = TRUE
    /\ UNCHANGED <<locks, socketOpen, onMessage, onClose, io, job, data, owner>>

CloseFirst(t) ==
    /\ Goto(t, "close", <<"shut">>)
    /\ ~isClosed /\ isClosed' = TRUE
    /\ UNCHANGED <<locks, socketOpen, onMessage, onClose, io, job, data, owner>>

\* Mutant: the operations of the socket are freed with it.
ShutAndFree(t) ==
    /\ Goto(t, "shut", <<"tell">>)
    /\ sock = Free /\ sock' = t
    /\ socketOpen' = FALSE
    /\ io' = [o \in Ops |-> IF io[o] # "kernel" THEN io[o]
                            ELSE IF o = Read THEN "queued" ELSE "freed"]
    /\ UNCHANGED <<core, cb, isClosed, onMessage, onClose, job, data, owner>>

\* closesocket aborts what is pending.  The asyncWrite of the close frame before
\* it returns at once, because is_closed_ is set.
Shut(t) ==
    /\ Goto(t, "shut", <<"tell">>)
    /\ sock = Free /\ sock' = t
    /\ socketOpen' = FALSE
    /\ io' = [o \in Ops |-> IF io[o] = "kernel" THEN "queued" ELSE io[o]]
    /\ UNCHANGED <<core, cb, isClosed, onMessage, onClose, job, data, owner>>

\* Mutant: try_lock instead of the lock, which would end the self-deadlocks.
TellIfFree(t) ==
    /\ Goto(t, "tell", << >>)
    /\ told' = IF cb = Free /\ onClose THEN told + 1 ELSE told
    /\ sock' = Free
    /\ UNCHANGED <<core, cb, flags, io, job, data, sends, said>>

\* on_close_, under both mutexes; then both are released.
Tell(t) ==
    /\ Goto(t, "tell", << >>)
    /\ cb = Free
    /\ told' = IF onClose THEN told + 1 ELSE told
    /\ sock' = Free
    /\ UNCHANGED <<core, cb, flags, io, job, data, sends, said>>
-----------------------------------------------------------------------------
\* A thread of the program, once it can have the connection.
SendText ==
    /\ onClose /\ sends < MaxSends /\ sends' = sends + 1
    /\ Begin(App, <<"asyncWrite">>)
    /\ UNCHANGED <<locks, flags, io, job, data, said, told>>

CallClose ==
    /\ onClose
    /\ Begin(App, <<"close">>)
    /\ UNCHANGED <<locks, flags, io, job, data, owner>>
-----------------------------------------------------------------------------
\* The mutex a thread waits for next, and who has it.
WaitsFor(t) == CASE Top(t) \in {"recv", "send", "shut"} -> sock
                 [] Top(t) \in {"parse", "tell", "setMessage", "setClose"} -> cb
                 [] OTHER -> Free

\* A thread that waits for itself, or two that wait for each other.
Locked == \E t, u \in Threads : WaitsFor(t) = u /\ WaitsFor(u) = t

\* For such threads nothing goes on.
Stuck == Locked /\ UNCHANGED vars

CallStep(t) == \/ SkipClosed(t) \/ TestOpen(t) \/ SocketGone(t) \/ PostRead(t)
               \/ \E o \in Writes : PostWrite(t, o) \/ WriteFails(t, o)
               \/ ReadFails(t) \/ UnlockSock(t)
               \/ CloseAgain(t) \/ CloseFirst(t) \/ Shut(t) \/ Tell(t)

WorkerStep(w) == \/ SetMessageCallback(w) \/ SetCloseCallback(w)
                 \/ \E o \in Ops : Take(w, o)
                 \/ Leave(w)
                 \/ IoClosed(w) \/ IoWritten(w) \/ IoNothing(w) \/ FreeOp(w)
                 \/ IoEnd(w) \/ IoData(w)
                 \/ ParseDone(w) \/ ParseBad(w) \/ LockFrame(w) \/ HandleFrame(w)
                 \/ UnlockCb(w)

Batches == UNION {[1..n -> Kinds] : n \in 0..MaxBatch}

Next == \/ \E t \in Threads : CallStep(t)
        \/ \E w \in Workers : WorkerStep(w)
        \/ \E batch \in Batches : KernelReads(batch)
        \/ KernelEnds
        \/ \E o \in Writes : KernelWrites(o)
        \/ SendText \/ CallClose
        \/ Stuck

Spec == Init /\ [][Next]_vars

\* Threads run on and get a mutex they keep finding free.
Fairness == /\ \A t \in Threads : SF_vars(CallStep(t))
            /\ \A w \in Workers : SF_vars(WorkerStep(w))

FairSpec == Spec /\ Fairness
-----------------------------------------------------------------------------
Places == {"asyncRead", "asyncWrite", "recv", "send", "unlockSock", "close", "shut", "tell",
           "setMessage", "setClose", "io", "freeOp", "leave", "parse", "frame", "unlockCb"}

Has(s, p) == \E i \in DOMAIN s : s[i] = p

\* A worker in processData, or in what it calls.
InParse(w) == Has(stack[w], "parse")

\* Every variable stays within its type.
TypeOK ==
    /\ stack \in [Threads -> Seq(Places)]
    /\ core \in Workers \cup {Free} /\ {sock, cb} \subseteq Threads \cup {Free}
    /\ {isClosed, socketOpen, onMessage, onClose, ended} \subseteq BOOLEAN
    /\ io \in [Ops -> {"none", "kernel", "queued", "inHand", "freed", "lost"}]
    /\ io[Read] \in {"none", "kernel", "queued", "inHand"}
    /\ job \in [Workers -> Ops]
    /\ inbound \in Seq([kind : Kinds, id : 1..MaxFrames])
    /\ frames \in 0..MaxFrames /\ sends \in 0..MaxSends
    /\ said \in Seq(1..MaxFrames) /\ told \in Nat

\* While a worker works on what a read brought, the kernel has no read that
\* writes into the same buffer, and no other worker does so
\* (websocket_connection.cpp:61-65).
OneReader ==
    \A w \in Workers : InParse(w) =>
        /\ io[Read] = "inHand"
        /\ \A v \in Workers : InParse(v) => v = w

\* The read is posted before the callbacks are set, yet no frame meets a missing
\* callback: IOCPCore's mutex holds its completion back (server.cpp:57-65).
NoFrameTooEarly == \A w \in Workers : InParse(w) => onMessage /\ onClose

\* A write belongs to the kernel from WSASend to its completion.  It is freed once:
\* when the completion was handled, also one of 0 bytes that closes, or at once when
\* WSASend fails.  Only a closed connection loses one
\* (websocket_connection.cpp:45, 52, 55-58, 183-198).
WriteLife ==
    [][\A o \in Writes : io'[o] # io[o] =>
          \/ <<io[o], io'[o]>> \in {<<"none", "kernel">>, <<"none", "freed">>,
                                    <<"kernel", "queued">>, <<"queued", "inHand">>,
                                    <<"inHand", "freed">>}
          \/ <<io[o], io'[o]>> = <<"inHand", "lost">> /\ isClosed]_io

Channel == INSTANCE WsChannel WITH arrived <- inbound, closing <- isClosed

\* The connection keeps the promises of WsChannel: frames in order and at most
\* once, whatever closes it meanwhile, and on_close_ once, after the last arrival.
ChannelSpec == Channel!Spec

\* A close that has begun is told to the owner, unless a thread has locked itself
\* out (websocket_connection.cpp:147-175).
ClosesUnlessLocked == isClosed ~> told = 1 \/ Locked

\* An open connection always comes back to a pending read, unless a thread has
\* locked itself out (websocket_connection.cpp:64).
KeepsReading == []<>(io[Read] = "kernel" \/ isClosed \/ Locked)

\* A Close frame closes the connection, and close calls the owner's callback
\* (websocket_connection.cpp:119-121, 172-174).
CloseFrameIsTold ==
    \A w \in Workers : Top(w) = "frame" /\ Head(inbound).kind = "Close" ~> told = 1
=============================================================================
