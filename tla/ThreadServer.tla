---------------------------- MODULE ThreadServer ----------------------------
(***************************************************************************)
(* The producer/consumer server of acos3: the main thread (start, Enter,   *)
(* closeServer), the thread that runs Server::run, the worker that runs    *)
(* processTasks and one detached thread per client that runs handleClient. *)
(* They share the task queue (TaskQueue), consoleMutex, socketMutex, the   *)
(* flag isRunning, the worker's thread object and the socket handles.      *)
(*                                                                         *)
(* A critical section that takes no second lock is one step; where a       *)
(* thread takes a second lock, each acquisition is a step.  Log lines that *)
(* only take consoleMutex by itself are left out.                          *)
(***************************************************************************)
EXTENDS Naturals, Sequences

CONSTANTS Conns,    \* client connections; each is accepted at most once
          Handles,  \* SOCKET values the system hands out, reused once closed
          Worker, Run, Main,    \* the three other threads
          Free,     \* a mutex has no owner
          NoConn, NoHandle, NoTask,
          MaxMsgs,  \* bound of the model: messages received on one connection
          MaxQueue  \* bound of the model: length of the task queue

Threads == Conns \cup {Worker, Run, Main}
Task == [from : Conns, n : 1..MaxMsgs, sock : Handles]

ASSUME ServerAssumption ==
    /\ {Worker, Run, Main} \cap Conns = {}
    /\ Worker # Run /\ Worker # Main /\ Run # Main
    /\ Free \notin Threads
    /\ NoConn \notin Conns
    /\ NoHandle \notin Handles
    /\ NoTask \notin Task
    /\ MaxMsgs \in Nat
    /\ MaxQueue \in Nat

VARIABLES queue, stopFlag, stopPc, mtx, waiting, qpc, ret,  \* see TaskQueue
          at,            \* where each thread is
          isRunning,     \* the std::atomic<bool>
          worker,        \* the std::thread in workerThreads
          consoleMutex, socketMutex,    \* their owners, or Free
          accepted,      \* clientSocket, the local variable of run
          sock,          \* which connection each open handle denotes
          handleOf,      \* clientSocket, the argument of each handleClient
          got,           \* messages each handler has received
          pushed,        \* history: the tasks queued, in order
          answered,      \* history: the tasks responded to, and who got it
          drain          \* history: Len(pushed) when isRunning was cleared

queueVars == <<queue, stopFlag, stopPc, mtx, waiting, qpc, ret>>
flags == <<isRunning, worker>>
locks == <<consoleMutex, socketMutex>>
net   == <<accepted, sock, handleOf, got>>
hist  == <<pushed, answered, drain>>
vars  == <<queueVars, at, flags, locks, net, hist>>

Q == INSTANCE TaskQueue WITH Producers <- Conns, Consumers <- {Worker},
                             Tasks <- Task, pc <- qpc

Init == /\ Q!Init
        /\ at = [t \in Threads |-> CASE t = Main -> "enter" [] t = Run -> "start"
                                     [] OTHER -> "none"]
        /\ isRunning = TRUE                \* startServer has succeeded
        /\ worker = "none"
        /\ consoleMutex = Free /\ socketMutex = Free
        /\ accepted = NoConn
        /\ sock = [h \in Handles |-> NoConn]
        /\ handleOf = [c \in Conns |-> NoHandle]
        /\ got = [c \in Conns |-> 0]
        /\ pushed = << >> /\ answered = << >> /\ drain = 0

Alive == at[Main] \notin {"exit", "terminated"}
Listening == at[Main] \in {"enter", "stop", "closeListen"}
At(t, place) == Alive /\ at[t] = place
Goto(t, from, to) == At(t, from) /\ at' = [at EXCEPT ![t] = to]
-----------------------------------------------------------------------------
(* handleClient, one thread per connection *)

HandlerTest(c) ==
    /\ Goto(c, "loop", IF isRunning THEN "recv" ELSE "close")
    /\ UNCHANGED <<queueVars, locks, flags, net, hist>>

\* recv returns bytes; how they were split into sends is not visible here.
Receive(c) ==
    /\ got[c] < MaxMsgs
    /\ Goto(c, "recv", "log")
    /\ got' = [got EXCEPT ![c] = @ + 1]
    /\ UNCHANGED <<queueVars, locks, flags, accepted, sock, handleOf, hist>>

\* Mutant: the result of recv is not tested.
IgnoreRecvResult(c) ==
    /\ Goto(c, "recv", "log")
    /\ UNCHANGED <<queueVars, locks, flags, net, hist>>

\* recv returns 0 or SOCKET_ERROR.
ReceiveFails(c) ==
    /\ Goto(c, "recv", "close")
    /\ UNCHANGED <<queueVars, locks, flags, net, hist>>

LogLock(c) ==
    /\ Goto(c, "log", "size")
    /\ consoleMutex = Free /\ consoleMutex' = c
    /\ UNCHANGED <<queueVars, socketMutex, flags, net, hist>>

\* taskQueue.size() locks and unlocks mtx while consoleMutex is held.
LogSize(c) ==
    /\ Goto(c, "size", "push")
    /\ mtx = Free
    /\ consoleMutex' = Free
    /\ UNCHANGED <<queueVars, socketMutex, flags, net, hist>>

PushTaskLock(c) ==
    /\ At(c, "push")
    /\ Q!PushLock(c)
    /\ UNCHANGED <<locks, flags, net, hist, at>>

\* Mutant: clientSocket is captured by reference, and run has gone on with it.
PushLatest(c) ==
    LET owner == IF accepted = NoConn THEN c ELSE accepted
        task == [from |-> c, n |-> got[c], sock |-> handleOf[owner]]
    IN  /\ Goto(c, "push", "loop")
        /\ Q!PushBody(c, task)
        /\ pushed' = Append(pushed, task)
        /\ UNCHANGED <<locks, flags, net, answered, drain>>

PushTask(c) ==
    LET task == [from |-> c, n |-> got[c], sock |-> handleOf[c]]
    IN  /\ Goto(c, "push", "loop")
        /\ Q!PushBody(c, task)
        /\ pushed' = Append(pushed, task)
        /\ UNCHANGED <<locks, flags, net, answered, drain>>

CloseClient(c) ==
    /\ Goto(c, "close", "done")
    /\ socketMutex = Free
    /\ sock' = [sock EXCEPT ![handleOf[c]] = NoConn]
    /\ UNCHANGED <<queueVars, locks, flags, accepted, handleOf, got, hist>>
-----------------------------------------------------------------------------
(* processTasks and sendResponse, the worker *)

\* Mutant: while (isRunning.load()) only.
StopAtOnce ==
    /\ Goto(Worker, "loop", IF isRunning THEN "pop" ELSE "done")
    /\ UNCHANGED <<queueVars, locks, flags, net, hist>>

\* isRunning.load() || !taskQueue.empty(), two reads of two shared states.
WorkerTest ==
    /\ Goto(Worker, "loop", IF isRunning THEN "pop" ELSE "empty")
    /\ UNCHANGED <<queueVars, locks, flags, net, hist>>

WorkerEmpty ==
    /\ Goto(Worker, "empty", IF queue = << >> THEN "done" ELSE "pop")
    /\ mtx = Free
    /\ UNCHANGED <<queueVars, locks, flags, net, hist>>

WorkerInPop ==
    /\ At(Worker, "pop")
    /\ \/ Q!PopLock(Worker) \/ Q!PopTest(Worker)
       \/ Q!PopWait(Worker) \/ Q!PopRelock(Worker)
    /\ UNCHANGED <<locks, flags, net, hist, at>>

WorkerWakes ==
    /\ Alive
    /\ Q!SpuriousWake(Worker)
    /\ UNCHANGED <<locks, flags, net, hist, at>>

\* Mutant: a task taken after the flag is cleared is dropped.
DropTask ==
    /\ Goto(Worker, "pop", IF isRunning THEN "send" ELSE "loop")
    /\ Q!PopFront(Worker)
    /\ UNCHANGED <<locks, flags, net, hist>>

TakeTask ==
    /\ Goto(Worker, "pop", "send")
    /\ Q!PopFront(Worker)
    /\ UNCHANGED <<locks, flags, net, hist>>

\* The empty task: break.
TakeNothing ==
    /\ Goto(Worker, "pop", "done")
    /\ Q!PopNothing(Worker)
    /\ UNCHANGED <<locks, flags, net, hist>>

SendLock ==
    /\ Goto(Worker, "send", "sending")
    /\ socketMutex = Free /\ socketMutex' = Worker
    /\ UNCHANGED <<queueVars, consoleMutex, flags, net, hist>>

Answer(to) == answered' = Append(answered, [task |-> ret[Worker], to |-> to])

\* send succeeds: the bytes go to whoever the handle denotes now.
SendDelivers ==
    LET to == sock[ret[Worker].sock]
    IN  /\ Goto(Worker, "sending", "loop")
        /\ to # NoConn
        /\ Answer(to)
        /\ socketMutex' = Free
        /\ UNCHANGED <<queueVars, consoleMutex, flags, net, pushed, drain>>

\* Mutant: the worker closes a socket it cannot send on.
CloseOnFailure ==
    /\ Goto(Worker, "sending", "loop")
    /\ Answer(NoConn)
    /\ socketMutex' = Free
    /\ sock' = [sock EXCEPT ![ret[Worker].sock] = NoConn]
    /\ UNCHANGED <<queueVars, consoleMutex, flags, accepted, handleOf, got,
                   pushed, drain>>

\* WSAECONNRESET, or WSAENOTSOCK when the handle is closed: no message.
SendFails ==
    /\ Goto(Worker, "sending", "loop")
    /\ Answer(NoConn)
    /\ socketMutex' = Free
    /\ UNCHANGED <<queueVars, consoleMutex, flags, net, pushed, drain>>

\* Mutant: any other error is retried.
RetryForever ==
    /\ Goto(Worker, "sending", "send")
    /\ sock[ret[Worker].sock] # NoConn
    /\ socketMutex' = Free
    /\ UNCHANGED <<queueVars, consoleMutex, flags, net, hist>>

\* Any other error is reported, with socketMutex still held.
SendFailsLoudly ==
    /\ Goto(Worker, "sending", "report")
    /\ sock[ret[Worker].sock] # NoConn
    /\ Answer(NoConn)
    /\ UNCHANGED <<queueVars, locks, flags, net, pushed, drain>>

SendReport ==
    /\ Goto(Worker, "report", "loop")
    /\ consoleMutex = Free
    /\ socketMutex' = Free
    /\ UNCHANGED <<queueVars, consoleMutex, flags, net, hist>>
-----------------------------------------------------------------------------
(* run, started by main in a thread of its own *)

RunTest ==
    /\ Goto(Run, "start", IF isRunning THEN "spawn" ELSE "done")
    /\ UNCHANGED <<queueVars, locks, flags, net, hist>>

\* workerThreads.emplace_back: the worker starts.
RunSpawn ==
    /\ At(Run, "spawn")
    /\ at' = [at EXCEPT ![Run] = "loop", ![Worker] = "loop"]
    /\ worker' = "joinable"
    /\ UNCHANGED <<queueVars, locks, isRunning, net, hist>>

RunLoop ==
    /\ Goto(Run, "loop", IF isRunning THEN "accept" ELSE "done")
    /\ UNCHANGED <<queueVars, locks, flags, net, hist>>

\* A client connects; the system picks any handle that is not in use.
AcceptClient(c, h) ==
    /\ Listening
    /\ Goto(Run, "accept", "console")
    /\ handleOf[c] = NoHandle /\ sock[h] = NoConn
    /\ accepted' = c
    /\ sock' = [sock EXCEPT ![h] = c]
    /\ handleOf' = [handleOf EXCEPT ![c] = h]
    /\ UNCHANGED <<queueVars, locks, flags, got, hist>>

\* INVALID_SOCKET: continue.
AcceptFails ==
    /\ Goto(Run, "accept", "loop")
    /\ UNCHANGED <<queueVars, locks, flags, net, hist>>

RunConsole ==
    /\ Goto(Run, "console", "emplace")
    /\ consoleMutex = Free /\ consoleMutex' = Run
    /\ UNCHANGED <<queueVars, socketMutex, flags, net, hist>>

RunEmplace ==
    /\ At(Run, "emplace")
    /\ at' = [at EXCEPT ![Run] = "detach", ![accepted] = "loop"]
    /\ UNCHANGED <<queueVars, locks, flags, net, hist>>

\* The thread is detached but stays in the vector; the lock ends here.
RunDetach ==
    /\ Goto(Run, "detach", "loop")
    /\ accepted' = NoConn
    /\ consoleMutex' = Free
    /\ UNCHANGED <<queueVars, socketMutex, flags, sock, handleOf, got, hist>>
-----------------------------------------------------------------------------
(* main: Enter, closeServer, serverThread.join, ~Server *)

PressEnter ==
    /\ Goto(Main, "enter", "stop")
    /\ isRunning /\ isRunning' = FALSE
    /\ drain' = Len(pushed)
    /\ UNCHANGED <<queueVars, locks, worker, net, pushed, answered>>

StopQueue ==
    /\ \/ Q!StopStore /\ At(Main, "stop") /\ UNCHANGED at
       \/ Q!StopNotify /\ Goto(Main, "stop", "closeListen")
    /\ UNCHANGED <<locks, flags, net, hist>>

CloseListen ==
    /\ Goto(Main, "closeListen", "join")
    /\ UNCHANGED <<queueVars, locks, flags, net, hist>>

\* No worker in the vector: nothing to join.
NoWorkerToJoin ==
    /\ Goto(Main, "join", "clear")
    /\ worker = "none"
    /\ UNCHANGED <<queueVars, locks, flags, net, hist>>

\* Mutant: detach instead of join.
DetachWorker ==
    /\ Goto(Main, "join", "clear")
    /\ worker = "joinable"
    /\ worker' = "joined"
    /\ UNCHANGED <<queueVars, locks, isRunning, net, hist>>

JoinWorker ==
    /\ Goto(Main, "join", "clear")
    /\ worker = "joinable" /\ at[Worker] = "done"
    /\ worker' = "joined"
    /\ UNCHANGED <<queueVars, locks, isRunning, net, hist>>

\* Clearing a vector that holds a joinable thread calls std::terminate.
JoinableInVector == worker = "joinable" \/ at[Run] = "detach"

ClearThreads ==
    /\ Goto(Main, "clear", IF JoinableInVector THEN "terminated" ELSE "cleanup")
    /\ worker' = IF JoinableInVector THEN worker ELSE "none"
    /\ UNCHANGED <<queueVars, locks, isRunning, net, hist>>

\* WSACleanup closes every socket of the process.
Cleanup ==
    /\ Goto(Main, "cleanup", "joinRun")
    /\ sock' = [h \in Handles |-> NoConn]
    /\ UNCHANGED <<queueVars, locks, flags, accepted, handleOf, got, hist>>

\* serverThread.join, then ~Server destroys what the vectors still hold.
JoinRun ==
    /\ Goto(Main, "joinRun", IF worker = "joinable" THEN "terminated" ELSE "exit")
    /\ At(Run, "done")
    /\ UNCHANGED <<queueVars, locks, flags, net, hist>>
-----------------------------------------------------------------------------
HandlerStep(c) == \/ HandlerTest(c) \/ LogLock(c) \/ LogSize(c)
                  \/ PushTaskLock(c) \/ PushTask(c) \/ CloseClient(c)
WorkerStep == \/ WorkerTest \/ WorkerEmpty \/ WorkerInPop \/ TakeTask
              \/ TakeNothing \/ SendLock \/ SendDelivers \/ SendFails
              \/ SendFailsLoudly \/ SendReport
RunStep == RunTest \/ RunSpawn \/ RunLoop \/ RunConsole \/ RunEmplace \/ RunDetach
Accept == AcceptFails \/ \E c \in Conns, h \in Handles : AcceptClient(c, h)
MainStep == \/ StopQueue \/ CloseListen \/ NoWorkerToJoin \/ JoinWorker
            \/ ClearThreads \/ Cleanup \/ JoinRun

\* The process has ended; everything it ran has ended with it.
Ended == ~Alive /\ UNCHANGED vars

Next == \/ \E c \in Conns : HandlerStep(c) \/ Receive(c) \/ ReceiveFails(c)
        \/ WorkerStep \/ WorkerWakes
        \/ RunStep \/ Accept
        \/ PressEnter \/ MainStep
        \/ Ended

Spec == Init /\ [][Next]_vars

\* Every thread runs on and gets a mutex it keeps finding free; accept fails
\* once the listening socket is closed.  Clients need not send or connect, the
\* user need not press Enter, and a waiting thread need not wake by itself.
Fairness == /\ \A c \in Conns : SF_vars(HandlerStep(c))
            /\ SF_vars(WorkerStep)
            /\ SF_vars(RunStep)
            /\ WF_vars(~Listening /\ AcceptFails)
            /\ WF_vars(MainStep)

FairSpec == Spec /\ Fairness
-----------------------------------------------------------------------------
HandlerRuns(c) == at[c] \in {"loop", "recv", "log", "size", "push", "close"}
WorkerSends == at[Worker] \in {"send", "sending", "report"}
AfterJoin == at[Main] \in {"clear", "cleanup", "joinRun", "exit", "terminated"}
SocketsUp == at[Main] \notin {"joinRun", "exit", "terminated"}

Places == {"none", "loop", "recv", "log", "size", "push", "close", "done",
           "empty", "pop", "send", "sending", "report",
           "start", "spawn", "accept", "console", "emplace", "detach",
           "enter", "stop", "closeListen", "join", "clear", "cleanup",
           "joinRun", "exit", "terminated"}

\* Every variable stays within its type (thread_server.h:27-30, 73-87).
TypeOK ==
    /\ Q!TypeOK
    /\ isRunning \in BOOLEAN
    /\ consoleMutex \in Conns \cup {Run, Free}
    /\ socketMutex \in {Worker, Free}
    /\ at \in [Threads -> Places]
    /\ worker \in {"none", "joinable", "joined"}
    /\ accepted \in Conns \cup {NoConn}
    /\ sock \in [Handles -> Conns \cup {NoConn}]
    /\ handleOf \in [Conns -> Handles \cup {NoHandle}]
    /\ got \in [Conns -> 0..MaxMsgs]
    /\ pushed \in Seq(Task)
    /\ answered \in Seq([task : Task, to : Conns \cup {NoConn}])
    /\ drain \in Nat

InHand == IF at[Worker] \in {"send", "sending"} THEN <<ret[Worker]>> ELSE << >>
AnsweredTasks == [i \in 1..Len(answered) |-> answered[i].task]

\* Every task pushed has been answered, is in the worker's hands or is still
\* queued, and answers leave in the order of the pushes: none is lost, doubled
\* or overtaken (thread_server.cpp:107, 144-177).
TasksAccountedFor == pushed = AnsweredTasks \o InHand \o queue

\* When closeServer gets past the join, every task pushed before isRunning was
\* cleared has been responded to (thread_server.cpp:144, 236).
GracefulDrain == AfterJoin => drain <= Len(answered)

\* WSACleanup never runs under a response (thread_server.cpp:236, 247).
NoSendUnderCleanup == AfterJoin => ~WorkerSends

\* A handle a running handler reads from and will close denotes its own
\* connection, although handles are reused and the worker sends on them too
\* (thread_server.cpp:92, 133).
HandlerOwnsItsSocket ==
    SocketsUp => \A c \in Conns : HandlerRuns(c) => sock[handleOf[c]] = c

\* A response that misses its sender goes to a later client with the same handle, and
\* only when the sender's handler has ended: a client that is still served gets its own
\* responses, whatever is closed and accepted meanwhile (thread_server.cpp:66-71, 131-134).
MissesOnlyTheGone ==
    \A i \in DOMAIN answered :
        LET to == answered[i].to  from == answered[i].task.from
        IN  to \notin {from, NoConn} => at[from] = "done" /\ handleOf[to] = handleOf[from]

\* A task pushed while the server runs is answered, shutdown or not.
PushedIsAnswered ==
    \A k \in 1..MaxQueue : (isRunning /\ Len(pushed) = k) ~> (Len(answered) >= k)

\* The only way closeServer hangs in the join is a worker asleep in pop for
\* good: no lock order, send or handler can hold it up (thread_server.cpp:236).
HangsOnlyAsleep == <>[](at[Main] = "join") => <>[](Worker \in waiting)

\* What the code says, and does not do.

\* A response reaches the client that sent the task, or nobody
\* (thread_server.cpp:66, "check that the socket is still valid").
RightRecipient ==
    \A i \in 1..Len(answered) :
       answered[i].to \in {answered[i].task.from, NoConn}

\* closeServer waits for the worker and returns (thread_server.cpp:235).
CloseReturns == (at[Main] = "join") ~> (at[Main] # "join")
=============================================================================
