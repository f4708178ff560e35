------------------------- MODULE ThreadServerProofs -------------------------
(***************************************************************************)
(* Proofs about the acos3 server for every number of clients, handles and  *)
(* messages: it drives the task queue as TaskQueue allows, loses no task,  *)
(* and hands over its sockets and its worker cleanly at shutdown.          *)
(***************************************************************************)
EXTENDS ThreadServer, SequenceTheorems, TLAPS

\* A running handler has a handle, and has received what it is about to push;
\* the worker sends only what it took from the queue; the connection run has
\* accepted has no handler yet.
Known == /\ \A c \in Conns : at[c] # "none" => handleOf[c] \in Handles
         /\ \A c \in Conns : at[c] \in {"log", "size", "push"} => got[c] > 0
         /\ at[Worker] \in {"send", "sending"} => ret[Worker] \in Task
         /\ at[Run] \in {"console", "emplace"} =>
               /\ accepted \in Conns
               /\ handleOf[accepted] \in Handles
               /\ at[accepted] = "none"

\* Until WSACleanup an accepted connection that is not closed owns its handle.
Sockets == SocketsUp =>
              \A c \in Conns : handleOf[c] # NoHandle /\ at[c] # "done"
                                => sock[handleOf[c]] = c

\* No worker has been started, so no client has been accepted.
NoWorkerYet == /\ at[Run] \in {"start", "spawn", "done"}
               /\ queue = << >>
               /\ \A c \in Conns : handleOf[c] = NoHandle

\* A worker started after the join finds no client and nothing to do.
LateWorker == /\ at[Worker] \in {"none", "loop", "empty"}
              /\ at[Run] \in {"start", "spawn", "loop", "done"}
              /\ queue = << >>
              /\ \A c \in Conns : handleOf[c] = NoHandle

\* How far the worker, run and main can be from one another.
Phases == /\ isRunning => at[Main] = "enter"
          /\ at[Main] = "enter" => isRunning /\ stopPc = "idle"
          /\ stopPc # "idle" <=> stopFlag
          /\ at[Worker] = "none" => NoWorkerYet
          /\ at[Run] \in {"start", "spawn"} => at[Worker] = "none"
          /\ ~AfterJoin => (worker = "none" => at[Worker] = "none")
          /\ at[Worker] \in {"empty", "done"} => ~isRunning
          /\ AfterJoin => at[Worker] = "done" \/ LateWorker

\* What was pushed before the shutdown, and is answered once the worker ends.
Drained == /\ drain <= Len(pushed)
           /\ at[Worker] = "done" => drain <= Len(answered)

ServerInv == TypeOK /\ Known /\ Sockets /\ Phases /\ TasksAccountedFor /\ Drained

USE DEF At, Goto, Threads

\* What a step of the server does to the queue is a step of the queue.
LEMMA QueueStep == TypeOK /\ Known /\ [Next]_vars => [Q!Next]_(Q!vars)
<1> SUFFICES ASSUME TypeOK, Known, [Next]_vars PROVE [Q!Next]_(Q!vars)
  OBVIOUS
<1> USE DEF queueVars, Q!vars
<1>1. ASSUME NEW c \in Conns, PushTaskLock(c) PROVE Q!Next
  BY <1>1 DEF PushTaskLock, Q!Next, Q!Push
<1>2. ASSUME NEW c \in Conns, PushTask(c) PROVE Q!Next
  <2> DEFINE task == [from |-> c, n |-> got[c], sock |-> handleOf[c]]
  <2>1. task \in Task
    BY <1>2, ServerAssumption DEF PushTask, Task, TypeOK, Known
  <2>2. Q!PushBody(c, task)
    BY <1>2 DEF PushTask
  <2>3. QED
    BY <2>1, <2>2 DEF Q!Next, Q!Push
<1>3. CASE WorkerInPop \/ WorkerWakes \/ TakeTask \/ TakeNothing
  BY <1>3 DEF WorkerInPop, WorkerWakes, TakeTask, TakeNothing,
              Q!Next, Q!PopAcquire, Q!PopStep
<1>4. CASE StopQueue
  BY <1>4 DEF StopQueue, Q!Next, Q!Stop
<1>5. ASSUME NEW c \in Conns,
             \/ HandlerTest(c) \/ Receive(c) \/ ReceiveFails(c)
             \/ LogLock(c) \/ LogSize(c) \/ CloseClient(c)
      PROVE UNCHANGED queueVars
  BY <1>5 DEF HandlerTest, Receive, ReceiveFails, LogLock, LogSize, CloseClient
<1>6. CASE \/ WorkerTest \/ WorkerEmpty \/ SendLock \/ SendDelivers
           \/ SendFails \/ SendFailsLoudly \/ SendReport
  BY <1>6 DEF WorkerTest, WorkerEmpty, SendLock, SendDelivers, SendFails,
              SendFailsLoudly, SendReport
<1>7. CASE RunStep \/ Accept
  BY <1>7 DEF RunStep, Accept, AcceptClient, AcceptFails, RunTest, RunSpawn,
              RunLoop, RunConsole, RunEmplace, RunDetach
<1>8. CASE \/ PressEnter \/ CloseListen \/ NoWorkerToJoin \/ JoinWorker
           \/ ClearThreads \/ Cleanup \/ JoinRun \/ Ended \/ UNCHANGED vars
  BY <1>8 DEF PressEnter, CloseListen, NoWorkerToJoin, JoinWorker,
              ClearThreads, Cleanup, JoinRun, Ended, vars
<1>9. QED
  BY <1>1, <1>2, <1>3, <1>4, <1>5, <1>6, <1>7, <1>8
     DEF Next, HandlerStep, WorkerStep, MainStep

\* The queue's own types are kept by every step the queue allows.
LEMMA QueueTypeStep == Q!TypeOK /\ [Q!Next]_(Q!vars) => Q!TypeOK'
<1> SUFFICES ASSUME Q!TypeOK, [Q!Next]_(Q!vars) PROVE Q!TypeOK'
  OBVIOUS
<1> USE DEF Q!TypeOK, Q!PcValues, Q!Goto, Q!Threads
<1>1. ASSUME NEW c \in Conns, Q!PushLock(c) PROVE Q!TypeOK'
  BY <1>1 DEF Q!PushLock, Q!Acquire
<1>2. ASSUME NEW c \in Conns, NEW t \in Task, Q!PushBody(c, t) PROVE Q!TypeOK'
  <2>1. queue' \in Seq(Task)
    BY <1>2 DEF Q!PushBody
  <2>2. waiting' \subseteq {Worker}
    BY <1>2 DEF Q!PushBody, Q!NotifyOne
  <2>3. QED
    BY <1>2, <2>1, <2>2 DEF Q!PushBody, Q!Release
<1>3. CASE Q!PopAcquire(Worker)
  BY <1>3 DEF Q!PopAcquire, Q!PopLock, Q!PopRelock, Q!Acquire
<1>4. CASE Q!PopTest(Worker) \/ Q!PopWait(Worker) \/ Q!PopNothing(Worker)
  BY <1>4 DEF Q!PopTest, Q!PopWait, Q!PopNothing, Q!Release
<1>5. CASE Q!PopFront(Worker)
  <2>1. Head(queue) \in Task /\ Tail(queue) \in Seq(Task)
    BY <1>5 DEF Q!PopFront
  <2>2. QED
    BY <1>5, <2>1 DEF Q!PopFront, Q!Release
<1>6. CASE Q!SpuriousWake(Worker)
  BY <1>6 DEF Q!SpuriousWake
<1>7. CASE Q!Stop
  BY <1>7 DEF Q!Stop, Q!StopStore, Q!StopNotify
<1>8. CASE UNCHANGED Q!vars
  BY <1>8 DEF Q!vars
<1>9. QED
  BY <1>1, <1>2, <1>3, <1>4, <1>5, <1>6, <1>7, <1>8
     DEF Q!Next, Q!Push, Q!PopStep

\* Types are kept by every step of the server.
LEMMA TypeStep == TypeOK /\ Known /\ [Next]_vars => TypeOK'
<1> SUFFICES ASSUME TypeOK, Known, [Next]_vars PROVE TypeOK'
  OBVIOUS
<1> USE DEF TypeOK, Places, hist, net, locks, flags
<1>q. Q!TypeOK'
  BY QueueStep, QueueTypeStep
<1>1. ASSUME NEW c \in Conns,
             \/ HandlerTest(c) \/ ReceiveFails(c) \/ LogLock(c) \/ LogSize(c)
      PROVE TypeOK'
  <2>1. CASE HandlerTest(c)
    BY <2>1, <1>q DEF HandlerTest
  <2>2. CASE ReceiveFails(c)
    BY <2>2, <1>q DEF ReceiveFails
  <2>3. CASE LogLock(c)
    BY <2>3, <1>q DEF LogLock
  <2>4. CASE LogSize(c)
    BY <2>4, <1>q DEF LogSize
  <2>5. QED
    BY <1>1, <2>1, <2>2, <2>3, <2>4
<1>a. ASSUME NEW c \in Conns, Receive(c) PROVE TypeOK'
  <2>1. got' \in [Conns -> 0..MaxMsgs]
    <3>1. got[c] + 1 \in 0..MaxMsgs
      BY <1>a, ServerAssumption DEF Receive
    <3>2. QED
      BY <1>a, <3>1 DEF Receive
  <2>2. QED
    BY <1>a, <1>q, <2>1 DEF Receive
<1>2. ASSUME NEW c \in Conns, PushTaskLock(c) PROVE TypeOK'
  BY <1>2, <1>q DEF PushTaskLock
<1>3. ASSUME NEW c \in Conns, PushTask(c) PROVE TypeOK'
  <2>1. [from |-> c, n |-> got[c], sock |-> handleOf[c]] \in Task
    BY <1>3, ServerAssumption DEF PushTask, Task, Known
  <2>2. pushed' \in Seq(Task)
    BY <1>3, <2>1 DEF PushTask
  <2>3. QED
    BY <1>3, <1>q, <2>2 DEF PushTask
<1>4. ASSUME NEW c \in Conns, CloseClient(c) PROVE TypeOK'
  <2>1. sock' \in [Handles -> Conns \cup {NoConn}]
    BY <1>4 DEF CloseClient
  <2>2. QED
    BY <1>4, <1>q, <2>1 DEF CloseClient
<1>5. CASE WorkerTest \/ WorkerEmpty \/ SendLock \/ SendReport
  BY <1>5, <1>q DEF WorkerTest, WorkerEmpty, SendLock, SendReport
<1>6. CASE WorkerInPop \/ WorkerWakes \/ TakeTask \/ TakeNothing
  BY <1>6, <1>q DEF WorkerInPop, WorkerWakes, TakeTask, TakeNothing
<1>7. CASE RunStep \/ AcceptFails
  BY <1>7, <1>q DEF RunStep, AcceptFails, RunTest, RunSpawn,
                    RunLoop, RunConsole, RunEmplace, RunDetach, Known
<1>8. ASSUME NEW c \in Conns, NEW h \in Handles, AcceptClient(c, h)
      PROVE TypeOK'
  BY <1>8, <1>q DEF AcceptClient
<1>9. CASE PressEnter
  <2>1. drain' \in Nat
    BY <1>9 DEF PressEnter
  <2>2. QED
    BY <1>9, <1>q, <2>1 DEF PressEnter
<1>10. CASE \/ StopQueue \/ CloseListen \/ NoWorkerToJoin \/ JoinWorker
            \/ ClearThreads \/ Cleanup \/ JoinRun
  BY <1>10, <1>q DEF StopQueue, CloseListen, NoWorkerToJoin, JoinWorker,
                     ClearThreads, Cleanup, JoinRun
<1>11. CASE Ended \/ UNCHANGED vars
  BY <1>11, <1>q DEF Ended, vars, queueVars
<1>12. CASE SendDelivers \/ SendFails \/ SendFailsLoudly
  <2>1. ret[Worker] \in Task /\ sock[ret[Worker].sock] \in Conns \cup {NoConn}
    BY <1>12 DEF SendDelivers, SendFails, SendFailsLoudly, Known, Task
  <2>2. PICK to \in Conns \cup {NoConn} : Answer(to)
    BY <1>12, <2>1 DEF SendDelivers, SendFails, SendFailsLoudly
  <2>3. answered' \in Seq([task : Task, to : Conns \cup {NoConn}])
    BY <2>1, <2>2 DEF Answer
  <2>4. QED
    BY <1>12, <1>q, <2>3 DEF SendDelivers, SendFails, SendFailsLoudly
<1>13. QED
  BY <1>1, <1>a, <1>2, <1>3, <1>4, <1>5, <1>6, <1>7, <1>8, <1>9, <1>10, <1>11,
     <1>12
     DEF Next, HandlerStep, WorkerStep, MainStep, Accept

\* Handles and message counts stay known.
LEMMA KnownStep == TypeOK /\ Known /\ [Next]_vars => Known'
<1> SUFFICES ASSUME TypeOK, Known, [Next]_vars PROVE Known'
  OBVIOUS
<1> USE ServerAssumption DEF TypeOK, Known, net, queueVars
<1>1. ASSUME NEW c \in Conns,
             \/ HandlerTest(c) \/ ReceiveFails(c)
             \/ LogLock(c) \/ LogSize(c) \/ CloseClient(c)
      PROVE Known'
  BY <1>1 DEF HandlerTest, ReceiveFails, LogLock, LogSize, CloseClient
<1>a. ASSUME NEW c \in Conns, Receive(c) PROVE Known'
  BY <1>a DEF Receive
<1>b. ASSUME NEW c \in Conns, PushTaskLock(c) \/ PushTask(c) PROVE Known'
  BY <1>b DEF PushTaskLock, PushTask, Q!PushLock, Q!PushBody
<1>2. CASE \/ WorkerTest \/ WorkerEmpty \/ SendLock \/ SendDelivers
           \/ SendFails \/ SendFailsLoudly \/ SendReport
  BY <1>2 DEF WorkerTest, WorkerEmpty, SendLock, SendDelivers, SendFails,
              SendFailsLoudly, SendReport
<1>c. CASE WorkerInPop \/ WorkerWakes \/ TakeNothing
  BY <1>c DEF WorkerInPop, WorkerWakes, TakeNothing, Q!PopLock, Q!PopTest,
              Q!PopWait, Q!PopRelock, Q!SpuriousWake
<1>d. CASE TakeTask
  <2>1. ret'[Worker] \in Task
    BY <1>d DEF TakeTask, Q!PopFront, Q!TypeOK
  <2>2. QED
    BY <1>d, <2>1 DEF TakeTask
<1>3. CASE RunStep \/ AcceptFails
  BY <1>3 DEF RunStep, AcceptFails, RunTest, RunSpawn, RunLoop, RunConsole,
              RunEmplace, RunDetach
<1>4. ASSUME NEW c \in Conns, NEW h \in Handles, AcceptClient(c, h)
      PROVE Known'
  BY <1>4 DEF AcceptClient
<1>5. CASE PressEnter \/ MainStep
  BY <1>5 DEF PressEnter, MainStep, StopQueue, Q!StopStore, Q!StopNotify, 
              CloseListen, NoWorkerToJoin, JoinWorker, ClearThreads, Cleanup,
              JoinRun
<1>6. CASE Ended \/ UNCHANGED vars
  BY <1>6 DEF Ended, vars
<1>7. QED
  BY <1>1, <1>a, <1>b, <1>2, <1>c, <1>d, <1>3, <1>4, <1>5, <1>6
     DEF Next, HandlerStep, WorkerStep, Accept

\* No handler closes, and no accept reuses, a handle another handler owns.
LEMMA SocketsStep == TypeOK /\ Known /\ Sockets /\ [Next]_vars => Sockets'
<1> SUFFICES ASSUME TypeOK, Known, Sockets, [Next]_vars PROVE Sockets'
  OBVIOUS
<1> USE ServerAssumption DEF TypeOK, Known, Sockets, SocketsUp, net
<1>1. ASSUME NEW c \in Conns,
             \/ HandlerTest(c) \/ Receive(c) \/ ReceiveFails(c)
             \/ LogLock(c) \/ LogSize(c) \/ PushTaskLock(c) \/ PushTask(c)
      PROVE Sockets'
  BY <1>1 DEF HandlerTest, Receive, ReceiveFails, LogLock, LogSize,
              PushTaskLock, PushTask
<1>2. ASSUME NEW c \in Conns, CloseClient(c) PROVE Sockets'
  BY <1>2 DEF CloseClient
<1>3. CASE WorkerStep \/ WorkerWakes
  <2>1. UNCHANGED net /\ \A t \in Threads \ {Worker} : at'[t] = at[t]
    BY <1>3 DEF WorkerStep, WorkerTest, WorkerEmpty, WorkerInPop, TakeTask,
                TakeNothing, SendLock, SendDelivers, SendFails,
                SendFailsLoudly, SendReport, WorkerWakes
  <2>2. QED
    BY <2>1
<1>4. CASE RunStep \/ AcceptFails
  BY <1>4 DEF RunStep, AcceptFails, RunTest, RunSpawn, RunLoop, RunConsole,
              RunEmplace, RunDetach
<1>5. ASSUME NEW c \in Conns, NEW h \in Handles, AcceptClient(c, h)
      PROVE Sockets'
  BY <1>5 DEF AcceptClient, Listening
<1>6. CASE PressEnter \/ MainStep
  BY <1>6 DEF PressEnter, MainStep, StopQueue, CloseListen, NoWorkerToJoin,
              JoinWorker, ClearThreads, Cleanup, JoinRun
<1>7. CASE Ended \/ UNCHANGED vars
  BY <1>7 DEF Ended, vars
<1>8. QED
  BY <1>1, <1>2, <1>3, <1>4, <1>5, <1>6, <1>7 DEF Next, HandlerStep, Accept

\* The threads keep step: no worker without run, none at work after the join.
LEMMA PhasesStep == TypeOK /\ Known /\ Phases /\ [Next]_vars => Phases'
<1> SUFFICES ASSUME TypeOK, Known, Phases, [Next]_vars PROVE Phases'
  OBVIOUS
<1> USE ServerAssumption DEF TypeOK, Known, Phases, AfterJoin, NoWorkerYet,
        LateWorker, net, flags, queueVars
<1>1. ASSUME NEW c \in Conns,
             \/ HandlerTest(c) \/ Receive(c) \/ ReceiveFails(c)
             \/ LogLock(c) \/ LogSize(c) \/ CloseClient(c)
      PROVE Phases'
  BY <1>1 DEF HandlerTest, Receive, ReceiveFails, LogLock, LogSize, CloseClient
<1>2. ASSUME NEW c \in Conns, PushTaskLock(c) \/ PushTask(c) PROVE Phases'
  <2>1. at[c] = "push" /\ handleOf[c] # NoHandle
    BY <1>2 DEF PushTaskLock, PushTask
  <2>2. at[Worker] # "none" /\ ~LateWorker
    BY <2>1
  <2>3. QED
    BY <1>2, <2>2 DEF PushTaskLock, PushTask, Q!PushLock, Q!PushBody
<1>3. CASE \/ WorkerTest \/ WorkerEmpty \/ SendLock \/ SendDelivers
           \/ SendFails \/ SendFailsLoudly \/ SendReport
  BY <1>3 DEF WorkerTest, WorkerEmpty, SendLock, SendDelivers, SendFails,
              SendFailsLoudly, SendReport
<1>4. CASE WorkerInPop \/ TakeTask \/ TakeNothing \/ WorkerWakes
  BY <1>4 DEF WorkerInPop, WorkerWakes, TakeTask, TakeNothing, Q!PopLock,
              Q!PopTest, Q!PopWait, Q!PopRelock, Q!SpuriousWake, Q!PopFront,
              Q!PopNothing
<1>5. CASE RunStep \/ AcceptFails
  BY <1>5 DEF RunStep, AcceptFails, RunTest, RunSpawn, RunLoop, RunConsole,
              RunEmplace, RunDetach
<1>6. ASSUME NEW c \in Conns, NEW h \in Handles, AcceptClient(c, h)
      PROVE Phases'
  BY <1>6 DEF AcceptClient
<1>7. CASE PressEnter \/ StopQueue
  BY <1>7 DEF PressEnter, StopQueue, Q!StopStore, Q!StopNotify
<1>8. CASE \/ CloseListen \/ NoWorkerToJoin \/ JoinWorker \/ ClearThreads
           \/ Cleanup \/ JoinRun
  BY <1>8 DEF CloseListen, NoWorkerToJoin, JoinWorker, ClearThreads, Cleanup,
              JoinRun
<1>9. CASE Ended \/ UNCHANGED vars
  BY <1>9 DEF Ended, vars
<1>10. QED
  BY <1>1, <1>2, <1>3, <1>4, <1>5, <1>6, <1>7, <1>8, <1>9
     DEF Next, HandlerStep, WorkerStep, MainStep, Accept

\* Moving the head of a queue to the end of what precedes it changes nothing.
LEMMA MoveHead ==
    ASSUME NEW S, NEW a \in Seq(S), NEW q \in Seq(S), q # << >>
    PROVE  a \o << >> \o q = a \o <<Head(q)>> \o Tail(q)
  OBVIOUS

\* Appending to a concatenation appends to its last part.
LEMMA AppendToLast ==
    \A a, q \in Seq(Task) : \A x \in Task : Append(a \o q, x) = a \o Append(q, x)
  OBVIOUS

\* A history of answers extended by one answers one more task.
LEMMA MoveAnswer ==
    \A a, q \in Seq(Task) : \A x \in Task :
        a \o <<x>> \o q = Append(a, x) \o << >> \o q
  OBVIOUS

\* The tasks answered are a sequence of tasks as long as the answers.
LEMMA AnsweredType ==
    TypeOK => /\ AnsweredTasks \in Seq(Task)
              /\ Len(AnsweredTasks) = Len(answered)
              /\ Len(answered) \in Nat
<1> SUFFICES ASSUME TypeOK
             PROVE  /\ AnsweredTasks \in Seq(Task)
                    /\ Len(AnsweredTasks) = Len(answered)
                    /\ Len(answered) \in Nat
  OBVIOUS
<1> DEFINE S == [task : Task, to : Conns \cup {NoConn}]
<1>1. answered \in Seq(S) /\ Len(answered) \in Nat
  BY DEF TypeOK
<1>2. \A i \in 1..Len(answered) : answered[i] \in S
  BY <1>1, ElementOfSeq
<1>3. \A i \in 1..Len(answered) : answered[i].task \in Task
  BY <1>2
<1>4. AnsweredTasks \in [1..Len(answered) -> Task]
  BY <1>3 DEF AnsweredTasks
<1>5. QED
  BY <1>1, <1>4 DEF AnsweredTasks

\* No step loses, doubles or reorders a task.
LEMMA TasksStep ==
    TypeOK /\ Known /\ Phases /\ TasksAccountedFor /\ [Next]_vars
      => TasksAccountedFor'
<1> SUFFICES ASSUME TypeOK, Known, Phases, TasksAccountedFor, [Next]_vars
             PROVE  TasksAccountedFor'
  OBVIOUS
<1> USE ServerAssumption
<1>t. /\ AnsweredTasks \in Seq(Task) /\ InHand \in Seq(Task)
      /\ queue \in Seq(Task) /\ pushed \in Seq(Task)
  BY AnsweredType DEF TypeOK, Q!TypeOK, Known, InHand
<1>q. ASSUME UNCHANGED <<queue, ret, answered, pushed>>,
             at'[Worker] \in {"send", "sending"} <=> at[Worker] \in {"send", "sending"}
      PROVE  TasksAccountedFor'
  BY <1>q DEF TasksAccountedFor, AnsweredTasks, InHand
<1>1. ASSUME NEW c \in Conns,
             \/ HandlerTest(c) \/ Receive(c) \/ ReceiveFails(c)
             \/ LogLock(c) \/ LogSize(c) \/ PushTaskLock(c) \/ CloseClient(c)
      PROVE TasksAccountedFor'
  BY <1>1, <1>q DEF HandlerTest, Receive, ReceiveFails, LogLock, LogSize,
       PushTaskLock, CloseClient, Q!PushLock, queueVars, hist, TypeOK
<1>2. ASSUME NEW c \in Conns, PushTask(c) PROVE TasksAccountedFor'
  <2> DEFINE task == [from |-> c, n |-> got[c], sock |-> handleOf[c]]
  <2>1. task \in Task
    BY <1>2 DEF PushTask, Task, TypeOK, Known
  <2>2. /\ queue' = Append(queue, task) /\ pushed' = Append(pushed, task)
        /\ UNCHANGED <<ret, answered>> /\ at'[Worker] = at[Worker]
    BY <1>2 DEF PushTask, Q!PushBody, TypeOK
  <2>3. AnsweredTasks' = AnsweredTasks /\ InHand' = InHand
    BY <2>2 DEF AnsweredTasks, InHand
  <2>4. AnsweredTasks \o InHand \in Seq(Task)
    BY <1>t
  <2> HIDE DEF task
  <2>5. Append(AnsweredTasks \o InHand \o queue, task)
           = AnsweredTasks \o InHand \o Append(queue, task)
    BY <2>1, <2>4, <1>t, AppendToLast, Zenon
  <2>6. QED
    BY <2>2, <2>3, <2>5 DEF TasksAccountedFor
<1>3. CASE TakeTask
  <2>1. /\ queue # << >> /\ queue' = Tail(queue)
        /\ InHand = << >> /\ InHand' = <<Head(queue)>>
        /\ UNCHANGED <<pushed, answered>>
    BY <1>3 DEF TakeTask, Q!PopFront, InHand, TypeOK, Q!TypeOK, hist
  <2>2. AnsweredTasks' = AnsweredTasks
    BY <2>1 DEF AnsweredTasks
  <2>3. QED
    BY <2>1, <2>2, <1>t, MoveHead DEF TasksAccountedFor
<1>4. CASE SendDelivers \/ SendFails \/ SendFailsLoudly
  <2>1. /\ InHand = <<ret[Worker]>> /\ InHand' = << >>
        /\ UNCHANGED <<pushed, queue>> /\ ret[Worker] \in Task
    BY <1>4 DEF SendDelivers, SendFails, SendFailsLoudly, InHand, TypeOK,
                Known, queueVars
  <2>2. AnsweredTasks' = Append(AnsweredTasks, ret[Worker])
    <3>1. PICK to : Answer(to)
      BY <1>4 DEF SendDelivers, SendFails, SendFailsLoudly
    <3>2. QED
      BY <3>1, <1>t DEF Answer, AnsweredTasks, TypeOK
  <2>3. AnsweredTasks \o <<ret[Worker]>> \o queue
           = Append(AnsweredTasks, ret[Worker]) \o << >> \o queue
    BY <2>1, <1>t, MoveAnswer, Zenon
  <2>4. QED
    BY <2>1, <2>2, <2>3 DEF TasksAccountedFor
<1>5. CASE WorkerTest \/ WorkerEmpty \/ SendLock \/ SendReport
  BY <1>5, <1>q DEF WorkerTest, WorkerEmpty, SendLock, SendReport, queueVars,
                    hist, TypeOK
<1>6. CASE WorkerInPop \/ WorkerWakes
  BY <1>6, <1>q DEF WorkerInPop, WorkerWakes, Q!PopLock, Q!PopTest, Q!PopWait,
                    Q!PopRelock, Q!SpuriousWake, hist
<1>7. CASE TakeNothing
  <2>1. /\ UNCHANGED <<queue, pushed, answered>>
        /\ InHand = << >> /\ InHand' = << >>
    BY <1>7 DEF TakeNothing, Q!PopNothing, InHand, TypeOK, hist
  <2>2. QED
    BY <2>1 DEF TasksAccountedFor, AnsweredTasks
<1>8. CASE RunStep \/ Accept
  BY <1>8, <1>q DEF RunStep, Accept, AcceptClient, AcceptFails, RunTest,
                    RunSpawn, RunLoop, RunConsole, RunEmplace, RunDetach,
                    queueVars, hist, TypeOK, Known, Phases
<1>9. CASE PressEnter \/ MainStep
  BY <1>9, <1>q DEF PressEnter, MainStep, StopQueue, CloseListen,
                    NoWorkerToJoin, JoinWorker, ClearThreads, Cleanup, JoinRun,
                    Q!StopStore, Q!StopNotify, queueVars, hist, TypeOK
<1>10. CASE Ended \/ UNCHANGED vars
  BY <1>10, <1>q DEF Ended, vars, queueVars, hist
<1>11. QED
  BY <1>1, <1>2, <1>3, <1>4, <1>5, <1>6, <1>7, <1>8, <1>9, <1>10
     DEF Next, HandlerStep, WorkerStep

\* The worker ends only with an empty queue, after the flag is cleared.
LEMMA DrainedStep == ServerInv /\ [Next]_vars => Drained'
<1> SUFFICES ASSUME ServerInv, [Next]_vars PROVE Drained'
  OBVIOUS
<1> USE ServerAssumption DEF ServerInv, Drained
<1>t. /\ AnsweredTasks \in Seq(Task) /\ queue \in Seq(Task)
      /\ Len(AnsweredTasks) = Len(answered) /\ Len(answered) \in Nat
      /\ Len(pushed) \in Nat /\ drain \in Nat
  BY AnsweredType DEF TypeOK, Q!TypeOK
<1>q. ASSUME UNCHANGED <<answered, pushed, drain>>,
             at'[Worker] = "done" => at[Worker] = "done"
      PROVE  Drained'
  BY <1>q
<1>1. ASSUME NEW c \in Conns, HandlerStep(c) \/ Receive(c) \/ ReceiveFails(c)
      PROVE Drained'
  <2>1. /\ UNCHANGED <<answered, drain>> /\ at'[Worker] = at[Worker]
        /\ Len(pushed') >= Len(pushed)
    BY <1>1, <1>t DEF HandlerStep, HandlerTest, Receive, ReceiveFails, LogLock,
         LogSize, PushTaskLock, PushTask, CloseClient, hist, TypeOK
  <2>2. Len(pushed') \in Nat
    BY TypeStep DEF TypeOK
  <2>3. QED
    BY <2>1, <2>2, <1>t
<1>2. CASE WorkerEmpty \/ TakeNothing
  <2>1. UNCHANGED <<answered, pushed, drain>> /\ InHand = << >>
    BY <1>2 DEF WorkerEmpty, TakeNothing, InHand, hist
  <2>2. CASE at'[Worker] = "done"
    <3>1. queue = << >>
      BY <1>2, <2>2 DEF WorkerEmpty, TakeNothing, Q!PopNothing, TypeOK
    <3>2. pushed = AnsweredTasks
      BY <2>1, <3>1, <1>t DEF TasksAccountedFor
    <3>3. QED
      BY <2>1, <3>2, <1>t
  <2>3. QED
    BY <2>1, <2>2, <1>q
<1>3. CASE SendDelivers \/ SendFails \/ SendFailsLoudly
  BY <1>3, <1>t DEF SendDelivers, SendFails, SendFailsLoudly, Answer, TypeOK
<1>4. CASE \/ WorkerTest \/ WorkerInPop \/ TakeTask \/ SendLock \/ SendReport
           \/ WorkerWakes
  BY <1>4, <1>q DEF WorkerTest, WorkerInPop, TakeTask, SendLock, SendReport,
                    WorkerWakes, hist, TypeOK
<1>5. CASE RunStep \/ Accept
  BY <1>5, <1>q DEF RunStep, Accept, AcceptClient, AcceptFails, RunTest,
                    RunSpawn, RunLoop, RunConsole, RunEmplace, RunDetach,
                    hist, TypeOK, Known
<1>6. CASE PressEnter
  BY <1>6, <1>t DEF PressEnter, TypeOK, Phases
<1>7. CASE MainStep
  BY <1>7, <1>q DEF MainStep, StopQueue, CloseListen, NoWorkerToJoin,
                    JoinWorker, ClearThreads, Cleanup, JoinRun, hist, TypeOK
<1>8. CASE Ended \/ UNCHANGED vars
  BY <1>8, <1>q DEF Ended, vars, hist
<1>9. QED
  BY <1>1, <1>2, <1>3, <1>4, <1>5, <1>6, <1>7, <1>8 DEF Next, WorkerStep

\* The state startServer leaves satisfies the invariant.
LEMMA ServerInit == Init => ServerInv
<1> SUFFICES ASSUME Init PROVE ServerInv
  OBVIOUS
<1> USE ServerAssumption DEF Init, Q!Init
<1>1. TypeOK
  <2>1. Q!TypeOK
    <3>1. queue \in Seq(Task) /\ waiting \subseteq {Worker}
      OBVIOUS
    <3>2. QED
      BY <3>1 DEF Q!TypeOK, Q!PcValues, Q!Threads
  <2>2. at \in [Threads -> Places]
    BY DEF Places
  <2>3. pushed \in Seq(Task) /\ answered \in Seq([task : Task, to : Conns \cup {NoConn}])
    OBVIOUS
  <2>4. QED
    BY <2>1, <2>2, <2>3 DEF TypeOK
<1>2. Known /\ Sockets
  BY DEF Known, Sockets
<1>3. Phases
  BY DEF Phases, NoWorkerYet, AfterJoin
<1>4. TasksAccountedFor
  <2>1. AnsweredTasks = << >> /\ InHand = << >>
    BY DEF AnsweredTasks, InHand
  <2>2. QED
    BY <2>1 DEF TasksAccountedFor
<1>5. Drained
  BY DEF Drained
<1>6. QED
  BY <1>1, <1>2, <1>3, <1>4, <1>5 DEF ServerInv

\* Every reachable state satisfies the inductive invariant.
THEOREM ServerInvariant == Spec => []ServerInv
<1>1. ServerInv /\ [Next]_vars => ServerInv'
  BY TypeStep, KnownStep, SocketsStep, PhasesStep, TasksStep, DrainedStep
     DEF ServerInv
<1>2. QED
  BY ServerInit, <1>1, PTL DEF Spec

\* The server's threads never leave their types (thread_server.h:71-87).
THEOREM ServerTypes == Spec => []TypeOK
  BY ServerInvariant, PTL DEF ServerInv

\* Each task pushed is answered exactly once and in order, or still on its way
\* (thread_server.cpp:107, 144-177).
THEOREM NoTaskLost == Spec => []TasksAccountedFor
  BY ServerInvariant, PTL DEF ServerInv

\* closeServer's join waits for everything pushed before the shutdown
\* (thread_server.cpp:144, 236).
THEOREM ShutdownDrains == Spec => []GracefulDrain
<1>1. ServerInv => GracefulDrain
  <2> SUFFICES ASSUME ServerInv, AfterJoin PROVE drain <= Len(answered)
    BY DEF GracefulDrain
  <2>1. CASE at[Worker] = "done"
    BY <2>1 DEF ServerInv, Drained
  <2>2. CASE LateWorker
    <3>1. InHand = << >> /\ queue = << >>
      BY <2>2 DEF LateWorker, InHand
    <3>2. pushed = AnsweredTasks
      BY <3>1, AnsweredType DEF ServerInv, TasksAccountedFor
    <3>3. QED
      BY <3>2, AnsweredType DEF ServerInv, Drained
  <2>3. QED
    BY <2>1, <2>2 DEF ServerInv, Phases
<1>2. QED
  BY ServerInvariant, <1>1, PTL

\* No response is being sent when WSACleanup runs (thread_server.cpp:236, 247).
THEOREM CleanupIsSafe == Spec => []NoSendUnderCleanup
<1>1. ServerInv => NoSendUnderCleanup
  BY DEF ServerInv, Phases, LateWorker, NoSendUnderCleanup, WorkerSends
<1>2. QED
  BY ServerInvariant, <1>1, PTL

\* Handlers read from and close only their own connection, however handles
\* are reused (thread_server.cpp:92, 133).
THEOREM HandlersKeepApart == Spec => []HandlerOwnsItsSocket
<1>1. ServerInv => HandlerOwnsItsSocket
  BY ServerAssumption DEF ServerInv, Known, Sockets, HandlerOwnsItsSocket, HandlerRuns
<1>2. QED
  BY ServerInvariant, <1>1, PTL
-----------------------------------------------------------------------------
(* The mutexes are taken in one order.                                     *)

Mutexes == {"socketMutex", "consoleMutex", "mtx"}
HolderOf == [socketMutex |-> socketMutex, consoleMutex |-> consoleMutex, mtx |-> mtx]
Rank == [socketMutex |-> 1, consoleMutex |-> 2, mtx |-> 3]

\* The next thing thread t does is to lock m.
Wants(t, m) ==
    \/ m = "socketMutex" /\ at[t] \in {"close", "send"}
    \/ m = "consoleMutex" /\ at[t] \in {"log", "console", "report"}
    \/ m = "mtx" /\ \/ at[t] \in {"size", "empty"}
                    \/ at[t] \in {"push", "pop"} /\ qpc[t] \in {"out", "asleep"}

\* Who holds a mutex takes only a later one.
InLockOrder ==
    \A t \in Threads : \A m, w \in Mutexes :
        HolderOf[m] = t /\ Wants(t, w) => Rank[m] < Rank[w]

\* In every set of threads there is one that waits for no mutex of another of them.
NoCircularWait ==
    \A T \in SUBSET Threads :
        T # {} => \E t \in T : \A m \in Mutexes : Wants(t, m) => HolderOf[m] \notin T

\* Each thread keeps to its places.
Roles ==
    /\ \A c \in Conns : at[c] \in {"none", "loop", "recv", "log", "size", "push", "close",
                                   "done"}
    /\ at[Worker] \in {"none", "loop", "empty", "pop", "send", "sending", "report", "done"}
    /\ at[Run] \in {"start", "spawn", "loop", "accept", "console", "emplace", "detach", "done"}
    /\ at[Main] \in {"enter", "stop", "closeListen", "join", "clear", "cleanup", "joinRun",
                     "exit", "terminated"}

\* Where a thread is tells which mutexes it holds.
Owners ==
    /\ \A t \in Threads : /\ consoleMutex = t <=> at[t] \in {"size", "emplace", "detach"}
                          /\ socketMutex = t <=> at[t] \in {"sending", "report"}
    /\ \A t \in Conns \cup {Worker} :
           /\ mtx = t <=> qpc[t] \in {"push", "test", "take", "wait"}
           /\ mtx = t => at[t] \in {"push", "pop"}

\* Each thread keeps to its places in every step.
LEMMA RolesStep == TypeOK /\ Known /\ Roles /\ [Next]_vars => Roles'
<1> SUFFICES ASSUME TypeOK, Known, Roles, [Next]_vars PROVE Roles'
  OBVIOUS
<1>0. at \in [Threads -> Places]
  BY DEF TypeOK
<1> USE DEF Roles
<1>1. ASSUME NEW c \in Conns, HandlerStep(c) \/ Receive(c) \/ ReceiveFails(c) PROVE Roles'
  BY <1>0, <1>1, ServerAssumption DEF ServerAssumption, HandlerStep, HandlerTest, Receive,
     ReceiveFails, LogLock, LogSize, PushTaskLock, PushTask, CloseClient
<1>2. CASE WorkerStep \/ WorkerWakes
  BY <1>0, <1>2, ServerAssumption DEF ServerAssumption, WorkerStep, WorkerWakes, WorkerTest,
     WorkerEmpty, WorkerInPop, TakeTask, TakeNothing, SendLock, SendDelivers, SendFails,
     SendFailsLoudly, SendReport
<1>3. CASE RunStep \/ Accept
  BY <1>0, <1>3, ServerAssumption DEF ServerAssumption, RunStep, Accept, RunTest, RunSpawn,
     RunLoop, RunConsole, RunEmplace, RunDetach, AcceptFails, AcceptClient, Known
<1>4. CASE PressEnter \/ MainStep
  BY <1>0, <1>4, ServerAssumption DEF ServerAssumption, PressEnter, MainStep, StopQueue,
     CloseListen, NoWorkerToJoin, JoinWorker, ClearThreads, Cleanup, JoinRun
<1>5. CASE Ended \/ UNCHANGED vars
  BY <1>5 DEF Ended, vars
<1>6. QED
  BY <1>1, <1>2, <1>3, <1>4, <1>5 DEF Next

\* Locks and unlocks go with the places.
LEMMA OwnersStep == ServerInv /\ Roles /\ Owners /\ [Next]_vars => Owners'
<1> SUFFICES ASSUME ServerInv, Roles, Owners, [Next]_vars PROVE Owners'
  OBVIOUS
<1>0. /\ at \in [Threads -> Places] /\ qpc \in [Conns \cup {Worker} -> Q!PcValues]
      /\ consoleMutex \in Conns \cup {Run, Free} /\ socketMutex \in {Worker, Free}
      /\ mtx \in Conns \cup {Worker, Free}
  BY DEF ServerInv, TypeOK, Q!TypeOK, Q!Threads
<1> USE ServerAssumption DEF ServerAssumption, Owners, Roles
<1>1. ASSUME NEW c \in Conns, HandlerTest(c) \/ Receive(c) \/ ReceiveFails(c) PROVE Owners'
  BY <1>0, <1>1 DEF HandlerTest, Receive, ReceiveFails, locks, queueVars
<1>2. ASSUME NEW c \in Conns, LogLock(c) \/ LogSize(c) PROVE Owners'
  BY <1>0, <1>2 DEF LogLock, LogSize, queueVars
<1>3. ASSUME NEW c \in Conns, PushTaskLock(c) \/ PushTask(c) PROVE Owners'
  BY <1>0, <1>3 DEF PushTaskLock, PushTask, locks, Q!PushLock, Q!PushBody, Q!Acquire,
     Q!Release, Q!Goto
<1>4. ASSUME NEW c \in Conns, CloseClient(c) PROVE Owners'
  BY <1>0, <1>4 DEF CloseClient, locks, queueVars
<1>5. CASE WorkerTest \/ WorkerEmpty
  BY <1>0, <1>5 DEF WorkerTest, WorkerEmpty, locks, queueVars
<1>6. CASE WorkerInPop \/ TakeTask \/ TakeNothing \/ WorkerWakes
  BY <1>0, <1>6 DEF WorkerInPop, TakeTask, TakeNothing, WorkerWakes, locks, Q!PopLock,
     Q!PopTest, Q!PopWait, Q!PopRelock, Q!PopFront, Q!PopNothing, Q!SpuriousWake,
     Q!Acquire, Q!Release, Q!Goto
<1>7. CASE SendLock \/ SendDelivers \/ SendFails \/ SendFailsLoudly \/ SendReport
  BY <1>0, <1>7 DEF SendLock, SendDelivers, SendFails, SendFailsLoudly, SendReport, locks,
     queueVars
<1>8. CASE RunTest \/ RunSpawn \/ RunLoop \/ RunConsole
  BY <1>0, <1>8 DEF RunTest, RunSpawn, RunLoop, RunConsole, locks, queueVars, ServerInv,
     Phases
<1>9. CASE RunEmplace \/ RunDetach
  BY <1>0, <1>9 DEF RunEmplace, RunDetach, locks, queueVars, ServerInv, Known
<1>10. CASE Accept
  BY <1>0, <1>10 DEF Accept, AcceptFails, AcceptClient, locks, queueVars
<1>11. CASE StopQueue
  BY <1>0, <1>11 DEF StopQueue, Q!StopStore, Q!StopNotify, locks
<1>12. CASE \/ PressEnter \/ CloseListen \/ NoWorkerToJoin \/ JoinWorker \/ ClearThreads
            \/ Cleanup \/ JoinRun
  BY <1>0, <1>12 DEF PressEnter, CloseListen, NoWorkerToJoin, JoinWorker, ClearThreads,
     Cleanup, JoinRun, locks, queueVars
<1>13. CASE Ended \/ UNCHANGED vars
  BY <1>13 DEF Ended, vars, locks, queueVars
<1>14. QED
  BY <1>1, <1>2, <1>3, <1>4, <1>5, <1>6, <1>7, <1>8, <1>9, <1>10, <1>11, <1>12, <1>13
     DEF Next, HandlerStep, WorkerStep, RunStep, MainStep

\* Every thread takes the mutexes in the order socketMutex, consoleMutex, mtx
\* (thread_server.cpp:36-236).
THEOREM MutexesAreOrdered == Spec => []InLockOrder
<1>1. ASSUME Init PROVE Roles /\ Owners
  <2>1. /\ at[Main] = "enter" /\ at[Run] = "start" /\ at[Worker] = "none"
        /\ \A c \in Conns : at[c] = "none"
    BY <1>1, ServerAssumption DEF ServerAssumption, Init, Threads
  <2>2. \A t \in Conns \cup {Worker} : qpc[t] = "out"
    BY <1>1 DEF Init, Q!Init, Q!Threads
  <2>3. consoleMutex = Free /\ socketMutex = Free /\ mtx = Free /\ Free \notin Threads
    BY <1>1, ServerAssumption DEF ServerAssumption, Init, Q!Init
  <2>4. Roles
    BY <2>1 DEF Roles
  <2>5. Owners
    BY <2>1, <2>2, <2>3 DEF Owners, Threads
  <2> QED
    BY <2>4, <2>5
<1>2. ServerInv /\ Roles /\ Owners /\ [Next]_vars => (Roles /\ Owners)'
  BY RolesStep, OwnersStep DEF ServerInv
<1>3. ServerInv /\ Roles /\ Owners => InLockOrder
  <2> SUFFICES ASSUME ServerInv, Roles, Owners, NEW t \in Threads, NEW m \in Mutexes, NEW w \in Mutexes,
                      HolderOf[m] = t, Wants(t, w)
               PROVE  Rank[m] < Rank[w]
    BY DEF InLockOrder
  <2>1. CASE m = "socketMutex"
    BY <2>1, ServerAssumption DEF ServerAssumption, HolderOf, Wants, Rank, Owners, Roles, Mutexes
  <2>2. CASE m = "consoleMutex"
    <3>1. at[t] \in {"size", "emplace", "detach"}
      BY <2>2 DEF HolderOf, Owners
    <3>2. w = "mtx"
      BY <3>1 DEF Wants
    <3> QED
      BY <2>2, <3>2 DEF Rank
  <2>3. CASE m = "mtx"
    <3>1. t \in Conns \cup {Worker}
      BY <2>3, ServerAssumption DEF ServerAssumption, HolderOf, ServerInv, TypeOK, Q!TypeOK,
         Q!Threads
    <3>2. at[t] \in {"push", "pop"} /\ qpc[t] \in {"push", "test", "take", "wait"}
      BY <2>3, <3>1 DEF HolderOf, Owners
    <3> QED
      BY <3>2 DEF Wants
  <2> QED
    BY <2>1, <2>2, <2>3 DEF Mutexes
<1> QED
  BY <1>1, <1>2, <1>3, ServerInvariant, PTL DEF Spec

\* No set of threads waits for one another's mutexes in a circle, so the nested
\* locks never deadlock (thread_server.cpp:36-183, 236).
THEOREM NoDeadlockOverMutexes == Spec => []NoCircularWait
<1>1. InLockOrder => NoCircularWait
  <2> SUFFICES ASSUME InLockOrder, NEW T \in SUBSET Threads, T # {},
                      \A t \in T : \E m \in Mutexes : Wants(t, m) /\ HolderOf[m] \in T
               PROVE  FALSE
    BY DEF NoCircularWait
  <2>1. \A t \in T : \A m \in Mutexes :
            Wants(t, m) /\ HolderOf[m] \in T =>
                \E w \in Mutexes : /\ Rank[m] < Rank[w]
                                   /\ Wants(HolderOf[m], w) /\ HolderOf[w] \in T
    BY DEF InLockOrder
  <2>2. PICK t \in T, a \in Mutexes : Wants(t, a) /\ HolderOf[a] \in T
    OBVIOUS
  <2>3. PICK b \in Mutexes : Rank[a] < Rank[b] /\ Wants(HolderOf[a], b) /\ HolderOf[b] \in T
    BY <2>1, <2>2
  <2>4. PICK c \in Mutexes : Rank[b] < Rank[c] /\ Wants(HolderOf[b], c) /\ HolderOf[c] \in T
    BY <2>1, <2>2, <2>3
  <2>5. PICK d \in Mutexes : Rank[c] < Rank[d]
    BY <2>1, <2>3, <2>4
  <2>6. \A m \in Mutexes : Rank[m] \in 1..3
    BY DEF Mutexes, Rank
  <2> QED
    BY <2>3, <2>4, <2>5, <2>6
<1> QED
  BY <1>1, MutexesAreOrdered, PTL
-----------------------------------------------------------------------------
(* Who can get a response.                                                 *)

\* The task was received on the handle its sender was given.
FromItsHandle(task) == handleOf[task.from] = task.sock

\* Handles are followed from accept to the response: a task keeps its sender's, and
\* a response goes to a client that was given the same one.
QueuedTrail == \A i \in DOMAIN queue : FromItsHandle(queue[i])
HandTrail == at[Worker] \in {"send", "sending"} => FromItsHandle(ret[Worker])
OpenTrail == \A h \in Handles : sock[h] # NoConn => handleOf[sock[h]] = h
Traced(answer) ==
    answer.to # NoConn =>
        /\ FromItsHandle(answer.task) /\ handleOf[answer.to] = answer.task.sock
        /\ answer.to = answer.task.from \/ at[answer.task.from] = "done"
AnswerTrail == \A i \in DOMAIN answered : Traced(answered[i])
Trail == QueuedTrail /\ HandTrail /\ OpenTrail /\ AnswerTrail

\* A handle is given once to a client, and a handler that is done stays so.
LEMMA HandlesAreKept ==
    ASSUME TypeOK, Known, [Next]_vars
    PROVE  \A c \in Conns : /\ handleOf[c] \in Handles => handleOf'[c] = handleOf[c]
                            /\ at[c] = "done" => at'[c] = "done"
<1> USE ServerAssumption DEF TypeOK, Known, net, queueVars
<1>1. ASSUME NEW c \in Conns, HandlerStep(c) \/ Receive(c) \/ ReceiveFails(c)
      PROVE  /\ handleOf' = handleOf
             /\ \A d \in Conns : at[d] = "done" => at'[d] = "done"
  BY <1>1 DEF HandlerStep, HandlerTest, Receive, ReceiveFails, LogLock, LogSize, PushTaskLock,
              PushTask, CloseClient
<1>2. CASE WorkerStep \/ WorkerWakes
  BY <1>2 DEF WorkerStep, WorkerTest, WorkerEmpty, WorkerInPop, TakeTask, TakeNothing,
              SendLock, SendDelivers, SendFails, SendFailsLoudly, SendReport, WorkerWakes
<1>3. CASE RunStep \/ AcceptFails
  BY <1>3 DEF RunStep, AcceptFails, RunTest, RunSpawn, RunLoop, RunConsole, RunEmplace,
              RunDetach
<1>4. ASSUME NEW c \in Conns, NEW h \in Handles, AcceptClient(c, h)
      PROVE  \A d \in Conns : /\ handleOf[d] \in Handles => handleOf'[d] = handleOf[d]
                              /\ at[d] = "done" => at'[d] = "done"
  BY <1>4 DEF AcceptClient
<1>5. CASE PressEnter \/ MainStep
  BY <1>5 DEF PressEnter, MainStep, StopQueue, CloseListen, NoWorkerToJoin, JoinWorker,
              ClearThreads, Cleanup, JoinRun
<1>6. CASE Ended \/ UNCHANGED vars
  BY <1>6 DEF Ended, vars
<1> QED
  BY <1>1, <1>2, <1>3, <1>4, <1>5, <1>6 DEF Next, Accept

\* A task stays with the handle of its sender, since that handle is one.
LEMMA StaysWithHandle ==
    ASSUME TypeOK, Known, [Next]_vars, NEW task \in Task, FromItsHandle(task)
    PROVE  FromItsHandle(task)'
<1>1. task.from \in Conns /\ task.sock \in Handles
  BY DEF Task
<1> QED
  BY <1>1, HandlesAreKept DEF FromItsHandle

\* A task is queued with its sender's handle, and taken with it.
LEMMA TasksTrail ==
    ASSUME ServerInv, QueuedTrail, HandTrail, [Next]_vars
    PROVE  QueuedTrail' /\ HandTrail'
<1>1. /\ TypeOK /\ Known /\ queue \in Seq(Task) /\ ret \in [{Worker} -> Task \cup {NoTask}]
      /\ at \in [Threads -> Places] /\ \A i \in DOMAIN queue : queue[i] \in Task
  BY DEF ServerInv, TypeOK, Q!TypeOK
<1>2. ASSUME queue' = queue, ret' = ret,
             at'[Worker] \in {"send", "sending"} => at[Worker] \in {"send", "sending"}
      PROVE  QueuedTrail' /\ HandTrail'
  <2>1. ASSUME NEW i \in DOMAIN queue PROVE FromItsHandle(queue[i])'
    <3>1. queue[i] \in Task /\ FromItsHandle(queue[i])
      BY <1>1 DEF QueuedTrail
    <3>2. PICK task \in Task : task = queue[i]
      BY <3>1
    <3> QED
      BY <1>1, <1>2, <3>1, <3>2, StaysWithHandle DEF FromItsHandle
  <2>2. ASSUME at[Worker] \in {"send", "sending"} PROVE FromItsHandle(ret[Worker])'
    <3>1. ret[Worker] \in Task /\ FromItsHandle(ret[Worker])
      BY <1>1, <2>2 DEF HandTrail, Known
    <3>2. PICK task \in Task : task = ret[Worker]
      BY <3>1
    <3> QED
      BY <1>1, <1>2, <3>1, <3>2, StaysWithHandle DEF FromItsHandle
  <2> QED
    BY <1>2, <2>1, <2>2 DEF QueuedTrail, HandTrail
<1>3. ASSUME NEW c \in Conns, PushTask(c) PROVE QueuedTrail' /\ HandTrail'
  <2> DEFINE task == [from |-> c, n |-> got[c], sock |-> handleOf[c]]
  <2>1. /\ queue' = Append(queue, task) /\ UNCHANGED <<ret, handleOf>>
        /\ at'[Worker] = at[Worker]
    BY <1>1, <1>3, ServerAssumption DEF PushTask, Q!PushBody, net
  <2>2. FromItsHandle(task)'
    BY <2>1 DEF FromItsHandle
  <2>3. task.from = c /\ task.sock = handleOf[c]
    OBVIOUS
  <2> HIDE DEF task
  <2>4. \A i \in DOMAIN queue' : queue'[i] = task \/ (i \in DOMAIN queue /\ queue'[i] = queue[i])
    BY <1>1, <2>1
  <2>5. ASSUME NEW i \in DOMAIN queue' PROVE handleOf'[queue'[i].from] = queue'[i].sock
    BY <2>1, <2>3, <2>4 DEF QueuedTrail, FromItsHandle
  <2> QED
    BY <2>1, <2>5 DEF QueuedTrail, HandTrail, FromItsHandle
<1>4. CASE TakeTask
  <2>1. /\ queue # << >> /\ queue' = Tail(queue) /\ ret'[Worker] = Head(queue)
        /\ handleOf' = handleOf
    BY <1>1, <1>4 DEF TakeTask, Q!PopFront, net
  <2>2. /\ 1 \in DOMAIN queue /\ Head(queue) = queue[1]
        /\ \A i \in DOMAIN queue' : i + 1 \in DOMAIN queue /\ queue'[i] = queue[i + 1]
    BY <1>1, <2>1
  <2> QED
    BY <2>1, <2>2 DEF QueuedTrail, HandTrail, FromItsHandle
<1>5. CASE TakeNothing
  <2>1. queue' = queue /\ handleOf' = handleOf /\ at'[Worker] = "done"
    BY <1>1, <1>5 DEF TakeNothing, Q!PopNothing, net
  <2> QED
    BY <2>1 DEF QueuedTrail, HandTrail, FromItsHandle
<1>6. ASSUME NEW c \in Conns,
             \/ HandlerTest(c) \/ Receive(c) \/ ReceiveFails(c)
             \/ LogLock(c) \/ LogSize(c) \/ PushTaskLock(c) \/ CloseClient(c)
      PROVE  QueuedTrail' /\ HandTrail'
  BY <1>1, <1>2, <1>6, ServerAssumption
     DEF HandlerTest, Receive, ReceiveFails, LogLock, LogSize, PushTaskLock, CloseClient,
         Q!PushLock, queueVars
<1>7. CASE \/ WorkerTest \/ WorkerEmpty \/ SendLock \/ SendDelivers \/ SendFails
           \/ SendFailsLoudly \/ SendReport
  BY <1>1, <1>2, <1>7 DEF WorkerTest, WorkerEmpty, SendLock, SendDelivers, SendFails,
                          SendFailsLoudly, SendReport, queueVars
<1>8. CASE WorkerInPop \/ WorkerWakes
  BY <1>2, <1>8 DEF WorkerInPop, WorkerWakes, Q!PopLock, Q!PopTest, Q!PopWait, Q!PopRelock,
                    Q!SpuriousWake
<1>9. CASE RunStep \/ Accept
  <2>1. at'[Worker] \in {"send", "sending"} => at[Worker] \in {"send", "sending"}
    BY <1>1, <1>9, ServerAssumption
       DEF RunStep, Accept, AcceptClient, AcceptFails, RunTest, RunSpawn, RunLoop,
           RunConsole, RunEmplace, RunDetach, Known
  <2>2. queue' = queue /\ ret' = ret
    BY <1>9 DEF RunStep, Accept, AcceptClient, AcceptFails, RunTest, RunSpawn, RunLoop,
                RunConsole, RunEmplace, RunDetach, queueVars
  <2> QED
    BY <1>2, <2>1, <2>2
<1>10. CASE PressEnter \/ MainStep
  BY <1>1, <1>2, <1>10, ServerAssumption
     DEF PressEnter, MainStep, StopQueue, CloseListen, NoWorkerToJoin, JoinWorker,
         ClearThreads, Cleanup, JoinRun, Q!StopStore, Q!StopNotify, queueVars
<1>11. CASE Ended \/ UNCHANGED vars
  BY <1>2, <1>11 DEF Ended, vars, queueVars
<1> QED
  BY <1>3, <1>4, <1>5, <1>6, <1>7, <1>8, <1>9, <1>10, <1>11
     DEF Next, HandlerStep, WorkerStep

\* An open handle is the one its client was given.
LEMMA OpenStep == ServerInv /\ OpenTrail /\ [Next]_vars => OpenTrail'
<1> SUFFICES ASSUME ServerInv, OpenTrail, [Next]_vars PROVE OpenTrail'
  OBVIOUS
<1>1. /\ TypeOK /\ Known /\ handleOf \in [Conns -> Handles \cup {NoHandle}]
      /\ sock \in [Handles -> Conns \cup {NoConn}]
  BY DEF ServerInv, TypeOK
<1>2. ASSUME NEW c \in Conns, NEW h \in Handles, AcceptClient(c, h) PROVE OpenTrail'
  <2>1. /\ sock' = [sock EXCEPT ![h] = c] /\ handleOf' = [handleOf EXCEPT ![c] = h]
        /\ handleOf[c] = NoHandle
    BY <1>2 DEF AcceptClient
  <2> QED
    BY <1>1, <2>1, ServerAssumption DEF OpenTrail
<1>3. ASSUME NEW c \in Conns, CloseClient(c) PROVE OpenTrail'
  BY <1>1, <1>3 DEF CloseClient, OpenTrail
<1>4. CASE Cleanup
  BY <1>4 DEF Cleanup, OpenTrail
<1>5. ASSUME sock' = sock, handleOf' = handleOf PROVE OpenTrail'
  BY <1>5 DEF OpenTrail
<1>6. ASSUME NEW c \in Conns,
             \/ HandlerTest(c) \/ Receive(c) \/ ReceiveFails(c)
             \/ LogLock(c) \/ LogSize(c) \/ PushTaskLock(c) \/ PushTask(c)
      PROVE  OpenTrail'
  BY <1>5, <1>6 DEF HandlerTest, Receive, ReceiveFails, LogLock, LogSize, PushTaskLock,
                    PushTask, net
<1>7. CASE WorkerStep \/ WorkerWakes
  BY <1>5, <1>7 DEF WorkerStep, WorkerTest, WorkerEmpty, WorkerInPop, TakeTask, TakeNothing,
                    SendLock, SendDelivers, SendFails, SendFailsLoudly, SendReport, WorkerWakes,
                    net
<1>8. CASE RunStep \/ AcceptFails \/ PressEnter
  BY <1>5, <1>8 DEF RunStep, AcceptFails, RunTest, RunSpawn, RunLoop, RunConsole, RunEmplace,
                    RunDetach, PressEnter, net
<1>9. CASE \/ StopQueue \/ CloseListen \/ NoWorkerToJoin \/ JoinWorker \/ ClearThreads
           \/ JoinRun
  BY <1>5, <1>9 DEF StopQueue, CloseListen, NoWorkerToJoin, JoinWorker, ClearThreads, JoinRun,
                    net
<1>10. CASE Ended \/ UNCHANGED vars
  BY <1>5, <1>10 DEF Ended, vars, net
<1> QED
  BY <1>2, <1>3, <1>4, <1>6, <1>7, <1>8, <1>9, <1>10 DEF Next, HandlerStep, Accept, MainStep

\* A response that was traced stays traced, and a new one goes to the owner of the
\* handle the task was received on.
LEMMA AnswerStep ==
    ServerInv /\ HandTrail /\ OpenTrail /\ AnswerTrail /\ [Next]_vars => AnswerTrail'
<1> SUFFICES ASSUME ServerInv, HandTrail, OpenTrail, AnswerTrail, [Next]_vars
             PROVE  AnswerTrail'
  OBVIOUS
<1> DEFINE S == [task : Task, to : Conns \cup {NoConn}]
<1>1. /\ TypeOK /\ Known /\ answered \in Seq(S)
      /\ sock \in [Handles -> Conns \cup {NoConn}]
  BY DEF ServerInv, TypeOK
<1>t. \A i \in DOMAIN answered : answered[i] \in S
  <2> HIDE DEF S
  <2> QED
    BY <1>1
<1>2. ASSUME NEW answer \in S, Traced(answer) PROVE Traced(answer)'
  <2>1. /\ answer.task \in Task /\ answer.task.from \in Conns /\ answer.task.sock \in Handles
        /\ answer.to \in Conns \cup {NoConn}
    BY DEF Task
  <2>2. FromItsHandle(answer.task) => FromItsHandle(answer.task)'
    BY <1>1, <2>1, HandlesAreKept DEF FromItsHandle
  <2> QED
    BY <1>1, <1>2, <2>1, <2>2, HandlesAreKept DEF Traced
<1>3. ASSUME answered' = answered PROVE AnswerTrail'
  <2> SUFFICES ASSUME NEW i \in DOMAIN answered PROVE Traced(answered[i])'
    BY <1>3 DEF AnswerTrail
  <2>1. PICK answer \in S : answer = answered[i]
    BY <1>t
  <2>2. Traced(answer)'
    BY <1>2, <2>1 DEF AnswerTrail
  <2> QED
    BY <1>3, <2>1, <2>2 DEF Traced, FromItsHandle
<1>4. ASSUME NEW answer \in S, Traced(answer), answered' = Append(answered, answer)
      PROVE  AnswerTrail'
  <2>1. \A i \in DOMAIN answered' :
            answered'[i] = answer \/ (i \in DOMAIN answered /\ answered'[i] = answered[i])
    BY <1>1, <1>4
  <2> SUFFICES ASSUME NEW i \in DOMAIN answered' PROVE Traced(answered[i])'
    BY DEF AnswerTrail
  <2>2. PICK a \in S : a = answered'[i] /\ Traced(a)
    BY <1>t, <1>4, <2>1 DEF AnswerTrail
  <2>3. Traced(a)'
    BY <1>2, <2>2
  <2> QED
    BY <2>2, <2>3 DEF Traced, FromItsHandle
<1>5. CASE SendFails \/ SendFailsLoudly
  <2> DEFINE answer == [task |-> ret[Worker], to |-> NoConn]
  <2>1. /\ answer \in S /\ answered' = Append(answered, answer)
    BY <1>1, <1>5 DEF SendFails, SendFailsLoudly, Answer, Known
  <2>2. Traced(answer)
    BY DEF Traced
  <2> QED
    BY <1>4, <2>1, <2>2
<1>6. CASE SendDelivers
  <2> DEFINE task == ret[Worker]
             to == sock[task.sock]
             answer == [task |-> task, to |-> to]
  <2>1. /\ at[Worker] = "sending" /\ task \in Task /\ to # NoConn
        /\ answered' = Append(answered, answer)
    BY <1>1, <1>6 DEF SendDelivers, Answer, Known
  <2>2. task.from \in Conns /\ task.sock \in Handles /\ to \in Conns
    BY <1>1, <2>1 DEF Task
  <2>3. FromItsHandle(task) /\ handleOf[to] = task.sock
    BY <2>1, <2>2 DEF HandTrail, OpenTrail
  <2>4. SocketsUp
    <3>1. ~AfterJoin
      BY <2>1 DEF ServerInv, Phases, LateWorker
    <3> QED
      BY <3>1 DEF AfterJoin, SocketsUp
  <2>5. to = task.from \/ at[task.from] = "done"
    BY <2>2, <2>3, <2>4, ServerAssumption DEF ServerInv, Sockets, FromItsHandle
  <2>6. answer \in S
    BY <2>1, <2>2
  <2>7. Traced(answer)
    BY <2>3, <2>5 DEF Traced
  <2> QED
    BY <1>4, <2>1, <2>6, <2>7
<1>7. ASSUME NEW c \in Conns, HandlerStep(c) \/ Receive(c) \/ ReceiveFails(c)
      PROVE  AnswerTrail'
  BY <1>3, <1>7 DEF HandlerStep, HandlerTest, Receive, ReceiveFails, LogLock, LogSize,
                    PushTaskLock, PushTask, CloseClient, hist
<1>8. CASE \/ WorkerTest \/ WorkerEmpty \/ WorkerInPop \/ TakeTask \/ TakeNothing \/ SendLock
           \/ SendReport \/ WorkerWakes
  BY <1>3, <1>8 DEF WorkerTest, WorkerEmpty, WorkerInPop, TakeTask, TakeNothing, SendLock,
                    SendReport, WorkerWakes, hist
<1>9. CASE RunStep \/ Accept
  BY <1>3, <1>9 DEF RunStep, Accept, AcceptClient, AcceptFails, RunTest, RunSpawn, RunLoop,
                    RunConsole, RunEmplace, RunDetach, hist
<1>10. CASE PressEnter \/ MainStep
  BY <1>3, <1>10 DEF PressEnter, MainStep, StopQueue, CloseListen, NoWorkerToJoin,
                     JoinWorker, ClearThreads, Cleanup, JoinRun, hist
<1>11. CASE Ended \/ UNCHANGED vars
  BY <1>3, <1>11 DEF Ended, vars, hist
<1> QED
  BY <1>5, <1>6, <1>7, <1>8, <1>9, <1>10, <1>11 DEF Next, WorkerStep

\* A response that misses its sender goes to a later client with the same handle, and
\* only when the sender's handler has ended: a client that is still served gets its own
\* (thread_server.cpp:66-71, 131-134).
THEOREM OnlyTheGoneAreMissed == Spec => []MissesOnlyTheGone
<1>1. Init => Trail
  BY ServerAssumption DEF Init, Q!Init, Trail, QueuedTrail, HandTrail, OpenTrail, AnswerTrail
<1>2. ServerInv /\ Trail /\ [Next]_vars => Trail'
  BY TasksTrail, OpenStep, AnswerStep DEF Trail
<1>3. Trail => MissesOnlyTheGone
  BY DEF MissesOnlyTheGone, Trail, AnswerTrail, Traced, FromItsHandle
<1> QED
  BY <1>1, <1>2, <1>3, ServerInvariant, PTL DEF Spec
-----------------------------------------------------------------------------
(* What becomes of a shutdown whose notification the worker has missed.    *)

\* Main waits for a worker that sleeps in pop, and no handler will push any more.
Missed ==
    /\ at[Main] = "join" /\ at[Worker] = "pop"
    /\ Worker \in waiting /\ qpc[Worker] = "asleep"
    /\ \A c \in Conns : at[c] \notin {"recv", "log", "size", "push"}

\* Only the worker itself could wake: nobody is left who notifies it.
LEMMA MissedStep == ServerInv /\ Missed /\ [Next]_vars => Missed' \/ WorkerWakes
<1> SUFFICES ASSUME ServerInv, Missed, [Next]_vars, ~WorkerWakes PROVE Missed'
  OBVIOUS
<1>0. /\ at \in [Threads -> Places] /\ ~isRunning /\ worker # "none"
      /\ Worker \notin Conns /\ Main \notin Conns /\ Run \notin Conns
      /\ Worker # Main /\ Worker # Run /\ Main # Run
      /\ TypeOK /\ Known
  BY ServerAssumption DEF ServerInv, TypeOK, Phases, Missed, AfterJoin, ServerAssumption
<1> USE <1>0 DEF Missed, queueVars
<1>1. ASSUME NEW c \in Conns,
             \/ HandlerTest(c) \/ Receive(c) \/ ReceiveFails(c) \/ LogLock(c) \/ LogSize(c)
             \/ PushTaskLock(c) \/ PushTask(c) \/ CloseClient(c)
      PROVE  Missed'
  BY <1>1 DEF HandlerTest, Receive, ReceiveFails, LogLock, LogSize, PushTaskLock, PushTask,
              CloseClient
<1>2. CASE WorkerStep
  BY <1>2 DEF WorkerStep, WorkerTest, WorkerEmpty, WorkerInPop, TakeTask, TakeNothing,
              SendLock, SendDelivers, SendFails, SendFailsLoudly, SendReport, Q!PopLock,
              Q!PopTest, Q!PopWait, Q!PopRelock, Q!PopFront, Q!PopNothing, Q!Goto
<1>3. CASE RunStep \/ AcceptFails
  <2>1. CASE RunSpawn
    <3>1. at[Run] = "spawn"
      BY <2>1 DEF RunSpawn
    <3> QED
      BY <3>1 DEF ServerInv, Phases
  <2>2. CASE RunEmplace
    <3>1. accepted \in Conns
      BY <2>2 DEF RunEmplace, Known
    <3>2. at' = [at EXCEPT ![Run] = "detach", ![accepted] = "loop"]
      BY <2>2 DEF RunEmplace
    <3>3. /\ at'[Main] = at[Main] /\ at'[Worker] = at[Worker]
          /\ \A c \in Conns : at'[c] \in {at[c], "loop"}
      BY <3>1, <3>2
    <3> QED
      BY <2>2, <3>3 DEF RunEmplace
  <2>3. CASE RunTest \/ RunLoop \/ RunConsole \/ RunDetach \/ AcceptFails
    BY <2>3 DEF RunTest, RunLoop, RunConsole, RunDetach, AcceptFails
  <2> QED
    BY <1>3, <2>1, <2>2, <2>3 DEF RunStep
<1>4. ASSUME NEW c \in Conns, NEW h \in Handles, AcceptClient(c, h) PROVE FALSE
  BY <1>4 DEF AcceptClient, Listening
<1>5. CASE PressEnter \/ MainStep
  BY <1>5 DEF PressEnter, MainStep, StopQueue, CloseListen, NoWorkerToJoin, JoinWorker,
              ClearThreads, Cleanup, JoinRun
<1>6. CASE Ended \/ UNCHANGED vars
  BY <1>6 DEF Ended, vars
<1> QED
  BY <1>1, <1>2, <1>3, <1>4, <1>5, <1>6 DEF Next, HandlerStep, Accept

\* A notification that falls between test and sleep is not made up for: closeServer
\* waits in the join until the thread happens to wake by itself
\* (thread_server.h:58-61, thread_server.cpp:235-238).
THEOREM MissedForGood == Spec => [][Missed => Missed' \/ WorkerWakes]_vars
<1>1. ServerInv /\ [Next]_vars => [Missed => Missed' \/ WorkerWakes]_vars
  BY MissedStep
<1> QED
  BY <1>1, ServerInvariant, PTL DEF Spec
=============================================================================
