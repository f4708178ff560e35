----------------------------- MODULE TaskQueue ------------------------------
(***************************************************************************)
(* ThreadSafeQueue of acos3/thread_server.h: a std::queue guarded by a     *)
(* std::mutex (mtx), a std::condition_variable (waiting is its set of      *)
(* sleeping threads) and an atomic stop flag that is NOT guarded by mtx.   *)
(*                                                                         *)
(* pop evaluates its wait predicate and goes to sleep in two steps, both   *)
(* under mtx; push changes the queue and notifies under mtx; stop stores   *)
(* the flag and notifies in two steps without mtx.  Lock acquisition is a  *)
(* step of its own, so every interleaving the mutex permits is explored.   *)
(***************************************************************************)
EXTENDS Naturals, Sequences

CONSTANTS Producers,  \* threads that call push
          Consumers,  \* threads that call pop
          Tasks,      \* values a producer may push
          NoTask,     \* ClientTask(INVALID_SOCKET, "")
          Free,       \* mtx has no owner
          MaxQueue    \* bound of the model: push is not called on a longer queue

Threads == Producers \cup Consumers

ASSUME QueueAssumption ==
    /\ Producers \cap Consumers = {}
    /\ Consumers # {}
    /\ Free \notin Threads
    /\ NoTask \notin Tasks
    /\ MaxQueue \in Nat

VARIABLES queue,      \* the std::queue<ClientTask>
          stopFlag,   \* the std::atomic<bool>
          stopPc,     \* progress of the one call of stop()
          mtx,        \* owner of the mutex, or Free
          waiting,    \* threads asleep in cv.wait that nobody has notified
          pc,         \* where each thread is inside push or pop
          ret         \* what the last pop of each consumer returned

vars == <<queue, stopFlag, stopPc, mtx, waiting, pc, ret>>

Init == /\ queue = << >>
        /\ stopFlag = FALSE
        /\ stopPc = "idle"
        /\ mtx = Free
        /\ waiting = {}
        /\ pc = [t \in Threads |-> "out"]
        /\ ret = [c \in Consumers |-> NoTask]

-----------------------------------------------------------------------------
Acquire(t) == mtx = Free /\ mtx' = t
Release(t) == mtx = t /\ mtx' = Free
Goto(t, from, to) == pc[t] = from /\ pc' = [pc EXCEPT ![t] = to]

NotifyNobody == UNCHANGED waiting               \* mutant: no notify_one

\* cv.notify_one: one sleeping thread, if there is one, will run again.
NotifyOne == \/ waiting = {} /\ UNCHANGED waiting
             \/ \E c \in waiting : waiting' = waiting \ {c}

(* push *)
PushLock(p) == /\ Len(queue) < MaxQueue
               /\ Goto(p, "out", "push")
               /\ Acquire(p)
               /\ UNCHANGED <<queue, stopFlag, stopPc, waiting, ret>>

PushBody(p, t) == /\ Goto(p, "push", "out")
                  /\ queue' = Append(queue, t)
                  /\ NotifyOne
                  /\ Release(p)
                  /\ UNCHANGED <<stopFlag, stopPc, ret>>

(* pop *)
PopLock(c) == /\ Goto(c, "out", "test")
              /\ Acquire(c)
              /\ UNCHANGED <<queue, stopFlag, stopPc, waiting, ret>>

IgnoreStop == queue # << >>                     \* mutant: flag not in the lambda

\* The lambda given to cv.wait, evaluated with mtx held.
WakePredicate == queue # << >> \/ stopFlag

PopTest(c) == /\ Goto(c, "test", IF WakePredicate THEN "take" ELSE "wait")
              /\ UNCHANGED <<queue, stopFlag, stopPc, mtx, waiting, ret>>

\* cv.wait releases mtx and goes to sleep atomically.
PopWait(c) == /\ Goto(c, "wait", "asleep")
              /\ waiting' = waiting \cup {c}
              /\ Release(c)
              /\ UNCHANGED <<queue, stopFlag, stopPc, ret>>

\* The standard lets a waiting thread wake up without a notification.
SpuriousWake(c) == /\ c \in waiting
                   /\ waiting' = waiting \ {c}
                   /\ UNCHANGED <<queue, stopFlag, stopPc, mtx, pc, ret>>

PopRelock(c) == /\ c \notin waiting
                /\ Goto(c, "asleep", "test")
                /\ Acquire(c)
                /\ UNCHANGED <<queue, stopFlag, stopPc, waiting, ret>>

PopNothing(c) == /\ stopFlag /\ queue = << >>
                 /\ Goto(c, "take", "out")
                 /\ ret' = [ret EXCEPT ![c] = NoTask]
                 /\ Release(c)
                 /\ UNCHANGED <<queue, stopFlag, stopPc, waiting>>

\* Mutant: the newest task instead of the oldest.
PopBack(c) == /\ queue # << >>
              /\ Goto(c, "take", "out")
              /\ ret' = [ret EXCEPT ![c] = queue[Len(queue)]]
              /\ queue' = SubSeq(queue, 1, Len(queue) - 1)
              /\ Release(c)
              /\ UNCHANGED <<stopFlag, stopPc, waiting>>

PopFront(c) == /\ queue # << >>
               /\ Goto(c, "take", "out")
               /\ ret' = [ret EXCEPT ![c] = Head(queue)]
               /\ queue' = Tail(queue)
               /\ Release(c)
               /\ UNCHANGED <<stopFlag, stopPc, waiting>>

(* stop *)
\* Mutant: an empty task pushed to wake the worker.
StopWithPoison == /\ stopPc = "idle"
                  /\ stopPc' = "notify"
                  /\ stopFlag' = TRUE
                  /\ queue' = Append(queue, NoTask)
                  /\ UNCHANGED <<mtx, waiting, pc, ret>>

StopStore == /\ stopPc = "idle"
             /\ stopPc' = "notify"
             /\ stopFlag' = TRUE
             /\ UNCHANGED <<queue, mtx, waiting, pc, ret>>

StopNotify == /\ stopPc = "notify"
              /\ stopPc' = "done"
              /\ waiting' = {}
              /\ UNCHANGED <<queue, stopFlag, mtx, pc, ret>>
-----------------------------------------------------------------------------
Push(p) == PushLock(p) \/ \E t \in Tasks : PushBody(p, t)
PopStep(c) == PopTest(c) \/ PopWait(c) \/ PopNothing(c) \/ PopFront(c)
PopAcquire(c) == PopLock(c) \/ PopRelock(c)
Stop == StopStore \/ StopNotify

Next == \/ \E p \in Producers : Push(p)
        \/ \E c \in Consumers : PopAcquire(c) \/ PopStep(c) \/ SpuriousWake(c)
        \/ Stop

Spec == Init /\ [][Next]_vars

\* A thread inside push or pop keeps running, and a thread that keeps finding
\* mtx free now and then obtains it.  Nobody is obliged to push or to stop.
Fairness == /\ \A p \in Producers : WF_vars(\E t \in Tasks : PushBody(p, t))
            /\ \A c \in Consumers : WF_vars(PopStep(c)) /\ SF_vars(PopAcquire(c))
            /\ WF_vars(StopNotify)

FairSpec == Spec /\ Fairness
-----------------------------------------------------------------------------
PcValues == {"out", "push", "test", "take", "wait", "asleep"}
InCritical(t) == pc[t] \in {"push", "test", "take", "wait"}

\* Every variable stays within its type (thread_server.h:25-32).
TypeOK == /\ queue \in Seq(Tasks)
          /\ stopFlag \in BOOLEAN
          /\ stopPc \in {"idle", "notify", "done"}
          /\ mtx \in Threads \cup {Free}
          /\ waiting \subseteq Consumers
          /\ pc \in [Threads -> PcValues]
          /\ ret \in [Consumers -> Tasks \cup {NoTask}]

\* Only the owner of mtx is between a lock and its unlock in push or pop, so
\* the std::queue is never touched by two threads at once.
MutualExclusion == \A t \in Threads : InCritical(t) <=> mtx = t

\* front() and pop() are never called on an empty queue, although the flag the
\* predicate read is written without the mutex (thread_server.h:41-50).
FrontDefined == \A c \in Consumers :
                   pc[c] = "take" => (queue # << >> \/ stopFlag)

\* No wakeup of push is lost: while a task is queued, some consumer is awake or
\* has been notified, whatever the numbers of producers and consumers.
NoStrandedTask == queue # << >> => Consumers \ waiting # {}

\* stop() may miss a consumer that has read the flag and is about to sleep, but
\* never more than one: once stop() has returned, at most one thread is asleep
\* or about to be (thread_server.h:39-43 against 59-62).
AboutToSleep == waiting \cup {c \in Consumers : pc[c] = "wait"}
StopMissesAtMostOne == stopPc = "done" => \A c, d \in AboutToSleep : c = d

\* A queued task makes some consumer reach the point where it takes one.
QueuedTaskIsTaken == (queue # << >>) ~> (\E c \in Consumers : pc[c] = "take")

\* The abstract queue: push, pop and stop each take effect in one step.
Fifo == INSTANCE TaskFifo WITH fifo <- queue, closed <- stopFlag, taken <- ret
FifoSpec == Fifo!Spec
=============================================================================
