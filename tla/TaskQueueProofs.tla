-------------------------- MODULE TaskQueueProofs ---------------------------
(***************************************************************************)
(* Proofs about ThreadSafeQueue for every number of producers, consumers,  *)
(* tasks and every bound on the queue.                                     *)
(***************************************************************************)
EXTENDS TaskQueue, TLAPS

\* A sleeping thread is inside cv.wait; a thread about to sleep saw an empty
\* queue, which mtx keeps empty; stop() began only if the flag is set.
Sleepers == /\ \A c \in waiting : pc[c] = "asleep"
            /\ \A c \in Consumers : pc[c] = "wait" => queue = << >>
            /\ stopPc # "idle" => stopFlag

\* The inductive invariant.
QueueInv == /\ TypeOK
            /\ MutualExclusion
            /\ FrontDefined
            /\ Sleepers
            /\ NoStrandedTask
            /\ StopMissesAtMostOne

\* The empty queue with an unowned mutex satisfies the invariant.
LEMMA InitInv == Init => QueueInv
<1> SUFFICES ASSUME Init PROVE QueueInv
  OBVIOUS
<1>1. TypeOK
  <2>1. queue \in Seq(Tasks) /\ waiting \subseteq Consumers
    BY DEF Init
  <2>2. pc \in [Threads -> PcValues]
    BY DEF Init, PcValues
  <2>3. QED
    BY <2>1, <2>2 DEF Init, TypeOK
<1>2. MutualExclusion
  BY QueueAssumption DEF Init, MutualExclusion, InCritical
<1>3. FrontDefined /\ Sleepers
  <2>1. \A c \in Consumers : pc[c] = "out"
    BY DEF Init, Threads
  <2>2. QED
    BY <2>1 DEF Init, FrontDefined, Sleepers
<1>4. NoStrandedTask /\ StopMissesAtMostOne
  BY DEF Init, NoStrandedTask, StopMissesAtMostOne
<1>5. QED
  BY <1>1, <1>2, <1>3, <1>4 DEF QueueInv

\* Types are preserved by every step of push, pop and stop.
LEMMA TypeStep == TypeOK /\ [Next]_vars => TypeOK'
<1> SUFFICES ASSUME TypeOK, [Next]_vars PROVE TypeOK'
  OBVIOUS
<1> USE DEF TypeOK, PcValues, Goto, Threads
<1>1. ASSUME NEW p \in Producers, PushLock(p) PROVE TypeOK'
  BY <1>1 DEF PushLock, Acquire
<1>2. ASSUME NEW p \in Producers, NEW t \in Tasks, PushBody(p, t) PROVE TypeOK'
  <2>1. queue' \in Seq(Tasks)
    BY <1>2 DEF PushBody
  <2>2. waiting' \subseteq Consumers
    BY <1>2 DEF PushBody, NotifyOne
  <2>3. QED
    BY <1>2, <2>1, <2>2 DEF PushBody, Release
<1>3. ASSUME NEW c \in Consumers, PopLock(c) PROVE TypeOK'
  BY <1>3 DEF PopLock, Acquire
<1>4. ASSUME NEW c \in Consumers, PopTest(c) PROVE TypeOK'
  BY <1>4 DEF PopTest
<1>5. ASSUME NEW c \in Consumers, PopWait(c) PROVE TypeOK'
  BY <1>5 DEF PopWait, Release
<1>6. ASSUME NEW c \in Consumers, SpuriousWake(c) PROVE TypeOK'
  BY <1>6 DEF SpuriousWake
<1>7. ASSUME NEW c \in Consumers, PopRelock(c) PROVE TypeOK'
  BY <1>7 DEF PopRelock, Acquire
<1>8. ASSUME NEW c \in Consumers, PopNothing(c) PROVE TypeOK'
  BY <1>8 DEF PopNothing, Release
<1>9. ASSUME NEW c \in Consumers, PopFront(c) PROVE TypeOK'
  <2>1. Head(queue) \in Tasks /\ queue' \in Seq(Tasks)
    BY <1>9 DEF PopFront
  <2>2. QED
    BY <1>9, <2>1 DEF PopFront, Release
<1>10. CASE Stop
  BY <1>10 DEF Stop, StopStore, StopNotify
<1>11. CASE UNCHANGED vars
  BY <1>11 DEF vars
<1>12. QED
  BY <1>1, <1>2, <1>3, <1>4, <1>5, <1>6, <1>7, <1>8, <1>9, <1>10, <1>11
  DEF Next, Push, PopStep, PopAcquire

\* mtx changes hands only through Acquire and Release.
LEMMA MutexStep == TypeOK /\ MutualExclusion /\ [Next]_vars => MutualExclusion'
<1> SUFFICES ASSUME TypeOK, MutualExclusion, [Next]_vars PROVE MutualExclusion'
  OBVIOUS
<1> USE QueueAssumption DEF TypeOK, MutualExclusion, InCritical, Goto, Threads
<1>1. ASSUME NEW p \in Producers, PushLock(p) PROVE MutualExclusion'
  BY <1>1 DEF PushLock, Acquire
<1>2. ASSUME NEW p \in Producers, NEW t \in Tasks, PushBody(p, t)
      PROVE MutualExclusion'
  BY <1>2 DEF PushBody, Release
<1>3. ASSUME NEW c \in Consumers, PopLock(c) PROVE MutualExclusion'
  BY <1>3 DEF PopLock, Acquire
<1>4. ASSUME NEW c \in Consumers, PopTest(c) PROVE MutualExclusion'
  BY <1>4 DEF PopTest
<1>5. ASSUME NEW c \in Consumers, PopWait(c) PROVE MutualExclusion'
  BY <1>5 DEF PopWait, Release
<1>6. ASSUME NEW c \in Consumers, SpuriousWake(c) PROVE MutualExclusion'
  BY <1>6 DEF SpuriousWake
<1>7. ASSUME NEW c \in Consumers, PopRelock(c) PROVE MutualExclusion'
  BY <1>7 DEF PopRelock, Acquire
<1>8. ASSUME NEW c \in Consumers, PopNothing(c) PROVE MutualExclusion'
  BY <1>8 DEF PopNothing, Release
<1>9. ASSUME NEW c \in Consumers, PopFront(c) PROVE MutualExclusion'
  BY <1>9 DEF PopFront, Release
<1>10. CASE Stop
  BY <1>10 DEF Stop, StopStore, StopNotify
<1>11. CASE UNCHANGED vars
  BY <1>11 DEF vars
<1>12. QED
  BY <1>1, <1>2, <1>3, <1>4, <1>5, <1>6, <1>7, <1>8, <1>9, <1>10, <1>11
  DEF Next, Push, PopStep, PopAcquire

\* What the condition variable needs: sleepers are inside cv.wait, whoever is
\* about to sleep or to take a task still sees the queue it saw when it tested
\* the predicate, and a queued task always finds an awake consumer.
LEMMA WaitStep == QueueInv /\ [Next]_vars
                    => (FrontDefined /\ Sleepers /\ NoStrandedTask)'
<1> DEFINE Goal == FrontDefined /\ Sleepers /\ NoStrandedTask
<1> SUFFICES ASSUME QueueInv, [Next]_vars PROVE Goal'
  OBVIOUS
<1> USE QueueAssumption
    DEF QueueInv, TypeOK, MutualExclusion, InCritical, FrontDefined, Sleepers,
        NoStrandedTask, Goto, Threads
<1>1. ASSUME NEW p \in Producers, PushLock(p) PROVE Goal'
  BY <1>1 DEF PushLock, Acquire
<1>2. ASSUME NEW p \in Producers, NEW t \in Tasks, PushBody(p, t) PROVE Goal'
  <2>1. queue' # << >>
    BY <1>2 DEF PushBody
  <2>2. \A c \in Consumers : pc[c] # "wait" /\ pc'[c] # "wait"
    BY <1>2 DEF PushBody, Release
  <2>3. waiting' \subseteq waiting /\ Consumers \ waiting' # {}
    BY <1>2 DEF PushBody, NotifyOne
  <2>4. FrontDefined'
    BY <2>1
  <2>5. Sleepers'
    BY <1>2, <2>2, <2>3 DEF PushBody
  <2>6. QED
    BY <2>3, <2>4, <2>5
<1>3. ASSUME NEW c \in Consumers, PopLock(c) PROVE Goal'
  BY <1>3 DEF PopLock, Acquire
<1>4. ASSUME NEW c \in Consumers, PopTest(c) PROVE Goal'
  BY <1>4 DEF PopTest, WakePredicate
<1>5. ASSUME NEW c \in Consumers, PopWait(c) PROVE Goal'
  BY <1>5 DEF PopWait, Release
<1>6. ASSUME NEW c \in Consumers, SpuriousWake(c) PROVE Goal'
  BY <1>6 DEF SpuriousWake
<1>7. ASSUME NEW c \in Consumers, PopRelock(c) PROVE Goal'
  BY <1>7 DEF PopRelock, Acquire
<1>8. ASSUME NEW c \in Consumers, PopNothing(c) PROVE Goal'
  BY <1>8 DEF PopNothing, Release
<1>9. ASSUME NEW c \in Consumers, PopFront(c) PROVE Goal'
  <2>1. \A d \in Consumers : pc'[d] # "take" /\ pc'[d] # "wait"
    BY <1>9 DEF PopFront, Release
  <2>2. c \notin waiting'
    BY <1>9 DEF PopFront
  <2>3. QED
    BY <1>9, <2>1, <2>2 DEF PopFront
<1>10. CASE Stop
  BY <1>10 DEF Stop, StopStore, StopNotify
<1>11. CASE UNCHANGED vars
  BY <1>11 DEF vars
<1>12. QED
  BY <1>1, <1>2, <1>3, <1>4, <1>5, <1>6, <1>7, <1>8, <1>9, <1>10, <1>11
  DEF Next, Push, PopStep, PopAcquire

\* After stop() has returned, the flag keeps every later test from sleeping, so
\* only a consumer that held mtx at that moment can still fall asleep.
LEMMA MissStep == QueueInv /\ [Next]_vars => StopMissesAtMostOne'
<1> SUFFICES ASSUME QueueInv, [Next]_vars, stopPc' = "done",
                    NEW d \in AboutToSleep', NEW e \in AboutToSleep'
             PROVE d = e
  BY DEF StopMissesAtMostOne
<1> USE QueueAssumption
    DEF QueueInv, TypeOK, MutualExclusion, InCritical, Sleepers,
        StopMissesAtMostOne, AboutToSleep, Goto, Threads
<1>1. ASSUME NEW p \in Producers, Push(p) PROVE d = e
  <2>1. AboutToSleep' \subseteq AboutToSleep /\ stopPc = "done"
    BY <1>1 DEF Push, PushLock, PushBody, NotifyOne
  <2>2. QED
    BY <2>1
<1>2. ASSUME NEW c \in Consumers, PopTest(c) PROVE d = e
  <2>1. stopPc = "done" /\ stopFlag
    BY <1>2 DEF PopTest
  <2>2. pc' = [pc EXCEPT ![c] = "take"]
    BY <1>2, <2>1 DEF PopTest, WakePredicate
  <2>3. AboutToSleep' \subseteq AboutToSleep
    BY <1>2, <2>2 DEF PopTest
  <2>4. QED
    BY <2>1, <2>3
<1>3. ASSUME NEW c \in Consumers,
             PopWait(c) \/ PopNothing(c) \/ PopFront(c) \/ PopAcquire(c)
               \/ SpuriousWake(c)
      PROVE d = e
  <2>1. AboutToSleep' \subseteq AboutToSleep /\ stopPc = "done"
    BY <1>3 DEF PopWait, PopNothing, PopFront, PopAcquire, PopLock, PopRelock,
                SpuriousWake
  <2>2. QED
    BY <2>1
<1>4. CASE StopStore
  BY <1>4 DEF StopStore
<1>5. CASE StopNotify
  <2>1. pc[d] = "wait" /\ pc[e] = "wait" /\ d \in Consumers /\ e \in Consumers
    BY <1>5 DEF StopNotify
  <2>2. QED
    BY <2>1
<1>6. CASE UNCHANGED vars
  BY <1>6 DEF vars
<1>7. QED
  BY <1>1, <1>2, <1>3, <1>4, <1>5, <1>6 DEF Next, PopStep, Stop

\* Every reachable state satisfies the invariant.
THEOREM QueueInvariant == Spec => []QueueInv
<1>1. QueueInv /\ [Next]_vars => QueueInv'
  BY TypeStep, MutexStep, WaitStep, MissStep DEF QueueInv
<1>2. QED
  BY InitInv, <1>1, PTL DEF Spec

\* Every variable of the queue and its threads stays within its type.
THEOREM QueueTypes == Spec => []TypeOK
<1>1. QueueInv => TypeOK
  BY DEF QueueInv
<1>2. QED
  BY <1>1, QueueInvariant, PTL

\* The std::queue is touched by one thread at a time and front() is called
\* only on a queue that holds a task or after stop (thread_server.h:41-50).
THEOREM QueueIsNeverRaced == Spec => [](MutualExclusion /\ FrontDefined)
<1>1. QueueInv => MutualExclusion /\ FrontDefined
  BY DEF QueueInv
<1>2. QED
  BY <1>1, QueueInvariant, PTL

\* notify_one under the mutex is enough, whatever the number of consumers: a
\* queued task always leaves some consumer awake (thread_server.h:33-43).
THEOREM PushWakesSomeone == Spec => []NoStrandedTask
<1>1. QueueInv => NoStrandedTask
  BY DEF QueueInv
<1>2. QED
  BY <1>1, QueueInvariant, PTL

\* stop() outside the mutex can leave a consumer asleep for ever, but at most
\* one, whatever the number of consumers (thread_server.h:59-62).
THEOREM StopMissesOne == Spec => []StopMissesAtMostOne
<1>1. QueueInv => StopMissesAtMostOne
  BY DEF QueueInv
<1>2. QED
  BY <1>1, QueueInvariant, PTL

\* The mutex, the condition variable and the stop flag implement the abstract
\* queue: push, pop and stop appear to take effect at one instant each.
THEOREM QueueImplementsFifo == Spec => FifoSpec
<1>1. Init => Fifo!Init
  BY DEF Init, Fifo!Init
<1>2. QueueInv /\ [Next]_vars => [Fifo!Next]_(Fifo!vars)
  <2> SUFFICES ASSUME QueueInv, [Next]_vars PROVE [Fifo!Next]_(Fifo!vars)
    OBVIOUS
  <2> USE DEF Fifo!vars
  <2>1. ASSUME NEW p \in Producers, NEW t \in Tasks, PushBody(p, t)
        PROVE Fifo!Next
    BY <2>1 DEF PushBody, Fifo!Next, Fifo!Put
  <2>2. ASSUME NEW c \in Consumers, PopFront(c) PROVE Fifo!Next
    BY <2>2 DEF PopFront, Fifo!Next, Fifo!Take
  <2>3. ASSUME NEW c \in Consumers, PopNothing(c) PROVE Fifo!Next
    BY <2>3 DEF PopNothing, Fifo!Next, Fifo!GiveUp
  <2>4. CASE StopStore
    BY <2>4 DEF StopStore, Fifo!Next, Fifo!Close
  <2>5. ASSUME NEW p \in Producers, PushLock(p) PROVE UNCHANGED Fifo!vars
    BY <2>5 DEF PushLock
  <2>6. ASSUME NEW c \in Consumers,
               PopAcquire(c) \/ PopTest(c) \/ PopWait(c) \/ SpuriousWake(c)
        PROVE UNCHANGED Fifo!vars
    BY <2>6 DEF PopAcquire, PopLock, PopRelock, PopTest, PopWait, SpuriousWake
  <2>7. CASE StopNotify \/ UNCHANGED vars
    BY <2>7 DEF StopNotify, vars
  <2>8. QED
    BY <2>1, <2>2, <2>3, <2>4, <2>5, <2>6, <2>7 DEF Next, Push, PopStep, Stop
<1>3. QED
  BY <1>1, <1>2, QueueInvariant, PTL DEF Spec, FifoSpec, Fifo!Spec
=============================================================================
