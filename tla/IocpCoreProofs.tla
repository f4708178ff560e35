--------------------------- MODULE IocpCoreProofs ---------------------------
(***************************************************************************)
(* Proofs about IOCPCore for every number of workers and operations: stop  *)
(* wakes every worker, its joins leave none behind, callbacks exclude each *)
(* other, and the core implements the completion service.                  *)
(***************************************************************************)
EXTENDS IocpCore, FiniteSetTheorems, SequenceTheorems, TLAPS

WorkerPlaces == {"none", "loop", "get", "check", "lock", "call", "exit"}
OwnerPlaces == {"setup", "spawn", "running", "post", "join", "close", "stopped"}

\* Workers and owner keep to their own places, is_running_ tells where the
\* owner is, and no worker is left to start once the owner goes on.
Phases == /\ at[Owner] \in OwnerPlaces
          /\ \A w \in Workers : at[w] \in WorkerPlaces
          /\ isRunning <=> at[Owner] \in {"spawn", "running"}
          /\ at[Owner] \in {"setup", "spawn"} \/ \A w \in Workers : at[w] # "none"
          /\ at[Owner] = "setup" => \A w \in Workers : at[w] = "none"

\* callbacks_mutex_ is owned by the worker that is in a callback, or by the owner
\* of the core while it assigns one.
LockHeld == /\ \A w \in Workers : at[w] = "call" <=> callbacksMutex = w
            /\ setting # {} => callbacksMutex = Owner
            /\ setting # {} => \E k \in Kinds : setting = {k}

\* No worker is left once stop is past its joins.
QuietAfterJoin ==
    at[Owner] \in {"close", "stopped"} => \A w \in Workers : at[w] = "exit"

\* An operation completes once, so no two packets that are queued or in the
\* hands of a worker are of the same operation.
Distinct ==
    /\ \A i \in DOMAIN port : port[i].op \in completed \cup {None}
    /\ \A i, j \in DOMAIN port : port[i].op # None /\ port[i].op = port[j].op => i = j
    /\ \A w \in InHand : /\ job[w].op \in completed
                        /\ \A i \in DOMAIN port : port[i].op # job[w].op
    /\ \A v, w \in InHand : job[v].op = job[w].op => v = w

\* The inductive invariant.
CoreInv == /\ TypeOK /\ Phases /\ LockHeld /\ WakesEveryWorker /\ QuietAfterJoin
           /\ Distinct

Getting == {w \in Workers : at[w] = "get"}

\* As many wake-up packets as there are workers.
LEMMA WakeupPackets ==
    LET wake == [i \in 1..Cardinality(Workers) |-> WakePacket]
    IN  /\ Cardinality(Workers) \in Nat
        /\ wake \in Seq(Completion \cup {WakePacket})
        /\ Len(wake) = Cardinality(Workers)
<1>1. Cardinality(Workers) \in Nat
  BY CoreAssumption, FS_CardinalityType
<1>2. QED
  BY <1>1

\* A step that adds no waiting worker does not add to their number.
LEMMA FewerWait ==
    ASSUME NEW S \in SUBSET Workers, NEW T \in SUBSET S
    PROVE  /\ Cardinality(S) \in Nat /\ Cardinality(T) \in Nat
           /\ Cardinality(T) <= Cardinality(S)
<1>1. IsFiniteSet(S)
  BY CoreAssumption, FS_Subset
<1>2. IsFiniteSet(T) /\ Cardinality(T) <= Cardinality(S)
  BY <1>1, FS_Subset
<1>3. QED
  BY <1>1, <1>2, FS_CardinalityType

\* The core before runWorkerThreads satisfies the invariant.
LEMMA InitInv == Init => CoreInv
<1> SUFFICES ASSUME Init PROVE CoreInv
  OBVIOUS
<1>1. /\ at[Owner] = "setup"
      /\ \A w \in Workers : at[w] = "none"
  BY CoreAssumption DEF Init, Threads
<1>2. TypeOK
  <2>1. job \in [Workers -> Completion \cup {WakePacket}]
    BY DEF Init
  <2>2. port \in Seq(Completion \cup {WakePacket})
    BY DEF Init
  <2>3. QED
    BY <1>1, <2>1, <2>2 DEF Init, TypeOK
<1>3. Phases /\ LockHeld
  BY <1>1, CoreAssumption DEF Init, Phases, LockHeld, OwnerPlaces, WorkerPlaces, Threads
<1>4. WakesEveryWorker /\ QuietAfterJoin /\ Distinct
  BY <1>1 DEF WakesEveryWorker, QuietAfterJoin, Distinct, InHand, Init
<1>5. QED
  BY <1>2, <1>3, <1>4 DEF CoreInv

\* Types are preserved by every step.
LEMMA TypeStep == TypeOK /\ [Next]_vars => TypeOK'
<1> SUFFICES ASSUME TypeOK, [Next]_vars PROVE TypeOK'
  OBVIOUS
<1> USE CoreAssumption DEF TypeOK, Goto, Threads
<1>1. ASSUME NEW p \in Completion, Complete(p) PROVE TypeOK'
  <2>1. port' \in Seq(Completion \cup {WakePacket})
    BY <1>1 DEF Complete
  <2>2. completed' \in SUBSET Ops
    BY <1>1 DEF Complete, Completion
  <2>3. QED
    BY <1>1, <2>1, <2>2 DEF Complete
<1>2. ASSUME NEW k \in Kinds, SetLock(k) PROVE TypeOK'
  BY <1>2 DEF SetLock
<1>2s. CASE SetStore
  BY <1>2s DEF SetStore
<1>3. CASE RunWorkerThreads
  BY <1>3 DEF RunWorkerThreads
<1>4. ASSUME NEW w \in Workers, Spawn(w) PROVE TypeOK'
  BY <1>4 DEF Spawn
<1>5. ASSUME NEW w \in Workers, WorkerTest(w) PROVE TypeOK'
  BY <1>5 DEF WorkerTest
<1>6. ASSUME NEW w \in Workers, Dequeue(w) PROVE TypeOK'
  <2>1. /\ Head(port) \in Completion \cup {WakePacket}
        /\ port' \in Seq(Completion \cup {WakePacket})
    BY <1>6 DEF Dequeue
  <2>2. QED
    BY <1>6, <2>1 DEF Dequeue
<1>7. ASSUME NEW w \in Workers, Recheck(w) PROVE TypeOK'
  <2>1. job[w].op # None => job[w] \in Completion
    BY DEF WakePacket
  <2>2. QED
    BY <1>7, <2>1 DEF Recheck
<1>8. ASSUME NEW w \in Workers, Call(w) \/ Skip(w) \/ Return(w) PROVE TypeOK'
  BY <1>8 DEF Call, Skip, Return
<1>9. CASE Stop
  BY <1>9 DEF Stop
<1>10. CASE PostWakeups
  <2>1. port' \in Seq(Completion \cup {WakePacket})
    BY <1>10, WakeupPackets, ConcatProperties DEF PostWakeups
  <2>2. QED
    BY <1>10, <2>1 DEF PostWakeups
<1>11. CASE Spawned \/ Join
  BY <1>11 DEF Spawned, Join
<1>12. CASE CloseHandle
  <2>1. << >> \in Seq(Completion \cup {WakePacket})
    OBVIOUS
  <2>2. QED
    BY <1>12, <2>1 DEF CloseHandle
<1>13. CASE UNCHANGED vars
  BY <1>13 DEF vars
<1>14. QED
  BY <1>1, <1>2, <1>3, <1>4, <1>5, <1>6, <1>7, <1>8, <1>9, <1>10, <1>11, <1>12,
     <1>13, <1>2s
     DEF Next, WorkerStep, OwnerStep, Ended

\* The control state of workers and owner, and the owner of the mutex.
LEMMA PhasesStep ==
    TypeOK /\ Phases /\ LockHeld /\ [Next]_vars => Phases' /\ LockHeld'
<1> SUFFICES ASSUME TypeOK, Phases, LockHeld, [Next]_vars PROVE Phases' /\ LockHeld'
  OBVIOUS
<1> USE CoreAssumption DEF TypeOK, Phases, LockHeld, OwnerPlaces, WorkerPlaces, Goto, Threads
<1>1. ASSUME NEW p \in Completion, Complete(p) PROVE Phases' /\ LockHeld'
  BY <1>1 DEF Complete
<1>2. ASSUME NEW k \in Kinds, SetLock(k) PROVE Phases' /\ LockHeld'
  BY <1>2 DEF SetLock
<1>2s. CASE SetStore
  BY <1>2s DEF SetStore
<1>3. CASE RunWorkerThreads
  BY <1>3 DEF RunWorkerThreads
<1>4. ASSUME NEW w \in Workers, Spawn(w) PROVE Phases' /\ LockHeld'
  BY <1>4 DEF Spawn
<1>5. ASSUME NEW w \in Workers, WorkerTest(w) \/ Dequeue(w) \/ Recheck(w)
      PROVE  Phases' /\ LockHeld'
  BY <1>5 DEF WorkerTest, Dequeue, Recheck
<1>6. ASSUME NEW w \in Workers, Call(w) \/ Skip(w) \/ Return(w)
      PROVE  Phases' /\ LockHeld'
  BY <1>6 DEF Call, Skip, Return
<1>7. CASE Stop \/ PostWakeups \/ Spawned \/ Join \/ CloseHandle
  BY <1>7 DEF Stop, PostWakeups, Spawned, Join, CloseHandle
<1>8. CASE UNCHANGED vars
  BY <1>8 DEF vars
<1>9. QED
  BY <1>1, <1>2, <1>3, <1>4, <1>5, <1>6, <1>7, <1>8, <1>2s
     DEF Next, WorkerStep, OwnerStep, Ended

\* stop posts a packet per worker; afterwards a worker that takes one leaves
\* the waiting workers, and none joins them.
LEMMA WakeStep == CoreInv /\ [Next]_vars => WakesEveryWorker'
<1> SUFFICES ASSUME CoreInv, [Next]_vars, at'[Owner] = "join"
             PROVE  Cardinality(Getting') <= Len(port')
  BY DEF WakesEveryWorker, Getting
<1> USE CoreAssumption DEF CoreInv, TypeOK, Phases, OwnerPlaces, WorkerPlaces, Goto, Threads
<1> Getting \in SUBSET Workers /\ Getting' \in SUBSET Workers
  BY DEF Getting
<1>0. /\ Cardinality(Getting) \in Nat /\ Cardinality(Getting') \in Nat
      /\ Len(port) \in Nat
  BY FewerWait
<1>1. CASE PostWakeups
  <2>1. Getting' \in SUBSET Workers /\ Cardinality(Getting') <= Cardinality(Workers)
    BY FewerWait
  <2>2. Len(port') = Len(port) + Cardinality(Workers)
    BY <1>1, WakeupPackets, ConcatProperties DEF PostWakeups
  <2>3. QED
    BY <1>0, <2>1, <2>2, WakeupPackets
<1>2. ASSUME at[Owner] = "join", Getting' \subseteq Getting, Len(port') >= Len(port),
             Len(port') \in Nat
      PROVE  Cardinality(Getting') <= Len(port')
  <2>1. Cardinality(Getting') <= Cardinality(Getting)
    BY <1>2, FewerWait
  <2>2. Cardinality(Getting) <= Len(port)
    BY <1>2 DEF WakesEveryWorker, Getting
  <2>3. QED
    BY <1>0, <1>2, <2>1, <2>2
<1>3. ASSUME NEW w \in Workers, Dequeue(w) PROVE Cardinality(Getting') <= Len(port')
  <2>1. Getting' = Getting \ {w} /\ w \in Getting
    BY <1>3 DEF Dequeue, Getting
  <2>2. Cardinality(Getting') = Cardinality(Getting) - 1
    <3>1. IsFiniteSet(Getting)
      BY FS_Subset
    <3>2. QED
      BY <2>1, <3>1, FS_RemoveElement
  <2>3. Len(port') = Len(port) - 1
    BY <1>3 DEF Dequeue
  <2>4. at[Owner] = "join"
    BY <1>3 DEF Dequeue
  <2>5. Cardinality(Getting) <= Len(port)
    BY <2>4 DEF WakesEveryWorker, Getting
  <2>6. QED
    BY <1>0, <2>2, <2>3, <2>5
<1>4. ASSUME NEW p \in Completion, Complete(p) PROVE Cardinality(Getting') <= Len(port')
  <2>1. Len(port') = Len(port) + 1
    BY <1>4 DEF Complete
  <2>2. QED
    BY <1>0, <1>2, <1>4, <2>1 DEF Complete, Getting
<1>5. ASSUME NEW k \in Kinds, SetLock(k) PROVE Cardinality(Getting') <= Len(port')
  BY <1>5 DEF SetLock
<1>5s. CASE SetStore
  BY <1>0, <1>2, <1>5s DEF SetStore, Getting
<1>6. ASSUME NEW w \in Workers,
             Spawn(w) \/ WorkerTest(w) \/ Recheck(w) \/ Call(w) \/ Skip(w) \/ Return(w)
      PROVE  Cardinality(Getting') <= Len(port')
  <2>1. at[Owner] = "join" /\ port' = port /\ ~isRunning
    BY <1>6 DEF Spawn, WorkerTest, Recheck, Call, Skip, Return
  <2>2. Getting' \subseteq Getting
    BY <1>6, <2>1 DEF Spawn, WorkerTest, Recheck, Call, Skip, Return, Getting
  <2>3. QED
    BY <1>0, <1>2, <2>1, <2>2
<1>7. CASE RunWorkerThreads \/ Spawned \/ Stop \/ Join \/ CloseHandle
  BY <1>7 DEF RunWorkerThreads, Spawned, Stop, Join, CloseHandle
<1>8. CASE UNCHANGED vars
  BY <1>0, <1>2, <1>8 DEF vars, Getting
<1>9. QED
  BY <1>1, <1>3, <1>4, <1>5, <1>6, <1>7, <1>8, <1>5s DEF Next, WorkerStep, OwnerStep, Ended

\* The joins are passed when every worker has left, and none comes back.
LEMMA QuietStep == CoreInv /\ [Next]_vars => QuietAfterJoin'
<1> SUFFICES ASSUME CoreInv, [Next]_vars PROVE QuietAfterJoin'
  OBVIOUS
<1> USE CoreAssumption DEF CoreInv, TypeOK, Phases, OwnerPlaces, WorkerPlaces,
        QuietAfterJoin, Goto, Threads
<1>1. ASSUME NEW p \in Completion, Complete(p) PROVE QuietAfterJoin'
  BY <1>1 DEF Complete
<1>2. ASSUME NEW k \in Kinds, SetLock(k) PROVE QuietAfterJoin'
  BY <1>2 DEF SetLock
<1>3. ASSUME NEW w \in Workers, Spawn(w) \/ WorkerStep(w) PROVE QuietAfterJoin'
  BY <1>3 DEF Spawn, WorkerStep, WorkerTest, Dequeue, Recheck, Call, Skip, Return
<1>4. CASE RunWorkerThreads \/ Stop \/ OwnerStep
  BY <1>4 DEF RunWorkerThreads, Stop, OwnerStep, SetStore, PostWakeups, Spawned, Join,
              CloseHandle
<1>5. CASE UNCHANGED vars
  BY <1>5 DEF vars
<1>6. QED
  BY <1>1, <1>2, <1>3, <1>4, <1>5 DEF Next, Ended

\* A completion is new when it is queued, and moves from the port to one worker.
LEMMA DistinctStep == TypeOK /\ Distinct /\ [Next]_vars => Distinct'
<1> SUFFICES ASSUME TypeOK, Distinct, [Next]_vars PROVE Distinct'
  OBVIOUS
<1>0. /\ at \in [Threads -> {"setup", "spawn", "running", "post", "join", "close",
                              "stopped", "none", "loop", "get", "check", "lock",
                              "call", "exit"}]
      /\ port \in Seq(Completion \cup {WakePacket})
      /\ job \in [Workers -> Completion \cup {WakePacket}]
  BY DEF TypeOK
<1> USE CoreAssumption DEF Distinct, InHand, Goto, Threads
<1>1. ASSUME NEW p \in Completion, Complete(p) PROVE Distinct'
  <2>1. /\ p.op \notin completed /\ completed' = completed \cup {p.op}
        /\ port' = Append(port, p) /\ UNCHANGED <<at, job>> /\ p.op # None
    BY <1>1 DEF Complete, Completion
  <2>2. /\ DOMAIN port' = DOMAIN port \cup {Len(port) + 1}
        /\ \A i \in DOMAIN port : port'[i] = port[i] /\ i # Len(port) + 1
        /\ port'[Len(port) + 1] = p
    BY <1>0, <2>1
  <2>3. QED
    BY <2>1, <2>2
<1>2. ASSUME port' = port, completed' = completed, InHand' \subseteq InHand,
             \A w \in InHand : job'[w] = job[w]
      PROVE  Distinct'
  BY <1>2
<1>3. ASSUME NEW w \in Workers, Dequeue(w) PROVE Distinct'
  <2>1. /\ at[w] = "get" /\ at' = [at EXCEPT ![w] = "check"]
        /\ port # << >> /\ port' = Tail(port) /\ completed' = completed
        /\ job' = [job EXCEPT ![w] = Head(port)]
    BY <1>3 DEF Dequeue
  <2>2. /\ 1 \in DOMAIN port /\ Head(port) = port[1]
        /\ \A i \in DOMAIN port' : i + 1 \in DOMAIN port /\ port'[i] = port[i + 1] /\ i \in Nat \ {0}
    BY <1>0, <2>1
  <2>3. /\ \A i \in DOMAIN port' : port'[i].op \in completed' \cup {None}
        /\ \A i, j \in DOMAIN port' : port'[i].op # None /\ port'[i].op = port'[j].op => i = j
    BY <2>1, <2>2
  <2>4. /\ InHand' \subseteq InHand \cup {w} /\ w \notin InHand
        /\ \A v \in InHand : job'[v] = job[v]
        /\ job'[w] = port[1]
        /\ w \in InHand' => port[1].op # None
    BY <1>0, <2>1, <2>2
  <2>5. \A i \in DOMAIN port' : i + 1 # 1
    BY <2>2
  <2>6. \A v \in InHand' : /\ job'[v].op \in completed'
                            /\ \A i \in DOMAIN port' : port'[i].op # job'[v].op
    <3>1. ASSUME NEW v \in InHand
          PROVE  /\ job'[v].op \in completed'
                 /\ \A i \in DOMAIN port' : port'[i].op # job'[v].op
      BY <2>1, <2>2, <2>4, <3>1
    <3>2. ASSUME w \in InHand'
          PROVE  /\ job'[w].op \in completed'
                 /\ \A i \in DOMAIN port' : port'[i].op # job'[w].op
      <4> HIDE DEF InHand
      <4>1. port[1].op # None /\ job'[w] = port[1]
        BY <2>4, <3>2
      <4>2. QED
        BY <2>1, <2>2, <2>5, <4>1
    <3> HIDE DEF InHand
    <3>3. QED
      BY <2>4, <3>1, <3>2
  <2>7. \A u, v \in InHand' : job'[u].op = job'[v].op => u = v
    <3> HIDE DEF InHand
    <3>1. \A v \in InHand : port[1].op # job[v].op
      BY <2>2
    <3>2. \A u, v \in InHand : job'[u].op = job'[v].op => u = v
      BY <2>4
    <3>3. QED
      BY <2>4, <3>1, <3>2
  <2> HIDE DEF InHand
  <2>8. QED
    BY <2>3, <2>6, <2>7
<1>4. ASSUME NEW w \in Workers,
             Spawn(w) \/ WorkerTest(w) \/ Recheck(w) \/ Call(w) \/ Skip(w) \/ Return(w)
      PROVE  Distinct'
  BY <1>0, <1>2, <1>4 DEF Spawn, WorkerTest, Recheck, Call, Skip, Return
<1>5. ASSUME NEW k \in Kinds, SetLock(k) PROVE Distinct'
  BY <1>2, <1>5 DEF SetLock
<1>5s. CASE SetStore
  BY <1>2, <1>5s DEF SetStore
<1>6. CASE RunWorkerThreads \/ Spawned \/ Stop \/ Join
  BY <1>0, <1>2, <1>6 DEF RunWorkerThreads, Spawned, Stop, Join
<1>7. CASE PostWakeups
  <2> DEFINE wake == [i \in 1..Cardinality(Workers) |-> WakePacket]
  <2>1. /\ port' = port \o wake /\ UNCHANGED <<job, completed>>
        /\ at' = [at EXCEPT ![Owner] = "join"]
    BY <1>7 DEF PostWakeups
  <2>2. \A i \in DOMAIN port' : \/ i \in DOMAIN port /\ port'[i] = port[i]
                                \/ port'[i] = WakePacket
    BY <1>0, <2>1, WakeupPackets, ConcatProperties
  <2>3. InHand' = InHand
    BY <1>0, <2>1
  <2> HIDE DEF InHand
  <2>4. WakePacket.op = None
    BY DEF WakePacket
  <2>5. \A i, j \in DOMAIN port' : port'[i].op # None /\ port'[i].op = port'[j].op => i = j
    BY <2>2, <2>4
  <2>6. /\ \A i \in DOMAIN port' : port'[i].op \in completed \cup {None}
        /\ \A w \in InHand, i \in DOMAIN port' : port'[i].op # job[w].op \/ job[w].op = None
    BY <2>2, <2>4
  <2>7. \A w \in InHand : job[w].op # None
    BY DEF InHand
  <2> HIDE DEF wake
  <2>8. QED
    BY <2>1, <2>3, <2>5, <2>6, <2>7
<1>8. CASE CloseHandle
  <2>1. /\ port' = << >> /\ UNCHANGED <<job, completed>>
        /\ at' = [at EXCEPT ![Owner] = "stopped"]
    BY <1>8 DEF CloseHandle
  <2>2. InHand' = InHand
    BY <1>0, <2>1
  <2>3. QED
    BY <2>1, <2>2
<1>9. CASE UNCHANGED vars
  BY <1>2, <1>9 DEF vars
<1>10. QED
  BY <1>1, <1>3, <1>4, <1>5, <1>6, <1>7, <1>8, <1>9, <1>5s
     DEF Next, WorkerStep, OwnerStep, Ended

\* Every reachable state satisfies the invariant.
THEOREM CoreInvariant == Spec => []CoreInv
<1>1. CoreInv /\ [Next]_vars => CoreInv'
  BY TypeStep, PhasesStep, WakeStep, QuietStep, DistinctStep DEF CoreInv
<1>2. QED
  BY InitInv, <1>1, PTL DEF Spec

\* Every variable of IOCPCore stays within its type.
THEOREM CoreTypes == Spec => []TypeOK
<1>1. CoreInv => TypeOK
  BY DEF CoreInv
<1>2. QED
  BY CoreInvariant, <1>1, PTL

\* Two callbacks never run at once, and none while one is assigned, whatever the
\* number of workers.
THEOREM CallbacksExclude == Spec => []OneCallbackAtATime
<1>1. CoreInv => OneCallbackAtATime
  BY CoreAssumption DEF CoreInv, LockHeld, OneCallbackAtATime
<1>2. QED
  BY CoreInvariant, <1>1, PTL

\* One packet per worker is enough to wake them all, whatever was queued.
THEOREM StopWakesAll == Spec => []WakesEveryWorker
<1>1. CoreInv => WakesEveryWorker
  BY DEF CoreInv
<1>2. QED
  BY CoreInvariant, <1>1, PTL
-----------------------------------------------------------------------------
(* IOCPCore implements CompletionService.  These are its variables.        *)

\* What is queued, and what workers have taken and not yet handed on.
Waiting == {port[i] : i \in {j \in DOMAIN port : port[j].op # None}}
Held == {job[w] : w \in InHand}
Pending == Waiting \cup Held
Running == IF Calling = {} THEN None ELSE job[CHOOSE w \in Workers : at[w] = "call"]
Stopping == at[Owner] \in {"post", "join", "close", "stopped"}

\* A packet at the end of the port is pending when it has an operation.
LEMMA WaitingAppends ==
    ASSUME port \in Seq(Completion \cup {WakePacket}), NEW p, port' = Append(port, p),
           p.op # None
    PROVE  Waiting' = Waiting \cup {p}
<1>1. /\ DOMAIN port' = DOMAIN port \cup {Len(port) + 1}
      /\ \A i \in DOMAIN port : port'[i] = port[i]
      /\ port'[Len(port) + 1] = p
  BY AppendProperties
<1>2. QED
  BY <1>1 DEF Waiting

\* Wake-up packets are not pending.
LEMMA WaitingWakes ==
    ASSUME port \in Seq(Completion \cup {WakePacket}),
           port' = port \o [i \in 1..Cardinality(Workers) |-> WakePacket]
    PROVE  Waiting' = Waiting
<1> DEFINE wake == [i \in 1..Cardinality(Workers) |-> WakePacket]
<1>1. /\ wake \in Seq(Completion \cup {WakePacket}) /\ Len(wake) = Cardinality(Workers)
      /\ port' = port \o wake /\ Cardinality(Workers) \in Nat
  BY WakeupPackets
<1>2. \A i \in DOMAIN port : i \in DOMAIN port' /\ port'[i] = port[i]
  BY <1>1, ConcatProperties
<1>3. \A i \in DOMAIN port' : i \in DOMAIN port \/ port'[i] = WakePacket
  BY <1>1, ConcatProperties
<1>4. \A x : x \in Waiting => x \in Waiting'
  BY <1>2 DEF Waiting
<1>5. \A x : x \in Waiting' => x \in Waiting
  <2>1. \A i \in DOMAIN port' : port'[i].op # None => i \in DOMAIN port
    <3>1. WakePacket.op = None
      BY DEF WakePacket
    <3>2. QED
      BY <1>3, <3>1
  <2>2. ASSUME NEW x \in Waiting' PROVE x \in Waiting
    <3>1. PICK i \in DOMAIN port' : port'[i].op # None /\ x = port'[i]
      BY <2>2 DEF Waiting
    <3>2. QED
      BY <1>2, <2>1, <3>1 DEF Waiting
  <2>3. QED
    BY <2>2
<1>6. QED
  BY <1>4, <1>5

\* The head of the port is no longer queued once it is taken.
LEMMA WaitingTaken ==
    ASSUME port \in Seq(Completion \cup {WakePacket}), port # << >>, port' = Tail(port)
    PROVE  Waiting = Waiting' \cup (IF Head(port).op = None THEN {} ELSE {Head(port)})
<1>1. /\ 1 \in DOMAIN port /\ Head(port) = port[1]
      /\ \A i \in DOMAIN port' : i + 1 \in DOMAIN port /\ port'[i] = port[i + 1]
      /\ \A i \in DOMAIN port : i = 1 \/ (i - 1 \in DOMAIN port' /\ port'[i - 1] = port[i])
  OBVIOUS
<1> DEFINE taken == IF Head(port).op = None THEN {} ELSE {Head(port)}
<1>2. ASSUME NEW x \in Waiting PROVE x \in Waiting' \cup taken
  <2>1. PICK i \in DOMAIN port : port[i].op # None /\ x = port[i]
    BY <1>2 DEF Waiting
  <2>2. CASE i = 1
    BY <1>1, <2>1, <2>2
  <2>3. CASE i # 1
    BY <1>1, <2>1, <2>3 DEF Waiting
  <2>4. QED
    BY <2>2, <2>3
<1>3. Waiting' \subseteq Waiting
  BY <1>1 DEF Waiting
<1>4. taken \subseteq Waiting
  BY <1>1 DEF Waiting
<1> HIDE DEF taken
<1>5. Waiting = Waiting' \cup taken
  BY <1>2, <1>3, <1>4
<1>6. QED
  BY <1>5 DEF taken

\* A worker that hands on or drops what it took: nothing else was the same.
LEMMA HandsOn ==
    ASSUME CoreInv, NEW w \in Workers, w \in InHand, UNCHANGED <<port, job>>,
           NEW to, to \notin {"check", "lock"}, at' = [at EXCEPT ![w] = to]
    PROVE  /\ job[w] \in Pending /\ job[w] \in Completion
           /\ Pending' = Pending \ {job[w]}
<1> USE CoreAssumption DEF Threads
<1>1. InHand' = InHand \ {w}
  BY DEF InHand, CoreInv, TypeOK
<1>2. Held' = Held \ {job[w]}
  BY <1>1 DEF Held, CoreInv, Distinct
<1>3. job[w] \notin Waiting
  BY DEF Waiting, CoreInv, Distinct
<1>4. Waiting' = Waiting
  BY DEF Waiting
<1>5. job[w] \in Completion
  BY DEF InHand, WakePacket, CoreInv, TypeOK
<1>6. QED
  BY <1>2, <1>3, <1>4, <1>5 DEF Pending, Held

\* While the mutex is free no callback runs; while a worker has it, its own.
LEMMA WhoRuns ==
    ASSUME LockHeld
    PROVE  /\ Calling = {} => Running = None
           /\ \A w \in Workers : at[w] = "call" => Running = job[w]
           /\ callbacksMutex = Free => Calling = {}
<1>1. ASSUME NEW w \in Workers, at[w] = "call" PROVE Running = job[w]
  <2>1. (CHOOSE v \in Workers : at[v] = "call") \in Calling
    BY <1>1 DEF Calling
  <2>2. (CHOOSE v \in Workers : at[v] = "call") = w
    BY <1>1, <2>1 DEF LockHeld, Calling
  <2>3. QED
    BY <1>1, <2>2 DEF Running, Calling
<1>2. QED
  BY <1>1, CoreAssumption DEF LockHeld, Running, Calling, Threads

\* The callback that runs is the same while the same worker is in its call.
LEMMA SameRunning ==
    ASSUME LockHeld, \A w \in Workers : at'[w] = "call" <=> at[w] = "call",
           \A w \in Workers : at[w] = "call" => job'[w] = job[w]
    PROVE  Running' = Running
<1>1. CASE Calling = {}
  BY <1>1 DEF Running, Calling
<1>2. CASE Calling # {}
  <2>1. PICK w \in Workers : at[w] = "call" /\ w \in Calling
    BY <1>2 DEF Calling
  <2>2. Running = job[w]
    BY <2>1, WhoRuns
  <2>3. /\ (CHOOSE v \in Workers : at'[v] = "call") \in Calling
        /\ \A v \in Calling : v = w
    BY <2>1 DEF Calling, LockHeld
  <2>4. (CHOOSE v \in Workers : at'[v] = "call") = w /\ Calling' # {}
    BY <2>1, <2>3 DEF Calling
  <2>5. QED
    BY <2>1, <2>2, <2>4 DEF Running
<1>3. QED
  BY <1>1, <1>2

\* A step that moves no completion and starts or ends no callback.
LEMMA UnseenStep ==
    ASSUME LockHeld, UNCHANGED <<callbacks, completed, port>>, InHand' = InHand,
           Calling' = Calling, \A w \in InHand \cup Calling : job'[w] = job[w],
           Stopping' = Stopping, PortOpen' = PortOpen
    PROVE  UNCHANGED Service!vars
<1>1. Pending' = Pending
  BY DEF Pending, Waiting, Held
<1>2. Running' = Running
  BY SameRunning DEF Calling
<1>3. QED
  BY <1>1, <1>2 DEF Pending, Waiting, Held, Running, Stopping, Service!vars

\* Every step of the core is a step of the service or one it does not see.
LEMMA ServiceStep == CoreInv /\ [Next]_vars => [Service!Next]_(Service!vars)
<1> SUFFICES ASSUME CoreInv, [Next]_vars PROVE Service!Next \/ UNCHANGED Service!vars
  OBVIOUS
<1>0. /\ at \in [Threads -> {"setup", "spawn", "running", "post", "join", "close",
                              "stopped", "none", "loop", "get", "check", "lock",
                              "call", "exit"}]
      /\ port \in Seq(Completion \cup {WakePacket})
      /\ job \in [Workers -> Completion \cup {WakePacket}]
      /\ LockHeld /\ QuietAfterJoin /\ Phases
  BY DEF CoreInv, TypeOK
<1>a. Service!Completion = Completion /\ Service!Kinds = Kinds
  BY DEF Service!Completion, Completion, Kinds, Service!Kinds
<1>b. ASSUME NEW p \in Completion, Service!Begin(p) \/ Service!Drop(p) PROVE Service!Next
  BY <1>a, <1>b, Zenon DEF Service!Next
<1> USE CoreAssumption DEF Goto, Threads
<1>1. ASSUME NEW p \in Completion, Complete(p) PROVE Service!Next
  <2>1. /\ PortOpen /\ p.op \notin completed /\ completed' = completed \cup {p.op}
        /\ port' = Append(port, p) /\ UNCHANGED <<at, job, callbacks>> /\ p.op # None
    BY <1>1 DEF Complete, Completion
  <2>2. Waiting' = Waiting \cup {p}
    BY <1>0, <2>1, WaitingAppends
  <2>3. /\ Held' = Held /\ Running' = Running
        /\ Stopping' = Stopping /\ PortOpen' = PortOpen
    BY <2>1 DEF Held, InHand, Running, Calling, Stopping, PortOpen
  <2>4. Pending' = Pending \cup {p}
    BY <2>2, <2>3 DEF Pending
  <2>5. Service!Complete(p)
    BY <2>1, <2>3, <2>4
       DEF Service!Complete, Pending, Waiting, Held, Running, Stopping
  <2>6. QED
    BY <1>a, <2>5, Zenon DEF Service!Next
<1>2. CASE SetStore
  <2>1. PICK k \in Kinds : setting = {k}
    BY <1>0, <1>2 DEF SetStore, LockHeld
  <2>2. /\ callbacksMutex = Owner /\ callbacks' = callbacks \cup {k}
        /\ UNCHANGED <<at, port, job, completed>>
    BY <1>0, <1>2, <2>1 DEF SetStore, LockHeld
  <2>3. Running = None
    <3>1. Calling = {}
      BY <1>0, <2>2 DEF LockHeld, Calling
    <3>2. QED
      BY <1>0, <3>1, WhoRuns
  <2>4. /\ Pending' = Pending /\ Running' = Running
        /\ Stopping' = Stopping /\ PortOpen' = PortOpen
    BY <2>2 DEF Pending, Waiting, Held, InHand, Running, Calling, Stopping, PortOpen
  <2>5. Service!Set(k)
    BY <2>2, <2>3, <2>4 DEF Service!Set, Pending, Waiting, Held, Running, Stopping
  <2>6. QED
    BY <1>a, <2>5, Zenon DEF Service!Next
<1>2s. ASSUME NEW k \in Kinds, SetLock(k) PROVE UNCHANGED Service!vars
  BY <1>0, <1>2s, UnseenStep DEF SetLock, InHand, Calling, Stopping, PortOpen
<1>3. ASSUME NEW w \in Workers, Spawn(w) \/ WorkerTest(w) PROVE UNCHANGED Service!vars
  <2>1. /\ InHand' = InHand /\ Calling' = Calling
        /\ UNCHANGED <<callbacks, completed, port, job>>
        /\ Stopping' = Stopping /\ PortOpen' = PortOpen
    BY <1>0, <1>3 DEF Spawn, WorkerTest, InHand, Calling, Stopping, PortOpen
  <2>2. QED
    BY <1>0, <2>1, UnseenStep
<1>4. ASSUME NEW w \in Workers, Dequeue(w) PROVE UNCHANGED Service!vars
  <2>1. /\ at[w] = "get" /\ at' = [at EXCEPT ![w] = "check"]
        /\ port # << >> /\ port' = Tail(port) /\ UNCHANGED <<callbacks, completed>>
        /\ job' = [job EXCEPT ![w] = Head(port)]
    BY <1>4 DEF Dequeue
  <2> DEFINE taken == IF Head(port).op = None THEN {} ELSE {Head(port)}
  <2>2. Waiting = Waiting' \cup taken
    BY <1>0, <2>1, WaitingTaken
  <2>3. Held' = Held \cup taken
    <3>1. InHand' = InHand \cup (IF Head(port).op = None THEN {} ELSE {w}) /\ w \notin InHand
      BY <1>0, <2>1 DEF InHand
    <3>2. job'[w] = Head(port) /\ \A v \in InHand : job'[v] = job[v]
      BY <1>0, <2>1 DEF InHand
    <3>3. QED
      BY <3>1, <3>2 DEF Held
  <2> HIDE DEF taken
  <2>4. Pending' = Pending
    BY <2>2, <2>3 DEF Pending
  <2>5. Running' = Running
    BY <1>0, <2>1, SameRunning
  <2>6. Stopping' = Stopping /\ PortOpen' = PortOpen
    BY <1>0, <2>1 DEF Stopping, PortOpen
  <2>7. QED
    BY <2>1, <2>4, <2>5, <2>6 DEF Service!vars, Pending, Waiting, Held, Running, Stopping
\* What a worker took is dropped: the core stops, or there is no callback.
<1>5. ASSUME NEW w \in Workers, w \in InHand, UNCHANGED <<port, job, callbacks, completed>>,
             NEW to \in {"exit", "loop"}, at' = [at EXCEPT ![w] = to],
             Stopping \/ ~HasCallback(job[w])
      PROVE  Service!Next
  <2>1. /\ job[w] \in Pending /\ job[w] \in Completion
        /\ Pending' = Pending \ {job[w]}
    BY <1>5, HandsOn
  <2>2. Running' = Running
    BY <1>0, <1>5, SameRunning DEF InHand
  <2>3. Stopping' = Stopping /\ PortOpen' = PortOpen
    BY <1>0, <1>5 DEF Stopping, PortOpen
  <2>4. PICK p \in Completion : p = job[w]
    BY <2>1
  <2>5. Service!Drop(p)
    BY <1>5, <2>1, <2>2, <2>3, <2>4
       DEF Service!Drop, Service!HasCallback, HasCallback, Pending, Waiting, Held,
           Running, Stopping
  <2>6. QED
    BY <1>b, <2>5
<1>6. ASSUME NEW w \in Workers, Recheck(w) PROVE Service!Next \/ UNCHANGED Service!vars
  <2>1. /\ at[w] = "check" /\ UNCHANGED <<port, job, callbacks, completed>>
        /\ at' = [at EXCEPT ![w] = IF ~isRunning THEN "exit"
                                   ELSE IF job[w].op = None THEN "loop" ELSE "lock"]
    BY <1>6 DEF Recheck
  <2>2. CASE ~isRunning /\ job[w].op # None
    <3>1. Stopping
      BY <1>0, <2>1, <2>2 DEF Phases, OwnerPlaces, Stopping
    <3>2. at' = [at EXCEPT ![w] = "exit"] /\ w \in InHand
      BY <2>1, <2>2 DEF InHand
    <3>3. QED
      BY <1>5, <2>1, <3>1, <3>2
  <2>3. CASE isRunning \/ job[w].op = None
    <3>1. /\ InHand' = InHand /\ Calling' = Calling
          /\ Stopping' = Stopping /\ PortOpen' = PortOpen
      BY <1>0, <2>1, <2>3 DEF InHand, Calling, Stopping, PortOpen
    <3>2. QED
      BY <1>0, <2>1, <3>1, UnseenStep
  <2>4. QED
    BY <2>2, <2>3
<1>7. ASSUME NEW w \in Workers, Skip(w) PROVE Service!Next
  <2>1. /\ at[w] = "lock" /\ at' = [at EXCEPT ![w] = "loop"] /\ ~HasCallback(job[w])
        /\ UNCHANGED <<port, job, callbacks, completed>>
    BY <1>7 DEF Skip
  <2>2. w \in InHand
    BY <2>1 DEF InHand, Completion, CoreInv, TypeOK
  <2>3. QED
    BY <1>5, <2>1, <2>2
<1>8. ASSUME NEW w \in Workers, Call(w) PROVE Service!Next
  <2>1. /\ at[w] = "lock" /\ at' = [at EXCEPT ![w] = "call"] /\ HasCallback(job[w])
        /\ callbacksMutex = Free /\ UNCHANGED <<port, job, callbacks, completed>>
    BY <1>8 DEF Call
  <2>2. w \in InHand
    BY <2>1 DEF InHand, Completion, CoreInv, TypeOK
  <2>3. /\ job[w] \in Pending /\ job[w] \in Completion
        /\ Pending' = Pending \ {job[w]}
    BY <2>1, <2>2, HandsOn
  <2>4. Calling = {} /\ Running = None
    BY <1>0, <2>1, WhoRuns
  <2>5. Running' = job[w]
    <3>1. \A v \in Workers : at'[v] = "call" <=> v = w
      BY <1>0, <2>1, <2>4 DEF Calling
    <3>2. (CHOOSE v \in Workers : at'[v] = "call") = w /\ Calling' # {}
      BY <3>1 DEF Calling
    <3>3. QED
      BY <2>1, <3>2 DEF Running
  <2>6. Stopping' = Stopping /\ PortOpen' = PortOpen /\ PortOpen
    BY <1>0, <2>1 DEF Stopping, PortOpen, QuietAfterJoin
  <2>7. PICK p \in Completion : p = job[w]
    BY <2>3
  <2>8. Service!Begin(p)
    BY <2>1, <2>3, <2>4, <2>5, <2>6, <2>7
       DEF Service!Begin, Service!HasCallback, HasCallback, Pending, Waiting, Held,
           Running, Stopping
  <2>9. QED
    BY <1>b, <2>8
<1>9. ASSUME NEW w \in Workers, Return(w) PROVE Service!Next \/ UNCHANGED Service!vars
  <2>1. /\ at[w] = "call" /\ at' = [at EXCEPT ![w] = "loop"]
        /\ UNCHANGED <<port, job, callbacks, completed>>
    BY <1>9 DEF Return
  <2>2. Calling' = {} /\ InHand' = InHand
    BY <1>0, <2>1 DEF Calling, InHand, LockHeld
  <2>3. Running' = None
    BY <2>2 DEF Running
  <2>4. Pending' = Pending /\ Stopping' = Stopping /\ PortOpen' = PortOpen
    BY <1>0, <2>1, <2>2 DEF Pending, Waiting, Held, Stopping, PortOpen
  <2>5. QED
    BY <2>1, <2>3, <2>4
       DEF Service!Next, Service!End, Service!vars, Pending, Waiting, Held, Running, Stopping
<1>10. CASE RunWorkerThreads \/ Spawned \/ Join
  <2>1. /\ InHand' = InHand /\ Calling' = Calling
        /\ UNCHANGED <<callbacks, completed, port, job>>
        /\ PortOpen' = PortOpen
    BY <1>0, <1>10 DEF RunWorkerThreads, Spawned, Join, InHand, Calling, PortOpen
  <2>2. Stopping' = Stopping
    BY <1>0, <1>10 DEF RunWorkerThreads, Spawned, Join, Stopping
  <2>3. QED
    BY <1>0, <2>1, <2>2, UnseenStep
<1>11. CASE Stop
  <2>1. /\ at[Owner] = "running" /\ at' = [at EXCEPT ![Owner] = "post"]
        /\ UNCHANGED <<callbacks, completed, port, job>>
    BY <1>11 DEF Stop
  <2>2. \A w \in Workers : at'[w] = at[w]
    BY <1>0, <2>1
  <2>3. /\ Pending' = Pending /\ Running' = Running
        /\ Stopping' = TRUE /\ PortOpen' = PortOpen
    <3>1. InHand' = InHand
      BY <2>1, <2>2 DEF InHand
    <3>2. Running' = Running
      BY <1>0, <2>1, <2>2, SameRunning
    <3>3. QED
      BY <1>0, <2>1, <3>1, <3>2 DEF Pending, Waiting, Held, Stopping, PortOpen
  <2>4. QED
    BY <2>1, <2>3 DEF Service!Next, Service!Stop, Pending, Waiting, Held, Running, Stopping
<1>12. CASE PostWakeups
  <2>1. /\ at[Owner] = "post" /\ at' = [at EXCEPT ![Owner] = "join"]
        /\ port' = port \o [i \in 1..Cardinality(Workers) |-> WakePacket]
        /\ UNCHANGED <<callbacks, completed, job>>
    BY <1>12 DEF PostWakeups
  <2>2. \A w \in Workers : at'[w] = at[w]
    BY <1>0, <2>1
  <2>3. InHand' = InHand /\ Running' = Running
    BY <1>0, <2>1, <2>2, SameRunning DEF InHand
  <2>4. Waiting' = Waiting
    BY <1>0, <2>1, WaitingWakes
  <2>5. Pending' = Pending /\ Stopping' = Stopping /\ PortOpen' = PortOpen
    BY <1>0, <2>1, <2>3, <2>4 DEF Pending, Held, Stopping, PortOpen
  <2>6. QED
    BY <2>1, <2>3, <2>5 DEF Service!vars, Pending, Waiting, Held, Running, Stopping
<1>13. CASE CloseHandle
  <2>1. /\ at[Owner] = "close" /\ at' = [at EXCEPT ![Owner] = "stopped"] /\ port' = << >>
        /\ UNCHANGED <<callbacks, completed, job>>
    BY <1>13 DEF CloseHandle
  <2>2. \A w \in Workers : at[w] = "exit" /\ at'[w] = "exit"
    BY <1>0, <2>1 DEF QuietAfterJoin
  <2>3. Pending' = {} /\ Running = None /\ Running' = None
    <3>1. InHand' = {} /\ Calling = {} /\ Calling' = {}
      BY <2>2 DEF InHand, Calling
    <3>2. QED
      BY <2>1, <3>1 DEF Pending, Waiting, Held, Running
  <2>4. Stopping /\ Stopping' = Stopping /\ PortOpen' = FALSE
    BY <1>0, <2>1 DEF Stopping, PortOpen
  <2>5. QED
    BY <2>1, <2>3, <2>4
       DEF Service!Next, Service!Stopped, Pending, Waiting, Held, Running, Stopping
<1>14. CASE UNCHANGED vars
  BY <1>0, <1>14, UnseenStep DEF vars, InHand, Calling, Stopping, PortOpen
<1> HIDE DEF Goto
<1>15. QED
  BY <1>1, <1>2, <1>3, <1>4, <1>6, <1>7, <1>8, <1>9, <1>10, <1>11, <1>12, <1>13, <1>14,
     <1>2s
     DEF Next, WorkerStep, OwnerStep, Ended

\* No completion is delivered twice, to the wrong callback or after stop, and
\* none that had a callback is dropped, unless the core stops.
THEOREM CoreIsAService == Spec => ServiceSpec
<1>1. Init => Service!Init
  <2> SUFFICES ASSUME Init PROVE Service!Init
    OBVIOUS
  <2>1. /\ at[Owner] = "setup" /\ port = << >> /\ callbacks = {} /\ completed = {}
        /\ InHand = {} /\ Calling = {}
    BY CoreAssumption DEF Init, InHand, Calling, Threads
  <2>2. Pending = {} /\ Running = None /\ ~Stopping /\ PortOpen
    BY <2>1 DEF Pending, Waiting, Held, Running, Stopping, PortOpen
  <2>3. QED
    BY <2>1, <2>2 DEF Service!Init, Pending, Waiting, Held, Running, Stopping
<1>2. QED
  BY CoreInvariant, ServiceStep, <1>1, PTL DEF Spec, ServiceSpec, Service!Spec
=============================================================================
