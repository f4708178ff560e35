------------------------------ MODULE IocpCore ------------------------------
(***************************************************************************)
(* IOCPCore of cool_server: worker threads that take completions from an   *)
(* I/O completion port and pass each, under callbacks_mutex_, to the       *)
(* callback that was set for its key.  The owner is the thread that calls  *)
(* setup, the setters, runWorkerThreads and stop.                          *)
(***************************************************************************)
EXTENDS Naturals, Sequences, FiniteSets

CONSTANTS Ops,      \* overlapped operations; each completes at most once
          Workers,  \* the threads of runWorkerThreads
          Owner,
          Free,     \* no thread owns callbacks_mutex_
          None      \* no operation

Threads == Workers \cup {Owner}

ASSUME CoreAssumption ==
    /\ IsFiniteSet(Workers) /\ Owner \notin Workers
    /\ Free \notin Threads
    /\ None \notin Ops

VARIABLES at,              \* where each thread is
          isRunning,       \* is_running_
          callbacksMutex,  \* owner, or Free
          callbacks,       \* the kinds whose std::function is set
          setting,         \* the kind whose std::function is being assigned, or none
          port,            \* packets queued at the completion port
          job,             \* the packet each worker took last
          completed        \* operations whose packet was queued

vars == <<at, isRunning, callbacksMutex, callbacks, setting, port, job, completed>>

Kinds == {"CONNECTION", "READ", "WRITE"}
Completion == [op : Ops, kind : Kinds \cup {"other"}, ok : BOOLEAN]
WakePacket == [op |-> None, kind |-> "other", ok |-> TRUE]

\* setup has created the port.
Init == /\ at = [t \in Threads |-> IF t = Owner THEN "setup" ELSE "none"]
        /\ isRunning = FALSE
        /\ callbacksMutex = Free
        /\ callbacks = {} /\ setting = {}
        /\ port = << >>
        /\ job = [w \in Workers |-> WakePacket]
        /\ completed = {}

Goto(t, from, to) == at[t] = from /\ at' = [at EXCEPT ![t] = to]
PortOpen == at[Owner] # "stopped"

\* The callback the worker would call; a failed accept has none.
HasCallback(p) == p.kind \in callbacks /\ (p.ok \/ p.kind # "CONNECTION")
-----------------------------------------------------------------------------
\* An operation that somebody started completes, or postCompletion is called.
Complete(p) ==
    /\ PortOpen
    /\ p.op \notin completed /\ completed' = completed \cup {p.op}
    /\ port' = Append(port, p)
    /\ UNCHANGED <<at, isRunning, callbacksMutex, callbacks, setting, job>>

\* Mutant: the setters without the lock.
SetUnlocked(k) ==
    /\ at[Owner] \in {"setup", "running"} /\ setting = {}
    /\ setting' = {k}
    /\ UNCHANGED <<at, isRunning, callbacksMutex, callbacks, port, job, completed>>

\* setConnectionCallback, setReadCallback, setWriteCallback: the lock, and the
\* assignment under it.
SetLock(k) ==
    /\ at[Owner] \in {"setup", "running"} /\ setting = {}
    /\ callbacksMutex = Free /\ callbacksMutex' = Owner
    /\ setting' = {k}
    /\ UNCHANGED <<at, isRunning, callbacks, port, job, completed>>

SetStore ==
    /\ setting # {} /\ setting' = {}
    /\ callbacks' = callbacks \cup setting
    /\ callbacksMutex' = Free
    /\ UNCHANGED <<at, isRunning, port, job, completed>>

RunWorkerThreads ==
    /\ Goto(Owner, "setup", "spawn") /\ setting = {}
    /\ isRunning' = TRUE
    /\ UNCHANGED <<callbacksMutex, callbacks, setting, port, job, completed>>

Spawn(w) ==
    /\ at[Owner] = "spawn"
    /\ Goto(w, "none", "loop")
    /\ UNCHANGED <<isRunning, callbacksMutex, callbacks, setting, port, job, completed>>

Spawned ==
    /\ Goto(Owner, "spawn", "running")
    /\ \A w \in Workers : at[w] # "none"
    /\ UNCHANGED <<isRunning, callbacksMutex, callbacks, setting, port, job, completed>>
-----------------------------------------------------------------------------
WorkerTest(w) ==
    /\ Goto(w, "loop", IF isRunning THEN "get" ELSE "exit")
    /\ UNCHANGED <<isRunning, callbacksMutex, callbacks, setting, port, job, completed>>

\* Mutant: the packet stays in the port.
Peek(w) ==
    /\ Goto(w, "get", "check")
    /\ port # << >>
    /\ job' = [job EXCEPT ![w] = Head(port)]
    /\ UNCHANGED <<isRunning, callbacksMutex, callbacks, setting, port, completed>>

Dequeue(w) ==
    /\ Goto(w, "get", "check")
    /\ port # << >> /\ port' = Tail(port)
    /\ job' = [job EXCEPT ![w] = Head(port)]
    /\ UNCHANGED <<isRunning, callbacksMutex, callbacks, setting, completed>>

\* Mutant: neither test after the wait.
TestNothing(w) ==
    /\ Goto(w, "check", "lock")
    /\ UNCHANGED <<isRunning, callbacksMutex, callbacks, setting, port, job, completed>>

\* Mutant: break instead of continue after a failed operation.
QuitOnError(w) ==
    /\ Goto(w, "check", IF ~isRunning \/ ~job[w].ok THEN "exit"
                        ELSE IF job[w].op = None THEN "loop" ELSE "lock")
    /\ UNCHANGED <<isRunning, callbacksMutex, callbacks, setting, port, job, completed>>

\* if (!is_running_) break; if (!overlapped) continue.
Recheck(w) ==
    /\ Goto(w, "check", IF ~isRunning THEN "exit"
                        ELSE IF job[w].op = None THEN "loop" ELSE "lock")
    /\ UNCHANGED <<isRunning, callbacksMutex, callbacks, setting, port, job, completed>>

\* Mutant: the lock covers the lookup but not the call.
CallUnlocked(w) ==
    /\ Goto(w, "lock", "call")
    /\ callbacksMutex = Free /\ HasCallback(job[w])
    /\ UNCHANGED <<isRunning, callbacksMutex, callbacks, setting, port, job, completed>>

Call(w) ==
    /\ Goto(w, "lock", "call")
    /\ HasCallback(job[w])
    /\ callbacksMutex = Free /\ callbacksMutex' = w
    /\ UNCHANGED <<isRunning, callbacks, setting, port, job, completed>>

\* No branch matches: the completion is dropped.
Skip(w) ==
    /\ Goto(w, "lock", "loop")
    /\ ~HasCallback(job[w])
    /\ callbacksMutex = Free
    /\ UNCHANGED <<isRunning, callbacksMutex, callbacks, setting, port, job, completed>>

Return(w) ==
    /\ Goto(w, "call", "loop")
    /\ callbacksMutex' = Free
    /\ UNCHANGED <<isRunning, callbacks, setting, port, job, completed>>
-----------------------------------------------------------------------------
Stop ==
    /\ Goto(Owner, "running", "post") /\ setting = {}
    /\ isRunning' = FALSE
    /\ UNCHANGED <<callbacksMutex, callbacks, setting, port, job, completed>>

\* Mutant: one packet too few.
WakeTooFew ==
    /\ Goto(Owner, "post", "join")
    /\ port' = port \o [i \in 1..Cardinality(Workers) - 1 |-> WakePacket]
    /\ UNCHANGED <<isRunning, callbacksMutex, callbacks, setting, job, completed>>

\* One empty packet per worker.
PostWakeups ==
    /\ Goto(Owner, "post", "join")
    /\ port' = port \o [i \in 1..Cardinality(Workers) |-> WakePacket]
    /\ UNCHANGED <<isRunning, callbacksMutex, callbacks, setting, job, completed>>

\* Mutant: the first thread only.
JoinOne ==
    /\ Goto(Owner, "join", "close")
    /\ \E w \in Workers : at[w] = "exit"
    /\ UNCHANGED <<isRunning, callbacksMutex, callbacks, setting, port, job, completed>>

Join ==
    /\ Goto(Owner, "join", "close")
    /\ \A w \in Workers : at[w] = "exit"
    /\ UNCHANGED <<isRunning, callbacksMutex, callbacks, setting, port, job, completed>>

\* CloseHandle: what is queued is lost.
CloseHandle ==
    /\ Goto(Owner, "close", "stopped")
    /\ port' = << >>
    /\ UNCHANGED <<isRunning, callbacksMutex, callbacks, setting, job, completed>>
-----------------------------------------------------------------------------
WorkerStep(w) == \/ WorkerTest(w) \/ Dequeue(w) \/ Recheck(w)
                 \/ Call(w) \/ Skip(w) \/ Return(w)
OwnerStep == SetStore \/ Spawned \/ PostWakeups \/ Join \/ CloseHandle

Ended == ~PortOpen /\ UNCHANGED vars

Next == \/ \E p \in Completion : Complete(p)
        \/ \E k \in Kinds : SetLock(k)
        \/ RunWorkerThreads
        \/ \E w \in Workers : Spawn(w) \/ WorkerStep(w)
        \/ Stop \/ OwnerStep
        \/ Ended

Spec == Init /\ [][Next]_vars

\* Every thread runs on, workers get a mutex or a packet they keep finding, and
\* callbacks return; nobody need start an operation or call stop.
Fairness == /\ \A w \in Workers : SF_vars(WorkerStep(w)) /\ WF_vars(Spawn(w))
            /\ WF_vars(OwnerStep)

FairSpec == Spec /\ Fairness
-----------------------------------------------------------------------------
Calling == {w \in Workers : at[w] = "call"}
InHand == {w \in Workers : at[w] \in {"check", "lock"} /\ job[w].op # None}

Service == INSTANCE CompletionService WITH
    pending <- {port[i] : i \in {j \in DOMAIN port : port[j].op # None}}
                   \cup {job[w] : w \in InHand},
    running <- IF Calling = {} THEN None ELSE job[CHOOSE w \in Workers : at[w] = "call"],
    seen <- completed,
    stopping <- at[Owner] \in {"post", "join", "close", "stopped"},
    stopped <- ~PortOpen

\* Every variable stays within its type, and a worker locks and calls for a
\* packet that has an operation only (iocp_core.cpp:41, 57).
TypeOK ==
    /\ at \in [Threads -> {"setup", "spawn", "running", "post", "join", "close",
                           "stopped", "none", "loop", "get", "check", "lock",
                           "call", "exit"}]
    /\ isRunning \in BOOLEAN
    /\ callbacksMutex \in Threads \cup {Free}
    /\ callbacks \in SUBSET Kinds /\ setting \in SUBSET Kinds
    /\ port \in Seq(Completion \cup {WakePacket})
    /\ job \in [Workers -> Completion \cup {WakePacket}]
    /\ completed \in SUBSET Ops
    /\ \A w \in Workers : at[w] \in {"lock", "call"} => job[w] \in Completion

\* Two callbacks never run at once, and none runs while one is being assigned,
\* whoever holds the mutex for how long (iocp_core.cpp:45, 59, iocp_core.h:31-44).
OneCallbackAtATime ==
    \A w \in Workers : at[w] = "call" =>
        /\ setting = {}
        /\ \A v \in Workers : at[v] = "call" => v = w

\* stop leaves a packet for every worker that waits for one, however many
\* completions were queued before (iocp_core.cpp:80-82).
WakesEveryWorker ==
    at[Owner] = "join" => Cardinality({w \in Workers : at[w] = "get"}) <= Len(port)

\* No completion is delivered twice, to the wrong callback or after stop, and
\* none is dropped that had a callback, unless the core stops.
ServiceSpec == Service!Spec

Queued(o) == \E i \in DOMAIN port : port[i].op = o
Taken(o) == \E w \in Workers : job[w].op = o /\ at[w] \in {"check", "lock", "exit"}

\* While the core runs, what completed leaves the port, and the worker that
\* took it hands it on and stays, failed or not (iocp_core.cpp:43-75).
EveryCompletionServed ==
    \A o \in Ops : Queued(o) \/ Taken(o) ~> ~isRunning \/ ~(Queued(o) \/ Taken(o))

\* stop returns, if callbacks do.
StopReturns == at[Owner] = "post" ~> at[Owner] = "stopped"
=============================================================================
