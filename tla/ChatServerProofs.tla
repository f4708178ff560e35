-------------------------- MODULE ChatServerProofs --------------------------
(***************************************************************************)
(* Proofs about the chat server for every number of workers, clients,      *)
(* sockets and lines: a receive is never lost or doubled, no context is    *)
(* used once it is deleted, a reused SOCKET does not remove the wrong      *)
(* client, stop wakes every worker, and the pool implements the chat room. *)
(***************************************************************************)
EXTENDS ChatServer, FiniteSetTheorems, SequenceTheorems, TLAPS

WorkerPlaces == {"loop", "get", "check", "handle", "send", "remove", "sendLeft",
                 "erase", "exit"}
AcceptorPlaces == {"loop", "accept", "add", "arm", "remove", "sendLeft", "erase", "exit"}
MainPlaces == {"enter", "post", "join", "clear", "close", "returned", "exit"}

\* Each thread keeps to its places, isRunning tells where main is, and the
\* workers have left when main is past its joins.
Phases ==
    /\ at[Main] \in MainPlaces
    /\ at[Acceptor] \in AcceptorPlaces
    /\ \A w \in Workers : at[w] \in WorkerPlaces
    /\ isRunning <=> at[Main] = "enter"
    /\ at[Main] \in {"clear", "close", "returned", "exit"} =>
           \A w \in Workers : at[w] = "exit"

\* clientsMutex is held from the lookup of a client to the end of its handling.
Locked ==
    \A t \in Threads : /\ at[t] \in {"send", "sendLeft", "erase"} => clientsMutex = t
                       /\ clientsMutex = t =>
                              at[t] \in {"send", "remove", "sendLeft", "erase"}

\* A broadcast under way has an event and a sender; nobody else has recipients.
Casts(t) == /\ at[t] \in {"send", "sendLeft", "erase"} => event[t] \in Room!Event
            /\ todo[t] # {} => at[t] \in {"send", "sendLeft"}
Broadcasting == \A t \in Threads : Casts(t)

\* The thread has a context in its hands.
Holds(t) == HasClient(t) \/ (at[t] = "check" /\ Of(t) # NoConn)

\* No two threads have the same context, and what a thread has is not armed.
InHands ==
    /\ \A t, u \in Threads : Holds(t) /\ Holds(u) /\ Of(t) = Of(u) => t = u
    /\ \A w \in Workers : Holds(w) => io[Of(w)] = "idle"
    /\ Holds(Acceptor) => io[Of(Acceptor)] = "none"

\* A receive is queued when it has a packet at the port, and it has only one.
InPort ==
    /\ \A i \in DOMAIN port : port[i].conn # NoConn => io[port[i].conn] = "queued"
    /\ \A c \in Conns : io[c] = "queued" => \E i \in DOMAIN port : port[i].conn = c
    /\ \A i, j \in DOMAIN port :
           port[i].conn = port[j].conn /\ port[i].conn # NoConn => i = j

\* A connection that was not accepted is unknown to everybody.
Unknown ==
    \A c \in Conns : handle[c] = NoHandle =>
        /\ io[c] = "none" /\ c \notin clients /\ told[c] = 0
        /\ \A t \in Threads : Holds(t) => Of(t) # c

\* Until stopServer clears the list, whoever has a context finds it there.
Listed ==
    ~Cleared =>
        /\ \A c \in Conns : io[c] \in {"armed", "queued"} => c \in clients
        /\ \A t \in Threads : Holds(t) /\ at[t] # "add" => Of(t) \in clients
        /\ at[Acceptor] = "add" => Of(Acceptor) \notin clients

\* While the server runs, a client in the list is waited for or served.
Attended(c) == \/ io[c] \in {"armed", "queued"}
               \/ \E t \in Threads : Holds(t) /\ Of(t) = c
Served == isRunning => \A c \in clients : Attended(c)

\* The socket of d is closed and d is about to be erased.
Closing(d) == \E t \in Threads : at[t] = "erase" /\ event[t].who = d

\* A SOCKET names one client of the list: it is reused only after it is
\* closed, and then its client goes before the next one is added.
OwnSocket ==
    /\ \A c, d \in clients : handle[c] = handle[d] => c = d
    /\ RemovesItsOwn
    /\ ~Cleared => \A d \in clients : handle[d] \in open \/ Closing(d)
    /\ at[Acceptor] = "add" /\ ~Cleared =>
           /\ handle[Of(Acceptor)] \in open
           /\ \A d \in clients : handle[d] = handle[Of(Acceptor)] => Closing(d)
    /\ Cleared => clients \subseteq {Of(Acceptor)}
    /\ Cleared /\ at[Acceptor] \in {"accept", "add"} => clients = {}

\* A packet carries the lines that follow those handled so far, up to the last
\* one received, or the end of the connection.
Fresh(p) == /\ p.first = told[p.conn] + 1
            /\ p.last # 0 => p.last = lines[p.conn] /\ p.last > told[p.conn]

\* No line is skipped or handled twice on its way from the client to the room.
Numbering ==
    /\ \A c \in Conns : io[c] \in {"none", "armed"} => lines[c] = told[c]
    /\ \A i \in DOMAIN port : port[i].conn # NoConn => Fresh(port[i])
    /\ \A w \in Workers : at[w] \in {"check", "handle"} /\ Of(w) # NoConn => Fresh(job[w])
    /\ \A w \in Workers : at[w] = "handle" => job[w].last # 0
    /\ \A w \in Workers : at[w] = "send" => lines[Of(w)] = told[Of(w)]
    /\ at[Acceptor] = "add" => told[Of(Acceptor)] = 0
    /\ ~Cleared => \A c \in clients \ inChat : told[c] = 0

\* The inductive invariant.
ChatInv == /\ TypeOK /\ Phases /\ Locked /\ Broadcasting /\ InHands /\ InPort /\ Unknown
           /\ Listed /\ Served /\ OwnSocket /\ Numbering /\ WakesEveryWorker

\* As many null packets as there are workers.
LEMMA NullPackets ==
    LET nulls == [i \in 1..Cardinality(Workers) |-> NullPacket]
    IN  /\ Cardinality(Workers) \in Nat
        /\ nulls \in Seq(Packets)
        /\ Len(nulls) = Cardinality(Workers)
<1>1. Cardinality(Workers) \in Nat
  BY ChatAssumption, FS_CardinalityType
<1>2. NullPacket \in Packets
  BY ChatAssumption DEF NullPacket, Packets
<1>3. QED
  BY <1>1, <1>2

\* The server after startServer satisfies the invariant.
LEMMA InitInv == Init => ChatInv
<1> SUFFICES ASSUME Init PROVE ChatInv
  OBVIOUS
<1> USE ChatAssumption DEF Threads
<1>1. /\ at \in [Threads -> {"loop", "enter"}]
      /\ at[Main] = "enter"
      /\ at[Acceptor] = "loop"
      /\ \A w \in Workers : at[w] = "loop"
      /\ \A t \in Threads : at[t] \in {"loop", "enter"}
  BY DEF Init
<1>2. TypeOK
  <2>1. NullPacket \in Packets
    BY DEF NullPacket, Packets
  <2>2. port \in Seq(Packets)
    BY DEF Init
  <2>3. \A t \in Threads : ~HasClient(t)
    BY <1>1 DEF HasClient
  <2>4. inbox \in [Conns -> Seq(Room!Event)]
    BY DEF Init
  <2>5. at \in [Threads -> Places]
    BY <1>1 DEF Places
  <2>6. QED
    BY <2>1, <2>2, <2>3, <2>4, <2>5 DEF Init, TypeOK
<1>3. Phases /\ Locked /\ Broadcasting
  BY <1>1 DEF Init, Phases, Locked, Broadcasting, Casts, WorkerPlaces, AcceptorPlaces, MainPlaces
<1>4. \A t \in Threads : ~Holds(t)
  BY <1>1 DEF Holds, HasClient
<1>5. InHands /\ InPort /\ Unknown /\ Listed /\ Served
  BY <1>1, <1>4 DEF Init, InHands, InPort, Unknown, Listed, Served, Attended, Cleared
<1>6. OwnSocket /\ Numbering
  BY <1>1 DEF Init, OwnSocket, Numbering, RemovesItsOwn, Leaving, Cleared, Closing
<1>7. WakesEveryWorker
  BY <1>1 DEF WakesEveryWorker
<1>8. QED
  BY <1>2, <1>3, <1>5, <1>6, <1>7 DEF ChatInv

\* Types are preserved by every step.
LEMMA TypeStep ==
    TypeOK /\ Phases /\ Broadcasting /\ [Next]_vars => TypeOK'
<1> SUFFICES ASSUME TypeOK, Phases, Broadcasting, [Next]_vars PROVE TypeOK'
  OBVIOUS
<1> USE ChatAssumption
    DEF TypeOK, Goto, At, Lock, Unlock, Of, Threads, HasClient, Places,
        room, cast, net
<1>1. ASSUME NEW c \in Conns, NEW n \in 0..MaxLines, Complete(c, n) PROVE TypeOK'
  <2>1. Packet(c, n) \in Packets
    BY DEF Packet, Packets
  <2>2. port' \in Seq(Packets)
    BY <1>1, <2>1 DEF Complete
  <2>3. QED
    BY <1>1, <2>2 DEF Complete
<1>2. ASSUME NEW w \in Workers, WorkerTest(w) \/ Dispatch(w) PROVE TypeOK'
  <2>1. job[w] \in Packets /\ (Of(w) # NoConn => Of(w) \in Conns)
    BY DEF Packets
  <2>2. CASE WorkerTest(w)
    BY <2>2 DEF WorkerTest
  <2>3. CASE Dispatch(w)
    <3>1. at' \in [Threads -> Places] /\ UNCHANGED job
      BY <2>3 DEF Dispatch
    <3>2. \A t \in Threads : HasClient(t)' => Of(t)' \in Conns
      BY <2>1, <2>3 DEF Dispatch
    <3>3. QED
      BY <2>3, <3>1, <3>2 DEF Dispatch
  <2>4. QED
    BY <1>2, <2>2, <2>3
<1>3. ASSUME NEW w \in Workers, Dequeue(w) PROVE TypeOK'
  <2>1. Head(port) \in Packets /\ port' \in Seq(Packets)
    BY <1>3 DEF Dequeue
  <2>2. QED
    BY <1>3, <2>1 DEF Dequeue
<1>4. ASSUME NEW w \in Workers, HandleNickname(w) \/ HandleChat(w) PROVE TypeOK'
  <2>1. /\ Of(w) \in Conns /\ job[w].first \in 0..MaxLines + 1 /\ job[w].last \in 0..MaxLines
        /\ inChat' \in SUBSET clients'
    BY <1>4 DEF HandleNickname, HandleChat, Publish, Packets
  <2>2. PICK k \in {"joined", "said"}, to \in SUBSET Conns : Publish(w, k, to)
    <3>1. {c \in inChat : handle[c] # handle[Of(w)]} \in SUBSET Conns
      OBVIOUS
    <3>2. QED
      BY <1>4, <2>1, <3>1 DEF HandleNickname, HandleChat
  <2>3. [kind |-> k, who |-> Of(w), first |-> job[w].first, last |-> job[w].last]
            \in Room!Event
    BY <2>1 DEF Room!Event
  <2>4. QED
    BY <2>1, <2>2, <2>3 DEF Publish
<1>5. ASSUME NEW t \in Threads, NEW c \in Conns, Send(t, c) PROVE TypeOK'
  <2>1. event[t] \in Room!Event
    BY <1>5 DEF Send, Broadcasting, Casts
  <2>2. inbox' \in [Conns -> Seq(Room!Event)]
    BY <1>5, <2>1 DEF Send
  <2>3. QED
    BY <1>5, <2>2 DEF Send
<1>6. ASSUME NEW w \in Workers, Rearm(w) \/ RearmFails(w) PROVE TypeOK'
  <2>1. Of(w) \in Conns
    BY <1>6 DEF Rearm, RearmFails
  <2>2. CASE Rearm(w)
    <3>1. /\ event' \in [Threads -> Room!Event \cup {NoEvent}]
          /\ io' \in [Conns -> {"none", "armed", "queued", "idle"}]
          /\ at' \in [Threads -> Places]
          /\ \A t \in Threads : HasClient(t)' => Of(t)' \in Conns
      BY <2>1, <2>2 DEF Rearm
    <3>2. QED
      BY <2>2, <3>1 DEF Rearm
  <2>3. CASE RearmFails(w)
    BY <2>3 DEF RearmFails
  <2>4. QED
    BY <1>6, <2>2, <2>3
<1>7. ASSUME NEW t \in Threads, NEW c \in Conns, RemoveFound(t, c) PROVE TypeOK'
  <2>1. [kind |-> "left", who |-> c, first |-> 0, last |-> told[c]] \in Room!Event
    BY DEF Room!Event
  <2>2. QED
    BY <1>7, <2>1 DEF RemoveFound
<1>8. ASSUME NEW t \in Threads, RemoveMissing(t) \/ CloseSocket(t) \/ Erase(t)
      PROVE  TypeOK'
  <2>1. CASE RemoveMissing(t)
    BY <2>1 DEF RemoveMissing
  <2>2. CASE CloseSocket(t)
    BY <2>2 DEF CloseSocket
  <2>3. CASE Erase(t)
    BY <2>3 DEF Erase
  <2>4. QED
    BY <1>8, <2>1, <2>2, <2>3
<1>9. CASE AcceptTest \/ AcceptFails \/ FirstReceiveFails
  BY <1>9 DEF AcceptTest, AcceptFails, FirstReceiveFails
<1>10. ASSUME NEW c \in Conns, NEW h \in Handles, Accept(c, h) PROVE TypeOK'
  <2>1. Packet(c, 0) \in Packets
    BY DEF Packet, Packets
  <2>2. job'[Acceptor].conn = c
    BY <1>10 DEF Accept, Packet
  <2>3. QED
    BY <1>10, <2>1, <2>2 DEF Accept
<1>11. CASE AddClient \/ FirstReceive
  <2>1. Of(Acceptor) \in Conns
    BY <1>11 DEF AddClient, FirstReceive
  <2>2. CASE AddClient
    BY <2>1, <2>2 DEF AddClient
  <2>3. CASE FirstReceive
    BY <2>1, <2>3 DEF FirstReceive
  <2>4. QED
    BY <1>11, <2>2, <2>3
<1>12. CASE PressEnter \/ JoinWorkers \/ CloseServer \/ Exit
  <2>1. CASE PressEnter
    BY <2>1 DEF PressEnter
  <2>2. CASE JoinWorkers
    BY <2>2 DEF JoinWorkers
  <2>3. CASE CloseServer
    BY <2>3 DEF CloseServer
  <2>4. CASE Exit
    BY <2>4 DEF Exit
  <2>5. QED
    BY <1>12, <2>1, <2>2, <2>3, <2>4
<1>13. CASE PostNulls
  <2>1. port' \in Seq(Packets)
    BY <1>13, NullPackets, ConcatProperties DEF PostNulls
  <2>2. QED
    BY <1>13, <2>1 DEF PostNulls
<1>14. CASE ClearClients
  <2>1. open' \in SUBSET Handles /\ inChat' \in SUBSET clients' /\ clients' \in SUBSET Conns
    BY <1>14 DEF ClearClients
  <2>2. QED
    BY <1>14, <2>1 DEF ClearClients
<1>15. CASE UNCHANGED vars
  BY <1>15 DEF vars
<1>16. QED
  BY <1>1, <1>2, <1>3, <1>4, <1>5, <1>6, <1>7, <1>8, <1>9, <1>10, <1>11, <1>12,
     <1>13, <1>14, <1>15
     DEF Next, WorkerStep, RemoveStep, AcceptorStep, MainStep, Halted

\* The places of the threads and the owner of the mutex.
LEMMA ControlStep ==
    TypeOK /\ Phases /\ Locked /\ [Next]_vars => Phases' /\ Locked'
<1> SUFFICES ASSUME TypeOK, Phases, Locked, [Next]_vars PROVE Phases' /\ Locked'
  OBVIOUS
<1> at \in [Threads -> Places]
  BY DEF TypeOK
<1> USE ChatAssumption
    DEF Phases, Locked, WorkerPlaces, AcceptorPlaces, MainPlaces,
        Goto, At, Lock, Unlock, Threads
<1>1. ASSUME NEW c \in Conns, NEW n \in 0..MaxLines, Complete(c, n)
      PROVE  Phases' /\ Locked'
  BY <1>1 DEF Complete
<1>2. ASSUME NEW w \in Workers, WorkerTest(w) \/ Dequeue(w) \/ Dispatch(w)
      PROVE  Phases' /\ Locked'
  <2>1. CASE WorkerTest(w)
    BY <2>1 DEF WorkerTest
  <2>2. CASE Dequeue(w)
    BY <2>2 DEF Dequeue
  <2>3. CASE Dispatch(w)
    BY <2>3 DEF Dispatch
  <2>4. QED
    BY <1>2, <2>1, <2>2, <2>3
<1>3. ASSUME NEW w \in Workers,
             HandleNickname(w) \/ HandleChat(w) \/ Rearm(w) \/ RearmFails(w)
      PROVE  Phases' /\ Locked'
  <2>1. CASE HandleNickname(w) \/ HandleChat(w)
    BY <2>1 DEF HandleNickname, HandleChat, Publish
  <2>2. CASE Rearm(w)
    BY <2>2 DEF Rearm
  <2>3. CASE RearmFails(w)
    BY <2>3 DEF RearmFails
  <2>4. QED
    BY <1>3, <2>1, <2>2, <2>3
<1>4. ASSUME NEW t \in Workers \cup {Acceptor}, RemoveStep(t) PROVE Phases' /\ Locked'
  <2>1. ASSUME NEW c \in Conns, Send(t, c) PROVE Phases' /\ Locked'
    BY <2>1 DEF Send
  <2>2. ASSUME NEW c \in Conns, RemoveFound(t, c) PROVE Phases' /\ Locked'
    BY <2>2 DEF RemoveFound
  <2>3. CASE RemoveMissing(t)
    BY <2>3 DEF RemoveMissing
  <2>4. CASE CloseSocket(t)
    BY <2>4 DEF CloseSocket
  <2>5. CASE Erase(t)
    BY <2>5 DEF Erase
  <2>6. QED
    BY <1>4, <2>1, <2>2, <2>3, <2>4, <2>5 DEF RemoveStep
<1>5. ASSUME NEW c \in Conns, NEW h \in Handles, Accept(c, h) PROVE Phases' /\ Locked'
  BY <1>5 DEF Accept
<1>6. CASE AcceptTest \/ AcceptFails \/ AddClient \/ FirstReceive \/ FirstReceiveFails
  BY <1>6 DEF AcceptTest, AcceptFails, AddClient, FirstReceive, FirstReceiveFails
<1>7. CASE PressEnter \/ MainStep
  BY <1>7 DEF PressEnter, MainStep, PostNulls, JoinWorkers, ClearClients, CloseServer, Exit
<1>8. CASE UNCHANGED vars
  BY <1>8 DEF vars
<1>9. QED
  BY <1>1, <1>2, <1>3, <1>4, <1>5, <1>6, <1>7, <1>8
     DEF Next, WorkerStep, AcceptorStep, Halted

\* Only the thread that holds the mutex broadcasts.
LEMMA BroadcastStep ==
    TypeOK /\ Broadcasting /\ [Next]_vars => Broadcasting'
<1> SUFFICES ASSUME TypeOK, Broadcasting, [Next]_vars, NEW u \in Threads PROVE Casts(u)'
  BY DEF Broadcasting
<1> USE ChatAssumption DEF TypeOK, Broadcasting, Casts, Goto, At, Threads, cast
<1>1. ASSUME NEW c \in Conns, NEW n \in 0..MaxLines, Complete(c, n) PROVE Casts(u)'
  BY <1>1 DEF Complete
<1>2. ASSUME NEW w \in Workers, WorkerTest(w) \/ Dequeue(w) \/ Dispatch(w)
      PROVE  Casts(u)'
  BY <1>2 DEF WorkerTest, Dequeue, Dispatch
<1>3. ASSUME NEW w \in Workers, HandleNickname(w) \/ HandleChat(w) PROVE Casts(u)'
  <2>4. PICK k \in {"joined", "said"} : \E to : Publish(w, k, to)
    BY <1>3, Zenon DEF HandleNickname, HandleChat
  <2>1. PICK to : Publish(w, k, to)
    BY <2>4
  <2>2. [kind |-> k, who |-> Of(w), first |-> job[w].first, last |-> job[w].last]
            \in Room!Event
    BY <2>1 DEF Publish, HasClient, Packets, Room!Event, Of
  <2>3. QED
    BY <2>1, <2>2 DEF Publish
<1>4. ASSUME NEW w \in Workers, Rearm(w) \/ RearmFails(w) PROVE Casts(u)'
  BY <1>4 DEF Rearm, RearmFails
<1>5. ASSUME NEW t \in Threads, NEW c \in Conns, RemoveFound(t, c) PROVE Casts(u)'
  <2>1. [kind |-> "left", who |-> c, first |-> 0, last |-> told[c]] \in Room!Event
    BY DEF Room!Event
  <2>2. QED
    BY <1>5, <2>1 DEF RemoveFound
<1>6. ASSUME NEW t \in Threads, NEW c \in Conns, Send(t, c) PROVE Casts(u)'
  BY <1>6 DEF Send
<1>7. ASSUME NEW t \in Threads, RemoveMissing(t) \/ CloseSocket(t) \/ Erase(t)
      PROVE  Casts(u)'
  BY <1>7 DEF RemoveMissing, CloseSocket, Erase
<1>8. ASSUME NEW c \in Conns, NEW h \in Handles, Accept(c, h) PROVE Casts(u)'
  BY <1>8 DEF Accept
<1>9. CASE AcceptTest \/ AcceptFails \/ AddClient \/ FirstReceive \/ FirstReceiveFails
  BY <1>9 DEF AcceptTest, AcceptFails, AddClient, FirstReceive, FirstReceiveFails
<1>10. CASE PressEnter \/ MainStep
  BY <1>10 DEF PressEnter, MainStep, PostNulls, JoinWorkers, ClearClients, CloseServer, Exit
<1>11. CASE UNCHANGED vars
  BY <1>11 DEF vars
<1>12. QED
  BY <1>1, <1>2, <1>3, <1>4, <1>5, <1>6, <1>7, <1>8, <1>9, <1>10, <1>11
     DEF Next, WorkerStep, RemoveStep, AcceptorStep, Halted

\* Threads may let go of what they have; the receives stay where they are.
LetsGo == /\ UNCHANGED <<port, io, job>>
          /\ \A t \in Threads : Holds(t)' => Holds(t)

\* Seven actions move a receive or give a thread a context; under the others
\* threads only let go of theirs.
LEMMA ReceiveMoves ==
    TypeOK /\ Phases /\ [Next]_vars =>
        \/ \E c \in Conns, n \in 0..MaxLines : Complete(c, n)
        \/ \E w \in Workers : Dequeue(w) \/ Rearm(w)
        \/ FirstReceive
        \/ PostNulls
        \/ \E c \in Conns, h \in Handles : Accept(c, h)
        \/ LetsGo
<1> SUFFICES ASSUME TypeOK, Phases, [Next]_vars,
                    \A c \in Conns, n \in 0..MaxLines : ~Complete(c, n),
                    \A w \in Workers : ~Dequeue(w) /\ ~Rearm(w),
                    ~FirstReceive, ~PostNulls,
                    \A c \in Conns, h \in Handles : ~Accept(c, h)
             PROVE  LetsGo
  OBVIOUS
<1> at \in [Threads -> Places]
  BY DEF TypeOK
<1> USE ChatAssumption DEF Phases, WorkerPlaces, AcceptorPlaces, MainPlaces, Goto, At,
        Threads, Holds, HasClient, Of, LetsGo
<1>1. ASSUME NEW w \in Workers, WorkerTest(w) PROVE LetsGo
  BY <1>1 DEF WorkerTest
<1>2. ASSUME NEW w \in Workers, Dispatch(w) PROVE LetsGo
  BY <1>2 DEF Dispatch
<1>3. ASSUME NEW w \in Workers, HandleNickname(w) \/ HandleChat(w) PROVE LetsGo
  BY <1>3 DEF HandleNickname, HandleChat, Publish
<1>4. ASSUME NEW w \in Workers, RearmFails(w) PROVE LetsGo
  BY <1>4 DEF RearmFails
<1>5. ASSUME NEW t \in Threads, NEW c \in Conns, RemoveFound(t, c) \/ Send(t, c) PROVE LetsGo
  BY <1>5 DEF RemoveFound, Send
<1>6. ASSUME NEW t \in Threads, RemoveMissing(t) \/ CloseSocket(t) \/ Erase(t) PROVE LetsGo
  BY <1>6 DEF RemoveMissing, CloseSocket, Erase
<1>7. CASE AcceptTest \/ AcceptFails \/ AddClient \/ FirstReceiveFails
  BY <1>7 DEF AcceptTest, AcceptFails, AddClient, FirstReceiveFails
<1>8. CASE PressEnter \/ JoinWorkers \/ ClearClients \/ CloseServer \/ Exit
  BY <1>8 DEF PressEnter, JoinWorkers, ClearClients, CloseServer, Exit
<1>9. CASE UNCHANGED vars
  BY <1>9 DEF vars
<1> HIDE DEF LetsGo, Phases, Goto, At
<1>10. ASSUME NEW t \in Threads, RemoveStep(t) PROVE LetsGo
  BY <1>5, <1>6, <1>10 DEF RemoveStep
<1>11. ASSUME NEW w \in Workers, WorkerStep(w) PROVE LetsGo
  BY <1>1, <1>2, <1>3, <1>4, <1>10, <1>11 DEF WorkerStep
<1>12. CASE AcceptorStep \/ AcceptFails
  BY <1>7, <1>10, <1>12 DEF AcceptorStep
<1>13. CASE PressEnter \/ MainStep
  BY <1>8, <1>13 DEF MainStep
<1>14. QED
  BY <1>9, <1>11, <1>12, <1>13 DEF Next, Halted

\* A context is taken by one thread, from the port or from accept.
LEMMA InHandsStep ==
    TypeOK /\ Phases /\ InHands /\ InPort /\ Unknown /\ [Next]_vars => InHands'
<1> SUFFICES ASSUME TypeOK, Phases, InHands, InPort, Unknown, [Next]_vars PROVE InHands'
  OBVIOUS
<1> /\ at \in [Threads -> Places] /\ job \in [Threads -> Packets]
    /\ io \in [Conns -> {"none", "armed", "queued", "idle"}]
    /\ \A t \in Threads : Holds(t) => Of(t) \in Conns
  BY DEF TypeOK, Holds, HasClient, Packets, Of
<1> USE ChatAssumption DEF InHands, Phases, WorkerPlaces, AcceptorPlaces, MainPlaces,
        Goto, At, Threads
<1>1. ASSUME NEW c \in Conns, NEW n \in 0..MaxLines, Complete(c, n) PROVE InHands'
  BY <1>1 DEF Complete, Holds, HasClient, Of
<1>2. ASSUME NEW w \in Workers, Dequeue(w) PROVE InHands'
  <2>1. /\ Head(port).conn # NoConn => io[Head(port).conn] = "queued"
        /\ Head(port).conn \in Conns \cup {NoConn}
    <3>1. port \in Seq(Packets) /\ port # << >>
      BY <1>2 DEF Dequeue, TypeOK
    <3>2. 1 \in DOMAIN port /\ Head(port) = port[1] /\ Head(port) \in Packets
      BY <3>1
    <3>3. QED
      BY <3>2 DEF InPort, Packets
  <2>2. \A t \in Threads : Holds(t) => Of(t) # Head(port).conn
    BY <2>1 DEF Holds, HasClient
  <2>3. /\ \A t \in Threads \ {w} : (Holds(t)' => Holds(t)) /\ Of(t)' = Of(t)
        /\ Of(w)' = Head(port).conn
        /\ Holds(w)' => Of(w)' # NoConn
    BY <1>2 DEF Dequeue, Holds, HasClient, Of
  <2>4. io' = [c \in Conns |-> IF c = Head(port).conn THEN "idle" ELSE io[c]]
    BY <1>2 DEF Dequeue
  <2>5. QED
    BY <2>1, <2>2, <2>3, <2>4
<1>3. ASSUME NEW w \in Workers, Rearm(w) PROVE InHands'
  BY <1>3 DEF Rearm, Holds, HasClient, Of
<1>4. CASE FirstReceive
  BY <1>4 DEF FirstReceive, Holds, HasClient, Of
<1>5. CASE PostNulls
  BY <1>5 DEF PostNulls, Holds, HasClient, Of
<1>6. ASSUME NEW c \in Conns, NEW h \in Handles, Accept(c, h) PROVE InHands'
  <2>1. io[c] = "none" /\ \A t \in Threads : Holds(t) => Of(t) # c
    BY <1>6 DEF Accept, Unknown
  <2>2. /\ \A t \in Threads \ {Acceptor} : (Holds(t)' => Holds(t)) /\ Of(t)' = Of(t)
        /\ Of(Acceptor)' = c
        /\ io' = io
    BY <1>6 DEF Accept, Packet, Holds, HasClient, Of
  <2>3. QED
    BY <2>1, <2>2
<1>7. CASE LetsGo
  BY <1>7 DEF LetsGo, Of
<1>8. QED
  BY <1>1, <1>2, <1>3, <1>4, <1>5, <1>6, <1>7, ReceiveMoves

\* A packet is queued for an armed receive and taken with its context.
LEMMA InPortStep ==
    TypeOK /\ Phases /\ InHands /\ InPort /\ [Next]_vars => InPort'
<1> SUFFICES ASSUME TypeOK, Phases, InHands, InPort, [Next]_vars PROVE InPort'
  OBVIOUS
<1> /\ io \in [Conns -> {"none", "armed", "queued", "idle"}]
    /\ port \in Seq(Packets)
    /\ \A p \in Packets : p.conn \in Conns \cup {NoConn}
  BY DEF TypeOK, Packets
<1> USE ChatAssumption DEF InPort
<1>1. ASSUME NEW c \in Conns, NEW n \in 0..MaxLines, Complete(c, n) PROVE InPort'
  <2>1. Packet(c, n) \in Packets /\ Packet(c, n).conn = c
    BY DEF Packet, Packets, TypeOK
  <2>2. /\ Len(port') = Len(port) + 1
        /\ \A i \in 1..Len(port) : port'[i] = port[i]
        /\ port'[Len(port) + 1].conn = c
    BY <1>1, <2>1 DEF Complete
  <2>3. io[c] = "armed" /\ io' = [io EXCEPT ![c] = "queued"]
    BY <1>1 DEF Complete
  <2>4. DOMAIN port = 1..Len(port) /\ DOMAIN port' = 1..Len(port) + 1 /\ Len(port) \in Nat
    BY <1>1, <2>1 DEF Complete
  <2>5. \A i \in DOMAIN port : port[i].conn # c /\ port[i].conn \in Conns \cup {NoConn}
    BY <2>3
  <2>6. \A d \in Conns : io'[d] = "queued" => \E i \in DOMAIN port' : port'[i].conn = d
    BY <2>2, <2>3, <2>4
  <2>7. QED
    BY <2>2, <2>3, <2>4, <2>5, <2>6
<1>2. ASSUME NEW w \in Workers, Dequeue(w) PROVE InPort'
  <2>1. /\ DOMAIN port = 1..Len(port) /\ Len(port) \in Nat /\ Len(port) >= 1
        /\ DOMAIN port' = 1..Len(port) - 1
        /\ \A i \in DOMAIN port' : i + 1 \in DOMAIN port /\ port'[i] = port[i + 1]
        /\ Head(port) = port[1] /\ 1 \in DOMAIN port
    BY <1>2 DEF Dequeue
  <2>2. io' = [c \in Conns |-> IF c = port[1].conn THEN "idle" ELSE io[c]]
    BY <1>2, <2>1 DEF Dequeue
  <2>3. \A i \in DOMAIN port : port[i].conn \in Conns \cup {NoConn}
    OBVIOUS
  <2>4. \A i \in DOMAIN port' : port'[i].conn # NoConn => port'[i].conn # port[1].conn
    BY <2>1
  <2>5. ASSUME NEW c \in Conns, io'[c] = "queued"
        PROVE  \E i \in DOMAIN port' : port'[i].conn = c
    <3>1. PICK i \in DOMAIN port : port[i].conn = c
      BY <2>2, <2>5
    <3>2. i # 1
      BY <2>2, <2>5, <3>1
    <3>3. i - 1 \in DOMAIN port' /\ port'[i - 1] = port[i]
      BY <2>1, <3>2
    <3>4. QED
      BY <3>1, <3>3
  <2>6. QED
    BY <2>1, <2>2, <2>3, <2>4, <2>5
<1>3. ASSUME NEW c \in Conns, io[c] \in {"none", "idle"}, io' = [io EXCEPT ![c] = "armed"],
             port' = port
      PROVE  InPort'
  BY <1>3
<1>4. ASSUME NEW w \in Workers, Rearm(w) PROVE InPort'
  <2>1. Of(w) \in Conns /\ io[Of(w)] = "idle"
    BY <1>4 DEF Rearm, TypeOK, InHands, Holds, HasClient, Goto, At, Threads
  <2>2. QED
    BY <1>3, <1>4, <2>1 DEF Rearm
<1>5. CASE FirstReceive
  <2>1. Of(Acceptor) \in Conns /\ io[Of(Acceptor)] = "none"
    BY <1>5 DEF FirstReceive, TypeOK, InHands, Holds, HasClient, Goto, At, Threads
  <2>2. QED
    BY <1>3, <1>5, <2>1 DEF FirstReceive
<1>6. CASE PostNulls
  <2>1. /\ Len(port') = Len(port) + Cardinality(Workers)
        /\ \A i \in 1..Len(port) : port'[i] = port[i]
        /\ \A i \in Len(port) + 1..Len(port') : port'[i].conn = NoConn
        /\ DOMAIN port' = 1..Len(port')
        /\ Cardinality(Workers) \in Nat
    BY <1>6, NullPackets, ConcatProperties DEF PostNulls, NullPacket
  <2>2. DOMAIN port = 1..Len(port) /\ Len(port) \in Nat
    OBVIOUS
  <2>3. \A i \in DOMAIN port' : i \in DOMAIN port \/ port'[i].conn = NoConn
    BY <2>1, <2>2
  <2>4. io' = io
    BY <1>6 DEF PostNulls
  <2>5. QED
    BY <2>1, <2>2, <2>3, <2>4
<1>7. ASSUME NEW c \in Conns, NEW h \in Handles, Accept(c, h) PROVE InPort'
  BY <1>7 DEF Accept
<1>8. CASE LetsGo
  BY <1>8 DEF LetsGo
<1>9. QED
  BY <1>1, <1>2, <1>4, <1>5, <1>6, <1>7, <1>8, ReceiveMoves

\* The list, the SOCKETs and the context the acceptor is about to add stay.
SameList == /\ UNCHANGED <<clients, handle>>
            /\ Cleared' <=> Cleared
            /\ at'[Acceptor] = "add" <=> at[Acceptor] = "add"

\* Four actions change the list or the context the acceptor is about to add.
LEMMA ListMoves ==
    TypeOK /\ Phases /\ [Next]_vars =>
        \/ AddClient
        \/ \E t \in Threads : Erase(t)
        \/ ClearClients
        \/ \E c \in Conns, h \in Handles : Accept(c, h)
        \/ SameList
<1> SUFFICES ASSUME TypeOK, Phases, [Next]_vars,
                    ~AddClient, \A t \in Threads : ~Erase(t), ~ClearClients,
                    \A c \in Conns, h \in Handles : ~Accept(c, h)
             PROVE  SameList
  OBVIOUS
<1> at \in [Threads -> Places]
  BY DEF TypeOK
<1> USE ChatAssumption DEF Phases, WorkerPlaces, AcceptorPlaces, MainPlaces, Goto, At,
        Threads, SameList, Cleared, room, net
<1>1. ASSUME NEW c \in Conns, NEW n \in 0..MaxLines, Complete(c, n) PROVE SameList
  BY <1>1 DEF Complete
<1>2. ASSUME NEW w \in Workers, WorkerTest(w) \/ Dequeue(w) \/ RearmFails(w)
      PROVE  SameList
  BY <1>2 DEF WorkerTest, Dequeue, RearmFails
<1>3. ASSUME NEW w \in Workers, Dispatch(w) \/ Rearm(w) PROVE SameList
  BY <1>3 DEF Dispatch, Rearm
<1>4. ASSUME NEW w \in Workers, HandleNickname(w) \/ HandleChat(w) PROVE SameList
  BY <1>4 DEF HandleNickname, HandleChat, Publish
<1>5. ASSUME NEW t \in Workers \cup {Acceptor}, RemoveStep(t) PROVE SameList
  <2>1. ASSUME NEW c \in Conns, RemoveFound(t, c) \/ Send(t, c) PROVE SameList
    BY <2>1 DEF RemoveFound, Send
  <2>2. CASE RemoveMissing(t) \/ CloseSocket(t)
    BY <2>2 DEF RemoveMissing, CloseSocket
  <2>3. QED
    BY <1>5, <2>1, <2>2 DEF RemoveStep
<1>6. CASE AcceptTest \/ AcceptFails \/ FirstReceive \/ FirstReceiveFails
  BY <1>6 DEF AcceptTest, AcceptFails, FirstReceive, FirstReceiveFails
<1>7. CASE PressEnter \/ PostNulls \/ JoinWorkers \/ CloseServer \/ Exit
  BY <1>7 DEF PressEnter, PostNulls, JoinWorkers, CloseServer, Exit
<1>8. CASE UNCHANGED vars
  BY <1>8 DEF vars
<1> HIDE DEF SameList, Phases, Goto, At
<1>9. ASSUME NEW w \in Workers, WorkerStep(w) PROVE SameList
  BY <1>2, <1>3, <1>4, <1>5, <1>9 DEF WorkerStep
<1>10. CASE AcceptorStep \/ AcceptFails
  BY <1>5, <1>6, <1>10 DEF AcceptorStep
<1>11. CASE PressEnter \/ MainStep
  BY <1>7, <1>11 DEF MainStep
<1>12. QED
  BY <1>1, <1>8, <1>9, <1>10, <1>11 DEF Next, Halted

\* Whoever is at "erase" erases the client whose context it has.
LEMMA ErasesOwn ==
    ASSUME NEW t \in Threads, TypeOK, RemovesItsOwn, Erase(t)
    PROVE  /\ Holds(t) /\ at[t] # "add" /\ clients' = clients \ {Of(t)}
           /\ at' = [at EXCEPT ![t] = "loop"]
           /\ UNCHANGED <<io, port, job, handle, open, told, lines, isRunning>>
  BY DEF Erase, RemovesItsOwn, Leaving, Holds, HasClient, Goto, At, net

\* Nobody knows a connection before it is accepted.
LEMMA UnknownStep ==
    TypeOK /\ Phases /\ InPort /\ Unknown /\ [Next]_vars => Unknown'
<1> SUFFICES ASSUME TypeOK, Phases, InPort, Unknown, [Next]_vars,
                    NEW c \in Conns, handle'[c] = NoHandle
             PROVE  /\ io'[c] = "none" /\ c \notin clients' /\ told'[c] = 0
                    /\ \A t \in Threads : Holds(t)' => Of(t)' # c
  BY DEF Unknown
<1> USE ChatAssumption
<1>1. /\ handle[c] = NoHandle
      /\ \A h \in Handles : ~Accept(c, h)
  <2>1. ASSUME NEW d \in Conns, NEW h \in Handles, Accept(d, h)
        PROVE  handle'[d] # NoHandle /\ (d # c => handle'[c] = handle[c])
    BY <2>1 DEF Accept, TypeOK
  <2>2. (\E d \in Conns, h \in Handles : Accept(d, h)) \/ UNCHANGED handle
    <3>1. ASSUME NEW d \in Conns, NEW n \in 0..MaxLines, Complete(d, n) PROVE UNCHANGED handle
      BY <3>1 DEF Complete, net
    <3>2. ASSUME NEW t \in Threads, RemoveStep(t) PROVE UNCHANGED handle
      BY <3>2 DEF RemoveStep, RemoveFound, Send, RemoveMissing, CloseSocket, Erase, net
    <3>3. ASSUME NEW w \in Workers, WorkerStep(w) PROVE UNCHANGED handle
      BY <3>2, <3>3 DEF Threads, WorkerStep, WorkerTest, Dequeue, Dispatch, HandleNickname,
         HandleChat, Publish, Rearm, RearmFails, net
    <3>4. CASE AcceptorStep \/ AcceptFails
      BY <3>2, <3>4 DEF Threads, AcceptorStep, AcceptTest, AcceptFails, AddClient,
         FirstReceive, FirstReceiveFails, net
    <3>5. CASE PressEnter \/ MainStep
      BY <3>5 DEF PressEnter, MainStep, PostNulls, JoinWorkers, ClearClients, CloseServer,
         Exit, net
    <3>6. CASE UNCHANGED vars
      BY <3>6 DEF vars, net
    <3>7. QED
      BY <3>1, <3>3, <3>4, <3>5, <3>6 DEF Next, Halted
  <2>3. QED
    BY <2>1, <2>2
<1>2. io[c] = "none" /\ c \notin clients /\ told[c] = 0 /\ \A t \in Threads : Holds(t) => Of(t) # c
  BY <1>1 DEF Unknown
<1>3. told'[c] = 0
  <2>1. ASSUME NEW w \in Workers, HandleNickname(w) \/ HandleChat(w) PROVE told'[c] = 0
    BY <1>2, <2>1 DEF HandleNickname, HandleChat, Publish, Goto, At, Holds, HasClient,
                      TypeOK, Threads
  <2>2. (\A w \in Workers : ~HandleNickname(w) /\ ~HandleChat(w)) => told' = told
    BY DEF Next, WorkerStep, RemoveStep, AcceptorStep, MainStep, Halted, vars, cast,
           Complete, WorkerTest, Dequeue, Dispatch, Rearm, RearmFails, RemoveFound, Send,
           RemoveMissing, CloseSocket, Erase, AcceptTest, AcceptFails, Accept, AddClient,
           FirstReceive, FirstReceiveFails, PressEnter, PostNulls, JoinWorkers,
           ClearClients, CloseServer, Exit
  <2>3. QED
    BY <1>2, <2>1, <2>2
<1>4. c \notin clients'
  <2>1. CASE AddClient
    BY <1>2, <2>1 DEF AddClient, Goto, At, Holds, HasClient, Threads
  <2>2. ASSUME NEW t \in Threads, Erase(t) PROVE c \notin clients'
    BY <1>2, <2>2 DEF Erase
  <2>3. ASSUME NEW d \in Conns, NEW h \in Handles, Accept(d, h) PROVE c \notin clients'
    BY <1>2, <2>3 DEF Accept, room
  <2>4. CASE ClearClients
    BY <2>4 DEF ClearClients
  <2>5. QED
    BY <1>2, <2>1, <2>2, <2>3, <2>4, ListMoves DEF SameList
<1>5. io'[c] = "none" /\ \A t \in Threads : Holds(t)' => Of(t)' # c
  <2> at \in [Threads -> Places] /\ job \in [Threads -> Packets]
      /\ io \in [Conns -> {"none", "armed", "queued", "idle"}]
    BY DEF TypeOK
  <2> USE <1>2 DEF Goto, At, Holds, HasClient, Of, Threads
  <2>1. ASSUME NEW d \in Conns, NEW n \in 0..MaxLines, Complete(d, n)
        PROVE  io'[c] = "none" /\ \A t \in Threads : Holds(t)' => Of(t)' # c
    BY <2>1 DEF Complete
  <2>2. ASSUME NEW w \in Workers, Dequeue(w)
        PROVE  io'[c] = "none" /\ \A t \in Threads : Holds(t)' => Of(t)' # c
    <3>1. port \in Seq(Packets) /\ port # << >>
      BY <2>2 DEF Dequeue, TypeOK
    <3>2. 1 \in DOMAIN port /\ Head(port) = port[1]
      BY <3>1
    <3>3. Head(port).conn # c
      BY <3>2 DEF InPort
    <3>4. QED
      BY <2>2, <3>3 DEF Dequeue
  <2>3. ASSUME NEW w \in Workers, Rearm(w)
        PROVE  io'[c] = "none" /\ \A t \in Threads : Holds(t)' => Of(t)' # c
    BY <2>3 DEF Rearm
  <2>4. CASE FirstReceive
    BY <2>4 DEF FirstReceive
  <2>5. CASE PostNulls
    BY <2>5 DEF PostNulls
  <2>6. ASSUME NEW d \in Conns, NEW h \in Handles, Accept(d, h)
        PROVE  io'[c] = "none" /\ \A t \in Threads : Holds(t)' => Of(t)' # c
    BY <1>1, <2>6 DEF Accept, Packet
  <2>7. CASE LetsGo
    BY <2>7 DEF LetsGo
  <2> HIDE DEF Goto, At, Holds, HasClient, Of
  <2>8. QED
    BY <2>1, <2>2, <2>3, <2>4, <2>5, <2>6, <2>7, ReceiveMoves
<1>6. QED
  BY <1>3, <1>4, <1>5

\* A context in use is in the list until its thread erases it.
LEMMA ListedStep ==
    /\ TypeOK /\ Phases /\ InHands /\ InPort /\ Unknown /\ Listed /\ RemovesItsOwn
    /\ [Next]_vars
    => Listed'
<1> SUFFICES ASSUME TypeOK, Phases, InHands, InPort, Unknown, Listed, RemovesItsOwn,
                    [Next]_vars, ~Cleared'
             PROVE  /\ \A c \in Conns : io'[c] \in {"armed", "queued"} => c \in clients'
                    /\ \A t \in Threads : Holds(t)' /\ at'[t] # "add" => Of(t)' \in clients'
                    /\ at'[Acceptor] = "add" => Of(Acceptor)' \notin clients'
  BY DEF Listed
<1> DEFINE Goal == /\ \A c \in Conns : io'[c] \in {"armed", "queued"} => c \in clients'
                   /\ \A t \in Threads : Holds(t)' /\ at'[t] # "add" => Of(t)' \in clients'
                   /\ at'[Acceptor] = "add" => Of(Acceptor)' \notin clients'
<1>0. /\ at \in [Threads -> Places] /\ job \in [Threads -> Packets]
      /\ io \in [Conns -> {"none", "armed", "queued", "idle"}]
      /\ \A t \in Threads : Holds(t) => Of(t) \in Conns
  BY DEF TypeOK, Holds, HasClient, Packets, Of
<1>1. /\ \A c \in Conns : io[c] \in {"armed", "queued"} => c \in clients
      /\ \A t \in Threads : Holds(t) /\ at[t] # "add" => Of(t) \in clients
      /\ at[Acceptor] = "add" => Of(Acceptor) \notin clients
  <2>1. Cleared => Cleared'
    BY <1>0, ListMoves, ChatAssumption
       DEF SameList, AddClient, Erase, ClearClients, Accept, Cleared, Goto, At, Threads
  <2>2. QED
    BY <2>1 DEF Listed
<1>2. \A t \in Threads : Holds(t) => at[t] # "add" \/ t = Acceptor
  BY DEF Phases, WorkerPlaces, MainPlaces, Threads
<1> USE ChatAssumption, <1>0, <1>1 DEF Goto, At, Threads
<1>3. CASE AddClient
  <2>1. /\ clients' = clients \cup {Of(Acceptor)} /\ io' = io /\ job' = job
        /\ at' = [at EXCEPT ![Acceptor] = "arm"]
    BY <1>3 DEF AddClient
  <2>2. \A t \in Threads \ {Acceptor} : Holds(t)' <=> Holds(t)
    BY <2>1 DEF Holds, HasClient, Of
  <2>3. QED
    BY <1>2, <2>1, <2>2 DEF Of
<1>4. ASSUME NEW t \in Threads, Erase(t) PROVE Goal
  <2>1. /\ Holds(t) /\ clients' = clients \ {Of(t)} /\ io' = io /\ job' = job
        /\ at' = [at EXCEPT ![t] = "loop"] /\ t # Main /\ at[t] = "erase"
    BY <1>4, ErasesOwn DEF Erase, Phases, MainPlaces
  <2>2. io[Of(t)] \in {"none", "idle"}
    BY <2>1 DEF InHands
  <2>3. \A u \in Threads : Holds(u)' => Holds(u) /\ u # t
    BY <2>1 DEF Holds, HasClient, Of
  <2>4. \A u \in Threads \ {t} : Holds(u) => Of(u) # Of(t)
    BY <2>1 DEF InHands
  <2>5. QED
    BY <2>1, <2>2, <2>3, <2>4 DEF Of
<1>5. CASE ClearClients
  BY <1>5 DEF ClearClients, Cleared
<1>6. ASSUME NEW c \in Conns, NEW h \in Handles, Accept(c, h) PROVE Goal
  <2>1. c \notin clients
    BY <1>6 DEF Accept, Unknown
  <2>2. /\ clients' = clients /\ io' = io /\ job' = [job EXCEPT ![Acceptor] = Packet(c, 0)]
        /\ at' = [at EXCEPT ![Acceptor] = "add"]
    BY <1>6 DEF Accept, room
  <2>3. \A t \in Threads \ {Acceptor} : (Holds(t)' <=> Holds(t)) /\ Of(t)' = Of(t)
    BY <2>2 DEF Holds, HasClient, Of
  <2>4. Of(Acceptor)' = c
    BY <2>2 DEF Of, Packet
  <2>5. QED
    BY <2>1, <2>2, <2>3, <2>4
<1>7. ASSUME SameList PROVE Goal
  <2> USE <1>7 DEF SameList
  <2>1. ASSUME NEW c \in Conns, NEW n \in 0..MaxLines, Complete(c, n) PROVE Goal
    BY <2>1 DEF Complete, Holds, HasClient, Of
  <2>2. ASSUME NEW w \in Workers, Dequeue(w) PROVE Goal
    <3>1. port \in Seq(Packets) /\ port # << >>
      BY <2>2 DEF Dequeue, TypeOK
    <3>2. 1 \in DOMAIN port /\ Head(port) = port[1] /\ Head(port) \in Packets
      BY <3>1
    <3>3. Head(port).conn # NoConn => Head(port).conn \in clients
      BY <3>2 DEF InPort, Packets
    <3>4. /\ \A t \in Threads \ {w} : (Holds(t)' <=> Holds(t)) /\ Of(t)' = Of(t) /\ at'[t] = at[t]
          /\ Of(w)' = Head(port).conn
          /\ Holds(w)' => Of(w)' # NoConn
      BY <2>2 DEF Dequeue, Holds, HasClient, Of
    <3>5. io' = [c \in Conns |-> IF c = Head(port).conn THEN "idle" ELSE io[c]]
      BY <2>2 DEF Dequeue
    <3>6. \A c \in Conns : io'[c] \in {"armed", "queued"} => c \in clients'
      BY <3>5
    <3>7. \A t \in Threads : Holds(t)' /\ at'[t] # "add" => Of(t)' \in clients'
      BY <3>3, <3>4
    <3>8. at'[Acceptor] = "add" => Of(Acceptor)' \notin clients'
      BY <3>4
    <3>9. QED
      BY <3>6, <3>7, <3>8
  <2>3. ASSUME NEW w \in Workers, Rearm(w) PROVE Goal
    BY <2>3, <1>2 DEF Rearm, Holds, HasClient, Of
  <2>4. CASE FirstReceive
    BY <2>4, <1>2 DEF FirstReceive, Holds, HasClient, Of
  <2>5. CASE PostNulls
    BY <2>5, <1>2 DEF PostNulls, Holds, HasClient, Of
  <2>6. CASE LetsGo
    BY <2>6, <1>2 DEF LetsGo, Of
  <2>7. QED
    BY <1>6, <2>1, <2>2, <2>3, <2>4, <2>5, <2>6, ReceiveMoves
<1>8. QED
  BY <1>3, <1>4, <1>5, <1>6, <1>7, ListMoves

\* While the server runs, a thread keeps its context until it arms the next
\* receive or erases the client.
LEMMA ServedStep ==
    /\ TypeOK /\ Phases /\ InPort /\ Listed /\ Served /\ RemovesItsOwn /\ [Next]_vars
    => Served'
<1> SUFFICES ASSUME TypeOK, Phases, InPort, Listed, Served, RemovesItsOwn, [Next]_vars,
                    isRunning', NEW c \in clients'
             PROVE  Attended(c)'
  BY DEF Served
<1>0. /\ at \in [Threads -> Places] /\ job \in [Threads -> Packets]
      /\ io \in [Conns -> {"none", "armed", "queued", "idle"}]
      /\ clients \in SUBSET Conns
      /\ \A t \in Threads : Holds(t) => Of(t) \in Conns
  BY DEF TypeOK, Holds, HasClient, Packets, Of
<1>1. /\ isRunning
      /\ ~Cleared
  <2>1. isRunning
    BY DEF Next, WorkerStep, RemoveStep, AcceptorStep, MainStep, Halted, vars,
           Complete, WorkerTest, Dequeue, Dispatch, HandleNickname, HandleChat, Publish,
           Rearm, RearmFails, RemoveFound, Send, RemoveMissing, CloseSocket, Erase,
           AcceptTest, AcceptFails, Accept, AddClient, FirstReceive, FirstReceiveFails,
           PressEnter, PostNulls, JoinWorkers, ClearClients, CloseServer, Exit
  <2>2. QED
    BY <2>1 DEF Phases, Cleared
<1>2. c \in clients => Attended(c)
  BY <1>1 DEF Served
<1> USE ChatAssumption, <1>0, <1>1 DEF Goto, At, Threads, Phases, WorkerPlaces, AcceptorPlaces,
        MainPlaces, room, net, Attended
\* A step that keeps receives and contexts where they are.
<1>3. ASSUME clients' \subseteq clients, io' = io, job' = job,
             \A t \in Threads : Holds(t) => Holds(t)'
      PROVE  Attended(c)'
  BY <1>2, <1>3 DEF Of
<1>4. ASSUME NEW d \in Conns, NEW n \in 0..MaxLines, Complete(d, n) PROVE Attended(c)'
  BY <1>2, <1>4 DEF Complete, Holds, HasClient, Of
<1>5. ASSUME NEW w \in Workers, Dequeue(w) PROVE Attended(c)'
  <2>1. /\ io' = [d \in Conns |-> IF d = Head(port).conn THEN "idle" ELSE io[d]]
        /\ clients' = clients
    BY <1>5 DEF Dequeue
  <2>2. /\ \A t \in Threads \ {w} : Holds(t) => Holds(t)' /\ Of(t)' = Of(t)
        /\ ~Holds(w)
        /\ Of(w)' = Head(port).conn
        /\ Head(port).conn # NoConn => Holds(w)'
    BY <1>5 DEF Dequeue, Holds, HasClient, Of
  <2>3. QED
    BY <1>2, <2>1, <2>2
<1>6. ASSUME NEW w \in Workers, WorkerTest(w) PROVE Attended(c)'
  BY <1>3, <1>6 DEF WorkerTest, Holds, HasClient, Of
<1>7. ASSUME NEW w \in Workers, Dispatch(w) PROVE Attended(c)'
  BY <1>3, <1>7 DEF Dispatch, Holds, HasClient, Of
<1>8. ASSUME NEW w \in Workers, HandleNickname(w) \/ HandleChat(w) PROVE Attended(c)'
  BY <1>3, <1>8 DEF HandleNickname, HandleChat, Publish, Holds, HasClient, Of
<1>9. ASSUME NEW w \in Workers, Rearm(w) PROVE Attended(c)'
  <2>1. /\ \A t \in Threads \ {w} : Holds(t) => Holds(t)' /\ Of(t)' = Of(t)
        /\ Of(w) \in Conns /\ io' = [io EXCEPT ![Of(w)] = "armed"] /\ clients' = clients
    BY <1>9 DEF Rearm, Holds, HasClient, Of
  <2>2. QED
    BY <1>2, <2>1
<1>10. ASSUME NEW w \in Workers, RearmFails(w) PROVE Attended(c)'
  BY <1>3, <1>10 DEF RearmFails, Holds, HasClient, Of
<1>11. ASSUME NEW t \in Threads, NEW d \in Conns, RemoveFound(t, d) \/ Send(t, d)
       PROVE  Attended(c)'
  BY <1>3, <1>11 DEF RemoveFound, Send, Holds, HasClient, Of
<1>12. ASSUME NEW t \in Threads, CloseSocket(t) PROVE Attended(c)'
  BY <1>3, <1>12 DEF CloseSocket, Holds, HasClient, Of
<1>13. ASSUME NEW t \in Threads, RemoveMissing(t) PROVE Attended(c)'
  <2>1. Holds(t) /\ at[t] # "add" /\ Of(t) \notin clients
    BY <1>13 DEF RemoveMissing, Holds, HasClient
  <2>2. QED
    BY <2>1 DEF Listed
<1>14. ASSUME NEW t \in Threads, Erase(t) PROVE Attended(c)'
  <2>1. /\ clients' = clients \ {Of(t)} /\ io' = io /\ job' = job
        /\ at' = [at EXCEPT ![t] = "loop"]
    BY <1>14, ErasesOwn
  <2>2. QED
    BY <1>2, <2>1 DEF Holds, HasClient, Of
<1>15. CASE AcceptTest \/ AcceptFails \/ FirstReceiveFails
  BY <1>3, <1>15 DEF AcceptTest, AcceptFails, FirstReceiveFails, Holds, HasClient, Of
<1>16. ASSUME NEW d \in Conns, NEW h \in Handles, Accept(d, h) PROVE Attended(c)'
  <2>1. /\ \A t \in Threads \ {Acceptor} : Holds(t) => Holds(t)' /\ Of(t)' = Of(t)
        /\ ~Holds(Acceptor)
        /\ io' = io /\ clients' = clients
    BY <1>16 DEF Accept, Holds, HasClient, Of
  <2>2. QED
    BY <1>2, <2>1
<1>17. CASE AddClient
  <2>1. /\ \A t \in Threads : Holds(t) => Holds(t)'
        /\ job' = job /\ io' = io /\ clients' = clients \cup {Of(Acceptor)}
        /\ Holds(Acceptor)
    BY <1>17 DEF AddClient, Holds, HasClient, Of
  <2>2. QED
    BY <1>2, <2>1 DEF Of
<1>18. CASE FirstReceive
  <2>1. /\ \A t \in Threads \ {Acceptor} : Holds(t) => Holds(t)' /\ Of(t)' = Of(t)
        /\ Of(Acceptor) \in Conns /\ io' = [io EXCEPT ![Of(Acceptor)] = "armed"]
        /\ clients' = clients
    BY <1>18 DEF FirstReceive, Holds, HasClient, Of
  <2>2. QED
    BY <1>2, <2>1
<1>19. CASE PressEnter \/ MainStep
  BY <1>19 DEF PressEnter, MainStep, PostNulls, JoinWorkers, ClearClients, CloseServer, Exit
<1>20. CASE UNCHANGED vars
  BY <1>3, <1>20 DEF vars, Holds, HasClient, Of
<1> HIDE DEF Attended, Goto, At, Phases
<1>21. ASSUME NEW t \in Threads, RemoveStep(t) PROVE Attended(c)'
  BY <1>11, <1>12, <1>13, <1>14, <1>21 DEF RemoveStep
<1>22. ASSUME NEW w \in Workers, WorkerStep(w) PROVE Attended(c)'
  BY <1>5, <1>6, <1>7, <1>8, <1>9, <1>10, <1>21, <1>22 DEF WorkerStep
<1>23. CASE AcceptorStep \/ AcceptFails
  BY <1>15, <1>17, <1>18, <1>21, <1>23 DEF AcceptorStep
<1>24. QED
  BY <1>4, <1>16, <1>19, <1>20, <1>22, <1>23 DEF Next, Halted

\* A SOCKET is reused only when its former client is being erased, under the
\* mutex the next client needs to enter the list.
LEMMA OwnSocketStep ==
    /\ TypeOK /\ Phases /\ Locked /\ Unknown /\ Listed /\ OwnSocket /\ [Next]_vars
    => OwnSocket'
<1> SUFFICES ASSUME TypeOK, Phases, Locked, Unknown, Listed, OwnSocket, [Next]_vars
             PROVE  OwnSocket'
  OBVIOUS
<1>0. /\ at \in [Threads -> Places] /\ job \in [Threads -> Packets]
      /\ event \in [Threads -> Room!Event \cup {NoEvent}]
      /\ handle \in [Conns -> Handles \cup {NoHandle}] /\ clients \in SUBSET Conns
      /\ \A t \in Threads : HasClient(t) => Of(t) \in Conns
  BY DEF TypeOK
<1> USE ChatAssumption, <1>0 DEF Goto, At, Threads, Phases, WorkerPlaces, AcceptorPlaces,
        MainPlaces, room, net, cast
\* One thread at a time is about to erase a client.
<1>1. \A t, u \in Threads : at[t] \in {"sendLeft", "erase"} /\ at[u] \in {"sendLeft", "erase"}
                           => t = u
  BY DEF Locked
\* A step that touches neither list, SOCKETs nor a removal under way.
<1>2. ASSUME UNCHANGED <<clients, handle, open>>,
             Cleared' <=> Cleared, Of(Acceptor)' = Of(Acceptor),
             at'[Acceptor] = "add" => at[Acceptor] = "add",
             at'[Acceptor] = "accept" => at[Acceptor] = "accept" \/ ~Cleared,
             \A t \in Threads : at'[t] \in {"sendLeft", "erase"} =>
                                  at[t] = at'[t] /\ event'[t] = event[t] /\ Of(t)' = Of(t),
             \A t \in Threads : at[t] = "erase" => at'[t] = "erase" /\ event'[t] = event[t]
      PROVE  OwnSocket'
  <2>1. \A d \in clients : Closing(d) => Closing(d)'
    BY <1>2 DEF Closing
  <2>2. RemovesItsOwn'
    BY <1>2 DEF OwnSocket, RemovesItsOwn, Leaving
  <2>3. QED
    BY <1>2, <2>1, <2>2 DEF OwnSocket
<1>3. ASSUME NEW c \in Conns, NEW n \in 0..MaxLines, Complete(c, n) PROVE OwnSocket'
  BY <1>2, <1>3 DEF Complete, Cleared, Of
<1>4. ASSUME NEW w \in Workers, WorkerTest(w) PROVE OwnSocket'
  BY <1>2, <1>4 DEF WorkerTest, Cleared, Of
<1>5. ASSUME NEW w \in Workers, Dequeue(w) PROVE OwnSocket'
  BY <1>2, <1>5 DEF Dequeue, Cleared, Of
<1>6. ASSUME NEW w \in Workers, Dispatch(w) PROVE OwnSocket'
  BY <1>2, <1>6 DEF Dispatch, Cleared, Of
<1>7. ASSUME NEW w \in Workers, HandleNickname(w) \/ HandleChat(w) PROVE OwnSocket'
  BY <1>2, <1>7 DEF HandleNickname, HandleChat, Publish, Cleared, Of
<1>8. ASSUME NEW w \in Workers, Rearm(w) PROVE OwnSocket'
  BY <1>2, <1>8 DEF Rearm, Cleared, Of
<1>9. ASSUME NEW w \in Workers, RearmFails(w) PROVE OwnSocket'
  BY <1>2, <1>9 DEF RearmFails, Cleared, Of
<1>10. ASSUME NEW t \in Threads, NEW c \in Conns, Send(t, c) PROVE OwnSocket'
  BY <1>2, <1>10 DEF Send, Cleared, Of
<1>11. ASSUME NEW t \in Threads, NEW c \in Conns, RemoveFound(t, c) PROVE OwnSocket'
  <2>1. t # Main /\ Holds(t) /\ at[t] = "remove" /\ c \in clients /\ handle[c] = handle[Of(t)]
    BY <1>11 DEF RemoveFound, Holds, HasClient
  <2>2. c = Of(t)
    <3>1. CASE Cleared
      <4>1. t = Acceptor
        BY <2>1, <3>1 DEF Cleared
      <4>2. QED
        BY <2>1, <3>1, <4>1 DEF OwnSocket
    <3>2. CASE ~Cleared
      <4>1. Of(t) \in clients
        BY <2>1, <3>2 DEF Listed
      <4>2. QED
        BY <2>1, <4>1 DEF OwnSocket
    <3>3. QED
      BY <3>1, <3>2
  <2>3. /\ at' = [at EXCEPT ![t] = "sendLeft"] /\ job' = job
        /\ event' = [event EXCEPT ![t] = [kind |-> "left", who |-> c,
                                          first |-> 0, last |-> told[c]]]
        /\ UNCHANGED <<clients, handle, open>>
    BY <1>11 DEF RemoveFound
  <2>4. event'[t].who = Of(t)'
    BY <2>2, <2>3 DEF Of
  <2>5. RemovesItsOwn'
    <3>1. ASSUME NEW u \in Threads, u # t, at'[u] \in {"sendLeft", "erase"}
          PROVE  event'[u].who = Of(u)'
      BY <2>3, <3>1 DEF OwnSocket, RemovesItsOwn, Leaving, Of
    <3>2. QED
      BY <2>4, <3>1 DEF RemovesItsOwn, Leaving
  <2>6. \A d \in clients : Closing(d) => Closing(d)'
    BY <2>1, <2>3 DEF Closing
  <2>7. /\ Cleared' <=> Cleared
        /\ Of(Acceptor)' = Of(Acceptor)
        /\ at'[Acceptor] \in {"accept", "add"} => at'[Acceptor] = at[Acceptor]
    BY <2>1, <2>3 DEF Cleared, Of
  <2>8. QED
    BY <2>3, <2>5, <2>6, <2>7 DEF OwnSocket
<1>12. ASSUME NEW t \in Threads, CloseSocket(t) PROVE OwnSocket'
  <2>1. /\ t # Main /\ Holds(t) /\ at[t] = "sendLeft" /\ event[t].who = Of(t) /\ Of(t) \in Conns
    BY <1>12 DEF CloseSocket, Holds, HasClient, OwnSocket, RemovesItsOwn, Leaving
  <2>2. /\ at' = [at EXCEPT ![t] = "erase"] /\ job' = job /\ event' = event
        /\ open' = open \ {handle[Of(t)]}
        /\ UNCHANGED <<clients, handle>>
    BY <1>12, <2>1 DEF CloseSocket
  <2>3. RemovesItsOwn'
    BY <2>1, <2>2 DEF OwnSocket, RemovesItsOwn, Leaving, Of
  <2>4. Closing(Of(t))' /\ \A d \in clients : Closing(d) => Closing(d)'
    <3>1. Of(t)' = Of(t)
      BY <2>2 DEF Of
    <3>2. QED
      BY <2>1, <2>2, <3>1 DEF Closing
  <2>5. /\ Cleared' <=> Cleared
        /\ Of(Acceptor)' = Of(Acceptor)
        /\ at'[Acceptor] \in {"accept", "add"} => at'[Acceptor] = at[Acceptor]
    BY <2>1, <2>2 DEF Cleared, Of
  <2>6. ~Cleared => Of(t) \in clients
    BY <2>1 DEF Listed
  <2>7. \A d \in clients : ~Closing(d)
    BY <1>1, <2>1 DEF Closing
  <2>8. ~Cleared => \A d \in clients : handle[d] \in open' \/ Closing(d)'
    <3>1. \A d \in clients : ~Cleared /\ handle[d] = handle[Of(t)] => d = Of(t)
      BY <2>6 DEF OwnSocket
    <3>2. \A d \in clients : d = Of(t) => Closing(d)'
      BY <2>1, <2>2 DEF Closing
    <3>3. \A d \in clients : ~Cleared => handle[d] \in open
      BY <2>7 DEF OwnSocket
    <3>4. QED
      BY <2>2, <3>1, <3>2, <3>3
  <2>9. at[Acceptor] = "add" /\ ~Cleared =>
            /\ handle[Of(Acceptor)] \in open'
            /\ \A d \in clients : handle[d] = handle[Of(Acceptor)] => Closing(d)'
    BY <2>2, <2>4, <2>6, <2>7 DEF OwnSocket
  <2>10. QED
    BY <2>2, <2>3, <2>5, <2>8, <2>9 DEF OwnSocket
<1>13. ASSUME NEW t \in Threads, Erase(t) PROVE OwnSocket'
  <2>1. /\ t # Main /\ at[t] = "erase" /\ event[t].who = Of(t)
        /\ clients' = clients \ {Of(t)} /\ job' = job
        /\ at' = [at EXCEPT ![t] = "loop"]
        /\ event' = [event EXCEPT ![t] = NoEvent]
        /\ UNCHANGED <<handle, open>>
    BY <1>13 DEF Erase, OwnSocket, RemovesItsOwn, Leaving
  <2>2. RemovesItsOwn'
    BY <2>1 DEF OwnSocket, RemovesItsOwn, Leaving, Of
  <2>3. \A d \in clients' : ~Closing(d)
    BY <1>1, <2>1 DEF Closing
  <2>4. /\ Cleared' <=> Cleared
        /\ Of(Acceptor)' = Of(Acceptor)
        /\ at'[Acceptor] \in {"accept", "add"} => at'[Acceptor] = at[Acceptor]
    BY <2>1 DEF Cleared, Of
  <2>5. QED
    BY <2>1, <2>2, <2>3, <2>4 DEF OwnSocket
<1>14. CASE AcceptTest
  BY <1>2, <1>14 DEF AcceptTest, Cleared, Of
<1>15. CASE AcceptFails \/ FirstReceive \/ FirstReceiveFails
  BY <1>2, <1>15 DEF AcceptFails, FirstReceive, FirstReceiveFails, Cleared, Of
<1>16. ASSUME NEW t \in Threads, RemoveMissing(t) PROVE OwnSocket'
  BY <1>2, <1>16 DEF RemoveMissing, Cleared, Of
<1>17. ASSUME NEW c \in Conns, NEW h \in Handles, Accept(c, h) PROVE OwnSocket'
  <2>1. /\ at[Acceptor] = "accept" /\ at' = [at EXCEPT ![Acceptor] = "add"]
        /\ job' = [job EXCEPT ![Acceptor] = Packet(c, 0)]
        /\ handle' = [handle EXCEPT ![c] = h] /\ open' = open \cup {h}
        /\ h \notin open /\ c \notin clients
        /\ UNCHANGED <<clients, event>>
    BY <1>17 DEF Accept, Unknown
  <2>2. Of(Acceptor)' = c /\ handle'[c] = h /\ \A d \in clients : handle'[d] = handle[d]
    BY <2>1 DEF Of, Packet
  <2>3. RemovesItsOwn'
    BY <2>1 DEF OwnSocket, RemovesItsOwn, Leaving, Of
  <2>4. \A d \in clients : Closing(d) => Closing(d)'
    BY <2>1 DEF Closing
  <2>5. Cleared' <=> Cleared
    BY <2>1 DEF Cleared
  <2>6. QED
    BY <2>1, <2>2, <2>3, <2>4, <2>5 DEF OwnSocket
<1>18. CASE AddClient
  <2>1. /\ at[Acceptor] = "add" /\ at' = [at EXCEPT ![Acceptor] = "arm"]
        /\ clients' = clients \cup {Of(Acceptor)} /\ clientsMutex = Free
        /\ UNCHANGED <<event, job, handle, open>>
    BY <1>18 DEF AddClient
  <2>2. \A t \in Threads : at[t] # "erase"
    BY <2>1 DEF Locked
  <2>3. RemovesItsOwn'
    BY <2>1 DEF OwnSocket, RemovesItsOwn, Leaving, Of
  <2>4. \A d : ~Closing(d)
    BY <2>2 DEF Closing
  <2>5. Of(Acceptor)' = Of(Acceptor) /\ (Cleared' <=> Cleared)
    BY <2>1 DEF Of, Cleared
  <2>6. QED
    BY <2>1, <2>3, <2>4, <2>5 DEF OwnSocket
<1>19. CASE ClearClients
  <2>1. /\ clients' = {} /\ Cleared' /\ at' = [at EXCEPT ![Main] = "close"]
        /\ UNCHANGED <<event, job>>
    BY <1>19 DEF ClearClients, Cleared
  <2>2. RemovesItsOwn'
    BY <2>1 DEF OwnSocket, RemovesItsOwn, Leaving, Of
  <2>3. QED
    BY <2>1, <2>2 DEF OwnSocket
<1>20. CASE CloseServer
  <2>1. /\ Cleared /\ Cleared' /\ at' = [at EXCEPT ![Main] = "returned"]
        /\ UNCHANGED <<event, job, clients, handle>>
    BY <1>20 DEF CloseServer, Cleared
  <2>2. RemovesItsOwn'
    BY <2>1 DEF OwnSocket, RemovesItsOwn, Leaving, Of
  <2>3. QED
    BY <2>1, <2>2 DEF OwnSocket, Of
<1>21. CASE PressEnter \/ PostNulls \/ JoinWorkers \/ Exit
  BY <1>2, <1>21 DEF PressEnter, PostNulls, JoinWorkers, Exit, Cleared, Of
<1>22. CASE UNCHANGED vars
  BY <1>2, <1>22 DEF vars, Cleared, Of
<1> HIDE DEF Goto, At, Phases
<1>23. ASSUME NEW t \in Threads, RemoveStep(t) PROVE OwnSocket'
  BY <1>10, <1>11, <1>12, <1>13, <1>16, <1>23 DEF RemoveStep
<1>24. ASSUME NEW w \in Workers, WorkerStep(w) PROVE OwnSocket'
  BY <1>4, <1>5, <1>6, <1>7, <1>8, <1>9, <1>23, <1>24 DEF WorkerStep
<1>25. CASE AcceptorStep \/ AcceptFails
  BY <1>14, <1>15, <1>18, <1>23, <1>25 DEF AcceptorStep
<1>26. CASE PressEnter \/ MainStep
  BY <1>19, <1>20, <1>21, <1>26 DEF MainStep
<1>27. QED
  BY <1>3, <1>17, <1>22, <1>24, <1>25, <1>26 DEF Next, Halted

\* The numbers of a packet follow the lines handled so far, from the receive
\* to the broadcast.
LEMMA NumberingStep ==
    /\ TypeOK /\ Phases /\ InHands /\ InPort /\ Unknown /\ Numbering /\ [Next]_vars
    => Numbering'
<1> SUFFICES ASSUME TypeOK, Phases, InHands, InPort, Unknown, Numbering, [Next]_vars
             PROVE  Numbering'
  OBVIOUS
<1>0. /\ at \in [Threads -> Places] /\ job \in [Threads -> Packets]
      /\ io \in [Conns -> {"none", "armed", "queued", "idle"}]
      /\ told \in [Conns -> 0..MaxLines] /\ lines \in [Conns -> 0..MaxLines]
      /\ \A t \in Threads : HasClient(t) => Of(t) \in Conns
      /\ \A t \in Threads : Of(t) \in Conns \cup {NoConn}
      /\ inChat \subseteq clients /\ clients \subseteq Conns
  BY DEF TypeOK, Of, Packets
<1>1. /\ port \in Seq(Packets)
      /\ \A i \in DOMAIN port : port[i].conn \in Conns \cup {NoConn}
  <2>1. port \in Seq(Packets)
    BY DEF TypeOK
  <2>2. \A i \in DOMAIN port : port[i] \in Packets
    BY <2>1
  <2>3. QED
    BY <2>1, <2>2 DEF Packets
<1> USE ChatAssumption, <1>0 DEF Goto, At, Threads, Phases, WorkerPlaces, AcceptorPlaces,
        MainPlaces, room, net, cast
\* What a worker has was not numbered by anybody else.
<1>2. \A w \in Workers : at[w] \in {"handle", "send"} \/ (at[w] = "check" /\ Of(w) # NoConn) =>
          Holds(w) /\ Of(w) \in Conns /\ io[Of(w)] = "idle"
  BY DEF InHands, Holds, HasClient
\* A step under which no line arrives and none is handled.
<1>3. ASSUME UNCHANGED <<told, lines, port, job, inChat>>,
             \A c \in Conns : io'[c] \in {"none", "armed"} =>
                 io[c] \in {"none", "armed"} \/ lines[c] = told[c],
             \A w \in Workers : at'[w] \in {"check", "handle", "send"} => at'[w] = at[w],
             at'[Acceptor] = "add" => at[Acceptor] = "add",
             \/ Cleared'
             \/ ~Cleared /\ \A c \in clients' : c \in clients \/ told[c] = 0
      PROVE  Numbering'
  BY <1>3 DEF Numbering, Fresh, Of
<1>4. ASSUME NEW c \in Conns, NEW n \in 0..MaxLines, Complete(c, n) PROVE Numbering'
  <2>1. /\ io[c] = "armed" /\ io' = [io EXCEPT ![c] = "queued"]
        /\ lines' = [lines EXCEPT ![c] = IF n = 0 THEN @ ELSE n]
        /\ n = 0 \/ n > lines[c]
        /\ lines[c] = told[c]
        /\ UNCHANGED <<at, job, told, clients, inChat>>
    BY <1>4 DEF Complete, Numbering
  <2>2. \A w \in Workers : at[w] \in {"check", "handle", "send"} => Of(w) # c
    BY <1>2, <2>1
  <2>3. \A i \in DOMAIN port : port[i].conn # c
    BY <1>1, <2>1 DEF InPort
  <2>4. \A i \in DOMAIN port' : \/ i \in DOMAIN port /\ port'[i] = port[i]
                               \/ port'[i] = Packet(c, n)
    <3>1. port' = Append(port, Packet(c, n))
      BY <1>4 DEF Complete
    <3>2. Packet(c, n) \in Packets
      BY DEF Packet, Packets
    <3>3. QED
      BY <1>1, <3>1, <3>2
  <2>5. ASSUME NEW i \in DOMAIN port', port'[i].conn # NoConn PROVE Fresh(port[i])'
    <3>1. CASE i \in DOMAIN port /\ port'[i] = port[i]
      BY <1>1, <2>1, <2>3, <2>5, <3>1 DEF Numbering, Fresh
    <3>2. CASE port'[i] = Packet(c, n)
      BY <2>1, <3>2 DEF Fresh, Packet
    <3>3. QED
      BY <2>4, <3>1, <3>2
  <2>6. ASSUME NEW w \in Workers, at[w] \in {"check", "handle"}, Of(w) # NoConn
        PROVE  Fresh(job[w])'
    BY <2>1, <2>2, <2>6 DEF Numbering, Fresh, Of
  <2>7. QED
    BY <2>1, <2>2, <2>5, <2>6 DEF Numbering, Of, Cleared
<1>5. ASSUME NEW w \in Workers, Dequeue(w) PROVE Numbering'
  <2>1. port # << >> /\ port' = Tail(port)
    BY <1>5 DEF Dequeue
  <2>2. /\ Head(port) = port[1] /\ 1 \in DOMAIN port
        /\ \A i \in DOMAIN port' : i + 1 \in DOMAIN port /\ port'[i] = port[i + 1]
    BY <1>1, <2>1
  <2>3. /\ at' = [at EXCEPT ![w] = "check"] /\ job' = [job EXCEPT ![w] = Head(port)]
        /\ \A c \in Conns : io'[c] \in {"none", "armed"} => io[c] \in {"none", "armed"}
        /\ UNCHANGED <<told, lines, inChat, clients>>
    BY <1>5 DEF Dequeue
  <2>4. \A i \in DOMAIN port' : port'[i].conn # NoConn => Fresh(port[i])'
    BY <2>2, <2>3 DEF Numbering, Fresh
  <2>5. ASSUME NEW u \in Workers, at'[u] \in {"check", "handle"}, Of(u)' # NoConn
        PROVE  Fresh(job[u])'
    <3>1. CASE u = w
      BY <2>2, <2>3, <2>5, <3>1 DEF Numbering, Fresh, Of
    <3>2. CASE u # w
      BY <2>3, <2>5, <3>2 DEF Numbering, Fresh, Of
    <3>3. QED
      BY <3>1, <3>2
  <2>6. QED
    BY <2>3, <2>4, <2>5 DEF Numbering, Cleared, Of
<1>6. ASSUME NEW w \in Workers, Dispatch(w) PROVE Numbering'
  <2>1. /\ \A u \in Workers : at'[u] = "handle" => at[u] = "handle" \/ job[u].last # 0
        /\ \A u \in Workers : at'[u] \in {"check", "handle"} => at[u] \in {"check", "handle"}
        /\ \A u \in Workers : at'[u] = "send" => at[u] = "send"
        /\ at'[Acceptor] = at[Acceptor] /\ (Cleared' <=> Cleared)
        /\ UNCHANGED <<told, lines, port, job, io, clients, inChat>>
    BY <1>6 DEF Dispatch, Cleared
  <2>2. QED
    BY <2>1 DEF Numbering, Fresh, Of
<1>7. ASSUME NEW w \in Workers, HandleNickname(w) \/ HandleChat(w) PROVE Numbering'
  <2>1. /\ at[w] = "handle" /\ at' = [at EXCEPT ![w] = "send"]
        /\ told' = [told EXCEPT ![Of(w)] = job[w].last]
        /\ inChat' = inChat \cup {Of(w)}
        /\ UNCHANGED <<clients, port, io, job, lines>>
    BY <1>7 DEF HandleNickname, HandleChat, Publish
  <2>2. Of(w) \in Conns /\ io[Of(w)] = "idle" /\ Holds(w) /\ job[w].last = lines[Of(w)]
    BY <1>2, <2>1 DEF Numbering, Fresh, Of
  <2>3. \A t \in Threads \ {w} : Holds(t) => Of(t) # Of(w)
    BY <2>2 DEF InHands
  <2>4. \A i \in DOMAIN port : port[i].conn # NoConn => port[i].conn # Of(w)
    BY <2>2 DEF InPort
  <2>5. \A u \in Workers \ {w} :
            at[u] \in {"handle", "send"} \/ (at[u] = "check" /\ Of(u) # NoConn) => Of(u) # Of(w)
    BY <1>2, <2>3
  <2>6. at[Acceptor] = "add" => Of(Acceptor) # Of(w)
    BY <2>3 DEF Holds, HasClient
  <2>7. \A i \in DOMAIN port : port[i].conn # NoConn => Fresh(port[i])'
    BY <1>1, <2>1, <2>4 DEF Numbering, Fresh
  <2>8. ASSUME NEW u \in Workers, at'[u] \in {"check", "handle"}, Of(u)' # NoConn
        PROVE  Fresh(job[u])'
    <3>1. u # w /\ at[u] = at'[u] /\ Of(u) # NoConn /\ Of(u) \in Conns /\ Of(u) # Of(w)
      BY <2>1, <2>5, <2>8 DEF Of
    <3>2. Fresh(job[u])
      BY <3>1, <2>8 DEF Numbering
    <3>3. job'[u] = job[u] /\ told'[Of(u)] = told[Of(u)] /\ lines'[Of(u)] = lines[Of(u)]
      BY <2>1, <3>1
    <3>4. QED
      BY <3>2, <3>3 DEF Fresh, Of
  <2>9. \A u \in Workers : at'[u] = "send" => lines'[Of(u)'] = told'[Of(u)']
    BY <1>2, <2>1, <2>2, <2>5 DEF Numbering, Of
  <2>10. QED
    BY <2>1, <2>2, <2>6, <2>7, <2>8, <2>9 DEF Numbering, Of, Cleared
<1>8. ASSUME NEW w \in Workers, Rearm(w) PROVE Numbering'
  <2>1. lines[Of(w)] = told[Of(w)] /\ Of(w) \in Conns
    BY <1>2, <1>8 DEF Rearm, Numbering
  <2>2. QED
    BY <1>3, <1>8, <2>1 DEF Rearm, Cleared
<1>9. ASSUME NEW w \in Workers, WorkerTest(w) \/ RearmFails(w) PROVE Numbering'
  BY <1>3, <1>9 DEF WorkerTest, RearmFails, Cleared
<1>10. ASSUME NEW t \in Threads, NEW c \in Conns, RemoveFound(t, c) \/ Send(t, c)
       PROVE  Numbering'
  BY <1>3, <1>10 DEF RemoveFound, Send, Cleared
<1>11. ASSUME NEW t \in Threads, RemoveMissing(t) \/ CloseSocket(t) PROVE Numbering'
  BY <1>3, <1>11 DEF RemoveMissing, CloseSocket, Cleared
<1>12. ASSUME NEW t \in Threads, Erase(t) PROVE Numbering'
  <2>1. /\ clients' \ inChat' \subseteq clients \ inChat
        /\ at' = [at EXCEPT ![t] = "loop"] /\ at[t] = "erase"
        /\ UNCHANGED <<told, lines, port, job, io>>
    BY <1>12 DEF Erase
  <2>2. QED
    BY <2>1 DEF Numbering, Fresh, Of, Cleared
<1>13. CASE AcceptTest \/ AcceptFails \/ FirstReceiveFails
  BY <1>3, <1>13 DEF AcceptTest, AcceptFails, FirstReceiveFails, Cleared
<1>14. CASE AddClient
  <2>1. told[Of(Acceptor)] = 0
    BY <1>14 DEF AddClient, Numbering
  <2>2. QED
    BY <1>3, <1>14, <2>1 DEF AddClient, Cleared
<1>15. CASE FirstReceive
  <2>1. io[Of(Acceptor)] = "none" /\ Of(Acceptor) \in Conns
    BY <1>15 DEF FirstReceive, InHands, Holds, HasClient
  <2>2. QED
    BY <1>3, <1>15, <2>1 DEF FirstReceive, Cleared
<1>16. ASSUME NEW c \in Conns, NEW h \in Handles, Accept(c, h) PROVE Numbering'
  <2>1. told[c] = 0
    BY <1>16 DEF Accept, Unknown
  <2>2. /\ job' = [job EXCEPT ![Acceptor] = Packet(c, 0)] /\ Packet(c, 0).conn = c
        /\ at' = [at EXCEPT ![Acceptor] = "add"]
        /\ UNCHANGED <<told, lines, port, io, clients, inChat>>
    BY <1>16 DEF Accept, Packet
  <2>3. QED
    BY <2>1, <2>2 DEF Numbering, Fresh, Of, Cleared
<1>17. CASE PressEnter \/ JoinWorkers \/ CloseServer \/ Exit
  BY <1>3, <1>17 DEF PressEnter, JoinWorkers, CloseServer, Exit, Cleared
<1>18. CASE PostNulls
  <2>1. \A i \in DOMAIN port' : \/ i \in DOMAIN port /\ port'[i] = port[i]
                               \/ port'[i].conn = NoConn
    BY <1>1, <1>18, NullPackets, ConcatProperties DEF PostNulls, NullPacket
  <2>2. /\ at' = [at EXCEPT ![Main] = "join"] /\ at[Main] = "post"
        /\ UNCHANGED <<told, lines, job, io, clients, inChat>>
    BY <1>18 DEF PostNulls
  <2>3. QED
    BY <2>1, <2>2 DEF Numbering, Fresh, Of, Cleared
<1>19. CASE ClearClients
  <2>1. /\ Cleared' /\ at' = [at EXCEPT ![Main] = "close"]
        /\ UNCHANGED <<told, lines, port, job, io>>
    BY <1>19 DEF ClearClients, Cleared
  <2>2. QED
    BY <2>1 DEF Numbering, Fresh, Of
<1>20. CASE UNCHANGED vars
  BY <1>3, <1>20 DEF vars, Cleared
<1> HIDE DEF Goto, At, Phases
<1>21. ASSUME NEW t \in Threads, RemoveStep(t) PROVE Numbering'
  BY <1>10, <1>11, <1>12, <1>21 DEF RemoveStep
<1>22. ASSUME NEW w \in Workers, WorkerStep(w) PROVE Numbering'
  BY <1>5, <1>6, <1>7, <1>8, <1>9, <1>21, <1>22 DEF WorkerStep
<1>23. CASE AcceptorStep \/ AcceptFails
  BY <1>13, <1>14, <1>15, <1>21, <1>23 DEF AcceptorStep
<1>24. CASE PressEnter \/ MainStep
  BY <1>17, <1>18, <1>19, <1>24 DEF MainStep
<1>25. QED
  BY <1>4, <1>16, <1>20, <1>22, <1>23, <1>24 DEF Next, Halted

Getting == {w \in Workers : at[w] = "get"}

\* A step that adds no waiting worker does not add to their number.
LEMMA FewerWait ==
    ASSUME NEW S \in SUBSET Workers, NEW T \in SUBSET S
    PROVE  /\ Cardinality(S) \in Nat /\ Cardinality(T) \in Nat
           /\ Cardinality(T) <= Cardinality(S)
<1>1. IsFiniteSet(S)
  BY ChatAssumption, FS_Subset
<1>2. IsFiniteSet(T) /\ Cardinality(T) <= Cardinality(S)
  BY <1>1, FS_Subset
<1>3. QED
  BY <1>1, <1>2, FS_CardinalityType

\* stopServer posts a packet per worker; afterwards a worker that takes one
\* leaves the waiting workers, and none joins them.
LEMMA WakeStep ==
    TypeOK /\ Phases /\ WakesEveryWorker /\ [Next]_vars => WakesEveryWorker'
<1> SUFFICES ASSUME TypeOK, Phases, WakesEveryWorker, [Next]_vars, at'[Main] = "join"
             PROVE  Cardinality(Getting') <= Len(port')
  BY DEF WakesEveryWorker, Getting
<1> /\ at \in [Threads -> Places] /\ port \in Seq(Packets)
    /\ Getting \in SUBSET Workers /\ Getting' \in SUBSET Workers
  BY DEF TypeOK, Getting
<1> USE ChatAssumption DEF Phases, WorkerPlaces, AcceptorPlaces, MainPlaces, Goto, At, Threads
<1>0. /\ Cardinality(Getting) \in Nat /\ Cardinality(Getting') \in Nat
      /\ Len(port) \in Nat
  BY FewerWait
<1>1. CASE PostNulls
  <2>1. Getting' \in SUBSET Workers /\ Cardinality(Getting') <= Cardinality(Workers)
    BY FewerWait
  <2>2. Len(port') = Len(port) + Cardinality(Workers)
    BY <1>1, NullPackets, ConcatProperties DEF PostNulls
  <2>3. QED
    BY <1>0, <2>1, <2>2, NullPackets
<1>2. ASSUME at[Main] = "join", Getting' \subseteq Getting, Len(port') >= Len(port),
             Len(port') \in Nat
      PROVE  Cardinality(Getting') <= Len(port')
  <2>1. Cardinality(Getting') <= Cardinality(Getting)
    BY <1>2, FewerWait
  <2>2. Cardinality(Getting) <= Len(port)
    BY <1>2 DEF WakesEveryWorker, Getting
  <2>3. QED
    BY <1>0, <1>2, <2>1, <2>2
<1>3. ASSUME NEW w \in Workers, Dequeue(w) PROVE Cardinality(Getting') <= Len(port')
  <2>1. /\ at[w] = "get" /\ at' = [at EXCEPT ![w] = "check"] /\ at[Main] = "join"
        /\ port # << >> /\ port' = Tail(port)
    BY <1>3 DEF Dequeue
  <2>2. Getting' = Getting \ {w} /\ w \in Getting
    BY <2>1 DEF Getting
  <2>3. Cardinality(Getting') = Cardinality(Getting) - 1
    <3>1. IsFiniteSet(Getting)
      BY FS_Subset
    <3>2. QED
      BY <2>2, <3>1, FS_RemoveElement
  <2>4. Len(port') = Len(port) - 1
    BY <2>1
  <2>5. Cardinality(Getting) <= Len(port)
    BY <2>1 DEF WakesEveryWorker, Getting
  <2>6. QED
    BY <1>0, <2>3, <2>4, <2>5
<1>4. ASSUME NEW c \in Conns, NEW n \in 0..MaxLines, Complete(c, n)
      PROVE  Cardinality(Getting') <= Len(port')
  <2>1. port' = Append(port, Packet(c, n)) /\ at' = at
    BY <1>4 DEF Complete
  <2>2. Len(port') = Len(port) + 1
    BY <2>1
  <2>3. QED
    BY <1>0, <1>2, <2>1, <2>2 DEF Getting
<1>5. ASSUME at[Main] = "join", port' = port, \A w \in Workers : at'[w] = "get" => at[w] = "get"
      PROVE  Cardinality(Getting') <= Len(port')
  BY <1>0, <1>2, <1>5 DEF Getting
<1>6. ASSUME NEW w \in Workers,
             WorkerTest(w) \/ HandleNickname(w) \/ HandleChat(w) \/ Rearm(w) \/ RearmFails(w)
      PROVE  Cardinality(Getting') <= Len(port')
  BY <1>5, <1>6 DEF WorkerTest, HandleNickname, HandleChat, Publish, Rearm, RearmFails
<1>7. ASSUME NEW w \in Workers, Dispatch(w) PROVE Cardinality(Getting') <= Len(port')
  BY <1>5, <1>7 DEF Dispatch
<1>8. ASSUME NEW t \in Workers \cup {Acceptor}, RemoveStep(t)
      PROVE  Cardinality(Getting') <= Len(port')
  BY <1>5, <1>8 DEF RemoveStep, RemoveFound, Send, RemoveMissing, CloseSocket, Erase
<1>9. ASSUME NEW c \in Conns, NEW h \in Handles, Accept(c, h)
      PROVE  Cardinality(Getting') <= Len(port')
  BY <1>5, <1>9 DEF Accept
<1>10. CASE AcceptTest \/ AcceptFails \/ AddClient \/ FirstReceive \/ FirstReceiveFails
  BY <1>5, <1>10 DEF AcceptTest, AcceptFails, AddClient, FirstReceive, FirstReceiveFails
<1>11. CASE PressEnter \/ JoinWorkers \/ ClearClients \/ CloseServer \/ Exit
  BY <1>11 DEF PressEnter, JoinWorkers, ClearClients, CloseServer, Exit
<1>12. CASE UNCHANGED vars
  BY <1>5, <1>12 DEF vars
<1> HIDE DEF Goto, At, Phases
<1>13. ASSUME NEW w \in Workers, WorkerStep(w) PROVE Cardinality(Getting') <= Len(port')
  BY <1>3, <1>6, <1>7, <1>8, <1>13 DEF WorkerStep
<1>14. QED
  BY <1>1, <1>4, <1>8, <1>9, <1>10, <1>11, <1>12, <1>13
     DEF Next, AcceptorStep, MainStep, Halted

\* Every reachable state satisfies the invariant.
THEOREM ChatInvariant == Spec => []ChatInv
<1>1. ChatInv /\ [Next]_vars => ChatInv'
  <2> SUFFICES ASSUME ChatInv, [Next]_vars PROVE ChatInv'
    OBVIOUS
  <2>1. TypeOK' /\ Broadcasting'
    BY TypeStep, BroadcastStep DEF ChatInv
  <2>2. Phases' /\ Locked'
    BY ControlStep DEF ChatInv
  <2>3. InHands' /\ InPort' /\ Unknown'
    BY InHandsStep, InPortStep, UnknownStep DEF ChatInv
  <2>4. Listed' /\ Served'
    BY ListedStep, ServedStep DEF ChatInv, OwnSocket
  <2>5. OwnSocket' /\ Numbering' /\ WakesEveryWorker'
    BY OwnSocketStep, NumberingStep, WakeStep DEF ChatInv
  <2>6. QED
    BY <2>1, <2>2, <2>3, <2>4, <2>5 DEF ChatInv
<1>2. QED
  BY InitInv, <1>1, PTL DEF Spec

\* Every variable of the chat server stays within its type, and only a packet
\* that carries a context is worked on.
THEOREM ChatTypes == Spec => []TypeOK
<1>1. ChatInv => TypeOK
  BY DEF ChatInv
<1>2. QED
  BY ChatInvariant, <1>1, PTL

\* No context is used, by the kernel or by a worker, once removeClient has
\* deleted it.
THEOREM ContextsLive == Spec => []NoUseAfterFree
<1>1. ChatInv => NoUseAfterFree
  <2> SUFFICES ASSUME ChatInv, ~Cleared, NEW c \in Conns
               PROVE  /\ io[c] \in {"armed", "queued"} => c \in clients
                      /\ Hands(c) \cap Workers # {} => c \in clients
    BY DEF NoUseAfterFree
  <2>1. io[c] \in {"armed", "queued"} => c \in clients
    BY DEF ChatInv, Listed
  <2>2. ASSUME NEW w \in Hands(c) \cap Workers PROVE c \in clients
    <3>1. Holds(w) /\ Of(w) = c /\ at[w] # "add" /\ w \in Threads
      BY <2>2, ChatAssumption
         DEF Hands, Holds, ChatInv, Phases, WorkerPlaces, Threads
    <3>2. QED
      BY <3>1 DEF ChatInv, Listed
  <2>3. QED
    BY <2>1, <2>2
<1>2. QED
  BY ChatInvariant, <1>1, PTL

\* While the server runs, the receive of every client in the list is armed,
\* queued or in one thread's hands: never lost and never in two places.
THEOREM OneReceiveEach == Spec => []OneReceive
<1>1. ChatInv => OneReceive
  <2> SUFFICES ASSUME ChatInv, isRunning, NEW c \in clients
               PROVE  Cardinality(Hands(c)) + Cardinality(Queued(c))
                          + (IF io[c] = "armed" THEN 1 ELSE 0) = 1
    BY DEF OneReceive
  <2>1. c \in Conns /\ c # NoConn
    BY ChatAssumption DEF ChatInv, TypeOK
  <2>2. Hands(c) = {t \in Threads : Holds(t) /\ Of(t) = c}
    BY <2>1 DEF Hands, Holds
  <2>3. \A t \in Threads : Holds(t) /\ Of(t) = c => io[c] \in {"idle", "none"}
    BY DEF ChatInv, InHands, Threads, Phases, MainPlaces, Holds, HasClient
  <2>4. io[c] # "queued" => Queued(c) = {}
    BY <2>1 DEF Queued, ChatInv, InPort
  <2>5. Cardinality({}) = 0 /\ \A x : Cardinality({x}) = 1
    BY FS_EmptySet, FS_Singleton
  <2>6. CASE io[c] = "armed"
    <3>1. Hands(c) = {} /\ Queued(c) = {}
      BY <2>2, <2>3, <2>4, <2>6
    <3>2. QED
      BY <2>5, <2>6, <3>1
  <2>7. CASE io[c] = "queued"
    <3>1. Hands(c) = {}
      BY <2>2, <2>3, <2>7
    <3>2. PICK i \in DOMAIN port : port[i].conn = c
      BY <2>1, <2>7 DEF ChatInv, InPort
    <3>3. Queued(c) = {i}
      BY <2>1, <3>2 DEF Queued, ChatInv, InPort
    <3>4. Cardinality(Hands(c)) = 0 /\ Cardinality(Queued(c)) = 1
      BY <2>5, <3>1, <3>3, Zenon
    <3>5. QED
      BY <2>7, <3>4
  <2>8. CASE io[c] \notin {"armed", "queued"}
    <3>1. PICK t \in Threads : Holds(t) /\ Of(t) = c
      BY <2>8 DEF ChatInv, Served, Attended
    <3>2. Hands(c) = {t}
      BY <2>2, <3>1 DEF ChatInv, InHands
    <3>3. Queued(c) = {}
      BY <2>4, <2>8
    <3>4. Cardinality(Hands(c)) = 1 /\ Cardinality(Queued(c)) = 0
      BY <2>5, <3>2, <3>3, Zenon
    <3>5. QED
      BY <2>8, <3>4
  <2>9. QED
    BY <2>6, <2>7, <2>8
<1>2. QED
  BY ChatInvariant, <1>1, PTL

\* removeClient finds a client by its SOCKET, and finds the one it was called
\* for although SOCKETs are reused.
THEOREM RemovesTheRightClient == Spec => []RemovesItsOwn
<1>1. ChatInv => RemovesItsOwn
  BY DEF ChatInv, OwnSocket
<1>2. QED
  BY ChatInvariant, <1>1, PTL

\* stopServer posts enough packets to wake every worker.
THEOREM StopWakesPool == Spec => []WakesEveryWorker
<1>1. ChatInv => WakesEveryWorker
  BY DEF ChatInv
<1>2. QED
  BY ChatInvariant, <1>1, PTL
-----------------------------------------------------------------------------
(* The pool of workers implements ChatRoom.  These are its variables.      *)

Members == inChat \ {event[t].who : t \in Leaving}
Delivered == [c \in Conns |->
                 IF \E t \in Threads : c \in todo[t]
                 THEN Append(inbox[c], event[CHOOSE t \in Threads : c \in todo[t]])
                 ELSE inbox[c]]

\* When nobody broadcasts, what is delivered is what has been sent.
LEMMA NobodySends ==
    ASSUME NEW c \in Conns, \A t \in Threads : todo[t] = {}
    PROVE  Delivered[c] = inbox[c]
  BY DEF Delivered

\* While t alone broadcasts, its event counts as delivered.
LEMMA OneSends ==
    ASSUME NEW c \in Conns, NEW t \in Threads, \A u \in Threads : c \in todo[u] => u = t
    PROVE  Delivered[c] = IF c \in todo[t] THEN Append(inbox[c], event[t]) ELSE inbox[c]
<1>1. CASE c \in todo[t]
  <2>1. (CHOOSE u \in Threads : c \in todo[u]) = t
    BY <1>1
  <2>2. QED
    BY <1>1, <2>1 DEF Delivered
<1>2. CASE c \notin todo[t]
  BY <1>2 DEF Delivered
<1>3. QED
  BY <1>1, <1>2

\* A thread that broadcasts is alone, and nobody does while the mutex is free.
LEMMA SoleSender ==
    ASSUME Locked, Broadcasting, NEW t \in Threads, NEW u \in Threads, todo[t] # {}
    PROVE  /\ clientsMutex = t
           /\ todo[u] # {} \/ u \in Leaving => u = t
  BY DEF Locked, Broadcasting, Casts, Leaving

\* A step the chat room does not see.
LEMMA RoomStutters ==
    ASSUME Members' = Members, told' = told, Delivered' = Delivered
    PROVE  UNCHANGED Room!vars
  BY DEF Members, Delivered, Room!vars

\* A step of the room that delivers e to the connections in `to'.
Delivers(e, to) ==
    /\ told' = [told EXCEPT ![e.who] = e.last]
    /\ \A c \in Conns : Delivered'[c] = IF c \in to THEN Append(Delivered[c], e)
                                                    ELSE Delivered[c]

\* A newcomer enters the room.
LEMMA RoomJoins ==
    ASSUME NEW c \in Conns, NEW j \in 1..MaxLines, j \in told[c] + 1 .. MaxLines,
           c \notin Members, Members' = Members \cup {c},
           Delivers([kind |-> "joined", who |-> c, first |-> 1, last |-> j], Members')
    PROVE  Room!Next
<1>1. Room!Join(c, j)
  BY DEF Delivers, Members, Delivered, Room!Join, Room!Lines, Room!Publish
<1>2. QED
  BY <1>1 DEF Room!Next

\* A member speaks to the others.
LEMMA RoomHears ==
    ASSUME NEW c \in Conns, NEW j \in 1..MaxLines, j \in told[c] + 1 .. MaxLines,
           c \in Members, Members' = Members,
           Delivers([kind |-> "said", who |-> c, first |-> told[c] + 1, last |-> j],
                    Members \ {c})
    PROVE  Room!Next
<1>1. Room!Say(c, j)
  BY DEF Delivers, Members, Delivered, Room!Say, Room!Lines, Room!Publish
<1>2. QED
  BY <1>1 DEF Room!Next

\* A member leaves.
LEMMA RoomLeft ==
    ASSUME NEW c \in Conns, c \in Members, Members' = Members \ {c},
           Delivers([kind |-> "left", who |-> c, first |-> 0, last |-> told[c]], Members)
    PROVE  Room!Next
<1>1. Room!Leave(c)
  BY DEF Delivers, Members, Delivered, Room!Leave, Room!Publish
<1>2. QED
  BY <1>1 DEF Room!Next

\* The room is closed.
LEMMA RoomCloses ==
    ASSUME Members' = {}, told' = told, Delivered' = Delivered
    PROVE  Room!Next
<1>1. Room!Shutdown
  BY DEF Members, Delivered, Room!Shutdown
<1>2. QED
  BY <1>1 DEF Room!Next

\* What is delivered does not change while broadcasts stay as they are.
LEMMA SameDelivered ==
    ASSUME todo' = todo, inbox' = inbox,
           \A t \in Threads : todo[t] # {} => event'[t] = event[t]
    PROVE  Delivered' = Delivered
<1>1. ASSUME NEW c \in Conns, NEW t \in Threads, c \in todo[t]
      PROVE  /\ (CHOOSE u \in Threads : c \in todo[u]) \in Threads
             /\ event'[CHOOSE u \in Threads : c \in todo[u]]
                    = event[CHOOSE u \in Threads : c \in todo[u]]
  <2>1. /\ (CHOOSE u \in Threads : c \in todo[u]) \in Threads
        /\ c \in todo[CHOOSE u \in Threads : c \in todo[u]]
    BY <1>1
  <2>2. QED
    BY <2>1
<1>2. QED
  BY <1>1 DEF Delivered

\* A step that touches neither broadcasts nor removals nor the list.
LEMMA UnseenStep ==
    ASSUME UNCHANGED <<inChat, told, todo, inbox>>,
           \A t \in Threads : todo[t] # {} => event'[t] = event[t],
           \A t \in Threads : at[t] \in {"sendLeft", "erase"} <=> at'[t] \in {"sendLeft", "erase"},
           \A t \in Leaving : event'[t] = event[t]
    PROVE  UNCHANGED Room!vars
<1>1. Delivered' = Delivered
  BY SameDelivered
<1>2. Leaving' = Leaving
  BY DEF Leaving
<1>3. Members' = Members
  BY <1>2 DEF Members
<1>4. QED
  BY <1>1, <1>3, RoomStutters

\* A broadcast starts: its event is delivered to all recipients at once.
LEMMA BroadcastStarts ==
    ASSUME \A u \in Threads : todo[u] = {}, NEW t \in Threads, inbox' = inbox,
           \A u \in Threads : u # t => todo'[u] = {}
    PROVE  \A c \in Conns :
               Delivered'[c] = IF c \in todo'[t] THEN Append(Delivered[c], event'[t])
                                                 ELSE Delivered[c]
<1> SUFFICES ASSUME NEW c \in Conns
             PROVE  Delivered'[c] = IF c \in todo'[t] THEN Append(Delivered[c], event'[t])
                                                      ELSE Delivered[c]
  OBVIOUS
<1>1. Delivered[c] = inbox[c]
  BY NobodySends
<1>2. CASE c \in todo'[t]
  <2>1. (CHOOSE u \in Threads : c \in todo'[u]) = t
    BY <1>2
  <2>2. QED
    BY <1>1, <1>2, <2>1 DEF Delivered
<1>3. CASE c \notin todo'[t]
  BY <1>1, <1>3 DEF Delivered
<1>4. QED
  BY <1>2, <1>3

\* A nickname lets its client into the room, and a line of a member is said.
LEMMA PublishImplements ==
    ASSUME ChatInv, NEW w \in Workers, HandleNickname(w) \/ HandleChat(w)
    PROVE  Room!Next
<1> USE ChatAssumption DEF Threads
<1>1. /\ at[w] = "handle" /\ clientsMutex = Free /\ Of(w) \in clients
      /\ at' = [at EXCEPT ![w] = "send"]
      /\ at \in [Threads -> Places] /\ told \in [Conns -> 0..MaxLines]
      /\ lines \in [Conns -> 0..MaxLines] /\ inChat \subseteq clients /\ clients \subseteq Conns
      /\ todo \in [Threads -> SUBSET Conns] /\ event \in [Threads -> Room!Event \cup {NoEvent}]
  BY DEF ChatInv, TypeOK, HandleNickname, HandleChat, Publish, Goto, At, Lock
<1>2. /\ Leaving = {} /\ Leaving' = {}
      /\ \A t \in Threads : todo[t] = {}
  BY <1>1 DEF ChatInv, Locked, Broadcasting, Casts, Leaving
<1>3. Members = inChat /\ Members' = inChat'
  BY <1>2 DEF Members
<1>4. /\ job[w].first = told[Of(w)] + 1
      /\ job[w].last = lines[Of(w)] /\ job[w].last > told[Of(w)] /\ lines[Of(w)] <= MaxLines
  <2>1. job[w].last # 0 /\ Fresh(job[w])
    BY <1>1 DEF ChatInv, Numbering
  <2>2. QED
    BY <1>1, <2>1 DEF Fresh, Of
<1> DEFINE c == Of(w)
           j == job[w].last
<1>5. c \in Conns /\ j \in 1..MaxLines /\ j \in told[c] + 1 .. MaxLines
  BY <1>1, <1>4 DEF ChatInv, TypeOK
<1>6. CASE HandleNickname(w)
  <2>1. c \notin inChat /\ inChat' = inChat \cup {c} /\ Publish(w, "joined", inChat')
    BY <1>6 DEF HandleNickname
  <2>2. told[c] = 0 /\ job[w].first = 1
    <3>1. ~Cleared
      BY <1>1 DEF ChatInv, Phases, Cleared
    <3>2. QED
      BY <1>1, <1>4, <2>1, <3>1 DEF ChatInv, Numbering
  <2>3. Delivers([kind |-> "joined", who |-> c, first |-> 1, last |-> j], Members')
    <3>1. /\ todo' = [todo EXCEPT ![w] = inChat'] /\ inbox' = inbox
          /\ event' = [event EXCEPT ![w] =
                           [kind |-> "joined", who |-> c, first |-> 1, last |-> j]]
          /\ told' = [told EXCEPT ![c] = j]
      BY <2>1, <2>2 DEF Publish
    <3> DEFINE e == [kind |-> "joined", who |-> c, first |-> 1, last |-> j]
    <3>2. /\ TypeOK /\ e.who = c /\ e.last = j /\ w \in Threads
          /\ event' = [event EXCEPT ![w] = e] /\ todo' = [todo EXCEPT ![w] = inChat']
      BY <3>1 DEF ChatInv
    <3> HIDE DEF e
    <3>3. /\ todo'[w] = inChat' /\ event'[w] = e
          /\ \A u \in Threads : u # w => todo'[u] = {}
      BY <1>1, <1>2, <3>2
    <3>4. \A d \in Conns : Delivered'[d] = IF d \in inChat' THEN Append(Delivered[d], e)
                                                     ELSE Delivered[d]
      BY <1>2, <3>1, <3>2, <3>3, BroadcastStarts
    <3>5. Delivers(e, Members')
      BY <1>3, <3>1, <3>2, <3>4 DEF Delivers
    <3>6. QED
      BY <3>5 DEF e
  <2>4. QED
    BY <1>3, <1>5, <2>1, <2>3, RoomJoins
<1>7. CASE HandleChat(w)
  <2> DEFINE to == {d \in inChat : handle[d] # handle[c]}
  <2>1. c \in inChat /\ inChat' = inChat /\ Publish(w, "said", to)
    BY <1>7 DEF HandleChat
  <2>2. to = Members \ {c}
    BY <1>1, <1>3, <2>1 DEF ChatInv, OwnSocket
  <2>3. Delivers([kind |-> "said", who |-> c, first |-> told[c] + 1, last |-> j],
                 Members \ {c})
    <3>1. /\ todo' = [todo EXCEPT ![w] = to] /\ inbox' = inbox
          /\ event' = [event EXCEPT ![w] =
                           [kind |-> "said", who |-> c, first |-> told[c] + 1, last |-> j]]
          /\ told' = [told EXCEPT ![c] = j]
      BY <1>4, <2>1 DEF Publish
    <3> DEFINE e == [kind |-> "said", who |-> c, first |-> told[c] + 1, last |-> j]
    <3>2. /\ TypeOK /\ e.who = c /\ e.last = j /\ w \in Threads
          /\ event' = [event EXCEPT ![w] = e] /\ todo' = [todo EXCEPT ![w] = to]
      BY <3>1 DEF ChatInv
    <3> HIDE DEF e, to
    <3>3. /\ todo'[w] = to /\ event'[w] = e
          /\ \A u \in Threads : u # w => todo'[u] = {}
      BY <1>1, <1>2, <3>2
    <3>4. \A d \in Conns : Delivered'[d] = IF d \in to THEN Append(Delivered[d], e)
                                                     ELSE Delivered[d]
      BY <1>2, <3>1, <3>2, <3>3, BroadcastStarts
    <3>5. Delivers(e, Members \ {c})
      BY <2>2, <3>1, <3>2, <3>4 DEF Delivers
    <3>6. QED
      BY <3>5 DEF e
  <2>4. QED
    BY <1>3, <1>5, <2>1, <2>3, RoomHears
<1>8. QED
  BY <1>6, <1>7

\* One send of a broadcast: its event counted as delivered from the start.
LEMMA SendIsUnseen ==
    ASSUME ChatInv, NEW t \in Threads, NEW c \in Conns, Send(t, c)
    PROVE  UNCHANGED Room!vars
<1>1. /\ c \in todo[t] /\ todo' = [todo EXCEPT ![t] = @ \ {c}]
      /\ inbox' = [inbox EXCEPT ![c] = Append(@, event[t])]
      /\ UNCHANGED <<at, inChat, event, told>>
      /\ todo \in [Threads -> SUBSET Conns] /\ inbox \in [Conns -> Seq(Room!Event)]
  BY DEF Send, room, ChatInv, TypeOK
<1>2. \A u \in Threads : u # t => todo[u] = {} /\ todo'[u] = {}
  BY <1>1, SoleSender DEF ChatInv
<1>3. ASSUME NEW d \in Conns PROVE Delivered'[d] = Delivered[d]
  <2>1. Delivered[d] = IF d \in todo[t] THEN Append(inbox[d], event[t]) ELSE inbox[d]
    BY <1>2, OneSends
  <2>2. \A u \in Threads : d \in todo'[u] => u = t
    BY <1>2
  <2>3. Delivered'[d] = IF d \in todo'[t] THEN Append(inbox'[d], event'[t]) ELSE inbox'[d]
    <3>1. CASE d \in todo'[t]
      <4>1. (CHOOSE u \in Threads : d \in todo'[u]) = t
        BY <2>2, <3>1
      <4>2. QED
        BY <3>1, <4>1 DEF Delivered
    <3>2. CASE d \notin todo'[t]
      BY <2>2, <3>2 DEF Delivered
    <3>3. QED
      BY <3>1, <3>2
  <2>4. QED
    BY <1>1, <2>1, <2>3
<1>4. Delivered' = Delivered
  BY <1>3 DEF Delivered
<1>5. Members' = Members
  BY <1>1 DEF Members, Leaving
<1>6. QED
  BY <1>1, <1>4, <1>5, RoomStutters

\* removeClient takes a member out of the room when its broadcast starts, and
\* the room never knew a client that had not given a nickname.
LEMMA RemoveFoundImplements ==
    ASSUME ChatInv, NEW t \in Threads, NEW c \in Conns, RemoveFound(t, c)
    PROVE  Room!Next \/ UNCHANGED Room!vars
<1>1. /\ clientsMutex = Free /\ at' = [at EXCEPT ![t] = "sendLeft"]
      /\ inbox' = inbox /\ told' = told /\ inChat' = inChat
      /\ todo' = [todo EXCEPT ![t] = IF c \in inChat THEN inChat ELSE {}]
      /\ at \in [Threads -> Places] /\ told \in [Conns -> 0..MaxLines]
      /\ todo \in [Threads -> SUBSET Conns] /\ event \in [Threads -> Room!Event \cup {NoEvent}]
  BY DEF RemoveFound, Goto, Lock, room, ChatInv, TypeOK
<1> DEFINE e == [kind |-> "left", who |-> c, first |-> 0, last |-> told[c]]
<1>2. event' = [event EXCEPT ![t] = e] /\ e.who = c /\ e.last = told[c]
  BY DEF RemoveFound
<1> HIDE DEF e
<1>3. Leaving = {} /\ \A u \in Threads : todo[u] = {}
  BY <1>1, ChatAssumption DEF ChatInv, Locked, Broadcasting, Casts, Leaving
<1>4. Leaving' = {t}
  BY <1>1, <1>3 DEF Leaving
<1>5. Members = inChat /\ Members' = inChat \ {c}
  BY <1>1, <1>2, <1>3, <1>4 DEF Members
<1>6. CASE c \in inChat
  <2>1. /\ todo'[t] = inChat /\ event'[t] = e
        /\ \A u \in Threads : u # t => todo'[u] = {}
    BY <1>1, <1>2, <1>3, <1>6
  <2>2. \A d \in Conns : Delivered'[d] = IF d \in inChat THEN Append(Delivered[d], e)
                                                   ELSE Delivered[d]
    BY <1>1, <1>3, <2>1, BroadcastStarts
  <2>3. Delivers(e, Members)
    BY <1>1, <1>2, <1>5, <2>2 DEF Delivers
  <2>4. QED
    BY <1>5, <1>6, <2>3, RoomLeft DEF e
<1>7. CASE c \notin inChat
  <2>1. todo' = todo
    BY <1>1, <1>3, <1>7
  <2>2. Delivered' = Delivered
    BY <1>1, <1>3, <2>1, SameDelivered
  <2>3. QED
    BY <1>1, <1>5, <1>7, <2>2, RoomStutters
<1>8. QED
  BY <1>6, <1>7

\* The leaver is erased from the list after it has left the room.
LEMMA EraseIsUnseen ==
    ASSUME ChatInv, NEW t \in Threads, Erase(t)
    PROVE  UNCHANGED Room!vars
<1>1. /\ at[t] = "erase" /\ at' = [at EXCEPT ![t] = "loop"]
      /\ inChat' = inChat \ {event[t].who}
      /\ event' = [event EXCEPT ![t] = NoEvent]
      /\ UNCHANGED <<todo, told, inbox>>
      /\ at \in [Threads -> Places] /\ event \in [Threads -> Room!Event \cup {NoEvent}]
  BY DEF Erase, Goto, At, ChatInv, TypeOK
<1>2. Leaving = {t} /\ Leaving' = {} /\ todo[t] = {}
  BY <1>1 DEF ChatInv, Locked, Broadcasting, Casts, Leaving
<1>3. Members' = Members
  BY <1>1, <1>2 DEF Members
<1>4. Delivered' = Delivered
  BY <1>1, <1>2, SameDelivered
<1>5. QED
  BY <1>1, <1>3, <1>4, RoomStutters

\* stopServer empties the room at once: nobody broadcasts any more.
LEMMA ClearImplements ==
    ASSUME ChatInv, ClearClients
    PROVE  Room!Next
<1>1. /\ clientsMutex = Free /\ at' = [at EXCEPT ![Main] = "close"]
      /\ inChat' = {} /\ UNCHANGED <<todo, event, told, inbox>>
      /\ at \in [Threads -> Places]
  BY DEF ClearClients, Goto, cast, ChatInv, TypeOK
<1>2. Members' = {}
  BY <1>1 DEF Members
<1>3. Delivered' = Delivered
  BY <1>1, SameDelivered
<1>4. QED
  BY <1>1, <1>2, <1>3, RoomCloses

\* Every step of the pool is a step of the chat room or one it does not see.
LEMMA RoomStep == ChatInv /\ [Next]_vars => [Room!Next]_(Room!vars)
<1> SUFFICES ASSUME ChatInv, [Next]_vars PROVE Room!Next \/ UNCHANGED Room!vars
  OBVIOUS
<1> USE ChatAssumption DEF Goto, At, Threads, room, cast, Leaving
<1>0. at \in [Threads -> Places] /\ event \in [Threads -> Room!Event \cup {NoEvent}]
  BY DEF ChatInv, TypeOK
<1>1. ASSUME NEW c \in Conns, NEW n \in 0..MaxLines, Complete(c, n)
      PROVE  UNCHANGED Room!vars
  BY <1>1, UnseenStep DEF Complete
<1>2. ASSUME NEW w \in Workers, WorkerTest(w) \/ Dequeue(w) \/ Dispatch(w) \/ RearmFails(w)
      PROVE  UNCHANGED Room!vars
  BY <1>0, <1>2, UnseenStep DEF WorkerTest, Dequeue, Dispatch, RearmFails
<1>3. ASSUME NEW w \in Workers, Rearm(w) PROVE UNCHANGED Room!vars
  BY <1>0, <1>3, UnseenStep DEF Rearm
<1>4. ASSUME NEW t \in Workers \cup {Acceptor}, RemoveMissing(t) \/ CloseSocket(t)
      PROVE  UNCHANGED Room!vars
  BY <1>0, <1>4, UnseenStep DEF RemoveMissing, CloseSocket
<1>5. CASE AcceptTest \/ AcceptFails \/ AddClient \/ FirstReceive \/ FirstReceiveFails
  BY <1>0, <1>5, UnseenStep DEF AcceptTest, AcceptFails, AddClient, FirstReceive, FirstReceiveFails
<1>6. ASSUME NEW c \in Conns, NEW h \in Handles, Accept(c, h) PROVE UNCHANGED Room!vars
  BY <1>0, <1>6, UnseenStep DEF Accept
<1>7. CASE PressEnter \/ PostNulls \/ JoinWorkers \/ CloseServer \/ Exit
  BY <1>0, <1>7, UnseenStep DEF PressEnter, PostNulls, JoinWorkers, CloseServer, Exit
<1>8. CASE UNCHANGED vars
  BY <1>8, UnseenStep DEF vars
<1> HIDE DEF Goto, At, room, cast, Leaving
<1>9. ASSUME NEW t \in Workers \cup {Acceptor}, RemoveStep(t)
      PROVE  Room!Next \/ UNCHANGED Room!vars
  BY <1>4, <1>9, RemoveFoundImplements, SendIsUnseen, EraseIsUnseen DEF RemoveStep
<1>10. ASSUME NEW w \in Workers, WorkerStep(w) PROVE Room!Next \/ UNCHANGED Room!vars
  BY <1>2, <1>3, <1>9, <1>10, PublishImplements DEF WorkerStep
<1>11. QED
  BY <1>1, <1>5, <1>6, <1>7, <1>8, <1>9, <1>10, ClearImplements
     DEF Next, AcceptorStep, MainStep, Halted

\* Lock, broadcast and re-arming make the workers one chat room, in which a
\* message is delivered at one instant to whoever is in it.
THEOREM PoolIsARoom == Spec => RoomSpec
<1>1. Init => Room!Init
  BY ChatAssumption DEF Init, Room!Init, Leaving, Threads
<1>2. QED
  BY ChatInvariant, RoomStep, <1>1, PTL DEF Spec, RoomSpec, Room!Spec
-----------------------------------------------------------------------------
(* Messages do not overtake each other.                                    *)

\* This client has left the chat, or is about to.
Left(c) == c \notin inChat \/ \E t \in Leaving : event[t].who = c

\* A message that was sent or is being sent: its number tells it from others.
Passed(m) == m.last \in 1..told[m.who] /\ (m.kind = "left" => Left(m.who))

\* Whoever has the message under way has it last, and is not sent it again.
Casting(t) ==
    todo[t] # {} =>
        /\ Passed(event[t])
        /\ \A c \in Conns : \A i \in DOMAIN inbox[c] :
               inbox[c][i] = event[t] => c \notin todo[t] /\ i = Len(inbox[c])

\* The inductive invariant behind SameOrder.
OrderInv ==
    /\ SameOrder
    /\ \A c \in Conns : \A i \in DOMAIN inbox[c] : Passed(inbox[c][i])
    /\ \A c \in inChat : told[c] # 0
    /\ \A t \in Threads : Casting(t)

\* A step that starts, sends and ends no broadcast.
LEMMA OrderCalm ==
    ASSUME OrderInv, UNCHANGED <<told, todo, inbox>>, inChat' \subseteq inChat,
           \A t \in Threads : todo[t] # {} => event'[t] = event[t],
           \A c \in Conns : Left(c) => Left(c)',
           inbox \in [Conns -> Seq(Room!Event)],
           \A t \in Threads : todo[t] # {} => event[t] \in Room!Event
    PROVE  OrderInv'
<1>1. ASSUME NEW m \in Room!Event, Passed(m) PROVE Passed(m)'
  <2>1. m.who \in Conns
    BY DEF Room!Event
  <2>2. QED
    BY <1>1, <2>1 DEF Passed
<1>2. \A c \in Conns : \A i \in DOMAIN inbox[c] : inbox[c][i] \in Room!Event
  OBVIOUS
<1>3. SameOrder'
  BY DEF OrderInv, SameOrder
<1>4. \A c \in Conns : \A i \in DOMAIN inbox'[c] : Passed(inbox[c][i])'
  BY <1>1, <1>2 DEF OrderInv
<1>5. ASSUME NEW t \in Threads PROVE Casting(t)'
  BY <1>1 DEF OrderInv, Casting
<1>6. QED
  BY <1>3, <1>4, <1>5 DEF OrderInv

\* A message that starts is a new one: its number is above those of its author.
LEMMA OrderPublish ==
    ASSUME ChatInv, OrderInv, NEW w \in Workers, HandleNickname(w) \/ HandleChat(w)
    PROVE  OrderInv'
<1> USE ChatAssumption DEF Threads
<1>1. /\ at[w] = "handle" /\ clientsMutex = Free /\ Of(w) \in clients
      /\ at' = [at EXCEPT ![w] = "send"] /\ inbox' = inbox
      /\ at \in [Threads -> Places] /\ told \in [Conns -> 0..MaxLines]
      /\ clients \subseteq Conns /\ inChat \subseteq clients
      /\ todo \in [Threads -> SUBSET Conns] /\ event \in [Threads -> Room!Event \cup {NoEvent}]
      /\ inbox \in [Conns -> Seq(Room!Event)]
  BY DEF ChatInv, TypeOK, HandleNickname, HandleChat, Publish, Goto, At, Lock
<1>2. /\ Leaving = {} /\ Leaving' = {}
      /\ \A t \in Threads : todo[t] = {}
  BY <1>1 DEF ChatInv, Locked, Broadcasting, Casts, Leaving
<1> DEFINE c == Of(w)
           n == job[w].last
<1>3. n \in Nat /\ n > told[c] /\ n # 0 /\ ~Cleared
  <2>1. n # 0 /\ Fresh(job[w]) /\ ~Cleared
    BY <1>1 DEF ChatInv, Numbering, Phases, Cleared
  <2>2. n \in Nat
    BY DEF ChatInv, TypeOK, Packets
  <2>3. QED
    BY <2>1, <2>2 DEF Fresh, Of
<1>4. PICK k \in {"joined", "said"} : \E to :
          /\ todo' = [todo EXCEPT ![w] = to]
          /\ event' = [event EXCEPT ![w] = [kind |-> k, who |-> c, first |-> job[w].first,
                                            last |-> n]]
  BY DEF HandleNickname, HandleChat, Publish
<1>5. /\ told' = [told EXCEPT ![c] = n] /\ c \in Conns
      /\ inChat' = inChat \/ (inChat' = inChat \cup {c} /\ told[c] = 0)
  <2>1. c \notin inChat => told[c] = 0
    BY <1>1, <1>3 DEF ChatInv, Numbering
  <2>2. QED
    BY <1>1, <2>1 DEF HandleNickname, HandleChat, Publish
<1> DEFINE e == event'[w]
<1>6. /\ e.kind # "left" /\ e.who = c /\ e.last = n
      /\ \A t \in Threads : t # w => todo'[t] = {}
  BY <1>1, <1>2, <1>4
<1> HIDE DEF e, c, n
<1>7. ASSUME NEW d \in Conns, NEW i \in DOMAIN inbox[d]
      PROVE  inbox[d][i] # e /\ Passed(inbox[d][i])'
  <2>1. PICK m \in Room!Event : m = inbox[d][i] /\ Passed(m)
    BY <1>1 DEF OrderInv
  <2>2. m.last \in Nat /\ m.last # 0 /\ m.last <= told[m.who] /\ m.who \in Conns
    BY <1>1, <2>1 DEF Passed, Room!Event
  <2>3. m # e
    BY <1>1, <1>3, <1>5, <1>6, <2>2
  <2>4. m.last \in 1..told'[m.who]
    BY <1>1, <1>3, <1>5, <2>2
  <2>5. m.kind = "left" => m.who \notin inChat'
    <3>1. m.kind = "left" => m.who \notin inChat
      BY <1>2, <2>1 DEF Passed, Left
    <3>2. m.who = c => told[c] # 0
      BY <1>1, <2>2
    <3>3. QED
      BY <1>5, <3>1, <3>2
  <2>6. Passed(m)'
    BY <2>4, <2>5 DEF Passed, Left
  <2>7. QED
    BY <1>1, <2>1, <2>3, <2>6
<1>8. SameOrder'
  BY <1>1 DEF OrderInv, SameOrder
<1>9. \A d \in inChat' : told'[d] # 0
  BY <1>1, <1>3, <1>5 DEF OrderInv
<1>10. ASSUME NEW t \in Threads PROVE Casting(t)'
  <2>1. CASE t = w
    <3>1. Passed(event[w])'
      BY <1>1, <1>3, <1>5, <1>6 DEF Passed, e
    <3>2. QED
      BY <1>1, <1>7, <2>1, <3>1 DEF Casting, e
  <2>2. CASE t # w
    BY <1>6, <2>2 DEF Casting
  <2>3. QED
    BY <2>1, <2>2
<1>11. QED
  BY <1>1, <1>7, <1>8, <1>9, <1>10 DEF OrderInv

\* removeClient's message is new too: its client was in the chat until now.
LEMMA OrderRemove ==
    ASSUME ChatInv, OrderInv, NEW t \in Threads, NEW c \in Conns, RemoveFound(t, c)
    PROVE  OrderInv'
<1> DEFINE e == [kind |-> "left", who |-> c, first |-> 0, last |-> told[c]]
<1>1. /\ clientsMutex = Free /\ at' = [at EXCEPT ![t] = "sendLeft"]
      /\ UNCHANGED <<inbox, told, inChat>>
      /\ todo' = [todo EXCEPT ![t] = IF c \in inChat THEN inChat ELSE {}]
      /\ event' = [event EXCEPT ![t] = e]
      /\ at \in [Threads -> Places] /\ told \in [Conns -> 0..MaxLines]
      /\ todo \in [Threads -> SUBSET Conns] /\ event \in [Threads -> Room!Event \cup {NoEvent}]
      /\ inbox \in [Conns -> Seq(Room!Event)]
  BY DEF RemoveFound, Goto, Lock, room, ChatInv, TypeOK
<1>2. e.kind = "left" /\ e.who = c /\ e.last = told[c]
  OBVIOUS
<1> HIDE DEF e
<1>3. Leaving = {} /\ \A u \in Threads : todo[u] = {}
  <2>1. Locked /\ Broadcasting
    BY DEF ChatInv
  <2>2. \A u \in Threads : at[u] \notin {"send", "sendLeft", "erase"}
    BY <1>1, <2>1, ChatAssumption DEF Locked
  <2>3. QED
    BY <2>1, <2>2 DEF Broadcasting, Casts, Leaving
<1>4. Leaving' = {t} /\ event'[t] = e /\ \A u \in Threads : u # t => todo'[u] = {}
  BY <1>1, <1>3 DEF Leaving
<1>5. ASSUME NEW d \in Conns, NEW i \in DOMAIN inbox[d]
      PROVE  (c \in inChat => inbox[d][i] # e) /\ Passed(inbox[d][i])'
  <2>1. PICK m \in Room!Event : m = inbox[d][i] /\ Passed(m)
    BY <1>1 DEF OrderInv
  <2>2. m.kind = "left" => m.who \notin inChat
    BY <1>3, <2>1 DEF Passed, Left
  <2>3. Passed(m)'
    BY <1>1, <2>1, <2>2 DEF Passed, Left
  <2>4. QED
    BY <1>1, <1>2, <2>1, <2>2, <2>3
<1>6. SameOrder' /\ \A d \in inChat' : told'[d] # 0
  BY <1>1 DEF OrderInv, SameOrder
<1>7. ASSUME NEW u \in Threads PROVE Casting(u)'
  <2>1. CASE u = t /\ c \in inChat
    <3>1. told[c] \in 1..told[c]
      BY <1>1, <2>1 DEF OrderInv
    <3>2. Passed(event[t])'
      BY <1>1, <1>2, <1>4, <3>1 DEF Passed, Left
    <3>3. QED
      BY <1>1, <1>4, <1>5, <2>1, <3>2 DEF Casting
  <2>2. CASE u # t \/ c \notin inChat
    BY <1>1, <1>4, <2>2 DEF Casting
  <2>3. QED
    BY <2>1, <2>2
<1>8. QED
  BY <1>1, <1>5, <1>6, <1>7 DEF OrderInv

\* A send adds the message under way, which nobody has at another place.
LEMMA OrderSend ==
    ASSUME ChatInv, OrderInv, NEW t \in Threads, NEW c \in Conns, Send(t, c)
    PROVE  OrderInv'
<1>1. /\ c \in todo[t] /\ todo' = [todo EXCEPT ![t] = @ \ {c}]
      /\ inbox' = [inbox EXCEPT ![c] = Append(@, event[t])]
      /\ UNCHANGED <<at, inChat, event, told>>
      /\ todo \in [Threads -> SUBSET Conns] /\ inbox \in [Conns -> Seq(Room!Event)]
      /\ event \in [Threads -> Room!Event \cup {NoEvent}]
  BY DEF Send, room, ChatInv, TypeOK
<1>2. \A u \in Threads : u # t => todo[u] = {} /\ todo'[u] = {}
  BY <1>1, SoleSender DEF ChatInv
<1>3. PICK e \in Room!Event : e = event[t]
  BY <1>1 DEF ChatInv, Broadcasting, Casts
<1> DEFINE n == Len(inbox[c])
<1>4. /\ n \in Nat /\ DOMAIN inbox[c] = 1..n
      /\ DOMAIN inbox'[c] = 1..n + 1 /\ inbox'[c][n + 1] = e
      /\ \A i \in 1..n : inbox'[c][i] = inbox[c][i]
      /\ \A d \in Conns : d # c => inbox'[d] = inbox[d]
  BY <1>1, <1>3
<1> HIDE DEF n
<1>5. Passed(e) /\ Passed(e)'
  <2>1. Passed(e)
    BY <1>1, <1>3 DEF OrderInv, Casting
  <2>2. Left(e.who)' <=> Left(e.who)
    BY <1>1 DEF Left, Leaving
  <2>3. QED
    BY <1>1, <2>1, <2>2 DEF Passed
<1>6. ASSUME NEW d \in Conns, NEW i \in DOMAIN inbox[d], inbox[d][i] = e
      PROVE  d \notin todo[t] /\ d # c /\ i = Len(inbox[d])
  BY <1>1, <1>3, <1>6 DEF OrderInv, Casting
\* Where e is, it is last; elsewhere inboxes are as they were.
<1>7. ASSUME NEW d \in Conns, NEW i \in DOMAIN inbox'[d]
      PROVE  \/ inbox'[d][i] = e /\ d \notin todo'[t] /\ \A j \in DOMAIN inbox'[d] : j <= i
             \/ inbox'[d][i] # e /\ i \in DOMAIN inbox[d] /\ inbox'[d][i] = inbox[d][i]
  <2>1. CASE d = c
    <3>1. CASE i = n + 1
      BY <1>1, <1>4, <2>1, <3>1
    <3>2. CASE i # n + 1
      BY <1>4, <1>6, <1>7, <2>1, <3>2
    <3>3. QED
      BY <3>1, <3>2
  <2>2. CASE d # c
    <3>1. inbox'[d] = inbox[d] /\ DOMAIN inbox[d] = 1..Len(inbox[d]) /\ Len(inbox[d]) \in Nat
      BY <1>1, <1>4, <2>2
    <3>2. todo'[t] \subseteq todo[t]
      BY <1>1
    <3>3. QED
      BY <1>6, <1>7, <3>1, <3>2
  <2>3. QED
    BY <2>1, <2>2
<1>8. \A d \in Conns : DOMAIN inbox'[d] \subseteq Nat
  <2>1. \A d \in Conns : DOMAIN inbox[d] \subseteq Nat
    BY <1>1
  <2>2. QED
    BY <1>4, <2>1
<1>9. SameOrder'
  <2> SUFFICES ASSUME NEW d \in Conns, NEW f \in Conns,
                      NEW i \in DOMAIN inbox'[d], NEW j \in DOMAIN inbox'[d],
                      NEW k \in DOMAIN inbox'[f], NEW l \in DOMAIN inbox'[f],
                      inbox'[d][i] = inbox'[f][k], inbox'[d][j] = inbox'[f][l]
               PROVE  i < j <=> k < l
    BY DEF SameOrder
  <2>0. {i, j, k, l} \subseteq Nat
    BY <1>8
  <2>1. CASE inbox'[d][i] = e
    <3>1. j <= i /\ l <= k
      BY <1>7, <2>1
    <3>2. QED
      BY <2>0, <3>1
  <2>2. CASE inbox'[d][i] # e /\ inbox'[d][j] = e
    <3>1. i <= j /\ k <= l /\ i # j /\ k # l
      BY <1>7, <2>2
    <3>2. QED
      BY <2>0, <3>1
  <2>3. CASE inbox'[d][i] # e /\ inbox'[d][j] # e
    <3>1. /\ i \in DOMAIN inbox[d] /\ j \in DOMAIN inbox[d]
          /\ k \in DOMAIN inbox[f] /\ l \in DOMAIN inbox[f]
          /\ inbox[d][i] = inbox[f][k] /\ inbox[d][j] = inbox[f][l]
      BY <1>7, <2>3
    <3>2. QED
      BY <3>1 DEF OrderInv, SameOrder
  <2>4. QED
    BY <2>1, <2>2, <2>3
<1>10. ASSUME NEW d \in Conns, NEW i \in DOMAIN inbox'[d] PROVE Passed(inbox[d][i])'
  <2>1. PICK m : m = inbox'[d][i]
    OBVIOUS
  <2>2. CASE m = e
    BY <1>5, <2>1, <2>2
  <2>3. CASE m # e
    <3>1. Passed(m)
      BY <1>7, <2>1, <2>3 DEF OrderInv
    <3>2. Left(m.who)' <=> Left(m.who)
      BY <1>1 DEF Left, Leaving
    <3>3. Passed(m)'
      BY <1>1, <3>1, <3>2 DEF Passed
    <3>4. QED
      BY <2>1, <3>3
  <2>4. QED
    BY <2>2, <2>3
<1>11. ASSUME NEW u \in Threads PROVE Casting(u)'
  <2>1. CASE u = t
    <3>1. Passed(event[t])'
      BY <1>1, <1>3, <1>5
    <3>2. \A d \in Conns : \A i \in DOMAIN inbox'[d] :
              inbox'[d][i] = event'[t] => d \notin todo'[t] /\ i = Len(inbox'[d])
      <4>1. \A d \in Conns : inbox'[d] \in Seq(Room!Event)
        BY <1>1, <1>3
      <4>2. ASSUME NEW d \in Conns, NEW i \in DOMAIN inbox'[d], inbox'[d][i] = e
            PROVE  d \notin todo'[t] /\ i = Len(inbox'[d])
        <5>1. d \notin todo'[t] /\ \A j \in DOMAIN inbox'[d] : j <= i
          BY <1>7, <4>2
        <5>2. Len(inbox'[d]) \in DOMAIN inbox'[d] /\ i \in 1..Len(inbox'[d])
          BY <4>1
        <5>3. QED
          BY <5>1, <5>2
      <4>3. QED
        BY <1>1, <1>3, <4>2
    <3>3. QED
      BY <2>1, <3>1, <3>2 DEF Casting
  <2>2. CASE u # t
    BY <1>2, <2>2 DEF Casting
  <2>3. QED
    BY <2>1, <2>2
<1>12. QED
  BY <1>1, <1>9, <1>10, <1>11 DEF OrderInv

\* Every step keeps the order.
LEMMA OrderStep == ChatInv /\ OrderInv /\ [Next]_vars => OrderInv'
<1> SUFFICES ASSUME ChatInv, OrderInv, [Next]_vars PROVE OrderInv'
  OBVIOUS
<1>0. /\ at \in [Threads -> Places] /\ event \in [Threads -> Room!Event \cup {NoEvent}]
      /\ inbox \in [Conns -> Seq(Room!Event)]
      /\ \A t \in Threads : todo[t] # {} => event[t] \in Room!Event
      /\ \A t \in Threads : todo[t] # {} => at[t] \in {"send", "sendLeft"}
      /\ \A t \in Threads : at[t] = "erase" => Leaving = {t}
  BY ChatAssumption DEF ChatInv, TypeOK, Broadcasting, Casts, Locked, Leaving
<1> USE ChatAssumption DEF Goto, At, Threads, room, cast
\* Steps of nobody who broadcasts or removes.
<1>1. ASSUME UNCHANGED <<told, todo, inbox>>, inChat' \subseteq inChat,
             \A t \in Threads : todo[t] # {} => event'[t] = event[t],
             \A t \in Leaving : t \in Leaving' /\ event'[t] = event[t]
      PROVE  OrderInv'
  <2>1. \A c \in Conns : Left(c) => Left(c)'
    BY <1>1 DEF Left
  <2>2. QED
    BY <1>0, <1>1, <2>1, OrderCalm
<1>2. ASSUME UNCHANGED <<told, todo, inbox, event>>, inChat' \subseteq inChat,
             \A t \in Threads : at[t] \in {"sendLeft", "erase"} => at'[t] \in {"sendLeft", "erase"}
      PROVE  OrderInv'
  BY <1>1, <1>2 DEF Leaving
<1>3. ASSUME NEW w \in Workers, Rearm(w) PROVE OrderInv'
  <2>1. /\ at[w] = "send" /\ todo[w] = {} /\ at' = [at EXCEPT ![w] = "loop"]
        /\ event' = [event EXCEPT ![w] = NoEvent]
        /\ UNCHANGED <<told, todo, inbox, inChat>>
    BY <1>3 DEF Rearm
  <2>2. \A t \in Threads : t # w => event'[t] = event[t] /\ at'[t] = at[t]
    BY <1>0, <2>1
  <2>3. QED
    BY <1>1, <2>1, <2>2 DEF Leaving
<1>4. ASSUME NEW t \in Threads, Erase(t) PROVE OrderInv'
  <2>1. /\ at[t] = "erase" /\ inChat' = inChat \ {event[t].who}
        /\ event' = [event EXCEPT ![t] = NoEvent]
        /\ UNCHANGED <<told, todo, inbox>>
    BY <1>4 DEF Erase
  <2>2. \A u \in Threads : todo[u] # {} => event'[u] = event[u]
    BY <1>0, <2>1
  <2>3. \A c \in Conns : Left(c) => Left(c)'
    BY <1>0, <2>1 DEF Left
  <2>4. QED
    BY <1>0, <2>1, <2>2, <2>3, OrderCalm
<1>5. ASSUME NEW c \in Conns, NEW n \in 0..MaxLines, Complete(c, n) PROVE OrderInv'
  BY <1>2, <1>5 DEF Complete
<1>6. ASSUME NEW w \in Workers, WorkerTest(w) \/ Dequeue(w) \/ Dispatch(w) \/ RearmFails(w)
      PROVE  OrderInv'
  BY <1>0, <1>2, <1>6 DEF WorkerTest, Dequeue, Dispatch, RearmFails
<1>7. ASSUME NEW t \in Threads, RemoveMissing(t) \/ CloseSocket(t) PROVE OrderInv'
  BY <1>0, <1>2, <1>7 DEF RemoveMissing, CloseSocket
<1>8. CASE AcceptTest \/ AcceptFails \/ AddClient \/ FirstReceive \/ FirstReceiveFails
  BY <1>0, <1>2, <1>8 DEF AcceptTest, AcceptFails, AddClient, FirstReceive, FirstReceiveFails
<1>9. ASSUME NEW c \in Conns, NEW h \in Handles, Accept(c, h) PROVE OrderInv'
  BY <1>0, <1>2, <1>9 DEF Accept
<1>10. CASE PressEnter \/ MainStep
  BY <1>0, <1>2, <1>10 DEF PressEnter, MainStep, PostNulls, JoinWorkers, ClearClients,
                           CloseServer, Exit
<1>11. CASE UNCHANGED vars
  BY <1>2, <1>11 DEF vars
<1> HIDE DEF Goto, At, room, cast
<1>12. ASSUME NEW t \in Workers \cup {Acceptor}, RemoveStep(t) PROVE OrderInv'
  BY <1>4, <1>7, <1>12, OrderRemove, OrderSend DEF RemoveStep
<1>13. ASSUME NEW w \in Workers, WorkerStep(w) PROVE OrderInv'
  BY <1>3, <1>6, <1>12, <1>13, OrderPublish DEF WorkerStep
<1>14. QED
  BY <1>5, <1>8, <1>9, <1>10, <1>11, <1>12, <1>13 DEF Next, AcceptorStep, Halted

\* A broadcast holds clientsMutex until everybody has the message, so messages of
\* several workers reach all clients in one order, and none twice
\* (chat_server.cpp:179, 219).
THEOREM OneOrderForAll == Spec => []SameOrder
<1>1. Init => OrderInv
  BY DEF Init, OrderInv, SameOrder, Casting
<1>2. OrderInv => SameOrder
  BY DEF OrderInv
<1>3. ChatInv /\ OrderInv /\ [Next]_vars => OrderInv'
  BY OrderStep
<1>4. QED
  BY ChatInvariant, <1>1, <1>2, <1>3, PTL DEF Spec
-----------------------------------------------------------------------------
(* What becomes of the server when a worker has locked itself out.         *)

\* The acceptor calls removeClient without clientsMutex.
AcceptorFree == clientsMutex = Acceptor => at[Acceptor] # "remove"

\* It takes the lock only when it has found the client, or to add one.
LEMMA AcceptorFreeStep ==
    TypeOK /\ Phases /\ Locked /\ AcceptorFree /\ [Next]_vars => AcceptorFree'
<1> SUFFICES ASSUME TypeOK, Phases, Locked, AcceptorFree, [Next]_vars PROVE AcceptorFree'
  OBVIOUS
<1>0. /\ at \in [Threads -> Places] /\ Acceptor \in Threads
      /\ clientsMutex = Acceptor => at[Acceptor] # "arm"
  BY DEF TypeOK, Threads, Locked
<1> USE <1>0, ChatAssumption DEF AcceptorFree, Goto, At, Lock, Unlock
<1>1. ASSUME NEW w \in Workers,
             \/ WorkerTest(w) \/ Dequeue(w) \/ Dispatch(w)
             \/ HandleNickname(w) \/ HandleChat(w) \/ Rearm(w) \/ RearmFails(w)
      PROVE  AcceptorFree'
  <2>1. w \in Threads /\ w # Acceptor /\ Acceptor # Free
    BY DEF Threads
  <2>2. at'[Acceptor] = at[Acceptor]
    BY <1>1, <2>1 DEF WorkerTest, Dequeue, Dispatch, HandleNickname, HandleChat, Publish,
                      Rearm, RearmFails
  <2>3. clientsMutex' = Acceptor => clientsMutex = Acceptor
    BY <1>1, <2>1 DEF WorkerTest, Dequeue, Dispatch, HandleNickname, HandleChat, Publish,
                      Rearm, RearmFails
  <2> QED
    BY <2>2, <2>3
<1>2. ASSUME NEW t \in Threads, RemoveStep(t) PROVE AcceptorFree'
  <2>1. ASSUME NEW c \in Conns, Send(t, c) PROVE AcceptorFree'
    BY <2>1 DEF Send
  <2>2. ASSUME NEW c \in Conns, RemoveFound(t, c) PROVE AcceptorFree'
    BY <2>2 DEF RemoveFound
  <2>3. CASE RemoveMissing(t) \/ CloseSocket(t)
    BY <2>3 DEF RemoveMissing, CloseSocket
  <2>4. CASE Erase(t)
    BY <2>4 DEF Erase, Threads
  <2> QED
    BY <1>2, <2>1, <2>2, <2>3, <2>4 DEF RemoveStep
<1>3. CASE AcceptTest \/ AcceptFails \/ AddClient \/ FirstReceive \/ FirstReceiveFails
  BY <1>3 DEF AcceptTest, AcceptFails, AddClient, FirstReceive, FirstReceiveFails
<1>4. ASSUME NEW c \in Conns, NEW h \in Handles, Accept(c, h) PROVE AcceptorFree'
  BY <1>4 DEF Accept
<1>5. CASE PressEnter \/ MainStep
  <2>1. Main # Acceptor
    OBVIOUS
  <2> QED
    BY <1>5, <2>1 DEF PressEnter, MainStep, PostNulls, JoinWorkers, ClearClients, CloseServer,
                      Exit
<1>6. ASSUME NEW c \in Conns, NEW n \in 0..MaxLines, Complete(c, n) PROVE AcceptorFree'
  BY <1>6 DEF Complete
<1>7. CASE UNCHANGED vars
  BY <1>7 DEF vars
<1> QED
  BY <1>1, <1>2, <1>3, <1>4, <1>5, <1>6, <1>7
     DEF Next, WorkerStep, AcceptorStep, Halted, Threads

\* Nobody gets past a worker that waits for its own lock.
LEMMA StuckStep ==
    ASSUME TypeOK, Phases, Locked, [Next]_vars, NEW t \in Threads, SelfLocked(t)
    PROVE  SelfLocked(t)' /\ UNCHANGED <<clientsMutex, room, cast>>
<1>0. /\ at \in [Threads -> Places] /\ Workers \subseteq Threads /\ Acceptor \in Threads
      /\ t # Free /\ t # Main /\ clientsMutex = t /\ at[t] = "remove"
      /\ \A u \in Threads : at[u] \notin {"send", "sendLeft", "erase"}
  BY ChatAssumption DEF TypeOK, Threads, Locked, SelfLocked, Phases, MainPlaces
<1> USE <1>0 DEF SelfLocked, Goto, At, Lock, Unlock, room, cast
<1>1. ASSUME NEW w \in Workers,
             \/ WorkerTest(w) \/ Dequeue(w) \/ Dispatch(w)
             \/ HandleNickname(w) \/ HandleChat(w) \/ Rearm(w) \/ RearmFails(w)
      PROVE  SelfLocked(t)' /\ UNCHANGED <<clientsMutex, room, cast>>
  BY <1>1 DEF WorkerTest, Dequeue, Dispatch, HandleNickname, HandleChat, Publish, Rearm,
              RearmFails
<1>2. ASSUME NEW u \in Threads, RemoveStep(u)
      PROVE  SelfLocked(t)' /\ UNCHANGED <<clientsMutex, room, cast>>
  BY <1>2 DEF RemoveStep, Send, RemoveFound, RemoveMissing, CloseSocket, Erase
<1>3. CASE AcceptTest \/ AcceptFails \/ AddClient \/ FirstReceive \/ FirstReceiveFails
  BY <1>3 DEF AcceptTest, AcceptFails, AddClient, FirstReceive, FirstReceiveFails
<1>4. ASSUME NEW c \in Conns, NEW h \in Handles, Accept(c, h)
      PROVE  SelfLocked(t)' /\ UNCHANGED <<clientsMutex, room, cast>>
  BY <1>4 DEF Accept
<1>5. CASE PressEnter \/ MainStep
  BY <1>5 DEF PressEnter, MainStep, PostNulls, JoinWorkers, ClearClients, CloseServer, Exit
<1>6. ASSUME NEW c \in Conns, NEW n \in 0..MaxLines, Complete(c, n)
      PROVE  SelfLocked(t)' /\ UNCHANGED <<clientsMutex, room, cast>>
  BY <1>6 DEF Complete
<1>7. CASE UNCHANGED vars
  BY <1>7 DEF vars
<1> QED
  BY <1>1, <1>2, <1>3, <1>4, <1>5, <1>6, <1>7
     DEF Next, WorkerStep, AcceptorStep, Halted, Threads

\* A worker whose receive fails waits for its own lock for good: from then on no
\* message is sent, nobody joins, leaves or is heard (chat_server.cpp:179, 233).
THEOREM StuckRoomIsSilent ==
    Spec => [][Stuck => Stuck' /\ UNCHANGED <<clientsMutex, room, cast>>]_vars
<1>1. ChatInv /\ [Next]_vars
          => [Stuck => Stuck' /\ UNCHANGED <<clientsMutex, room, cast>>]_vars
  <2> SUFFICES ASSUME ChatInv, [Next]_vars, Stuck
               PROVE  Stuck' /\ UNCHANGED <<clientsMutex, room, cast>>
    OBVIOUS
  <2>1. PICK t \in Threads : SelfLocked(t)
    BY DEF Stuck
  <2>2. SelfLocked(t)' /\ UNCHANGED <<clientsMutex, room, cast>>
    BY <2>1, StuckStep DEF ChatInv
  <2> QED
    BY <2>2 DEF Stuck
<1> QED
  BY <1>1, ChatInvariant, PTL DEF Spec

\* It is a worker, and stopServer does not get past joining it
\* (chat_server.cpp:265-267).
THEOREM StuckNeverStops == Spec => [](Stuck => at[Main] \in {"enter", "post", "join"})
<1>1. Init => AcceptorFree
  BY ChatAssumption DEF Init, AcceptorFree, Threads
<1>2. ChatInv /\ AcceptorFree /\ [Next]_vars => AcceptorFree'
  BY AcceptorFreeStep DEF ChatInv
<1>3. ChatInv /\ AcceptorFree => (Stuck => at[Main] \in {"enter", "post", "join"})
  <2> SUFFICES ASSUME ChatInv, AcceptorFree, NEW t \in Threads, SelfLocked(t)
               PROVE  at[Main] \in {"enter", "post", "join"}
    BY DEF Stuck
  <2>1. t \in Workers
    BY DEF ChatInv, Phases, MainPlaces, SelfLocked, AcceptorFree, Threads
  <2> QED
    BY <2>1 DEF ChatInv, Phases, MainPlaces, SelfLocked
<1> QED
  BY <1>1, <1>2, <1>3, ChatInvariant, PTL DEF Spec
=============================================================================
