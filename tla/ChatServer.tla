----------------------------- MODULE ChatServer -----------------------------
(***************************************************************************)
(* The chat server of tests/chat: a pool of workers that take completions  *)
(* from an I/O completion port, a detached acceptor and the main thread.   *)
(* A context has at most one receive, which is armed, then queued at the   *)
(* port, then in a worker's hands until the worker arms the next one.      *)
(* clientsMutex guards the list of clients and is held through a whole     *)
(* broadcast; every send of a broadcast is a step.  The list is kept as a  *)
(* set, and a broadcast reaches its recipients in any order.  The prompt   *)
(* and the "Welcome" reply, which go to one client only, are left out.     *)
(***************************************************************************)
EXTENDS Naturals, Sequences, FiniteSets

CONSTANTS Conns,     \* client connections; each is accepted at most once
          Handles,   \* SOCKET values the system hands out, reused once closed
          Workers, Acceptor, Main,
          Free, NoConn, NoHandle,
          MaxLines   \* bound of the model: lines a client types

Threads == Workers \cup {Acceptor, Main}

ASSUME ChatAssumption ==
    /\ Acceptor \notin Workers /\ Main \notin Workers /\ Acceptor # Main
    /\ Free \notin Threads
    /\ NoConn \notin Conns
    /\ NoHandle \notin Handles
    /\ IsFiniteSet(Workers)
    /\ MaxLines \in Nat

VARIABLES at,            \* where each thread is
          isRunning,     \* the std::atomic<bool>
          clientsMutex,  \* owner, or Free
          clients,       \* the connections in the std::vector<ClientInfo>
          inChat,        \* those whose state is IN_CHAT
          todo,          \* recipients each thread's broadcast has not reached
          event,         \* the message each thread broadcasts
          port,          \* packets queued at the completion port
          io,            \* the one receive of each context
          job,           \* the packet or context each thread works on
          lines,         \* lines received on each connection
          handle,        \* the SOCKET of each connection
          open,          \* the SOCKETs in use
          told,          \* history: lines of each connection that were handled
          inbox          \* history: the broadcasts sent to each connection

room  == <<clients, inChat>>
cast  == <<todo, event, told, inbox>>
net   == <<handle, open>>
vars  == <<at, isRunning, clientsMutex, room, cast, port, io, job, lines, net>>

\* Lines first..last of a connection; last = 0 is the end of the connection.
Packet(c, n) == [conn |-> c, first |-> lines[c] + 1, last |-> n]
NullPacket == [conn |-> NoConn, first |-> 0, last |-> 0]

NoEvent == [kind |-> "none", who |-> NoConn, first |-> 0, last |-> 0]

Init == /\ at = [t \in Threads |-> IF t = Main THEN "enter" ELSE "loop"]
        /\ isRunning = TRUE                \* startServer has succeeded
        /\ clientsMutex = Free
        /\ clients = {} /\ inChat = {}
        /\ todo = [t \in Threads |-> {}] /\ event = [t \in Threads |-> NoEvent]
        /\ told = [c \in Conns |-> 0]
        /\ inbox = [c \in Conns |-> << >>]
        /\ port = << >>
        /\ io = [c \in Conns |-> "none"]
        /\ job = [t \in Threads |-> NullPacket]
        /\ lines = [c \in Conns |-> 0]
        /\ handle = [c \in Conns |-> NoHandle] /\ open = {}

Alive == at[Main] # "exit"
At(t, place) == Alive /\ at[t] = place
Goto(t, from, to) == At(t, from) /\ at' = [at EXCEPT ![t] = to]
\* Mutant: the mutex excludes nobody.
LockAnyway(t) == clientsMutex' = t
Lock(t) == clientsMutex = Free /\ clientsMutex' = t
Unlock(t) == clientsMutex = t /\ clientsMutex' = Free
Of(t) == job[t].conn
-----------------------------------------------------------------------------
(* The completion port *)

\* An armed receive completes: lines have arrived, several at once if the
\* client typed faster than the server read, or (n = 0) the connection is gone.
Complete(c, n) ==
    /\ Alive
    /\ io[c] = "armed" /\ io' = [io EXCEPT ![c] = "queued"]
    /\ n = 0 \/ n > lines[c]
    /\ port' = Append(port, Packet(c, n))
    /\ lines' = [lines EXCEPT ![c] = IF n = 0 THEN @ ELSE n]
    /\ UNCHANGED <<at, isRunning, clientsMutex, room, cast, job, net>>

WorkerTest(w) ==
    /\ Goto(w, "loop", IF isRunning THEN "get" ELSE "exit")
    /\ UNCHANGED <<isRunning, clientsMutex, room, cast, port, io, job, lines, net>>

\* Mutant: the next receive is armed before this one is handled.
ArmEarly(w) ==
    /\ Goto(w, "get", "check")
    /\ port # << >> /\ port' = Tail(port)
    /\ job' = [job EXCEPT ![w] = Head(port)]
    /\ io' = [c \in Conns |-> IF c = Head(port).conn THEN "armed" ELSE io[c]]
    /\ UNCHANGED <<isRunning, clientsMutex, room, cast, lines, net>>

Dequeue(w) ==
    /\ Goto(w, "get", "check")
    /\ port # << >> /\ port' = Tail(port)
    /\ job' = [job EXCEPT ![w] = Head(port)]
    /\ io' = [c \in Conns |-> IF c = Head(port).conn THEN "idle" ELSE io[c]]
    /\ UNCHANGED <<isRunning, clientsMutex, room, cast, lines, net>>

\* Mutant: isRunning is not tested again after the wait.
DispatchAnyway(w) ==
    /\ Goto(w, "check", IF job[w].last = 0 THEN "remove" ELSE "handle")
    /\ UNCHANGED <<isRunning, clientsMutex, room, cast, port, io, job, lines, net>>

\* Mutant: break instead of continue after a failed receive.
QuitOnFailure(w) ==
    /\ Goto(w, "check", IF isRunning /\ job[w].last # 0 THEN "handle" ELSE "exit")
    /\ UNCHANGED <<isRunning, clientsMutex, room, cast, port, io, job, lines, net>>

\* if (!isRunning) break; if (!overlapped) continue; failed or empty: remove.
Dispatch(w) ==
    /\ Goto(w, "check", IF ~isRunning THEN "exit"
                        ELSE IF Of(w) = NoConn THEN "loop"
                        ELSE IF job[w].last = 0 THEN "remove" ELSE "handle")
    /\ UNCHANGED <<isRunning, clientsMutex, room, cast, port, io, job, lines, net>>
-----------------------------------------------------------------------------
(* handleIOCompletion, with clientsMutex held to the end.  Its branch for a *)
(* context that is not in the list is dead: NoUseAfterFree.                *)

Publish(w, kind, to) ==
    /\ Goto(w, "handle", "send")
    /\ Lock(w)
    /\ Of(w) \in clients
    /\ event' = [event EXCEPT ![w] = [kind |-> kind, who |-> Of(w),
                                      first |-> job[w].first, last |-> job[w].last]]
    /\ told' = [told EXCEPT ![Of(w)] = job[w].last]
    /\ todo' = [todo EXCEPT ![w] = to]
    /\ UNCHANGED <<isRunning, clients, inbox, port, io, job, lines, net>>

\* Mutant: the newcomer is announced before it is IN_CHAT.
AnnounceFirst(w) ==
    /\ Of(w) \notin inChat
    /\ inChat' = inChat \cup {Of(w)}
    /\ Publish(w, "joined", inChat)

HandleNickname(w) ==
    /\ Of(w) \notin inChat
    /\ inChat' = inChat \cup {Of(w)}
    /\ Publish(w, "joined", inChat')

HandleChat(w) ==
    /\ Of(w) \in inChat
    /\ UNCHANGED inChat
    /\ Publish(w, "said", {c \in inChat : handle[c] # handle[Of(w)]})

\* One send of broadcastMessage, under handleIOCompletion or removeClient.
Send(t, c) ==
    /\ At(t, "send") \/ At(t, "sendLeft")
    /\ c \in todo[t] /\ todo' = [todo EXCEPT ![t] = @ \ {c}]
    /\ inbox' = [inbox EXCEPT ![c] = Append(@, event[t])]
    /\ UNCHANGED <<at, isRunning, clientsMutex, room, event, told,
                   port, io, job, lines, net>>

\* Mutant: a client is read from once.
ForgetToRearm(w) ==
    /\ Goto(w, "send", "loop")
    /\ todo[w] = {}
    /\ event' = [event EXCEPT ![w] = NoEvent]
    /\ Unlock(w)
    /\ UNCHANGED <<isRunning, room, todo, told, inbox, port, io, job, lines, net>>

\* startAsyncReceive succeeds and the lock is released.
Rearm(w) ==
    /\ Goto(w, "send", "loop")
    /\ todo[w] = {}
    /\ io' = [io EXCEPT ![Of(w)] = "armed"]
    /\ event' = [event EXCEPT ![w] = NoEvent]
    /\ Unlock(w)
    /\ UNCHANGED <<isRunning, room, todo, told, inbox, port, job, lines, net>>

\* WSARecv fails: removeClient locks clientsMutex, which this thread holds.
RearmFails(w) ==
    /\ Goto(w, "send", "remove")
    /\ todo[w] = {}
    /\ UNCHANGED <<isRunning, clientsMutex, room, cast, port, io, job, lines, net>>
-----------------------------------------------------------------------------
(* removeClient, of a worker or the acceptor; the client is found by its   *)
(* SOCKET and is event[t].who from then on                                 *)

RemoveFound(t, c) ==
    /\ Goto(t, "remove", "sendLeft")
    /\ Lock(t)
    /\ c \in clients /\ handle[c] = handle[Of(t)]
    /\ event' = [event EXCEPT ![t] = [kind |-> "left", who |-> c,
                                      first |-> 0, last |-> told[c]]]
    /\ todo' = [todo EXCEPT ![t] = IF c \in inChat THEN inChat ELSE {}]
    /\ UNCHANGED <<isRunning, room, told, inbox, port, io, job, lines, net>>

RemoveMissing(t) ==
    /\ Goto(t, "remove", "loop")
    /\ clientsMutex = Free
    /\ \A c \in clients : handle[c] # handle[Of(t)]
    /\ UNCHANGED <<isRunning, clientsMutex, room, cast, port, io, job, lines, net>>

\* Mutant: the lock covers the broadcast only.
CloseUnlocked(t) ==
    /\ Goto(t, "sendLeft", "erase")
    /\ todo[t] = {}
    /\ open' = open \ {handle[event[t].who]}
    /\ Unlock(t)
    /\ UNCHANGED <<isRunning, room, cast, port, io, job, lines, handle>>

CloseSocket(t) ==
    /\ Goto(t, "sendLeft", "erase")
    /\ todo[t] = {}
    /\ open' = open \ {handle[event[t].who]}
    /\ UNCHANGED <<isRunning, clientsMutex, room, cast, port, io, job, lines, handle>>

\* delete context, erase, and the lock ends.
Erase(t) ==
    /\ Goto(t, "erase", "loop")
    /\ clients' = clients \ {event[t].who}
    /\ inChat' = inChat \ {event[t].who}
    /\ event' = [event EXCEPT ![t] = NoEvent]
    /\ clientsMutex' = Free
    /\ UNCHANGED <<isRunning, todo, told, inbox, port, io, job, lines, net>>
-----------------------------------------------------------------------------
(* acceptConnections, the detached acceptor *)

AcceptTest ==
    /\ Goto(Acceptor, "loop", IF isRunning THEN "accept" ELSE "exit")
    /\ UNCHANGED <<isRunning, clientsMutex, room, cast, port, io, job, lines, net>>

\* INVALID_SOCKET, or the new socket is not associated and closed again.
AcceptFails ==
    /\ Goto(Acceptor, "accept", "loop")
    /\ UNCHANGED <<isRunning, clientsMutex, room, cast, port, io, job, lines, net>>

\* WSAAccept, new ClientContext, association with the port.
Accept(c, h) ==
    /\ Goto(Acceptor, "accept", "add")
    /\ at[Main] # "returned"
    /\ handle[c] = NoHandle /\ h \notin open
    /\ handle' = [handle EXCEPT ![c] = h]
    /\ open' = open \cup {h}
    /\ job' = [job EXCEPT ![Acceptor] = Packet(c, 0)]
    /\ UNCHANGED <<isRunning, clientsMutex, room, cast, port, io, lines>>

AddClient ==
    /\ Goto(Acceptor, "add", "arm")
    /\ clientsMutex = Free
    /\ clients' = clients \cup {Of(Acceptor)}
    /\ UNCHANGED <<isRunning, clientsMutex, inChat, cast, port, io, job, lines, net>>

\* The first receive is armed without the lock.
FirstReceive ==
    /\ Goto(Acceptor, "arm", "loop")
    /\ handle[Of(Acceptor)] \in open
    /\ io' = [io EXCEPT ![Of(Acceptor)] = "armed"]
    /\ UNCHANGED <<isRunning, clientsMutex, room, cast, port, job, lines, net>>

\* WSARecv fails, as it must on a socket stopServer has closed.
FirstReceiveFails ==
    /\ Goto(Acceptor, "arm", "remove")
    /\ UNCHANGED <<isRunning, clientsMutex, room, cast, port, io, job, lines, net>>
-----------------------------------------------------------------------------
(* main: Enter and stopServer *)

PressEnter ==
    /\ Goto(Main, "enter", "post")
    /\ isRunning' = FALSE
    /\ UNCHANGED <<clientsMutex, room, cast, port, io, job, lines, net>>

\* Mutant: one packet for the whole pool.
PostOne ==
    /\ Goto(Main, "post", "join")
    /\ port' = Append(port, NullPacket)
    /\ UNCHANGED <<isRunning, clientsMutex, room, cast, io, job, lines, net>>

\* One null packet per worker.
PostNulls ==
    /\ Goto(Main, "post", "join")
    /\ port' = port \o [i \in 1..Cardinality(Workers) |-> NullPacket]
    /\ UNCHANGED <<isRunning, clientsMutex, room, cast, io, job, lines, net>>

JoinWorkers ==
    /\ Goto(Main, "join", "clear")
    /\ \A w \in Workers : at[w] = "exit"
    /\ UNCHANGED <<isRunning, clientsMutex, room, cast, port, io, job, lines, net>>

\* Every client's socket is closed and its context deleted, under the lock.
ClearClients ==
    /\ Goto(Main, "clear", "close")
    /\ clientsMutex = Free
    /\ open' = open \ {handle[c] : c \in clients}
    /\ clients' = {} /\ inChat' = {}
    /\ UNCHANGED <<isRunning, clientsMutex, cast, port, io, job, lines, handle>>

\* The listening socket and the port are closed; WSACleanup ends the others.
CloseServer ==
    /\ Goto(Main, "close", "returned")
    /\ open' = {}
    /\ UNCHANGED <<isRunning, clientsMutex, room, cast, port, io, job, lines, handle>>

\* main returns, whatever the detached acceptor is doing.
Exit ==
    /\ Goto(Main, "returned", "exit")
    /\ UNCHANGED <<isRunning, clientsMutex, room, cast, port, io, job, lines, net>>
-----------------------------------------------------------------------------
RemoveStep(t) == \/ \E c \in Conns : RemoveFound(t, c) \/ Send(t, c)
                 \/ RemoveMissing(t) \/ CloseSocket(t) \/ Erase(t)
WorkerStep(w) == \/ WorkerTest(w) \/ Dequeue(w) \/ Dispatch(w)
                 \/ HandleNickname(w) \/ HandleChat(w) \/ Rearm(w) \/ RearmFails(w)
                 \/ RemoveStep(w)
AcceptorStep == \/ AcceptTest \/ AddClient \/ FirstReceive \/ FirstReceiveFails
                \/ RemoveStep(Acceptor)
MainStep == PostNulls \/ JoinWorkers \/ ClearClients \/ CloseServer \/ Exit

\* This thread waits for the mutex it holds.
SelfLocked(t) == at[t] = "remove" /\ clientsMutex = t
Stuck == \E t \in Threads : SelfLocked(t)

\* The process has ended, or a thread has locked itself and the others out.
Halted == (~Alive \/ Stuck) /\ UNCHANGED vars

Next == \/ \E c \in Conns, n \in 0..MaxLines : Complete(c, n)
        \/ \E w \in Workers : WorkerStep(w)
        \/ AcceptorStep \/ AcceptFails
        \/ \E c \in Conns, h \in Handles : Accept(c, h)
        \/ PressEnter \/ MainStep
        \/ Halted

Spec == Init /\ [][Next]_vars

\* Every thread runs on, and gets a mutex and a packet it keeps finding.
\* Clients need not connect, type or leave; the user need not press Enter.
Fairness == /\ \A w \in Workers : SF_vars(WorkerStep(w))
            /\ SF_vars(AcceptorStep)
            /\ WF_vars(MainStep)

FairSpec == Spec /\ Fairness
-----------------------------------------------------------------------------
Places == {"loop", "get", "check", "handle", "send", "remove", "sendLeft", "erase",
           "accept", "add", "arm", "enter", "post", "join", "clear", "close",
           "returned", "exit"}
Packets == [conn : Conns \cup {NoConn}, first : 0..MaxLines + 1, last : 0..MaxLines]
Leaving == {t \in Threads : at[t] \in {"sendLeft", "erase"}}

\* A broadcast counts as sent to everybody once it has started.
Room == INSTANCE ChatRoom WITH
            members <- inChat \ {event[t].who : t \in Leaving},
            upTo <- told,
            inbox <- [c \in Conns |->
                        IF \E t \in Threads : c \in todo[t]
                        THEN Append(inbox[c], event[CHOOSE t \in Threads : c \in todo[t]])
                        ELSE inbox[c]]

HasClient(t) == at[t] \in {"handle", "send", "remove", "sendLeft", "erase",
                           "add", "arm"}
Cleared == at[Main] \in {"close", "returned", "exit"}

\* Every variable stays within its type, and only a packet that carries a
\* context is worked on (chat_server.cpp:161-164).
TypeOK ==
    /\ at \in [Threads -> Places]
    /\ isRunning \in BOOLEAN
    /\ clientsMutex \in Threads \cup {Free}
    /\ clients \in SUBSET Conns /\ inChat \in SUBSET clients
    /\ todo \in [Threads -> SUBSET Conns]
    /\ event \in [Threads -> Room!Event \cup {NoEvent}]
    /\ told \in [Conns -> 0..MaxLines]
    /\ inbox \in [Conns -> Seq(Room!Event)]
    /\ port \in Seq(Packets)
    /\ io \in [Conns -> {"none", "armed", "queued", "idle"}]
    /\ job \in [Threads -> Packets]
    /\ lines \in [Conns -> 0..MaxLines]
    /\ handle \in [Conns -> Handles \cup {NoHandle}]
    /\ open \in SUBSET Handles
    /\ \A t \in Threads : HasClient(t) => Of(t) \in Conns

Hands(c) == {t \in Threads : Of(t) = c /\ (HasClient(t) \/ at[t] = "check")}
Queued(c) == {i \in DOMAIN port : port[i].conn = c}

\* A context is in use by nobody, the kernel included, once removeClient has
\* deleted it: so the branch for an unknown context (183-187), which would
\* touch freed memory, is never taken.
NoUseAfterFree ==
    ~Cleared =>
        /\ \A c \in Conns : io[c] \in {"armed", "queued"} => c \in clients
        /\ \A c \in Conns : Hands(c) \cap Workers # {} => c \in clients

\* While the server runs, a client in the list has exactly one receive that is
\* armed, queued or in one thread's hands: none is served by two workers and
\* none is forgotten (chat_server.cpp:129, 198).
OneReceive ==
    isRunning => \A c \in clients :
        Cardinality(Hands(c)) + Cardinality(Queued(c))
            + (IF io[c] = "armed" THEN 1 ELSE 0) = 1

\* removeClient looks for a SOCKET and the system reuses SOCKETs, yet it only
\* ever removes the client it was called for (chat_server.cpp:234-246).
RemovesItsOwn ==
    \A t \in Leaving : event[t].who = Of(t)

\* stopServer has a packet for every worker that still waits for one, however
\* many real packets were queued before (chat_server.cpp:261-263).
WakesEveryWorker ==
    at[Main] = "join" => Cardinality({w \in Workers : at[w] = "get"}) <= Len(port)

\* Two clients see the messages they are both sent in the same order, and none
\* twice: messages of several workers do not overtake each other
\* (chat_server.cpp:179, 219).
SameOrder ==
    \A c, d \in Conns :
        \A i, j \in DOMAIN inbox[c], k, l \in DOMAIN inbox[d] :
            inbox[c][i] = inbox[d][k] /\ inbox[c][j] = inbox[d][l] => (i < j <=> k < l)

\* Lock, broadcast and re-arming make the workers one atomic chat room.
RoomSpec == Room!Spec

\* A client whose data has arrived is read from again or removed, unless the
\* server stops or a worker has locked itself out.
ReadAgain ==
    \A c \in Conns : io[c] = "queued" ~> (\/ io[c] = "armed" \/ c \notin clients
                                          \/ ~isRunning \/ Stuck)

\* Only a worker that locks itself out keeps stopServer from returning.
HangsOnlyStuck == at[Main] = "post" ~> (at[Main] = "exit" \/ Stuck)
=============================================================================
