-------------------------- MODULE CoolServerProofs --------------------------
(* Why Ctrl+C, whenever it comes, takes cool_server down in order, and why  *)
(* the server accepts no client.                                           *)
EXTENDS CoolServer, TLAPS

\* Where main is once Winsock is up; the last place is where start has returned.
InStart == {"socket", "bind", "listen", "setup", "workers", "flag"}

\* Stop gets past its test only when main has left start, so nothing is stopped
\* that main has still to start; what runs is undone in the order of stop.
OrderInv ==
    /\ winsock \in 0..1
    /\ main \in InStart => winsock = 1 /\ listenSocket # "closed"
    /\ main \in {"construct", "startup"} => winsock = 0 /\ listenSocket # "closed"
    /\ main \notin {"flag", "sleep"} => ~coreRunning
    /\ main = "flag" /\ ctrlC # "ended" => coreRunning
    /\ isRunning => main = "sleep" /\ coreRunning /\ ctrlC \notin {"core", "close", "cleanup"}
    /\ coreRunning => winsock = 1 /\ listenSocket # "closed"
    /\ ctrlC \in {"core", "close", "cleanup"} => main = "sleep" /\ winsock = 1
    /\ ctrlC \in {"close", "cleanup"} => ~coreRunning

\* Nothing runs before main constructs the server.
LEMMA OrderInit == Init => OrderInv
BY DEF Init, OrderInv, InStart

\* Every step of main, of the Ctrl+C thread and of a client keeps the order.
LEMMA OrderStep == OrderInv /\ [Next]_vars => OrderInv'
<1> SUFFICES ASSUME OrderInv, [Next]_vars PROVE OrderInv'
  OBVIOUS
<1> USE DEF OrderInv, InStart, server, net, threads, Main, CtrlC, Ended
<1>1. CASE MainStep
  <2>1. CASE Construct
    BY <2>1 DEF Construct
  <2>2. CASE Startup
    BY <2>2 DEF Startup
  <2>3. CASE CreateSocket
    BY <2>3 DEF CreateSocket
  <2>4. CASE Bind
    BY <2>4 DEF Bind
  <2>5. CASE Listen
    BY <2>5 DEF Listen
  <2>6. CASE SetupCore
    BY <2>6 DEF SetupCore
  <2>7. CASE RunWorkers
    BY <2>7 DEF RunWorkers
  <2>8. CASE Started
    BY <2>8 DEF Started
  <2> QED
    BY <1>1, <2>1, <2>2, <2>3, <2>4, <2>5, <2>6, <2>7, <2>8 DEF MainStep
<1>2. CASE PressCtrlC
  BY <1>2 DEF PressCtrlC
<1>3. CASE CtrlCStep
  <2>1. CASE TestRunning
    BY <2>1 DEF TestRunning
  <2>2. CASE StopCore
    BY <2>2 DEF StopCore
  <2>3. CASE CloseListener
    BY <2>3 DEF CloseListener
  <2>4. CASE Cleanup
    BY <2>4 DEF Cleanup
  <2>5. CASE Exit
    BY <2>5 DEF Exit
  <2> QED
    BY <1>3, <2>1, <2>2, <2>3, <2>4, <2>5 DEF CtrlCStep
<1>4. CASE \E c \in Clients : Serve(c)
  BY <1>4 DEF Serve, Connect, ConnectionCallback
<1>5. CASE UNCHANGED vars
  BY <1>5 DEF vars
<1> QED
  BY <1>1, <1>2, <1>3, <1>4, <1>5 DEF Next, Stay

\* The workers are gone before the listening socket and Winsock are, and
\* WSACleanup never outnumbers WSAStartup, wherever Ctrl+C finds main.
THEOREM CtrlCStopsInOrder == Spec => []TornDownInOrder
<1>1. OrderInv => TornDownInOrder
  BY DEF OrderInv, TornDownInOrder
<1> QED
  BY <1>1, OrderInit, OrderStep, PTL DEF Spec

\* No accept waits, and none ever has: the first would have to be posted by the
\* callback of another.
NoAccept == /\ accepts = 0 /\ socketsMade = 0
            /\ \A c \in Clients : client[c] \in {"away", "queued"}

\* However many clients come, none is accepted: the connection callback never runs,
\* and who reaches the backlog stays there (server.cpp:29-44).
THEOREM NobodyIsServed == Spec => []NoAccept
<1>1. Init => NoAccept
  BY DEF Init, NoAccept
<1>2. NoAccept /\ [Next]_vars => NoAccept'
  <2> SUFFICES ASSUME NoAccept, [Next]_vars PROVE NoAccept'
    OBVIOUS
  <2> USE DEF NoAccept, server, net, threads
  <2>1. CASE MainStep
    BY <2>1 DEF MainStep, Construct, Startup, CreateSocket, Bind, Listen, SetupCore, RunWorkers,
                Started
  <2>2. CASE PressCtrlC \/ CtrlCStep
    BY <2>2 DEF PressCtrlC, CtrlCStep, TestRunning, StopCore, CloseListener, Cleanup, Exit
  <2>3. ASSUME NEW c \in Clients, Connect(c) PROVE NoAccept'
    <3>1. client' = [client EXCEPT ![c] = "queued"] /\ UNCHANGED <<accepts, socketsMade>>
      BY <2>3 DEF Connect
    <3> QED
      BY <3>1
  <2>4. ASSUME NEW c \in Clients, ConnectionCallback(c) PROVE FALSE
    BY <2>4 DEF ConnectionCallback
  <2>5. CASE UNCHANGED vars
    BY <2>5 DEF vars
  <2> QED
    BY <2>1, <2>2, <2>3, <2>4, <2>5 DEF Next, Serve, Stay
<1> QED
  BY <1>1, <1>2, PTL DEF Spec
=============================================================================
