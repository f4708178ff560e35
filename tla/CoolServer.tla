----------------------------- MODULE CoolServer -----------------------------
(***************************************************************************)
(* The life of cool_server's Server: main constructs and starts it, a      *)
(* thread of its own runs signalHandler on Ctrl+C, clients connect.  What  *)
(* the workers of IOCPCore do is in IocpCore and, once a connection        *)
(* exists, in WsConnection; here the core runs or it has stopped.          *)
(***************************************************************************)
EXTENDS Naturals

CONSTANTS Clients,
          AddrSize  \* sizeof(sockaddr_in) + 16

VARIABLES main,          \* where main is
          ctrlC,         \* where the thread of signalHandler is
          exists,        \* server points to a Server that is not destroyed
          isRunning,     \* Server::is_running_
          coreRunning,   \* IOCPCore::is_running_, and its workers
          winsock,       \* WSAStartup calls that no WSACleanup has undone
          listenSocket,  \* "none", "invalid", "open", "bound", "listening", "closed"
          accepts,       \* AcceptEx calls that wait for a client
          socketsMade,   \* sockets the connection callback has created
          client         \* "away", "queued" in the backlog, "served"

threads == <<main, ctrlC>>
server == <<exists, isRunning, coreRunning>>
net == <<winsock, listenSocket, accepts, socketsMade, client>>
vars == <<threads, server, net>>

Init == /\ main = "construct" /\ ctrlC = "none"
        /\ exists = FALSE /\ isRunning = FALSE /\ coreRunning = FALSE
        /\ winsock = 0 /\ listenSocket = "none"
        /\ accepts = 0 /\ socketsMade = 0
        /\ client = [c \in Clients |-> "away"]

Ended == main = "ended" \/ ctrlC = "ended"

\* A step of main, and one of the Ctrl+C thread; exit ends both.
Main(from, to) == ~Ended /\ main = from /\ main' = to /\ UNCHANGED ctrlC
CtrlC(from, to) == ~Ended /\ ctrlC = from /\ ctrlC' = to /\ UNCHANGED main
-----------------------------------------------------------------------------
\* make_unique<Server>(8080).
Construct ==
    /\ Main("construct", "startup")
    /\ exists' = TRUE
    /\ UNCHANGED <<isRunning, coreRunning, net>>

\* Server::start, call by call.  A failure of WSAStartup or setup throws.
Startup ==
    /\ \/ Main("startup", "socket") /\ winsock' = winsock + 1
       \/ Main("startup", "ended") /\ UNCHANGED winsock
    /\ UNCHANGED <<server, listenSocket, accepts, socketsMade, client>>

CreateSocket ==
    /\ Main("socket", "bind")
    /\ listenSocket' \in {"open", "invalid"}
    /\ UNCHANGED <<server, winsock, accepts, socketsMade, client>>

\* setReuseAddr and bindSocket: whatever they return, start goes on.
Bind ==
    /\ Main("bind", "listen")
    /\ listenSocket' \in IF listenSocket = "open" THEN {"open", "bound"} ELSE {listenSocket}
    /\ UNCHANGED <<server, winsock, accepts, socketsMade, client>>

Listen ==
    /\ Main("listen", "setup")
    /\ listenSocket' \in IF listenSocket = "bound" THEN {"bound", "listening"}
                         ELSE {listenSocket}
    /\ UNCHANGED <<server, winsock, accepts, socketsMade, client>>

SetupCore ==
    /\ Main("setup", "workers") \/ Main("setup", "ended")
    /\ UNCHANGED <<server, net>>

\* The callback is set; no accept has been posted that could call it.
RunWorkers ==
    /\ Main("workers", "flag")
    /\ coreRunning' = TRUE
    /\ UNCHANGED <<exists, isRunning, net>>

Started ==
    /\ Main("flag", "sleep")
    /\ isRunning' = TRUE
    /\ UNCHANGED <<exists, coreRunning, net>>
-----------------------------------------------------------------------------
\* SocketUtils::acceptEx with room for this many bytes.
AcceptEx(bytes) == listenSocket = "listening" /\ bytes >= 2 * AddrSize

\* A client reaches the backlog of the listening socket.
Connect(c) ==
    /\ ~Ended /\ listenSocket = "listening"
    /\ client[c] = "away" /\ client' = [client EXCEPT ![c] = "queued"]
    /\ UNCHANGED <<threads, server, winsock, listenSocket, accepts, socketsMade>>

\* A pending AcceptEx completes and a worker runs the connection callback,
\* which makes a socket, calls acceptEx for it and serves it.
ConnectionCallback(c) ==
    /\ ~Ended /\ coreRunning
    /\ accepts > 0
    /\ client[c] = "queued"
    /\ socketsMade' = socketsMade + 1
    /\ accepts' = IF AcceptEx(0) THEN accepts ELSE accepts - 1
    /\ client' = IF AcceptEx(0) THEN [client EXCEPT ![c] = "served"] ELSE client
    /\ UNCHANGED <<threads, server, winsock, listenSocket>>
-----------------------------------------------------------------------------
PressCtrlC ==
    /\ CtrlC("none", "test")
    /\ UNCHANGED <<server, net>>

\* if (server), and in stop if (!is_running_).
TestRunning ==
    /\ CtrlC("test", IF exists /\ isRunning THEN "core" ELSE "exit")
    /\ isRunning' = FALSE
    /\ UNCHANGED <<exists, coreRunning, net>>

\* iocp_.stop joins the workers and closes the port.
StopCore ==
    /\ CtrlC("core", "close")
    /\ coreRunning' = FALSE
    /\ UNCHANGED <<exists, isRunning, net>>

CloseListener ==
    /\ CtrlC("close", "cleanup")
    /\ listenSocket' = IF listenSocket = "invalid" THEN listenSocket ELSE "closed"
    /\ accepts' = 0
    /\ UNCHANGED <<server, winsock, socketsMade, client>>

Cleanup ==
    /\ CtrlC("cleanup", "exit")
    /\ winsock' = winsock - 1
    /\ UNCHANGED <<server, listenSocket, accepts, socketsMade, client>>

\* exit destroys the Server.  If main has set is_running_ meanwhile, ~Server stops
\* it first; ~IOCPCore joins the workers in any case.
Exit ==
    /\ CtrlC("exit", "ended")
    /\ exists' = FALSE /\ isRunning' = FALSE /\ coreRunning' = FALSE
    /\ winsock' = IF isRunning THEN winsock - 1 ELSE winsock
    /\ listenSocket' = IF isRunning /\ listenSocket # "invalid" THEN "closed" ELSE listenSocket
    /\ UNCHANGED <<accepts, socketsMade, client>>
-----------------------------------------------------------------------------
MainStep == \/ Construct \/ Startup \/ CreateSocket \/ Bind \/ Listen
            \/ SetupCore \/ RunWorkers \/ Started
CtrlCStep == TestRunning \/ StopCore \/ CloseListener \/ Cleanup \/ Exit
Serve(c) == Connect(c) \/ ConnectionCallback(c)

Stay == Ended /\ UNCHANGED vars

Next == MainStep \/ PressCtrlC \/ CtrlCStep \/ Stay \/ \E c \in Clients : Serve(c)

Spec == Init /\ [][Next]_vars

\* Threads run on, and a client that can be served is; nobody need press Ctrl+C.
Fairness == /\ WF_vars(MainStep) /\ WF_vars(CtrlCStep)
            /\ \A c \in Clients : WF_vars(ConnectionCallback(c))

FairSpec == Spec /\ Fairness
-----------------------------------------------------------------------------
\* Wherever Ctrl+C finds main, Winsock and the listening socket are not taken
\* from under the workers, and WSACleanup never outnumbers WSAStartup
\* (server.cpp:46-54, run.cpp:7-12).
TornDownInOrder ==
    /\ winsock \in Nat
    /\ winsock = 0 \/ listenSocket = "closed" => ~coreRunning

\* A client that reaches the listening server is served, unless it shuts down
\* (test.js:1-3).
ConnectIsServed ==
    \A c \in Clients : client[c] = "queued" /\ main = "sleep" ~> client[c] = "served" \/ ctrlC # "none"
=============================================================================
