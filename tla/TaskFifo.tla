------------------------------ MODULE TaskFifo ------------------------------
(***************************************************************************)
(* What acos3/thread_server.h promises of ThreadSafeQueue, without locks,  *)
(* condition variables or threads: tasks come out once each and in the     *)
(* order they went in, and "no task" (the ClientTask built from            *)
(* INVALID_SOCKET and "") is handed out only when the queue was stopped    *)
(* and nothing is left in it.                                              *)
(***************************************************************************)
EXTENDS Sequences

CONSTANTS Tasks,      \* the values a producer may push
          Consumers,  \* the threads that call pop
          NoTask      \* what pop returns once the queue is stopped and drained

VARIABLES fifo,       \* tasks pushed and not yet popped, oldest first
          closed,     \* stop was called
          taken       \* what the last pop of each consumer returned

vars == <<fifo, closed, taken>>

Init == /\ fifo = << >>
        /\ closed = FALSE
        /\ taken = [c \in Consumers |-> NoTask]

Put(t) == /\ fifo' = Append(fifo, t)
          /\ UNCHANGED <<closed, taken>>

Take(c) == /\ fifo # << >>
           /\ taken' = [taken EXCEPT ![c] = Head(fifo)]
           /\ fifo' = Tail(fifo)
           /\ UNCHANGED closed

GiveUp(c) == /\ closed
             /\ fifo = << >>
             /\ taken' = [taken EXCEPT ![c] = NoTask]
             /\ UNCHANGED <<fifo, closed>>

Close == /\ closed' = TRUE
         /\ UNCHANGED <<fifo, taken>>

Next == \/ \E t \in Tasks : Put(t)
        \/ \E c \in Consumers : Take(c) \/ GiveUp(c)
        \/ Close

Spec == Init /\ [][Next]_vars
=============================================================================
