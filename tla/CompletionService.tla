------------------------- MODULE CompletionService --------------------------
(***************************************************************************)
(* What IOCPCore promises the code that hands it operations: a completion  *)
(* reaches the callback of its kind at most once, callbacks run one at a   *)
(* time, and none runs once the core has stopped.  A completion may be     *)
(* dropped only while the core stops or when it has no callback; the       *)
(* failure of an accept (CONNECTION) never has one.                        *)
(***************************************************************************)
CONSTANTS Ops,   \* overlapped operations
          None

Kinds == {"CONNECTION", "READ", "WRITE"}

\* Any other key, such as the pointer WebSocketConnection passes, is "other".
Completion == [op : Ops, kind : Kinds \cup {"other"}, ok : BOOLEAN]

VARIABLES callbacks,  \* the kinds that have a callback
          pending,    \* completions nobody has looked at
          running,    \* the completion whose callback runs, or None
          seen,       \* operations that have completed
          stopping, stopped

vars == <<callbacks, pending, running, seen, stopping, stopped>>

Init == /\ callbacks = {} /\ pending = {} /\ running = None /\ seen = {}
        /\ stopping = FALSE /\ stopped = FALSE

HasCallback(p) == p.kind \in callbacks /\ (p.ok \/ p.kind # "CONNECTION")

Set(k) == /\ running = None
          /\ callbacks' = callbacks \cup {k}
          /\ UNCHANGED <<pending, running, seen, stopping, stopped>>

Complete(p) == /\ ~stopped
               /\ p.op \notin seen /\ seen' = seen \cup {p.op}
               /\ pending' = pending \cup {p}
               /\ UNCHANGED <<callbacks, running, stopping, stopped>>

Begin(p) == /\ ~stopped
            /\ p \in pending /\ pending' = pending \ {p}
            /\ running = None /\ running' = p
            /\ HasCallback(p)
            /\ UNCHANGED <<callbacks, seen, stopping, stopped>>

End == /\ running # None /\ running' = None
       /\ UNCHANGED <<callbacks, pending, seen, stopping, stopped>>

Drop(p) == /\ p \in pending /\ pending' = pending \ {p}
           /\ stopping \/ ~HasCallback(p)
           /\ UNCHANGED <<callbacks, running, seen, stopping, stopped>>

Stop == /\ stopping' = TRUE
        /\ UNCHANGED <<callbacks, pending, running, seen, stopped>>

\* What is still pending is lost with the port.
Stopped == /\ stopping /\ running = None
           /\ stopped' = TRUE /\ pending' = {}
           /\ UNCHANGED <<callbacks, running, seen, stopping>>

Next == \/ \E k \in Kinds : Set(k)
        \/ \E p \in Completion : Complete(p) \/ Begin(p) \/ Drop(p)
        \/ End \/ Stop \/ Stopped

Spec == Init /\ [][Next]_vars
=============================================================================
