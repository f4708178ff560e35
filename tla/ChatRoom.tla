------------------------------ MODULE ChatRoom ------------------------------
(***************************************************************************)
(* What the chat server of tests/chat promises its users: a message enters *)
(* the chat at one instant, for everybody who is in it at that instant,    *)
(* and no line of a member is skipped, repeated or overtaken.              *)
(***************************************************************************)
EXTENDS Naturals, Sequences

CONSTANTS Conns,    \* client connections
          MaxLines  \* bound of the model: lines a client types

VARIABLES members,  \* connections that have given a nickname
          upTo,     \* how many lines of each connection have been published
          inbox     \* what each connection has been sent

vars == <<members, upTo, inbox>>

\* Lines first..last of what `who' typed; the first lines are the nickname.
Event == [kind : {"joined", "said", "left"}, who : Conns,
          first : 0..MaxLines + 1, last : 0..MaxLines]

Init == /\ members = {}
        /\ upTo = [c \in Conns |-> 0]
        /\ inbox = [c \in Conns |-> << >>]

Publish(e, to) ==
    /\ upTo' = [upTo EXCEPT ![e.who] = e.last]
    /\ inbox' = [c \in Conns |-> IF c \in to THEN Append(inbox[c], e) ELSE inbox[c]]

Lines(c, j) == j \in upTo[c] + 1 .. MaxLines

\* The newcomer is told about itself.
Join(c, j) ==
    /\ c \notin members /\ Lines(c, j)
    /\ members' = members \cup {c}
    /\ Publish([kind |-> "joined", who |-> c, first |-> 1, last |-> j], members')

\* Everybody but the author.
Say(c, j) ==
    /\ c \in members /\ Lines(c, j)
    /\ UNCHANGED members
    /\ Publish([kind |-> "said", who |-> c, first |-> upTo[c] + 1, last |-> j],
               members \ {c})

\* The leaver is sent the news too, on a connection that may be gone.
Leave(c) ==
    /\ c \in members
    /\ members' = members \ {c}
    /\ Publish([kind |-> "left", who |-> c, first |-> 0, last |-> upTo[c]], members)

Shutdown == members' = {} /\ UNCHANGED <<upTo, inbox>>

Next == \/ \E c \in Conns, j \in 1..MaxLines : Join(c, j) \/ Say(c, j)
        \/ \E c \in Conns : Leave(c)
        \/ Shutdown

Spec == Init /\ [][Next]_vars
=============================================================================
