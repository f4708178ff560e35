----------------------------- MODULE WsChannel -----------------------------
(***************************************************************************)
(* What a WebSocketConnection promises its owner: the frames that arrive   *)
(* are handled one after the other, each once and in order; a close is     *)
(* told once, after which nothing arrives, and what was left is dropped.   *)
(***************************************************************************)
EXTENDS Naturals, Sequences

CONSTANT Kinds  \* kinds of frames

VARIABLES arrived,  \* frames received and not handled
          said,     \* frames handed to on_message_, by number
          closing,  \* close has begun
          told      \* calls of on_close_

vars == <<arrived, said, closing, told>>

Init == arrived = << >> /\ said = << >> /\ closing = FALSE /\ told = 0

Last == IF said = << >> THEN 0 ELSE said[Len(said)]

\* Frames are numbered, and arrive in the order of their numbers.
Arrive ==
    /\ told = 0 /\ arrived = << >>
    /\ arrived' \in Seq([kind : Kinds, id : Nat])
    /\ \A i \in DOMAIN arrived' : arrived'[i].id > (IF i = 1 THEN Last ELSE arrived'[i - 1].id)
    /\ UNCHANGED <<said, closing, told>>

Handle ==
    /\ arrived # << >> /\ arrived' = Tail(arrived)
    /\ said' = IF Head(arrived).kind = "Text" THEN Append(said, Head(arrived).id) ELSE said
    /\ UNCHANGED <<closing, told>>

\* After an error in the stream, or once the connection closes.
Drop ==
    /\ closing \/ (arrived # << >> /\ Head(arrived).kind = "Bad")
    /\ arrived' = << >>
    /\ UNCHANGED <<said, closing, told>>

BeginClose ==
    /\ ~closing /\ closing' = TRUE
    /\ UNCHANGED <<arrived, said, told>>

Tell ==
    /\ closing /\ told = 0 /\ told' = 1
    /\ UNCHANGED <<arrived, said, closing>>

Next == Arrive \/ Handle \/ Drop \/ BeginClose \/ Tell

Spec == Init /\ [][Next]_vars
=============================================================================
