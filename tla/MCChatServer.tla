---------------------------- MODULE MCChatServer ----------------------------
(* Instances of ChatServer for TLC. *)
EXTENDS ChatServer, TLC

Symmetry == Permutations(Conns) \cup Permutations(Handles) \cup Permutations(Workers)
=============================================================================
