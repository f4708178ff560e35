---------------------------- MODULE MCCoolServer ----------------------------
(* Instance of CoolServer for TLC. *)
EXTENDS CoolServer
=============================================================================
