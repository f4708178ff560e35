----------------------------- MODULE MCIocpCore -----------------------------
(* Instances of IocpCore for TLC. *)
EXTENDS IocpCore
=============================================================================
