---------------------------- MODULE MCTaskQueue -----------------------------
(* Small instance of TaskQueue: two producers, two consumers, two tasks. *)
EXTENDS TaskQueue
=============================================================================
