--------------------------- MODULE MCThreadServer ---------------------------
(* Small instance of ThreadServer: two clients, two handles.  Neither the   *)
(* specification nor a safety property tells clients or handles apart.      *)
EXTENDS ThreadServer, TLC

Symmetry == Permutations(Conns) \cup Permutations(Handles)
=============================================================================
