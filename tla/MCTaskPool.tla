----------------------------- MODULE MCTaskPool -----------------------------
(* TaskPool for TLC. *)
EXTENDS TaskPool, TLC

=============================================================================
