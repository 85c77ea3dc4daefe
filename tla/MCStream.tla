------------------------------ MODULE MCStream ------------------------------
(* The small instance of Stream. *)
EXTENDS Stream

CONSTANT Other   \* a Closer that comes only where one goroutine calls Next

\* Only calls are restricted, which are under no fairness.
MCNext == Next /\ (used' = Callers => closer'[Other] = "idle")

MCSpec == Init /\ [][MCNext]_vars /\ Fairness
=============================================================================
