----------------------------- MODULE MCExchange -----------------------------
(* Exchange has no constants: its state space is finite and TLC covers it. *)
EXTENDS Exchange
=============================================================================
