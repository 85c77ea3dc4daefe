----------------------------- MODULE MCSession -----------------------------
(* Small instances of Session. *)
EXTENDS Session, TLC

\* The records are interchangeable; used by the runs without liveness.
KeySymmetry == Permutations(Keys)
=============================================================================
