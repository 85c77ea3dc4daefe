--------------------------- MODULE MCPluginState ---------------------------
(* Small instances of PluginState. *)
EXTENDS PluginState, TLC

\* The processes are interchangeable.
ProcSymmetry == Permutations(Procs)
=============================================================================
