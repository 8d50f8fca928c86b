--------------------------- MODULE MCDaemonRuntime ---------------------------
(* Small instances of DaemonRuntime for TLC. *)
EXTENDS DaemonRuntime, TLC

CONSTANTS w1, w2, jobA, jobB

Symmetry == Permutations({w1, w2})
=============================================================================
