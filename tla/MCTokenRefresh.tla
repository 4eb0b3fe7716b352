--------------------------- MODULE MCTokenRefresh ---------------------------
(* Small instances of TokenRefresh for TLC. *)
EXTENDS TokenRefresh, TLC

ProcSymmetry == Permutations(Procs)
=============================================================================
