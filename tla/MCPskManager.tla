----------------------------- MODULE MCPskManager -----------------------------
(* Small instances of PskManager for TLC.                                  *)
EXTENDS PskManager, TLC

ThreadSymmetry == Permutations(Threads)
=============================================================================
