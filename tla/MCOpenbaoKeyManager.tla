------------------------ MODULE MCOpenbaoKeyManager ------------------------
(* Instances of OpenbaoKeyManager for TLC: the threads are interchangeable. *)
EXTENDS OpenbaoKeyManager, TLC

ThreadSymmetry == Permutations(Threads)
=============================================================================
