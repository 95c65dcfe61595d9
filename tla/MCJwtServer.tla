----------------------------- MODULE MCJwtServer -----------------------------
(* Small instances of JwtServer for TLC.                                   *)
EXTENDS JwtServer, TLC

\* Configuration files have no negative numbers.
Never == {-1}

JwtSymmetry == Permutations(Servers) \cup Permutations(Keys)
=============================================================================
