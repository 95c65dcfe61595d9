----------------------------- MODULE MCCryptoTool ------------------------------
(***************************************************************************)
(* CryptoTool for TLC: two terminals, which are interchangeable, and ids   *)
(* that two keys use up.                                                   *)
(***************************************************************************)
EXTENDS CryptoTool, TLC

SomeIds == 0 .. 1
Symmetric == Permutations(Terminals)
=============================================================================
