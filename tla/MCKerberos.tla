----------------------------- MODULE MCKerberos -----------------------------
(* A small instance of Kerberos for TLC.                                   *)
EXTENDS Kerberos, TLC

\* On either side of the sign bit of a byte, and before it overflows.
SomeVnos == {127, 255}

Symmetry == Permutations(Clients) \cup Permutations(Servers)
=============================================================================
