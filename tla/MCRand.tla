------------------------------- MODULE MCRand -------------------------------
(* A small instance of Rand for TLC.                                       *)
EXTENDS Rand

\* One that is refused, and one that needs every provider.
SomeConfigs ==
  { [Default EXCEPT !.valid = FALSE],
    [valid |-> TRUE, fips |-> TRUE, custom |-> TRUE, checks |-> TRUE] }
=============================================================================
