SPECIFICATION Spec
SYMMETRY JwtSymmetry
CONSTANTS
  Servers = {s1, s2}
  Keys = {k1, k2}
  NoKey = none
  TokenLives = {1}
  KeyLives <- Never
  DefaultKeyLife = 1
  OthersSetKm = {FALSE, TRUE}
  MaxTime = 2
INVARIANTS
  AcceptedKeyIsFresh
PROPERTIES
  PresentKeyIsKept
