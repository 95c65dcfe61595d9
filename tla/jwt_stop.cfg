SPECIFICATION Spec
SYMMETRY JwtSymmetry
CONSTANTS
  Servers = {s1, s2}
  Keys = {k1}
  NoKey = none
  TokenLives = {1}
  KeyLives <- Never
  DefaultKeyLife = 1
  OthersSetKm = {}
  MaxTime = 0
INVARIANTS
  StartedServerHasKm
