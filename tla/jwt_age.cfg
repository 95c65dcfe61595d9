SPECIFICATION Spec
SYMMETRY JwtSymmetry
CONSTANTS
  Servers = {s1}
  Keys = {k1, k2}
  NoKey = none
  TokenLives = {1}
  KeyLives = {2}
  DefaultKeyLife = 2
  OthersSetKm = {}
  MaxTime = 3
INVARIANTS
  IssuedTokenIsValid
