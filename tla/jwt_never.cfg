SPECIFICATION Spec
SYMMETRY JwtSymmetry
CONSTANTS
  Servers = {s1}
  Keys = {k1}
  NoKey = none
  TokenLives = {1}
  KeyLives <- Never
  DefaultKeyLife = 1
  OthersSetKm = {}
  MaxTime = 2
INVARIANTS
  UnlimitedKeyStays
