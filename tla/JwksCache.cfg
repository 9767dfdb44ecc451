SPECIFICATION JwksSpec
CONSTANTS
  Verifier = {t1, t2}
  Key = {k1}
  TTL = 2
  MaxCall = 1
  MaxTime = 6
  NoKey = NoKey
SYMMETRY MCSymmetry
PROPERTIES
  TrustIsBounded
  AloneIsRight
