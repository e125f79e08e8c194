SPECIFICATION Spec
CONSTANTS
  Calls = {k1, k2}
  Points = {45, 65}
  Seen <- MediumOrStrong
  Sent <- OnlyStrong
  MaxMoves = 1
  MaxImports = 1
  MaxFaults = 1
SYMMETRY CallSymmetry
INVARIANTS
  TypeOK
  OneLift
  ScoreFollowsSignals
