SPECIFICATION Spec
CONSTANTS
  NoKey = NoKey
  Clients = {c1, c2}
  Keys = {k1, k2, k3}
  MaxKeys = 2
  MaxFaults = 1
INVARIANT TypeOK
INVARIANT GroupBounded
INVARIANT DroppedAreDeleted
PROPERTY NoLostKey
PROPERTY NewestKept
PROPERTY VerifyWasTrue
SYMMETRY Symmetry
