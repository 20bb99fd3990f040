SPECIFICATION Spec
CONSTANTS
  NoKey = NoKey
  Clients = {c1, c2}
  Keys = {k1, k2}
  MaxKeys = 1
  MaxFaults = 0
PROPERTY EnsuredKeyInGroup
