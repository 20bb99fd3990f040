SPECIFICATION ObjectsSpec
CONSTANTS
  None = None
  Clients = {c1, c2}
  TTL = 1
  WaitTimeouts = {1}
  InitialBackoff = 1
  MaxBackoff = 1
  Second = 1
  MaxAttempts = 2
  MaxFaults = 2
  Types = {"json", "text"}
  DefaultType = "text"
  MaxObjectFaults = 2
INVARIANT ObjectsTypeOK
INVARIANT NoLostUpdate
PROPERTY TypeKept
SYMMETRY Symmetry
