SPECIFICATION PersistentSpec
CONSTANTS
  None = None
  Clients = {c1, c2}
  TTL = 1
  WaitTimeouts = {2}
  InitialBackoff = 1
  MaxBackoff = 2
  Second = 1
  MaxAttempts = 1
  MaxFaults = 1
PROPERTY ExpiredLocksCleanedUp
