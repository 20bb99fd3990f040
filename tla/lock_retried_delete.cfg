SPECIFICATION Spec
CONSTANTS
  None = None
  Clients = {c1, c2}
  TTL = 1
  WaitTimeouts = {2}
  InitialBackoff = 1
  MaxBackoff = 2
  Second = 1
  MaxAttempts = 2
  MaxFaults = 2
INVARIANT MutualExclusion
