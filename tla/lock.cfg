SPECIFICATION FairSpec
CONSTANTS
  None = None
  Clients = {c1, c2}
  TTL = 2
  WaitTimeouts = {1, 3}
  InitialBackoff = 1
  MaxBackoff = 2
  Second = 2
  MaxAttempts = 2
  MaxFaults = 2
INVARIANT TypeOK
INVARIANT ExclusiveUntilRepeated
INVARIANT SleepWithinDeadline
INVARIANT LeaksOnlyByFault
PROPERTY ImplementsContract
PROPERTY CallsReturn
PROPERTY LocksAreReleased
