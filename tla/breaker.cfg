SPECIFICATION Spec
CONSTANTS
  r1 = r1
  r2 = r2
  r3 = r3
  token = token
  Requests = {r1, r2, r3}
  BreakerOptions <- MCBreakerOptions
  DefaultTimeout = 4
  ClientOptions <- MCClientOptions
  CallerRequests <- MCCallerRequests
  MaxExcused = 2
INVARIANT TypeOK
INVARIANT ProbesAccounted
INVARIANT TripsInTime
INVARIANT HeadersAreOwn
PROPERTY ProbesDecide
PROPERTY Recovers
PROPERTY CallsReturn
