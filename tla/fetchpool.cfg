SPECIFICATION FetchSpec
CONSTANTS
  N = 4
  CdnOptions <- MCCdnOptions
  Concurrency <- MCConcurrency
INVARIANT FetchTypeOK
INVARIANT Bounded
INVARIANT NilMeansComplete
INVARIANT FailsForAReason
PROPERTY Returns
CHECK_DEADLOCK FALSE
