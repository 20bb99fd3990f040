SPECIFICATION FetchSpec
CONSTANTS
  N = 4
  CdnOptions <- MCCdnOptions
  Concurrency <- MCConcurrency
INVARIANT PromisedErrorsRetried
CHECK_DEADLOCK FALSE
