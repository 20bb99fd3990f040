------------------------------- MODULE SdkRetry -------------------------------
(***************************************************************************)
(* The retry strategies of internal/retry, as the SDK sees them through the *)
(* SDKRetryer of internal/retryer/aws.  A strategy is the record of what    *)
(* its methods answer.  Errors are kept by what IsRetryable finds in their  *)
(* text; time is in units of 500 ms.                                        *)
(***************************************************************************)
EXTENDS Naturals

Errors == {"5xx", "429", "409", "connection refused", "connection reset", "other"}

(* Mutant: throttled calls are not retried. *)
StandardUnthrottled == [maxAttempts |-> 2, baseBackoff |-> 1,
                        retryable |-> {"5xx", "409", "connection refused"}]

(* NewStandard, and what its IsRetryable matches. *)
Standard == [maxAttempts |-> 2, baseBackoff |-> 1,
             retryable |-> {"5xx", "429", "409", "connection refused"}]

NoRetry == [maxAttempts |-> 1, baseBackoff |-> 0, retryable |-> {}]

IsErrorRetryable(strategy, err) == err \in strategy.retryable

(* BackoffFor; the SDK counts attempts from 1. *)
RetryDelay(strategy, attempt) ==
    IF attempt < 1 THEN 0 ELSE 2 ^ (attempt - 1) * strategy.baseBackoff

(* The SDK's loop tries again after this failure. *)
TriesAgain(strategy, attempt, err) ==
    IsErrorRetryable(strategy, err) /\ attempt < strategy.maxAttempts
===============================================================================
