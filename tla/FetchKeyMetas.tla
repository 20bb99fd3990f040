----------------------------- MODULE FetchKeyMetas -----------------------------
(***************************************************************************)
(* FetchPool with GetPublicKey as the SDK executes it: attempts that fail,  *)
(* the retryer's decision, the sleep before the next attempt, and the two   *)
(* ways in which the context ends in the middle of either: another key's    *)
(* error reaches the errgroup, or the caller's own context is done.         *)
(***************************************************************************)
EXTENDS FetchPool, CdnConfig

CONSTANT CdnOptions   \* given to NewCdn

ASSUME FetchAssumption == /\ ~Panics(CdnOptions)
                          /\ Concurrency = NewCdnConfig(CdnOptions).concurrency

VARIABLES at,       \* what the SDK does for each goroutine
          attempt,  \* the attempt each GetPublicKey is at
          sleep,    \* time left until the next attempt
          ctxDone,  \* whether the caller's context is done
          met       \* the errors that each key's attempts met so far

sdk == <<at, attempt, sleep, met>>
fetchVars == <<vars, sdk, ctxDone>>

Strategy == NewCdnConfig(CdnOptions).retryStrategy

(* Any strategy makes an attempt, and its delays are no negative durations. *)
ASSUME StrategyAssumption ==
    /\ Strategy.maxAttempts \in Nat \ {0}
    /\ \A a \in 0 .. Strategy.maxAttempts : RetryDelay(Strategy, a) \in Nat

Met == {"nothing", "transient", "connection", "final"}

FetchTypeOK == /\ TypeOK
               /\ at \in [Ids -> {"none", "flight", "backoff"}]
               /\ attempt \in [Ids -> 0 .. Strategy.maxAttempts]
               /\ \A i \in Ids : /\ sleep[i] \in 0 .. RetryDelay(Strategy, attempt[i])
                                 /\ at[i] # "none" <=> go[i] = "request"
               /\ met \in [Ids -> Met]
               /\ ctxDone \in BOOLEAN

FetchInit == /\ Init
             /\ at = [i \in Ids |-> "none"]
             /\ attempt = [i \in Ids |-> 0]
             /\ sleep = [i \in Ids |-> 0]
             /\ met = [i \in Ids |-> "nothing"]
             /\ ctxDone = FALSE

-------------------------------------------------------------------------------
(* What a key's reads met so far: a first error that NewStandard retries;   *)
(* one that pkg/retry promises to retry ("connection errors") and           *)
(* NewStandard does not; or a second error, or one that nothing promises to *)
(* retry.                                                                   *)
Meets(before, error) ==
    IF before # "nothing" THEN "final"
    ELSE IF error \in {"5xx", "429", "409", "connection refused"} THEN "transient"
    ELSE IF error = "connection reset" THEN "connection"
    ELSE "final"

EgCtxDone == err \/ ctxDone

(* The goroutine sends its first attempt at once. *)
Call == /\ Start
        /\ at' = [at EXCEPT ![next] = "flight"]
        /\ attempt' = [attempt EXCEPT ![next] = 1]
        /\ UNCHANGED <<sleep, met, ctxDone>>

(* The call ends; its goroutine goes on. *)
End(i) == /\ at' = [at EXCEPT ![i] = "none"]
          /\ attempt' = [attempt EXCEPT ![i] = 0]
          /\ sleep' = [sleep EXCEPT ![i] = 0]
          /\ UNCHANGED ctxDone

Answered(i) == /\ at[i] = "flight"
               /\ Answer(i)
               /\ End(i)
               /\ UNCHANGED met

AttemptFails(i, error) ==
    /\ at[i] = "flight"
    /\ met' = [met EXCEPT ![i] = Meets(@, error)]
    /\ IF TriesAgain(Strategy, attempt[i], error)
       THEN /\ at' = [at EXCEPT ![i] = "backoff"]
            /\ sleep' = [sleep EXCEPT ![i] = RetryDelay(Strategy, attempt[i])]
            /\ UNCHANGED <<vars, attempt, ctxDone>>
       ELSE Fail(i) /\ End(i)

NextAttempt(i) == /\ at[i] = "backoff" /\ sleep[i] = 0
                  /\ at' = [at EXCEPT ![i] = "flight"]
                  /\ attempt' = [attempt EXCEPT ![i] = @ + 1]
                  /\ UNCHANGED <<vars, sleep, met, ctxDone>>

(* The end of egCtx ends the attempt or the sleep with an error. *)
Cancelled(i) == /\ EgCtxDone /\ at[i] # "none"
                /\ Fail(i)
                /\ End(i)
                /\ UNCHANGED met

ReleasePlace(i) == Release(i) /\ UNCHANGED <<sdk, ctxDone>>

ReportError(i) == Report(i) /\ UNCHANGED <<sdk, ctxDone>>

WaitReturns == Wait /\ UNCHANGED <<sdk, ctxDone>>

CtxDone == /\ returned = ""
           /\ ctxDone' = TRUE
           /\ UNCHANGED <<vars, sdk>>

Tick == /\ \E i \in Ids : sleep[i] > 0
        /\ sleep' = [i \in Ids |-> IF sleep[i] > 0 THEN sleep[i] - 1 ELSE 0]
        /\ UNCHANGED <<vars, at, attempt, met, ctxDone>>

FetchNext == \/ Call \/ WaitReturns \/ CtxDone \/ Tick
             \/ \E i \in Ids : \/ Answered(i) \/ \E e \in Errors : AttemptFails(i, e)
                               \/ NextAttempt(i) \/ Cancelled(i)
                               \/ ReleasePlace(i) \/ ReportError(i)

(* Goroutines run, and the end of a context is noticed.  An attempt may     *)
(* stay without an answer for ever: it has no timeout.                      *)
FetchSpec == /\ FetchInit /\ [][FetchNext]_fetchVars
             /\ WF_fetchVars(Call) /\ WF_fetchVars(WaitReturns)
             /\ \A i \in Ids : /\ WF_fetchVars(Cancelled(i))
                               /\ WF_fetchVars(ReleasePlace(i))
                               /\ WF_fetchVars(ReportError(i))

-------------------------------------------------------------------------------
(* EnsureKeyGroup evicts nothing when fetchKeyMetas fails, so a failure     *)
(* must have a reason.  pkg/retry: "Retryable errors: 5xx, 429, 409,        *)
(* connection errors": the caller's context is done, or one key's reads     *)
(* failed twice or with another kind of error.                              *)
PromisedErrorsRetried ==
    err => ctxDone \/ \E i \in Ids : met[i] = "final"

(* What holds of the code: a connection error other than a refused one is   *)
(* a reason, too, but no other first error of a key is, in whatever order   *)
(* errors, sleeps and the cancellation of the others interleave.            *)
FailsForAReason ==
    err => ctxDone \/ \E i \in Ids : met[i] \in {"connection", "final"}

(* When the caller's context is done, fetchKeyMetas returns, wherever its   *)
(* loop, its goroutines and their calls are.                                *)
Returns == ctxDone ~> returned # ""
===============================================================================
