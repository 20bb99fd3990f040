------------------------------- MODULE CdnConfig -------------------------------
(***************************************************************************)
(* The options of NewCdn and their defaults.  The logger and the injected   *)
(* client are left out.                                                     *)
(***************************************************************************)
EXTENDS FunctionalOptions, SdkRetry

WithMaxKeys(n) == IF n <= 0 THEN Panic ELSE [maxKeys |-> n]

WithConcurrency(n) == IF n <= 0 THEN Panic ELSE [concurrency |-> n]

WithRetryStrategy(strategy) == [retryStrategy |-> strategy]

NewCdnConfig(opts) ==
    Configure([maxKeys |-> 3, concurrency |-> 5, retryStrategy |-> Standard], opts)
===============================================================================
