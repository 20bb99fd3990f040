----------------------------- MODULE MCHttpClient -----------------------------
(* Three callers of one client, and a breaker that opens on two failures in *)
(* a row and half-opens with two probes.                                    *)
EXTENDS HttpClient

CONSTANTS r1, r2, r3, token

MCBreakerOptions == <<WithCircuitBreakerMaxFailures(2), Nil,
                      WithCircuitBreakerResetTimeout(2),
                      WithCircuitBreakerHalfOpenRequests(2)>>

(* A client for one service, a default one, and one that cannot be made.    *)
MCClientOptions == {<<WithBaseURL("service"), WithHeader("auth", token), WithTimeout(1, 1)>>,
                    <<Nil>>,
                    <<WithTimeout(1, 0)>>}

MCCallerRequests == {[keys |-> {"auth", "id"}, url |-> "relative"],
                     [keys |-> {}, url |-> "absolute"]}
===============================================================================
