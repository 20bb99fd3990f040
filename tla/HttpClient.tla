------------------------------ MODULE HttpClient ------------------------------
(***************************************************************************)
(* internal/http_client/net_http: concurrent calls of Do on one client      *)
(* whose transport is the circuit breaker.  Do merges the client's headers  *)
(* into the request's, resolves its URL, and sends it with the response     *)
(* timeout.  Header values that a request r brings itself are r: they must  *)
(* not turn up in another request.                                          *)
(*                                                                          *)
(* http.Client and the base transport are external.  Time is in units of    *)
(* 15 seconds.                                                              *)
(***************************************************************************)
EXTENDS Breaker

CONSTANTS ClientOptions,   \* option lists a client may be made with
          CallerRequests,  \* what callers ask for: header keys and a URL
          MaxExcused       \* bound on failures that are not the server's

(* "relative": without a host; "base": relative to the base URL. *)
URLs == {"absolute", "relative", "base"}

ASSUME HttpClientAssumption ==
    MaxExcused \in Nat /\ \A request \in CallerRequests : request.url \in URLs

-------------------------------------------------------------------------------
(* Of a URL that parses; any other panics.                                  *)
WithBaseURL(base) == [baseURL |-> base]

(* Mutant: only the connection timeout is validated. *)
WithTimeoutUnchecked(connect, response) ==
    IF connect <= 0 THEN Panic
    ELSE [connectTimeout |-> connect, responseTimeout |-> response]

WithTimeout(connect, response) ==
    IF connect <= 0 \/ response <= 0 THEN Panic
    ELSE [connectTimeout |-> connect, responseTimeout |-> response]

WithHeader(key, value) ==
    IF key = "" \/ value = "" THEN Panic
    ELSE [headers |-> [k \in {key} |-> value]]

DefaultHttpClientConfig == [baseURL |-> "", headers |-> <<>>,
                            connectTimeout |-> 1, responseTimeout |-> 2]

NewHttpClientConfig(opts) == Configure(DefaultHttpClientConfig, opts)

(* Options set fields that the config has. *)
ASSUME ClientOptionsAssumption ==
    \A opts \in ClientOptions :
       ~Panics(opts) => LET made == NewHttpClientConfig(opts)
                        IN  /\ DOMAIN made = DOMAIN DefaultHttpClientConfig
                            /\ made.responseTimeout \in Nat

-------------------------------------------------------------------------------
VARIABLES config,   \* httpClientConfig, as it was given
          headers,  \* netHttpClient.headers, the map all calls share
          sent,     \* the request that the transport was given
          timer,    \* what is left of the response timeout
          excused   \* failures that were not the server's so far

vars == <<transport, config, headers, sent, timer, excused>>
client == <<config, headers>>

(* own: the keys of the headers that the caller gave. *)
NoRequest == [headers |-> <<>>, own |-> {}, url |-> "absolute"]

TypeOK == /\ BreakerTypeOK
          /\ DOMAIN config = DOMAIN DefaultHttpClientConfig
          /\ \A r \in Requests : sent[r].url \in URLs
          /\ \A r \in Requests : timer[r] \in 0 .. config.responseTimeout
          /\ excused \in 0 .. MaxExcused

(* NewNetHttpClient; an option that panics makes no client. *)
Init == /\ BreakerInit
        /\ \E opts \in ClientOptions :
              ~Panics(opts) /\ config = NewHttpClientConfig(opts)
        /\ headers = config.headers
        /\ sent = [r \in Requests |-> NoRequest]
        /\ timer = [r \in Requests |-> 0]
        /\ excused = 0

-------------------------------------------------------------------------------
Excuse == excused < MaxExcused /\ excused' = excused + 1

(* maps.Copy(dst, src) *)
Copied(dst, src) == [key \in DOMAIN dst \union DOMAIN src |->
                       IF key \in DOMAIN src THEN src[key] ELSE dst[key]]

(* Mutant: the request's headers are merged into the client's map, which    *)
(* the request then gets.                                                   *)
MergeIntoClient(r, own, url) ==
    /\ headers' = Copied(headers, own)
    /\ sent' = [sent EXCEPT ![r] = [headers |-> headers', own |-> DOMAIN own, url |-> url]]

(* The request gets a new map: its own headers, overwritten by the client's. *)
MergeConfigHeaders(r, own, url) ==
    /\ sent' = [sent EXCEPT ![r] = [headers |-> Copied(own, headers),
                                    own |-> DOMAIN own, url |-> url]]
    /\ UNCHANGED headers

(* buildRequest: a relative URL stays so when the client has no base URL.   *)
Resolve(url) == IF url = "relative" /\ config.baseURL # "" THEN "base" ELSE url

(* Do, when the breaker lets the request through; a refused call changes    *)
(* nothing.  http.Client starts the response timeout.                       *)
Do(r, request) ==
    /\ RoundTrip(r)
    /\ MergeConfigHeaders(r, [key \in request.keys |-> r], Resolve(request.url))
    /\ timer' = [timer EXCEPT ![r] = config.responseTimeout]
    /\ IF Resolve(request.url) = "relative" THEN Excuse ELSE UNCHANGED excused
    /\ UNCHANGED config

-------------------------------------------------------------------------------
(* Do returns to its caller. *)
Return(r) == /\ sent' = [sent EXCEPT ![r] = NoRequest]
             /\ timer' = [timer EXCEPT ![r] = 0]
             /\ UNCHANGED client

Sendable(r) == sent[r].url # "relative"

Respond(r) == Sendable(r) /\ Succeed(r) /\ Return(r) /\ UNCHANGED excused

(* No connection. *)
Refuse(r) == ~up /\ Sendable(r) /\ Fail(r) /\ Return(r) /\ UNCHANGED excused

(* http.Client's Timeout, 0 for none, ends a request to a silent server; a  *)
(* server that is up answers in time.                                       *)
TimeOut(r) == /\ ~up /\ config.responseTimeout > 0 /\ timer[r] = 0
              /\ Fail(r) /\ Return(r)
              /\ UNCHANGED excused

(* The base transport takes no URL without a host: to the breaker another   *)
(* failure.                                                                 *)
CannotSend(r) == ~Sendable(r) /\ Fail(r) /\ Return(r) /\ UNCHANGED excused

(* The caller's context is cancelled. *)
Cancel(r) == Excuse /\ Fail(r) /\ Return(r)

Tick == /\ left > 0 \/ \E r \in Requests : timer[r] > 0
        /\ Elapse
        /\ timer' = [r \in Requests |-> IF timer[r] > 0 THEN timer[r] - 1 ELSE 0]
        /\ UNCHANGED <<state, fails, probes, passed, current, up, running,
                       client, sent, excused>>

ServerChanges == Server /\ UNCHANGED <<client, sent, timer, excused>>

Ends(r) == Respond(r) \/ TimeOut(r) \/ CannotSend(r)

Next == \/ \E r \in Requests : \/ \E request \in CallerRequests : Do(r, request)
                               \/ Ends(r) \/ Refuse(r) \/ Cancel(r)
        \/ Tick \/ ServerChanges

(* A server that is up answers, timeouts fire, requests keep coming, and    *)
(* time passes.  A server that is down may stay silent.                     *)
Spec == /\ Init /\ [][Next]_vars
        /\ WF_vars(Tick)
        /\ \A r \in Requests :
              /\ WF_vars(\E request \in CallerRequests : Do(r, request))
              /\ WF_vars(Ends(r))

-------------------------------------------------------------------------------
(* However calls overlap, a request goes out with the headers that its      *)
(* caller gave and those of the client's configuration, each with the value *)
(* of one of the two, and no others: nothing of one caller's request        *)
(* reaches another's, now or later, and nothing is lost.  Which of the two  *)
(* wins is left open, as the code and its comment disagree about it.        *)
HeadersAreOwn ==
    \A r \in running :
        /\ DOMAIN sent[r].headers = sent[r].own \union DOMAIN config.headers
        /\ \A key \in DOMAIN sent[r].headers :
              \/ key \in sent[r].own /\ sent[r].headers[key] = r
              \/ key \in DOMAIN config.headers /\ sent[r].headers[key] = config.headers[key]

(* Every call of Do returns, though the server may be silent for ever: no   *)
(* option makes a client without a response timeout.                        *)
CallsReturn == \A r \in Requests : r \in running ~> r \notin running
===============================================================================
