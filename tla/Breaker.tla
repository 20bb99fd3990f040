-------------------------------- MODULE Breaker --------------------------------
(***************************************************************************)
(* The circuit breaker middleware of internal/middleware/net_http_client:   *)
(* concurrent RoundTrips through one gobreaker.CircuitBreaker to a server   *)
(* that goes down and comes up.  RoundTrip runs the request outside the     *)
(* breaker's lock, between its beforeRequest and its afterRequest: other    *)
(* requests begin and end, and the breaker opens and half-opens, meanwhile. *)
(*                                                                          *)
(* gobreaker is external and modelled by what RoundTrip relies on.  Its     *)
(* generation counter is kept as the set of the requests that began in the  *)
(* current generation.                                                      *)
(***************************************************************************)
EXTENDS Naturals, FiniteSets, FunctionalOptions

CONSTANTS Requests,       \* goroutines that call RoundTrip
          BreakerOptions, \* given to NewBreakerMiddleware
          DefaultTimeout  \* gobreaker's, for a reset timeout of 0

(* An option that panics makes no middleware. *)
ASSUME BreakerAssumption == /\ IsFiniteSet(Requests)
                            /\ ~Panics(BreakerOptions)
                            /\ DefaultTimeout \in Nat \ {0}

-------------------------------------------------------------------------------
WithCircuitBreakerMaxFailures(n) ==
    IF n <= 0 THEN Panic ELSE [maxFailures |-> n]

WithCircuitBreakerResetTimeout(d) ==
    IF d <= 0 THEN Panic ELSE [resetTimeout |-> d]

WithCircuitBreakerHalfOpenRequests(n) ==
    IF n < 0 THEN Panic ELSE [halfOpenRequests |-> n]

(* newCircuitBreakerConfig *)
BreakerConfig == Configure([maxFailures |-> 0, resetTimeout |-> 0, halfOpenRequests |-> 0],
                           BreakerOptions)

(* NewBreakerMiddleware's settings; gobreaker takes 0 requests for 1, and a *)
(* timeout of 0 for its default.                                            *)
MaxFailures == BreakerConfig.maxFailures
ResetTimeout == IF BreakerConfig.resetTimeout = 0
                THEN DefaultTimeout ELSE BreakerConfig.resetTimeout
Probes == IF BreakerConfig.halfOpenRequests = 0
          THEN 1 ELSE BreakerConfig.halfOpenRequests

(* What options that do not panic leave. *)
ASSUME BreakerConfigAssumption ==
    MaxFailures \in Nat /\ ResetTimeout \in Nat \ {0} /\ Probes \in Nat \ {0}

-------------------------------------------------------------------------------
VARIABLES up,        \* does the server answer?
          state,     \* of the breaker
          fails,     \* ConsecutiveFailures
          probes,    \* Requests, counted while half-open
          passed,    \* ConsecutiveSuccesses, counted while half-open
          left,      \* time left until an open breaker half-opens
          running,   \* the requests in the base RoundTripper
          current    \* those that began in the current generation

breaker == <<state, fails, probes, passed, left, current>>
transport == <<breaker, up, running>>

BreakerTypeOK ==
          /\ up \in BOOLEAN
          /\ state \in {"closed", "open", "halfOpen"}
          /\ fails \in Nat /\ probes \in 0..Probes /\ passed \in 0..Probes
          /\ left \in 0..ResetTimeout
          /\ running \subseteq Requests /\ current \subseteq running
          /\ state # "closed" => fails = 0
          /\ state # "halfOpen" => probes = 0 /\ passed = 0

BreakerInit == /\ up = TRUE
               /\ state = "closed"
               /\ fails = 0 /\ probes = 0 /\ passed = 0 /\ left = 0
               /\ running = {} /\ current = {}

-------------------------------------------------------------------------------
(* gobreaker's setState: a new generation, with new counts. *)
Become(s) == /\ state' = s
             /\ fails' = 0 /\ probes' = 0 /\ passed' = 0
             /\ left' = IF s = "open" THEN ResetTimeout ELSE 0
             /\ current' = {}

(* Mutant: more than maxFailures failures. *)
ReadyToTripLate(failures) == failures > MaxFailures

ReadyToTrip(failures) == failures >= MaxFailures

(* RoundTrip is called and beforeRequest lets it through. *)
Pass(r) == /\ state = "closed"
           /\ current' = current \union {r}
           /\ UNCHANGED <<state, fails, probes, passed, left>>

(* The first request that finds the reset timeout over half-opens. *)
FirstProbe(r) == /\ state = "open" /\ left = 0
                 /\ state' = "halfOpen"
                 /\ probes' = 1
                 /\ current' = {r}
                 /\ UNCHANGED <<fails, passed, left>>

Probe(r) == /\ state = "halfOpen" /\ probes < Probes
            /\ probes' = probes + 1
            /\ current' = current \union {r}
            /\ UNCHANGED <<state, fails, passed, left>>

(* A call that is refused (ErrOpenState, ErrTooManyRequests) returns and    *)
(* changes nothing.                                                         *)
RoundTrip(r) == /\ r \notin running
                /\ Pass(r) \/ FirstProbe(r) \/ Probe(r)
                /\ running' = running \union {r}
                /\ UNCHANGED up

(* afterRequest of a request of an earlier generation: it only looks        *)
(* whether the reset timeout is over.                                       *)
AfterStale == IF state = "open" /\ left = 0
              THEN Become("halfOpen")
              ELSE UNCHANGED breaker

(* afterRequest after a nil error. *)
AfterSuccess(r) ==
    CASE state = "closed" ->
           /\ fails' = 0
           /\ current' = current \ {r}
           /\ UNCHANGED <<state, probes, passed, left>>
      [] state = "halfOpen" /\ passed + 1 < Probes ->
           /\ passed' = passed + 1
           /\ current' = current \ {r}
           /\ UNCHANGED <<state, fails, probes, left>>
      [] OTHER -> Become("closed")

(* afterRequest after an error. *)
AfterFailure(r) ==
    IF state = "closed" /\ ~ReadyToTrip(fails + 1)
    THEN /\ fails' = fails + 1
         /\ current' = current \ {r}
         /\ UNCHANGED <<state, probes, passed, left>>
    ELSE Become("open")

(* Mutant: a response is returned past the breaker. *)
SucceedUnreported(r) == /\ r \in running /\ up
                        /\ running' = running \ {r}
                        /\ UNCHANGED <<breaker, up>>

(* The base RoundTripper returns a response, of whatever status: a 5xx is   *)
(* no error.                                                                *)
Succeed(r) == /\ r \in running /\ up
              /\ running' = running \ {r}
              /\ IF r \in current THEN AfterSuccess(r) ELSE AfterStale
              /\ UNCHANGED up

(* Mutants: some errors (timeouts) are no failures to the breaker; errors   *)
(* are returned past it.                                                    *)
FailUncounted(r) == /\ r \in running
                    /\ running' = running \ {r}
                    /\ IF r \in current THEN AfterSuccess(r) \/ AfterFailure(r) ELSE AfterStale
                    /\ UNCHANGED up
FailUnreported(r) == /\ r \in running
                     /\ running' = running \ {r}
                     /\ UNCHANGED <<breaker, up>>

(* It returns an error, of whatever kind. *)
Fail(r) == /\ r \in running
           /\ running' = running \ {r}
           /\ IF r \in current THEN AfterFailure(r) ELSE AfterStale
           /\ UNCHANGED up

Elapse == left' = IF left > 0 THEN left - 1 ELSE 0

Server == up' = ~up /\ UNCHANGED <<breaker, running>>

-------------------------------------------------------------------------------
(* No probe is forgotten, however long requests of earlier generations run: *)
(* each request that a half-open breaker admitted is running or was         *)
(* answered, so that there are at most halfOpen of them; an open breaker    *)
(* has none.                                                                *)
ProbesAccounted ==
    /\ state = "halfOpen" => Cardinality(current) + passed = probes
    /\ state = "open" => current = {}

(* A closed breaker never has as many failures in a row as open it. *)
TripsInTime == state = "closed" => fails = 0 \/ fails < MaxFailures

(* A half-open breaker leaves that state by what its own probes return: it  *)
(* closes when the last of all its probes is answered, and opens when one   *)
(* fails; no request from before it opened has a say.                       *)
ProbesDecide ==
    [][state = "halfOpen" /\ state' # "halfOpen" =>
          \E r \in current : /\ running' = running \ {r}
                             /\ state' = "closed" => /\ up
                                                     /\ current = {r}
                                                     /\ probes = Probes]_transport

(* When the server is up for good, the breaker closes for good: neither     *)
(* late failures of old requests nor slow or cancelled probes keep it open. *)
Recovers == <>[]up => <>[](state = "closed")
===============================================================================
