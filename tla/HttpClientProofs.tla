---------------------------- MODULE HttpClientProofs ----------------------------
(***************************************************************************)
(* Proofs about HttpClient and the Breaker that is its transport, for any   *)
(* number of concurrent requests and any options.                           *)
(***************************************************************************)
EXTENDS HttpClient, FiniteSetTheorems, TLAPS

(* The settings, and the finite requests. *)
LEMMA SettingsOK == /\ MaxFailures \in Nat /\ ResetTimeout \in Nat /\ Probes \in Nat
                    /\ Probes > 0 /\ IsFiniteSet(Requests) /\ MaxExcused \in Nat
BY BreakerAssumption, BreakerConfigAssumption, HttpClientAssumption

(* A generation gains or loses one request at a time. *)
LEMMA CurrentCounts ==
  ASSUME current \subseteq Requests, NEW r \in Requests
  PROVE  /\ IsFiniteSet(current) /\ Cardinality(current) \in Nat
         /\ r \in current => /\ Cardinality(current) > 0
                             /\ Cardinality(current \ {r}) = Cardinality(current) - 1
         /\ r \notin current => Cardinality(current \union {r}) = Cardinality(current) + 1
<1>1. IsFiniteSet(current) /\ IsFiniteSet(current \ {r})
  BY SettingsOK, FS_Subset
<1>2. Cardinality(current) \in Nat /\ Cardinality(current \ {r}) \in Nat
  BY <1>1, FS_CardinalityType
<1>3. r \in current => Cardinality(current \ {r}) = Cardinality(current) - 1
  BY <1>1, FS_RemoveElement
<1>4. r \notin current => Cardinality(current \union {r}) = Cardinality(current) + 1
  BY <1>1, FS_AddElement
<1>5. QED
  BY <1>1, <1>2, <1>3, <1>4

-------------------------------------------------------------------------------
(* What a step of the client does to its transport: a request begins or     *)
(* ends, time passes, or the server changes.                                *)
TimePasses == Elapse /\ UNCHANGED <<state, fails, probes, passed, current, up, running>>

LEMMA TransportSteps ==
  ASSUME [Next]_vars
  PROVE  \/ \E r \in Requests : RoundTrip(r) \/ Succeed(r) \/ Fail(r)
         \/ TimePasses \/ Server \/ UNCHANGED transport
<1>1. ASSUME NEW r \in Requests, NEW request \in CallerRequests, Do(r, request)
      PROVE  RoundTrip(r)
  BY <1>1 DEF Do
<1>2. ASSUME NEW r \in Requests, Ends(r) \/ Refuse(r) \/ Cancel(r)
      PROVE  Succeed(r) \/ Fail(r)
  BY <1>2 DEF Ends, Respond, TimeOut, CannotSend, Refuse, Cancel
<1>3. CASE Tick
  BY <1>3 DEF Tick, TimePasses
<1>4. CASE ServerChanges
  BY <1>4 DEF ServerChanges
<1>5. CASE UNCHANGED vars
  BY <1>5 DEF vars
<1>6. QED
  BY <1>1, <1>2, <1>3, <1>4, <1>5 DEF Next

BreakerOK == BreakerTypeOK /\ ProbesAccounted /\ TripsInTime

(* A new generation counts from nothing. *)
LEMMA BecomeKeeps ==
  ASSUME BreakerOK, NEW s \in {"closed", "open", "halfOpen"}, Become(s), up' \in BOOLEAN,
         running' \subseteq Requests
  PROVE  BreakerOK'
<1>1. Cardinality({}) = 0
  BY FS_EmptySet
<1>2. BreakerTypeOK'
  BY SettingsOK DEF BreakerOK, BreakerTypeOK, Become
<1>3. ProbesAccounted'
  BY <1>1 DEF ProbesAccounted, Become
<1>4. TripsInTime'
  BY DEF TripsInTime, Become
<1>5. QED
  BY <1>2, <1>3, <1>4 DEF BreakerOK

LEMMA RoundTripKeeps ==
  ASSUME BreakerOK, NEW r \in Requests, RoundTrip(r)
  PROVE  BreakerOK'
<1>1. r \notin running /\ r \notin current /\ running' = running \union {r} /\ up' = up
  BY DEF RoundTrip, BreakerOK, BreakerTypeOK
<1>2. current \subseteq Requests
  BY DEF BreakerOK, BreakerTypeOK
<1>3. CASE Pass(r)
  BY <1>1, <1>3 DEF Pass, BreakerOK, BreakerTypeOK, ProbesAccounted, TripsInTime
<1>4. CASE FirstProbe(r)
  <2>1. Cardinality({r}) = 1
    BY FS_Singleton
  <2>2. BreakerTypeOK'
    BY <1>1, <1>4, SettingsOK DEF FirstProbe, BreakerOK, BreakerTypeOK
  <2>3. ProbesAccounted' /\ TripsInTime'
    BY <1>4, <2>1 DEF FirstProbe, BreakerOK, BreakerTypeOK, ProbesAccounted, TripsInTime
  <2>4. QED
    BY <2>2, <2>3 DEF BreakerOK
<1>5. CASE Probe(r)
  <2>1. /\ Cardinality(current) \in Nat
        /\ Cardinality(current \union {r}) = Cardinality(current) + 1
    BY <1>1, <1>2, CurrentCounts
  <2>2. BreakerTypeOK'
    BY <1>1, <1>5, SettingsOK DEF Probe, BreakerOK, BreakerTypeOK
  <2>3. ProbesAccounted' /\ TripsInTime'
    BY <1>5, <2>1, SettingsOK
       DEF Probe, BreakerOK, BreakerTypeOK, ProbesAccounted, TripsInTime
  <2>4. QED
    BY <2>2, <2>3 DEF BreakerOK
<1>6. QED
  BY <1>3, <1>4, <1>5 DEF RoundTrip

(* A request of an earlier generation may half-open the breaker, no more. *)
LEMMA StaleKeeps ==
  ASSUME BreakerOK, NEW r \in Requests, r \notin current, AfterStale,
         running' = running \ {r}, up' = up
  PROVE  BreakerOK'
<1>1. running' \subseteq Requests /\ up' \in BOOLEAN
  BY DEF BreakerOK, BreakerTypeOK
<1>2. CASE Become("halfOpen")
  BY <1>1, <1>2, BecomeKeeps
<1>3. CASE UNCHANGED breaker
  BY <1>1, <1>3 DEF breaker, BreakerOK, BreakerTypeOK, ProbesAccounted, TripsInTime
<1>4. QED
  BY <1>2, <1>3 DEF AfterStale

LEMMA SuccessKeeps ==
  ASSUME BreakerOK, NEW r \in Requests, Succeed(r)
  PROVE  BreakerOK'
<1>1. /\ running' = running \ {r} /\ up' = up /\ current \subseteq Requests
      /\ running' \subseteq Requests /\ up' \in BOOLEAN
  BY DEF Succeed, BreakerOK, BreakerTypeOK
<1>2. CASE r \notin current
  BY <1>1, <1>2, StaleKeeps DEF Succeed
<1>3. CASE r \in current
  <2>1. AfterSuccess(r)
    BY <1>3 DEF Succeed
  <2>2. CASE state = "closed"
    <3>1. /\ fails' = 0 /\ current' = current \ {r}
          /\ UNCHANGED <<state, probes, passed, left>>
      BY <2>1, <2>2 DEF AfterSuccess
    <3>2. QED
      BY <1>1, <2>2, <3>1 DEF BreakerOK, BreakerTypeOK, ProbesAccounted, TripsInTime
  <2>3. CASE state = "halfOpen" /\ passed + 1 < Probes
    <3>1. /\ passed' = passed + 1 /\ current' = current \ {r}
          /\ UNCHANGED <<state, fails, probes, left>>
      BY <2>1, <2>3 DEF AfterSuccess
    <3>2. Cardinality(current) \in Nat /\ Cardinality(current') = Cardinality(current) - 1
      BY <1>1, <1>3, <3>1, CurrentCounts
    <3>3. BreakerTypeOK'
      BY <1>1, <2>3, <3>1, SettingsOK DEF BreakerOK, BreakerTypeOK
    <3>4. ProbesAccounted' /\ TripsInTime'
      BY <2>3, <3>1, <3>2, SettingsOK
         DEF BreakerOK, BreakerTypeOK, ProbesAccounted, TripsInTime
    <3>5. QED
      BY <3>3, <3>4 DEF BreakerOK
  <2>4. CASE state # "closed" /\ ~(state = "halfOpen" /\ passed + 1 < Probes)
    <3>1. Become("closed")
      BY <2>1, <2>4 DEF AfterSuccess
    <3>2. QED
      BY <1>1, <3>1, BecomeKeeps
  <2>5. QED
    BY <2>2, <2>3, <2>4
<1>4. QED
  BY <1>2, <1>3

LEMMA FailureKeeps ==
  ASSUME BreakerOK, NEW r \in Requests, Fail(r)
  PROVE  BreakerOK'
<1>1. /\ running' = running \ {r} /\ up' = up /\ current \subseteq Requests
      /\ running' \subseteq Requests /\ up' \in BOOLEAN
  BY DEF Fail, BreakerOK, BreakerTypeOK
<1>2. CASE r \notin current
  BY <1>1, <1>2, StaleKeeps DEF Fail
<1>3. CASE r \in current
  <2>1. AfterFailure(r)
    BY <1>3 DEF Fail
  <2>2. CASE state = "closed" /\ ~ReadyToTrip(fails + 1)
    <3>1. /\ fails' = fails + 1 /\ current' = current \ {r}
          /\ UNCHANGED <<state, probes, passed, left>>
      BY <2>1, <2>2 DEF AfterFailure
    <3>2. fails + 1 < MaxFailures
      BY <2>2, SettingsOK DEF ReadyToTrip, BreakerOK, BreakerTypeOK
    <3>3. QED
      BY <1>1, <2>2, <3>1, <3>2 DEF BreakerOK, BreakerTypeOK, ProbesAccounted, TripsInTime
  <2>3. CASE Become("open")
    BY <1>1, <2>3, BecomeKeeps
  <2>4. QED
    BY <2>1, <2>2, <2>3 DEF AfterFailure
<1>4. QED
  BY <1>2, <1>3

LEMMA StepKeepsBreaker ==
  ASSUME BreakerOK, [Next]_vars PROVE BreakerOK'
<1>1. CASE TimePasses
  BY <1>1, SettingsOK
     DEF TimePasses, Elapse, BreakerOK, BreakerTypeOK, ProbesAccounted, TripsInTime
<1>2. CASE Server \/ UNCHANGED transport
  BY <1>2 DEF Server, transport, breaker, BreakerOK, BreakerTypeOK, ProbesAccounted,
              TripsInTime
<1>3. QED
  BY <1>1, <1>2, TransportSteps, RoundTripKeeps, SuccessKeeps, FailureKeeps

(* The breaker's counts stay right, whichever requests end in whichever     *)
(* generation.                                                              *)
LEMMA BreakerHolds == Spec => []BreakerOK
<1>1. Init => BreakerOK
  BY SettingsOK DEF Init, BreakerInit, BreakerOK, BreakerTypeOK, ProbesAccounted, TripsInTime
<1>2. BreakerOK /\ [Next]_vars => BreakerOK'
  BY StepKeepsBreaker
<1>3. QED
  BY <1>1, <1>2, PTL DEF Spec

(* Every probe of a half-open breaker is running or was answered; an open   *)
(* breaker has none.                                                        *)
THEOREM ProbesAreAccounted == Spec => []ProbesAccounted
<1>1. BreakerOK => ProbesAccounted
  BY DEF BreakerOK
<1>2. QED
  BY <1>1, BreakerHolds, PTL

(* A closed breaker has fewer failures in a row than open it. *)
THEOREM TripsAreInTime == Spec => []TripsInTime
<1>1. BreakerOK => TripsInTime
  BY DEF BreakerOK
<1>2. QED
  BY <1>1, BreakerHolds, PTL

-------------------------------------------------------------------------------
DecideStep == state = "halfOpen" /\ state' # "halfOpen" =>
                  \E r \in current : /\ running' = running \ {r}
                                     /\ state' = "closed" => /\ up
                                                             /\ current = {r}
                                                             /\ probes = Probes

(* The probe that closes a breaker is its last. *)
LEMMA LastProbe ==
  ASSUME BreakerOK, NEW r \in current, state = "halfOpen", ~(passed + 1 < Probes)
  PROVE  current = {r} /\ probes = Probes
<1>1. current \subseteq Requests /\ passed \in Nat /\ probes \in Nat /\ probes <= Probes
  BY SettingsOK DEF BreakerOK, BreakerTypeOK
<1>2. Cardinality(current) + passed = probes
  BY DEF BreakerOK, ProbesAccounted
<1>3. /\ IsFiniteSet(current) /\ Cardinality(current) \in Nat /\ Cardinality(current) > 0
      /\ Cardinality(current \ {r}) = Cardinality(current) - 1
  BY <1>1, CurrentCounts
<1>4. Cardinality(current) = 1 /\ probes = Probes
  BY <1>1, <1>2, <1>3, SettingsOK
<1>5. IsFiniteSet(current \ {r}) /\ Cardinality(current \ {r}) = 0
  BY <1>3, <1>4, FS_Subset
<1>6. current \ {r} = {}
  BY <1>5, FS_EmptySet
<1>7. QED
  BY <1>4, <1>6

(* A half-open breaker closes only by the success of the last of its own    *)
(* probes, and opens only by the failure of one of them.                    *)
THEOREM ProbesDecideState == Spec => ProbesDecide
<1>1. ASSUME BreakerOK, [Next]_vars PROVE DecideStep
  <2>1. SUFFICES ASSUME state = "halfOpen", state' # "halfOpen"
                 PROVE  \E r \in current : /\ running' = running \ {r}
                                           /\ state' = "closed" => /\ up
                                                                   /\ current = {r}
                                                                   /\ probes = Probes
    BY DEF DecideStep
  <2>2. ~TimePasses /\ ~Server /\ ~UNCHANGED transport
    BY <2>1 DEF TimePasses, Server, transport, breaker
  <2>3. ASSUME NEW r \in Requests PROVE ~RoundTrip(r)
    BY <2>1 DEF RoundTrip, Pass, FirstProbe, Probe
  <2>4. ~AfterStale
    BY <2>1 DEF AfterStale, breaker
  <2>5. ASSUME NEW r \in Requests, Succeed(r)
        PROVE  /\ r \in current /\ running' = running \ {r} /\ up
               /\ current = {r} /\ probes = Probes
    <3>1. r \in current /\ AfterSuccess(r) /\ running' = running \ {r} /\ up
      BY <2>4, <2>5 DEF Succeed
    <3>2. ~(passed + 1 < Probes)
      BY <2>1, <3>1 DEF AfterSuccess
    <3>3. QED
      BY <1>1, <2>1, <3>1, <3>2, LastProbe
  <2>6. ASSUME NEW r \in Requests, Fail(r)
        PROVE  r \in current /\ running' = running \ {r} /\ state' # "closed"
    <3>1. r \in current /\ AfterFailure(r) /\ running' = running \ {r}
      BY <2>4, <2>6 DEF Fail
    <3>2. QED
      BY <2>1, <3>1 DEF AfterFailure, Become
  <2>7. PICK r \in Requests : Succeed(r) \/ Fail(r)
    BY <1>1, <2>2, <2>3, TransportSteps
  <2>8. QED
    BY <2>5, <2>6, <2>7
<1>2. BreakerOK /\ [Next]_vars => [DecideStep]_transport
  BY <1>1
<1>3. [][DecideStep]_transport => ProbesDecide
  BY DEF DecideStep, ProbesDecide
<1>4. QED
  BY <1>2, <1>3, BreakerHolds, PTL DEF Spec

-------------------------------------------------------------------------------
(* The options made a client; what a request was sent with is built from    *)
(* its caller's request and the configuration, which never changes.         *)
ClientOK ==
    /\ DOMAIN config = DOMAIN DefaultHttpClientConfig
    /\ config.responseTimeout \in Nat
    /\ headers = config.headers
    /\ DOMAIN sent = Requests
    /\ \A r \in Requests : sent[r].url \in URLs
    /\ timer \in [Requests -> 0 .. config.responseTimeout]
    /\ excused \in 0 .. MaxExcused
    /\ HeadersAreOwn

LEMMA InitClient ==
  ASSUME Init PROVE ClientOK
<1>1. PICK opts \in ClientOptions : ~Panics(opts) /\ config = NewHttpClientConfig(opts)
  BY DEF Init
<1>2. DOMAIN config = DOMAIN DefaultHttpClientConfig /\ config.responseTimeout \in Nat
  BY <1>1, ClientOptionsAssumption
<1>3. HeadersAreOwn
  BY DEF Init, BreakerInit, HeadersAreOwn
<1>4. QED
  BY <1>2, <1>3, SettingsOK DEF Init, ClientOK, NoRequest, URLs

LEMMA DoKeepsClient ==
  ASSUME BreakerOK, ClientOK, NEW r \in Requests, NEW request \in CallerRequests,
         Do(r, request)
  PROVE  ClientOK'
<1> DEFINE own == [key \in request.keys |-> r]
           merged == [headers |-> Copied(own, headers), own |-> DOMAIN own,
                      url |-> Resolve(request.url)]
           all == Copied(own, config.headers)
<1>1. /\ sent' = [sent EXCEPT ![r] = merged]
      /\ timer' = [timer EXCEPT ![r] = config.responseTimeout]
      /\ UNCHANGED <<config, headers>>
      /\ running' = running \union {r}
  BY DEF Do, MergeConfigHeaders, RoundTrip
<1>2. merged.url \in URLs
  BY HttpClientAssumption DEF Resolve, URLs
<1>3. merged.headers = all /\ merged.own = DOMAIN own
  BY DEF ClientOK
<1>4. /\ DOMAIN all = DOMAIN own \union DOMAIN config.headers
      /\ \A key \in DOMAIN all :
            \/ key \in DOMAIN own /\ all[key] = r
            \/ key \in DOMAIN config.headers /\ all[key] = config.headers[key]
  BY DEF Copied
<1> HIDE DEF merged, own, all
<1>5. sent'[r] = merged /\ \A q \in Requests : q # r => sent'[q] = sent[q]
  BY <1>1 DEF ClientOK
<1>6. HeadersAreOwn'
  <2> DEFINE Own(map, keys, q) ==
               /\ DOMAIN map = keys \union DOMAIN config.headers
               /\ \A key \in DOMAIN map :
                     \/ key \in keys /\ map[key] = q
                     \/ key \in DOMAIN config.headers /\ map[key] = config.headers[key]
  <2>1. SUFFICES ASSUME NEW q \in running'
                 PROVE  Own(sent'[q].headers, sent'[q].own, q)
    BY <1>1 DEF HeadersAreOwn
  <2>2. CASE q = r
    BY <1>3, <1>4, <1>5, <2>1, <2>2
  <2>3. CASE q # r
    <3>1. q \in running /\ q \in Requests
      BY <1>1, <2>1, <2>3 DEF BreakerOK, BreakerTypeOK
    <3>2. sent'[q] = sent[q]
      BY <1>5, <2>3, <3>1
    <3>3. QED
      BY <2>1, <3>1, <3>2 DEF ClientOK, HeadersAreOwn
  <2>4. QED
    BY <2>2, <2>3
<1>7. excused' \in 0 .. MaxExcused
  BY SettingsOK DEF Do, Excuse, ClientOK
<1>8. /\ DOMAIN sent' = Requests /\ \A q \in Requests : sent'[q].url \in URLs
      /\ timer' \in [Requests -> 0 .. config'.responseTimeout]
  BY <1>1, <1>2, <1>5 DEF ClientOK
<1>9. QED
  BY <1>1, <1>6, <1>7, <1>8 DEF ClientOK

LEMMA EndKeepsClient ==
  ASSUME BreakerOK, ClientOK, NEW r \in Requests, Ends(r) \/ Refuse(r) \/ Cancel(r)
  PROVE  ClientOK'
<1>1. Return(r) /\ (excused' = excused \/ Excuse) /\ running' = running \ {r}
  BY DEF Ends, Respond, TimeOut, CannotSend, Refuse, Cancel, Succeed, Fail
<1>2. /\ sent' = [sent EXCEPT ![r] = NoRequest] /\ timer' = [timer EXCEPT ![r] = 0]
      /\ UNCHANGED <<config, headers>>
  BY <1>1 DEF Return, client
<1>3. \A q \in Requests : q # r => sent'[q] = sent[q]
  BY <1>2 DEF ClientOK
<1>4. HeadersAreOwn'
  BY <1>1, <1>2, <1>3 DEF BreakerOK, BreakerTypeOK, ClientOK, HeadersAreOwn
<1>5. /\ DOMAIN sent' = Requests /\ \A q \in Requests : sent'[q].url \in URLs
      /\ timer' \in [Requests -> 0 .. config'.responseTimeout]
  BY <1>2, <1>3 DEF ClientOK, NoRequest, URLs
<1>6. excused' \in 0 .. MaxExcused
  BY <1>1, SettingsOK DEF Excuse, ClientOK
<1>7. QED
  BY <1>2, <1>4, <1>5, <1>6 DEF ClientOK

LEMMA StepKeepsClient ==
  ASSUME BreakerOK, ClientOK, [Next]_vars PROVE ClientOK'
<1>1. CASE Tick
  <2>1. UNCHANGED <<config, headers, sent, excused, running>>
    BY <1>1 DEF Tick, client
  <2>2. timer' \in [Requests -> 0 .. config.responseTimeout]
    BY <1>1 DEF Tick, ClientOK
  <2>3. QED
    BY <2>1, <2>2 DEF ClientOK, HeadersAreOwn
<1>2. CASE ServerChanges \/ UNCHANGED vars
  BY <1>2 DEF ServerChanges, Server, vars, client, transport, ClientOK, HeadersAreOwn
<1>3. QED
  BY <1>1, <1>2, DoKeepsClient, EndKeepsClient DEF Next

(* Calls that overlap share the client's header map and no more. *)
LEMMA ClientHolds == Spec => []ClientOK
<1>1. Init => ClientOK
  BY InitClient
<1>2. BreakerOK /\ ClientOK /\ [Next]_vars => ClientOK'
  BY StepKeepsClient
<1>3. QED
  BY <1>1, <1>2, BreakerHolds, PTL DEF Spec

(* The types of the breaker and the client. *)
THEOREM TypeCorrect == Spec => []TypeOK
<1>1. BreakerOK /\ ClientOK => TypeOK
  BY DEF BreakerOK, ClientOK, TypeOK
<1>2. QED
  BY <1>1, BreakerHolds, ClientHolds, PTL

(* A request is sent with the configured headers and its own, never with    *)
(* another's.                                                               *)
THEOREM RequestsAreOwn == Spec => []HeadersAreOwn
<1>1. ClientOK => HeadersAreOwn
  BY DEF ClientOK
<1>2. QED
  BY <1>1, ClientHolds, PTL
===============================================================================
