-------------------------- MODULE FetchKeyMetasProofs --------------------------
(***************************************************************************)
(* Proofs about FetchPool, for any number of keys and any concurrency, and  *)
(* about FetchKeyMetas: it implements the pool, and why it may fail.        *)
(***************************************************************************)
EXTENDS FetchKeyMetas, FiniteSetTheorems, TLAPS

(* The goroutines that have a place. *)
Placed == {i \in Ids : go[i] \in {"request", "release"}}

(* The channel has one element for each of them. *)
PlacesCounted == sem = Cardinality(Placed)

(* The loop starts the goroutines in order. *)
StartedInOrder == \A i \in Ids : go[i] = "none" <=> i >= next

(* A goroutine that made its call has a result, and its error, once it is   *)
(* done, is the errgroup's; Wait returns after all.                         *)
ResultsKept == /\ \A i \in Ids : go[i] \in {"release", "report", "done"}
                                 => i \in metas \union failed
               /\ \A i \in failed : go[i] = "done" => err
               /\ returned # "" => \A i \in Ids : go[i] = "done"
               /\ returned = "nil" => ~err

-------------------------------------------------------------------------------
LEMMA Sizes == N \in Nat /\ Concurrency \in Nat /\ N > 0 /\ Concurrency > 0
BY PoolAssumption

LEMMA LoopRanges ==
  TypeOK => next \in Nat /\ sem \in Nat /\ sem <= Concurrency
<1>1. TypeOK => next \in 1 .. N + 1 /\ sem \in 0 .. Concurrency
  BY DEF TypeOK
<1>2. QED
  BY <1>1, Sizes

(* All of TypeOK but the loop's variable and the channel. *)
GoroutinesOK == /\ go \in [Ids -> Points]
                /\ failed \subseteq Ids
                /\ metas \subseteq Ids
                /\ err \in BOOLEAN
                /\ returned \in {"", "nil", "error"}

(* The values of fetchKeyMetas' variables: in particular the channel is     *)
(* never read when it is empty nor written when it is full.                 *)
THEOREM PoolTyped == Spec => []TypeOK
<1>1. Init => TypeOK
  <2>1. Init => next = 1 /\ sem = 0
    BY DEF Init
  <2>2. 1 \in 1 .. N + 1 /\ 0 \in 0 .. Concurrency
    BY Sizes
  <2>3. Init => GoroutinesOK
    BY DEF Init, GoroutinesOK, Points
  <2>4. QED
    BY <2>1, <2>2, <2>3 DEF TypeOK, GoroutinesOK
<1>2. TypeOK /\ [Next]_vars => TypeOK'
  <2> SUFFICES ASSUME GoroutinesOK, next \in 1 .. N + 1, sem \in 0 .. Concurrency,
                      [Next]_vars
               PROVE  /\ GoroutinesOK'
                      /\ next' \in 1 .. N + 1 /\ sem' \in 0 .. Concurrency
    BY DEF TypeOK, GoroutinesOK
  <2>p. \A p \in {"none", "request", "release", "report", "done"} : p \in Points
    BY DEF Points
  <2>1. GoroutinesOK'
    <3>1. CASE Start
      BY <3>1, <2>p DEF GoroutinesOK, Start, Goto
    <3>2. ASSUME NEW i \in Ids, Answer(i) \/ Fail(i) \/ Release(i) \/ Report(i)
          PROVE  GoroutinesOK'
      BY <3>2, <2>p DEF GoroutinesOK, Answer, Fail, Release, Report, Goto
    <3>3. CASE Wait \/ UNCHANGED vars
      BY <3>3 DEF GoroutinesOK, Wait, vars
    <3>4. QED
      BY <3>1, <3>2, <3>3 DEF Next
  <2>2. \/ next' = next /\ sem' = sem
        \/ next \in Ids /\ next' = next + 1 /\ sem < Concurrency /\ sem' = sem + 1
        \/ next' = next /\ sem > 0 /\ sem' = sem - 1
    BY DEF Next, Start, Answer, Fail, Release, Report, Wait, vars
  <2>3. next' \in 1 .. N + 1 /\ sem' \in 0 .. Concurrency
    BY <2>2, Sizes DEF Ids
  <2>4. QED
    BY <2>1, <2>3
<1>3. QED
  BY <1>1, <1>2, PTL DEF Spec

LEMMA LoopInOrder == Spec => []StartedInOrder
<1>1. Init => StartedInOrder
  <2>1. \A i \in Ids : i >= 1
    BY Sizes DEF Ids
  <2>2. Init => next = 1 /\ \A i \in Ids : go[i] = "none"
    BY DEF Init
  <2>3. QED
    BY <2>1, <2>2 DEF StartedInOrder
<1>2. TypeOK /\ StartedInOrder /\ [Next]_vars => StartedInOrder'
  <2> SUFFICES ASSUME TypeOK, StartedInOrder, [Next]_vars PROVE StartedInOrder'
    OBVIOUS
  <2> USE DEF StartedInOrder
  <2>t. go \in [Ids -> Points] /\ next \in Nat
    BY LoopRanges DEF TypeOK
  <2>1. CASE Start
    <3>1. next' = next + 1
      BY <2>1 DEF Start
    <3>2. \A i \in Ids : go'[i] = "none" <=> go[i] = "none" /\ i # next
      BY <2>1, <2>t DEF Start, Goto
    <3>3. \A i \in Ids : i >= next + 1 <=> i >= next /\ i # next
      BY <2>t, Sizes DEF Ids
    <3>4. QED
      BY <3>1, <3>2, <3>3
  <2>2. ASSUME NEW i \in Ids, Answer(i) \/ Fail(i) \/ Release(i) \/ Report(i)
        PROVE  StartedInOrder'
    BY <2>2, <2>t DEF Answer, Fail, Release, Report, Goto
  <2>3. CASE Wait \/ UNCHANGED vars
    BY <2>3 DEF Wait, vars
  <2>4. QED
    BY <2>1, <2>2, <2>3 DEF Next
<1>3. QED
  BY <1>1, <1>2, PoolTyped, PTL DEF Spec

-------------------------------------------------------------------------------
(* The loop starts a goroutine that was not started before. *)
LEMMA StartIsFirst ==
  ASSUME TypeOK, StartedInOrder, Start PROVE next \in Ids /\ go[next] = "none"
<1>1. next \in Ids /\ next \in Nat
  BY LoopRanges DEF Start
<1>2. QED
  BY <1>1 DEF StartedInOrder

LEMMA PlacesFinite == IsFiniteSet(Placed) /\ Cardinality(Placed) \in Nat
<1>1. IsFiniteSet(Ids)
  BY PoolAssumption, FS_Interval DEF Ids
<1>2. QED
  BY <1>1, FS_Subset, FS_CardinalityType DEF Placed

(* Each element of the channel belongs to a goroutine that will take it     *)
(* out again.                                                               *)
LEMMA PlacesStayCounted == Spec => []PlacesCounted
<1>1. Init => PlacesCounted
  <2> SUFFICES ASSUME Init PROVE PlacesCounted
    OBVIOUS
  <2>1. Placed = {}
    BY DEF Init, Placed
  <2>2. QED
    BY <2>1, FS_EmptySet DEF Init, PlacesCounted
<1>2. TypeOK /\ StartedInOrder /\ PlacesCounted /\ [Next]_vars => PlacesCounted'
  <2> SUFFICES ASSUME TypeOK, StartedInOrder, PlacesCounted, [Next]_vars
               PROVE  PlacesCounted'
    OBVIOUS
  <2> USE PlacesFinite DEF PlacesCounted
  <2>t. go \in [Ids -> Points]
    BY DEF TypeOK
  <2>1. CASE Start
    <3>1. Placed' = Placed \union {next} /\ next \notin Placed
      BY <2>1, <2>t, StartIsFirst DEF Start, Goto, Placed
    <3>2. QED
      BY <2>1, <3>1, FS_AddElement DEF Start
  <2>2. ASSUME NEW i \in Ids, Answer(i) \/ Fail(i) \/ Report(i) PROVE PlacesCounted'
    <3>1. Placed' = Placed /\ sem' = sem
      BY <2>2, <2>t DEF Answer, Fail, Report, Goto, Placed
    <3>2. QED
      BY <3>1
  <2>3. ASSUME NEW i \in Ids, Release(i) PROVE PlacesCounted'
    <3>1. Placed' = Placed \ {i} /\ i \in Placed
      BY <2>3, <2>t DEF Release, Goto, Placed
    <3>2. QED
      BY <2>3, <3>1, FS_RemoveElement DEF Release
  <2>4. CASE Wait \/ UNCHANGED vars
    <3>1. Placed' = Placed /\ sem' = sem
      BY <2>4 DEF Wait, vars, Placed
    <3>2. QED
      BY <3>1
  <2>5. QED
    BY <2>1, <2>2, <2>3, <2>4 DEF Next
<1>3. QED
  BY <1>1, <1>2, PoolTyped, LoopInOrder, PTL DEF Spec

(* At most "concurrency" requests run at a time, and no goroutine blocks    *)
(* when it gives its place back.                                            *)
THEOREM PoolBounded == Spec => []Bounded
<1>1. TypeOK /\ PlacesCounted => Bounded
  <2> SUFFICES ASSUME TypeOK, PlacesCounted PROVE Bounded
    OBVIOUS
  <2>s. sem \in Nat /\ sem <= Concurrency /\ Concurrency \in Nat
    BY LoopRanges, Sizes
  <2>1. Cardinality(InFlight) <= Concurrency
    <3>1. InFlight \subseteq Placed
      BY DEF InFlight, Placed
    <3>2. Cardinality(InFlight) <= Cardinality(Placed) /\ Cardinality(InFlight) \in Nat
      BY <3>1, PlacesFinite, FS_Subset, FS_CardinalityType
    <3>3. QED
      BY <3>2, <2>s DEF PlacesCounted
  <2>2. \A i \in Ids : go[i] = "release" => sem > 0
    <3> SUFFICES ASSUME NEW i \in Ids, go[i] = "release" PROVE sem > 0
      OBVIOUS
    <3>1. i \in Placed
      BY DEF Placed
    <3>2. Cardinality(Placed) # 0
      BY <3>1, PlacesFinite, FS_EmptySet
    <3>3. QED
      BY <3>2, <2>s DEF PlacesCounted
  <2>3. QED
    BY <2>1, <2>2 DEF Bounded
<1>2. QED
  BY <1>1, PoolTyped, PlacesStayCounted, PTL

-------------------------------------------------------------------------------
LEMMA ResultsStayKept == Spec => []ResultsKept
<1>1. Init => ResultsKept
  BY DEF Init, ResultsKept
<1>2. TypeOK /\ StartedInOrder /\ ResultsKept /\ [Next]_vars => ResultsKept'
  <2> SUFFICES ASSUME TypeOK, StartedInOrder, ResultsKept, [Next]_vars
               PROVE  ResultsKept'
    OBVIOUS
  <2>l. Wait => \A i \in Ids : ~(i >= next)
    <3>1. \A i \in Ids : ~(i >= N + 1)
      BY Sizes DEF Ids
    <3>2. QED
      BY <3>1 DEF Wait
  <2> USE DEF ResultsKept
  <2>t. go \in [Ids -> Points] /\ failed \subseteq Ids
    BY DEF TypeOK
  <2>1. CASE Start
    BY <2>1, <2>t, StartIsFirst DEF Start, Goto
  <2>2. ASSUME NEW i \in Ids, Answer(i) PROVE ResultsKept'
    BY <2>2, <2>t DEF Answer, Goto
  <2>3. ASSUME NEW i \in Ids, Fail(i) PROVE ResultsKept'
    BY <2>3, <2>t DEF Fail, Goto
  <2>4. ASSUME NEW i \in Ids, Release(i) PROVE ResultsKept'
    BY <2>4, <2>t DEF Release, Goto
  <2>5. ASSUME NEW i \in Ids, Report(i) PROVE ResultsKept'
    BY <2>5, <2>t DEF Report, Goto
  \* The loop is over, so every goroutine was started, and all are done.
  <2>6. CASE Wait
    <3>1. \A i \in Ids : go[i] # "none"
      BY <2>6, <2>l DEF StartedInOrder
    <3>2. \A i \in Ids : go[i] = "done"
      BY <2>6, <3>1 DEF Wait, Started
    <3>3. QED
      BY <2>6, <3>2 DEF Wait
  <2>7. CASE UNCHANGED vars
    BY <2>7 DEF vars
  <2>8. QED
    BY <2>1, <2>2, <2>3, <2>4, <2>5, <2>6, <2>7 DEF Next
<1>3. QED
  BY <1>1, <1>2, PoolTyped, LoopInOrder, PTL DEF Spec

(* A nil error means that all metadata was read, and that no goroutine is   *)
(* left that could still write some.                                        *)
THEOREM PoolComplete == Spec => []NilMeansComplete
<1>1. TypeOK /\ ResultsKept => NilMeansComplete
  BY DEF TypeOK, ResultsKept, NilMeansComplete
<1>2. QED
  BY <1>1, PoolTyped, ResultsStayKept, PTL

-------------------------------------------------------------------------------
(* What the SDK does for the goroutines' requests keeps to the pool's       *)
(* protocol, so all that is proved of the pool holds with retries, sleeps   *)
(* and a caller's context that ends.                                        *)
THEOREM FetchKeepsThePool == FetchSpec => Spec
<1>1. FetchInit => Init
  BY DEF FetchInit
<1>2. [FetchNext]_fetchVars => [Next]_vars
  <2> SUFFICES ASSUME FetchNext PROVE Next \/ UNCHANGED vars
    BY DEF fetchVars
  <2>1. CASE Call \/ WaitReturns \/ CtxDone \/ Tick
    BY <2>1 DEF Call, WaitReturns, CtxDone, Tick, Next
  <2>2. ASSUME NEW i \in Ids,
               \/ Answered(i) \/ NextAttempt(i) \/ Cancelled(i)
               \/ ReleasePlace(i) \/ ReportError(i)
        PROVE  Next \/ UNCHANGED vars
    BY <2>2 DEF Answered, NextAttempt, Cancelled, ReleasePlace, ReportError, Next
  <2>3. ASSUME NEW i \in Ids, NEW e \in Errors, AttemptFails(i, e)
        PROVE  Next \/ UNCHANGED vars
    BY <2>3 DEF AttemptFails, Next
  <2>4. QED
    BY <2>1, <2>2, <2>3 DEF FetchNext
<1>3. QED
  BY <1>1, <1>2, PTL DEF FetchSpec, Spec

(* A key at its second attempt has met an error at its first; and as soon   *)
(* as any call fails, there is a reason.                                    *)
AttemptsMeetErrors ==
    /\ at \in [Ids -> {"none", "flight", "backoff"}]
    /\ attempt \in [Ids -> {0, 1, 2}]
    /\ met \in [Ids -> Met]
    /\ \A i \in Ids : at[i] = "flight"
                      => attempt[i] = 1 \/ (attempt[i] = 2 /\ met[i] # "nothing")
    /\ \A i \in Ids : at[i] = "backoff" => attempt[i] = 1 /\ met[i] # "nothing"

FailuresHaveReasons ==
    /\ failed # {} => ctxDone \/ \E i \in Ids : met[i] \in {"connection", "final"}
    /\ err => failed # {}

(* The default strategy tries again after a first, transient error only.    *)
LEMMA StandardTriesTwice ==
  ASSUME NEW a \in {1, 2}, NEW e \in Errors
  PROVE  IF TriesAgain(Standard, a, e)
         THEN a = 1 ELSE a = 2 \/ e \in {"connection reset", "other"}
<1>1. Standard.maxAttempts = 2
      /\ Standard.retryable = {"5xx", "429", "409", "connection refused"}
  BY DEF Standard
<1>2. a < 2 <=> a = 1
  OBVIOUS
<1>3. e \in {"connection reset", "other"} \/ e \in Standard.retryable
  BY <1>1 DEF Errors
<1>4. QED
  BY <1>1, <1>2, <1>3 DEF TriesAgain, IsErrorRetryable

LEMMA ErrorsAreMet ==
  ASSUME Strategy = Standard PROVE FetchSpec => []AttemptsMeetErrors
<1>1. FetchInit => AttemptsMeetErrors
  BY DEF FetchInit, AttemptsMeetErrors, Met
<1>2. TypeOK /\ AttemptsMeetErrors /\ [FetchNext]_fetchVars => AttemptsMeetErrors'
  <2> SUFFICES ASSUME TypeOK, AttemptsMeetErrors, [FetchNext]_fetchVars
               PROVE  AttemptsMeetErrors'
    OBVIOUS
  <2> USE DEF AttemptsMeetErrors
  <2>1. CASE Call
    BY <2>1 DEF Call
  <2>2. ASSUME NEW i \in Ids, at[i] # "none", End(i), met' = met
        PROVE  AttemptsMeetErrors'
    BY <2>2 DEF End
  <2>3. ASSUME NEW i \in Ids, NEW e \in Errors, AttemptFails(i, e)
        PROVE  AttemptsMeetErrors'
    <3>1. attempt[i] \in {1, 2} /\ at[i] = "flight"
      BY <2>3 DEF AttemptFails
    <3>2. /\ met' = [met EXCEPT ![i] = Meets(met[i], e)]
          /\ Meets(met[i], e) \in Met \ {"nothing"}
      BY <2>3 DEF AttemptFails, Meets, Met
    <3>3. CASE TriesAgain(Strategy, attempt[i], e)
      <4>1. attempt[i] = 1
        BY <3>1, <3>3, StandardTriesTwice
      <4>2. at' = [at EXCEPT ![i] = "backoff"] /\ attempt' = attempt
        BY <2>3, <3>3 DEF AttemptFails
      <4>3. QED
        BY <3>2, <4>1, <4>2
    <3>4. CASE ~TriesAgain(Strategy, attempt[i], e)
      <4>1. End(i)
        BY <2>3, <3>4 DEF AttemptFails
      <4>2. QED
        BY <3>2, <4>1 DEF End
    <3>5. QED
      BY <3>3, <3>4
  <2>4. ASSUME NEW i \in Ids, NextAttempt(i) PROVE AttemptsMeetErrors'
    <3>1. /\ at[i] = "backoff" /\ at' = [at EXCEPT ![i] = "flight"]
          /\ attempt' = [attempt EXCEPT ![i] = attempt[i] + 1] /\ met' = met
      BY <2>4 DEF NextAttempt
    <3>2. attempt[i] = 1 /\ met[i] # "nothing"
      BY <3>1
    <3>3. attempt' = [attempt EXCEPT ![i] = 2]
      BY <3>1, <3>2
    <3>4. QED
      BY <3>1, <3>2, <3>3
  <2>5. CASE UNCHANGED <<at, attempt, met>>
    BY <2>5
  <2>6. QED
    <3>1. ASSUME NEW i \in Ids, Answered(i) \/ Cancelled(i)
          PROVE  at[i] # "none" /\ End(i) /\ met' = met
      BY <3>1 DEF Answered, Cancelled
    <3>2. ASSUME NEW i \in Ids, ReleasePlace(i) \/ ReportError(i)
          PROVE  UNCHANGED <<at, attempt, met>>
      BY <3>2 DEF ReleasePlace, ReportError, sdk
    <3>3. ASSUME WaitReturns \/ CtxDone \/ Tick \/ UNCHANGED fetchVars
          PROVE  UNCHANGED <<at, attempt, met>>
      BY <3>3 DEF WaitReturns, CtxDone, Tick, fetchVars, sdk
    <3>4. QED
      BY <2>1, <2>2, <2>3, <2>4, <2>5, <3>1, <3>2, <3>3 DEF FetchNext
<1>3. QED
  BY <1>1, <1>2, FetchKeepsThePool, PoolTyped, PTL DEF FetchSpec

(* With the default strategy, fetchKeyMetas fails only when its context is  *)
(* done, or a key's reads failed twice, or with an error that its           *)
(* IsRetryable does not take, connection errors but refused ones included.  *)
THEOREM FetchFailsForAReason ==
  Strategy = Standard => (FetchSpec => []FailsForAReason)
<1> SUFFICES ASSUME Strategy = Standard PROVE FetchSpec => []FailsForAReason
  OBVIOUS
<1>1. FetchInit => FailuresHaveReasons
  BY DEF FetchInit, Init, FailuresHaveReasons
<1>2. TypeOK /\ AttemptsMeetErrors /\ FailuresHaveReasons /\ [FetchNext]_fetchVars
      => FailuresHaveReasons'
  <2> SUFFICES ASSUME TypeOK, AttemptsMeetErrors, FailuresHaveReasons,
                      [FetchNext]_fetchVars
               PROVE  FailuresHaveReasons'
    OBVIOUS
  <2> USE DEF FailuresHaveReasons
  <2>t. failed \subseteq Ids /\ err \in BOOLEAN
    BY DEF TypeOK
  <2>m. met \in [Ids -> Met]
    BY DEF AttemptsMeetErrors
  <2>1. CASE Call
    BY <2>1 DEF Call, Start, sdk
  <2>2. ASSUME NEW i \in Ids, Answered(i) PROVE FailuresHaveReasons'
    BY <2>2 DEF Answered, Answer, End
  <2>3. ASSUME NEW i \in Ids, NEW e \in Errors, AttemptFails(i, e)
        PROVE  FailuresHaveReasons'
    <3>1. met' = [met EXCEPT ![i] = Meets(met[i], e)] /\ at[i] = "flight"
      BY <2>3 DEF AttemptFails
    <3>2. CASE TriesAgain(Strategy, attempt[i], e)
      <4>1. UNCHANGED <<failed, err, ctxDone>>
        BY <2>3, <3>2 DEF AttemptFails, vars
      \* A reason stays one.
      <4>2. \A j \in Ids : met[j] \in {"connection", "final"}
                          => met'[j] \in {"connection", "final"}
        BY <3>1, <2>m DEF Meets
      <4>3. QED
        BY <4>1, <4>2
    <3>3. CASE ~TriesAgain(Strategy, attempt[i], e)
      <4>1. attempt[i] = 1 \/ (attempt[i] = 2 /\ met[i] # "nothing")
        BY <3>1 DEF AttemptsMeetErrors
      <4>2. attempt[i] \in {1, 2} /\ (attempt[i] = 2 => met[i] # "nothing")
        BY <4>1
      <4>3. met[i] # "nothing" \/ e \in {"connection reset", "other"}
        BY <3>3, <4>2, StandardTriesTwice
      <4>4. Meets(met[i], e) \in {"connection", "final"}
        BY <4>3 DEF Meets
      <4>5. met'[i] \in {"connection", "final"}
        BY <3>1, <4>4, <2>m
      <4>6. failed' = failed \union {i} /\ err' = err
        BY <2>3, <3>3 DEF AttemptFails, Fail
      <4>7. QED
        BY <4>5, <4>6
    <3>4. QED
      BY <3>2, <3>3
  <2>4. ASSUME NEW i \in Ids, NextAttempt(i) PROVE FailuresHaveReasons'
    BY <2>4 DEF NextAttempt, vars
  \* A cancelled call fails for the reason that ended its context.
  <2>5. ASSUME NEW i \in Ids, Cancelled(i) PROVE FailuresHaveReasons'
    BY <2>5 DEF Cancelled, EgCtxDone, Fail, End
  <2>6. ASSUME NEW i \in Ids, ReleasePlace(i) \/ ReportError(i)
        PROVE  FailuresHaveReasons'
    BY <2>6, <2>t DEF ReleasePlace, ReportError, Release, Report, sdk
  <2>7. ASSUME WaitReturns \/ CtxDone \/ Tick \/ UNCHANGED fetchVars
        PROVE  FailuresHaveReasons'
    <3>1. UNCHANGED <<failed, err, met>>
      BY <2>7 DEF WaitReturns, Wait, CtxDone, Tick, fetchVars, vars, sdk
    <3>2. ctxDone => ctxDone'
      BY <2>7 DEF WaitReturns, CtxDone, Tick, fetchVars
    <3>3. QED
      BY <3>1, <3>2
  <2>8. QED
    BY <2>1, <2>2, <2>3, <2>4, <2>5, <2>6, <2>7 DEF FetchNext
<1>3. FailuresHaveReasons => FailsForAReason
  BY DEF FailuresHaveReasons, FailsForAReason
<1>4. QED
  BY <1>1, <1>2, <1>3, FetchKeepsThePool, PoolTyped, ErrorsAreMet, PTL DEF FetchSpec

-------------------------------------------------------------------------------
(* A call is in flight or sleeps exactly while its goroutine's request      *)
(* runs, and it sleeps no longer than the strategy says, at an attempt that *)
(* is not its last.                                                         *)
CallOK(i) == /\ sleep[i] \in 0 .. RetryDelay(Strategy, attempt[i])
             /\ at[i] # "none" <=> go[i] = "request"
             /\ at[i] = "none" => attempt[i] = 0
             /\ at[i] = "backoff" => attempt[i] < Strategy.maxAttempts

CallsOK == /\ at \in [Ids -> {"none", "flight", "backoff"}]
           /\ attempt \in [Ids -> 0 .. Strategy.maxAttempts]
           /\ sleep \in [Ids -> Nat]
           /\ met \in [Ids -> Met]
           /\ ctxDone \in BOOLEAN
           /\ \A i \in Ids : CallOK(i)

(* A delay is a number, and there is none to wait before the first attempt. *)
LEMMA Delays ==
  /\ Strategy.maxAttempts \in Nat /\ Strategy.maxAttempts > 0
  /\ \A a \in 0 .. Strategy.maxAttempts : RetryDelay(Strategy, a) \in Nat
  /\ RetryDelay(Strategy, 0) = 0
BY StrategyAssumption DEF RetryDelay

(* One goroutine moves; the others' calls stay as they are. *)
LEMMA OneCallMoves ==
  ASSUME CallsOK, NEW i \in Ids, NEW a, NEW n, NEW d, NEW m,
         at' = [at EXCEPT ![i] = a], attempt' = [attempt EXCEPT ![i] = n],
         sleep' = [sleep EXCEPT ![i] = d], met' = [met EXCEPT ![i] = m],
         \A j \in Ids : j # i => go'[j] = go[j],
         ctxDone' = ctxDone,
         a \in {"none", "flight", "backoff"}, n \in 0 .. Strategy.maxAttempts,
         d \in 0 .. RetryDelay(Strategy, n), m \in Met,
         a # "none" <=> go'[i] = "request", a = "none" => n = 0,
         a = "backoff" => n < Strategy.maxAttempts
  PROVE  CallsOK'
<1>1. /\ at' \in [Ids -> {"none", "flight", "backoff"}]
      /\ attempt' \in [Ids -> 0 .. Strategy.maxAttempts]
      /\ sleep' \in [Ids -> Nat] /\ met' \in [Ids -> Met]
      /\ ctxDone' \in BOOLEAN
  BY Delays DEF CallsOK
<1>2. at'[i] = a /\ attempt'[i] = n /\ sleep'[i] = d
  BY DEF CallsOK
<1>3. ASSUME NEW j \in Ids, j # i
      PROVE  at'[j] = at[j] /\ attempt'[j] = attempt[j] /\ sleep'[j] = sleep[j]
  BY <1>3 DEF CallsOK
<1>4. ASSUME NEW j \in Ids PROVE CallOK(j)'
  <2>1. CASE j = i
    BY <1>2, <2>1 DEF CallOK
  <2>2. CASE j # i
    BY <1>3, <2>2 DEF CallsOK, CallOK
  <2>3. QED
    BY <2>1, <2>2
<1>5. QED
  BY <1>1, <1>4 DEF CallsOK

LEMMA StepKeepsCalls ==
  ASSUME TypeOK, StartedInOrder, CallsOK, [FetchNext]_fetchVars PROVE CallsOK'
<1>t. go \in [Ids -> Points]
  BY DEF TypeOK
<1>f. ASSUME NEW i \in Ids
      PROVE  /\ sleep = [sleep EXCEPT ![i] = sleep[i]] /\ met = [met EXCEPT ![i] = met[i]]
             /\ attempt = [attempt EXCEPT ![i] = attempt[i]]
             /\ attempt[i] \in Nat /\ met[i] \in Met
             /\ attempt[i] \in 0 .. Strategy.maxAttempts
             /\ sleep[i] \in 0 .. RetryDelay(Strategy, attempt[i])
  BY Delays DEF CallsOK, CallOK
\* A goroutine that is started has no call yet.
<1>1. CASE Call
  <2>1. next \in Ids /\ go[next] = "none" /\ go' = [go EXCEPT ![next] = "request"]
    BY <1>1, StartIsFirst DEF Call, Start, Goto
  <2>2. /\ sleep[next] = 0 /\ 1 \in 0 .. Strategy.maxAttempts
        /\ 0 \in 0 .. RetryDelay(Strategy, 1)
    BY <2>1, Delays DEF CallsOK, CallOK
  <2>3. QED
    BY <1>1, <1>t, <1>f, <2>1, <2>2, OneCallMoves DEF Call
\* A call that ends leaves its goroutine to release its place.
<1>2. ASSUME NEW i \in Ids, at[i] # "none", End(i), go' = [go EXCEPT ![i] = "release"],
             NEW m \in Met, met' = [met EXCEPT ![i] = m]
      PROVE  CallsOK'
  <2>1. 0 \in 0 .. Strategy.maxAttempts /\ 0 \in 0 .. RetryDelay(Strategy, 0)
    BY Delays
  <2>2. QED
    BY <1>2, <1>t, <2>1, OneCallMoves DEF End
<1>3. ASSUME NEW i \in Ids, Answered(i) \/ Cancelled(i) PROVE CallsOK'
  <2>1. at[i] # "none" /\ End(i) /\ met' = met /\ go' = [go EXCEPT ![i] = "release"]
    BY <1>3 DEF Answered, Cancelled, Answer, Fail, Goto
  <2>2. QED
    BY <1>2, <1>f, <2>1
<1>4. ASSUME NEW i \in Ids, NEW e \in Errors, AttemptFails(i, e) PROVE CallsOK'
  <2>1. /\ met' = [met EXCEPT ![i] = Meets(met[i], e)] /\ at[i] = "flight"
        /\ Meets(met[i], e) \in Met
    BY <1>4 DEF AttemptFails, Meets, Met
  <2>2. CASE TriesAgain(Strategy, attempt[i], e)
    <3>1. /\ at' = [at EXCEPT ![i] = "backoff"]
          /\ sleep' = [sleep EXCEPT ![i] = RetryDelay(Strategy, attempt[i])]
          /\ go' = go /\ attempt' = attempt /\ ctxDone' = ctxDone
      BY <1>4, <2>2 DEF AttemptFails, vars
    <3>2. attempt[i] < Strategy.maxAttempts /\ go[i] = "request"
      BY <2>1, <2>2 DEF TriesAgain, CallsOK, CallOK
    <3>3. RetryDelay(Strategy, attempt[i]) \in 0 .. RetryDelay(Strategy, attempt[i])
      BY <1>f, Delays
    <3>4. QED
      BY <1>f, <2>1, <3>1, <3>2, <3>3, OneCallMoves
  <2>3. CASE ~TriesAgain(Strategy, attempt[i], e)
    <3>1. End(i) /\ go' = [go EXCEPT ![i] = "release"]
      BY <1>4, <2>3 DEF AttemptFails, Fail, Goto
    <3>2. QED
      BY <1>2, <2>1, <3>1
  <2>4. QED
    BY <2>2, <2>3
<1>5. ASSUME NEW i \in Ids, NextAttempt(i) PROVE CallsOK'
  <2>1. /\ at[i] = "backoff" /\ sleep[i] = 0 /\ at' = [at EXCEPT ![i] = "flight"]
        /\ attempt' = [attempt EXCEPT ![i] = attempt[i] + 1]
        /\ sleep' = sleep /\ met' = met /\ ctxDone' = ctxDone /\ go' = go
    BY <1>5 DEF NextAttempt, vars
  <2>2. attempt[i] + 1 \in 0 .. Strategy.maxAttempts /\ go[i] = "request"
    BY <1>f, <2>1, Delays DEF CallsOK, CallOK
  <2>3. 0 \in 0 .. RetryDelay(Strategy, attempt[i] + 1)
    BY <2>2, Delays
  <2>4. sleep' = [sleep EXCEPT ![i] = 0] /\ met' = [met EXCEPT ![i] = met[i]]
    BY <1>f, <2>1
  <2> DEFINE n == attempt[i] + 1
             m == met[i]
  <2>5. /\ attempt' = [attempt EXCEPT ![i] = n] /\ met' = [met EXCEPT ![i] = m]
        /\ n \in 0 .. Strategy.maxAttempts /\ 0 \in 0 .. RetryDelay(Strategy, n)
        /\ m \in Met
        /\ go'[i] = "request" /\ \A j \in Ids : go'[j] = go[j]
    BY <1>f, <2>1, <2>2, <2>3, <2>4
  <2> HIDE DEF n, m
  <2>6. at' = [at EXCEPT ![i] = "flight"] /\ ctxDone' = ctxDone
    BY <2>1
  <2>7. QED
    BY <2>4, <2>5, <2>6, OneCallMoves
<1>6. ASSUME NEW i \in Ids, ReleasePlace(i) \/ ReportError(i) PROVE CallsOK'
  <2>1. /\ UNCHANGED <<at, attempt, sleep, met, ctxDone>>
        /\ \A j \in Ids : go'[j] = "request" <=> go[j] = "request"
    BY <1>6, <1>t DEF ReleasePlace, ReportError, Release, Report, Goto, sdk
  <2>2. QED
    BY <2>1 DEF CallsOK, CallOK
<1>7. CASE Tick
  <2>1. /\ UNCHANGED <<at, attempt, met, ctxDone, go>>
        /\ sleep' = [i \in Ids |-> IF sleep[i] > 0 THEN sleep[i] - 1 ELSE 0]
    BY <1>7 DEF Tick, vars
  <2>2. ASSUME NEW i \in Ids PROVE sleep'[i] \in 0 .. RetryDelay(Strategy, attempt[i])
    BY <1>f, <2>1, Delays
  <2>3. sleep' \in [Ids -> Nat]
    BY <2>1 DEF CallsOK
  <2>4. QED
    BY <2>1, <2>2, <2>3 DEF CallsOK, CallOK
<1>8. CASE WaitReturns \/ CtxDone \/ UNCHANGED fetchVars
  <2>1. UNCHANGED <<at, attempt, sleep, met, go>> /\ ctxDone' \in BOOLEAN
    BY <1>8 DEF WaitReturns, Wait, CtxDone, fetchVars, vars, sdk, CallsOK
  <2>2. QED
    BY <2>1 DEF CallsOK, CallOK
<1>9. QED
  BY <1>1, <1>3, <1>4, <1>5, <1>6, <1>7, <1>8 DEF FetchNext

(* Whatever the strategy, no call makes more attempts than it allows or     *)
(* sleeps longer than it says, and none outlives its goroutine's request.   *)
THEOREM FetchTyped == FetchSpec => []FetchTypeOK
<1>1. FetchInit => CallsOK
  <2>1. 0 \in 0 .. Strategy.maxAttempts /\ 0 \in 0 .. RetryDelay(Strategy, 0)
    BY Delays
  <2> SUFFICES ASSUME FetchInit PROVE CallsOK
    OBVIOUS
  <2>2. ASSUME NEW i \in Ids PROVE CallOK(i)
    <3>1. at[i] = "none" /\ attempt[i] = 0 /\ sleep[i] = 0 /\ go[i] = "none"
      BY DEF FetchInit, Init
    <3>2. QED
      BY <2>1, <3>1 DEF CallOK
  <2>3. QED
    BY <2>1, <2>2 DEF FetchInit, CallsOK, Met
<1>2. TypeOK /\ StartedInOrder /\ CallsOK /\ [FetchNext]_fetchVars => CallsOK'
  BY StepKeepsCalls
<1>3. TypeOK /\ CallsOK => FetchTypeOK
  BY DEF CallsOK, CallOK, FetchTypeOK
<1>4. QED
  BY <1>1, <1>2, <1>3, FetchKeepsThePool, PoolTyped, LoopInOrder, PTL DEF FetchSpec
===============================================================================
