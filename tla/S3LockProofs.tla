----------------------------- MODULE S3LockProofs -----------------------------
(***************************************************************************)
(* Proofs about S3Lock, for any number of clients, any timeouts and any     *)
(* number of faults.                                                        *)
(***************************************************************************)
EXTENDS S3Lock, TLAPS

(* What a step must keep of TypeOK: the clients' part, and the bucket's. *)
ClientsOK == /\ pc \in [Clients -> Points]
             /\ call \in [Clients -> Calls]
             /\ request \in [Clients -> Requests]

BucketOK == /\ owner \in Clients \union {None}
            /\ expires \in Int
            /\ faults \in 0..MaxFaults

HistoryOK == /\ deleted \in SUBSET Clients
             /\ repeated \in BOOLEAN
             /\ \A c \in deleted : pc[c] \in {"release", "failed"}

-------------------------------------------------------------------------------
(* The ways in which a step changes a client keep its variables in range.   *)

(* The values of a client that is in no call. *)
LEMMA IdleValues == NoCall \in Calls /\ NoRequest \in Requests
BY LockAssumption DEF NoCall, Calls, NoRequest, NewRequest, Requests

(* The end of a call. *)
LEMMA LeaveTyped ==
  ASSUME ClientsOK, NEW c \in Clients, NEW point \in Points, Leave(c, point)
  PROVE  ClientsOK'
BY IdleValues DEF ClientsOK, Leave

(* The next request of a call. *)
LEMMA GotoTyped ==
  ASSUME ClientsOK, NEW c \in Clients, NEW point \in Points, Goto(c, point)
  PROVE  ClientsOK'
BY IdleValues DEF ClientsOK, Goto

(* The next attempt at a request. *)
LEMMA RetryTyped ==
  ASSUME ClientsOK, NEW c \in Clients, Retry(c)
  PROVE  ClientsOK'
BY LockAssumption DEF ClientsOK, Requests, Retry

(* The next attempt at a request, or the end of its call. *)
LEMMA RetryOrTyped ==
  ASSUME ClientsOK, NEW c \in Clients, NEW point \in Points, RetryOr(c, point)
  PROVE  ClientsOK'
BY RetryTyped, LeaveTyped DEF RetryOr

(* GetLock's "lock already exists". *)
LEMMA LockExistsTyped ==
  ASSUME ClientsOK, NEW c \in Clients, LockExists(c)
  PROVE  ClientsOK'
<1>1. "backoff" \in Points /\ "idle" \in Points
  BY DEF Points
<1>2. CASE /\ pc' = [pc EXCEPT ![c] = "backoff"]
           /\ call' = [call EXCEPT ![c].sleep = call[c].backoff]
           /\ request' = [request EXCEPT ![c] = NoRequest]
  <2>1. call' \in [Clients -> Calls]
    BY <1>2, LockAssumption DEF ClientsOK, Calls
  <2>2. QED
    BY <1>1, <1>2, <2>1, IdleValues DEF ClientsOK
<1>3. QED
  BY <1>1, <1>2, LeaveTyped DEF LockExists

(* The PutObject of a new GetLock. *)
LEMMA SendPutTyped ==
  ASSUME ClientsOK, NEW c \in Clients, SendPut(c)
  PROVE  /\ pc' \in [Clients -> Points]
         /\ request' \in [Clients -> Requests]
<1>1. \A ttl \in ExpiryTimes : NewRequest(ttl) \in Requests
  BY LockAssumption DEF ExpiryTimes, NewRequest, Requests
<1>2. QED
  BY <1>1 DEF SendPut, ClientsOK, Points

-------------------------------------------------------------------------------
(* The history of releases: a client is in deleted only from the execution  *)
(* of its release to the end of that release.                               *)
LEMMA HistoryTyped ==
  ASSUME ClientsOK, HistoryOK, [Next]_vars
  PROVE  HistoryOK'
<1> USE DEF HistoryOK
<1>t. pc \in [Clients -> Points]
  BY DEF ClientsOK
<1>1. ASSUME NEW c \in Clients, GetLock(c) \/ GetLockWait(c) \/ Wake(c)
      PROVE  HistoryOK'
  BY <1>1, <1>t DEF GetLock, GetLockWait, Wake, SendPut, history
<1>2. ASSUME NEW c \in Clients,
             \/ PutSucceeds(c) \/ PutAnswerLost(c) \/ PutFails(c) \/ PutConflicts(c)
      PROVE  HistoryOK'
  BY <1>2, <1>t DEF PutSucceeds, PutAnswerLost, PutFails, PutConflicts, CreateLock, RetryOr,
                    Retry, Leave, Goto, history
<1>3. ASSUME NEW c \in Clients, HeadSucceeds(c) \/ HeadFindsNothing(c) \/ HeadFails(c)
      PROVE  HistoryOK'
  BY <1>3, <1>t DEF HeadSucceeds, HeadFindsNothing, HeadFails, LockExists, Retry, Leave, Goto,
                    history
<1>4. ASSUME NEW c \in Clients, Cancel(c) \/ ReleaseLock(c) \/ GiveUp(c) \/ Crash(c)
      PROVE  HistoryOK'
  BY <1>4, <1>t DEF Cancel, ReleaseLock, GiveUp, Crash, Leave, history
<1>5. ASSUME NEW c \in Clients, DeleteSucceeds(c) PROVE HistoryOK'
  BY <1>5, <1>t DEF DeleteSucceeds, DeleteLock, LockExists, Leave
<1>6. ASSUME NEW c \in Clients, DeleteAnswerLost(c) \/ DeleteFails(c) PROVE HistoryOK'
  BY <1>6, <1>t DEF DeleteAnswerLost, DeleteFails, DeleteUnanswered, Deleting, DeleteLock,
                    LockExists, Retry, Leave, history
<1>7. CASE Tick \/ UNCHANGED vars
  BY <1>7 DEF Tick, vars, history
<1>8. QED
  BY <1>1, <1>2, <1>3, <1>4, <1>5, <1>6, <1>7 DEF Next, Acquiring, Releasing

(* What the lock's variables may hold: in particular GetLockWait's backoff  *)
(* stays within maxBackoff and the SDK within its attempts.                 *)
THEOREM TypeCorrect == Spec => []TypeOK
<1>1. Init => TypeOK
  <2> SUFFICES ASSUME Init PROVE TypeOK
    OBVIOUS
  <2>1. /\ pc \in [Clients -> Points] /\ call \in [Clients -> Calls]
        /\ request \in [Clients -> Requests]
    BY IdleValues DEF Init, Points
  <2>2. owner \in Clients \union {None} /\ expires \in Int /\ deleted \in SUBSET Clients
    BY DEF Init
  <2>3. repeated \in BOOLEAN
    BY Zenon DEF Init
  <2>4. faults \in 0..MaxFaults
    <3>1. faults = 0 /\ MaxFaults \in Nat
      BY LockAssumption DEF Init
    <3>2. QED
      BY <3>1
  <2>5. \A c \in deleted : pc[c] \in {"release", "failed"}
    BY DEF Init
  <2>6. QED
    BY <2>1, <2>2, <2>5, <2>4, <2>3 DEF TypeOK
<1>2. TypeOK /\ [Next]_vars => TypeOK'
  <2> SUFFICES ASSUME ClientsOK, BucketOK, HistoryOK, [Next]_vars
               PROVE  ClientsOK' /\ BucketOK' /\ HistoryOK'
    BY DEF TypeOK, ClientsOK, BucketOK, HistoryOK
  <2>a. \A p \in {"idle", "put", "head", "reclaim", "held", "release", "failed"} :
           p \in Points
    BY DEF Points
  <2>1. ASSUME NEW c \in Clients, GetLock(c) \/ GetLockWait(c) \/ Wake(c)
        PROVE  ClientsOK' /\ BucketOK'
    <3>1. SendPut(c) /\ UNCHANGED <<owner, expires, faults>>
      BY <2>1 DEF GetLock, GetLockWait, Wake
    <3>2. CASE GetLock(c)
      BY <3>1, <3>2, SendPutTyped DEF GetLock, ClientsOK, BucketOK
    <3>3. CASE GetLockWait(c)
      <4>1. call' \in [Clients -> Calls]
        BY <3>3, LockAssumption DEF GetLockWait, ClientsOK, Calls
      <4>2. QED
        BY <3>1, <4>1, SendPutTyped DEF ClientsOK, BucketOK
    <3>4. CASE Wake(c)
      <4>1. call' \in [Clients -> Calls]
        BY <3>4, LockAssumption DEF Wake, ClientsOK, Calls
      <4>2. QED
        BY <3>1, <4>1, SendPutTyped DEF ClientsOK, BucketOK
    <3>5. QED
      BY <2>1, <3>2, <3>3, <3>4
  <2>2. ASSUME NEW c \in Clients,
               \/ PutSucceeds(c) \/ PutAnswerLost(c) \/ PutFails(c) \/ PutConflicts(c)
        PROVE  ClientsOK' /\ BucketOK'
    <3>1. ClientsOK'
      BY <2>2, <2>a, LeaveTyped, GotoTyped, RetryOrTyped
      DEF PutSucceeds, PutAnswerLost, PutFails, PutConflicts
    <3>2. request[c].ttl \in Int
      BY DEF ClientsOK, Requests
    <3>3. BucketOK'
      BY <2>2, <3>2, LockAssumption
      DEF PutSucceeds, PutAnswerLost, PutFails, PutConflicts, CreateLock, Fault, BucketOK
    <3>4. QED
      BY <3>1, <3>3
  <2>3. ASSUME NEW c \in Clients,
               HeadSucceeds(c) \/ HeadFindsNothing(c) \/ HeadFails(c)
        PROVE  ClientsOK' /\ BucketOK'
    <3>1. ClientsOK'
      BY <2>3, <2>a, GotoTyped, RetryTyped, LockExistsTyped
      DEF HeadSucceeds, HeadFindsNothing, HeadFails
    <3>2. BucketOK'
      BY <2>3, LockAssumption
      DEF HeadSucceeds, HeadFindsNothing, HeadFails, Fault, BucketOK
    <3>3. QED
      BY <3>1, <3>2
  <2>4. ASSUME NEW c \in Clients,
               Cancel(c) \/ ReleaseLock(c) \/ Releasing(c) \/ GiveUp(c) \/ Crash(c)
        PROVE  ClientsOK' /\ BucketOK'
    <3>1. ClientsOK'
      BY <2>4, <2>a, LeaveTyped, RetryTyped, LockExistsTyped
      DEF Cancel, ReleaseLock, Releasing, DeleteSucceeds, DeleteUnanswered,
          DeleteAnswerLost, DeleteFails, GiveUp, Crash
    <3>2. BucketOK'
      BY <2>4, LockAssumption
      DEF Cancel, ReleaseLock, Releasing, DeleteSucceeds, DeleteUnanswered,
          DeleteAnswerLost, DeleteFails, DeleteLock, GiveUp, Crash, Fault, BucketOK
    <3>3. QED
      BY <3>1, <3>2
  <2>5. ASSUME Tick PROVE ClientsOK' /\ BucketOK'
    <3>1. call' \in [Clients -> Calls]
      BY <2>5, LockAssumption DEF Tick, Pass, ClientsOK, Calls
    <3>2. request' \in [Clients -> Requests]
      BY <2>5, LockAssumption DEF Tick, Pass, ClientsOK, Requests
    <3>3. QED
      BY <2>5, <3>1, <3>2 DEF Tick, Pass, ClientsOK, BucketOK
  <2>6. ASSUME UNCHANGED vars PROVE ClientsOK' /\ BucketOK'
    BY <2>6 DEF vars, ClientsOK, BucketOK
  <2>7. HistoryOK'
    BY HistoryTyped
  <2>8. QED
    BY <2>1, <2>2, <2>3, <2>4, <2>5, <2>6, <2>7 DEF Next, Acquiring
<1>3. QED
  BY <1>1, <1>2, PTL DEF Spec
-------------------------------------------------------------------------------
(* Without lock-expires in the metadata no lock is reclaimed. *)
LEMMA NothingExpires == ~LockIsExpired(HeadMetadata)
BY DEF LockIsExpired, HeadMetadata

(* What happened stays. *)
LEMMA RepeatedStays ==
  ASSUME TypeOK, [Next]_vars, ~repeated'
  PROVE  ~repeated
BY DEF TypeOK, Next, GetLock, GetLockWait, Acquiring, PutSucceeds, PutAnswerLost, PutFails,
       PutConflicts, CreateLock, HeadSucceeds, HeadFindsNothing, HeadFails, Wake, Cancel,
       ReleaseLock, Releasing, DeleteSucceeds, DeleteAnswerLost, DeleteFails, DeleteLock,
       GiveUp, Crash, Tick, vars, history

(* Until a release is executed twice, the clients that have the lock, or    *)
(* whose release is still to be executed, are those whose object is in the  *)
(* bucket.                                                                  *)
THEOREM HoldersOwnTheLock == Spec => []HoldersOwn
<1>1. Init => HoldersOwn
  BY DEF Init, HoldersOwn
<1>2. TypeOK /\ HoldersOwn /\ [Next]_vars => HoldersOwn'
  <2> SUFFICES ASSUME TypeOK, HoldersOwn, [Next]_vars, ~repeated' PROVE HoldersOwn'
    BY DEF HoldersOwn
  <2> USE DEF HoldersOwn
  <2>t. /\ pc \in [Clients -> Points] /\ owner \in Clients \union {None}
        /\ request \in [Clients -> Requests]
        /\ deleted \in SUBSET Clients /\ None \notin Clients
    BY LockAssumption DEF TypeOK
  <2>r. ~repeated
    BY RepeatedStays
  <2>1. ASSUME NEW c \in Clients, GetLock(c) \/ GetLockWait(c) \/ Wake(c)
        PROVE  HoldersOwn'
    BY <2>1, <2>r, <2>t DEF GetLock, GetLockWait, Wake, SendPut, history
  \* The object is c's own only after a put that found none.
  <2>2. ASSUME NEW c \in Clients, PutSucceeds(c) \/ PutAnswerLost(c)
        PROVE  HoldersOwn'
    BY <2>2, <2>r, <2>t
    DEF PutSucceeds, PutAnswerLost, CreateLock, Leave, RetryOr, Retry, history
  <2>3. ASSUME NEW c \in Clients, PutFails(c) \/ PutConflicts(c)
        PROVE  HoldersOwn'
    BY <2>3, <2>r, <2>t DEF PutFails, PutConflicts, Goto, Leave, RetryOr, Retry, history
  <2>4. ASSUME NEW c \in Clients, HeadSucceeds(c) \/ HeadFindsNothing(c) \/ HeadFails(c)
        PROVE  HoldersOwn'
    <3>1. /\ pc[c] = "head" /\ UNCHANGED <<owner, history>>
          /\ Retry(c) \/ LockExists(c)
      BY <2>4, NothingExpires DEF HeadSucceeds, HeadFindsNothing, HeadFails
    <3>2. QED
      BY <3>1, <2>r, <2>t DEF Retry, LockExists, Leave, history
  <2>5. ASSUME NEW c \in Clients, Cancel(c) \/ GiveUp(c) \/ Crash(c)
        PROVE  HoldersOwn'
    BY <2>5, <2>r, <2>t DEF Cancel, GiveUp, Crash, Leave, history
  <2>6. ASSUME NEW c \in Clients, ReleaseLock(c) PROVE HoldersOwn'
    BY <2>6, <2>r, <2>t DEF ReleaseLock, Leave, history
  \* The first execution of c's release deletes c's own object, which nobody
  \* else has.
  <2>7. ASSUME NEW c \in Clients, DeleteLock(c)
        PROVE  pc[c] = "release" /\ owner = c /\ owner' = None
    BY <2>7, <2>r, <2>t DEF DeleteLock, Deleting
  <2>8. ASSUME NEW c \in Clients, DeleteSucceeds(c) PROVE HoldersOwn'
    BY <2>7, <2>8, <2>r, <2>t DEF DeleteSucceeds, Leave
  <2>9. ASSUME NEW c \in Clients, DeleteAnswerLost(c) PROVE HoldersOwn'
    BY <2>7, <2>9, <2>r, <2>t DEF DeleteAnswerLost, DeleteUnanswered, Retry, Leave
  <2>10. ASSUME NEW c \in Clients, DeleteFails(c) PROVE HoldersOwn'
    BY <2>10, <2>r, <2>t DEF DeleteFails, DeleteUnanswered, Deleting, Retry, Leave, history
  <2>11. CASE Tick \/ UNCHANGED vars
    BY <2>11, <2>r DEF Tick, vars, history
  <2>12. QED
    BY <2>1, <2>2, <2>3, <2>4, <2>5, <2>6, <2>8, <2>9, <2>10, <2>11
    DEF Next, Acquiring, Releasing
<1>3. QED
  BY <1>1, <1>2, TypeCorrect, PTL DEF Spec

(* A release that is executed and not answered leaves its client without    *)
(* the lock.                                                                *)
LEMMA OwnersExclude == TypeOK /\ HoldersOwn => ExclusiveUntilRepeated
BY DEF TypeOK, HoldersOwn, ExclusiveUntilRepeated, MutualExclusion, Holders

(* Whatever fails, loses its answer, crashes or expires: no two clients are *)
(* both told that they have the lock, as long as no release of a lock was   *)
(* executed a second time.                                                  *)
THEOREM Exclusion == Spec => []ExclusiveUntilRepeated
BY OwnersExclude, HoldersOwnTheLock, TypeCorrect, PTL

(* GetLockWait never waits beyond its deadline. *)
THEOREM NoWaitBeyondDeadline == Spec => []SleepWithinDeadline
<1>1. Init => SleepWithinDeadline
  BY DEF Init, SleepWithinDeadline
<1>2. TypeOK /\ SleepWithinDeadline /\ [Next]_vars => SleepWithinDeadline'
  <2> SUFFICES ASSUME TypeOK, SleepWithinDeadline, [Next]_vars,
                      NEW d \in Clients, pc'[d] = "backoff"
               PROVE  call'[d].sleep <= call'[d].timeLeft
    BY DEF SleepWithinDeadline
  <2>t. /\ pc \in [Clients -> Points] /\ call \in [Clients -> Calls]
        /\ \A c \in Clients : pc[c] = "backoff" => call[c].sleep <= call[c].timeLeft
    BY DEF TypeOK, SleepWithinDeadline
  \* d's wait began before: the step is another client's, or time passes.
  <2>1. CASE pc[d] = "backoff" /\ call'[d] = call[d]
    BY <2>1, <2>t
  <2>2. CASE Tick
    <3>1. /\ call[d].sleep \in Nat /\ call[d].timeLeft \in Nat
          /\ call[d].sleep <= call[d].timeLeft
      BY <2>2, <2>t, LockAssumption DEF Tick, Calls
    <3>2. /\ call'[d].sleep = Pass(call[d].sleep, 0)
          /\ call'[d].timeLeft = Pass(call[d].timeLeft, 0)
      BY <2>2 DEF Tick
    <3>3. QED
      BY <3>1, <3>2 DEF Pass
  \* d's wait begins: LockExists compares the wait with the time left.
  <2>3. CASE LockExists(d)
    <3>1. call[d].backoff <= call[d].timeLeft
      BY <2>3, <2>t DEF LockExists, Leave
    <3>2. call' = [call EXCEPT ![d].sleep = call[d].backoff]
      BY <2>3, <2>t DEF LockExists, Leave
    <3>3. /\ call'[d].sleep = call[d].backoff
          /\ call'[d].timeLeft = call[d].timeLeft
      BY <3>2, <2>t DEF Calls
    <3>4. QED
      BY <3>1, <3>3
  <2>4. \/ pc[d] = "backoff" /\ call'[d] = call[d]
        \/ Tick
        \/ LockExists(d)
    <3>1. ASSUME NEW c \in Clients,
                 GetLock(c) \/ GetLockWait(c) \/ Wake(c)
          PROVE  <2>4
      BY <3>1, <2>t DEF GetLock, GetLockWait, Wake, SendPut
    <3>2. ASSUME NEW c \in Clients, NEW p \in {"idle", "held", "release", "failed"},
                 Leave(c, p)
          PROVE  <2>4
      BY <3>2, <2>t DEF Leave
    <3>3. ASSUME NEW c \in Clients, NEW p \in {"head", "reclaim"}, Goto(c, p)
          PROVE  <2>4
      BY <3>3, <2>t DEF Goto
    <3>4. ASSUME NEW c \in Clients, LockExists(c) PROVE <2>4
      BY <3>4, <2>t DEF LockExists, Leave
    <3>5. ASSUME NEW c \in Clients, Retry(c) PROVE <2>4
      BY <3>5, <2>t DEF Retry
    <3>6. CASE UNCHANGED vars
      BY <3>6, <2>t DEF vars
    <3>7. QED
      BY <3>1, <3>2, <3>3, <3>4, <3>5, <3>6
      DEF Next, Acquiring, PutSucceeds, PutAnswerLost, PutFails, PutConflicts,
          HeadSucceeds, HeadFindsNothing, HeadFails, Cancel, ReleaseLock, Releasing,
          DeleteSucceeds, DeleteUnanswered, DeleteAnswerLost, DeleteFails, RetryOr, GiveUp,
          Crash
  <2>5. QED
    BY <2>1, <2>2, <2>3, <2>4
<1>3. QED
  BY <1>1, <1>2, TypeCorrect, PTL DEF Spec

(* Only a failed request, a lost answer or a crash leaves a lock object     *)
(* that no client uses or is about to delete.                               *)
THEOREM LeaksNeedFaults == Spec => []LeaksOnlyByFault
<1>1. Init => LeaksOnlyByFault
  BY DEF Init, LeaksOnlyByFault
<1>2. TypeOK /\ LeaksOnlyByFault /\ [Next]_vars => LeaksOnlyByFault'
  <2> SUFFICES ASSUME TypeOK, LeaksOnlyByFault, [Next]_vars,
                      faults' = 0, owner' # None
               PROVE  pc'[owner'] \in {"held", "release"}
    BY DEF LeaksOnlyByFault
  <2>t. /\ pc \in [Clients -> Points] /\ owner \in Clients \union {None}
        /\ faults \in Nat
    BY LockAssumption DEF TypeOK
  <2>l. faults = 0 /\ owner # None => pc[owner] \in {"held", "release"}
    BY DEF LeaksOnlyByFault
  \* Steps that count as faults are excluded.
  <2>f. ~Fault
    BY <2>t DEF Fault
  <2>1. ASSUME NEW c \in Clients,
               \/ GetLock(c) \/ GetLockWait(c) \/ Wake(c)
               \/ PutConflicts(c) \/ Cancel(c) \/ ReleaseLock(c) \/ GiveUp(c)
        PROVE  pc'[owner'] \in {"held", "release"}
    BY <2>1, <2>t, <2>l
    DEF GetLock, GetLockWait, Wake, SendPut, PutConflicts, Goto, Cancel,
        ReleaseLock, GiveUp, Leave
  <2>2. ASSUME NEW c \in Clients, PutSucceeds(c)
        PROVE  pc'[owner'] \in {"held", "release"}
    BY <2>2, <2>t DEF PutSucceeds, CreateLock, Leave
  <2>3. ASSUME NEW c \in Clients, HeadSucceeds(c) \/ HeadFindsNothing(c)
        PROVE  pc'[owner'] \in {"held", "release"}
    BY <2>3, <2>t, <2>l DEF HeadSucceeds, HeadFindsNothing, LockExists, Goto, Leave
  <2>4. ASSUME NEW c \in Clients, DeleteSucceeds(c) PROVE FALSE
    BY <2>4 DEF DeleteSucceeds, DeleteLock
  <2>5. CASE Tick \/ UNCHANGED vars
    BY <2>5, <2>l DEF Tick, vars
  <2>6. QED
    BY <2>1, <2>2, <2>3, <2>4, <2>5, <2>f
    DEF Next, Acquiring, PutAnswerLost, PutFails, HeadFails, Releasing, DeleteUnanswered,
        DeleteAnswerLost, DeleteFails, Crash
<1>3. QED
  BY <1>1, <1>2, TypeCorrect, PTL DEF Spec

-------------------------------------------------------------------------------
(* The calls implement the abstract lock: they give it to one client at a   *)
(* time, and only that client's release or nothing takes it back, until a   *)
(* release that is executed again breaches the contract's condition.        *)
THEOREM ContractImplemented == Spec => ImplementsContract
<1> SUFFICES Spec => Contract!Spec
  BY DEF ImplementsContract
<1>1. Init => Contract!Init
  BY DEF Init, Contract!Init, Holders
<1>2. TypeOK /\ HoldersOwn /\ [Next]_vars => [Contract!Next]_Contract!vars
  <2> DEFINE Stutter == Holders' = Holders /\ owner' = owner
             Step(c) == \/ Contract!Grant(c) \/ Contract!GrantUnheard(c)
                        \/ Contract!Leave(c) \/ Contract!Withdraw(c)
             Kept == repeated' = repeated
  <2> SUFFICES ASSUME TypeOK, HoldersOwn, [Next]_vars, repeated' # TRUE
               PROVE  Kept /\ (Stutter \/ \E c \in Clients : Step(c))
    BY DEF Contract!Next, Contract!Breached, Contract!vars
  <2>t. /\ pc \in [Clients -> Points] /\ owner \in Clients \union {None}
        /\ deleted \in SUBSET Clients /\ repeated \in BOOLEAN
    BY DEF TypeOK
  \* A client that neither has the lock nor gets it moves.
  <2>m. ASSUME NEW c \in Clients, pc[c] # "held", NEW p \in Points \ {"held"},
               pc' = [pc EXCEPT ![c] = p] \/ pc' = pc
        PROVE  Holders' = Holders
    BY <2>m, <2>t DEF Holders
  <2>1. ASSUME NEW c \in Clients, PutSucceeds(c) PROVE Step(c) /\ Kept
    <3>1. Holders' = Holders \union {c}
      BY <2>1, <2>t DEF PutSucceeds, Leave, Holders
    <3>2. QED
      BY <2>1, <3>1 DEF PutSucceeds, CreateLock, history, Contract!Grant
  <2>2. ASSUME NEW c \in Clients, PutAnswerLost(c) PROVE Step(c) /\ Kept
    <3>1. Holders' = Holders
      BY <2>2, <2>m DEF PutAnswerLost, CreateLock, RetryOr, Retry, Leave, Points
    <3>2. QED
      BY <2>2, <3>1 DEF PutAnswerLost, CreateLock, history, Contract!GrantUnheard
  \* The first execution of a release: it is the owner's.
  <2>3. ASSUME NEW c \in Clients, DeleteSucceeds(c) \/ DeleteAnswerLost(c)
        PROVE  Step(c) /\ Kept
    <3>1. DeleteLock(c)
      BY <2>3 DEF DeleteSucceeds, DeleteAnswerLost
    <3>2. ~repeated /\ c \notin deleted /\ owner' = None
      BY <3>1, <2>t DEF DeleteLock
    <3>a. repeated = FALSE
      BY <3>2, <2>t
    <3>b. (repeated \/ c \in deleted) = FALSE
      BY <3>2
    <3>3. pc[c] = "release" /\ owner = c
      BY <3>1, <3>2 DEF DeleteLock, Deleting, HoldersOwn
    <3>4. Holders' = Holders
      BY <2>3, <3>3, <2>m
      DEF DeleteSucceeds, DeleteAnswerLost, DeleteUnanswered, Retry, Leave, Points
    <3>5. c \notin Holders
      BY <3>3 DEF Holders
    <3>6. Kept
      BY <3>1, <3>a, <3>b, Zenon DEF DeleteLock
    <3>7. QED
      BY <3>2, <3>3, <3>4, <3>5, <3>6 DEF Contract!Withdraw
  <2>4. ASSUME NEW c \in Clients, ReleaseLock(c) \/ Crash(c)
        PROVE  (Step(c) \/ Stutter) /\ Kept
    <3>1. CASE pc[c] = "held"
      <4>1. Holders' = Holders \ {c} /\ c \in Holders /\ owner' = owner
        BY <2>4, <3>1, <2>t DEF ReleaseLock, Crash, Leave, Holders
      <4>2. QED
        BY <2>4, <4>1 DEF Contract!Leave, ReleaseLock, Crash, history
    <3>2. CASE pc[c] # "held"
      BY <2>4, <3>2, <2>m DEF ReleaseLock, Crash, Leave, Points, history
    <3>3. QED
      BY <3>1, <3>2
  <2>5. ASSUME NEW c \in Clients,
               \/ GetLock(c) \/ GetLockWait(c) \/ Wake(c) \/ Cancel(c) \/ GiveUp(c)
               \/ PutFails(c) \/ PutConflicts(c)
        PROVE  Stutter /\ Kept
    BY <2>5, <2>m
    DEF GetLock, GetLockWait, Wake, SendPut, Cancel, GiveUp, PutFails,
        PutConflicts, RetryOr, Retry, Goto, Leave, Points, history
  <2>6. ASSUME NEW c \in Clients, HeadSucceeds(c) \/ HeadFindsNothing(c) \/ HeadFails(c)
        PROVE  Stutter /\ Kept
    <3>1. /\ pc[c] = "head" /\ UNCHANGED <<owner, history>>
          /\ Retry(c) \/ LockExists(c)
      BY <2>6, NothingExpires DEF HeadSucceeds, HeadFindsNothing, HeadFails
    <3>2. QED
      BY <3>1, <2>m DEF Retry, LockExists, Leave, Points, history
  <2>7. ASSUME NEW c \in Clients, DeleteFails(c) PROVE Stutter /\ Kept
    <3>1. /\ Deleting(c) /\ UNCHANGED <<owner, history>>
          /\ Retry(c) \/ LockExists(c) \/ Leave(c, "failed")
      BY <2>7 DEF DeleteFails, DeleteUnanswered
    <3>2. QED
      BY <3>1, <2>m DEF Deleting, Retry, LockExists, Leave, Points, history
  <2>8. CASE Tick \/ UNCHANGED vars
    BY <2>8 DEF Tick, vars, Holders, history
  <2>9. QED
    BY <2>1, <2>2, <2>3, <2>4, <2>5, <2>6, <2>7, <2>8
    DEF Next, Acquiring, Releasing
<1>3. QED
  BY <1>1, <1>2, TypeCorrect, HoldersOwnTheLock, PTL DEF Spec, Contract!Spec
===============================================================================
