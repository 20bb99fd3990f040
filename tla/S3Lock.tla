-------------------------------- MODULE S3Lock --------------------------------
(***************************************************************************)
(* The distributed lock of internal/storage/aws/s3: the GetLock,            *)
(* GetLockWait and ReleaseLock calls of several clients (processes that     *)
(* hold a bucketAdapter) on one key.  The lock is the S3 object key+".lock".*)
(* Every S3 request is a step; the AWS SDK retries requests, which may fail *)
(* or lose their answer, and a client may crash between any two steps.      *)
(*                                                                          *)
(* A deadline is kept as the time left to it, so no clock needs a bound.    *)
(***************************************************************************)
EXTENDS Integers

CONSTANTS Clients,        \* processes using the lock
          None,           \* no client: there is no lock object
          TTL,            \* lockTTL
          WaitTimeouts,   \* waitTimeout arguments
          InitialBackoff, \* initialBackoff
          MaxBackoff,     \* maxBackoff
          Second,         \* RFC3339 drops what is below this
          MaxAttempts,    \* attempts the SDK makes for one request
          MaxFaults       \* bound on the faults of a behaviour

ASSUME LockAssumption ==
    /\ None \notin Clients
    /\ TTL \in Nat /\ WaitTimeouts \subseteq Nat
    /\ InitialBackoff \in Nat \ {0} /\ MaxBackoff \in Nat
    /\ InitialBackoff <= MaxBackoff
    /\ Second \in Nat \ {0} /\ MaxAttempts \in Nat \ {0}
    /\ MaxFaults \in Nat

VARIABLES owner,    \* the client whose PutObject made the lock object, or None
          expires,  \* time left to its lock-expires metadata; -1 once passed
          pc,       \* the request or wait each client is at
          call,     \* the locals of each client's GetLockWait
          request,  \* the S3 request each client waits for
          faults,   \* failed requests, lost answers and crashes so far
          deleted,  \* clients whose release is executed and not answered
          repeated  \* whether such a release was executed a second time

(* The last two are history: no step of the code looks at them. *)
history == <<deleted, repeated>>
vars == <<owner, expires, pc, call, request, faults, history>>

(* "put", "head", "reclaim": GetLock's requests; "backoff": GetLockWait's   *)
(* select; "held": the caller has the lock; "release": ReleaseLock's        *)
(* request; "failed": ReleaseLock returned an error.                        *)
Points == {"idle", "put", "head", "reclaim", "backoff", "held", "release", "failed"}

Calls == [waits    : BOOLEAN,         \* GetLockWait rather than GetLock
          timeLeft : Nat,             \* to the deadline
          backoff  : 0..MaxBackoff,   \* the wait before the next GetLock
          sleep    : 0..MaxBackoff]   \* what is left of the current wait

Requests == [ttl     : Int,              \* time left to the lockExpires it sends
             attempt : 1..MaxAttempts]   \* the SDK's attempt

NoCall == [waits |-> FALSE, timeLeft |-> 0, backoff |-> 0, sleep |-> 0]
NewRequest(ttl) == [ttl |-> ttl, attempt |-> 1]
NoRequest == NewRequest(0)

TypeOK == /\ owner \in Clients \union {None}
          /\ expires \in Int
          /\ pc \in [Clients -> Points]
          /\ call \in [Clients -> Calls]
          /\ request \in [Clients -> Requests]
          /\ faults \in 0..MaxFaults
          /\ deleted \in SUBSET Clients
          /\ repeated \in BOOLEAN
          /\ \A c \in deleted : pc[c] \in {"release", "failed"}

Init == /\ owner = None
        /\ expires = 0
        /\ pc = [c \in Clients |-> "idle"]
        /\ call = [c \in Clients |-> NoCall]
        /\ request = [c \in Clients |-> NoRequest]
        /\ faults = 0
        /\ deleted = {}
        /\ repeated = FALSE

-------------------------------------------------------------------------------
Fault == faults < MaxFaults /\ faults' = faults + 1

(* c's call is over, or c goes on to a point where it has no locals. *)
Leave(c, point) == /\ pc' = [pc EXCEPT ![c] = point]
                   /\ call' = [call EXCEPT ![c] = NoCall]
                   /\ request' = [request EXCEPT ![c] = NoRequest]

(* c sends another request. *)
Goto(c, point) == /\ pc' = [pc EXCEPT ![c] = point]
                  /\ request' = [request EXCEPT ![c] = NoRequest]
                  /\ UNCHANGED call

(* The request of c failed or lost its answer: the SDK tries again, or      *)
(* gives up (attempts exhausted, error not retryable, context cancelled)    *)
(* and the adapter's call returns to the caller at "point".                 *)
Retry(c) == /\ request[c].attempt < MaxAttempts
            /\ request' = [request EXCEPT ![c].attempt = @ + 1]
            /\ UNCHANGED <<pc, call>>

RetryOr(c, point) == Retry(c) \/ Leave(c, point)

(* What lock-expires can be for a lock taken now: now + TTL, formatted.     *)
ExpiryTimes == {TTL - cut : cut \in 0 .. Second - 1}

(* Mutant: HeadObject hands over the object's own metadata. *)
HeadAllMetadata == [key \in {"etag", "lock-expires"} |->
                      IF key = "etag" THEN 0 ELSE expires]

(* HeadObject's Metadata: fillObjectInfoUnsafe fills in the ETag only; 0 is *)
(* that of the empty body, the same for every lock object.                  *)
HeadMetadata == [key \in {"etag"} |-> 0]

(* A missing entry reads as "", which does not parse. *)
LockIsExpired(metadata) ==
    "lock-expires" \in DOMAIN metadata /\ metadata["lock-expires"] < 0

(* Mutants: the deadline checked without the wait to come, or not at all. *)
LockExistsIgnoringWait(c) ==
    IF call[c].waits /\ call[c].timeLeft > 0
    THEN /\ pc' = [pc EXCEPT ![c] = "backoff"]
         /\ call' = [call EXCEPT ![c].sleep = call[c].backoff]
         /\ request' = [request EXCEPT ![c] = NoRequest]
    ELSE Leave(c, "idle")
LockExistsForever(c) ==
    IF call[c].waits
    THEN /\ pc' = [pc EXCEPT ![c] = "backoff"]
         /\ call' = [call EXCEPT ![c].sleep = call[c].backoff]
         /\ request' = [request EXCEPT ![c] = NoRequest]
    ELSE Leave(c, "idle")

(* GetLock returns lockExistsError, to the caller or into GetLockWait's loop. *)
LockExists(c) ==
    IF call[c].waits /\ call[c].backoff <= call[c].timeLeft
    THEN /\ pc' = [pc EXCEPT ![c] = "backoff"]
         /\ call' = [call EXCEPT ![c].sleep = call[c].backoff]
         /\ request' = [request EXCEPT ![c] = NoRequest]
    ELSE Leave(c, "idle")

-------------------------------------------------------------------------------
(* GetLock computes lockExpires and sends its PutObject. *)
SendPut(c) == /\ \E ttl \in ExpiryTimes :
                    request' = [request EXCEPT ![c] = NewRequest(ttl)]
              /\ pc' = [pc EXCEPT ![c] = "put"]

GetLock(c) ==
    /\ pc[c] = "idle"
    /\ SendPut(c)
    /\ UNCHANGED <<owner, expires, call, faults, history>>

(* A waitTimeout below lockTTL returns an error and changes nothing. *)
GetLockWait(c) ==
    /\ pc[c] = "idle"
    /\ \E waitTimeout \in WaitTimeouts :
          /\ waitTimeout >= TTL
          /\ call' = [call EXCEPT ![c] = [waits |-> TRUE, timeLeft |-> waitTimeout,
                                         backoff |-> InitialBackoff, sleep |-> 0]]
    /\ SendPut(c)
    /\ UNCHANGED <<owner, expires, faults, history>>

(* Mutant: PutObject without If-None-Match. *)
CreateLockAnyway(c) == /\ pc[c] = "put"
                       /\ owner' = c
                       /\ expires' = request[c].ttl
                       /\ UNCHANGED history

(* PutObject with If-None-Match "*" makes the object. *)
CreateLock(c) == /\ pc[c] = "put"
                 /\ owner = None
                 /\ owner' = c
                 /\ expires' = request[c].ttl
                 /\ UNCHANGED history

PutSucceeds(c) == CreateLock(c) /\ Leave(c, "held") /\ UNCHANGED faults

PutAnswerLost(c) == CreateLock(c) /\ Fault /\ RetryOr(c, "idle")

PutFails(c) == /\ pc[c] = "put"
               /\ Fault
               /\ RetryOr(c, "idle")
               /\ UNCHANGED <<owner, expires, history>>

(* The object exists: PreconditionFailed, whoever made it. *)
PutConflicts(c) == /\ pc[c] = "put"
                   /\ owner # None
                   /\ Goto(c, "head")
                   /\ UNCHANGED <<owner, expires, faults, history>>

(* HeadObject answers; an expired lock is deleted next, with the ETag read: *)
(* that of any lock object.                                                 *)
HeadSucceeds(c) ==
    /\ pc[c] = "head"
    /\ owner # None
    /\ IF LockIsExpired(HeadMetadata) THEN Goto(c, "reclaim") ELSE LockExists(c)
    /\ UNCHANGED <<owner, expires, faults, history>>

(* The object is gone meanwhile. *)
HeadFindsNothing(c) == /\ pc[c] = "head"
                       /\ owner = None
                       /\ LockExists(c)
                       /\ UNCHANGED <<owner, expires, faults, history>>

HeadFails(c) == /\ pc[c] = "head"
                /\ Fault
                /\ Retry(c) \/ LockExists(c)
                /\ UNCHANGED <<owner, expires, history>>

(* Mutant: the backoff is not capped. *)
WakeUncapped(c) ==
    /\ pc[c] = "backoff"
    /\ call[c].sleep = 0
    /\ call' = [call EXCEPT ![c].backoff = 2 * @]
    /\ SendPut(c)
    /\ UNCHANGED <<owner, expires, faults, history>>

(* time.After fires; the loop doubles the backoff and calls GetLock. *)
Wake(c) ==
    /\ pc[c] = "backoff"
    /\ call[c].sleep = 0
    /\ call' = [call EXCEPT ![c].backoff = IF 2 * @ > MaxBackoff
                                           THEN MaxBackoff ELSE 2 * @]
    /\ SendPut(c)
    /\ UNCHANGED <<owner, expires, faults, history>>

(* ctx.Done during the wait. *)
Cancel(c) == /\ pc[c] = "backoff"
             /\ Leave(c, "idle")
             /\ UNCHANGED <<owner, expires, faults, history>>

(* The caller calls ReleaseLock, or once more after an error. *)
ReleaseLock(c) == /\ pc[c] \in {"held", "failed"}
                  /\ Leave(c, "release")
                  /\ UNCHANGED <<owner, expires, faults, history>>

Deleting(c) == pc[c] \in {"reclaim", "release"}

(* Mutant: ReleaseLock deletes the key itself, not key + ".lock". *)
DeleteWrongKey(c) == Deleting(c) /\ UNCHANGED <<owner, expires, repeated>>

(* deleteObjectSafe is executed: it succeeds whether or not there is an     *)
(* object, and whoever made it.                                             *)
DeleteLock(c) == /\ Deleting(c)
                 /\ owner' = None
                 /\ expires' = 0
                 /\ repeated' = (repeated \/ c \in deleted)

(* ReleaseLock returns nil; GetLock ignores how its delete ends. *)
DeleteSucceeds(c) == /\ DeleteLock(c)
                     /\ IF pc[c] = "reclaim" THEN LockExists(c) ELSE Leave(c, "idle")
                     /\ deleted' = deleted \ {c}
                     /\ UNCHANGED faults

(* The SDK tries again or gives up. *)
DeleteUnanswered(c) ==
    /\ Deleting(c)
    /\ Fault
    /\ \/ Retry(c)
       \/ IF pc[c] = "reclaim" THEN LockExists(c) ELSE Leave(c, "failed")

DeleteAnswerLost(c) == /\ DeleteUnanswered(c)
                       /\ DeleteLock(c)
                       /\ deleted' = IF pc[c] = "reclaim" THEN deleted ELSE deleted \union {c}

DeleteFails(c) == DeleteUnanswered(c) /\ UNCHANGED <<owner, expires, history>>

(* The caller gives up a lock it could not release. *)
GiveUp(c) == /\ pc[c] = "failed"
             /\ Leave(c, "idle")
             /\ deleted' = deleted \ {c}
             /\ UNCHANGED <<owner, expires, faults, repeated>>

(* The process dies; the one replacing it starts idle. *)
Crash(c) == /\ pc[c] # "idle"
            /\ Fault
            /\ Leave(c, "idle")
            /\ deleted' = deleted \ {c}
            /\ UNCHANGED <<owner, expires, repeated>>

Pass(time, end) == IF time > end THEN time - 1 ELSE time

Tick == /\ expires' = IF owner = None THEN expires ELSE Pass(expires, -1)
        /\ call' = [c \in Clients |-> [waits |-> call[c].waits,
                                       timeLeft |-> Pass(call[c].timeLeft, 0),
                                       backoff |-> call[c].backoff,
                                       sleep |-> Pass(call[c].sleep, 0)]]
        /\ request' = [c \in Clients |->
                         IF pc[c] = "put"
                         THEN [request[c] EXCEPT !.ttl = Pass(@, -1)]
                         ELSE request[c]]
        /\ UNCHANGED <<owner, pc, faults, history>>

-------------------------------------------------------------------------------
Acquiring(c) == \/ PutSucceeds(c) \/ PutAnswerLost(c) \/ PutFails(c)
                \/ PutConflicts(c)
                \/ HeadSucceeds(c) \/ HeadFindsNothing(c) \/ HeadFails(c)
                \/ Wake(c)

Releasing(c) == DeleteSucceeds(c) \/ DeleteAnswerLost(c) \/ DeleteFails(c)

Next == \/ \E c \in Clients : \/ GetLock(c) \/ GetLockWait(c)
                              \/ Acquiring(c) \/ Cancel(c)
                              \/ ReleaseLock(c) \/ Releasing(c) \/ GiveUp(c)
                              \/ Crash(c)
        \/ Tick

Spec == Init /\ [][Next]_vars

(* A call in progress goes on, holders release what they hold (the deferred *)
(* ReleaseLock of the contract), and time passes.                           *)
FairSpec == /\ Spec
            /\ WF_vars(Tick)
            /\ \A c \in Clients : /\ WF_vars(Acquiring(c))
                                  /\ WF_vars(pc[c] = "held" /\ ReleaseLock(c))
                                  /\ WF_vars(Releasing(c))
                                  /\ WF_vars(GiveUp(c))

(* Clients that, besides, keep asking for the lock. *)
PersistentSpec == FairSpec /\ \A c \in Clients : WF_vars(GetLockWait(c))

-------------------------------------------------------------------------------
Holders == {c \in Clients : pc[c] = "held"}

(* Two clients are never both told by GetLock that they have the lock,      *)
(* whatever fails, crashes or expires in between.                           *)
MutualExclusion == \A c, d \in Holders : c = d

(* One thing alone breaks it: a release that S3 executes twice, as its first *)
(* answer was lost and the SDK, or the caller, repeats it.  Until that       *)
(* happens the lock is exclusive, with lost answers of any kind, and also    *)
(* after releases that were executed, never answered and not repeated.       *)
ExclusiveUntilRepeated == ~repeated => MutualExclusion

(* Why: until then a client that has the lock, or whose release was not yet *)
(* executed, is the one whose object is in the bucket; and nobody reclaims. *)
HoldersOwn ==
    ~repeated =>
        \A c \in Clients :
            /\ pc[c] \in {"held", "release", "failed"} => owner = c \/ c \in deleted
            /\ pc[c] # "reclaim"

(* GetLockWait never waits beyond its deadline: what is left of a wait,     *)
(* however long the requests before it took, ends before waitTimeout does.  *)
SleepWithinDeadline ==
    \A c \in Clients : pc[c] = "backoff" => call[c].sleep <= call[c].timeLeft

(* Without a failed request, a lost answer or a crash, the lock object in   *)
(* the bucket is one that a client uses or is about to delete: timeouts,    *)
(* cancelled waits and conflicts leave no lock behind.                      *)
LeaksOnlyByFault ==
    faults = 0 /\ owner # None => pc[owner] \in {"held", "release"}

(* The calls implement the abstract lock of the storage contract, which     *)
(* asks that only the owner deletes: a repeated release is its breach.      *)
Contract == INSTANCE LockContract WITH holders <- Holders, breached <- repeated
ImplementsContract == Contract!Spec

(* GetLock, GetLockWait and ReleaseLock return, even when the lock stays    *)
(* taken: to a caller without the lock or to one that has it.               *)
CallsReturn ==
    \A c \in Clients : pc[c] \notin {"idle", "held"} ~> pc[c] \in {"idle", "held"}

(* Without faults every lock that is taken is given back. *)
LocksAreReleased == owner # None ~> owner = None \/ faults > 0

(* contracts.go: "Expired locks are automatically cleaned up via TTL": a    *)
(* lock object past its lock-expires does not stay, when clients ask for    *)
(* the lock.                                                                *)
ExpiredLocksCleanedUp == owner # None /\ expires < 0 ~> owner = None
===============================================================================
