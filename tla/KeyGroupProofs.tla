----------------------------- MODULE KeyGroupProofs -----------------------------
(***************************************************************************)
(* Proofs about KeyGroup, for any number of clients, keys and faults and    *)
(* any maximum of keys.                                                     *)
(***************************************************************************)
EXTENDS KeyGroup, FiniteSetTheorems, TLAPS

(* TypeOK in parts: CloudFront, the clients; the rest is in InRange. *)
CloudOK == /\ created \in [Keys -> Nat]
           /\ exists \subseteq {k \in Keys : created[k] > 0}
           /\ grouped \in BOOLEAN
           /\ items \subseteq exists
           /\ items # {} <=> grouped
           /\ fresh \subseteq Clients
           /\ dropped \subseteq {k \in Keys : created[k] > 0}

Outcomes == {"none", "ok", "error", "present", "absent"}

ClientsOK == /\ pc \in [Clients -> Points]
             /\ op \in [Clients -> Ops]
             /\ returned \in [Clients -> Outcomes]

(* Every key that a client has in its locals was created once; those that   *)
(* it has evicted it compared by their age.                                 *)
LocalOK(c) ==
    /\ pc[c] \in {"list", "create", "get", "fetch", "update"} =>
          op[c].key \in Keys /\ created[op[c].key] > 0
    /\ \A k \in op[c].ids \union op[c].evict : created[k] > 0
    /\ pc[c] \in {"list", "create", "get", "fetch"} => op[c].evict = {}
    /\ pc[c] = "delete" /\ op[c].key = NoKey => \E k \in Keys : op[c].evict = {k}
    /\ pc[c] \in {"fetch", "update"} => op[c].ids # {}
    /\ pc[c] \in {"get", "fetch", "update"} => grouped
    /\ pc[c] \in Verifying => returned[c] = "none"

LocalsOK == \A c \in Clients : LocalOK(c)

Kept == CloudOK /\ ClientsOK /\ LocalsOK /\ faults \in Nat

-------------------------------------------------------------------------------
(* What a step does to CloudFront: nothing, but that a client may now have  *)
(* the group's ETag, or the effect of one client's request.                 *)
Registers(k) == /\ created[k] = 0
                /\ \E time \in Nat \ {0} : created' = [created EXCEPT ![k] = time]
                /\ exists' = exists \union {k}
                /\ UNCHANGED <<grouped, items, fresh, dropped>>

Groups(c) == pc[c] = "create" /\ CreateEffect(c) /\ UNCHANGED dropped

Updates(c) == /\ pc[c] = "update" /\ UpdateEffect(c)
              /\ Fault \/ (Goto(c, "delete") /\ UNCHANGED op)

Deletes(c, k) == /\ pc[c] = "delete" /\ k \in op[c].evict /\ k \notin items
                 /\ exists' = exists \ {k}
                 /\ UNCHANGED <<created, grouped, items, fresh, dropped>>

Sees(c) == Get(c) /\ fresh' = fresh \union {c}
           /\ UNCHANGED <<created, exists, grouped, items, dropped>>

(* The constants' assumptions, and their sizes. *)
LEMMA SizesOK == /\ NoKey \notin Keys /\ IsFiniteSet(Keys)
                 /\ MaxKeys \in Nat /\ MaxKeys > 0 /\ MaxFaults \in Nat
BY KeyGroupAssumption

(* Every step of CloudFront is one of these. *)
LEMMA CloudSteps ==
  ASSUME [Next]_vars
  PROVE  \/ UNCHANGED <<cloud, dropped>>
         \/ \E k \in Keys : Registers(k)
         \/ \E c \in Clients : \/ Sees(c) \/ Groups(c) \/ Updates(c)
                               \/ \E k \in Keys : Deletes(c, k)
<1> DEFINE Fine == \/ UNCHANGED <<cloud, dropped>>
                   \/ \E k \in Keys : Registers(k)
                   \/ \E c \in Clients : \/ Sees(c) \/ Groups(c) \/ Updates(c)
                                         \/ \E k \in Keys : Deletes(c, k)
<1>1. ASSUME NEW c \in Clients, NEW k \in Keys, CreatePublicKey(c, k) PROVE Fine
  <2>1. PICK time \in 1 .. Cardinality(Keys) : created' = [created EXCEPT ![k] = time]
    BY <1>1 DEF CreatePublicKey
  <2>2. time \in Nat \ {0}
    BY FS_CardinalityType, SizesOK
  <2>3. QED
    BY <1>1, <2>1, <2>2 DEF CreatePublicKey, Registers
<1>2. ASSUME NEW c \in Clients, NEW k \in Keys,
             EnsureKeyGroup(c, k) \/ DeletePublicKey(c, k) \/ VerifyKeyInGroup(c, k)
      PROVE  Fine
  BY <1>2 DEF EnsureKeyGroup, DeletePublicKey, VerifyKeyInGroup, Call
<1>3. ASSUME NEW c \in Clients, NEW k \in Keys,
             DeleteAnswered(c, k) \/ DeleteUnanswered(c, k)
      PROVE  Fine
  <2>1. exists' = exists \/ (k \notin items /\ exists' = exists \ {k})
    BY <1>3 DEF DeleteAnswered, DeleteUnanswered
  <2>2. /\ pc[c] = "delete" /\ k \in op[c].evict
        /\ UNCHANGED <<created, grouped, items, fresh, dropped>>
    BY <1>3 DEF DeleteAnswered, DeleteUnanswered
  <2>3. QED
    BY <2>1, <2>2 DEF Deletes, cloud
<1>4. ASSUME NEW c \in Clients, CreateSucceeds(c) \/ CreateAnswerLost(c) PROVE Fine
  BY <1>4 DEF CreateSucceeds, CreateAnswerLost, Groups
<1>5. ASSUME NEW c \in Clients, UpdateSucceeds(c) \/ UpdateAnswerLost(c) PROVE Fine
  BY <1>5 DEF UpdateSucceeds, UpdateAnswerLost, Updates
<1>6. ASSUME NEW c \in Clients, Get(c) PROVE Fine
  BY <1>6 DEF Get, Sees
<1>7. ASSUME NEW c \in Clients,
             \/ List(c) \/ CreateRefused(c)
             \/ FetchSucceeds(c) \/ FetchMisses(c) \/ FetchFails(c)
             \/ UpdateRefused(c) \/ Done(c)
             \/ VerifyList(c) \/ VerifyGet(c) \/ VerifyReads(c) \/ VerifyMisses(c)
             \/ RequestFails(c) \/ Crash(c)
      PROVE  Fine
  BY <1>7 DEF List, CreateRefused, FetchSucceeds, FetchMisses, FetchFails, UpdateRefused,
              Done, VerifyList, VerifyGet, VerifyReads, VerifyMisses, RequestFails, Crash
<1>8. CASE UNCHANGED vars
  BY <1>8 DEF vars
<1>9. QED
  BY <1>1, <1>2, <1>3, <1>4, <1>5, <1>6, <1>7, <1>8 DEF Next, Step

(* A key that was created stays so, and its age with it; one that is gone   *)
(* does not come back.                                                      *)
LEMMA AgesStay ==
  ASSUME CloudOK, [Next]_vars, NEW k \in Keys, created[k] > 0
  PROVE  created'[k] = created[k] /\ (k \in exists' => k \in exists)
<1>1. ASSUME NEW j \in Keys, Registers(j)
      PROVE  created'[k] = created[k] /\ (k \in exists' => k \in exists)
  <2>1. k # j
    BY <1>1 DEF Registers, CloudOK
  <2>2. QED
    BY <1>1, <2>1 DEF Registers, CloudOK
<1>2. QED
  BY <1>1, CloudSteps DEF cloud, Sees, Groups, CreateEffect, Updates, UpdateEffect, Deletes

(* The group's keys exist, and existing keys were created. *)
LEMMA StepKeepsCloud ==
  ASSUME Kept, [Next]_vars PROVE CloudOK'
<1>0. CloudOK /\ ClientsOK
  BY DEF Kept
<1>1. CASE UNCHANGED <<cloud, dropped>>
  BY <1>0, <1>1 DEF CloudOK, cloud
<1>2. ASSUME NEW k \in Keys, Registers(k) PROVE CloudOK'
  <2>1. PICK time \in Nat \ {0} : created' = [created EXCEPT ![k] = time]
    BY <1>2 DEF Registers
  <2>2. created' \in [Keys -> Nat] /\ created'[k] > 0
    BY <1>0, <2>1 DEF CloudOK
  <2>3. \A j \in exists : created'[j] = created[j] \/ j = k
    BY <1>0, <2>1 DEF CloudOK
  <2>4. exists' \subseteq {j \in Keys : created'[j] > 0}
    BY <1>0, <1>2, <2>2, <2>3 DEF CloudOK, Registers
  <2>5. QED
    BY <1>0, <1>2, <2>2, <2>4 DEF CloudOK, Registers
<1>3. ASSUME NEW c \in Clients, Sees(c) PROVE CloudOK'
  BY <1>0, <1>3 DEF CloudOK, Sees
<1>4. ASSUME NEW c \in Clients, Groups(c) PROVE CloudOK'
  BY <1>0, <1>4 DEF CloudOK, Groups, CreateEffect, CanCreate
<1>5. ASSUME NEW c \in Clients, Updates(c) PROVE CloudOK'
  <2>1. op[c].ids # {} /\ op[c].ids \subseteq Keys /\ grouped
    BY <1>0, <1>5 DEF Updates, Kept, LocalsOK, LocalOK, ClientsOK, Ops
  <2>2. QED
    BY <1>0, <1>5, <2>1 DEF CloudOK, Updates, UpdateEffect, CanUpdate
<1>6. ASSUME NEW c \in Clients, NEW k \in Keys, Deletes(c, k) PROVE CloudOK'
  BY <1>0, <1>6 DEF CloudOK, Deletes
<1>7. QED
  BY <1>1, <1>2, <1>3, <1>4, <1>5, <1>6, CloudSteps

-------------------------------------------------------------------------------
(* What a step does to one client: nothing, or it begins a call, ends it,   *)
(* or goes on to the next request with what it has read.                    *)
Unmoved(c) == pc'[c] = pc[c] /\ op'[c] = op[c] /\ returned'[c] = returned[c]

Begins(c) ==
    /\ pc[c] = "idle" /\ op'[c].ids = {} /\ returned'[c] = "none"
    /\ \/ pc'[c] = "list" /\ op'[c].key \in Keys /\ created[op'[c].key] > 0
          /\ op'[c].evict = {}
       \/ /\ pc'[c] = "delete" /\ op'[c].key = NoKey
          /\ \E k \in Keys : created[k] > 0 /\ op'[c].evict = {k}
       \/ pc'[c] = "verifyList" /\ op'[c].evict = {}

Answers(c) ==
    /\ returned'[c] = "present" => pc[c] = "verifyRead" /\ Found(c)
    /\ returned'[c] = "absent" /\ faults' = 0 =>
          \/ pc[c] = "verifyList" /\ ~grouped
          \/ pc[c] = "verifyRead" /\ ~Found(c)
    /\ returned'[c] = "ok" =>
          \/ pc[c] = "create" /\ op[c].key \in items'
          \/ pc[c] = "delete"

(* A call that ends with keys still to delete ended by a fault, or these    *)
(* are gone or in the group.                                                *)
Ends(c) == /\ pc'[c] = "idle" /\ op'[c] = NoOp /\ Answers(c)
           /\ pc[c] = "delete" /\ faults' = 0
              => op[c].evict \intersect exists' \subseteq items

Lists(c) == /\ pc[c] = "list" /\ pc'[c] = IF grouped THEN "get" ELSE "create"
            /\ op'[c] = op[c]

Reads(c) == /\ pc[c] = "get" /\ pc'[c] = "fetch"
            /\ op'[c].key = op[c].key /\ op'[c].evict = op[c].evict
            /\ op'[c].ids = items \union {op[c].key}

Partitions(c) == /\ pc[c] = "fetch" /\ pc'[c] = "update"
                 /\ op'[c].key = op[c].key
                 /\ op[c].ids \subseteq exists
                 /\ Keeps(op[c].ids, op'[c].ids)
                 /\ op'[c].evict = op[c].ids \ op'[c].ids

KeepsAll(c) == /\ pc[c] = "fetch" /\ pc'[c] = "update"
               /\ op'[c] = op[c]
               /\ faults' # 0 \/ ~(op[c].ids \subseteq exists)

Updated(c) == Updates(c) /\ pc'[c] = "delete" /\ op'[c] = op[c]

Evicted(c) == /\ pc[c] = "delete" /\ pc'[c] = "delete" /\ op[c].key # NoKey
              /\ op'[c].key = op[c].key /\ op'[c].ids = op[c].ids
              /\ \E k \in op[c].evict :
                    /\ op'[c].evict = op[c].evict \ {k}
                    /\ faults' # 0 \/ k \notin exists' \/ k \in items

Looks(c) == /\ pc[c] = "verifyList" /\ pc'[c] = "verifyGet"
            /\ op'[c] = op[c]

Snapshots(c) == /\ pc[c] = "verifyGet" /\ pc'[c] = "verifyRead"
                /\ op'[c].key = op[c].key /\ op'[c].evict = op[c].evict
                /\ op'[c].ids = items

Proceeds(c) ==
    /\ returned'[c] = returned[c]
    /\ \/ Lists(c) \/ Reads(c) \/ Partitions(c) \/ KeepsAll(c)
       \/ Updated(c) \/ Evicted(c) \/ Looks(c) \/ Snapshots(c)

Moves(c) == Begins(c) \/ Ends(c) \/ Proceeds(c)

-------------------------------------------------------------------------------
Others(c) == \A d \in Clients \ {c} : Unmoved(d)

(* After a fault faults is not 0. *)
LEMMA FaultCounts == ASSUME faults \in Nat, Fault PROVE faults' \in Nat /\ faults' # 0
BY DEF Fault

(* The locals of a client at rest, and of the calls. *)
LEMMA NoOpIsOp == /\ NoOp \in Ops /\ NoOp.key = NoKey
                  /\ NoOp.ids = {} /\ NoOp.evict = {}
BY DEF NoOp, Ops

LEMMA KeyOp ==
  ASSUME NEW k \in Keys
  PROVE  LET o == [NoOp EXCEPT !.key = k]
         IN  o \in Ops /\ o.key = k /\ o.ids = {} /\ o.evict = {}
BY NoOpIsOp DEF Ops

LEMMA EvictOp ==
  ASSUME NEW k \in Keys
  PROVE  LET o == [NoOp EXCEPT !.evict = {k}]
         IN  o \in Ops /\ o.key = NoKey /\ o.ids = {} /\ o.evict = {k}
BY NoOpIsOp DEF Ops

LEMMA IdsOp ==
  ASSUME NEW o \in Ops, NEW ids \in SUBSET Keys
  PROVE  LET q == [o EXCEPT !.ids = ids]
         IN  q \in Ops /\ q.key = o.key /\ q.ids = ids /\ q.evict = o.evict
BY DEF Ops

LEMMA EvictedOp ==
  ASSUME NEW o \in Ops, NEW evict \in SUBSET Keys
  PROVE  LET q == [o EXCEPT !.evict = evict]
         IN  q \in Ops /\ q.key = o.key /\ q.ids = o.ids /\ q.evict = evict
BY DEF Ops

LEMMA PartitionOp ==
  ASSUME NEW o \in Ops, NEW ids \in SUBSET Keys, NEW evict \in SUBSET Keys
  PROVE  LET q == [o EXCEPT !.ids = ids, !.evict = evict]
         IN  q \in Ops /\ q.key = o.key /\ q.ids = ids /\ q.evict = evict
BY DEF Ops

(* What the helpers do to the calling client's state. *)
LEMMA CallMoves ==
  ASSUME ClientsOK, NEW c \in Clients, NEW point \in Points, NEW o \in Ops,
         Call(c, point, o)
  PROVE  /\ pc'[c] = point /\ op'[c] = o /\ returned'[c] = "none"
         /\ Others(c) /\ ClientsOK'
BY DEF ClientsOK, Call, Others, Unmoved, Outcomes

LEMMA GotoMoves ==
  ASSUME ClientsOK, NEW c \in Clients, NEW point \in Points, NEW o \in Ops,
         Goto(c, point), op' = [op EXCEPT ![c] = o]
  PROVE  /\ pc'[c] = point /\ op'[c] = o /\ returned'[c] = returned[c]
         /\ Others(c) /\ ClientsOK'
BY DEF ClientsOK, Goto, Others, Unmoved

LEMMA ReturnMoves ==
  ASSUME ClientsOK, NEW c \in Clients, NEW how \in Outcomes, Return(c, how)
  PROVE  /\ pc'[c] = "idle" /\ op'[c] = NoOp /\ returned'[c] = how
         /\ Others(c) /\ ClientsOK'
BY NoOpIsOp DEF ClientsOK, Return, Others, Unmoved, Points

(* A request that is sent again, or whose call ends.                        *)
LEMMA UnansweredMoves ==
  ASSUME ClientsOK, NEW c \in Clients, Unanswered(c), pc[c] # "delete"
  PROVE  (Ends(c) \/ Unmoved(c)) /\ Others(c) /\ ClientsOK'
<1>1. CASE UNCHANGED <<pc, op, returned>>
  BY <1>1 DEF Others, Unmoved, ClientsOK
<1>2. CASE Return(c, "error")
  BY <1>2, ReturnMoves DEF Ends, Answers, Outcomes
<1>3. QED
  BY <1>1, <1>2 DEF Unanswered

-------------------------------------------------------------------------------
(* One lemma for each kind of request.                                      *)
Stepped(c) == (Moves(c) \/ Unmoved(c)) /\ Others(c) /\ ClientsOK'

LEMMA CallsStep ==
  ASSUME ClientsOK, NEW c \in Clients, NEW k \in Keys,
         EnsureKeyGroup(c, k) \/ DeletePublicKey(c, k) \/ VerifyKeyInGroup(c, k)
  PROVE  Stepped(c)
<1> DEFINE keyed   == [NoOp EXCEPT !.key = k]
           deleted == [NoOp EXCEPT !.evict = {k}]
<1>0. {"list", "delete", "verifyList"} \subseteq Points
  BY DEF Points, Verifying
<1>1. keyed \in Ops /\ keyed.key = k /\ keyed.ids = {} /\ keyed.evict = {}
  BY KeyOp
<1>2. deleted \in Ops /\ deleted.key = NoKey /\ deleted.ids = {} /\ deleted.evict = {k}
  BY EvictOp
<1>3. /\ pc[c] = "idle"
      /\ EnsureKeyGroup(c, k) => Call(c, "list", keyed) /\ created[k] > 0
      /\ DeletePublicKey(c, k) => Call(c, "delete", deleted) /\ created[k] > 0
      /\ VerifyKeyInGroup(c, k) => Call(c, "verifyList", keyed)
  BY DEF EnsureKeyGroup, DeletePublicKey, VerifyKeyInGroup, Call
<1> HIDE DEF keyed, deleted
<1>4. ASSUME NEW point \in Points, NEW o \in Ops, Call(c, point, o)
      PROVE  /\ pc'[c] = point /\ op'[c] = o /\ returned'[c] = "none"
             /\ Others(c) /\ ClientsOK'
  BY <1>4, CallMoves
<1>5. CASE EnsureKeyGroup(c, k)
  <2>1. /\ pc'[c] = "list" /\ op'[c] = keyed /\ returned'[c] = "none"
        /\ Others(c) /\ ClientsOK'
    BY <1>0, <1>1, <1>3, <1>4, <1>5
  <2>2. Begins(c)
    BY <1>1, <1>3, <1>5, <2>1 DEF Begins
  <2>3. QED
    BY <2>1, <2>2 DEF Stepped, Moves
<1>6. CASE DeletePublicKey(c, k)
  <2>1. /\ pc'[c] = "delete" /\ op'[c] = deleted /\ returned'[c] = "none"
        /\ Others(c) /\ ClientsOK'
    BY <1>0, <1>2, <1>3, <1>4, <1>6
  <2>2. Begins(c)
    BY <1>2, <1>3, <1>6, <2>1 DEF Begins
  <2>3. QED
    BY <2>1, <2>2 DEF Stepped, Moves
<1>7. CASE VerifyKeyInGroup(c, k)
  <2>1. /\ pc'[c] = "verifyList" /\ op'[c] = keyed /\ returned'[c] = "none"
        /\ Others(c) /\ ClientsOK'
    BY <1>0, <1>1, <1>3, <1>4, <1>7
  <2>2. Begins(c)
    BY <1>1, <1>3, <1>7, <2>1 DEF Begins
  <2>3. QED
    BY <2>1, <2>2 DEF Stepped, Moves
<1>8. QED
  BY <1>5, <1>6, <1>7

(* The call goes on to the next request, with the same locals.              *)
LEMMA GoesOn ==
  ASSUME ClientsOK, NEW c \in Clients, NEW point \in Points,
         Goto(c, point), op' = op
  PROVE  /\ pc'[c] = point /\ op'[c] = op[c] /\ returned'[c] = returned[c]
         /\ Others(c) /\ ClientsOK'
BY DEF ClientsOK, Goto, Others, Unmoved

LEMMA ListSteps ==
  ASSUME ClientsOK, NEW c \in Clients, List(c) \/ VerifyList(c)
  PROVE  Stepped(c)
<1>1. CASE List(c)
  <2>1. IF grouped THEN "get" \in Points ELSE "create" \in Points
    BY DEF Points
  <2>2. QED
    BY <1>1, <2>1, GoesOn DEF List, Stepped, Moves, Proceeds, Lists
<1>2. CASE VerifyList(c)
  <2>1. "verifyGet" \in Points
    BY DEF Points, Verifying
  <2>2. CASE grouped
    BY <1>2, <2>1, <2>2, GoesOn DEF VerifyList, Stepped, Moves, Proceeds, Looks
  <2>3. CASE ~grouped
    BY <1>2, <2>3, ReturnMoves
       DEF VerifyList, Stepped, Moves, Ends, Answers, Outcomes
  <2>4. QED
    BY <2>2, <2>3
<1>3. QED
  BY <1>1, <1>2

LEMMA CreateSteps ==
  ASSUME ClientsOK, NEW c \in Clients,
         CreateSucceeds(c) \/ CreateAnswerLost(c) \/ CreateRefused(c)
  PROVE  Stepped(c)
<1>1. CASE CreateSucceeds(c) \/ CreateRefused(c)
  BY <1>1, ReturnMoves
     DEF CreateSucceeds, CreateEffect, CreateRefused, Stepped, Moves, Ends, Answers, Outcomes
<1>2. CASE CreateAnswerLost(c)
  BY <1>2, UnansweredMoves DEF CreateAnswerLost, Stepped, Moves
<1>3. QED
  BY <1>1, <1>2

(* The call goes on with the group's items.                                 *)
LEMMA IdsMoves ==
  ASSUME ClientsOK, NEW c \in Clients, NEW point \in Points, NEW ids \in SUBSET Keys,
         Goto(c, point), op' = [op EXCEPT ![c].ids = ids]
  PROVE  /\ pc'[c] = point /\ returned'[c] = returned[c] /\ Others(c) /\ ClientsOK'
         /\ op'[c].key = op[c].key /\ op'[c].ids = ids /\ op'[c].evict = op[c].evict
<1> DEFINE q == [op[c] EXCEPT !.ids = ids]
<1>1. op[c] \in Ops
  BY DEF ClientsOK
<1>2. q \in Ops /\ q.key = op[c].key /\ q.ids = ids /\ q.evict = op[c].evict
  BY <1>1, IdsOp
<1>3. op' = [op EXCEPT ![c] = q]
  OBVIOUS
<1> HIDE DEF q
<1>4. /\ pc'[c] = point /\ op'[c] = q /\ returned'[c] = returned[c]
      /\ Others(c) /\ ClientsOK'
  BY <1>2, <1>3, GotoMoves
<1>5. QED
  BY <1>2, <1>4

LEMMA GetSteps ==
  ASSUME Kept, NEW c \in Clients, Get(c) \/ VerifyGet(c)
  PROVE  Stepped(c)
<1>0. ClientsOK /\ op[c] \in Ops /\ items \subseteq Keys
  BY DEF Kept, ClientsOK, CloudOK
<1>1. CASE Get(c)
  <2>1. op[c].key \in Keys
    BY <1>1 DEF Get, Kept, LocalsOK, LocalOK
  <2> DEFINE ids == items \union {op[c].key}
  <2>2. ids \in SUBSET Keys /\ "fetch" \in Points
    BY <1>0, <2>1 DEF Points
  <2>3. /\ Goto(c, "fetch")
        /\ op' = [op EXCEPT ![c].ids = ids]
    BY <1>1 DEF Get, DeduplicateKeys
  <2>4. pc[c] = "get"
    BY <1>1 DEF Get
  <2>5. ids = items \union {op[c].key}
    OBVIOUS
  <2> HIDE DEF ids
  <2>6. /\ pc'[c] = "fetch" /\ returned'[c] = returned[c] /\ Others(c) /\ ClientsOK'
        /\ op'[c].key = op[c].key /\ op'[c].ids = ids /\ op'[c].evict = op[c].evict
    BY <1>0, <2>2, <2>3, IdsMoves
  <2>7. QED
    BY <2>4, <2>5, <2>6 DEF Stepped, Moves, Proceeds, Reads
<1>2. CASE VerifyGet(c)
  <2>1. "verifyRead" \in Points /\ items \in SUBSET Keys
    BY <1>0 DEF Points, Verifying
  <2>2. Goto(c, "verifyRead") /\ op' = [op EXCEPT ![c].ids = items]
    BY <1>2 DEF VerifyGet
  <2>3. pc[c] = "verifyGet"
    BY <1>2 DEF VerifyGet
  <2>4. QED
    BY <1>0, <2>1, <2>2, <2>3, IdsMoves DEF Stepped, Moves, Proceeds, Snapshots
<1>3. QED
  BY <1>1, <1>2

LEMMA FetchSteps ==
  ASSUME Kept, NEW c \in Clients,
         FetchSucceeds(c) \/ FetchMisses(c) \/ FetchFails(c)
  PROVE  Stepped(c)
<1>0. ClientsOK /\ op[c] \in Ops /\ op[c].ids \subseteq Keys /\ "update" \in Points
  BY DEF Kept, ClientsOK, Ops, Points
<1>1. CASE FetchSucceeds(c)
  <2>1. PICK keep \in SUBSET op[c].ids :
           /\ Keeps(op[c].ids, keep)
           /\ op' = [op EXCEPT ![c] = [op[c] EXCEPT !.ids = keep,
                                                    !.evict = op[c].ids \ keep]]
    BY <1>1 DEF FetchSucceeds
  <2>2. keep \in SUBSET Keys /\ op[c].ids \ keep \in SUBSET Keys
    BY <1>0
  <2>3. pc[c] = "fetch" /\ Goto(c, "update") /\ op[c].ids \subseteq exists
    BY <1>1 DEF FetchSucceeds
  <2> DEFINE q == [op[c] EXCEPT !.ids = keep, !.evict = op[c].ids \ keep]
  <2>4. q \in Ops /\ q.key = op[c].key /\ q.ids = keep /\ q.evict = op[c].ids \ keep
    BY <1>0, <2>2 DEF Ops
  <2>5. op' = [op EXCEPT ![c] = q]
    BY <2>1
  <2> HIDE DEF q
  <2>6. /\ pc'[c] = "update" /\ op'[c] = q /\ returned'[c] = returned[c]
        /\ Others(c) /\ ClientsOK'
    BY <1>0, <2>3, <2>4, <2>5, GotoMoves
  <2>7. QED
    BY <2>1, <2>3, <2>4, <2>6 DEF Stepped, Moves, Proceeds, Partitions
<1>2. CASE FetchMisses(c)
  BY <1>0, <1>2, GoesOn DEF FetchMisses, Stepped, Moves, Proceeds, KeepsAll
<1>3. CASE FetchFails(c)
  BY <1>0, <1>3, GoesOn, FaultCounts DEF FetchFails, Stepped, Moves, Proceeds, KeepsAll, Kept
<1>4. QED
  BY <1>1, <1>2, <1>3

LEMMA UpdateSteps ==
  ASSUME ClientsOK, NEW c \in Clients,
         UpdateSucceeds(c) \/ UpdateAnswerLost(c) \/ UpdateRefused(c)
  PROVE  Stepped(c)
<1>1. CASE UpdateSucceeds(c)
  <2>1. "delete" \in Points
    BY DEF Points
  <2>2. QED
    BY <1>1, <2>1, GoesOn
       DEF UpdateSucceeds, Stepped, Moves, Proceeds, Updated, Updates
<1>2. CASE UpdateAnswerLost(c)
  BY <1>2, UnansweredMoves DEF UpdateAnswerLost, Stepped, Moves
<1>3. CASE UpdateRefused(c)
  BY <1>3, ReturnMoves DEF UpdateRefused, Stepped, Moves, Ends, Answers, Outcomes
<1>4. QED
  BY <1>1, <1>2, <1>3

(* One key less to delete. *)
LEMMA DeletedMoves ==
  ASSUME ClientsOK, NEW c \in Clients, NEW k, Deleted(c, k), UNCHANGED <<pc, returned>>
  PROVE  /\ pc'[c] = pc[c] /\ returned'[c] = returned[c]
         /\ op'[c].key = op[c].key /\ op'[c].ids = op[c].ids
         /\ op'[c].evict = op[c].evict \ {k}
         /\ Others(c) /\ ClientsOK'
<1>1. op[c] \in Ops /\ op[c].evict \ {k} \in SUBSET Keys
  BY DEF ClientsOK, Ops
<1>2. op' = [op EXCEPT ![c] = [op[c] EXCEPT !.evict = op[c].evict \ {k}]]
  BY DEF Deleted
<1>3. QED
  BY <1>1, <1>2, EvictedOp DEF ClientsOK, Others, Unmoved

LEMMA DeleteSteps ==
  ASSUME Kept, NEW c \in Clients, NEW k \in Keys,
         DeleteAnswered(c, k) \/ DeleteUnanswered(c, k)
  PROVE  Stepped(c)
<1>0. /\ ClientsOK /\ pc[c] = "delete" /\ k \in op[c].evict
      /\ op[c].key = NoKey => op[c].evict = {k}
  <2>1. ClientsOK /\ pc[c] = "delete" /\ k \in op[c].evict
    BY DEF DeleteAnswered, DeleteUnanswered, Kept
  <2>2. op[c].key = NoKey => \E j \in Keys : op[c].evict = {j}
    BY <2>1 DEF Kept, LocalsOK, LocalOK
  <2>3. QED
    BY <2>1, <2>2
<1>1. CASE DeleteAnswered(c, k)
  <2>1. k \in items \/ k \notin exists'
    BY <1>1 DEF DeleteAnswered
  <2>2. CASE op[c].key = NoKey
    <3>1. /\ pc'[c] = "idle" /\ op'[c] = NoOp /\ returned'[c] \in {"ok", "error"}
          /\ Others(c) /\ ClientsOK'
      BY <1>0, <1>1, <2>2, ReturnMoves DEF DeleteAnswered, Outcomes
    <3>2. op[c].evict \intersect exists' \subseteq items
      BY <1>0, <2>1, <2>2
    <3>3. QED
      BY <1>0, <3>1, <3>2 DEF Stepped, Moves, Ends, Answers
  <2>3. CASE op[c].key # NoKey
    <3>1. Deleted(c, k) /\ UNCHANGED <<pc, returned>>
      BY <1>1, <2>3 DEF DeleteAnswered
    <3>2. QED
      BY <1>0, <2>1, <2>3, <3>1, DeletedMoves DEF Stepped, Moves, Proceeds, Evicted
  <2>4. QED
    BY <2>2, <2>3
<1>2. CASE DeleteUnanswered(c, k)
  <2>1. faults' # 0
    BY <1>2, FaultCounts DEF DeleteUnanswered, Kept
  <2>2. CASE UNCHANGED <<pc, op, returned>>
    BY <1>0, <2>2 DEF Stepped, Unmoved, Others, ClientsOK
  <2>3. CASE Return(c, "error")
    BY <1>0, <2>1, <2>3, ReturnMoves DEF Stepped, Moves, Ends, Answers, Outcomes
  <2>4. CASE op[c].key # NoKey /\ Deleted(c, k) /\ UNCHANGED <<pc, returned>>
    BY <1>0, <2>1, <2>4, DeletedMoves DEF Stepped, Moves, Proceeds, Evicted
  <2>5. QED
    BY <1>2, <2>2, <2>3, <2>4 DEF DeleteUnanswered
<1>3. QED
  BY <1>1, <1>2

LEMMA EndSteps ==
  ASSUME Kept, NEW c \in Clients,
         \/ Done(c) \/ VerifyReads(c) \/ VerifyMisses(c) \/ RequestFails(c) \/ Crash(c)
  PROVE  Stepped(c)
<1>0. ClientsOK
  BY DEF Kept
<1>1. CASE Done(c)
  BY <1>0, <1>1, ReturnMoves DEF Done, Stepped, Moves, Ends, Answers, Outcomes
<1>2. CASE VerifyReads(c) \/ VerifyMisses(c)
  BY <1>0, <1>2, ReturnMoves, FaultCounts
     DEF VerifyReads, VerifyMisses, Stepped, Moves, Ends, Answers, Outcomes, Kept
<1>3. CASE RequestFails(c)
  BY <1>0, <1>3, UnansweredMoves DEF RequestFails, Stepped, Moves
<1>4. CASE Crash(c)
  BY <1>0, <1>4, ReturnMoves, FaultCounts
     DEF Crash, Stepped, Moves, Ends, Answers, Outcomes, Kept
<1>5. QED
  BY <1>1, <1>2, <1>3, <1>4

(* A step of Next is a move of each client, or leaves it where it was. *)
LEMMA ClientSteps ==
  ASSUME Kept, [Next]_vars
  PROVE  ClientsOK' /\ \A c \in Clients : Moves(c) \/ Unmoved(c)
<1>0. ClientsOK
  BY DEF Kept
<1>1. ASSUME NEW c \in Clients, Stepped(c)
      PROVE  ClientsOK' /\ \A d \in Clients : Moves(d) \/ Unmoved(d)
  BY <1>1 DEF Stepped, Others
<1>2. CASE UNCHANGED <<pc, op, returned>>
  BY <1>0, <1>2 DEF ClientsOK, Unmoved
<1>3. ASSUME NEW c \in Clients, NEW k \in Keys, CreatePublicKey(c, k)
      PROVE  UNCHANGED <<pc, op, returned>>
  BY <1>3 DEF CreatePublicKey
<1>4. UNCHANGED vars => UNCHANGED <<pc, op, returned>>
  BY DEF vars
<1>5. CASE Step
  BY <1>0, <1>1, <1>2, <1>3, <1>5, CallsStep, ListSteps, CreateSteps, GetSteps,
     FetchSteps, UpdateSteps, DeleteSteps, EndSteps DEF Step
<1>6. QED
  BY <1>2, <1>4, <1>5 DEF Next

-------------------------------------------------------------------------------
(* A client's keys stay created, and its locals what its request needs.     *)
LEMMA GroupStays ==
  ASSUME Kept, [Next]_vars, grouped
  PROVE  grouped'
BY CloudSteps DEF cloud, Registers, Sees, Groups, CreateEffect, Updates, UpdateEffect, Deletes

LEMMA StepKeepsLocals ==
  ASSUME Kept, [Next]_vars PROVE LocalsOK'
<1> SUFFICES ASSUME NEW c \in Clients PROVE LocalOK(c)'
  BY DEF LocalsOK
<1>1. /\ CloudOK /\ LocalOK(c) /\ op[c] \in Ops /\ op'[c] \in Ops
      /\ pc'[c] \in Points
  BY ClientSteps DEF Kept, ClientsOK, LocalsOK
<1>2. \A k \in Keys : created[k] > 0 => created'[k] > 0
  BY <1>1, AgesStay
<1>3. grouped => grouped'
  BY GroupStays
<1>4. /\ op[c].ids \subseteq Keys /\ op[c].evict \subseteq Keys
      /\ op'[c].ids \subseteq Keys /\ op'[c].evict \subseteq Keys
      /\ items \subseteq {k \in Keys : created[k] > 0} /\ NoKey \notin Keys
  BY <1>1, SizesOK DEF Ops, CloudOK
<1>5. CASE Unmoved(c)
  BY <1>1, <1>2, <1>3, <1>4, <1>5 DEF LocalOK, Unmoved
<1>6. CASE Begins(c)
  BY <1>1, <1>2, <1>4, <1>6 DEF LocalOK, Begins, Verifying
<1>7. CASE Ends(c)
  BY <1>7, NoOpIsOp DEF LocalOK, Ends, Verifying
<1>8. CASE Proceeds(c)
  <2>0. returned'[c] = returned[c]
    BY <1>8 DEF Proceeds
  <2>1. CASE Lists(c)
    BY <1>1, <1>2, <1>3, <1>4, <2>1 DEF LocalOK, Lists, Verifying
  <2>2. CASE Reads(c)
    BY <1>1, <1>2, <1>3, <1>4, <2>2 DEF LocalOK, Reads, Verifying
  <2>3. CASE Partitions(c)
    <3>1. op'[c].ids # {}
      <4>1. op[c].ids # {} /\ IsFiniteSet(op[c].ids)
        BY <1>1, <1>4, <2>3, SizesOK, FS_Subset DEF LocalOK, Partitions
      <4>2. Cardinality(op[c].ids) \in Nat /\ Cardinality(op[c].ids) # 0
        BY <4>1, FS_EmptySet, FS_CardinalityType
      <4>3. Cardinality(op'[c].ids) # 0
        BY <2>3, <4>2, SizesOK DEF Partitions, Keeps
      <4>4. QED
        BY <4>3, FS_EmptySet
    <3>2. op'[c].ids \subseteq op[c].ids /\ op'[c].evict \subseteq op[c].ids
      BY <2>3 DEF Partitions, Keeps
    <3>3. QED
      BY <1>1, <1>2, <1>3, <1>4, <2>3, <3>1, <3>2 DEF LocalOK, Partitions, Verifying
  <2>4. CASE KeepsAll(c)
    BY <1>1, <1>2, <1>3, <1>4, <2>4 DEF LocalOK, KeepsAll, Verifying
  <2>5. CASE Updated(c)
    BY <1>1, <1>2, <1>4, <2>5 DEF LocalOK, Updated, Updates, Verifying
  <2>6. CASE Evicted(c)
    BY <1>1, <1>2, <1>4, <2>6 DEF LocalOK, Evicted, Verifying
  <2>7. CASE Looks(c)
    BY <1>1, <1>2, <1>4, <2>0, <2>7 DEF LocalOK, Looks, Verifying
  <2>8. CASE Snapshots(c)
    BY <1>1, <1>2, <1>4, <2>0, <2>8 DEF LocalOK, Snapshots, Verifying
  <2>9. QED
    BY <1>8, <2>1, <2>2, <2>3, <2>4, <2>5, <2>6, <2>7, <2>8 DEF Proceeds
<1>9. QED
  BY <1>5, <1>6, <1>7, <1>8, ClientSteps DEF Moves

(* Faults are counted, and never forgotten. *)
LEMMA FaultsStay ==
  ASSUME [Next]_vars PROVE faults' = faults \/ Fault
BY DEF Next, Step, vars, CreatePublicKey, EnsureKeyGroup, DeletePublicKey,
       VerifyKeyInGroup, Call, DeleteAnswered, DeleteUnanswered, List,
       CreateSucceeds, CreateAnswerLost, CreateRefused, Get, FetchSucceeds,
       FetchMisses, FetchFails, UpdateSucceeds, UpdateAnswerLost, UpdateRefused,
       Done, VerifyList, VerifyGet, VerifyReads, VerifyMisses, RequestFails, Crash

(* The locals, the group and the faults are as the calls left them.         *)
LEMMA KeptHolds == Spec => []Kept
<1>1. Init => Kept
  <2> SUFFICES ASSUME Init PROVE Kept
    OBVIOUS
  <2>1. CloudOK
    BY DEF Init, CloudOK
  <2>2. ClientsOK
    BY NoOpIsOp DEF Init, ClientsOK, Points, Outcomes
  <2>3. LocalsOK
    BY NoOpIsOp DEF Init, LocalsOK, LocalOK, Verifying
  <2>4. QED
    BY <2>1, <2>2, <2>3 DEF Kept, Init
<1>2. Kept /\ [Next]_vars => Kept'
  <2> SUFFICES ASSUME Kept, [Next]_vars PROVE Kept'
    OBVIOUS
  <2>1. faults' \in Nat
    BY FaultsStay DEF Fault, Kept
  <2>2. QED
    BY <2>1, StepKeepsCloud, StepKeepsLocals, ClientSteps DEF Kept
<1>3. QED
  BY <1>1, <1>2, PTL DEF Spec

FaultsInRange == faults \in 0 .. MaxFaults

(* A fault takes one of the bounded number. *)
LEMMA FaultsBounded == Spec => []FaultsInRange
<1>1. Init => FaultsInRange
  BY SizesOK DEF Init, FaultsInRange
<1>2. FaultsInRange /\ [Next]_vars => FaultsInRange'
  BY FaultsStay, SizesOK DEF FaultsInRange, Fault
<1>3. QED
  BY <1>1, <1>2, PTL DEF Spec

Verdicts == verdicts \in [Clients -> SUBSET {"present", "absent"}]

LEMMA VerdictsTyped == Spec => []Verdicts
<1>1. Init => Verdicts
  BY DEF Init, Verdicts
<1>2. Verdicts /\ [Next]_vars => Verdicts'
  BY DEF Verdicts, Next, Watch, vars
<1>3. QED
  BY <1>1, <1>2, PTL DEF Spec

(* The values of CloudFront's and the clients' variables: the group's keys  *)
(* exist, and it has some once it was created.                              *)
THEOREM KeyGroupTyped == Spec => []TypeOK
<1>1. Kept /\ FaultsInRange /\ Verdicts => TypeOK
  BY DEF Kept, CloudOK, ClientsOK, Outcomes, FaultsInRange, Verdicts, TypeOK
<1>2. QED
  BY <1>1, KeptHolds, FaultsBounded, VerdictsTyped, PTL

-------------------------------------------------------------------------------
(* The group's keys change by its creation or an accepted update only.      *)
LEMMA ItemsChange ==
  ASSUME Kept, [Next]_vars
  PROVE  \/ items' = items /\ dropped' = dropped
         \/ /\ ~grouped /\ items = {} /\ dropped' = dropped
            /\ \E c \in Clients : items' = {op[c].key}
         \/ \E c \in Clients : Updates(c)
BY CloudSteps DEF cloud, Registers, Sees, Groups, CreateEffect, CanCreate, Deletes,
                  Kept, CloudOK

(* While a client's ETag is the group's, what it read is what the group has. *)
FreshOK ==
    \A c \in fresh :
       /\ pc[c] = "fetch" => items \subseteq op[c].ids
       /\ pc[c] = "update" => items \ op[c].ids \subseteq op[c].evict

LEMMA StepKeepsFresh ==
  ASSUME Kept, FreshOK, [Next]_vars PROVE FreshOK'
<1> SUFFICES ASSUME NEW c \in fresh', pc'[c] \in {"fetch", "update"}
             PROVE  /\ pc'[c] = "fetch" => items' \subseteq op'[c].ids
                    /\ pc'[c] = "update" => items' \ op'[c].ids \subseteq op'[c].evict
  BY DEF FreshOK
<1>1. c \in Clients /\ CloudOK /\ LocalOK(c)
  BY CloudSteps DEF Kept, CloudOK, LocalsOK, cloud, Registers, Sees, Groups,
                    CreateEffect, Updates, UpdateEffect, Deletes
<1>2. Reads(c) \/ Partitions(c) \/ KeepsAll(c) \/ Unmoved(c)
  BY <1>1, ClientSteps
     DEF Moves, Begins, Ends, Proceeds, Lists, Updated, Evicted, Looks, Snapshots
<1>3. grouped
  BY <1>1, <1>2 DEF LocalOK, Reads, Partitions, KeepsAll, Unmoved
<1>4. items' = items
  BY <1>3, ItemsChange DEF Updates, UpdateEffect
<1>5. c \in fresh \/ Reads(c)
  <2>1. c \in fresh \/ Get(c)
    BY CloudSteps DEF cloud, Registers, Sees, Groups,
                      CreateEffect, Updates, UpdateEffect, Deletes
  <2>2. ~Unmoved(c) \/ pc[c] # "get"
    BY DEF Unmoved
  <2>3. QED
    BY <1>2, <2>1, <2>2 DEF Get, Partitions, KeepsAll
<1>6. CASE Reads(c)
  BY <1>4, <1>6 DEF Reads
<1>7. CASE Partitions(c)
  BY <1>4, <1>5, <1>7 DEF Partitions, Reads, FreshOK
<1>8. CASE KeepsAll(c)
  BY <1>4, <1>5, <1>8 DEF KeepsAll, Reads, FreshOK
<1>9. CASE Unmoved(c)
  BY <1>4, <1>5, <1>9 DEF Unmoved, Reads, FreshOK
<1>10. QED
  BY <1>2, <1>6, <1>7, <1>8, <1>9

LEMMA FreshHolds == Spec => []FreshOK
<1>1. Init => FreshOK
  BY DEF Init, FreshOK
<1>2. Kept /\ FreshOK /\ [Next]_vars => FreshOK'
  BY StepKeepsFresh
<1>3. QED
  BY <1>1, <1>2, KeptHolds, PTL DEF Spec

LostStep == \A k \in items \ items' :
               \E c \in Clients : /\ pc[c] = "update"
                                  /\ k \in op[c].evict

(* A key that another client added after this client's GetKeyGroup is not   *)
(* lost.                                                                    *)
THEOREM NoKeyIsLost == Spec => NoLostKey
<1>1. Kept /\ FreshOK /\ [Next]_vars => LostStep
  <2> SUFFICES ASSUME Kept, FreshOK, [Next]_vars, NEW k \in items, k \notin items'
               PROVE  \E c \in Clients : pc[c] = "update" /\ k \in op[c].evict
    BY DEF LostStep
  <2>1. PICK c \in Clients : Updates(c)
    BY ItemsChange
  <2>2. QED
    BY <2>1 DEF Updates, UpdateEffect, CanUpdate, FreshOK
<1>2. [][LostStep]_vars => NoLostKey
  BY DEF LostStep, NoLostKey
<1>3. QED
  BY <1>1, <1>2, KeptHolds, FreshHolds, PTL DEF Spec

-------------------------------------------------------------------------------
(* A client at its update evicts no key that is newer than one it keeps.    *)
AgesOK == \A c \in Clients :
             pc[c] = "update" =>
                \A old \in op[c].evict, kept \in op[c].ids : created[old] <= created[kept]

LEMMA StepKeepsAges ==
  ASSUME Kept, AgesOK, [Next]_vars PROVE AgesOK'
<1> SUFFICES ASSUME NEW c \in Clients, pc'[c] = "update",
                    NEW old \in op'[c].evict, NEW kept \in op'[c].ids
             PROVE  created'[old] <= created'[kept]
  BY DEF AgesOK
<1>1. /\ LocalOK(c) /\ op[c].ids \subseteq Keys /\ op[c].evict \subseteq Keys
  BY DEF Kept, LocalsOK, ClientsOK, Ops
<1>2. Partitions(c) \/ KeepsAll(c) \/ Unmoved(c)
  BY ClientSteps
     DEF Moves, Begins, Ends, Proceeds, Lists, Reads, Updated, Evicted, Looks, Snapshots
<1>3. created[old] <= created[kept]
  BY <1>1, <1>2 DEF Partitions, Keeps, KeepsAll, Unmoved, AgesOK, LocalOK
<1>4. /\ old \in Keys /\ created[old] > 0
      /\ kept \in Keys /\ created[kept] > 0
  BY <1>1, <1>2 DEF Partitions, Keeps, KeepsAll, Unmoved, LocalOK
<1>5. created'[old] = created[old] /\ created'[kept] = created[kept]
  BY <1>4, AgesStay DEF Kept
<1>6. QED
  BY <1>3, <1>5

LEMMA AgesHold == Spec => []AgesOK
<1>1. Init => AgesOK
  BY DEF Init, AgesOK
<1>2. Kept /\ AgesOK /\ [Next]_vars => AgesOK'
  BY StepKeepsAges
<1>3. QED
  BY <1>1, <1>2, KeptHolds, PTL DEF Spec

NewestStep == \A old \in items \ items', kept \in items' : created[old] <= created[kept]

(* An update never keeps a key and drops a newer one, whatever other        *)
(* clients do between the reads of the keys' ages and the update.           *)
THEOREM NewestAreKept == Spec => NewestKept
<1>1. Kept /\ FreshOK /\ AgesOK /\ [Next]_vars => NewestStep
  <2> SUFFICES ASSUME Kept, FreshOK, AgesOK, [Next]_vars,
                      NEW old \in items, old \notin items', NEW kept \in items'
               PROVE  created[old] <= created[kept]
    BY DEF NewestStep
  <2>1. PICK c \in Clients : Updates(c)
    BY ItemsChange
  <2>2. pc[c] = "update" /\ old \in op[c].evict /\ kept \in op[c].ids
    BY <2>1 DEF Updates, UpdateEffect, CanUpdate, FreshOK
  <2>3. QED
    BY <2>2 DEF AgesOK
<1>2. [][NewestStep]_vars => NewestKept
  BY DEF NewestStep, NewestKept
<1>3. QED
  BY <1>1, <1>2, KeptHolds, FreshHolds, AgesHold, PTL DEF Spec

-------------------------------------------------------------------------------
(* What a VerifyKeyInGroup has read was so at a moment of the call.         *)
Now(c) == IF op[c].key \in items THEN "present" ELSE "absent"

WitnessOK(c) ==
    /\ pc[c] \in Verifying => Now(c) \in verdicts[c]
    /\ pc[c] = "verifyRead" =>
          IF op[c].key \in op[c].ids THEN "present" \in verdicts[c]
                                    ELSE "absent" \in verdicts[c]

WitnessesOK == \A c \in Clients : WitnessOK(c)

LEMMA StepKeepsWitnesses ==
  ASSUME Kept, WitnessesOK, [Next]_vars PROVE WitnessesOK'
<1> SUFFICES ASSUME NEW c \in Clients PROVE WitnessOK(c)'
  BY DEF WitnessesOK
<1>1. WitnessOK(c)
  BY DEF WitnessesOK
<1>2. CASE UNCHANGED vars
  BY <1>1, <1>2 DEF vars, cloud, WitnessOK, Now
<1>3. CASE Watch
  <2> SUFFICES ASSUME pc'[c] \in Verifying
               PROVE  WitnessOK(c)'
    BY DEF WitnessOK, Verifying
  <2>1. verdicts'[c] = verdicts[c] \union {Now(c)'}
    BY <1>3 DEF Watch, Now
  <2>2. CASE pc'[c] # "verifyRead"
    BY <2>1, <2>2 DEF WitnessOK
  <2>3. CASE Snapshots(c)
    <3>1. Now(c) \in verdicts[c]
      BY <1>1, <2>3 DEF WitnessOK, Snapshots, Verifying
    <3>2. op'[c].key \in op'[c].ids <=> op[c].key \in items
      BY <2>3 DEF Snapshots
    <3>3. QED
      BY <2>1, <3>1, <3>2 DEF WitnessOK, Now
  <2>4. CASE Unmoved(c)
    BY <1>1, <2>1, <2>4 DEF WitnessOK, Unmoved
  <2>5. QED
    BY <2>2, <2>3, <2>4, ClientSteps
       DEF Moves, Begins, Ends, Proceeds, Lists, Reads, Partitions, KeepsAll,
           Updated, Evicted, Looks
<1>4. QED
  BY <1>2, <1>3 DEF Next

LEMMA WitnessesHold == Spec => []WitnessesOK
<1>1. Init => WitnessesOK
  BY DEF Init, WitnessesOK, WitnessOK, Verifying
<1>2. Kept /\ WitnessesOK /\ [Next]_vars => WitnessesOK'
  BY StepKeepsWitnesses
<1>3. QED
  BY <1>1, <1>2, KeptHolds, PTL DEF Spec

VerifyStep ==
    \A c \in Clients :
       /\ pc[c] \in Verifying
       /\ returned'[c] = "present" \/ (returned'[c] = "absent" /\ faults' = 0)
       => returned'[c] \in verdicts[c]

(* VerifyKeyInGroup's answer was true at some moment of the call, however   *)
(* the group and the keys change between its list, its snapshot and its     *)
(* reads; an "absent" is not vouched for if a request failed.               *)
THEOREM VerifyIsTrue == Spec => VerifyWasTrue
<1>1. Kept /\ WitnessesOK /\ [Next]_vars => VerifyStep
  <2> SUFFICES ASSUME Kept, WitnessesOK, [Next]_vars, NEW c \in Clients,
                      pc[c] \in Verifying,
                      \/ returned'[c] = "present"
                      \/ returned'[c] = "absent" /\ faults' = 0
               PROVE  returned'[c] \in verdicts[c]
    BY DEF VerifyStep
  <2>1. WitnessOK(c) /\ returned[c] = "none" /\ items \subseteq exists
    BY DEF WitnessesOK, Kept, LocalsOK, LocalOK, CloudOK
  <2>2. ~grouped => items = {}
    BY DEF Kept, CloudOK
  <2>3. Ends(c)
    BY <2>1, ClientSteps DEF Moves, Begins, Proceeds, Unmoved
  <2>4. \/ returned'[c] = "present" /\ pc[c] = "verifyRead" /\ Found(c)
        \/ returned'[c] = "absent" /\ pc[c] = "verifyList" /\ ~grouped
        \/ returned'[c] = "absent" /\ pc[c] = "verifyRead" /\ ~Found(c)
    BY <2>3 DEF Ends, Answers
  <2>5. QED
    BY <2>1, <2>2, <2>4 DEF WitnessOK, Now, Found, Verifying
<1>2. [][VerifyStep]_vars => VerifyWasTrue
  BY DEF VerifyStep, VerifyWasTrue
<1>3. QED
  BY <1>1, <1>2, KeptHolds, WitnessesHold, PTL DEF Spec

-------------------------------------------------------------------------------
(* A client at its update keeps at most MaxKeys keys, unless it could not   *)
(* read them all; then its update is refused, as a key that is gone does    *)
(* not come back.                                                           *)
Fits(ids) == Cardinality(ids) <= MaxKeys

BoundOK == faults = 0 =>
              /\ Fits(items)
              /\ \A c \in Clients :
                    pc[c] = "update" => Fits(op[c].ids) \/ ~(op[c].ids \subseteq exists)

LEMMA StepKeepsBound ==
  ASSUME Kept, BoundOK, [Next]_vars PROVE BoundOK'
<1> SUFFICES ASSUME faults' = 0
             PROVE  /\ Fits(items')
                    /\ \A c \in Clients :
                          pc'[c] = "update" => Fits(op'[c].ids) \/ ~(op'[c].ids \subseteq exists')
  BY DEF BoundOK, Fits
<1>1. faults = 0
  BY FaultsStay DEF Fault, Kept
<1>2. Fits(items')
  <2>1. CASE items' = items
    BY <1>1, <2>1 DEF BoundOK
  <2>2. ASSUME NEW c \in Clients, items' = {op[c].key} PROVE Fits(items')
    <3>1. Cardinality({op[c].key}) = 1
      BY FS_Singleton
    <3>2. QED
      BY <2>2, <3>1, SizesOK DEF Fits
  <2>3. ASSUME NEW c \in Clients, Updates(c) PROVE Fits(items')
    BY <1>1, <2>3 DEF BoundOK, Updates, UpdateEffect, CanUpdate
  <2>4. QED
    BY <2>1, <2>2, <2>3, ItemsChange
<1>3. ASSUME NEW c \in Clients, pc'[c] = "update"
      PROVE  Fits(op'[c].ids) \/ ~(op'[c].ids \subseteq exists')
  <2>1. /\ op[c].ids \subseteq Keys /\ LocalOK(c)
    BY DEF Kept, LocalsOK, ClientsOK, Ops
  <2>2. \A k \in op[c].ids : k \in exists' => k \in exists
    BY <2>1, AgesStay DEF LocalOK, Kept
  <2>3. CASE Partitions(c)
    <3>1. IsFiniteSet(op[c].ids)
      BY <2>1, SizesOK, FS_Subset
    <3>2. Cardinality(op[c].ids) \in Nat
      BY <3>1, FS_CardinalityType
    <3>3. QED
      BY <2>3, <3>2, SizesOK DEF Partitions, Keeps, Fits
  <2>4. CASE KeepsAll(c)
    BY <1>1, <2>2, <2>4 DEF KeepsAll
  <2>5. CASE Unmoved(c)
    BY <1>1, <1>3, <2>2, <2>5 DEF Unmoved, BoundOK
  <2>6. QED
    BY <1>3, <2>3, <2>4, <2>5, ClientSteps
       DEF Moves, Begins, Ends, Proceeds, Lists, Reads, Updated, Evicted, Looks, Snapshots
<1>4. QED
  BY <1>2, <1>3

(* Unless a request failed, the group has at most maxKeys keys.             *)
THEOREM GroupIsBounded == Spec => []GroupBounded
<1>1. Init => BoundOK
  BY SizesOK, FS_EmptySet DEF Init, BoundOK, Fits
<1>2. Kept /\ BoundOK /\ [Next]_vars => BoundOK'
  BY StepKeepsBound
<1>3. BoundOK => GroupBounded
  BY DEF BoundOK, GroupBounded, Fits
<1>4. QED
  BY <1>1, <1>2, <1>3, KeptHolds, PTL DEF Spec

-------------------------------------------------------------------------------
(* A dropped key is left to a client that is at its deletes.                *)
Left(k) == \E c \in Clients : pc[c] = "delete" /\ k \in op[c].evict

DroppedOK == faults = 0 => \A k \in dropped \intersect exists : k \in items \/ Left(k)

LEMMA StepKeepsDropped ==
  ASSUME Kept, FreshOK, DroppedOK, [Next]_vars PROVE DroppedOK'
<1> SUFFICES ASSUME faults' = 0, NEW k \in dropped', k \in exists', k \notin items'
             PROVE  \E c \in Clients : pc'[c] = "delete" /\ k \in op'[c].evict
  BY DEF DroppedOK, Left
<1>1. faults = 0 /\ ~Fault
  BY FaultsStay, FaultCounts DEF Fault, Kept
<1>2. CASE k \in items
  <2>1. PICK c \in Clients : Updates(c)
    BY <1>2, ItemsChange
  <2>2. k \in op[c].evict /\ pc' = [pc EXCEPT ![c] = "delete"] /\ op' = op
    BY <1>1, <1>2, <2>1 DEF Updates, UpdateEffect, CanUpdate, FreshOK, Goto
  <2>3. QED
    BY <2>2 DEF Kept, ClientsOK
<1>3. CASE k \notin items
  <2>1. k \in dropped
    BY <1>3, ItemsChange DEF Updates, UpdateEffect
  <2>2. k \in exists
    BY <2>1, AgesStay DEF Kept, CloudOK
  <2>3. PICK c \in Clients : pc[c] = "delete" /\ k \in op[c].evict
    BY <1>1, <1>3, <2>1, <2>2 DEF DroppedOK, Left
  <2>4. Ends(c) \/ Evicted(c) \/ Unmoved(c)
    BY <2>3, ClientSteps
       DEF Moves, Begins, Proceeds, Lists, Reads, Partitions, KeepsAll, Updated, Updates,
           Looks, Snapshots
  <2>5. ~Ends(c)
    BY <1>3, <2>3 DEF Ends
  <2>6. CASE Evicted(c)
    BY <1>3, <2>3, <2>6 DEF Evicted
  <2>7. CASE Unmoved(c)
    BY <2>3, <2>7 DEF Unmoved
  <2>8. QED
    BY <2>4, <2>5, <2>6, <2>7
<1>4. QED
  BY <1>2, <1>3

(* Unless a request failed or a client crashed, a key that was dropped from *)
(* the group does not stay behind.                                          *)
THEOREM DroppedKeysAreDeleted == Spec => []DroppedAreDeleted
<1>1. Init => DroppedOK
  BY DEF Init, DroppedOK
<1>2. Kept /\ FreshOK /\ DroppedOK /\ [Next]_vars => DroppedOK'
  BY StepKeepsDropped
<1>3. DroppedOK => DroppedAreDeleted
  BY DEF DroppedOK, DroppedAreDeleted, Left
<1>4. QED
  BY <1>1, <1>2, <1>3, KeptHolds, FreshHolds, PTL DEF Spec
===============================================================================
