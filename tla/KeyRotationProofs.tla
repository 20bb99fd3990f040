--------------------------- MODULE KeyRotationProofs ---------------------------
(***************************************************************************)
(* Proofs about KeyRotation, for any number of rotations, keys, versions    *)
(* and faults.                                                              *)
(***************************************************************************)
EXTENDS KeyRotation, SecretStagesProofs, FiniteSetTheorems

GP == INSTANCE KeyGroupProofs WITH pc <- groupPc, op <- groupOp, returned <- ensured,
                                   faults <- groupFaults

(* What KeyGroup assumes of its constants. *)
LEMMA GroupAssumed == GP!KeyGroupAssumption
BY KeyRotationAssumption, SecretAssumption DEF GP!KeyGroupAssumption, IsFiniteSet, GP!IsFiniteSet

-------------------------------------------------------------------------------
(* A step of the rotation is a step of the secret, and one of the group.    *)
LEMMA SecretPart ==
  ASSUME [KeyRotationNext]_rotationVars PROVE [Next]_vars
<1>1. ASSUME NEW c \in Clients, CreateKey(c) \/ StartEnsure(c) \/ EnsureStep(c)
      PROVE  UNCHANGED vars
  BY <1>1 DEF CreateKey, StartEnsure, EnsureStep
<1>2. ASSUME NEW c \in Clients,
             StartWrite(c) \/ Promote(c) \/ SecretStep(c) \/ Restart(c)
      PROVE  [Next]_vars
  BY <1>2, RotationAssumption
     DEF StartWrite, StartSet, Promote, StartPromote, SecretStep, Restart, Next
<1>3. UNCHANGED rotationVars \/ LoadSigner => UNCHANGED vars
  BY DEF rotationVars, LoadSigner
<1>4. QED
  BY <1>1, <1>2, <1>3 DEF KeyRotationNext

(* The group that KeyRotation has is the one KeyGroupProofs is about.        *)
LEMMA SameHelpers ==
  /\ Group!vars = GP!vars
  /\ Group!NoOp = GP!NoOp
  /\ Group!Watch <=> GP!Watch
BY DEF Group!vars, GP!vars, Group!cloud, GP!cloud, Group!NoOp, GP!NoOp,
       Group!Watch, GP!Watch, Group!Verifying, GP!Verifying

LEMMA SameCalls ==
  ASSUME NEW c, NEW k
  PROVE  /\ Group!CreatePublicKey(c, k) => GP!CreatePublicKey(c, k)
         /\ Group!EnsureKeyGroup(c, k) => GP!EnsureKeyGroup(c, k)
         /\ Group!DeleteAnswered(c, k) => GP!DeleteAnswered(c, k)
         /\ Group!DeleteUnanswered(c, k) => GP!DeleteUnanswered(c, k)
<1>1. \A S : Group!Cardinality(S) = GP!Cardinality(S)
  BY DEF Group!Cardinality, GP!Cardinality
<1> USE DEF Group!cloud, GP!cloud, Group!NoOp, GP!NoOp, Group!Fault, GP!Fault,
            Group!Goto, GP!Goto, Group!Return, GP!Return,
            Group!Call, GP!Call, Group!Unanswered, GP!Unanswered,
            Group!Deleted, GP!Deleted
<1>2. Group!CreatePublicKey(c, k) => GP!CreatePublicKey(c, k)
  BY <1>1 DEF Group!CreatePublicKey, GP!CreatePublicKey
<1>3. Group!EnsureKeyGroup(c, k) => GP!EnsureKeyGroup(c, k)
  BY DEF Group!EnsureKeyGroup, GP!EnsureKeyGroup
<1>4. Group!DeleteAnswered(c, k) => GP!DeleteAnswered(c, k)
  BY DEF Group!DeleteAnswered, GP!DeleteAnswered
<1>5. Group!DeleteUnanswered(c, k) => GP!DeleteUnanswered(c, k)
  BY DEF Group!DeleteUnanswered, GP!DeleteUnanswered
<1>6. QED
  BY <1>2, <1>3, <1>4, <1>5

LEMMA SameRequests ==
  ASSUME NEW c
  PROVE  /\ Group!List(c) => GP!List(c)
         /\ Group!CreateSucceeds(c) => GP!CreateSucceeds(c)
         /\ Group!CreateAnswerLost(c) => GP!CreateAnswerLost(c)
         /\ Group!CreateRefused(c) => GP!CreateRefused(c)
         /\ Group!Get(c) => GP!Get(c)
         /\ Group!FetchSucceeds(c) => GP!FetchSucceeds(c)
         /\ Group!FetchMisses(c) => GP!FetchMisses(c)
         /\ Group!FetchFails(c) => GP!FetchFails(c)
         /\ Group!UpdateSucceeds(c) => GP!UpdateSucceeds(c)
         /\ Group!UpdateAnswerLost(c) => GP!UpdateAnswerLost(c)
         /\ Group!UpdateRefused(c) => GP!UpdateRefused(c)
         /\ Group!Done(c) => GP!Done(c)
         /\ Group!RequestFails(c) => GP!RequestFails(c)
         /\ Group!Crash(c) => GP!Crash(c)
<1>1. \A S : Group!Cardinality(S) = GP!Cardinality(S)
  BY DEF Group!Cardinality, GP!Cardinality
<1> USE DEF Group!cloud, GP!cloud, Group!NoOp, GP!NoOp, Group!Fault, GP!Fault,
            Group!Goto, GP!Goto, Group!Return, GP!Return,
            Group!Call, GP!Call, Group!Unanswered, GP!Unanswered,
            Group!Deleted, GP!Deleted
<1>2. Group!List(c) => GP!List(c)
  BY DEF Group!List, GP!List
<1>3. Group!CreateSucceeds(c) => GP!CreateSucceeds(c)
  BY DEF Group!CreateSucceeds, GP!CreateSucceeds, Group!CreateEffect,
         GP!CreateEffect, Group!CanCreate, GP!CanCreate
<1>4. Group!CreateAnswerLost(c) => GP!CreateAnswerLost(c)
  BY DEF Group!CreateAnswerLost, GP!CreateAnswerLost, Group!CreateEffect,
         GP!CreateEffect, Group!CanCreate, GP!CanCreate
<1>5. Group!CreateRefused(c) => GP!CreateRefused(c)
  BY DEF Group!CreateRefused, GP!CreateRefused, Group!CanCreate,
         GP!CanCreate
<1>6. Group!Get(c) => GP!Get(c)
  BY DEF Group!Get, GP!Get, Group!DeduplicateKeys, GP!DeduplicateKeys
<1>7. Group!FetchSucceeds(c) => GP!FetchSucceeds(c)
  BY <1>1 DEF Group!FetchSucceeds, GP!FetchSucceeds, Group!Keeps, GP!Keeps
<1>8. Group!FetchMisses(c) => GP!FetchMisses(c)
  BY DEF Group!FetchMisses, GP!FetchMisses
<1>9. Group!FetchFails(c) => GP!FetchFails(c)
  BY DEF Group!FetchFails, GP!FetchFails
<1>10. Group!UpdateSucceeds(c) => GP!UpdateSucceeds(c)
  BY DEF Group!UpdateSucceeds, GP!UpdateSucceeds, Group!UpdateEffect,
         GP!UpdateEffect, Group!CanUpdate, GP!CanUpdate
<1>11. Group!UpdateAnswerLost(c) => GP!UpdateAnswerLost(c)
  BY DEF Group!UpdateAnswerLost, GP!UpdateAnswerLost, Group!UpdateEffect,
         GP!UpdateEffect, Group!CanUpdate, GP!CanUpdate
<1>12. Group!UpdateRefused(c) => GP!UpdateRefused(c)
  BY DEF Group!UpdateRefused, GP!UpdateRefused, Group!CanUpdate,
         GP!CanUpdate
<1>13. Group!Done(c) => GP!Done(c)
  BY DEF Group!Done, GP!Done
<1>14. Group!RequestFails(c) => GP!RequestFails(c)
  BY DEF Group!RequestFails, GP!RequestFails
<1>15. Group!Crash(c) => GP!Crash(c)
  BY DEF Group!Crash, GP!Crash
<1>16. QED
  BY <1>2, <1>3, <1>4, <1>5, <1>6, <1>7, <1>8, <1>9, <1>10, <1>11, <1>12,
         <1>13, <1>14, <1>15

(* A step of the rotation is a step of the group. *)
LEMMA GroupPart ==
  ASSUME [KeyRotationNext]_rotationVars PROVE [GP!Next]_(GP!vars)
<1>1. ASSUME NEW c \in Clients, CreateKey(c) \/ StartEnsure(c)
      PROVE  GP!Next
  <2>1. Key[c] \in Keys
    BY KeyRotationAssumption
  <2>2. GP!Step
    BY <1>1, <2>1, SameCalls DEF CreateKey, StartEnsure, GP!Step
  <2>3. QED
    BY <1>1, <2>2, SameHelpers DEF CreateKey, StartEnsure, GP!Next
<1>2. ASSUME NEW c \in Clients, EnsureStep(c) PROVE GP!Next
  <2>1. GP!Step
    BY <1>2, SameCalls, SameRequests DEF EnsureStep, GP!Step
  <2>2. QED
    BY <1>2, <2>1, SameHelpers DEF EnsureStep, GP!Next
<1>3. UNCHANGED groupVars => UNCHANGED GP!vars
  BY DEF groupVars, GP!vars, GP!cloud
<1>4. ASSUME NEW c \in Clients, Restart(c) PROVE [GP!Next]_(GP!vars)
  BY <1>3, <1>4, SameHelpers, SameRequests DEF Restart, GP!Step, GP!Next
<1>5. ASSUME NEW c \in Clients, StartWrite(c) \/ Promote(c) \/ SecretStep(c)
      PROVE  UNCHANGED groupVars
  BY <1>5 DEF StartWrite, Promote, SecretStep
<1>6. UNCHANGED rotationVars \/ LoadSigner => UNCHANGED groupVars
  BY DEF rotationVars, LoadSigner
<1>7. QED
  BY <1>1, <1>2, <1>3, <1>4, <1>5, <1>6 DEF KeyRotationNext

(* An idle client calls nothing but EnsureKeyGroup with its own key, and    *)
(* only CreateKey creates keys.                                             *)
Starts(c) == /\ groupPc'[c] = "list" /\ groupOp'[c].key = Key[c]
             /\ created' = created

LEMMA RotationCalls ==
  ASSUME GP!Kept, [KeyRotationNext]_rotationVars, NEW c \in Clients, groupPc[c] = "idle"
  PROVE  groupPc'[c] = "idle" \/ Starts(c)
<1>0. GP!ClientsOK
  BY DEF GP!Kept
<1>1. ASSUME NEW d \in Clients, StartEnsure(d)
      PROVE  groupPc'[c] = "idle" \/ Starts(c)
  <2>1. Group!EnsureKeyGroup(d, Key[d])
    BY <1>1 DEF StartEnsure
  <2>2. CASE d = c
    <3> DEFINE o == [GP!NoOp EXCEPT !.key = Key[c]]
    <3>1. Key[c] \in Keys /\ o.key = Key[c]
      BY KeyRotationAssumption DEF GP!NoOp
    <3>2. /\ groupPc' = [groupPc EXCEPT ![c] = "list"]
          /\ groupOp' = [groupOp EXCEPT ![c] = o]
          /\ created' = created
      BY <2>1, <2>2, SameHelpers DEF Group!EnsureKeyGroup, Group!Call, Group!cloud
    <3> HIDE DEF o
    <3>3. QED
      BY <1>0, <3>1, <3>2 DEF GP!ClientsOK, Starts
  <2>3. CASE d # c
    BY <1>0, <2>1, <2>3 DEF Group!EnsureKeyGroup, Group!Call, GP!ClientsOK
  <2>4. QED
    BY <2>2, <2>3
<1>2. ASSUME NEW d \in Clients, EnsureStep(d) PROVE groupPc'[c] = "idle"
  <2>1. GP!Stepped(d)
    BY <1>0, <1>2, SameCalls, SameRequests, GroupAssumed,
       GP!ListSteps, GP!CreateSteps, GP!GetSteps, GP!FetchSteps, GP!UpdateSteps,
       GP!DeleteSteps, GP!EndSteps DEF EnsureStep
  <2>2. groupPc[d] # "idle"
    BY <1>2 DEF EnsureStep, Group!List, Group!CreateSucceeds, Group!CreateAnswerLost,
                Group!CreateRefused, Group!Get, Group!FetchSucceeds, Group!FetchMisses,
                Group!FetchFails, Group!UpdateSucceeds, Group!UpdateAnswerLost,
                Group!UpdateRefused, Group!DeleteAnswered, Group!DeleteUnanswered,
                Group!Done, Group!RequestFails
  <2>3. QED
    BY <2>1, <2>2 DEF GP!Stepped, GP!Others, GP!Unmoved
<1>3. ASSUME NEW d \in Clients, Restart(d) PROVE groupPc'[c] = "idle"
  BY <1>0, <1>3 DEF Restart, Group!Crash, Group!Return, groupVars, GP!ClientsOK
<1>4. ASSUME NEW d \in Clients, CreateKey(d) PROVE groupPc' = groupPc
  BY <1>4 DEF CreateKey, Group!CreatePublicKey
<1>5. ASSUME NEW d \in Clients, StartWrite(d) \/ Promote(d) \/ SecretStep(d)
      PROVE  groupPc' = groupPc
  BY <1>5 DEF StartWrite, Promote, SecretStep, groupVars
<1>6. UNCHANGED rotationVars \/ LoadSigner => groupPc' = groupPc
  BY DEF rotationVars, LoadSigner, groupVars
<1>7. QED
  BY <1>1, <1>2, <1>3, <1>4, <1>5, <1>6 DEF KeyRotationNext

(* A key that is created is newer than all, or as new as the newest. *)
Creates(c) == \E time \in Nat : /\ created[Key[c]] = 0
                                /\ \A k \in Keys : created[k] <= time
                                /\ created' = [created EXCEPT ![Key[c]] = time]

LEMMA RotationCreates ==
  ASSUME [KeyRotationNext]_rotationVars
  PROVE  created' = created \/ \E c \in Clients : Creates(c)
<1>1. ASSUME NEW c \in Clients, CreateKey(c) PROVE Creates(c)
  <2>1. PICK time \in 1 .. Group!Cardinality(Keys) :
           /\ \A k \in Keys : created[k] <= time
           /\ created' = [created EXCEPT ![Key[c]] = time]
    BY <1>1 DEF CreateKey, Group!CreatePublicKey
  <2>2. Group!Cardinality(Keys) = Cardinality(Keys)
    BY DEF Group!Cardinality, Cardinality
  <2>3. time \in Nat
    BY <2>1, <2>2, KeyRotationAssumption, FS_CardinalityType
  <2>4. QED
    BY <1>1, <2>1, <2>3 DEF CreateKey, Creates
<1>2. ASSUME NEW c \in Clients, StartEnsure(c) PROVE created' = created
  BY <1>2 DEF StartEnsure, Group!EnsureKeyGroup, Group!Call, Group!cloud
<1>3. ASSUME NEW c \in Clients, EnsureStep(c) PROVE created' = created
  BY <1>3 DEF EnsureStep, Group!List, Group!CreateSucceeds, Group!CreateAnswerLost,
              Group!CreateRefused, Group!Get, Group!FetchSucceeds, Group!FetchMisses,
              Group!FetchFails, Group!UpdateSucceeds, Group!UpdateAnswerLost,
              Group!UpdateRefused, Group!DeleteAnswered, Group!DeleteUnanswered,
              Group!Done, Group!RequestFails, Group!CreateEffect, Group!UpdateEffect,
              Group!cloud
<1>4. ASSUME NEW c \in Clients,
             StartWrite(c) \/ Promote(c) \/ SecretStep(c) \/ Restart(c)
      PROVE  created' = created
  BY <1>4 DEF StartWrite, Promote, SecretStep, Restart, Group!Crash, Group!cloud, groupVars
<1>5. UNCHANGED rotationVars \/ LoadSigner => created' = created
  BY DEF rotationVars, LoadSigner, groupVars
<1>6. QED
  BY <1>1, <1>2, <1>3, <1>4, <1>5 DEF KeyRotationNext

-------------------------------------------------------------------------------
(* The keys of the rotations, and the one that signed before them, must     *)
(* stay in the group.                                                       *)
LastOld == OldKeys[Len(OldKeys)]
Safe == {Key[c] : c \in Clients} \union {LastOld}

LEMMA KeysOK ==
  /\ Len(OldKeys) \in DOMAIN OldKeys /\ LastOld \in Keys /\ Safe \subseteq Keys
  /\ \A c \in Clients : Key[c] \in Safe /\ Key[c] # LastOld
  /\ NoKey \notin Keys /\ MaxKeys \in Nat
BY KeyRotationAssumption DEF LastOld, Safe

(* There is room for one of them less among the newest, if there are more   *)
(* places than rotations.                                                   *)
LEMMA RoomForAll ==
  ASSUME IsFiniteSet(Clients), Cardinality(Clients) < MaxKeys, NEW k \in Safe
  PROVE  IsFiniteSet(Safe \ {k}) /\ Cardinality(Safe \ {k}) < MaxKeys
<1> DEFINE Own == {Key[c] : c \in Clients}
<1>1. Key \in Surjection(Clients, Own)
  BY KeyRotationAssumption DEF Surjection
<1>2. IsFiniteSet(Own) /\ Cardinality(Own) <= Cardinality(Clients)
  BY <1>1, FS_Surjection
<1>s. Safe = Own \union {LastOld}
  BY DEF Safe
<1> HIDE DEF Own
<1>n. Cardinality(Own) \in Nat /\ Cardinality(Clients) \in Nat
  BY <1>2, FS_CardinalityType
<1>3. IsFiniteSet(Safe) /\ Cardinality(Safe) <= Cardinality(Own) + 1
  <2>1. /\ IsFiniteSet(Own \union {LastOld})
        /\ Cardinality(Own \union {LastOld}) = IF LastOld \in Own THEN Cardinality(Own)
                                                ELSE Cardinality(Own) + 1
    BY <1>2, FS_AddElement, Zenon
  <2>2. QED
    BY <1>s, <1>n, <2>1
<1>4. /\ IsFiniteSet(Safe \ {k}) /\ Cardinality(Safe \ {k}) = Cardinality(Safe) - 1
      /\ Cardinality(Safe) \in Nat
  BY <1>3, FS_RemoveElement, FS_CardinalityType
<1>5. QED
  BY <1>2, <1>n, <1>3, <1>4, KeysOK

(* All other keys in the group are older than these.                        *)
Generations ==
    \A k \in Keys \ Safe :
       created[k] > 0 =>
          /\ created[LastOld] > created[k]
          /\ \A c \in Clients : created[Key[c]] = 0 \/ created[Key[c]] > created[k]

LEMMA StepKeepsGenerations ==
  ASSUME GP!CloudOK, Generations, [KeyRotationNext]_rotationVars
  PROVE  Generations'
<1>1. CASE created' = created
  BY <1>1 DEF Generations
<1>2. ASSUME NEW c \in Clients, Creates(c) PROVE Generations'
  <2> SUFFICES ASSUME NEW k \in Keys \ Safe, created'[k] > 0
               PROVE  /\ created'[LastOld] > created'[k]
                      /\ \A d \in Clients : \/ created'[Key[d]] = 0
                                            \/ created'[Key[d]] > created'[k]
    BY DEF Generations
  <2>1. PICK time \in Nat : /\ \A j \in Keys : created[j] <= time
                            /\ created' = [created EXCEPT ![Key[c]] = time]
    BY <1>2 DEF Creates
  <2>2. created'[k] = created[k] /\ created'[LastOld] = created[LastOld]
    BY <2>1, KeysOK DEF GP!CloudOK
  <2>3. \A j \in Keys : created[j] \in Nat
    BY DEF GP!CloudOK
  <2>4. created[LastOld] > created[k] /\ time > created[k]
    BY <2>1, <2>2, <2>3, KeysOK DEF Generations
  <2>5. ASSUME NEW d \in Clients
        PROVE  created'[Key[d]] = 0 \/ created'[Key[d]] > created'[k]
    <3>1. Key[d] \in Keys /\ Key[c] \in Keys
      BY KeysOK
    <3>2. created'[Key[d]] = time \/ created'[Key[d]] = created[Key[d]]
      BY <2>1, <3>1 DEF GP!CloudOK
    <3>3. QED
      BY <2>2, <2>4, <3>2 DEF Generations
  <2>6. QED
    BY <2>2, <2>4, <2>5
<1>3. QED
  BY <1>1, <1>2, RotationCreates

(* The newest keys that partitionByAge keeps are the rotations' first of    *)
(* all.                                                                     *)
LEMMA PartitionIsSafe ==
  ASSUME IsFiniteSet(Clients), Cardinality(Clients) < MaxKeys,
         GP!Kept, Generations, NEW c \in Clients, GP!Partitions(c)
  PROVE  groupOp'[c].evict \intersect Safe = {}
<1> SUFFICES ASSUME NEW s \in Safe, s \in groupOp[c].ids, s \notin groupOp'[c].ids
             PROVE  FALSE
  BY DEF GP!Partitions
<1> DEFINE ids == groupOp[c].ids
           keep == groupOp'[c].ids
<1>1. /\ ids \subseteq Keys /\ \A k \in ids : created[k] > 0
      /\ created \in [Keys -> Nat]
  BY DEF GP!Kept, GP!ClientsOK, GP!Ops, GP!LocalsOK, GP!LocalOK, GP!CloudOK
<1>2. /\ keep \subseteq ids
      /\ Cardinality(keep) = IF Cardinality(ids) < MaxKeys THEN Cardinality(ids) ELSE MaxKeys
      /\ \A old \in ids \ keep, kept \in keep : created[old] <= created[kept]
  <2>1. \A S : GP!Cardinality(S) = Cardinality(S)
    BY DEF GP!Cardinality, Cardinality
  <2>2. QED
    BY <2>1 DEF GP!Partitions, GP!Keeps
<1>3. IsFiniteSet(ids)
  BY <1>1, KeyRotationAssumption, FS_Subset
<1>4. Cardinality(keep) = MaxKeys
  <2>1. Cardinality(keep) # Cardinality(ids)
    BY <1>2, <1>3, FS_Subset
  <2>2. QED
    BY <1>2, <2>1
<1>5. keep \subseteq Safe \ {s}
  <2> SUFFICES ASSUME NEW k \in keep, k \notin Safe PROVE FALSE
    OBVIOUS
  <2>1. created[s] <= created[k] /\ created[k] > 0 /\ created[s] > 0
    BY <1>1, <1>2
  <2>2. created[s] > created[k]
    BY <1>1, <1>2, <2>1 DEF Generations, Safe
  <2>3. QED
    BY <1>1, <1>2, <2>1, <2>2
<1>6. Cardinality(keep) <= Cardinality(Safe \ {s}) /\ Cardinality(Safe \ {s}) < MaxKeys
      /\ Cardinality(Safe \ {s}) \in Nat
  BY <1>5, RoomForAll, FS_Subset, FS_CardinalityType
<1>7. QED
  BY <1>4, <1>6, KeysOK

(* No client evicts one of these keys, so none of them leaves the group.    *)
NoneEvicted == \A c \in Clients : groupOp[c].evict \intersect Safe = {}

LEMMA StepKeepsEvicts ==
  ASSUME IsFiniteSet(Clients), Cardinality(Clients) < MaxKeys,
         GP!Kept, Generations, NoneEvicted, [KeyRotationNext]_rotationVars
  PROVE  NoneEvicted'
<1> SUFFICES ASSUME NEW c \in Clients PROVE groupOp'[c].evict \intersect Safe = {}
  BY DEF NoneEvicted, Safe
<1>1. GP!Moves(c) \/ GP!Unmoved(c)
  BY GroupPart, GroupAssumed, GP!ClientSteps
<1>2. groupOp[c].evict \intersect Safe = {}
  BY DEF NoneEvicted
<1>3. CASE GP!Begins(c)
  <2>1. groupPc'[c] = "list"
    BY <1>3, RotationCalls DEF GP!Begins, Starts
  <2>2. QED
    BY <1>3, <2>1 DEF GP!Begins
<1>4. CASE GP!Ends(c)
  BY <1>4 DEF GP!Ends, GP!NoOp
<1>5. CASE GP!Partitions(c)
  BY <1>5, PartitionIsSafe
<1>6. CASE GP!Lists(c) \/ GP!Reads(c) \/ GP!KeepsAll(c) \/ GP!Updated(c)
           \/ GP!Looks(c) \/ GP!Snapshots(c) \/ GP!Unmoved(c)
  BY <1>2, <1>6 DEF GP!Lists, GP!Reads, GP!KeepsAll, GP!Updated, GP!Looks, GP!Snapshots,
                    GP!Unmoved
<1>7. CASE GP!Evicted(c)
  BY <1>2, <1>7 DEF GP!Evicted
<1>8. QED
  BY <1>1, <1>3, <1>4, <1>5, <1>6, <1>7 DEF GP!Moves, GP!Proceeds

LEMMA SafeKeysStay ==
  ASSUME GP!Kept, GP!FreshOK, NoneEvicted, [KeyRotationNext]_rotationVars,
         NEW k \in Safe, k \in items
  PROVE  k \in items'
<1>1. \/ items' = items \/ items = {}
      \/ \E c \in Clients : GP!Updates(c)
  BY GroupPart, GroupAssumed, GP!ItemsChange
<1>2. ASSUME NEW c \in Clients, GP!Updates(c) PROVE k \in items'
  <2>1. c \in fresh /\ groupPc[c] = "update" /\ items' = groupOp[c].ids
    BY <1>2 DEF GP!Updates, GP!UpdateEffect, GP!CanUpdate
  <2>2. items \ groupOp[c].ids \subseteq groupOp[c].evict
    BY <2>1 DEF GP!FreshOK
  <2>3. QED
    BY <2>1, <2>2 DEF NoneEvicted
<1>3. QED
  BY <1>1, <1>2

(* EnsureKeyGroup of a rotation is for its key, which it keeps from its     *)
(* GetKeyGroup to its update; then the key is in the group.                 *)
EnsureOK(c) ==
    /\ groupPc[c] \in {"list", "create", "get", "fetch", "update"}
          => groupOp[c].key = Key[c]
    /\ groupPc[c] \notin GP!Verifying
    /\ groupPc[c] \in {"fetch", "update"} => Key[c] \in groupOp[c].ids
    /\ groupPc[c] = "delete" \/ ensured[c] = "ok" => Key[c] \in items

EnsuresOK == \A c \in Clients : EnsureOK(c)

LEMMA StepKeepsEnsures ==
  ASSUME IsFiniteSet(Clients), Cardinality(Clients) < MaxKeys,
         GP!Kept, GP!FreshOK, Generations, NoneEvicted, EnsuresOK,
         [KeyRotationNext]_rotationVars
  PROVE  EnsuresOK'
<1> SUFFICES ASSUME NEW c \in Clients PROVE EnsureOK(c)'
  BY DEF EnsuresOK
<1>1. GP!Moves(c) \/ GP!Unmoved(c)
  BY GroupPart, GroupAssumed, GP!ClientSteps
<1>2. EnsureOK(c) /\ (Key[c] \in items => Key[c] \in items')
  BY SafeKeysStay, KeysOK DEF EnsuresOK
<1>3. CASE GP!Begins(c)
  <2>1. Starts(c)
    BY <1>3, RotationCalls DEF GP!Begins
  <2>2. QED
    BY <1>3, <2>1 DEF GP!Begins, Starts, EnsureOK, GP!Verifying
<1>4. CASE GP!Ends(c)
  <2>1. ensured'[c] = "ok" => Key[c] \in items'
    BY <1>2, <1>4 DEF GP!Ends, GP!Answers, EnsureOK
  <2>2. QED
    BY <1>4, <2>1 DEF GP!Ends, EnsureOK, GP!Verifying
<1>5. CASE GP!Proceeds(c)
  <2>0. ensured'[c] = ensured[c]
    BY <1>5 DEF GP!Proceeds
  <2>1. CASE GP!Lists(c)
    BY <1>2, <2>0, <2>1 DEF GP!Lists, EnsureOK, GP!Verifying
  <2>2. CASE GP!Reads(c)
    BY <1>2, <2>0, <2>2 DEF GP!Reads, EnsureOK, GP!Verifying
  <2>3. CASE GP!Partitions(c)
    <3>1. Key[c] \notin groupOp'[c].evict
      BY <2>3, PartitionIsSafe, KeysOK
    <3>2. QED
      BY <1>2, <2>0, <2>3, <3>1 DEF GP!Partitions, EnsureOK, GP!Verifying
  <2>4. CASE GP!KeepsAll(c)
    BY <1>2, <2>0, <2>4 DEF GP!KeepsAll, EnsureOK, GP!Verifying
  <2>5. CASE GP!Updated(c)
    BY <1>2, <2>0, <2>5 DEF GP!Updated, GP!Updates, GP!UpdateEffect, EnsureOK, GP!Verifying
  <2>6. CASE GP!Evicted(c)
    BY <1>2, <2>0, <2>6 DEF GP!Evicted, EnsureOK, GP!Verifying
  <2>7. ~GP!Looks(c) /\ ~GP!Snapshots(c)
    BY <1>2 DEF GP!Looks, GP!Snapshots, EnsureOK, GP!Verifying
  <2>8. QED
    BY <1>5, <2>1, <2>2, <2>3, <2>4, <2>5, <2>6, <2>7 DEF GP!Proceeds
<1>6. CASE GP!Unmoved(c)
  BY <1>2, <1>6 DEF GP!Unmoved, EnsureOK
<1>7. QED
  BY <1>1, <1>3, <1>4, <1>5, <1>6 DEF GP!Moves

(* What the group is while rotations use it.                                *)
GroupInv == GP!Kept /\ GP!FreshOK /\ Generations /\ NoneEvicted /\ EnsuresOK

LEMMA OldAges ==
  ASSUME NEW i \in DOMAIN OldKeys
  PROVE  (CHOOSE j \in DOMAIN OldKeys : OldKeys[j] = OldKeys[i]) = i
BY KeyRotationAssumption

LEMMA GroupStarts == ASSUME KeyRotationInit PROVE GroupInv
<1>1. /\ groupPc = [c \in Clients |-> "idle"] /\ groupOp = [c \in Clients |-> GP!NoOp]
      /\ ensured = [c \in Clients |-> "none"] /\ fresh = {} /\ groupFaults = 0
      /\ dropped = {}
  BY SameHelpers DEF KeyRotationInit, Group!Init
<1>2. /\ created \in [Keys -> Nat] /\ exists \subseteq {k \in Keys : created[k] > 0}
      /\ grouped \in BOOLEAN /\ items \subseteq exists /\ (items # {} <=> grouped)
      /\ Generations
  <2>1. CASE Group!Init
    BY <2>1, KeysOK DEF Group!Init, Generations
  <2>2. CASE ~Group!Init
    <3>1. /\ created = [k \in Keys |-> IF \E i \in DOMAIN OldKeys : OldKeys[i] = k
                                       THEN CHOOSE i \in DOMAIN OldKeys : OldKeys[i] = k
                                       ELSE 0]
          /\ exists = {OldKeys[i] : i \in DOMAIN OldKeys}
          /\ grouped = TRUE /\ items = exists
      BY <2>2 DEF KeyRotationInit
    <3>2. DOMAIN OldKeys = 1 .. Len(OldKeys) /\ Len(OldKeys) \in Nat
          /\ \A i \in DOMAIN OldKeys : OldKeys[i] \in Keys
      BY KeyRotationAssumption
    <3>3. \A i \in DOMAIN OldKeys : created[OldKeys[i]] = i
      BY <3>1, <3>2, OldAges
    <3>4. \A k \in Keys : created[k] = 0 \/ \E i \in DOMAIN OldKeys : k = OldKeys[i]
      BY <3>1
    <3>5. created \in [Keys -> Nat]
      <4>1. \A k \in Keys : created[k] \in Nat
        BY <3>2, <3>3, <3>4
      <4>2. QED
        BY <3>1, <4>1
    <3>6. exists \subseteq {k \in Keys : created[k] > 0} /\ items # {}
      BY <3>1, <3>2, <3>3, KeysOK
    <3>7. Generations
      <4> SUFFICES ASSUME NEW k \in Keys \ Safe, created[k] > 0
                   PROVE  /\ created[LastOld] > created[k]
                          /\ \A c \in Clients : created[Key[c]] = 0
        BY DEF Generations
      <4>1. PICK i \in DOMAIN OldKeys : k = OldKeys[i]
        BY <3>4
      <4>2. k # LastOld /\ LastOld = OldKeys[Len(OldKeys)]
        BY DEF LastOld, Safe
      <4>3. created[LastOld] = Len(OldKeys) /\ created[k] = i /\ i # Len(OldKeys)
        BY <3>3, <4>1, <4>2, KeysOK
      <4>4. \A c \in Clients : created[Key[c]] = 0
        <5>1. \A c \in Clients, j \in DOMAIN OldKeys : Key[c] # OldKeys[j]
          BY KeyRotationAssumption
        <5>2. \A c \in Clients : Key[c] \in Keys
          BY KeysOK
        <5>3. QED
          BY <3>4, <5>1, <5>2
      <4>5. QED
        BY <3>2, <4>3, <4>4
    <3>8. QED
      BY <3>1, <3>5, <3>6, <3>7
  <2>3. QED
    BY <2>1, <2>2
<1>3. GP!CloudOK
  <2>1. fresh \subseteq Clients /\ dropped \subseteq {k \in Keys : created[k] > 0}
    BY <1>1
  <2>2. QED
    BY <1>2, <2>1 DEF GP!CloudOK
<1>4. GP!ClientsOK
  BY <1>1, GroupAssumed, GP!NoOpIsOp DEF GP!ClientsOK, GP!Points, GP!Outcomes
<1>5. GP!LocalsOK
  BY <1>1 DEF GP!LocalsOK, GP!LocalOK, GP!Verifying, GP!NoOp
<1>6. GP!FreshOK /\ NoneEvicted /\ EnsuresOK
  BY <1>1 DEF GP!FreshOK, NoneEvicted, EnsuresOK, EnsureOK, GP!Verifying, GP!NoOp
<1>7. QED
  BY <1>1, <1>2, <1>3, <1>4, <1>5, <1>6 DEF GroupInv, GP!Kept

LEMMA StepKeepsGroup ==
  ASSUME IsFiniteSet(Clients), Cardinality(Clients) < MaxKeys,
         GroupInv, [KeyRotationNext]_rotationVars
  PROVE  GroupInv'
<1>1. [GP!Next]_(GP!vars) /\ GP!KeyGroupAssumption
  BY GroupPart, GroupAssumed
<1>2. GP!CloudOK' /\ GP!LocalsOK' /\ GP!FreshOK'
  BY <1>1, GP!StepKeepsCloud, GP!StepKeepsLocals, GP!StepKeepsFresh DEF GroupInv
<1>3. GP!ClientsOK'
  BY <1>1, GP!ClientSteps DEF GroupInv
<1>4. groupFaults' \in Nat
  BY <1>1, GP!FaultsStay DEF GP!Fault, GroupInv, GP!Kept
<1>5. Generations'
  BY StepKeepsGenerations DEF GroupInv, GP!Kept
<1>6. NoneEvicted' /\ EnsuresOK'
  BY StepKeepsEvicts, StepKeepsEnsures DEF GroupInv
<1>7. QED
  BY <1>2, <1>3, <1>4, <1>5, <1>6 DEF GroupInv, GP!Kept

-------------------------------------------------------------------------------
(* The rotations' calls on the secret are SecretStages' calls.              *)
THEOREM RotationsAreCalls == KeyRotationSpec => Spec
<1>1. KeyRotationInit => Init
  BY DEF KeyRotationInit, RotationInit
<1>2. [KeyRotationNext]_rotationVars => [Next]_vars
  BY SecretPart
<1>3. QED
  BY <1>1, <1>2, PTL DEF KeyRotationSpec, Spec

(* An idle client begins to write its own secret, once its key is in the    *)
(* group, or to promote it.                                                 *)
Writes(c) == /\ ensured[c] = "ok" /\ pc'[c] = "put"
             /\ op'[c].kind = "set" /\ op'[c].version = Token[c]
             /\ op'[c].payload = Payload[c] /\ returned'[c] = "none"

Promotes(c) == /\ pc'[c] = "describe" /\ returned'[c] = "none"
               /\ op'[c].kind = "promote" /\ op'[c].version = Token[c]

Rests(c) == pc'[c] = "idle" /\ returned'[c] \in {returned[c], "none"}

LEMMA OthersRest ==
  ASSUME ClientsOK, NEW c \in Clients, pc[c] = "idle", NEW d \in Clients, Progress(d)
  PROVE  Unmoved(c)
<1>1. pc[d] # "idle"
  BY DEF Progress, PutSucceeds, PutAnswerLost, PutRefused, Describe, UpdateSucceeds,
         UpdateAnswerLost, UpdateRefused, DiscardAnswered, DiscardUnanswered, RequestFails
<1>2. c # d
  BY <1>1
<1>3. \A how : Return(d, how) => Unmoved(c)
  BY <1>2, ReturnEnds
<1>4. \A point : Goto(d, point) => Unmoved(c)
  BY <1>2, GotoGoesOn
<1>5. UNCHANGED <<pc, op, returned>> => Unmoved(c)
  BY DEF Unmoved
<1>6. Unanswered(d) \/ StageMoved(d) => Unmoved(c)
  BY <1>3, <1>4, <1>5 DEF Unanswered, StageMoved
<1>7. CASE Describe(d)
  BY <1>2, <1>6, <1>7 DEF Describe, ClientsOK, Unmoved
<1>8. CASE PutSucceeds(d) \/ PutAnswerLost(d) \/ PutRefused(d) \/ UpdateSucceeds(d)
           \/ UpdateAnswerLost(d) \/ UpdateRefused(d) \/ RequestFails(d)
  BY <1>3, <1>4, <1>6, <1>8 DEF PutSucceeds, PutAnswerLost, PutRefused, UpdateSucceeds,
         UpdateAnswerLost, UpdateRefused, RequestFails
<1>9. CASE DiscardAnswered(d) \/ DiscardUnanswered(d)
  BY <1>3, <1>5, <1>9 DEF DiscardAnswered, DiscardUnanswered
<1>10. QED
  BY <1>7, <1>8, <1>9 DEF Progress

LEMMA CallSets ==
  ASSUME ClientsOK, NEW c \in Clients, NEW kind, NEW v, NEW p, NEW point,
         Call(c, kind, v, p, point)
  PROVE  /\ pc'[c] = point /\ op'[c].kind = kind /\ op'[c].version = v
         /\ op'[c].payload = p /\ returned'[c] = "none"
         /\ \A d \in Clients \ {c} : Unmoved(d)
<1> DEFINE called == [NoOp EXCEPT !.kind = kind, !.version = v, !.payload = p]
<1>1. called.kind = kind /\ called.version = v /\ called.payload = p
  BY DEF NoOp
<1>2. op' = [op EXCEPT ![c] = called] /\ pc' = [pc EXCEPT ![c] = point]
      /\ returned' = [returned EXCEPT ![c] = "none"]
  BY DEF Call
<1> HIDE DEF called
<1>3. QED
  BY <1>1, <1>2 DEF ClientsOK, Unmoved

LEMMA SecretCalls ==
  ASSUME Inv, [KeyRotationNext]_rotationVars, NEW c \in Clients, pc[c] = "idle"
  PROVE  Rests(c) \/ Writes(c) \/ Promotes(c)
<1>0. ClientsOK
  BY DEF Inv
<1>1. ASSUME NEW d \in Clients, StartWrite(d) PROVE Rests(c) \/ Writes(c)
  <2>1. ensured[d] = "ok" /\ Call(d, "set", Token[d], Payload[d], "put")
    BY <1>1 DEF StartWrite, StartSet, SetVersion
  <2>2. QED
    BY <1>0, <2>1, CallSets DEF Rests, Writes, Unmoved
<1>2. ASSUME NEW d \in Clients, Promote(d) PROVE Rests(c) \/ Promotes(c)
  <2>1. Call(d, "promote", Token[d], None, "describe")
    BY <1>2 DEF Promote, StartPromote, PromoteVersion
  <2>2. QED
    BY <1>0, <2>1, CallSets DEF Rests, Promotes, Unmoved
<1>3. ASSUME NEW d \in Clients, SecretStep(d) PROVE Rests(c)
  BY <1>0, <1>3, OthersRest DEF SecretStep, Rests, Unmoved
<1>4. UNCHANGED vars => Rests(c)
  BY DEF vars, Rests
<1>5. ASSUME NEW d \in Clients, Restart(d) PROVE Rests(c)
  <2>1. CASE Crash(d)
    BY <1>0, <2>1 DEF Crash, Return, ClientsOK, Rests
  <2>2. CASE ~Crash(d)
    BY <1>4, <1>5, <2>2 DEF Restart
  <2>3. QED
    BY <2>1, <2>2
<1>6. ASSUME NEW d \in Clients, CreateKey(d) \/ StartEnsure(d) \/ EnsureStep(d)
      PROVE  Rests(c)
  BY <1>4, <1>6 DEF CreateKey, StartEnsure, EnsureStep
<1>7. UNCHANGED rotationVars \/ LoadSigner => Rests(c)
  BY <1>4 DEF rotationVars, LoadSigner
<1>8. QED
  BY <1>1, <1>2, <1>3, <1>5, <1>6, <1>7 DEF KeyRotationNext

(* A call is about the client's own version and payload.                    *)
OwnCalls ==
    \A c \in Clients :
       pc[c] # "idle" => /\ op[c].version = Token[c]
                         /\ op[c].kind \in {"set", "promote"}
                         /\ op[c].kind = "set" => op[c].payload = Payload[c]

LEMMA StepKeepsOwn ==
  ASSUME Inv, OwnCalls, [KeyRotationNext]_rotationVars PROVE OwnCalls'
<1> SUFFICES ASSUME NEW c \in Clients, pc'[c] # "idle"
             PROVE  /\ op'[c].version = Token[c]
                    /\ op'[c].kind \in {"set", "promote"}
                    /\ op'[c].kind = "set" => op'[c].payload = Payload[c]
  BY DEF OwnCalls
<1>1. CASE pc[c] = "idle"
  BY <1>1, SecretCalls DEF Rests, Writes, Promotes
<1>2. CASE pc[c] # "idle"
  <2>1. GoesOn(c) \/ Unmoved(c)
    BY <1>2, SecretPart, ClientSteps DEF Begins
  <2>2. QED
    BY <1>2, <2>1 DEF OwnCalls, GoesOn, Unmoved
<1>3. QED
  BY <1>1, <1>2

LEMMA OwnCallsHold == KeyRotationSpec => [](Inv /\ OwnCalls)
<1>1. KeyRotationInit => OwnCalls
  BY DEF KeyRotationInit, RotationInit, Init, OwnCalls
<1>2. Inv /\ OwnCalls /\ [KeyRotationNext]_rotationVars => OwnCalls'
  BY StepKeepsOwn
<1>3. QED
  BY <1>1, <1>2, RotationsAreCalls, InvHolds, PTL DEF KeyRotationSpec

-------------------------------------------------------------------------------
(* Once a client is past the move of its promotion, a version of the        *)
(* rotations is current.                                                    *)
PromotedIsCurrent ==
    (\E c \in Clients : pc[c] = "discard" \/ returned[c] = "promote")
    => \E d \in Clients : label["AWSCURRENT"] = Token[d]

LEMMA StepKeepsPromoted ==
  ASSUME Inv, OwnCalls, PromotedIsCurrent, [KeyRotationNext]_rotationVars
  PROVE  PromotedIsCurrent'
<1> SUFFICES ASSUME NEW c \in Clients, pc'[c] = "discard" \/ returned'[c] = "promote"
             PROVE  \E d \in Clients : label'["AWSCURRENT"] = Token[d]
  BY DEF PromotedIsCurrent
<1>0. [Next]_vars
  BY SecretPart
<1>1. CASE label'["AWSCURRENT"] # label["AWSCURRENT"]
  BY <1>0, <1>1, CurrentMoves DEF OwnCalls
<1>2. CASE label'["AWSCURRENT"] = label["AWSCURRENT"]
  <2>1. CASE pc[c] = "discard" \/ returned[c] = "promote"
    BY <1>2, <2>1 DEF PromotedIsCurrent
  <2>2. CASE pc[c] = "idle" /\ returned[c] # "promote"
    BY <2>2, SecretCalls DEF Rests, Writes, Promotes, Inv, ClientsOK, CallsHaveVersions
  <2>3. CASE pc[c] # "idle" /\ pc[c] # "discard" /\ returned[c] # "promote"
    <3>1. returned'[c] # "promote"
      BY <1>0, <2>3, PromotionSteps DEF DiscardAnswered, DiscardUnanswered
    <3>2. pc'[c] = "discard"
      BY <3>1
    <3>3. GoesOn(c)
      BY <1>0, <2>3, <3>2, ClientSteps DEF Begins, Unmoved
    <3>4. Succeeds(c)
      BY <2>3, <3>2, <3>3 DEF GoesOn, Succeeds, Inv, ClientsOK, Points
    <3>5. /\ \/ Describe(c) /\ label[Stage(c)] = op[c].version
             \/ UpdateSucceeds(c)
          /\ label'[Stage(c)] = op[c].version
      BY <1>0, <3>4, SuccessSteps
         DEF Describe, UpdateSucceeds, Inv, ServiceOK, Labels, Stage
    <3>6. op[c].kind # "set"
      BY <3>2, <3>5, ReturnEnds DEF Describe, UpdateSucceeds, StageMoved, Inv
    <3>7. Stage(c) = "AWSCURRENT" /\ op[c].version = Token[c]
      BY <2>3, <3>6 DEF Stage, OwnCalls
    <3>8. QED
      BY <3>5, <3>7
  <2>4. QED
    BY <2>1, <2>2, <2>3
<1>3. QED
  BY <1>1, <1>2

(* A version has no payload but its rotation's. *)
OwnContent == \A d \in Clients : content[Token[d]] \in {None, Payload[d]}

LEMMA StepKeepsContent ==
  ASSUME Inv, OwnCalls, OwnContent, [Next]_vars
  PROVE  OwnContent'
<1> SUFFICES ASSUME NEW d \in Clients PROVE content'[Token[d]] \in {None, Payload[d]}
  BY DEF OwnContent
<1>1. Token[d] \in Versions
  BY RotationAssumption
<1>2. CASE content'[Token[d]] = content[Token[d]]
  BY <1>2 DEF OwnContent
<1>3. CASE content'[Token[d]] # content[Token[d]]
  <2>1. PICK c \in Clients : Puts(c)
    BY <1>3, ServiceSteps DEF Moves, Discards
  <2>2. op[c].version = Token[c] /\ op[c].payload = Payload[c]
    BY <2>1 DEF Puts, OwnCalls, Inv, ClientsOK
  <2>3. content' = [content EXCEPT ![Token[c]] = Payload[c]]
    BY <2>1, <2>2 DEF Puts, PutEffect
  <2>4. Token[c] = Token[d] /\ content'[Token[d]] = Payload[c]
    BY <1>1, <1>3, <2>3 DEF Inv, ServiceOK
  <2>5. QED
    BY <2>4, RotationAssumption
<1>4. QED
  BY <1>2, <1>3

(* Once a rotation has moved AWSCURRENT, the current value is a rotation's. *)
THEOREM RotationsAreInEffect == KeyRotationSpec => []RotationsTakeEffect
<1>1. KeyRotationInit => PromotedIsCurrent /\ OwnContent
  BY DEF KeyRotationInit, RotationInit, Init, PromotedIsCurrent, OwnContent
<1>2. Inv /\ OwnCalls /\ PromotedIsCurrent /\ OwnContent /\ [KeyRotationNext]_rotationVars
      => PromotedIsCurrent' /\ OwnContent'
  BY StepKeepsPromoted, StepKeepsContent, SecretPart
<1>3. PromotedIsCurrent /\ OwnContent /\ CurrentWritten => RotationsTakeEffect
  <2>1. \A d \in Clients : Token[d] # None
    BY RotationAssumption, SecretAssumption
  <2>2. QED
    BY <2>1 DEF PromotedIsCurrent, OwnContent, CurrentWritten, HasCurrent, RotationsTakeEffect
<1>4. QED
  BY <1>1, <1>2, <1>3, OwnCallsHold, RotationsAreCalls, CurrentIsWritten, PTL
     DEF KeyRotationSpec

-------------------------------------------------------------------------------
(* The keys of the written versions, of those that are about to be, and of  *)
(* the signer's secret are in the group, and safe there.                    *)
InUse(secret, group) == secret \in Payloads /\ secret.keyID \in Safe \intersect group

Backed == /\ \A c \in Clients : pc[c] # "idle" /\ op[c].kind = "set" => Key[c] \in items
          /\ \A v \in Versions : content[v] # None => InUse(content[v], items)
          /\ loaded # None => InUse(loaded, items)

(* A rotation's payload has its key. *)
LEMMA PayloadsOK ==
  /\ \A c \in Clients : /\ Payload[c] \in Payloads /\ Payload[c].keyID = Key[c]
                        /\ Token[c] \in Versions
  /\ \A p \in Payloads : p.pem \in {Generate(p.keyID).private, PKCS8(p.keyID)}
BY RotationAssumption, KeyRotationAssumption DEF Secret

LEMMA BackedAtStart == ASSUME KeyRotationInit PROVE Backed
<1>1. loaded = None /\ pc = [c \in Clients |-> "idle"]
  BY DEF KeyRotationInit, RotationInit, Init
<1>2. ASSUME NEW v \in Versions, content[v] # None PROVE InUse(content[v], items)
  <2>1. label["AWSCURRENT"] # None /\ content[v] \in Payloads
    BY <1>2, NoneIsNothing DEF KeyRotationInit, RotationInit, Init, Labels
  <2>2. /\ ~Group!Init
        /\ content[v].keyID = LastOld
    BY <1>2, <2>1 DEF KeyRotationInit, Group!Init, LastOld
  <2>3. items = {OldKeys[i] : i \in DOMAIN OldKeys}
    BY <2>2 DEF KeyRotationInit
  <2>4. LastOld \in items
    BY <2>3, KeysOK DEF LastOld
  <2>5. QED
    BY <2>1, <2>2, <2>4 DEF InUse, Safe
<1>3. QED
  BY <1>1, <1>2 DEF Backed

LEMMA SignersLoad ==
  ASSUME Inv, CurrentWritten, NEW secret, secret = GetCurrent,
         ParseCloudFrontKey(secret.pem) # NoKey
  PROVE  \E v \in Versions : content[v] # None /\ secret = content[v]
<1>1. label["AWSCURRENT"] # None
  <2>1. ParseCloudFrontKey(NoPem) = NoKey
    BY DEF ParseCloudFrontKey, NoPem
  <2>2. Secret(NoKey, NoPem).pem = NoPem
    BY DEF Secret
  <2>3. QED
    BY <2>1, <2>2 DEF GetCurrent, GetVersion
<1>2. label["AWSCURRENT"] \in Versions /\ content[label["AWSCURRENT"]] # None
  BY <1>1 DEF Inv, ServiceOK, Labels, CurrentWritten, HasCurrent
<1>3. QED
  BY <1>1, <1>2 DEF GetCurrent, GetVersion

LEMMA StepKeepsBacked ==
  ASSUME IsFiniteSet(Clients), Cardinality(Clients) < MaxKeys,
         Inv, CurrentWritten, OwnCalls, GroupInv, Backed, [KeyRotationNext]_rotationVars
  PROVE  Backed'
<1>0. [Next]_vars
  BY SecretPart
<1>1. \A k \in Safe : k \in items => k \in items'
  BY SafeKeysStay DEF GroupInv
<1>2. \A secret : InUse(secret, items) => InUse(secret, items')
  BY <1>1 DEF InUse, Safe
<1>3. ASSUME NEW c \in Clients, pc'[c] # "idle", op'[c].kind = "set"
      PROVE  Key[c] \in items'
  <2>1. CASE pc[c] = "idle"
    <3>1. ensured[c] = "ok"
      BY <1>3, <2>1, SecretCalls DEF Rests, Writes, Promotes
    <3>2. Key[c] \in items
      BY <3>1 DEF GroupInv, EnsuresOK, EnsureOK
    <3>3. QED
      BY <1>1, <3>2, KeysOK
  <2>2. CASE pc[c] # "idle"
    <3>1. op'[c].kind = op[c].kind
      BY <1>0, <1>3, <2>2, ClientSteps DEF GoesOn, Begins, Unmoved
    <3>2. Key[c] \in items
      BY <1>3, <2>2, <3>1 DEF Backed
    <3>3. QED
      BY <1>1, <3>2, KeysOK
  <2>3. QED
    BY <2>1, <2>2
<1>4. ASSUME NEW v \in Versions, content'[v] # None PROVE InUse(content'[v], items')
  <2>1. CASE content'[v] = content[v]
    BY <1>2, <1>4, <2>1 DEF Backed
  <2>2. CASE content'[v] # content[v]
    <3>1. PICK c \in Clients : Puts(c)
      BY <1>0, <2>2, ServiceSteps DEF Moves, Discards
    <3>2. op[c].version = Token[c] /\ op[c].payload = Payload[c] /\ op[c].kind = "set"
      BY <3>1 DEF Puts, OwnCalls, Inv, ClientsOK
    <3>3. content' = [content EXCEPT ![Token[c]] = Payload[c]]
      BY <3>1, <3>2 DEF Puts, PutEffect
    <3>4. content'[v] = Payload[c]
      BY <2>2, <3>3 DEF Inv, ServiceOK
    <3>5. Key[c] \in items
      BY <3>1, <3>2 DEF Puts, Backed
    <3>6. QED
      BY <1>1, <3>4, <3>5, PayloadsOK, KeysOK DEF InUse, Safe
  <2>3. QED
    BY <2>1, <2>2
<1>5. ASSUME loaded' # None PROVE InUse(loaded', items')
  <2>1. CASE loaded' = loaded
    BY <1>2, <1>5, <2>1 DEF Backed
  <2>2. CASE LoadSigner
    <3>1. PICK v \in Versions : content[v] # None /\ loaded' = content[v]
      BY <2>2, SignersLoad DEF LoadSigner
    <3>2. QED
      BY <1>2, <3>1 DEF Backed
  <2>3. loaded' = loaded \/ LoadSigner
    BY DEF KeyRotationNext, CreateKey, StartEnsure, EnsureStep, StartWrite, Promote,
           SecretStep, Restart, rotationVars
  <2>4. QED
    BY <2>1, <2>2, <2>3
<1>6. QED
  BY <1>3, <1>4, <1>5 DEF Backed

(* Both private keys of a key pair parse, with either parser, to its key.   *)
LEMMA KeysParse ==
  ASSUME NEW k, NEW pem, pem \in {Generate(k).private, PKCS8(k)}
  PROVE  ParseCloudFrontKey(pem) = k /\ ParseRSAPrivateKey(pem) = k
<1>1. CASE pem = Generate(k).private
  <2>1. pem.type = "RSA PRIVATE KEY" /\ pem.der = "PKCS1" /\ pem.key = k
    BY <1>1 DEF Generate
  <2>2. QED
    BY <2>1 DEF ParseCloudFrontKey, ParseRSAPrivateKey
<1>2. CASE pem = PKCS8(k)
  <2>1. pem.type = "PRIVATE KEY" /\ pem.der = "PKCS8" /\ pem.key = k
    BY <1>2 DEF PKCS8
  <2>2. QED
    BY <2>1 DEF ParseCloudFrontKey, ParseRSAPrivateKey
<1>3. QED
  BY <1>1, <1>2

(* A secret in use has a private key that both signers parse, and whose     *)
(* signatures CloudFront accepts.                                           *)
LEMMA InUseIsAccepted == Backed => SignersAccepted
<1> SUFFICES ASSUME InUse(loaded, items),
                    NEW key \in {ParseCloudFrontKey(loaded.pem),
                                 ParseRSAPrivateKey(loaded.pem)}
             PROVE  Accepted(loaded.keyID, "policy", Sign(key, "SHA1", "policy"))
  BY DEF Backed, SignersAccepted
<1>1. loaded.pem \in {Generate(loaded.keyID).private, PKCS8(loaded.keyID)}
  BY PayloadsOK DEF InUse
<1>2. key = loaded.keyID
  BY <1>1, KeysParse
<1>3. ParsePublicKey(Generate(loaded.keyID).public) = loaded.keyID
  BY DEF Generate, ParsePublicKey
<1>4. QED
  BY <1>2, <1>3 DEF Accepted, Verify, SupportedHashes, InUse

(* While fewer clients rotate than the group has places, the URLs of every  *)
(* signer are accepted, whatever is half done, fails, or is repeated.       *)
THEOREM SignersAreAccepted ==
  IsFiniteSet(Clients) /\ Cardinality(Clients) < MaxKeys
  => (KeyRotationSpec => []SignersAccepted)
<1> SUFFICES ASSUME IsFiniteSet(Clients), Cardinality(Clients) < MaxKeys
             PROVE  KeyRotationSpec => []SignersAccepted
  OBVIOUS
<1>1. KeyRotationInit => GroupInv /\ Backed
  BY GroupStarts, BackedAtStart
<1>2. /\ Inv /\ CurrentWritten /\ OwnCalls /\ GroupInv /\ Backed
      /\ [KeyRotationNext]_rotationVars
      => (GroupInv /\ Backed)'
  BY StepKeepsGroup, StepKeepsBacked
<1>3. Backed => SignersAccepted
  BY InUseIsAccepted
<1>4. QED
  BY <1>1, <1>2, <1>3, OwnCallsHold, RotationsAreCalls, CurrentIsWritten, PTL
     DEF KeyRotationSpec
===============================================================================
