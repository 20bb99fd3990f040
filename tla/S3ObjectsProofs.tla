---------------------------- MODULE S3ObjectsProofs ----------------------------
(***************************************************************************)
(* Proofs about S3Objects, for any number of clients and faults: what the   *)
(* lock's exclusion is worth for the object that it protects.               *)
(***************************************************************************)
EXTENDS S3Objects, S3LockProofs

(* The type that a put of c would give the object. *)
TypeOf(c) == IF info[c] = "" THEN DefaultType ELSE info[c]

(* What a holder's copy must have: all acknowledged updates and the         *)
(* object's type.                                                           *)
Current(c) == acked \subseteq copy[c] /\ (stored => TypeOf(c) = type)

(* Only a client with the lock has a copy to write, and only an object that *)
(* exists has updates; until a release is executed twice, the copies are    *)
(* current.                                                                 *)
CopiesCurrent ==
    /\ \A c \in Clients : work[c] = "loaded" => pc[c] = "held"
    /\ ~stored => content = {}
    /\ ~repeated => /\ \A c \in Clients : work[c] = "loaded" => Current(c)
                    /\ acked \subseteq content

-------------------------------------------------------------------------------
(* Work on the object is a stutter of the lock. *)
LEMMA ObjectStepStutters ==
  ASSUME NEW c \in Clients, ObjectStep(c)
  PROVE  UNCHANGED vars
BY DEF ObjectStep, GetObject, GetFindsNothing, GetFails, PutObject, PutAnswerIsLost,
       PutIsNotExecuted

(* The lock works as it does without the object, so all that is proved of   *)
(* it holds here.                                                           *)
THEOREM ObjectsUseTheLock == ObjectsSpec => Spec
<1>1. ObjectsInit => Init
  BY DEF ObjectsInit
<1>2. [ObjectsNext]_<<vars, objectVars>> => [Next]_vars
  BY ObjectStepStutters DEF ObjectsNext, LockStep
<1>3. QED
  BY <1>1, <1>2, PTL DEF ObjectsSpec, Spec

-------------------------------------------------------------------------------
(* All of ObjectsTypeOK but the count of faults. *)
ObjectOK == /\ stored \in BOOLEAN
            /\ content \in SUBSET Clients
            /\ type \in Types \union {""}
            /\ stored <=> type # ""
            /\ work \in [Clients -> {"start", "loaded", "over"}]
            /\ copy \in [Clients -> SUBSET Clients]
            /\ info \in [Clients -> Types \union {""}]
            /\ acked \in SUBSET Clients

(* What the object and its holders' copies may be. *)
THEOREM ObjectsTyped == ObjectsSpec => []ObjectsTypeOK
<1>1. ObjectsInit => ObjectsTypeOK
  <2>1. ObjectsInit => ObjectOK
    <3>1. ObjectsInit => (stored <=> type # "") /\ type \in Types \union {""}
      BY ObjectsAssumption DEF ObjectsInit
    <3>2. QED
      BY <3>1 DEF ObjectsInit, ObjectOK
  <2>2. ObjectsInit => lost \in 0 .. MaxObjectFaults
    <3>1. MaxObjectFaults \in Nat
      BY ObjectsAssumption
    <3>2. ObjectsInit => lost = 0
      BY DEF ObjectsInit
    <3>3. QED
      BY <3>1, <3>2
  <2>3. QED
    BY <2>1, <2>2 DEF ObjectsTypeOK, ObjectOK
<1>2. ObjectsTypeOK /\ [ObjectsNext]_<<vars, objectVars>> => ObjectsTypeOK'
  <2> SUFFICES ASSUME ObjectOK, lost \in 0 .. MaxObjectFaults,
                      [ObjectsNext]_<<vars, objectVars>>
               PROVE  ObjectOK' /\ lost' \in 0 .. MaxObjectFaults
    BY DEF ObjectsTypeOK, ObjectOK
  <2>1. ASSUME NEW c \in Clients, GetObject(c) \/ GetFindsNothing(c) \/ GetFails(c)
        PROVE  ObjectOK'
    <3>1. CASE GetObject(c)
      BY <3>1 DEF ObjectOK, GetObject, FillObjectInfo, object
    <3>2. CASE GetFindsNothing(c)
      BY <3>2 DEF ObjectOK, GetFindsNothing, object
    <3>3. CASE GetFails(c)
      BY <3>3 DEF ObjectOK, GetFails, Over, object
    <3>4. QED
      BY <2>1, <3>1, <3>2, <3>3
  <2>2. ASSUME NEW c \in Clients, PutObject(c) \/ PutAnswerIsLost(c)
        PROVE  ObjectOK'
    BY <2>2, ObjectsAssumption DEF ObjectOK, PutObject, PutAnswerIsLost, Upload, Over, holder
  <2>3. ASSUME NEW c \in Clients, PutIsNotExecuted(c) PROVE ObjectOK'
    BY <2>3 DEF ObjectOK, PutIsNotExecuted, Over, object, holder
  <2>4. ASSUME LockStep PROVE ObjectOK'
    BY <2>4 DEF ObjectOK, LockStep, object
  <2>5. ASSUME UNCHANGED <<vars, objectVars>> PROVE ObjectOK'
    BY <2>5 DEF ObjectOK, objectVars, object, holder
  <2>6. lost' = lost \/ ObjectFault
    BY DEF ObjectsNext, LockStep, ObjectStep, GetObject, GetFindsNothing, GetFails, PutObject,
           PutAnswerIsLost, PutIsNotExecuted, objectVars
  <2>7. lost' \in 0 .. MaxObjectFaults
    <3>1. MaxObjectFaults \in Nat
      BY ObjectsAssumption
    <3>2. QED
      BY <2>6, <3>1 DEF ObjectFault
  <2>8. QED
    BY <2>1, <2>2, <2>3, <2>4, <2>5, <2>7 DEF ObjectsNext, ObjectStep
<1>3. QED
  BY <1>1, <1>2, PTL DEF ObjectsSpec

(* The inductive invariant: while the lock is exclusive, a copy that a      *)
(* holder is about to write has every update that was acknowledged.         *)
LEMMA CopiesStayCurrent ==
  ASSUME TypeOK, ObjectsTypeOK, CopiesCurrent, ExclusiveUntilRepeated,
         [ObjectsNext]_<<vars, objectVars>>
  PROVE  CopiesCurrent'
<1> USE ObjectsAssumption DEF Current
<1>1. ASSUME NEW c \in Clients, GetObject(c) \/ GetFindsNothing(c) \/ GetFails(c)
      PROVE  CopiesCurrent'
  <2>1. CASE GetObject(c)
    BY <2>1 DEF ObjectsTypeOK, CopiesCurrent, TypeOf, GetObject, FillObjectInfo, object, vars,
                history
  <2>2. CASE GetFindsNothing(c)
    BY <2>2 DEF ObjectsTypeOK, CopiesCurrent, TypeOf, GetFindsNothing, object, vars, history
  <2>3. CASE GetFails(c)
    BY <2>3 DEF ObjectsTypeOK, CopiesCurrent, TypeOf, GetFails, Over, object, vars, history
  <2>4. QED
    BY <1>1, <2>1, <2>2, <2>3
<1>2. ASSUME NEW c \in Clients, PutObject(c) \/ PutAnswerIsLost(c) \/ PutIsNotExecuted(c)
      PROVE  CopiesCurrent'
  \* The client that writes is the only one that has read.
  <2>1. ASSUME ~repeated, NEW d \in Clients, work[d] = "loaded" PROVE d = c
    BY <1>2, <2>1 DEF CopiesCurrent, ExclusiveUntilRepeated, MutualExclusion, Holders,
                      PutObject, PutAnswerIsLost, PutIsNotExecuted
  <2>2. CASE PutIsNotExecuted(c)
    BY <2>2 DEF ObjectsTypeOK, CopiesCurrent, TypeOf, PutIsNotExecuted, Over, object,
                holder, vars, history
  <2>3. CASE PutObject(c)
    BY <2>1, <2>3 DEF ObjectsTypeOK, CopiesCurrent, PutObject, Upload, Over, vars, history
  <2>4. CASE PutAnswerIsLost(c)
    BY <2>1, <2>4 DEF ObjectsTypeOK, CopiesCurrent, TypeOf, PutAnswerIsLost, Upload, Over,
                      holder, vars, history
  <2>5. QED
    BY <1>2, <2>2, <2>3, <2>4
<1>3. CASE LockStep
  <2>1. ~repeated' => ~repeated
    BY <1>3, RepeatedStays DEF LockStep
  <2>2. QED
    BY <1>3, <2>1 DEF ObjectsTypeOK, CopiesCurrent, TypeOf, LockStep, object
<1>4. CASE UNCHANGED <<vars, objectVars>>
  BY <1>4 DEF CopiesCurrent, TypeOf, vars, history, objectVars, object, holder
<1>5. QED
  BY <1>1, <1>2, <1>3, <1>4 DEF ObjectsNext, ObjectStep

(* It holds from the start, as the lock excludes. *)
LEMMA CopiesAreCurrent == ObjectsSpec => []CopiesCurrent
<1>1. ObjectsInit => CopiesCurrent
  BY DEF ObjectsInit, CopiesCurrent
<1>2. QED
  BY <1>1, CopiesStayCurrent, ObjectsTyped, ObjectsUseTheLock, TypeCorrect, Exclusion, PTL
  DEF ObjectsSpec

-------------------------------------------------------------------------------
(* No update whose PutObject returned nil is lost, until a release of the   *)
(* lock is executed a second time.                                          *)
THEOREM UpdatesAreKept == ObjectsSpec => []NoLostUpdate
<1>1. CopiesCurrent => NoLostUpdate
  BY DEF CopiesCurrent, NoLostUpdate
<1>2. QED
  BY <1>1, CopiesAreCurrent, PTL

(* Clients that read, change and write the object leave its content type,   *)
(* until then.                                                              *)
THEOREM TypeIsKept == ObjectsSpec => TypeKept
<1>1. CopiesCurrent /\ [ObjectsNext]_<<vars, objectVars>>
      => [stored /\ ~repeated => type' = type]_<<vars, objectVars>>
  <2> SUFFICES ASSUME CopiesCurrent, ObjectsNext, stored, ~repeated PROVE type' = type
    OBVIOUS
  <2>1. ASSUME NEW c \in Clients, PutObject(c) \/ PutAnswerIsLost(c)
        PROVE  type' = type
    BY <2>1 DEF CopiesCurrent, Current, TypeOf, PutObject, PutAnswerIsLost, Upload
  <2>2. QED
    BY <2>1 DEF ObjectsNext, LockStep, ObjectStep, GetObject, GetFindsNothing, GetFails,
                PutIsNotExecuted, object
<1>2. QED
  BY <1>1, CopiesAreCurrent, PTL DEF ObjectsSpec, TypeKept
===============================================================================
