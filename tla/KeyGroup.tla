------------------------------- MODULE KeyGroup -------------------------------
(***************************************************************************)
(* internal/cdn/aws: CreatePublicKey, EnsureKeyGroup, DeletePublicKey and   *)
(* VerifyKeyInGroup of several clients on one CloudFront key group.         *)
(* EnsureKeyGroup lists, gets the group, reads the age of its keys, updates *)
(* the group and deletes the keys it dropped, one request at a time: other  *)
(* clients' requests come in between, a request may fail or lose its        *)
(* answer, and a client may crash.                                          *)
(*                                                                          *)
(* CloudFront is external.  The code relies on its ETags: an update whose   *)
(* If-Match is not the group's ETag is refused; and on its refusal to       *)
(* delete a key in use or to put a key that does not exist into a group.    *)
(***************************************************************************)
EXTENDS Naturals, FiniteSets

CONSTANTS Clients,
          Keys,        \* public key ids
          NoKey,       \* no key
          MaxKeys,     \* maxKeys
          MaxFaults    \* bound on the faults of a behaviour

ASSUME KeyGroupAssumption == /\ NoKey \notin Keys
                             /\ IsFiniteSet(Keys)
                             /\ MaxKeys \in Nat \ {0}   \* WithMaxKeys panics
                             /\ MaxFaults \in Nat

VARIABLES created,  \* CreatedTime of each key; 0: not created yet
          exists,   \* the keys that CloudFront has
          grouped,  \* whether the key group has been created
          items,    \* the keys in it
          fresh,    \* the clients whose copy of the group has its ETag
          pc,       \* the request each client is at
          op,       \* the locals of each client's call
          returned, \* how each client's last call ended
          dropped,  \* the keys that updates have dropped from the group
          verdicts, \* what VerifyKeyInGroup could have answered, since it began
          faults

cloud == <<created, exists, grouped, items, fresh>>
vars == <<cloud, pc, op, returned, dropped, verdicts, faults>>

Verifying == {"verifyList", "verifyGet", "verifyRead"}
Points == {"idle", "list", "create", "get", "fetch", "update", "delete"} \union Verifying

Ops == [key : Keys \union {NoKey},   \* the key of EnsureKeyGroup or VerifyKeyInGroup
        ids : SUBSET Keys,           \* keyIDs, then keep; the group's Items
        evict : SUBSET Keys]         \* keys still to delete

NoOp == [key |-> NoKey, ids |-> {}, evict |-> {}]

Init == /\ created = [k \in Keys |-> 0]
        /\ exists = {}
        /\ grouped = FALSE
        /\ items = {}
        /\ fresh = {}
        /\ pc = [c \in Clients |-> "idle"]
        /\ op = [c \in Clients |-> NoOp]
        /\ returned = [c \in Clients |-> "none"]
        /\ dropped = {}
        /\ verdicts = [c \in Clients |-> {}]
        /\ faults = 0

-------------------------------------------------------------------------------
Fault == faults < MaxFaults /\ faults' = faults + 1

Goto(c, point) == pc' = [pc EXCEPT ![c] = point] /\ UNCHANGED returned

Return(c, how) == /\ pc' = [pc EXCEPT ![c] = "idle"]
                  /\ op' = [op EXCEPT ![c] = NoOp]
                  /\ returned' = [returned EXCEPT ![c] = how]

Call(c, point, locals) ==
    /\ pc[c] = "idle"
    /\ pc' = [pc EXCEPT ![c] = point]
    /\ op' = [op EXCEPT ![c] = locals]
    /\ returned' = [returned EXCEPT ![c] = "none"]
    /\ UNCHANGED <<cloud, dropped, faults>>

(* A request without an answer is sent again, or the call returns an error. *)
Unanswered(c) == \/ UNCHANGED <<pc, op, returned>>
                 \/ Return(c, "error")

(* Mutants: the oldest keys are kept; one key more than maxKeys. *)
KeepsOldest(ids, keep) ==
    /\ keep \subseteq ids
    /\ Cardinality(keep) = IF Cardinality(ids) < MaxKeys THEN Cardinality(ids) ELSE MaxKeys
    /\ \A old \in ids \ keep, kept \in keep : created[old] >= created[kept]

KeepsOneMore(ids, keep) ==
    /\ keep \subseteq ids
    /\ Cardinality(keep) = IF Cardinality(ids) <= MaxKeys THEN Cardinality(ids) ELSE MaxKeys + 1
    /\ \A old \in ids \ keep, kept \in keep : created[old] <= created[kept]

(* partitionByAge: the MaxKeys newest; sort.Slice orders ties arbitrarily.  *)
Keeps(ids, keep) ==
    /\ keep \subseteq ids
    /\ Cardinality(keep) = IF Cardinality(ids) < MaxKeys THEN Cardinality(ids) ELSE MaxKeys
    /\ \A old \in ids \ keep, kept \in keep : created[old] <= created[kept]

-------------------------------------------------------------------------------
(* CreatePublicKey; two keys may get the same CreatedTime.  A key whose     *)
(* answer is lost exists as well, and nobody asks for it.                   *)
CreatePublicKey(c, k) ==
    /\ pc[c] = "idle"
    /\ created[k] = 0
    /\ \E time \in 1 .. Cardinality(Keys) :
          /\ \A other \in Keys : created[other] <= time
          /\ \E other \in Keys : created[other] \in {time - 1, time}
          /\ created' = [created EXCEPT ![k] = time]
    /\ exists' = exists \union {k}
    /\ UNCHANGED <<grouped, items, fresh, pc, op, returned, dropped, faults>>

(* keyID is that of some key created before; it may have been deleted. *)
EnsureKeyGroup(c, k) ==
    created[k] > 0 /\ Call(c, "list", [NoOp EXCEPT !.key = k])

DeletePublicKey(c, k) ==
    created[k] > 0 /\ Call(c, "delete", [NoOp EXCEPT !.evict = {k}])

(* Mutant: the branches of EnsureKeyGroup swapped. *)
ListSwapped(c) == /\ pc[c] = "list"
                  /\ Goto(c, IF grouped THEN "create" ELSE "get")
                  /\ UNCHANGED <<cloud, op, dropped, faults>>

(* findKeyGroupByName *)
List(c) == /\ pc[c] = "list"
           /\ Goto(c, IF grouped THEN "get" ELSE "create")
           /\ UNCHANGED <<cloud, op, dropped, faults>>

CanCreate(c) == ~grouped /\ op[c].key \in exists

CreateEffect(c) == /\ CanCreate(c)
                   /\ grouped' = TRUE
                   /\ items' = {op[c].key}
                   /\ UNCHANGED <<created, exists, fresh>>

CreateSucceeds(c) == /\ pc[c] = "create"
                     /\ CreateEffect(c)
                     /\ Return(c, "ok")
                     /\ UNCHANGED <<dropped, faults>>

CreateAnswerLost(c) == /\ pc[c] = "create"
                       /\ CreateEffect(c)
                       /\ Fault
                       /\ Unanswered(c)
                       /\ UNCHANGED dropped

(* Another client created the group, or deleted the key. *)
CreateRefused(c) == /\ pc[c] = "create"
                    /\ ~CanCreate(c)
                    /\ Return(c, "error")
                    /\ UNCHANGED <<cloud, dropped, faults>>

(* deduplicateKeys; the order does not matter, partitionByAge sorts. *)
DeduplicateKeys(existing, new) == existing \union {new}

(* GetKeyGroup *)
Get(c) == /\ pc[c] = "get"
          /\ fresh' = fresh \union {c}
          /\ op' = [op EXCEPT ![c].ids = DeduplicateKeys(items, op[c].key)]
          /\ Goto(c, "fetch")
          /\ UNCHANGED <<created, exists, grouped, items, dropped, faults>>

(* partitionKeysByAge when every key was read. *)
FetchSucceeds(c) ==
    /\ pc[c] = "fetch"
    /\ op[c].ids \subseteq exists
    /\ \E keep \in SUBSET op[c].ids :
          /\ Keeps(op[c].ids, keep)
          /\ op' = [op EXCEPT ![c] = [@ EXCEPT !.ids = keep,
                                              !.evict = op[c].ids \ keep]]
    /\ Goto(c, "update")
    /\ UNCHANGED <<cloud, dropped, faults>>

(* A key cannot be read: all are kept. *)
FetchMisses(c) == /\ pc[c] = "fetch"
                  /\ ~(op[c].ids \subseteq exists)
                  /\ Goto(c, "update")
                  /\ UNCHANGED <<cloud, op, dropped, faults>>

FetchFails(c) == /\ pc[c] = "fetch"
                 /\ Fault
                 /\ Goto(c, "update")
                 /\ UNCHANGED <<cloud, op, dropped>>

(* Mutant: UpdateKeyGroup without If-Match. *)
CanUpdateAnyTime(c) == op[c].ids \subseteq exists

CanUpdate(c) == c \in fresh /\ op[c].ids \subseteq exists

(* UpdateKeyGroup gives the group a new ETag. *)
UpdateEffect(c) == /\ CanUpdate(c)
                   /\ items' = op[c].ids
                   /\ fresh' = {}
                   /\ dropped' = dropped \union (items \ op[c].ids)
                   /\ UNCHANGED <<created, exists, grouped>>

(* Mutant: the keys taken out of the group are not deleted. *)
UpdateReturns(c) == /\ pc[c] = "update"
                    /\ UpdateEffect(c)
                    /\ Return(c, "ok")
                    /\ UNCHANGED faults

UpdateSucceeds(c) == /\ pc[c] = "update"
                     /\ UpdateEffect(c)
                     /\ Goto(c, "delete")
                     /\ UNCHANGED <<op, faults>>

UpdateAnswerLost(c) == /\ pc[c] = "update"
                       /\ UpdateEffect(c)
                       /\ Fault
                       /\ Unanswered(c)

UpdateRefused(c) == /\ pc[c] = "update"
                    /\ ~CanUpdate(c)
                    /\ Return(c, "error")
                    /\ UNCHANGED <<cloud, dropped, faults>>

(* EnsureKeyGroup goes on to the next evicted key, whether or not this one  *)
(* was deleted.                                                             *)
Deleted(c, k) == op' = [op EXCEPT ![c].evict = @ \ {k}]

(* deletePublicKey, whose GetPublicKey and DeletePublicKey count as one     *)
(* step: a key's ETag never changes.  A key in use is not deleted.          *)
DeleteAnswered(c, k) ==
    /\ pc[c] = "delete" /\ k \in op[c].evict
    /\ exists' = IF k \in items THEN exists ELSE exists \ {k}
    /\ IF op[c].key = NoKey
       THEN Return(c, IF k \in exists \ items THEN "ok" ELSE "error")
       ELSE Deleted(c, k) /\ UNCHANGED <<pc, returned>>
    /\ UNCHANGED <<created, grouped, items, fresh, dropped, faults>>

(* No answer to GetPublicKey or DeletePublicKey, which may have been         *)
(* executed: the SDK sends it again, or deletePublicKey returns an error.   *)
DeleteUnanswered(c, k) ==
    /\ pc[c] = "delete" /\ k \in op[c].evict
    /\ Fault
    /\ \/ UNCHANGED exists
       \/ k \notin items /\ exists' = exists \ {k}
    /\ \/ UNCHANGED <<pc, op, returned>>
       \/ op[c].key = NoKey /\ Return(c, "error")
       \/ op[c].key # NoKey /\ Deleted(c, k) /\ UNCHANGED <<pc, returned>>
    /\ UNCHANGED <<created, grouped, items, fresh, dropped>>

(* EnsureKeyGroup returns the group's id. *)
Done(c) == /\ pc[c] = "delete" /\ op[c].evict = {}
           /\ Return(c, "ok")
           /\ UNCHANGED <<cloud, dropped, faults>>

(* Each key has a name of its own, so that VerifyKeyInGroup's key.Name is a *)
(* key.                                                                     *)
VerifyKeyInGroup(c, k) ==
    created[k] > 0 /\ Call(c, "verifyList", [NoOp EXCEPT !.key = k])

VerifyList(c) == /\ pc[c] = "verifyList"
                 /\ IF grouped THEN Goto(c, "verifyGet") /\ UNCHANGED op
                               ELSE Return(c, "absent")
                 /\ UNCHANGED <<cloud, dropped, faults>>

VerifyGet(c) == /\ pc[c] = "verifyGet"
                /\ op' = [op EXCEPT ![c].ids = items]
                /\ Goto(c, "verifyRead")
                /\ UNCHANGED <<cloud, dropped, faults>>

(* Mutant: the name is looked up among all public keys. *)
FoundAnywhere(c) == op[c].key \in exists

(* The keys of the group are read in turn until one has the name; one that  *)
(* was deleted is skipped.  Names are unique, so the answer rests on the one *)
(* read of the key that has the name, and the loop is one step.             *)
Found(c) == op[c].key \in op[c].ids \intersect exists

VerifyReads(c) == /\ pc[c] = "verifyRead"
                  /\ Return(c, IF Found(c) THEN "present" ELSE "absent")
                  /\ UNCHANGED <<cloud, dropped, faults>>

(* The key could not be read: it is skipped as well. *)
VerifyMisses(c) == /\ pc[c] = "verifyRead"
                   /\ Fault
                   /\ Return(c, "absent")
                   /\ UNCHANGED <<cloud, dropped>>

(* A list, create, get or update that is not executed. *)
RequestFails(c) == /\ pc[c] \in {"list", "create", "get", "update",
                                "verifyList", "verifyGet"}
                   /\ Fault
                   /\ Unanswered(c)
                   /\ UNCHANGED <<cloud, dropped>>

(* The process dies; its successor knows nothing of the calls. *)
Crash(c) == /\ pc[c] # "idle" \/ returned[c] # "none"
            /\ Fault
            /\ Return(c, "none")
            /\ UNCHANGED <<cloud, dropped>>

(* History: whether the key was in the group or not, at each moment of a    *)
(* VerifyKeyInGroup.                                                        *)
Watch == verdicts' = [c \in Clients |->
                        IF pc'[c] \in Verifying
                        THEN verdicts[c] \union
                             {IF op'[c].key \in items' THEN "present" ELSE "absent"}
                        ELSE {}]

Step == \E c \in Clients :
            \/ \E k \in Keys : \/ CreatePublicKey(c, k) \/ EnsureKeyGroup(c, k)
                               \/ DeletePublicKey(c, k) \/ VerifyKeyInGroup(c, k)
                               \/ DeleteAnswered(c, k) \/ DeleteUnanswered(c, k)
            \/ List(c)
            \/ CreateSucceeds(c) \/ CreateAnswerLost(c) \/ CreateRefused(c)
            \/ Get(c)
            \/ FetchSucceeds(c) \/ FetchMisses(c) \/ FetchFails(c)
            \/ UpdateSucceeds(c) \/ UpdateAnswerLost(c) \/ UpdateRefused(c)
            \/ Done(c)
            \/ VerifyList(c) \/ VerifyGet(c) \/ VerifyReads(c) \/ VerifyMisses(c)
            \/ RequestFails(c) \/ Crash(c)

Next == Step /\ Watch

Spec == Init /\ [][Next]_vars

-------------------------------------------------------------------------------
(* The calls' locals and points agree; the group's keys exist, and those it *)
(* was created with.                                                        *)
TypeOK == /\ created \in [Keys -> Nat]
          /\ exists \subseteq {k \in Keys : created[k] > 0}
          /\ grouped \in BOOLEAN
          /\ items \subseteq exists
          /\ items # {} <=> grouped
          /\ fresh \subseteq Clients
          /\ pc \in [Clients -> Points]
          /\ op \in [Clients -> Ops]
          /\ returned \in [Clients -> {"none", "ok", "error", "present", "absent"}]
          /\ dropped \subseteq Keys
          /\ verdicts \in [Clients -> SUBSET {"present", "absent"}]
          /\ faults \in 0..MaxFaults

(* An update takes out of the group only keys that it saw in it and chose   *)
(* to evict: a key that another client added after this client's            *)
(* GetKeyGroup is not lost.                                                 *)
NoLostKey == [][\A k \in items \ items' :
                   \E c \in Clients : /\ pc[c] = "update"
                                      /\ k \in op[c].evict]_vars

(* No update keeps a key and drops a newer one. *)
NewestKept == [][\A old \in items \ items', kept \in items' :
                    created[old] <= created[kept]]_vars

(* Unless a request failed, the group has at most maxKeys keys. *)
GroupBounded == faults = 0 => Cardinality(items) <= MaxKeys

(* Unless a request failed or a client crashed, a key that was dropped from *)
(* the group does not stay behind: it is deleted, about to be deleted, or   *)
(* in the group again.                                                      *)
DroppedAreDeleted ==
    faults = 0 => dropped \intersect exists
                  \subseteq items \union UNION {op[c].evict : c \in Clients}

(* VerifyKeyInGroup answers from a list, a snapshot and single reads; its   *)
(* answer was true at some moment of the call nevertheless, however the     *)
(* group and the keys change meanwhile.  Only a read that fails makes it    *)
(* say "absent" of a key that is in the group all the time.                 *)
VerifyWasTrue ==
    [][\A c \in Clients :
          /\ pc[c] \in Verifying
          /\ returned'[c] = "present" \/ (returned'[c] = "absent" /\ faults' = 0)
          => returned'[c] \in verdicts[c]]_vars

(* cdn.go: "EnsureKeyGroup guarantees a KeyGroup named name exists and      *)
(* contains keyID": when its update is accepted, keyID is in the group.     *)
EnsuredKeyInGroup ==
    [][\A c \in Clients : pc[c] = "update" /\ pc'[c] = "delete"
                          => op[c].key \in items']_vars
===============================================================================
