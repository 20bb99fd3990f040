----------------------------- MODULE SecretStages -----------------------------
(***************************************************************************)
(* internal/secret/aws: SetVersion, PromoteVersion and DiscardVersion of    *)
(* several clients on one AWS Secrets Manager secret.  Each call is two or  *)
(* three requests: between any two of them the labels may move, a request   *)
(* may fail or lose its answer (and be repeated by the SDK), and a client   *)
(* may crash.                                                               *)
(*                                                                          *)
(* The service is external.  It is modelled by what the code relies on:     *)
(* UpdateSecretVersionStage is a compare-and-set on RemoveFromVersionId,    *)
(* and PutSecretValue is idempotent for a ClientRequestToken.               *)
(***************************************************************************)
EXTENDS Naturals

CONSTANTS Clients,
          Versions,        \* version ids, which are ClientRequestTokens
          Payloads,
          None,            \* no version ("" in the code), no payload
          MaxFaults        \* bound on the faults of a behaviour

ASSUME SecretAssumption ==
    /\ None \notin Versions /\ None \notin Payloads
    /\ MaxFaults \in Nat

VARIABLES content,   \* the payload of each version; None: no such version
          label,     \* the version each staging label is attached to
          pc,        \* the request each client is at
          op,        \* what each client's call does, and what it has read
          returned,  \* how each client's last call ended
          faults

vars == <<content, label, pc, op, returned, faults>>

Labels == {"AWSCURRENT", "AWSPENDING"}
Points == {"idle", "put", "describe", "update", "discard"}
Kinds == {"none", "set", "promote", "discard"}

Ops == [kind : Kinds, version : Versions \union {None},
        payload : Payloads \union {None},
        seen : Versions \union {None}]     \* getVersionWithStage's answer

NoOp == [kind |-> "none", version |-> None, payload |-> None, seen |-> None]

TypeOK == /\ content \in [Versions -> Payloads \union {None}]
          /\ label \in [Labels -> Versions \union {None}]
          /\ pc \in [Clients -> Points]
          /\ op \in [Clients -> Ops]
          /\ returned \in [Clients -> Kinds \union {"error"}]
          /\ faults \in 0..MaxFaults
          /\ \A c \in Clients :
                /\ pc[c] = "idle" <=> op[c].kind = "none"
                /\ pc[c] = "put" => op[c].kind = "set"
                /\ pc[c] = "discard" => op[c].kind \in {"promote", "discard"}
                /\ op[c].kind = "discard" => pc[c] = "discard"

(* A secret that has no value yet, or a current one. *)
Init == /\ \/ /\ content = [v \in Versions |-> None]
              /\ label = [l \in Labels |-> None]
           \/ \E v \in Versions, p \in Payloads :
                 /\ content = [w \in Versions |-> IF w = v THEN p ELSE None]
                 /\ label = [l \in Labels |-> IF l = "AWSCURRENT" THEN v ELSE None]
        /\ pc = [c \in Clients |-> "idle"]
        /\ op = [c \in Clients |-> NoOp]
        /\ returned = [c \in Clients |-> "none"]
        /\ faults = 0

-------------------------------------------------------------------------------
(* The service. *)

(* PutSecretValue(token v, payload p) without VersionStages: a new version  *)
(* gets AWSCURRENT; a known token with the same value is ignored.           *)
CanPut(v, p) == content[v] \in {None, p}
PutEffect(v, p) ==
    /\ content' = [content EXCEPT ![v] = p]
    /\ label' = IF content[v] = None THEN [label EXCEPT !["AWSCURRENT"] = v] ELSE label

(* UpdateSecretVersionStage(stage, MoveTo v, RemoveFrom seen). *)
CanMove(stage, seen, v) ==
    /\ content[v] # None
    /\ label[stage] = seen \/ (seen = None /\ label[stage] = v)

-------------------------------------------------------------------------------
Fault == faults < MaxFaults /\ faults' = faults + 1

Goto(c, point) == pc' = [pc EXCEPT ![c] = point] /\ UNCHANGED <<op, returned>>

Return(c, how) == /\ pc' = [pc EXCEPT ![c] = "idle"]
                  /\ op' = [op EXCEPT ![c] = NoOp]
                  /\ returned' = [returned EXCEPT ![c] = how]

(* A request without an answer is sent again, or the call returns an error. *)
Unanswered(c) == \/ UNCHANGED <<pc, op, returned>>
                 \/ Return(c, "error")

(* The label a call moves. *)
Stage(c) == IF op[c].kind = "set" THEN "AWSPENDING" ELSE "AWSCURRENT"

(* Mutant: PromoteVersion leaves AWSPENDING where it is. *)
StageMovedAndReturn(c) == Return(c, op[c].kind)

(* moveStage returned nil: SetVersion returns, PromoteVersion goes on to    *)
(* DiscardVersion.                                                          *)
StageMoved(c) == IF op[c].kind = "set" THEN Return(c, "set") ELSE Goto(c, "discard")

Call(c, kind, v, p, point) ==
    /\ pc[c] = "idle"
    /\ pc' = [pc EXCEPT ![c] = point]
    /\ op' = [op EXCEPT ![c] = [NoOp EXCEPT !.kind = kind, !.version = v, !.payload = p]]
    /\ returned' = [returned EXCEPT ![c] = "none"]
    /\ UNCHANGED <<content, label, faults>>

-------------------------------------------------------------------------------
(* The token is the caller's, or for "" a fresh one that the SDK generates  *)
(* before it sends the request.                                             *)
SetVersion(c, v, p) == Call(c, "set", v, p, "put")

PromoteVersion(c, v) == Call(c, "promote", v, None, "describe")

(* Mutant: DiscardVersion moves the label with moveStage. *)
DiscardByMoving(c, v) == Call(c, "discard", v, None, "describe")

DiscardVersion(c, v) == Call(c, "discard", v, None, "discard")

PutSucceeds(c) ==
    /\ pc[c] = "put"
    /\ CanPut(op[c].version, op[c].payload)
    /\ PutEffect(op[c].version, op[c].payload)
    /\ Goto(c, "describe")
    /\ UNCHANGED faults

PutAnswerLost(c) ==
    /\ pc[c] = "put"
    /\ CanPut(op[c].version, op[c].payload)
    /\ PutEffect(op[c].version, op[c].payload)
    /\ Fault
    /\ Unanswered(c)

(* The token names a version with another value. *)
PutRefused(c) ==
    /\ pc[c] = "put"
    /\ ~CanPut(op[c].version, op[c].payload)
    /\ Return(c, "error")
    /\ UNCHANGED <<content, label, faults>>

(* Mutant: moveStage has nothing to do when some version has the label. *)
DescribeAny(c) ==
    /\ pc[c] = "describe"
    /\ IF label[Stage(c)] # None
       THEN StageMoved(c)
       ELSE /\ pc' = [pc EXCEPT ![c] = "update"]
            /\ op' = [op EXCEPT ![c].seen = label[Stage(c)]]
            /\ UNCHANGED returned
    /\ UNCHANGED <<content, label, faults>>

(* Mutant: RemoveFromVersionId is left out. *)
DescribeUnseen(c) ==
    /\ pc[c] = "describe"
    /\ IF label[Stage(c)] = op[c].version THEN StageMoved(c) ELSE Goto(c, "update")
    /\ UNCHANGED <<content, label, faults>>

(* getVersionWithStage; moveStage has nothing to do when the version has    *)
(* the label already.                                                       *)
Describe(c) ==
    /\ pc[c] = "describe"
    /\ IF label[Stage(c)] = op[c].version
       THEN StageMoved(c)
       ELSE /\ pc' = [pc EXCEPT ![c] = "update"]
            /\ op' = [op EXCEPT ![c].seen = label[Stage(c)]]
            /\ UNCHANGED returned
    /\ UNCHANGED <<content, label, faults>>

(* Mutant: the label is moved from wherever it is, as if RemoveFromVersionId *)
(* were read again at the update.                                           *)
UpdateFromAnywhere(c) ==
    /\ pc[c] = "update"
    /\ content[op[c].version] # None
    /\ label' = [label EXCEPT ![Stage(c)] = op[c].version]
    /\ StageMoved(c)
    /\ UNCHANGED <<content, faults>>

(* The label is moved if it is still where Describe saw it. *)
UpdateSucceeds(c) ==
    /\ pc[c] = "update"
    /\ CanMove(Stage(c), op[c].seen, op[c].version)
    /\ label' = [label EXCEPT ![Stage(c)] = op[c].version]
    /\ StageMoved(c)
    /\ UNCHANGED <<content, faults>>

UpdateAnswerLost(c) ==
    /\ pc[c] = "update"
    /\ CanMove(Stage(c), op[c].seen, op[c].version)
    /\ label' = [label EXCEPT ![Stage(c)] = op[c].version]
    /\ Fault
    /\ Unanswered(c)
    /\ UNCHANGED content

UpdateRefused(c) ==
    /\ pc[c] = "update"
    /\ ~CanMove(Stage(c), op[c].seen, op[c].version)
    /\ Return(c, "error")
    /\ UNCHANGED <<content, label, faults>>

(* Mutants: DiscardVersion removes AWSPENDING wherever it is; the label     *)
(* that PromoteVersion moves.                                               *)
DiscardEffectAnywhere(c) == label' = [label EXCEPT !["AWSPENDING"] = None]
DiscardEffectOnStage(c) ==
    label' = IF label[Stage(c)] = op[c].version
             THEN [label EXCEPT ![Stage(c)] = None] ELSE label

(* AWSPENDING is removed from the version, if it is there. *)
DiscardEffect(c) ==
    label' = IF label["AWSPENDING"] = op[c].version
             THEN [label EXCEPT !["AWSPENDING"] = None] ELSE label

(* DiscardVersion's request; PromoteVersion ignores how it ends. *)
DiscardAnswered(c) ==
    /\ pc[c] = "discard"
    /\ DiscardEffect(c)
    /\ Return(c, IF op[c].kind = "discard" /\ label["AWSPENDING"] # op[c].version
                 THEN "error" ELSE op[c].kind)
    /\ UNCHANGED <<content, faults>>

DiscardUnanswered(c) ==
    /\ pc[c] = "discard"
    /\ DiscardEffect(c) \/ UNCHANGED label
    /\ Fault
    /\ \/ UNCHANGED <<pc, op, returned>>
       \/ Return(c, IF op[c].kind = "discard" THEN "error" ELSE op[c].kind)
    /\ UNCHANGED content

(* A put, describe or update that is not executed. *)
RequestFails(c) ==
    /\ pc[c] \in {"put", "describe", "update"}
    /\ Fault
    /\ Unanswered(c)
    /\ UNCHANGED <<content, label>>

(* The process dies; its successor knows nothing of the call. *)
Crash(c) == /\ pc[c] # "idle" \/ returned[c] # "none"
            /\ Fault
            /\ Return(c, "none")
            /\ UNCHANGED <<content, label>>

Progress(c) == \/ PutSucceeds(c) \/ PutAnswerLost(c) \/ PutRefused(c)
               \/ Describe(c)
               \/ UpdateSucceeds(c) \/ UpdateAnswerLost(c) \/ UpdateRefused(c)
               \/ DiscardAnswered(c) \/ DiscardUnanswered(c)
               \/ RequestFails(c)

Next == \E c \in Clients :
            \/ \E v \in Versions, p \in Payloads : SetVersion(c, v, p)
            \/ \E v \in Versions : PromoteVersion(c, v) \/ DiscardVersion(c, v)
            \/ Progress(c)
            \/ Crash(c)

Spec == Init /\ [][Next]_vars
-------------------------------------------------------------------------------
HasCurrent == /\ label["AWSCURRENT"] # None
              /\ content[label["AWSCURRENT"]] # None

(* Once GetCurrent has a value to return, it keeps having one, through every *)
(* interleaving of rotations, discards and failures.                         *)
CurrentKept == [][HasCurrent => HasCurrent']_vars

(* SetVersion returns its version, and PromoteVersion goes on to discard,   *)
(* only when the label it moves is on that version, which has the payload   *)
(* given: a label that another client moved since Describe is an error.     *)
SuccessMeansMoved ==
    [][\A c \in Clients :
          /\ pc[c] \in {"describe", "update"}
          /\ pc'[c] = "discard" \/ returned'[c] \in {"set", "promote"}
          => /\ label'[Stage(c)] = op[c].version
             /\ op[c].kind = "set" => content'[op[c].version] = op[c].payload]_vars

(* The label that a call is about to move was moved since its describe. *)
Stale(c) == pc[c] = "update" /\ label[Stage(c)] \notin {op[c].seen, op[c].version}

(* A call whose label another client moved between its describe and its     *)
(* update does not undo that move: it changes no label, and its answer, if  *)
(* the caller gets one, is an error.                                        *)
StaleCallsFail ==
    [][\A c \in Clients :
          Stale(c) /\ pc'[c] # "update"
          => label' = label /\ returned'[c] \in {"none", "error"} /\ pc'[c] = "idle"]_vars

(* AWSPENDING disappears from a version only by a discard or a promotion of *)
(* that version: the end of one rotation leaves the pending version of      *)
(* another rotation alone.                                                  *)
PendingOfOthersKept ==
    [][label["AWSPENDING"] # None /\ label'["AWSPENDING"] = None =>
          \E c \in Clients : /\ pc[c] = "discard"
                             /\ op[c].version = label["AWSPENDING"]]_vars

(* client.go: PromoteVersion "moves the secret identified by version from   *)
(* AWSPENDING to AWSCURRENT": as long as no request fails, a version is not *)
(* pending any more when PromoteVersion returns nil for it, also when       *)
(* another client's calls move both labels in between.  (The error of a     *)
(* discard that fails is dropped.)                                          *)
PromotionClearsPending ==
    [][\A c \in Clients :
          faults' = 0 /\ pc[c] # "idle" /\ returned'[c] = "promote"
          => label'["AWSPENDING"] # op[c].version]_vars

(* contracts.go: SetVersion "writes a new version and moves AWSPENDING to   *)
(* it"; a secret with a current version gets another one by PromoteVersion  *)
(* of that version only.                                                    *)
CurrentOnlyByPromotion ==
    [][label["AWSCURRENT"] # None /\ label'["AWSCURRENT"] # label["AWSCURRENT"] =>
          \E c \in Clients : /\ op[c].kind = "promote"
                             /\ op[c].version = label'["AWSCURRENT"]]_vars
===============================================================================
