------------------------------- MODULE FetchPool -------------------------------
(***************************************************************************)
(* fetchKeyMetas of internal/cdn/aws: one goroutine per key id reads the    *)
(* key's metadata, at most "concurrency" at a time (the channel sem), under *)
(* an errgroup whose first error cancels the requests still running.        *)
(* partitionByAge then sorts and evicts by what the goroutines wrote.       *)
(***************************************************************************)
EXTENDS Naturals, FiniteSets

CONSTANTS N,           \* len(ids)
          Concurrency  \* cap(sem)

ASSUME PoolAssumption == /\ N \in Nat \ {0}            \* 0 returns at once
                         /\ Concurrency \in Nat \ {0}  \* WithConcurrency panics

VARIABLES next,      \* the loop variable of fetchKeyMetas, N + 1 after the loop
          sem,       \* elements in the channel
          go,        \* where each goroutine is
          failed,    \* whether its GetPublicKey returned an error
          metas,     \* the slots of metas that were written
          err,       \* whether the errgroup has an error; egCtx is then cancelled
          returned   \* what eg.Wait returned: "nil", "error", "" before

vars == <<next, sem, go, failed, metas, err, returned>>

Ids == 1 .. N
Points == {"none", "request", "release", "report", "done"}

TypeOK == /\ next \in 1 .. N + 1
          /\ sem \in 0 .. Concurrency
          /\ go \in [Ids -> Points]
          /\ failed \subseteq Ids
          /\ metas \subseteq Ids
          /\ err \in BOOLEAN
          /\ returned \in {"", "nil", "error"}

Init == /\ next = 1
        /\ sem = 0
        /\ go = [i \in Ids |-> "none"]
        /\ failed = {}
        /\ metas = {}
        /\ err = FALSE
        /\ returned = ""

-------------------------------------------------------------------------------
Goto(i, point) == go' = [go EXCEPT ![i] = point]

(* Mutant: the loop does not wait for a place. *)
StartAnyway == /\ next \in Ids
               /\ sem' = sem + 1
               /\ Goto(next, "request")
               /\ next' = next + 1
               /\ UNCHANGED <<failed, metas, err, returned>>

(* sem <- struct{}{} and eg.Go; the loop does not look at egCtx. *)
Start == /\ next \in Ids
         /\ sem < Concurrency
         /\ sem' = sem + 1
         /\ Goto(next, "request")
         /\ next' = next + 1
         /\ UNCHANGED <<failed, metas, err, returned>>

(* GetPublicKey answers; it may do so although egCtx is cancelled. *)
Answer(i) == /\ go[i] = "request"
             /\ metas' = metas \union {i}
             /\ Goto(i, "release")
             /\ UNCHANGED <<next, sem, failed, err, returned>>

(* It fails, by itself or because egCtx is cancelled. *)
Fail(i) == /\ go[i] = "request"
           /\ failed' = failed \union {i}
           /\ Goto(i, "release")
           /\ UNCHANGED <<next, sem, metas, err, returned>>

(* Mutant: the place is given back only on success. *)
ReleaseOnSuccess(i) == /\ go[i] = "release"
                       /\ sem' = IF i \in failed THEN sem ELSE sem - 1
                       /\ Goto(i, "report")
                       /\ UNCHANGED <<next, failed, metas, err, returned>>

(* The deferred <-sem, before the function's error reaches the errgroup. *)
Release(i) == /\ go[i] = "release"
              /\ sem > 0
              /\ sem' = sem - 1
              /\ Goto(i, "report")
              /\ UNCHANGED <<next, failed, metas, err, returned>>

(* Mutant: the goroutine returns nil, having logged its error. *)
ReportNothing(i) == /\ go[i] = "report"
                    /\ Goto(i, "done")
                    /\ UNCHANGED <<next, sem, failed, metas, err, returned>>

(* The errgroup keeps the first error and cancels egCtx. *)
Report(i) == /\ go[i] = "report"
             /\ err' = (err \/ i \in failed)
             /\ Goto(i, "done")
             /\ UNCHANGED <<next, sem, failed, metas, returned>>

Started == {i \in Ids : go[i] # "none"}

(* eg.Wait *)
Wait == /\ next = N + 1 /\ returned = ""
        /\ \A i \in Started : go[i] = "done"
        /\ returned' = IF err THEN "error" ELSE "nil"
        /\ UNCHANGED <<next, sem, go, failed, metas, err>>

Next == \/ Start \/ Wait
        \/ \E i \in Ids : Answer(i) \/ Fail(i) \/ Release(i) \/ Report(i)

Spec == Init /\ [][Next]_vars

-------------------------------------------------------------------------------
InFlight == {i \in Ids : go[i] = "request"}

(* No more than "concurrency" requests run at a time, and the channel never *)
(* blocks a goroutine that gives its place back.                            *)
Bounded == /\ Cardinality(InFlight) <= Concurrency
           /\ \A i \in Ids : go[i] = "release" => sem > 0

(* partitionKeysByAge sorts by age only metadata that was read, for every   *)
(* key: a nil error means that no slot of metas is unwritten, and that no   *)
(* goroutine is left that could still write one.                            *)
NilMeansComplete ==
    /\ returned = "nil" => metas = Ids
    /\ returned # "" => \A i \in Ids : go[i] = "done"
===============================================================================
