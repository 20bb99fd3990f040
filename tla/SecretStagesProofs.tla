--------------------------- MODULE SecretStagesProofs ---------------------------
(***************************************************************************)
(* Proofs about SecretStages, for any number of clients, versions, payloads *)
(* and faults.                                                              *)
(***************************************************************************)
EXTENDS SecretStages, TLAPS

(* TypeOK in parts: the service, the clients, the faults. *)
ServiceOK == /\ content \in [Versions -> Payloads \union {None}]
             /\ label \in [Labels -> Versions \union {None}]

ClientsOK == /\ pc \in [Clients -> Points]
             /\ op \in [Clients -> Ops]
             /\ returned \in [Clients -> Kinds \union {"error"}]
             /\ \A c \in Clients :
                   /\ pc[c] = "idle" <=> op[c].kind = "none"
                   /\ pc[c] = "put" => op[c].kind = "set"
                   /\ pc[c] = "discard" => op[c].kind \in {"promote", "discard"}
                   /\ op[c].kind = "discard" => pc[c] = "discard"

(* A client at a request has not returned; it has a version and, to set it, *)
(* a payload, which the version has once it was put.                        *)
CallsHaveVersions ==
    \A c \in Clients :
       pc[c] # "idle" =>
          /\ returned[c] = "none"
          /\ op[c].version \in Versions
          /\ op[c].kind = "set" =>
                /\ op[c].payload \in Payloads
                /\ pc[c] \in {"describe", "update"}
                      => content[op[c].version] = op[c].payload

Inv == ServiceOK /\ ClientsOK /\ CallsHaveVersions

-------------------------------------------------------------------------------
(* The type invariant is the service's and the clients' parts and the bound. *)
LEMMA TypeParts == TypeOK <=> ServiceOK /\ ClientsOK /\ faults \in 0 .. MaxFaults
BY DEF TypeOK, ServiceOK, ClientsOK

(* A version or a payload is never the missing one. *)
LEMMA NoneIsNothing == None \notin Versions /\ None \notin Payloads
BY SecretAssumption

(* A client at rest has an operation of the type. *)
LEMMA NoOpIsOp == NoOp \in Ops /\ NoOp.kind = "none"
BY DEF NoOp, Ops, Kinds

(* The ways a client's state changes keep its type. *)
LEMMA ReturnKeepsClients ==
  ASSUME ClientsOK, NEW c \in Clients, NEW how \in Kinds \union {"error"}, Return(c, how)
  PROVE  ClientsOK'
BY NoOpIsOp DEF ClientsOK, Return, Points

LEMMA GotoKeepsClients ==
  ASSUME ClientsOK, NEW c \in Clients,
         \/ pc[c] = "put" /\ Goto(c, "describe")
         \/ op[c].kind = "promote" /\ Goto(c, "discard")
  PROVE  ClientsOK'
BY DEF ClientsOK, Goto, Points

(* A call begins at a request of its kind. *)
LEMMA CallKeepsClients ==
  ASSUME ClientsOK, NEW c \in Clients, NEW kind, NEW v \in Versions,
         NEW p \in Payloads \union {None}, NEW point,
         <<kind, point>> \in {<<"set", "put">>, <<"promote", "describe">>,
                              <<"discard", "discard">>},
         Call(c, kind, v, p, point)
  PROVE  ClientsOK'
<1> DEFINE called == [NoOp EXCEPT !.kind = kind, !.version = v, !.payload = p]
<1>1. kind \in Kinds /\ point \in Points
  BY DEF Kinds, Points
<1>2. called \in Ops /\ called.kind = kind
  BY <1>1, NoOpIsOp DEF Ops
<1>3. op' = [op EXCEPT ![c] = called] /\ pc' = [pc EXCEPT ![c] = point]
      /\ returned' = [returned EXCEPT ![c] = "none"]
  BY DEF Call
<1> HIDE DEF called
<1>4. QED
  BY <1>1, <1>2, <1>3 DEF ClientsOK, Kinds

(* A moved label ends SetVersion, or leads PromoteVersion to its discard. *)
LEMMA StageMovedKeepsClients ==
  ASSUME ClientsOK, NEW c \in Clients, pc[c] \in {"describe", "update"}, StageMoved(c)
  PROVE  ClientsOK'
<1>1. op[c].kind \in {"set", "promote"}
  BY DEF ClientsOK, Ops, Kinds
<1>2. CASE op[c].kind = "set"
  BY <1>2, ReturnKeepsClients DEF StageMoved, Kinds
<1>3. CASE op[c].kind = "promote"
  BY <1>3, GotoKeepsClients DEF StageMoved
<1>4. QED
  BY <1>1, <1>2, <1>3

(* A request that is sent again or given up. *)
LEMMA UnansweredKeepsClients ==
  ASSUME ClientsOK, NEW c \in Clients, Unanswered(c)
  PROVE  ClientsOK'
<1>1. CASE UNCHANGED <<pc, op, returned>>
  BY <1>1 DEF ClientsOK
<1>2. CASE Return(c, "error")
  BY <1>2, ReturnKeepsClients
<1>3. QED
  BY <1>1, <1>2 DEF Unanswered

(* One step of any client, or a crash. *)
LEMMA StepKeepsClients ==
  ASSUME ServiceOK, ClientsOK, [Next]_vars PROVE ClientsOK'
<1>0. ASSUME NEW c \in Clients, NEW v \in Versions, NEW p \in Payloads,
             SetVersion(c, v, p)
      PROVE  ClientsOK'
  BY <1>0, CallKeepsClients DEF SetVersion
<1>1. ASSUME NEW c \in Clients, NEW v \in Versions,
             PromoteVersion(c, v) \/ DiscardVersion(c, v)
      PROVE  ClientsOK'
  BY <1>1, CallKeepsClients DEF PromoteVersion, DiscardVersion
<1>2. ASSUME NEW c \in Clients, PutSucceeds(c) PROVE ClientsOK'
  BY <1>2, GotoKeepsClients DEF PutSucceeds
<1>3. ASSUME NEW c \in Clients,
             PutAnswerLost(c) \/ UpdateAnswerLost(c) \/ RequestFails(c)
      PROVE  ClientsOK'
  BY <1>3, UnansweredKeepsClients DEF PutAnswerLost, UpdateAnswerLost, RequestFails
<1>4. ASSUME NEW c \in Clients, PutRefused(c) \/ UpdateRefused(c) PROVE ClientsOK'
  BY <1>4, ReturnKeepsClients DEF PutRefused, UpdateRefused
<1>5. ASSUME NEW c \in Clients, Describe(c) PROVE ClientsOK'
  <2>1. CASE label[Stage(c)] = op[c].version
    BY <1>5, <2>1, StageMovedKeepsClients DEF Describe
  <2>2. CASE label[Stage(c)] # op[c].version
    <3>1. /\ pc[c] = "describe"
          /\ pc' = [pc EXCEPT ![c] = "update"]
          /\ op' = [op EXCEPT ![c] = [op[c] EXCEPT !.seen = label[Stage(c)]]]
          /\ returned' = returned
      BY <1>5, <2>2 DEF Describe
    <3>2. label[Stage(c)] \in Versions \union {None}
      BY DEF ServiceOK, Stage, Labels
    <3>3. op[c] \in Ops
      BY DEF ClientsOK
    <3>4. /\ [op[c] EXCEPT !.seen = label[Stage(c)]] \in Ops
          /\ [op[c] EXCEPT !.seen = label[Stage(c)]].kind = op[c].kind
      BY <3>2, <3>3 DEF Ops
    <3>5. QED
      BY <3>1, <3>4 DEF ClientsOK, Points
  <2>3. QED
    BY <2>1, <2>2
<1>6. ASSUME NEW c \in Clients, UpdateSucceeds(c) PROVE ClientsOK'
  BY <1>6, StageMovedKeepsClients DEF UpdateSucceeds
<1>7. ASSUME NEW c \in Clients, DiscardAnswered(c) \/ DiscardUnanswered(c)
      PROVE  ClientsOK'
  <2>1. op[c].kind \in Kinds /\ "error" \in Kinds \union {"error"}
    BY DEF ClientsOK, Ops
  <2>2. CASE UNCHANGED <<pc, op, returned>>
    BY <2>2 DEF ClientsOK
  <2>3. CASE Return(c, "error") \/ Return(c, op[c].kind)
    BY <2>1, <2>3, ReturnKeepsClients
  <2>4. QED
    BY <1>7, <2>2, <2>3 DEF DiscardAnswered, DiscardUnanswered
<1>8. ASSUME NEW c \in Clients, Crash(c) PROVE ClientsOK'
  BY <1>8, ReturnKeepsClients DEF Crash, Kinds
<1>9. CASE UNCHANGED vars
  BY <1>9 DEF vars, ClientsOK
<1>10. QED
  BY <1>0, <1>1, <1>2, <1>3, <1>4, <1>5, <1>6, <1>7, <1>8, <1>9 DEF Next, Progress

-------------------------------------------------------------------------------
(* What a step may do to the service: nothing, or what one client's request *)
(* is executed as.                                                          *)
Puts(c) == /\ pc[c] = "put"
           /\ CanPut(op[c].version, op[c].payload)
           /\ PutEffect(op[c].version, op[c].payload)

Moves(c) == /\ pc[c] = "update"
            /\ CanMove(Stage(c), op[c].seen, op[c].version)
            /\ label' = [label EXCEPT ![Stage(c)] = op[c].version]
            /\ content' = content

Discards(c) == pc[c] = "discard" /\ DiscardEffect(c) /\ content' = content

(* Every step of the service is a put, a move of a label or a discard. *)
LEMMA ServiceSteps ==
  ASSUME [Next]_vars
  PROVE  \/ UNCHANGED <<content, label>>
         \/ \E c \in Clients : Puts(c) \/ Moves(c) \/ Discards(c)
<1>1. ASSUME NEW c \in Clients, Progress(c)
      PROVE  UNCHANGED <<content, label>> \/ Puts(c) \/ Moves(c) \/ Discards(c)
  <2>1. CASE PutSucceeds(c) \/ PutAnswerLost(c)
    BY <2>1 DEF PutSucceeds, PutAnswerLost, Puts
  <2>2. CASE UpdateSucceeds(c) \/ UpdateAnswerLost(c)
    BY <2>2 DEF UpdateSucceeds, UpdateAnswerLost, Moves
  <2>3. CASE DiscardAnswered(c) \/ DiscardUnanswered(c)
    BY <2>3 DEF DiscardAnswered, DiscardUnanswered, Discards
  <2>4. CASE PutRefused(c) \/ Describe(c) \/ UpdateRefused(c) \/ RequestFails(c)
    BY <2>4 DEF PutRefused, Describe, UpdateRefused, RequestFails
  <2>5. QED
    BY <1>1, <2>1, <2>2, <2>3, <2>4 DEF Progress
<1>2. QED
  BY <1>1 DEF Next, SetVersion, PromoteVersion, DiscardVersion, Call, Crash, vars

(* A payload is never changed, and a put leaves its own. *)
LEMMA PayloadsStay ==
  ASSUME Inv, [Next]_vars
  PROVE  /\ \A v \in Versions : content[v] # None => content'[v] = content[v]
         /\ \A c \in Clients : Puts(c) => content'[op[c].version] = op[c].payload
<1>1. \A c \in Clients :
         Puts(c) => /\ \A v \in Versions : content[v] # None => content'[v] = content[v]
                    /\ content'[op[c].version] = op[c].payload
  <2> SUFFICES ASSUME NEW c \in Clients, Puts(c)
               PROVE  /\ \A v \in Versions : content[v] # None => content'[v] = content[v]
                      /\ content'[op[c].version] = op[c].payload
    OBVIOUS
  <2>1. op[c].version \in Versions
    BY DEF Puts, Inv, CallsHaveVersions
  <2>2. /\ content[op[c].version] \in {None, op[c].payload}
        /\ content' = [content EXCEPT ![op[c].version] = op[c].payload]
    BY DEF Puts, CanPut, PutEffect
  <2>3. QED
    BY <2>1, <2>2 DEF Inv, ServiceOK
<1>2. QED
  BY <1>1, ServiceSteps DEF Moves, Discards

(* The three steps keep labels on versions and versions on payloads. *)
LEMMA StepKeepsService ==
  ASSUME Inv, [Next]_vars PROVE ServiceOK'
<1>1. CASE UNCHANGED <<content, label>>
  BY <1>1 DEF Inv, ServiceOK
<1>2. ASSUME NEW c \in Clients, Puts(c) PROVE ServiceOK'
  <2>1. op[c].version \in Versions /\ op[c].payload \in Payloads
    BY <1>2 DEF Puts, Inv, CallsHaveVersions, ClientsOK
  <2>2. QED
    BY <1>2, <2>1 DEF Puts, PutEffect, Inv, ServiceOK
<1>3. ASSUME NEW c \in Clients, Moves(c) PROVE ServiceOK'
  <2>1. op[c].version \in Versions
    BY <1>3 DEF Moves, Inv, CallsHaveVersions
  <2>2. QED
    BY <1>3, <2>1 DEF Moves, Inv, ServiceOK
<1>4. ASSUME NEW c \in Clients, Discards(c) PROVE ServiceOK'
  BY <1>4 DEF Discards, DiscardEffect, Inv, ServiceOK
<1>5. QED
  BY <1>1, <1>2, <1>3, <1>4, ServiceSteps

(* What a step may do to a client: its call ends, a new one begins, or the  *)
(* same one goes on, from the put only after it.                            *)
GoesOn(c) == /\ pc[c] # "idle"
             /\ returned'[c] = returned[c]
             /\ op'[c].kind = op[c].kind
             /\ op'[c].version = op[c].version
             /\ op'[c].payload = op[c].payload
             /\ pc'[c] = pc[c] \/ pc[c] # "put" \/ (Puts(c) /\ pc'[c] = "describe")

Begins(c) == /\ pc[c] = "idle" /\ returned'[c] = "none"
             /\ op'[c].version \in Versions
             /\ op'[c].kind = "set" => op'[c].payload \in Payloads /\ pc'[c] = "put"

Unmoved(c) == pc'[c] = pc[c] /\ op'[c] = op[c] /\ returned'[c] = returned[c]

(* What the helpers do to the calling client, and to the others. *)
LEMMA ReturnEnds ==
  ASSUME ClientsOK, NEW c \in Clients, NEW how, Return(c, how)
  PROVE  pc'[c] = "idle" /\ returned'[c] = how /\ \A d \in Clients \ {c} : Unmoved(d)
BY DEF ClientsOK, Return, Unmoved

LEMMA CallBegins ==
  ASSUME ClientsOK, NEW c \in Clients, NEW kind, NEW v \in Versions, NEW p, NEW point,
         kind = "set" => p \in Payloads /\ point = "put",
         Call(c, kind, v, p, point)
  PROVE  Begins(c) /\ \A d \in Clients \ {c} : Unmoved(d)
<1>0. pc[c] = "idle"
  BY DEF Call
<1> DEFINE called == [NoOp EXCEPT !.kind = kind, !.version = v, !.payload = p]
<1>1. called.kind = kind /\ called.version = v /\ called.payload = p
  BY DEF NoOp
<1>2. op' = [op EXCEPT ![c] = called] /\ pc' = [pc EXCEPT ![c] = point]
      /\ returned' = [returned EXCEPT ![c] = "none"]
  BY DEF Call
<1> HIDE DEF called
<1>3. QED
  BY <1>0, <1>1, <1>2 DEF ClientsOK, Begins, Unmoved

LEMMA GotoGoesOn ==
  ASSUME ClientsOK, NEW c \in Clients, NEW point, Goto(c, point)
  PROVE  pc'[c] = point /\ returned' = returned /\ \A d \in Clients \ {c} : Unmoved(d)
BY DEF ClientsOK, Goto, Unmoved

(* Every step begins a call, goes on with it, ends it, or is not its. *)
LEMMA ClientSteps ==
  ASSUME Inv, [Next]_vars
  PROVE  \A d \in Clients : pc'[d] = "idle" \/ GoesOn(d) \/ Begins(d) \/ Unmoved(d)
<1> DEFINE Fine ==
      \A d \in Clients : pc'[d] = "idle" \/ GoesOn(d) \/ Begins(d) \/ Unmoved(d)
<1>0. ClientsOK
  BY DEF Inv
<1>1. ASSUME NEW c \in Clients, NEW v \in Versions, NEW p \in Payloads, SetVersion(c, v, p)
      PROVE  Fine
  BY <1>0, <1>1, CallBegins DEF SetVersion
<1>2. ASSUME NEW c \in Clients, NEW v \in Versions,
             PromoteVersion(c, v) \/ DiscardVersion(c, v)
      PROVE  Fine
  BY <1>0, <1>2, CallBegins DEF PromoteVersion, DiscardVersion
<1>3. ASSUME NEW c \in Clients, NEW how, Return(c, how) PROVE Fine
  BY <1>0, <1>3, ReturnEnds
<1>4. ASSUME NEW c \in Clients, NEW point, Goto(c, point),
             pc[c] \in {"describe", "update"} \/ (Puts(c) /\ point = "describe")
      PROVE  Fine
  BY <1>0, <1>4, GotoGoesOn DEF Goto, GoesOn, Puts
<1>5. CASE UNCHANGED <<pc, op, returned>>
  BY <1>5 DEF Unmoved
<1>6. ASSUME NEW c \in Clients, Unanswered(c) PROVE Fine
  BY <1>3, <1>5, <1>6 DEF Unanswered
<1>7. ASSUME NEW c \in Clients, StageMoved(c), pc[c] \in {"describe", "update"}
      PROVE  Fine
  BY <1>3, <1>4, <1>7 DEF StageMoved
<1>8. ASSUME NEW c \in Clients, Describe(c) PROVE Fine
  <2>1. CASE label[Stage(c)] = op[c].version
    BY <1>7, <1>8, <2>1 DEF Describe
  <2>2. CASE label[Stage(c)] # op[c].version
    <3>1. /\ pc[c] = "describe"
          /\ pc' = [pc EXCEPT ![c] = "update"]
          /\ op' = [op EXCEPT ![c] = [op[c] EXCEPT !.seen = label[Stage(c)]]]
          /\ returned' = returned
      BY <1>8, <2>2 DEF Describe
    <3>2. op[c] \in Ops
      BY <1>0 DEF ClientsOK
    <3>3. /\ [op[c] EXCEPT !.seen = label[Stage(c)]].kind = op[c].kind
          /\ [op[c] EXCEPT !.seen = label[Stage(c)]].version = op[c].version
          /\ [op[c] EXCEPT !.seen = label[Stage(c)]].payload = op[c].payload
      BY <3>2 DEF Ops
    <3>4. QED
      BY <1>0, <3>1, <3>3 DEF ClientsOK, GoesOn, Unmoved
  <2>3. QED
    BY <2>1, <2>2
<1>9. ASSUME NEW c \in Clients, Progress(c) PROVE Fine
  <2>1. CASE PutSucceeds(c)
    <3>1. Goto(c, "describe") /\ Puts(c)
      BY <2>1 DEF PutSucceeds, Puts
    <3>2. QED
      BY <3>1, <1>4
  <2>2. CASE PutAnswerLost(c) \/ UpdateAnswerLost(c) \/ RequestFails(c)
    BY <1>6, <2>2 DEF PutAnswerLost, UpdateAnswerLost, RequestFails
  <2>3. CASE PutRefused(c) \/ UpdateRefused(c) \/ DiscardAnswered(c)
    BY <1>3, <2>3 DEF PutRefused, UpdateRefused, DiscardAnswered
  <2>4. CASE UpdateSucceeds(c)
    BY <1>7, <2>4 DEF UpdateSucceeds
  <2>5. CASE DiscardUnanswered(c)
    BY <1>3, <1>5, <2>5 DEF DiscardUnanswered
  <2>6. QED
    BY <1>8, <1>9, <2>1, <2>2, <2>3, <2>4, <2>5 DEF Progress
<1>10. ASSUME NEW c \in Clients, Crash(c) PROVE Fine
  BY <1>3, <1>10 DEF Crash
<1>11. CASE UNCHANGED vars
  BY <1>5, <1>11 DEF vars
<1>12. QED
  BY <1>1, <1>2, <1>9, <1>10, <1>11 DEF Next

(* A call under way keeps its version, and its payload once put. *)
LEMMA StepKeepsCalls ==
  ASSUME Inv, [Next]_vars PROVE CallsHaveVersions'
<1> SUFFICES ASSUME NEW c \in Clients, pc'[c] # "idle"
             PROVE  /\ returned'[c] = "none"
                    /\ op'[c].version \in Versions
                    /\ op'[c].kind = "set" =>
                          /\ op'[c].payload \in Payloads
                          /\ pc'[c] \in {"describe", "update"}
                                => content'[op'[c].version] = op'[c].payload
  BY DEF CallsHaveVersions
<1>1. CASE Begins(c)
  BY <1>1 DEF Begins
<1>2. CASE GoesOn(c) \/ Unmoved(c)
  <2>1. pc[c] # "idle" /\ op[c].version \in Versions /\ returned'[c] = "none"
    BY <1>2 DEF GoesOn, Unmoved, Inv, CallsHaveVersions
  <2>2. /\ op'[c].version = op[c].version /\ op'[c].payload = op[c].payload
        /\ op'[c].kind = op[c].kind
    BY <1>2 DEF GoesOn, Unmoved
  <2>3. CASE Puts(c)
    BY <2>1, <2>2, <2>3, PayloadsStay DEF Inv, CallsHaveVersions
  <2>4. CASE op[c].kind = "set" /\ pc[c] \in {"describe", "update"}
    <3>1. /\ content[op[c].version] = op[c].payload
          /\ op[c].payload \in Payloads
      BY <2>1, <2>4 DEF Inv, CallsHaveVersions
    <3>2. content'[op[c].version] = op[c].payload
      BY <2>1, <3>1, PayloadsStay, NoneIsNothing
    <3>3. QED
      BY <2>1, <2>2, <3>1, <3>2
  <2>5. CASE op[c].kind = "set" /\ pc[c] \notin {"describe", "update"} /\ ~Puts(c)
    <3>1. pc[c] = "put"
      BY <2>1, <2>5 DEF Inv, ClientsOK, Points
    <3>2. pc'[c] = "put"
      BY <1>2, <2>5, <3>1 DEF GoesOn, Unmoved
    <3>3. QED
      BY <2>1, <2>2, <2>5, <3>2 DEF Inv, CallsHaveVersions
  <2>6. CASE op[c].kind # "set"
    BY <2>1, <2>2, <2>6
  <2>7. QED
    BY <2>3, <2>4, <2>5, <2>6
<1>3. QED
  BY <1>1, <1>2, ClientSteps

-------------------------------------------------------------------------------
(* The inductive invariant holds always. *)
LEMMA InvHolds == Spec => []Inv
<1>1. Init => Inv
  <2> SUFFICES ASSUME Init PROVE Inv
    OBVIOUS
  <2>1. ServiceOK
    BY DEF Init, ServiceOK
  <2>2. ClientsOK
    BY NoOpIsOp DEF Init, ClientsOK, Points, Kinds
  <2>3. CallsHaveVersions
    BY DEF Init, CallsHaveVersions
  <2>4. QED
    BY <2>1, <2>2, <2>3 DEF Inv
<1>2. Inv /\ [Next]_vars => Inv'
  BY StepKeepsService, StepKeepsClients, StepKeepsCalls DEF Inv
<1>3. QED
  BY <1>1, <1>2, PTL DEF Spec

FaultsInRange == faults \in 0 .. MaxFaults

(* A fault takes one of the bounded number. *)
LEMMA FaultsBounded == Spec => []FaultsInRange
<1>1. Init => FaultsInRange
  <2>1. 0 \in 0 .. MaxFaults
    BY SecretAssumption
  <2>2. QED
    BY <2>1 DEF Init, FaultsInRange
<1>2. FaultsInRange /\ [Next]_vars => FaultsInRange'
  <2>1. [Next]_vars => faults' = faults \/ Fault
    BY DEF Next, SetVersion, PromoteVersion, DiscardVersion, Call, Progress,
           PutSucceeds, PutAnswerLost, PutRefused, Describe, UpdateSucceeds,
           UpdateAnswerLost, UpdateRefused, DiscardAnswered, DiscardUnanswered,
           RequestFails, Crash, vars
  <2>2. faults \in 0 .. MaxFaults /\ Fault => faults' \in 0 .. MaxFaults
    BY SecretAssumption DEF Fault
  <2>3. QED
    BY <2>1, <2>2 DEF FaultsInRange
<1>3. QED
  BY <1>1, <1>2, PTL DEF Spec

(* The values of the service's and the clients' variables, and which calls  *)
(* may be at which request.                                                 *)
THEOREM StagesTyped == Spec => []TypeOK
<1>1. Inv /\ FaultsInRange => TypeOK
  BY TypeParts DEF Inv, FaultsInRange
<1>2. QED
  BY <1>1, InvHolds, FaultsBounded, PTL

-------------------------------------------------------------------------------
(* AWSCURRENT is moved to a version that has a payload. *)
LEMMA CurrentMoves ==
  ASSUME Inv, [Next]_vars
  PROVE  \/ label'["AWSCURRENT"] = label["AWSCURRENT"]
         \/ /\ content'[label'["AWSCURRENT"]] # None
            /\ \E c \in Clients : /\ pc[c] # "idle"
                                  /\ label'["AWSCURRENT"] = op[c].version
<1>1. ASSUME NEW c \in Clients, Puts(c)
      PROVE  \/ label'["AWSCURRENT"] = label["AWSCURRENT"]
             \/ /\ label'["AWSCURRENT"] = op[c].version
                /\ content'[op[c].version] = op[c].payload
                /\ op[c].payload \in Payloads
  <2>1. op[c].version \in Versions /\ op[c].payload \in Payloads
    BY <1>1 DEF Puts, Inv, CallsHaveVersions, ClientsOK
  <2>2. QED
    BY <1>1, <2>1, PayloadsStay DEF Puts, PutEffect, Inv, ServiceOK, Labels
<1>2. ASSUME NEW c \in Clients, Moves(c)
      PROVE  \/ label'["AWSCURRENT"] = label["AWSCURRENT"]
             \/ /\ label'["AWSCURRENT"] = op[c].version
                /\ content'[op[c].version] # None
  BY <1>2 DEF Moves, CanMove, Inv, ServiceOK, Labels
<1>3. ASSUME NEW c \in Clients, Discards(c)
      PROVE  label'["AWSCURRENT"] = label["AWSCURRENT"]
  BY <1>3 DEF Discards, DiscardEffect, Inv, ServiceOK, Labels
<1>4. \A c \in Clients : Puts(c) \/ Moves(c) => pc[c] # "idle"
  BY DEF Puts, Moves
<1>5. QED
  BY <1>1, <1>2, <1>3, <1>4, ServiceSteps, NoneIsNothing

LEMMA StepKeepsCurrent == ASSUME Inv, [Next]_vars, HasCurrent PROVE HasCurrent'
<1>1. label["AWSCURRENT"] \in Versions /\ content[label["AWSCURRENT"]] # None
  BY DEF HasCurrent, Inv, ServiceOK, Labels
<1>2. content'[label["AWSCURRENT"]] # None
  BY <1>1, PayloadsStay
<1>3. \A c \in Clients : pc[c] # "idle" => op[c].version # None
  BY NoneIsNothing DEF Inv, CallsHaveVersions
<1>4. QED
  BY <1>1, <1>2, <1>3, CurrentMoves, NoneIsNothing DEF HasCurrent

CurrentWritten == label["AWSCURRENT"] # None => HasCurrent

(* A version that is current can be read. *)
LEMMA CurrentIsWritten == Spec => []CurrentWritten
<1>1. Init => CurrentWritten
  BY NoneIsNothing DEF Init, CurrentWritten, HasCurrent, Labels
<1>2. Inv /\ CurrentWritten /\ [Next]_vars => CurrentWritten'
  BY StepKeepsCurrent, CurrentMoves DEF CurrentWritten, HasCurrent
<1>3. QED
  BY <1>1, <1>2, InvHolds, PTL DEF Spec

(* Once GetCurrent has a value, it keeps having one. *)
THEOREM CurrentIsKept == Spec => CurrentKept
<1>1. Inv /\ [Next]_vars => (HasCurrent => HasCurrent')
  BY StepKeepsCurrent
<1>2. QED
  BY <1>1, InvHolds, PTL DEF Spec, CurrentKept

-------------------------------------------------------------------------------
(* The step of a client whose label was moved: as its Describe sees, or by  *)
(* its own update.                                                          *)
Succeeds(c) == /\ pc[c] \in {"describe", "update"}
               /\ pc'[c] = "discard" \/ returned'[c] \in {"set", "promote"}

(* The steps that succeed: a Describe that sees the label, or an update. *)
LEMMA SuccessSteps ==
  ASSUME Inv, [Next]_vars, NEW c \in Clients, Succeeds(c)
  PROVE  \/ Describe(c) /\ label[Stage(c)] = op[c].version
         \/ UpdateSucceeds(c)
<1>0. ClientsOK /\ pc[c] # "idle" /\ returned[c] = "none"
  BY DEF Inv, CallsHaveVersions, Succeeds
<1>1. ~Unmoved(c)
  BY <1>0 DEF Unmoved, Succeeds
<1>2. ~UNCHANGED <<pc, op, returned>>
  BY <1>1 DEF Unmoved
<1>3. \A d \in Clients : \A how : Return(d, how) => d = c /\ how \in {"set", "promote"}
  BY <1>0, <1>1, ReturnEnds DEF Succeeds
<1>4. \A d \in Clients : \A point : Goto(d, point) => d = c
  BY <1>0, <1>1, GotoGoesOn
<1>5. \A d \in Clients : ~Unanswered(d)
  BY <1>2, <1>3 DEF Unanswered
<1>6. \A d \in Clients : \A kind, v, p, point : ~Call(d, kind, v, p, point)
  <2> SUFFICES ASSUME NEW d \in Clients, NEW kind, NEW v, NEW p, NEW point,
                      Call(d, kind, v, p, point)
               PROVE  FALSE
    OBVIOUS
  <2>1. d # c
    BY <1>0 DEF Call
  <2>2. Unmoved(c)
    BY <1>0, <2>1 DEF ClientsOK, Call, Unmoved
  <2>3. QED
    BY <1>1, <2>2
<1>7. ASSUME NEW d \in Clients, Describe(d)
      PROVE  d = c /\ label[Stage(c)] = op[c].version
  <2>1. CASE label[Stage(d)] = op[d].version
    BY <1>3, <1>4, <1>7, <2>1 DEF Describe, StageMoved
  <2>2. CASE label[Stage(d)] # op[d].version
    <3>1. /\ pc' = [pc EXCEPT ![d] = "update"] /\ returned' = returned
          /\ \A e \in Clients \ {d} : op'[e] = op[e]
      BY <1>0, <1>7, <2>2 DEF Describe, ClientsOK
    <3>2. QED
      BY <1>0, <1>1, <3>1 DEF ClientsOK, Unmoved, Succeeds
  <2>3. QED
    BY <2>1, <2>2
<1>8. ASSUME NEW d \in Clients, Progress(d)
      PROVE  \/ Describe(c) /\ label[Stage(c)] = op[c].version
             \/ UpdateSucceeds(c)
  <2>1. CASE PutSucceeds(d)
    BY <1>4, <2>1 DEF PutSucceeds, Succeeds
  <2>2. CASE PutAnswerLost(d) \/ UpdateAnswerLost(d) \/ RequestFails(d)
    BY <1>5, <2>2 DEF PutAnswerLost, UpdateAnswerLost, RequestFails
  <2>3. CASE PutRefused(d) \/ UpdateRefused(d)
    BY <1>3, <2>3 DEF PutRefused, UpdateRefused
  <2>4. CASE Describe(d)
    BY <1>7, <2>4
  <2>5. CASE UpdateSucceeds(d)
    <3>1. d = c
      BY <1>3, <1>4, <2>5 DEF UpdateSucceeds, StageMoved
    <3>2. QED
      BY <2>5, <3>1
  <2>6. CASE DiscardAnswered(d) \/ DiscardUnanswered(d)
    BY <1>2, <1>3, <2>6 DEF DiscardAnswered, DiscardUnanswered, Succeeds
  <2>7. QED
    BY <1>8, <2>1, <2>2, <2>3, <2>4, <2>5, <2>6 DEF Progress
<1>9. \A d \in Clients : ~Crash(d)
  BY <1>3 DEF Crash
<1>10. QED
  BY <1>2, <1>6, <1>8, <1>9 DEF Next, SetVersion, PromoteVersion, DiscardVersion, vars

(* SetVersion returns its version and PromoteVersion goes on only with the  *)
(* label, and for SetVersion its payload, where they belong.                *)
THEOREM SuccessIsTrue == Spec => SuccessMeansMoved
<1>1. Inv /\ [Next]_vars =>
        \A c \in Clients :
          Succeeds(c) => /\ label'[Stage(c)] = op[c].version
                         /\ op[c].kind = "set" => content'[op[c].version] = op[c].payload
  <2> SUFFICES ASSUME Inv, [Next]_vars, NEW c \in Clients, Succeeds(c)
               PROVE  /\ label'[Stage(c)] = op[c].version
                      /\ op[c].kind = "set" => content'[op[c].version] = op[c].payload
    OBVIOUS
  <2>1. label'[Stage(c)] = op[c].version /\ content' = content
    BY SuccessSteps DEF Describe, UpdateSucceeds, Inv, ServiceOK, Labels, Stage
  <2>2. op[c].kind = "set" => content[op[c].version] = op[c].payload
    BY DEF Succeeds, Inv, CallsHaveVersions
  <2>3. QED
    BY <2>1, <2>2
<1>2. QED
  BY <1>1, InvHolds, PTL DEF Spec, SuccessMeansMoved, Succeeds

-------------------------------------------------------------------------------
(* A stale update cannot be executed: neither with the version read, nor,   *)
(* when no version had the label, as a repetition.                          *)
LEMMA StaleCannotMove ==
  ASSUME NEW c \in Clients, Stale(c)
  PROVE  ~CanMove(Stage(c), op[c].seen, op[c].version)
BY DEF Stale, CanMove

(* Only its refusal, its failure or a crash takes the call from its update. *)
LEMMA StaleSteps ==
  ASSUME Inv, [Next]_vars, NEW c \in Clients, Stale(c), pc'[c] # "update"
  PROVE  label' = label /\ (Return(c, "error") \/ Return(c, "none"))
<1>0. ClientsOK /\ pc[c] = "update" /\ ~Unmoved(c)
  BY DEF Inv, Stale, Unmoved
<1>1. ~UNCHANGED <<pc, op, returned>>
  BY <1>0 DEF Unmoved
<1>2. \A d \in Clients : \A how : Return(d, how) => d = c
  BY <1>0, ReturnEnds
<1>3. \A d \in Clients : \A point : Goto(d, point) => d = c
  BY <1>0, GotoGoesOn
<1>4. \A d \in Clients : \A kind, v, p, point : ~Call(d, kind, v, p, point)
  <2> SUFFICES ASSUME NEW d \in Clients, NEW kind, NEW v, NEW p, NEW point,
                      Call(d, kind, v, p, point)
               PROVE  FALSE
    OBVIOUS
  <2>1. d # c
    BY <1>0 DEF Call
  <2>2. pc'[c] = pc[c]
    BY <1>0, <2>1 DEF ClientsOK, Call
  <2>3. QED
    BY <1>0, <2>2
<1>5. \A d \in Clients : StageMoved(d) \/ Unanswered(d) => d = c
  BY <1>1, <1>2, <1>3 DEF StageMoved, Unanswered
<1>6. ASSUME NEW d \in Clients, Progress(d) \/ Crash(d)
      PROVE  d = c
  <2>1. CASE Describe(d)
    <3>1. d # c
      BY <1>0, <2>1 DEF Describe
    <3>2. ~StageMoved(d)
      BY <1>5, <3>1
    <3>3. pc' = [pc EXCEPT ![d] = "update"]
      BY <2>1, <3>2 DEF Describe
    <3>4. pc'[c] = pc[c]
      BY <1>0, <3>1, <3>3 DEF ClientsOK
    <3>5. QED
      BY <1>0, <3>4
  <2>2. CASE \/ PutSucceeds(d) \/ PutAnswerLost(d) \/ PutRefused(d) \/ UpdateSucceeds(d)
             \/ UpdateAnswerLost(d) \/ UpdateRefused(d) \/ RequestFails(d) \/ Crash(d)
    BY <1>2, <1>3, <1>5, <2>2
    DEF PutSucceeds, PutAnswerLost, PutRefused, UpdateSucceeds, UpdateAnswerLost,
        UpdateRefused, RequestFails, Crash
  <2>3. CASE DiscardAnswered(d) \/ DiscardUnanswered(d)
    BY <1>1, <1>2, <2>3 DEF DiscardAnswered, DiscardUnanswered
  <2>4. QED
    BY <1>6, <2>1, <2>2, <2>3 DEF Progress
<1>7. Progress(c) \/ Crash(c)
  BY <1>1, <1>4, <1>6 DEF Next, SetVersion, PromoteVersion, DiscardVersion, vars
<1>8. ~UpdateSucceeds(c) /\ ~UpdateAnswerLost(c)
  BY StaleCannotMove DEF UpdateSucceeds, UpdateAnswerLost
<1>9. UpdateRefused(c) \/ RequestFails(c) \/ Crash(c)
  BY <1>0, <1>7, <1>8
  DEF Progress, PutSucceeds, PutAnswerLost, PutRefused, Describe, DiscardAnswered,
      DiscardUnanswered
<1>10. QED
  BY <1>1, <1>9 DEF UpdateRefused, RequestFails, Unanswered, Crash

(* A move that another client made in between is not undone. *)
THEOREM NoMoveIsUndone == Spec => StaleCallsFail
<1>1. Inv /\ [Next]_vars =>
        \A c \in Clients :
          Stale(c) /\ pc'[c] # "update"
          => label' = label /\ returned'[c] \in {"none", "error"} /\ pc'[c] = "idle"
  <2> SUFFICES ASSUME Inv, [Next]_vars, NEW c \in Clients, Stale(c), pc'[c] # "update"
               PROVE  label' = label /\ returned'[c] \in {"none", "error"} /\ pc'[c] = "idle"
    OBVIOUS
  <2>1. ClientsOK
    BY DEF Inv
  <2>2. label' = label /\ (Return(c, "error") \/ Return(c, "none"))
    BY StaleSteps
  <2>3. QED
    BY <2>1, <2>2, ReturnEnds
<1>2. QED
  BY <1>1, InvHolds, PTL DEF Spec, StaleCallsFail

-------------------------------------------------------------------------------
PendingStep ==
    label["AWSPENDING"] # None /\ label'["AWSPENDING"] = None =>
       \E c \in Clients : /\ pc[c] = "discard"
                          /\ op[c].version = label["AWSPENDING"]

(* Only a discard takes AWSPENDING away, from its own version.              *)
THEOREM PendingIsKept == Spec => PendingOfOthersKept
<1>1. Inv /\ [Next]_vars => PendingStep
  <2> SUFFICES ASSUME Inv, [Next]_vars,
                      label["AWSPENDING"] # None, label'["AWSPENDING"] = None
               PROVE  \E c \in Clients : /\ pc[c] = "discard"
                                         /\ op[c].version = label["AWSPENDING"]
    BY DEF PendingStep
  <2>1. \A c \in Clients : ~Puts(c)
    BY DEF Puts, PutEffect, Inv, ServiceOK, Labels
  <2>2. \A c \in Clients : ~Moves(c)
    <3>1. \A c \in Clients : Moves(c) => op[c].version \in Versions
      BY DEF Moves, Inv, CallsHaveVersions
    <3>2. QED
      BY <3>1, NoneIsNothing DEF Moves, Inv, ServiceOK, Labels
  <2>3. QED
    BY <2>1, <2>2, ServiceSteps DEF Discards, DiscardEffect
<1>2. [][PendingStep]_vars => PendingOfOthersKept
  BY DEF PendingStep, PendingOfOthersKept
<1>3. QED
  BY <1>1, <1>2, InvHolds, PTL DEF Spec

-------------------------------------------------------------------------------
PromotionStep ==
    \A c \in Clients :
       faults' = 0 /\ pc[c] # "idle" /\ returned'[c] = "promote"
       => label'["AWSPENDING"] # op[c].version

(* PromoteVersion returns its success by the request of DiscardVersion,     *)
(* whatever that request's answer was.                                      *)
LEMMA PromotionSteps ==
  ASSUME Inv, [Next]_vars, NEW c \in Clients, pc[c] # "idle", returned'[c] = "promote"
  PROVE  DiscardAnswered(c) \/ DiscardUnanswered(c)
<1>0. ClientsOK /\ returned[c] = "none" /\ ~Unmoved(c)
  BY DEF Inv, CallsHaveVersions, Unmoved
<1>1. ~UNCHANGED <<pc, op, returned>>
  BY <1>0 DEF Unmoved
<1>2. \A d \in Clients : \A how : Return(d, how) => d = c /\ how = "promote"
  BY <1>0, ReturnEnds
<1>3. \A d \in Clients : \A point : ~Goto(d, point)
  BY <1>0, GotoGoesOn
<1>4. \A d \in Clients : ~Unanswered(d)
  BY <1>1, <1>2 DEF Unanswered
<1>5. \A d \in Clients : ~StageMoved(d)
  BY <1>2, <1>3 DEF StageMoved
<1>6. \A d \in Clients : \A kind, v, p, point : ~Call(d, kind, v, p, point)
  BY <1>0 DEF ClientsOK, Call
<1>7. \A d \in Clients : ~Describe(d)
  BY <1>0, <1>5 DEF Describe
<1>8. ASSUME NEW d \in Clients, Progress(d)
      PROVE  DiscardAnswered(c) \/ DiscardUnanswered(c)
  <2>1. ~PutSucceeds(d) /\ ~UpdateSucceeds(d)
    BY <1>3, <1>5 DEF PutSucceeds, UpdateSucceeds
  <2>2. ~PutAnswerLost(d) /\ ~UpdateAnswerLost(d) /\ ~RequestFails(d)
    BY <1>4 DEF PutAnswerLost, UpdateAnswerLost, RequestFails
  <2>3. ~PutRefused(d) /\ ~UpdateRefused(d)
    BY <1>2 DEF PutRefused, UpdateRefused
  <2>4. DiscardAnswered(d) \/ DiscardUnanswered(d) => d = c
    BY <1>1, <1>2 DEF DiscardAnswered, DiscardUnanswered
  <2>5. QED
    BY <1>7, <1>8, <2>1, <2>2, <2>3, <2>4 DEF Progress
<1>9. \A d \in Clients : ~Crash(d)
  BY <1>2 DEF Crash
<1>10. QED
  BY <1>1, <1>6, <1>8, <1>9 DEF Next, SetVersion, PromoteVersion, DiscardVersion, vars

(* Without faults a version that PromoteVersion returns for is not pending. *)
THEOREM PromotionsClear == Spec => PromotionClearsPending
<1>1. Inv /\ FaultsInRange /\ [Next]_vars => PromotionStep
  <2> SUFFICES ASSUME Inv, FaultsInRange, [Next]_vars, NEW c \in Clients,
                      faults' = 0, pc[c] # "idle", returned'[c] = "promote"
               PROVE  label'["AWSPENDING"] # op[c].version
    BY DEF PromotionStep
  <2>1. ~Fault
    BY SecretAssumption DEF Fault, FaultsInRange
  <2>2. DiscardEffect(c)
    BY <2>1, PromotionSteps DEF DiscardAnswered, DiscardUnanswered
  <2>3. op[c].version \in Versions
    BY DEF Inv, CallsHaveVersions
  <2>4. QED
    BY <2>2, <2>3, NoneIsNothing DEF DiscardEffect, Inv, ServiceOK, Labels
<1>2. [][PromotionStep]_vars => PromotionClearsPending
  BY DEF PromotionStep, PromotionClearsPending
<1>3. QED
  BY <1>1, <1>2, InvHolds, FaultsBounded, PTL DEF Spec
===============================================================================
