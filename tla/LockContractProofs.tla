-------------------------- MODULE LockContractProofs --------------------------
(* What the abstract lock is worth: it has one user at a time. *)
EXTENDS LockContract, TLAPS

HoldersAreClients == ~breached => holders \subseteq Clients

(* The abstract lock gives mutual exclusion as long as its condition is     *)
(* kept: whoever uses it is the client it is given to.                      *)
THEOREM ContractExclusive ==
    ASSUME None \notin Clients
    PROVE  Spec => []Exclusive
<1> DEFINE Inv == HoldersAreClients /\ Exclusive
<1>1. Init => Inv
  BY DEF Init, HoldersAreClients, Exclusive
<1>2. Inv /\ [Next]_vars => Inv'
  <2> SUFFICES ASSUME Inv, [Next]_vars PROVE Inv'
    OBVIOUS
  <2> USE DEF HoldersAreClients, Exclusive
  <2>1. ASSUME NEW c \in Clients, Grant(c), UNCHANGED breached PROVE Inv'
    BY <2>1 DEF Grant
  <2>2. ASSUME NEW c \in Clients, GrantUnheard(c), UNCHANGED breached PROVE Inv'
    BY <2>2 DEF GrantUnheard
  <2>3. ASSUME NEW c \in Clients, Leave(c), UNCHANGED breached PROVE Inv'
    BY <2>3 DEF Leave
  <2>4. ASSUME NEW c \in Clients, Withdraw(c), UNCHANGED breached PROVE Inv'
    BY <2>4 DEF Withdraw
  <2>5. CASE Breached
    BY <2>5 DEF Breached
  <2>6. CASE UNCHANGED vars
    BY <2>6 DEF vars
  <2> QED
    BY <2>1, <2>2, <2>3, <2>4, <2>5, <2>6 DEF Next
<1> QED
  BY <1>1, <1>2, PTL DEF Spec
===============================================================================
