----------------------------- MODULE LockContract -----------------------------
(***************************************************************************)
(* What BucketAdapter promises about one distributed lock                   *)
(* (pkg/storage/contracts/contracts.go): the lock is given to one client at *)
(* a time, and only the client it was given to gives it back.  A client may *)
(* never learn that it was given the lock (its answer was lost), and may    *)
(* stop using a lock without giving it back (it crashed, or its release     *)
(* failed).                                                                 *)
(*                                                                          *)
(* The contract has a condition, "Only the lock owner should delete": once  *)
(* it is breached nothing is promised.                                      *)
(***************************************************************************)
CONSTANTS Clients, None

VARIABLES owner,    \* the client the lock is given to, or None
          holders,  \* the clients told that they have it and still using it
          breached  \* whether a lock was deleted by who may not be its owner

vars == <<owner, holders, breached>>

Init == owner = None /\ holders = {} /\ breached = FALSE

(* GetLock returns nil to c. *)
Grant(c) == /\ owner = None
            /\ owner' = c
            /\ holders' = holders \union {c}

(* c is given the lock and never told. *)
GrantUnheard(c) == /\ owner = None
                   /\ owner' = c
                   /\ UNCHANGED holders

(* c stops using the lock: it calls ReleaseLock, or it crashes. *)
Leave(c) == /\ c \in holders
            /\ holders' = holders \ {c}
            /\ UNCHANGED owner

(* The lock is taken back from c, which no longer uses it. *)
Withdraw(c) == /\ owner = c
               /\ c \notin holders
               /\ owner' = None
               /\ UNCHANGED holders

(* The condition is broken, now or before. *)
Breached == breached' = TRUE

Next == \/ /\ \E c \in Clients : Grant(c) \/ GrantUnheard(c) \/ Leave(c) \/ Withdraw(c)
           /\ UNCHANGED breached
        \/ Breached

Spec == Init /\ [][Next]_vars

-------------------------------------------------------------------------------
(* Under the contract's condition at most one client uses the lock, and it  *)
(* is the one the lock is given to: the mutual exclusion that GetLock's     *)
(* callers rely on.                                                         *)
Exclusive == ~breached => \A c \in holders : owner = c
===============================================================================
