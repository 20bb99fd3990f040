------------------------------- MODULE S3Objects -------------------------------
(***************************************************************************)
(* What the lock is for: clients that hold it read the object it protects   *)
(* with GetObject, add their part and write it back with PutObject.  The    *)
(* content is the set of the clients whose update it contains.              *)
(*                                                                          *)
(* PutObject carries no condition: only the lock keeps one client's write   *)
(* from undoing another's.  S3 and the transfer manager are external; a put *)
(* that S3 executes does so before the caller learns of an error.           *)
(***************************************************************************)
EXTENDS S3Lock

CONSTANTS Types,            \* content types
          DefaultType,      \* the content type S3 gives an object put without
          MaxObjectFaults   \* bound on failed requests for the object

ASSUME ObjectsAssumption == /\ DefaultType \in Types
                            /\ "" \notin Types
                            /\ MaxObjectFaults \in Nat

VARIABLES stored,    \* whether the object exists
          content,   \* the updates in it
          type,      \* its content type
          work,      \* how far each holder is: "start", "loaded", "over"
          copy,      \* the content that each holder read
          info,      \* ContentType of each holder's BucketObject, "" for none
          acked,     \* the clients whose PutObject has returned nil
          lost       \* failed requests for the object so far

object == <<stored, content, type>>
holder == <<work, copy, info>>
objectVars == <<object, holder, acked, lost>>

ObjectsTypeOK == /\ stored \in BOOLEAN
                 /\ content \in SUBSET Clients
                 /\ type \in Types \union {""}
                 /\ stored <=> type # ""
                 /\ work \in [Clients -> {"start", "loaded", "over"}]
                 /\ copy \in [Clients -> SUBSET Clients]
                 /\ info \in [Clients -> Types \union {""}]
                 /\ acked \in SUBSET Clients
                 /\ lost \in 0 .. MaxObjectFaults

(* There may be an object already. *)
ObjectsInit == /\ Init
               /\ stored \in BOOLEAN
               /\ content = {}
               /\ IF stored THEN type \in Types ELSE type = ""
               /\ work = [c \in Clients |-> "start"]
               /\ copy = [c \in Clients |-> {}]
               /\ info = [c \in Clients |-> ""]
               /\ acked = {}
               /\ lost = 0

-------------------------------------------------------------------------------
ObjectFault == lost < MaxObjectFaults /\ lost' = lost + 1

(* Mutant: the ContentType of the answer is not handed over. *)
FillWithoutType(c) == info' = [info EXCEPT ![c] = ""]

(* fillObjectInfoUnsafe: S3 always answers with a content type. *)
FillObjectInfo(c) == info' = [info EXCEPT ![c] = type]

(* GetObject answers, and the caller reads the body. *)
GetObject(c) == /\ pc[c] = "held" /\ work[c] = "start" /\ stored
                /\ copy' = [copy EXCEPT ![c] = content]
                /\ FillObjectInfo(c)
                /\ work' = [work EXCEPT ![c] = "loaded"]
                /\ UNCHANGED <<vars, object, acked, lost>>

(* NoSuchKey: the caller makes a new object, of no type. *)
GetFindsNothing(c) == /\ pc[c] = "held" /\ work[c] = "start" /\ ~stored
                      /\ work' = [work EXCEPT ![c] = "loaded"]
                      /\ copy' = [copy EXCEPT ![c] = {}]
                      /\ info' = [info EXCEPT ![c] = ""]
                      /\ UNCHANGED <<vars, object, acked, lost>>

Over(c) == work' = [work EXCEPT ![c] = "over"] /\ UNCHANGED <<copy, info>>

(* The error goes to the caller, who stops. *)
GetFails(c) == /\ pc[c] = "held" /\ work[c] = "start"
               /\ ObjectFault
               /\ Over(c)
               /\ UNCHANGED <<vars, object, acked>>

(* Mutant: the ContentType is sent although there is none. *)
UploadAnyType(c) == /\ stored' = TRUE
                    /\ content' = copy[c] \union {c}
                    /\ type' = info[c]

(* UploadObject replaces content and type. *)
Upload(c) == /\ stored' = TRUE
             /\ content' = copy[c] \union {c}
             /\ type' = IF info[c] = "" THEN DefaultType ELSE info[c]

PutObject(c) == /\ pc[c] = "held" /\ work[c] = "loaded"
                /\ Upload(c)
                /\ acked' = acked \union {c}
                /\ Over(c)
                /\ UNCHANGED <<vars, lost>>

(* The answer is lost: the transfer manager repeats the request, or the     *)
(* caller gets an error.                                                    *)
PutAnswerIsLost(c) == /\ pc[c] = "held" /\ work[c] = "loaded"
                      /\ Upload(c)
                      /\ ObjectFault
                      /\ UNCHANGED holder \/ Over(c)
                      /\ UNCHANGED <<vars, acked>>

PutIsNotExecuted(c) == /\ pc[c] = "held" /\ work[c] = "loaded"
                       /\ ObjectFault
                       /\ UNCHANGED holder \/ Over(c)
                       /\ UNCHANGED <<vars, object, acked>>

ObjectStep(c) == \/ GetObject(c) \/ GetFindsNothing(c) \/ GetFails(c)
                 \/ PutObject(c) \/ PutAnswerIsLost(c) \/ PutIsNotExecuted(c)

(* A step of the lock; a client that has no lock has no work. *)
LockStep == /\ Next
            /\ work' = [c \in Clients |-> IF pc'[c] = "held" THEN work[c] ELSE "start"]
            /\ UNCHANGED <<object, copy, info, acked, lost>>

ObjectsNext == LockStep \/ \E c \in Clients : ObjectStep(c)

ObjectsSpec == ObjectsInit /\ [][ObjectsNext]_<<vars, objectVars>>

-------------------------------------------------------------------------------
(* Until a release is executed twice, no update whose PutObject returned    *)
(* nil is undone by another client's write, whatever fails or crashes       *)
(* between the reads and the writes, with the lock and the object alike.    *)
NoLostUpdate == ~repeated => acked \subseteq content

(* Until then a client that changes the content leaves the content type as  *)
(* it is, although it goes through ObjectInfo from the answer to GetObject  *)
(* into the request of PutObject.                                           *)
TypeKept == [][stored /\ ~repeated => type' = type]_<<vars, objectVars>>
===============================================================================
