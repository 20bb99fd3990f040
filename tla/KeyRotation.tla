------------------------------ MODULE KeyRotation ------------------------------
(***************************************************************************)
(* Rotation of the URL signing key, the workflow that the CDN, secret and   *)
(* crypto packages exist for: each client generates a key pair, registers   *)
(* it with CreatePublicKey, puts it into the key group with EnsureKeyGroup, *)
(* writes key id and private key with SetVersion and promotes that version. *)
(* A signer loads the current version now and then, and signs URLs with it. *)
(*                                                                          *)
(* The order is the callers'; every request is that of KeyGroup and of      *)
(* SecretRotation.  A client that fails or restarts repeats the rotation    *)
(* with the same key and the same token.                                    *)
(***************************************************************************)
EXTENDS SecretRotation, RsaKeys, Sequences, FiniteSets

CONSTANTS Keys, MaxKeys,   \* of the key group
          Key,             \* the key id that each client rotates to
          OldKeys          \* the keys in the group at the start, oldest first

VARIABLES created, exists, grouped, items, fresh, groupPc, groupOp,
          ensured,          \* how each client's last EnsureKeyGroup ended
          dropped, verdicts, groupFaults,
          loaded            \* the secret that the signer has, or None

Group == INSTANCE KeyGroup WITH pc <- groupPc, op <- groupOp, returned <- ensured,
                                faults <- groupFaults

groupVars == <<created, exists, grouped, items, fresh, groupPc, groupOp,
               ensured, dropped, verdicts, groupFaults>>
rotationVars == <<vars, groupVars, loaded>>

(* The secret's payload type. *)
Secret(key, pem) == [keyID |-> key, pem |-> pem]

(* Each rotation is to a new key, whose id and private key it writes; old   *)
(* secrets may have a private key in PKCS8.                                 *)
ASSUME KeyRotationAssumption ==
    /\ IsFiniteSet(Keys) /\ NoKey \notin Keys /\ MaxKeys \in Nat \ {0}
    /\ Key \in [Clients -> Keys]
    /\ \A c, d \in Clients : Key[c] = Key[d] => c = d
    /\ OldKeys \in Seq(Keys) /\ OldKeys # <<>>
    /\ \A i, j \in DOMAIN OldKeys : OldKeys[i] = OldKeys[j] => i = j
    /\ \A c \in Clients, i \in DOMAIN OldKeys : Key[c] # OldKeys[i]
    /\ \A c \in Clients : Payload[c] = Secret(Key[c], Generate(Key[c]).private)
    /\ \A p \in Payloads : p.pem \in {Generate(p.keyID).private, PKCS8(p.keyID)}

(* A new system, or one whose signing key is the newest of the old keys.    *)
KeyRotationInit ==
    /\ RotationInit
    /\ loaded = None
    /\ Group!Init \/
       /\ created = [k \in Keys |-> IF \E i \in DOMAIN OldKeys : OldKeys[i] = k
                                    THEN CHOOSE i \in DOMAIN OldKeys : OldKeys[i] = k
                                    ELSE 0]
       /\ exists = {OldKeys[i] : i \in DOMAIN OldKeys}
       /\ grouped = TRUE
       /\ items = exists
       /\ fresh = {}
       /\ groupPc = [c \in Clients |-> "idle"]
       /\ groupOp = [c \in Clients |-> Group!NoOp]
       /\ ensured = [c \in Clients |-> "none"]
       /\ dropped = {}
       /\ verdicts = [c \in Clients |-> {}]
       /\ groupFaults = 0
    /\ grouped <=> label["AWSCURRENT"] # None
    /\ \A v \in Versions : content[v] # None => content[v].keyID = OldKeys[Len(OldKeys)]

-------------------------------------------------------------------------------
(* Generate and CreatePublicKey. *)
CreateKey(c) == /\ created[Key[c]] = 0
                /\ Group!CreatePublicKey(c, Key[c])
                /\ Group!Watch /\ UNCHANGED <<vars, loaded>>

StartEnsure(c) == /\ ensured[c] \in {"none", "error"}
                  /\ Group!EnsureKeyGroup(c, Key[c])
                  /\ Group!Watch /\ UNCHANGED <<vars, loaded>>

(* A request of EnsureKeyGroup. *)
EnsureStep(c) ==
    /\ \/ Group!List(c)
       \/ Group!CreateSucceeds(c) \/ Group!CreateAnswerLost(c) \/ Group!CreateRefused(c)
       \/ Group!Get(c)
       \/ Group!FetchSucceeds(c) \/ Group!FetchMisses(c) \/ Group!FetchFails(c)
       \/ Group!UpdateSucceeds(c) \/ Group!UpdateAnswerLost(c) \/ Group!UpdateRefused(c)
       \/ \E k \in Keys : Group!DeleteAnswered(c, k) \/ Group!DeleteUnanswered(c, k)
       \/ Group!Done(c) \/ Group!RequestFails(c)
    /\ Group!Watch /\ UNCHANGED <<vars, loaded>>

(* The key is in the group before the secret has it. *)
StartWrite(c) == /\ ensured[c] = "ok"
                 /\ StartSet(c)
                 /\ UNCHANGED <<groupVars, loaded>>

Promote(c) == StartPromote(c) /\ UNCHANGED <<groupVars, loaded>>

SecretStep(c) == Progress(c) /\ UNCHANGED <<groupVars, loaded>>

(* The process dies and starts over. *)
Restart(c) == /\ \/ Crash(c)
                 \/ pc[c] = "idle" /\ returned[c] = "none" /\ UNCHANGED vars
              /\ \/ Group!Crash(c) /\ Group!Watch
                 \/ groupPc[c] = "idle" /\ ensured[c] = "none" /\ UNCHANGED groupVars
              /\ UNCHANGED loaded

(* GetVersion; ResourceNotFoundException gives the zero value. *)
GetVersion(version) == IF version = None THEN Secret(NoKey, NoPem) ELSE content[version]

GetCurrent == GetVersion(label["AWSCURRENT"])

(* The signer takes the current secret if its key can be parsed. *)
LoadSigner == /\ ParseCloudFrontKey(GetCurrent.pem) # NoKey
              /\ loaded' = GetCurrent
              /\ UNCHANGED <<vars, groupVars>>

(* The faults of both services together are bounded by MaxFaults. *)
KeyRotationNext ==
    /\ \/ \E c \in Clients : \/ CreateKey(c) \/ StartEnsure(c) \/ EnsureStep(c)
                             \/ StartWrite(c) \/ Promote(c) \/ SecretStep(c)
                             \/ Restart(c)
       \/ LoadSigner
    /\ faults' + groupFaults' <= MaxFaults

(* Requests are answered, and a client goes on with its rotation. *)
KeyRotationSpec ==
    /\ KeyRotationInit /\ [][KeyRotationNext]_rotationVars
    /\ \A c \in Clients : /\ WF_rotationVars(CreateKey(c))
                          /\ WF_rotationVars(StartEnsure(c))
                          /\ WF_rotationVars(EnsureStep(c))
                          /\ WF_rotationVars(StartWrite(c))
                          /\ WF_rotationVars(Promote(c))
                          /\ WF_rotationVars(SecretStep(c))

-------------------------------------------------------------------------------
(* CloudFront looks the Key-Pair-Id up in the group and verifies the        *)
(* signature, RSA-SHA1, with the public key it has.                         *)
Accepted(keyID, policy, signature) ==
    /\ keyID \in items
    /\ Verify(ParsePublicKey(Generate(keyID).public), "SHA1", policy, signature)

(* Whatever rotations are under way, half done or repeated, the URLs of a   *)
(* signer are accepted, though it loaded its secret two rotations ago: by   *)
(* the CloudFrontSigner, or by an RSASigner asked for SHA1.                 *)
SignersAccepted ==
    loaded # None =>
        \A key \in {ParseCloudFrontKey(loaded.pem), ParseRSAPrivateKey(loaded.pem)} :
            Accepted(loaded.keyID, "policy", Sign(key, "SHA1", "policy"))
===============================================================================
