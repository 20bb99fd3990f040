---------------------------- MODULE SecretRotation ----------------------------
(***************************************************************************)
(* Rotations over SecretStages: each client writes its own version, under   *)
(* its own token, with SetVersion, promotes it when SetVersion succeeds,    *)
(* and starts over with the same token when a call returns an error or the  *)
(* process was restarted.                                                   *)
(***************************************************************************)
EXTENDS SecretStages

CONSTANTS Token,     \* the version each client rotates to
          Payload    \* and its value

ASSUME RotationAssumption == /\ Token \in [Clients -> Versions]
                             /\ Payload \in [Clients -> Payloads]
                             /\ \A c, d \in Clients : Token[c] = Token[d] => c = d

(* Another version may be current at the start. *)
RotationInit == Init /\ \A c \in Clients : content[Token[c]] = None

StartSet(c) == /\ returned[c] \in {"none", "error"}
               /\ SetVersion(c, Token[c], Payload[c])

StartPromote(c) == returned[c] = "set" /\ PromoteVersion(c, Token[c])

-------------------------------------------------------------------------------
(* Repeating SetVersion and PromoteVersion with one token finishes every    *)
(* rotation, whatever was half done when a call failed or the client        *)
(* crashed, and although rotations make each other's label moves fail.      *)
RotationsFinish == \A c \in Clients : <>[](returned[c] = "promote")

(* Once the first rotation has moved AWSCURRENT, what GetCurrent returns is *)
(* the value of a rotation, never again an older one: no repeated call, no  *)
(* answer that comes late and no discard gives the label back or takes it   *)
(* away.                                                                    *)
RotationsTakeEffect ==
    (\E c \in Clients : pc[c] = "discard" \/ returned[c] = "promote")
    => \E d \in Clients : /\ label["AWSCURRENT"] = Token[d]
                          /\ content[Token[d]] = Payload[d]
===============================================================================
