--------------------------- MODULE MCSecretRotation ---------------------------
(* Two rotations, each to a key and a version of its own.  At the start the *)
(* group may have two older keys, and a third version may be current: with  *)
(* the three keys of a default group, the two rotations evict the older key.*)
EXTENDS KeyRotation, CdnConfig

CONSTANTS c1, c2, v1, v2, k1, k2, older, old

MCToken == [c \in Clients |-> IF c = c1 THEN v1 ELSE v2]
MCKey == [c \in Clients |-> IF c = c1 THEN k1 ELSE k2]
MCPayload == [c \in Clients |-> Secret(MCKey[c], Generate(MCKey[c]).private)]
MCPayloads == {MCPayload[c] : c \in Clients}
              \union {Secret(old, PKCS8(old))}
MCOldKeys == <<older, old>>
MCMaxKeys == NewCdnConfig(<<>>).maxKeys
===============================================================================
