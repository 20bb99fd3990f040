SPECIFICATION KeyRotationSpec
CONSTANTS
  None = None
  NoKey = NoKey
  c1 = c1
  c2 = c2
  v1 = v1
  v2 = v2
  k1 = k1
  k2 = k2
  old = old
  older = older
  Clients = {c1, c2}
  Versions = {v1, v2, v3}
  Payloads <- MCPayloads
  Token <- MCToken
  Payload <- MCPayload
  Keys = {k1, k2, old, older}
  MaxKeys <- MCMaxKeys
  Key <- MCKey
  OldKeys <- MCOldKeys
  MaxFaults = 3
INVARIANT RotationsTakeEffect
INVARIANT SignersAccepted
PROPERTY RotationsFinish
CHECK_DEADLOCK FALSE
