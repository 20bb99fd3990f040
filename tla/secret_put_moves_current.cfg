SPECIFICATION Spec
CONSTANTS
  None = None
  Clients = {c1, c2}
  Versions = {v1, v2}
  Payloads = {p1}
  MaxFaults = 0
PROPERTY CurrentOnlyByPromotion
