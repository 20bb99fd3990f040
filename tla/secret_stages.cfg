SPECIFICATION Spec
CONSTANTS
  None = None
  Clients = {c1, c2}
  Versions = {v1, v2, v3}
  Payloads = {p1, p2}
  MaxFaults = 2
INVARIANT TypeOK
PROPERTY CurrentKept
PROPERTY SuccessMeansMoved
PROPERTY StaleCallsFail
PROPERTY PendingOfOthersKept
PROPERTY PromotionClearsPending
SYMMETRY Symmetry
