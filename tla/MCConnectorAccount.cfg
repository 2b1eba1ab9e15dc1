SPECIFICATION AccountSpec
CONSTANTS
  Caller = {a, b, c}
  State = {s1, s2}
  Delivery = {w1}
  Rotates = TRUE
  Bounds <- MCBounds
  None = None
SYMMETRY Symmetry
CHECK_DEADLOCK FALSE
INVARIANTS
  StateUsedOnce
  CredentialsFollowStatus
  DeliveryCountsOnce
