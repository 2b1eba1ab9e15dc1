SPECIFICATION AccountSpec
CONSTANTS
  Caller = {a, b, c}
  State = {s1, s2}
  Delivery = {w1}
  Rotates = TRUE
  Bounds <- MCBounds
  None = None
CHECK_DEADLOCK FALSE
INVARIANT DisconnectRemovesCredentials
