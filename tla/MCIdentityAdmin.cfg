SPECIFICATION IdentitySpec
CONSTANTS
  Person = {ann, bob}
  Founder = ann
  Caller = {c1, c2, c3}
  Session = {s1, s2}
  Password = {pw1, pw2}
  OIDCState = {o1}
  Invitation = {i1}
  Bounds <- MCBounds
  None = None
SYMMETRY Symmetry
CHECK_DEADLOCK FALSE
INVARIANT AlwaysAnAdmin
