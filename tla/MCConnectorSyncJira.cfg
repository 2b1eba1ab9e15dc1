SPECIFICATION SyncSpec
CONSTANTS
  Doc = {d1, d2}
  Content = {c1, c2}
  Suffix = {1}
  User = {u1}
  None = None
  Item = {i1, i2}
  Second = 2
  Sync = {s1}
  Feeds <- MCJiraBehind
  Scopes <- MCDeletion
CHECK_DEADLOCK FALSE
INVARIANT NothingSkipped
