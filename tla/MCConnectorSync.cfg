SPECIFICATION SyncSpec
CONSTANTS
  Doc = {d1, d2, d3}
  Content = {c1, c2}
  Suffix = {1}
  User = {u1}
  None = None
  Item = {i1, i2}
  Second = 2
  Sync = {s1, s2}
  Feeds <- MCFeeds
  Scopes <- MCScopes
SYMMETRY Symmetry
CHECK_DEADLOCK FALSE
INVARIANTS
  RowHasObject
  IndexMatchesObject
  NothingSkipped
  ItemMatchesDocument
  OneDocumentPerItem
PROPERTY UsesStore
