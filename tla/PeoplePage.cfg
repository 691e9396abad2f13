CONSTANTS
  User = {u1, u2}
  Viewer = {u1}
  Client = {c1, c2}
  Failures = TRUE
SPECIFICATION Spec
SYMMETRY Symmetry
INVARIANTS TypeOK FriendshipTold RowsSettle ListMatchesTab
