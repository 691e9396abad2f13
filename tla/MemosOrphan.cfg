CONSTANTS
  User = {u1}
  Memo = {m1}
  File = {f1}
  None = None
  Client = {c1, c2}
  Failures = FALSE
SPECIFICATION Spec
INVARIANTS NoOrphanFiles
