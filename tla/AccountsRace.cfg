CONSTANTS
  User = {u1}
  Hash = {h1, h2}
  None = None
  Client = {c1, c2}
  MaxVersion = 2
  Failures = FALSE
SPECIFICATION Spec
INVARIANTS OldSessionsRevoked
