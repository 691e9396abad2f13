CONSTANTS
  User = {u1}
  Hash = {h1, h2}
  None = None
  Client = {c1, c2, c3}
  MaxVersion = 3
  Failures = TRUE
SPECIFICATION FairSpec
INVARIANTS TypeOK StaleSessionExplained
PROPERTIES OldSessionsEnd
