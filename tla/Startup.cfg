CONSTANTS
  Server = {s1, s2, s3}
  Name = {n1, n2}
  Memo = {m1, m2}
  None = None
  Switch = {"registration"}
  Password = {pw}
  Failures = TRUE
SPECIFICATION StartupSpec
SYMMETRY Symmetry
INVARIANTS StartupTypeOK ReadyToServe
PROPERTIES NothingTaken
