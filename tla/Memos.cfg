CONSTANTS
  User = {u1, u2}
  Memo = {m1, m2}
  File = {f1, f2}
  None = None
  Client = {c1, c2, c3}
  Failures = TRUE
SPECIFICATION Spec
SYMMETRY Symmetry
INVARIANTS TypeOK AttachmentHasFile FilesAccounted
PROPERTIES OnlyAuthorChanges
