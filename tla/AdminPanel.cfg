CONSTANTS
  Panel = {p1}
  Request = {c1, c2}
  Switch = {"confirm", "smtp"}
  Password = {pw}
  None = None
  Failures = TRUE
SPECIFICATION Spec
SYMMETRY Symmetry
INVARIANTS TypeOK PanelCurrent
PROPERTIES OnlyEditsSaved
