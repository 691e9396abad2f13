CONSTANTS
  User = {u1, u2}
  Session = {s1, s2}
  Call = {c1, c2}
  None = None
  MaxVisits = 2
SPECIFICATION Spec
SYMMETRY Symmetry
INVARIANTS TypeOK ShellMatchesSession SignedOutIsOut LinkPostedOnce
