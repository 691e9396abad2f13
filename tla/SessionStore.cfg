CONSTANTS
  User = {u1, u2}
  Hash = {h1, h2, h3}
  None = None
  Client = {c1, c2}
  TTL = 2
SPECIFICATION Spec
SYMMETRY Symmetry
INVARIANTS TypeOK IndexOutlivesSessions IndexedUnlessRaced
PROPERTIES NoResurrection BookSpec
