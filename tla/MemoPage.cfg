CONSTANTS
  Memo = {m1, m2}
  Call = {c1, c2}
  None = None
SPECIFICATION Spec
SYMMETRY Symmetry
INVARIANTS TypeOK ListSettles DeletedUnlessCopied
