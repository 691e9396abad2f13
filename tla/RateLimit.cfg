CONSTANTS
  Client = {c1, c2, c3}
  Limit = 8
  Window = 15
  Losses = TRUE
SPECIFICATION BucketFairSpec
INVARIANTS BucketTypeOK WithinLimit WindowOpened
PROPERTIES WindowKept ReopensUnlessCut
