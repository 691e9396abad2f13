CONSTANTS
  User = {u1, u2}
  Address = {a1, a2}
  Token = {t1, t2}
  None = None
  Client = {c1, c2}
  SettingsChoice = {{"smtp"}, {"smtp", "confirm", "recovery"}}
  Failures = TRUE
SPECIFICATION FairSpec
CONSTRAINTS Wishes InOrder
INVARIANTS TypeOK SingleUse
PROPERTIES ReplacedLinksDead AddressProven BookSpec RequestsEnd
