SPECIFICATION Spec
CONSTANTS
  a = a
  A = A
  Emails = {a, A}
  Lower <- LowerOf
  Beginnings = {{a}, {a, A}}
  Asked = {"admin", "viewer"}
  Scenarios <- Together
  FirstPassword = p1
  Passwords = {p1, p2}
  Handlers = {h1, h2}
  MaxSecrets = 3
  MaxTime = 2
  None = None
SYMMETRY Symmetry
INVARIANTS
  TypeOK
  SpentIsSpent
  UsedOnce
  TrailExplainsAccounts
PROPERTIES
  LastAdminLostInOverlap
CHECK_DEADLOCK FALSE
