SPECIFICATION MCSpec
CONSTANTS
  Members = {m1, m2}
  Roles = {admin, r1}
  SystemRole = admin
  Admins = {m1}
  MaxScope = 1
  Workers = {w1, w2}
  MaxCommits = 2
  Deny = Deny
  None = None
INVARIANTS
  StaleOnlyByRace
  DenyHonoured
PROPERTIES
  EventuallyFresh
