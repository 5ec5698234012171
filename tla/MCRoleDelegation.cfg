SPECIFICATION MCSpec
CONSTANTS
  admin = admin
  lead = lead
  m1 = m1
  m2 = m2
  Members = {m1, m2}
  Roles = {admin, lead}
  SystemRoles = {admin}
  Workers = {w1, w2}
  MaxChanges = 3
  None = None
SYMMETRY Symmetry
INVARIANTS
  HeldWereGranted
  CommitsAsChecked
