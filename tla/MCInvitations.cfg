SPECIFICATION Spec
CONSTANTS
  Companies = {c1}
  Users = {u1, u2}
  FirstUsers = {u1}
  Invitations = {i1, i2}
  Workers = {w1, w2}
  None = None
  Direct = Direct
SYMMETRY Symmetry
INVARIANTS
  OneMembershipPerInvitation
  AnswersStayTrue
PROPERTY
  ImplementsContract
