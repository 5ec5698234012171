SPECIFICATION LiveSpec
CONSTANTS
  Users = {root, clerk}
  Companies = {head, branch}
  Workers = {w1, w2}
  Root = root
  MaxChanges = 2
  None = None
INVARIANTS
  InstallersNeverCollide
  AnswersOfSomeMoment
  AdministratorHasAccess
PROPERTY
  EveryRequestEnds
