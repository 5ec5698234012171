SPECIFICATION Spec
CONSTANTS
  Units = {u1, u2}
  Workers = {w1, w2}
  None = None
SYMMETRY Symmetry
INVARIANTS
  OnePrimary
  DeadlockOnlyByOvertaking
PROPERTIES
  OnlyCompanyLeavesNone
  TakenWithinReach
