SPECIFICATION FairSpec
CONSTANTS
  Units = {u1, u2, u3}
  Workers = {w1, w2}
  None = None
INVARIANTS
  CyclesOnlyAfterOverlap
PROPERTIES
  TreeOfScopeKept
  EveryWalkEnds
