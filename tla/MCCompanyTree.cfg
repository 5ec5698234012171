SPECIFICATION Spec
CONSTANTS
  Companies = {c1, c2, c3, c4}
  Root = c1
  Workers = {w1, w2}
  None = None
SYMMETRY Symmetry
INVARIANTS
  InversionsOnlyByOverlap
  CyclesOnlyByOverlap
PROPERTIES
  CyclesAreForever
