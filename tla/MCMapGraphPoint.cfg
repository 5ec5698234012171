SPECIFICATION MCSpec
CONSTANTS
  h1 = h1
  h2 = h2
  m1 = m1
  m2 = m2
  m3 = m3
  c1 = c1
  c2 = c2
  Houses = {h1, h2}
  Markers = {m1, m2, m3}
  Connections = {c1, c2}
  Places = {1, 2, 3, 4}
  Workers = {w1, w2}
  MaxCommits = 2
  None = None
  Gone = Gone
SYMMETRY Symmetry
PROPERTY
  PointsAlwaysKept
