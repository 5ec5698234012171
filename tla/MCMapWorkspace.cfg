SPECIFICATION MCSpec
CONSTANTS
  h1 = h1
  m1 = m1
  m2 = m2
  c1 = c1
  c2 = c2
  u1 = u1
  a = a
  b = b
  Layers = {1, 2, 3, 4, 5}
  Houses = {h1}
  Markers = {m1, m2}
  Lines = {c1, c2}
  Users = {u1}
  Texts = {a, b}
  Workers = {w1, w2}
  MaxLayers = 4
  MaxDepth = 3
  MaxRequests = 2
  None = None
SYMMETRY Symmetry
INVARIANTS
  LayersSound
  ExpansionComplete
PROPERTIES
  VersionsNameContent
  ImplementsStore
