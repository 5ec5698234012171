SPECIFICATION MCSpec
CONSTANTS
  zone = zone
  o1 = o1
  o2 = o2
  o3 = o3
  o4 = o4
  b1 = b1
  b2 = b2
  e1 = e1
  e2 = e2
  l1 = l1
  SystemTypes = {"city", "territory"}
  CustomAreas = {zone}
  Objects = {o1, o2, o3, o4}
  Buildings = {b1, b2}
  Entrances = {e1, e2}
  Locations = {l1}
  Workers = {w1, w2}
  MaxRequests = 2
  None = None
INVARIANTS
  RulesBrokenOnlyByOverlap
  DeletionsFinal
  LocationTogether
PROPERTIES
  CyclesBrokenOnlyAtRoot
