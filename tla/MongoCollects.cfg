SPECIFICATION HSpec
CONSTANTS
  c1 = c1
  c2 = c2
  d1 = d1
  d2 = d2
  m1 = m1
  m2 = m2
  e1 = e1
  Collects <- MCCollects
  Items <- MCItems
  Options = {"server", "replset", "conf", "tail", "database"}
  MaxTailers = 1
SYMMETRY MCSymmetry
INVARIANTS
  TypeOK
  NothingLeftBehind
PROPERTIES
  SoloExact
