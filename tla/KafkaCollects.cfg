SPECIFICATION Spec
CONSTANTS
  c1 = c1
  c2 = c2
  b1 = b1
  b2 = b2
  g1 = g1
  t1 = t1
  None = None
  Collects = {c1, c2}
  Brokers = {b1, b2}
  Topics = {t1}
  NumPartitions = 1
  Groups = {g1}
  MaxOffset = 1
  LeaderOf <- MCLeaderOf
SYMMETRY MCSymmetry
VIEW MCView
INVARIANTS
  TypeOK
  
PROPERTIES
  OffsetsFrozen
