SPECIFICATION Spec
CONSTANTS
  c1 = c1
  c2 = c2
  w1 = w1
  w2 = w2
  Collects = {c1}
  Workers = {w1, w2}
  MaxOp = 3
  OplogSize = 2
  PerSecond = 2
  Included <- MCIncluded
  MaxErrors = 1
  OptionSets <- MCOptionSets
INVARIANTS
  EntriesCountOnce
