SPECIFICATION MCSpec
CONSTANTS
  Writers = {w1, w2}
  Sessions = {s1, s2}
  DemoSession = s1
  SeedEvents = 2
  MaxHashes = 4
  MaxReseeds = 1
SYMMETRY Symmetry
CHECK_DEADLOCK FALSE
INVARIANTS
  ChainIsLinear
