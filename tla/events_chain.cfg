SPECIFICATION MCSpec
CONSTANTS
  Writers = {w1, w2, w3}
  Sessions = {s1, s2}
  DemoSession = s1
  SeedEvents = 2
  MaxHashes = 4
  MaxReseeds = 2
SYMMETRY Symmetry
CHECK_DEADLOCK FALSE
INVARIANTS
  PredecessorComesFirst
  LinksStayInSession
  ChainIsLinearAlone
