SPECIFICATION MCSpec
CONSTANTS
  Loop = loop
  Workers = {w1, w2}
  RequestIds = {r1, r2, r3, r4}
  None = None
  MaxSecond = 2
SYMMETRY Symmetry
INVARIANTS
  ProvenanceIsOneStory
PROPERTY FirstCallIsKeptAlone
CHECK_DEADLOCK FALSE
