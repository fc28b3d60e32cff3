SPECIFICATION MCSpec
CONSTANTS
  Threads = {t1, t2}
  s1 = s1
  s2 = s2
  Sessions = {s1, s2}
  recipe = recipe
  tool = tool
  Shared = {recipe, tool}
  Recipes = {recipe}
  Named <- MCNamed
  Self = Self
  Links <- MCLinks
  Facts <- MCFacts
  SnapshotIds = {i1, i2}
  DecisionIds = {d1, d2}
  None = None
  MaxReseeds = 1
SYMMETRY Symmetry
CHECK_DEADLOCK FALSE
INVARIANTS
  DecisionsAreDocumented
  SnapshotsAreDocumented
  GraphIsWhole
  ProposalIsKept
