SPECIFICATION MCSpec
CONSTANTS
  Threads = {t1, t2}
  Sessions = {s1}
  Scopes = {history}
  Resources = {r1, r2}
  NoQuery = NoQuery
SYMMETRY Symmetry
INVARIANTS
  GrantsAreNeverInvented
  FactsAreComplete
  LiveGrantIsSeen
