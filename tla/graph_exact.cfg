SPECIFICATION MCSpec
CONSTANTS
  Threads = {t1}
  Sessions = {s1, s2}
  Scopes = {history}
  Resources = {r1, r2}
  NoQuery = NoQuery
SYMMETRY Symmetry
INVARIANTS
  SeenGrantIsLive
