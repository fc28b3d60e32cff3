SPECIFICATION MCSpec
CONSTANTS
  Threads = {t1, t2}
  Keys = {k1, k2}
  CheckIds = {c1, c2}
  NoKey = NoKey
  NoId = NoId
  Outcomes = {"ALLOW", "ESCALATE_HUMAN", "DENY"}
SYMMETRY Symmetry
INVARIANTS
  IndexIsNeverDangling
  RecordIsConsistent
  AnswerIsForItsKey
  AnswerMatchesCheckAlone
  OneCheckPerKeyAlone
PROPERTIES
  TerminalIsFinalAlone
  CacheSpecAlone
