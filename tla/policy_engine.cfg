SPECIFICATION PolicySpec
CONSTANTS
  Contexts <- MCContexts
  TRUST_SCORE_MIN = 50
  TRUST_SCORE_SENSITIVE = 80
  RECIPE_THRESHOLD = 82
CHECK_DEADLOCK FALSE
INVARIANTS
  OneEffectiveDecision
  ExecutableIsEarned
  AutoApprovalIsBounded
  GrantEndsEscalation
  LosingFactsNeverHelps
  FallbackAgreesAboveThreshold
