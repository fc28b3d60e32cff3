SPECIFICATION MCSpec
CONSTANTS
  Loop = loop
  Workers = {w1, w2}
  SessionIds = {demo, other}
  DemoSession = demo
  Users = {alice, bob}
  DemoUser = alice
  Agents = {a1, a2}
  DemoAgent = a1
  NoRow = NoRow
  TokenRequired = FALSE
  MaxWriters = 3
  MaxCalls = 1
  MaxBusy = 2
SYMMETRY Symmetry
CHECK_DEADLOCK FALSE
INVARIANTS
  ServedClaimsFitSession
  DelegationFitsSession
PROPERTY TokensAreDelegated
