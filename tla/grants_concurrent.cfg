SPECIFICATION Spec
CONSTANTS
  Loop = loop
  Workers = {w1}
  Perms = {low, high}
  HumanPerms = {high}
  GrantIds = {g1, g2, g3}
  RequestIds = {r1, r2}
  None = None
  SeedPerm = low
  HumanCalls = 2
  AutoCalls = 1
  SeedCalls = 1
  MaxSecond = 0
SYMMETRY Symmetry
INVARIANTS
  ExecutionsWithinGrant
  HumanCallsAreApproved
  OneGrantPerApproval
PROPERTY LedgerSpec
