SPECIFICATION ReliableSpec
CONSTANTS
  Loop = loop
  Workers = {loop}
  Perms = {low, high}
  HumanPerms = {high}
  GrantIds = {g1, g2, g3}
  RequestIds = {r1, r2, r3}
  None = None
  SeedPerm = low
  HumanCalls = 2
  AutoCalls = 1
  SeedCalls = 1
  MaxSecond = 1
CHECK_DEADLOCK FALSE
INVARIANTS
  OnePendingRequest
  WaitingHasSomethingToApprove
  NoEscalationWhileGranted
PROPERTIES
  ApprovalIssuesGrant
