SPECIFICATION Spec
CONSTANTS
  Calls = {c1, c2}
  create_issue = create_issue
  search_messages = search_messages
  unbound = unbound
  Perms = {create_issue, search_messages, unbound}
  BoundPerms = {create_issue, search_messages}
  IssuePerms = {create_issue, unbound}
  InjectionModes = {"gateway_header", "process_env"}
  InjectionMode <- MCInjectionMode
  None = None
SYMMETRY Symmetry
INVARIANTS UsedMeansInjected IssueLeadsToLease
PROPERTIES InjectionIsLeased ExecutionIsLeased
