\* Every outcome reaches the tool call and is released when no call faults.
SPECIFICATION FairSpec
CONSTANTS
  c1 = c1  c2 = c2
  alice = alice  bob = bob  rita = rita
  original = original  edited = edited
  v1 = v1  v2 = v2
  Calls = {c1, c2}
  Principals = {rita}
  Approvers = {}
  Requester = rita
  SeparationOfDuties = TRUE
  RequiredApprovals = 1
  Inputs = {original}
  OriginalInput = original
  OriginalOnly = FALSE
  Versions = {v1}
  PolicyRule <- ClassifiedAllowPolicy
  RuleIds <- MCRuleIds
  Integrity = {"unknown", "public_untrusted"}
  Modes = {"local_mock", "external_grant"}
  Scopes = {TRUE}
  Bodies = {"b1", "b2", "b3"}
  VisibleBodies = {"b1", "b2"}
  ApprovalTtl = 1
  GrantTtl = 1
  ExposureLimit = 1
  MaxTime = 1
  MaxRevision = 0
  MaxFaults = 0
PROPERTIES OutcomeReachesToolCall
CHECK_DEADLOCK FALSE
