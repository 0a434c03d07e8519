\* A runner is told to go although the approval has just expired.
SPECIFICATION Spec
CONSTANTS
  c1 = c1  c2 = c2
  alice = alice  bob = bob  rita = rita
  original = original  edited = edited
  v1 = v1  v2 = v2
  Calls = {c1, c2}
  Principals = {alice, rita}
  Approvers = {alice}
  Requester = rita
  SeparationOfDuties = TRUE
  RequiredApprovals = 1
  Inputs = {original}
  OriginalInput = original
  OriginalOnly = FALSE
  Versions = {v1}
  PolicyRule <- ApprovalPolicy
  RuleIds <- MCRuleIds
  Integrity = {"unknown", "public_untrusted"}
  Modes = {"external_grant"}
  Scopes = {FALSE}
  Bodies = {"b1"}
  VisibleBodies = {"b1"}
  ApprovalTtl = 1
  GrantTtl = 3
  ExposureLimit = 1
  MaxTime = 3
  MaxRevision = 0
  MaxFaults = 0
PROPERTIES ExpiredApprovalNeverExecutes
CHECK_DEADLOCK FALSE
