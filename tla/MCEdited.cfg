\* One approver decides, and may edit the input onto another rule.
SPECIFICATION Spec
CONSTANTS
  c1 = c1  c2 = c2
  alice = alice  bob = bob  rita = rita
  original = original  edited = edited
  v1 = v1  v2 = v2
  Calls = {c1, c2}
  Principals = {alice}
  Approvers = {alice}
  Requester = alice
  SeparationOfDuties = FALSE
  RequiredApprovals = 1
  Inputs = {original, edited}
  OriginalInput = original
  OriginalOnly = FALSE
  Versions = {v1, v2}
  PolicyRule <- EditablePolicy
  RuleIds <- MCRuleIds
  Integrity = {"unknown", "public_untrusted"}
  Modes = {"local_mock", "external_grant"}
  Scopes = {FALSE}
  Bodies = {"b1"}
  VisibleBodies = {"b1"}
  ApprovalTtl = 1
  GrantTtl = 1
  ExposureLimit = 1
  MaxTime = 2
  MaxRevision = 0
  MaxFaults = 1
INVARIANTS ToolCallTruth
PROPERTIES ImplementsOneShot
SYMMETRY CallSymmetry
