\* A guarded action, local or of a runner, over a scope that others expose content in.
SPECIFICATION LocalFaultsSpec
CONSTANTS
  c1 = c1  c2 = c2
  alice = alice  bob = bob  rita = rita
  original = original  edited = edited
  v1 = v1  v2 = v2
  Calls = {c1, c2}
  Principals = {alice, rita}
  Approvers = {alice}
  Requester = rita
  SeparationOfDuties = TRUE
  RequiredApprovals = 1
  Inputs = {original}
  OriginalInput = original
  OriginalOnly = FALSE
  Versions = {v1, v2}
  PolicyRule <- InfluencedPolicy
  RuleIds <- MCRuleIds
  Integrity = {"unknown", "public_untrusted"}
  Modes = {"local_mock", "external_grant"}
  Scopes = {TRUE}
  Bodies = {"b1"}
  VisibleBodies = {"b1"}
  ApprovalTtl = 1
  GrantTtl = 1
  ExposureLimit = 1
  MaxTime = 1
  MaxRevision = 2
  MaxFaults = 1
INVARIANTS NothingIsForgotten
PROPERTIES InvokedUnderCurrentAuthority DispatchOnFreshEvidence
SYMMETRY CallSymmetry
