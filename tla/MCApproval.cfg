\* Two of three approvers, the requester among them; the quorum forbids edits;
\* a policy reload and one fault may fall between any two awaits.
SPECIFICATION Spec
CONSTANTS
  c1 = c1  c2 = c2
  alice = alice  bob = bob  rita = rita
  original = original  edited = edited
  v1 = v1  v2 = v2
  Calls = {c1, c2}
  Principals = {alice, bob, rita}
  Approvers = {alice, bob, rita}
  Requester = rita
  SeparationOfDuties = TRUE
  RequiredApprovals = 2
  Inputs = {original, edited}
  OriginalInput = original
  OriginalOnly = FALSE
  Versions = {v1, v2}
  PolicyRule <- ApprovalPolicy
  RuleIds <- MCRuleIds
  Integrity = {"unknown", "public_untrusted"}
  Modes = {"local_mock"}
  Scopes = {FALSE}
  Bodies = {"b1"}
  VisibleBodies = {"b1"}
  ApprovalTtl = 1
  GrantTtl = 1
  ExposureLimit = 1
  MaxTime = 2
  MaxRevision = 0
  MaxFaults = 1
INVARIANTS TypeOK EffectHasAuthority RefusedNeverRuns
SYMMETRY Symmetry
