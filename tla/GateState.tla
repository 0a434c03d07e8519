------------------------------ MODULE GateState ------------------------------
(***************************************************************************)
(* The durable records of one governed action, the in-flight server calls  *)
(* that work on them, and the policy functions every handler evaluates.    *)
(*                                                                         *)
(* One action means one tool call (one idempotency key), its approval, its *)
(* execution attempt, its grant and its receipt.  Several server calls are *)
(* in flight at once.  A call runs without interruption between two awaits *)
(* of the store; pc says which await it is suspended at and loc holds the  *)
(* snapshots it took before.                                               *)
(***************************************************************************)
EXTENDS Integers, FiniteSets

CONSTANTS
  Calls,                 \* in-flight server calls (HTTP, MCP, runner)
  Principals,            \* authenticated identities
  Approvers,             \* approverUsers/approverGroups resolved at submission
  Requester,             \* requestedByAuth.principalId
  SeparationOfDuties,    \* rule.approvers.separationOfDuties
  RequiredApprovals,     \* rule.approvers.requiredApprovals
  Inputs,                \* tool inputs, identified with their hashes
  OriginalInput,         \* the input the agent submitted
  OriginalOnly,          \* metadata.approvalInputMode = original_only
  Versions,              \* policy version hashes
  PolicyRule,            \* [Versions -> [Inputs -> Rules]]: the matched rule
  RuleIds,               \* names of matched rules
  Integrity,             \* content integrity labels, "unknown" among them
  Modes,                 \* execution modes this deployment uses
  Scopes,                \* {TRUE}: MCP calls in a verified influence scope
  Bodies,                \* distinguishable outcome payloads with their delivery
  VisibleBodies,         \* those whose resultDelivery says modelVisible
  ApprovalTtl, GrantTtl, \* lifetimes in clock ticks
  ExposureLimit,         \* MAX_INFLUENCE_EXPOSURES
  MaxTime,               \* bound on the clock
  MaxRevision,           \* bound on exposures by other actions
  MaxFaults              \* bound on crashes and thrown store or audit errors

Decisions == {"allow", "require_approval", "deny"}

Sources == Integrity \cup {"none"}

(* A policy rule as the evaluator returns it: its base decision, its optional
   content-influence guard and the integrity of the results it produces. *)
Rules == [id        : RuleIds,
          decision  : Decisions,
          guarded   : BOOLEAN,
          allowFrom : SUBSET Sources,
          otherwise : Decisions,
          source    : Sources]

ASSUME GateAssumption ==
  /\ Approvers \subseteq Principals
  /\ Requester \in Principals
  /\ SeparationOfDuties \in BOOLEAN
  /\ RequiredApprovals \in Nat \ {0}
  /\ OriginalInput \in Inputs
  /\ OriginalOnly \in BOOLEAN
  /\ PolicyRule \in [Versions -> [Inputs -> Rules]]
  /\ "unknown" \in Integrity
  /\ Bodies # {} /\ Versions # {}
  /\ VisibleBodies \subseteq Bodies /\ "no_body" \notin Bodies
  /\ Modes \subseteq {"local_mock", "external_grant"}
  /\ Scopes \subseteq BOOLEAN
  /\ ApprovalTtl \in Nat /\ GrantTtl \in Nat /\ ExposureLimit \in Nat
  /\ MaxTime \in Nat /\ MaxRevision \in Nat /\ MaxFaults \in Nat

VARIABLES
  now,       \* server clock
  policy,    \* hash of the active policy
  revision,  \* exposure revision of the action's influence scope
  sources,   \* integrities exposed in that scope
  tc,        \* tool call record
  ap,        \* approval record
  att,       \* execution attempt record
  grant,     \* execution grant record
  receipt,   \* action receipt record
  exposed,   \* this action's own result is recorded as an exposure
  effects,   \* how often the provider was reached, or a runner told to
  faults,    \* faults so far
  pc, loc    \* control state and local snapshots of the calls

records == <<tc, ap, att, grant, receipt>>
scope   == <<revision, sources, exposed>>
env     == <<now, policy>>
vars    == <<now, policy, revision, sources, tc, ap, att, grant, receipt,
             exposed, effects, faults, pc, loc>>

------------------------------------------------------------------------------
(* Record types.  "absent" stands for a record that does not exist yet. *)

ToolCallStatus == {"absent", "submitted", "pending_approval", "authorized",
                   "executed", "blocked", "rejected", "failed"}

ToolCalls == [status   : ToolCallStatus,
              input    : Inputs,
              decision : Decisions,
              policy   : Versions,      \* policyVersionHash
              scoped   : BOOLEAN,       \* verified influence scope present
              mode     : {"local_mock", "external_grant"},
              rev      : Int,           \* contentInfluence.exposureRevision
              seen     : SUBSET Sources,\* contentInfluence.observedSources
              withheld : BOOLEAN]       \* resultWithheld

ApprovalStatus == {"absent", "pending", "approved", "rejected", "cancelled",
                   "expired"}
Refused == {"rejected", "cancelled", "expired"}

Votes == [who : Principals, input : Inputs]

Approvals == [status    : ApprovalStatus,
              votes     : SUBSET Votes,
              input     : Inputs,
              expiresAt : Nat]

ReportStates == {"succeeded", "failed_after_dispatch", "timed_out",
                 "cancelled", "unknown_outcome"}
TerminalStates == ReportStates \cup {"failed_before_dispatch"}
AttemptStates == {"absent", "reserved", "dispatched"} \cup TerminalStates

NoBody == "no_body"
NoOwner == "no_owner"

Attempts == [state      : AttemptStates,
             owner      : Calls \cup {NoOwner}, \* reservationOwner
             mode       : {"local_mock", "external_grant"},
             input      : Inputs,
             viaApproval: BOOLEAN,       \* binding.approvalId # null
             bound      : BOOLEAN,       \* grantId is set
             reservedAt : Nat,
             body       : Bodies \cup {NoBody}]

Grants == [status : {"absent", "issued", "consumed"},
           input : Inputs, expiresAt : Nat]

LegacyStates == {"none", "succeeded", "failed"}
Receipts == [exists : BOOLEAN, outcome : LegacyStates,
             body : Bodies \cup {NoBody}]

(* What an external runner can report. *)
Reports == [state : ReportStates, body : Bodies]

Pcs == {"idle",
        "submit_influence", "submit_create", "submit_block", "submit_pend",
        "submit_approval",
        "approve_load", "approve_check", "approve_commit",
        "close_load", "close_check", "close_commit", "reject_write",
        "expire", "terminalize",
        "receipt", "revalidate", "reserve",
        "fail_before", "fail", "fail_receipt",
        "local_preflight", "local_bind", "local_dispatch", "local_recheck",
        "local_unknown", "local_await", "local_write", "local_receipt",
        "local_expose", "local_release",
        "grant_create", "grant_bind", "grant_audit", "authorize",
        "consume_attempt", "consume_tool", "consume_validate",
        "consume_dispatch",
        "report_tool", "report_attempt", "report_outcome", "report_commit",
        "report_receipt", "report_write", "report_expose", "report_release"}

Kinds == {"none", "reject", "cancel", "read"}

Locals == [who    : Principals,        \* deciding principal
           input  : Inputs,            \* input being decided or executed
           tc     : ToolCalls,         \* snapshot or draft of the tool call
           policy : Versions,          \* activePolicyVersionHash of a guard
           kind   : Kinds,             \* what a closing call is doing
           pass   : {1, 2},            \* first or authoritative load
           via    : BOOLEAN,           \* executing on an approval
           at     : Nat,               \* time the call started
           report : Reports,           \* outcome a runner reports
           replay : BOOLEAN]           \* the attempt had this outcome already

NoToolCall == [status |-> "absent", input |-> OriginalInput,
               decision |-> "deny", policy |-> CHOOSE v \in Versions : TRUE,
               scoped |-> FALSE, mode |-> "local_mock", rev |-> 0,
               seen |-> {}, withheld |-> FALSE]

NoLocals == [who |-> Requester, input |-> OriginalInput, tc |-> NoToolCall,
             policy |-> NoToolCall.policy, kind |-> "none", pass |-> 1,
             via |-> FALSE, at |-> 0,
             report |-> [state |-> "succeeded",
                         body |-> CHOOSE b \in Bodies : TRUE],
             replay |-> FALSE]

------------------------------------------------------------------------------
(* Policy evaluation with content influence. *)

OriginalRule(t) == PolicyRule[t.policy][OriginalInput]

Strictness(d) == CASE d = "deny" -> 3
                   [] d = "require_approval" -> 2
                   [] OTHER -> 1

(* evaluateContentInfluence: the guard may only make a decision stricter. *)
EffectiveDecision(rule, seen) ==
  IF /\ rule.guarded
     /\ ~(seen \subseteq rule.allowFrom)
     /\ Strictness(rule.otherwise) > Strictness(rule.decision)
  THEN rule.otherwise
  ELSE rule.decision

(* normalizedObservedSources: an unverified scope, or one whose exposures
   exceed the lookup limit, counts as unknown; an empty one as none. *)
ObservedSources(scoped) ==
  IF ~scoped \/ revision > ExposureLimit THEN {"unknown"}
  ELSE IF sources = {} THEN {"none"} ELSE sources

(* revalidatedInfluence + contentInfluenceBindingFailure: the evidence stored
   at submission still describes the rule that matches now. *)
InfluenceCurrent(t, rule) ==
  LET decided == OriginalRule(t)
  IN  /\ rule.guarded <=> decided.guarded
      /\ rule.guarded =>
           /\ t.rev >= 0
           /\ t.policy = policy
           /\ rule.allowFrom = decided.allowFrom
           /\ rule.otherwise = decided.otherwise
           /\ rule.decision = decided.decision

(* finalPolicyRevalidationFailure = undefined *)
PolicyStillPermits(t, input) ==
  LET rule == PolicyRule[policy][input]
      decision == EffectiveDecision(rule, t.seen)
  IN  /\ t.policy = policy
      /\ rule.source = OriginalRule(t).source
      /\ InfluenceCurrent(t, rule)
      /\ decision # "deny"
      /\ t.decision = "allow" => decision = "allow"
      /\ t.decision # "deny"

(* assertApprovalPolicyIsCurrent *)
ApprovalPolicyCurrent(t, input) ==
  LET rule == PolicyRule[policy][input]
      decision == EffectiveDecision(rule, t.seen)
  IN  /\ t.policy = policy
      /\ rule.source = OriginalRule(t).source
      /\ InfluenceCurrent(t, OriginalRule(t))
      /\ InfluenceCurrent(t, rule)
      /\ EffectiveDecision(OriginalRule(t), t.seen) = "require_approval"
      /\ decision # "deny"
      /\ decision = "require_approval" => rule.id = OriginalRule(t).id

(* Mutant: the guard accepts evidence older than the scope's revision. *)
ExposureGuardStale(t) ==
  (t.scoped /\ OriginalRule(t).guarded /\ t.rev >= 0) => revision >= t.rev

(* contentExposureRevisionGuard with contentExposureRevisionMatches: scoped
   and guarded evidence pins the revision it was computed from. *)
ExposureGuard(t) ==
  (t.scoped /\ OriginalRule(t).guarded /\ t.rev >= 0) => revision = t.rev

(* The results of the tool have a source whose integrity is tracked. *)
Classified(t) == OriginalRule(t).source # "none"

(* requiresContentExposureBeforeRelease, and requiresMcpResultDelivery: calls
   over MCP are those of a scope. *)
ExposureRequired(t) == t.scoped /\ Classified(t)

(* recordContentExposure: created once per source tool call, then a replay. *)
RecordExposure(t) ==
  /\ exposed' = TRUE
  /\ revision' = IF exposed THEN revision ELSE revision + 1
  /\ sources' = sources \cup {OriginalRule(t).source}

ApprovalExpired == ap.expiresAt <= now
GrantExpired == grant.expiresAt <= now

------------------------------------------------------------------------------
(* Control of a call. *)

Goto(c, label) == pc' = [pc EXCEPT ![c] = label]

Return(c) == /\ pc' = [pc EXCEPT ![c] = "idle"]
             /\ loc' = [loc EXCEPT ![c] = NoLocals]

GateInit ==
  /\ now = 0
  /\ policy \in Versions
  /\ revision = 0 /\ sources = {} /\ exposed = FALSE
  /\ tc = NoToolCall
  /\ ap = [status |-> "absent", votes |-> {}, input |-> OriginalInput,
           expiresAt |-> 0]
  /\ att = [state |-> "absent", owner |-> NoOwner,
            mode |-> "local_mock", input |-> OriginalInput,
            viaApproval |-> FALSE, bound |-> FALSE, reservedAt |-> 0,
            body |-> NoBody]
  /\ grant = [status |-> "absent", input |-> OriginalInput, expiresAt |-> 0]
  /\ receipt = [exists |-> FALSE, outcome |-> "none", body |-> NoBody]
  /\ effects = 0 /\ faults = 0
  /\ pc = [c \in Calls |-> "idle"]
  /\ loc = [c \in Calls |-> NoLocals]
==============================================================================
