----------------------------- MODULE ActionGate ------------------------------
(***************************************************************************)
(* The action gate as a whole: submissions, decisions, executions, runners *)
(* and reports of one action interleave at their awaits, while the clock   *)
(* runs, the policy file is reloaded, other actions of the same influence  *)
(* scope expose content, and calls die half-way.                           *)
(***************************************************************************)
EXTENDS ApprovalFlow, ExecutionFlow

------------------------------------------------------------------------------
(* Environment *)

Tick ==
  /\ now < MaxTime
  /\ now' = now + 1
  /\ UNCHANGED <<policy, scope, records, effects, faults, pc, loc>>

(* replacePolicy: another policy file becomes active. *)
PolicyReload ==
  /\ policy' \in Versions \ {policy}
  /\ UNCHANGED <<now, scope, records, effects, faults, pc, loc>>

(* Another action of the scope records an exposure. *)
ForeignExposure ==
  /\ revision < MaxRevision
  /\ revision' = revision + 1
  /\ \E i \in Integrity : sources' = sources \cup {i}
  /\ UNCHANGED <<exposed, env, records, effects, faults, pc, loc>>

(* The call ends between two awaits: its process dies, or a store or audit
   write it does not catch throws. *)
Abort(c) ==
  /\ pc[c] # "idle"
  /\ faults < MaxFaults
  /\ faults' = faults + 1
  /\ Return(c)
  /\ UNCHANGED <<env, scope, records, effects>>

Environment == Tick \/ PolicyReload \/ ForeignExposure

Fault(c) == \/ Abort(c) \/ SubmitInfluenceUnavailable(c) \/ GrantUnavailable(c)

------------------------------------------------------------------------------
Request(c) == ApprovalRequest(c) \/ RunnerRequest(c)
Step(c) == ApprovalStep(c) \/ ExecutionStep(c)

Init == GateInit

Next ==
  \/ Environment
  \/ \E c \in Calls : Request(c) \/ Step(c) \/ Fault(c)

Spec == Init /\ [][Next]_vars

(* A call that was started goes on as long as it can; nothing makes clients
   start calls, the clock run or the policy settle. *)
FairSpec == Spec /\ \A c \in Calls : WF_vars(Step(c))

------------------------------------------------------------------------------
(* Types *)

EnvironmentTypes ==
  /\ now \in 0..MaxTime
  /\ policy \in Versions
  /\ revision \in Nat /\ sources \subseteq Sources
  /\ exposed \in BOOLEAN
  /\ effects \in Nat /\ faults \in 0..MaxFaults

RecordTypes ==
  /\ tc \in ToolCalls
  /\ ap \in Approvals
  /\ att \in Attempts
  /\ grant \in Grants
  /\ receipt \in Receipts

PcTypes  == pc \in [Calls -> Pcs]
LocTypes == loc \in [Calls -> Locals]

(* Every record, label and snapshot keeps its shape: nothing is written that
   no branch of the code can read. *)
TypeOK == EnvironmentTypes /\ RecordTypes /\ PcTypes /\ LocTypes

------------------------------------------------------------------------------
(* Safety *)

(* The provider is reached, or a runner told to reach it, at most once,
   however many calls, retries and runners compete for the action. *)
AtMostOnceEffect == effects <= 1

(* Nothing runs without authority for exactly the input that runs: either the
   policy of the submission allowed the original input, or a quorum of
   distinct eligible principals voted for it. *)
EffectHasAuthority ==
  effects > 0 =>
    IF att.viaApproval
    THEN /\ ap.status = "approved"
         /\ ap.input = att.input
         /\ Cardinality({v.who : v \in ap.votes}) >= RequiredApprovals
         /\ \A v \in ap.votes : v.input = att.input /\ CanDecide(v.who)
    ELSE /\ att.input = OriginalInput
         /\ EffectiveDecision(OriginalRule(tc), tc.seen) = "allow"

(* An approval that was rejected, cancelled or left to expire never lets the
   action be reserved, let alone run. *)
RefusedNeverRuns ==
  ap.status \in Refused => att.state = "absent" /\ effects = 0

(* The tool call is written from snapshots, with no compare-and-set.  Still
   its status never tells another story than approval and attempt do. *)
ToolCallTruth ==
  /\ tc.status = "blocked" => ap.status = "absent" /\ att.state = "absent"
  /\ tc.status = "rejected" => ap.status \in Refused
  /\ tc.status = "authorized" => grant.status # "absent" /\ att.bound
  /\ tc.status = "executed" => att.state = "succeeded"
  /\ tc.status = "failed" =>
       /\ att.state \notin {"reserved", "dispatched", "succeeded"}
       /\ ap.status \in {"absent", "approved"}
  /\ grant.status = "consumed" =>
       tc.status \in {"authorized", "executed", "failed"}

(* Attempt, receipt and tool call record one outcome. *)
OutcomeAgreement ==
  /\ receipt.outcome = "succeeded" => att.state = "succeeded"
  /\ receipt.outcome = "failed" =>
       att.state \notin {"reserved", "dispatched", "succeeded"}
  /\ receipt.outcome # "none" => receipt.body = att.body
  /\ tc.status \in {"executed", "failed"} /\ grant.status = "consumed" =>
       receipt.outcome = IF tc.status = "executed" THEN "succeeded"
                                                   ELSE "failed"

(* A classified result, of a verified scope or reported as visible to the
   model, is released to the agent only after the scope is marked as exposed to
   it: without a scope never. *)
WithheldUntilExposed ==
  /\ tc.status \in {"executed", "failed"} /\ Classified(tc)
  /\ \/ att.body \in VisibleBodies
     \/ /\ tc.scoped
        /\ tc.status = "executed" \/ att.state = "failed_after_dispatch"
  /\ ~tc.withheld
  => exposed /\ tc.scoped

(* The approval expired before its reservation; nothing follows it. *)
Lapsed == ap.status = "approved" /\ ApprovalExpired /\ att.state = "absent"

(* Without a fault nothing is left half done: when every call has returned,
   a submission is not left undecided without an approval that somebody can
   still decide, a refusal has reached the tool call, whatever is reserved or
   dispatched is a runner's to take up, and an outcome stands in attempt,
   receipt and tool call, and is shown if it is known.  Only an approval that
   expired before its reservation leaves its tool call pending. *)
NothingIsForgotten ==
  faults = 0 /\ (\A c \in Calls : pc[c] = "idle") =>
    /\ tc.status # "submitted"
    /\ tc.status = "pending_approval" => ap.status = "pending" \/ Lapsed
    /\ ap.status \in Refused => tc.status = "rejected"
    /\ att.state = "reserved" =>
         tc.status = "authorized" /\ grant.status = "issued"
    /\ att.state = "dispatched" =>
         tc.status = "authorized" /\ grant.status = "consumed"
    /\ att.state \in TerminalStates \/ tc.status = "failed" =>
         tc.status \in {"executed", "failed"} /\ receipt.outcome # "none"
    /\ /\ att.state \in {"succeeded", "failed_after_dispatch"}
       /\ ExposureRequired(tc)
       => exposed /\ ~tc.withheld

------------------------------------------------------------------------------
(* Action properties *)

(* Final statuses stay, in every record: no snapshot overwrites one. *)
FinalStays ==
  [][ /\ ap.status \in Refused \cup {"approved"} => ap' = ap
      /\ att.state \in TerminalStates => att' = att
      /\ tc.status \in {"blocked", "rejected", "executed", "failed"} =>
           tc'.status = tc.status
      /\ receipt.outcome # "none" => receipt' = receipt ]_vars

DispatchStep == att.state = "reserved" /\ att'.state = "dispatched"

(* Whatever the scope was exposed to up to the very step of dispatch, an
   evaluation made at that step would still permit it. *)
DispatchOnFreshEvidence ==
  [][ DispatchStep =>
        LET decision == EffectiveDecision(PolicyRule[tc.policy][att.input],
                                          ObservedSources(tc.scoped))
        IN  IF att.viaApproval THEN decision # "deny"
                               ELSE decision = "allow" ]_vars

(* A local tool is called only under the policy the action was decided by and
   before its approval expires, whatever happened since the dispatch. *)
InvokedUnderCurrentAuthority ==
  [][ effects' # effects /\ att'.mode = "local_mock" =>
        /\ policy = tc.policy
        /\ att.viaApproval => ap.status = "approved" /\ ~ApprovalExpired ]_vars

(* docs/approval-authorization-v1.md: at or after expiresAt an approval can
   not execute. *)
ExpiredApprovalNeverExecutes ==
  [][ effects' # effects /\ att.viaApproval => ~ApprovalExpired ]_vars

------------------------------------------------------------------------------
(* Liveness, for calls that do not fault *)

(* A closed approval always ends its tool call. *)
RefusalReachesToolCall == ap.status \in Refused ~> tc.status = "rejected"

(* A known outcome reaches the tool call for good: a classified one is
   recorded as an exposure and released, and no late replay withholds it
   again for ever. *)
OutcomeReachesToolCall ==
  att.state \in {"succeeded", "failed_after_dispatch"} ~>
    [](/\ tc.status \in {"executed", "failed"}
       /\ ExposureRequired(tc) => exposed /\ ~tc.withheld)

(* An approved action does not linger as pending, unless its approval expired
   before execution could be reserved. *)
ApprovalReachesToolCall ==
  ap.status = "approved" ~>
    \/ tc.status \in {"authorized", "executed", "failed"}
    \/ att.state = "absent" /\ ApprovalExpired

------------------------------------------------------------------------------
(* Inductive invariants *)

LocalPath == {"local_preflight", "local_bind", "local_dispatch",
              "local_recheck"}
ReportPath == {"report_outcome", "report_commit", "report_receipt",
               "report_write", "report_expose", "report_release"}

(* Why there is one effect.  A call that may still invoke the local tool owns
   an attempt no grant is bound to, so no runner can be told to act on it and
   no report can end it; and once an effect happened, the attempt has left
   every state an effect starts from. *)
OneEffectInv ==
  /\ effects <= 1
  /\ effects = 1 =>
       att.state \notin {"absent", "reserved", "failed_before_dispatch"}
  /\ att.state = "absent" => ~att.bound
  /\ \A c \in Calls :
       /\ pc[c] \in LocalPath =>
            att.owner = c /\ ~att.bound /\ att.state # "absent"
       /\ pc[c] = "local_recheck" =>
            effects = 0 /\ att.state = "dispatched"
       /\ pc[c] \in ReportPath => att.bound

(* From the creation of the tool call to the reservation of its attempt, one
   call at a time carries the action. *)
CarryingPcs == {"submit_block", "submit_pend", "submit_approval",
                "receipt", "revalidate", "reserve"}

Carrying(c) == pc[c] \in CarryingPcs

(* Where a call may write back a snapshot whose status it leaves as it is. *)
SnapshotPcs == {"submit_influence", "submit_create", "local_receipt",
                "local_expose", "local_release"} \cup ReportPath

(* Why a refused action never runs.  Only the submission that created the tool
   call and the vote that completed the quorum carry an action to its
   reservation: the former before there is an approval, the latter after it
   was approved for good. *)
RefusalInv ==
  /\ tc.status = "absent" => ap.status = "absent" /\ att.state = "absent"
  /\ ap.status \in {"pending"} \cup Refused => att.state = "absent"
  /\ \A c \in Calls : Carrying(c) =>
       /\ tc.status # "absent"
       /\ att.state = "absent"
       /\ \A d \in Calls : Carrying(d) => c = d
       /\ ap.status \in {"absent", "approved"}
       /\ pc[c] \in {"submit_block", "submit_pend", "submit_approval"} =>
            ap.status = "absent"
       /\ pc[c] \in {"receipt", "revalidate", "reserve"} =>
            (loc[c].via <=> ap.status = "approved")
  /\ \A c \in Calls :
       pc[c] \in SnapshotPcs => loc[c].tc.status # "absent"

(* From the creation of the tool call to the last word of the call that
   executes it, one call at a time owns the action. *)
ReservedPcs == {"local_preflight", "local_bind", "local_dispatch",
                "grant_create", "grant_bind", "grant_audit", "authorize",
                "fail_before"}
DispatchedPcs == {"local_recheck", "local_unknown", "local_await"}
ToldPcs == {"local_receipt", "local_expose", "local_release"}
UntoldPcs == CarryingPcs \cup ReservedPcs \cup DispatchedPcs
               \cup {"fail", "local_write"}
OwnerPcs == UntoldPcs \cup ToldPcs \cup {"fail_receipt"}

Owns(c) == pc[c] \in OwnerPcs

OneOwner == \A c, d \in Calls : Owns(c) /\ Owns(d) => c = d

(* What the owner relies on at each await, since nobody else writes. *)
OwnerClaim(c) ==
  /\ Owns(c) =>
       /\ ap.status \in {"absent", "approved"}
       /\ grant.status # "consumed" /\ att.body = NoBody
  /\ pc[c] \in UntoldPcs => tc.status \in {"submitted", "pending_approval"}
  /\ pc[c] \in CarryingPcs => att.state = "absent"
  /\ pc[c] = "submit_approval" => tc.status = "pending_approval"
  /\ pc[c] \in ReservedPcs => att.state = "reserved" /\ att.owner = c
  /\ pc[c] \in DispatchedPcs => att.state = "dispatched" /\ att.owner = c
  /\ pc[c] \in {"grant_bind", "grant_audit", "authorize"} =>
       grant.status = "issued"
  /\ pc[c] \in {"grant_audit", "authorize"} => att.bound
  /\ pc[c] \in {"fail", "fail_receipt"} =>
       att.state \in {"absent", "failed_before_dispatch", "unknown_outcome"}
  /\ pc[c] = "fail_receipt" => tc.status = "failed"
  /\ pc[c] \in {"fail_receipt", "local_receipt"} => receipt.outcome = "none"
  /\ pc[c] \in ToldPcs \cup {"local_write"} => att.state = "succeeded"
  /\ pc[c] \in ToldPcs =>
       tc.status = "executed" /\ loc[c].tc.status = "executed"
  /\ pc[c] \in {"local_expose", "local_release"} =>
       receipt.outcome = "succeeded"

(* What a call that does not own the action has seen, and still holds. *)
DecidingPcs == {"approve_load", "approve_check", "approve_commit",
                "close_load", "close_check", "close_commit", "expire"}
ClosedPcs == {"reject_write", "terminalize"}
EndedPcs == {"report_receipt", "report_write", "report_expose",
             "report_release"}

AgreesWithAttempt(status) ==
  /\ status = "executed" => att.state = "succeeded"
  /\ status = "failed" => att.state \notin {"reserved", "dispatched", "succeeded"}

VisitorClaim(c) ==
  /\ pc[c] \in {"submit_influence", "submit_create"} =>
       loc[c].tc.status = "submitted"
  /\ pc[c] \in DecidingPcs => ap.status # "absent"
  /\ pc[c] \in ClosedPcs => ap.status \in Refused
  /\ pc[c] \in {"consume_validate", "consume_dispatch"} =>
       tc.status \in {"authorized", "executed", "failed"}
  /\ pc[c] \in ReportPath \cup {"report_tool", "report_attempt"} =>
       grant.status = "consumed"
  /\ pc[c] \in ReportPath \cup {"report_attempt"} =>
       /\ loc[c].tc.status \in {"authorized", "executed", "failed"}
       /\ AgreesWithAttempt(loc[c].tc.status)
  /\ pc[c] \in EndedPcs =>
       att.state = loc[c].report.state /\ att.body = loc[c].report.body
  /\ pc[c] \in EndedPcs \ {"report_receipt"} =>
       receipt.outcome = LegacyOutcome(loc[c].report)
  /\ pc[c] \in {"report_expose", "report_release"} =>
       loc[c].tc.status \in {"executed", "failed"}

(* How far the records have come with one another. *)
Story ==
  /\ tc.status \in {"absent", "submitted", "blocked"} => ap.status = "absent"
  /\ ap.status = "pending" => tc.status = "pending_approval"
  /\ ap.status \in Refused => tc.status \in {"pending_approval", "rejected"}
  /\ tc.status = "authorized" => ap.status \in {"absent", "approved"}
  /\ tc.status \in {"absent", "submitted", "pending_approval"} =>
       receipt.outcome = "none"
  /\ att.state = "absent" => grant.status = "absent"
  /\ att.state \in {"absent", "reserved", "dispatched"} => att.body = NoBody
  /\ receipt.outcome = "none" => receipt.body = NoBody
  /\ grant.status = "consumed" =>
       att.state \notin {"absent", "reserved", "failed_before_dispatch"}

(* Why the tool call tells the truth although it is written from snapshots:
   whoever writes it owns the action, or acts on a record whose final status
   a compare-and-set has settled. *)
OwnershipInv ==
  /\ OneOwner
  /\ \A c \in Calls : OwnerClaim(c) /\ VisitorClaim(c)
  /\ Story /\ ToolCallTruth /\ OutcomeAgreement

(* Where a call holds a copy of the stored tool call. *)
HolderPcs == OwnerPcs \cup ClosedPcs \cup ReportPath
               \cup {"approve_commit", "close_commit", "expire",
                     "consume_validate", "consume_dispatch", "report_attempt"}

SameEvidence(t, u) ==
  /\ t.decision = u.decision /\ t.policy = u.policy /\ t.mode = u.mode
  /\ t.scoped = u.scoped /\ t.seen = u.seen /\ t.rev = u.rev

Decided(t) == t.decision = EffectiveDecision(OriginalRule(t), t.seen)

(* Every snapshot carries the evidence the submission stored, so no write of
   one changes what the action was decided by. *)
EvidenceInv ==
  /\ tc.status # "absent" => Decided(tc)
  /\ \A c \in Calls :
       /\ pc[c] = "submit_create" => Decided(loc[c].tc)
       /\ pc[c] \in HolderPcs => SameEvidence(loc[c].tc, tc)

Granted(via, input) ==
  IF via THEN ap.status = "approved" /\ ap.input = input
         ELSE tc.decision = "allow" /\ input = OriginalInput

(* The votes counted are as many as the principals that cast them, each was
   checked before its call went on, and all are for one input. *)
VotesInv ==
  /\ IsFiniteSet(ap.votes)
  /\ \A v, w \in ap.votes : v.input = w.input /\ (v.who = w.who => v = w)
  /\ \A v \in ap.votes : CanDecide(v.who)
  /\ ap.status = "approved" =>
       /\ QuorumReached(ap.votes)
       /\ \A v \in ap.votes : v.input = ap.input

CallAuthority(c) ==
  /\ pc[c] \in {"submit_pend", "submit_approval"} =>
       tc.decision = "require_approval"
  /\ pc[c] \in {"approve_load", "approve_check", "approve_commit"} =>
       CanDecide(loc[c].who)
  /\ pc[c] \in {"receipt", "revalidate", "reserve"} =>
       Granted(loc[c].via, loc[c].input)

(* Why an effect has authority: from the verdict to the attempt the owner
   carries the granted input. *)
AuthorityInv ==
  /\ VotesInv
  /\ ap.status # "absent" => tc.decision = "require_approval"
  /\ att.state # "absent" => Granted(att.viaApproval, att.input)
  /\ \A c \in Calls : CallAuthority(c)

ExposingPcs == {"local_expose", "local_release",
                "report_expose", "report_release"}

(* What a call found out about the delivery it is about to store or show. *)
DeliveryClaim(c) ==
  /\ pc[c] \in ExposingPcs => loc[c].tc.scoped
  /\ pc[c] \in ReportPath => DeliveryAccepted(loc[c].tc, loc[c].report)

(* Why nothing classified is shown before it counts as exposed: a report is
   accepted only with its content declared, and only a call that has recorded
   the exposure lifts the mark. *)
WithheldInv ==
  /\ WithheldUntilExposed
  /\ \A c \in Calls :
       /\ pc[c] \in {"local_release", "report_release"} => exposed
       /\ DeliveryClaim(c)

(* Evidence of the revision that still stands is what would be observed now. *)
FreshEvidence(t) ==
  OriginalRule(t).guarded =>
    IF t.scoped
    THEN t.rev <= revision /\ (t.rev = revision => t.seen = ObservedSources(TRUE))
    ELSE t.seen = ObservedSources(FALSE)

(* Why evidence can be pinned by a number: what the scope was exposed to
   changes only together with its revision. *)
FreshInv ==
  /\ tc.status # "absent" => FreshEvidence(tc)
  /\ exposed => tc.status # "absent" /\ OriginalRule(tc).source \in sources
  /\ \A c \in Calls : pc[c] = "submit_create" => FreshEvidence(loc[c].tc)

ConsumePcs == {"consume_attempt", "consume_tool", "consume_validate",
               "consume_dispatch"}

ExecutorClaim(c) ==
  /\ pc[c] \in LocalPath =>
       /\ att.mode = "local_mock"
       /\ loc[c].via = att.viaApproval /\ loc[c].input = att.input
  /\ pc[c] \in {"grant_create", "grant_bind"} =>
       att.mode = "external_grant" /\ loc[c].input = att.input
  /\ pc[c] \in ConsumePcs =>
       grant.status # "absent" /\ loc[c].input = att.input

(* Whoever executes works on the reserved input, in the reserved mode. *)
ExecutorInv ==
  /\ att.bound => att.mode = "external_grant"
  /\ grant.status # "absent" => grant.input = att.input
  /\ \A c \in Calls : ExecutorClaim(c)

(* The policy of the submission permits the reserved input on the evidence of
   the submission, and a guard it has was evaluated on that evidence. *)
StillPermitted ==
  LET rule == PolicyRule[tc.policy][att.input]
      decision == EffectiveDecision(rule, tc.seen)
  IN  /\ decision # "deny"
      /\ tc.decision = "allow" => decision = "allow"
      /\ rule.guarded => OriginalRule(tc).guarded /\ tc.rev >= 0

(* Why a dispatch rests on evidence and authority that still hold: whoever
   dispatches has found it permitted at its last look. *)
DispatchInv ==
  /\ FreshInv /\ ExecutorInv
  /\ \A c \in Calls :
       pc[c] \in {"local_dispatch", "consume_dispatch"} => StillPermitted

(* What a call found when it looked, and may rely on when it acts. *)
LookedClaim(c) ==
  /\ pc[c] = "expire" /\ ap.status = "pending" =>
       loc[c].tc.status = "pending_approval"
  /\ pc[c] \in {"approve_commit", "terminalize"} =>
       loc[c].tc.status = "pending_approval"
  /\ pc[c] \in {"report_tool", "report_attempt", "report_outcome",
                "report_commit"} => ~loc[c].replay

(* Where a call is about to record the outcome with the receipt, or to show
   what it withholds. *)
RecordingPcs == {"fail", "fail_receipt", "local_write", "local_receipt",
                 "report_receipt"}
ReleasingPcs == ToldPcs \cup {"report_expose", "report_release"}

(* The call is about to write what it reports to the tool call. *)
WillTell(c) ==
  /\ pc[c] \in {"report_receipt", "report_write"}
  /\ ~loc[c].replay \/ loc[c].tc.status = "authorized"

(* One record is behind another: the tool call does not know yet what becomes
   of an action nobody has to decide on, ... *)
Untold ==
  /\ tc.status \in {"submitted", "pending_approval"}
  /\ ap.status \in {"absent", "approved"}

(* ... that its approval was closed, ... *)
Unrefused == ap.status \in Refused /\ tc.status # "rejected"

(* ... or what a runner reported; the receipt lacks the outcome; ... *)
Unreported == att.state \in TerminalStates /\ tc.status = "authorized"

Unrecorded ==
  /\ att.state \in TerminalStates \/ tc.status = "failed"
  /\ receipt.outcome = "none"

(* ... or a result that may be shown is still withheld. *)
Unshown ==
  /\ tc.status \in {"executed", "failed"}
  /\ att.state \in {"succeeded", "failed_after_dispatch"}
  /\ tc.withheld /\ ExposureRequired(tc)

(* Why nothing is forgotten: as long as one record is behind another, some
   call is on its way to the await that writes it. *)
CarriedInv ==
  /\ Untold => Lapsed \/ \E c \in Calls : pc[c] \in UntoldPcs
  /\ Unrefused => \E c \in Calls : pc[c] \in ClosedPcs
  /\ Unreported => \E c \in Calls : WillTell(c)
  /\ Unrecorded => \E c \in Calls : pc[c] \in RecordingPcs
  /\ Unshown => \E c \in Calls : pc[c] \in ReleasingPcs

(* Only a fault takes that call away. *)
ForgottenInv ==
  /\ \A c \in Calls : LookedClaim(c)
  /\ att.state = "dispatched" /\ att.bound => grant.status = "consumed"
  /\ faults = 0 => CarriedInv

------------------------------------------------------------------------------
(* Refinement *)

Nothing == "nothing"

Verdict ==
  CASE tc.status = "absent" -> "none"
    [] tc.status # "absent" /\ tc.decision = "allow" -> "granted"
    [] tc.status # "absent" /\ tc.decision = "deny" -> "refused"
    [] OTHER -> CASE ap.status \in {"absent", "pending"} -> "open"
                  [] ap.status = "approved" -> "granted"
                  [] OTHER -> "refused"

Told ==
  CASE tc.status \in {"executed", "failed"} -> tc.status
    [] tc.status \in {"rejected", "blocked"} -> "refused"
    [] OTHER -> "none"

Authority ==
  IF Verdict # "granted" THEN Nothing
  ELSE IF tc.decision = "allow" THEN OriginalInput ELSE ap.input

Ran == IF effects = 0 THEN Nothing ELSE att.input

Outcome == IF att.state \in TerminalStates THEN att.state ELSE "none"

Promise == INSTANCE OneShotAction WITH
  Outcomes  <- TerminalStates,
  verdict   <- Verdict,
  authority <- Authority,
  runs      <- effects,
  ran       <- Ran,
  outcome   <- Outcome,
  told      <- Told

(* The gate, with its awaits, crashes and stale snapshots, keeps the promise
   of one verdict, one run of the granted input, one outcome, one story. *)
ImplementsOneShot == Promise!Spec

(* What the promise needs to be known of the records: what was consumed or is
   awaited did run, what is blocked was denied, what fails was granted. *)
PromiseInv ==
  /\ grant.status = "consumed" => effects = 1
  /\ \A c \in Calls :
       /\ pc[c] = "local_await" => effects = 1
       /\ pc[c] = "submit_block" => tc.decision = "deny"
       /\ pc[c] = "fail" => Verdict = "granted"
==============================================================================
