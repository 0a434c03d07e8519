---------------------------- MODULE ExecutionFlow ----------------------------
(***************************************************************************)
(* What happens to an authorized action: the execution attempt, the local  *)
(* tool registry (ActionProxyService.executeToolCall), the grant handed to *)
(* an external runner (authorizeExternalExecution, consumeGrant) and the   *)
(* outcomes that runner reports (reportOutcome).                           *)
(***************************************************************************)
EXTENDS GateState

------------------------------------------------------------------------------
(* Reservation, common to both execution modes *)

(* createActionReceipt *)
CreateReceipt(c) ==
  /\ pc[c] = "receipt"
  /\ receipt' = [receipt EXCEPT !.exists = TRUE]
  /\ Goto(c, "revalidate")
  /\ UNCHANGED <<env, scope, tc, ap, att, grant, effects, faults, loc>>

(* The first finalPolicyRevalidationFailure: nothing is reserved yet. *)
Revalidate(c) ==
  /\ pc[c] = "revalidate"
  /\ Goto(c, IF PolicyStillPermits(loc[c].tc, loc[c].input)
             THEN "reserve" ELSE "fail")
  /\ UNCHANGED <<env, scope, records, effects, faults, loc>>

(* executionAttemptBindingMatches: the stored tool call carries the evidence
   of the attempt, and an approved attempt has an unexpired approval of
   exactly this input. *)
ReservationBinds(c) ==
  LET t == loc[c].tc IN
  /\ tc.policy = t.policy /\ tc.decision = t.decision
  /\ tc.scoped = t.scoped /\ tc.seen = t.seen /\ tc.rev = t.rev
  /\ loc[c].via => /\ ap.status = "approved"
                   /\ ~ApprovalExpired
                   /\ ap.input = loc[c].input

(* Mutant: the attempt is reserved for the input first submitted, not for the
   one that was approved. *)
ReserveSubmitted(c) ==
  LET t == loc[c].tc IN
  /\ pc[c] = "reserve"
  /\ IF ReservationBinds(c) /\ att.state = "absent"
     THEN /\ att' = [att EXCEPT !.state = "reserved", !.owner = c,
                                !.mode = t.mode, !.input = t.input,
                                !.viaApproval = loc[c].via,
                                !.reservedAt = now]
          /\ Goto(c, IF t.mode = "local_mock" THEN "local_preflight"
                                              ELSE "grant_create")
          /\ UNCHANGED loc
     ELSE UNCHANGED att /\ Return(c)
  /\ UNCHANGED <<env, scope, tc, ap, grant, receipt, effects, faults>>

(* reserveExecutionAttemptAtomically: one attempt per tool call, ever.  Any
   other answer is a conflict that leaves the tool call as it is. *)
Reserve(c) ==
  LET t == loc[c].tc IN
  /\ pc[c] = "reserve"
  /\ IF ReservationBinds(c) /\ att.state = "absent"
     THEN /\ att' = [att EXCEPT !.state = "reserved", !.owner = c,
                                !.mode = t.mode, !.input = loc[c].input,
                                !.viaApproval = loc[c].via,
                                !.reservedAt = now]
          /\ loc' = [loc EXCEPT ![c].tc.input = loc[c].input]
          /\ Goto(c, IF t.mode = "local_mock" THEN "local_preflight"
                                              ELSE "grant_create")
     ELSE UNCHANGED att /\ Return(c)
  /\ UNCHANGED <<env, scope, tc, ap, grant, receipt, effects, faults>>

(* transitionExecutionAttemptAtomically without an exposure guard *)
OwnsAttempt(c, state) == att.owner = c /\ att.state = state

CompleteAttempt(c, from, to, next) ==
  IF OwnsAttempt(c, from)
  THEN att' = [att EXCEPT !.state = to] /\ Goto(c, next) /\ UNCHANGED loc
  ELSE UNCHANGED att /\ Return(c)

(* Mutant: the attempt is ended, the tool call forgotten. *)
FailAttemptOnly(c) ==
  /\ pc[c] = "fail_before"
  /\ att' = IF OwnsAttempt(c, "reserved")
            THEN [att EXCEPT !.state = "failed_before_dispatch"] ELSE att
  /\ Return(c)
  /\ UNCHANGED <<env, scope, tc, ap, grant, receipt, effects, faults>>

FailBeforeDispatch(c) ==
  /\ pc[c] = "fail_before"
  /\ CompleteAttempt(c, "reserved", "failed_before_dispatch", "fail")
  /\ UNCHANGED <<env, scope, tc, ap, grant, receipt, effects, faults>>

(* failToolCall writes its snapshot back with the input it was given ... *)
FailToolCall(c) ==
  /\ pc[c] = "fail"
  /\ tc' = [loc[c].tc EXCEPT !.status = "failed", !.input = loc[c].input]
  /\ Goto(c, "fail_receipt")
  /\ UNCHANGED <<env, scope, ap, att, grant, receipt, effects, faults, loc>>

(* ... and then the receipt's outcome, unconditionally. *)
FailReceipt(c) ==
  /\ pc[c] = "fail_receipt"
  /\ receipt' = [receipt EXCEPT !.outcome = "failed"]
  /\ Return(c)
  /\ UNCHANGED <<env, scope, tc, ap, att, grant, effects, faults>>

------------------------------------------------------------------------------
(* Local execution *)

ApprovalStillHolds(c) ==
  loc[c].via => ap.status = "approved" /\ ~ApprovalExpired

(* Local execution may be disabled or the tool unknown; otherwise policy and
   approval are checked again before an authorization is issued. *)
LocalPreflight(c) ==
  /\ pc[c] = "local_preflight"
  /\ \/ Goto(c, "fail_before")
     \/ /\ PolicyStillPermits(loc[c].tc, loc[c].input)
        /\ ApprovalStillHolds(c)
        /\ Goto(c, "local_bind")
  /\ UNCHANGED <<env, scope, records, effects, faults, loc>>

(* Mutant: the binding is checked against the approval, not the policy. *)
BindingHoldsByApproval(c, state) ==
  /\ att.state = state
  /\ ~loc[c].via => tc.input = loc[c].input
  /\ ApprovalStillHolds(c)

(* currentLocalExecutionAuthorizationBinding *)
BindingHolds(c, state) ==
  /\ att.state = state
  /\ ~loc[c].via => tc.input = loc[c].input
  /\ ApprovalStillHolds(c)
  /\ PolicyStillPermits(tc, loc[c].input)

LocalBind(c) ==
  /\ pc[c] = "local_bind"
  /\ Goto(c, IF BindingHolds(c, "reserved") THEN "local_dispatch"
                                            ELSE "fail_before")
  /\ UNCHANGED <<env, scope, records, effects, faults, loc>>

(* The durable dispatch, guarded by the exposure revision of the scope. *)
LocalDispatch(c) ==
  /\ pc[c] = "local_dispatch"
  /\ CASE OwnsAttempt(c, "reserved") /\ ExposureGuard(loc[c].tc) ->
            /\ att' = [att EXCEPT !.state = "dispatched"]
            /\ Goto(c, "local_recheck")
            /\ UNCHANGED loc
       [] OwnsAttempt(c, "reserved") /\ ~ExposureGuard(loc[c].tc) ->
            Goto(c, "fail_before") /\ UNCHANGED <<att, loc>>
       [] OTHER -> UNCHANGED att /\ Return(c)
  /\ UNCHANGED <<env, scope, tc, ap, grant, receipt, effects, faults>>

(* After the durable dispatch the binding is checked once more; from there
   to the call of the tool nothing is awaited. *)
LocalInvoke(c) ==
  /\ pc[c] = "local_recheck"
  /\ BindingHolds(c, "dispatched")
  /\ effects' = effects + 1
  /\ Goto(c, "local_await")
  /\ UNCHANGED <<env, scope, records, faults, loc>>

(* The binding no longer holds, the authorization's own lifetime is over, or
   the registry throws: dispatched, and yet the tool is not called. *)
LocalRefused(c) ==
  /\ pc[c] = "local_recheck"
  /\ Goto(c, "local_unknown")
  /\ UNCHANGED <<env, scope, records, effects, faults, loc>>

LocalUnknown(c) ==
  /\ pc[c] = "local_unknown"
  /\ CompleteAttempt(c, "dispatched", "unknown_outcome", "fail")
  /\ UNCHANGED <<env, scope, tc, ap, grant, receipt, effects, faults>>

(* The tool's promise settles. *)
LocalResult(c) ==
  /\ pc[c] = "local_await"
  /\ \/ CompleteAttempt(c, "dispatched", "succeeded", "local_write")
     \/ CompleteAttempt(c, "dispatched", "unknown_outcome", "fail")
  /\ UNCHANGED <<env, scope, tc, ap, grant, receipt, effects, faults>>

(* Mutant: the result is stored without being withheld. *)
LocalExecutedReleased(c) ==
  [loc[c].tc EXCEPT !.status = "executed", !.withheld = FALSE]

LocalExecuted(c) ==
  LET t == loc[c].tc
  IN  [t EXCEPT !.status = "executed",
                !.withheld = t.withheld \/ ExposureRequired(t)]

LocalWrite(c) ==
  /\ pc[c] = "local_write"
  /\ tc' = LocalExecuted(c)
  /\ loc' = [loc EXCEPT ![c].tc = LocalExecuted(c)]
  /\ Goto(c, "local_receipt")
  /\ UNCHANGED <<env, scope, ap, att, grant, receipt, effects, faults>>

(* Mutant: the call answers without releasing what it withholds. *)
LocalReceiptOnly(c) ==
  /\ pc[c] = "local_receipt"
  /\ receipt' = [receipt EXCEPT !.outcome = "succeeded"]
  /\ Return(c)
  /\ UNCHANGED <<env, scope, tc, ap, att, grant, effects, faults>>

LocalReceipt(c) ==
  /\ pc[c] = "local_receipt"
  /\ receipt' = [receipt EXCEPT !.outcome = "succeeded"]
  /\ IF ExposureRequired(loc[c].tc)
     THEN Goto(c, "local_expose") /\ UNCHANGED loc
     ELSE Return(c)
  /\ UNCHANGED <<env, scope, tc, ap, att, grant, effects, faults>>

(* recordContentExposureBeforeRelease *)
LocalExpose(c) ==
  /\ pc[c] = "local_expose"
  /\ RecordExposure(loc[c].tc)
  /\ Goto(c, "local_release")
  /\ UNCHANGED <<env, records, effects, faults, loc>>

LocalRelease(c) ==
  /\ pc[c] = "local_release"
  /\ tc' = [loc[c].tc EXCEPT !.withheld = FALSE]
  /\ Return(c)
  /\ UNCHANGED <<env, scope, ap, att, grant, receipt, effects, faults>>

LocalStep(c) ==
  \/ LocalPreflight(c) \/ LocalBind(c) \/ LocalDispatch(c)
  \/ LocalInvoke(c) \/ LocalRefused(c) \/ LocalUnknown(c) \/ LocalResult(c)
  \/ LocalWrite(c) \/ LocalReceipt(c) \/ LocalExpose(c) \/ LocalRelease(c)

------------------------------------------------------------------------------
(* Authorization of an external runner *)

(* createGrant stores the signed grant ... *)
GrantCreate(c) ==
  /\ pc[c] = "grant_create"
  /\ grant' = [status |-> "issued", input |-> loc[c].input,
               expiresAt |-> now + GrantTtl]
  /\ Goto(c, "grant_bind")
  /\ UNCHANGED <<env, scope, tc, ap, att, receipt, effects, faults, loc>>

(* ... and binds the reserved attempt to it. *)
GrantBind(c) ==
  /\ pc[c] = "grant_bind"
  /\ IF OwnsAttempt(c, "reserved")
     THEN att' = [att EXCEPT !.bound = TRUE] /\ Goto(c, "grant_audit")
     ELSE UNCHANGED att /\ Goto(c, "fail_before")
  /\ UNCHANGED <<env, scope, tc, ap, grant, receipt, effects, faults, loc>>

(* The grant is audited; binding it once more finds it bound already. *)
GrantAudit(c) ==
  /\ pc[c] = "grant_audit"
  /\ Goto(c, IF OwnsAttempt(c, "reserved") THEN "authorize" ELSE "fail_before")
  /\ UNCHANGED <<env, scope, records, effects, faults, loc>>

(* createGrant throws, possibly after it stored or bound the grant. *)
GrantUnavailable(c) ==
  /\ pc[c] \in {"grant_create", "grant_bind", "grant_audit"}
  /\ faults < MaxFaults
  /\ faults' = faults + 1
  /\ Goto(c, "fail_before")
  /\ UNCHANGED <<env, scope, records, effects, loc>>

Authorize(c) ==
  /\ pc[c] = "authorize"
  /\ tc' = [loc[c].tc EXCEPT !.status = "authorized"]
  /\ Return(c)
  /\ UNCHANGED <<env, scope, ap, att, grant, receipt, effects, faults>>

GrantStep(c) ==
  \/ GrantCreate(c) \/ GrantBind(c) \/ GrantAudit(c) \/ Authorize(c)

------------------------------------------------------------------------------
(* A runner consumes the grant *)

(* attemptMatchesGrant with requireGrantBinding *)
AttemptMatchesGrant ==
  att.mode = "external_grant" /\ att.input = grant.input /\ att.bound

(* currentToolCallMismatch = undefined *)
ToolCallMatchesGrant(t, recovering) ==
  /\ \/ t.status = "authorized"
     \/ recovering /\ t.status \in {"executed", "failed"}
  /\ t.status = "authorized" /\ ExposureRequired(t) => t.withheld
  /\ t.decision # "deny"
  /\ t.input = grant.input

(* currentApprovalMismatch = undefined *)
ApprovalMatchesGrant ==
  att.viaApproval => /\ ap.status = "approved"
                     /\ ~ApprovalExpired
                     /\ ap.input = grant.input

(* The grant is loaded and found usable for the input presented. *)
ConsumeBegin(c, input) ==
  /\ pc[c] = "idle"
  /\ grant.status = "issued"
  /\ ~GrantExpired
  /\ tc.policy = policy
  /\ input = grant.input
  /\ loc' = [loc EXCEPT ![c] = [NoLocals EXCEPT !.input = input]]
  /\ Goto(c, "consume_attempt")
  /\ UNCHANGED <<env, scope, records, effects, faults>>

ConsumeAttempt(c) ==
  /\ pc[c] = "consume_attempt"
  /\ IF att.state = "reserved" /\ AttemptMatchesGrant
     THEN Goto(c, "consume_tool") /\ UNCHANGED loc
     ELSE Return(c)
  /\ UNCHANGED <<env, scope, records, effects, faults>>

ConsumeToolCall(c) ==
  /\ pc[c] = "consume_tool"
  /\ IF ToolCallMatchesGrant(tc, FALSE)
     THEN /\ loc' = [loc EXCEPT ![c].tc = tc]
          /\ Goto(c, "consume_validate")
     ELSE Return(c)
  /\ UNCHANGED <<env, scope, records, effects, faults>>

(* The approval is loaded; then approval, policy (beforeDispatch) and the
   lifetime of the grant are checked without a further await. *)
ConsumeValidate(c) ==
  /\ pc[c] = "consume_validate"
  /\ IF /\ ApprovalMatchesGrant
        /\ PolicyStillPermits(loc[c].tc, loc[c].input)
        /\ ~GrantExpired
     THEN Goto(c, "consume_dispatch") /\ UNCHANGED loc
     ELSE Return(c)
  /\ UNCHANGED <<env, scope, records, effects, faults>>

(* Mutant: grant and attempt are not compared again, only the exposure is. *)
ConsumeDispatchUnchecked(c) ==
  /\ pc[c] = "consume_dispatch"
  /\ IF ExposureGuard(loc[c].tc)
     THEN /\ grant' = [grant EXCEPT !.status = "consumed"]
          /\ att' = [att EXCEPT !.state = "dispatched"]
          /\ effects' = effects + 1
     ELSE UNCHANGED <<grant, att, effects>>
  /\ Return(c)
  /\ UNCHANGED <<env, scope, tc, ap, receipt, faults>>

(* consumeExecutionGrantAndDispatchAttemptAtomically.  Dispatch hands the
   action to the runner, so from here on it may take effect. *)
ConsumeDispatch(c) ==
  /\ pc[c] = "consume_dispatch"
  /\ IF /\ grant.status = "issued"
        /\ att.state = "reserved" /\ att.bound
        /\ ExposureGuard(loc[c].tc)
     THEN /\ grant' = [grant EXCEPT !.status = "consumed"]
          /\ att' = [att EXCEPT !.state = "dispatched"]
          /\ effects' = effects + 1
     ELSE UNCHANGED <<grant, att, effects>>
  /\ Return(c)
  /\ UNCHANGED <<env, scope, tc, ap, receipt, faults>>

ConsumeStep(c) ==
  \/ ConsumeAttempt(c) \/ ConsumeToolCall(c) \/ ConsumeValidate(c)
  \/ ConsumeDispatch(c)

------------------------------------------------------------------------------
(* A runner reports an outcome *)

(* The grant is loaded; only a consumed one takes a report. *)
ReportBegin(c, report) ==
  /\ pc[c] = "idle"
  /\ grant.status = "consumed"
  /\ loc' = [loc EXCEPT ![c] = [NoLocals EXCEPT !.report = report]]
  /\ Goto(c, "report_tool")
  /\ UNCHANGED <<env, scope, records, effects, faults>>

ReportToolCall(c) ==
  /\ pc[c] = "report_tool"
  /\ loc' = [loc EXCEPT ![c].tc = tc]
  /\ Goto(c, "report_attempt")
  /\ UNCHANGED <<env, scope, records, effects, faults>>

(* For a classified call over MCP a result and an error come with the content
   the model sees, and what the transport made of the call comes without. *)
DeliveryAccepted(t, report) ==
  ExposureRequired(t) =>
    (report.body \in VisibleBodies
       <=> report.state \in {"succeeded", "failed_after_dispatch"})

(* A tool call that is terminal already is accepted only from a report that
   finds its attempt terminal too. *)
ReportAttempt(c) ==
  /\ pc[c] = "report_attempt"
  /\ IF /\ AttemptMatchesGrant
        /\ ToolCallMatchesGrant(loc[c].tc, att.state # "dispatched")
        /\ DeliveryAccepted(loc[c].tc, loc[c].report)
     THEN Goto(c, "report_outcome") /\ UNCHANGED loc
     ELSE Return(c)
  /\ UNCHANGED <<env, scope, records, effects, faults>>

(* legacyOutcomeForReport *)
LegacyOutcome(report) ==
  IF report.state = "succeeded" THEN "succeeded" ELSE "failed"

(* sameLegacyOutcome *)
ReceiptAgrees(report) ==
  \/ receipt.outcome = "none"
  \/ receipt.outcome = LegacyOutcome(report) /\ receipt.body = report.body

ReportReceiptCheck(c) ==
  /\ pc[c] = "report_outcome"
  /\ IF ReceiptAgrees(loc[c].report)
     THEN Goto(c, "report_commit") /\ UNCHANGED loc
     ELSE Return(c)
  /\ UNCHANGED <<env, scope, records, effects, faults>>

(* Mutant: a later report ends the attempt anew. *)
ReportTransitionAgain(c) ==
  /\ pc[c] = "report_commit"
  /\ att' = [att EXCEPT !.state = loc[c].report.state,
                        !.body = loc[c].report.body]
  /\ Goto(c, "report_receipt")
  /\ UNCHANGED <<env, scope, tc, ap, grant, receipt, effects, faults, loc>>

(* transitionExecutionAttemptAtomically: the first report ends the attempt, *)
ReportTransition(c) ==
  /\ pc[c] = "report_commit"
  /\ att.state = "dispatched"
  /\ att' = [att EXCEPT !.state = loc[c].report.state,
                        !.body = loc[c].report.body]
  /\ Goto(c, "report_receipt")
  /\ UNCHANGED <<env, scope, tc, ap, grant, receipt, effects, faults, loc>>

(* Mutant: an outcome of the same state counts as the same outcome. *)
ReportReplayByState(c) ==
  /\ pc[c] = "report_commit"
  /\ att.state # "dispatched"
  /\ IF att.state = loc[c].report.state
     THEN /\ loc' = [loc EXCEPT ![c].replay = TRUE]
          /\ Goto(c, "report_receipt")
     ELSE Return(c)
  /\ UNCHANGED <<env, scope, records, effects, faults>>

(* the same outcome again is a replay that reconciles what is missing, and
   a different one is a conflict. *)
ReportReplay(c) ==
  LET same == /\ att.state = loc[c].report.state
              /\ att.body = loc[c].report.body
  IN  /\ pc[c] = "report_commit"
      /\ att.state # "dispatched"
      /\ IF same
         THEN /\ loc' = [loc EXCEPT ![c].replay = TRUE]
              /\ Goto(c, "report_receipt")
         ELSE Return(c)
      /\ UNCHANGED <<env, scope, records, effects, faults>>

(* recordActionReceiptOutcomeAtomically: the first outcome stays. *)
ReportReceipt(c) ==
  /\ pc[c] = "report_receipt"
  /\ receipt' = IF receipt.outcome = "none"
                THEN [receipt EXCEPT !.outcome = LegacyOutcome(loc[c].report),
                                     !.body = loc[c].report.body]
                ELSE receipt
  /\ IF ReceiptAgrees(loc[c].report)
     THEN Goto(c, "report_write") /\ UNCHANGED loc
     ELSE Return(c)
  /\ UNCHANGED <<env, scope, tc, ap, att, grant, effects, faults>>

(* requiresContentExposureBeforeDelivery: whatever the report says is shown
   to the model, in a scope or not. *)
DeliveryExposes(c) ==
  Classified(loc[c].tc) /\ loc[c].report.body \in VisibleBodies

TerminalToolCall(c) ==
  [loc[c].tc EXCEPT
     !.status = IF loc[c].report.state = "succeeded" THEN "executed"
                                                     ELSE "failed",
     !.withheld = DeliveryExposes(c)]

(* A replay whose snapshot was terminal writes nothing; every other report
   writes the terminal form of its snapshot.  Without a scope there is nothing
   to record an exposure in: the report is refused and its result stays
   withheld. *)
ReportWrite(c) ==
  LET persisted == loc[c].replay /\ loc[c].tc.status # "authorized"
      delivered == IF persisted THEN loc[c].tc ELSE TerminalToolCall(c)
  IN  /\ pc[c] = "report_write"
      /\ tc' = IF persisted THEN tc ELSE delivered
      /\ IF DeliveryExposes(c) /\ delivered.withheld /\ delivered.scoped
         THEN /\ loc' = [loc EXCEPT ![c].tc = delivered]
              /\ Goto(c, "report_expose")
         ELSE Return(c)
      /\ UNCHANGED <<env, scope, ap, att, grant, receipt, effects, faults>>

(* Mutant: an exposure that could not be recorded is ignored. *)
ReportExposeIgnored(c) ==
  /\ pc[c] = "report_expose"
  /\ RecordExposure(loc[c].tc) \/ UNCHANGED scope
  /\ Goto(c, "report_release")
  /\ UNCHANGED <<env, records, effects, faults, loc>>

(* recordContentExposureBeforeDelivery *)
ReportExpose(c) ==
  /\ pc[c] = "report_expose"
  /\ RecordExposure(loc[c].tc)
  /\ Goto(c, "report_release")
  /\ UNCHANGED <<env, records, effects, faults, loc>>

ReportRelease(c) ==
  /\ pc[c] = "report_release"
  /\ tc' = [loc[c].tc EXCEPT !.withheld = FALSE]
  /\ Return(c)
  /\ UNCHANGED <<env, scope, ap, att, grant, receipt, effects, faults>>

ReportStep(c) ==
  \/ ReportToolCall(c) \/ ReportAttempt(c) \/ ReportReceiptCheck(c)
  \/ ReportTransition(c) \/ ReportReplay(c) \/ ReportReceipt(c)
  \/ ReportWrite(c) \/ ReportExpose(c) \/ ReportRelease(c)

ReservationStep(c) ==
  \/ CreateReceipt(c) \/ Revalidate(c) \/ Reserve(c)
  \/ FailBeforeDispatch(c) \/ FailToolCall(c) \/ FailReceipt(c)

ExecutionStep(c) ==
  \/ ReservationStep(c) \/ LocalStep(c) \/ GrantStep(c) \/ ConsumeStep(c)
  \/ ReportStep(c)

RunnerRequest(c) ==
  \/ \E input \in Inputs : ConsumeBegin(c, input)
  \/ \E report \in Reports : ReportBegin(c, report)
==============================================================================
