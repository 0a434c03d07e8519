----------------------------- MODULE ApprovalFlow -----------------------------
(***************************************************************************)
(* Submission of an action and the human decision on it:                   *)
(* ActionProxyService.submitToolCall, approveApproval, rejectApproval,     *)
(* cancelApproval and the lazy expiry of every approval read, over the     *)
(* store's atomic approval operations.                                     *)
(***************************************************************************)
EXTENDS GateState

execution == <<att, grant, receipt, effects>>

------------------------------------------------------------------------------
(* Submission *)

(* A keyed submission that finds no idempotency record: the policy version
   and the base evaluation are captured before the first await. *)
SubmitEvaluate(c, mode, scoped) ==
  /\ pc[c] = "idle"
  /\ tc.status = "absent"
  /\ loc' = [loc EXCEPT ![c] =
       [NoLocals EXCEPT !.at = now,
                        !.tc = [NoToolCall EXCEPT !.status = "submitted",
                                                  !.policy = policy,
                                                  !.mode = mode,
                                                  !.scoped = scoped]]]
  /\ Goto(c, "submit_influence")
  /\ UNCHANGED <<env, scope, records, effects, faults>>

(* The tool call the submission will store, given what the exposure lookup
   answered; a classified MCP result starts withheld. *)
DraftToolCall(draft, seen, rev) ==
  [draft EXCEPT !.seen = seen,
                !.rev = rev,
                !.decision = EffectiveDecision(OriginalRule(draft), seen),
                !.withheld = ExposureRequired(draft)]

(* evaluateInfluence: without a guard nothing is read. *)
SubmitInfluence(c) ==
  LET draft == loc[c].tc IN
  /\ pc[c] = "submit_influence"
  /\ loc' = [loc EXCEPT ![c].tc =
       IF OriginalRule(draft).guarded
       THEN DraftToolCall(draft, ObservedSources(draft.scoped),
                          IF draft.scoped THEN revision ELSE 0)
       ELSE DraftToolCall(draft, {}, 0)]
  /\ Goto(c, "submit_create")
  /\ UNCHANGED <<env, scope, records, effects, faults>>

(* The exposure lookup throws: unavailable evidence is unknown content. *)
SubmitInfluenceUnavailable(c) ==
  LET draft == loc[c].tc IN
  /\ pc[c] = "submit_influence"
  /\ OriginalRule(draft).guarded /\ draft.scoped
  /\ faults < MaxFaults
  /\ faults' = faults + 1
  /\ loc' = [loc EXCEPT ![c].tc = DraftToolCall(draft, {"unknown"}, -1)]
  /\ Goto(c, "submit_create")
  /\ UNCHANGED <<env, scope, records, effects>>

(* createToolCallIdempotentlyAtomically = created *)
SubmitCreate(c) ==
  LET t == loc[c].tc IN
  /\ pc[c] = "submit_create"
  /\ tc.status = "absent"
  /\ tc' = t
  /\ CASE t.decision = "deny" -> Goto(c, "submit_block") /\ UNCHANGED loc
       [] t.decision = "require_approval" ->
            Goto(c, "submit_pend") /\ UNCHANGED loc
       [] OTHER -> /\ Goto(c, "receipt")
                   /\ loc' = [loc EXCEPT ![c].input = OriginalInput,
                                         ![c].via = FALSE]
  /\ UNCHANGED <<env, scope, ap, execution, faults>>

(* createToolCallIdempotentlyAtomically = replay: the stored tool call is
   returned and nothing of the lifecycle is run again. *)
SubmitReplay(c) ==
  /\ pc[c] = "submit_create"
  /\ tc.status # "absent"
  /\ Return(c)
  /\ UNCHANGED <<env, scope, records, effects, faults>>

SubmitBlock(c) ==
  /\ pc[c] = "submit_block"
  /\ tc' = [loc[c].tc EXCEPT !.status = "blocked"]
  /\ Return(c)
  /\ UNCHANGED <<env, scope, ap, execution, faults>>

SubmitPend(c) ==
  /\ pc[c] = "submit_pend"
  /\ tc' = [loc[c].tc EXCEPT !.status = "pending_approval"]
  /\ Goto(c, "submit_approval")
  /\ UNCHANGED <<env, scope, ap, execution, faults, loc>>

(* createApproval; the authorization's lifetime starts when the call did. *)
SubmitApproval(c) ==
  /\ pc[c] = "submit_approval"
  /\ ap' = [status |-> "pending", votes |-> {}, input |-> OriginalInput,
            expiresAt |-> loc[c].at + ApprovalTtl]
  /\ Return(c)
  /\ UNCHANGED <<env, scope, tc, execution, faults>>

SubmitStep(c) ==
  \/ SubmitInfluence(c)
  \/ SubmitCreate(c)
  \/ SubmitReplay(c)
  \/ SubmitBlock(c)
  \/ SubmitPend(c)
  \/ SubmitApproval(c)

------------------------------------------------------------------------------
(* Approval *)

(* assertCanDecideApproval *)
CanDecide(p) ==
  /\ p \in Approvers
  /\ SeparationOfDuties => p # Requester

(* The first, route-facing load: only its refusals matter. *)
ApproveBegin(c, p, input) ==
  /\ pc[c] = "idle"
  /\ ap.status = "pending"
  /\ CanDecide(p)
  /\ loc' = [loc EXCEPT ![c] = [NoLocals EXCEPT !.who = p, !.input = input]]
  /\ Goto(c, "approve_load")
  /\ UNCHANGED <<env, scope, records, effects, faults>>

(* The authoritative load of the approval. *)
ApproveLoad(c) ==
  /\ pc[c] = "approve_load"
  /\ IF ap.status = "pending"
     THEN Goto(c, "approve_check") /\ UNCHANGED loc
     ELSE Return(c)
  /\ UNCHANGED <<env, scope, records, effects, faults>>

EditPermitted(input) ==
  input # OriginalInput => ~OriginalOnly /\ RequiredApprovals = 1

(* What approveApproval requires of the tool call it loaded and of the active
   policy before it asks the store. *)
ApprovalChecks(t, input) ==
  /\ t.status = "pending_approval"
  /\ EditPermitted(input)
  /\ ApprovalPolicyCurrent(t, input)

(* The tool call is loaded; expiry, edits and policy are checked and the
   guard takes the active policy hash, all before the next await. *)
ApproveCheck(c) ==
  /\ pc[c] = "approve_check"
  /\ IF ApprovalExpired
     THEN /\ loc' = [loc EXCEPT ![c].tc = tc]
          /\ Goto(c, "expire")
     ELSE IF ApprovalChecks(tc, loc[c].input)
     THEN /\ loc' = [loc EXCEPT ![c].tc = tc, ![c].policy = policy]
          /\ Goto(c, "approve_commit")
     ELSE Return(c)
  /\ UNCHANGED <<env, scope, records, effects, faults>>

(* approvalAuthorizationFailure = undefined, against the stored tool call *)
AuthorizationHolds(activePolicy) ==
  /\ activePolicy = tc.policy
  /\ tc.status = "pending_approval"

(* The compare-and-set of a vote gets as far as its expiry check. *)
VoteReachesExpiry(c) ==
  /\ ap.status = "pending"
  /\ ExposureGuard(loc[c].tc)
  /\ AuthorizationHolds(loc[c].policy)

(* ... and it is the first of this principal, for the input of the others *)
VoteIsAdmissible(c) ==
  /\ VoteReachesExpiry(c)
  /\ ~ApprovalExpired
  /\ \A v \in ap.votes : v.input = loc[c].input
  /\ \A v \in ap.votes : v.who # loc[c].who

VotesWith(c) == ap.votes \cup {[who |-> loc[c].who, input |-> loc[c].input]}

(* Mutant: the last vote is counted twice. *)
QuorumReachedEarly(votes) == Cardinality(votes) + 1 >= RequiredApprovals

QuorumReached(votes) == Cardinality(votes) >= RequiredApprovals

(* recordApprovalDecisionAtomically = recorded *)
ApproveRecord(c) ==
  /\ pc[c] = "approve_commit"
  /\ VoteIsAdmissible(c)
  /\ ~QuorumReached(VotesWith(c))
  /\ ap' = [ap EXCEPT !.votes = VotesWith(c)]
  /\ Return(c)
  /\ UNCHANGED <<env, scope, tc, execution, faults>>

(* recordApprovalDecisionAtomically = finalized: this call goes on to execute *)
ApproveFinalize(c) ==
  /\ pc[c] = "approve_commit"
  /\ VoteIsAdmissible(c)
  /\ QuorumReached(VotesWith(c))
  /\ ap' = [ap EXCEPT !.votes = VotesWith(c), !.input = loc[c].input,
                      !.status = "approved"]
  /\ loc' = [loc EXCEPT ![c].via = TRUE]
  /\ Goto(c, "receipt")
  /\ UNCHANGED <<env, scope, tc, execution, faults>>

(* recordApprovalDecisionAtomically = expired: the store expires it itself *)
ApproveExpires(c) ==
  /\ pc[c] = "approve_commit"
  /\ VoteReachesExpiry(c)
  /\ ApprovalExpired
  /\ ap' = [ap EXCEPT !.status = "expired"]
  /\ Goto(c, "terminalize")
  /\ UNCHANGED <<env, scope, tc, execution, faults, loc>>

(* every other outcome is a conflict *)
ApproveConflict(c) ==
  /\ pc[c] = "approve_commit"
  /\ ~VoteIsAdmissible(c)
  /\ ~(VoteReachesExpiry(c) /\ ApprovalExpired)
  /\ Return(c)
  /\ UNCHANGED <<env, scope, records, effects, faults>>

ApproveStep(c) ==
  \/ ApproveLoad(c)
  \/ ApproveCheck(c)
  \/ ApproveRecord(c)
  \/ ApproveFinalize(c)
  \/ ApproveExpires(c)
  \/ ApproveConflict(c)

------------------------------------------------------------------------------
(* Rejection, cancellation and the lazy expiry of reads *)

(* getApproval, listPendingApprovals, the review and the first load of
   rejectApproval and cancelApproval; a reader need not be an approver. *)
CloseBegin(c, p, kind) ==
  /\ pc[c] = "idle"
  /\ ap.status = "pending"
  /\ kind # "read" => CanDecide(p)
  /\ loc' = [loc EXCEPT ![c] = [NoLocals EXCEPT !.who = p, !.kind = kind]]
  /\ Goto(c, "close_check")
  /\ UNCHANGED <<env, scope, records, effects, faults>>

(* The tool call is loaded and the approval expired if it is due.  A reader
   is done; a decision loads both records once more and checks again. *)
CloseCheck(c) ==
  /\ pc[c] = "close_check"
  /\ CASE ApprovalExpired ->
            /\ loc' = [loc EXCEPT ![c].tc = tc]
            /\ Goto(c, "expire")
       [] ~ApprovalExpired /\ loc[c].kind = "read" -> Return(c)
       [] ~ApprovalExpired /\ loc[c].kind # "read" /\ loc[c].pass = 1 ->
            Goto(c, "close_load") /\ UNCHANGED loc
       [] OTHER ->
            /\ loc' = [loc EXCEPT ![c].tc = tc]
            /\ Goto(c, "close_commit")
  /\ UNCHANGED <<env, scope, records, effects, faults>>

CloseLoad(c) ==
  /\ pc[c] = "close_load"
  /\ IF ap.status = "pending"
     THEN /\ loc' = [loc EXCEPT ![c].pass = 2]
          /\ Goto(c, "close_check")
     ELSE Return(c)
  /\ UNCHANGED <<env, scope, records, effects, faults>>

(* Mutant: the refusal trusts the tool call's status and forgets that the
   approval may have been decided meanwhile. *)
CloseAuthorizedByToolCall(c) ==
  /\ loc[c].tc.status = "pending_approval"
  /\ tc.status = "pending_approval"

(* safeTerminalAuthorizationGuard and approvalAuthorizationFailure: both the
   loaded and the stored tool call must still be pending; the active policy
   plays no part in a refusal. *)
CloseAuthorized(c) ==
  /\ ap.status = "pending"
  /\ loc[c].tc.status = "pending_approval"
  /\ tc.status = "pending_approval"

(* rejectApprovalAtomically, cancelApprovalAtomically *)
CloseCommit(c) ==
  /\ pc[c] = "close_commit"
  /\ CloseAuthorized(c)
  /\ ~ApprovalExpired
  /\ \/ /\ loc[c].kind = "reject"
        /\ ap' = [ap EXCEPT !.status = "rejected"]
        /\ Goto(c, "reject_write")
     \/ /\ loc[c].kind = "cancel"
        /\ ap' = [ap EXCEPT !.status = "cancelled"]
        /\ Goto(c, "terminalize")
  /\ UNCHANGED <<env, scope, tc, execution, faults, loc>>

CloseExpires(c) ==
  /\ pc[c] = "close_commit"
  /\ CloseAuthorized(c)
  /\ ApprovalExpired
  /\ ap' = [ap EXCEPT !.status = "expired"]
  /\ Goto(c, "terminalize")
  /\ UNCHANGED <<env, scope, tc, execution, faults, loc>>

CloseConflict(c) ==
  /\ pc[c] = "close_commit"
  /\ ~CloseAuthorized(c)
  /\ Return(c)
  /\ UNCHANGED <<env, scope, records, effects, faults>>

(* rejectApproval writes its snapshot back whatever is stored now. *)
RejectWrite(c) ==
  /\ pc[c] = "reject_write"
  /\ tc' = [loc[c].tc EXCEPT !.status = "rejected"]
  /\ Return(c)
  /\ UNCHANGED <<env, scope, ap, execution, faults>>

(* Mutant: the loser of the compare-and-set ends the tool call as well. *)
ExpireBlind(c) ==
  /\ pc[c] = "expire"
  /\ ap' = IF ap.status = "pending"
           THEN [ap EXCEPT !.status = "expired"] ELSE ap
  /\ Goto(c, "terminalize")
  /\ UNCHANGED <<env, scope, tc, execution, faults, loc>>

(* Mutant: the winner leaves the tool call to somebody else. *)
ExpireOnly(c) ==
  /\ pc[c] = "expire"
  /\ ap' = IF ap.status = "pending" /\ ApprovalExpired
           THEN [ap EXCEPT !.status = "expired"] ELSE ap
  /\ Return(c)
  /\ UNCHANGED <<env, scope, tc, execution, faults>>

(* expireApprovalAtomically: the winner also ends the tool call. *)
Expire(c) ==
  /\ pc[c] = "expire"
  /\ IF ap.status = "pending" /\ ApprovalExpired
     THEN /\ ap' = [ap EXCEPT !.status = "expired"]
          /\ Goto(c, "terminalize")
          /\ UNCHANGED loc
     ELSE /\ UNCHANGED ap
          /\ Return(c)
  /\ UNCHANGED <<env, scope, tc, execution, faults>>

(* Mutant: the tool call takes over the approval's status. *)
TerminalizeAsApproval(c) ==
  /\ pc[c] = "terminalize"
  /\ tc' = [loc[c].tc EXCEPT !.status = ap.status]
  /\ Return(c)
  /\ UNCHANGED <<env, scope, ap, execution, faults>>

(* terminalizeToolCall, from the snapshot *)
Terminalize(c) ==
  /\ pc[c] = "terminalize"
  /\ tc' = IF loc[c].tc.status = "pending_approval"
           THEN [loc[c].tc EXCEPT !.status = "rejected"]
           ELSE tc
  /\ Return(c)
  /\ UNCHANGED <<env, scope, ap, execution, faults>>

CloseStep(c) ==
  \/ CloseCheck(c)
  \/ CloseLoad(c)
  \/ CloseCommit(c)
  \/ CloseExpires(c)
  \/ CloseConflict(c)
  \/ RejectWrite(c)
  \/ Expire(c)
  \/ Terminalize(c)

ApprovalStep(c) == SubmitStep(c) \/ ApproveStep(c) \/ CloseStep(c)

ApprovalRequest(c) ==
  \/ \E mode \in Modes, scoped \in Scopes : SubmitEvaluate(c, mode, scoped)
  \/ \E p \in Principals, input \in Inputs : ApproveBegin(c, p, input)
  \/ \E p \in Principals, kind \in {"reject", "cancel", "read"} :
       CloseBegin(c, p, kind)
==============================================================================
