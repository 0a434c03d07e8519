------------------------- MODULE ActionGateTruthProofs -------------------------
(***************************************************************************)
(* Proofs that the records of an action agree and stay true: whoever       *)
(* writes the tool call owns the action or acts on what a compare-and-set  *)
(* has settled, so tool call, approval, attempt and receipt tell one       *)
(* story; every snapshot carries the evidence the submission stored;       *)
(* nothing classified is shown before it counts as exposed; and what is    *)
(* final stays.                                                            *)
(***************************************************************************)
EXTENDS ActionGateProofs

------------------------------------------------------------------------------
(* Moves *)

(* Call c goes to an await; the other calls stay where they are. *)
Moves(c, label) ==
  /\ pc' = [pc EXCEPT ![c] = label]
  /\ \A d \in Calls : d # c => loc'[d] = loc[d]

LEMMA MoveOne ==
  ASSUME PcTypes, NEW c \in Calls, NEW label, Moves(c, label)
  PROVE  /\ pc'[c] = label
         /\ \A d \in Calls : d # c => pc'[d] = pc[d] /\ loc'[d] = loc[d]
BY DEF Moves, PcTypes

(* Whoever goes on keeps its snapshots, or changes none but its own. *)
LEMMA GotoMoves ==
  ASSUME NEW c \in Calls, NEW label, Goto(c, label),
         \A d \in Calls : d # c => loc'[d] = loc[d]
  PROVE  Moves(c, label)
BY DEF Goto, Moves

LEMMA ReturnMoves ==
  ASSUME LocTypes, NEW c \in Calls, Return(c)
  PROVE  Moves(c, "idle")
BY DEF Return, Moves, LocTypes

------------------------------------------------------------------------------
(* Ownership *)

(* A call that does not own the action claims nothing of an owner. *)
LEMMA VisitorsDoNotOwn ==
  ASSUME NEW d \in Calls, ~Owns(d)'
  PROVE  OwnerClaim(d)'
BY DEF OwnerClaim, Owns, OwnerPcs, UntoldPcs, ToldPcs, CarryingPcs, ReservedPcs,
   DispatchedPcs

(* The claims of the others and the story of the records are all a step has
   to keep, besides the claims of the call that makes it. *)
LEMMA StepOwnership ==
  ASSUME PcTypes, OwnershipInv, NEW c \in Calls, NEW label, Moves(c, label),
         label \in OwnerPcs => Owns(c) \/ \A d \in Calls : ~Owns(d),
         \A d \in Calls : d # c => OwnerClaim(d)' /\ VisitorClaim(d)',
         OwnerClaim(c)', VisitorClaim(c)',
         Story', ToolCallTruth', OutcomeAgreement'
  PROVE  OwnershipInv'
<1>1. /\ pc'[c] = label
      /\ \A d \in Calls : d # c => pc'[d] = pc[d]
  BY MoveOne
<1>2. \A d, e \in Calls : Owns(d) /\ Owns(e) => d = e
  BY DEF OwnershipInv, OneOwner
<1>3. OneOwner'
  BY <1>1, <1>2 DEF OneOwner, Owns
<1> QED BY <1>3 DEF OwnershipInv

(* A step that writes no record. *)
LEMMA QuietOwnership ==
  ASSUME PcTypes, OwnershipInv, NEW c \in Calls, NEW label, Moves(c, label),
         UNCHANGED records, label \in OwnerPcs => Owns(c),
         OwnerClaim(c)', VisitorClaim(c)'
  PROVE  OwnershipInv'
<1>1. \A d \in Calls : d # c => pc'[d] = pc[d] /\ loc'[d] = loc[d]
  BY MoveOne
<1>2. UNCHANGED <<tc, ap, att, grant, receipt>>
  BY DEF records
<1>3. Story' /\ ToolCallTruth' /\ OutcomeAgreement'
  BY <1>2 DEF OwnershipInv, Story, ToolCallTruth, OutcomeAgreement
<1>4. ASSUME NEW d \in Calls, d # c
      PROVE  OwnerClaim(d)' /\ VisitorClaim(d)'
  <2>1. OwnerClaim(d) /\ VisitorClaim(d)
    BY DEF OwnershipInv
  <2>2. pc'[d] = pc[d] /\ loc'[d] = loc[d]
    BY <1>1, <1>4
  <2>3. OwnerClaim(d)'
    BY <1>2, <2>1, <2>2 DEF OwnerClaim, Owns
  <2>4. VisitorClaim(d)'
    BY <1>2, <2>1, <2>2 DEF VisitorClaim, AgreesWithAttempt, LegacyOutcome
  <2> QED BY <2>3, <2>4
<1> QED BY <1>3, <1>4, StepOwnership

(* While a call owns the action, the others only decide on the approval or
   look for a grant to consume. *)
LEMMA OwnerActs ==
  ASSUME PcTypes, OwnershipInv, NEW c \in Calls, NEW label, Moves(c, label),
         Owns(c),
         ap'.status = "absent" => ap.status = "absent",
         tc.status \in {"authorized", "executed", "failed"} =>
           tc'.status \in {"authorized", "executed", "failed"},
         OwnerClaim(c)', VisitorClaim(c)',
         Story', ToolCallTruth', OutcomeAgreement'
  PROVE  OwnershipInv'
<1>1. \A d \in Calls : d # c => pc'[d] = pc[d] /\ loc'[d] = loc[d]
  BY MoveOne
<1>2. ASSUME NEW d \in Calls, d # c
      PROVE  OwnerClaim(d)' /\ VisitorClaim(d)'
  <2>1. OwnerClaim(c) /\ VisitorClaim(d)
    BY DEF OwnershipInv
  <2>2. ~Owns(d)
    BY <1>2 DEF OwnershipInv, OneOwner
  <2>3. pc'[d] = pc[d] /\ loc'[d] = loc[d]
    BY <1>1, <1>2
  <2>4. OwnerClaim(d)'
    BY <2>2, <2>3, VisitorsDoNotOwn DEF Owns
  <2>5. grant.status # "consumed" /\ ap.status \notin Refused
    BY <2>1 DEF OwnerClaim, Refused
  <2>6. VisitorClaim(d)'
    BY <2>1, <2>3, <2>5 DEF VisitorClaim, EndedPcs, ReportPath
  <2> QED BY <2>4, <2>6
<1> QED BY <1>2, StepOwnership

(* Once the grant is consumed nobody owns the action.  Only the first report
   ends the attempt, and only the first records the receipt's outcome. *)
LEMMA ReportActs ==
  ASSUME PcTypes, OwnershipInv, NEW c \in Calls, NEW label, Moves(c, label),
         label \notin OwnerPcs,
         grant.status = "consumed", UNCHANGED <<ap, grant>>,
         tc'.status \in {"authorized", "executed", "failed"},
         att' = att \/ att.state = "dispatched",
         receipt' = receipt \/ receipt.outcome = "none",
         \A d \in Calls : loc[d].report \in Reports,
         OwnerClaim(c)', VisitorClaim(c)',
         Story', ToolCallTruth', OutcomeAgreement'
  PROVE  OwnershipInv'
<1>1. \A d \in Calls : d # c => pc'[d] = pc[d] /\ loc'[d] = loc[d]
  BY MoveOne
<1>2. ASSUME NEW d \in Calls, d # c
      PROVE  OwnerClaim(d)' /\ VisitorClaim(d)'
  <2>1. OwnerClaim(d) /\ VisitorClaim(d)
    BY DEF OwnershipInv
  <2>2. ~Owns(d)
    BY <2>1 DEF OwnerClaim
  <2>3. pc'[d] = pc[d] /\ loc'[d] = loc[d]
    BY <1>1, <1>2
  <2>4. OwnerClaim(d)'
    BY <2>2, <2>3, VisitorsDoNotOwn DEF Owns
  <2>5. pc[d] \in EndedPcs => att' = att
    BY <2>1 DEF VisitorClaim, Reports, ReportStates
  <2>6. pc[d] \in EndedPcs \ {"report_receipt"} => receipt' = receipt
    BY <2>1 DEF VisitorClaim, LegacyOutcome
  <2>7. pc[d] \in ReportPath \cup {"report_attempt"} =>
          AgreesWithAttempt(loc[d].tc.status)'
    BY <2>1, <2>3 DEF VisitorClaim, AgreesWithAttempt
  <2>8. VisitorClaim(d)'
    BY <2>1, <2>3, <2>5, <2>6, <2>7 DEF VisitorClaim, LegacyOutcome
  <2> QED BY <2>4, <2>8
<1> QED BY <1>2, StepOwnership

(* A pending approval is decided while nobody owns the action. *)
LEMMA PendingIsUnowned ==
  ASSUME OwnershipInv, RefusalInv, ap.status = "pending"
  PROVE  /\ \A d \in Calls : ~Owns(d)
         /\ tc.status = "pending_approval" /\ receipt.outcome = "none"
         /\ att.state = "absent" /\ grant.status = "absent"
         /\ att.body = NoBody
BY DEF OwnershipInv, RefusalInv, OwnerClaim, Story

LEMMA DecisionActs ==
  ASSUME PcTypes, OwnershipInv, RefusalInv, NEW c \in Calls, NEW label,
         Moves(c, label), ap.status = "pending",
         ap'.status \in {"pending", "approved"} \cup Refused,
         UNCHANGED <<tc, att, grant, receipt>>,
         label \in OwnerPcs => label = "receipt" /\ ap'.status = "approved",
         VisitorClaim(c)'
  PROVE  OwnershipInv'
<1>1. /\ pc'[c] = label
      /\ \A d \in Calls : d # c => pc'[d] = pc[d] /\ loc'[d] = loc[d]
  BY MoveOne
<1>2. /\ \A d \in Calls : ~Owns(d)
      /\ tc.status = "pending_approval" /\ receipt.outcome = "none"
      /\ att.state = "absent" /\ grant.status = "absent"
      /\ att.body = NoBody
  BY PendingIsUnowned
<1>3. ASSUME NEW d \in Calls, d # c
      PROVE  OwnerClaim(d)' /\ VisitorClaim(d)'
  <2>1. VisitorClaim(d)
    BY DEF OwnershipInv
  <2>2. pc'[d] = pc[d] /\ loc'[d] = loc[d]
    BY <1>1, <1>3
  <2>3. OwnerClaim(d)'
    BY <1>2, <2>2, VisitorsDoNotOwn DEF Owns
  <2>4. VisitorClaim(d)'
    BY <1>2, <2>1, <2>2 DEF VisitorClaim, EndedPcs, ReportPath, Refused
  <2> QED BY <2>3, <2>4
<1>4. OwnerClaim(c)'
  BY <1>1, <1>2 DEF OwnerClaim, Owns, OwnerPcs, UntoldPcs, ToldPcs, CarryingPcs,
     ReservedPcs, DispatchedPcs
<1>5. Story'
  BY <1>2 DEF OwnershipInv, Story, Refused
<1>6. ToolCallTruth' /\ OutcomeAgreement'
  BY <1>2 DEF OwnershipInv, ToolCallTruth, OutcomeAgreement
<1> QED BY <1>2, <1>3, <1>4, <1>5, <1>6, StepOwnership

(* A closed approval ends its tool call while nobody owns the action. *)
LEMMA ClosureActs ==
  ASSUME PcTypes, OwnershipInv, RefusalInv, NEW c \in Calls, Moves(c, "idle"),
         ap.status \in Refused, tc' = tc \/ tc'.status = "rejected",
         UNCHANGED <<ap, att, grant, receipt>>
  PROVE  OwnershipInv'
<1>1. /\ pc'[c] = "idle"
      /\ \A d \in Calls : d # c => pc'[d] = pc[d] /\ loc'[d] = loc[d]
  BY MoveOne
<1>2. /\ tc.status \in {"pending_approval", "rejected"}
      /\ tc'.status \in {"pending_approval", "rejected"}
      /\ att.state = "absent" /\ grant.status = "absent"
      /\ tc'.status = "pending_approval" => tc' = tc
      /\ ap.status \notin {"absent", "pending", "approved"}
  BY DEF OwnershipInv, RefusalInv, Story, Refused
<1>3. ASSUME NEW d \in Calls, d # c
      PROVE  OwnerClaim(d)' /\ VisitorClaim(d)'
  <2>1. OwnerClaim(d) /\ VisitorClaim(d)
    BY DEF OwnershipInv
  <2>2. pc'[d] = pc[d] /\ loc'[d] = loc[d]
    BY <1>1, <1>3
  <2>3. ~Owns(d)
    BY <1>2, <2>1 DEF OwnerClaim
  <2>4. OwnerClaim(d)'
    BY <2>2, <2>3, VisitorsDoNotOwn DEF Owns
  <2>5. VisitorClaim(d)'
    BY <1>2, <2>1, <2>2 DEF VisitorClaim, EndedPcs, ReportPath
  <2> QED BY <2>4, <2>5
<1>4. OwnerClaim(c)' /\ VisitorClaim(c)'
  BY <1>1 DEF OwnerClaim, VisitorClaim, Owns, OwnerPcs, UntoldPcs, ToldPcs,
     CarryingPcs, ReservedPcs, DispatchedPcs, DecidingPcs, ClosedPcs, EndedPcs,
     ReportPath
<1>5. Story'
  BY <1>2 DEF OwnershipInv, Story
<1>6. ToolCallTruth' /\ OutcomeAgreement'
  BY <1>2 DEF OwnershipInv, ToolCallTruth, OutcomeAgreement
<1>7. "idle" \notin OwnerPcs
  BY DEF OwnerPcs, UntoldPcs, ToldPcs, CarryingPcs, ReservedPcs, DispatchedPcs
<1> QED BY <1>3, <1>4, <1>5, <1>6, <1>7, StepOwnership

------------------------------------------------------------------------------
(* Records that stay *)

(* At these awaits a call relies on nothing. *)
FreePcs == {"idle", "consume_attempt", "consume_tool"}

LEMMA FreeClaims ==
  ASSUME NEW c \in Calls, pc'[c] \in FreePcs
  PROVE  /\ OwnerClaim(c)' /\ VisitorClaim(c)'
         /\ pc'[c] \notin OwnerPcs
BY DEF FreePcs, OwnerClaim, VisitorClaim, Owns, OwnerPcs, UntoldPcs, ToldPcs,
   CarryingPcs, ReservedPcs, DispatchedPcs, DecidingPcs, ClosedPcs, EndedPcs,
   ReportPath

LEMMA FreeOwnership ==
  ASSUME PcTypes, OwnershipInv, NEW c \in Calls, NEW label \in FreePcs,
         Moves(c, label), UNCHANGED records
  PROVE  OwnershipInv'
<1>1. pc'[c] = label
  BY MoveOne
<1> QED BY <1>1, FreeClaims, QuietOwnership

(* A call may give up at any await. *)
LEMMA ReturnOwnership ==
  ASSUME PcTypes, LocTypes, OwnershipInv, NEW c \in Calls, Return(c),
         UNCHANGED records
  PROVE  OwnershipInv'
BY ReturnMoves, FreeOwnership DEF FreePcs

(* A draft is on its way to the store. *)
LEMMA DraftClaims ==
  ASSUME NEW c \in Calls, pc'[c] \in {"submit_influence", "submit_create"},
         loc'[c].tc.status = "submitted"
  PROVE  /\ OwnerClaim(c)' /\ VisitorClaim(c)'
         /\ pc'[c] \notin OwnerPcs
BY DEF OwnerClaim, VisitorClaim, Owns, OwnerPcs, UntoldPcs, ToldPcs,
   CarryingPcs, ReservedPcs, DispatchedPcs, DecidingPcs, ClosedPcs, EndedPcs,
   ReportPath

LEMMA DraftOwnership ==
  ASSUME PcTypes, OwnershipInv, NEW c \in Calls,
         NEW label \in {"submit_influence", "submit_create"},
         Moves(c, label), UNCHANGED records, loc'[c].tc.status = "submitted"
  PROVE  OwnershipInv'
<1>1. pc'[c] = label
  BY MoveOne
<1> QED BY <1>1, DraftClaims, QuietOwnership

(* There is an approval to decide on. *)
LEMMA DecideClaims ==
  ASSUME NEW c \in Calls, pc'[c] \in DecidingPcs, ap'.status # "absent"
  PROVE  /\ OwnerClaim(c)' /\ VisitorClaim(c)'
         /\ pc'[c] \notin OwnerPcs
BY DEF OwnerClaim, VisitorClaim, Owns, OwnerPcs, UntoldPcs, ToldPcs,
   CarryingPcs, ReservedPcs, DispatchedPcs, DecidingPcs, ClosedPcs, EndedPcs,
   ReportPath

LEMMA DecideOwnership ==
  ASSUME PcTypes, OwnershipInv, NEW c \in Calls, NEW label \in DecidingPcs,
         Moves(c, label), UNCHANGED records, ap.status # "absent"
  PROVE  OwnershipInv'
<1>1. pc'[c] = label
  BY MoveOne
<1>2. ap'.status # "absent"
  BY DEF records
<1> QED BY <1>1, <1>2, DecideClaims, QuietOwnership

(* A refusal has been settled and waits to be written. *)
LEMMA ClosedClaims ==
  ASSUME NEW c \in Calls, pc'[c] \in ClosedPcs, ap'.status \in Refused
  PROVE  /\ VisitorClaim(c)'
         /\ pc'[c] \notin OwnerPcs
BY DEF VisitorClaim, OwnerPcs, UntoldPcs, ToldPcs, CarryingPcs, ReservedPcs,
   DispatchedPcs, DecidingPcs, ClosedPcs, EndedPcs, ReportPath

(* An owner is no visitor. *)
LEMMA OwnersDoNotVisit ==
  ASSUME NEW c \in Calls, pc'[c] \in OwnerPcs
  PROVE  VisitorClaim(c)'
BY DEF VisitorClaim, OwnerPcs, UntoldPcs, ToldPcs, CarryingPcs, ReservedPcs,
   DispatchedPcs, DecidingPcs, ClosedPcs, EndedPcs, ReportPath

------------------------------------------------------------------------------
(* Approval steps *)

(* Votes are counted, and one of them completes the quorum. *)
LEMMA ApproveStepOwnership ==
  ASSUME TypeOK, RefusalInv, OwnershipInv, NEW c \in Calls, ApproveStep(c)
  PROVE  OwnershipInv'
<1> PcTypes /\ LocTypes
  BY DEF TypeOK
<1>0. pc[c] \in DecidingPcs => ap.status # "absent"
  BY DEF OwnershipInv, VisitorClaim
<1>00. {"approve_check", "approve_commit", "expire"} \subseteq DecidingPcs
  BY DEF DecidingPcs
<1>1. CASE ApproveLoad(c)
  <2>1. CASE ap.status = "pending"
    <3>1. Moves(c, "approve_check") /\ UNCHANGED records
      BY <1>1, <2>1, GotoMoves DEF ApproveLoad
    <3> QED BY <1>00, <2>1, <3>1, DecideOwnership
  <2>2. CASE ap.status # "pending"
    BY <1>1, <2>2, ReturnOwnership DEF ApproveLoad
  <2> QED BY <2>1, <2>2
<1>2. CASE ApproveCheck(c)
  <2>1. ap.status # "absent" /\ UNCHANGED records
    BY <1>0, <1>00, <1>2 DEF ApproveCheck
  <2>2. \/ Return(c)
        \/ Moves(c, "expire")
        \/ Moves(c, "approve_commit")
    BY <1>2, GotoMoves DEF ApproveCheck, LocTypes
  <2> QED BY <1>00, <2>1, <2>2, ReturnOwnership, DecideOwnership
<1>3. CASE ApproveRecord(c)
  <2>1. /\ ap.status = "pending" /\ Moves(c, "idle")
        /\ UNCHANGED <<tc, att, grant, receipt>>
    BY <1>3, ReturnMoves
       DEF ApproveRecord, VoteIsAdmissible, VoteReachesExpiry, execution
  <2>2. ap'.status = "pending"
    BY <1>3, <2>1 DEF ApproveRecord, TypeOK, RecordTypes, Approvals
  <2>3. pc'[c] = "idle"
    BY <2>1, MoveOne
  <2>4. VisitorClaim(c)' /\ "idle" \notin OwnerPcs
    BY <2>3, FreeClaims DEF FreePcs
  <2> QED BY <2>1, <2>2, <2>4, DecisionActs
<1>4. CASE ApproveFinalize(c)
  <2>1. /\ ap.status = "pending" /\ Moves(c, "receipt")
        /\ UNCHANGED <<tc, att, grant, receipt>>
    BY <1>4, GotoMoves
       DEF ApproveFinalize, VoteIsAdmissible, VoteReachesExpiry, execution,
           LocTypes
  <2>2. ap'.status = "approved"
    BY <1>4, <2>1 DEF ApproveFinalize, TypeOK, RecordTypes, Approvals
  <2>3. pc'[c] = "receipt"
    BY <2>1, MoveOne
  <2>4. VisitorClaim(c)'
    BY <2>3, OwnersDoNotVisit DEF OwnerPcs, UntoldPcs, CarryingPcs
  <2> QED BY <2>1, <2>2, <2>4, DecisionActs
<1>5. CASE ApproveExpires(c)
  <2>1. /\ ap.status = "pending" /\ Moves(c, "terminalize")
        /\ UNCHANGED <<tc, att, grant, receipt>>
    BY <1>5, GotoMoves DEF ApproveExpires, VoteReachesExpiry, execution
  <2>2. ap'.status = "expired"
    BY <1>5, <2>1 DEF ApproveExpires, TypeOK, RecordTypes, Approvals
  <2>3. pc'[c] = "terminalize"
    BY <2>1, MoveOne
  <2>4. VisitorClaim(c)' /\ "terminalize" \notin OwnerPcs
    BY <2>2, <2>3, ClosedClaims DEF ClosedPcs, Refused
  <2> QED BY <2>1, <2>2, <2>4, DecisionActs DEF Refused
<1>6. CASE ApproveConflict(c)
  BY <1>6, ReturnOwnership DEF ApproveConflict
<1> QED BY <1>1, <1>2, <1>3, <1>4, <1>5, <1>6 DEF ApproveStep

(* A refusal settled by compare-and-set, whoever settles it. *)
LEMMA RefusalActs ==
  ASSUME TypeOK, RefusalInv, OwnershipInv, NEW c \in Calls,
         NEW label \in ClosedPcs, NEW status \in Refused, Goto(c, label),
         ap.status = "pending", ap' = [ap EXCEPT !.status = status],
         UNCHANGED <<tc, att, grant, receipt, loc>>
  PROVE  OwnershipInv'
<1> PcTypes
  BY DEF TypeOK
<1>1. Moves(c, label)
  BY GotoMoves
<1>2. ap'.status = status
  BY DEF TypeOK, RecordTypes, Approvals
<1>3. pc'[c] = label
  BY <1>1, MoveOne
<1>4. VisitorClaim(c)' /\ label \notin OwnerPcs
  BY <1>2, <1>3, ClosedClaims
<1> QED BY <1>1, <1>2, <1>4, DecisionActs

(* Refusals and expiries settle the approval first, the tool call second. *)
LEMMA CloseStepOwnership ==
  ASSUME TypeOK, RefusalInv, OwnershipInv, NEW c \in Calls, CloseStep(c)
  PROVE  OwnershipInv'
<1> PcTypes /\ LocTypes
  BY DEF TypeOK
<1>0. pc[c] \in DecidingPcs => ap.status # "absent"
  BY DEF OwnershipInv, VisitorClaim
<1>00. {"close_load", "close_check", "close_commit", "expire"}
         \subseteq DecidingPcs
  BY DEF DecidingPcs
<1>000. {"reject_write", "terminalize"} \subseteq ClosedPcs
        /\ {"rejected", "cancelled", "expired"} \subseteq Refused
  BY DEF ClosedPcs, Refused
<1>1. CASE CloseCheck(c)
  <2>1. ap.status # "absent" /\ UNCHANGED records
    BY <1>0, <1>00, <1>1 DEF CloseCheck
  <2>2. \/ Return(c)
        \/ Moves(c, "expire")
        \/ Moves(c, "close_load")
        \/ Moves(c, "close_commit")
    BY <1>1, GotoMoves DEF CloseCheck, LocTypes
  <2> QED BY <1>00, <2>1, <2>2, ReturnOwnership, DecideOwnership
<1>2. CASE CloseLoad(c)
  <2>1. ap.status # "absent" /\ UNCHANGED records
    BY <1>0, <1>00, <1>2 DEF CloseLoad
  <2>2. Return(c) \/ Moves(c, "close_check")
    BY <1>2, GotoMoves DEF CloseLoad, LocTypes
  <2> QED BY <1>00, <2>1, <2>2, ReturnOwnership, DecideOwnership
<1>3. CASE CloseCommit(c)
  BY <1>000, <1>3, RefusalActs DEF CloseCommit, CloseAuthorized, execution
<1>4. CASE CloseExpires(c)
  BY <1>000, <1>4, RefusalActs DEF CloseExpires, CloseAuthorized, execution
<1>5. CASE CloseConflict(c)
  BY <1>5, ReturnOwnership DEF CloseConflict
<1>6. CASE RejectWrite(c)
  <2>1. ap.status \in Refused
    BY <1>000, <1>6 DEF RejectWrite, OwnershipInv, VisitorClaim
  <2>2. tc'.status = "rejected"
    BY <1>6, SnapshotType DEF RejectWrite, ToolCalls
  <2>3. Moves(c, "idle") /\ UNCHANGED <<ap, att, grant, receipt>>
    BY <1>6, ReturnMoves DEF RejectWrite, execution
  <2> QED BY <2>1, <2>2, <2>3, ClosureActs
<1>7. CASE Expire(c)
  <2>1. CASE ap.status = "pending" /\ ApprovalExpired
    BY <1>000, <1>7, <2>1, RefusalActs DEF Expire, execution
  <2>2. CASE ~(ap.status = "pending" /\ ApprovalExpired)
    BY <1>7, <2>2, ReturnOwnership DEF Expire, execution, records
  <2> QED BY <2>1, <2>2
<1>8. CASE Terminalize(c)
  <2>1. ap.status \in Refused
    BY <1>000, <1>8 DEF Terminalize, OwnershipInv, VisitorClaim
  <2>2. tc' = tc \/ tc'.status = "rejected"
    BY <1>8, SnapshotType DEF Terminalize, ToolCalls
  <2>3. Moves(c, "idle") /\ UNCHANGED <<ap, att, grant, receipt>>
    BY <1>8, ReturnMoves DEF Terminalize, execution
  <2> QED BY <2>1, <2>2, <2>3, ClosureActs
<1> QED BY <1>1, <1>2, <1>3, <1>4, <1>5, <1>6, <1>7, <1>8 DEF CloseStep

------------------------------------------------------------------------------
(* Submission steps *)

(* Before the tool call exists there is nothing to own. *)
LEMMA AbsentIsUnowned ==
  ASSUME OwnershipInv, RefusalInv, tc.status = "absent"
  PROVE  /\ \A d \in Calls : ~Owns(d)
         /\ ap.status = "absent" /\ att.state = "absent"
         /\ grant.status = "absent" /\ att.body = NoBody
         /\ receipt.outcome = "none"
BY DEF OwnershipInv, RefusalInv, OwnerClaim, Owns, OwnerPcs, Story

(* The submission that creates the tool call becomes its owner. *)
LEMMA CreateOwnership ==
  ASSUME TypeOK, RefusalInv, OwnershipInv, NEW c \in Calls, SubmitCreate(c)
  PROVE  OwnershipInv'
<1> PcTypes /\ LocTypes
  BY DEF TypeOK
<1>1. /\ tc.status = "absent" /\ tc'.status = "submitted"
      /\ UNCHANGED <<ap, att, grant, receipt>>
  BY DEF SubmitCreate, execution, OwnershipInv, VisitorClaim
<1>2. PICK label \in {"submit_block", "submit_pend", "receipt"} :
        Moves(c, label)
  BY GotoMoves DEF SubmitCreate, LocTypes
<1>3. /\ pc'[c] = label
      /\ \A d \in Calls : d # c => pc'[d] = pc[d] /\ loc'[d] = loc[d]
  BY <1>2, MoveOne
<1>4. /\ \A d \in Calls : ~Owns(d)
      /\ ap.status = "absent" /\ att.state = "absent"
      /\ grant.status = "absent" /\ att.body = NoBody
      /\ receipt.outcome = "none"
  BY <1>1, AbsentIsUnowned
<1>5. ASSUME NEW d \in Calls, d # c
      PROVE  OwnerClaim(d)' /\ VisitorClaim(d)'
  <2>1. VisitorClaim(d)
    BY DEF OwnershipInv
  <2>2. pc'[d] = pc[d] /\ loc'[d] = loc[d]
    BY <1>3, <1>5
  <2>3. OwnerClaim(d)'
    BY <1>4, <2>2, VisitorsDoNotOwn DEF Owns
  <2>4. VisitorClaim(d)'
    BY <1>1, <1>4, <2>1, <2>2 DEF VisitorClaim, EndedPcs, ReportPath, Refused
  <2> QED BY <2>3, <2>4
<1>6. OwnerClaim(c)'
  BY <1>1, <1>3, <1>4 DEF OwnerClaim, Owns, OwnerPcs, UntoldPcs, ToldPcs,
     CarryingPcs, ReservedPcs, DispatchedPcs
<1>7. VisitorClaim(c)'
  BY <1>3, OwnersDoNotVisit DEF OwnerPcs, UntoldPcs, CarryingPcs
<1>8. Story' /\ ToolCallTruth' /\ OutcomeAgreement'
  BY <1>1, <1>4
     DEF OwnershipInv, Story, ToolCallTruth, OutcomeAgreement, Refused
<1> QED BY <1>2, <1>4, <1>5, <1>6, <1>7, <1>8, StepOwnership

(* The submission blocks its tool call, or opens an approval for it. *)
LEMMA SubmitStepOwnership ==
  ASSUME TypeOK, RefusalInv, OwnershipInv, NEW c \in Calls, SubmitStep(c)
  PROVE  OwnershipInv'
<1> PcTypes /\ LocTypes
  BY DEF TypeOK
<1> loc[c].tc \in ToolCalls
  BY SnapshotType
<1> USE DEF Owns, OwnerPcs, UntoldPcs, ToldPcs, CarryingPcs, ReservedPcs,
            DispatchedPcs
<1>1. CASE SubmitInfluence(c)
  <2>1. loc[c].tc.status = "submitted"
    BY <1>1 DEF SubmitInfluence, OwnershipInv, VisitorClaim
  <2>2. /\ loc'[c].tc.status = "submitted"
        /\ \A d \in Calls : d # c => loc'[d] = loc[d]
    BY <1>1, <2>1
       DEF SubmitInfluence, DraftToolCall, LocTypes, Locals, ToolCalls
  <2>3. Moves(c, "submit_create") /\ UNCHANGED records
    BY <1>1, <2>2, GotoMoves DEF SubmitInfluence
  <2> QED BY <2>2, <2>3, DraftOwnership
<1>2. CASE SubmitCreate(c)
  BY <1>2, CreateOwnership
<1>3. CASE SubmitReplay(c)
  BY <1>3, ReturnOwnership DEF SubmitReplay
<1>4. CASE SubmitBlock(c)
  <2>1. /\ Owns(c) /\ tc.status \in {"submitted", "pending_approval"}
        /\ ap.status = "absent" /\ att.state = "absent"
        /\ grant.status # "consumed"
    BY <1>4 DEF SubmitBlock, OwnershipInv, OwnerClaim, RefusalInv, Carrying
  <2>2. /\ tc'.status = "blocked" /\ Moves(c, "idle")
        /\ UNCHANGED <<ap, att, grant, receipt>>
    BY <1>4, ReturnMoves DEF SubmitBlock, ToolCalls, execution
  <2>3. OwnerClaim(c)' /\ VisitorClaim(c)'
    BY <2>2, MoveOne, FreeClaims DEF FreePcs
  <2>4. Story' /\ ToolCallTruth' /\ OutcomeAgreement'
    BY <2>1, <2>2
       DEF OwnershipInv, Story, ToolCallTruth, OutcomeAgreement, Refused
  <2> QED BY <2>1, <2>2, <2>3, <2>4, OwnerActs
<1>5. CASE SubmitPend(c)
  <2>1. /\ Owns(c) /\ tc.status \in {"submitted", "pending_approval"}
        /\ ap.status = "absent" /\ att.state = "absent"
        /\ grant.status # "consumed" /\ att.body = NoBody
    BY <1>5 DEF SubmitPend, OwnershipInv, OwnerClaim, RefusalInv, Carrying
  <2>2. /\ tc'.status = "pending_approval" /\ Moves(c, "submit_approval")
        /\ UNCHANGED <<ap, att, grant, receipt>>
    BY <1>5, GotoMoves DEF SubmitPend, ToolCalls, execution
  <2>3. pc'[c] = "submit_approval"
    BY <2>2, MoveOne
  <2>4. OwnerClaim(c)' /\ VisitorClaim(c)'
    BY <2>1, <2>2, <2>3, OwnersDoNotVisit DEF OwnerClaim
  <2>5. Story' /\ ToolCallTruth' /\ OutcomeAgreement'
    BY <2>1, <2>2
       DEF OwnershipInv, Story, ToolCallTruth, OutcomeAgreement, Refused
  <2> QED BY <2>1, <2>2, <2>4, <2>5, OwnerActs
<1>6. CASE SubmitApproval(c)
  <2>1. /\ Owns(c) /\ ap.status = "absent" /\ att.state = "absent"
        /\ grant.status # "consumed"
    BY <1>6 DEF SubmitApproval, OwnershipInv, OwnerClaim, RefusalInv, Carrying
  <2>2. tc.status = "pending_approval"
    BY <1>6 DEF SubmitApproval, OwnershipInv, OwnerClaim
  <2>3. /\ ap'.status = "pending" /\ Moves(c, "idle")
        /\ UNCHANGED <<tc, att, grant, receipt>>
    BY <1>6, ReturnMoves DEF SubmitApproval, execution
  <2>4. OwnerClaim(c)' /\ VisitorClaim(c)'
    BY <2>3, MoveOne, FreeClaims DEF FreePcs
  <2>5. Story' /\ ToolCallTruth' /\ OutcomeAgreement'
    BY <2>1, <2>2, <2>3
       DEF OwnershipInv, Story, ToolCallTruth, OutcomeAgreement, Refused
  <2> QED BY <2>1, <2>2, <2>3, <2>4, <2>5, OwnerActs
<1> QED BY <1>1, <1>2, <1>3, <1>4, <1>5, <1>6 DEF SubmitStep

------------------------------------------------------------------------------
(* Execution steps of the owner *)

(* The owner goes on without a write. *)
LEMMA OwnerGoesOn ==
  ASSUME PcTypes, OwnershipInv, NEW c \in Calls, NEW label \in OwnerPcs,
         Owns(c), Moves(c, label), UNCHANGED records,
         OwnerClaim(c)'
  PROVE  OwnershipInv'
<1>1. pc'[c] = label
  BY MoveOne
<1> QED BY <1>1, OwnersDoNotVisit, QuietOwnership

(* The owner ends its attempt; nothing it owns has been told yet. *)
LEMMA CompleteOwnership ==
  ASSUME TypeOK, OwnershipInv, NEW c \in Calls,
         NEW from \in {"reserved", "dispatched"}, NEW to, NEW next,
         pc[c] \in IF from = "reserved" THEN ReservedPcs ELSE DispatchedPcs,
         \/ to = "failed_before_dispatch" /\ next = "fail"
         \/ to = "unknown_outcome" /\ next = "fail"
         \/ to = "succeeded" /\ next = "local_write",
         CompleteAttempt(c, from, to, next),
         UNCHANGED <<tc, ap, grant, receipt>>
  PROVE  OwnershipInv'
<1> PcTypes
  BY DEF TypeOK
<1> USE DEF Owns, OwnerPcs, UntoldPcs, ToldPcs, CarryingPcs, ReservedPcs,
            DispatchedPcs
<1>1. /\ Owns(c) /\ tc.status \in {"submitted", "pending_approval"}
      /\ ap.status \in {"absent", "approved"}
      /\ grant.status # "consumed" /\ att.body = NoBody
      /\ att.state = from /\ att.owner = c
  BY DEF OwnershipInv, OwnerClaim
<1>2. att' = [att EXCEPT !.state = to] /\ Moves(c, next)
  BY <1>1, GotoMoves DEF CompleteAttempt, OwnsAttempt
<1>3. att'.state = to /\ att'.body = NoBody
  BY <1>1, <1>2 DEF TypeOK, RecordTypes, Attempts
<1>4. pc'[c] = next
  BY <1>2, MoveOne
<1>5. OwnerClaim(c)' /\ VisitorClaim(c)'
  BY <1>1, <1>3, <1>4, OwnersDoNotVisit DEF OwnerClaim
<1>6. Story' /\ ToolCallTruth' /\ OutcomeAgreement'
  BY <1>1, <1>3
     DEF OwnershipInv, Story, ToolCallTruth, OutcomeAgreement, Refused
<1> QED BY <1>1, <1>2, <1>5, <1>6, OwnerActs

(* From the receipt over the reservation to a failure that is told. *)
LEMMA ReservationStepOwnership ==
  ASSUME TypeOK, RefusalInv, OwnershipInv, NEW c \in Calls,
         ReservationStep(c)
  PROVE  OwnershipInv'
<1> PcTypes /\ LocTypes
  BY DEF TypeOK
<1> loc[c].tc \in ToolCalls
  BY SnapshotType
<1> USE DEF Owns, OwnerPcs, UntoldPcs, ToldPcs, CarryingPcs, ReservedPcs,
            DispatchedPcs
<1>0. OwnerClaim(c) /\ Story /\ ToolCallTruth /\ OutcomeAgreement
  BY DEF OwnershipInv
<1>1. CASE CreateReceipt(c)
  <2>1. Owns(c) /\ Moves(c, "revalidate") /\ UNCHANGED <<tc, ap, att, grant>>
    BY <1>1, GotoMoves DEF CreateReceipt
  <2>2. receipt'.outcome = receipt.outcome /\ receipt'.body = receipt.body
    BY <1>1 DEF CreateReceipt, TypeOK, RecordTypes, Receipts
  <2>3. pc'[c] = "revalidate"
    BY <2>1, MoveOne
  <2>4. OwnerClaim(c)' /\ VisitorClaim(c)'
    BY <1>0, <1>1, <2>1, <2>3, OwnersDoNotVisit DEF CreateReceipt, OwnerClaim
  <2>5. Story' /\ ToolCallTruth' /\ OutcomeAgreement'
    BY <1>0, <2>1, <2>2 DEF Story, ToolCallTruth, OutcomeAgreement
  <2> QED BY <2>1, <2>4, <2>5, OwnerActs
<1>2. CASE Revalidate(c)
  <2>1. PICK label \in {"reserve", "fail"} : Moves(c, label)
    BY <1>2, GotoMoves DEF Revalidate
  <2>2. Owns(c) /\ UNCHANGED records
    BY <1>2 DEF Revalidate
  <2>3. pc'[c] = label
    BY <2>1, MoveOne
  <2>4. OwnerClaim(c)'
    BY <1>0, <1>2, <2>2, <2>3 DEF Revalidate, OwnerClaim, records
  <2> QED BY <2>1, <2>2, <2>4, OwnerGoesOn
<1>3. CASE Reserve(c)
  <2>1. CASE ReservationBinds(c) /\ att.state = "absent"
    <3>1. PICK label \in {"local_preflight", "grant_create"} :
            Moves(c, label)
      BY <1>3, <2>1, GotoMoves DEF Reserve, LocTypes
    <3>2. Owns(c) /\ UNCHANGED <<tc, ap, grant, receipt>>
      BY <1>3 DEF Reserve
    <3>3. /\ att'.state = "reserved" /\ att'.owner = c
          /\ att'.body = att.body /\ att'.bound = att.bound
      BY <1>3, <2>1 DEF Reserve, TypeOK, RecordTypes, Attempts
    <3>4. pc'[c] = label
      BY <3>1, MoveOne
    <3>5. OwnerClaim(c)' /\ VisitorClaim(c)'
      BY <1>0, <1>3, <3>2, <3>3, <3>4, OwnersDoNotVisit
         DEF Reserve, OwnerClaim
    <3>6. tc.status \in {"submitted", "pending_approval"}
          /\ grant.status # "consumed"
          /\ ap.status \in {"absent", "approved"} /\ att.body = NoBody
      BY <1>0, <1>3 DEF Reserve, OwnerClaim
    <3>7. Story' /\ ToolCallTruth' /\ OutcomeAgreement'
      BY <1>0, <3>2, <3>3, <3>6
         DEF Story, ToolCallTruth, OutcomeAgreement, Refused
    <3> QED BY <3>1, <3>2, <3>5, <3>6, <3>7, OwnerActs
  <2>2. CASE ~(ReservationBinds(c) /\ att.state = "absent")
    BY <1>3, <2>2, ReturnOwnership DEF Reserve, records
  <2> QED BY <2>1, <2>2
<1>4. CASE FailBeforeDispatch(c)
  BY <1>4, CompleteOwnership DEF FailBeforeDispatch
<1>5. CASE FailToolCall(c)
  <2>1. /\ Owns(c) /\ tc.status \in {"submitted", "pending_approval"}
        /\ ap.status \in {"absent", "approved"}
        /\ grant.status # "consumed" /\ att.body = NoBody
        /\ att.state \in
             {"absent", "failed_before_dispatch", "unknown_outcome"}
    BY <1>0, <1>5 DEF FailToolCall, OwnerClaim
  <2>2. /\ tc'.status = "failed" /\ Moves(c, "fail_receipt")
        /\ UNCHANGED <<ap, att, grant, receipt>>
    BY <1>5, GotoMoves DEF FailToolCall, ToolCalls
  <2>3. pc'[c] = "fail_receipt"
    BY <2>2, MoveOne
  <2>4. receipt.outcome = "none"
    BY <1>0, <2>1 DEF Story
  <2>5. OwnerClaim(c)' /\ VisitorClaim(c)'
    BY <2>1, <2>2, <2>3, <2>4, OwnersDoNotVisit DEF OwnerClaim
  <2>6. Story' /\ ToolCallTruth' /\ OutcomeAgreement'
    BY <1>0, <2>1, <2>2, <2>4
       DEF Story, ToolCallTruth, OutcomeAgreement, Refused
  <2> QED BY <2>1, <2>2, <2>5, <2>6, OwnerActs
<1>6. CASE FailReceipt(c)
  <2>1. /\ Owns(c) /\ tc.status = "failed"
        /\ grant.status # "consumed" /\ att.body = NoBody
        /\ att.state \in
             {"absent", "failed_before_dispatch", "unknown_outcome"}
        /\ receipt.outcome = "none"
    BY <1>0, <1>6 DEF FailReceipt, OwnerClaim
  <2>2. Moves(c, "idle") /\ UNCHANGED <<tc, ap, att, grant>>
    BY <1>6, ReturnMoves DEF FailReceipt
  <2>3. receipt'.outcome = "failed" /\ receipt'.body = NoBody
    BY <1>0, <1>6, <2>1
       DEF FailReceipt, Story, TypeOK, RecordTypes, Receipts
  <2>4. OwnerClaim(c)' /\ VisitorClaim(c)'
    BY <2>2, MoveOne, FreeClaims DEF FreePcs
  <2>5. Story' /\ ToolCallTruth' /\ OutcomeAgreement'
    BY <1>0, <2>1, <2>2, <2>3 DEF Story, ToolCallTruth, OutcomeAgreement
  <2> QED BY <2>1, <2>2, <2>4, <2>5, OwnerActs
<1> QED BY <1>1, <1>2, <1>3, <1>4, <1>5, <1>6 DEF ReservationStep

(* The local tool: dispatched, called, and told. *)
LEMMA LocalStepOwnership ==
  ASSUME TypeOK, OwnershipInv, NEW c \in Calls, LocalStep(c)
  PROVE  OwnershipInv'
<1> PcTypes /\ LocTypes
  BY DEF TypeOK
<1> loc[c].tc \in ToolCalls
  BY SnapshotType
<1> USE DEF Owns, OwnerPcs, UntoldPcs, ToldPcs, CarryingPcs, ReservedPcs,
            DispatchedPcs
<1>0. OwnerClaim(c) /\ Story /\ ToolCallTruth /\ OutcomeAgreement
  BY DEF OwnershipInv
<1>1. CASE LocalPreflight(c) \/ LocalBind(c)
  <2>1. PICK label \in {"fail_before", "local_bind", "local_dispatch"} :
          Moves(c, label)
    BY <1>1, GotoMoves DEF LocalPreflight, LocalBind
  <2>2. pc[c] \in {"local_preflight", "local_bind"} /\ UNCHANGED records
    BY <1>1 DEF LocalPreflight, LocalBind
  <2>3. pc'[c] = label
    BY <2>1, MoveOne
  <2>4. OwnerClaim(c)'
    BY <1>0, <2>2, <2>3 DEF OwnerClaim, records
  <2> QED BY <2>1, <2>2, <2>4, OwnerGoesOn
<1>2. CASE LocalDispatch(c)
  <2>1. /\ Owns(c) /\ OwnsAttempt(c, "reserved") /\ att.body = NoBody
        /\ tc.status \in {"submitted", "pending_approval"}
        /\ ap.status \in {"absent", "approved"}
        /\ grant.status # "consumed"
        /\ UNCHANGED <<tc, ap, grant, receipt>>
    BY <1>0, <1>2 DEF LocalDispatch, OwnerClaim, OwnsAttempt
  <2>2. CASE ExposureGuard(loc[c].tc)
    <3>1. /\ Moves(c, "local_recheck")
          /\ att' = [att EXCEPT !.state = "dispatched"]
      BY <1>2, <2>1, <2>2, GotoMoves DEF LocalDispatch
    <3>2. /\ att'.state = "dispatched" /\ att'.owner = c
          /\ att'.body = NoBody /\ att'.bound = att.bound
      BY <2>1, <3>1 DEF OwnsAttempt, TypeOK, RecordTypes, Attempts
    <3>3. pc'[c] = "local_recheck"
      BY <3>1, MoveOne
    <3>4. OwnerClaim(c)' /\ VisitorClaim(c)'
      BY <2>1, <3>2, <3>3, OwnersDoNotVisit DEF OwnerClaim
    <3>5. Story' /\ ToolCallTruth' /\ OutcomeAgreement'
      BY <1>0, <2>1, <3>2
         DEF Story, ToolCallTruth, OutcomeAgreement, Refused
    <3> QED BY <2>1, <3>1, <3>4, <3>5, OwnerActs
  <2>3. CASE ~ExposureGuard(loc[c].tc)
    <3>1. Moves(c, "fail_before") /\ UNCHANGED records
      BY <1>2, <2>1, <2>3, GotoMoves DEF LocalDispatch, records
    <3>2. pc'[c] = "fail_before"
      BY <3>1, MoveOne
    <3>3. OwnerClaim(c)'
      BY <2>1, <3>1, <3>2 DEF OwnerClaim, OwnsAttempt, records
    <3> QED BY <2>1, <3>1, <3>3, OwnerGoesOn
  <2> QED BY <2>2, <2>3
<1>3. CASE LocalInvoke(c) \/ LocalRefused(c)
  <2>1. PICK label \in {"local_await", "local_unknown"} : Moves(c, label)
    BY <1>3, GotoMoves DEF LocalInvoke, LocalRefused
  <2>2. pc[c] = "local_recheck" /\ UNCHANGED records
    BY <1>3 DEF LocalInvoke, LocalRefused
  <2>3. pc'[c] = label
    BY <2>1, MoveOne
  <2>4. OwnerClaim(c)'
    BY <1>0, <2>2, <2>3 DEF OwnerClaim, records
  <2> QED BY <2>1, <2>2, <2>4, OwnerGoesOn
<1>4. CASE LocalUnknown(c)
  BY <1>4, CompleteOwnership DEF LocalUnknown
<1>5. CASE LocalResult(c)
  BY <1>5, CompleteOwnership DEF LocalResult
<1>6. CASE LocalWrite(c)
  <2>1. /\ Owns(c) /\ tc.status \in {"submitted", "pending_approval"}
        /\ ap.status \in {"absent", "approved"}
        /\ grant.status # "consumed" /\ att.body = NoBody
        /\ att.state = "succeeded"
    BY <1>0, <1>6 DEF LocalWrite, OwnerClaim
  <2>2. LocalExecuted(c).status = "executed"
    BY DEF LocalExecuted, ToolCalls
  <2>3. /\ tc'.status = "executed" /\ loc'[c].tc.status = "executed"
        /\ UNCHANGED <<ap, att, grant, receipt>>
    BY <1>6, <2>2 DEF LocalWrite, LocTypes, Locals
  <2>4. Moves(c, "local_receipt")
    BY <1>6, GotoMoves DEF LocalWrite, LocTypes
  <2>5. pc'[c] = "local_receipt"
    BY <2>4, MoveOne
  <2>6. receipt.outcome = "none"
    BY <1>0, <2>1 DEF Story
  <2>7. OwnerClaim(c)' /\ VisitorClaim(c)'
    BY <2>1, <2>3, <2>5, <2>6, OwnersDoNotVisit DEF OwnerClaim
  <2>8. Story' /\ ToolCallTruth' /\ OutcomeAgreement'
    BY <1>0, <2>1, <2>3, <2>6
       DEF Story, ToolCallTruth, OutcomeAgreement, Refused
  <2> QED BY <2>1, <2>3, <2>4, <2>7, <2>8, OwnerActs
<1>7. CASE LocalReceipt(c)
  <2>1. /\ Owns(c) /\ tc.status = "executed"
        /\ loc[c].tc.status = "executed"
        /\ ap.status \in {"absent", "approved"}
        /\ grant.status # "consumed" /\ att.body = NoBody
        /\ att.state = "succeeded" /\ receipt.outcome = "none"
    BY <1>0, <1>7 DEF LocalReceipt, OwnerClaim
  <2>2. /\ receipt'.outcome = "succeeded" /\ receipt'.body = NoBody
        /\ UNCHANGED <<tc, ap, att, grant>>
    BY <1>0, <1>7, <2>1
       DEF LocalReceipt, Story, TypeOK, RecordTypes, Receipts
  <2>3. Story' /\ ToolCallTruth' /\ OutcomeAgreement'
    BY <1>0, <2>1, <2>2 DEF Story, ToolCallTruth, OutcomeAgreement
  <2>4. CASE ExposureRequired(loc[c].tc)
    <3>1. Moves(c, "local_expose") /\ loc' = loc
      BY <1>7, <2>4, GotoMoves DEF LocalReceipt
    <3>2. pc'[c] = "local_expose"
      BY <3>1, MoveOne
    <3>3. OwnerClaim(c)' /\ VisitorClaim(c)'
      BY <2>1, <2>2, <3>1, <3>2, OwnersDoNotVisit DEF OwnerClaim
    <3> QED BY <2>1, <2>2, <2>3, <3>1, <3>3, OwnerActs
  <2>5. CASE ~ExposureRequired(loc[c].tc)
    <3>1. Moves(c, "idle")
      BY <1>7, <2>5, ReturnMoves DEF LocalReceipt
    <3>2. OwnerClaim(c)' /\ VisitorClaim(c)'
      BY <3>1, MoveOne, FreeClaims DEF FreePcs
    <3> QED BY <2>1, <2>2, <2>3, <3>1, <3>2, OwnerActs
  <2> QED BY <2>4, <2>5
<1>8. CASE LocalExpose(c)
  <2>1. /\ pc[c] = "local_expose" /\ Moves(c, "local_release")
        /\ UNCHANGED records /\ loc' = loc
    BY <1>8, GotoMoves DEF LocalExpose
  <2>2. pc'[c] = "local_release"
    BY <2>1, MoveOne
  <2>3. OwnerClaim(c)'
    BY <1>0, <2>1, <2>2 DEF OwnerClaim, records
  <2> QED BY <2>1, <2>3, OwnerGoesOn
<1>9. CASE LocalRelease(c)
  <2>1. /\ Owns(c) /\ tc.status = "executed"
        /\ loc[c].tc.status = "executed"
    BY <1>0, <1>9 DEF LocalRelease, OwnerClaim
  <2>2. /\ tc'.status = "executed" /\ Moves(c, "idle")
        /\ UNCHANGED <<ap, att, grant, receipt>>
    BY <1>9, <2>1, ReturnMoves DEF LocalRelease, ToolCalls
  <2>3. OwnerClaim(c)' /\ VisitorClaim(c)'
    BY <2>2, MoveOne, FreeClaims DEF FreePcs
  <2>4. Story' /\ ToolCallTruth' /\ OutcomeAgreement'
    BY <1>0, <2>1, <2>2 DEF Story, ToolCallTruth, OutcomeAgreement
  <2> QED BY <2>1, <2>2, <2>3, <2>4, OwnerActs
<1> QED BY <1>1, <1>2, <1>3, <1>4, <1>5, <1>6, <1>7, <1>8, <1>9
        DEF LocalStep

(* The grant is issued and bound before the tool call says authorized. *)
LEMMA GrantStepOwnership ==
  ASSUME TypeOK, OwnershipInv, NEW c \in Calls, GrantStep(c)
  PROVE  OwnershipInv'
<1> PcTypes /\ LocTypes
  BY DEF TypeOK
<1> loc[c].tc \in ToolCalls
  BY SnapshotType
<1> USE DEF Owns, OwnerPcs, UntoldPcs, ToldPcs, CarryingPcs, ReservedPcs,
            DispatchedPcs
<1>0. OwnerClaim(c) /\ Story /\ ToolCallTruth /\ OutcomeAgreement
  BY DEF OwnershipInv
<1>00. pc[c] \in ReservedPcs =>
         /\ Owns(c) /\ tc.status \in {"submitted", "pending_approval"}
         /\ ap.status \in {"absent", "approved"}
         /\ grant.status # "consumed" /\ att.body = NoBody
         /\ OwnsAttempt(c, "reserved")
  BY <1>0 DEF OwnerClaim, OwnsAttempt
<1>1. CASE GrantCreate(c)
  <2>1. /\ pc[c] \in ReservedPcs /\ Moves(c, "grant_bind")
        /\ grant'.status = "issued" /\ UNCHANGED <<tc, ap, att, receipt>>
    BY <1>1, GotoMoves DEF GrantCreate
  <2>2. pc'[c] = "grant_bind"
    BY <2>1, MoveOne
  <2>3. OwnerClaim(c)' /\ VisitorClaim(c)'
    BY <1>00, <2>1, <2>2, OwnersDoNotVisit DEF OwnerClaim, OwnsAttempt
  <2>4. Story' /\ ToolCallTruth' /\ OutcomeAgreement'
    BY <1>0, <1>00, <2>1
       DEF Story, ToolCallTruth, OutcomeAgreement, OwnsAttempt
  <2> QED BY <1>00, <2>1, <2>3, <2>4, OwnerActs
<1>2. CASE GrantBind(c)
  <2>1. /\ pc[c] = "grant_bind" /\ Moves(c, "grant_audit")
        /\ att' = [att EXCEPT !.bound = TRUE]
        /\ UNCHANGED <<tc, ap, grant, receipt>>
    BY <1>00, <1>2, GotoMoves DEF GrantBind
  <2>2. pc'[c] = "grant_audit"
    BY <2>1, MoveOne
  <2>3. /\ att'.state = att.state /\ att'.owner = att.owner
        /\ att'.body = att.body /\ att'.bound
    BY <2>1 DEF TypeOK, RecordTypes, Attempts
  <2>4. OwnerClaim(c)' /\ VisitorClaim(c)'
    BY <1>0, <1>00, <2>1, <2>2, <2>3, OwnersDoNotVisit
       DEF OwnerClaim, OwnsAttempt
  <2>5. Story' /\ ToolCallTruth' /\ OutcomeAgreement'
    BY <1>0, <2>1, <2>3 DEF Story, ToolCallTruth, OutcomeAgreement
  <2> QED BY <1>00, <2>1, <2>4, <2>5, OwnerActs
<1>3. CASE GrantAudit(c)
  <2>1. /\ pc[c] = "grant_audit" /\ Moves(c, "authorize")
        /\ UNCHANGED records
    BY <1>00, <1>3, GotoMoves DEF GrantAudit
  <2>2. pc'[c] = "authorize"
    BY <2>1, MoveOne
  <2>3. OwnerClaim(c)'
    BY <1>0, <2>1, <2>2 DEF OwnerClaim, records
  <2> QED BY <2>1, <2>3, OwnerGoesOn
<1>4. CASE Authorize(c)
  <2>1. pc[c] = "authorize" /\ grant.status = "issued" /\ att.bound
    BY <1>0, <1>4 DEF Authorize, OwnerClaim
  <2>2. /\ tc'.status = "authorized" /\ Moves(c, "idle")
        /\ UNCHANGED <<ap, att, grant, receipt>>
    BY <1>4, ReturnMoves DEF Authorize, ToolCalls
  <2>3. OwnerClaim(c)' /\ VisitorClaim(c)'
    BY <2>2, MoveOne, FreeClaims DEF FreePcs
  <2>4. Story' /\ ToolCallTruth' /\ OutcomeAgreement'
    BY <1>0, <1>00, <2>1, <2>2
       DEF Story, ToolCallTruth, OutcomeAgreement, Refused
  <2> QED BY <1>00, <2>1, <2>2, <2>3, <2>4, OwnerActs
<1> QED BY <1>1, <1>2, <1>3, <1>4 DEF GrantStep

------------------------------------------------------------------------------
(* Steps of a runner *)

(* A runner finds the tool call authorized and nobody owning the action any
   more; from the dispatch on only reports write. *)
LEMMA DispatchOwnership ==
  ASSUME TypeOK, OwnershipInv, NEW c \in Calls, pc[c] = "consume_dispatch",
         Moves(c, "idle"), att.state = "reserved", att.bound,
         grant' = [grant EXCEPT !.status = "consumed"],
         att' = [att EXCEPT !.state = "dispatched"],
         UNCHANGED <<tc, ap, receipt>>
  PROVE  OwnershipInv'
<1> PcTypes
  BY DEF TypeOK
<1>1. /\ pc'[c] = "idle"
      /\ \A d \in Calls : d # c => pc'[d] = pc[d] /\ loc'[d] = loc[d]
  BY MoveOne
<1>2. tc.status = "authorized"
  BY DEF OwnershipInv, VisitorClaim, ToolCallTruth
<1>3. \A d \in Calls : ~Owns(d)
  BY <1>2 DEF OwnershipInv, OwnerClaim, Owns, OwnerPcs
<1>4. receipt.outcome = "none" /\ att.body = NoBody
  BY DEF OwnershipInv, OutcomeAgreement, Story, TypeOK, RecordTypes, Receipts,
     LegacyStates
<1>5. /\ att'.state = "dispatched" /\ att'.body = att.body
      /\ att'.bound = att.bound
      /\ grant'.status = "consumed"
  BY DEF TypeOK, RecordTypes, Attempts, Grants
<1>6. grant.status # "consumed"
  BY DEF OwnershipInv, Story
<1>7. ASSUME NEW d \in Calls, d # c
      PROVE  OwnerClaim(d)' /\ VisitorClaim(d)'
  <2>1. VisitorClaim(d)
    BY DEF OwnershipInv
  <2>2. pc'[d] = pc[d] /\ loc'[d] = loc[d]
    BY <1>1, <1>7
  <2>3. OwnerClaim(d)'
    BY <1>3, <2>2, VisitorsDoNotOwn DEF Owns
  <2>4. VisitorClaim(d)'
    BY <1>6, <2>1, <2>2 DEF VisitorClaim, EndedPcs, ReportPath
  <2> QED BY <2>3, <2>4
<1>8. OwnerClaim(c)' /\ VisitorClaim(c)' /\ "idle" \notin OwnerPcs
  BY <1>1, FreeClaims DEF FreePcs
<1>9. Story' /\ ToolCallTruth' /\ OutcomeAgreement'
  BY <1>2, <1>4, <1>5
     DEF OwnershipInv, Story, ToolCallTruth, OutcomeAgreement, Refused
<1> QED BY <1>7, <1>8, <1>9, StepOwnership

LEMMA ConsumeStepOwnership ==
  ASSUME TypeOK, OwnershipInv, NEW c \in Calls, ConsumeStep(c)
  PROVE  OwnershipInv'
<1> PcTypes /\ LocTypes
  BY DEF TypeOK
<1>0. \A label \in {"consume_validate", "consume_dispatch"} :
        /\ pc'[c] = label
        /\ tc'.status \in {"authorized", "executed", "failed"}
        => OwnerClaim(c)' /\ VisitorClaim(c)' /\ label \notin OwnerPcs
  BY DEF OwnerClaim, VisitorClaim, Owns, OwnerPcs, UntoldPcs, ToldPcs,
     CarryingPcs, ReservedPcs, DispatchedPcs, DecidingPcs, ClosedPcs,
     EndedPcs, ReportPath
<1>00. ASSUME NEW label \in {"consume_validate", "consume_dispatch"},
              Moves(c, label), UNCHANGED records,
              tc.status \in {"authorized", "executed", "failed"}
       PROVE  OwnershipInv'
  <2>1. /\ pc'[c] = label
        /\ tc'.status \in {"authorized", "executed", "failed"}
    BY <1>00, MoveOne DEF records
  <2> QED BY <1>0, <1>00, <2>1, QuietOwnership
<1>1. CASE ConsumeAttempt(c)
  <2>1. \/ Return(c)
        \/ Moves(c, "consume_tool")
    BY <1>1, GotoMoves DEF ConsumeAttempt
  <2> QED BY <1>1, <2>1, ReturnOwnership, FreeOwnership
          DEF ConsumeAttempt, FreePcs
<1>2. CASE ConsumeToolCall(c)
  <2>1. CASE ToolCallMatchesGrant(tc, FALSE)
    <3>1. Moves(c, "consume_validate") /\ UNCHANGED records
      BY <1>2, <2>1, GotoMoves DEF ConsumeToolCall, LocTypes
    <3>2. tc.status = "authorized"
      BY <2>1 DEF ToolCallMatchesGrant
    <3> QED BY <1>00, <3>1, <3>2
  <2>2. CASE ~ToolCallMatchesGrant(tc, FALSE)
    BY <1>2, <2>2, ReturnOwnership DEF ConsumeToolCall
  <2> QED BY <2>1, <2>2
<1>3. CASE ConsumeValidate(c)
  <2>1. /\ tc.status \in {"authorized", "executed", "failed"}
        /\ UNCHANGED records
    BY <1>3 DEF ConsumeValidate, OwnershipInv, VisitorClaim
  <2>2. \/ Return(c)
        \/ Moves(c, "consume_dispatch")
    BY <1>3, GotoMoves DEF ConsumeValidate
  <2> QED BY <1>00, <2>1, <2>2, ReturnOwnership
<1>4. CASE ConsumeDispatch(c)
  <2> DEFINE free == /\ grant.status = "issued"
                     /\ att.state = "reserved" /\ att.bound
                     /\ ExposureGuard(loc[c].tc)
  <2>1. CASE free
    <3>1. Moves(c, "idle")
      BY <1>4, ReturnMoves DEF ConsumeDispatch
    <3> QED BY <1>4, <2>1, <3>1, DispatchOwnership DEF ConsumeDispatch
  <2>2. CASE ~free
    BY <1>4, <2>2, ReturnOwnership DEF ConsumeDispatch, records
  <2> QED BY <2>1, <2>2
<1> QED BY <1>1, <1>2, <1>3, <1>4 DEF ConsumeStep

(* Nobody but a report is on the way to report an outcome. *)
LEMMA ReportersDoNotOwn ==
  ASSUME NEW c \in Calls,
         pc'[c] \in ReportPath \cup {"report_tool", "report_attempt"}
  PROVE  OwnerClaim(c)' /\ pc'[c] \notin OwnerPcs
BY DEF OwnerClaim, Owns, OwnerPcs, UntoldPcs, ToldPcs, CarryingPcs,
   ReservedPcs, DispatchedPcs, ReportPath

(* A report goes on without a write. *)
LEMMA ReportGoesOn ==
  ASSUME PcTypes, OwnershipInv, NEW c \in Calls,
         NEW label \in ReportPath \cup {"report_tool", "report_attempt"},
         Moves(c, label), UNCHANGED records, VisitorClaim(c)'
  PROVE  OwnershipInv'
<1>1. pc'[c] = label
  BY MoveOne
<1> QED BY <1>1, ReportersDoNotOwn, QuietOwnership

(* What stands while reports come in. *)
LEMMA ReportFacts ==
  ASSUME TypeOK, OwnershipInv, grant.status = "consumed"
  PROVE  /\ tc.status \in {"authorized", "executed", "failed"}
         /\ AgreesWithAttempt(tc.status)
         /\ ap.status \in {"absent", "approved"}
BY DEF OwnershipInv, ToolCallTruth, Story, AgreesWithAttempt, TypeOK,
   RecordTypes, Approvals, ApprovalStatus, Refused

(* The tool call of a reported outcome is written, whoever does. *)
LEMMA ReportTells ==
  ASSUME TypeOK, OwnershipInv, NEW c \in Calls, NEW label,
         label \notin OwnerPcs, Moves(c, label), pc[c] \in EndedPcs \ {"report_receipt"},
         \/ tc' = tc
         \/ /\ tc'.status \in {"executed", "failed"}
            /\ AgreesWithAttempt(tc'.status),
         UNCHANGED <<ap, att, grant, receipt>>,
         OwnerClaim(c)', VisitorClaim(c)'
  PROVE  OwnershipInv'
<1> PcTypes /\ LocTypes
  BY DEF TypeOK
<1>1. /\ grant.status = "consumed"
      /\ att.state = loc[c].report.state
      /\ receipt.outcome = LegacyOutcome(loc[c].report)
  BY DEF OwnershipInv, VisitorClaim, EndedPcs, ReportPath
<1>2. /\ tc.status \in {"authorized", "executed", "failed"}
      /\ ap.status \in {"absent", "approved"}
  BY <1>1, ReportFacts
<1>3. loc[c].report.state \in ReportStates
  BY SnapshotType DEF Reports
<1>4. Story'
  BY <1>1, <1>2 DEF OwnershipInv, Story, Refused
<1>5. ToolCallTruth' /\ OutcomeAgreement'
  BY <1>1, <1>2, <1>3
     DEF OwnershipInv, ToolCallTruth, OutcomeAgreement, AgreesWithAttempt,
         LegacyOutcome, ReportStates
<1>6. tc'.status \in {"authorized", "executed", "failed"}
  BY <1>2
<1> QED BY <1>1, <1>4, <1>5, <1>6, SnapshotType, ReportActs

(* The first report ends the attempt, the first receipt records it. *)
LEMMA ReportStepOwnership ==
  ASSUME TypeOK, OwnershipInv, NEW c \in Calls, ReportStep(c)
  PROVE  OwnershipInv'
<1> PcTypes /\ LocTypes
  BY DEF TypeOK
<1> loc[c].tc \in ToolCalls /\ loc[c].report \in Reports
  BY SnapshotType
<1>r. \A d \in Calls : loc[d].report \in Reports
  BY SnapshotType
<1> USE DEF EndedPcs, ReportPath
<1>0. VisitorClaim(c) /\ Story /\ ToolCallTruth /\ OutcomeAgreement
  BY DEF OwnershipInv
<1>00. pc[c] \in ReportPath \cup {"report_tool", "report_attempt"} =>
         /\ grant.status = "consumed"
         /\ tc.status \in {"authorized", "executed", "failed"}
         /\ AgreesWithAttempt(tc.status)
  BY <1>0, ReportFacts DEF VisitorClaim
<1>1. CASE ReportToolCall(c)
  <2>1. pc[c] = "report_tool" /\ UNCHANGED records
        /\ loc'[c].tc = tc /\ Moves(c, "report_attempt")
    BY <1>1, GotoMoves DEF ReportToolCall, LocTypes, Locals
  <2>2. pc'[c] = "report_attempt"
    BY <2>1, MoveOne
  <2>3. VisitorClaim(c)'
    BY <1>00, <2>1, <2>2
       DEF VisitorClaim, DecidingPcs, ClosedPcs, AgreesWithAttempt, records
  <2> QED BY <2>1, <2>3, ReportGoesOn
<1>2. CASE ReportAttempt(c) \/ ReportReceiptCheck(c)
  <2>1. pc[c] \in {"report_attempt", "report_outcome"} /\ UNCHANGED records
    BY <1>2 DEF ReportAttempt, ReportReceiptCheck
  <2>2. CASE Return(c)
    BY <2>1, <2>2, ReturnOwnership
  <2>3. CASE ~Return(c)
    <3>1. PICK label \in {"report_outcome", "report_commit"} :
            Moves(c, label)
      BY <1>2, <2>3, GotoMoves DEF ReportAttempt, ReportReceiptCheck
    <3>2. pc'[c] = label /\ loc' = loc
      BY <1>2, <2>3, <3>1, MoveOne DEF ReportAttempt, ReportReceiptCheck
    <3>3. VisitorClaim(c)'
      BY <1>0, <2>1, <3>2
         DEF VisitorClaim, DecidingPcs, ClosedPcs, AgreesWithAttempt, records
    <3> QED BY <2>1, <3>1, <3>3, ReportGoesOn
  <2> QED BY <2>2, <2>3
<1>3. CASE ReportTransition(c)
  <2>1. /\ pc[c] = "report_commit" /\ Moves(c, "report_receipt")
        /\ att.state = "dispatched" /\ loc' = loc
        /\ UNCHANGED <<tc, ap, grant, receipt>>
    BY <1>3, GotoMoves DEF ReportTransition
  <2>2. /\ att'.state = loc[c].report.state
        /\ att'.body = loc[c].report.body
        /\ att'.bound = att.bound
    BY <1>3 DEF ReportTransition, TypeOK, RecordTypes, Attempts
  <2>3. att'.state \in ReportStates
    BY <2>2 DEF Reports
  <2>4. tc.status = "authorized" /\ receipt.outcome = "none"
    BY <1>0, <1>00, <2>1
       DEF AgreesWithAttempt, OutcomeAgreement, TypeOK, RecordTypes, Receipts,
           LegacyStates
  <2>5. pc'[c] = "report_receipt"
    BY <2>1, MoveOne
  <2>6. VisitorClaim(c)'
    BY <1>0, <1>00, <2>1, <2>2, <2>5
       DEF VisitorClaim, DecidingPcs, ClosedPcs, AgreesWithAttempt
  <2>7. OwnerClaim(c)' /\ "report_receipt" \notin OwnerPcs
    BY <2>5, ReportersDoNotOwn
  <2>8. Story'
    BY <1>0, <2>1, <2>2, <2>3, <2>4 DEF Story, ReportStates
  <2>9. ToolCallTruth' /\ OutcomeAgreement'
    BY <1>0, <2>1, <2>2, <2>4 DEF ToolCallTruth, OutcomeAgreement
  <2> QED BY <1>r, <1>00, <2>1, <2>4, <2>6, <2>7, <2>8, <2>9, ReportActs
<1>4. CASE ReportReplay(c)
  <2>1. pc[c] = "report_commit" /\ UNCHANGED records
    BY <1>4 DEF ReportReplay
  <2>2. CASE Return(c)
    BY <2>1, <2>2, ReturnOwnership
  <2>3. CASE ~Return(c)
    <3>1. /\ att.state = loc[c].report.state /\ att.body = loc[c].report.body
          /\ loc' = [loc EXCEPT ![c].replay = TRUE]
          /\ Moves(c, "report_receipt")
      BY <1>4, <2>3, GotoMoves DEF ReportReplay, LocTypes
    <3>2. loc'[c].tc = loc[c].tc /\ loc'[c].report = loc[c].report
      BY <3>1 DEF LocTypes, Locals
    <3>3. pc'[c] = "report_receipt"
      BY <3>1, MoveOne
    <3>4. VisitorClaim(c)'
      BY <1>0, <2>1, <3>1, <3>2, <3>3
         DEF VisitorClaim, DecidingPcs, ClosedPcs, AgreesWithAttempt, records
    <3> QED BY <2>1, <3>1, <3>4, ReportGoesOn
  <2> QED BY <2>2, <2>3
<1>5. CASE ReportReceipt(c)
  <2>1. /\ pc[c] = "report_receipt" /\ UNCHANGED <<tc, ap, att, grant>>
        /\ att.state = loc[c].report.state /\ att.body = loc[c].report.body
        /\ loc[c].report.state \in ReportStates
    BY <1>0, <1>5 DEF ReportReceipt, VisitorClaim, Reports
  <2>2. CASE receipt.outcome = "none"
    <3>1. /\ receipt'.outcome = LegacyOutcome(loc[c].report)
          /\ receipt'.body = loc[c].report.body
      BY <1>5, <2>2 DEF ReportReceipt, TypeOK, RecordTypes, Receipts
    <3>2. tc.status = "authorized"
      BY <1>0, <1>00, <2>1, <2>2 DEF OutcomeAgreement
    <3>3. Story'
      BY <1>0, <2>1, <3>1, <3>2 DEF Story, LegacyOutcome
    <3>4. ToolCallTruth' /\ OutcomeAgreement'
      BY <1>0, <2>1, <3>1, <3>2
         DEF ToolCallTruth, OutcomeAgreement, LegacyOutcome, ReportStates
    <3>5. Moves(c, "report_write") /\ loc' = loc
      BY <1>5, <2>2, GotoMoves DEF ReportReceipt, ReceiptAgrees
    <3>6. pc'[c] = "report_write"
      BY <3>5, MoveOne
    <3>7. VisitorClaim(c)'
      BY <1>0, <2>1, <3>1, <3>5, <3>6
         DEF VisitorClaim, DecidingPcs, ClosedPcs, AgreesWithAttempt
    <3>8. OwnerClaim(c)' /\ "report_write" \notin OwnerPcs
      BY <3>6, ReportersDoNotOwn
    <3> QED BY <1>r, <1>00, <2>1, <2>2, <3>3, <3>4, <3>5, <3>7, <3>8,
               ReportActs
  <2>3. CASE receipt.outcome # "none"
    <3>1. receipt' = receipt /\ UNCHANGED records
      BY <1>5, <2>3 DEF ReportReceipt, records
    <3>2. CASE ReceiptAgrees(loc[c].report)
      <4>1. Moves(c, "report_write") /\ loc' = loc
        BY <1>5, <3>2, GotoMoves DEF ReportReceipt
      <4>2. pc'[c] = "report_write"
        BY <4>1, MoveOne
      <4>3. VisitorClaim(c)'
        BY <1>0, <2>1, <2>3, <3>1, <3>2, <4>1, <4>2
           DEF VisitorClaim, DecidingPcs, ClosedPcs, AgreesWithAttempt,
               ReceiptAgrees
      <4> QED BY <3>1, <4>1, <4>3, ReportGoesOn
    <3>3. CASE ~ReceiptAgrees(loc[c].report)
      BY <1>5, <3>1, <3>3, ReturnOwnership DEF ReportReceipt
    <3> QED BY <3>2, <3>3
  <2> QED BY <2>2, <2>3
<1>6. CASE ReportWrite(c)
  <2> DEFINE persisted == loc[c].replay /\ loc[c].tc.status # "authorized"
             delivered == IF persisted THEN loc[c].tc ELSE TerminalToolCall(c)
  <2>1. /\ pc[c] = "report_write"
        /\ att.state = loc[c].report.state
        /\ loc[c].tc.status \in {"authorized", "executed", "failed"}
        /\ AgreesWithAttempt(loc[c].tc.status)
        /\ loc[c].report.state \in ReportStates
    BY <1>0, <1>6 DEF ReportWrite, VisitorClaim, Reports
  <2>2. TerminalToolCall(c).status = IF loc[c].report.state = "succeeded"
                                     THEN "executed" ELSE "failed"
    BY DEF TerminalToolCall, ToolCalls
  <2>3. /\ delivered.status \in {"executed", "failed"}
        /\ AgreesWithAttempt(delivered.status)
    BY <2>1, <2>2 DEF AgreesWithAttempt, ReportStates
  <2>4. /\ tc' = tc \/ tc' = delivered
        /\ UNCHANGED <<ap, att, grant, receipt>>
    BY <1>6 DEF ReportWrite
  <2>5. delivered \in ToolCalls
    BY TerminalType
  <2>6. \/ Return(c)
        \/ /\ pc' = [pc EXCEPT ![c] = "report_expose"]
           /\ loc' = [loc EXCEPT ![c].tc = delivered]
    BY <1>6 DEF ReportWrite, Goto
  <2> HIDE DEF delivered, persisted
  <2>t. \/ tc' = tc
        \/ /\ tc'.status \in {"executed", "failed"}
           /\ AgreesWithAttempt(tc'.status)
    BY <2>3, <2>4 DEF AgreesWithAttempt
  <2>7. CASE Return(c)
    <3>1. Moves(c, "idle")
      BY <2>7, ReturnMoves
    <3>2. OwnerClaim(c)' /\ VisitorClaim(c)' /\ "idle" \notin OwnerPcs
      BY <3>1, MoveOne, FreeClaims DEF FreePcs
    <3> QED BY <2>1, <2>4, <2>t, <3>1, <3>2, ReportTells
  <2>8. CASE /\ pc' = [pc EXCEPT ![c] = "report_expose"]
             /\ loc' = [loc EXCEPT ![c].tc = delivered]
    <3>1. /\ loc'[c].tc = delivered /\ loc'[c].report = loc[c].report
          /\ Moves(c, "report_expose")
      BY <2>8, GotoMoves DEF Goto, LocTypes, Locals
    <3>2. pc'[c] = "report_expose"
      BY <3>1, MoveOne
    <3>3. VisitorClaim(c)'
      BY <1>0, <2>1, <2>3, <2>4, <3>1, <3>2
         DEF VisitorClaim, DecidingPcs, ClosedPcs, AgreesWithAttempt,
             LegacyOutcome
    <3>4. OwnerClaim(c)' /\ "report_expose" \notin OwnerPcs
      BY <3>2, ReportersDoNotOwn
    <3> QED BY <2>1, <2>4, <2>t, <3>1, <3>3, <3>4, ReportTells
  <2> QED BY <2>6, <2>7, <2>8
<1>7. CASE ReportExpose(c)
  <2>1. /\ pc[c] = "report_expose" /\ Moves(c, "report_release")
        /\ UNCHANGED records /\ loc' = loc
    BY <1>7, GotoMoves DEF ReportExpose
  <2>2. pc'[c] = "report_release"
    BY <2>1, MoveOne
  <2>3. VisitorClaim(c)'
    BY <1>0, <2>1, <2>2
       DEF VisitorClaim, DecidingPcs, ClosedPcs, AgreesWithAttempt, records
  <2> QED BY <2>1, <2>3, ReportGoesOn
<1>8. CASE ReportRelease(c)
  <2>1. /\ pc[c] = "report_release" /\ Moves(c, "idle")
        /\ UNCHANGED <<ap, att, grant, receipt>>
        /\ tc'.status = loc[c].tc.status
    BY <1>8, ReturnMoves DEF ReportRelease, ToolCalls
  <2>2. /\ loc[c].tc.status \in {"executed", "failed"}
        /\ AgreesWithAttempt(loc[c].tc.status)
    BY <1>0, <2>1 DEF VisitorClaim
  <2>3. OwnerClaim(c)' /\ VisitorClaim(c)' /\ "idle" \notin OwnerPcs
    BY <2>1, MoveOne, FreeClaims DEF FreePcs
  <2> QED BY <2>1, <2>2, <2>3, ReportTells
<1> QED BY <1>1, <1>2, <1>3, <1>4, <1>5, <1>6, <1>7, <1>8 DEF ReportStep

------------------------------------------------------------------------------
(* The invariant *)

(* Nothing exists and nobody acts. *)
LEMMA InitOwnership == Init => OwnershipInv
BY DEF Init, GateInit, NoToolCall, OwnershipInv, OneOwner, Owns, OwnerClaim,
   VisitorClaim, OwnerPcs, UntoldPcs, ToldPcs, CarryingPcs, ReservedPcs,
   DispatchedPcs, DecidingPcs, ClosedPcs, EndedPcs, ReportPath, Story,
   ToolCallTruth, OutcomeAgreement, Refused

(* A new call owns nothing; a fault gives up what its call owned. *)
LEMMA OtherOwnership ==
  ASSUME TypeOK, OwnershipInv
  PROVE  /\ \A c \in Calls : Request(c) \/ Fault(c) => OwnershipInv'
         /\ Environment \/ UNCHANGED vars => OwnershipInv'
<1> PcTypes /\ LocTypes
  BY DEF TypeOK
<1>1. ASSUME NEW c \in Calls, Request(c)
      PROVE  OwnershipInv'
  <2>1. ASSUME NEW mode \in Modes, NEW scoped \in Scopes,
               SubmitEvaluate(c, mode, scoped)
        PROVE  OwnershipInv'
    <3>1. Moves(c, "submit_influence") /\ UNCHANGED records
      BY <2>1, GotoMoves DEF SubmitEvaluate, LocTypes
    <3>2. loc'[c].tc.status = "submitted"
      BY <2>1 DEF SubmitEvaluate, LocTypes, NoLocals, NoToolCall
    <3> QED BY <3>1, <3>2, DraftOwnership
  <2>2. ASSUME \/ \E p \in Principals, input \in Inputs :
                    ApproveBegin(c, p, input)
               \/ \E p \in Principals, kind \in {"reject", "cancel", "read"} :
                    CloseBegin(c, p, kind)
        PROVE  OwnershipInv'
    <3>1. /\ ap.status # "absent" /\ UNCHANGED records
          /\ Moves(c, "approve_load") \/ Moves(c, "close_check")
      BY <2>2, GotoMoves DEF ApproveBegin, CloseBegin, LocTypes
    <3> QED BY <3>1, DecideOwnership DEF DecidingPcs
  <2>3. ASSUME NEW input \in Inputs, ConsumeBegin(c, input)
        PROVE  OwnershipInv'
    <3>1. Moves(c, "consume_attempt") /\ UNCHANGED records
      BY <2>3, GotoMoves DEF ConsumeBegin, LocTypes
    <3> QED BY <3>1, FreeOwnership DEF FreePcs
  <2>4. ASSUME NEW report \in Reports, ReportBegin(c, report)
        PROVE  OwnershipInv'
    <3>1. /\ Moves(c, "report_tool") /\ UNCHANGED records
          /\ grant.status = "consumed"
      BY <2>4, GotoMoves DEF ReportBegin, LocTypes
    <3>2. pc'[c] = "report_tool"
      BY <3>1, MoveOne
    <3>3. VisitorClaim(c)'
      BY <3>1, <3>2
         DEF VisitorClaim, DecidingPcs, ClosedPcs, EndedPcs, ReportPath, records
    <3> QED BY <3>1, <3>3, ReportGoesOn
  <2> QED BY <1>1, <2>1, <2>2, <2>3, <2>4
          DEF Request, ApprovalRequest, RunnerRequest
<1>2. ASSUME NEW c \in Calls, Fault(c)
      PROVE  OwnershipInv'
  <2>1. CASE Abort(c)
    BY <2>1, ReturnOwnership DEF Abort
  <2>2. CASE SubmitInfluenceUnavailable(c)
    <3>1. loc[c].tc \in ToolCalls /\ loc[c].tc.status = "submitted"
      BY <2>2, SnapshotType
         DEF SubmitInfluenceUnavailable, OwnershipInv, VisitorClaim
    <3>2. Moves(c, "submit_create") /\ UNCHANGED records
      BY <2>2, GotoMoves DEF SubmitInfluenceUnavailable, LocTypes
    <3>3. loc'[c].tc.status = "submitted"
      BY <2>2, <3>1 DEF SubmitInfluenceUnavailable, DraftToolCall, LocTypes,
         Locals, ToolCalls
    <3> QED BY <3>2, <3>3, DraftOwnership
  <2>3. CASE GrantUnavailable(c)
    <3>1. /\ pc[c] \in ReservedPcs /\ Moves(c, "fail_before")
          /\ UNCHANGED records
      BY <2>3, GotoMoves DEF GrantUnavailable, ReservedPcs
    <3>2. pc'[c] = "fail_before"
      BY <3>1, MoveOne
    <3>3. /\ Owns(c) /\ "fail_before" \in OwnerPcs
          /\ OwnerClaim(c)'
      BY <3>1, <3>2 DEF OwnershipInv, OwnerClaim, Owns, OwnerPcs, UntoldPcs,
         ToldPcs, CarryingPcs, ReservedPcs, DispatchedPcs, records
    <3> QED BY <3>1, <3>3, OwnerGoesOn
  <2> QED BY <1>2, <2>1, <2>2, <2>3 DEF Fault
<1>3. ASSUME Environment \/ UNCHANGED vars
      PROVE  UNCHANGED <<tc, ap, att, grant, receipt, pc, loc>>
  BY <1>3 DEF Environment, Tick, PolicyReload, ForeignExposure, records, vars
<1>4. ASSUME UNCHANGED <<tc, ap, att, grant, receipt, pc, loc>>
      PROVE  OwnershipInv'
  BY <1>4 DEF OwnershipInv, OneOwner, Owns, OwnerClaim, VisitorClaim,
     AgreesWithAttempt, LegacyOutcome, Story, ToolCallTruth, OutcomeAgreement
<1> QED BY <1>1, <1>2, <1>3, <1>4

(* Every step of the gate keeps the action owned by at most one call. *)
LEMMA NextOwnership ==
  ASSUME TypeOK, RefusalInv, OwnershipInv, [Next]_vars
  PROVE  OwnershipInv'
BY OtherOwnership, SubmitStepOwnership, ApproveStepOwnership,
   CloseStepOwnership, ReservationStepOwnership, LocalStepOwnership,
   GrantStepOwnership, ConsumeStepOwnership, ReportStepOwnership
   DEF Next, Step, ApprovalStep, ExecutionStep

(* From the creation of the tool call to the last word of the call that
   executes it, at most one call owns the action, and each record stands where
   that call left it. *)
THEOREM OwnedByOne == Spec => []OwnershipInv
<1>1. Init => OwnershipInv
  BY InitOwnership
<1>2. TypeOK /\ RefusalInv /\ OwnershipInv /\ [Next]_vars => OwnershipInv'
  BY NextOwnership
<1> QED BY <1>1, <1>2, TypeCorrect, CarriedByOne, PTL DEF Spec

(* However stale the snapshot it is written from, the tool call never tells
   another story than approval, grant and attempt. *)
THEOREM ToolCallTellsTruth == Spec => []ToolCallTruth
<1>1. OwnershipInv => ToolCallTruth
  BY DEF OwnershipInv
<1> QED BY <1>1, OwnedByOne, PTL

(* Attempt, receipt and tool call record one outcome, whichever of several
   reports and retries wrote each of them. *)
THEOREM OutcomesAgree == Spec => []OutcomeAgreement
<1>1. OwnershipInv => OutcomeAgreement
  BY DEF OwnershipInv
<1> QED BY <1>1, OwnedByOne, PTL

------------------------------------------------------------------------------
(* Evidence *)

(* Status, input and the withheld mark are all a snapshot is changed in. *)
LEMMA RewriteKeepsEvidence ==
  ASSUME NEW t \in ToolCalls, NEW status, NEW input, NEW withheld
  PROVE  /\ SameEvidence(t, t)
         /\ SameEvidence([t EXCEPT !.status = status], t)
         /\ SameEvidence([t EXCEPT !.input = input], t)
         /\ SameEvidence([t EXCEPT !.withheld = withheld], t)
         /\ SameEvidence([t EXCEPT !.status = status, !.input = input], t)
         /\ SameEvidence([t EXCEPT !.status = status,
                                   !.withheld = withheld], t)
BY DEF SameEvidence, ToolCalls

(* Evidence decides what was decided. *)
LEMMA EvidenceDecides ==
  ASSUME NEW t, NEW u, SameEvidence(t, u), Decided(u)
  PROVE  Decided(t)
BY DEF SameEvidence, Decided, OriginalRule

(* Whoever holds a copy of the tool call has found it stored. *)
LEMMA HeldIsStored ==
  ASSUME RefusalInv, OwnershipInv, NEW c \in Calls, pc[c] \in HolderPcs
  PROVE  tc.status # "absent"
<1>1. CASE Owns(c)
  BY <1>1, AbsentIsUnowned
<1>2. CASE ~Owns(c)
  <2>1. pc[c] \in ClosedPcs \cup ReportPath
          \cup {"approve_commit", "close_commit", "expire",
                "consume_validate", "consume_dispatch", "report_attempt"}
    BY <1>2 DEF HolderPcs, Owns
  <2>2. VisitorClaim(c) /\ ToolCallTruth
    BY DEF OwnershipInv
  <2>3. tc.status = "absent" => ap.status = "absent"
    BY DEF RefusalInv
  <2> QED BY <2>1, <2>2, <2>3
          DEF VisitorClaim, ToolCallTruth, DecidingPcs, ClosedPcs, Refused
<1> QED BY <1>1, <1>2

(* What every step does to evidence: nothing, once it is stored. *)
EvidenceKept ==
  /\ EvidenceInv'
  /\ tc.status # "absent" => SameEvidence(tc', tc)

(* A holder moves on, or writes its snapshot back. *)
LEMMA HolderMoves ==
  ASSUME PcTypes, LocTypes, RecordTypes, RefusalInv, OwnershipInv, EvidenceInv,
         NEW c \in Calls, NEW label, Moves(c, label), label # "submit_create",
         pc[c] \in HolderPcs,
         label \in HolderPcs => SameEvidence(loc'[c].tc, loc[c].tc),
         tc' = tc \/ SameEvidence(tc', loc[c].tc)
  PROVE  EvidenceKept
<1>1. /\ pc'[c] = label
      /\ \A d \in Calls : d # c => pc'[d] = pc[d] /\ loc'[d] = loc[d]
  BY MoveOne
<1>2. Decided(tc) /\ SameEvidence(loc[c].tc, tc)
  BY HeldIsStored DEF EvidenceInv
<1>3. SameEvidence(tc', tc) /\ SameEvidence(tc, tc')
  BY <1>2 DEF SameEvidence
<1>4. Decided(tc')
  BY <1>2, <1>3, EvidenceDecides
<1>5. label \in HolderPcs => SameEvidence(loc'[c].tc, tc')
  BY <1>2, <1>3 DEF SameEvidence
<1>6. ASSUME NEW d \in Calls, d # c, pc[d] \in HolderPcs
      PROVE  SameEvidence(loc[d].tc, tc')
  <2>1. SameEvidence(loc[d].tc, tc)
    BY <1>6 DEF EvidenceInv
  <2> QED BY <1>3, <2>1 DEF SameEvidence
<1>7. \A d \in Calls : pc'[d] \in HolderPcs => SameEvidence(loc'[d].tc, tc')
  BY <1>1, <1>5, <1>6
<1>8. \A d \in Calls : pc'[d] = "submit_create" => Decided(loc'[d].tc)
  BY <1>1 DEF EvidenceInv
<1> QED BY <1>3, <1>4, <1>7, <1>8
        DEF EvidenceKept, EvidenceInv, Decided, OriginalRule, SameEvidence

(* A call moves on without a write, and holds no copy or a fresh one. *)
LEMMA OthersMove ==
  ASSUME PcTypes, EvidenceInv, NEW c \in Calls, NEW label, Moves(c, label),
         tc' = tc,
         label = "submit_create" => Decided(loc'[c].tc),
         label \in HolderPcs => loc'[c].tc = tc
  PROVE  EvidenceKept
<1>1. /\ pc'[c] = label
      /\ \A d \in Calls : d # c => pc'[d] = pc[d] /\ loc'[d] = loc[d]
  BY MoveOne
<1> QED BY <1>1
        DEF EvidenceKept, EvidenceInv, Decided, OriginalRule, SameEvidence

LEMMA ReturnEvidence ==
  ASSUME PcTypes, LocTypes, EvidenceInv, NEW c \in Calls, Return(c), tc' = tc
  PROVE  EvidenceKept
<1>1. "idle" \notin HolderPcs
  BY DEF HolderPcs, OwnerPcs, UntoldPcs, ToldPcs, CarryingPcs, ReservedPcs,
     DispatchedPcs, ClosedPcs, ReportPath
<1> QED BY <1>1, ReturnMoves, OthersMove

(* A holder writes its snapshot back and is done. *)
LEMMA HolderWrites ==
  ASSUME TypeOK, RefusalInv, OwnershipInv, EvidenceInv, NEW c \in Calls,
         pc[c] \in HolderPcs, Return(c),
         tc' = tc \/ SameEvidence(tc', loc[c].tc)
  PROVE  EvidenceKept
<1>1. "idle" \notin HolderPcs
  BY DEF HolderPcs, OwnerPcs, UntoldPcs, ToldPcs, CarryingPcs, ReservedPcs,
     DispatchedPcs, ClosedPcs, ReportPath
<1> QED BY <1>1, ReturnMoves, HolderMoves DEF TypeOK

(* A holder moves on as it is. *)
LEMMA HolderGoesOn ==
  ASSUME TypeOK, RefusalInv, OwnershipInv, EvidenceInv, NEW c \in Calls,
         NEW label, label # "submit_create", pc[c] \in HolderPcs,
         Goto(c, label), UNCHANGED <<tc, loc>>
  PROVE  EvidenceKept
<1>1. SameEvidence(loc'[c].tc, loc[c].tc)
  BY DEF SameEvidence
<1> QED BY <1>1, GotoMoves, HolderMoves DEF TypeOK

(* A draft is decided by the very sources it records. *)
LEMMA DraftIsDecided ==
  ASSUME NEW t \in ToolCalls, NEW seen, NEW rev
  PROVE  Decided(DraftToolCall(t, seen, rev))
BY DEF Decided, DraftToolCall, OriginalRule, ToolCalls

(* The submission stores its evidence, once. *)
LEMMA SubmitStepEvidence ==
  ASSUME TypeOK, RefusalInv, OwnershipInv, EvidenceInv, NEW c \in Calls,
         SubmitStep(c)
  PROVE  EvidenceKept
<1> PcTypes /\ LocTypes
  BY DEF TypeOK
<1> loc[c].tc \in ToolCalls
  BY SnapshotType
<1>0. {"submit_block", "submit_pend", "submit_approval", "receipt"}
        \subseteq HolderPcs /\ "submit_create" \notin HolderPcs
  BY DEF HolderPcs, OwnerPcs, UntoldPcs, ToldPcs, CarryingPcs, ReservedPcs,
     DispatchedPcs, ClosedPcs, ReportPath
<1>1. CASE SubmitInfluence(c)
  <2>1. PICK seen, rev :
          loc' = [loc EXCEPT ![c].tc = DraftToolCall(loc[c].tc, seen, rev)]
    BY <1>1 DEF SubmitInfluence
  <2>2. loc'[c].tc = DraftToolCall(loc[c].tc, seen, rev)
    BY <2>1 DEF LocTypes, Locals
  <2>3. Decided(loc'[c].tc)
    BY <2>2, DraftIsDecided
  <2>4. Moves(c, "submit_create") /\ tc' = tc
    BY <1>1, <2>1, GotoMoves DEF SubmitInfluence, LocTypes, records
  <2> QED BY <1>0, <2>3, <2>4, OthersMove
<1>2. CASE SubmitCreate(c)
  <2>1. /\ tc.status = "absent" /\ tc' = loc[c].tc /\ Decided(tc')
    BY <1>2 DEF SubmitCreate, EvidenceInv, Decided, OriginalRule
  <2>2. PICK label \in {"submit_block", "submit_pend", "receipt"} :
          Moves(c, label)
    BY <1>2, GotoMoves DEF SubmitCreate, LocTypes
  <2>3. /\ pc'[c] = label
        /\ \A d \in Calls : d # c => pc'[d] = pc[d] /\ loc'[d] = loc[d]
    BY <2>2, MoveOne
  <2>4. loc'[c].tc = loc[c].tc
    BY <1>2 DEF SubmitCreate, LocTypes, Locals
  <2>5. \A d \in Calls : pc[d] \notin HolderPcs
    BY <2>1, HeldIsStored
  <2>6. \A d \in Calls : pc'[d] \in HolderPcs => SameEvidence(loc'[d].tc, tc')
    BY <2>1, <2>3, <2>4, <2>5 DEF SameEvidence
  <2>7. \A d \in Calls : pc'[d] = "submit_create" => Decided(loc'[d].tc)
    BY <2>3 DEF EvidenceInv
  <2> QED BY <2>1, <2>6, <2>7
          DEF EvidenceKept, EvidenceInv, Decided, OriginalRule, SameEvidence
<1>3. CASE SubmitReplay(c)
  BY <1>3, ReturnEvidence DEF SubmitReplay, records
<1>4. CASE SubmitBlock(c)
  BY <1>0, <1>4, RewriteKeepsEvidence, HolderWrites DEF SubmitBlock
<1>5. CASE SubmitPend(c)
  <2>1. /\ SameEvidence(tc', loc[c].tc) /\ SameEvidence(loc'[c].tc, loc[c].tc)
        /\ Moves(c, "submit_approval")
    BY <1>5, RewriteKeepsEvidence, GotoMoves DEF SubmitPend
  <2> QED BY <1>0, <1>5, <2>1, HolderMoves DEF SubmitPend, TypeOK
<1>6. CASE SubmitApproval(c)
  BY <1>6, ReturnEvidence DEF SubmitApproval
<1> QED BY <1>1, <1>2, <1>3, <1>4, <1>5, <1>6 DEF SubmitStep

(* A decision copies the tool call and writes back what it copied. *)
LEMMA DecisionStepEvidence ==
  ASSUME TypeOK, RefusalInv, OwnershipInv, EvidenceInv, NEW c \in Calls,
         ApproveStep(c) \/ CloseStep(c)
  PROVE  EvidenceKept
<1> PcTypes /\ LocTypes
  BY DEF TypeOK
<1> loc[c].tc \in ToolCalls
  BY SnapshotType
<1>0. /\ {"approve_commit", "close_commit", "expire", "reject_write",
           "terminalize"} \subseteq HolderPcs
      /\ \A label \in {"approve_check", "close_load", "close_check"} :
           label \notin HolderPcs
  BY DEF HolderPcs, OwnerPcs, UntoldPcs, ToldPcs, CarryingPcs, ReservedPcs,
     DispatchedPcs, ClosedPcs, ReportPath
<1>1. CASE ApproveLoad(c) \/ CloseLoad(c)
  <2>1. \/ Return(c)
        \/ Moves(c, "approve_check")
        \/ Moves(c, "close_check")
    BY <1>1, GotoMoves DEF ApproveLoad, CloseLoad, LocTypes
  <2>2. tc' = tc
    BY <1>1 DEF ApproveLoad, CloseLoad, records
  <2> QED BY <1>0, <2>1, <2>2, ReturnEvidence, OthersMove
<1>2. CASE ApproveCheck(c)
  <2>1. \/ Return(c)
        \/ /\ Moves(c, "expire") \/ Moves(c, "approve_commit")
           /\ loc'[c].tc = tc
    BY <1>2, GotoMoves DEF ApproveCheck, LocTypes, Locals
  <2>2. tc' = tc
    BY <1>2 DEF ApproveCheck, records
  <2> QED BY <2>1, <2>2, ReturnEvidence, OthersMove
<1>3. CASE CloseCheck(c)
  <2>1. \/ Return(c)
        \/ Moves(c, "close_load")
        \/ /\ Moves(c, "expire") \/ Moves(c, "close_commit")
           /\ loc'[c].tc = tc
    BY <1>3, GotoMoves DEF CloseCheck, LocTypes, Locals
  <2>2. tc' = tc
    BY <1>3 DEF CloseCheck, records
  <2> QED BY <1>0, <2>1, <2>2, ReturnEvidence, OthersMove
<1>4. CASE ApproveRecord(c) \/ ApproveConflict(c) \/ CloseConflict(c)
  BY <1>4, ReturnEvidence
     DEF ApproveRecord, ApproveConflict, CloseConflict, records
<1>5. CASE ApproveFinalize(c)
  <2>1. loc'[c].tc = loc[c].tc /\ Moves(c, "receipt")
    BY <1>5, GotoMoves DEF ApproveFinalize, LocTypes, Locals
  <2>2. SameEvidence(loc'[c].tc, loc[c].tc)
    BY <2>1, RewriteKeepsEvidence
  <2> QED BY <1>0, <1>5, <2>1, <2>2, HolderMoves DEF ApproveFinalize, TypeOK
<1>6. CASE ApproveExpires(c) \/ CloseCommit(c) \/ CloseExpires(c)
  <2>1. /\ pc[c] \in HolderPcs /\ UNCHANGED <<tc, loc>>
        /\ Goto(c, "terminalize") \/ Goto(c, "reject_write")
    BY <1>0, <1>6 DEF ApproveExpires, CloseCommit, CloseExpires
  <2> QED BY <2>1, HolderGoesOn
<1>7. CASE Expire(c)
  <2>1. /\ pc[c] \in HolderPcs /\ tc' = tc
        /\ \/ Return(c)
           \/ Goto(c, "terminalize") /\ loc' = loc
    BY <1>0, <1>7 DEF Expire
  <2> QED BY <2>1, ReturnEvidence, HolderGoesOn
<1>8. CASE RejectWrite(c) \/ Terminalize(c)
  <2>1. /\ pc[c] \in HolderPcs /\ Return(c)
        /\ tc' = tc \/ SameEvidence(tc', loc[c].tc)
    BY <1>0, <1>8, RewriteKeepsEvidence DEF RejectWrite, Terminalize
  <2> QED BY <2>1, HolderWrites
<1> QED BY <1>1, <1>2, <1>3, <1>4, <1>5, <1>6, <1>7, <1>8
        DEF ApproveStep, CloseStep

(* The owner writes what it carries. *)
LEMMA OwnerStepEvidence ==
  ASSUME TypeOK, RefusalInv, OwnershipInv, EvidenceInv, NEW c \in Calls,
         ReservationStep(c) \/ LocalStep(c) \/ GrantStep(c)
  PROVE  EvidenceKept
<1> PcTypes /\ LocTypes
  BY DEF TypeOK
<1> loc[c].tc \in ToolCalls
  BY SnapshotType
<1>0. {"receipt", "revalidate", "reserve", "fail_before", "fail",
       "fail_receipt", "local_preflight", "local_bind", "local_dispatch",
       "local_recheck", "local_unknown", "local_await", "local_write",
       "local_receipt", "local_expose", "local_release", "grant_create",
       "grant_bind", "grant_audit", "authorize"} \subseteq HolderPcs
  BY DEF HolderPcs, OwnerPcs, UntoldPcs, ToldPcs, CarryingPcs, ReservedPcs,
     DispatchedPcs
<1>1. CASE CreateReceipt(c) \/ Revalidate(c)
  BY <1>0, <1>1, HolderGoesOn DEF CreateReceipt, Revalidate, records
<1>2. CASE Reserve(c)
  <2>1. CASE Return(c)
    BY <1>2, <2>1, ReturnEvidence DEF Reserve
  <2>2. CASE ~Return(c)
    <3>1. /\ loc' = [loc EXCEPT ![c].tc.input = loc[c].input]
          /\ Goto(c, "local_preflight") \/ Goto(c, "grant_create")
      BY <1>2, <2>2 DEF Reserve
    <3>2. loc'[c].tc = [loc[c].tc EXCEPT !.input = loc[c].input]
      BY <3>1 DEF LocTypes, Locals, ToolCalls
    <3>3. SameEvidence(loc'[c].tc, loc[c].tc)
      BY <3>2, RewriteKeepsEvidence
    <3>4. Moves(c, "local_preflight") \/ Moves(c, "grant_create")
      BY <3>1, GotoMoves DEF LocTypes
    <3> QED BY <1>0, <1>2, <3>3, <3>4, HolderMoves DEF Reserve, TypeOK
  <2> QED BY <2>1, <2>2
<1>3. CASE FailBeforeDispatch(c) \/ LocalUnknown(c) \/ LocalResult(c)
  BY <1>0, <1>3, ReturnEvidence, HolderGoesOn
     DEF FailBeforeDispatch, LocalUnknown, LocalResult, CompleteAttempt
<1>4. CASE FailToolCall(c)
  <2>1. /\ SameEvidence(tc', loc[c].tc) /\ SameEvidence(loc'[c].tc, loc[c].tc)
        /\ Moves(c, "fail_receipt")
    BY <1>4, RewriteKeepsEvidence, GotoMoves DEF FailToolCall
  <2> QED BY <1>0, <1>4, <2>1, HolderMoves DEF FailToolCall, TypeOK
<1>5. CASE FailReceipt(c)
  BY <1>5, ReturnEvidence DEF FailReceipt
<1>6. CASE LocalPreflight(c) \/ LocalBind(c) \/ LocalInvoke(c)
             \/ LocalRefused(c) \/ LocalExpose(c)
  BY <1>0, <1>6, HolderGoesOn
     DEF LocalPreflight, LocalBind, LocalInvoke, LocalRefused, LocalExpose,
         records
<1>7. CASE LocalDispatch(c)
  BY <1>0, <1>7, ReturnEvidence, HolderGoesOn DEF LocalDispatch
<1>8. CASE LocalWrite(c)
  <2>1. SameEvidence(LocalExecuted(c), loc[c].tc)
    BY RewriteKeepsEvidence DEF LocalExecuted
  <2>2. /\ tc' = LocalExecuted(c) /\ loc'[c].tc = LocalExecuted(c)
        /\ Moves(c, "local_receipt") /\ pc[c] \in HolderPcs
    BY <1>0, <1>8, GotoMoves DEF LocalWrite, LocTypes, Locals
  <2> QED BY <2>1, <2>2, HolderMoves DEF TypeOK
<1>9. CASE LocalReceipt(c)
  BY <1>0, <1>9, ReturnEvidence, HolderGoesOn DEF LocalReceipt
<1>10. CASE LocalRelease(c) \/ Authorize(c)
  <2>1. pc[c] \in HolderPcs /\ Return(c)
    BY <1>0, <1>10 DEF LocalRelease, Authorize
  <2>2. \/ tc' = [loc[c].tc EXCEPT !.withheld = FALSE]
        \/ tc' = [loc[c].tc EXCEPT !.status = "authorized"]
    BY <1>10 DEF LocalRelease, Authorize
  <2>3. SameEvidence(tc', loc[c].tc)
    BY <2>2, RewriteKeepsEvidence
  <2> QED BY <2>1, <2>3, HolderWrites
<1>11. CASE GrantCreate(c) \/ GrantBind(c) \/ GrantAudit(c)
  BY <1>0, <1>11, HolderGoesOn DEF GrantCreate, GrantBind, GrantAudit, records
<1> QED BY <1>1, <1>2, <1>3, <1>4, <1>5, <1>6, <1>7, <1>8, <1>9, <1>10, <1>11
        DEF ReservationStep, LocalStep, GrantStep

(* So do runners, from the copy they loaded. *)
LEMMA RunnerStepEvidence ==
  ASSUME TypeOK, RefusalInv, OwnershipInv, EvidenceInv, NEW c \in Calls,
         ConsumeStep(c) \/ ReportStep(c)
  PROVE  EvidenceKept
<1> PcTypes /\ LocTypes
  BY DEF TypeOK
<1> loc[c].tc \in ToolCalls
  BY SnapshotType
<1>0. /\ {"consume_validate", "consume_dispatch", "report_attempt"}
           \cup ReportPath \subseteq HolderPcs
      /\ "consume_tool" \notin HolderPcs
  BY DEF HolderPcs, OwnerPcs, UntoldPcs, ToldPcs, CarryingPcs, ReservedPcs,
     DispatchedPcs, ClosedPcs, ReportPath
<1>00. {"report_outcome", "report_commit", "report_receipt", "report_write",
        "report_expose", "report_release"} = ReportPath
  BY DEF ReportPath
<1>1. CASE ConsumeAttempt(c)
  <2>1. Return(c) \/ Moves(c, "consume_tool")
    BY <1>1, GotoMoves DEF ConsumeAttempt
  <2> QED BY <1>0, <1>1, <2>1, ReturnEvidence, OthersMove
          DEF ConsumeAttempt, records
<1>2. CASE ConsumeToolCall(c) \/ ReportToolCall(c)
  <2>1. \/ Return(c)
        \/ /\ loc'[c].tc = tc
           /\ Moves(c, "consume_validate") \/ Moves(c, "report_attempt")
    BY <1>2, GotoMoves DEF ConsumeToolCall, ReportToolCall, LocTypes, Locals
  <2>2. tc' = tc
    BY <1>2 DEF ConsumeToolCall, ReportToolCall, records
  <2> QED BY <2>1, <2>2, ReturnEvidence, OthersMove
<1>3. CASE ConsumeValidate(c) \/ ReportAttempt(c) \/ ReportReceiptCheck(c)
             \/ ReportReceipt(c)
  BY <1>0, <1>00, <1>3, ReturnEvidence, HolderGoesOn
     DEF ConsumeValidate, ReportAttempt, ReportReceiptCheck, ReportReceipt,
         records
<1>4. CASE ConsumeDispatch(c)
  BY <1>4, ReturnEvidence DEF ConsumeDispatch
<1>5. CASE ReportTransition(c) \/ ReportExpose(c)
  BY <1>0, <1>00, <1>5, HolderGoesOn DEF ReportTransition, ReportExpose, records
<1>6. CASE ReportReplay(c)
  <2>1. tc' = tc /\ pc[c] \in HolderPcs
    BY <1>0, <1>00, <1>6 DEF ReportReplay, records
  <2>2. \/ Return(c)
        \/ loc'[c].tc = loc[c].tc /\ Moves(c, "report_receipt")
    BY <1>6, GotoMoves DEF ReportReplay, LocTypes, Locals
  <2>3. SameEvidence(loc[c].tc, loc[c].tc)
    BY RewriteKeepsEvidence
  <2> QED BY <2>1, <2>2, <2>3, ReturnEvidence, HolderMoves DEF TypeOK
<1>7. CASE ReportWrite(c)
  <2> DEFINE persisted == loc[c].replay /\ loc[c].tc.status # "authorized"
             delivered == IF persisted THEN loc[c].tc ELSE TerminalToolCall(c)
  <2>1. SameEvidence(delivered, loc[c].tc)
    BY RewriteKeepsEvidence DEF TerminalToolCall
  <2>2. /\ pc[c] \in HolderPcs
        /\ tc' = tc \/ tc' = delivered
    BY <1>0, <1>00, <1>7 DEF ReportWrite
  <2>3. \/ Return(c)
        \/ /\ pc' = [pc EXCEPT ![c] = "report_expose"]
           /\ loc' = [loc EXCEPT ![c].tc = delivered]
    BY <1>7 DEF ReportWrite, Goto
  <2> HIDE DEF delivered, persisted
  <2>4. CASE Return(c)
    BY <2>1, <2>2, <2>4, HolderWrites
  <2>5. CASE /\ pc' = [pc EXCEPT ![c] = "report_expose"]
             /\ loc' = [loc EXCEPT ![c].tc = delivered]
    <3>1. loc'[c].tc = delivered /\ Moves(c, "report_expose")
      BY <2>5, GotoMoves DEF Goto, LocTypes, Locals
    <3> QED BY <2>1, <2>2, <3>1, HolderMoves DEF TypeOK
  <2> QED BY <2>3, <2>4, <2>5
<1>8. CASE ReportRelease(c)
  <2>1. /\ pc[c] \in HolderPcs /\ Return(c)
        /\ SameEvidence(tc', loc[c].tc)
    BY <1>0, <1>00, <1>8, RewriteKeepsEvidence DEF ReportRelease
  <2> QED BY <2>1, HolderWrites
<1> QED BY <1>1, <1>2, <1>3, <1>4, <1>5, <1>6, <1>7, <1>8
        DEF ConsumeStep, ReportStep

(* A new call holds nothing yet. *)
LEMMA OtherEvidence ==
  ASSUME TypeOK, RefusalInv, OwnershipInv, EvidenceInv
  PROVE  /\ \A c \in Calls : Request(c) \/ Fault(c) => EvidenceKept
         /\ Environment \/ UNCHANGED vars => EvidenceKept
<1> PcTypes /\ LocTypes
  BY DEF TypeOK
<1>0. /\ \A label \in {"submit_influence", "submit_create", "approve_load",
                       "close_check", "consume_attempt", "report_tool"} :
           label \notin HolderPcs
      /\ {"grant_create", "grant_bind", "grant_audit"} \subseteq HolderPcs
  BY DEF HolderPcs, OwnerPcs, UntoldPcs, ToldPcs, CarryingPcs, ReservedPcs,
     DispatchedPcs, ClosedPcs, ReportPath
<1>1. ASSUME NEW c \in Calls, Request(c)
      PROVE  EvidenceKept
  <2>1. /\ tc' = tc
        /\ \E label \in {"submit_influence", "approve_load", "close_check",
                         "consume_attempt", "report_tool"} : Moves(c, label)
    BY <1>1, GotoMoves
       DEF Request, ApprovalRequest, RunnerRequest, SubmitEvaluate,
           ApproveBegin, CloseBegin, ConsumeBegin, ReportBegin, records,
           LocTypes
  <2> QED BY <1>0, <2>1, OthersMove
<1>2. ASSUME NEW c \in Calls, Fault(c)
      PROVE  EvidenceKept
  <2>1. CASE Abort(c)
    BY <2>1, ReturnEvidence DEF Abort, records
  <2>2. CASE SubmitInfluenceUnavailable(c)
    <3>1. /\ loc'[c].tc = DraftToolCall(loc[c].tc, {"unknown"}, -1)
          /\ Moves(c, "submit_create") /\ tc' = tc
      BY <2>2, GotoMoves DEF SubmitInfluenceUnavailable, LocTypes, Locals,
         records
    <3>2. Decided(loc'[c].tc)
      BY <3>1, SnapshotType, DraftIsDecided
    <3> QED BY <1>0, <3>1, <3>2, OthersMove
  <2>3. CASE GrantUnavailable(c)
    BY <1>0, <2>3, HolderGoesOn DEF GrantUnavailable, records
  <2> QED BY <1>2, <2>1, <2>2, <2>3 DEF Fault
<1>3. ASSUME Environment \/ UNCHANGED vars
      PROVE  UNCHANGED <<tc, pc, loc>>
  BY <1>3 DEF Environment, Tick, PolicyReload, ForeignExposure, records, vars
<1>4. ASSUME UNCHANGED <<tc, pc, loc>>
      PROVE  EvidenceKept
  BY <1>4 DEF EvidenceKept, EvidenceInv, Decided, OriginalRule, SameEvidence
<1> QED BY <1>1, <1>2, <1>3, <1>4

LEMMA NextEvidence ==
  ASSUME TypeOK, RefusalInv, OwnershipInv, EvidenceInv, [Next]_vars
  PROVE  EvidenceKept
BY OtherEvidence, SubmitStepEvidence, DecisionStepEvidence, OwnerStepEvidence,
   RunnerStepEvidence
   DEF Next, Step, ApprovalStep, ExecutionStep

LEMMA InitEvidence == Init => EvidenceInv
BY DEF Init, GateInit, NoToolCall, EvidenceInv, HolderPcs, OwnerPcs,
   UntoldPcs, ToldPcs, CarryingPcs, ReservedPcs, DispatchedPcs, ClosedPcs,
   ReportPath

(* The evidence an action was decided by - policy version, scope, exposure
   revision, observed sources and decision - is never rewritten, whichever of
   the racing calls writes its copy of the tool call back. *)
THEOREM EvidenceStays == Spec => []EvidenceInv
<1>1. Init => EvidenceInv
  BY InitEvidence
<1>2. TypeOK /\ RefusalInv /\ OwnershipInv /\ EvidenceInv /\ [Next]_vars
      => EvidenceInv'
  BY NextEvidence DEF EvidenceKept
<1> QED BY <1>1, <1>2, TypeCorrect, CarriedByOne, OwnedByOne, PTL DEF Spec

------------------------------------------------------------------------------
(* Withheld results *)

(* Only a call that has recorded the exposure comes to release the result. *)
ReleasedExposed ==
  /\ exposed => exposed'
  /\ \A c \in Calls : pc'[c] \in {"local_release", "report_release"} => exposed'

LEMMA ApprovalReleases ==
  ASSUME PcTypes, WithheldInv, NEW c \in Calls, ApprovalStep(c)
  PROVE  ReleasedExposed
<1> USE DEF WithheldInv, PcTypes, ReleasedExposed, Goto, Return, scope
<1>1. CASE SubmitStep(c)
  BY <1>1
     DEF SubmitStep, SubmitInfluence, SubmitCreate, SubmitReplay, SubmitBlock,
         SubmitPend, SubmitApproval
<1>2. CASE ApproveStep(c)
  BY <1>2
     DEF ApproveStep, ApproveLoad, ApproveCheck, ApproveRecord,
         ApproveFinalize, ApproveExpires, ApproveConflict
<1>3. CASE CloseStep(c)
  BY <1>3
     DEF CloseStep, CloseCheck, CloseLoad, CloseCommit, CloseExpires,
         CloseConflict, RejectWrite, Expire, Terminalize
<1> QED BY <1>1, <1>2, <1>3 DEF ApprovalStep

LEMMA ExecutionReleases ==
  ASSUME PcTypes, WithheldInv, NEW c \in Calls, ExecutionStep(c)
  PROVE  ReleasedExposed
<1> USE DEF WithheldInv, PcTypes, ReleasedExposed, Goto, Return, scope
<1>1. CASE ReservationStep(c)
  BY <1>1
     DEF ReservationStep, CreateReceipt, Revalidate, Reserve,
         FailBeforeDispatch, FailToolCall, FailReceipt, CompleteAttempt
<1>2. CASE LocalStep(c)
  BY <1>2
     DEF LocalStep, LocalPreflight, LocalBind, LocalDispatch, LocalInvoke,
         LocalRefused, LocalUnknown, LocalResult, LocalWrite, LocalReceipt,
         LocalExpose, LocalRelease, CompleteAttempt, RecordExposure
<1>3. CASE GrantStep(c)
  BY <1>3 DEF GrantStep, GrantCreate, GrantBind, GrantAudit, Authorize
<1>4. CASE ConsumeStep(c)
  <2>1. /\ exposed' = exposed
        /\ \E label \in {"idle", "consume_tool", "consume_validate",
                         "consume_dispatch"} : Goto(c, label)
    BY <1>4
       DEF ConsumeStep, ConsumeAttempt, ConsumeToolCall, ConsumeValidate,
           ConsumeDispatch
  <2> QED BY <2>1
<1>5. CASE ReportStep(c)
  BY <1>5
     DEF ReportStep, ReportToolCall, ReportAttempt, ReportReceiptCheck,
         ReportTransition, ReportReplay, ReportReceipt, ReportWrite,
         ReportExpose, ReportRelease, RecordExposure
<1> QED BY <1>1, <1>2, <1>3, <1>4, <1>5 DEF ExecutionStep

(* A request writes nothing, and its call starts at the first await. *)
FirstPcs == {"submit_influence", "approve_load", "close_check",
             "consume_attempt", "report_tool"}

LEMMA RequestStarts ==
  ASSUME NEW c \in Calls, Request(c)
  PROVE  /\ UNCHANGED <<records, scope, effects>>
         /\ \E label \in FirstPcs : Goto(c, label)
<1>1. ASSUME NEW mode \in Modes, NEW scoped \in Scopes,
             SubmitEvaluate(c, mode, scoped)
      PROVE  UNCHANGED <<records, scope, effects>> /\ Goto(c, "submit_influence")
  BY <1>1 DEF SubmitEvaluate
<1>2. ASSUME NEW p \in Principals, NEW input \in Inputs,
             ApproveBegin(c, p, input)
      PROVE  UNCHANGED <<records, scope, effects>> /\ Goto(c, "approve_load")
  BY <1>2 DEF ApproveBegin
<1>3. ASSUME NEW p \in Principals, NEW kind \in {"reject", "cancel", "read"},
             CloseBegin(c, p, kind)
      PROVE  UNCHANGED <<records, scope, effects>> /\ Goto(c, "close_check")
  BY <1>3 DEF CloseBegin
<1>4. ASSUME NEW input \in Inputs, ConsumeBegin(c, input)
      PROVE  UNCHANGED <<records, scope, effects>> /\ Goto(c, "consume_attempt")
  BY <1>4 DEF ConsumeBegin
<1>5. ASSUME NEW report \in Reports, ReportBegin(c, report)
      PROVE  UNCHANGED <<records, scope, effects>> /\ Goto(c, "report_tool")
  BY <1>5 DEF ReportBegin
<1> QED BY <1>1, <1>2, <1>3, <1>4, <1>5
        DEF Request, ApprovalRequest, RunnerRequest, FirstPcs

LEMMA OtherReleases ==
  ASSUME PcTypes, WithheldInv
  PROVE  /\ \A c \in Calls : Request(c) \/ Fault(c) => ReleasedExposed
         /\ Environment \/ UNCHANGED vars => ReleasedExposed
<1> USE DEF WithheldInv, PcTypes, ReleasedExposed, Goto, Return, scope
<1>1. ASSUME NEW c \in Calls, Request(c)
      PROVE  ReleasedExposed
  BY <1>1, RequestStarts DEF FirstPcs
<1>2. ASSUME NEW c \in Calls, Fault(c)
      PROVE  ReleasedExposed
  BY <1>2 DEF Fault, Abort, SubmitInfluenceUnavailable, GrantUnavailable
<1>3. ASSUME Environment \/ UNCHANGED vars
      PROVE  ReleasedExposed
  BY <1>3 DEF Environment, Tick, PolicyReload, ForeignExposure, vars
<1> QED BY <1>1, <1>2, <1>3

(* The awaits at which a call claims something of the delivery, and a call
   that goes to none of them. *)
DeliveryPcs == ExposingPcs \cup ReportPath

DeliversNothing(c) == \E label : label \notin DeliveryPcs /\ Moves(c, label)

(* A report that nobody began and a result that nobody has are not shown. *)
LEMMA OthersDeliverNothing ==
  ASSUME LocTypes, NEW c \in Calls,
         Request(c) \/ ApprovalStep(c) \/ ReservationStep(c) \/ GrantStep(c)
           \/ ConsumeStep(c) \/ Fault(c)
  PROVE  DeliversNothing(c)
<1>0. ASSUME NEW label, Goto(c, label), label \notin DeliveryPcs,
             \A d \in Calls : d # c => loc'[d] = loc[d]
      PROVE  DeliversNothing(c)
  BY <1>0, GotoMoves DEF DeliversNothing
<1>1. Return(c) => DeliversNothing(c)
  BY ReturnMoves DEF DeliversNothing, DeliveryPcs, ExposingPcs, ReportPath
<1> USE DEF DeliveryPcs, ExposingPcs, ReportPath
<1>2. CASE SubmitStep(c)
  BY <1>0, <1>1, <1>2
     DEF SubmitStep, SubmitInfluence, SubmitCreate, SubmitReplay, SubmitBlock,
         SubmitPend, SubmitApproval, LocTypes
<1>3. CASE ApproveStep(c)
  BY <1>0, <1>1, <1>3
     DEF ApproveStep, ApproveLoad, ApproveCheck, ApproveRecord,
         ApproveFinalize, ApproveExpires, ApproveConflict, LocTypes
<1>4. CASE CloseStep(c)
  BY <1>0, <1>1, <1>4
     DEF CloseStep, CloseCheck, CloseLoad, CloseCommit, CloseExpires,
         CloseConflict, RejectWrite, Expire, Terminalize, LocTypes
<1>5. CASE ReservationStep(c)
  BY <1>0, <1>1, <1>5
     DEF ReservationStep, CreateReceipt, Revalidate, Reserve,
         FailBeforeDispatch, FailToolCall, FailReceipt, CompleteAttempt,
         LocTypes
<1>6. CASE GrantStep(c)
  BY <1>0, <1>1, <1>6
     DEF GrantStep, GrantCreate, GrantBind, GrantAudit, Authorize
<1>7. CASE ConsumeStep(c)
  BY <1>0, <1>1, <1>7
     DEF ConsumeStep, ConsumeAttempt, ConsumeToolCall, ConsumeValidate,
         ConsumeDispatch, LocTypes
<1>8. ASSUME NEW mode \in Modes, NEW scoped \in Scopes,
             SubmitEvaluate(c, mode, scoped)
      PROVE  DeliversNothing(c)
  BY <1>0, <1>8 DEF SubmitEvaluate, LocTypes
<1>9. ASSUME NEW p \in Principals, NEW input \in Inputs,
             ApproveBegin(c, p, input)
      PROVE  DeliversNothing(c)
  BY <1>0, <1>9 DEF ApproveBegin, LocTypes
<1>10. ASSUME NEW p \in Principals, NEW kind \in {"reject", "cancel", "read"},
              CloseBegin(c, p, kind)
       PROVE  DeliversNothing(c)
  BY <1>0, <1>10 DEF CloseBegin, LocTypes
<1>11. ASSUME NEW input \in Inputs, ConsumeBegin(c, input)
       PROVE  DeliversNothing(c)
  BY <1>0, <1>11 DEF ConsumeBegin, LocTypes
<1>12. ASSUME NEW report \in Reports, ReportBegin(c, report)
       PROVE  DeliversNothing(c)
  BY <1>0, <1>12 DEF ReportBegin, LocTypes
<1>13. CASE Fault(c)
  BY <1>0, <1>1, <1>13
     DEF Fault, Abort, SubmitInfluenceUnavailable, GrantUnavailable, LocTypes
<1> QED BY <1>2, <1>3, <1>4, <1>5, <1>6, <1>7, <1>8, <1>9, <1>10, <1>11, <1>12,
           <1>13
        DEF Request, ApprovalRequest, RunnerRequest, ApprovalStep

(* A call that changes nothing of its delivery still knows what it knew. *)
LEMMA SameDelivery ==
  ASSUME NEW c \in Calls, DeliveryClaim(c),
         pc[c] \in ReportPath, pc'[c] \in ReportPath,
         pc'[c] \in ExposingPcs => loc'[c].tc.scoped,
         loc'[c].tc.scoped = loc[c].tc.scoped,
         loc'[c].tc.policy = loc[c].tc.policy,
         loc'[c].report = loc[c].report
  PROVE  DeliveryClaim(c)'
BY DEF DeliveryClaim, DeliveryAccepted, ExposureRequired, Classified,
   OriginalRule

LEMMA LocalDelivers ==
  ASSUME PcTypes, LocTypes, NEW c \in Calls, DeliveryClaim(c), LocalStep(c)
  PROVE  DeliveryClaim(c)' /\ \E label : Moves(c, label)
<1>0. Return(c) => Moves(c, "idle") /\ pc'[c] = "idle"
  BY ReturnMoves, MoveOne
<1>1. \A label : Goto(c, label) => pc'[c] = label
  BY DEF Goto, PcTypes
<1>2. \E label : Moves(c, label)
  BY <1>0, GotoMoves
     DEF LocalStep, LocalPreflight, LocalBind, LocalDispatch, LocalInvoke,
         LocalRefused, LocalUnknown, LocalResult, LocalWrite, LocalReceipt,
         LocalExpose, LocalRelease, CompleteAttempt, LocTypes
<1>3. CASE LocalReceipt(c)
  <2>1. \/ pc'[c] = "idle"
        \/ pc'[c] = "local_expose" /\ loc' = loc /\ loc[c].tc.scoped
    BY <1>0, <1>1, <1>3 DEF LocalReceipt, ExposureRequired
  <2> QED BY <1>2, <2>1 DEF DeliveryClaim, ExposingPcs, ReportPath
<1>4. CASE LocalExpose(c)
  <2>1. pc[c] = "local_expose" /\ pc'[c] = "local_release" /\ loc' = loc
    BY <1>1, <1>4 DEF LocalExpose
  <2> QED BY <1>2, <2>1 DEF DeliveryClaim, ExposingPcs, ReportPath
<1>5. CASE ~LocalReceipt(c) /\ ~LocalExpose(c)
  <2>1. pc'[c] \notin DeliveryPcs
    BY <1>0, <1>1, <1>5
       DEF LocalStep, LocalPreflight, LocalBind, LocalDispatch, LocalInvoke,
           LocalRefused, LocalUnknown, LocalResult, LocalWrite,
           LocalRelease, CompleteAttempt, DeliveryPcs, ExposingPcs, ReportPath
  <2> QED BY <1>2, <2>1 DEF DeliveryClaim, DeliveryPcs
<1> QED BY <1>3, <1>4, <1>5

LEMMA ReportDelivers ==
  ASSUME PcTypes, LocTypes, NEW c \in Calls, DeliveryClaim(c), ReportStep(c)
  PROVE  DeliveryClaim(c)' /\ \E label : Moves(c, label)
<1>0. Return(c) => Moves(c, "idle") /\ pc'[c] = "idle"
  BY ReturnMoves, MoveOne
<1>00. \A label : Goto(c, label) => pc'[c] = label
  BY DEF Goto, PcTypes
<1>000. loc[c].tc \in ToolCalls /\ loc[c] \in Locals
  BY SnapshotType DEF LocTypes
<1>1. \E label : Moves(c, label)
  BY <1>0, GotoMoves
     DEF ReportStep, ReportToolCall, ReportAttempt, ReportReceiptCheck,
         ReportTransition, ReportReplay, ReportReceipt, ReportWrite,
         ReportExpose, ReportRelease, LocTypes
<1>2. pc'[c] = "idle" => DeliveryClaim(c)'
  BY DEF DeliveryClaim, ExposingPcs, ReportPath
<1>3. CASE ReportToolCall(c) \/ ReportRelease(c)
  <2>1. pc'[c] \in {"report_attempt", "idle"}
    BY <1>0, <1>00, <1>3 DEF ReportToolCall, ReportRelease
  <2> QED BY <1>1, <2>1 DEF DeliveryClaim, ExposingPcs, ReportPath
<1>4. CASE ReportAttempt(c)
  <2>1. \/ pc'[c] = "idle"
        \/ /\ pc'[c] = "report_outcome" /\ loc' = loc
           /\ DeliveryAccepted(loc[c].tc, loc[c].report)
    BY <1>0, <1>00, <1>4 DEF ReportAttempt
  <2> QED BY <1>1, <1>2, <2>1
          DEF DeliveryClaim, ExposingPcs, ReportPath, DeliveryAccepted,
              ExposureRequired, Classified, OriginalRule
<1>5. CASE ReportReceiptCheck(c) \/ ReportTransition(c) \/ ReportReceipt(c)
           \/ ReportReplay(c)
  <2>1. \/ pc'[c] = "idle"
        \/ /\ pc[c] \in ReportPath
           /\ pc'[c] \in {"report_commit", "report_receipt", "report_write"}
           /\ loc'[c].tc = loc[c].tc /\ loc'[c].report = loc[c].report
    BY <1>0, <1>00, <1>000, <1>5
       DEF ReportReceiptCheck, ReportTransition, ReportReceipt, ReportReplay,
           ReportPath, LocTypes, Locals
  <2> QED BY <1>1, <1>2, <2>1, SameDelivery DEF ReportPath, ExposingPcs
<1>6. CASE ReportWrite(c)
  <2>1. /\ TerminalToolCall(c).scoped = loc[c].tc.scoped
        /\ TerminalToolCall(c).policy = loc[c].tc.policy
    BY <1>000 DEF TerminalToolCall, ToolCalls
  <2>2. \/ pc'[c] = "idle"
        \/ /\ pc[c] = "report_write" /\ pc'[c] = "report_expose"
           /\ \E t \in {loc[c].tc, TerminalToolCall(c)} :
                t.scoped /\ loc' = [loc EXCEPT ![c].tc = t]
    BY <1>0, <1>00, <1>6 DEF ReportWrite
  <2>3. ASSUME NEW t \in {loc[c].tc, TerminalToolCall(c)}, t.scoped,
               loc' = [loc EXCEPT ![c].tc = t]
        PROVE  /\ loc'[c].tc.scoped
               /\ loc'[c].tc.scoped = loc[c].tc.scoped
               /\ loc'[c].tc.policy = loc[c].tc.policy
               /\ loc'[c].report = loc[c].report
    <3>1. loc'[c].tc = t /\ loc'[c].report = loc[c].report
      BY <1>000, <2>3 DEF LocTypes, Locals
    <3> QED BY <2>1, <2>3, <3>1
  <2> QED BY <1>1, <1>2, <2>2, <2>3, SameDelivery DEF ReportPath
<1>7. CASE ReportExpose(c)
  <2>1. /\ pc[c] = "report_expose" /\ pc'[c] = "report_release"
        /\ loc' = loc
    BY <1>00, <1>7 DEF ReportExpose
  <2>2. loc[c].tc.scoped
    BY <2>1 DEF DeliveryClaim, ExposingPcs
  <2> QED BY <1>1, <2>1, <2>2, SameDelivery DEF ReportPath
<1> QED BY <1>3, <1>4, <1>5, <1>6, <1>7 DEF ReportStep

LEMMA NextDelivers ==
  ASSUME PcTypes, LocTypes, \A c \in Calls : DeliveryClaim(c), [Next]_vars
  PROVE  \A c \in Calls : DeliveryClaim(c)'
<1>1. ASSUME NEW d \in Calls, pc'[d] = pc[d], loc'[d] = loc[d]
      PROVE  DeliveryClaim(d)'
  BY <1>1 DEF DeliveryClaim, DeliveryAccepted, ExposureRequired, Classified,
              OriginalRule
<1>2. ASSUME NEW c \in Calls, Request(c) \/ Step(c) \/ Fault(c)
      PROVE  \A d \in Calls : DeliveryClaim(d)'
  <2>1. DeliversNothing(c) => DeliveryClaim(c)'
    BY MoveOne DEF DeliversNothing, DeliveryClaim, DeliveryPcs
  <2>2. DeliveryClaim(c)' /\ \E label : Moves(c, label)
    BY <1>2, <2>1, OthersDeliverNothing, LocalDelivers, ReportDelivers
       DEF Step, ExecutionStep, DeliversNothing
  <2>3. \A d \in Calls : d # c => pc'[d] = pc[d] /\ loc'[d] = loc[d]
    BY <2>2, MoveOne
  <2> QED BY <1>1, <2>2, <2>3
<1>3. CASE Environment \/ UNCHANGED vars
  BY <1>1, <1>3 DEF Environment, Tick, PolicyReload, ForeignExposure, vars
<1> QED BY <1>2, <1>3 DEF Next

(* What brings no content to light: the tool call is not final, or it and the
   end of its attempt are as they were. *)
NothingShown ==
  \/ tc'.status \notin {"executed", "failed"}
  \/ /\ tc' = tc /\ att'.body = att.body
     /\ \/ tc.status # "failed"
        \/ att'.state # "failed_after_dispatch"
        \/ att'.state = att.state

LEMMA QuietWithheld ==
  ASSUME WithheldInv, ReleasedExposed, NothingShown
  PROVE  WithheldUntilExposed'
BY DEF WithheldInv, WithheldUntilExposed, NothingShown, ReleasedExposed,
   ExposureRequired, Classified, OriginalRule

(* Submissions and decisions write no result. *)
LEMMA ApprovalShowsNothing ==
  ASSUME TypeOK, OwnershipInv, NEW c \in Calls, ApprovalStep(c)
  PROVE  NothingShown
<1> loc[c].tc \in ToolCalls /\ VisitorClaim(c)
  BY SnapshotType DEF TypeOK, OwnershipInv
<1>1. CASE SubmitStep(c)
  BY <1>1
     DEF SubmitStep, SubmitInfluence, SubmitCreate, SubmitReplay, SubmitBlock,
         SubmitPend, SubmitApproval, records, execution, NothingShown,
         VisitorClaim, ToolCalls
<1>2. CASE ApproveStep(c)
  BY <1>2
     DEF ApproveStep, ApproveLoad, ApproveCheck, ApproveRecord,
         ApproveFinalize, ApproveExpires, ApproveConflict, records, execution,
         NothingShown
<1>3. CASE CloseStep(c)
  BY <1>3
     DEF CloseStep, CloseCheck, CloseLoad, CloseCommit, CloseExpires,
         CloseConflict, RejectWrite, Expire, Terminalize, records, execution,
         NothingShown, ToolCalls
<1> QED BY <1>1, <1>2, <1>3 DEF ApprovalStep

(* A result is stored withheld, what comes without content is not classified,
   and what is released has been exposed. *)
LEMMA ExecutionWithholds ==
  ASSUME TypeOK, OwnershipInv, WithheldInv, ReleasedExposed, NEW c \in Calls,
         ExecutionStep(c)
  PROVE  WithheldUntilExposed'
<1> /\ loc[c].tc \in ToolCalls /\ loc[c].report \in Reports
    /\ VisitorClaim(c) /\ OwnerClaim(c) /\ DeliveryClaim(c)
    /\ ToolCallTruth /\ att \in Attempts
  BY SnapshotType DEF TypeOK, OwnershipInv, RecordTypes, WithheldInv
<1>0. NoBody \notin VisibleBodies
  BY GateAssumption DEF NoBody
<1>1. CASE ReservationStep(c)
  <2>1. CASE FailToolCall(c)
    <3>1. /\ tc'.status = "failed" /\ att'.body = NoBody
          /\ att'.state \in {"absent", "failed_before_dispatch",
                            "unknown_outcome"}
      BY <2>1 DEF FailToolCall, OwnerClaim, Owns, OwnerPcs, UntoldPcs, ToolCalls
    <3> QED BY <1>0, <3>1 DEF WithheldUntilExposed
  <2>2. CASE ~FailToolCall(c)
    <3>1. NothingShown
      BY <1>1, <2>2
         DEF ReservationStep, CreateReceipt, Revalidate, Reserve,
             FailBeforeDispatch, FailReceipt, CompleteAttempt, records,
             NothingShown, Attempts
    <3> QED BY <3>1, QuietWithheld
  <2> QED BY <2>1, <2>2
<1>2. CASE LocalStep(c)
  <2>1. CASE LocalWrite(c)
    <3>1. tc' = [loc[c].tc EXCEPT !.status = "executed",
                   !.withheld = loc[c].tc.withheld
                                  \/ ExposureRequired(loc[c].tc)]
      BY <2>1 DEF LocalWrite, LocalExecuted
    <3>2. Classified(tc)' /\ tc'.scoped => tc'.withheld
      BY <3>1 DEF ExposureRequired, Classified, OriginalRule, ToolCalls
    <3>3. att'.body = NoBody
      BY <2>1 DEF LocalWrite, OwnerClaim, Owns, OwnerPcs, UntoldPcs
    <3> QED BY <1>0, <3>2, <3>3 DEF WithheldUntilExposed
  <2>2. CASE LocalRelease(c)
    <3>1. exposed /\ exposed' /\ tc'.scoped
      BY <2>2 DEF LocalRelease, WithheldInv, ReleasedExposed, DeliveryClaim,
         ExposingPcs, ToolCalls
    <3> QED BY <3>1 DEF WithheldUntilExposed
  <2>3. CASE ~LocalWrite(c) /\ ~LocalRelease(c)
    <3>1. NothingShown
      BY <1>2, <2>3
         DEF LocalStep, LocalPreflight, LocalBind, LocalDispatch, LocalInvoke,
             LocalRefused, LocalUnknown, LocalResult, LocalReceipt,
             LocalExpose, CompleteAttempt, records, NothingShown, Attempts
    <3> QED BY <3>1, QuietWithheld
  <2> QED BY <2>1, <2>2, <2>3
<1>3. CASE GrantStep(c) \/ ConsumeStep(c)
  <2>1. NothingShown
    BY <1>3
       DEF GrantStep, GrantCreate, GrantBind, GrantAudit, Authorize,
           ConsumeStep, ConsumeAttempt, ConsumeToolCall, ConsumeValidate,
           ConsumeDispatch, records, NothingShown, Attempts, ToolCalls
  <2> QED BY <2>1, QuietWithheld
<1>4. CASE ReportStep(c)
  <2>1. CASE ReportTransition(c)
    <3>1. NothingShown
      BY <2>1 DEF ReportTransition, ToolCallTruth, NothingShown
    <3> QED BY <3>1, QuietWithheld
  <2>2. CASE ReportWrite(c)
    <3>1. CASE tc' = tc
      <4>1. NothingShown
        BY <2>2, <3>1 DEF ReportWrite, NothingShown
      <4> QED BY <4>1, QuietWithheld
    <3>2. CASE tc' # tc
      <4>1. tc' = TerminalToolCall(c) /\ att' = att
        BY <2>2, <3>2 DEF ReportWrite
      <4>2. /\ att.state = loc[c].report.state
            /\ att.body = loc[c].report.body
            /\ DeliveryAccepted(loc[c].tc, loc[c].report)
        BY <2>2 DEF ReportWrite, VisitorClaim, EndedPcs, DeliveryClaim, ReportPath
      <4>3. tc'.withheld = DeliveryExposes(c)
        BY <4>1 DEF TerminalToolCall, ToolCalls
      <4>4. /\ tc'.scoped = loc[c].tc.scoped
            /\ tc'.policy = loc[c].tc.policy
        BY <4>1 DEF TerminalToolCall, ToolCalls
      <4>5. tc'.status = "executed" => loc[c].report.state = "succeeded"
        BY <4>1 DEF TerminalToolCall, ToolCalls
      <4>6. Classified(tc)' => Classified(loc[c].tc)
        BY <4>4 DEF Classified, OriginalRule
      <4>7. ASSUME Classified(tc)', ~tc'.withheld
            PROVE  att'.body \notin VisibleBodies
        BY <4>1, <4>2, <4>3, <4>6, <4>7 DEF DeliveryExposes
      <4>8. ASSUME Classified(tc)', ~tc'.withheld, tc'.scoped
            PROVE  att'.state \notin {"succeeded", "failed_after_dispatch"}
        BY <4>1, <4>2, <4>4, <4>6, <4>7, <4>8
           DEF DeliveryAccepted, ExposureRequired
      <4> QED BY <4>1, <4>2, <4>5, <4>7, <4>8 DEF WithheldUntilExposed
    <3> QED BY <3>1, <3>2
  <2>3. CASE ReportRelease(c)
    <3>1. exposed /\ exposed' /\ tc'.scoped
      BY <2>3 DEF ReportRelease, WithheldInv, ReleasedExposed, DeliveryClaim,
         ExposingPcs, ToolCalls
    <3> QED BY <3>1 DEF WithheldUntilExposed
  <2>4. CASE ~ReportTransition(c) /\ ~ReportWrite(c) /\ ~ReportRelease(c)
    <3>1. NothingShown
      BY <1>4, <2>4
         DEF ReportStep, ReportToolCall, ReportAttempt, ReportReceiptCheck,
             ReportReplay, ReportReceipt, ReportExpose, records, NothingShown
    <3> QED BY <3>1, QuietWithheld
  <2> QED BY <2>1, <2>2, <2>3, <2>4
<1> QED BY <1>1, <1>2, <1>3, <1>4 DEF ExecutionStep

(* Requests, faults and the environment write no record. *)
LEMMA OtherWritesNothing ==
  ASSUME \/ \E c \in Calls : Request(c) \/ Fault(c)
         \/ Environment
         \/ UNCHANGED vars
  PROVE  UNCHANGED records
BY RequestStarts
   DEF Fault, Abort, SubmitInfluenceUnavailable, GrantUnavailable,
       Environment, Tick, PolicyReload, ForeignExposure, vars, records

LEMMA OtherShowsNothing ==
  ASSUME \/ \E c \in Calls : Request(c) \/ Fault(c)
         \/ Environment
         \/ UNCHANGED vars
  PROVE  NothingShown
BY OtherWritesNothing DEF records, NothingShown

LEMMA NextWithheld ==
  ASSUME TypeOK, OwnershipInv, WithheldInv, [Next]_vars
  PROVE  WithheldInv'
<1>0. PcTypes /\ LocTypes
  BY DEF TypeOK
<1>1. ReleasedExposed
  BY <1>0, ApprovalReleases, ExecutionReleases, OtherReleases
     DEF Next, Step
<1>2. WithheldUntilExposed'
  BY <1>1, ApprovalShowsNothing, ExecutionWithholds, OtherShowsNothing,
     QuietWithheld DEF Next, Step
<1>3. \A c \in Calls : DeliveryClaim(c)'
  BY <1>0, NextDelivers DEF WithheldInv
<1> QED BY <1>1, <1>2, <1>3 DEF WithheldInv, ReleasedExposed

LEMMA InitWithheld == Init => WithheldInv
BY DEF Init, GateInit, NoToolCall, WithheldInv, WithheldUntilExposed,
   DeliveryClaim, ExposingPcs, ReportPath

(* A classified result is shown to the agent only after its scope is marked as
   exposed to it, and one that is of no scope never. *)
THEOREM ShownOnlyExposed == Spec => []WithheldUntilExposed
<1>1. Init => WithheldInv
  BY InitWithheld
<1>2. TypeOK /\ OwnershipInv /\ WithheldInv /\ [Next]_vars => WithheldInv'
  BY NextWithheld
<1>3. WithheldInv => WithheldUntilExposed
  BY DEF WithheldInv
<1> QED BY <1>1, <1>2, <1>3, TypeCorrect, OwnedByOne, PTL DEF Spec

------------------------------------------------------------------------------
(* Final statuses *)

FinalToolCall == {"blocked", "rejected", "executed", "failed"}

FinalKept ==
  /\ ap.status \in Refused \cup {"approved"} => ap' = ap
  /\ att.state \in TerminalStates => att' = att
  /\ tc.status \in FinalToolCall => tc'.status = tc.status
  /\ receipt.outcome # "none" => receipt' = receipt

(* Submissions and decisions write the approval while it is pending, and end
   the tool call no way but the approval's. *)
LEMMA ApprovalStepFinal ==
  ASSUME TypeOK, RefusalInv, OwnershipInv, NEW c \in Calls, ApprovalStep(c)
  PROVE  FinalKept
<1> /\ loc[c].tc \in ToolCalls /\ OwnerClaim(c) /\ VisitorClaim(c) /\ Story
  BY SnapshotType DEF TypeOK, OwnershipInv
<1>0. UNCHANGED <<att, receipt>>
  BY DEF ApprovalStep, SubmitStep, SubmitInfluence, SubmitCreate,
     SubmitReplay, SubmitBlock, SubmitPend, SubmitApproval, ApproveStep,
     ApproveLoad, ApproveCheck, ApproveRecord, ApproveFinalize,
     ApproveExpires, ApproveConflict, CloseStep, CloseCheck, CloseLoad,
     CloseCommit, CloseExpires, CloseConflict, RejectWrite, Expire,
     Terminalize, records, execution
<1>1. CASE SubmitStep(c)
  <2>1. pc[c] \in {"submit_block", "submit_pend", "submit_approval"} =>
          /\ ap.status = "absent"
          /\ tc.status \in {"submitted", "pending_approval"}
    BY DEF OwnerClaim, UntoldPcs, CarryingPcs, RefusalInv, Carrying
  <2> QED BY <1>0, <1>1, <2>1
          DEF SubmitStep, SubmitInfluence, SubmitCreate, SubmitReplay,
              SubmitBlock, SubmitPend, SubmitApproval, records, FinalKept,
              FinalToolCall, Refused
<1>2. CASE ApproveStep(c)
  BY <1>0, <1>2
     DEF ApproveStep, ApproveLoad, ApproveCheck, ApproveRecord,
         ApproveFinalize, ApproveExpires, ApproveConflict, VoteIsAdmissible,
         VoteReachesExpiry, records, FinalKept, Refused
<1>3. CASE RejectWrite(c) \/ Terminalize(c)
  <2>1. tc.status \in {"pending_approval", "rejected"}
    BY <1>3 DEF RejectWrite, Terminalize, VisitorClaim, ClosedPcs, Story
  <2>2. ap' = ap /\ (tc' = tc \/ tc'.status = "rejected")
    BY <1>3 DEF RejectWrite, Terminalize, ToolCalls
  <2> QED BY <1>0, <2>1, <2>2 DEF FinalKept, FinalToolCall
<1>4. CASE CloseStep(c) /\ ~RejectWrite(c) /\ ~Terminalize(c)
  BY <1>0, <1>4
     DEF CloseStep, CloseCheck, CloseLoad, CloseCommit, CloseExpires,
         CloseConflict, CloseAuthorized, Expire, records, FinalKept, Refused
<1> QED BY <1>1, <1>2, <1>3, <1>4 DEF ApprovalStep, CloseStep

(* The owner ends what nobody ended before. *)
LEMMA OwnerStepFinal ==
  ASSUME TypeOK, RefusalInv, OwnershipInv, NEW c \in Calls,
         ReservationStep(c) \/ LocalStep(c) \/ GrantStep(c)
  PROVE  FinalKept
<1> /\ loc[c].tc \in ToolCalls /\ receipt \in Receipts /\ OwnerClaim(c)
    /\ Story
  BY SnapshotType DEF TypeOK, RecordTypes, OwnershipInv
<1>0. ap' = ap
  BY DEF ReservationStep, CreateReceipt, Revalidate, Reserve,
     FailBeforeDispatch, FailToolCall, FailReceipt, LocalStep, LocalPreflight,
     LocalBind, LocalDispatch, LocalInvoke, LocalRefused, LocalUnknown,
     LocalResult, LocalWrite, LocalReceipt, LocalExpose, LocalRelease,
     GrantStep, GrantCreate, GrantBind, GrantAudit, Authorize, records
<1>1. att.state \in TerminalStates => att' = att
  BY DEF ReservationStep, CreateReceipt, Revalidate, Reserve,
     FailBeforeDispatch, FailToolCall, FailReceipt, LocalStep, LocalPreflight,
     LocalBind, LocalDispatch, LocalInvoke, LocalRefused, LocalUnknown,
     LocalResult, LocalWrite, LocalReceipt, LocalExpose, LocalRelease,
     GrantStep, GrantCreate, GrantBind, GrantAudit, Authorize, records,
     CompleteAttempt, OwnsAttempt, TerminalStates, ReportStates
<1>2. tc.status \in FinalToolCall => tc'.status = tc.status
  <2>1. CASE \/ FailToolCall(c) \/ LocalWrite(c) \/ Authorize(c)
    <3>1. pc[c] \in UntoldPcs
      BY <2>1 DEF FailToolCall, LocalWrite, Authorize, UntoldPcs, ReservedPcs
    <3> QED BY <3>1 DEF OwnerClaim, FinalToolCall
  <2>2. CASE LocalRelease(c)
    BY <2>2 DEF LocalRelease, OwnerClaim, ToldPcs, ToolCalls
  <2>3. CASE ~FailToolCall(c) /\ ~LocalWrite(c) /\ ~Authorize(c)
               /\ ~LocalRelease(c)
    BY <2>3
       DEF ReservationStep, CreateReceipt, Revalidate, Reserve,
           FailBeforeDispatch, FailReceipt, LocalStep, LocalPreflight,
           LocalBind, LocalDispatch, LocalInvoke, LocalRefused, LocalUnknown,
           LocalResult, LocalReceipt, LocalExpose, GrantStep, GrantCreate,
           GrantBind, GrantAudit, records
  <2> QED BY <2>1, <2>2, <2>3
<1>3. receipt.outcome # "none" => receipt' = receipt
  <2>1. CASE CreateReceipt(c) \/ FailReceipt(c) \/ LocalReceipt(c)
    BY <2>1
       DEF CreateReceipt, FailReceipt, LocalReceipt, OwnerClaim, UntoldPcs,
           CarryingPcs, Story
  <2>2. CASE ~CreateReceipt(c) /\ ~FailReceipt(c) /\ ~LocalReceipt(c)
    BY <2>2
       DEF ReservationStep, Revalidate, Reserve, FailBeforeDispatch,
           FailToolCall, LocalStep, LocalPreflight, LocalBind, LocalDispatch,
           LocalInvoke, LocalRefused, LocalUnknown, LocalResult, LocalWrite,
           LocalExpose, LocalRelease, GrantStep, GrantCreate, GrantBind,
           GrantAudit, Authorize, records
  <2> QED BY <2>1, <2>2
<1> QED BY <1>0, <1>1, <1>2, <1>3 DEF FinalKept

(* A runner's report writes a final tool call as it was. *)
LEMMA RunnerStepFinal ==
  ASSUME TypeOK, RefusalInv, OwnershipInv, NEW c \in Calls,
         ConsumeStep(c) \/ ReportStep(c)
  PROVE  FinalKept
<1> /\ loc[c].tc \in ToolCalls /\ VisitorClaim(c) /\ ToolCallTruth
    /\ tc \in ToolCalls
  BY SnapshotType DEF TypeOK, RecordTypes, OwnershipInv
<1>0. ap' = ap
  BY DEF ConsumeStep, ConsumeAttempt, ConsumeToolCall, ConsumeValidate,
     ConsumeDispatch, ReportStep, ReportToolCall, ReportAttempt,
     ReportReceiptCheck, ReportTransition, ReportReplay, ReportReceipt,
     ReportWrite, ReportExpose, ReportRelease, records
<1>1. att.state \in TerminalStates => att' = att
  BY DEF ConsumeStep, ConsumeAttempt, ConsumeToolCall, ConsumeValidate,
     ConsumeDispatch, ReportStep, ReportToolCall, ReportAttempt,
     ReportReceiptCheck, ReportTransition, ReportReplay, ReportReceipt,
     ReportWrite, ReportExpose, ReportRelease, records, TerminalStates,
     ReportStates
<1>2. receipt.outcome # "none" => receipt' = receipt
  BY DEF ConsumeStep, ConsumeAttempt, ConsumeToolCall, ConsumeValidate,
     ConsumeDispatch, ReportStep, ReportToolCall, ReportAttempt,
     ReportReceiptCheck, ReportTransition, ReportReplay, ReportReceipt,
     ReportWrite, ReportExpose, ReportRelease, records
<1>3. tc.status \in FinalToolCall => tc'.status = tc.status
  <2>1. pc[c] \in ReportPath =>
          /\ tc.status \in {"authorized", "executed", "failed"}
          /\ tc.status = "executed" => att.state = "succeeded"
          /\ tc.status = "failed" => att.state # "succeeded"
    BY DEF VisitorClaim, ToolCallTruth
  <2>2. CASE ReportWrite(c)
    <3>1. pc[c] = "report_write" /\ (tc' = tc \/ tc' = TerminalToolCall(c))
      BY <2>2 DEF ReportWrite
    <3>2. att.state = loc[c].report.state
      BY <3>1 DEF VisitorClaim, EndedPcs
    <3>3. TerminalToolCall(c).status =
            IF att.state = "succeeded" THEN "executed" ELSE "failed"
      BY <3>2 DEF TerminalToolCall, ToolCalls
    <3> QED BY <2>1, <3>1, <3>3 DEF FinalToolCall, ReportPath
  <2>3. CASE ReportRelease(c)
    <3>1. pc[c] = "report_release" /\ tc'.status = loc[c].tc.status
      BY <2>3 DEF ReportRelease, ToolCalls
    <3>2. /\ loc[c].tc.status \in {"executed", "failed"}
          /\ AgreesWithAttempt(loc[c].tc.status)
      BY <3>1 DEF VisitorClaim, ReportPath
    <3> QED BY <2>1, <3>1, <3>2 DEF AgreesWithAttempt, FinalToolCall, ReportPath
  <2>4. CASE ~ReportWrite(c) /\ ~ReportRelease(c)
    BY <2>4
       DEF ConsumeStep, ConsumeAttempt, ConsumeToolCall, ConsumeValidate,
           ConsumeDispatch, ReportStep, ReportToolCall, ReportAttempt,
           ReportReceiptCheck, ReportTransition, ReportReplay, ReportReceipt,
           ReportExpose, records
  <2> QED BY <2>2, <2>3, <2>4
<1> QED BY <1>0, <1>1, <1>2, <1>3 DEF FinalKept

LEMMA NextFinal ==
  ASSUME TypeOK, RefusalInv, OwnershipInv, [Next]_vars
  PROVE  FinalKept
<1>1. CASE UNCHANGED records
  BY <1>1 DEF FinalKept, records
<1> QED BY <1>1, OtherWritesNothing, ApprovalStepFinal, OwnerStepFinal,
           RunnerStepFinal DEF Next, Step, ExecutionStep

(* Final statuses stay, in every record: no snapshot overwrites one. *)
THEOREM FinalStatusesStay == Spec => FinalStays
<1>1. TypeOK /\ RefusalInv /\ OwnershipInv /\ [Next]_vars => FinalKept
  BY NextFinal
<1>2. FinalKept =>
        [/\ ap.status \in Refused \cup {"approved"} => ap' = ap
         /\ att.state \in TerminalStates => att' = att
         /\ tc.status \in {"blocked", "rejected", "executed", "failed"} =>
              tc'.status = tc.status
         /\ receipt.outcome # "none" => receipt' = receipt]_vars
  BY DEF FinalKept, FinalToolCall
<1> QED BY <1>1, <1>2, TypeCorrect, CarriedByOne, OwnedByOne, PTL
        DEF Spec, FinalStays

==============================================================================
