----------------------- MODULE ActionGatePromiseProofs -----------------------
(***************************************************************************)
(* Proofs of what the gate promises.  Nothing runs but what policy allowed *)
(* or a quorum approved; the gate with its awaits, crashes and stale       *)
(* snapshots implements the one-shot action; what is dispatched rests on   *)
(* evidence and authority that still hold; and without a fault nothing is  *)
(* left half done.                                                         *)
(***************************************************************************)
EXTENDS ActionGateTruthProofs, FiniteSetTheorems

------------------------------------------------------------------------------
(* Authority *)

(* At these awaits a call has been given something to go on. *)
AuthorityPcs == {"submit_pend", "submit_approval", "approve_load",
                 "approve_check", "approve_commit", "receipt", "revalidate",
                 "reserve"}

(* What a step must see to, everything else being as it was: an approval that
   was given stays, and the call that acts can answer for what it holds. *)
LEMMA StepAuthority ==
  ASSUME PcTypes, RefusalInv, AuthorityInv, EvidenceKept, NEW c \in Calls,
         NEW label, Moves(c, label),
         ap.status = "approved" => ap' = ap,
         VotesInv',
         ap'.status # "absent" => tc'.decision = "require_approval",
         att'.state # "absent" => Granted(att.viaApproval, att.input)',
         CallAuthority(c)'
  PROVE  AuthorityInv'
<1>1. \A d \in Calls : d # c => pc'[d] = pc[d] /\ loc'[d] = loc[d]
  BY MoveOne
<1>2. tc.status # "absent" => tc'.decision = tc.decision
  BY DEF EvidenceKept, SameEvidence
<1>3. ASSUME NEW d \in Calls, d # c
      PROVE  CallAuthority(d)'
  <2>1. CallAuthority(d) /\ (pc[d] \in CarryingPcs => tc.status # "absent")
    BY DEF AuthorityInv, RefusalInv, Carrying
  <2>2. pc[d] \in CarryingPcs => tc'.decision = tc.decision
    BY <1>2, <2>1
  <2> QED BY <1>1, <1>3, <2>1, <2>2
          DEF CallAuthority, CarryingPcs, Granted, CanDecide
<1> QED BY <1>3 DEF AuthorityInv

(* The attempt keeps what it was reserved for. *)
ReservedAsBefore ==
  \/ att'.state = "absent"
  \/ /\ att.state # "absent"
     /\ att'.viaApproval = att.viaApproval /\ att'.input = att.input

(* A step that decides and reserves nothing. *)
LEMMA KeepAuthority ==
  ASSUME PcTypes, RefusalInv, AuthorityInv, EvidenceKept, NEW c \in Calls,
         NEW label, Moves(c, label), ap' = ap, ReservedAsBefore,
         CallAuthority(c)'
  PROVE  AuthorityInv'
<1>1. tc.status # "absent" => tc'.decision = tc.decision
  BY DEF EvidenceKept, SameEvidence
<1>2. /\ ap.status # "absent" => tc.status # "absent"
      /\ att.state # "absent" => tc.status # "absent"
  BY DEF RefusalInv
<1>3. VotesInv'
  BY DEF AuthorityInv, VotesInv, CanDecide, QuorumReached
<1>4. ap'.status # "absent" => tc'.decision = "require_approval"
  BY <1>1, <1>2 DEF AuthorityInv
<1>5. att'.state # "absent" => Granted(att.viaApproval, att.input)'
  BY <1>1, <1>2 DEF AuthorityInv, ReservedAsBefore, Granted
<1> QED BY <1>3, <1>4, <1>5, StepAuthority

(* Nor has a call anything to answer for where it was given nothing. *)
LEMMA QuietAuthority ==
  ASSUME PcTypes, RefusalInv, AuthorityInv, EvidenceKept, NEW c \in Calls,
         NEW label, label \notin AuthorityPcs, Moves(c, label), ap' = ap,
         ReservedAsBefore
  PROVE  AuthorityInv'
<1>1. CallAuthority(c)'
  BY MoveOne DEF CallAuthority, AuthorityPcs
<1> QED BY <1>1, KeepAuthority

LEMMA ReturnAuthority ==
  ASSUME PcTypes, LocTypes, RefusalInv, AuthorityInv, EvidenceKept,
         NEW c \in Calls, Return(c), ap' = ap, ReservedAsBefore
  PROVE  AuthorityInv'
BY ReturnMoves, QuietAuthority DEF AuthorityPcs

(* The submission that creates the tool call carries what policy allows, or
   asks for an approval nobody has given. *)
LEMMA SubmitStepAuthority ==
  ASSUME TypeOK, RefusalInv, OwnershipInv, AuthorityInv, EvidenceKept,
         NEW c \in Calls, SubmitStep(c)
  PROVE  AuthorityInv'
<1> PcTypes /\ LocTypes
  BY DEF TypeOK
<1>1. CASE SubmitInfluence(c)
  <2>1. Moves(c, "submit_create") /\ ap' = ap /\ ReservedAsBefore
    BY <1>1, GotoMoves DEF SubmitInfluence, LocTypes, records, ReservedAsBefore
  <2> QED BY <2>1, QuietAuthority DEF AuthorityPcs
<1>2. CASE SubmitCreate(c)
  <2>1. tc.status = "absent" /\ UNCHANGED <<ap, att>> /\ att.state = "absent"
    BY <1>2, AbsentIsUnowned DEF SubmitCreate, execution
  <2>2. ReservedAsBefore
    BY <2>1 DEF ReservedAsBefore
  <2>3. loc[c].tc.decision \in Decisions
    BY SnapshotType DEF ToolCalls
  <2>4. CASE loc[c].tc.decision = "deny"
    <3>1. Moves(c, "submit_block")
      BY <1>2, <2>4, GotoMoves DEF SubmitCreate
    <3> QED BY <2>1, <2>2, <3>1, QuietAuthority DEF AuthorityPcs
  <2>5. CASE loc[c].tc.decision = "require_approval"
    <3>1. Moves(c, "submit_pend") /\ tc'.decision = "require_approval"
      BY <1>2, <2>5, GotoMoves DEF SubmitCreate
    <3>2. CallAuthority(c)'
      BY <3>1, MoveOne DEF CallAuthority
    <3> QED BY <2>1, <2>2, <3>1, <3>2, KeepAuthority
  <2>6. CASE loc[c].tc.decision = "allow"
    <3>1. /\ Goto(c, "receipt")
          /\ loc' = [loc EXCEPT ![c].input = OriginalInput, ![c].via = FALSE]
          /\ tc'.decision = "allow"
      BY <1>2, <2>6 DEF SubmitCreate
    <3>2. /\ Moves(c, "receipt")
          /\ loc'[c].input = OriginalInput /\ loc'[c].via = FALSE
      BY <3>1, GotoMoves DEF LocTypes, Locals
    <3>3. CallAuthority(c)'
      BY <3>1, <3>2, MoveOne DEF CallAuthority, Granted
    <3> QED BY <2>1, <2>2, <3>2, <3>3, KeepAuthority
  <2> QED BY <2>3, <2>4, <2>5, <2>6 DEF Decisions
<1>3. CASE SubmitReplay(c) \/ SubmitBlock(c)
  <2>1. Return(c) /\ ap' = ap /\ ReservedAsBefore
    BY <1>3 DEF SubmitReplay, SubmitBlock, records, execution,
       ReservedAsBefore
  <2> QED BY <2>1, ReturnAuthority
<1>4. CASE SubmitPend(c)
  <2>1. Moves(c, "submit_approval") /\ ap' = ap /\ ReservedAsBefore
    BY <1>4, GotoMoves DEF SubmitPend, execution, ReservedAsBefore
  <2>2. pc[c] = "submit_pend" /\ tc.status # "absent"
    BY <1>4 DEF SubmitPend, RefusalInv, Carrying, CarryingPcs
  <2>3. tc'.decision = "require_approval"
    BY <2>2 DEF AuthorityInv, CallAuthority, EvidenceKept, SameEvidence
  <2>4. CallAuthority(c)'
    BY <2>1, <2>3, MoveOne DEF CallAuthority
  <2> QED BY <2>1, <2>4, KeepAuthority
<1>5. CASE SubmitApproval(c)
  <2>1. /\ Moves(c, "idle") /\ pc[c] = "submit_approval"
        /\ UNCHANGED <<tc, att>>
        /\ ap'.status = "pending" /\ ap'.votes = {}
    BY <1>5, ReturnMoves DEF SubmitApproval, execution
  <2>2. att.state = "absent" /\ ap.status = "absent"
    BY <2>1 DEF RefusalInv, Carrying, CarryingPcs
  <2>3. VotesInv'
    BY <2>1, FS_EmptySet DEF VotesInv
  <2>4. tc'.decision = "require_approval"
    BY <2>1 DEF AuthorityInv, CallAuthority
  <2>5. CallAuthority(c)'
    BY <2>1, MoveOne DEF CallAuthority
  <2> QED BY <2>1, <2>2, <2>3, <2>4, <2>5, StepAuthority
<1> QED BY <1>1, <1>2, <1>3, <1>4, <1>5 DEF SubmitStep

(* One more vote is one more principal, for the input of the others. *)
LEMMA AdmissibleVote ==
  ASSUME LocTypes, VotesInv, NEW c \in Calls, VoteIsAdmissible(c),
         CanDecide(loc[c].who)
  PROVE  /\ IsFiniteSet(VotesWith(c))
         /\ \A v, w \in VotesWith(c) :
              v.input = w.input /\ (v.who = w.who => v = w)
         /\ \A v \in VotesWith(c) : CanDecide(v.who) /\ v.input = loc[c].input
<1> DEFINE vote == [who |-> loc[c].who, input |-> loc[c].input]
<1>1. /\ vote.who = loc[c].who /\ vote.input = loc[c].input
      /\ VotesWith(c) = ap.votes \cup {vote}
  BY DEF VotesWith
<1>2. /\ \A v \in ap.votes : v.input = loc[c].input /\ v.who # loc[c].who
      /\ \A v \in ap.votes : CanDecide(v.who)
      /\ \A v, w \in ap.votes : v.who = w.who => v = w
      /\ IsFiniteSet(ap.votes)
  BY DEF VoteIsAdmissible, VotesInv
<1> HIDE DEF vote
<1>3. IsFiniteSet(ap.votes \cup {vote})
  BY <1>2, FS_AddElement
<1> QED BY <1>1, <1>2, <1>3

(* A refusal closes a pending approval and leaves its votes alone. *)
LEMMA RefusalAuthority ==
  ASSUME PcTypes, RefusalInv, AuthorityInv, EvidenceKept, ap \in Approvals,
         NEW c \in Calls, NEW label, label \notin AuthorityPcs,
         Moves(c, label), ap.status = "pending",
         NEW status \in Refused, ap' = [ap EXCEPT !.status = status],
         UNCHANGED <<tc, att>>
  PROVE  AuthorityInv'
<1>1. ap'.status = status /\ ap'.votes = ap.votes
  BY DEF Approvals
<1>2. VotesInv'
  BY <1>1 DEF AuthorityInv, VotesInv, CanDecide, Refused
<1>3. att.state = "absent" /\ tc.decision = "require_approval"
  BY DEF RefusalInv, AuthorityInv
<1>4. CallAuthority(c)'
  BY MoveOne DEF CallAuthority, AuthorityPcs
<1> QED BY <1>2, <1>3, <1>4, StepAuthority

(* Votes only ever join a pending approval. *)
LEMMA ApproveStepAuthority ==
  ASSUME TypeOK, RefusalInv, OwnershipInv, AuthorityInv, EvidenceKept,
         NEW c \in Calls, ApproveStep(c)
  PROVE  AuthorityInv'
<1> PcTypes /\ LocTypes /\ ap \in Approvals
  BY DEF TypeOK, RecordTypes
<1>1. CASE ApproveLoad(c) \/ ApproveCheck(c)
  <2>1. /\ CanDecide(loc[c].who) /\ ap' = ap /\ ReservedAsBefore
    BY <1>1 DEF ApproveLoad, ApproveCheck, AuthorityInv, CallAuthority,
       records, ReservedAsBefore
  <2>2. \/ Return(c)
        \/ Moves(c, "expire")
        \/ /\ Moves(c, "approve_check") \/ Moves(c, "approve_commit")
           /\ loc'[c].who = loc[c].who
    BY <1>1, GotoMoves DEF ApproveLoad, ApproveCheck, LocTypes, Locals
  <2>3. ASSUME Moves(c, "approve_check") \/ Moves(c, "approve_commit"),
               loc'[c].who = loc[c].who
        PROVE  CallAuthority(c)'
    BY <2>1, <2>3, MoveOne DEF CallAuthority, CanDecide
  <2> QED BY <2>1, <2>2, <2>3, ReturnAuthority, QuietAuthority, KeepAuthority
          DEF AuthorityPcs
<1>2. CASE ApproveConflict(c)
  <2>1. Return(c) /\ ap' = ap /\ ReservedAsBefore
    BY <1>2 DEF ApproveConflict, records, ReservedAsBefore
  <2> QED BY <2>1, ReturnAuthority
<1>3. CASE ApproveRecord(c) \/ ApproveFinalize(c)
  <2>1. /\ CanDecide(loc[c].who) /\ VotesInv
        /\ VoteIsAdmissible(c) /\ ap.status = "pending"
        /\ UNCHANGED <<tc, att>>
    BY <1>3 DEF ApproveRecord, ApproveFinalize, AuthorityInv, CallAuthority,
       VoteIsAdmissible, VoteReachesExpiry, execution
  <2>2. /\ ap'.votes = VotesWith(c)
        /\ ap'.status = "approved" =>
             QuorumReached(VotesWith(c)) /\ ap'.input = loc[c].input
    BY <1>3, <2>1 DEF ApproveRecord, ApproveFinalize, Approvals
  <2>3. VotesInv'
    BY <2>1, <2>2, AdmissibleVote DEF VotesInv, CanDecide, QuorumReached
  <2>4. att.state = "absent" /\ tc.decision = "require_approval"
    BY <2>1 DEF RefusalInv, AuthorityInv
  <2>5. CASE ApproveRecord(c)
    <3>1. Moves(c, "idle")
      BY <2>5, ReturnMoves DEF ApproveRecord
    <3>2. CallAuthority(c)'
      BY <3>1, MoveOne DEF CallAuthority
    <3> QED BY <2>1, <2>3, <2>4, <3>1, <3>2, StepAuthority
  <2>6. CASE ApproveFinalize(c)
    <3>1. /\ Goto(c, "receipt") /\ loc' = [loc EXCEPT ![c].via = TRUE]
          /\ ap'.status = "approved" /\ ap'.input = loc[c].input
      BY <2>6 DEF ApproveFinalize, Approvals
    <3>2. Moves(c, "receipt") /\ loc'[c].via /\ loc'[c].input = ap'.input
      BY <3>1, GotoMoves DEF LocTypes, Locals
    <3>3. CallAuthority(c)'
      BY <3>1, <3>2, MoveOne DEF CallAuthority, Granted
    <3> QED BY <2>1, <2>3, <2>4, <3>2, <3>3, StepAuthority
  <2> QED BY <1>3, <2>5, <2>6
<1>4. CASE ApproveExpires(c)
  <2>1. /\ ap.status = "pending" /\ ap' = [ap EXCEPT !.status = "expired"]
        /\ UNCHANGED <<tc, att>> /\ Moves(c, "terminalize")
    BY <1>4, GotoMoves DEF ApproveExpires, VoteReachesExpiry, execution
  <2> QED BY <2>1, RefusalAuthority DEF AuthorityPcs, Refused
<1> QED BY <1>1, <1>2, <1>3, <1>4 DEF ApproveStep

LEMMA CloseStepAuthority ==
  ASSUME TypeOK, RefusalInv, OwnershipInv, AuthorityInv, EvidenceKept,
         NEW c \in Calls, CloseStep(c)
  PROVE  AuthorityInv'
<1> PcTypes /\ LocTypes /\ ap \in Approvals
  BY DEF TypeOK, RecordTypes
<1>1. CASE CloseCheck(c) \/ CloseLoad(c)
  <2>1. /\ ap' = ap /\ ReservedAsBefore
        /\ \/ Return(c)
           \/ \E label \in {"expire", "close_load", "close_check",
                            "close_commit"} : Moves(c, label)
    BY <1>1, GotoMoves DEF CloseCheck, CloseLoad, LocTypes, records,
       ReservedAsBefore
  <2> QED BY <2>1, ReturnAuthority, QuietAuthority DEF AuthorityPcs
<1>2. CASE CloseConflict(c) \/ RejectWrite(c) \/ Terminalize(c)
  <2>1. Return(c) /\ ap' = ap /\ ReservedAsBefore
    BY <1>2 DEF CloseConflict, RejectWrite, Terminalize, records, execution,
       ReservedAsBefore
  <2> QED BY <2>1, ReturnAuthority
<1>3. CASE CloseCommit(c) \/ CloseExpires(c)
  <2>1. /\ ap.status = "pending" /\ UNCHANGED <<tc, att>>
        /\ Moves(c, "terminalize") \/ Moves(c, "reject_write")
        /\ \E status \in Refused : ap' = [ap EXCEPT !.status = status]
    BY <1>3, GotoMoves DEF CloseCommit, CloseExpires, CloseAuthorized,
       execution, Refused
  <2> QED BY <2>1, RefusalAuthority DEF AuthorityPcs
<1>4. CASE Expire(c)
  <2>1. UNCHANGED <<tc, att>> /\ ReservedAsBefore
    BY <1>4 DEF Expire, execution, ReservedAsBefore
  <2>2. \/ Return(c) /\ ap' = ap
        \/ /\ ap.status = "pending" /\ Moves(c, "terminalize")
           /\ ap' = [ap EXCEPT !.status = "expired"]
    BY <1>4, GotoMoves DEF Expire
  <2>3. CASE Return(c) /\ ap' = ap
    BY <2>1, <2>3, ReturnAuthority
  <2>4. CASE /\ ap.status = "pending" /\ Moves(c, "terminalize")
             /\ ap' = [ap EXCEPT !.status = "expired"]
    BY <2>1, <2>4, RefusalAuthority DEF AuthorityPcs, Refused
  <2> QED BY <2>2, <2>3, <2>4
<1> QED BY <1>1, <1>2, <1>3, <1>4 DEF CloseStep

(* The attempt is reserved for what its owner carried. *)
LEMMA ReservationStepAuthority ==
  ASSUME TypeOK, RefusalInv, OwnershipInv, AuthorityInv, EvidenceKept,
         NEW c \in Calls, ReservationStep(c)
  PROVE  AuthorityInv'
<1> PcTypes /\ LocTypes /\ att \in Attempts
  BY DEF TypeOK, RecordTypes
<1>0. pc[c] \in CarryingPcs => tc'.decision = tc.decision
  BY DEF RefusalInv, Carrying, EvidenceKept, SameEvidence
<1>1. CASE CreateReceipt(c) \/ Revalidate(c)
  <2>1. /\ pc[c] \in {"receipt", "revalidate"} /\ UNCHANGED <<ap, loc>>
        /\ ReservedAsBefore
        /\ \E label \in {"revalidate", "reserve", "fail"} : Moves(c, label)
    BY <1>1, GotoMoves DEF CreateReceipt, Revalidate, records,
       ReservedAsBefore
  <2>2. Granted(loc[c].via, loc[c].input)'
    BY <1>0, <2>1 DEF AuthorityInv, CallAuthority, Granted, CarryingPcs
  <2>3. PICK label \in {"revalidate", "reserve", "fail"} : Moves(c, label)
    BY <2>1
  <2>4. CallAuthority(c)'
    BY <2>2, <2>3, MoveOne DEF CallAuthority
  <2> QED BY <2>1, <2>3, <2>4, KeepAuthority
<1>2. CASE Reserve(c)
  <2>1. pc[c] = "reserve" /\ UNCHANGED <<tc, ap>>
    BY <1>2 DEF Reserve
  <2>2. CASE Return(c) /\ att' = att
    BY <2>1, <2>2, ReturnAuthority DEF ReservedAsBefore
  <2>3. CASE ~(Return(c) /\ att' = att)
    <3>1. /\ att'.viaApproval = loc[c].via /\ att'.input = loc[c].input
          /\ Moves(c, "local_preflight") \/ Moves(c, "grant_create")
      BY <1>2, <2>3, GotoMoves DEF Reserve, Attempts, LocTypes
    <3>2. /\ Granted(loc[c].via, loc[c].input) /\ VotesInv
          /\ ap.status # "absent" => tc.decision = "require_approval"
      BY <2>1 DEF AuthorityInv, CallAuthority
    <3>3. Granted(att.viaApproval, att.input)'
      BY <2>1, <3>1, <3>2 DEF Granted
    <3>4. VotesInv'
      BY <2>1, <3>2 DEF VotesInv, CanDecide, QuorumReached
    <3>5. CallAuthority(c)'
      BY <3>1, MoveOne DEF CallAuthority
    <3> QED BY <2>1, <3>1, <3>2, <3>3, <3>4, <3>5, StepAuthority
  <2> QED BY <2>2, <2>3
<1>3. CASE FailBeforeDispatch(c)
  <2>1. /\ ap' = ap /\ ReservedAsBefore
        /\ Return(c) \/ Moves(c, "fail")
    BY <1>3, GotoMoves DEF FailBeforeDispatch, CompleteAttempt, OwnsAttempt,
       Attempts, ReservedAsBefore
  <2> QED BY <2>1, ReturnAuthority, QuietAuthority DEF AuthorityPcs
<1>4. CASE FailToolCall(c) \/ FailReceipt(c)
  <2>1. /\ ap' = ap /\ ReservedAsBefore
        /\ Return(c) \/ Moves(c, "fail_receipt")
    BY <1>4, GotoMoves DEF FailToolCall, FailReceipt, ReservedAsBefore
  <2> QED BY <2>1, ReturnAuthority, QuietAuthority DEF AuthorityPcs
<1> QED BY <1>1, <1>2, <1>3, <1>4 DEF ReservationStep

(* From the reservation on, the attempt keeps what it was reserved for. *)
LEMMA ExecutionKeepsReservation ==
  ASSUME TypeOK, OwnershipInv, NEW c \in Calls,
         LocalStep(c) \/ GrantStep(c) \/ ConsumeStep(c) \/ ReportStep(c)
  PROVE  ap' = ap /\ ReservedAsBefore
<1> att \in Attempts
  BY DEF TypeOK, RecordTypes
<1>1. CASE LocalStep(c)
  BY <1>1
     DEF LocalStep, LocalPreflight, LocalBind, LocalDispatch, LocalInvoke,
         LocalRefused, LocalUnknown, LocalResult, LocalWrite, LocalReceipt,
         LocalExpose, LocalRelease, CompleteAttempt, OwnsAttempt, records,
         ReservedAsBefore, Attempts
<1>2. CASE GrantStep(c)
  BY <1>2
     DEF GrantStep, GrantCreate, GrantBind, GrantAudit, Authorize,
         OwnsAttempt, records, ReservedAsBefore, Attempts
<1>3. CASE ConsumeStep(c)
  BY <1>3
     DEF ConsumeStep, ConsumeAttempt, ConsumeToolCall, ConsumeValidate,
         ConsumeDispatch, records, ReservedAsBefore, Attempts
<1>4. CASE ReportStep(c)
  BY <1>4
     DEF ReportStep, ReportToolCall, ReportAttempt, ReportReceiptCheck,
         ReportTransition, ReportReplay, ReportReceipt, ReportWrite,
         ReportExpose, ReportRelease, records, ReservedAsBefore, Attempts
<1> QED BY <1>1, <1>2, <1>3, <1>4

(* Execution goes on, and never back to where authority is claimed. *)
LEMMA ExecutionMovesOn ==
  ASSUME LocTypes, NEW c \in Calls,
         LocalStep(c) \/ GrantStep(c) \/ ConsumeStep(c) \/ ReportStep(c)
  PROVE  \E label : /\ label \notin AuthorityPcs \cup {"submit_create"}
                     /\ Moves(c, label)
<1>0. \A label \in {"idle", "fail_before", "local_bind", "local_dispatch",
        "local_recheck", "local_unknown", "fail", "local_await",
        "local_write", "local_receipt", "local_expose", "local_release",
        "grant_bind", "grant_audit", "authorize", "consume_tool",
        "consume_validate", "consume_dispatch", "report_attempt",
        "report_outcome", "report_commit", "report_receipt", "report_write",
        "report_expose", "report_release"} :
             label \notin AuthorityPcs \cup {"submit_create"}
  BY DEF AuthorityPcs
<1>1. Return(c) => Moves(c, "idle")
  BY ReturnMoves
<1>2. CASE LocalStep(c)
  BY <1>0, <1>1, <1>2, GotoMoves
     DEF LocalStep, LocalPreflight, LocalBind, LocalDispatch, LocalInvoke,
         LocalRefused, LocalUnknown, LocalResult, LocalWrite, LocalReceipt,
         LocalExpose, LocalRelease, CompleteAttempt, LocTypes
<1>3. CASE GrantStep(c)
  BY <1>0, <1>1, <1>3, GotoMoves
     DEF GrantStep, GrantCreate, GrantBind, GrantAudit, Authorize
<1>4. CASE ConsumeStep(c)
  BY <1>0, <1>1, <1>4, GotoMoves
     DEF ConsumeStep, ConsumeAttempt, ConsumeToolCall, ConsumeValidate,
         ConsumeDispatch, LocTypes
<1>5. CASE ReportStep(c)
  BY <1>0, <1>1, <1>5, GotoMoves
     DEF ReportStep, ReportToolCall, ReportAttempt, ReportReceiptCheck,
         ReportTransition, ReportReplay, ReportReceipt, ReportWrite,
         ReportExpose, ReportRelease, LocTypes
<1> QED BY <1>2, <1>3, <1>4, <1>5

(* A new call was checked before it came; a fault decides nothing. *)
LEMMA OtherAuthority ==
  ASSUME TypeOK, RefusalInv, OwnershipInv, AuthorityInv, EvidenceKept
  PROVE  /\ \A c \in Calls : Request(c) \/ Fault(c) => AuthorityInv'
         /\ Environment \/ UNCHANGED vars => AuthorityInv'
<1> PcTypes /\ LocTypes
  BY DEF TypeOK
<1>1. ASSUME NEW c \in Calls, NEW p \in Principals, NEW input \in Inputs,
             ApproveBegin(c, p, input)
      PROVE  AuthorityInv'
  <2>1. /\ ap' = ap /\ ReservedAsBefore /\ CanDecide(p)
        /\ Goto(c, "approve_load")
        /\ loc' = [loc EXCEPT ![c] = [NoLocals EXCEPT !.who = p,
                                                    !.input = input]]
    BY <1>1 DEF ApproveBegin, records, ReservedAsBefore
  <2>2. Moves(c, "approve_load")
    BY <2>1, GotoMoves DEF LocTypes
  <2>3. loc'[c] = [NoLocals EXCEPT !.who = p, !.input = input]
    BY <2>1 DEF LocTypes
  <2>4. loc'[c].who = p
    BY <2>3 DEF NoLocals
  <2>5. CallAuthority(c)'
    BY <2>1, <2>2, <2>4, MoveOne DEF CallAuthority, CanDecide
  <2> QED BY <2>1, <2>2, <2>5, KeepAuthority
<1>2. ASSUME NEW c \in Calls, NEW label, Goto(c, label),
             label \notin AuthorityPcs, UNCHANGED records,
             \A d \in Calls : d # c => loc'[d] = loc[d]
      PROVE  AuthorityInv'
  BY <1>2, GotoMoves, QuietAuthority DEF records, ReservedAsBefore
<1>21. ASSUME NEW c \in Calls, NEW mode \in Modes, NEW scoped \in Scopes,
              SubmitEvaluate(c, mode, scoped)
       PROVE  AuthorityInv'
  BY <1>2, <1>21 DEF SubmitEvaluate, LocTypes, AuthorityPcs
<1>22. ASSUME NEW c \in Calls, NEW p \in Principals,
              NEW kind \in {"reject", "cancel", "read"}, CloseBegin(c, p, kind)
       PROVE  AuthorityInv'
  BY <1>2, <1>22 DEF CloseBegin, LocTypes, AuthorityPcs
<1>23. ASSUME NEW c \in Calls, NEW input \in Inputs, ConsumeBegin(c, input)
       PROVE  AuthorityInv'
  BY <1>2, <1>23 DEF ConsumeBegin, LocTypes, AuthorityPcs
<1>24. ASSUME NEW c \in Calls, NEW report \in Reports, ReportBegin(c, report)
       PROVE  AuthorityInv'
  BY <1>2, <1>24 DEF ReportBegin, LocTypes, AuthorityPcs
<1>3. ASSUME NEW c \in Calls, Fault(c)
      PROVE  AuthorityInv'
  <2>1. /\ ap' = ap /\ ReservedAsBefore
        /\ \/ Return(c)
           \/ \E label \in {"submit_create", "fail_before"} : Moves(c, label)
    BY <1>3, GotoMoves
       DEF Fault, Abort, SubmitInfluenceUnavailable, GrantUnavailable,
           LocTypes, records, ReservedAsBefore
  <2> QED BY <2>1, ReturnAuthority, QuietAuthority DEF AuthorityPcs
<1>4. ASSUME Environment \/ UNCHANGED vars
      PROVE  AuthorityInv'
  BY <1>4 DEF Environment, Tick, PolicyReload, ForeignExposure, records, vars,
     AuthorityInv, VotesInv, CallAuthority, Granted, CanDecide, QuorumReached
<1> QED BY <1>1, <1>21, <1>22, <1>23, <1>24, <1>3, <1>4
        DEF Request, ApprovalRequest, RunnerRequest

LEMMA NextAuthority ==
  ASSUME TypeOK, RefusalInv, OwnershipInv, EvidenceInv, AuthorityInv,
         [Next]_vars
  PROVE  AuthorityInv'
<1>1. EvidenceKept
  BY NextEvidence
<1>2. ASSUME NEW c \in Calls,
             LocalStep(c) \/ GrantStep(c) \/ ConsumeStep(c) \/ ReportStep(c)
      PROVE  AuthorityInv'
  BY <1>1, <1>2, ExecutionKeepsReservation, ExecutionMovesOn, QuietAuthority
     DEF TypeOK
<1> QED BY <1>1, <1>2, OtherAuthority, SubmitStepAuthority,
           ApproveStepAuthority, CloseStepAuthority, ReservationStepAuthority
        DEF Next, Step, ApprovalStep, ExecutionStep

LEMMA InitAuthority == Init => AuthorityInv
BY FS_EmptySet
   DEF Init, GateInit, NoToolCall, AuthorityInv, VotesInv, CallAuthority

(* An attempt is only ever reserved for what policy allowed or a quorum of
   distinct eligible principals approved. *)
THEOREM AuthorityIsCarried == Spec => []AuthorityInv
<1>1. Init => AuthorityInv
  BY InitAuthority
<1>2. TypeOK /\ RefusalInv /\ OwnershipInv /\ EvidenceInv /\ AuthorityInv
        /\ [Next]_vars => AuthorityInv'
  BY NextAuthority
<1> QED BY <1>1, <1>2, TypeCorrect, CarriedByOne, OwnedByOne, EvidenceStays,
           PTL DEF Spec

(* The principals that voted are as many as the votes. *)
LEMMA VotersAreVotes ==
  ASSUME VotesInv
  PROVE  Cardinality({v.who : v \in ap.votes}) = Cardinality(ap.votes)
<1> DEFINE Voters == {v.who : v \in ap.votes}
           who == [v \in ap.votes |-> v.who]
<1>1. who \in Bijection(ap.votes, Voters)
  <2>1. \A v, w \in ap.votes : who[v] = who[w] => v = w
    BY DEF VotesInv
  <2>2. who \in [ap.votes -> Voters]
    OBVIOUS
  <2>3. \A x \in Voters : \E v \in ap.votes : who[v] = x
    OBVIOUS
  <2> HIDE DEF who, Voters
  <2> QED BY <2>1, <2>2, <2>3 DEF Bijection, Injection, IsInjective, Surjection
<1>2. IsFiniteSet(ap.votes)
  BY DEF VotesInv
<1> QED BY <1>1, <1>2, FS_Bijection, Zenon DEF ExistsBijection

(* Nothing runs without authority for exactly the input that runs: the policy
   of the submission allowed the original input, or a quorum of distinct
   eligible principals voted for it. *)
THEOREM AuthorizedEffects == Spec => []EffectHasAuthority
<1>1. ASSUME TypeOK, OneEffectInv, RefusalInv, EvidenceInv, AuthorityInv
      PROVE  EffectHasAuthority
  <2> SUFFICES ASSUME effects > 0
               PROVE  EffectHasAuthority!2
    BY DEF EffectHasAuthority
  <2>1. att.state # "absent" /\ tc.status # "absent"
    BY <1>1 DEF OneEffectInv, RefusalInv, TypeOK, EnvironmentTypes
  <2>2. Granted(att.viaApproval, att.input) /\ Decided(tc) /\ VotesInv
    BY <1>1, <2>1 DEF AuthorityInv, EvidenceInv
  <2>3. CASE att.viaApproval
    BY <2>2, <2>3, VotersAreVotes DEF Granted, VotesInv, QuorumReached
  <2>4. CASE ~att.viaApproval
    BY <2>2, <2>4 DEF Granted, Decided
  <2> QED BY <2>3, <2>4
<1> QED BY <1>1, TypeCorrect, OneEffect, CarriedByOne, EvidenceStays,
           AuthorityIsCarried, PTL

------------------------------------------------------------------------------
(* The promise of one shot *)

(* One step of the gate, as the promise sees it. *)
PromiseStep == [Promise!Next]_(Promise!abstractVars)

LEMMA NoStory ==
  ASSUME UNCHANGED <<Verdict, Authority, effects, Ran, Outcome, Told>>
  PROVE  PromiseStep
BY DEF PromiseStep, Promise!abstractVars

LEMMA SubmitStory ==
  ASSUME Verdict = "none", UNCHANGED <<effects, Ran, Outcome, Told>>,
         \/ Verdict' \in {"open", "refused"} /\ UNCHANGED Authority
         \/ Verdict' = "granted" /\ Authority' \in Inputs
  PROVE  PromiseStep
BY DEF PromiseStep, Promise!Next, Promise!Submit

LEMMA DecideStory ==
  ASSUME Verdict = "open", UNCHANGED <<effects, Ran, Outcome, Told>>,
         \/ Verdict' = "refused" /\ UNCHANGED Authority
         \/ Verdict' = "granted" /\ Authority' \in Inputs
  PROVE  PromiseStep
BY DEF PromiseStep, Promise!Next, Promise!Decide

LEMMA RunStory ==
  ASSUME Verdict = "granted", effects = 0, Outcome = "none", Told = "none",
         effects' = 1, Ran' = Authority,
         UNCHANGED <<Verdict, Authority, Outcome, Told>>
  PROVE  PromiseStep
BY DEF PromiseStep, Promise!Next, Promise!Run

LEMMA ConcludeStory ==
  ASSUME Verdict = "granted", Outcome = "none", Told = "none",
         Outcome' \in TerminalStates,
         Outcome' = "failed_before_dispatch" => effects = 0,
         Outcome' \notin {"failed_before_dispatch", "unknown_outcome"} =>
           effects = 1,
         UNCHANGED <<Verdict, Authority, effects, Ran, Told>>
  PROVE  PromiseStep
BY DEF PromiseStep, Promise!Next, Promise!Conclude

LEMMA TellStory ==
  ASSUME Told = "none",
         Told' = IF Verdict = "refused" THEN "refused"
                 ELSE IF Outcome = "succeeded" THEN "executed" ELSE "failed",
         \/ Verdict = "refused"
         \/ Verdict = "granted" /\ (Outcome = "none" => effects = 0),
         UNCHANGED <<Verdict, Authority, effects, Ran, Outcome>>
  PROVE  PromiseStep
BY DEF PromiseStep, Promise!Next, Promise!Tell

(* What the promise does not see: preparations, votes short of the quorum,
   reservations, dispatches, receipts. *)
LEMMA Unseen ==
  ASSUME tc' = tc, effects' = effects,
         \/ ap' = ap
         \/ ap.status \in {"absent", "pending"} /\ ap'.status = "pending",
         tc.status = "absent" => ap' = ap,
         \/ att'.input = att.input
         \/ effects = 0,
         \/ att'.state = att.state
         \/ att.state \notin TerminalStates /\ att'.state \notin TerminalStates
  PROVE  PromiseStep
<1>1. UNCHANGED <<Verdict, Authority>>
  BY DEF Verdict, Authority
<1>2. UNCHANGED <<Ran, Outcome, Told>>
  BY DEF Ran, Outcome, Told
<1> QED BY <1>1, <1>2, NoStory

(* Whatever is reserved was granted, for the input of the attempt. *)
LEMMA ReservedIsGranted ==
  ASSUME RefusalInv, AuthorityInv, att.state # "absent"
  PROVE  Verdict = "granted" /\ Authority = att.input /\ tc.status # "absent"
BY DEF RefusalInv, AuthorityInv, Granted, Verdict, Authority

(* A verdict stands once it is granted. *)
LEMMA VerdictStands ==
  ASSUME EvidenceKept, FinalKept, tc'.status # "absent", Verdict = "granted"
  PROVE  Verdict' = "granted"
<1>1. tc.status # "absent"
  BY DEF Verdict
<1> QED BY <1>1 DEF Verdict, EvidenceKept, SameEvidence, FinalKept

(* Whoever writes the tool call leaves verdict, run and outcome alone. *)
LEMMA WritesStory ==
  ASSUME EvidenceKept, UNCHANGED <<ap, att, effects>>, tc.status # "absent",
         tc'.status # "absent",
         \/ Told' = Told
         \/ /\ Told = "none" /\ Verdict = "refused" /\ Told' = "refused"
         \/ /\ Told = "none" /\ Verdict = "granted"
            /\ Outcome = "none" => effects = 0
            /\ Told' = IF Outcome = "succeeded" THEN "executed" ELSE "failed"
  PROVE  PromiseStep
<1>1. tc'.decision = tc.decision
  BY DEF EvidenceKept, SameEvidence
<1>2. UNCHANGED <<Verdict, Authority, Ran, Outcome>>
  BY <1>1 DEF Verdict, Authority, Ran, Outcome
<1> QED BY <1>2, NoStory, TellStory

(* A stored tool call stays stored. *)
LEMMA StoredStays ==
  ASSUME TypeOK, RefusalInv, OwnershipInv, [Next]_vars, tc.status # "absent"
  PROVE  tc'.status # "absent"
<1>1. CASE UNCHANGED records
  BY <1>1 DEF records
<1>2. ASSUME NEW c \in Calls, ApprovalStep(c)
      PROVE  tc'.status # "absent"
  <2> loc[c].tc \in ToolCalls
    BY SnapshotType DEF TypeOK
  <2> QED BY <1>2
       DEF ApprovalStep, SubmitStep, SubmitInfluence, SubmitCreate,
           SubmitReplay, SubmitBlock, SubmitPend, SubmitApproval, ApproveStep,
           ApproveLoad, ApproveCheck, ApproveRecord, ApproveFinalize,
           ApproveExpires, ApproveConflict, CloseStep, CloseCheck, CloseLoad,
           CloseCommit, CloseExpires, CloseConflict, RejectWrite, Expire,
           Terminalize, records, ToolCalls
<1>3. ASSUME NEW c \in Calls, ReservationStep(c) \/ LocalStep(c) \/ GrantStep(c)
      PROVE  tc'.status # "absent"
  <2> loc[c].tc \in ToolCalls
    BY SnapshotType DEF TypeOK
  <2>1. pc[c] = "local_release" => loc[c].tc.status # "absent"
    BY DEF RefusalInv, SnapshotPcs
  <2> QED BY <1>3, <2>1
       DEF ReservationStep, CreateReceipt, Revalidate, Reserve,
           FailBeforeDispatch, FailToolCall, FailReceipt, LocalStep,
           LocalPreflight, LocalBind, LocalDispatch, LocalInvoke,
           LocalRefused, LocalUnknown, LocalResult, LocalWrite, LocalExecuted,
           LocalReceipt, LocalExpose, LocalRelease, GrantStep, GrantCreate,
           GrantBind, GrantAudit, Authorize, records, ToolCalls
<1>4. ASSUME NEW c \in Calls, ConsumeStep(c) \/ ReportStep(c)
      PROVE  tc'.status # "absent"
  <2> loc[c].tc \in ToolCalls
    BY SnapshotType DEF TypeOK
  <2>1. pc[c] = "report_release" => loc[c].tc.status # "absent"
    BY DEF RefusalInv, SnapshotPcs, ReportPath
  <2>2. TerminalToolCall(c).status # "absent"
    BY DEF TerminalToolCall, ToolCalls
  <2> QED BY <1>4, <2>1, <2>2
       DEF ConsumeStep, ConsumeAttempt, ConsumeToolCall, ConsumeValidate,
           ConsumeDispatch, ReportStep, ReportToolCall, ReportAttempt,
           ReportReceiptCheck, ReportTransition, ReportReplay, ReportReceipt,
           ReportWrite, ReportExpose, ReportRelease, records, ToolCalls
<1> QED BY <1>1, <1>2, <1>3, <1>4, OtherWritesNothing
        DEF Next, Step, ExecutionStep

GateInv ==
  TypeOK /\ OneEffectInv /\ RefusalInv /\ OwnershipInv /\ EvidenceInv
    /\ AuthorityInv

LEMMA GateHolds == Spec => []GateInv
BY TypeCorrect, OneEffect, CarriedByOne, OwnedByOne, EvidenceStays,
   AuthorityIsCarried, PTL DEF GateInv

(* The submission settles the action or leaves it open, and says so. *)
LEMMA SubmitKeepsPromise ==
  ASSUME GateInv, PromiseInv, EvidenceKept, NEW c \in Calls, SubmitStep(c)
  PROVE  PromiseStep
<1> /\ loc[c].tc \in ToolCalls /\ OwnerClaim(c) /\ VisitorClaim(c)
    /\ TypeOK /\ RefusalInv /\ OwnershipInv /\ AuthorityInv
  BY SnapshotType DEF GateInv, TypeOK, OwnershipInv
<1>1. CASE SubmitInfluence(c) \/ SubmitReplay(c)
  BY <1>1, Unseen DEF SubmitInfluence, SubmitReplay, records
<1>2. CASE SubmitCreate(c)
  <2>1. /\ tc.status = "absent" /\ ap.status = "absent"
        /\ att.state = "absent" /\ UNCHANGED <<ap, att, effects>>
    BY <1>2, AbsentIsUnowned DEF SubmitCreate, execution
  <2>2. tc'.status = "submitted" /\ tc'.decision \in Decisions
    BY <1>2 DEF SubmitCreate, VisitorClaim, ToolCalls
  <2>3. /\ Verdict = "none" /\ Authority = Nothing /\ Told = "none"
        /\ Told' = "none" /\ UNCHANGED <<effects, Ran, Outcome>>
    BY <2>1, <2>2 DEF Verdict, Authority, Told, Ran, Outcome
  <2>4. CASE tc'.decision = "allow"
    <3>1. Verdict' = "granted" /\ Authority' = OriginalInput
      BY <2>2, <2>4 DEF Verdict, Authority
    <3>2. OriginalInput \in Inputs
      BY GateAssumption DEF GateAssumption
    <3> QED BY <2>3, <3>1, <3>2, SubmitStory
  <2>5. CASE tc'.decision # "allow"
    <3>1. Verdict' \in {"open", "refused"} /\ Authority' = Nothing
      BY <2>1, <2>2, <2>5 DEF Verdict, Authority
    <3> QED BY <2>3, <3>1, SubmitStory
  <2> QED BY <2>4, <2>5
<1>3. CASE SubmitBlock(c) \/ SubmitPend(c)
  <2>1. /\ tc.status \in {"submitted", "pending_approval"}
        /\ UNCHANGED <<ap, att, effects>>
    BY <1>3 DEF SubmitBlock, SubmitPend, OwnerClaim, UntoldPcs, CarryingPcs,
       execution
  <2>2. Told = "none"
    BY <2>1 DEF Told
  <2>3. CASE SubmitBlock(c)
    <3>1. tc'.status = "blocked" /\ tc.decision = "deny"
      BY <2>3 DEF SubmitBlock, PromiseInv, ToolCalls
    <3>2. Verdict = "refused" /\ Told' = "refused"
      BY <2>1, <3>1 DEF Verdict, Told
    <3> QED BY <2>1, <2>2, <3>1, <3>2, WritesStory
  <2>4. CASE SubmitPend(c)
    <3>1. tc'.status = "pending_approval"
      BY <2>4 DEF SubmitPend, ToolCalls
    <3>2. Told' = "none"
      BY <3>1 DEF Told
    <3> QED BY <2>1, <2>2, <3>1, <3>2, WritesStory
  <2> QED BY <1>3, <2>3, <2>4
<1>4. CASE SubmitApproval(c)
  <2>1. /\ tc.status # "absent" /\ ap.status = "absent"
        /\ ap'.status = "pending" /\ UNCHANGED <<tc, att, effects>>
    BY <1>4 DEF SubmitApproval, RefusalInv, Carrying, CarryingPcs, execution
  <2> QED BY <2>1, Unseen
<1> QED BY <1>1, <1>2, <1>3, <1>4 DEF SubmitStep

(* A pending approval is an open verdict on an action nobody acts on. *)
LEMMA PendingIsOpen ==
  ASSUME GateInv, ap.status = "pending"
  PROVE  /\ Verdict = "open" /\ Authority = Nothing
         /\ tc.status = "pending_approval"
         /\ tc.decision = "require_approval"
<1>1. tc.status = "pending_approval" /\ tc.decision = "require_approval"
  BY PendingIsUnowned DEF GateInv, AuthorityInv
<1> QED BY <1>1 DEF Verdict, Authority

LEMMA RefusalStory ==
  ASSUME GateInv, ap.status = "pending", ap'.status \in Refused,
         UNCHANGED <<tc, att, effects>>
  PROVE  PromiseStep
<1>1. /\ Verdict = "open" /\ Authority = Nothing
      /\ tc.status = "pending_approval" /\ tc.decision = "require_approval"
  BY PendingIsOpen
<1>2. Verdict' = "refused" /\ Authority' = Nothing
  BY <1>1 DEF Verdict, Authority, Refused
<1>3. UNCHANGED <<Ran, Outcome, Told>>
  BY DEF Ran, Outcome, Told
<1> QED BY <1>1, <1>2, <1>3, DecideStory

(* People settle what is open, once, and the tool call says what they said. *)
LEMMA DecisionKeepsPromise ==
  ASSUME GateInv, PromiseInv, EvidenceKept, NEW c \in Calls,
         ApproveStep(c) \/ CloseStep(c)
  PROVE  PromiseStep
<1> /\ loc[c].tc \in ToolCalls /\ loc[c].input \in Inputs
    /\ ap \in Approvals /\ VisitorClaim(c)
    /\ TypeOK /\ RefusalInv /\ OwnershipInv /\ AuthorityInv /\ Story
  BY SnapshotType DEF GateInv, TypeOK, OwnershipInv, RecordTypes
<1>1. CASE \/ ApproveLoad(c) \/ ApproveCheck(c) \/ ApproveConflict(c)
           \/ CloseCheck(c) \/ CloseLoad(c) \/ CloseConflict(c)
  <2>1. UNCHANGED <<tc, ap, att, effects>>
    BY <1>1
       DEF ApproveLoad, ApproveCheck, ApproveConflict, CloseCheck, CloseLoad,
           CloseConflict, records
  <2> QED BY <2>1, Unseen
<1>2. CASE ApproveRecord(c)
  <2>1. /\ ap.status = "pending" /\ ap'.status = "pending"
        /\ UNCHANGED <<tc, att, effects>>
    BY <1>2 DEF ApproveRecord, VoteIsAdmissible, VoteReachesExpiry, execution,
       Approvals
  <2> QED BY <2>1, PendingIsOpen, Unseen
<1>3. CASE ApproveFinalize(c)
  <2>1. /\ ap.status = "pending" /\ UNCHANGED <<tc, att, effects>>
        /\ ap'.status = "approved" /\ ap'.input \in Inputs
    BY <1>3 DEF ApproveFinalize, VoteIsAdmissible, VoteReachesExpiry,
       execution, Approvals
  <2>2. /\ Verdict = "open" /\ tc.status = "pending_approval"
        /\ tc.decision = "require_approval"
    BY <2>1, PendingIsOpen
  <2>3. Verdict' = "granted" /\ Authority' \in Inputs
    BY <2>1, <2>2 DEF Verdict, Authority
  <2>4. UNCHANGED <<Ran, Outcome, Told>>
    BY <2>1 DEF Ran, Outcome, Told
  <2> QED BY <2>1, <2>2, <2>3, <2>4, DecideStory
<1>4. CASE ApproveExpires(c) \/ CloseCommit(c) \/ CloseExpires(c)
  <2>1. /\ ap.status = "pending" /\ UNCHANGED <<tc, att, effects>>
        /\ ap'.status \in Refused
    BY <1>4 DEF ApproveExpires, CloseCommit, CloseExpires, CloseAuthorized,
       VoteReachesExpiry, execution, Approvals, Refused
  <2> QED BY <2>1, RefusalStory
<1>5. CASE Expire(c)
  <2>1. /\ UNCHANGED <<tc, att, effects>>
        /\ \/ ap' = ap
           \/ ap.status = "pending" /\ ap'.status \in Refused
    BY <1>5 DEF Expire, execution, Approvals, Refused
  <2> QED BY <2>1, Unseen, RefusalStory
<1>6. CASE RejectWrite(c) \/ Terminalize(c)
  <2>1. ap.status \in Refused /\ tc.status \in {"pending_approval", "rejected"}
    BY <1>6 DEF RejectWrite, Terminalize, VisitorClaim, ClosedPcs, Story
  <2>2. /\ UNCHANGED <<ap, att, effects>>
        /\ tc' = tc \/ tc'.status = "rejected"
    BY <1>6 DEF RejectWrite, Terminalize, execution, ToolCalls
  <2>3. tc.decision = "require_approval"
    BY <2>1 DEF AuthorityInv, Refused
  <2>4. Verdict = "refused"
    BY <2>1, <2>3 DEF Verdict, Refused
  <2>5. /\ Told \in {"none", "refused"}
        /\ Told' = Told \/ Told' = "refused"
    BY <2>1, <2>2 DEF Told
  <2>6. tc'.status # "absent"
    BY <2>1, <2>2
  <2> QED BY <2>1, <2>2, <2>4, <2>5, <2>6, WritesStory
<1> QED BY <1>1, <1>2, <1>3, <1>4, <1>5, <1>6 DEF ApproveStep, CloseStep

(* The compare-and-set of an attempt ends what was granted and not told. *)
LEMMA ConcludesStory ==
  ASSUME GateInv, NEW state \in TerminalStates, Told = "none",
         att.state \in {"reserved", "dispatched"},
         att'.state = state, att'.input = att.input,
         UNCHANGED <<tc, ap, effects>>,
         state = "failed_before_dispatch" => effects = 0,
         state \notin {"failed_before_dispatch", "unknown_outcome"} =>
           effects = 1
  PROVE  PromiseStep
<1>1. Verdict = "granted"
  BY ReservedIsGranted DEF GateInv
<1>2. Outcome = "none" /\ Outcome' = state
  BY DEF Outcome, TerminalStates, ReportStates
<1>3. UNCHANGED <<Verdict, Authority, Ran, Told>>
  BY DEF Verdict, Authority, Ran, Told
<1> QED BY <1>1, <1>2, <1>3, ConcludeStory

(* A dispatch that takes effect is the run of what was granted. *)
LEMMA RunsStory ==
  ASSUME GateInv, Told = "none", att.state \in {"reserved", "dispatched"},
         att'.state \in {"reserved", "dispatched"}, att'.input = att.input,
         effects = 0, effects' = effects + 1, UNCHANGED <<tc, ap>>
  PROVE  PromiseStep
<1>1. Verdict = "granted" /\ Authority = att.input
  BY ReservedIsGranted DEF GateInv
<1>2. Outcome = "none" /\ Outcome' = "none" /\ Ran' = att.input /\ effects' = 1
  BY DEF Outcome, Ran, TerminalStates, ReportStates
<1>3. UNCHANGED <<Verdict, Authority, Told>>
  BY DEF Verdict, Authority, Told
<1> QED BY <1>1, <1>2, <1>3, RunStory

LEMMA NoEffectYet ==
  ASSUME GateInv, att.state \in {"absent", "reserved", "failed_before_dispatch"}
  PROVE  effects = 0
BY DEF GateInv, OneEffectInv, TypeOK, EnvironmentTypes

(* Until the owner tells, nothing is told. *)
LEMMA NothingToldYet ==
  ASSUME GateInv, NEW c \in Calls, pc[c] \in UntoldPcs
  PROVE  Told = "none" /\ tc.status # "absent"
BY DEF GateInv, OwnershipInv, OwnerClaim, Told

LEMMA OwnerKeepsPromise ==
  ASSUME GateInv, PromiseInv, EvidenceKept, NEW c \in Calls,
         ReservationStep(c) \/ LocalStep(c) \/ GrantStep(c)
  PROVE  PromiseStep
<1> /\ loc[c].tc \in ToolCalls /\ att \in Attempts /\ OwnerClaim(c)
    /\ TypeOK /\ RefusalInv /\ OwnershipInv /\ AuthorityInv /\ OneEffectInv
  BY SnapshotType DEF GateInv, TypeOK, OwnershipInv, RecordTypes
<1>0. {"fail_before", "fail", "local_recheck", "local_unknown", "local_await",
       "local_write", "authorize"} \subseteq UntoldPcs
  BY DEF UntoldPcs, ReservedPcs, DispatchedPcs
<1>1. CASE \/ CreateReceipt(c) \/ Revalidate(c) \/ FailReceipt(c)
           \/ LocalPreflight(c) \/ LocalBind(c) \/ LocalRefused(c)
           \/ LocalReceipt(c) \/ LocalExpose(c)
           \/ GrantCreate(c) \/ GrantAudit(c)
  <2>1. UNCHANGED <<tc, ap, att, effects>>
    BY <1>1
       DEF CreateReceipt, Revalidate, FailReceipt, LocalPreflight, LocalBind,
           LocalRefused, LocalReceipt, LocalExpose, GrantCreate, GrantAudit,
           records
  <2> QED BY <2>1, Unseen
<1>2. CASE Reserve(c) \/ LocalDispatch(c) \/ GrantBind(c)
  <2>1. /\ UNCHANGED <<tc, ap, effects>>
        /\ \/ att' = att
           \/ /\ att.state = "absent" /\ att'.state = "reserved"
           \/ /\ att.state = "reserved" /\ att'.input = att.input
              /\ att'.state \in {"reserved", "dispatched"}
    BY <1>2 DEF Reserve, LocalDispatch, GrantBind, OwnsAttempt, Attempts
  <2>2. att.state = "absent" => effects = 0
    BY NoEffectYet
  <2> QED BY <2>1, <2>2, Unseen DEF TerminalStates, ReportStates
<1>3. CASE FailBeforeDispatch(c) \/ LocalUnknown(c) \/ LocalResult(c)
  <2>1. Told = "none" /\ UNCHANGED <<tc, ap, effects>>
    BY <1>0, <1>3, NothingToldYet
       DEF FailBeforeDispatch, LocalUnknown, LocalResult
  <2>2. \/ att' = att
        \/ /\ att.state = "reserved" /\ att'.input = att.input
           /\ att'.state = "failed_before_dispatch"
        \/ /\ att.state = "dispatched" /\ att'.input = att.input
           /\ \/ att'.state = "unknown_outcome"
              \/ att'.state = "succeeded" /\ pc[c] = "local_await"
    BY <1>3 DEF FailBeforeDispatch, LocalUnknown, LocalResult,
       CompleteAttempt, OwnsAttempt, Attempts
  <2>3. pc[c] = "local_await" => effects = 1
    BY DEF PromiseInv
  <2>4. att.state = "reserved" => effects = 0
    BY NoEffectYet
  <2>5. /\ "failed_before_dispatch" \in TerminalStates
        /\ "unknown_outcome" \in TerminalStates
        /\ "succeeded" \in TerminalStates
    BY DEF TerminalStates, ReportStates
  <2> QED BY <2>1, <2>2, <2>3, <2>4, <2>5, Unseen, ConcludesStory
<1>4. CASE LocalInvoke(c)
  <2>1. /\ Told = "none" /\ att.state = "dispatched" /\ effects = 0
        /\ effects' = effects + 1 /\ UNCHANGED <<tc, ap, att>>
    BY <1>0, <1>4, NothingToldYet DEF LocalInvoke, OneEffectInv, records
  <2> QED BY <2>1, RunsStory
<1>5. CASE FailToolCall(c)
  <2>1. /\ Told = "none" /\ tc.status # "absent" /\ tc'.status = "failed"
        /\ att.state \in {"absent", "failed_before_dispatch",
                         "unknown_outcome"}
        /\ UNCHANGED <<ap, att, effects>>
    BY <1>0, <1>5, NothingToldYet DEF FailToolCall, OwnerClaim, ToolCalls
  <2>2. Verdict = "granted"
    BY <1>5 DEF FailToolCall, PromiseInv
  <2>3. Outcome # "succeeded" /\ (Outcome = "none" => effects = 0)
    BY <2>1, NoEffectYet DEF Outcome, TerminalStates, ReportStates
  <2>4. Told' = "failed"
    BY <2>1 DEF Told
  <2> QED BY <2>1, <2>2, <2>3, <2>4, WritesStory
<1>6. CASE LocalWrite(c)
  <2>1. /\ Told = "none" /\ tc.status # "absent" /\ tc'.status = "executed"
        /\ att.state = "succeeded" /\ UNCHANGED <<ap, att, effects>>
    BY <1>0, <1>6, NothingToldYet
       DEF LocalWrite, LocalExecuted, OwnerClaim, ToolCalls
  <2>2. Verdict = "granted"
    BY <2>1, ReservedIsGranted
  <2>3. Outcome = "succeeded" /\ Told' = "executed"
    BY <2>1 DEF Outcome, Told, TerminalStates, ReportStates
  <2> QED BY <2>1, <2>2, <2>3, WritesStory
<1>7. CASE LocalRelease(c)
  <2>1. /\ tc.status = "executed" /\ tc'.status = "executed"
        /\ UNCHANGED <<ap, att, effects>>
    BY <1>7 DEF LocalRelease, OwnerClaim, ToldPcs, ToolCalls
  <2>2. Told' = Told
    BY <2>1 DEF Told
  <2> QED BY <2>1, <2>2, WritesStory
<1>8. CASE Authorize(c)
  <2>1. /\ Told = "none" /\ tc.status # "absent" /\ tc'.status = "authorized"
        /\ UNCHANGED <<ap, att, effects>>
    BY <1>0, <1>8, NothingToldYet DEF Authorize, ToolCalls
  <2>2. Told' = Told
    BY <2>1 DEF Told
  <2> QED BY <2>1, <2>2, WritesStory
<1> QED BY <1>1, <1>2, <1>3, <1>4, <1>5, <1>6, <1>7, <1>8
        DEF ReservationStep, LocalStep, GrantStep

(* A runner runs what was granted and reports what became of it. *)
LEMMA RunnerKeepsPromise ==
  ASSUME GateInv, PromiseInv, EvidenceKept, NEW c \in Calls,
         ConsumeStep(c) \/ ReportStep(c)
  PROVE  PromiseStep
<1> /\ loc[c].tc \in ToolCalls /\ loc[c].report \in Reports
    /\ att \in Attempts /\ VisitorClaim(c) /\ ToolCallTruth
    /\ TypeOK /\ RefusalInv /\ OwnershipInv /\ AuthorityInv /\ OneEffectInv
  BY SnapshotType DEF GateInv, TypeOK, OwnershipInv, RecordTypes
<1>0. pc[c] \in ReportPath \cup {"consume_dispatch"} =>
        /\ tc.status \in {"authorized", "executed", "failed"}
        /\ tc.status = "executed" => att.state = "succeeded"
        /\ tc.status = "failed" =>
             att.state \notin {"reserved", "dispatched", "succeeded"}
        /\ pc[c] \in ReportPath => effects = 1
  BY DEF VisitorClaim, ToolCallTruth, PromiseInv, ReportPath
<1>1. CASE \/ ConsumeAttempt(c) \/ ConsumeToolCall(c) \/ ConsumeValidate(c)
           \/ ReportToolCall(c) \/ ReportAttempt(c) \/ ReportReceiptCheck(c)
           \/ ReportReplay(c) \/ ReportReceipt(c) \/ ReportExpose(c)
  <2>1. UNCHANGED <<tc, ap, att, effects>>
    BY <1>1
       DEF ConsumeAttempt, ConsumeToolCall, ConsumeValidate, ReportToolCall,
           ReportAttempt, ReportReceiptCheck, ReportReplay, ReportReceipt,
           ReportExpose, records
  <2> QED BY <2>1, Unseen
<1>2. CASE ConsumeDispatch(c)
  <2>1. pc[c] = "consume_dispatch" /\ UNCHANGED <<tc, ap>>
    BY <1>2 DEF ConsumeDispatch
  <2>2. \/ UNCHANGED <<att, effects>>
        \/ /\ att.state = "reserved" /\ att'.state = "dispatched"
           /\ att'.input = att.input /\ effects' = effects + 1
    BY <1>2 DEF ConsumeDispatch, Attempts
  <2>3. att.state = "reserved" => Told = "none" /\ effects = 0
    BY <1>0, <2>1, NoEffectYet DEF Told
  <2> QED BY <2>1, <2>2, <2>3, Unseen, RunsStory
<1>3. CASE ReportTransition(c)
  <2>1. /\ pc[c] = "report_commit" /\ att.state = "dispatched"
        /\ att'.state = loc[c].report.state /\ att'.input = att.input
        /\ UNCHANGED <<tc, ap, effects>>
    BY <1>3 DEF ReportTransition, Attempts
  <2>2. Told = "none" /\ effects = 1
    BY <1>0, <2>1 DEF Told, ReportPath
  <2>3. /\ loc[c].report.state \in TerminalStates
        /\ loc[c].report.state # "failed_before_dispatch"
    BY DEF Reports, TerminalStates, ReportStates
  <2> QED BY <2>1, <2>2, <2>3, ConcludesStory
<1>4. CASE ReportWrite(c)
  <2>1. /\ pc[c] = "report_write" /\ UNCHANGED <<ap, att, effects>>
        /\ tc' = tc \/ tc' = TerminalToolCall(c)
    BY <1>4 DEF ReportWrite
  <2>2. att.state = loc[c].report.state
    BY <2>1 DEF VisitorClaim, EndedPcs
  <2>3. att.state \in TerminalStates /\ att.state # "absent"
    BY <2>2 DEF Reports, TerminalStates, ReportStates
  <2>4. TerminalToolCall(c).status =
          IF att.state = "succeeded" THEN "executed" ELSE "failed"
    BY <2>2 DEF TerminalToolCall, ToolCalls
  <2>5. /\ Verdict = "granted" /\ Outcome = att.state /\ Outcome # "none"
        /\ tc.status # "absent"
    BY <2>3, ReservedIsGranted DEF Outcome, TerminalStates, ReportStates
  <2>6. /\ tc.status \in {"authorized", "executed", "failed"}
        /\ tc.status = "executed" => att.state = "succeeded"
        /\ tc.status = "failed" => att.state # "succeeded"
    BY <1>0, <2>1 DEF ReportPath
  <2>7. CASE tc' = tc
    BY <2>1, <2>7, Unseen
  <2>8. CASE tc' = TerminalToolCall(c)
    <3>1. /\ tc'.status # "absent"
          /\ Told' = IF Outcome = "succeeded" THEN "executed" ELSE "failed"
          /\ Told = "none" \/ Told = Told'
      BY <2>4, <2>5, <2>6, <2>8 DEF Told
    <3> QED BY <2>1, <2>5, <3>1, WritesStory
  <2> QED BY <2>1, <2>7, <2>8
<1>5. CASE ReportRelease(c)
  <2>1. /\ pc[c] = "report_release" /\ UNCHANGED <<ap, att, effects>>
        /\ tc'.status = loc[c].tc.status
    BY <1>5 DEF ReportRelease, ToolCalls
  <2>2. /\ loc[c].tc.status \in {"executed", "failed"}
        /\ AgreesWithAttempt(loc[c].tc.status)
        /\ att.state = loc[c].report.state
    BY <2>1 DEF VisitorClaim, ReportPath, EndedPcs
  <2>3. att.state \in TerminalStates /\ att.state # "absent"
    BY <2>2 DEF Reports, TerminalStates, ReportStates
  <2>4. /\ Verdict = "granted" /\ Outcome = att.state /\ Outcome # "none"
        /\ tc.status # "absent"
    BY <2>3, ReservedIsGranted DEF Outcome, TerminalStates, ReportStates
  <2>5. /\ tc.status \in {"authorized", "executed", "failed"}
        /\ tc.status = "executed" => att.state = "succeeded"
        /\ tc.status = "failed" => att.state # "succeeded"
    BY <1>0, <2>1 DEF ReportPath
  <2>6. /\ tc'.status # "absent"
        /\ Told' = IF Outcome = "succeeded" THEN "executed" ELSE "failed"
        /\ Told = "none" \/ Told = Told'
    BY <2>1, <2>2, <2>4, <2>5 DEF Told, AgreesWithAttempt
  <2> QED BY <2>1, <2>4, <2>6, WritesStory
<1> QED BY <1>1, <1>2, <1>3, <1>4, <1>5 DEF ConsumeStep, ReportStep

(* A step keeps the promise's invariant if what it runs is new, what it blocks
   was denied and what it fails was granted. *)
LEMMA StepPromise ==
  ASSUME GateInv, PromiseInv, OneEffectInv', EvidenceKept, FinalKept,
         tc.status # "absent" => tc'.status # "absent",
         NEW c \in Calls, NEW label, Goto(c, label),
         effects' = effects \/ effects' = effects + 1,
         grant'.status = "consumed" =>
           grant.status = "consumed" \/ effects' = effects + 1,
         label = "local_await" => effects' = effects + 1,
         label = "submit_block" => tc'.decision = "deny",
         label = "fail" => Verdict' = "granted"
  PROVE  PromiseInv'
<1> PcTypes /\ effects \in Nat
  BY DEF GateInv, TypeOK, EnvironmentTypes
<1>1. pc'[c] = label /\ \A d \in Calls : d # c => pc'[d] = pc[d]
  BY DEF Goto, PcTypes
<1>2. effects' <= 1
  BY DEF OneEffectInv
<1>3. (effects = 1 => effects' = 1) /\ (effects' = effects + 1 => effects' = 1)
  BY <1>2
<1>4. grant'.status = "consumed" => effects' = 1
  BY <1>3 DEF PromiseInv
<1>5. Verdict = "granted" => Verdict' = "granted"
  BY VerdictStands DEF Verdict
<1>6. ASSUME NEW d \in Calls, pc[d] = "submit_block"
      PROVE  tc'.decision = "deny"
  <2>1. tc.status # "absent" /\ tc.decision = "deny"
    BY <1>6 DEF GateInv, RefusalInv, Carrying, CarryingPcs, PromiseInv
  <2> QED BY <2>1 DEF EvidenceKept, SameEvidence
<1>7. ASSUME NEW d \in Calls
      PROVE  /\ pc'[d] = "local_await" => effects' = 1
             /\ pc'[d] = "submit_block" => tc'.decision = "deny"
             /\ pc'[d] = "fail" => Verdict' = "granted"
  <2>1. CASE d = c
    BY <1>1, <1>3, <2>1
  <2>2. CASE d # c
    BY <1>1, <1>3, <1>5, <1>6, <2>2 DEF PromiseInv
  <2> QED BY <2>1, <2>2
<1> QED BY <1>4, <1>7 DEF PromiseInv

(* The labels at which the promise's invariant claims nothing. *)
UnclaimedPcs == Pcs \ {"local_await", "submit_block", "fail"}

LEMMA ApprovalStepPromise ==
  ASSUME GateInv, PromiseInv, OneEffectInv', EvidenceKept, FinalKept,
         tc.status # "absent" => tc'.status # "absent",
         NEW c \in Calls, ApprovalStep(c)
  PROVE  PromiseInv'
<1>1. UNCHANGED <<effects, grant>>
  BY DEF ApprovalStep, SubmitStep, SubmitInfluence, SubmitCreate,
     SubmitReplay, SubmitBlock, SubmitPend, SubmitApproval, ApproveStep,
     ApproveLoad, ApproveCheck, ApproveRecord, ApproveFinalize,
     ApproveExpires, ApproveConflict, CloseStep, CloseCheck, CloseLoad,
     CloseCommit, CloseExpires, CloseConflict, RejectWrite, Expire,
     Terminalize, records, execution
<1>2. ASSUME NEW label \in UnclaimedPcs, Goto(c, label)
      PROVE  PromiseInv'
  BY <1>1, <1>2, StepPromise DEF UnclaimedPcs
<1>3. CASE Goto(c, "submit_block") /\ tc'.decision = "deny"
  BY <1>1, <1>3, StepPromise
<1>4. CASE SubmitStep(c)
  BY <1>2, <1>3, <1>4, ReturnGoes
     DEF SubmitStep, SubmitInfluence, SubmitCreate, SubmitReplay, SubmitBlock,
         SubmitPend, SubmitApproval, UnclaimedPcs, Pcs
<1>5. CASE ApproveStep(c)
  BY <1>2, <1>5, ReturnGoes
     DEF ApproveStep, ApproveLoad, ApproveCheck, ApproveRecord,
         ApproveFinalize, ApproveExpires, ApproveConflict, UnclaimedPcs, Pcs
<1>6. CASE CloseStep(c)
  BY <1>2, <1>6, ReturnGoes
     DEF CloseStep, CloseCheck, CloseLoad, CloseCommit, CloseExpires,
         CloseConflict, RejectWrite, Expire, Terminalize, UnclaimedPcs, Pcs
<1> QED BY <1>4, <1>5, <1>6 DEF ApprovalStep

LEMMA ExecutionStepPromise ==
  ASSUME GateInv, PromiseInv, OneEffectInv', EvidenceKept, FinalKept,
         tc.status # "absent" => tc'.status # "absent",
         NEW c \in Calls, ExecutionStep(c)
  PROVE  PromiseInv'
<1> RefusalInv /\ AuthorityInv /\ OwnerClaim(c) /\ OwnershipInv
  BY DEF GateInv, OwnershipInv
<1>1. ASSUME NEW label \in UnclaimedPcs, Goto(c, label),
             effects' = effects,
             grant'.status = "consumed" => grant.status = "consumed"
      PROVE  PromiseInv'
  BY <1>1, StepPromise DEF UnclaimedPcs
<1>2. ASSUME Goto(c, "fail"), UNCHANGED <<effects, grant>>, Verdict = "granted",
             tc' = tc
      PROVE  PromiseInv'
  <2>1. Verdict' = "granted"
    BY <1>2, VerdictStands DEF Verdict
  <2> QED BY <1>2, <2>1, StepPromise
<1>3. CASE ReservationStep(c)
  <2>1. CASE Revalidate(c)
    <3>1. Verdict = "granted"
      BY <2>1
         DEF Revalidate, AuthorityInv, CallAuthority, Granted, RefusalInv,
             Carrying, CarryingPcs, Verdict
    <3>2. /\ UNCHANGED <<effects, grant, tc>>
          /\ Goto(c, "reserve") \/ Goto(c, "fail")
      BY <2>1 DEF Revalidate, records
    <3> QED BY <1>1, <1>2, <3>1, <3>2 DEF UnclaimedPcs, Pcs
  <2>2. CASE FailBeforeDispatch(c)
    <3>1. /\ UNCHANGED <<effects, grant, tc>>
          /\ \/ Goto(c, "idle")
             \/ Goto(c, "fail") /\ att.state = "reserved"
      BY <2>2, ReturnGoes DEF FailBeforeDispatch, CompleteAttempt, OwnsAttempt
    <3> QED BY <1>1, <1>2, <3>1, ReservedIsGranted DEF UnclaimedPcs, Pcs
  <2>3. CASE CreateReceipt(c) \/ Reserve(c) \/ FailToolCall(c) \/ FailReceipt(c)
    BY <1>1, <2>3, ReturnGoes
       DEF CreateReceipt, Reserve, FailToolCall, FailReceipt, UnclaimedPcs,
           Pcs
  <2> QED BY <1>3, <2>1, <2>2, <2>3 DEF ReservationStep
<1>4. CASE LocalStep(c)
  <2>1. CASE LocalUnknown(c) \/ LocalResult(c)
    <3>1. /\ UNCHANGED <<effects, grant, tc>>
          /\ \/ Goto(c, "idle")
             \/ Goto(c, "local_write")
             \/ Goto(c, "fail") /\ att.state = "dispatched"
      BY <2>1, ReturnGoes DEF LocalUnknown, LocalResult, CompleteAttempt,
         OwnsAttempt
    <3> QED BY <1>1, <1>2, <3>1, ReservedIsGranted DEF UnclaimedPcs, Pcs
  <2>2. CASE LocalInvoke(c)
    BY <2>2, StepPromise DEF LocalInvoke, records
  <2>3. CASE \/ LocalPreflight(c) \/ LocalBind(c) \/ LocalDispatch(c)
             \/ LocalRefused(c) \/ LocalWrite(c) \/ LocalReceipt(c)
             \/ LocalExpose(c) \/ LocalRelease(c)
    BY <1>1, <2>3, ReturnGoes
       DEF LocalPreflight, LocalBind, LocalDispatch, LocalRefused, LocalWrite,
           LocalReceipt, LocalExpose, LocalRelease, records, UnclaimedPcs, Pcs
  <2> QED BY <1>4, <2>1, <2>2, <2>3 DEF LocalStep
<1>5. CASE GrantStep(c)
  BY <1>1, <1>5, ReturnGoes
     DEF GrantStep, GrantCreate, GrantBind, GrantAudit, Authorize, records,
         UnclaimedPcs, Pcs
<1>6. CASE ConsumeStep(c)
  <2>1. CASE ConsumeDispatch(c)
    <3>1. /\ Goto(c, "idle")
          /\ \/ UNCHANGED <<effects, grant>>
             \/ effects' = effects + 1
      BY <2>1, ReturnGoes DEF ConsumeDispatch
    <3> QED BY <3>1, StepPromise
  <2>2. CASE ConsumeAttempt(c) \/ ConsumeToolCall(c) \/ ConsumeValidate(c)
    BY <1>1, <2>2, ReturnGoes
       DEF ConsumeAttempt, ConsumeToolCall, ConsumeValidate, records,
           UnclaimedPcs, Pcs
  <2> QED BY <1>6, <2>1, <2>2 DEF ConsumeStep
<1>7. CASE ReportStep(c)
  BY <1>1, <1>7, ReturnGoes
     DEF ReportStep, ReportToolCall, ReportAttempt, ReportReceiptCheck,
         ReportTransition, ReportReplay, ReportReceipt, ReportWrite,
         ReportExpose, ReportRelease, records, UnclaimedPcs, Pcs
<1> QED BY <1>3, <1>4, <1>5, <1>6, <1>7 DEF ExecutionStep

LEMMA OtherPromise ==
  ASSUME GateInv, PromiseInv, OneEffectInv', EvidenceKept, FinalKept,
         tc.status # "absent" => tc'.status # "absent"
  PROVE  /\ \A c \in Calls : Request(c) \/ Fault(c) => PromiseInv'
         /\ Environment \/ UNCHANGED vars => PromiseInv'
<1>1. ASSUME NEW c \in Calls, NEW label \in UnclaimedPcs, Goto(c, label),
             UNCHANGED <<records, effects>>
      PROVE  PromiseInv'
  BY <1>1, StepPromise DEF UnclaimedPcs, records
<1>2. ASSUME NEW c \in Calls, Request(c)
      PROVE  PromiseInv'
  BY <1>1, <1>2, RequestStarts DEF FirstPcs, UnclaimedPcs, Pcs
<1>3. ASSUME NEW c \in Calls, Fault(c)
      PROVE  PromiseInv'
  BY <1>1, <1>3, ReturnGoes
     DEF Fault, Abort, SubmitInfluenceUnavailable, GrantUnavailable,
         UnclaimedPcs, Pcs
<1>4. ASSUME Environment \/ UNCHANGED vars
      PROVE  PromiseInv'
  <2>1. UNCHANGED <<tc, ap, grant, effects, pc>>
    BY <1>4 DEF Environment, Tick, PolicyReload, ForeignExposure, records, vars
  <2> QED BY <2>1 DEF PromiseInv, Verdict
<1> QED BY <1>2, <1>3, <1>4

LEMMA NextPromise ==
  ASSUME GateInv, PromiseInv, GateInv', [Next]_vars
  PROVE  PromiseStep /\ PromiseInv'
<1>1. EvidenceKept
  BY NextEvidence DEF GateInv
<1>2. FinalKept
  BY NextFinal DEF GateInv
<1>3. tc.status # "absent" => tc'.status # "absent"
  BY StoredStays DEF GateInv
<1>4. OneEffectInv'
  BY DEF GateInv
<1>5. PromiseInv'
  BY <1>1, <1>2, <1>3, <1>4, ApprovalStepPromise, ExecutionStepPromise,
     OtherPromise DEF Next, Step
<1>6. PromiseStep
  <2>1. UNCHANGED records /\ UNCHANGED effects => PromiseStep
    BY Unseen DEF records
  <2>2. (\E c \in Calls : Request(c) \/ Fault(c)) \/ Environment
          \/ UNCHANGED vars => UNCHANGED <<records, effects>>
    BY RequestStarts, OtherWritesNothing
       DEF Fault, Abort, SubmitInfluenceUnavailable, GrantUnavailable,
           Environment, Tick, PolicyReload, ForeignExposure, vars
  <2> QED BY <1>1, <2>1, <2>2, SubmitKeepsPromise, DecisionKeepsPromise,
             OwnerKeepsPromise, RunnerKeepsPromise
          DEF Next, Step, ApprovalStep, ExecutionStep
<1> QED BY <1>5, <1>6

LEMMA InitPromise == Init => Promise!Init /\ PromiseInv
BY DEF Init, GateInit, NoToolCall, Promise!Init, PromiseInv, Verdict,
   Authority, Ran, Outcome, Told, TerminalStates, ReportStates

(* The gate implements its promise, for any number of calls, principals,
   inputs, policies, exposures and faults: every await, crash and write of a
   stale snapshot is a step of the one-shot action or none at all. *)
THEOREM GateKeepsPromise == Spec => ImplementsOneShot
<1>1. Init => Promise!Init /\ PromiseInv
  BY InitPromise
<1>2. GateInv /\ PromiseInv /\ GateInv' /\ [Next]_vars
        => PromiseInv' /\ [Promise!Next]_(Promise!abstractVars)
  BY NextPromise DEF PromiseStep
<1> QED BY <1>1, <1>2, GateHolds, PTL DEF Spec, ImplementsOneShot, Promise!Spec

------------------------------------------------------------------------------
(* Fresh evidence *)

(* The scope only ever learns, and counts what it learns. *)
ScopeMoves ==
  \/ UNCHANGED <<revision, sources>>
  \/ revision' > revision /\ sources \subseteq sources'

(* An exposure recorded is the one of the action's own result. *)
ScopeKept ==
  /\ ScopeMoves
  /\ exposed' => \/ exposed
                 \/ tc.status # "absent" /\ OriginalRule(tc).source \in sources'

LEMMA RecordMovesScope ==
  ASSUME TypeOK, RefusalInv, OwnershipInv, EvidenceInv, FreshInv,
         NEW c \in Calls, pc[c] \in HolderPcs, RecordExposure(loc[c].tc)
  PROVE  ScopeKept
<1>1. tc.status # "absent" /\ SameEvidence(loc[c].tc, tc)
  BY HeldIsStored DEF EvidenceInv
<1>2. OriginalRule(loc[c].tc).source = OriginalRule(tc).source
  BY <1>1 DEF SameEvidence, OriginalRule
<1>3. exposed => sources' = sources
  BY <1>2 DEF RecordExposure, FreshInv
<1>4. revision \in Nat
  BY DEF TypeOK, EnvironmentTypes
<1> QED BY <1>1, <1>2, <1>3, <1>4 DEF RecordExposure, ScopeKept, ScopeMoves

LEMMA NextScope ==
  ASSUME TypeOK, RefusalInv, OwnershipInv, EvidenceInv, FreshInv, [Next]_vars
  PROVE  ScopeKept
<1>1. CASE UNCHANGED scope
  BY <1>1 DEF scope, ScopeKept, ScopeMoves
<1>2. ASSUME NEW c \in Calls, ApprovalStep(c)
      PROVE  UNCHANGED scope
  BY <1>2
     DEF ApprovalStep, SubmitStep, SubmitInfluence, SubmitCreate,
         SubmitReplay, SubmitBlock, SubmitPend, SubmitApproval, ApproveStep,
         ApproveLoad, ApproveCheck, ApproveRecord, ApproveFinalize,
         ApproveExpires, ApproveConflict, CloseStep, CloseCheck, CloseLoad,
         CloseCommit, CloseExpires, CloseConflict, RejectWrite, Expire,
         Terminalize
<1>3. ASSUME NEW c \in Calls, ReservationStep(c) \/ GrantStep(c) \/ ConsumeStep(c)
      PROVE  UNCHANGED scope
  BY <1>3
     DEF ReservationStep, CreateReceipt, Revalidate, Reserve,
         FailBeforeDispatch, FailToolCall, FailReceipt, GrantStep,
         GrantCreate, GrantBind, GrantAudit, Authorize, ConsumeStep,
         ConsumeAttempt, ConsumeToolCall, ConsumeValidate, ConsumeDispatch
<1>4. ASSUME NEW c \in Calls, LocalStep(c) \/ ReportStep(c)
      PROVE  ScopeKept
  <2>1. CASE LocalExpose(c) \/ ReportExpose(c)
    <3>1. RecordExposure(loc[c].tc) /\ pc[c] \in HolderPcs
      BY <2>1
         DEF LocalExpose, ReportExpose, HolderPcs, OwnerPcs, ToldPcs, ReportPath
    <3> QED BY <3>1, RecordMovesScope
  <2>2. CASE ~(LocalExpose(c) \/ ReportExpose(c))
    BY <1>1, <1>4, <2>2
       DEF LocalStep, LocalPreflight, LocalBind, LocalDispatch, LocalInvoke,
           LocalRefused, LocalUnknown, LocalResult, LocalWrite, LocalReceipt,
           LocalRelease, ReportStep, ReportToolCall, ReportAttempt,
           ReportReceiptCheck, ReportTransition, ReportReplay, ReportReceipt,
           ReportWrite, ReportRelease
  <2> QED BY <2>1, <2>2
<1>5. ASSUME NEW c \in Calls, Request(c) \/ Fault(c)
      PROVE  UNCHANGED scope
  BY <1>5, RequestStarts
     DEF Fault, Abort, SubmitInfluenceUnavailable, GrantUnavailable
<1>6. CASE Environment \/ UNCHANGED vars
  <2>1. CASE ForeignExposure
    <3>1. revision \in Nat /\ revision' = revision + 1
      BY <2>1 DEF ForeignExposure, TypeOK, EnvironmentTypes
    <3>2. sources \subseteq sources' /\ exposed' = exposed
      BY <2>1 DEF ForeignExposure
    <3> QED BY <3>1, <3>2 DEF ScopeKept, ScopeMoves
  <2>2. CASE ~ForeignExposure
    BY <1>1, <1>6, <2>2 DEF Environment, Tick, PolicyReload, vars, scope
  <2> QED BY <2>1, <2>2
<1> QED BY <1>1, <1>2, <1>3, <1>4, <1>5, <1>6 DEF Next, Step, ExecutionStep

(* Evidence of a revision that has passed claims nothing any more. *)
LEMMA FreshStays ==
  ASSUME TypeOK, TypeOK', ScopeMoves, NEW t \in ToolCalls, FreshEvidence(t)
  PROVE  FreshEvidence(t)'
<1>1. revision \in Nat /\ revision' \in Nat /\ t.rev \in Int
  BY DEF TypeOK, EnvironmentTypes, ToolCalls
<1>2. CASE UNCHANGED <<revision, sources>>
  BY <1>2 DEF FreshEvidence, ObservedSources
<1>3. CASE revision' > revision
  <2>1. t.rev <= revision => t.rev <= revision' /\ t.rev # revision'
    BY <1>1, <1>3
  <2>2. ObservedSources(FALSE)' = ObservedSources(FALSE)
    BY DEF ObservedSources
  <2> QED BY <2>1, <2>2 DEF FreshEvidence
<1> QED BY <1>2, <1>3 DEF ScopeMoves

LEMMA FreshCopies ==
  ASSUME NEW t, NEW u, SameEvidence(t, u), FreshEvidence(u)
  PROVE  FreshEvidence(t)
BY DEF SameEvidence, FreshEvidence, OriginalRule

(* A draft rests on what its submission has just observed. *)
LEMMA DraftIsFresh ==
  ASSUME TypeOK, NEW c \in Calls,
         SubmitInfluence(c) \/ SubmitInfluenceUnavailable(c)
  PROVE  FreshEvidence(loc[c].tc)'
<1> DEFINE draft == loc[c].tc
<1> revision \in Nat /\ LocTypes /\ draft \in ToolCalls /\ UNCHANGED scope
  BY SnapshotType
     DEF TypeOK, EnvironmentTypes, SubmitInfluence, SubmitInfluenceUnavailable
<1>1. ASSUME NEW seen, NEW rev
      PROVE  LET t == DraftToolCall(draft, seen, rev)
             IN  /\ t.seen = seen /\ t.rev = rev /\ t.scoped = draft.scoped
                 /\ OriginalRule(t) = OriginalRule(draft)
  BY DEF DraftToolCall, OriginalRule, ToolCalls
<1>2. ASSUME NEW seen, NEW rev,
             loc' = [loc EXCEPT ![c].tc = DraftToolCall(draft, seen, rev)]
      PROVE  loc'[c].tc = DraftToolCall(draft, seen, rev)
  BY <1>2 DEF LocTypes, Locals
<1>3. CASE SubmitInfluence(c) /\ ~OriginalRule(draft).guarded
  BY <1>1, <1>2, <1>3 DEF SubmitInfluence, FreshEvidence
<1>4. CASE SubmitInfluence(c) /\ OriginalRule(draft).guarded
  <2> DEFINE seen == ObservedSources(draft.scoped)
             rev == IF draft.scoped THEN revision ELSE 0
  <2>1. loc'[c].tc = DraftToolCall(draft, seen, rev)
    BY <1>2, <1>4 DEF SubmitInfluence
  <2>2. draft.scoped \in BOOLEAN
    BY DEF ToolCalls
  <2>3. draft.scoped => rev = revision /\ seen = ObservedSources(TRUE)
    BY <2>2
  <2>4. ~draft.scoped => seen = ObservedSources(FALSE)
    BY <2>2
  <2> HIDE DEF seen, rev, draft
  <2>5. /\ loc'[c].tc.seen = seen /\ loc'[c].tc.rev = rev
        /\ loc'[c].tc.scoped = draft.scoped
    BY <1>1, <2>1
  <2> QED BY <2>3, <2>4, <2>5 DEF FreshEvidence, ObservedSources, scope
<1>5. CASE SubmitInfluenceUnavailable(c)
  <2>1. loc'[c].tc = DraftToolCall(draft, {"unknown"}, -1)
    BY <1>2, <1>5 DEF SubmitInfluenceUnavailable
  <2>2. draft.scoped = TRUE
    BY <1>5 DEF SubmitInfluenceUnavailable, ToolCalls
  <2> HIDE DEF draft
  <2>3. loc'[c].tc.rev = -1 /\ loc'[c].tc.scoped
    BY <2>1, <2>2 DEF DraftToolCall, ToolCalls
  <2>4. revision' \in Nat
    BY DEF scope
  <2>5. loc'[c].tc.rev <= revision' /\ loc'[c].tc.rev # revision'
    BY <2>3, <2>4
  <2> QED BY <2>3, <2>5 DEF FreshEvidence
<1> QED BY <1>3, <1>4, <1>5

(* Whoever writes the tool call stores it first or holds a copy of it. *)
LEMMA WritersHold ==
  ASSUME NEW c \in Calls, ApprovalStep(c) \/ ExecutionStep(c),
         ~SubmitCreate(c), pc[c] \notin HolderPcs
  PROVE  tc' = tc
<1>0. pc[c] \notin {"submit_block", "submit_pend", "reject_write",
                    "terminalize", "fail", "local_write", "local_release",
                    "authorize", "report_write", "report_release"}
  BY DEF HolderPcs, OwnerPcs, UntoldPcs, ToldPcs, CarryingPcs, ReservedPcs,
     ClosedPcs, ReportPath
<1>1. CASE ApprovalStep(c)
  BY <1>0, <1>1
     DEF ApprovalStep, SubmitStep, SubmitInfluence, SubmitReplay, SubmitBlock,
         SubmitPend, SubmitApproval, ApproveStep, ApproveLoad, ApproveCheck,
         ApproveRecord, ApproveFinalize, ApproveExpires, ApproveConflict,
         CloseStep, CloseCheck, CloseLoad, CloseCommit, CloseExpires,
         CloseConflict, RejectWrite, Expire, Terminalize, records
<1>2. CASE ReservationStep(c) \/ LocalStep(c)
  BY <1>0, <1>2
     DEF ReservationStep, CreateReceipt, Revalidate, Reserve,
         FailBeforeDispatch, FailToolCall, FailReceipt, LocalStep,
         LocalPreflight, LocalBind, LocalDispatch, LocalInvoke, LocalRefused,
         LocalUnknown, LocalResult, LocalWrite, LocalReceipt, LocalExpose,
         LocalRelease, records
<1>3. CASE GrantStep(c) \/ ConsumeStep(c)
  BY <1>0, <1>3
     DEF GrantStep, GrantCreate, GrantBind, GrantAudit, Authorize,
         ConsumeStep, ConsumeAttempt, ConsumeToolCall, ConsumeValidate,
         ConsumeDispatch, records
<1>4. CASE ReportStep(c)
  BY <1>0, <1>4
     DEF ReportStep, ReportToolCall, ReportAttempt, ReportReceiptCheck,
         ReportTransition, ReportReplay, ReportReceipt, ReportWrite,
         ReportExpose, ReportRelease, records
<1> QED BY <1>1, <1>2, <1>3, <1>4 DEF ExecutionStep

(* A call is at the creation of its tool call only after the lookup. *)
Drafts(c) == SubmitInfluence(c) \/ SubmitInfluenceUnavailable(c)

LEMMA DraftMoves ==
  ASSUME LocTypes, NEW c \in Calls, Drafts(c)
  PROVE  Moves(c, "submit_create")
BY GotoMoves
   DEF Drafts, SubmitInfluence, SubmitInfluenceUnavailable, LocTypes

GoesElsewhere(c) == \E label : label # "submit_create" /\ Moves(c, label)

LEMMA OnlyLookupsDraft ==
  ASSUME LocTypes, NEW c \in Calls, Request(c) \/ Step(c) \/ Fault(c)
  PROVE  GoesElsewhere(c) \/ Drafts(c)
<1>0. ASSUME NEW label, label # "submit_create", Goto(c, label),
             \A d \in Calls : d # c => loc'[d] = loc[d]
      PROVE  GoesElsewhere(c)
  BY <1>0, GotoMoves DEF GoesElsewhere
<1>1. Return(c) => GoesElsewhere(c)
  BY ReturnMoves DEF GoesElsewhere
<1>2. CASE SubmitStep(c)
  BY <1>0, <1>1, <1>2
     DEF SubmitStep, SubmitCreate, SubmitReplay, SubmitBlock, SubmitPend,
         SubmitApproval, LocTypes, Drafts
<1>3. CASE ApproveStep(c)
  BY <1>0, <1>1, <1>3
     DEF ApproveStep, ApproveLoad, ApproveCheck, ApproveRecord,
         ApproveFinalize, ApproveExpires, ApproveConflict, LocTypes
<1>4. CASE CloseStep(c)
  BY <1>0, <1>1, <1>4
     DEF CloseStep, CloseCheck, CloseLoad, CloseCommit, CloseExpires,
         CloseConflict, RejectWrite, Expire, Terminalize, LocTypes
<1>5. CASE ReservationStep(c)
  BY <1>0, <1>1, <1>5
     DEF ReservationStep, CreateReceipt, Revalidate, Reserve,
         FailBeforeDispatch, FailToolCall, FailReceipt, CompleteAttempt,
         LocTypes
<1>6. CASE LocalStep(c) \/ GrantStep(c) \/ ConsumeStep(c) \/ ReportStep(c)
  BY <1>6, ExecutionMovesOn DEF GoesElsewhere
<1>7. ASSUME NEW mode \in Modes, NEW scoped \in Scopes,
             SubmitEvaluate(c, mode, scoped)
      PROVE  GoesElsewhere(c)
  BY <1>0, <1>7 DEF SubmitEvaluate, LocTypes
<1>8. ASSUME NEW p \in Principals, NEW input \in Inputs,
             ApproveBegin(c, p, input)
      PROVE  GoesElsewhere(c)
  BY <1>0, <1>8 DEF ApproveBegin, LocTypes
<1>9. ASSUME NEW p \in Principals, NEW kind \in {"reject", "cancel", "read"},
             CloseBegin(c, p, kind)
      PROVE  GoesElsewhere(c)
  BY <1>0, <1>9 DEF CloseBegin, LocTypes
<1>10. ASSUME NEW input \in Inputs, ConsumeBegin(c, input)
       PROVE  GoesElsewhere(c)
  BY <1>0, <1>10 DEF ConsumeBegin, LocTypes
<1>11. ASSUME NEW report \in Reports, ReportBegin(c, report)
       PROVE  GoesElsewhere(c)
  BY <1>0, <1>11 DEF ReportBegin, LocTypes
<1>12. CASE Fault(c)
  BY <1>0, <1>1, <1>12
     DEF Fault, Abort, GrantUnavailable, LocTypes, Drafts
<1> QED BY <1>2, <1>3, <1>4, <1>5, <1>6, <1>7, <1>8, <1>9, <1>10, <1>11, <1>12
        DEF Request, ApprovalRequest, RunnerRequest, Step, ApprovalStep,
            ExecutionStep

LEMMA DraftsStayFresh ==
  ASSUME TypeOK, TypeOK', FreshInv, ScopeMoves, [Next]_vars, NEW d \in Calls,
         pc'[d] = "submit_create"
  PROVE  FreshEvidence(loc[d].tc)'
<1>0. PcTypes /\ LocTypes
  BY DEF TypeOK
<1>1. ASSUME pc[d] = "submit_create", loc'[d] = loc[d]
      PROVE  FreshEvidence(loc[d].tc)'
  <2>1. FreshEvidence(loc[d].tc) /\ loc[d].tc \in ToolCalls
    BY <1>0, <1>1, SnapshotType DEF FreshInv
  <2> QED BY <1>1, <2>1, FreshStays DEF FreshEvidence
<1>2. ASSUME NEW c \in Calls, Request(c) \/ Step(c) \/ Fault(c), d # c
      PROVE  pc'[d] = pc[d] /\ loc'[d] = loc[d]
  <2>1. PICK label : Moves(c, label)
    BY <1>0, <1>2, OnlyLookupsDraft, DraftMoves DEF GoesElsewhere
  <2> QED BY <1>0, <1>2, <2>1, MoveOne
<1>3. ASSUME Request(d) \/ Step(d) \/ Fault(d)
      PROVE  Drafts(d)
  BY <1>0, <1>3, OnlyLookupsDraft, MoveOne DEF GoesElsewhere
<1>4. CASE Drafts(d)
  BY <1>4, DraftIsFresh DEF Drafts
<1>5. CASE UNCHANGED <<pc, loc>>
  BY <1>1, <1>5
<1> QED BY <1>1, <1>2, <1>3, <1>4, <1>5
        DEF Next, Environment, Tick, PolicyReload, ForeignExposure, vars

LEMMA NextFresh ==
  ASSUME TypeOK, TypeOK', RefusalInv, OwnershipInv, EvidenceInv, FreshInv,
         EvidenceKept, tc.status # "absent" => tc'.status # "absent",
         [Next]_vars
  PROVE  FreshInv'
<1>0. ScopeKept /\ tc \in ToolCalls /\ LocTypes
  BY NextScope DEF TypeOK, RecordTypes
<1>1. CASE tc.status # "absent"
  <2>1. SameEvidence(tc', tc) /\ FreshEvidence(tc)
    BY <1>1 DEF EvidenceKept, FreshInv
  <2>2. FreshEvidence(tc)'
    <3>1. /\ OriginalRule(tc)' = OriginalRule(tc) /\ tc'.scoped = tc.scoped
          /\ tc'.seen = tc.seen /\ tc'.rev = tc.rev
      BY <2>1 DEF SameEvidence, OriginalRule
    <3> QED BY <1>0, <2>1, <3>1, FreshStays DEF FreshEvidence, ScopeKept
  <2>3. OriginalRule(tc)' = OriginalRule(tc)
    BY <2>1 DEF SameEvidence, OriginalRule
  <2>4. exposed' => tc'.status # "absent" /\ OriginalRule(tc)'.source \in sources'
    BY <1>0, <1>1, <2>3 DEF FreshInv, ScopeKept, ScopeMoves
  <2> QED BY <1>0, <2>2, <2>4, DraftsStayFresh DEF FreshInv, ScopeKept
<1>2. CASE tc.status = "absent"
  <2>1. ~exposed'
    BY <1>0, <1>2 DEF FreshInv, ScopeKept
  <2>2. \A c \in Calls : pc[c] \notin HolderPcs
    BY <1>2, HeldIsStored
  <2>3. tc' = tc \/ \E c \in Calls : SubmitCreate(c)
    BY <2>2, WritersHold, OtherWritesNothing DEF Next, Step, records
  <2>4. ASSUME NEW c \in Calls, SubmitCreate(c)
        PROVE  FreshEvidence(tc)'
    <3>1. /\ FreshEvidence(loc[c].tc) /\ tc' = loc[c].tc
          /\ UNCHANGED <<revision, sources>>
      BY <2>4 DEF SubmitCreate, FreshInv, scope
    <3> QED BY <3>1 DEF FreshEvidence, OriginalRule, ObservedSources
  <2> QED BY <1>0, <1>2, <2>1, <2>3, <2>4, DraftsStayFresh
          DEF FreshInv, ScopeKept
<1> QED BY <1>1, <1>2

LEMMA InitFresh == Init => FreshInv
BY DEF Init, GateInit, NoToolCall, FreshInv

------------------------------------------------------------------------------
(* What executors work on *)

ExecutorPcs == LocalPath \cup {"grant_create", "grant_bind"} \cup ConsumePcs

(* An attempt, once reserved, keeps its mode, authority and input. *)
BindingKept ==
  /\ att'.mode = att.mode /\ att'.input = att.input
  /\ att'.viaApproval = att.viaApproval

(* Nobody executes before the reservation. *)
LEMMA ExecutorsAreReserved ==
  ASSUME OneEffectInv, OwnershipInv, ExecutorInv, NEW c \in Calls,
         pc[c] \in ExecutorPcs
  PROVE  att.state # "absent"
<1>1. OwnerClaim(c) /\ Story /\ ExecutorClaim(c)
  BY DEF OwnershipInv, ExecutorInv
<1> QED BY <1>1
        DEF OneEffectInv, OwnerClaim, ReservedPcs, Story, ExecutorClaim,
            ExecutorPcs

LEMMA StepExecutor ==
  ASSUME PcTypes, OneEffectInv, OwnershipInv, ExecutorInv, NEW c \in Calls,
         NEW label, Moves(c, label),
         BindingKept \/ att.state = "absent",
         att'.bound => att'.mode = "external_grant",
         grant'.status # "absent" => grant'.input = att'.input,
         grant.status # "absent" => grant'.status # "absent",
         ExecutorClaim(c)'
  PROVE  ExecutorInv'
<1>1. \A d \in Calls : d # c => pc'[d] = pc[d] /\ loc'[d] = loc[d]
  BY MoveOne
<1>2. ASSUME NEW d \in Calls, d # c
      PROVE  ExecutorClaim(d)'
  <2>1. CASE pc[d] \in ExecutorPcs
    <3>1. BindingKept /\ ExecutorClaim(d)
      BY <2>1, ExecutorsAreReserved DEF ExecutorInv
    <3> QED BY <1>1, <1>2, <3>1 DEF ExecutorClaim, BindingKept
  <2>2. CASE pc[d] \notin ExecutorPcs
    BY <1>1, <1>2, <2>2 DEF ExecutorClaim, ExecutorPcs
  <2> QED BY <2>1, <2>2
<1> QED BY <1>2 DEF ExecutorInv

(* A step that reserves, binds and grants nothing. *)
SameBinding ==
  /\ BindingKept /\ att'.bound = att.bound
  /\ grant'.input = grant.input
  /\ grant'.status = "absent" <=> grant.status = "absent"

LEMMA KeepExecutor ==
  ASSUME PcTypes, OneEffectInv, OwnershipInv, ExecutorInv, NEW c \in Calls,
         NEW label, Moves(c, label), SameBinding, ExecutorClaim(c)'
  PROVE  ExecutorInv'
BY StepExecutor DEF SameBinding, BindingKept, ExecutorInv

LEMMA QuietExecutor ==
  ASSUME PcTypes, OneEffectInv, OwnershipInv, ExecutorInv, NEW c \in Calls,
         NEW label, label \notin ExecutorPcs, Moves(c, label), SameBinding
  PROVE  ExecutorInv'
<1>1. ExecutorClaim(c)'
  BY MoveOne DEF ExecutorClaim, ExecutorPcs
<1> QED BY <1>1, KeepExecutor

(* Who goes on executing, works on what it worked on. *)
LEMMA GoOnExecuting ==
  ASSUME PcTypes, OneEffectInv, OwnershipInv, ExecutorInv, NEW c \in Calls,
         NEW label, Moves(c, label), SameBinding,
         loc'[c].input = loc[c].input, loc'[c].via = loc[c].via,
         \/ pc[c] \in LocalPath /\ label \in LocalPath
         \/ /\ pc[c] \in {"grant_create", "grant_bind"}
            /\ label \in {"grant_create", "grant_bind"}
         \/ pc[c] \in ConsumePcs /\ label \in ConsumePcs
  PROVE  ExecutorInv'
<1>1. pc'[c] = label /\ ExecutorClaim(c)
  BY MoveOne DEF ExecutorInv
<1>2. ExecutorClaim(c)'
  BY <1>1 DEF ExecutorClaim, SameBinding, BindingKept, LocalPath, ConsumePcs
<1> QED BY <1>2, KeepExecutor

LEMMA ApprovalStepExecutor ==
  ASSUME TypeOK, OneEffectInv, OwnershipInv, ExecutorInv, NEW c \in Calls,
         ApprovalStep(c)
  PROVE  ExecutorInv'
<1> PcTypes /\ LocTypes
  BY DEF TypeOK
<1>0. ASSUME NEW label \in Pcs \ ExecutorPcs, Goto(c, label),
             \A d \in Calls : d # c => loc'[d] = loc[d],
             UNCHANGED <<att, grant>>
      PROVE  ExecutorInv'
  BY <1>0, GotoMoves, QuietExecutor DEF SameBinding, BindingKept
<1>1. Return(c) /\ UNCHANGED <<att, grant>> => ExecutorInv'
  BY <1>0, ReturnGoes DEF Return, LocTypes, ExecutorPcs, LocalPath, ConsumePcs, Pcs
<1>2. {"submit_create", "submit_block", "submit_pend", "submit_approval",
       "approve_check", "approve_commit", "close_load", "close_check",
       "close_commit", "reject_write", "expire", "terminalize", "receipt"}
         \subseteq Pcs \ ExecutorPcs
  BY DEF ExecutorPcs, LocalPath, ConsumePcs, Pcs
<1>3. CASE SubmitStep(c)
  BY <1>0, <1>1, <1>2, <1>3
     DEF SubmitStep, SubmitInfluence, SubmitCreate, SubmitReplay, SubmitBlock,
         SubmitPend, SubmitApproval, LocTypes, records, execution
<1>4. CASE ApproveStep(c)
  BY <1>0, <1>1, <1>2, <1>4
     DEF ApproveStep, ApproveLoad, ApproveCheck, ApproveRecord,
         ApproveFinalize, ApproveExpires, ApproveConflict, LocTypes, records,
         execution
<1>5. CASE CloseStep(c)
  BY <1>0, <1>1, <1>2, <1>5
     DEF CloseStep, CloseCheck, CloseLoad, CloseCommit, CloseExpires,
         CloseConflict, RejectWrite, Expire, Terminalize, LocTypes, records,
         execution
<1> QED BY <1>3, <1>4, <1>5 DEF ApprovalStep

LEMMA ReservationStepExecutor ==
  ASSUME TypeOK, OneEffectInv, OwnershipInv, ExecutorInv, NEW c \in Calls,
         ReservationStep(c)
  PROVE  ExecutorInv'
<1> PcTypes /\ LocTypes /\ att \in Attempts
  BY DEF TypeOK, RecordTypes
<1>0. {"idle", "revalidate", "reserve", "fail", "fail_receipt"}
        \cap ExecutorPcs = {}
  BY DEF ExecutorPcs, LocalPath, ConsumePcs
<1>1. CASE Reserve(c) /\ ~(Return(c) /\ att' = att)
  <2>1. /\ att.state = "absent" /\ grant' = grant
        /\ att' = [att EXCEPT !.state = "reserved", !.owner = c,
                              !.mode = loc[c].tc.mode, !.input = loc[c].input,
                              !.viaApproval = loc[c].via, !.reservedAt = now]
        /\ loc' = [loc EXCEPT ![c].tc.input = loc[c].input]
        /\ Goto(c, IF loc[c].tc.mode = "local_mock" THEN "local_preflight"
                                                    ELSE "grant_create")
    BY <1>1 DEF Reserve
  <2>2. /\ att'.mode = loc[c].tc.mode /\ att'.input = loc[c].input
        /\ att'.viaApproval = loc[c].via /\ att'.bound = att.bound
    BY <2>1 DEF Attempts
  <2>3. ~att.bound /\ grant.status = "absent"
    BY <2>1 DEF OneEffectInv, OwnershipInv, Story
  <2>4. loc'[c].input = loc[c].input /\ loc'[c].via = loc[c].via
    BY <2>1 DEF LocTypes, Locals
  <2>5. loc[c].tc.mode \in {"local_mock", "external_grant"}
    BY SnapshotType DEF ToolCalls
  <2>6. PICK label \in {"local_preflight", "grant_create"} :
          /\ Moves(c, label)
          /\ label = "local_preflight" => att'.mode = "local_mock"
          /\ label = "grant_create" => att'.mode = "external_grant"
    BY <2>1, <2>2, <2>5, GotoMoves DEF LocTypes
  <2>7. ExecutorClaim(c)'
    BY <2>2, <2>4, <2>6, MoveOne DEF ExecutorClaim, LocalPath, ConsumePcs
  <2> QED BY <2>1, <2>2, <2>3, <2>6, <2>7, StepExecutor
<1>2. CASE ~(Reserve(c) /\ ~(Return(c) /\ att' = att))
  <2>1. SameBinding
    BY <1>2
       DEF ReservationStep, CreateReceipt, Revalidate, Reserve,
           FailBeforeDispatch, FailToolCall, FailReceipt, CompleteAttempt,
           OwnsAttempt, Attempts, records, SameBinding, BindingKept
  <2>2. Return(c) => Moves(c, "idle")
    BY ReturnMoves
  <2>3. PICK label : label \notin ExecutorPcs /\ Moves(c, label)
    BY <1>0, <1>2, <2>2, GotoMoves
       DEF ReservationStep, CreateReceipt, Revalidate, Reserve,
           FailBeforeDispatch, FailToolCall, FailReceipt, CompleteAttempt
  <2> QED BY <2>1, <2>3, QuietExecutor
<1> QED BY <1>1, <1>2

LEMMA LocalStepExecutor ==
  ASSUME TypeOK, OneEffectInv, OwnershipInv, ExecutorInv, NEW c \in Calls,
         LocalStep(c)
  PROVE  ExecutorInv'
<1> PcTypes /\ LocTypes /\ att \in Attempts
  BY DEF TypeOK, RecordTypes
<1>0. SameBinding
  BY DEF LocalStep, LocalPreflight, LocalBind, LocalDispatch, LocalInvoke,
     LocalRefused, LocalUnknown, LocalResult, LocalWrite, LocalReceipt,
     LocalExpose, LocalRelease, CompleteAttempt, OwnsAttempt, Attempts,
     records, SameBinding, BindingKept
<1>1. ASSUME NEW label \in LocalPath, pc[c] \in LocalPath, Goto(c, label),
             loc' = loc
      PROVE  ExecutorInv'
  BY <1>0, <1>1, GotoMoves, GoOnExecuting
<1>2. ASSUME NEW label, label \notin ExecutorPcs, Goto(c, label),
             \A d \in Calls : d # c => loc'[d] = loc[d]
      PROVE  ExecutorInv'
  BY <1>0, <1>2, GotoMoves, QuietExecutor
<1>3. {"idle", "fail_before", "local_unknown", "fail", "local_await",
       "local_write", "local_receipt", "local_expose", "local_release"}
         \cap ExecutorPcs = {}
  BY DEF ExecutorPcs, LocalPath, ConsumePcs
<1>4. Return(c) => ExecutorInv'
  BY <1>2, <1>3, ReturnGoes DEF Return, LocTypes
<1>5. CASE LocalPreflight(c) \/ LocalBind(c) \/ LocalDispatch(c)
  BY <1>1, <1>2, <1>3, <1>4, <1>5
     DEF LocalPreflight, LocalBind, LocalDispatch, LocalPath
<1>6. CASE \/ LocalInvoke(c) \/ LocalRefused(c) \/ LocalUnknown(c)
           \/ LocalResult(c) \/ LocalWrite(c) \/ LocalReceipt(c)
           \/ LocalExpose(c) \/ LocalRelease(c)
  BY <1>2, <1>3, <1>4, <1>6
     DEF LocalInvoke, LocalRefused, LocalUnknown, LocalResult, LocalWrite,
         LocalReceipt, LocalExpose, LocalRelease, CompleteAttempt, LocTypes
<1> QED BY <1>5, <1>6 DEF LocalStep

LEMMA GrantStepExecutor ==
  ASSUME TypeOK, OneEffectInv, OwnershipInv, ExecutorInv, NEW c \in Calls,
         GrantStep(c)
  PROVE  ExecutorInv'
<1> PcTypes /\ LocTypes /\ att \in Attempts /\ ExecutorClaim(c)
  BY DEF TypeOK, RecordTypes, ExecutorInv
<1>0. {"idle", "fail_before", "grant_audit", "authorize"} \cap ExecutorPcs = {}
  BY DEF ExecutorPcs, LocalPath, ConsumePcs
<1>1. CASE GrantCreate(c)
  <2>1. /\ att' = att /\ grant'.status = "issued" /\ grant'.input = loc[c].input
        /\ pc[c] = "grant_create" /\ loc' = loc /\ Moves(c, "grant_bind")
    BY <1>1, GotoMoves DEF GrantCreate
  <2>2. att.mode = "external_grant" /\ loc[c].input = att.input
    BY <2>1 DEF ExecutorClaim
  <2>3. ExecutorClaim(c)'
    BY <2>1, <2>2, MoveOne DEF ExecutorClaim, LocalPath, ConsumePcs
  <2>4. BindingKept
    BY <2>1 DEF BindingKept
  <2> QED BY <2>1, <2>2, <2>3, <2>4, StepExecutor
<1>2. CASE GrantBind(c)
  <2>1. /\ BindingKept /\ grant' = grant /\ pc[c] = "grant_bind"
        /\ Moves(c, "grant_audit") \/ Moves(c, "fail_before")
    BY <1>2, GotoMoves DEF GrantBind, Attempts, BindingKept
  <2>2. att'.mode = "external_grant"
    BY <2>1 DEF BindingKept, ExecutorClaim
  <2>3. grant'.status # "absent" => grant'.input = att'.input
    BY <2>1 DEF ExecutorInv, BindingKept
  <2>4. ExecutorClaim(c)'
    BY <1>0, <2>1, MoveOne DEF ExecutorClaim, ExecutorPcs
  <2> QED BY <2>1, <2>2, <2>3, <2>4, StepExecutor
<1>3. CASE GrantAudit(c) \/ Authorize(c)
  <2>1. /\ SameBinding
        /\ \E label \in {"idle", "authorize", "fail_before"} : Moves(c, label)
    BY <1>3, GotoMoves, ReturnMoves
       DEF GrantAudit, Authorize, records, SameBinding, BindingKept
  <2> QED BY <1>0, <2>1, QuietExecutor
<1> QED BY <1>1, <1>2, <1>3 DEF GrantStep

LEMMA RunnerStepExecutor ==
  ASSUME TypeOK, OneEffectInv, OwnershipInv, ExecutorInv, NEW c \in Calls,
         ConsumeStep(c) \/ ReportStep(c)
  PROVE  ExecutorInv'
<1> PcTypes /\ LocTypes /\ att \in Attempts /\ grant \in Grants
  BY DEF TypeOK, RecordTypes
<1>0. SameBinding
  <2>1. CASE ConsumeStep(c)
    BY <2>1
       DEF ConsumeStep, ConsumeAttempt, ConsumeToolCall, ConsumeValidate,
           ConsumeDispatch, Attempts, Grants, records, SameBinding, BindingKept
  <2>2. CASE ReportStep(c)
    BY <2>2
       DEF ReportStep, ReportToolCall, ReportAttempt, ReportReceiptCheck,
           ReportTransition, ReportReplay, ReportReceipt, ReportWrite,
           ReportExpose, ReportRelease, Attempts, records, SameBinding,
           BindingKept
  <2> QED BY <2>1, <2>2
<1>1. ASSUME NEW label, label \notin ExecutorPcs, Moves(c, label)
      PROVE  ExecutorInv'
  BY <1>0, <1>1, QuietExecutor
<1>2. {"idle", "report_attempt", "report_outcome", "report_commit",
       "report_receipt", "report_write", "report_expose", "report_release"}
         \cap ExecutorPcs = {}
  BY DEF ExecutorPcs, LocalPath, ConsumePcs
<1>3. Return(c) => ExecutorInv'
  BY <1>1, <1>2, ReturnMoves
<1>4. CASE ConsumeStep(c)
  <2>1. ASSUME NEW label \in ConsumePcs, pc[c] \in ConsumePcs,
               Moves(c, label), loc'[c].input = loc[c].input,
               loc'[c].via = loc[c].via
        PROVE  ExecutorInv'
    BY <1>0, <2>1, GoOnExecuting
  <2>2. CASE ConsumeAttempt(c) \/ ConsumeValidate(c)
    BY <1>3, <2>1, <2>2, GotoMoves
       DEF ConsumeAttempt, ConsumeValidate, ConsumePcs
  <2>3. CASE ConsumeToolCall(c) /\ ~Return(c)
    <3>1. /\ pc[c] = "consume_tool" /\ Goto(c, "consume_validate")
          /\ loc' = [loc EXCEPT ![c].tc = tc]
      BY <2>3 DEF ConsumeToolCall
    <3>2. loc'[c].input = loc[c].input /\ loc'[c].via = loc[c].via
      BY <3>1 DEF LocTypes, Locals
    <3>3. Moves(c, "consume_validate")
      BY <3>1, GotoMoves DEF LocTypes
    <3> QED BY <2>1, <3>1, <3>2, <3>3 DEF ConsumePcs
  <2>4. CASE ConsumeDispatch(c)
    BY <1>3, <2>4 DEF ConsumeDispatch
  <2> QED BY <1>3, <1>4, <2>2, <2>3, <2>4 DEF ConsumeStep
<1>5. CASE ReportStep(c)
  BY <1>1, <1>2, <1>3, <1>5, GotoMoves
     DEF ReportStep, ReportToolCall, ReportAttempt, ReportReceiptCheck,
         ReportTransition, ReportReplay, ReportReceipt, ReportWrite,
         ReportExpose, ReportRelease, LocTypes
<1> QED BY <1>4, <1>5

(* A runner presents the input of the grant. *)
LEMMA OtherExecutor ==
  ASSUME TypeOK, OneEffectInv, OwnershipInv, ExecutorInv
  PROVE  /\ \A c \in Calls : Request(c) \/ Fault(c) => ExecutorInv'
         /\ Environment \/ UNCHANGED vars => ExecutorInv'
<1> PcTypes /\ LocTypes
  BY DEF TypeOK
<1>0. /\ {"idle", "submit_influence", "submit_create", "approve_load",
          "close_check", "report_tool", "fail_before"} \cap ExecutorPcs = {}
      /\ "consume_attempt" \in ConsumePcs /\ "consume_attempt" \notin LocalPath
  BY DEF ExecutorPcs, LocalPath, ConsumePcs
<1>1. ASSUME NEW c \in Calls, NEW label, label \notin ExecutorPcs,
             Goto(c, label), \A d \in Calls : d # c => loc'[d] = loc[d],
             UNCHANGED <<att, grant>>
      PROVE  ExecutorInv'
  BY <1>1, GotoMoves, QuietExecutor DEF SameBinding, BindingKept
<1>2. ASSUME NEW c \in Calls, NEW mode \in Modes, NEW scoped \in Scopes,
             SubmitEvaluate(c, mode, scoped)
      PROVE  ExecutorInv'
  BY <1>0, <1>1, <1>2 DEF SubmitEvaluate, LocTypes, records
<1>3. ASSUME NEW c \in Calls, NEW p \in Principals, NEW input \in Inputs,
             ApproveBegin(c, p, input)
      PROVE  ExecutorInv'
  BY <1>0, <1>1, <1>3 DEF ApproveBegin, LocTypes, records
<1>4. ASSUME NEW c \in Calls, NEW p \in Principals,
             NEW kind \in {"reject", "cancel", "read"}, CloseBegin(c, p, kind)
      PROVE  ExecutorInv'
  BY <1>0, <1>1, <1>4 DEF CloseBegin, LocTypes, records
<1>5. ASSUME NEW c \in Calls, NEW report \in Reports, ReportBegin(c, report)
      PROVE  ExecutorInv'
  BY <1>0, <1>1, <1>5 DEF ReportBegin, LocTypes, records
<1>6. ASSUME NEW c \in Calls, NEW input \in Inputs, ConsumeBegin(c, input)
      PROVE  ExecutorInv'
  <2>1. /\ grant.status = "issued" /\ input = grant.input
        /\ loc' = [loc EXCEPT ![c] = [NoLocals EXCEPT !.input = input]]
        /\ Goto(c, "consume_attempt") /\ UNCHANGED <<att, grant>>
    BY <1>6 DEF ConsumeBegin, records
  <2>2. Moves(c, "consume_attempt")
    BY <2>1, GotoMoves DEF LocTypes
  <2>3. loc'[c].input = input
    BY <2>1 DEF LocTypes, NoLocals
  <2>4. grant.input = att.input
    BY <2>1 DEF ExecutorInv
  <2>5. ExecutorClaim(c)'
    BY <1>0, <2>1, <2>2, <2>3, <2>4, MoveOne DEF ExecutorClaim
  <2> QED BY <2>1, <2>2, <2>5, KeepExecutor DEF SameBinding, BindingKept
<1>7. ASSUME NEW c \in Calls, Fault(c)
      PROVE  ExecutorInv'
  BY <1>0, <1>1, <1>7, ReturnGoes
     DEF Fault, Abort, SubmitInfluenceUnavailable, GrantUnavailable, Return,
         LocTypes, records
<1>8. ASSUME Environment \/ UNCHANGED vars
      PROVE  ExecutorInv'
  BY <1>8 DEF Environment, Tick, PolicyReload, ForeignExposure, records, vars,
     ExecutorInv, ExecutorClaim
<1> QED BY <1>2, <1>3, <1>4, <1>5, <1>6, <1>7, <1>8
        DEF Request, ApprovalRequest, RunnerRequest

LEMMA NextExecutor ==
  ASSUME TypeOK, OneEffectInv, OwnershipInv, ExecutorInv, [Next]_vars
  PROVE  ExecutorInv'
BY OtherExecutor, ApprovalStepExecutor, ReservationStepExecutor,
   LocalStepExecutor, GrantStepExecutor, RunnerStepExecutor
   DEF Next, Step, ExecutionStep

LEMMA InitExecutor == Init => ExecutorInv
BY DEF Init, GateInit, ExecutorInv, ExecutorClaim, LocalPath, ConsumePcs

------------------------------------------------------------------------------
(* Dispatch *)

LEMMA BindingStays ==
  ASSUME TypeOK, [Next]_vars
  PROVE  BindingKept \/ att.state = "absent"
<1> att \in Attempts
  BY DEF TypeOK, RecordTypes
<1>1. CASE UNCHANGED att
  BY <1>1 DEF BindingKept
<1>2. ASSUME NEW c \in Calls, ApprovalStep(c)
      PROVE  UNCHANGED att
  BY <1>2
     DEF ApprovalStep, SubmitStep, SubmitInfluence, SubmitCreate,
         SubmitReplay, SubmitBlock, SubmitPend, SubmitApproval, ApproveStep,
         ApproveLoad, ApproveCheck, ApproveRecord, ApproveFinalize,
         ApproveExpires, ApproveConflict, CloseStep, CloseCheck, CloseLoad,
         CloseCommit, CloseExpires, CloseConflict, RejectWrite, Expire,
         Terminalize, records, execution
<1>3. ASSUME NEW c \in Calls, ReservationStep(c)
      PROVE  BindingKept \/ att.state = "absent"
  BY <1>3
     DEF ReservationStep, CreateReceipt, Revalidate, Reserve,
         FailBeforeDispatch, FailToolCall, FailReceipt, CompleteAttempt,
         OwnsAttempt, records, BindingKept, Attempts
<1>4. ASSUME NEW c \in Calls, LocalStep(c) \/ GrantStep(c)
      PROVE  BindingKept
  BY <1>4
     DEF LocalStep, LocalPreflight, LocalBind, LocalDispatch, LocalInvoke,
         LocalRefused, LocalUnknown, LocalResult, LocalWrite, LocalReceipt,
         LocalExpose, LocalRelease, CompleteAttempt, OwnsAttempt, GrantStep,
         GrantCreate, GrantBind, GrantAudit, Authorize, records, BindingKept,
         Attempts
<1>5. ASSUME NEW c \in Calls, ConsumeStep(c) \/ ReportStep(c)
      PROVE  BindingKept
  BY <1>5
     DEF ConsumeStep, ConsumeAttempt, ConsumeToolCall, ConsumeValidate,
         ConsumeDispatch, ReportStep, ReportToolCall, ReportAttempt,
         ReportReceiptCheck, ReportTransition, ReportReplay, ReportReceipt,
         ReportWrite, ReportExpose, ReportRelease, records, BindingKept,
         Attempts
<1> QED BY <1>1, <1>2, <1>3, <1>4, <1>5, OtherWritesNothing
        DEF Next, Step, ExecutionStep, records

(* The last look at the policy finds what the submission decided. *)
LEMMA LastLookPermits ==
  ASSUME NEW t, SameEvidence(t, tc), PolicyStillPermits(t, att.input)
  PROVE  StillPermitted
BY DEF SameEvidence, PolicyStillPermits, InfluenceCurrent, OriginalRule,
   StillPermitted

(* It holds on: neither evidence nor binding change. *)
LEMMA PermissionStays ==
  ASSUME EvidenceKept, BindingKept, tc.status # "absent", StillPermitted
  PROVE  StillPermitted'
BY DEF EvidenceKept, SameEvidence, BindingKept, OriginalRule, StillPermitted

DispatchPcs == {"local_dispatch", "consume_dispatch"}

(* Nobody dispatches without a last look. *)
Looks(c) ==
  /\ \/ pc[c] = "local_bind" /\ BindingHolds(c, "reserved")
     \/ pc[c] = "consume_validate" /\ PolicyStillPermits(loc[c].tc, loc[c].input)
  /\ UNCHANGED records

LEMMA DispatchersLooked ==
  ASSUME PcTypes, [Next]_vars, NEW d \in Calls, pc'[d] \in DispatchPcs
  PROVE  pc[d] \in DispatchPcs \/ Looks(d)
<1>1. ASSUME NEW c \in Calls, NEW label \in Pcs \ DispatchPcs, Goto(c, label)
      PROVE  pc[d] \in DispatchPcs
  BY <1>1 DEF Goto, PcTypes
<1>2. ASSUME NEW c \in Calls, Return(c)
      PROVE  pc[d] \in DispatchPcs
  BY <1>1, <1>2, ReturnGoes DEF DispatchPcs, Pcs
<1>3. ASSUME NEW c \in Calls, ApprovalStep(c)
      PROVE  pc[d] \in DispatchPcs
  BY <1>1, <1>2, <1>3
     DEF ApprovalStep, SubmitStep, SubmitInfluence, SubmitCreate,
         SubmitReplay, SubmitBlock, SubmitPend, SubmitApproval, ApproveStep,
         ApproveLoad, ApproveCheck, ApproveRecord, ApproveFinalize,
         ApproveExpires, ApproveConflict, CloseStep, CloseCheck, CloseLoad,
         CloseCommit, CloseExpires, CloseConflict, RejectWrite, Expire,
         Terminalize, DispatchPcs, Pcs
<1>4. ASSUME NEW c \in Calls, ReservationStep(c) \/ GrantStep(c)
      PROVE  pc[d] \in DispatchPcs
  BY <1>1, <1>2, <1>4
     DEF ReservationStep, CreateReceipt, Revalidate, Reserve,
         FailBeforeDispatch, FailToolCall, FailReceipt, CompleteAttempt,
         GrantStep, GrantCreate, GrantBind, GrantAudit, Authorize,
         DispatchPcs, Pcs
<1>5. ASSUME NEW c \in Calls, LocalBind(c)
      PROVE  pc[d] \in DispatchPcs \/ Looks(d)
  <2>1. CASE BindingHolds(c, "reserved")
    BY <1>5, <2>1 DEF LocalBind, Looks, Goto, PcTypes
  <2>2. CASE ~BindingHolds(c, "reserved")
    BY <1>1, <1>5, <2>2 DEF LocalBind, DispatchPcs, Pcs
  <2> QED BY <2>1, <2>2
<1>6. ASSUME NEW c \in Calls, LocalStep(c), ~LocalBind(c)
      PROVE  pc[d] \in DispatchPcs
  BY <1>1, <1>2, <1>6
     DEF LocalStep, LocalPreflight, LocalDispatch, LocalInvoke, LocalRefused,
         LocalUnknown, LocalResult, LocalWrite, LocalReceipt, LocalExpose,
         LocalRelease, CompleteAttempt, DispatchPcs, Pcs
<1>7. ASSUME NEW c \in Calls, ConsumeStep(c)
      PROVE  pc[d] \in DispatchPcs \/ Looks(d)
  <2>1. CASE ConsumeValidate(c) /\ ~Return(c)
    BY <2>1 DEF ConsumeValidate, Looks, Goto, PcTypes
  <2>2. CASE ConsumeAttempt(c) \/ ConsumeToolCall(c) \/ ConsumeDispatch(c)
    BY <1>1, <1>2, <2>2
       DEF ConsumeAttempt, ConsumeToolCall, ConsumeDispatch, DispatchPcs, Pcs
  <2> QED BY <1>2, <1>7, <2>1, <2>2 DEF ConsumeStep
<1>8. ASSUME NEW c \in Calls, ReportStep(c)
      PROVE  pc[d] \in DispatchPcs
  BY <1>1, <1>2, <1>8
     DEF ReportStep, ReportToolCall, ReportAttempt, ReportReceiptCheck,
         ReportTransition, ReportReplay, ReportReceipt, ReportWrite,
         ReportExpose, ReportRelease, DispatchPcs, Pcs
<1>9. ASSUME NEW c \in Calls, Request(c) \/ Fault(c)
      PROVE  pc[d] \in DispatchPcs
  BY <1>1, <1>2, <1>9, RequestStarts
     DEF Fault, Abort, SubmitInfluenceUnavailable, GrantUnavailable, FirstPcs,
         DispatchPcs, Pcs
<1>10. Environment \/ UNCHANGED vars => pc' = pc
  BY DEF Environment, Tick, PolicyReload, ForeignExposure, vars
<1> QED BY <1>3, <1>4, <1>5, <1>6, <1>7, <1>8, <1>9, <1>10
        DEF Next, Step, ExecutionStep

LEMMA NextDispatch ==
  ASSUME GateInv, GateInv', DispatchInv, [Next]_vars
  PROVE  DispatchInv'
<1>0. /\ TypeOK /\ OneEffectInv /\ RefusalInv /\ OwnershipInv /\ EvidenceInv
      /\ TypeOK' /\ PcTypes /\ FreshInv /\ ExecutorInv
  BY DEF GateInv, TypeOK, DispatchInv
<1>1. EvidenceKept /\ (tc.status # "absent" => tc'.status # "absent")
  BY <1>0, NextEvidence, StoredStays
<1>2. FreshInv' /\ ExecutorInv'
  BY <1>0, <1>1, NextFresh, NextExecutor
<1>3. ASSUME NEW d \in Calls, pc'[d] \in DispatchPcs
      PROVE  StillPermitted'
  <2>1. pc[d] \in ExecutorPcs /\ tc.status # "absent" /\ BindingKept
    <3>1. pc[d] \in {"local_bind", "consume_validate"} \cup DispatchPcs
      BY <1>0, <1>3, DispatchersLooked DEF Looks
    <3>2. pc[d] \in ExecutorPcs
      BY <3>1 DEF ExecutorPcs, LocalPath, ConsumePcs, DispatchPcs
    <3> QED BY <1>0, <3>2, ExecutorsAreReserved, BindingStays DEF RefusalInv
  <2>2. ExecutorClaim(d)
    BY <1>0 DEF ExecutorInv
  <2>3. StillPermitted
    <3>1. CASE pc[d] \in DispatchPcs
      BY <3>1 DEF DispatchInv, DispatchPcs
    <3>2. CASE pc[d] = "local_bind" /\ BindingHolds(d, "reserved")
      <4>1. PolicyStillPermits(tc, att.input)
        BY <2>2, <3>2 DEF ExecutorClaim, LocalPath, BindingHolds
      <4> QED BY <4>1, LastLookPermits DEF SameEvidence
    <3>3. CASE /\ pc[d] = "consume_validate"
               /\ PolicyStillPermits(loc[d].tc, loc[d].input)
      <4>1. SameEvidence(loc[d].tc, tc)
        BY <1>0, <3>3 DEF EvidenceInv, HolderPcs
      <4>2. loc[d].input = att.input
        BY <2>2, <3>3 DEF ExecutorClaim, ConsumePcs
      <4> QED BY <3>3, <4>1, <4>2, LastLookPermits
    <3> QED BY <1>0, <1>3, <3>1, <3>2, <3>3, DispatchersLooked DEF Looks
  <2> QED BY <1>1, <2>1, <2>3, PermissionStays
<1> QED BY <1>2, <1>3 DEF DispatchInv, DispatchPcs

LEMMA InitDispatch == Init => DispatchInv
BY InitFresh, InitExecutor DEF Init, GateInit, DispatchInv

(* What is dispatched was permitted by the last look at the policy, on
   evidence the revision of the scope still vouches for. *)
THEOREM DispatchIsPermitted == Spec => []DispatchInv
<1>1. GateInv /\ GateInv' /\ DispatchInv /\ [Next]_vars => DispatchInv'
  BY NextDispatch
<1> QED BY <1>1, InitDispatch, GateHolds, PTL DEF Spec

(* An attempt is dispatched past the guard on the revision of its evidence. *)
LEMMA DispatchIsGuarded ==
  ASSUME TypeOK, [Next]_vars, DispatchStep
  PROVE  /\ UNCHANGED <<tc, scope>>
         /\ \E c \in Calls :
              /\ pc[c] \in DispatchPcs /\ ExposureGuard(loc[c].tc)
<1> att \in Attempts
  BY DEF TypeOK, RecordTypes
<1>1. att' # att /\ att.state = "reserved" /\ att'.state = "dispatched"
  BY DEF DispatchStep
<1>2. PICK c \in Calls : ApprovalStep(c) \/ ExecutionStep(c)
  BY <1>1, OtherWritesNothing DEF Next, Step, records
<1>3. ~ApprovalStep(c)
  BY <1>1
     DEF ApprovalStep, SubmitStep, SubmitInfluence, SubmitCreate,
         SubmitReplay, SubmitBlock, SubmitPend, SubmitApproval, ApproveStep,
         ApproveLoad, ApproveCheck, ApproveRecord, ApproveFinalize,
         ApproveExpires, ApproveConflict, CloseStep, CloseCheck, CloseLoad,
         CloseCommit, CloseExpires, CloseConflict, RejectWrite, Expire,
         Terminalize, records, execution
<1>4. ~ReservationStep(c)
  BY <1>1
     DEF ReservationStep, CreateReceipt, Revalidate, Reserve,
         FailBeforeDispatch, FailToolCall, FailReceipt, CompleteAttempt,
         OwnsAttempt, records, Attempts
<1>5. LocalStep(c) \/ GrantStep(c) => LocalDispatch(c)
  BY <1>1
     DEF LocalStep, LocalPreflight, LocalBind, LocalInvoke, LocalRefused,
         LocalUnknown, LocalResult, LocalWrite, LocalReceipt, LocalExpose,
         LocalRelease, CompleteAttempt, OwnsAttempt, GrantStep, GrantCreate,
         GrantBind, GrantAudit, Authorize, records, Attempts
<1>6. ConsumeStep(c) \/ ReportStep(c) => ConsumeDispatch(c)
  BY <1>1
     DEF ConsumeStep, ConsumeAttempt, ConsumeToolCall, ConsumeValidate,
         ReportStep, ReportToolCall, ReportAttempt, ReportReceiptCheck,
         ReportTransition, ReportReplay, ReportReceipt, ReportWrite,
         ReportExpose, ReportRelease, records
<1>7. LocalDispatch(c) \/ ConsumeDispatch(c)
  BY <1>2, <1>3, <1>4, <1>5, <1>6 DEF ExecutionStep
<1>8. CASE LocalDispatch(c)
  BY <1>1, <1>8 DEF LocalDispatch, OwnsAttempt, DispatchPcs
<1>9. CASE ConsumeDispatch(c)
  BY <1>1, <1>9 DEF ConsumeDispatch, DispatchPcs
<1> QED BY <1>7, <1>8, <1>9

(* Whatever the scope was exposed to up to the very step of dispatch, an
   evaluation made at that step would still permit the action. *)
THEOREM DispatchedOnFreshEvidence == Spec => DispatchOnFreshEvidence
<1> DEFINE rule == PolicyRule[tc.policy][att.input]
           decision == EffectiveDecision(rule, ObservedSources(tc.scoped))
<1>1. ASSUME TypeOK, RefusalInv, EvidenceInv, AuthorityInv, DispatchInv,
             [Next]_vars, DispatchStep
      PROVE  IF att.viaApproval THEN decision # "deny" ELSE decision = "allow"
  <2>1. PICK c \in Calls : pc[c] \in DispatchPcs /\ ExposureGuard(loc[c].tc)
    BY <1>1, DispatchIsGuarded
  <2>2. pc[c] \in HolderPcs
    BY <2>1
       DEF DispatchPcs, HolderPcs, OwnerPcs, UntoldPcs, ReservedPcs
  <2>3. ExposureGuard(tc)
    BY <1>1, <2>1, <2>2
       DEF EvidenceInv, SameEvidence, ExposureGuard, OriginalRule
  <2>4. att.state # "absent" /\ tc.status # "absent"
    BY <1>1 DEF DispatchStep, RefusalInv
  <2>5. StillPermitted /\ FreshEvidence(tc) /\ tc.scoped \in BOOLEAN
    BY <1>1, <2>1, <2>4
       DEF DispatchInv, FreshInv, DispatchPcs, TypeOK, RecordTypes, ToolCalls
  <2>6. rule.guarded => ObservedSources(tc.scoped) = tc.seen
    BY <2>3, <2>5 DEF StillPermitted, FreshEvidence, ExposureGuard
  <2>7. decision = EffectiveDecision(rule, tc.seen)
    BY <2>6 DEF EffectiveDecision
  <2>8. ~att.viaApproval => tc.decision = "allow"
    BY <1>1, <2>4 DEF AuthorityInv, Granted
  <2> QED BY <2>5, <2>7, <2>8 DEF StillPermitted
<1> HIDE DEF decision, rule
<1>2. TypeOK /\ RefusalInv /\ EvidenceInv /\ AuthorityInv /\ DispatchInv
        /\ [Next]_vars
      => [DispatchStep =>
            IF att.viaApproval THEN decision # "deny"
                               ELSE decision = "allow"]_vars
  BY <1>1
<1> USE DEF decision, rule
<1> QED BY <1>2, TypeCorrect, CarriedByOne, EvidenceStays, AuthorityIsCarried,
           DispatchIsPermitted, PTL DEF Spec, DispatchOnFreshEvidence

(* The provider is reached by the call that holds the binding, or through a
   runner. *)
LEMMA EffectIsBound ==
  ASSUME TypeOK, [Next]_vars, effects' # effects
  PROVE  /\ att'.mode = att.mode
         /\ \/ att.bound
            \/ \E c \in Calls :
                 pc[c] = "local_recheck" /\ BindingHolds(c, "dispatched")
<1> att \in Attempts
  BY DEF TypeOK, RecordTypes
<1>1. UNCHANGED effects \/ \E c \in Calls : ExecutionStep(c)
  <2>1. ASSUME NEW c \in Calls, ApprovalStep(c)
        PROVE  UNCHANGED effects
    BY <2>1
       DEF ApprovalStep, SubmitStep, SubmitInfluence, SubmitCreate,
           SubmitReplay, SubmitBlock, SubmitPend, SubmitApproval, ApproveStep,
           ApproveLoad, ApproveCheck, ApproveRecord, ApproveFinalize,
           ApproveExpires, ApproveConflict, CloseStep, CloseCheck, CloseLoad,
           CloseCommit, CloseExpires, CloseConflict, RejectWrite, Expire,
           Terminalize, records, execution
  <2>2. ASSUME NEW c \in Calls, Request(c) \/ Fault(c)
        PROVE  UNCHANGED effects
    BY <2>2, RequestStarts
       DEF Fault, Abort, SubmitInfluenceUnavailable, GrantUnavailable
  <2>3. Environment \/ UNCHANGED vars => UNCHANGED effects
    BY DEF Environment, Tick, PolicyReload, ForeignExposure, vars
  <2> QED BY <2>1, <2>2, <2>3 DEF Next, Step
<1>2. PICK c \in Calls : ExecutionStep(c)
  BY <1>1
<1>3. ~(ReservationStep(c) \/ GrantStep(c) \/ ReportStep(c))
  BY DEF ReservationStep, CreateReceipt, Revalidate, Reserve,
     FailBeforeDispatch, FailToolCall, FailReceipt, GrantStep, GrantCreate,
     GrantBind, GrantAudit, Authorize, ReportStep, ReportToolCall,
     ReportAttempt, ReportReceiptCheck, ReportTransition, ReportReplay,
     ReportReceipt, ReportWrite, ReportExpose, ReportRelease
<1>4. LocalStep(c) => LocalInvoke(c)
  BY DEF LocalStep, LocalPreflight, LocalBind, LocalDispatch, LocalRefused,
     LocalUnknown, LocalResult, LocalWrite, LocalReceipt, LocalExpose,
     LocalRelease
<1>5. ConsumeStep(c) => ConsumeDispatch(c)
  BY DEF ConsumeStep, ConsumeAttempt, ConsumeToolCall, ConsumeValidate
<1>6. LocalInvoke(c) \/ ConsumeDispatch(c)
  BY <1>2, <1>3, <1>4, <1>5 DEF ExecutionStep
<1>7. CASE LocalInvoke(c)
  BY <1>7 DEF LocalInvoke, records
<1>8. CASE ConsumeDispatch(c)
  BY <1>8 DEF ConsumeDispatch, Attempts
<1> QED BY <1>6, <1>7, <1>8

(* A local tool is called only under the policy the action was decided by and
   before its approval expires, whatever happened since the dispatch. *)
THEOREM InvokedUnderAuthority == Spec => InvokedUnderCurrentAuthority
<1>1. ASSUME TypeOK, DispatchInv, [Next]_vars,
             effects' # effects, att'.mode = "local_mock"
      PROVE  /\ policy = tc.policy
             /\ att.viaApproval => ap.status = "approved" /\ ~ApprovalExpired
  <2>1. att.mode = "local_mock" /\ ~att.bound
    BY <1>1, EffectIsBound DEF DispatchInv, ExecutorInv
  <2>2. PICK c \in Calls :
          pc[c] = "local_recheck" /\ BindingHolds(c, "dispatched")
    BY <1>1, <2>1, EffectIsBound
  <2>3. loc[c].via = att.viaApproval
    BY <1>1, <2>2 DEF DispatchInv, ExecutorInv, ExecutorClaim, LocalPath
  <2> QED BY <2>2, <2>3
          DEF BindingHolds, ApprovalStillHolds, PolicyStillPermits
<1>2. TypeOK /\ DispatchInv /\ [Next]_vars
      => [effects' # effects /\ att'.mode = "local_mock" =>
            /\ policy = tc.policy
            /\ att.viaApproval =>
                 ap.status = "approved" /\ ~ApprovalExpired]_vars
  BY <1>1
<1> QED BY <1>2, TypeCorrect, DispatchIsPermitted, PTL
        DEF Spec, InvokedUnderCurrentAuthority

------------------------------------------------------------------------------
(* Nothing is forgotten *)

(* Where a call goes, and that it takes nobody else along. *)
LEMMA Arrivals ==
  ASSUME PcTypes, NEW c \in Calls
  PROVE  /\ \A label : Goto(c, label) => pc'[c] = label
         /\ Return(c) => pc'[c] = "idle"
BY DEF Goto, Return, PcTypes

(* A record is behind after the step of a call only if that call carries it
   on, or if it was behind before and somebody else carries it. *)
StepCarries(c) ==
  /\ Untold' => \/ Lapsed' \/ (pc[c] \in UntoldPcs)'
                \/ Untold /\ (Lapsed => Lapsed') /\ pc[c] \notin UntoldPcs
  /\ Unrefused' => (pc[c] \in ClosedPcs)' \/ (Unrefused /\ pc[c] \notin ClosedPcs)
  /\ Unreported' => WillTell(c)' \/ (Unreported /\ ~WillTell(c))
  /\ Unrecorded' =>
       (pc[c] \in RecordingPcs)' \/ (Unrecorded /\ pc[c] \notin RecordingPcs)
  /\ Unshown' =>
       (pc[c] \in ReleasingPcs)' \/ (Unshown /\ pc[c] \notin ReleasingPcs)

LEMMA CarriedOn ==
  ASSUME PcTypes, CarriedInv, NEW c \in Calls, NEW label, Moves(c, label),
         StepCarries(c)
  PROVE  CarriedInv'
<1> \A d \in Calls : d # c => pc'[d] = pc[d] /\ loc'[d] = loc[d]
  BY MoveOne
<1>1. Untold' => Lapsed' \/ \E d \in Calls : (pc[d] \in UntoldPcs)'
  <2>1. CASE Untold /\ (Lapsed => Lapsed') /\ pc[c] \notin UntoldPcs
    BY <2>1 DEF CarriedInv
  <2> QED BY <2>1 DEF StepCarries
<1>2. Unrefused' => \E d \in Calls : (pc[d] \in ClosedPcs)'
  BY DEF CarriedInv, StepCarries
<1>3. Unreported' => \E d \in Calls : WillTell(d)'
  BY DEF CarriedInv, StepCarries, WillTell
<1>4. Unrecorded' => \E d \in Calls : (pc[d] \in RecordingPcs)'
  BY DEF CarriedInv, StepCarries
<1>5. Unshown' => \E d \in Calls : (pc[d] \in ReleasingPcs)'
  BY DEF CarriedInv, StepCarries
<1> QED BY <1>1, <1>2, <1>3, <1>4, <1>5 DEF CarriedInv

(* What a call that acts may rely on. *)
LEMMA ActorFacts ==
  ASSUME GateInv, NEW c \in Calls
  PROVE  /\ loc[c].tc \in ToolCalls /\ loc[c].report \in Reports
         /\ tc \in ToolCalls /\ ap \in Approvals /\ att \in Attempts
         /\ receipt \in Receipts /\ grant \in Grants
         /\ OwnerClaim(c) /\ VisitorClaim(c)
         /\ Story /\ ToolCallTruth /\ OutcomeAgreement
         /\ PcTypes /\ LocTypes
BY SnapshotType DEF GateInv, TypeOK, RecordTypes, OwnershipInv

(* The submission. *)
LEMMA SubmitCarries ==
  ASSUME GateInv, NEW c \in Calls, SubmitStep(c)
  PROVE  StepCarries(c)
<1> USE ActorFacts, Arrivals
<1>0. UNCHANGED <<att, receipt, now>>
  BY DEF SubmitStep, SubmitInfluence, SubmitCreate, SubmitReplay, SubmitBlock,
     SubmitPend, SubmitApproval, records, execution, env
<1>1. CASE SubmitInfluence(c) \/ SubmitReplay(c)
  <2>1. /\ UNCHANGED <<tc, ap>>
        /\ pc[c] \in {"submit_influence", "submit_create"}
    BY <1>1 DEF SubmitInfluence, SubmitReplay, records
  <2> QED BY <1>0, <2>1
          DEF StepCarries, Untold, Lapsed, ApprovalExpired, Unrefused,
              Unreported, WillTell, Unrecorded, Unshown, ExposureRequired, Classified,
              OriginalRule, UntoldPcs, CarryingPcs, ReservedPcs,
              DispatchedPcs, ClosedPcs, RecordingPcs, ReleasingPcs, ToldPcs
<1>2. CASE SubmitCreate(c)
  <2>1. /\ tc'.status = "submitted" /\ ap' = ap /\ ap.status = "absent"
        /\ att.state = "absent"
    BY <1>2, AbsentIsUnowned
       DEF SubmitCreate, VisitorClaim, GateInv
  <2>2. pc'[c] \in CarryingPcs
    BY <1>2 DEF SubmitCreate, CarryingPcs
  <2> QED BY <1>0, <2>1, <2>2
          DEF StepCarries, UntoldPcs, Unrefused, Refused, Unreported,
              Unrecorded, Unshown, TerminalStates, ReportStates
<1>3. CASE SubmitBlock(c) \/ SubmitPend(c) \/ SubmitApproval(c)
  <2>1. /\ pc[c] \in {"submit_block", "submit_pend", "submit_approval"}
        /\ pc[c] = "submit_approval" => tc.status = "pending_approval"
        /\ att.state = "absent" /\ ap.status = "absent"
    BY <1>3
       DEF SubmitBlock, SubmitPend, SubmitApproval, OwnerClaim, CarryingPcs,
           GateInv, RefusalInv, Carrying
  <2>2. \/ tc'.status = "blocked" /\ ap' = ap
        \/ /\ tc'.status = "pending_approval" /\ ap' = ap
           /\ pc'[c] = "submit_approval"
        \/ tc' = tc /\ ap'.status = "pending" /\ tc.status = "pending_approval"
    BY <1>3, <2>1 DEF SubmitBlock, SubmitPend, SubmitApproval, ToolCalls
  <2> QED BY <1>0, <2>1, <2>2
          DEF StepCarries, Untold, UntoldPcs, CarryingPcs, Unrefused, Refused,
              Unreported, Unrecorded, Unshown, TerminalStates, ReportStates
<1> QED BY <1>1, <1>2, <1>3 DEF SubmitStep

(* A call that writes nothing keeps what it carries, if it carries anything. *)
LEMMA QuietCarries ==
  ASSUME NEW c \in Calls, UNCHANGED <<tc, ap, att, receipt, now>>,
         pc[c] \in UntoldPcs => pc'[c] \in UntoldPcs,
         pc[c] \notin ClosedPcs,
         WillTell(c) => WillTell(c)',
         pc[c] \in RecordingPcs => pc'[c] \in RecordingPcs,
         pc[c] \in ReleasingPcs => pc'[c] \in ReleasingPcs
  PROVE  StepCarries(c)
BY DEF StepCarries, Untold, Lapsed, ApprovalExpired, Unrefused, Unreported,
   Unrecorded, Unshown, ExposureRequired, Classified, OriginalRule

(* Whoever is at none of these awaits carries nothing. *)
BusyPcs == UntoldPcs \cup ClosedPcs \cup RecordingPcs \cup ReleasingPcs
             \cup {"report_write"}

LEMMA IdleCarries ==
  ASSUME NEW c \in Calls, UNCHANGED <<tc, ap, att, receipt, now>>,
         pc[c] \notin BusyPcs
  PROVE  StepCarries(c)
<1>1. ~WillTell(c)
  BY DEF BusyPcs, RecordingPcs, WillTell
<1> QED BY <1>1, QuietCarries DEF BusyPcs

(* The decisions. *)
LEMMA DecisionCarries ==
  ASSUME GateInv, NEW c \in Calls, LookedClaim(c), ApproveStep(c) \/ CloseStep(c)
  PROVE  StepCarries(c)
<1> USE ActorFacts, Arrivals
<1>0. UNCHANGED <<att, receipt, now>>
  BY DEF ApproveStep, ApproveLoad, ApproveCheck, ApproveRecord,
     ApproveFinalize, ApproveExpires, ApproveConflict, CloseStep, CloseCheck,
     CloseLoad, CloseCommit, CloseExpires, CloseConflict, RejectWrite, Expire,
     Terminalize, records, execution, env
<1>1. CASE \/ ApproveLoad(c) \/ ApproveCheck(c) \/ ApproveConflict(c)
           \/ CloseCheck(c) \/ CloseLoad(c) \/ CloseConflict(c)
  <2>1. UNCHANGED <<tc, ap>> /\ pc[c] \in DecidingPcs
    BY <1>1
       DEF ApproveLoad, ApproveCheck, ApproveConflict, CloseCheck, CloseLoad,
           CloseConflict, records, DecidingPcs
  <2>2. pc[c] \notin BusyPcs
    BY <2>1
       DEF DecidingPcs, BusyPcs, UntoldPcs, CarryingPcs, ReservedPcs,
           DispatchedPcs, ClosedPcs, RecordingPcs, ReleasingPcs, ToldPcs
  <2> QED BY <1>0, <2>1, <2>2, IdleCarries
<1>2. CASE ApproveRecord(c) \/ ApproveFinalize(c)
  <2>1. /\ tc' = tc /\ ap.status = "pending"
        /\ \/ ap'.status = "pending"
           \/ ap'.status = "approved" /\ pc'[c] = "receipt"
    BY <1>2
       DEF ApproveRecord, ApproveFinalize, VoteIsAdmissible,
           VoteReachesExpiry, Approvals
  <2>2. att.state = "absent" /\ tc.status = "pending_approval"
    BY <2>1 DEF GateInv, RefusalInv, Story
  <2> QED BY <1>0, <2>1, <2>2
          DEF StepCarries, Untold, UntoldPcs, CarryingPcs, Unrefused, Refused,
              Unreported, Unrecorded, Unshown, TerminalStates, ReportStates
<1>3. CASE \/ ApproveExpires(c) \/ CloseCommit(c) \/ CloseExpires(c)
           \/ Expire(c) /\ ap' # ap
  <2>1. /\ tc' = tc /\ ap.status = "pending" /\ ap'.status \in Refused
        /\ pc'[c] \in ClosedPcs
    BY <1>3
       DEF ApproveExpires, VoteReachesExpiry, CloseCommit, CloseExpires,
           CloseAuthorized, Expire, Approvals, Refused, ClosedPcs
  <2>2. att.state = "absent" /\ tc.status = "pending_approval"
    BY <2>1 DEF GateInv, RefusalInv, Story
  <2> QED BY <1>0, <2>1, <2>2
          DEF StepCarries, Untold, Refused, Unreported, Unrecorded, Unshown,
              TerminalStates, ReportStates
<1>4. CASE Expire(c) /\ ap' = ap
  <2>1. tc' = tc /\ pc[c] = "expire"
    BY <1>4 DEF Expire
  <2>2. pc[c] \notin BusyPcs
    BY <2>1
       DEF BusyPcs, UntoldPcs, CarryingPcs, ReservedPcs, DispatchedPcs,
           ClosedPcs, RecordingPcs, ReleasingPcs, ToldPcs
  <2> QED BY <1>0, <1>4, <2>1, <2>2, IdleCarries
<1>5. CASE RejectWrite(c) \/ Terminalize(c)
  <2>1. /\ tc'.status = "rejected" /\ ap' = ap /\ pc[c] \in ClosedPcs
    BY <1>5
       DEF RejectWrite, Terminalize, LookedClaim, ToolCalls, ClosedPcs
  <2>2. att.state = "absent"
    BY <2>1 DEF VisitorClaim, GateInv, RefusalInv
  <2> QED BY <1>0, <2>1, <2>2
          DEF StepCarries, Untold, Unrefused, Unreported, Unrecorded, Unshown,
              TerminalStates, ReportStates
<1> QED BY <1>1, <1>2, <1>3, <1>4, <1>5 DEF ApproveStep, CloseStep

(* The owner, up to its reservation. *)
LEMMA ReservationCarries ==
  ASSUME GateInv, NEW c \in Calls, ReservationStep(c)
  PROVE  StepCarries(c)
<1> USE ActorFacts, Arrivals
<1> USE DEF UntoldPcs, CarryingPcs, ReservedPcs, DispatchedPcs
<1>0. UNCHANGED <<ap, now>>
  BY DEF ReservationStep, CreateReceipt, Revalidate, Reserve,
     FailBeforeDispatch, FailToolCall, FailReceipt, records, env
<1>1. CASE CreateReceipt(c) \/ Revalidate(c)
  <2>1. /\ UNCHANGED <<tc, att>> /\ receipt'.outcome = receipt.outcome
        /\ pc[c] \in {"receipt", "revalidate"} /\ pc'[c] \in UntoldPcs
    BY <1>1 DEF CreateReceipt, Revalidate, records, Receipts
  <2> QED BY <1>0, <2>1
          DEF StepCarries, Unrefused, ClosedPcs, Unreported, WillTell,
              Unrecorded, RecordingPcs, Unshown, ExposureRequired, Classified,
              OriginalRule, ReleasingPcs, ToldPcs
<1>2. CASE Reserve(c)
  <2>1. /\ UNCHANGED <<tc, receipt>> /\ pc[c] = "reserve"
        /\ att.state = "absent"
        /\ tc.status \in {"submitted", "pending_approval"}
        /\ SameEvidence(loc[c].tc, tc)
        /\ Granted(loc[c].via, loc[c].input)
        /\ loc[c].via <=> ap.status = "approved"
    BY <1>2
       DEF Reserve, OwnerClaim, GateInv, EvidenceInv, HolderPcs, OwnerPcs,
           AuthorityInv, CallAuthority, RefusalInv, Carrying
  <2>2. CASE ReservationBinds(c)
    <3>1. att'.state = "reserved" /\ pc'[c] \in UntoldPcs
      BY <1>2, <2>1, <2>2 DEF Reserve, Attempts
    <3> QED BY <1>0, <2>1, <3>1
            DEF StepCarries, Unrefused, ClosedPcs, Unreported, Unrecorded,
                Unshown, TerminalStates, ReportStates
  <2>3. CASE ~ReservationBinds(c)
    <3>1. att' = att
      BY <1>2, <2>3 DEF Reserve
    <3>2. Lapsed'
      BY <1>0, <2>1, <2>3, <3>1
         DEF ReservationBinds, SameEvidence, Granted, Lapsed, ApprovalExpired
    <3> QED BY <1>0, <2>1, <3>1, <3>2
            DEF StepCarries, Unrefused, ClosedPcs, Unreported, Unrecorded,
                Unshown, TerminalStates, ReportStates
  <2> QED BY <2>2, <2>3
<1>3. CASE FailBeforeDispatch(c)
  <2>1. /\ UNCHANGED <<tc, receipt>> /\ pc[c] = "fail_before"
        /\ att'.state = "failed_before_dispatch" /\ pc'[c] = "fail"
        /\ tc.status \in {"submitted", "pending_approval"}
    BY <1>3
       DEF FailBeforeDispatch, CompleteAttempt, OwnsAttempt, OwnerClaim,
           Attempts
  <2> QED BY <1>0, <2>1
          DEF StepCarries, Unrefused, ClosedPcs, Unreported, Unrecorded,
              RecordingPcs, Unshown
<1>4. CASE FailToolCall(c)
  <2>1. /\ UNCHANGED <<att, receipt>> /\ tc'.status = "failed"
        /\ pc'[c] = "fail_receipt" /\ ap.status \notin Refused
        /\ att.state \notin {"succeeded", "failed_after_dispatch"}
    BY <1>4 DEF FailToolCall, OwnerClaim, Owns, OwnerPcs, ToolCalls, Refused
  <2> QED BY <1>0, <2>1
          DEF StepCarries, Untold, Unrefused, Unreported, Unrecorded,
              RecordingPcs, Unshown
<1>5. CASE FailReceipt(c)
  <2>1. /\ UNCHANGED <<tc, att>> /\ receipt'.outcome = "failed"
        /\ tc.status = "failed" /\ pc[c] = "fail_receipt"
    BY <1>5 DEF FailReceipt, OwnerClaim, Receipts
  <2> QED BY <1>0, <2>1
          DEF StepCarries, Untold, Unrefused, ClosedPcs, Unreported,
              Unrecorded, Unshown, ExposureRequired, Classified, OriginalRule,
              ReleasingPcs, ToldPcs
<1> QED BY <1>1, <1>2, <1>3, <1>4, <1>5 DEF ReservationStep

(* The owner, from its reservation to its last word. *)
LEMMA LocalCarries ==
  ASSUME GateInv, NEW c \in Calls, LocalStep(c)
  PROVE  StepCarries(c)
<1> USE ActorFacts, Arrivals
<1> USE DEF UntoldPcs, CarryingPcs, ReservedPcs, DispatchedPcs
<1>0. UNCHANGED <<ap, now>>
  BY DEF LocalStep, LocalPreflight, LocalBind, LocalDispatch, LocalInvoke,
     LocalRefused, LocalUnknown, LocalResult, LocalWrite, LocalReceipt,
     LocalExpose, LocalRelease, records, env
<1>1. CASE \/ LocalPreflight(c) \/ LocalBind(c) \/ LocalInvoke(c)
           \/ LocalRefused(c)
  <2>1. /\ UNCHANGED <<tc, att, receipt>> /\ pc'[c] \in UntoldPcs
        /\ pc[c] \in {"local_preflight", "local_bind", "local_recheck"}
    BY <1>1
       DEF LocalPreflight, LocalBind, LocalInvoke, LocalRefused, records
  <2> QED BY <1>0, <2>1, QuietCarries
          DEF ClosedPcs, WillTell, RecordingPcs, ReleasingPcs, ToldPcs
<1>2. CASE LocalDispatch(c)
  <2>1. /\ UNCHANGED <<tc, receipt>> /\ pc[c] = "local_dispatch"
        /\ pc'[c] \in UntoldPcs
        /\ att'.state \in {"reserved", "dispatched"}
    BY <1>2 DEF LocalDispatch, OwnsAttempt, OwnerClaim, Attempts
  <2> QED BY <1>0, <2>1
          DEF StepCarries, Unrefused, ClosedPcs, Unreported, Unrecorded,
              RecordingPcs, Unshown, TerminalStates, ReportStates
<1>3. CASE LocalUnknown(c) \/ LocalResult(c)
  <2>1. /\ UNCHANGED <<tc, receipt>>
        /\ pc[c] \in {"local_unknown", "local_await"}
        /\ pc'[c] \in {"fail", "local_write"}
        /\ tc.status \in {"submitted", "pending_approval"}
    BY <1>3
       DEF LocalUnknown, LocalResult, CompleteAttempt, OwnsAttempt, OwnerClaim
  <2> QED BY <1>0, <2>1
          DEF StepCarries, Unrefused, ClosedPcs, Unreported, Unrecorded,
              RecordingPcs, Unshown
<1>4. CASE LocalWrite(c)
  <2>1. /\ UNCHANGED <<att, receipt>> /\ tc'.status = "executed"
        /\ pc'[c] = "local_receipt" /\ ap.status \notin Refused
    BY <1>4
       DEF LocalWrite, LocalExecuted, OwnerClaim, Owns, OwnerPcs, ToolCalls,
           Refused
  <2> QED BY <1>0, <2>1
          DEF StepCarries, Untold, Unrefused, Unreported, Unrecorded,
              RecordingPcs, ReleasingPcs, ToldPcs
<1>5. CASE LocalReceipt(c)
  <2>1. /\ UNCHANGED <<tc, att>> /\ receipt'.outcome = "succeeded"
        /\ tc.status = "executed" /\ ap.status \notin Refused
        /\ SameEvidence(loc[c].tc, tc)
    BY <1>5
       DEF LocalReceipt, OwnerClaim, Owns, OwnerPcs, ToldPcs, Receipts,
           Refused, GateInv, EvidenceInv, HolderPcs
  <2>2. ExposureRequired(tc) => pc'[c] = "local_expose"
    BY <1>5, <2>1
       DEF LocalReceipt, SameEvidence, ExposureRequired, Classified, OriginalRule
  <2> QED BY <1>0, <2>1, <2>2
          DEF StepCarries, Untold, Unrefused, Unreported, Unrecorded,
              Unshown, ExposureRequired, Classified, OriginalRule, ReleasingPcs, ToldPcs
<1>6. CASE LocalExpose(c)
  <2>1. /\ UNCHANGED <<tc, att, receipt>> /\ pc[c] = "local_expose"
        /\ pc'[c] = "local_release"
    BY <1>6 DEF LocalExpose, records
  <2> QED BY <1>0, <2>1, QuietCarries
          DEF ClosedPcs, WillTell, RecordingPcs, ReleasingPcs, ToldPcs
<1>7. CASE LocalRelease(c)
  <2>1. /\ UNCHANGED <<att, receipt>> /\ tc'.status = "executed"
        /\ ~tc'.withheld /\ ap.status \notin Refused
        /\ receipt.outcome = "succeeded"
    BY <1>7
       DEF LocalRelease, OwnerClaim, Owns, OwnerPcs, ToldPcs, ToolCalls,
           Refused
  <2> QED BY <1>0, <2>1
          DEF StepCarries, Untold, Unrefused, Unreported, Unrecorded, Unshown
<1> QED BY <1>1, <1>2, <1>3, <1>4, <1>5, <1>6, <1>7 DEF LocalStep

LEMMA GrantCarries ==
  ASSUME GateInv, NEW c \in Calls, GrantStep(c)
  PROVE  StepCarries(c)
<1> USE ActorFacts, Arrivals
<1> USE DEF UntoldPcs, CarryingPcs, ReservedPcs, DispatchedPcs
<1>0. UNCHANGED <<ap, receipt, now>>
  BY DEF GrantStep, GrantCreate, GrantBind, GrantAudit, Authorize, records, env
<1>1. pc[c] \in ReservedPcs /\ att'.state = "reserved"
  BY DEF GrantStep, GrantCreate, GrantBind, GrantAudit, Authorize, records,
     OwnerClaim, Attempts
<1>2. CASE GrantCreate(c) \/ GrantBind(c) \/ GrantAudit(c)
  <2>1. tc' = tc /\ pc'[c] \in UntoldPcs
    BY <1>2 DEF GrantCreate, GrantBind, GrantAudit, records
  <2>2. tc.status \in {"submitted", "pending_approval"}
    BY <1>1 DEF OwnerClaim
  <2> QED BY <1>0, <1>1, <2>1, <2>2
          DEF StepCarries, Unrefused, ClosedPcs, Unreported, Unrecorded,
              Unshown, TerminalStates, ReportStates
<1>3. CASE Authorize(c)
  <2>1. tc'.status = "authorized" /\ ap.status \notin Refused
    BY <1>1, <1>3 DEF Authorize, OwnerClaim, Owns, OwnerPcs, ToolCalls, Refused
  <2> QED BY <1>0, <1>1, <2>1
          DEF StepCarries, Untold, Unrefused, Unreported, Unrecorded, Unshown,
              TerminalStates, ReportStates
<1> QED BY <1>2, <1>3 DEF GrantStep

(* A runner, as it takes the grant up and as it reports. *)
LEMMA ConsumeCarries ==
  ASSUME GateInv, NEW c \in Calls, ConsumeStep(c)
  PROVE  StepCarries(c)
<1> USE ActorFacts, Arrivals
<1>0. /\ UNCHANGED <<tc, ap, receipt, now>> /\ pc[c] \in ConsumePcs
      /\ \/ att' = att
         \/ att.state = "reserved" /\ att'.state = "dispatched"
  BY DEF ConsumeStep, ConsumeAttempt, ConsumeToolCall, ConsumeValidate,
     ConsumeDispatch, records, env, ConsumePcs, Attempts
<1>1. pc[c] \notin BusyPcs
  BY <1>0
     DEF ConsumePcs, BusyPcs, UntoldPcs, CarryingPcs, ReservedPcs,
         DispatchedPcs, ClosedPcs, RecordingPcs, ReleasingPcs, ToldPcs
<1>2. CASE att' = att
  BY <1>0, <1>1, <1>2, IdleCarries
<1>3. CASE att.state = "reserved" /\ att'.state = "dispatched"
  BY <1>0, <1>1, <1>3
     DEF StepCarries, BusyPcs, Untold, Lapsed, Unrefused, Unreported,
         Unrecorded, Unshown, TerminalStates, ReportStates
<1> QED BY <1>0, <1>2, <1>3

LEMMA ReportCarries ==
  ASSUME GateInv, NEW c \in Calls, LookedClaim(c), ReportStep(c)
  PROVE  StepCarries(c)
<1> USE ActorFacts, Arrivals
<1>0. /\ UNCHANGED <<ap, now>>
      /\ pc[c] \in ReportPath \cup {"report_tool", "report_attempt"}
  BY DEF ReportStep, ReportToolCall, ReportAttempt, ReportReceiptCheck,
     ReportTransition, ReportReplay, ReportReceipt, ReportWrite, ReportExpose,
     ReportRelease, records, env, ReportPath
<1>00. /\ tc.status \in {"authorized", "executed", "failed"}
       /\ ap.status \in {"absent", "approved"}
  BY <1>0, ReportFacts DEF VisitorClaim, GateInv
<1>000. pc[c] \notin UntoldPcs \cup ClosedPcs
  BY <1>0
     DEF ReportPath, UntoldPcs, CarryingPcs, ReservedPcs, DispatchedPcs,
         ClosedPcs
<1>1. CASE \/ ReportToolCall(c) \/ ReportAttempt(c) \/ ReportReceiptCheck(c)
           \/ ReportReplay(c)
  <2>1. /\ UNCHANGED <<tc, att, receipt>>
        /\ pc[c] \in {"report_tool", "report_attempt", "report_outcome",
                      "report_commit"}
    BY <1>1
       DEF ReportToolCall, ReportAttempt, ReportReceiptCheck, ReportReplay,
           records
  <2> QED BY <1>0, <1>000, <2>1, IdleCarries
          DEF BusyPcs, RecordingPcs, ReleasingPcs, ToldPcs
<1>2. CASE ReportTransition(c)
  <2>1. /\ UNCHANGED <<tc, receipt, loc>> /\ pc[c] = "report_commit"
        /\ pc'[c] = "report_receipt" /\ att.state = "dispatched"
    BY <1>2 DEF ReportTransition
  <2>2. tc.status = "authorized" /\ WillTell(c)'
    BY <1>00, <2>1 DEF ToolCallTruth, LookedClaim, WillTell
  <2> QED BY <1>0, <1>00, <2>1, <2>2
          DEF StepCarries, Untold, Unrefused, Refused, Unrecorded,
              RecordingPcs, Unshown
<1>3. CASE ReportReceipt(c)
  <2>1. /\ att.state = loc[c].report.state /\ att.body = loc[c].report.body
        /\ pc[c] = "report_receipt" /\ UNCHANGED <<tc, att>>
    BY <1>3 DEF ReportReceipt, VisitorClaim, EndedPcs
  <2>2. LegacyOutcome(loc[c].report) \in {"succeeded", "failed"}
    BY DEF LegacyOutcome
  <2>3. ReceiptAgrees(loc[c].report)
    BY <2>1
       DEF ReceiptAgrees, OutcomeAgreement, LegacyOutcome, Receipts,
           LegacyStates
  <2>4. /\ receipt'.outcome # "none"
        /\ pc'[c] = "report_write" /\ loc' = loc
    BY <1>3, <2>2, <2>3 DEF ReportReceipt, Receipts
  <2> QED BY <1>0, <1>00, <2>1, <2>4
          DEF StepCarries, Untold, Unrefused, Refused, Unreported, WillTell,
              Unrecorded, Unshown, ExposureRequired, Classified, OriginalRule,
              ReleasingPcs, ToldPcs
<1>4. CASE ReportWrite(c)
  <2>1. /\ pc[c] = "report_write" /\ UNCHANGED <<att, receipt>>
        /\ receipt.outcome # "none"
    BY <1>4 DEF ReportWrite, VisitorClaim, EndedPcs, LegacyOutcome
  <2>2. CASE loc[c].replay /\ loc[c].tc.status # "authorized"
    <3>1. tc' = tc /\ ~WillTell(c)
      BY <1>4, <2>1, <2>2 DEF ReportWrite, WillTell
    <3> QED BY <1>0, <1>00, <2>1, <3>1
            DEF StepCarries, Untold, Unrefused, Refused, Unreported,
                Unrecorded, Unshown, ExposureRequired, Classified, OriginalRule,
                ReleasingPcs, ToldPcs
  <2>3. CASE ~(loc[c].replay /\ loc[c].tc.status # "authorized")
    <3>1. /\ tc' = TerminalToolCall(c)
          /\ TerminalToolCall(c).status \in {"executed", "failed"}
          /\ TerminalToolCall(c).withheld = DeliveryExposes(c)
      BY <1>4, <2>3 DEF ReportWrite, TerminalToolCall, ToolCalls
    <3>2. tc'.withheld /\ ExposureRequired(tc)' => pc'[c] = "report_expose"
      BY <1>4, <2>3, <3>1 DEF ReportWrite, ExposureRequired
    <3> QED BY <1>0, <1>00, <2>1, <3>1, <3>2
            DEF StepCarries, Untold, Unrefused, Refused, Unreported,
                Unrecorded, Unshown, ReleasingPcs
  <2> QED BY <2>2, <2>3
<1>5. CASE ReportExpose(c)
  <2>1. /\ UNCHANGED <<tc, att, receipt>> /\ pc[c] = "report_expose"
        /\ pc'[c] = "report_release"
    BY <1>5 DEF ReportExpose, records
  <2> QED BY <1>0, <1>000, <2>1, QuietCarries
          DEF WillTell, RecordingPcs, ReleasingPcs
<1>6. CASE ReportRelease(c)
  <2>1. /\ UNCHANGED <<att, receipt>>
        /\ tc'.status \in {"executed", "failed"} /\ ~tc'.withheld
        /\ receipt.outcome # "none"
    BY <1>6 DEF ReportRelease, VisitorClaim, EndedPcs, LegacyOutcome, ToolCalls
  <2> QED BY <1>0, <1>00, <2>1
          DEF StepCarries, Untold, Unrefused, Refused, Unreported, Unrecorded,
              Unshown
<1> QED BY <1>1, <1>2, <1>3, <1>4, <1>5, <1>6 DEF ReportStep

(* A request starts with nothing to carry and nothing found. *)
LEMMA RequestCarries ==
  ASSUME GateInv, NEW c \in Calls, Request(c)
  PROVE  faults' = faults /\ StepCarries(c) /\ LookedClaim(c)'
<1> USE ActorFacts, Arrivals
<1> DEFINE Starts(label) == /\ pc[c] = "idle" /\ pc'[c] = label
                            /\ UNCHANGED <<tc, ap, att, receipt, now, faults>>
<1>1. ASSUME NEW mode \in Modes, NEW scoped \in Scopes,
             SubmitEvaluate(c, mode, scoped)
      PROVE  Starts("submit_influence")
  BY <1>1 DEF SubmitEvaluate, records, env
<1>2. ASSUME NEW p \in Principals, NEW input \in Inputs,
             ApproveBegin(c, p, input)
      PROVE  Starts("approve_load")
  BY <1>2 DEF ApproveBegin, records, env
<1>3. ASSUME NEW p \in Principals, NEW kind \in {"reject", "cancel", "read"},
             CloseBegin(c, p, kind)
      PROVE  Starts("close_check")
  BY <1>3 DEF CloseBegin, records, env
<1>4. ASSUME NEW input \in Inputs, ConsumeBegin(c, input)
      PROVE  Starts("consume_attempt")
  BY <1>4 DEF ConsumeBegin, records, env
<1>5. ASSUME NEW report \in Reports, ReportBegin(c, report)
      PROVE  Starts("report_tool") /\ ~loc'[c].replay
  BY <1>5 DEF ReportBegin, records, env, LocTypes, NoLocals
<1>6. \/ \E label \in FirstPcs \ {"report_tool"} : Starts(label)
      \/ Starts("report_tool") /\ ~loc'[c].replay
  BY <1>1, <1>2, <1>3, <1>4, <1>5
     DEF Request, ApprovalRequest, RunnerRequest, FirstPcs
<1>7. LookedClaim(c)'
  BY <1>6 DEF LookedClaim, FirstPcs
<1>8. "idle" \notin BusyPcs
  BY DEF BusyPcs, UntoldPcs, CarryingPcs, ReservedPcs, DispatchedPcs,
     ClosedPcs, RecordingPcs, ReleasingPcs, ToldPcs
<1> QED BY <1>6, <1>7, <1>8, IdleCarries

(* Where a call holds what it found. *)
LookedPcs == {"expire", "approve_commit", "terminalize", "report_tool",
              "report_attempt", "report_outcome", "report_commit"}

LEMMA NothingLooked ==
  ASSUME NEW c \in Calls, pc'[c] \notin LookedPcs
  PROVE  LookedClaim(c)'
BY DEF LookedClaim, LookedPcs

LEMMA DecisionLooks ==
  ASSUME GateInv, NEW c \in Calls, LookedClaim(c), ApproveStep(c) \/ CloseStep(c)
  PROVE  LookedClaim(c)'
<1> USE ActorFacts, Arrivals, NothingLooked
<1>0. pc'[c] = "idle" => LookedClaim(c)'
  BY DEF LookedPcs
<1>1. CASE ApproveLoad(c) \/ ApproveRecord(c) \/ ApproveConflict(c)
           \/ ApproveFinalize(c)
  <2>1. pc'[c] \in {"idle", "approve_check", "receipt"}
    BY <1>1 DEF ApproveLoad, ApproveRecord, ApproveConflict, ApproveFinalize
  <2> QED BY <2>1 DEF LookedPcs
<1>2. CASE ApproveCheck(c)
  <2>1. /\ UNCHANGED ap
        /\ \/ pc'[c] = "expire" /\ loc'[c].tc = tc
           \/ /\ pc'[c] = "approve_commit" /\ loc'[c].tc = tc
              /\ tc.status = "pending_approval"
           \/ pc'[c] = "idle"
    BY <1>2 DEF ApproveCheck, ApprovalChecks, records, LocTypes, Locals
  <2> QED BY <1>0, <2>1 DEF LookedClaim, Story
<1>3. CASE ApproveExpires(c)
  <2>1. pc[c] = "approve_commit" /\ pc'[c] = "terminalize" /\ loc' = loc
    BY <1>3 DEF ApproveExpires
  <2> QED BY <2>1 DEF LookedClaim
<1>4. CASE CloseCheck(c)
  <2>1. /\ UNCHANGED ap
        /\ \/ pc'[c] = "expire" /\ loc'[c].tc = tc
           \/ pc'[c] \in {"idle", "close_load", "close_commit"}
    BY <1>4 DEF CloseCheck, records, LocTypes, Locals
  <2> QED BY <2>1 DEF LookedClaim, Story
<1>5. CASE CloseLoad(c) \/ CloseConflict(c) \/ RejectWrite(c) \/ Terminalize(c)
  <2>1. pc'[c] \in {"idle", "close_check"}
    BY <1>5 DEF CloseLoad, CloseConflict, RejectWrite, Terminalize
  <2> QED BY <2>1 DEF LookedPcs
<1>6. CASE CloseCommit(c) \/ CloseExpires(c)
  <2>1. /\ loc[c].tc.status = "pending_approval" /\ loc' = loc
        /\ pc'[c] \in {"reject_write", "terminalize"}
    BY <1>6 DEF CloseCommit, CloseExpires, CloseAuthorized
  <2> QED BY <2>1 DEF LookedClaim
<1>7. CASE Expire(c)
  <2>1. \/ pc'[c] = "idle"
        \/ /\ pc[c] = "expire" /\ ap.status = "pending" /\ loc' = loc
           /\ pc'[c] = "terminalize"
    BY <1>7 DEF Expire
  <2> QED BY <1>0, <2>1 DEF LookedClaim
<1> QED BY <1>1, <1>2, <1>3, <1>4, <1>5, <1>6, <1>7 DEF ApproveStep, CloseStep

LEMMA ReportLooks ==
  ASSUME GateInv, NEW c \in Calls, LookedClaim(c), ReportStep(c)
  PROVE  LookedClaim(c)'
<1> USE ActorFacts, Arrivals, NothingLooked
<1>1. CASE ReportToolCall(c) \/ ReportAttempt(c) \/ ReportReceiptCheck(c)
  <2>1. /\ pc[c] \in {"report_tool", "report_attempt", "report_outcome"}
        /\ \/ pc'[c] = "idle"
           \/ /\ pc'[c] \in {"report_attempt", "report_outcome",
                             "report_commit"}
              /\ loc'[c].replay = loc[c].replay
    BY <1>1
       DEF ReportToolCall, ReportAttempt, ReportReceiptCheck, LocTypes, Locals
  <2> QED BY <2>1 DEF LookedClaim
<1>2. CASE ~ReportToolCall(c) /\ ~ReportAttempt(c) /\ ~ReportReceiptCheck(c)
  <2>1. pc'[c] \in {"idle", "report_receipt", "report_write", "report_expose",
                    "report_release"}
    BY <1>2
       DEF ReportStep, ReportTransition, ReportReplay, ReportReceipt,
           ReportWrite, ReportExpose, ReportRelease
  <2> QED BY <2>1 DEF LookedPcs
<1> QED BY <1>1, <1>2

(* No other step looks. *)
LEMMA OthersLookAway ==
  ASSUME GateInv, NEW c \in Calls,
         SubmitStep(c) \/ ReservationStep(c) \/ LocalStep(c) \/ GrantStep(c)
           \/ ConsumeStep(c) \/ Fault(c)
  PROVE  LookedClaim(c)'
<1> USE ActorFacts, Arrivals, NothingLooked
<1>1. CASE SubmitStep(c) \/ Fault(c)
  BY <1>1
     DEF SubmitStep, SubmitInfluence, SubmitCreate, SubmitReplay, SubmitBlock,
         SubmitPend, SubmitApproval, Fault, Abort, SubmitInfluenceUnavailable,
         GrantUnavailable, LookedPcs
<1>2. CASE ReservationStep(c)
  BY <1>2
     DEF ReservationStep, CreateReceipt, Revalidate, Reserve,
         FailBeforeDispatch, FailToolCall, FailReceipt, CompleteAttempt,
         LookedPcs
<1>3. CASE LocalStep(c)
  BY <1>3
     DEF LocalStep, LocalPreflight, LocalBind, LocalDispatch, LocalInvoke,
         LocalRefused, LocalUnknown, LocalResult, LocalWrite, LocalReceipt,
         LocalExpose, LocalRelease, CompleteAttempt, LookedPcs
<1>4. CASE GrantStep(c) \/ ConsumeStep(c)
  BY <1>4
     DEF GrantStep, GrantCreate, GrantBind, GrantAudit, Authorize,
         ConsumeStep, ConsumeAttempt, ConsumeToolCall, ConsumeValidate,
         ConsumeDispatch, LookedPcs
<1> QED BY <1>1, <1>2, <1>3, <1>4

LEMMA NextLooks ==
  ASSUME GateInv, \A c \in Calls : LookedClaim(c), [Next]_vars
  PROVE  \A c \in Calls : LookedClaim(c)'
<1>0. PcTypes /\ LocTypes /\ (\A d \in Calls : VisitorClaim(d)) /\ FinalKept
  BY NextFinal DEF GateInv, TypeOK, OwnershipInv
<1>1. ap'.status = "pending" => ap.status \in {"absent", "pending"}
  BY <1>0 DEF FinalKept, Refused, GateInv, TypeOK, RecordTypes, Approvals,
     ApprovalStatus
<1>2. ASSUME NEW d \in Calls, pc'[d] = pc[d], loc'[d] = loc[d]
      PROVE  LookedClaim(d)'
  BY <1>0, <1>1, <1>2 DEF LookedClaim, VisitorClaim, DecidingPcs
<1>3. ASSUME NEW c \in Calls, Request(c) \/ Step(c) \/ Fault(c)
      PROVE  \A d \in Calls : LookedClaim(d)'
  <2>1. LookedClaim(c)'
    BY <1>3, RequestCarries, DecisionLooks, ReportLooks, OthersLookAway
       DEF Step, ApprovalStep, ExecutionStep
  <2>2. \E label : Moves(c, label)
    BY <1>0, <1>3, OnlyLookupsDraft, DraftMoves DEF GoesElsewhere
  <2>3. \A d \in Calls : d # c => pc'[d] = pc[d] /\ loc'[d] = loc[d]
    BY <1>0, <2>2, MoveOne
  <2> QED BY <1>2, <2>1, <2>3
<1>4. CASE Environment \/ UNCHANGED vars
  BY <1>2, <1>4 DEF Environment, Tick, PolicyReload, ForeignExposure, vars
<1> QED BY <1>3, <1>4 DEF Next

(* Nobody but the runner that consumes the grant dispatches what is bound. *)
BoundIsConsumed ==
  att.state = "dispatched" /\ att.bound => grant.status = "consumed"

LEMMA NextBound ==
  ASSUME GateInv, BoundIsConsumed, [Next]_vars
  PROVE  BoundIsConsumed'
<1>1. CASE UNCHANGED <<att, grant>>
  BY <1>1 DEF BoundIsConsumed
<1>2. ASSUME NEW c \in Calls, ApprovalStep(c)
      PROVE  UNCHANGED <<att, grant>>
  BY <1>2
     DEF ApprovalStep, SubmitStep, SubmitInfluence, SubmitCreate,
         SubmitReplay, SubmitBlock, SubmitPend, SubmitApproval, ApproveStep,
         ApproveLoad, ApproveCheck, ApproveRecord, ApproveFinalize,
         ApproveExpires, ApproveConflict, CloseStep, CloseCheck, CloseLoad,
         CloseCommit, CloseExpires, CloseConflict, RejectWrite, Expire,
         Terminalize, records, execution
<1>3. ASSUME NEW c \in Calls, ReservationStep(c)
      PROVE  BoundIsConsumed'
  BY <1>3, ActorFacts
     DEF ReservationStep, CreateReceipt, Revalidate, Reserve,
         FailBeforeDispatch, FailToolCall, FailReceipt, CompleteAttempt,
         records, Attempts, BoundIsConsumed
<1>4. ASSUME NEW c \in Calls, LocalStep(c)
      PROVE  BoundIsConsumed'
  <2>1. CASE LocalDispatch(c)
    BY <1>4, <2>1, ActorFacts
       DEF LocalDispatch, GateInv, OneEffectInv, LocalPath, Attempts,
           BoundIsConsumed
  <2>2. CASE ~LocalDispatch(c)
    BY <1>4, <2>2, ActorFacts
       DEF LocalStep, LocalPreflight, LocalBind, LocalInvoke, LocalRefused,
           LocalUnknown, LocalResult, LocalWrite, LocalReceipt, LocalExpose,
           LocalRelease, CompleteAttempt, records, Attempts, BoundIsConsumed
  <2> QED BY <2>1, <2>2
<1>5. ASSUME NEW c \in Calls, GrantStep(c)
      PROVE  BoundIsConsumed'
  <2>1. att'.state = "reserved"
    BY <1>5, ActorFacts
       DEF GrantStep, GrantCreate, GrantBind, GrantAudit, Authorize, records,
           OwnerClaim, ReservedPcs, Attempts
  <2> QED BY <2>1 DEF BoundIsConsumed
<1>6. ASSUME NEW c \in Calls, ConsumeStep(c) \/ ReportStep(c)
      PROVE  BoundIsConsumed'
  <2>1. \/ UNCHANGED <<att, grant>> \/ grant'.status = "consumed"
        \/ att'.state \in ReportStates
    BY <1>6, ActorFacts
       DEF ConsumeStep, ConsumeAttempt, ConsumeToolCall, ConsumeValidate,
           ConsumeDispatch, ReportStep, ReportToolCall, ReportAttempt,
           ReportReceiptCheck, ReportTransition, ReportReplay, ReportReceipt,
           ReportWrite, ReportExpose, ReportRelease, records, Attempts,
           Grants, Reports
  <2> QED BY <1>1, <2>1 DEF BoundIsConsumed, ReportStates
<1> QED BY <1>1, <1>2, <1>3, <1>4, <1>5, <1>6, OtherWritesNothing
        DEF Next, Step, ExecutionStep, records

LEMMA StepsDoNotFault ==
  ASSUME NEW c \in Calls, Step(c)
  PROVE  faults' = faults
<1>1. CASE ApprovalStep(c)
  BY <1>1
     DEF ApprovalStep, SubmitStep, SubmitInfluence, SubmitCreate,
         SubmitReplay, SubmitBlock, SubmitPend, SubmitApproval, ApproveStep,
         ApproveLoad, ApproveCheck, ApproveRecord, ApproveFinalize,
         ApproveExpires, ApproveConflict, CloseStep, CloseCheck, CloseLoad,
         CloseCommit, CloseExpires, CloseConflict, RejectWrite, Expire,
         Terminalize
<1>2. CASE ReservationStep(c) \/ LocalStep(c) \/ GrantStep(c)
  BY <1>2
     DEF ReservationStep, CreateReceipt, Revalidate, Reserve,
         FailBeforeDispatch, FailToolCall, FailReceipt, LocalStep,
         LocalPreflight, LocalBind, LocalDispatch, LocalInvoke, LocalRefused,
         LocalUnknown, LocalResult, LocalWrite, LocalReceipt, LocalExpose,
         LocalRelease, GrantStep, GrantCreate, GrantBind, GrantAudit,
         Authorize
<1>3. CASE ConsumeStep(c) \/ ReportStep(c)
  BY <1>3
     DEF ConsumeStep, ConsumeAttempt, ConsumeToolCall, ConsumeValidate,
         ConsumeDispatch, ReportStep, ReportToolCall, ReportAttempt,
         ReportReceiptCheck, ReportTransition, ReportReplay, ReportReceipt,
         ReportWrite, ReportExpose, ReportRelease
<1> QED BY <1>1, <1>2, <1>3 DEF Step, ExecutionStep

LEMMA NextCarried ==
  ASSUME GateInv, \A c \in Calls : LookedClaim(c), [Next]_vars, faults' = 0,
         faults = 0 => CarriedInv
  PROVE  CarriedInv'
<1>0. /\ PcTypes /\ LocTypes
      /\ faults \in Nat /\ now \in Nat /\ ap.expiresAt \in Nat
  BY DEF GateInv, TypeOK, EnvironmentTypes, RecordTypes, Approvals
<1>1. ASSUME NEW c \in Calls, Request(c) \/ Step(c)
      PROVE  CarriedInv'
  <2>1. StepCarries(c)
    BY <1>1, RequestCarries, SubmitCarries, DecisionCarries,
       ReservationCarries, LocalCarries, GrantCarries, ConsumeCarries,
       ReportCarries DEF Step, ApprovalStep, ExecutionStep
  <2>2. faults' = faults
    BY <1>1, RequestCarries, StepsDoNotFault
  <2>3. \E label : Moves(c, label)
    BY <1>0, <1>1, OnlyLookupsDraft, DraftMoves DEF GoesElsewhere
  <2> QED BY <1>0, <2>1, <2>2, <2>3, CarriedOn
<1>2. ASSUME NEW c \in Calls, Fault(c)
      PROVE  FALSE
  BY <1>0, <1>2
     DEF Fault, Abort, SubmitInfluenceUnavailable, GrantUnavailable
<1>3. CASE Environment \/ UNCHANGED vars
  <2>1. /\ UNCHANGED <<tc, ap, att, receipt, faults, pc, loc>>
        /\ now' \in Nat /\ now' >= now
    BY <1>0, <1>3
       DEF Environment, Tick, PolicyReload, ForeignExposure, vars, records,
           env
  <2>2. Lapsed => Lapsed'
    BY <1>0, <2>1 DEF Lapsed, ApprovalExpired
  <2> QED BY <2>1, <2>2
          DEF CarriedInv, Untold, Unrefused, Unreported, WillTell, Unrecorded,
              Unshown, ExposureRequired, Classified, OriginalRule
<1> QED BY <1>1, <1>2, <1>3 DEF Next

LEMMA NextForgotten ==
  ASSUME GateInv, ForgottenInv, [Next]_vars
  PROVE  ForgottenInv'
BY NextLooks, NextBound, NextCarried DEF ForgottenInv, BoundIsConsumed

LEMMA InitForgotten == Init => ForgottenInv
BY DEF Init, GateInit, NoToolCall, ForgottenInv, LookedClaim, CarriedInv,
   Untold, Unrefused, Refused, Unreported, Unrecorded, Unshown,
   TerminalStates, ReportStates

(* As long as no call faults, whichever record is behind another has a call on
   its way to the await that writes it. *)
THEOREM EverythingIsCarried == Spec => []ForgottenInv
<1>1. GateInv /\ ForgottenInv /\ [Next]_vars => ForgottenInv'
  BY NextForgotten
<1> QED BY <1>1, InitForgotten, GateHolds, PTL DEF Spec

(* When every call of a fault-free run has returned, nothing is left half
   done: an undecided submission has an approval somebody can decide, a refusal
   or an outcome stands in every record. *)
THEOREM NothingForgotten == Spec => []NothingIsForgotten
<1>1. ASSUME GateInv, WithheldUntilExposed, ForgottenInv, faults = 0,
             \A c \in Calls : pc[c] = "idle"
      PROVE  NothingIsForgotten
  <2>0. /\ tc \in ToolCalls /\ ap \in Approvals /\ att \in Attempts
        /\ grant \in Grants /\ RefusalInv
        /\ Story /\ ToolCallTruth
    BY <1>1 DEF GateInv, TypeOK, RecordTypes, OwnershipInv
  <2>1. /\ "idle" \notin UntoldPcs \cup ClosedPcs
        /\ "idle" \notin RecordingPcs \cup ReleasingPcs
    BY DEF UntoldPcs, CarryingPcs, ReservedPcs, DispatchedPcs, ClosedPcs,
       RecordingPcs, ReleasingPcs, ToldPcs
  <2>2. /\ Untold => Lapsed
        /\ ~Unrefused /\ ~Unreported /\ ~Unrecorded /\ ~Unshown
    BY <1>1, <2>1 DEF ForgottenInv, CarriedInv, WillTell
  <2>3. /\ tc.status # "submitted"
        /\ tc.status = "pending_approval" => ap.status = "pending" \/ Lapsed
        /\ ap.status \in Refused => tc.status = "rejected"
    BY <2>0, <2>2
       DEF Untold, Unrefused, Lapsed, Story, Approvals, ApprovalStatus, Refused
  <2>4. att.state # "absent" =>
          tc.status \in {"authorized", "executed", "failed"}
    BY <2>0, <2>3
       DEF RefusalInv, ToolCallTruth, Lapsed, ToolCalls, ToolCallStatus
  <2>5. /\ att.state = "reserved" =>
             tc.status = "authorized" /\ grant.status = "issued"
        /\ att.state = "dispatched" =>
             tc.status = "authorized" /\ grant.status = "consumed"
    BY <1>1, <2>0, <2>4 DEF ToolCallTruth, Story, ForgottenInv, Grants
  <2>6. att.state \in TerminalStates \/ tc.status = "failed" =>
          tc.status \in {"executed", "failed"} /\ receipt.outcome # "none"
    BY <2>2, <2>4 DEF Unreported, Unrecorded, TerminalStates, ReportStates
  <2>7. /\ att.state \in {"succeeded", "failed_after_dispatch"}
        /\ ExposureRequired(tc)
        => exposed /\ ~tc.withheld
    <3>1. att.state \in {"succeeded", "failed_after_dispatch"} =>
            \/ tc.status = "executed"
            \/ tc.status = "failed" /\ att.state = "failed_after_dispatch"
      BY <2>0, <2>6 DEF ToolCallTruth, TerminalStates, ReportStates
    <3> QED BY <1>1, <2>2, <3>1 DEF Unshown, WithheldUntilExposed, ExposureRequired
  <2> QED BY <2>3, <2>5, <2>6, <2>7 DEF NothingIsForgotten
<1>2. GateInv /\ WithheldUntilExposed /\ ForgottenInv => NothingIsForgotten
  BY <1>1 DEF NothingIsForgotten
<1> QED BY <1>2, EverythingIsCarried, GateHolds, ShownOnlyExposed, PTL

==============================================================================
