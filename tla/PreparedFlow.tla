---------------------------- MODULE PreparedFlow ----------------------------
(***************************************************************************)
(* The gate and the grants at work on one prepared action, over the atomic *)
(* operations of StoreRecords: its approval publishes receipt, grant,      *)
(* attempt and tool call at once, an approval repeated after a crash       *)
(* publishes again, the server-owned executor consumes the grant, calls    *)
(* the provider once, and reports.                                         *)
(*                                                                         *)
(* The extensions that prepare the action, coordinate its dispatch and     *)
(* issue native authorizations are not in the repository: they agree to    *)
(* whatever the code asks of them, or the call ends.  The result of a      *)
(* prepared action is not classified content.                              *)
(***************************************************************************)
EXTENDS StoreRecords, FiniteSets

VARIABLES
  prepRows,     \* the stored records
  prepPolicy,   \* the active policy: "deciding" or "other"
  prepPc,       \* the await a call is suspended at
  prepLoc,      \* the tool call it loaded, the outcome it reports
  prepEffects   \* how often the provider was called

prepVars == <<prepRows, prepPolicy, prepPc, prepLoc, prepEffects>>

PrepPcs ==
  {"idle", "vote", "revalidate", "publish", "fail", "close", "terminalize",
   "dispatch", "execute", "loadAttempt", "record", "adopt", "giveUp",
   "receiptOutcome", "project"}

NothingLoaded == [toolCall |-> NoRecords.toolCall, body |-> None]

PrepTypeOK ==
  /\ prepRows \in Views
  /\ prepPolicy \in {"deciding", "other"}
  /\ prepPc \in [StoreCalls -> PrepPcs]
  /\ prepLoc \in [StoreCalls -> [toolCall : ToolCallRows,
                                 body : Bodies \cup {None}]]
  /\ prepEffects \in Nat

Req(op) == [op |-> op, body |-> None]
ReqOf(op, body) == [op |-> op, body |-> body]

(* The action was submitted, prepared and is waiting for its approval. *)
PrepInit ==
  /\ \E body \in Preparing : prepRows = Created(NoRecords, ReqOf("create", body))
  /\ prepPolicy = "deciding"
  /\ prepPc = [c \in StoreCalls |-> "idle"]
  /\ prepLoc = [c \in StoreCalls |-> NothingLoaded]
  /\ prepEffects = 0

GoTo(c, pc) == prepPc' = [prepPc EXCEPT ![c] = pc]

(* The call returns or throws. *)
End(c) ==
  /\ GoTo(c, "idle")
  /\ prepLoc' = [prepLoc EXCEPT ![c] = NothingLoaded]

Stays == UNCHANGED <<prepRows, prepPolicy, prepEffects>>

(* A call of the store; the call goes on to pc if the operation wins, or if
   its answer is one of more, and ends otherwise. *)
CallStore(c, r, more, pc) ==
  /\ prepRows' = After(r, prepRows)
  /\ IF Wins(r, prepRows) \/ Answer(r, prepRows) \in more
     THEN GoTo(c, pc) /\ UNCHANGED prepLoc ELSE End(c)
  /\ UNCHANGED <<prepPolicy, prepEffects>>

(* Policy and evidence are still the ones the action was decided on. *)
DecisionStands == prepPolicy = "deciding" /\ ~StaleEvidence(prepRows)

---------------------------------------------------------------------------
(* Approval.                                                               *)

(* approveApproval up to the compare-and-set of its vote.  An approved
   action is published again. *)
ApproveRequested(c) ==
  /\ prepPc[c] = "idle"
  /\ \/ /\ prepRows.approval = "pending" /\ ~prepRows.late
        /\ prepRows.toolCall.status = "pending_approval"
        /\ DecisionStands
        /\ GoTo(c, "vote")
     \/ /\ prepRows.approval = "approved"
        /\ prepRows.toolCall.status \in {"authorized", "pending_approval"}
        /\ GoTo(c, "revalidate")
  /\ prepLoc' = [prepLoc EXCEPT ![c].toolCall = prepRows.toolCall]
  /\ Stays

Vote(c) ==
  /\ prepPc[c] = "vote"
  /\ LET answer == Answer(Req("decide"), prepRows)
     IN  CallStore(c, Req("decide"), {}, IF answer = "expired" THEN "terminalize" ELSE "revalidate")

(* publishApprovedPreparedExternalAuthorization: final revalidation. *)
RevalidatePublication(c) ==
  /\ prepPc[c] = "revalidate"
  /\ GoTo(c, IF DecisionStands THEN "publish" ELSE "fail")
  /\ UNCHANGED prepLoc /\ Stays

PublishBySnapshot(c) ==   \* mutant
  /\ prepPc[c] = "publish"
  /\ prepRows' = IF PublicationExists(prepRows) THEN prepRows ELSE Published(prepRows)
  /\ End(c)
  /\ UNCHANGED <<prepPolicy, prepEffects>>

Publish(c) ==
  /\ prepPc[c] = "publish"
  /\ prepRows' = After(Req("publish"), prepRows)
  /\ End(c)
  /\ UNCHANGED <<prepPolicy, prepEffects>>

(* failToolCall stores the snapshot it was given, as failed. *)
FailPrepared(c) ==
  /\ prepPc[c] = "fail"
  /\ prepRows' = [prepRows EXCEPT !.toolCall = [prepLoc[c].toolCall EXCEPT !.status = "failed"]]
  /\ End(c)
  /\ UNCHANGED <<prepPolicy, prepEffects>>

(* rejectApproval, cancelApproval and the expiry of an approval.  Here a
   rejected tool call is a failed one. *)
CloseRequested(c) ==
  /\ prepPc[c] = "idle" /\ prepRows.approval = "pending"
  /\ GoTo(c, "close")
  /\ prepLoc' = [prepLoc EXCEPT ![c].toolCall = prepRows.toolCall]
  /\ Stays

ClosePrepared(c, op) ==
  /\ prepPc[c] = "close"
  /\ CallStore(c, Req(op), {}, "terminalize")

Terminalize(c) ==
  /\ prepPc[c] = "terminalize"
  /\ prepRows' = [prepRows EXCEPT !.toolCall = [prepLoc[c].toolCall EXCEPT !.status = "failed"]]
  /\ End(c)
  /\ UNCHANGED <<prepPolicy, prepEffects>>

---------------------------------------------------------------------------
(* Execution.                                                              *)

(* consumeGrant up to the dispatch.  But for the policy, nothing it asks for
   comes back once it is lost, so reading it at once allows no less. *)
ConsumeRequested(c) ==
  /\ prepPc[c] = "idle"
  /\ prepRows.grant = "issued"
  /\ prepRows.attempt.state = "reserved" /\ prepRows.attempt.bound
  /\ prepRows.toolCall.status = "authorized" /\ prepRows.receipt.present
  /\ prepRows.approval = "approved" /\ ~prepRows.late
  /\ DecisionStands      \* beforeDispatch
  /\ GoTo(c, "dispatch")
  /\ UNCHANGED prepLoc /\ Stays

DispatchPreparedAgain(c) ==   \* mutant
  /\ prepPc[c] = "dispatch"
  /\ CallStore(c, Req("consume"), {"grant_already_consumed"}, "execute")

DispatchPrepared(c) ==
  /\ prepPc[c] = "dispatch"
  /\ CallStore(c, Req("consume"), {}, "execute")

(* The executor that was told of the dispatch calls the provider. *)
CallProvider(c) ==
  /\ prepPc[c] = "execute"
  /\ prepEffects' = prepEffects + 1
  /\ End(c)
  /\ UNCHANGED <<prepRows, prepPolicy>>

(* reportOutcome loads grant and tool call, then the attempt and receipt. *)
ReportRequested(c) ==
  /\ prepPc[c] = "idle" /\ prepRows.grant = "consumed"
  /\ GoTo(c, "loadAttempt")
  /\ prepLoc' = [prepLoc EXCEPT ![c].toolCall = prepRows.toolCall]
  /\ Stays

(* Once the attempt has left the state dispatched, a terminal tool call does
   not refuse the report. *)
ToolCallIsCurrent(toolCall, attemptState) ==
  \/ toolCall.status = "authorized"
  \/ attemptState # "dispatched" /\ toolCall.status \in {"executed", "failed"}

(* A body is what is reported with the time of its recording.  A known
   outcome is recorded with the attempt, or adopted from it. *)
LoadAttempt(c, known, body) ==
  LET state == prepRows.attempt.state
      current == /\ ToolCallIsCurrent(prepLoc[c].toolCall, state)
                 /\ prepRows.receipt.outcome \in {None, body}
  IN  /\ prepPc[c] = "loadAttempt"
      /\ known => prepEffects > 0
      /\ body \in Succeeding => known
      /\ IF current
         THEN /\ GoTo(c, IF ~known THEN "giveUp"
                         ELSE IF state = "dispatched" THEN "record" ELSE "adopt")
              /\ prepLoc' = [prepLoc EXCEPT ![c].body = body]
         ELSE End(c)
      /\ Stays

(* Both store their records at once. *)
RecordPreparedBlind(c) ==   \* mutant
  /\ prepPc[c] \in {"record", "adopt"}
  /\ prepRows' = Effect(ReqOf(prepPc[c], prepLoc[c].body), prepRows)
  /\ End(c)
  /\ UNCHANGED <<prepPolicy, prepEffects>>

RecordPrepared(c) ==
  /\ prepPc[c] \in {"record", "adopt"}
  /\ prepRows' = After(ReqOf(prepPc[c], prepLoc[c].body), prepRows)
  /\ End(c)
  /\ UNCHANGED <<prepPolicy, prepEffects>>

(* An unknown outcome ends the attempt first; a second report of it is the
   same if it brings the time and the error of the first. *)
GiveUp(c) ==
  /\ prepPc[c] = "giveUp"
  /\ \/ CallStore(c, Req("giveUp"), {"replay"}, "receiptOutcome")
     \/ /\ prepRows.attempt.state = "unknown_outcome"
        /\ End(c) /\ Stays

RecordReceiptOutcome(c) ==
  /\ prepPc[c] = "receiptOutcome"
  /\ LET r == ReqOf("receiptOutcome", prepLoc[c].body)
         agrees == prepRows.receipt.outcome \in {None, r.body}
         already == prepLoc[c].toolCall.status # "authorized"
     IN  /\ prepRows' = After(r, prepRows)
         /\ IF agrees /\ ~already THEN GoTo(c, "project") /\ UNCHANGED prepLoc ELSE End(c)
  /\ UNCHANGED <<prepPolicy, prepEffects>>

Project(c) ==
  /\ prepPc[c] = "project"
  /\ prepRows' = [prepRows EXCEPT !.toolCall = [status |-> "failed", outcome |-> prepLoc[c].body]]
  /\ End(c)
  /\ UNCHANGED <<prepPolicy, prepEffects>>

---------------------------------------------------------------------------
(* The surroundings.                                                       *)

(* A call throws, or its process dies. *)
Abandon(c) ==
  /\ prepPc[c] # "idle"
  /\ End(c) /\ Stays

ReloadPolicy ==
  /\ prepPolicy' \in {"deciding", "other"} \ {prepPolicy}
  /\ UNCHANGED <<prepRows, prepPc, prepLoc, prepEffects>>

(* Another action of the scope exposes content, or the approval expires. *)
ScopeMoves ==
  /\ \/ Wins(Req("expose"), prepRows) /\ prepRows' = After(Req("expose"), prepRows)
     \/ ~prepRows.late /\ prepRows' = [prepRows EXCEPT !.late = TRUE]
  /\ UNCHANGED <<prepPolicy, prepPc, prepLoc, prepEffects>>

PreparedNext ==
  \/ \E c \in StoreCalls :
       \/ ApproveRequested(c) \/ Vote(c) \/ RevalidatePublication(c)
       \/ Publish(c) \/ FailPrepared(c)
       \/ CloseRequested(c) \/ \E op \in Closings : ClosePrepared(c, op)
       \/ Terminalize(c)
       \/ ConsumeRequested(c) \/ DispatchPrepared(c) \/ CallProvider(c)
       \/ ReportRequested(c)
       \/ \E known \in BOOLEAN, body \in Bodies : LoadAttempt(c, known, body)
       \/ RecordPrepared(c) \/ GiveUp(c) \/ RecordReceiptOutcome(c) \/ Project(c)
       \/ Abandon(c)
  \/ ReloadPolicy \/ ScopeMoves

PreparedSpec == PrepInit /\ [][PreparedNext]_prepVars

---------------------------------------------------------------------------
(* However often approvals, consumptions and reports are repeated or cut
   short, the provider is called at most once, and only for an action that
   stands approved and whose grant is consumed. *)
PreparedRunsOnce ==
  /\ prepEffects + Cardinality({c \in StoreCalls : prepPc[c] = "execute"}) <= 1
  /\ \/ prepEffects = 0
     \/ /\ prepRows.approval = "approved" /\ prepRows.grant = "consumed"
        /\ prepRows.attempt.state \notin {"none", "reserved"}

(* An action that was rejected or failed before its publication is never
   published, whoever was about to publish it. *)
EndedStaysUnpublished ==
  [][ prepRows.toolCall.status = "failed" /\ prepRows.attempt.state = "none"
        => prepRows'.attempt.state = "none" ]_prepVars

(* The first known outcome is recorded whole and never replaced, by a late
   report least of all. *)
KnownOutcomeIsWhole ==
  [][ LET outcome == prepRows.attempt.outcome
      IN  /\ outcome # None => prepRows'.attempt = prepRows.attempt
          /\ prepRows'.attempt.outcome # None =>
               prepRows'.receipt.outcome = prepRows'.attempt.outcome
          /\ prepRows.receipt.outcome # None =>
               prepRows'.receipt.outcome = prepRows.receipt.outcome ]_prepVars

(* "Exact outcome replays therefore always reconcile missing terminal
   evidence" (execution-grants.ts): a report that brings the outcome of the
   attempt is adopted, or finds it adopted.  failToolCall breaks this: a
   repeated approval that finds the policy changed fails the tool call of a
   dispatched action, and an adoption asks for an authorized tool call. *)
ReplayReconciles ==
  \A c \in StoreCalls :
    prepPc[c] = "adopt" /\ prepLoc[c].body = prepRows.attempt.outcome =>
      AdoptAnswer(prepRows, ReqOf("adopt", prepLoc[c].body)) \in {"adopted", "replay"}
=============================================================================
