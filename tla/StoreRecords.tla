---------------------------- MODULE StoreRecords ----------------------------
(***************************************************************************)
(* The records of one action and the atomic operations of the store on     *)
(* them, as the in-memory store performs them: what each operation answers *)
(* on a given view of the records, and the records it leaves.              *)
(*                                                                         *)
(* A body stands for whatever an operation compares by hash: a request, or *)
(* an outcome with its time of recording.  One action is either prepared   *)
(* (its authorization is published as a whole) or plain (it is reserved    *)
(* and dispatched step by step); the operations cover both.                *)
(***************************************************************************)
EXTENDS Naturals

CONSTANTS
  StoreCalls, \* the calls at work on the store at the same time
  Bodies,     \* request bodies and outcomes, told apart by hash
  Succeeding, \* the bodies that are outcomes of a successful execution
  Preparing   \* the request bodies that call for a prepared action

ASSUME BodiesAssumption ==
  Succeeding \subseteq Bodies /\ Preparing \subseteq Bodies /\ 0 \notin Bodies

None == 0

Rows == {"key", "scope", "toolCall", "approval", "receipt", "grant", "attempt"}

ToolCallRows ==
  [status : {"none", "pending_approval", "authorized", "executed", "failed"},
   outcome : Bodies \cup {None}]
ReceiptRows ==
  [present : BOOLEAN, outcome : Bodies \cup {None}]
AttemptRows ==
  [state : {"none", "reserved", "dispatched", "unknown_outcome",
            "succeeded", "failed_after_dispatch"},
   bound : BOOLEAN,                \* grantId is set
   outcome : Bodies \cup {None}]

Views ==
  [key      : Bodies \cup {None},  \* request hash of the idempotency record
   scope    : {0, 1},              \* revision; 1 once the action's content is exposed
   late     : BOOLEAN,             \* the approval authorization has expired
   toolCall : ToolCallRows,
   approval : {"none", "pending", "approved", "rejected", "cancelled", "expired"},
   receipt  : ReceiptRows,
   grant    : {"none", "issued", "consumed"},
   attempt  : AttemptRows]

NoRecords ==
  [key |-> None, scope |-> 0, late |-> FALSE,
   toolCall |-> [status |-> "none", outcome |-> None],
   approval |-> "none",
   receipt |-> [present |-> FALSE, outcome |-> None],
   grant |-> "none",
   attempt |-> [state |-> "none", bound |-> FALSE, outcome |-> None]]

Outcomes == {"record", "adopt", "settle", "receiptOutcome"}
Closings == {"reject", "cancel", "expire"}

NoCall == [op |-> "none", body |-> None]

StoreRequests ==
  [op : {"create"} \cup Outcomes, body : Bodies]
  \cup [op : Closings \cup {"expose", "decide", "write", "openReceipt", "issue",
                            "reserve", "bind", "dispatch", "giveUp",
                            "publish", "consume"}, body : {None}]

(* The operations called on an action of either kind, once the records
   exist whose identifiers they pass: a receipt is opened for an approved
   action, a grant issued for a reserved attempt and bound to it.  A prepared
   attempt that was settled alone, its projections lost in a crash, is what
   adopt is for. *)
Legal(v, r) ==
  /\ v.key = None => r.op = "create"
  /\ IF v.key \in Preparing
     THEN r.op \notin {"openReceipt", "issue", "reserve", "bind", "dispatch"}
     ELSE r.op \notin {"publish", "record", "adopt"}
  /\ r.op \in {"issue", "bind", "dispatch", "settle", "giveUp", "consume", "record", "adopt"} =>
       v.attempt.state # "none"
  /\ r.op = "bind" => v.grant # "none"
  /\ r.op = "openReceipt" => v.approval = "approved"
  /\ r.op = "receiptOutcome" => v.receipt.present

---------------------------------------------------------------------------
(* Idempotent creation, exposures and approvals.  An operation answers by   *)
(* the first check that stops it, in the order of its early returns.       *)

CreateAnswer(v, r) ==
  IF v.key = None THEN "created"
  ELSE IF v.key = r.body THEN "replay"
  ELSE "conflict"

(* The tool call is created with its idempotency record.  The gate then
   writes it as pending and creates its approval: two plain writes, which
   ApprovalFlow tells apart and which come with the creation here. *)
Created(v, r) ==
  [v EXCEPT !.key = r.body, !.approval = "pending",
            !.toolCall.status = "pending_approval"]

(* The action exposes one thing; to expose it again is a replay. *)
ExposeAnswer(v) == IF v.scope = 0 THEN "created" ELSE "replay"

(* Actions are decided on the evidence of revision 0. *)
StaleEvidence(v) == v.scope # 0

DecideAnswer(v) ==
  IF v.approval = "none" THEN "not_found"
  ELSE IF v.approval # "pending" THEN "already_final"
  ELSE IF StaleEvidence(v) THEN "content_influence_mismatch"
  ELSE IF v.late THEN "expired"
  ELSE "finalized"

CloseAnswer(v, r) ==
  IF v.approval = "none" THEN "not_found"
  ELSE IF v.approval # "pending" THEN "already_final"
  ELSE IF v.late THEN "expired"
  ELSE IF r.op = "expire" THEN "authorization_mismatch"
  ELSE IF r.op = "reject" THEN "rejected" ELSE "cancelled"

---------------------------------------------------------------------------
(* The plain path: reservation, dispatch of a local tool, outcomes.        *)

ReserveAnswer(v) ==
  IF v.toolCall.status = "none" THEN "not_found"
  ELSE IF v.approval # "approved" \/ v.late \/ ~v.receipt.present THEN "binding_mismatch"
  ELSE IF v.attempt.state # "none" THEN "existing"
  ELSE "reserved"

TerminalStates == {"succeeded", "failed_after_dispatch", "unknown_outcome"}

BindAnswer(v) ==
  IF v.attempt.state = "none" THEN "not_found"
  ELSE IF v.attempt.state # "reserved" THEN "state_mismatch"
  ELSE IF v.attempt.bound THEN "already_bound"
  ELSE "bound"

DispatchAnswer(v) ==
  IF v.attempt.state = "none" THEN "not_found"
  ELSE IF v.attempt.state \in TerminalStates THEN "already_terminal"
  ELSE IF StaleEvidence(v) THEN "content_influence_mismatch"
  ELSE IF v.attempt.state # "reserved" THEN "state_mismatch"
  ELSE "transitioned"

SettledState(body) ==
  IF body \in Succeeding THEN "succeeded" ELSE "failed_after_dispatch"

(* settle ends a dispatched attempt with a known outcome, giveUp with an
   unknown one. *)
SettleAnswer(v, r) ==
  LET next == IF r.op = "giveUp" THEN "unknown_outcome" ELSE SettledState(r.body)
  IN  IF v.attempt.state = "none" THEN "not_found"
      ELSE IF v.attempt.state = next /\ v.attempt.outcome = r.body THEN "replay"
      ELSE IF v.attempt.state \in TerminalStates THEN "already_terminal"
      ELSE IF v.attempt.state # "dispatched" THEN "state_mismatch"
      ELSE "transitioned"

ReceiptOutcomeAnswer(v) ==
  IF ~v.receipt.present THEN "not_found"
  ELSE IF v.receipt.outcome # None THEN "existing"
  ELSE "recorded"

---------------------------------------------------------------------------
(* The prepared path: publication, consumption, outcomes.                  *)

(* The candidate is derived from the approval alone, so every publication
   of the action brings the same one. *)
Published(v) ==
  [v EXCEPT !.toolCall.status = "authorized",
            !.receipt = [present |-> TRUE, outcome |-> None],
            !.grant = "issued",
            !.attempt = [state |-> "reserved", bound |-> TRUE, outcome |-> None]]

PublicationExists(v) ==
  \/ v.receipt.present \/ v.grant # "none" \/ v.attempt.state # "none"
  \/ v.toolCall.status = "authorized"

PublishAnswer(v) ==
  IF v.toolCall.status = "none" \/ v.approval = "none" THEN "not_found"
  ELSE IF PublicationExists(v) THEN
    IF v = Published(v) THEN "replay" ELSE "conflict"
  ELSE IF v.approval # "approved" \/ v.toolCall.status # "pending_approval" THEN
    "state_mismatch"
  ELSE "created"

ConsumeAnswer(v) ==
  IF v.attempt.state = "none" THEN "attempt_not_found"
  ELSE IF v.grant = "none" THEN "grant_not_found"
  ELSE IF v.grant = "consumed" THEN "grant_already_consumed"
  ELSE IF v.attempt.state # "reserved" THEN "attempt_state_mismatch"
  ELSE IF ~v.attempt.bound THEN "binding_mismatch"
  ELSE IF StaleEvidence(v) THEN "content_influence_mismatch"
  ELSE "dispatched"

ToolCallStatus(body) == IF body \in Succeeding THEN "executed" ELSE "failed"

(* The three records an outcome is projected onto all show it. *)
ShowsOutcome(v, body) ==
  /\ v.toolCall = [status |-> ToolCallStatus(body), outcome |-> body]
  /\ v.receipt.outcome = body

ConflictDisposition(state) ==
  CASE state \in {"dispatched", "unknown_outcome"} -> "reconciliation_required"
    [] state = "reserved" -> "state_mismatch"
    [] OTHER -> "conflict"

RecordAnswer(v, r) ==
  IF v.attempt.state = "none" \/ ~v.receipt.present \/ v.grant = "none" THEN
    "not_found"
  ELSE IF v.grant # "consumed" THEN "binding_mismatch"
  ELSE IF /\ v.attempt.state = SettledState(r.body) /\ v.attempt.outcome = r.body
          /\ ShowsOutcome(v, r.body) THEN "replay"
  ELSE IF /\ v.toolCall.status = "authorized" /\ v.receipt.outcome = None
          /\ v.attempt.state = "dispatched" THEN "recorded"
  ELSE ConflictDisposition(v.attempt.state)

AdoptAnswer(v, r) ==
  IF v.attempt.state = "none" \/ ~v.receipt.present \/ v.grant = "none" THEN
    "not_found"
  ELSE IF v.attempt.state \in {"dispatched", "unknown_outcome"} THEN
    "reconciliation_required"
  ELSE IF v.attempt.state = "reserved" THEN "state_mismatch"
  ELSE IF ShowsOutcome(v, r.body) THEN "replay"
  ELSE IF \/ v.grant # "consumed" \/ v.toolCall.status # "authorized"
          \/ v.attempt.outcome # r.body THEN "binding_mismatch"
  ELSE IF v.receipt.outcome \notin {None, r.body} THEN "conflict"
  ELSE "adopted"

---------------------------------------------------------------------------
Answer(r, v) ==
  CASE r.op = "create"  -> CreateAnswer(v, r)
    [] r.op = "expose"  -> ExposeAnswer(v)
    [] r.op = "decide"  -> DecideAnswer(v)
    [] r.op \in Closings -> CloseAnswer(v, r)
    [] r.op \in {"write", "openReceipt", "issue"} -> "written"
    [] r.op = "reserve" -> ReserveAnswer(v)
    [] r.op = "bind"    -> BindAnswer(v)
    [] r.op = "dispatch" -> DispatchAnswer(v)
    [] r.op \in {"settle", "giveUp"} -> SettleAnswer(v, r)
    [] r.op = "receiptOutcome" -> ReceiptOutcomeAnswer(v)
    [] r.op = "publish" -> PublishAnswer(v)
    [] r.op = "consume" -> ConsumeAnswer(v)
    [] r.op = "record"  -> RecordAnswer(v, r)
    [] r.op = "adopt"   -> AdoptAnswer(v, r)

(* The answers that tell a caller its operation changed the records. *)
Winning ==
  {"created", "finalized", "rejected", "cancelled", "expired", "reserved",
   "bound", "transitioned", "dispatched", "recorded", "adopted", "written"}

(* The records an operation leaves when it wins. *)
Effect(r, v) ==
  CASE r.op = "create"  -> Created(v, r)
    [] r.op = "expose"  -> [v EXCEPT !.scope = v.scope + 1]
    [] r.op = "decide"  -> [v EXCEPT !.approval = IF v.late THEN "expired" ELSE "approved"]
    [] r.op \in Closings ->
         [v EXCEPT !.approval = IF v.late THEN "expired" ELSE CloseAnswer(v, r)]
    [] r.op = "write" -> [v EXCEPT !.toolCall = [status |-> "failed", outcome |-> None]]
    [] r.op = "openReceipt" -> [v EXCEPT !.receipt.present = TRUE]
    [] r.op = "issue" -> [v EXCEPT !.grant = IF v.grant = "none" THEN "issued" ELSE v.grant]
    [] r.op = "reserve" -> [v EXCEPT !.attempt.state = "reserved"]
    [] r.op = "bind" -> [v EXCEPT !.attempt.bound = TRUE]
    [] r.op = "dispatch" -> [v EXCEPT !.attempt.state = "dispatched"]
    [] r.op = "settle" ->
         [v EXCEPT !.attempt.state = SettledState(r.body), !.attempt.outcome = r.body]
    [] r.op = "giveUp" -> [v EXCEPT !.attempt.state = "unknown_outcome"]
    [] r.op = "receiptOutcome" -> [v EXCEPT !.receipt.outcome = r.body]
    [] r.op = "publish" -> Published(v)
    [] r.op = "consume" ->
         [v EXCEPT !.grant = "consumed", !.attempt.state = "dispatched"]
    [] r.op = "record" ->
         [v EXCEPT !.attempt.state = SettledState(r.body),
                   !.attempt.outcome = r.body,
                   !.receipt.outcome = r.body,
                   !.toolCall = [status |-> ToolCallStatus(r.body), outcome |-> r.body]]
    [] r.op = "adopt" ->
         [v EXCEPT !.receipt.outcome = r.body,
                   !.toolCall = [status |-> ToolCallStatus(r.body), outcome |-> r.body]]

Wins(r, v) == Answer(r, v) \in Winning

After(r, v) == IF Wins(r, v) THEN Effect(r, v) ELSE v
=============================================================================
