----------------------------- MODULE StoreProofs -----------------------------
(***************************************************************************)
(* Proofs about the stores, for any number of calls and bodies: what the   *)
(* operations of StoreRecords preserve of the records; that the SQLite     *)
(* store, which reads records one by one before its transaction, performs  *)
(* every operation of ActionStore in one step; and that the Postgres store *)
(* does, which locks rows one after another and decides on what it saw,    *)
(* and in one order of rows but for publications.                          *)
(***************************************************************************)
EXTENDS SqliteStore, PostgresStore, TLAPS

(* The records of an action: nothing precedes its creation, which stores the
   tool call, and an attempt of a prepared action is published
   with its receipt and grant. *)
RecordsInv(v) ==
  /\ v \in Views
  /\ v.key = None =>
       /\ v.toolCall.status = "none" /\ v.approval = "none"
       /\ v.toolCall.outcome = None
       /\ ~v.receipt.present /\ v.grant = "none" /\ v.attempt.state = "none"
  /\ v.key # None => v.toolCall.status # "none"
  /\ v.key \in Preparing /\ v.toolCall.status = "pending_approval" =>
       ~v.receipt.present /\ v.grant = "none" /\ v.attempt.state = "none"
  /\ v.key \in Preparing /\ v.attempt.state # "none" =>
       v.receipt.present /\ v.grant # "none"

(* What remains true of a legal request, whatever other calls do. *)
Admitted(v, r) ==
  /\ r \in StoreRequests
  /\ v.key = None => r.op = "create"
  /\ r.op \in {"publish", "record", "adopt"} => v.key \in Preparing
  /\ r.op \in {"reserve", "openReceipt", "issue"} => v.key \notin Preparing

(* An adoption that finds its outcome adopted writes it again. *)
AdoptsAgain(r, v) ==
  /\ r.op = "adopt" /\ v.attempt.state # "none"
  /\ v.attempt.outcome = r.body /\ v.grant = "consumed"
  /\ v.receipt.outcome \in {None, r.body}
  /\ v.toolCall.status = ToolCallStatus(r.body)

---------------------------------------------------------------------------
(* The operations on the records. *)

LEMMA NothingIsRecorded == RecordsInv(NoRecords) /\ NoRecords.late = FALSE
BY DEF RecordsInv, NoRecords, Views, ToolCallRows, ReceiptRows, AttemptRows, None

LEMMA LegalIsAdmitted ==
  ASSUME NEW v, NEW r \in StoreRequests, Legal(v, r)
  PROVE  Admitted(v, r)
BY DEF Legal, Admitted

LEMMA RequestOps ==
  ASSUME NEW r \in StoreRequests
  PROVE  /\ r.op \in {"create", "record", "adopt", "settle", "receiptOutcome",
                      "reject", "cancel", "expire", "expose", "decide", "write",
                      "openReceipt", "issue", "reserve", "bind", "dispatch",
                      "giveUp", "publish", "consume"}
         /\ r.op \in {"create"} \cup Outcomes => r.body \in Bodies /\ r.body # None
BY BodiesAssumption DEF StoreRequests, Outcomes, Closings, None

(* The records as an operation on the idempotency key, the scope or the
   approval leaves them. *)
LEMMA DecisionKeeps ==
  ASSUME NEW v, RecordsInv(v), NEW r, Admitted(v, r), Wins(r, v),
         r.op \in {"create", "expose", "decide"} \cup Closings
  PROVE  /\ RecordsInv(Effect(r, v)) /\ Effect(r, v).late = v.late
         /\ v.key # None => Effect(r, v).key = v.key
<1>. USE DEF Admitted
<1>1. CASE r.op = "create"
  <2>. DEFINE toolCall == [v.toolCall EXCEPT !.status = "pending_approval"]
  <2>1. v.key = None
    BY <1>1 DEF Wins, Winning, Answer, CreateAnswer, Closings
  <2>2. r.body \in Bodies /\ r.body # None
    BY <1>1, RequestOps
  <2>3. toolCall \in ToolCallRows /\ toolCall.status = "pending_approval"
    BY DEF RecordsInv, Views, ToolCallRows
  <2>. DEFINE w == [v EXCEPT !.key = r.body, !.approval = "pending", !.toolCall = toolCall]
  <2>4. Effect(r, v) = w
    BY <1>1 DEF Effect, Created, Closings
  <2>5. /\ w \in Views /\ w.late = v.late /\ w.key = r.body /\ w.approval = "pending"
        /\ w.toolCall = toolCall /\ w.attempt = v.attempt
        /\ w.receipt = v.receipt /\ w.grant = v.grant
    BY <2>2, <2>3 DEF RecordsInv, Views
  <2>. HIDE DEF w, toolCall
  <2>. QED  BY <2>1, <2>2, <2>3, <2>4, <2>5 DEF RecordsInv
<1>2. CASE r.op = "expose"
  <2>1. v.scope = 0
    BY <1>2 DEF Wins, Winning, Answer, ExposeAnswer, Closings
  <2>. DEFINE w == [v EXCEPT !.scope = 1]
  <2>2. Effect(r, v) = w
    BY <1>2, <2>1 DEF Effect, Closings
  <2>3. /\ w \in Views /\ w.late = v.late /\ w.key = v.key /\ w.approval = v.approval
        /\ w.toolCall = v.toolCall /\ w.attempt = v.attempt
        /\ w.receipt = v.receipt /\ w.grant = v.grant
    BY DEF RecordsInv, Views
  <2>. HIDE DEF w
  <2>. QED  BY <2>2, <2>3 DEF RecordsInv
<1>3. CASE r.op \in {"decide"} \cup Closings
  <2>1. v.approval = "pending"
    <3>1. CASE r.op = "decide"
      BY <3>1 DEF Wins, Winning, Answer, DecideAnswer, Closings
    <3>2. CASE r.op \in Closings
      <4>1. Answer(r, v) = CloseAnswer(v, r)
        BY <3>2 DEF Answer, Closings
      <4>. QED  BY <3>2, <4>1 DEF Wins, Winning, CloseAnswer, Closings
    <3>. QED  BY <1>3, <3>1, <3>2
  <2>2. \E a \in {"approved", "rejected", "cancelled", "expired"} :
           Effect(r, v) = [v EXCEPT !.approval = a]
    <3>1. CASE r.op = "decide"
      BY <3>1 DEF Effect, Closings
    <3>2. CASE r.op \in Closings
      <4>1. Answer(r, v) = CloseAnswer(v, r)
        BY <3>2 DEF Answer, Closings
      <4>2. v.late \/ CloseAnswer(v, r) \in {"rejected", "cancelled"}
        BY <3>2, <4>1 DEF Wins, Winning, CloseAnswer, Closings
      <4>. QED  BY <3>2, <4>2 DEF Effect, Closings
    <3>. QED  BY <1>3, <3>1, <3>2
  <2>3. PICK a \in {"approved", "rejected", "cancelled", "expired"} :
           Effect(r, v) = [v EXCEPT !.approval = a]
    BY <2>2
  <2>. DEFINE w == [v EXCEPT !.approval = a]
  <2>4. /\ w \in Views /\ w.late = v.late /\ w.key = v.key /\ w.approval = a
        /\ w.toolCall = v.toolCall /\ w.attempt = v.attempt
        /\ w.receipt = v.receipt /\ w.grant = v.grant
    BY DEF RecordsInv, Views
  <2>. HIDE DEF w
  <2>5. Effect(r, v) = w
    BY <2>3 DEF w
  <2>. QED  BY <2>1, <2>4, <2>5 DEF RecordsInv
<1>. QED  BY <1>1, <1>2, <1>3

(* The changes that leave key, scope, approval and time alone. *)
Replaced(v, toolCall, receipt, grant, attempt) ==
  [v EXCEPT !.toolCall = toolCall, !.receipt = receipt,
            !.grant = grant, !.attempt = attempt]

LEMMA ReplacedKeeps ==
  ASSUME NEW v, RecordsInv(v), v.key # None,
         NEW toolCall \in ToolCallRows, toolCall.status # "none",
         NEW receipt \in ReceiptRows, NEW grant \in {"none", "issued", "consumed"},
         NEW attempt \in AttemptRows,
         v.key \in Preparing /\ attempt.state # "none" => receipt.present /\ grant # "none",
         v.key \in Preparing /\ toolCall.status = "pending_approval" =>
           ~receipt.present /\ grant = "none" /\ attempt.state = "none"
  PROVE  LET w == Replaced(v, toolCall, receipt, grant, attempt)
         IN  RecordsInv(w) /\ w.late = v.late /\ w.key = v.key
<1>. DEFINE w == Replaced(v, toolCall, receipt, grant, attempt)
<1>1. /\ w \in Views /\ w.late = v.late /\ w.key = v.key
      /\ w.toolCall = toolCall /\ w.receipt = receipt
      /\ w.grant = grant /\ w.attempt = attempt
  BY DEF RecordsInv, Views, Replaced
<1>. HIDE DEF w
<1>2. RecordsInv(w)
  BY <1>1 DEF RecordsInv
<1>. QED  BY <1>1, <1>2 DEF w

(* The operations on an attempt. *)
LEMMA AttemptKeeps ==
  ASSUME NEW v, RecordsInv(v), NEW r, Admitted(v, r), Wins(r, v),
         r.op \in {"reserve", "bind", "dispatch", "settle", "giveUp", "consume"}
  PROVE  /\ RecordsInv(Effect(r, v)) /\ Effect(r, v).late = v.late
         /\ Effect(r, v).key = v.key
<1>1. v.key # None /\ (r.op = "settle" => r.body \in Bodies)
  BY RequestOps DEF Admitted, Outcomes
<1>2. \E grant \in {"none", "issued", "consumed"}, attempt \in AttemptRows :
         /\ Effect(r, v) = Replaced(v, v.toolCall, v.receipt, grant, attempt)
         /\ v.grant # "none" => grant # "none"
         /\ v.attempt.state = "none" => r.op = "reserve"
  <2>. USE DEF RecordsInv, Views, Closings, Wins, Winning, Answer
  <2>1. CASE r.op = "reserve"
    <3>1. Effect(r, v) =
            Replaced(v, v.toolCall, v.receipt, v.grant,
                     [v.attempt EXCEPT !.state = "reserved"])
      BY <2>1 DEF Effect, Replaced
    <3>2. [v.attempt EXCEPT !.state = "reserved"] \in AttemptRows
      BY DEF AttemptRows
    <3>. QED  BY <2>1, <3>1, <3>2
  <2>2. CASE r.op = "bind"
    <3>1. Effect(r, v) =
            Replaced(v, v.toolCall, v.receipt, v.grant,
                     [v.attempt EXCEPT !.bound = TRUE])
      BY <2>2 DEF Effect, Replaced
    <3>2. [v.attempt EXCEPT !.bound = TRUE] \in AttemptRows
      BY DEF AttemptRows
    <3>3. v.attempt.state # "none"
      BY <2>2 DEF BindAnswer
    <3>. QED  BY <3>1, <3>2, <3>3
  <2>3. CASE r.op = "dispatch"
    <3>1. Effect(r, v) =
            Replaced(v, v.toolCall, v.receipt, v.grant,
                     [v.attempt EXCEPT !.state = "dispatched"])
      BY <2>3 DEF Effect, Replaced
    <3>2. [v.attempt EXCEPT !.state = "dispatched"] \in AttemptRows
      BY DEF AttemptRows
    <3>3. v.attempt.state # "none"
      BY <2>3 DEF DispatchAnswer
    <3>. QED  BY <3>1, <3>2, <3>3
  <2>4. CASE r.op = "settle"
    <3>. DEFINE attempt == [v.attempt EXCEPT !.state = SettledState(r.body),
                                        !.outcome = r.body]
    <3>1. Effect(r, v) = Replaced(v, v.toolCall, v.receipt, v.grant, attempt)
      BY <2>4 DEF Effect, Replaced
    <3>2. attempt \in AttemptRows
      BY <1>1, <2>4 DEF AttemptRows, SettledState
    <3>3. v.attempt.state # "none"
      BY <2>4 DEF SettleAnswer
    <3>. QED  BY <3>1, <3>2, <3>3
  <2>5. CASE r.op = "giveUp"
    <3>1. Effect(r, v) =
            Replaced(v, v.toolCall, v.receipt, v.grant,
                     [v.attempt EXCEPT !.state = "unknown_outcome"])
      BY <2>5 DEF Effect, Replaced
    <3>2. [v.attempt EXCEPT !.state = "unknown_outcome"] \in AttemptRows
      BY DEF AttemptRows
    <3>3. v.attempt.state # "none"
      BY <2>5 DEF SettleAnswer
    <3>. QED  BY <3>1, <3>2, <3>3
  <2>6. CASE r.op = "consume"
    <3>1. Effect(r, v) =
            Replaced(v, v.toolCall, v.receipt, "consumed",
                     [v.attempt EXCEPT !.state = "dispatched"])
      BY <2>6 DEF Effect, Replaced
    <3>2. [v.attempt EXCEPT !.state = "dispatched"] \in AttemptRows
      BY DEF AttemptRows
    <3>3. v.attempt.state # "none"
      BY <2>6 DEF ConsumeAnswer
    <3>. QED  BY <3>1, <3>2, <3>3
  <2>. QED  BY <2>1, <2>2, <2>3, <2>4, <2>5, <2>6
<1>3. PICK grant \in {"none", "issued", "consumed"}, attempt \in AttemptRows :
         /\ Effect(r, v) = Replaced(v, v.toolCall, v.receipt, grant, attempt)
         /\ v.grant # "none" => grant # "none"
         /\ v.attempt.state = "none" => r.op = "reserve"
  BY <1>2
<1>4. /\ v.toolCall \in ToolCallRows /\ v.toolCall.status # "none"
      /\ v.receipt \in ReceiptRows
      /\ v.key \in Preparing => v.receipt.present /\ grant # "none"
      /\ v.key \in Preparing => v.toolCall.status # "pending_approval"
  BY <1>1, <1>3 DEF RecordsInv, Views, Admitted
<1>5. LET w == Replaced(v, v.toolCall, v.receipt, grant, attempt)
      IN  RecordsInv(w) /\ w.late = v.late /\ w.key = v.key
  BY <1>1, <1>4, ReplacedKeeps
<1>. QED  BY <1>3, <1>5

(* The other operations: plain writes, publications and outcomes. *)
LEMMA RecordingKeeps ==
  ASSUME NEW v, RecordsInv(v), NEW r, Admitted(v, r),
         Wins(r, v) \/ AdoptsAgain(r, v),
         r.op \in {"write", "openReceipt", "issue", "publish", "record", "adopt",
                   "receiptOutcome"}
  PROVE  /\ RecordsInv(Effect(r, v)) /\ Effect(r, v).late = v.late
         /\ Effect(r, v).key = v.key
<1>1. v.key # None /\ (r.op \in Outcomes => r.body \in Bodies)
  BY RequestOps DEF Admitted
<1>2. \E toolCall \in ToolCallRows, receipt \in ReceiptRows,
         grant \in {"none", "issued", "consumed"}, attempt \in AttemptRows :
         /\ Effect(r, v) = Replaced(v, toolCall, receipt, grant, attempt)
         /\ toolCall.status # "none"
         /\ v.receipt.present => receipt.present
         /\ v.grant # "none" => grant # "none"
         /\ v.attempt.state = "none" /\ attempt.state # "none" =>
              \/ receipt.present /\ grant # "none"
              \/ r.op \in {"record", "adopt"}
         /\ toolCall.status = "pending_approval" =>
              \/ r.op \in {"openReceipt", "issue"}
              \/ toolCall = v.toolCall /\ v.receipt.present
  <2>. USE DEF RecordsInv, Views, Closings, Outcomes
  <2>1. CASE r.op = "write"
    <3>. DEFINE toolCall == [status |-> "failed", outcome |-> None]
    <3>1. Effect(r, v) = Replaced(v, toolCall, v.receipt, v.grant, v.attempt)
      BY <2>1 DEF Effect, Replaced
    <3>2. toolCall \in ToolCallRows /\ toolCall.status = "failed"
      BY DEF ToolCallRows
    <3>. HIDE DEF toolCall
    <3>. QED  BY <3>1, <3>2
  <2>2. CASE r.op = "openReceipt"
    <3>. DEFINE receipt == [v.receipt EXCEPT !.present = TRUE]
    <3>1. Effect(r, v) = Replaced(v, v.toolCall, receipt, v.grant, v.attempt)
      BY <2>2 DEF Effect, Replaced
    <3>2. receipt \in ReceiptRows /\ receipt.present
      BY DEF ReceiptRows
    <3>. HIDE DEF receipt
    <3>. QED  BY <1>1, <2>2, <3>1, <3>2
  <2>3. CASE r.op = "issue"
    <3>. DEFINE grant == IF v.grant = "none" THEN "issued" ELSE v.grant
    <3>1. Effect(r, v) = Replaced(v, v.toolCall, v.receipt, grant, v.attempt)
      BY <2>3 DEF Effect, Replaced
    <3>2. grant \in {"none", "issued", "consumed"} /\ grant # "none"
      OBVIOUS
    <3>. HIDE DEF grant
    <3>. QED  BY <1>1, <2>3, <3>1, <3>2
  <2>4. CASE r.op = "publish"
    <3>. DEFINE toolCall == [v.toolCall EXCEPT !.status = "authorized"]
                receipt == [present |-> TRUE, outcome |-> None]
                attempt == [state |-> "reserved", bound |-> TRUE, outcome |-> None]
    <3>1. Effect(r, v) = Replaced(v, toolCall, receipt, "issued", attempt)
      BY <2>4 DEF Effect, Replaced, Published
    <3>2. /\ toolCall \in ToolCallRows /\ toolCall.status = "authorized"
          /\ receipt \in ReceiptRows /\ receipt.present
          /\ attempt \in AttemptRows
      BY DEF ToolCallRows, ReceiptRows, AttemptRows
    <3>. HIDE DEF toolCall, receipt, attempt
    <3>. QED  BY <3>1, <3>2
  <2>5. CASE r.op = "record"
    <3>. DEFINE toolCall == [status |-> ToolCallStatus(r.body), outcome |-> r.body]
                receipt == [v.receipt EXCEPT !.outcome = r.body]
                attempt == [v.attempt EXCEPT !.state = SettledState(r.body),
                                        !.outcome = r.body]
    <3>1. Effect(r, v) = Replaced(v, toolCall, receipt, v.grant, attempt)
      BY <2>5 DEF Effect, Replaced
    <3>2. /\ toolCall \in ToolCallRows /\ toolCall.status \in {"executed", "failed"}
          /\ receipt \in ReceiptRows /\ receipt.present = v.receipt.present
          /\ attempt \in AttemptRows
      BY <1>1, <2>5 DEF ToolCallRows, ReceiptRows, AttemptRows, ToolCallStatus, SettledState
    <3>. HIDE DEF toolCall, receipt, attempt
    <3>. QED  BY <2>5, <3>1, <3>2
  <2>6. CASE r.op = "adopt"
    <3>. DEFINE toolCall == [status |-> ToolCallStatus(r.body), outcome |-> r.body]
                receipt == [v.receipt EXCEPT !.outcome = r.body]
    <3>1. Effect(r, v) = Replaced(v, toolCall, receipt, v.grant, v.attempt)
      BY <2>6 DEF Effect, Replaced
    <3>2. /\ toolCall \in ToolCallRows /\ toolCall.status \in {"executed", "failed"}
          /\ receipt \in ReceiptRows /\ receipt.present = v.receipt.present
      BY <1>1, <2>6 DEF ToolCallRows, ReceiptRows, ToolCallStatus
    <3>. HIDE DEF toolCall, receipt
    <3>. QED  BY <3>1, <3>2
  <2>7. CASE r.op = "receiptOutcome"
    <3>. DEFINE receipt == [v.receipt EXCEPT !.outcome = r.body]
    <3>1. Effect(r, v) = Replaced(v, v.toolCall, receipt, v.grant, v.attempt)
      BY <2>7 DEF Effect, Replaced
    <3>2. receipt \in ReceiptRows /\ receipt.present = v.receipt.present /\ v.receipt.present
      BY <1>1, <2>7 DEF ReceiptRows, AdoptsAgain, Wins, Winning, Answer, ReceiptOutcomeAnswer
    <3>3. /\ v.toolCall \in ToolCallRows /\ v.toolCall.status # "none"
          /\ v.grant \in {"none", "issued", "consumed"} /\ v.attempt \in AttemptRows
      BY <1>1
    <3>. HIDE DEF receipt, RecordsInv, Views, Closings, Outcomes
    <3>. QED  BY <3>1, <3>2, <3>3
  <2>. QED  BY <2>1, <2>2, <2>3, <2>4, <2>5, <2>6, <2>7
<1>3. PICK toolCall \in ToolCallRows, receipt \in ReceiptRows,
         grant \in {"none", "issued", "consumed"}, attempt \in AttemptRows :
         /\ Effect(r, v) = Replaced(v, toolCall, receipt, grant, attempt)
         /\ toolCall.status # "none"
         /\ v.receipt.present => receipt.present
         /\ v.grant # "none" => grant # "none"
         /\ v.attempt.state = "none" /\ attempt.state # "none" =>
              \/ receipt.present /\ grant # "none"
              \/ r.op \in {"record", "adopt"}
         /\ toolCall.status = "pending_approval" =>
              \/ r.op \in {"openReceipt", "issue"}
              \/ toolCall = v.toolCall /\ v.receipt.present
  BY <1>2
<1>4. r.op \in {"record", "adopt"} => v.grant # "none" /\ v.receipt.present
  <2>1. Wins(r, v) /\ r.op = "record" => v.grant # "none" /\ v.receipt.present
    BY DEF Wins, Winning, Answer, RecordAnswer, ConflictDisposition, Closings
  <2>2. Wins(r, v) /\ r.op = "adopt" => v.grant # "none" /\ v.receipt.present
    BY DEF Wins, Winning, Answer, AdoptAnswer, Closings
  <2>3. AdoptsAgain(r, v) => r.op = "adopt" /\ v.grant # "none" /\ v.receipt.present
    BY <1>1, RequestOps DEF AdoptsAgain, RecordsInv, Views, Admitted
  <2>. QED  BY <2>1, <2>2, <2>3
<1>5. v.key \in Preparing /\ attempt.state # "none" => receipt.present /\ grant # "none"
  BY <1>1, <1>3, <1>4 DEF RecordsInv
<1>6. ~(v.key \in Preparing /\ toolCall.status = "pending_approval")
  BY <1>3 DEF RecordsInv, Admitted
<1>7. LET w == Replaced(v, toolCall, receipt, grant, attempt)
      IN  RecordsInv(w) /\ w.late = v.late /\ w.key = v.key
  BY <1>1, <1>3, <1>5, <1>6, ReplacedKeeps
<1>. QED  BY <1>3, <1>7

(* Whatever an admitted request does, the records keep their invariant. *)
LEMMA EffectKeeps ==
  ASSUME NEW v, RecordsInv(v), NEW r, Admitted(v, r), Wins(r, v) \/ AdoptsAgain(r, v)
  PROVE  /\ RecordsInv(Effect(r, v)) /\ Effect(r, v).late = v.late
         /\ v.key # None => Effect(r, v).key = v.key
<1>1. r \in StoreRequests
  BY DEF Admitted
<1>2. AdoptsAgain(r, v) => r.op = "adopt"
  BY DEF AdoptsAgain
<1>. QED
  BY <1>1, <1>2, RequestOps, DecisionKeeps, AttemptKeeps, RecordingKeeps DEF Closings

---------------------------------------------------------------------------
(* The SQLite store: the preconditions in the SQL of an operation suffice for
   it to win, whatever the queries before its transaction had read. *)
LEMMA HoldsSuffice ==
  ASSUME NEW v, RecordsInv(v), NEW r, Admitted(v, r), NEW seen,
         Proceeds(r, seen), Holds(r, v, seen)
  PROVE  Wins(r, v) \/ AdoptsAgain(r, v)
<1>. USE DEF Closings, Wins, Winning, Answer, Holds
<1>1. CASE r.op = "create"
  BY <1>1 DEF CreateHolds, CreateAnswer
<1>2. CASE r.op = "expose"
  BY <1>2 DEF ExposeHolds, ExposeAnswer
<1>3. CASE r.op = "decide"
  BY <1>3 DEF VoteHolds, DecideAnswer, StaleEvidence
<1>4. CASE r.op \in Closings
  <2>1. Answer(r, v) = CloseAnswer(v, r)
    BY <1>4
  <2>2. v.approval = "pending" /\ (v.late <=> r.op = "expire")
    BY <1>4 DEF RejectHolds, CancelHolds, ExpireHolds
  <2>. QED  BY <1>4, <2>1, <2>2 DEF CloseAnswer
<1>5. CASE r.op = "reserve"
  BY <1>5 DEF ReserveHolds, InsertHolds, ReserveAnswer, Admitted, RecordsInv
<1>6. CASE r.op = "dispatch"
  BY <1>6 DEF DispatchHolds, DispatchAnswer, StaleEvidence, TerminalStates
<1>7. CASE r.op \in {"settle", "giveUp"}
  BY <1>7 DEF EndHolds, SettleAnswer, SettledState, TerminalStates
<1>8. CASE r.op = "bind"
  BY <1>8 DEF BindHolds, BindAnswer
<1>9. CASE r.op = "consume"
  BY <1>9 DEF ConsumeHolds, ConsumeAnswer, StaleEvidence
<1>10. CASE r.op = "publish"
  BY <1>10 DEF PublishHolds, PublishAnswer, PublicationExists
<1>11. CASE r.op = "record"
  <2>1. v.receipt.present /\ v.grant # "none"
    BY <1>11 DEF RecordHolds, Admitted, RecordsInv
  <2>. QED
    BY <1>11, <2>1 DEF RecordHolds, RecordAnswer, SettledState
<1>12. CASE r.op = "adopt"
  <2>1. AdoptAnswer(seen, r) = "adopted"
    BY <1>12 DEF Proceeds, AdoptAnswer
  <2>2. /\ seen.attempt.state \notin {"none", "dispatched", "unknown_outcome", "reserved"}
        /\ seen.attempt.outcome = r.body
    BY <2>1 DEF AdoptAnswer
  <2>3. /\ v.attempt.state \notin {"none", "dispatched", "unknown_outcome", "reserved"}
        /\ v.attempt.outcome = r.body /\ v.grant = "consumed"
        /\ v.receipt.outcome \in {None, r.body}
        /\ v.toolCall.status \in {"authorized", ToolCallStatus(r.body)}
    BY <1>12, <2>2 DEF AdoptHolds
  <2>4. v.receipt.present
    BY <1>12, <2>3 DEF Admitted, RecordsInv
  <2>5. CASE v.toolCall.status = "authorized"
    <3>1. ~ShowsOutcome(v, r.body)
      BY <2>5 DEF ShowsOutcome, ToolCallStatus
    <3>. QED  BY <1>12, <2>3, <2>4, <2>5, <3>1 DEF AdoptAnswer
  <2>6. CASE v.toolCall.status = ToolCallStatus(r.body)
    BY <1>12, <2>3, <2>6 DEF AdoptsAgain
  <2>. QED  BY <2>3, <2>5, <2>6
<1>13. CASE r.op \in {"write", "openReceipt", "issue"}
  BY <1>13
<1>14. CASE r.op = "receiptOutcome"
  BY <1>14 DEF ReceiptOutcomeHolds, ReceiptOutcomeAnswer
<1>. HIDE DEF Wins, Winning, Answer, Holds
<1>15. \/ r.op \in {"create", "expose", "decide", "reserve", "dispatch", "bind"} \cup Closings
       \/ r.op \in {"settle", "giveUp", "consume", "publish", "record", "adopt"}
       \/ r.op \in {"write", "openReceipt", "issue", "receiptOutcome"}
  BY RequestOps DEF Admitted
<1>. QED
  BY <1>1, <1>2, <1>3, <1>4, <1>5, <1>6, <1>7, <1>8, <1>9, <1>10, <1>11, <1>12, <1>13, <1>14,
     <1>15

(* The records agree, and a request that reads before its transaction stays
   one that the records admit. *)
LiteInv ==
  /\ RecordsInv(liteRows)
  /\ liteCall \in [StoreCalls -> StoreRequests \cup {NoCall}]
  /\ litePhase \in [StoreCalls -> {"idle", "reading", "writing", "expiring"}]
  /\ \A c \in StoreCalls :
       litePhase[c] \in {"reading", "writing"} => Admitted(liteRows, liteCall[c])

(* A change of the records that keeps their key keeps what they admit. *)
LEMMA StillAdmitted ==
  ASSUME NEW v, NEW w, NEW r, Admitted(v, r), v.key # None => w.key = v.key
  PROVE  Admitted(w, r)
BY DEF Admitted

(* The promise speaks of the same operations. *)
LEMMA SameWins ==
  ASSUME NEW r, NEW v
  PROVE  LitePromise!Wins(r, v) <=> Wins(r, v)
BY DEF Wins, Winning, Answer, Closings, CreateAnswer, ExposeAnswer, DecideAnswer,
       CloseAnswer, StaleEvidence, ReserveAnswer, BindAnswer, DispatchAnswer,
       TerminalStates, SettleAnswer, SettledState, ReceiptOutcomeAnswer,
       PublishAnswer, PublicationExists, Published, ConsumeAnswer, RecordAnswer,
       AdoptAnswer, ShowsOutcome, ToolCallStatus, ConflictDisposition, None,
       LitePromise!Wins, LitePromise!Winning, LitePromise!Answer, LitePromise!Closings,
       LitePromise!CreateAnswer, LitePromise!ExposeAnswer, LitePromise!DecideAnswer,
       LitePromise!CloseAnswer, LitePromise!StaleEvidence, LitePromise!ReserveAnswer,
       LitePromise!BindAnswer, LitePromise!DispatchAnswer, LitePromise!TerminalStates,
       LitePromise!SettleAnswer, LitePromise!SettledState,
       LitePromise!ReceiptOutcomeAnswer, LitePromise!PublishAnswer,
       LitePromise!PublicationExists, LitePromise!Published, LitePromise!ConsumeAnswer,
       LitePromise!RecordAnswer, LitePromise!AdoptAnswer, LitePromise!ShowsOutcome,
       LitePromise!ToolCallStatus, LitePromise!ConflictDisposition, LitePromise!None

LEMMA SameEffect ==
  ASSUME NEW r, NEW v
  PROVE  LitePromise!Effect(r, v) = Effect(r, v)
BY DEF Effect, Closings, Created, CloseAnswer, SettledState, Published, ToolCallStatus, None,
       LitePromise!Effect, LitePromise!Closings, LitePromise!Created,
       LitePromise!CloseAnswer, LitePromise!SettledState, LitePromise!Published,
       LitePromise!ToolCallStatus, LitePromise!None

LEMMA SameRequests ==
  ASSUME NEW r
  PROVE  LitePromise!ToolCallStatus(r.body) = ToolCallStatus(r.body)
         /\ LitePromise!StoreRequests = StoreRequests /\ LitePromise!None = None
         /\ LitePromise!NoRecords = NoRecords
BY DEF ToolCallStatus, StoreRequests, Closings, Outcomes, None, NoRecords,
       LitePromise!ToolCallStatus, LitePromise!StoreRequests, LitePromise!Closings,
       LitePromise!Outcomes, LitePromise!None, LitePromise!NoRecords

(* A transaction that wins, told or not, is a step of the promise. *)
LEMMA WinningIsPromised ==
  ASSUME LiteInv, NEW c \in StoreCalls, NEW r, Admitted(liteRows, r),
         Wins(r, liteRows) \/ AdoptsAgain(r, liteRows),
         liteRows' = Effect(r, liteRows), liteWon' \in {{c}, {}}
  PROVE  LitePromise!StoreNext
<1>. DEFINE times == [d \in StoreCalls |-> liteRows.late]
<1>1. r \in StoreRequests /\ liteRows \in Views
  BY DEF Admitted, LiteInv, RecordsInv
<1>2. liteRows'.late = liteRows.late /\ liteRows' \in Views
  BY EffectKeeps DEF LiteInv, RecordsInv
<1>3. LitePromise!TimePasses
  BY DEF LitePromise!TimePasses
<1>4. LitePromise!Judged(c) = liteRows
  BY <1>1 DEF LitePromise!Judged, Views
<1>5. [Effect(r, liteRows) EXCEPT !.late = liteRows.late] = liteRows'
  BY <1>2 DEF Views
<1>6. CASE Wins(r, liteRows)
  <2>1. LitePromise!Perform(c, r)
    BY <1>4, <1>5, <1>6, SameWins, SameEffect DEF LitePromise!Perform
  <2>. QED  BY <1>1, <1>3, <2>1, SameRequests DEF LitePromise!StoreNext
<1>7. CASE AdoptsAgain(r, liteRows)
  <2>1. LitePromise!Readopt(c, r)
    BY <1>7, SameEffect, SameRequests DEF LitePromise!Readopt, AdoptsAgain
  <2>. QED  BY <1>1, <1>3, <2>1, SameRequests DEF LitePromise!StoreNext
<1>. QED  BY <1>6, <1>7

(* A step that leaves the records alone and tells nobody of a change. *)
LEMMA IdlingIsPromised ==
  ASSUME liteRows' = liteRows, liteWon' = {}
  PROVE  LitePromise!StoreNext
<1>1. LitePromise!TimePasses
  BY DEF LitePromise!TimePasses
<1>. QED  BY <1>1 DEF LitePromise!StoreNext, LitePromise!Idle

(* What a call keeps when it ends, or goes on to expire the approval. *)
LEMMA EndingKeeps ==
  ASSUME LiteInv, NEW c \in StoreCalls, RecordsInv(liteRows'),
         liteRows.key # None => liteRows'.key = liteRows.key,
         \/ \E wins \in BOOLEAN : LiteTell(c, wins)
         \/ /\ litePhase' = [litePhase EXCEPT ![c] = "expiring"]
            /\ UNCHANGED liteCall
  PROVE  LiteInv'
<1>1. liteCall' \in [StoreCalls -> StoreRequests \cup {NoCall}]
  BY DEF LiteInv, LiteTell
<1>2. litePhase' \in [StoreCalls -> {"idle", "reading", "writing", "expiring"}]
  BY DEF LiteInv, LiteTell
<1>3. ASSUME NEW d \in StoreCalls, litePhase'[d] \in {"reading", "writing"}
      PROVE  Admitted(liteRows', liteCall'[d])
  <2>1. d # c /\ litePhase'[d] = litePhase[d] /\ liteCall'[d] = liteCall[d]
    BY <1>3 DEF LiteInv, LiteTell
  <2>2. Admitted(liteRows, liteCall[d])
    BY <1>3, <2>1 DEF LiteInv
  <2>. QED  BY <2>1, <2>2, StillAdmitted
<1>. QED  BY <1>1, <1>2, <1>3 DEF LiteInv

LEMMA TransactionIsPromised ==
  ASSUME LiteInv, NEW c \in StoreCalls, NEW r, Admitted(liteRows, r), Transaction(c, r)
  PROVE  LiteInv' /\ LitePromise!StoreNext
<1>. DEFINE wins == Proceeds(r, liteSeen[c]) /\ Holds(r, liteRows, liteSeen[c])
<1>1. \/ wins /\ (LiteTell(c, TRUE) \/ LiteTell(c, FALSE))
      \/ ~wins /\ \/ LiteTell(c, FALSE)
                  \/ /\ litePhase' = [litePhase EXCEPT ![c] = "expiring"]
                     /\ liteWon' = {}
                     /\ UNCHANGED <<liteCall, liteReads, liteSeen>>
  BY DEF Transaction
<1>2. CASE wins
  <2>1. Wins(r, liteRows) \/ AdoptsAgain(r, liteRows)
    BY <1>2, HoldsSuffice DEF LiteInv
  <2>2. liteRows' = Effect(r, liteRows)
    BY <1>2 DEF Transaction
  <2>3. RecordsInv(liteRows') /\ (liteRows.key # None => liteRows'.key = liteRows.key)
    BY <2>1, <2>2, EffectKeeps DEF LiteInv
  <2>4. LiteInv'
    BY <1>1, <1>2, <2>3, EndingKeeps
  <2>5. liteWon' \in {{c}, {}}
    BY <1>1, <1>2 DEF LiteTell
  <2>. QED  BY <2>1, <2>2, <2>4, <2>5, WinningIsPromised
<1>3. CASE ~wins
  <2>1. liteRows' = liteRows
    BY <1>3 DEF Transaction
  <2>2. liteWon' = {}
    BY <1>1, <1>3 DEF LiteTell
  <2>3. LiteInv'
    BY <1>1, <1>3, <2>1, EndingKeeps DEF LiteInv
  <2>. QED  BY <2>1, <2>2, <2>3, IdlingIsPromised
<1>. QED  BY <1>2, <1>3

(* A call that begins to read is one that the records admit. *)
LEMMA LiteCallKeeps ==
  ASSUME LiteInv, NEW c \in StoreCalls, NEW r \in StoreRequests, LiteCall(c, r)
  PROVE  LiteInv' /\ LitePromise!StoreNext
<1>1. Admitted(liteRows, r)
  BY LegalIsAdmitted DEF LiteCall
<1>2. LiteInv'
  BY <1>1 DEF LiteInv, LiteCall
<1>. QED  BY <1>2, IdlingIsPromised DEF LiteCall

LEMMA LiteReadKeeps ==
  ASSUME LiteInv, NEW c \in StoreCalls, LiteRead(c)
  PROVE  LiteInv' /\ LitePromise!StoreNext
<1>1. LiteInv'
  BY DEF LiteInv, LiteRead
<1>. QED  BY <1>1, IdlingIsPromised DEF LiteRead

(* The approval that a late decision finds is expired by a call of its own. *)
LEMMA LiteExpireKeeps ==
  ASSUME LiteInv, NEW c \in StoreCalls, LiteExpire(c)
  PROVE  LiteInv' /\ LitePromise!StoreNext
<1>. DEFINE expires == liteRows.approval = "pending" /\ liteRows.late
            r == [op |-> "expire", body |-> None]
<1>1. CASE expires
  <2>1. r.op = "expire" /\ r \in StoreRequests
    BY DEF StoreRequests, Closings
  <2>2. Admitted(liteRows, r)
    BY <1>1, <2>1 DEF Admitted, LiteInv, RecordsInv
  <2>. HIDE DEF r
  <2>3. Wins(r, liteRows)
    BY <1>1, <2>1 DEF Wins, Winning, Answer, CloseAnswer, Closings
  <2>4. liteRows' = Effect(r, liteRows)
    BY <1>1, <2>1 DEF LiteExpire, Effect, Closings
  <2>5. RecordsInv(liteRows') /\ (liteRows.key # None => liteRows'.key = liteRows.key)
    BY <2>2, <2>3, <2>4, EffectKeeps DEF LiteInv
  <2>6. LiteTell(c, TRUE)
    BY <1>1 DEF LiteExpire
  <2>7. LiteInv'
    BY <2>5, <2>6, EndingKeeps
  <2>8. liteWon' \in {{c}, {}}
    BY <2>6 DEF LiteTell
  <2>. QED  BY <2>2, <2>3, <2>4, <2>7, <2>8, WinningIsPromised
<1>2. CASE ~expires
  <2>1. liteRows' = liteRows /\ LiteTell(c, FALSE)
    BY <1>2 DEF LiteExpire
  <2>2. LiteInv'
    BY <2>1, EndingKeeps DEF LiteInv
  <2>. QED  BY <2>1, <2>2, IdlingIsPromised DEF LiteTell
<1>. QED  BY <1>1, <1>2

LEMMA LiteElapseKeeps ==
  ASSUME LiteInv, LiteElapse
  PROVE  LiteInv' /\ LitePromise!StoreNext
<1>1. liteRows \in Views
  BY DEF LiteInv, RecordsInv
<1>2. /\ liteRows' \in Views /\ liteRows'.key = liteRows.key
      /\ liteRows'.toolCall = liteRows.toolCall /\ liteRows'.approval = liteRows.approval
      /\ liteRows'.receipt = liteRows.receipt /\ liteRows'.grant = liteRows.grant
      /\ liteRows'.attempt = liteRows.attempt
  BY <1>1 DEF LiteElapse, Views
<1>3. RecordsInv(liteRows')
  BY <1>2 DEF LiteInv, RecordsInv
<1>4. LiteInv'
  BY <1>2, <1>3, StillAdmitted DEF LiteInv, LiteElapse
<1>5. LitePromise!Elapse /\ LitePromise!TimePasses
  BY DEF LitePromise!Elapse, LitePromise!TimePasses, LiteElapse
<1>. QED  BY <1>4, <1>5 DEF LitePromise!StoreNext

(* Initially the promise holds, and every step of the store is one of the
   promise, or changes nothing it speaks of. *)
LEMMA LiteStep ==
  ASSUME LiteInv, [SqliteNext]_liteVars
  PROVE  LiteInv' /\ [LitePromise!StoreNext]_<<liteRows, liteWon,
                                              [c \in StoreCalls |-> liteRows.late]>>
<1>1. ASSUME NEW c \in StoreCalls, NEW r \in StoreRequests, LiteAtOnce(c, r)
      PROVE  LiteInv' /\ LitePromise!StoreNext
  BY <1>1, LegalIsAdmitted, TransactionIsPromised DEF LiteAtOnce
<1>2. ASSUME NEW c \in StoreCalls, LiteWrite(c)
      PROVE  LiteInv' /\ LitePromise!StoreNext
  <2>1. Admitted(liteRows, liteCall[c])
    BY <1>2 DEF LiteInv, LiteWrite
  <2>. QED  BY <1>2, <2>1, TransactionIsPromised DEF LiteWrite
<1>3. ASSUME NEW c \in StoreCalls, LiteKilled(c)
      PROVE  LiteInv' /\ LitePromise!StoreNext
  <2>1. LiteInv'
    BY <1>3, EndingKeeps DEF LiteKilled, LiteInv
  <2>. QED  BY <1>3, <2>1, IdlingIsPromised DEF LiteKilled, LiteTell
<1>4. ASSUME UNCHANGED liteVars
      PROVE  LiteInv'
  BY <1>4 DEF LiteInv, liteVars
<1>. QED
  BY <1>1, <1>2, <1>3, <1>4, LiteCallKeeps, LiteReadKeeps, LiteExpireKeeps, LiteElapseKeeps
     DEF SqliteNext, liteVars

LEMMA LiteStart ==
  ASSUME SqliteInit
  PROVE  LiteInv /\ LitePromise!StoreInit
<1>1. LiteInv
  BY NothingIsRecorded DEF SqliteInit, LiteInv
<1>2. LitePromise!StoreInit
  BY NothingIsRecorded, SameRequests DEF SqliteInit, LitePromise!StoreInit
<1>. QED  BY <1>1, <1>2

(* Every reachable state of the SQLite store: the records agree, and what a
   call read may be stale, but not the kind of action it works on. *)
THEOREM SqliteInvariant == SqliteSpec => []LiteInv
<1>1. SqliteInit => LiteInv
  BY LiteStart
<1>2. LiteInv /\ [SqliteNext]_liteVars => LiteInv'
  BY LiteStep
<1>. QED  BY <1>1, <1>2, PTL DEF SqliteSpec

(* The SQLite store implements the promise of all stores, for any number of
   calls: each of its transactions performs an operation whole or not at all,
   although the records it read before may have changed since. *)
THEOREM SqliteImplements == SqliteSpec => SqliteKeepsPromise
<1>1. SqliteInit => LitePromise!StoreInit
  BY LiteStart
<1>2. LiteInv /\ [SqliteNext]_liteVars =>
        [LitePromise!StoreNext]_<<liteRows, liteWon, [c \in StoreCalls |-> liteRows.late]>>
  BY LiteStep
<1>. QED
  BY <1>1, <1>2, SqliteInvariant, PTL
     DEF SqliteSpec, SqliteKeepsPromise, LitePromise!StoreSpec

---------------------------------------------------------------------------
(* The Postgres store: what a transaction has seen of the rows it holds. *)

(* A row that is there: one that can be locked. *)
Present(v, row) ==
  /\ row = "toolCall" => v.toolCall.status # "none"
  /\ row = "approval" => v.approval # "none"
  /\ row = "receipt"  => v.receipt.present
  /\ row = "grant"    => v.grant # "none"
  /\ row = "attempt"  => v.attempt.state # "none"

RowLocks == [row : Rows, mode : {"share", "update"}]

(* The operations that are transactions. *)
LockingOps ==
  {"create", "expose", "decide", "reserve", "dispatch", "consume", "publish",
   "adopt", "record"}

(* How many rows of its plan a call has taken. *)
TakenCount(c) == Len(LockPlan(pgCall[c])) - Len(pgPlan[c])

(* What is left of a plan is its end. *)
PlanInv(c) ==
  /\ Len(pgPlan[c]) <= Len(LockPlan(pgCall[c]))
  /\ \A i \in 1..Len(pgPlan[c]) : pgPlan[c][i] = LockPlan(pgCall[c])[TakenCount(c) + i]

(* A row that was there when it was taken is held and stands as it was seen;
   who has seen the attempt of a prepared action finds its receipt, and a
   creation has read nothing of the records it creates. *)
SeenInv(c) ==
  /\ \A i \in 1..TakenCount(c) :
       LET lock == LockPlan(pgCall[c])[i]
       IN  Present(pgSeen[c], lock.row) =>
             pgHeld[c][lock.row] = lock.mode /\ pgSeen[c][lock.row] = pgRows[lock.row]
  /\ pgCall[c].op = "adopt" /\ Len(pgPlan[c]) <= 1 /\ pgSeen[c].attempt.state # "none" =>
       pgSeen[c].receipt.present
  /\ pgCall[c].op = "create" =>
       pgSeen[c].toolCall = NoRecords.toolCall /\ pgSeen[c].approval = "none"

(* A transaction holds only rows of its plan that it has taken. *)
TakenInv(c) ==
  \A row \in Rows :
    pgHeld[c][row] # "none" =>
      \E i \in 1..TakenCount(c) : LockPlan(pgCall[c])[i].row = row

PgTypeOK ==
  /\ pgCall \in [StoreCalls -> StoreRequests \cup {NoCall}]
  /\ pgPhase \in [StoreCalls -> {"idle", "locking", "statement", "expiring"}]
  /\ pgPlan \in [StoreCalls -> Seq(RowLocks)]
  /\ pgHeld \in [StoreCalls -> [Rows -> {"none", "share", "update"}]]
  /\ pgSeen \in [StoreCalls -> Views]

(* What each phase says of the request a call works on. *)
PhaseInv(c) ==
  /\ pgPhase[c] = "idle" => pgCall[c] = NoCall /\ pgSeen[c] = NoRecords
  /\ pgPhase[c] # "idle" => Admitted(pgRows, pgCall[c])
  /\ pgPhase[c] = "statement" => pgCall[c].op \in Closings
  /\ pgPhase[c] = "expiring" => pgCall[c].op \in {"decide", "reject", "cancel"}
  /\ pgPhase[c] = "locking" =>
       pgCall[c].op \in LockingOps /\ PlanInv(c) /\ SeenInv(c) /\ TakenInv(c)
  /\ pgPhase[c] # "locking" => pgHeld[c] = NoLocks

(* Locks exclude each other, and are held on rows that are there. *)
HeldInv ==
  \A c \in StoreCalls, row \in Rows :
    pgHeld[c][row] # "none" =>
      /\ Present(pgRows, row)
      /\ \A d \in StoreCalls \ {c} : ~Conflicts(pgHeld[c][row], pgHeld[d][row])

PgInv ==
  /\ RecordsInv(pgRows) /\ PgTypeOK
  /\ \A c \in StoreCalls : PhaseInv(c)
  /\ HeldInv

---------------------------------------------------------------------------
(* The rows an operation locks. *)

LEMMA ForUpdateIs ==
  /\ \A a : ForUpdate(<<a>>) = <<Update(a)>>
  /\ \A a, b : ForUpdate(<<a, b>>) = <<Update(a), Update(b)>>
  /\ \A a, b, c : ForUpdate(<<a, b, c>>) = <<Update(a), Update(b), Update(c)>>
  /\ \A a, b, c, d :
       ForUpdate(<<a, b, c, d>>) = <<Update(a), Update(b), Update(c), Update(d)>>
  /\ \A a, b, c, d, e :
       ForUpdate(<<a, b, c, d, e>>) = <<Update(a), Update(b), Update(c), Update(d), Update(e)>>
BY DEF ForUpdate

(* The rows an operation reads under its locks. *)
ReadRows(op) ==
  {row \in Rows :
     \/ op = "create" /\ row = "key"
     \/ op \in {"expose", "decide", "dispatch", "consume"} /\ row = "scope"
     \/ op \in {"decide", "reserve", "publish"} /\ row = "approval"
     \/ op \in {"dispatch", "consume", "adopt", "record"} /\ row = "attempt"
     \/ op \in {"consume", "adopt", "record"} /\ row = "grant"
     \/ op \in {"reserve", "publish", "adopt", "record"} /\ row = "toolCall"
     \/ op \in {"reserve", "adopt", "record"} /\ row = "receipt"}

PlanOk(plan, op) ==
  /\ plan \in Seq(RowLocks) /\ plan # <<>>
  /\ \A i, j \in 1..Len(plan) : plan[i].row = plan[j].row => i = j
  /\ \A row \in ReadRows(op) : \E i \in 1..Len(plan) :
       plan[i].row = row /\ (op # "reserve" => plan[i].mode = "update")

LEMMA PlansAreOk ==
  ASSUME NEW r, r.op \in LockingOps
  PROVE  PlanOk(LockPlan(r), r.op)
<1>. USE DEF PlanOk, ReadRows, RowLocks, Rows, Update, Share
<1>1. CASE r.op = "create"
  <2>1. LockPlan(r) = <<Update("key")>>
    BY <1>1, ForUpdateIs DEF LockPlan, CreatePlan
  <2>. QED  BY <1>1, <2>1
<1>2. CASE r.op = "expose"
  <2>1. LockPlan(r) = <<Update("scope")>>
    BY <1>2, ForUpdateIs DEF LockPlan, ExposePlan
  <2>. QED  BY <1>2, <2>1
<1>3. CASE r.op = "decide"
  <2>1. LockPlan(r) = <<Update("scope"), Update("approval")>>
    BY <1>3, ForUpdateIs DEF LockPlan, DecidePlan
  <2>. QED  BY <1>3, <2>1
<1>4. CASE r.op = "reserve"
  <2>1. LockPlan(r) = <<Update("toolCall"), Share("approval"), Share("receipt")>>
    BY <1>4 DEF LockPlan, ReservePlan
  <2>. QED  BY <1>4, <2>1
<1>5. CASE r.op = "dispatch"
  <2>1. LockPlan(r) = <<Update("scope"), Update("attempt")>>
    BY <1>5, ForUpdateIs DEF LockPlan, DispatchPlan
  <2>. QED  BY <1>5, <2>1
<1>6. CASE r.op = "consume"
  <2>1. LockPlan(r) = <<Update("scope"), Update("attempt"), Update("grant")>>
    BY <1>6, ForUpdateIs DEF LockPlan, ConsumePlan
  <2>. QED  BY <1>6, <2>1
<1>7. CASE r.op = "publish"
  <2>1. LockPlan(r) = <<Update("toolCall"), Update("approval"), Update("receipt"),
                        Update("grant"), Update("attempt")>>
    BY <1>7, ForUpdateIs DEF LockPlan, PublishPlan
  <2>. QED  BY <1>7, <2>1
<1>8. CASE r.op \in {"adopt", "record"}
  <2>1. LockPlan(r) = <<Update("attempt"), Update("toolCall"), Update("receipt"),
                        Update("grant")>>
    BY <1>8, ForUpdateIs DEF LockPlan, AdoptPlan, RecordPlan
  <2>. QED  BY <1>8, <2>1
<1>. QED
  BY <1>1, <1>2, <1>3, <1>4, <1>5, <1>6, <1>7, <1>8 DEF LockingOps

(* An adoption takes the attempt first and the receipt third of four rows. *)
LEMMA AdoptionOrder ==
  ASSUME NEW r, r.op = "adopt"
  PROVE  /\ Len(LockPlan(r)) = 4
         /\ LockPlan(r)[1] = Update("attempt") /\ LockPlan(r)[3] = Update("receipt")
<1>1. LockPlan(r) = <<Update("attempt"), Update("toolCall"), Update("receipt"),
                      Update("grant")>>
  BY ForUpdateIs DEF LockPlan, AdoptPlan
<1>. QED  BY <1>1

(* The other operations lock a row as they change it. *)
LEMMA NoPlan ==
  ASSUME NEW r \in StoreRequests, r.op \notin LockingOps
  PROVE  LockPlan(r) = <<>>
BY RequestOps DEF LockPlan, LockingOps

---------------------------------------------------------------------------
(* What an operation does to the rows, by what it read of them. *)

(* What the operations ask for suffices for them to win. *)
LEMMA SucceedingWins ==
  ASSUME NEW v, RecordsInv(v), NEW r, Admitted(v, r), Succeeds(r, v)
  PROVE  Wins(r, v)
<1>. USE DEF Closings, Wins, Winning, Answer, Succeeds
<1>1. CASE r.op = "create"
  BY <1>1 DEF CreateWins, CreateAnswer
<1>2. CASE r.op = "expose"
  BY <1>2 DEF ExposeWins, ExposeAnswer
<1>3. CASE r.op = "decide"
  BY <1>3 DEF VoteWins, DecideAnswer, StaleEvidence
<1>4. CASE r.op \in Closings
  <2>1. Answer(r, v) = CloseAnswer(v, r)
    BY <1>4
  <2>2. v.approval = "pending" /\ (v.late <=> r.op = "expire")
    BY <1>4 DEF CloseWins, ExpireWins
  <2>. QED  BY <1>4, <2>1, <2>2 DEF CloseAnswer
<1>5. CASE r.op = "reserve"
  BY <1>5 DEF ReserveWins, ReserveAnswer
<1>6. CASE r.op = "dispatch"
  BY <1>6 DEF DispatchWins, DispatchAnswer, StaleEvidence, TerminalStates
<1>7. CASE r.op \in {"settle", "giveUp"}
  BY <1>7 DEF EndWins, SettleAnswer, SettledState, TerminalStates
<1>8. CASE r.op = "bind"
  BY <1>8 DEF BindWins, BindAnswer
<1>9. CASE r.op = "consume"
  BY <1>9 DEF ConsumeWins, ConsumeAnswer, StaleEvidence
<1>10. CASE r.op = "publish"
  BY <1>10 DEF PublishWins, PublishAnswer, PublicationExists
<1>11. CASE r.op = "record"
  <2>1. v.receipt.present /\ v.grant # "none"
    BY <1>11 DEF RecordWins, Admitted, RecordsInv
  <2>. QED
    BY <1>11, <2>1 DEF RecordWins, RecordAnswer, SettledState
<1>12. CASE r.op = "adopt"
  <2>1. v.receipt.present
    BY <1>12 DEF AdoptWins, SettledState, Admitted, RecordsInv
  <2>2. ~ShowsOutcome(v, r.body)
    BY <1>12 DEF AdoptWins, ShowsOutcome, ToolCallStatus
  <2>. QED  BY <1>12, <2>1, <2>2 DEF AdoptWins, SettledState, AdoptAnswer
<1>13. CASE r.op \in {"write", "openReceipt", "issue"}
  BY <1>13
<1>14. CASE r.op = "receiptOutcome"
  BY <1>14 DEF ReceiptOutcomeWins, ReceiptOutcomeAnswer
<1>. HIDE DEF Wins, Winning, Answer, Succeeds
<1>15. \/ r.op \in {"create", "expose", "decide", "reserve", "dispatch", "bind"} \cup Closings
       \/ r.op \in {"settle", "giveUp", "consume", "publish", "record", "adopt"}
       \/ r.op \in {"write", "openReceipt", "issue", "receiptOutcome"}
  BY RequestOps DEF Admitted
<1>. QED
  BY <1>1, <1>2, <1>3, <1>4, <1>5, <1>6, <1>7, <1>8, <1>9, <1>10, <1>11, <1>12, <1>13, <1>14,
     <1>15

(* The same records at another time. *)
At(v, late) == [v EXCEPT !.late = late]

LEMMA AtKeeps ==
  ASSUME NEW v, NEW late \in BOOLEAN, v \in Views
  PROVE  /\ At(v, late) \in Views /\ At(v, late).late = late
         /\ \A row \in Rows : At(v, late)[row] = v[row]
         /\ RecordsInv(v) => RecordsInv(At(v, late))
         /\ \A r : Admitted(v, r) => Admitted(At(v, late), r)
         /\ At(At(v, late), v.late) = v
         /\ late = v.late => At(v, late) = v
<1>1. /\ At(v, late) \in Views /\ At(v, late).late = late
      /\ At(v, late).key = v.key /\ At(v, late).scope = v.scope
      /\ At(v, late).toolCall = v.toolCall /\ At(v, late).approval = v.approval
      /\ At(v, late).receipt = v.receipt /\ At(v, late).grant = v.grant
      /\ At(v, late).attempt = v.attempt
  BY DEF At, Views
<1>2. /\ \A row \in Rows : At(v, late)[row] = v[row]
      /\ At(At(v, late), v.late) = v
      /\ late = v.late => At(v, late) = v
  BY DEF At, Views, Rows
<1>. QED  BY <1>1, <1>2 DEF RecordsInv, Admitted

(* The rows of v with those that operation r changes by what it read, s. *)
Merged(r, s, v) ==
  [row \in DOMAIN v |-> IF Effect(r, s)[row] # s[row] THEN Effect(r, s)[row] ELSE v[row]]

(* Of the rows it read, and of those that are not there until it has won, an
   operation leaves what its effect on the stored rows would be. *)
Agrees(r, s, v) ==
  /\ \A row \in ReadRows(r.op) : s[row] = v[row]
  /\ r.op = "reserve" => s.attempt = v.attempt
  /\ r.op = "create" => s.toolCall = NoRecords.toolCall /\ s.approval = "none"
  /\ r.op = "publish" => ~v.receipt.present /\ v.grant = "none" /\ v.attempt.state = "none"

(* The rows an operation changes when it wins. *)
ChangedRows(op) ==
  {row \in Rows :
     \/ op = "create" /\ row \in {"key", "toolCall", "approval"}
     \/ op = "expose" /\ row = "scope"
     \/ op \in {"decide"} \cup Closings /\ row = "approval"
     \/ op \in {"issue", "consume", "publish"} /\ row = "grant"
     \/ op \in {"write", "publish", "adopt", "record"} /\ row = "toolCall"
     \/ op \in {"openReceipt", "receiptOutcome", "publish", "adopt", "record"} /\ row = "receipt"
     \/ op \in {"reserve", "bind", "dispatch", "settle", "giveUp", "consume", "publish",
                "record"} /\ row = "attempt"}

LEMMA EffectRows ==
  ASSUME NEW v \in Views, NEW r \in StoreRequests
  PROVE  \A row \in Rows \ ChangedRows(r.op) : Effect(r, v)[row] = v[row]
<1>. USE DEF ChangedRows, Rows, Views, Closings, Effect
<1>1. CASE r.op = "create"
  BY <1>1 DEF Created
<1>2. CASE r.op = "expose"
  BY <1>2
<1>3. CASE r.op = "decide"
  BY <1>3
<1>4. CASE r.op \in Closings
  BY <1>4
<1>5. CASE r.op \in {"write", "openReceipt", "issue"}
  <2>1. CASE r.op = "write"
    BY <2>1
  <2>2. CASE r.op = "openReceipt"
    BY <2>2
  <2>3. CASE r.op = "issue"
    BY <2>3
  <2>. HIDE DEF ChangedRows, Rows, Views, Effect
  <2>. QED  BY <1>5, <2>1, <2>2, <2>3
<1>6. CASE r.op \in {"reserve", "bind", "dispatch"}
  <2>1. CASE r.op = "reserve"
    BY <2>1
  <2>2. CASE r.op = "bind"
    BY <2>2
  <2>3. CASE r.op = "dispatch"
    BY <2>3
  <2>. QED  BY <1>6, <2>1, <2>2, <2>3
<1>7. CASE r.op \in {"settle", "giveUp"}
  <2>1. CASE r.op = "settle"
    BY <2>1
  <2>2. CASE r.op = "giveUp"
    BY <2>2
  <2>. QED  BY <1>7, <2>1, <2>2
<1>8. CASE r.op \in {"receiptOutcome", "consume"}
  <2>1. CASE r.op = "receiptOutcome"
    BY <2>1
  <2>2. CASE r.op = "consume"
    BY <2>2
  <2>. QED  BY <1>8, <2>1, <2>2
<1>9. CASE r.op = "publish"
  BY <1>9 DEF Published
<1>10. CASE r.op = "record"
  BY <1>10
<1>11. CASE r.op = "adopt"
  BY <1>11
<1>. HIDE DEF ChangedRows, Rows, Views, Effect
<1>. QED
  BY <1>1, <1>2, <1>3, <1>4, <1>5, <1>6, <1>7, <1>8, <1>9, <1>10, <1>11, RequestOps

LEMMA RecordsAgree ==
  ASSUME NEW v \in Views, NEW w \in Views, v.late = w.late,
         \A row \in Rows : v[row] = w[row]
  PROVE  v = w
<1>1. /\ v.key = w.key /\ v.scope = w.scope /\ v.toolCall = w.toolCall
      /\ v.approval = w.approval /\ v.receipt = w.receipt /\ v.grant = w.grant
      /\ v.attempt = w.attempt
  BY DEF Rows
<1>. QED  BY <1>1 DEF Views

(* What an operation asked for holds of the rows it has locked, if it held of
   what it read of them. *)
LEMMA SucceedsAlike ==
  ASSUME NEW s \in Views, NEW u \in Views, NEW r \in StoreRequests,
         r.op \in LockingOps, Agrees(r, s, u), AsksTime(r) => s.late = u.late,
         Succeeds(r, s)
  PROVE  Succeeds(r, u)
<1>. USE DEF Agrees, Succeeds, ReadRows, Rows, Closings
<1>1. CASE r.op = "create"
  BY <1>1 DEF CreateWins
<1>2. CASE r.op = "expose"
  BY <1>2 DEF ExposeWins
<1>3. CASE r.op = "decide"
  BY <1>3 DEF VoteWins, AsksTime
<1>4. CASE r.op = "reserve"
  BY <1>4 DEF ReserveWins, AsksTime
<1>5. CASE r.op = "dispatch"
  BY <1>5 DEF DispatchWins
<1>6. CASE r.op = "consume"
  BY <1>6 DEF ConsumeWins
<1>7. CASE r.op = "publish"
  BY <1>7 DEF PublishWins
<1>8. CASE r.op = "adopt"
  BY <1>8 DEF AdoptWins
<1>9. CASE r.op = "record"
  BY <1>9 DEF RecordWins
<1>. HIDE DEF Agrees, Succeeds, ReadRows, Rows, Closings
<1>. QED
  BY <1>1, <1>2, <1>3, <1>4, <1>5, <1>6, <1>7, <1>8, <1>9 DEF LockingOps

(* What it leaves in the rows it changes is the same, too, and differs from
   what it read unless that still holds. *)
LEMMA ChangedAlike ==
  ASSUME NEW s \in Views, NEW u \in Views, NEW r \in StoreRequests,
         r.op \in LockingOps, Agrees(r, s, u), AsksTime(r) => s.late = u.late,
         RecordsInv(u), Succeeds(r, s), NEW row \in ChangedRows(r.op)
  PROVE  /\ Effect(r, s)[row] = Effect(r, u)[row]
         /\ s[row] = u[row] \/ Effect(r, s)[row] # s[row]
         /\ (row \in ReadRows(r.op) /\ r.op # "reserve") \/ ~Present(u, row)
<1>. USE DEF Agrees, Succeeds, ReadRows, Rows, Closings, ChangedRows, Effect, Present, Views
<1>1. CASE r.op = "create"
  <2>1. s.key = None /\ u.key = None
    BY <1>1 DEF CreateWins
  <2>2. u.toolCall = s.toolCall /\ u.approval = "none"
    BY <1>1, <2>1 DEF RecordsInv, NoRecords, ToolCallRows
  <2>. QED  BY <1>1, <2>1, <2>2 DEF Created, RecordsInv
<1>2. CASE r.op = "expose"
  BY <1>2
<1>3. CASE r.op = "decide"
  BY <1>3 DEF AsksTime
<1>4. CASE r.op = "reserve"
  BY <1>4 DEF ReserveWins
<1>5. CASE r.op = "dispatch"
  BY <1>5
<1>6. CASE r.op = "consume"
  <2>1. row \in {"grant", "attempt"}
    BY <1>6
  <2>2. row \in ReadRows(r.op) /\ s[row] = u[row]
    BY <1>6, <2>1
  <2>3. CASE row = "grant"
    BY <1>6, <2>3
  <2>4. CASE row = "attempt"
    BY <1>6, <2>2, <2>4
  <2>. QED  BY <1>6, <2>1, <2>2, <2>3, <2>4
<1>7. CASE r.op = "publish"
  <2>1. /\ s.toolCall = u.toolCall
        /\ ~s.receipt.present /\ s.grant = "none" /\ s.attempt.state = "none"
        /\ ~u.receipt.present /\ u.grant = "none" /\ u.attempt.state = "none"
    BY <1>7 DEF PublishWins
  <2>2. row \in {"toolCall", "receipt", "grant", "attempt"}
    BY <1>7
  <2>3. Effect(r, s) = Published(s) /\ Effect(r, u) = Published(u)
    BY <1>7
  <2>4. Published(s)[row] = Published(u)[row] /\ Published(s)[row] # s[row]
    <3>1. CASE row = "toolCall"
      <4>1. s.toolCall.status = "pending_approval"
        BY <1>7 DEF PublishWins
      <4>. QED  BY <2>1, <3>1, <4>1 DEF Published, ToolCallRows
    <3>2. CASE row = "receipt"
      BY <2>1, <3>2 DEF Published
    <3>3. CASE row = "grant"
      BY <2>1, <3>3 DEF Published
    <3>4. CASE row = "attempt"
      BY <2>1, <3>4 DEF Published
    <3>. QED  BY <2>2, <3>1, <3>2, <3>3, <3>4
  <2>5. (row \in ReadRows(r.op) /\ r.op # "reserve") \/ ~Present(u, row)
    BY <1>7, <2>1, <2>2
  <2>. HIDE DEF Effect, Present, ReadRows
  <2>. QED  BY <2>3, <2>4, <2>5
<1>8. CASE r.op = "adopt"
  <2>1. row \in {"toolCall", "receipt"}
    BY <1>8
  <2>2. row \in ReadRows(r.op) /\ s[row] = u[row]
    BY <1>8, <2>1
  <2>3. CASE row = "toolCall"
    BY <1>8, <2>3
  <2>4. CASE row = "receipt"
    BY <1>8, <2>2, <2>4
  <2>. QED  BY <1>8, <2>1, <2>2, <2>3, <2>4
<1>9. CASE r.op = "record"
  <2>1. row \in {"toolCall", "receipt", "attempt"}
    BY <1>9
  <2>2. row \in ReadRows(r.op) /\ s[row] = u[row]
    BY <1>9, <2>1
  <2>3. CASE row = "toolCall"
    BY <1>9, <2>3
  <2>4. CASE row = "receipt"
    BY <1>9, <2>2, <2>4
  <2>5. CASE row = "attempt"
    BY <1>9, <2>2, <2>5
  <2>6. Effect(r, s)[row] = Effect(r, u)[row]
    BY <2>1, <2>3, <2>4, <2>5
  <2>. QED  BY <1>9, <2>2, <2>6
<1>. HIDE DEF Agrees, Succeeds, ReadRows, Rows, Closings, ChangedRows, Effect, Present, Views
<1>. QED
  BY <1>1, <1>2, <1>3, <1>4, <1>5, <1>6, <1>7, <1>8, <1>9 DEF LockingOps

(* A row that is there stays. *)
LEMMA RowsStay ==
  ASSUME NEW v \in Views, NEW r \in StoreRequests, NEW row \in Rows, Present(v, row)
  PROVE  Present(Effect(r, v), row)
<1>. USE DEF Present, Closings
<1>1. CASE row \notin ChangedRows(r.op)
  <2>1. Effect(r, v)[row] = v[row]
    BY <1>1, EffectRows
  <2>. QED  BY <2>1
<1>2. CASE row \in ChangedRows(r.op)
  <2>. USE <1>2 DEF ChangedRows, Rows, Effect, Views
  <2>1. CASE r.op = "create"
    <3>1. CASE row = "toolCall"
      BY <2>1, <3>1 DEF Created, ToolCallRows
    <3>2. CASE row # "toolCall"
      BY <2>1, <3>2 DEF Created
    <3>. QED  BY <3>1, <3>2
  <2>2. CASE r.op \in {"expose", "decide"}
    BY <2>2
  <2>3. CASE r.op \in Closings
    BY <2>3 DEF CloseAnswer
  <2>4. CASE r.op \in {"write", "openReceipt", "issue"}
    <3>1. CASE r.op = "openReceipt"
      BY <2>4, <3>1 DEF ReceiptRows
    <3>2. CASE r.op # "openReceipt"
      BY <2>4, <3>2
    <3>. QED  BY <3>1, <3>2
  <2>5. CASE r.op \in {"reserve", "bind", "dispatch"}
    BY <2>5 DEF AttemptRows
  <2>6. CASE r.op \in {"settle", "giveUp"}
    BY <2>6 DEF AttemptRows, SettledState
  <2>7. CASE r.op \in {"receiptOutcome", "consume"}
    BY <2>7 DEF AttemptRows, ReceiptRows
  <2>8. CASE r.op = "publish"
    <3>1. CASE row = "toolCall"
      BY <2>8, <3>1 DEF Published, ToolCallRows
    <3>2. CASE row # "toolCall"
      BY <2>8, <3>2 DEF Published
    <3>. QED  BY <3>1, <3>2
  <2>9. CASE r.op = "record"
    BY <2>9 DEF AttemptRows, ReceiptRows, SettledState, ToolCallStatus
  <2>10. CASE r.op = "adopt"
    BY <2>10 DEF ReceiptRows, ToolCallStatus
  <2>. HIDE DEF ChangedRows, Rows, Effect, Views
  <2>. QED
    BY <2>1, <2>2, <2>3, <2>4, <2>5, <2>6, <2>7, <2>8, <2>9, <2>10, RequestOps
<1>. QED  BY <1>1, <1>2

(* An operation leaves the time alone; what is there is told by its row. *)
LEMMA EffectTime ==
  ASSUME NEW v \in Views, NEW r \in StoreRequests
  PROVE  Effect(r, v).late = v.late
BY RequestOps DEF Effect, Views, Created, Published, Closings

LEMMA SamePresence ==
  ASSUME NEW v, NEW w, NEW row \in Rows, v[row] = w[row]
  PROVE  Present(v, row) <=> Present(w, row)
BY DEF Present, Rows

(* A transaction that saw what the locked rows still hold writes what the
   operation does to the stored rows in one step. *)
LEMMA MergedIsEffect ==
  ASSUME NEW s \in Views, NEW v, RecordsInv(v), NEW late \in BOOLEAN, NEW r,
         Admitted(v, r), r.op \in LockingOps, Agrees(r, s, v),
         AsksTime(r) => s.late = late, Succeeds(r, s)
  PROVE  /\ Wins(r, At(v, late))
         /\ Merged(r, s, v) = At(Effect(r, At(v, late)), v.late)
         /\ \A row \in ChangedRows(r.op) :
              (row \in ReadRows(r.op) /\ r.op # "reserve") \/ ~Present(v, row)
<1>. DEFINE u == At(v, late)
            e == Effect(r, u)
<1>1. v \in Views /\ r \in StoreRequests
  BY DEF RecordsInv, Admitted
<1>2. /\ u \in Views /\ u.late = late /\ \A row \in Rows : u[row] = v[row]
      /\ RecordsInv(u) /\ Admitted(u, r)
  BY <1>1, AtKeeps
<1>3. Agrees(r, s, u)
  <2>1. \A row \in ReadRows(r.op) : u[row] = v[row]
    BY <1>2 DEF ReadRows
  <2>2. u.attempt = v.attempt /\ u.receipt = v.receipt /\ u.grant = v.grant
    BY <1>2 DEF Rows
  <2>. HIDE DEF u
  <2>. QED  BY <2>1, <2>2 DEF Agrees
<1>. HIDE DEF u
<1>4. Succeeds(r, u)
  BY <1>1, <1>2, <1>3, SucceedsAlike
<1>5. Wins(r, u)
  BY <1>2, <1>4, SucceedingWins
<1>6. /\ RecordsInv(e) /\ e.late = u.late
  BY <1>2, <1>5, EffectKeeps
<1>7. e \in Views
  BY <1>6 DEF RecordsInv
<1>8. /\ At(e, v.late) \in Views /\ At(e, v.late).late = v.late
      /\ \A row \in Rows : At(e, v.late)[row] = e[row]
  <2>1. v.late \in BOOLEAN
    BY <1>1 DEF Views
  <2>. HIDE DEF e
  <2>. QED  BY <1>7, <2>1, AtKeeps
<1>9. DOMAIN v = Rows \cup {"late"} /\ DOMAIN At(e, v.late) = Rows \cup {"late"}
  <2>. HIDE DEF e
  <2>. QED  BY <1>1, <1>8 DEF Views, Rows
<1>10. Effect(r, s).late = s.late
  BY <1>1, EffectTime
<1>11. ASSUME NEW row \in Rows
       PROVE  Merged(r, s, v)[row] = e[row]
  <2>1. CASE row \in ChangedRows(r.op)
    <3>1. /\ Effect(r, s)[row] = e[row]
          /\ s[row] = u[row] \/ Effect(r, s)[row] # s[row]
      BY <1>1, <1>2, <1>3, <2>1, ChangedAlike
    <3>. QED  BY <1>2, <1>9, <3>1 DEF Merged
  <2>2. CASE row \notin ChangedRows(r.op)
    <3>1. Effect(r, s)[row] = s[row] /\ e[row] = u[row]
      BY <1>1, <1>2, <2>2, EffectRows
    <3>. QED  BY <1>2, <1>9, <3>1 DEF Merged
  <2>. QED  BY <2>1, <2>2
<1>12. Merged(r, s, v) = At(e, v.late)
  <2>. HIDE DEF e
  <2>1. \A row \in DOMAIN v : Merged(r, s, v)[row] = At(e, v.late)[row]
    BY <1>8, <1>9, <1>10, <1>11 DEF Merged
  <2>2. At(e, v.late) = [row \in DOMAIN v |-> At(e, v.late)[row]]
    BY <1>8, <1>9 DEF Views, Rows
  <2>. QED  BY <2>1, <2>2 DEF Merged
<1>13. \A row \in ChangedRows(r.op) :
         (row \in ReadRows(r.op) /\ r.op # "reserve") \/ ~Present(v, row)
  <2>1. \A row \in ChangedRows(r.op) :
          (row \in ReadRows(r.op) /\ r.op # "reserve") \/ ~Present(u, row)
    BY <1>1, <1>2, <1>3, ChangedAlike
  <2>2. \A row \in Rows : Present(u, row) <=> Present(v, row)
    BY <1>2, SamePresence
  <2>. QED  BY <2>1, <2>2 DEF ChangedRows
<1>. QED  BY <1>5, <1>12, <1>13 DEF u

---------------------------------------------------------------------------
(* What the locks of a transaction are good for. *)

(* A transaction that wins has locked all its rows, and those it read are
   as it read them. *)
LEMMA WinnersHold ==
  ASSUME PgInv, NEW c \in StoreCalls, pgPhase[c] = "locking", Settled(c), TransactionWins(c)
  PROVE  /\ Agrees(pgCall[c], View(c), pgRows)
         /\ pgCall[c].op # "reserve" =>
              \A row \in ReadRows(pgCall[c].op) : pgHeld[c][row] = "update"
<1>. DEFINE r == pgCall[c]
            s == View(c)
            seen == pgSeen[c]
<1>1. /\ RecordsInv(pgRows) /\ Admitted(pgRows, r) /\ r.op \in LockingOps
      /\ PlanInv(c) /\ SeenInv(c) /\ seen \in Views
  BY DEF PgInv, PhaseInv, PgTypeOK
<1>2. /\ \A row \in Rows : row # "attempt" \/ r.op # "reserve" => s[row] = seen[row]
      /\ r.op = "reserve" => s.attempt = pgRows.attempt
  <2>1. DOMAIN NoRecords = Rows \cup {"late"}
    BY DEF NoRecords, Rows
  <2>. QED  BY <2>1 DEF View, Rows
<1>3. Succeeds(r, s)
  BY DEF TransactionWins
<1>4. pgPlan[c] = <<>>
  <2>1. /\ s.scope = seen.scope /\ s.approval = seen.approval
        /\ r.op # "reserve" => s.attempt = seen.attempt
    BY <1>2 DEF Rows
  <2>2. ~(r.op \in {"decide", "consume"} /\ StaleEvidence(seen))
    BY <1>3, <2>1 DEF Succeeds, VoteWins, ConsumeWins, StaleEvidence
  <2>3. ~(r.op \in {"consume", "dispatch", "adopt", "record"} /\ seen.attempt.state = "none")
    BY <1>3, <2>1 DEF Succeeds, ConsumeWins, DispatchWins, AdoptWins, RecordWins, SettledState
  <2>4. ~(r.op = "publish" /\ seen.approval = "none")
    BY <1>3, <2>1 DEF Succeeds, PublishWins
  <2>. QED  BY <2>2, <2>3, <2>4 DEF Settled
<1>5. PlanOk(LockPlan(r), r.op)
  BY <1>1, PlansAreOk
<1>6. TakenCount(c) = Len(LockPlan(r))
  BY <1>4, <1>5 DEF TakenCount, PlanOk
<1>7. ASSUME NEW row \in ReadRows(r.op), Present(seen, row)
      PROVE  /\ seen[row] = pgRows[row]
             /\ r.op # "reserve" => pgHeld[c][row] = "update"
  <2>1. PICK i \in 1..Len(LockPlan(r)) :
          LockPlan(r)[i].row = row /\ (r.op # "reserve" => LockPlan(r)[i].mode = "update")
    BY <1>5 DEF PlanOk
  <2>2. /\ pgHeld[c][row] = LockPlan(r)[i].mode /\ seen[row] = pgRows[row]
    BY <1>1, <1>6, <1>7, <2>1 DEF SeenInv
  <2>. QED  BY <2>1, <2>2
<1>8. ASSUME NEW row \in ReadRows(r.op)
      PROVE  Present(seen, row)
  <2>1. /\ s.scope = seen.scope /\ s.approval = seen.approval /\ s.key = seen.key
        /\ s.toolCall = seen.toolCall /\ s.receipt = seen.receipt /\ s.grant = seen.grant
        /\ r.op # "reserve" => s.attempt = seen.attempt
    BY <1>2 DEF Rows
  <2>2. r.op = "adopt" /\ seen.attempt.state # "none" => seen.receipt.present
    BY <1>1, <1>4 DEF SeenInv
  <2>3. CASE r.op \in {"create", "expose", "decide"}
    BY <1>3, <2>1, <2>3 DEF Present, ReadRows, Succeeds, VoteWins
  <2>4. CASE r.op = "reserve"
    BY <1>3, <2>1, <2>4 DEF Present, ReadRows, Succeeds, ReserveWins
  <2>5. CASE r.op \in {"dispatch", "consume"}
    BY <1>3, <2>1, <2>5 DEF Present, ReadRows, Succeeds, DispatchWins, ConsumeWins
  <2>6. CASE r.op = "publish"
    BY <1>3, <2>1, <2>6 DEF Present, ReadRows, Succeeds, PublishWins
  <2>7. CASE r.op = "record"
    BY <1>3, <2>1, <2>7 DEF Present, ReadRows, Succeeds, RecordWins
  <2>8. CASE r.op = "adopt"
    BY <1>3, <2>1, <2>2, <2>8 DEF Present, ReadRows, Succeeds, AdoptWins, SettledState
  <2>. QED
    BY <1>1, <2>3, <2>4, <2>5, <2>6, <2>7, <2>8 DEF LockingOps
<1>9. \A row \in ReadRows(r.op) : s[row] = pgRows[row]
  <2>. TAKE row \in ReadRows(r.op)
  <2>1. row \in Rows /\ (row # "attempt" \/ r.op # "reserve")
    BY DEF ReadRows
  <2>. QED  BY <1>2, <1>7, <1>8, <2>1
<1>10. r.op = "create" => s.toolCall = NoRecords.toolCall /\ s.approval = "none"
  BY <1>1, <1>2 DEF SeenInv, Rows
<1>11. r.op = "publish" =>
         ~pgRows.receipt.present /\ pgRows.grant = "none" /\ pgRows.attempt.state = "none"
  <2>. HAVE r.op = "publish"
  <2>1. s.toolCall = pgRows.toolCall
    BY <1>9 DEF ReadRows, Rows
  <2>2. pgRows.toolCall.status = "pending_approval"
    BY <1>3, <2>1 DEF Succeeds, PublishWins
  <2>3. pgRows.key \in Preparing
    BY <1>1 DEF Admitted
  <2>. QED  BY <1>1, <2>2, <2>3 DEF RecordsInv
<1>. HIDE DEF r, s, seen
<1>12. Agrees(r, s, pgRows)
  BY <1>2, <1>9, <1>10, <1>11 DEF Agrees
<1>13. r.op # "reserve" => \A row \in ReadRows(r.op) : pgHeld[c][row] = "update"
  BY <1>7, <1>8
<1>. QED  BY <1>12, <1>13 DEF r, s

(* What a step of call c must leave to the others: the rows they hold, and
   the locks that exclude theirs. *)
LEMMA FrameKeeps ==
  ASSUME PgInv, NEW c \in StoreCalls, RecordsInv(pgRows'), PgTypeOK', PhaseInv(c)',
         pgRows.key # None => pgRows'.key = pgRows.key,
         \A row \in Rows : Present(pgRows, row) => Present(pgRows', row),
         \A d \in StoreCalls \ {c} :
           /\ pgCall'[d] = pgCall[d] /\ pgPhase'[d] = pgPhase[d] /\ pgPlan'[d] = pgPlan[d]
           /\ pgHeld'[d] = pgHeld[d] /\ pgSeen'[d] = pgSeen[d]
           /\ \A row \in Rows : pgHeld[d][row] # "none" => pgRows'[row] = pgRows[row],
         \A row \in Rows :
           pgHeld'[c][row] \notin {"none", pgHeld[c][row]} =>
             Present(pgRows', row) /\ HoldersOf(c, row, pgHeld'[c][row]) = {}
  PROVE  PgInv'
<1>1. ASSUME NEW d \in StoreCalls \ {c}
      PROVE  PhaseInv(d)'
  <2>1. PhaseInv(d)
    BY DEF PgInv
  <2>2. Admitted(pgRows, pgCall[d]) => Admitted(pgRows', pgCall[d])
    BY StillAdmitted
  <2>3. ASSUME pgPhase[d] = "locking"
        PROVE  PlanInv(d)' /\ SeenInv(d)' /\ TakenInv(d)'
    <3>1. PlanInv(d) /\ SeenInv(d) /\ TakenInv(d) /\ pgCall[d].op \in LockingOps
      BY <2>1, <2>3 DEF PhaseInv
    <3>2. TakenCount(d)' = TakenCount(d)
      BY DEF TakenCount
    <3>3. PlanInv(d)'
      BY <3>1, <3>2 DEF PlanInv
    <3>4. ASSUME NEW i \in 1..TakenCount(d),
                 Present(pgSeen[d], LockPlan(pgCall[d])[i].row)
          PROVE  LET lock == LockPlan(pgCall[d])[i]
                 IN  pgHeld'[d][lock.row] = lock.mode
                     /\ pgSeen'[d][lock.row] = pgRows'[lock.row]
      <4>. DEFINE lock == LockPlan(pgCall[d])[i]
      <4>1. pgHeld[d][lock.row] = lock.mode /\ pgSeen[d][lock.row] = pgRows[lock.row]
        BY <3>1, <3>4 DEF SeenInv
      <4>2. LockPlan(pgCall[d]) \in Seq(RowLocks)
        BY <3>1, PlansAreOk DEF PlanOk
      <4>3. i \in 1..Len(LockPlan(pgCall[d]))
        BY <3>1, <4>2 DEF TakenCount, PlanInv, PgInv, PgTypeOK
      <4>4. lock \in RowLocks
        BY <4>2, <4>3
      <4>5. lock.row \in Rows /\ lock.mode # "none"
        BY <4>4 DEF RowLocks
      <4>. HIDE DEF lock
      <4>6. pgHeld'[d][lock.row] = lock.mode /\ pgSeen'[d][lock.row] = pgRows'[lock.row]
        BY <4>1, <4>5
      <4>. QED  BY <4>6 DEF lock
    <3>5. SeenInv(d)'
      BY <3>1, <3>2, <3>4 DEF SeenInv
    <3>6. TakenInv(d)'
      BY <3>1, <3>2 DEF TakenInv
    <3>. QED  BY <3>3, <3>5, <3>6
  <2>. QED  BY <2>1, <2>2, <2>3 DEF PhaseInv
<1>2. ASSUME NEW d \in StoreCalls, NEW row \in Rows, pgHeld'[d][row] # "none"
      PROVE  /\ Present(pgRows', row)
             /\ \A e \in StoreCalls \ {d} : ~Conflicts(pgHeld'[d][row], pgHeld'[e][row])
  <2>1. CASE d # c
    <3>1. /\ pgHeld'[d][row] = pgHeld[d][row] /\ Present(pgRows, row)
          /\ \A e \in StoreCalls \ {d} : ~Conflicts(pgHeld[d][row], pgHeld[e][row])
      BY <1>2, <2>1 DEF PgInv, HeldInv
    <3>2. ~Conflicts(pgHeld'[d][row], pgHeld'[c][row])
      <4>1. CASE pgHeld'[c][row] = "none"
        BY <4>1 DEF Conflicts
      <4>2. CASE pgHeld'[c][row] = pgHeld[c][row]
        BY <2>1, <3>1, <4>2
      <4>3. CASE pgHeld'[c][row] \notin {"none", pgHeld[c][row]}
        BY <2>1, <3>1, <4>3 DEF HoldersOf
      <4>. QED  BY <4>1, <4>2, <4>3
    <3>. QED  BY <2>1, <3>1, <3>2
  <2>2. CASE d = c
    <3>1. CASE pgHeld'[c][row] = pgHeld[c][row]
      BY <1>2, <2>2, <3>1 DEF PgInv, HeldInv
    <3>2. CASE pgHeld'[c][row] # pgHeld[c][row]
      <4>1. Present(pgRows', row) /\ HoldersOf(c, row, pgHeld'[c][row]) = {}
        BY <1>2, <2>2, <3>2
      <4>2. ASSUME NEW e \in StoreCalls \ {c}
            PROVE  ~Conflicts(pgHeld'[c][row], pgHeld'[e][row])
        BY <4>1 DEF HoldersOf, Conflicts
      <4>. QED  BY <2>2, <4>1, <4>2
    <3>. QED  BY <3>1, <3>2
  <2>. QED  BY <2>1, <2>2
<1>3. HeldInv'
  BY <1>2 DEF HeldInv
<1>. QED  BY <1>1, <1>3 DEF PgInv

(* A call that has ended, or goes on to expire the approval. *)
Ended(c) ==
  /\ pgHeld' = [pgHeld EXCEPT ![c] = NoLocks]
  /\ pgPlan' = [pgPlan EXCEPT ![c] = <<>>] \/ pgPlan' = pgPlan
  /\ \/ \E wins \in BOOLEAN : Tell(c, wins)
     \/ LookForExpiry(c) /\ pgCall[c].op \in {"decide", "reject", "cancel"}
                         /\ Admitted(pgRows, pgCall[c])

LEMMA EndedKeeps ==
  ASSUME PgInv, NEW c \in StoreCalls, Ended(c), RecordsInv(pgRows'),
         pgRows.key # None => pgRows'.key = pgRows.key,
         \A row \in Rows : Present(pgRows, row) => Present(pgRows', row),
         \A d \in StoreCalls \ {c}, row \in Rows :
           pgHeld[d][row] # "none" => pgRows'[row] = pgRows[row]
  PROVE  PgInv'
<1>1. /\ \A d \in StoreCalls \ {c} :
           /\ pgCall'[d] = pgCall[d] /\ pgPhase'[d] = pgPhase[d] /\ pgPlan'[d] = pgPlan[d]
           /\ pgHeld'[d] = pgHeld[d] /\ pgSeen'[d] = pgSeen[d]
      /\ pgHeld'[c] = NoLocks
  BY DEF Ended, Tell, LookForExpiry, PgInv, PgTypeOK
<1>2. pgRows.late \in BOOLEAN /\ NoRecords \in Views
  BY NothingIsRecorded DEF PgInv, RecordsInv, Views
<1>3. [NoRecords EXCEPT !.late = pgRows.late] \in Views
  BY <1>2 DEF Views
<1>4. PgTypeOK'
  <2>1. pgHeld' \in [StoreCalls -> [Rows -> {"none", "share", "update"}]]
    BY DEF Ended, PgInv, PgTypeOK, NoLocks
  <2>2. pgPlan' \in [StoreCalls -> Seq(RowLocks)]
    <3>1. <<>> \in Seq(RowLocks) /\ pgPlan \in [StoreCalls -> Seq(RowLocks)]
      BY DEF PgInv, PgTypeOK
    <3>. QED  BY <3>1 DEF Ended
  <2>3. /\ pgCall' \in [StoreCalls -> StoreRequests \cup {NoCall}]
        /\ pgPhase' \in [StoreCalls -> {"idle", "locking", "statement", "expiring"}]
    BY DEF Ended, PgInv, PgTypeOK, Tell, LookForExpiry
  <2>4. pgSeen' \in [StoreCalls -> Views]
    <3>1. \E seen \in Views : pgSeen' = [pgSeen EXCEPT ![c] = seen]
      BY <1>2, <1>3 DEF Ended, Tell, LookForExpiry
    <3>. QED  BY <3>1 DEF PgInv, PgTypeOK
  <2>. QED  BY <2>1, <2>2, <2>3, <2>4 DEF PgTypeOK
<1>5. PhaseInv(c)'
  <2>1. CASE \E wins \in BOOLEAN : Tell(c, wins)
    <3>1. pgPhase'[c] = "idle" /\ pgCall'[c] = NoCall /\ pgSeen'[c] = NoRecords
      BY <2>1 DEF Tell, PgInv, PgTypeOK
    <3>. QED  BY <1>1, <3>1 DEF PhaseInv
  <2>2. CASE LookForExpiry(c) /\ pgCall[c].op \in {"decide", "reject", "cancel"}
                              /\ Admitted(pgRows, pgCall[c])
    <3>1. pgPhase'[c] = "expiring" /\ pgCall'[c] = pgCall[c]
      BY <2>2 DEF LookForExpiry, PgInv, PgTypeOK
    <3>2. Admitted(pgRows', pgCall[c])
      BY <2>2, StillAdmitted
    <3>. QED  BY <1>1, <2>2, <3>1, <3>2 DEF PhaseInv
  <2>. QED  BY <2>1, <2>2 DEF Ended
<1>6. \A row \in Rows : pgHeld'[c][row] = "none"
  BY <1>1 DEF NoLocks
<1>. QED  BY <1>1, <1>4, <1>5, <1>6, FrameKeeps

---------------------------------------------------------------------------
(* The promise of the stores, as the Postgres store keeps it. *)

LEMMA PgSameWins ==
  ASSUME NEW r, NEW v
  PROVE  Promise!Wins(r, v) <=> Wins(r, v)
BY DEF Wins, Winning, Answer, Closings, CreateAnswer, ExposeAnswer, DecideAnswer,
       CloseAnswer, StaleEvidence, ReserveAnswer, BindAnswer, DispatchAnswer,
       TerminalStates, SettleAnswer, SettledState, ReceiptOutcomeAnswer,
       PublishAnswer, PublicationExists, Published, ConsumeAnswer, RecordAnswer,
       AdoptAnswer, ShowsOutcome, ToolCallStatus, ConflictDisposition, None,
       Promise!Wins, Promise!Winning, Promise!Answer, Promise!Closings,
       Promise!CreateAnswer, Promise!ExposeAnswer, Promise!DecideAnswer,
       Promise!CloseAnswer, Promise!StaleEvidence, Promise!ReserveAnswer,
       Promise!BindAnswer, Promise!DispatchAnswer, Promise!TerminalStates,
       Promise!SettleAnswer, Promise!SettledState, Promise!ReceiptOutcomeAnswer,
       Promise!PublishAnswer, Promise!PublicationExists, Promise!Published,
       Promise!ConsumeAnswer, Promise!RecordAnswer, Promise!AdoptAnswer,
       Promise!ShowsOutcome, Promise!ToolCallStatus, Promise!ConflictDisposition,
       Promise!None

LEMMA PgSameEffect ==
  ASSUME NEW r, NEW v
  PROVE  Promise!Effect(r, v) = Effect(r, v)
BY DEF Effect, Closings, Created, CloseAnswer, SettledState, Published, ToolCallStatus, None,
       Promise!Effect, Promise!Closings, Promise!Created, Promise!CloseAnswer,
       Promise!SettledState, Promise!Published, Promise!ToolCallStatus, Promise!None

LEMMA PgSameRequests ==
  /\ Promise!StoreRequests = StoreRequests /\ Promise!NoRecords = NoRecords
BY DEF StoreRequests, Closings, Outcomes, None, NoRecords,
       Promise!StoreRequests, Promise!Closings, Promise!Outcomes, Promise!None,
       Promise!NoRecords

(* The time by which the step of call c is judged: that of its transaction or
   statement, if its SQL asks for one. *)
TimeOf(c) == IF AsksTime(pgCall[c]) THEN pgSeen[c].late ELSE pgRows.late

(* Time is never turned back. *)
LEMMA TimeGoesOn ==
  ASSUME \A d \in StoreCalls :
           AsksTime(pgCall'[d]) =>
             \/ AsksTime(pgCall[d]) /\ pgSeen'[d].late = pgSeen[d].late
             \/ pgSeen'[d].late = pgRows'.late
  PROVE  Promise!TimePasses
BY DEF Promise!TimePasses

(* A call that wins, told or not, performs its operation in that step. *)
LEMMA PgWinningIsPromised ==
  ASSUME PgInv, NEW c \in StoreCalls, NEW r \in StoreRequests,
         Wins(r, At(pgRows, TimeOf(c))),
         pgRows' = At(Effect(r, At(pgRows, TimeOf(c))), pgRows.late),
         pgWon' \in {{c}, {}}, Promise!TimePasses
  PROVE  Promise!StoreNext
<1>1. Promise!Judged(c) = At(pgRows, TimeOf(c))
  BY DEF Promise!Judged, At, TimeOf
<1>2. Promise!Perform(c, r)
  BY <1>1, PgSameWins, PgSameEffect DEF Promise!Perform, At
<1>. QED  BY <1>2, PgSameRequests DEF Promise!StoreNext

LEMMA PgIdlingIsPromised ==
  ASSUME pgRows' = pgRows, pgWon' = {}, Promise!TimePasses
  PROVE  Promise!StoreNext
BY DEF Promise!StoreNext, Promise!Idle

(* The end of a call turns no time back, nor does the look for expiry, which
   takes the time anew. *)
LEMMA EndedInTime ==
  ASSUME PgInv, NEW c \in StoreCalls, Ended(c), pgRows'.late = pgRows.late
  PROVE  Promise!TimePasses
<1>. SUFFICES ASSUME NEW d \in StoreCalls, AsksTime(pgCall'[d])
              PROVE  \/ AsksTime(pgCall[d]) /\ pgSeen'[d].late = pgSeen[d].late
                     \/ pgSeen'[d].late = pgRows'.late
  BY TimeGoesOn
<1>1. CASE d # c
  <2>1. pgCall'[d] = pgCall[d] /\ pgSeen'[d] = pgSeen[d]
    BY <1>1 DEF Ended, Tell, LookForExpiry, PgInv, PgTypeOK
  <2>. QED  BY <2>1
<1>2. CASE d = c
  <2>1. ASSUME NEW wins \in BOOLEAN, Tell(c, wins)
        PROVE  FALSE
    <3>1. pgCall'[c] = NoCall
      BY <2>1 DEF Tell, PgInv, PgTypeOK
    <3>. QED  BY <1>2, <3>1 DEF AsksTime, NoCall, Closings
  <2>2. LookForExpiry(c)
    BY <2>1 DEF Ended
  <2>3. pgSeen'[c] = [NoRecords EXCEPT !.late = pgRows.late]
    BY <2>2 DEF LookForExpiry, PgInv, PgTypeOK
  <2>. QED  BY <1>2, <2>3 DEF NoRecords
<1>. QED  BY <1>1, <1>2

(* A step by which call c wins with request r, on rows no other call holds,
   and ends. *)
LEMMA WinningKeeps ==
  ASSUME PgInv, NEW c \in StoreCalls, NEW r, Admitted(pgRows, r),
         Wins(r, At(pgRows, TimeOf(c))),
         pgRows' = At(Effect(r, At(pgRows, TimeOf(c))), pgRows.late),
         \A row \in ChangedRows(r.op), d \in StoreCalls \ {c} : pgHeld[d][row] = "none",
         Ended(c), pgWon' \in {{c}, {}}
  PROVE  PgInv' /\ Promise!StoreNext
<1>. DEFINE u == At(pgRows, TimeOf(c))
            e == Effect(r, u)
<1>1. /\ RecordsInv(pgRows) /\ pgRows \in Views /\ r \in StoreRequests
      /\ TimeOf(c) \in BOOLEAN /\ pgRows.late \in BOOLEAN
  BY DEF PgInv, RecordsInv, Views, PgTypeOK, TimeOf, Admitted
<1>2. /\ u \in Views /\ RecordsInv(u) /\ Admitted(u, r)
      /\ \A row \in Rows : u[row] = pgRows[row]
  BY <1>1, AtKeeps
<1>. HIDE DEF u
<1>3. RecordsInv(e) /\ (u.key # None => e.key = u.key) /\ e \in Views
  BY <1>2, EffectKeeps DEF u, RecordsInv
<1>4. pgRows' = At(e, pgRows.late)
  BY DEF u
<1>. HIDE DEF e
<1>5. /\ RecordsInv(pgRows') /\ pgRows'.late = pgRows.late
      /\ \A row \in Rows : pgRows'[row] = e[row]
  BY <1>1, <1>3, <1>4, AtKeeps
<1>6. pgRows.key # None => pgRows'.key = pgRows.key
  <2>1. u.key = pgRows.key /\ pgRows'.key = e.key
    BY <1>2, <1>5 DEF Rows
  <2>. QED  BY <1>3, <2>1
<1>7. ASSUME NEW row \in Rows, Present(pgRows, row)
      PROVE  Present(pgRows', row)
  <2>1. Present(u, row)
    BY <1>2, <1>7, SamePresence
  <2>2. Present(e, row)
    BY <1>1, <1>2, <2>1, RowsStay DEF e
  <2>. QED  BY <1>5, <2>2, SamePresence
<1>8. ASSUME NEW d \in StoreCalls \ {c}, NEW row \in Rows, pgHeld[d][row] # "none"
      PROVE  pgRows'[row] = pgRows[row]
  <2>1. row \notin ChangedRows(r.op)
    BY <1>8
  <2>2. e[row] = u[row]
    BY <1>1, <1>2, <2>1, EffectRows DEF e
  <2>. QED  BY <1>2, <1>5, <2>2
<1>9. PgInv'
  BY <1>5, <1>6, <1>7, <1>8, EndedKeeps
<1>10. Promise!TimePasses
  BY <1>5, EndedInTime
<1>. QED  BY <1>1, <1>9, <1>10, PgWinningIsPromised

(* A step by which call c ends and changes nothing. *)
LEMMA LosingKeeps ==
  ASSUME PgInv, NEW c \in StoreCalls, Ended(c), pgRows' = pgRows, pgWon' = {}
  PROVE  PgInv' /\ Promise!StoreNext
<1>1. RecordsInv(pgRows')
  BY DEF PgInv
<1>2. PgInv'
  BY <1>1, EndedKeeps
<1>3. Promise!TimePasses
  BY EndedInTime
<1>. QED  BY <1>2, <1>3, PgIdlingIsPromised

---------------------------------------------------------------------------
(* The steps that end a call. *)

(* Who waits for nobody finds the row of its statement unlocked. *)
LEMMA NobodyHolds ==
  ASSUME PgInv, NEW c \in StoreCalls, NEW row \in Rows, HoldersOf(c, row, "update") = {},
         NEW d \in StoreCalls \ {c}
  PROVE  pgHeld[d][row] = "none"
BY DEF HoldersOf, Conflicts, PgInv, PgTypeOK

(* A transaction commits, or its answer is lost. *)
LEMMA CommittingKeeps ==
  ASSUME PgInv, NEW c \in StoreCalls, pgPhase[c] = "locking", Settled(c),
         pgRows' = Written(c), Unlock(c),
         \/ LooksForExpiry(c) /\ LookForExpiry(c)
         \/ Tell(c, FALSE)
         \/ TransactionWins(c) /\ Tell(c, TRUE)
  PROVE  PgInv' /\ Promise!StoreNext
<1>. DEFINE r == pgCall[c]
            s == View(c)
<1>1. /\ RecordsInv(pgRows) /\ Admitted(pgRows, r) /\ r.op \in LockingOps
      /\ pgSeen[c] \in Views /\ pgRows \in Views
  BY DEF PgInv, PhaseInv, PgTypeOK, RecordsInv
<1>2. Ended(c)
  <2>1. LooksForExpiry(c) => pgCall[c].op = "decide"
    BY DEF LooksForExpiry
  <2>2. pgHeld' = [pgHeld EXCEPT ![c] = NoLocks] /\ pgPlan' = [pgPlan EXCEPT ![c] = <<>>]
    BY DEF Unlock
  <2>. QED  BY <1>1, <2>1, <2>2 DEF Ended
<1>3. CASE TransactionWins(c)
  <2>1. s \in Views /\ s.late = pgSeen[c].late
    <3>1. DOMAIN NoRecords = Rows \cup {"late"}
      BY DEF NoRecords, Rows
    <3>2. s = [row \in Rows \cup {"late"} |->
                 IF row = "attempt" /\ r.op = "reserve" THEN pgRows[row] ELSE pgSeen[c][row]]
      BY <3>1 DEF View
    <3>3. s = [key |-> pgSeen[c].key, scope |-> pgSeen[c].scope, late |-> pgSeen[c].late,
               toolCall |-> pgSeen[c].toolCall, approval |-> pgSeen[c].approval,
               receipt |-> pgSeen[c].receipt, grant |-> pgSeen[c].grant,
               attempt |-> IF r.op = "reserve" THEN pgRows.attempt ELSE pgSeen[c].attempt]
      <4>. HIDE DEF r, s
      <4>. QED  BY <3>2 DEF Rows
    <3>. HIDE DEF r, s
    <3>4. (IF r.op = "reserve" THEN pgRows.attempt ELSE pgSeen[c].attempt) \in AttemptRows
      BY <1>1 DEF Views
    <3>. QED  BY <1>1, <3>3, <3>4 DEF Views
  <2>2. /\ Agrees(r, s, pgRows)
        /\ r.op # "reserve" => \A row \in ReadRows(r.op) : pgHeld[c][row] = "update"
    BY <1>3, WinnersHold
  <2>3. Written(c) = Merged(r, s, pgRows)
    BY <1>3 DEF Written, Merged
  <2>4. Succeeds(r, s)
    BY <1>3 DEF TransactionWins
  <2>5. TimeOf(c) \in BOOLEAN /\ (AsksTime(r) => s.late = TimeOf(c))
    BY <1>1, <2>1 DEF TimeOf, Views
  <2>. HIDE DEF r, s
  <2>6. /\ Wins(r, At(pgRows, TimeOf(c)))
        /\ Merged(r, s, pgRows) = At(Effect(r, At(pgRows, TimeOf(c))), pgRows.late)
        /\ \A row \in ChangedRows(r.op) :
             (row \in ReadRows(r.op) /\ r.op # "reserve") \/ ~Present(pgRows, row)
    BY <1>1, <2>1, <2>2, <2>4, <2>5, MergedIsEffect
  <2>7. ASSUME NEW row \in ChangedRows(r.op), NEW d \in StoreCalls \ {c}
        PROVE  pgHeld[d][row] = "none"
    <3>1. row \in Rows
      BY DEF ChangedRows
    <3>2. CASE row \in ReadRows(r.op) /\ r.op # "reserve"
      <4>1. pgHeld[c][row] = "update"
        BY <2>2, <3>2
      <4>2. ~Conflicts(pgHeld[c][row], pgHeld[d][row])
        BY <3>1, <4>1 DEF PgInv, HeldInv
      <4>. QED  BY <4>1, <4>2 DEF Conflicts
    <3>3. CASE ~Present(pgRows, row)
      BY <3>1, <3>3 DEF PgInv, HeldInv
    <3>. QED  BY <2>6, <3>2, <3>3
  <2>8. pgWon' \in {{c}, {}}
    BY DEF Tell, LookForExpiry
  <2>. QED  BY <1>1, <1>2, <2>3, <2>6, <2>7, <2>8, WinningKeeps
<1>4. CASE ~TransactionWins(c)
  <2>1. pgRows' = pgRows /\ pgWon' = {}
    BY <1>4 DEF Written, Tell, LookForExpiry
  <2>. QED  BY <1>2, <2>1, LosingKeeps
<1>. QED  BY <1>3, <1>4

(* A call that holds nothing has nothing to unlock. *)
LEMMA NothingHeld ==
  ASSUME PgInv, NEW c \in StoreCalls, pgPhase[c] # "locking"
  PROVE  pgHeld = [pgHeld EXCEPT ![c] = NoLocks]
BY DEF PgInv, PhaseInv, PgTypeOK

(* A rejection, cancellation or expiry that was called earlier. *)
LEMMA StatementKeeps ==
  ASSUME PgInv, NEW c \in StoreCalls, Statement(c)
  PROVE  PgInv' /\ Promise!StoreNext
<1>. DEFINE r == pgCall[c]
            u == At(pgRows, TimeOf(c))
<1>1. /\ RecordsInv(pgRows) /\ pgRows \in Views /\ Admitted(pgRows, r)
      /\ pgPhase[c] = "statement" /\ r.op \in Closings
      /\ TimeOf(c) = pgSeen[c].late /\ TimeOf(c) \in BOOLEAN
  BY DEF PgInv, PhaseInv, PgTypeOK, RecordsInv, Statement, TimeOf, AsksTime, Views
<1>2. u = [pgRows EXCEPT !.late = pgSeen[c].late]
  BY <1>1 DEF At
<1>3. ASSUME NEW d \in StoreCalls \ {c}
      PROVE  pgHeld[d]["approval"] = "none"
  <2>1. HoldersOf(c, "approval", "update") = {}
    BY <1>1 DEF Statement, Waits, StatementRow, Closings
  <2>. QED  BY <2>1, NobodyHolds DEF Rows
<1>4. ChangedRows(r.op) \subseteq {"approval"}
  BY <1>1 DEF ChangedRows, Closings
<1>5. pgHeld' = [pgHeld EXCEPT ![c] = NoLocks] /\ pgPlan' = pgPlan
  BY <1>1, NothingHeld DEF Statement
<1>6. CASE Succeeds(r, u)
  <2>1. pgRows' = At(Effect(r, u), pgRows.late) /\ Tell(c, TRUE)
    BY <1>2, <1>6 DEF Statement, At
  <2>2. Wins(r, u)
    BY <1>1, <1>6, AtKeeps, SucceedingWins
  <2>3. Ended(c) /\ pgWon' \in {{c}, {}}
    BY <1>5, <2>1 DEF Ended, Tell
  <2>. HIDE DEF r
  <2>. QED  BY <1>1, <1>3, <1>4, <2>1, <2>2, <2>3, WinningKeeps
<1>7. CASE ~Succeeds(r, u)
  <2>1. /\ pgRows' = pgRows
        /\ Tell(c, FALSE) \/ (r.op \in {"reject", "cancel"} /\ LookForExpiry(c))
    BY <1>2, <1>7 DEF Statement
  <2>2. Ended(c) /\ pgWon' = {}
    BY <1>1, <1>5, <2>1 DEF Ended, Tell, LookForExpiry
  <2>. QED  BY <2>1, <2>2, LosingKeeps
<1>. QED  BY <1>6, <1>7

(* A statement that asks for no time. *)
LEMMA AtOnceKeeps ==
  ASSUME PgInv, NEW c \in StoreCalls, NEW r \in StoreRequests, AtOnce(c, r)
  PROVE  PgInv' /\ Promise!StoreNext
<1>1. /\ RecordsInv(pgRows) /\ pgRows \in Views /\ Admitted(pgRows, r)
      /\ pgPhase[c] = "idle" /\ pgCall[c] = NoCall /\ pgRows.late \in BOOLEAN
  BY LegalIsAdmitted DEF PgInv, PhaseInv, RecordsInv, AtOnce, Views
<1>2. TimeOf(c) = pgRows.late
  BY <1>1 DEF TimeOf, AsksTime, NoCall, Closings
<1>3. At(pgRows, TimeOf(c)) = pgRows
  BY <1>1, <1>2, AtKeeps
<1>4. r.op \in {"write", "openReceipt", "issue", "bind", "settle", "giveUp", "receiptOutcome"}
  <2>1. r.op \notin LockingOps
    BY PlansAreOk DEF PlanOk, AtOnce
  <2>2. r.op \notin Closings
    BY DEF AtOnce, AsksTime
  <2>. QED  BY <2>1, <2>2, RequestOps DEF LockingOps, Closings
<1>5. StatementRow(r) \in Rows /\ ChangedRows(r.op) \subseteq {StatementRow(r)}
  BY <1>4 DEF StatementRow, ChangedRows, Rows, Closings
<1>6. \A d \in StoreCalls \ {c} : pgHeld[d][StatementRow(r)] = "none"
  BY <1>5, NobodyHolds DEF AtOnce
<1>7. pgHeld' = [pgHeld EXCEPT ![c] = NoLocks] /\ pgPlan' = pgPlan
  BY <1>1, NothingHeld DEF AtOnce
<1>8. Ended(c)
  BY <1>7 DEF AtOnce, Ended
<1>9. CASE Succeeds(r, pgRows)
  <2>1. Wins(r, pgRows)
    BY <1>1, <1>9, SucceedingWins
  <2>2. Effect(r, pgRows) \in Views /\ Effect(r, pgRows).late = pgRows.late
    BY <1>1, <2>1, EffectKeeps DEF RecordsInv
  <2>3. pgRows' = At(Effect(r, pgRows), pgRows.late)
    BY <1>1, <1>9, <2>2, AtKeeps DEF AtOnce
  <2>4. pgWon' \in {{c}, {}}
    BY DEF AtOnce, Tell
  <2>. QED  BY <1>1, <1>3, <1>5, <1>6, <1>8, <2>1, <2>3, <2>4, WinningKeeps
<1>10. CASE ~Succeeds(r, pgRows)
  <2>1. pgRows' = pgRows /\ pgWon' = {}
    BY <1>10 DEF AtOnce, Tell
  <2>. QED  BY <1>8, <2>1, LosingKeeps
<1>. QED  BY <1>9, <1>10

(* The approval that a late decision or closing missed is expired. *)
LEMMA PgExpireKeeps ==
  ASSUME PgInv, NEW c \in StoreCalls, Expire(c)
  PROVE  PgInv' /\ Promise!StoreNext
<1>. DEFINE u == At(pgRows, TimeOf(c))
            r == [op |-> "expire", body |-> None]
<1>1. /\ RecordsInv(pgRows) /\ pgRows \in Views /\ pgRows.late \in BOOLEAN
      /\ pgPhase[c] = "expiring"
      /\ TimeOf(c) = pgSeen[c].late /\ TimeOf(c) \in BOOLEAN
  BY DEF PgInv, PhaseInv, PgTypeOK, RecordsInv, Expire, TimeOf, AsksTime, Views, Closings
<1>2. u = [pgRows EXCEPT !.late = pgSeen[c].late]
  BY <1>1 DEF At
<1>3. ASSUME NEW d \in StoreCalls \ {c}
      PROVE  pgHeld[d]["approval"] = "none"
  <2>1. HoldersOf(c, "approval", "update") = {}
    BY <1>1 DEF Expire, Waits
  <2>. QED  BY <2>1, NobodyHolds DEF Rows
<1>4. pgHeld' = [pgHeld EXCEPT ![c] = NoLocks] /\ pgPlan' = pgPlan
  BY <1>1, NothingHeld DEF Expire
<1>5. CASE ExpireWins(u)
  <2>1. r.op = "expire" /\ r \in StoreRequests
    BY DEF StoreRequests, Closings
  <2>. HIDE DEF r
  <2>2. pgRows.approval = "pending" /\ pgSeen[c].late
    BY <1>1, <1>2, <1>5 DEF ExpireWins, Views
  <2>3. Admitted(pgRows, r)
    BY <1>1, <2>1, <2>2 DEF Admitted, RecordsInv
  <2>4. Wins(r, u)
    <3>1. Succeeds(r, u)
      BY <1>5, <2>1 DEF Succeeds
    <3>. QED  BY <1>1, <2>3, <3>1, AtKeeps, SucceedingWins
  <2>5. pgRows' = [pgRows EXCEPT !.approval = "expired"] /\ Tell(c, TRUE)
    BY <1>2, <1>5 DEF Expire
  <2>6. pgRows' = At(Effect(r, u), pgRows.late)
    <3>1. Effect(r, u) = [u EXCEPT !.approval = "expired"]
      BY <1>1, <1>2, <2>1, <2>2 DEF Effect, Closings, Views
    <3>. QED  BY <1>1, <1>2, <2>5, <3>1 DEF At, Views
  <2>7. ChangedRows(r.op) \subseteq {"approval"}
    BY <2>1 DEF ChangedRows
  <2>8. Ended(c) /\ pgWon' \in {{c}, {}}
    BY <1>4, <2>5 DEF Ended, Tell
  <2>. QED  BY <1>3, <2>3, <2>4, <2>6, <2>7, <2>8, WinningKeeps
<1>6. CASE ~ExpireWins(u)
  <2>1. pgRows' = pgRows /\ Tell(c, FALSE)
    BY <1>2, <1>6 DEF Expire, Tell
  <2>2. Ended(c) /\ pgWon' = {}
    BY <1>4, <2>1 DEF Ended, Tell
  <2>. QED  BY <2>1, <2>2, LosingKeeps
<1>. QED  BY <1>5, <1>6

(* A transaction that is aborted leaves the rows alone. *)
LEMMA RollBackKeeps ==
  ASSUME PgInv, NEW c \in StoreCalls, RollBack(c)
  PROVE  PgInv' /\ Promise!StoreNext
<1>1. Ended(c) /\ pgRows' = pgRows /\ pgWon' = {}
  BY DEF RollBack, Unlock, Ended, Tell
<1>. QED  BY <1>1, LosingKeeps

---------------------------------------------------------------------------
(* The steps that take a lock. *)

(* A call that begins one of the operations that ask for the time. *)
LEMMA PgCallKeeps ==
  ASSUME PgInv, NEW c \in StoreCalls, NEW r \in StoreRequests, Call(c, r)
  PROVE  PgInv' /\ Promise!StoreNext
<1>1. /\ RecordsInv(pgRows) /\ pgRows.late \in BOOLEAN /\ Admitted(pgRows, r)
      /\ PhaseInv(c) /\ pgPhase[c] = "idle" /\ r.op \in {"decide", "reserve"} \cup Closings
  BY LegalIsAdmitted DEF PgInv, RecordsInv, Views, Call, AsksTime
<1>2. pgRows' = pgRows /\ pgHeld' = pgHeld /\ pgHeld[c] = NoLocks /\ pgWon' = {}
  BY <1>1 DEF Call, PhaseInv
<1>3. IF LockPlan(r) = <<>> THEN r.op \in Closings ELSE r.op \in LockingOps
  <2>1. r.op \in LockingOps => LockPlan(r) # <<>>
    BY PlansAreOk DEF PlanOk
  <2>2. r.op \notin LockingOps => LockPlan(r) = <<>>
    BY NoPlan
  <2>. QED  BY <1>1, <2>1, <2>2 DEF LockingOps
<1>4. LockPlan(r) \in Seq(RowLocks)
  <2>1. <<>> \in Seq(RowLocks)
    OBVIOUS
  <2>. QED  BY <1>3, <2>1, PlansAreOk DEF PlanOk
<1>5. [pgSeen[c] EXCEPT !.late = pgRows.late] \in Views
  <2>1. pgSeen[c] \in Views
    BY DEF PgInv, PgTypeOK
  <2>. QED  BY <1>1, <2>1 DEF Views
<1>6. /\ pgCall' = [pgCall EXCEPT ![c] = r] /\ pgPlan' = [pgPlan EXCEPT ![c] = LockPlan(r)]
      /\ pgPhase' = [pgPhase EXCEPT ![c] =
                       IF LockPlan(r) = <<>> THEN "statement" ELSE "locking"]
      /\ pgSeen' = [pgSeen EXCEPT ![c] = [@ EXCEPT !.late = pgRows.late]]
  BY DEF Call
<1>7. PgTypeOK'
  BY <1>2, <1>4, <1>5, <1>6 DEF PgInv, PgTypeOK
<1>8. /\ pgCall'[c] = r /\ pgPlan'[c] = LockPlan(r)
      /\ pgPhase'[c] = IF LockPlan(r) = <<>> THEN "statement" ELSE "locking"
      /\ pgSeen'[c].late = pgRows.late
  BY <1>6 DEF PgInv, PgTypeOK, Views
<1>9. PhaseInv(c)'
  <2>1. TakenCount(c)' = 0
    BY <1>4, <1>8 DEF TakenCount
  <2>2. PlanInv(c)'
    BY <1>4, <1>8, <2>1 DEF PlanInv
  <2>3. r.op \notin {"adopt", "create"}
    BY <1>1 DEF Closings
  <2>4. SeenInv(c)'
    BY <1>8, <2>1, <2>3 DEF SeenInv
  <2>5. TakenInv(c)'
    BY <1>2 DEF TakenInv, NoLocks
  <2>. QED  BY <1>1, <1>2, <1>3, <1>8, <2>2, <2>4, <2>5 DEF PhaseInv
<1>10. \A d \in StoreCalls \ {c} :
         /\ pgCall'[d] = pgCall[d] /\ pgPhase'[d] = pgPhase[d] /\ pgPlan'[d] = pgPlan[d]
         /\ pgSeen'[d] = pgSeen[d]
  BY <1>6 DEF PgInv, PgTypeOK
<1>11. PgInv'
  BY <1>1, <1>2, <1>7, <1>9, <1>10, FrameKeeps
<1>12. Promise!TimePasses
  BY <1>2, <1>8, <1>10, TimeGoesOn
<1>. QED  BY <1>2, <1>11, <1>12, PgIdlingIsPromised

(* The rows a call with this much of its plan left has taken still stand as
   it saw them. *)
Saw(c, r, plan) ==
  /\ r.op \in LockingOps /\ Admitted(pgRows, r)
  /\ plan \in Seq(RowLocks) /\ plan # <<>> /\ Len(plan) <= Len(LockPlan(r))
  /\ \A i \in 1..Len(plan) : plan[i] = LockPlan(r)[Len(LockPlan(r)) - Len(plan) + i]
  /\ \A i \in 1..(Len(LockPlan(r)) - Len(plan)) :
       LET lock == LockPlan(r)[i]
       IN  Present(pgSeen[c], lock.row) =>
             pgHeld[c][lock.row] = lock.mode /\ pgSeen[c][lock.row] = pgRows[lock.row]
  /\ \A row \in Rows :
       pgHeld[c][row] # "none" =>
         \E i \in 1..(Len(LockPlan(r)) - Len(plan)) : LockPlan(r)[i].row = row
  /\ r.op = "adopt" /\ Len(plan) <= 1 /\ pgSeen[c].attempt.state # "none" =>
       pgSeen[c].receipt.present
  /\ r.op = "create" => pgSeen[c].toolCall = NoRecords.toolCall /\ pgSeen[c].approval = "none"

LEMMA TakingKeeps ==
  ASSUME PgInv, NEW c \in StoreCalls, NEW r, NEW plan, Saw(c, r, plan),
         Lockable(Head(plan).row) => HoldersOf(c, Head(plan).row, Head(plan).mode) = {},
         Take(c, Head(plan)), pgCall' = [pgCall EXCEPT ![c] = r],
         pgPlan' = [pgPlan EXCEPT ![c] = Tail(plan)],
         pgPhase' = [pgPhase EXCEPT ![c] = "locking"]
  PROVE  PgInv'
<1>. DEFINE all == LockPlan(r)
            n == Len(all) - Len(plan)
            lock == Head(plan)
            seen == [pgSeen[c] EXCEPT ![lock.row] = pgRows[lock.row]]
            mode == IF Lockable(lock.row) THEN lock.mode ELSE pgHeld[c][lock.row]
            held == [pgHeld[c] EXCEPT ![lock.row] = mode]
<1>1. /\ plan \in Seq(RowLocks) /\ plan # <<>> /\ all \in Seq(RowLocks)
      /\ \A i, j \in 1..Len(all) : all[i].row = all[j].row => i = j
  BY PlansAreOk DEF Saw, PlanOk
<1>2. /\ lock \in RowLocks /\ lock = plan[1] /\ Tail(plan) \in Seq(RowLocks)
      /\ Len(Tail(plan)) = Len(plan) - 1
      /\ \A i \in 1..Len(Tail(plan)) : Tail(plan)[i] = plan[i + 1]
  BY <1>1
<1>3. n \in 0..(Len(all) - 1) /\ lock = all[n + 1]
  BY <1>1, <1>2 DEF Saw
<1>4. lock.row \in Rows /\ lock.mode \in {"share", "update"}
  BY <1>2 DEF RowLocks
<1>. HIDE DEF all, n, lock
<1>5. /\ pgRows \in Views /\ RecordsInv(pgRows) /\ pgSeen[c] \in Views
      /\ pgHeld[c] \in [Rows -> {"none", "share", "update"}]
  BY DEF PgInv, RecordsInv, PgTypeOK
<1>6. /\ seen \in Views /\ seen[lock.row] = pgRows[lock.row] /\ seen.late = pgSeen[c].late
      /\ \A row \in Rows : row # lock.row => seen[row] = pgSeen[c][row]
  BY <1>4, <1>5 DEF Views, Rows
<1>7. /\ held \in [Rows -> {"none", "share", "update"}] /\ held[lock.row] = mode
      /\ \A row \in Rows : row # lock.row => held[row] = pgHeld[c][row]
  BY <1>4, <1>5
<1>8. /\ pgRows' = pgRows /\ pgSeen' = [pgSeen EXCEPT ![c] = seen]
      /\ pgHeld' = [pgHeld EXCEPT ![c] = held]
  BY DEF Take, lock
<1>. HIDE DEF seen, held
<1>9. PgTypeOK'
  <2>1. r \in StoreRequests
    BY DEF Saw, Admitted
  <2>2. pgHeld' \in [StoreCalls -> [Rows -> {"none", "share", "update"}]]
    BY <1>8, <1>7 DEF PgInv, PgTypeOK
  <2>. QED  BY <1>2, <1>6, <1>8, <2>1, <2>2 DEF PgInv, PgTypeOK
<1>10. /\ pgCall'[c] = r /\ pgPlan'[c] = Tail(plan) /\ pgPhase'[c] = "locking"
       /\ pgSeen'[c] = seen
       /\ pgHeld'[c][lock.row] = IF Lockable(lock.row) THEN lock.mode ELSE pgHeld[c][lock.row]
       /\ \A row \in Rows : row # lock.row => pgHeld'[c][row] = pgHeld[c][row]
  BY <1>4, <1>7, <1>8 DEF PgInv, PgTypeOK
<1>11. Lockable(lock.row) <=> Present(pgRows, lock.row)
  BY <1>4 DEF Lockable, Present, Rows
<1>12. TakenCount(c)' = n + 1
  <2>1. TakenCount(c)' = Len(all) - Len(Tail(plan))
    BY <1>10 DEF TakenCount, all
  <2>2. Len(all) \in Nat /\ Len(plan) \in Nat
    BY <1>1
  <2>. QED  BY <1>2, <2>1, <2>2 DEF n
<1>13. PlanInv(c)'
  <2>1. Len(Tail(plan)) <= Len(all)
    BY <1>1, <1>2, <1>3 DEF n
  <2>2. ASSUME NEW i \in 1..Len(Tail(plan))
        PROVE  Tail(plan)[i] = all[n + 1 + i]
    <3>1. i + 1 \in 1..Len(plan) /\ Tail(plan)[i] = plan[i + 1]
      BY <1>1, <1>2
    <3>2. plan[i + 1] = all[n + (i + 1)]
      BY <3>1 DEF Saw, all, n
    <3>3. n + (i + 1) = n + 1 + i
      BY <1>3
    <3>. QED  BY <3>1, <3>2, <3>3
  <2>. QED  BY <1>10, <1>12, <2>1, <2>2 DEF PlanInv, all
<1>14. ASSUME NEW i \in 1..(n + 1), Present(seen, all[i].row)
       PROVE  pgHeld'[c][all[i].row] = all[i].mode /\ seen[all[i].row] = pgRows[all[i].row]
  <2>1. i \in 1..Len(all)
    BY <1>1, <1>3
  <2>2. all[i].row \in Rows
    <3>1. all[i] \in RowLocks
      BY <1>1, <2>1
    <3>. QED  BY <3>1 DEF RowLocks
  <2>3. CASE i = n + 1
    <3>1. Present(pgRows, lock.row)
      BY <1>3, <1>4, <1>6, <1>14, <2>3, SamePresence
    <3>. QED  BY <1>3, <1>6, <1>10, <1>11, <2>3, <3>1
  <2>4. CASE i # n + 1
    <3>1. i \in 1..n
      BY <1>3, <2>4
    <3>2. all[i].row # lock.row
      <4>1. n + 1 \in 1..Len(all)
        BY <1>1, <1>3
      <4>. QED  BY <1>1, <1>3, <2>1, <2>4, <4>1
    <3>3. Present(pgSeen[c], all[i].row)
      BY <1>6, <1>14, <2>2, <3>2, SamePresence
    <3>4. pgHeld[c][all[i].row] = all[i].mode /\ pgSeen[c][all[i].row] = pgRows[all[i].row]
      BY <3>1, <3>3 DEF Saw, all, n
    <3>. QED  BY <1>6, <1>10, <2>2, <3>2, <3>4
  <2>. QED  BY <2>3, <2>4
<1>15. ASSUME r.op = "adopt", Len(Tail(plan)) <= 1, seen.attempt.state # "none"
       PROVE  seen.receipt.present
  <2>1. Len(all) = 4 /\ all[1] = Update("attempt") /\ all[3] = Update("receipt")
    BY <1>15, AdoptionOrder DEF all
  <2>2. n \in {2, 3}
    BY <1>1, <1>2, <1>3, <1>15, <2>1 DEF n
  <2>3. lock.row # "attempt"
    BY <1>1, <1>3, <2>1, <2>2 DEF Update
  <2>4. seen.attempt = pgSeen[c].attempt
    BY <1>6, <2>3 DEF Rows
  <2>5. CASE n = 2
    <3>1. Present(pgSeen[c], "attempt")
      BY <1>15, <2>4 DEF Present
    <3>2. pgSeen[c].attempt = pgRows.attempt
      <4>1. 1 \in 1..n
        BY <2>5
      <4>2. all[1].row = "attempt"
        BY <2>1 DEF Update
      <4>. QED  BY <3>1, <4>1, <4>2 DEF Saw, all, n
    <3>3. pgRows.key \in Preparing
      BY <1>15 DEF Saw, Admitted
    <3>4. pgRows.receipt.present
      BY <1>5, <1>15, <2>4, <3>2, <3>3 DEF RecordsInv
    <3>5. lock.row = "receipt"
      BY <1>3, <2>1, <2>5 DEF Update
    <3>. QED  BY <1>6, <3>4, <3>5
  <2>6. CASE n = 3
    <3>1. lock.row # "receipt"
      <4>1. all[4].row # all[3].row
        BY <1>1, <2>1
      <4>. QED  BY <1>3, <2>1, <2>6, <4>1 DEF Update
    <3>2. seen.receipt = pgSeen[c].receipt
      BY <1>6, <3>1 DEF Rows
    <3>3. Len(plan) <= 1
      BY <1>1, <2>1, <2>6 DEF n
    <3>. QED  BY <1>15, <2>4, <3>2, <3>3 DEF Saw
  <2>. QED  BY <2>2, <2>5, <2>6
<1>16. ASSUME r.op = "create"
       PROVE  seen.toolCall = NoRecords.toolCall /\ seen.approval = "none"
  <2>1. all = <<Update("key")>>
    BY <1>16, ForUpdateIs DEF LockPlan, CreatePlan, all
  <2>2. lock.row = "key"
    BY <1>3, <2>1 DEF Update
  <2>3. seen.toolCall = pgSeen[c].toolCall /\ seen.approval = pgSeen[c].approval
    BY <1>6, <2>2 DEF Rows
  <2>. QED  BY <1>16, <2>3 DEF Saw
<1>17. SeenInv(c)'
  BY <1>8, <1>10, <1>12, <1>14, <1>15, <1>16 DEF SeenInv, all
<1>18. PhaseInv(c)'
  <2>1. Admitted(pgRows', r) /\ r.op \in LockingOps
    BY <1>8 DEF Saw
  <2>2. ASSUME NEW row \in Rows, pgHeld'[c][row] # "none"
        PROVE  \E i \in 1..(n + 1) : all[i].row = row
    <3>1. CASE row = lock.row
      BY <1>3, <3>1
    <3>2. CASE row # lock.row
      <4>1. pgHeld[c][row] # "none"
        BY <1>10, <2>2, <3>2
      <4>2. \E i \in 1..n : all[i].row = row
        BY <4>1 DEF Saw, all, n
      <4>. QED  BY <1>3, <4>2
    <3>. QED  BY <3>1, <3>2
  <2>3. TakenInv(c)'
    BY <1>10, <1>12, <2>2 DEF TakenInv, all
  <2>. QED  BY <1>10, <1>13, <1>17, <2>1, <2>3 DEF PhaseInv
<1>19. \A d \in StoreCalls \ {c} :
         /\ pgCall'[d] = pgCall[d] /\ pgPhase'[d] = pgPhase[d] /\ pgPlan'[d] = pgPlan[d]
         /\ pgHeld'[d] = pgHeld[d] /\ pgSeen'[d] = pgSeen[d]
  BY <1>8 DEF PgInv, PgTypeOK
<1>20. ASSUME NEW row \in Rows, pgHeld'[c][row] \notin {"none", pgHeld[c][row]}
       PROVE  Present(pgRows', row) /\ HoldersOf(c, row, pgHeld'[c][row]) = {}
  <2>1. row = lock.row /\ Lockable(lock.row) /\ pgHeld'[c][row] = lock.mode
    BY <1>10, <1>20
  <2>. QED  BY <1>8, <1>11, <2>1 DEF lock
<1>. QED
  BY <1>5, <1>8, <1>9, <1>18, <1>19, <1>20, FrameKeeps

(* Its time stands still, too. *)
LEMMA TakingInTime ==
  ASSUME PgInv, NEW c \in StoreCalls, NEW lock, lock.row \in Rows, Take(c, lock),
         pgCall' = pgCall \/ ~AsksTime(pgCall'[c]),
         \A d \in StoreCalls \ {c} : pgCall'[d] = pgCall[d]
  PROVE  Promise!TimePasses
<1>1. \A d \in StoreCalls : pgSeen'[d].late = pgSeen[d].late
  BY DEF Take, PgInv, PgTypeOK, Views, Rows
<1>. QED  BY <1>1, TimeGoesOn

LEMMA BeginKeeps ==
  ASSUME PgInv, NEW c \in StoreCalls, NEW r \in StoreRequests, Begin(c, r)
  PROVE  PgInv' /\ Promise!StoreNext
<1>. DEFINE plan == LockPlan(r)
            lock == Head(plan)
<1>1. /\ pgPhase[c] = "idle" /\ pgHeld[c] = NoLocks /\ pgSeen[c] = NoRecords
      /\ Admitted(pgRows, r) /\ plan # <<>> /\ ~AsksTime(r)
  BY LegalIsAdmitted DEF PgInv, PhaseInv, Begin
<1>2. r.op \in LockingOps
  BY <1>1, NoPlan
<1>3. plan \in Seq(RowLocks)
  BY <1>2, PlansAreOk DEF PlanOk
<1>4. Len(plan) \in Nat /\ Len(plan) - Len(plan) = 0 /\ lock.row \in Rows
  <2>. HIDE DEF plan
  <2>1. lock \in RowLocks /\ Len(plan) \in Nat
    BY <1>1, <1>3
  <2>. QED  BY <2>1 DEF RowLocks
<1>5. pgSeen[c].attempt.state = "none" /\ pgSeen[c].approval = "none"
  BY <1>1 DEF NoRecords
<1>6. Saw(c, r, plan)
  BY <1>1, <1>2, <1>3, <1>4, <1>5 DEF Saw, NoLocks
<1>7. /\ Lockable(lock.row) => HoldersOf(c, lock.row, lock.mode) = {}
      /\ Take(c, lock) /\ pgCall' = [pgCall EXCEPT ![c] = r]
      /\ pgPlan' = [pgPlan EXCEPT ![c] = Tail(plan)]
      /\ pgPhase' = [pgPhase EXCEPT ![c] = "locking"]
  BY DEF Begin
<1>8. pgCall'[c] = r /\ \A d \in StoreCalls \ {c} : pgCall'[d] = pgCall[d]
  BY <1>7 DEF PgInv, PgTypeOK
<1>9. pgRows' = pgRows /\ pgWon' = {}
  BY <1>7 DEF Take
<1>. HIDE DEF plan, lock
<1>10. Promise!TimePasses
  BY <1>1, <1>4, <1>7, <1>8, TakingInTime
<1>11. PgInv'
  BY <1>6, <1>7, TakingKeeps DEF lock
<1>. QED  BY <1>9, <1>10, <1>11, PgIdlingIsPromised

LEMMA LockRowKeeps ==
  ASSUME PgInv, NEW c \in StoreCalls, LockRow(c)
  PROVE  PgInv' /\ Promise!StoreNext
<1>. DEFINE r == pgCall[c]
            plan == pgPlan[c]
            lock == Head(plan)
<1>1. /\ pgPhase[c] = "locking" /\ plan # <<>> /\ Waits(c) = {} /\ Take(c, lock)
      /\ pgPlan' = [pgPlan EXCEPT ![c] = Tail(plan)]
      /\ pgCall' = pgCall /\ pgPhase' = pgPhase
  BY DEF LockRow
<1>2. /\ r.op \in LockingOps /\ Admitted(pgRows, r) /\ PlanInv(c) /\ SeenInv(c)
      /\ TakenInv(c) /\ plan \in Seq(RowLocks)
  BY <1>1 DEF PgInv, PhaseInv, PgTypeOK
<1>3. Saw(c, r, plan)
  <2>1. /\ Len(plan) <= Len(LockPlan(r))
        /\ \A i \in 1..Len(plan) : plan[i] = LockPlan(r)[Len(LockPlan(r)) - Len(plan) + i]
    BY <1>2 DEF PlanInv, TakenCount
  <2>2. \A i \in 1..(Len(LockPlan(r)) - Len(plan)) :
          LET taken == LockPlan(r)[i]
          IN  Present(pgSeen[c], taken.row) =>
                /\ pgHeld[c][taken.row] = taken.mode
                /\ pgSeen[c][taken.row] = pgRows[taken.row]
    BY <1>2 DEF SeenInv, TakenCount
  <2>3. /\ r.op = "adopt" /\ Len(plan) <= 1 /\ pgSeen[c].attempt.state # "none" =>
             pgSeen[c].receipt.present
        /\ r.op = "create" =>
             pgSeen[c].toolCall = NoRecords.toolCall /\ pgSeen[c].approval = "none"
    BY <1>2 DEF SeenInv
  <2>4. \A row \in Rows :
          pgHeld[c][row] # "none" =>
            \E i \in 1..(Len(LockPlan(r)) - Len(plan)) : LockPlan(r)[i].row = row
    BY <1>2 DEF TakenInv, TakenCount
  <2>. HIDE DEF r, plan
  <2>. QED  BY <1>1, <1>2, <2>1, <2>2, <2>3, <2>4 DEF Saw
<1>4. lock.row \in Rows
  <2>. HIDE DEF plan
  <2>1. lock \in RowLocks
    BY <1>1, <1>2
  <2>. QED  BY <2>1 DEF RowLocks
<1>5. Lockable(lock.row) => HoldersOf(c, lock.row, lock.mode) = {}
  BY <1>1 DEF Waits
<1>6. pgCall' = [pgCall EXCEPT ![c] = r] /\ pgPhase' = [pgPhase EXCEPT ![c] = "locking"]
  BY <1>1 DEF PgInv, PgTypeOK
<1>7. pgRows' = pgRows /\ pgWon' = {}
  BY <1>1 DEF Take
<1>. HIDE DEF r, plan, lock
<1>8. Promise!TimePasses
  BY <1>1, <1>4, TakingInTime
<1>9. PgInv'
  BY <1>1, <1>3, <1>5, <1>6, TakingKeeps DEF lock
<1>. QED  BY <1>7, <1>8, <1>9, PgIdlingIsPromised

(* Once the authorization has expired, it is late for who asks then. *)
LEMMA ExpiryKeeps ==
  ASSUME PgInv, AuthorizationExpires
  PROVE  PgInv' /\ Promise!StoreNext
<1>1. /\ pgRows \in Views /\ pgRows' = At(pgRows, TRUE) /\ pgWon' = {}
      /\ UNCHANGED <<pgCall, pgPhase, pgPlan, pgHeld, pgSeen>>
  BY DEF PgInv, RecordsInv, AuthorizationExpires, At
<1>2. /\ RecordsInv(pgRows') /\ \A row \in Rows : pgRows'[row] = pgRows[row]
  <2>1. RecordsInv(pgRows)
    BY DEF PgInv
  <2>2. PICK late \in BOOLEAN : pgRows' = At(pgRows, late)
    BY <1>1
  <2>3. RecordsInv(At(pgRows, late)) /\ \A row \in Rows : At(pgRows, late)[row] = pgRows[row]
    BY <1>1, <2>1, AtKeeps
  <2>. QED  BY <2>2, <2>3
<1>3. \A row \in Rows : Present(pgRows, row) <=> Present(pgRows', row)
  BY <1>2, SamePresence
<1>4. pgRows'.key = pgRows.key
  BY <1>2 DEF Rows
<1>5. ASSUME NEW c \in StoreCalls
      PROVE  PhaseInv(c)'
  <2>1. PhaseInv(c)
    BY DEF PgInv
  <2>2. Admitted(pgRows, pgCall[c]) => Admitted(pgRows', pgCall[c])
    BY <1>4, StillAdmitted
  <2>3. pgPhase[c] = "locking" => PlanInv(c)' /\ SeenInv(c)' /\ TakenInv(c)'
    <3>. HAVE pgPhase[c] = "locking"
    <3>1. PlanInv(c) /\ SeenInv(c) /\ TakenInv(c) /\ LockPlan(pgCall[c]) \in Seq(RowLocks)
      BY <2>1, PlansAreOk DEF PhaseInv, PlanOk
    <3>2. TakenCount(c)' = TakenCount(c) /\ PlanInv(c)'
      BY <1>1, <3>1 DEF PlanInv, TakenCount
    <3>3. ASSUME NEW i \in 1..TakenCount(c)
          PROVE  LockPlan(pgCall[c])[i].row \in Rows
      <4>1. i \in 1..Len(LockPlan(pgCall[c]))
        BY <3>1 DEF TakenCount, PlanInv, PgInv, PgTypeOK
      <4>2. LockPlan(pgCall[c])[i] \in RowLocks
        BY <3>1, <4>1
      <4>. QED  BY <4>2 DEF RowLocks
    <3>4. SeenInv(c)'
      BY <1>1, <1>2, <3>1, <3>2, <3>3 DEF SeenInv
    <3>5. TakenInv(c)'
      BY <1>1, <3>1, <3>2 DEF TakenInv
    <3>. QED  BY <3>2, <3>4, <3>5
  <2>. QED  BY <1>1, <2>1, <2>2, <2>3 DEF PhaseInv
<1>6. PgTypeOK'
  BY <1>1 DEF PgInv, PgTypeOK
<1>7. HeldInv'
  BY <1>1, <1>3 DEF PgInv, HeldInv
<1>8. Promise!TimePasses
  BY <1>1, TimeGoesOn
<1>9. Promise!Elapse
  BY <1>1 DEF Promise!Elapse, At
<1>. QED
  BY <1>2, <1>5, <1>6, <1>7, <1>8, <1>9 DEF PgInv, Promise!StoreNext

---------------------------------------------------------------------------
(* The Postgres store keeps the promise. *)

LEMMA PgStep ==
  ASSUME PgInv, [PostgresNext]_pgVars
  PROVE  PgInv' /\ [Promise!StoreNext]_<<pgRows, pgWon, [c \in StoreCalls |-> TimeOf(c)]>>
<1>1. ASSUME NEW c \in StoreCalls, Commit(c) \/ LoseAnswer(c)
      PROVE  PgInv' /\ Promise!StoreNext
  <2>1. /\ pgPhase[c] = "locking" /\ Settled(c) /\ pgRows' = Written(c) /\ Unlock(c)
        /\ \/ LooksForExpiry(c) /\ LookForExpiry(c)
           \/ Tell(c, FALSE)
           \/ TransactionWins(c) /\ Tell(c, TRUE)
    BY <1>1 DEF Commit, LoseAnswer, Tell
  <2>. QED  BY <2>1, CommittingKeeps
<1>2. ASSUME NEW c \in StoreCalls, DeadlockVictim(c) \/ LoseConnection(c)
      PROVE  PgInv' /\ Promise!StoreNext
  BY <1>2, RollBackKeeps DEF DeadlockVictim, LoseConnection
<1>3. ASSUME UNCHANGED pgVars
      PROVE  /\ PgInv'
             /\ UNCHANGED <<pgRows, pgWon, [c \in StoreCalls |-> TimeOf(c)]>>
  <2>1. UNCHANGED <<pgRows, pgCall, pgPhase, pgPlan, pgHeld, pgSeen, pgWon>>
    BY <1>3 DEF pgVars
  <2>2. PgInv'
    BY <2>1 DEF PgInv, PgTypeOK, PhaseInv, PlanInv, SeenInv, TakenInv, TakenCount, HeldInv
  <2>. QED  BY <2>1, <2>2 DEF TimeOf
<1>. QED
  BY <1>1, <1>2, <1>3, PgCallKeeps, BeginKeeps, AtOnceKeeps, LockRowKeeps, StatementKeeps,
     PgExpireKeeps, ExpiryKeeps
     DEF PostgresNext

LEMMA PgStart ==
  ASSUME PostgresInit
  PROVE  PgInv /\ Promise!StoreInit
<1>1. RecordsInv(pgRows) /\ NoRecords \in Views /\ NoRecords.late = FALSE
  BY NothingIsRecorded DEF PostgresInit, RecordsInv
<1>2. <<>> \in Seq(RowLocks)
  OBVIOUS
<1>3. PgTypeOK
  BY <1>1, <1>2 DEF PostgresInit, PgTypeOK, NoLocks
<1>4. PgInv
  BY <1>1, <1>3 DEF PostgresInit, PgInv, PhaseInv, HeldInv, NoLocks
<1>5. Promise!StoreInit
  <2>1. \A c \in StoreCalls : ~AsksTime(pgCall[c])
    BY DEF PostgresInit, AsksTime, NoCall, Closings
  <2>2. [c \in StoreCalls |-> IF AsksTime(pgCall[c]) THEN pgSeen[c].late ELSE pgRows.late]
          = [c \in StoreCalls |-> FALSE]
    BY <1>1, <2>1 DEF PostgresInit
  <2>. QED  BY <2>2, PgSameRequests DEF PostgresInit, Promise!StoreInit
<1>. QED  BY <1>4, <1>5

(* Every reachable state of the Postgres store: a row that was there when a
   transaction took it stands as it was seen, locks exclude each other and
   are held on rows that are there, for any number of calls. *)
THEOREM PostgresInvariant == PostgresSpec => []PgInv
<1>1. PostgresInit => PgInv
  BY PgStart
<1>2. PgInv /\ [PostgresNext]_pgVars => PgInv'
  BY PgStep
<1>. QED  BY <1>1, <1>2, PTL DEF PostgresSpec

(* The Postgres store implements the promise of all stores, for any number of
   calls: what a transaction decided on when it took its locks, one after
   another, is still so when it commits, through aborted circles of waiting
   transactions, lost connections and lost answers. *)
THEOREM PostgresImplements == PostgresSpec => PostgresKeepsPromise
<1>1. PostgresInit => Promise!StoreInit
  BY PgStart
<1>2. PgInv /\ [PostgresNext]_pgVars =>
        [Promise!StoreNext]_<<pgRows, pgWon,
          [c \in StoreCalls |->
             IF AsksTime(pgCall[c]) THEN pgSeen[c].late ELSE pgRows.late]>>
  BY PgStep DEF TimeOf
<1>. QED
  BY <1>1, <1>2, PostgresInvariant, PTL
     DEF PostgresSpec, PostgresKeepsPromise, Promise!StoreSpec

---------------------------------------------------------------------------
(* Who waits for whom: the operations other than publish lock their rows in
   one order, so none of them waits in a circle. *)

(* The order in which rows are locked. *)
Place ==
  [key |-> 0, scope |-> 1, attempt |-> 2, toolCall |-> 3, approval |-> 4,
   receipt |-> 5, grant |-> 6]

LEMMA PlansInOrder ==
  ASSUME NEW r, r.op \in LockingOps, r.op # "publish"
  PROVE  \A i, j \in 1..Len(LockPlan(r)) :
           i < j => Place[LockPlan(r)[i].row] < Place[LockPlan(r)[j].row]
<1>. USE DEF Update, Share, Place
<1>1. CASE r.op = "create"
  <2>1. LockPlan(r) = <<Update("key")>>
    BY <1>1, ForUpdateIs DEF LockPlan, CreatePlan
  <2>. QED  BY <1>1, <2>1
<1>2. CASE r.op = "expose"
  <2>1. LockPlan(r) = <<Update("scope")>>
    BY <1>2, ForUpdateIs DEF LockPlan, ExposePlan
  <2>. QED  BY <1>2, <2>1
<1>3. CASE r.op = "decide"
  <2>1. LockPlan(r) = <<Update("scope"), Update("approval")>>
    BY <1>3, ForUpdateIs DEF LockPlan, DecidePlan
  <2>. QED  BY <1>3, <2>1
<1>4. CASE r.op = "reserve"
  <2>1. LockPlan(r) = <<Update("toolCall"), Share("approval"), Share("receipt")>>
    BY <1>4 DEF LockPlan, ReservePlan
  <2>. QED  BY <1>4, <2>1
<1>5. CASE r.op = "dispatch"
  <2>1. LockPlan(r) = <<Update("scope"), Update("attempt")>>
    BY <1>5, ForUpdateIs DEF LockPlan, DispatchPlan
  <2>. QED  BY <1>5, <2>1
<1>6. CASE r.op = "consume"
  <2>1. LockPlan(r) = <<Update("scope"), Update("attempt"), Update("grant")>>
    BY <1>6, ForUpdateIs DEF LockPlan, ConsumePlan
  <2>. QED  BY <1>6, <2>1
<1>7. CASE r.op \in {"adopt", "record"}
  <2>1. LockPlan(r) = <<Update("attempt"), Update("toolCall"), Update("receipt"),
                        Update("grant")>>
    BY <1>7, ForUpdateIs DEF LockPlan, AdoptPlan, RecordPlan
  <2>. QED  BY <1>7, <2>1
<1>. QED
  BY <1>1, <1>2, <1>3, <1>4, <1>5, <1>6, <1>7 DEF LockingOps

(* The row a call waits for. *)
Awaited(c) == IF pgPhase[c] = "locking" THEN Head(pgPlan[c]).row ELSE "approval"

LEMMA AwaitedRow ==
  ASSUME PgInv, NEW c \in StoreCalls, Waits(c) # {}
  PROVE  /\ Awaited(c) \in Rows
         /\ \A d \in Waits(c) : d \in StoreCalls /\ pgHeld[d][Awaited(c)] # "none"
         /\ pgPhase[c] = "locking" => pgPlan[c] # <<>>
<1>1. PhaseInv(c) /\ pgPlan[c] \in Seq(RowLocks)
      /\ pgPhase[c] \in {"idle", "locking", "statement", "expiring"}
  BY DEF PgInv, PgTypeOK
<1>2. CASE pgPhase[c] = "locking"
  <2>1. /\ pgPlan[c] # <<>>
        /\ Waits(c) = HoldersOf(c, Head(pgPlan[c]).row, Head(pgPlan[c]).mode)
    BY <1>2 DEF Waits
  <2>2. Head(pgPlan[c]) \in RowLocks
    BY <1>1, <2>1
  <2>3. Awaited(c) = Head(pgPlan[c]).row /\ Awaited(c) \in Rows
    BY <1>2, <2>2 DEF Awaited, RowLocks
  <2>. QED  BY <2>1, <2>3 DEF HoldersOf, Conflicts
<1>3. CASE pgPhase[c] # "locking"
  <2>1. Awaited(c) = "approval"
    BY <1>3 DEF Awaited
  <2>2. pgPhase[c] = "statement" => StatementRow(pgCall[c]) = "approval"
    BY <1>1 DEF PhaseInv, StatementRow, Closings
  <2>3. Waits(c) = HoldersOf(c, "approval", "update")
    BY <1>1, <1>3, <2>2 DEF Waits
  <2>. QED  BY <1>3, <2>1, <2>3 DEF HoldersOf, Conflicts, Rows
<1>. QED  BY <1>2, <1>3

(* Who is waited for, and waits, waits for a row later in that order. *)
LEMMA WaitsForLater ==
  ASSUME PgInv, NEW c \in StoreCalls, NEW d \in Waits(c), Waits(d) # {},
         pgCall[d].op # "publish"
  PROVE  Place[Awaited(c)] < Place[Awaited(d)]
<1>1. /\ d \in StoreCalls /\ Awaited(c) \in Rows /\ Awaited(d) \in Rows
      /\ pgHeld[d][Awaited(c)] # "none"
  BY AwaitedRow
<1>2. pgPhase[d] = "locking"
  BY <1>1 DEF PgInv, PhaseInv, NoLocks
<1>3. /\ pgCall[d].op \in LockingOps /\ PlanInv(d) /\ TakenInv(d)
      /\ pgPlan[d] \in Seq(RowLocks) /\ pgPlan[d] # <<>>
  BY <1>1, <1>2, AwaitedRow DEF PgInv, PhaseInv, PgTypeOK
<1>. DEFINE all == LockPlan(pgCall[d])
            n == TakenCount(d)
<1>4. all \in Seq(RowLocks)
  BY <1>3, PlansAreOk DEF PlanOk
<1>5. n = Len(all) - Len(pgPlan[d]) /\ n \in 0..(Len(all) - 1)
  BY <1>3, <1>4 DEF TakenCount, PlanInv
<1>6. PICK i \in 1..n : all[i].row = Awaited(c)
  BY <1>1, <1>3 DEF TakenInv
<1>7. Head(pgPlan[d]) = all[n + 1]
  <2>1. 1 \in 1..Len(pgPlan[d]) /\ Head(pgPlan[d]) = pgPlan[d][1]
    BY <1>3
  <2>. QED  BY <1>3, <2>1 DEF PlanInv
<1>8. Awaited(d) = all[n + 1].row
  BY <1>2, <1>7 DEF Awaited
<1>. HIDE DEF all, n
<1>9. i \in 1..Len(all) /\ n + 1 \in 1..Len(all) /\ i < n + 1
  <2>1. Len(all) \in Nat
    BY <1>4
  <2>2. n \in Nat /\ n < Len(all)
    BY <1>5, <2>1
  <2>3. i \in Nat /\ 1 <= i /\ i <= n
    BY <1>6, <2>2
  <2>. QED  BY <2>1, <2>2, <2>3
<1>10. \A k, l \in 1..Len(all) : k < l => Place[all[k].row] < Place[all[l].row]
  BY <1>3, PlansInOrder DEF all
<1>. QED  BY <1>6, <1>8, <1>9, <1>10

(* Operations other than publish do not wait in a circle: from c, waiting
   leads only to calls that wait for later rows, or do not wait. *)
LEMMA NoCircle ==
  ASSUME PgInv
  PROVE  NoDeadlockWithoutPublication
<1>. DEFINE others == {c \in StoreCalls : pgCall[c].op # "publish"}
<1>. SUFFICES ASSUME NEW c \in others, Deadlocked(c, others)
              PROVE  FALSE
  BY DEF NoDeadlockWithoutPublication
<1>1. ASSUME NEW x \in others, Waits(x) # {}
      PROVE  Place[Awaited(x)] \in Nat
  BY <1>1, AwaitedRow DEF Place, Rows
<1>2. CASE Waits(c) = {}
  <2>1. \A d \in {} \cup {c} : Waits(d) \cap others \subseteq {}
    BY <1>2
  <2>. QED  BY <2>1 DEF Deadlocked
<1>3. CASE Waits(c) # {}
  <2>. DEFINE later == {d \in others : Waits(d) # {} => Place[Awaited(c)] < Place[Awaited(d)]}
  <2>1. ASSUME NEW d \in later \cup {c}, NEW e \in Waits(d) \cap others
        PROVE  e \in later
    <3>. SUFFICES ASSUME Waits(e) # {}
                  PROVE  Place[Awaited(c)] < Place[Awaited(e)]
      OBVIOUS
    <3>1. d \in others /\ Waits(d) # {}
      OBVIOUS
    <3>2. Place[Awaited(d)] < Place[Awaited(e)]
      BY <3>1, WaitsForLater
    <3>3. d = c \/ Place[Awaited(c)] < Place[Awaited(d)]
      BY <3>1
    <3>4. /\ Place[Awaited(c)] \in Nat /\ Place[Awaited(d)] \in Nat
          /\ Place[Awaited(e)] \in Nat
      BY <1>1, <1>3, <3>1
    <3>. QED  BY <3>2, <3>3, <3>4
  <2>2. c \notin later
    BY <1>1, <1>3
  <2>3. later \in SUBSET others
    OBVIOUS
  <2>. HIDE DEF later, others
  <2>. QED  BY <2>1, <2>2, <2>3 DEF Deadlocked
<1>. QED  BY <1>2, <1>3

(* However many operations run, those other than publications never wait for
   each other in a circle: they lock the rows they have in common in the same
   order. *)
THEOREM PostgresOrdersLocks == PostgresSpec => []NoDeadlockWithoutPublication
BY PostgresInvariant, NoCircle, PTL
=============================================================================
