---------------------------- MODULE SqliteStore -----------------------------
(***************************************************************************)
(* The operations of StoreRecords over SQLite: every query is one process  *)
(* of sqlite3 that runs synchronously, in one transaction, and has its     *)
(* preconditions in its SQL.  Recording and adopting an outcome first read *)
(* the records in queries of their own, between which other calls run; a   *)
(* reservation reads the tool call.                                        *)
(*                                                                         *)
(* The process may be killed, or time out, before its transaction or after *)
(* it: its caller is told of an error either way.                          *)
(***************************************************************************)
EXTENDS StoreRecords, Sequences

VARIABLES
  liteRows,
  liteCall,
  litePhase,   \* idle, reading, writing, expiring
  liteReads,   \* the queries it has yet to make, each a set of rows
  liteSeen,
  liteWon      \* the calls just told that they won

liteVars == <<liteRows, liteCall, litePhase, liteReads, liteSeen, liteWon>>

(* The rows an operation reads before its transaction. *)
ReservePreread == <<{"toolCall"}>>
AdoptPreread  == <<{"attempt"}, {"toolCall"}, {"receipt"}, {"grant"}>>
RecordPreread == <<{"attempt"}, {"toolCall", "receipt", "grant"}>>

Preread(r) ==
  CASE r.op = "reserve" -> ReservePreread
    [] r.op = "adopt"   -> AdoptPreread
    [] r.op = "record"  -> RecordPreread
    [] OTHER -> <<>>

(* What the pre-read records let the operation go on to its transaction. *)
Proceeds(r, seen) ==
  CASE r.op = "reserve" -> seen.toolCall.status # "none"
    [] r.op \in {"adopt", "record"} -> Wins(r, seen)
    [] OTHER -> TRUE

(* The preconditions in the SQL of each operation. *)
CreateHolds(v) == v.key = None
ExposeHolds(v) == v.scope = 0
VoteHolds(v)   == v.approval = "pending" /\ v.scope = 0 /\ ~v.late
RejectHolds(v) == v.approval = "pending" /\ ~v.late
CancelHolds(v) == v.approval = "pending" /\ ~v.late
ExpireHolds(v) == v.approval = "pending" /\ v.late
ReserveHolds(v) == v.approval = "approved" /\ ~v.late /\ v.receipt.present
InsertHolds(v)  == v.attempt.state = "none"
DispatchHolds(v) == v.attempt.state = "reserved" /\ v.scope = 0
EndHolds(v)  == v.attempt.state = "dispatched"
BindHolds(v) == v.attempt.state = "reserved" /\ ~v.attempt.bound
ConsumeHolds(v) ==
  /\ v.attempt.state = "reserved" /\ v.attempt.bound
  /\ v.grant = "issued" /\ v.scope = 0
PublishHolds(v) ==
  /\ v.toolCall.status = "pending_approval" /\ v.approval = "approved"
  /\ ~v.receipt.present /\ v.grant = "none" /\ v.attempt.state = "none"
AdoptHolds(v, body, seen) ==
  /\ v.attempt.state = seen.attempt.state /\ v.attempt.outcome = seen.attempt.outcome
  /\ v.grant = "consumed" /\ v.receipt.outcome \in {None, body}
  /\ v.toolCall.status \in {"authorized", ToolCallStatus(body)}
RecordHoldsOnPreread(v) == v.grant = "consumed"   \* mutant
RecordHolds(v) ==
  /\ v.attempt.state = "dispatched" /\ v.attempt.outcome = None
  /\ v.grant = "consumed" /\ v.receipt.outcome = None
  /\ v.toolCall.status = "authorized"
ReceiptOutcomeHolds(v) == v.receipt.present /\ v.receipt.outcome = None

Holds(r, v, seen) ==
  CASE r.op = "create" -> CreateHolds(v)
    [] r.op = "expose" -> ExposeHolds(v)
    [] r.op = "decide" -> VoteHolds(v)
    [] r.op = "reject" -> RejectHolds(v)
    [] r.op = "cancel" -> CancelHolds(v)
    [] r.op = "expire" -> ExpireHolds(v)
    [] r.op = "reserve" -> ReserveHolds(v) /\ InsertHolds(v)
    [] r.op = "dispatch" -> DispatchHolds(v)
    [] r.op \in {"settle", "giveUp"} -> EndHolds(v)
    [] r.op = "bind" -> BindHolds(v)
    [] r.op = "consume" -> ConsumeHolds(v)
    [] r.op = "publish" -> PublishHolds(v)
    [] r.op = "adopt" -> AdoptHolds(v, r.body, seen)
    [] r.op = "record" -> RecordHolds(v)
    [] r.op = "receiptOutcome" -> ReceiptOutcomeHolds(v)
    [] r.op \in {"write", "openReceipt", "issue"} -> TRUE

---------------------------------------------------------------------------
SqliteInit ==
  /\ liteRows = NoRecords
  /\ liteCall = [c \in StoreCalls |-> NoCall]
  /\ litePhase = [c \in StoreCalls |-> "idle"]
  /\ liteReads = [c \in StoreCalls |-> <<>>]
  /\ liteSeen = [c \in StoreCalls |-> NoRecords]
  /\ liteWon = {}

(* An operation that reads before its transaction. *)
LiteCall(c, r) ==
  /\ litePhase[c] = "idle" /\ Legal(liteRows, r) /\ Preread(r) # <<>>
  /\ liteCall' = [liteCall EXCEPT ![c] = r]
  /\ liteReads' = [liteReads EXCEPT ![c] = Preread(r)]
  /\ litePhase' = [litePhase EXCEPT ![c] = "reading"]
  /\ liteWon' = {}
  /\ UNCHANGED <<liteRows, liteSeen>>

LiteRead(c) ==
  /\ litePhase[c] = "reading" /\ liteReads[c] # <<>>
  /\ liteSeen' = [liteSeen EXCEPT ![c] =
                    [row \in DOMAIN @ |->
                       IF row \in Head(liteReads[c]) THEN liteRows[row] ELSE @[row]]]
  /\ liteReads' = [liteReads EXCEPT ![c] = Tail(@)]
  /\ litePhase' = [litePhase EXCEPT ![c] = IF Len(liteReads[c]) = 1 THEN "writing" ELSE @]
  /\ liteWon' = {}
  /\ UNCHANGED <<liteRows, liteCall>>

LiteTell(c, wins) ==
  /\ liteWon' = IF wins THEN {c} ELSE {}
  /\ litePhase' = [litePhase EXCEPT ![c] = "idle"]
  /\ liteCall' = [liteCall EXCEPT ![c] = NoCall]
  /\ liteSeen' = [liteSeen EXCEPT ![c] = NoRecords]
  /\ liteReads' = [liteReads EXCEPT ![c] = <<>>]

(* The marker of the transaction tells whether it was this call's, unless
   the process ends before it has answered.  A vote, rejection or
   cancellation that misses tries to expire the approval. *)
Transaction(c, r) ==
  LET wins == Proceeds(r, liteSeen[c]) /\ Holds(r, liteRows, liteSeen[c])
      retries == ~wins /\ r.op \in {"decide", "reject", "cancel"}
  IN  /\ liteRows' = IF wins THEN Effect(r, liteRows) ELSE liteRows
      /\ \/ ~retries /\ LiteTell(c, wins)
         \/ LiteTell(c, FALSE)
         \/ /\ retries
            /\ litePhase' = [litePhase EXCEPT ![c] = "expiring"]
            /\ liteWon' = {}
            /\ UNCHANGED <<liteCall, liteReads, liteSeen>>

LiteWrite(c) == litePhase[c] = "writing" /\ Transaction(c, liteCall[c])

(* The only query of an operation that reads nothing before. *)
LiteAtOnce(c, r) ==
  /\ litePhase[c] = "idle" /\ Legal(liteRows, r) /\ Preread(r) = <<>>
  /\ Transaction(c, r)

LiteExpire(c) ==
  /\ litePhase[c] = "expiring"
  /\ LET expires == liteRows.approval = "pending" /\ liteRows.late
     IN  /\ liteRows' = IF expires THEN [liteRows EXCEPT !.approval = "expired"] ELSE liteRows
         /\ LiteTell(c, expires)

LiteKilled(c) ==
  /\ litePhase[c] \in {"reading", "writing", "expiring"}
  /\ LiteTell(c, FALSE)
  /\ UNCHANGED liteRows

LiteElapse ==
  /\ liteRows.approval # "none" /\ ~liteRows.late
  /\ liteRows' = [liteRows EXCEPT !.late = TRUE]
  /\ liteWon' = {}
  /\ UNCHANGED <<liteCall, litePhase, liteReads, liteSeen>>

SqliteNext ==
  \/ \E c \in StoreCalls :
       \/ \E r \in StoreRequests : LiteCall(c, r) \/ LiteAtOnce(c, r)
       \/ LiteRead(c) \/ LiteWrite(c) \/ LiteExpire(c) \/ LiteKilled(c)
  \/ LiteElapse

SqliteSpec == SqliteInit /\ [][SqliteNext]_liteVars

---------------------------------------------------------------------------
LitePromise == INSTANCE ActionStore
                 WITH db <- liteRows, won <- liteWon,
                      asOf <- [c \in StoreCalls |-> liteRows.late]

(* The store keeps the promise of all stores although it reads records one
   by one before it writes: the transaction checks again what it depends
   on, and only the call whose marker was set is told that it won. *)
SqliteKeepsPromise == LitePromise!StoreSpec
=============================================================================
