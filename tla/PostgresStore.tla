--------------------------- MODULE PostgresStore ----------------------------
(***************************************************************************)
(* The operations of StoreRecords over Postgres: transactions that lock    *)
(* the rows they read one after another, and single statements that wait   *)
(* for the row they change.  A transaction decides on what it read when it *)
(* took each lock and its writes appear when it commits.                   *)
(*                                                                         *)
(* Postgres ends a cycle of waiting transactions by aborting one of them;  *)
(* withTransaction rolls back and passes the error on.  A connection may   *)
(* be lost at any time, also after COMMIT was carried out.                 *)
(* CURRENT_TIMESTAMP is the time a transaction, or a statement outside of  *)
(* one, began: it stands still while they wait for a lock.                 *)
(***************************************************************************)
EXTENDS StoreRecords, Sequences

VARIABLES
  pgRows,    \* the committed rows
  pgCall,    \* the request each call works on
  pgPhase,   \* idle, locking, statement, expiring
  pgPlan,    \* the rows its transaction has yet to lock
  pgHeld,    \* the locks it holds: row -> "none", "share", "update"
  pgSeen,    \* what it read of the rows when it locked them
  pgWon      \* the calls just told that they won

pgVars == <<pgRows, pgCall, pgPhase, pgPlan, pgHeld, pgSeen, pgWon>>

Update(row) == [row |-> row, mode |-> "update"]
Share(row)  == [row |-> row, mode |-> "share"]
ForShare(rows) == [i \in DOMAIN rows |-> Share(rows[i])]   \* mutant
ForUpdate(rows) == [i \in DOMAIN rows |-> Update(rows[i])]

(* The order in which the transaction of an operation locks its rows. *)
CreatePlan  == ForUpdate(<<"key">>)
ExposePlan  == ForUpdate(<<"scope">>)
DecidePlan  == ForUpdate(<<"scope", "approval">>)
ReservePlan == <<Update("toolCall"), Share("approval"), Share("receipt")>>
DispatchPlan == ForUpdate(<<"scope", "attempt">>)
ConsumePlan == ForUpdate(<<"scope", "attempt", "grant">>)
PublishPlan == ForUpdate(<<"toolCall", "approval", "receipt", "grant", "attempt">>)
AdoptPlan   == ForUpdate(<<"attempt", "toolCall", "receipt", "grant">>)
RecordPlanToolCallFirst == ForUpdate(<<"toolCall", "attempt", "receipt", "grant">>)   \* mutant
RecordPlan  == ForUpdate(<<"attempt", "toolCall", "receipt", "grant">>)

LockPlan(r) ==
  CASE r.op = "create"   -> CreatePlan
    [] r.op = "expose"   -> ExposePlan
    [] r.op = "decide"   -> DecidePlan
    [] r.op = "reserve"  -> ReservePlan
    [] r.op = "dispatch" -> DispatchPlan
    [] r.op = "consume"  -> ConsumePlan
    [] r.op = "publish"  -> PublishPlan
    [] r.op = "adopt"    -> AdoptPlan
    [] r.op = "record"   -> RecordPlan
    [] OTHER -> <<>>

(* The other operations are one UPDATE or INSERT, which locks one row. *)
StatementRow(r) ==
  CASE r.op \in Closings -> "approval"
    [] r.op \in {"settle", "giveUp", "bind"} -> "attempt"
    [] r.op \in {"openReceipt", "receiptOutcome"} -> "receipt"
    [] r.op = "issue" -> "grant"
    [] r.op = "write" -> "toolCall"

(* A row that is not there cannot be locked; the rows of a key and of a
   scope are inserted first, so that they are. *)
Lockable(row) ==
  CASE row \in {"key", "scope"} -> TRUE
    [] row = "toolCall" -> pgRows.toolCall.status # "none"
    [] row = "approval" -> pgRows.approval # "none"
    [] row = "receipt"  -> pgRows.receipt.present
    [] row = "grant"    -> pgRows.grant # "none"
    [] row = "attempt"  -> pgRows.attempt.state # "none"

Conflicts(mode1, mode2) == mode1 # "none" /\ mode2 # "none" /\ "update" \in {mode1, mode2}

(* The transactions call c waits for before it can lock row. *)
HoldersOf(c, row, mode) ==
  {d \in StoreCalls \ {c} : Conflicts(pgHeld[d][row], mode)}

Waits(c) ==
  CASE pgPhase[c] = "locking" /\ pgPlan[c] # <<>> /\ Lockable(Head(pgPlan[c]).row) ->
         HoldersOf(c, Head(pgPlan[c]).row, Head(pgPlan[c]).mode)
    [] pgPhase[c] = "statement" -> HoldersOf(c, StatementRow(pgCall[c]), "update")
    [] pgPhase[c] = "expiring"  -> HoldersOf(c, "approval", "update")
    [] OTHER -> {}

(* What each operation has to find, by the records it read or the WHERE
   clause of its UPDATE. *)
CreateWins(v)  == v.key = None
ExposeWins(v)  == v.scope = 0
VoteWins(v)    == v.scope = 0 /\ v.approval = "pending" /\ ~v.late
CloseWins(v)   == v.approval = "pending" /\ ~v.late
ExpireWins(v)  == v.approval = "pending" /\ v.late
ReserveWins(v) ==
  /\ v.toolCall.status # "none" /\ v.approval = "approved" /\ ~v.late
  /\ v.receipt.present /\ v.attempt.state = "none"
DispatchWins(v) == v.scope = 0 /\ v.attempt.state = "reserved"
EndWins(v)  == v.attempt.state = "dispatched"
BindWins(v) == v.attempt.state = "reserved" /\ ~v.attempt.bound
ConsumeWins(v) ==
  /\ v.scope = 0 /\ v.grant = "issued"
  /\ v.attempt.state = "reserved" /\ v.attempt.bound
PublishWins(v) ==
  /\ v.toolCall.status = "pending_approval" /\ v.approval = "approved"
  /\ ~v.receipt.present /\ v.grant = "none" /\ v.attempt.state = "none"
AdoptWins(v, body) ==
  /\ v.attempt.state = SettledState(body) /\ v.attempt.outcome = body
  /\ v.grant = "consumed" /\ v.toolCall.status = "authorized"
  /\ v.receipt.outcome \in {None, body}
RecordWins(v) ==
  /\ v.attempt.state = "dispatched" /\ v.grant = "consumed"
  /\ v.toolCall.status = "authorized"
  /\ v.receipt.present /\ v.receipt.outcome = None
ReceiptOutcomeWins(v) == v.receipt.present /\ v.receipt.outcome = None

Succeeds(r, v) ==
  CASE r.op = "create" -> CreateWins(v)
    [] r.op = "expose" -> ExposeWins(v)
    [] r.op = "decide" -> VoteWins(v)
    [] r.op \in {"reject", "cancel"} -> CloseWins(v)
    [] r.op = "expire" -> ExpireWins(v)
    [] r.op = "reserve" -> ReserveWins(v)
    [] r.op = "dispatch" -> DispatchWins(v)
    [] r.op \in {"settle", "giveUp"} -> EndWins(v)
    [] r.op = "bind" -> BindWins(v)
    [] r.op = "consume" -> ConsumeWins(v)
    [] r.op = "publish" -> PublishWins(v)
    [] r.op = "adopt" -> AdoptWins(v, r.body)
    [] r.op = "record" -> RecordWins(v)
    [] r.op = "receiptOutcome" -> ReceiptOutcomeWins(v)
    [] r.op \in {"write", "openReceipt", "issue"} -> TRUE

NoLocks == [row \in Rows |-> "none"]

---------------------------------------------------------------------------
PostgresInit ==
  /\ pgRows = NoRecords
  /\ pgCall = [c \in StoreCalls |-> NoCall]
  /\ pgPhase = [c \in StoreCalls |-> "idle"]
  /\ pgPlan = [c \in StoreCalls |-> <<>>]
  /\ pgHeld = [c \in StoreCalls |-> NoLocks]
  /\ pgSeen = [c \in StoreCalls |-> NoRecords]
  /\ pgWon = {}

(* The operations whose SQL asks for the time. *)
AsksTime(r) == r.op \in {"decide", "reserve"} \cup Closings

(* An operation that asks for it begins before it waits for its first row.
   The others know and hold nothing until then: they begin with that lock. *)
Call(c, r) ==
  /\ pgPhase[c] = "idle" /\ Legal(pgRows, r) /\ AsksTime(r)
  /\ pgCall' = [pgCall EXCEPT ![c] = r]
  /\ pgPlan' = [pgPlan EXCEPT ![c] = LockPlan(r)]
  /\ pgPhase' = [pgPhase EXCEPT ![c] = IF LockPlan(r) = <<>> THEN "statement" ELSE "locking"]
  /\ pgSeen' = [pgSeen EXCEPT ![c].late = pgRows.late]
  /\ pgWon' = {}
  /\ UNCHANGED <<pgRows, pgHeld>>

Take(c, lock) ==
  /\ pgSeen' = [pgSeen EXCEPT ![c] = [@ EXCEPT ![lock.row] = pgRows[lock.row]]]
  /\ pgHeld' = [pgHeld EXCEPT ![c][lock.row] = IF Lockable(lock.row) THEN lock.mode ELSE @]
  /\ pgWon' = {}
  /\ UNCHANGED pgRows

Begin(c, r) ==
  /\ pgPhase[c] = "idle" /\ Legal(pgRows, r) /\ ~AsksTime(r) /\ LockPlan(r) # <<>>
  /\ LET lock == Head(LockPlan(r))
     IN  (Lockable(lock.row) => HoldersOf(c, lock.row, lock.mode) = {}) /\ Take(c, lock)
  /\ pgCall' = [pgCall EXCEPT ![c] = r]
  /\ pgPlan' = [pgPlan EXCEPT ![c] = Tail(LockPlan(r))]
  /\ pgPhase' = [pgPhase EXCEPT ![c] = "locking"]

LockRow(c) ==
  /\ pgPhase[c] = "locking" /\ pgPlan[c] # <<>> /\ Waits(c) = {}
  /\ Take(c, Head(pgPlan[c]))
  /\ pgPlan' = [pgPlan EXCEPT ![c] = Tail(@)]
  /\ UNCHANGED <<pgCall, pgPhase>>

(* The transaction knows enough to answer before it has locked every row. *)
Settled(c) ==
  LET v == pgSeen[c]
      locked == {LockPlan(pgCall[c])[i].row :
                   i \in 1 .. (Len(LockPlan(pgCall[c])) - Len(pgPlan[c]))}
      op == pgCall[c].op
  IN  \/ pgPlan[c] = <<>>
      \/ /\ op \in {"decide", "consume"}
         /\ "scope" \in locked /\ StaleEvidence(v)
      \/ /\ op \in {"consume", "dispatch", "adopt", "record"}
         /\ "attempt" \in locked /\ v.attempt.state = "none"
      \/ /\ op = "publish"
         /\ {"toolCall", "approval"} \subseteq locked /\ v.approval = "none"

(* reserve looks for an attempt without locking it: the lock on the tool
   call stands for it. *)
View(c) ==
  [row \in DOMAIN NoRecords |->
     IF row = "attempt" /\ pgCall[c].op = "reserve"
     THEN pgRows[row] ELSE pgSeen[c][row]]

TransactionWins(c) == Succeeds(pgCall[c], View(c))

Written(c) ==
  IF ~TransactionWins(c) THEN pgRows
  ELSE [row \in DOMAIN pgRows |->
          LET new == Effect(pgCall[c], View(c))[row]
          IN  IF new # View(c)[row] THEN new ELSE pgRows[row]]

LooksForExpiry(c) ==
  /\ pgCall[c].op = "decide" /\ ~TransactionWins(c)
  /\ ~StaleEvidence(View(c))

Tell(c, wins) ==
  /\ pgWon' = IF wins THEN {c} ELSE {}
  /\ pgPhase' = [pgPhase EXCEPT ![c] = "idle"]
  /\ pgCall' = [pgCall EXCEPT ![c] = NoCall]
  /\ pgSeen' = [pgSeen EXCEPT ![c] = NoRecords]

(* Another statement begins, which expires the approval if it is due. *)
LookForExpiry(c) ==
  /\ pgPhase' = [pgPhase EXCEPT ![c] = "expiring"]
  /\ pgSeen' = [pgSeen EXCEPT ![c] = [NoRecords EXCEPT !.late = pgRows.late]]
  /\ pgWon' = {}
  /\ UNCHANGED pgCall

Unlock(c) ==
  /\ pgHeld' = [pgHeld EXCEPT ![c] = NoLocks]
  /\ pgPlan' = [pgPlan EXCEPT ![c] = <<>>]

Commit(c) ==
  /\ pgPhase[c] = "locking" /\ Settled(c)
  /\ pgRows' = Written(c)
  /\ Unlock(c)
  /\ IF LooksForExpiry(c) THEN LookForExpiry(c)
     ELSE Tell(c, TransactionWins(c))

(* A single statement that was called earlier.  A rejection or cancellation
   that misses tries to expire the approval. *)
Statement(c) ==
  /\ pgPhase[c] = "statement" /\ Waits(c) = {}
  /\ LET r == pgCall[c]
         v == [pgRows EXCEPT !.late = pgSeen[c].late]
     IN  IF Succeeds(r, v)
         THEN /\ pgRows' = [Effect(r, v) EXCEPT !.late = pgRows.late]
              /\ Tell(c, TRUE)
         ELSE /\ IF r.op \in {"reject", "cancel"} THEN LookForExpiry(c) ELSE Tell(c, FALSE)
              /\ UNCHANGED pgRows
  /\ UNCHANGED <<pgPlan, pgHeld>>

(* A single statement that does not ask for the time; the connection may be
   lost before its answer. *)
AtOnce(c, r) ==
  /\ pgPhase[c] = "idle" /\ Legal(pgRows, r) /\ ~AsksTime(r) /\ LockPlan(r) = <<>>
  /\ HoldersOf(c, StatementRow(r), "update") = {}
  /\ pgRows' = IF Succeeds(r, pgRows) THEN Effect(r, pgRows) ELSE pgRows
  /\ Tell(c, FALSE) \/ (Succeeds(r, pgRows) /\ Tell(c, TRUE))
  /\ UNCHANGED <<pgPlan, pgHeld>>

(* expireApprovalAtomically, also called after a miss. *)
Expire(c) ==
  /\ pgPhase[c] = "expiring" /\ Waits(c) = {}
  /\ LET expires == ExpireWins([pgRows EXCEPT !.late = pgSeen[c].late])
     IN  /\ pgRows' = IF expires THEN [pgRows EXCEPT !.approval = "expired"] ELSE pgRows
         /\ Tell(c, expires)
  /\ UNCHANGED <<pgPlan, pgHeld>>

RollBack(c) ==
  /\ Unlock(c)
  /\ Tell(c, FALSE)
  /\ UNCHANGED pgRows

(* Postgres has found c waiting in a circle and aborts it: c is among those
   it waits for, whom they wait for, and so on. *)
Deadlocked(c, calls) ==
  \A awaited \in SUBSET calls :
    (\A d \in awaited \cup {c} : Waits(d) \cap calls \subseteq awaited) => c \in awaited

DeadlockVictim(c) ==
  /\ Waits(c) # {} /\ Deadlocked(c, StoreCalls)
  /\ RollBack(c)

LoseConnection(c) ==
  /\ pgPhase[c] \in {"locking", "statement", "expiring"}
  /\ RollBack(c)

(* COMMIT is carried out, but its caller is told of an error. *)
LoseAnswer(c) ==
  /\ pgPhase[c] = "locking" /\ Settled(c)
  /\ pgRows' = Written(c)
  /\ Unlock(c)
  /\ Tell(c, FALSE)

AuthorizationExpires ==
  /\ pgRows.approval # "none" /\ ~pgRows.late
  /\ pgRows' = [pgRows EXCEPT !.late = TRUE]
  /\ pgWon' = {}
  /\ UNCHANGED <<pgCall, pgPhase, pgPlan, pgHeld, pgSeen>>

PostgresNext ==
  \/ \E c \in StoreCalls :
       \/ \E r \in StoreRequests : Call(c, r) \/ Begin(c, r) \/ AtOnce(c, r)
       \/ LockRow(c) \/ Commit(c) \/ Statement(c) \/ Expire(c)
       \/ DeadlockVictim(c) \/ LoseConnection(c) \/ LoseAnswer(c)
  \/ AuthorizationExpires

PostgresSpec == PostgresInit /\ [][PostgresNext]_pgVars

---------------------------------------------------------------------------
Promise == INSTANCE ActionStore
             WITH db <- pgRows, won <- pgWon,
                  asOf <- [c \in StoreCalls |->
                             IF AsksTime(pgCall[c]) THEN pgSeen[c].late ELSE pgRows.late]

(* Every operation happens in one step or not at all, and a caller is told
   that it won only of a change its operation made: what a transaction read
   under its locks still holds when it commits. *)
PostgresKeepsPromise == Promise!StoreSpec

(* Operations may wait for each other in a circle only if one of them is a
   publication, which locks the tool call before the attempt. *)
NoDeadlockWithoutPublication ==
  LET others == {c \in StoreCalls : pgCall[c].op # "publish"}
  IN  \A c \in others : ~Deadlocked(c, others)
=============================================================================
