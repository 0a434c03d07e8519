---------------------------- MODULE ActionStore -----------------------------
(***************************************************************************)
(* What every store promises its callers, whatever it is built from: an    *)
(* operation happens in one step or not at all, and a caller is told that  *)
(* it won only by the step in which its operation changed the records.     *)
(* An answer may be lost on its way; the change it speaks of is not.       *)
(* Whether an authorization has expired is judged as of a time between the *)
(* start of the operation and that step.                                   *)
(***************************************************************************)
EXTENDS StoreRecords

VARIABLES
  db,    \* the records
  won,   \* the calls just told that their operation changed the records
  asOf   \* for each call, whether the authorization had expired by its time

StoreInit ==
  /\ db = NoRecords
  /\ won = {}
  /\ asOf = [c \in StoreCalls |-> FALSE]

(* The records as call c judges them. *)
Judged(c) == [db EXCEPT !.late = asOf[c]]

Perform(c, r) ==
  /\ Wins(r, Judged(c))
  /\ db' = [Effect(r, Judged(c)) EXCEPT !.late = db.late]
  /\ won' \in {{c}, {}}

(* An adoption may find its outcome adopted, or the tool call ended with the
   status it brings, and write the same records again. *)
Readopt(c, r) ==
  /\ r.op = "adopt" /\ db.attempt.outcome = r.body /\ db.grant = "consumed"
  /\ db.receipt.outcome \in {None, r.body}
  /\ db.toolCall.status = ToolCallStatus(r.body)
  /\ db' = Effect(r, db)
  /\ won' \in {{c}, {}}

Elapse ==
  /\ db' = [db EXCEPT !.late = TRUE]
  /\ won' = {}

(* Losing operations change nothing, and neither do the next calls. *)
Idle == UNCHANGED db /\ won' = {}

(* A call's time is never turned back. *)
TimePasses == \A c \in StoreCalls : asOf'[c] \in {asOf[c], db'.late}

StoreNext ==
  /\ TimePasses
  /\ \/ Idle
     \/ Elapse
     \/ \E c \in StoreCalls, r \in StoreRequests : Perform(c, r) \/ Readopt(c, r)

StoreSpec == StoreInit /\ [][StoreNext]_<<db, won, asOf>>
=============================================================================
