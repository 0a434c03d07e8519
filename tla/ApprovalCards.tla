---------------------------- MODULE ApprovalCards ----------------------------
(***************************************************************************)
(* The Telegram cards of one approval: they are sent while it is pending,  *)
(* recorded as deliveries, and edited once it is decided.  A send may      *)
(* still be under way when the decision is made, and a stale card may be   *)
(* clicked at any time after it.                                           *)
(*                                                                         *)
(* Each call of Updates is a notification, a decision or a click, made     *)
(* once.  The passes that edit the cards are those of PresentationSync.    *)
(***************************************************************************)
EXTENDS Naturals, PresentationSync

VARIABLES
  decided,     \* the approval is no longer pending
  shown,       \* what a chat shows: none, due (its send has begun), open, closed
  result,      \* telegramPresentation of the delivery
  callPc,      \* where a call is, until it asks for a pass
  callCards,   \* the cards it works on
  editing,     \* cards whose edit by the running pass has no outcome yet
  forsaken     \* history: open cards an error kept the calls from handling

cardVars == <<decided, shown, result, callPc, callCards, editing, forsaken>>

CardTypeOK ==
  /\ decided \in BOOLEAN
  /\ shown \in [Cards -> {"none", "due", "open", "closed"}]
  /\ result \in [Cards -> {"none", "updated", "failed"}]
  /\ callPc \in [Updates -> {"ready", "sending", "rereading", "asking", "clicked",
                             "repairing", "over"}]
  /\ callCards \in [Updates -> SUBSET Cards]
  /\ editing \subseteq Cards /\ forsaken \subseteq Cards

CardInit ==
  /\ decided = FALSE
  /\ shown = [card \in Cards |-> "none"]
  /\ result = [card \in Cards |-> "none"]
  /\ callPc = [u \in Updates |-> "ready"]
  /\ callCards = [u \in Updates |-> {}]
  /\ editing = {} /\ forsaken = {}

Goto(u, pc, cards) ==
  /\ callPc' = [callPc EXCEPT ![u] = pc]
  /\ callCards' = [callCards EXCEPT ![u] = cards]

(* Calls differ only in what they do: they are taken in a fixed order. *)
Starts(u) ==
  callPc[u] = "ready" /\ u = CHOOSE v \in Updates : callPc[v] = "ready"

---------------------------------------------------------------------------
(* Notifications: of the submission, or resent on request. *)

(* The recipients of a pending approval get a card each, sent at once. *)
Notify(u, cards) ==
  /\ Starts(u) /\ ~decided
  /\ cards # {} /\ \A card \in cards : shown[card] = "none"
  /\ shown' = [card \in Cards |-> IF card \in cards THEN "due" ELSE shown[card]]
  /\ Goto(u, "sending", cards)
  /\ UNCHANGED <<syncVars, decided, result, editing, forsaken>>

SendCard(u, card) ==
  /\ callPc[u] = "sending" /\ card \in callCards[u] /\ shown[card] = "due"
  /\ shown' = [shown EXCEPT ![card] = "open"]
  /\ UNCHANGED <<syncVars, decided, result, callPc, callCards, editing, forsaken>>

(* A send that fails is recorded as a delivery without a card, even when the
   message did arrive and only its answer was lost. *)
SendFails(u, card, arrived) ==
  /\ callPc[u] = "sending" /\ card \in callCards[u] /\ shown[card] = "due"
  /\ shown' = [shown EXCEPT ![card] = IF arrived THEN "open" ELSE "none"]
  /\ forsaken' = IF arrived THEN forsaken \cup {card} ELSE forsaken
  /\ Goto(u, "sending", callCards[u] \ {card})
  /\ UNCHANGED <<syncVars, decided, result, editing>>

(* Deliveries are recorded one by one when every send has ended. *)
AllSent(u) == callPc[u] = "sending" /\ \A card \in callCards[u] : shown[card] # "due"

Unrecorded(u) == callCards[u] \ storedCards
NextCard(u) == CHOOSE card \in Unrecorded(u) : TRUE

RecordCard(u) ==
  /\ AllSent(u) /\ Unrecorded(u) # {}
  /\ storedCards' = storedCards \cup {NextCard(u)}
  /\ UNCHANGED <<syncPc, syncWork, unserved, batch, cardVars>>

(* An error of the store, or of the audit after the card is stored, ends the
   recording, not the re-read. *)
RecordFails(u, stored) ==
  /\ AllSent(u) /\ Unrecorded(u) # {}
  /\ storedCards' = IF stored THEN storedCards \cup {NextCard(u)} ELSE storedCards
  /\ forsaken' = forsaken \cup (callCards[u] \ storedCards')
  /\ Goto(u, "rereading", {})
  /\ UNCHANGED <<syncPc, syncWork, unserved, batch, decided, shown, result, editing>>

Recorded(u) ==
  /\ AllSent(u) /\ Unrecorded(u) = {}
  /\ Goto(u, "rereading", {})
  /\ UNCHANGED <<syncVars, decided, shown, result, editing, forsaken>>

(* syncTerminalPresentationAfterDeliveryPersistence. *)
RereadIsSkipped(u) ==   \* mutant: the approval as it was when the send began
  /\ callPc[u] = "rereading" /\ Goto(u, "over", {})
  /\ UNCHANGED <<syncVars, decided, shown, result, editing, forsaken>>

Reread(u) ==
  /\ callPc[u] = "rereading"
  /\ Goto(u, IF decided THEN "asking" ELSE "over", {})
  /\ UNCHANGED <<syncVars, decided, shown, result, editing, forsaken>>

RereadFails(u) ==
  /\ callPc[u] = "rereading"
  /\ forsaken' = forsaken \cup {card \in storedCards : shown[card] = "open"}
  /\ Goto(u, "over", {})
  /\ UNCHANGED <<syncVars, decided, shown, result, editing>>

---------------------------------------------------------------------------
(* Decisions, and clicks on cards of a decided approval. *)

(* Rejection, cancellation, supersession, the last vote, or expiry: this one
   may be observed by a click on a card, which then is handled again. *)
Decide(u, clicked) ==
  /\ Starts(u) /\ ~decided /\ Cardinality(clicked) <= 1
  /\ \A card \in clicked : shown[card] = "open"
  /\ decided' = TRUE
  /\ Goto(u, "asking", clicked)
  /\ UNCHANGED <<syncVars, shown, result, editing, forsaken>>

(* A pass over the stored cards, whatever became of the writes before it. *)
AskStored(u) ==
  /\ callPc[u] = "asking" /\ RequestSync(u, [stored |-> TRUE, override |-> {}])
  /\ Goto(u, IF callCards[u] = {} THEN "over" ELSE "repairing", callCards[u])
  /\ UNCHANGED <<decided, shown, result, editing, forsaken>>

(* Expiry has updated the stored cards; the clicked one may be untracked. *)
RepairClicked(u) ==
  /\ callPc[u] = "repairing" /\ callCards[u] \cap storedCards = {}
  /\ RequestSync(u, [stored |-> FALSE, override |-> callCards[u]])
  /\ Goto(u, "over", {})
  /\ UNCHANGED <<decided, shown, result, editing, forsaken>>

ClickedIsTracked(u) ==
  /\ callPc[u] = "repairing" /\ syncPc[u] = "idle" /\ callCards[u] \subseteq storedCards
  /\ Goto(u, "over", {})
  /\ UNCHANGED <<syncVars, decided, shown, result, editing, forsaken>>

(* synchronizeStaleTelegramCallback lists the deliveries, adds the clicked
   card if it is not among them, and asks for a pass over these. *)
Click(u, card) ==
  /\ Starts(u) /\ decided /\ shown[card] = "open"
  /\ Goto(u, "clicked", storedCards \cup {card})
  /\ UNCHANGED <<syncVars, decided, shown, result, editing, forsaken>>

AskClicked(u) ==
  /\ callPc[u] = "clicked"
  /\ RequestSync(u, [stored |-> FALSE, override |-> callCards[u]])
  /\ Goto(u, "over", {})
  /\ UNCHANGED <<decided, shown, result, editing, forsaken>>

---------------------------------------------------------------------------
(* A pass over the cards of a batch. *)

BeginPass ==
  /\ StartPass
  /\ editing' = batch.work.override \cup (IF batch.work.stored THEN storedCards ELSE {})
  /\ UNCHANGED <<decided, shown, result, callPc, callCards, forsaken>>

(* An edit is answered, fails or is aborted by the timeout, having reached the
   chat or not.  Its outcome is written to the delivery, if there is one: a
   card recorded since it was clicked counts as tracked, its notification has
   yet to ask for a pass itself. *)
EditCard(card, reached, outcome) ==
  /\ card \in editing
  /\ outcome = "updated" => reached
  /\ shown' = [shown EXCEPT ![card] = IF reached THEN "closed" ELSE @]
  /\ result' = [result EXCEPT ![card] = IF card \in storedCards THEN outcome ELSE @]
  /\ forsaken' = IF reached THEN forsaken \ {card} ELSE forsaken
  /\ editing' = editing \ {card}
  /\ UNCHANGED <<syncVars, decided, callPc, callCards>>

(* The store fails to list a card or to write its outcome, and the pass is best
   effort: an edit is not repeated for want of a record. *)
EditIsLost(card, reached) ==
  /\ card \in editing
  /\ shown' = [shown EXCEPT ![card] = IF reached THEN "closed" ELSE @]
  /\ forsaken' = IF reached THEN forsaken \ {card} ELSE forsaken \cup {card}
  /\ editing' = editing \ {card}
  /\ UNCHANGED <<syncVars, decided, result, callPc, callCards>>

EndPass ==
  /\ editing = {} /\ (EndFirstPass \/ EndBatch)
  /\ UNCHANGED cardVars

(* The promise of a batch that ended resolves for a call that came too late. *)
AskLate(u) == AskAgain(u) /\ UNCHANGED cardVars

CardNext ==
  \/ \E u \in Updates :
       \/ \E cards \in SUBSET Cards : Notify(u, cards) \/ Decide(u, cards)
       \/ \E card \in Cards : SendCard(u, card) \/ Click(u, card)
       \/ \E card \in Cards, arrived \in BOOLEAN : SendFails(u, card, arrived)
       \/ \E stored \in BOOLEAN : RecordFails(u, stored)
       \/ RecordCard(u) \/ Recorded(u) \/ Reread(u) \/ RereadFails(u)
       \/ AskStored(u) \/ RepairClicked(u) \/ ClickedIsTracked(u)
       \/ AskClicked(u) \/ AskLate(u)
  \/ BeginPass \/ EndPass
  \/ \E card \in Cards, reached \in BOOLEAN :
       \/ \E outcome \in {"updated", "failed"} : EditCard(card, reached, outcome)
       \/ EditIsLost(card, reached)

CardSpec ==
  /\ SyncInit /\ storedCards = {} /\ CardInit
  /\ [][CardNext]_<<syncVars, cardVars>>

---------------------------------------------------------------------------
(* When a decided approval is at rest, no chat still offers its buttons, but
   on a card whose last edit is recorded as failed or that an error left out:
   a decision that overtakes a send under way is made up for after the send.
   And a card recorded as updated no longer offers them. *)
AtRest ==
  batch = NoBatch /\ \A u \in Updates : callPc[u] \in {"ready", "over"} /\ syncPc[u] = "idle"

DecidedCardsClose ==
  \A card \in Cards :
    /\ decided /\ AtRest /\ shown[card] = "open" =>
         card \in forsaken \/ result[card] = "failed"
    /\ result[card] = "updated" => shown[card] = "closed"
=============================================================================
