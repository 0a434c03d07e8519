-------------------------- MODULE PresentationSync --------------------------
(***************************************************************************)
(* Keeping the cards of a decided approval up to date in its chats: calls  *)
(* of syncApprovalPresentationBestEffort join the batch of their approval, *)
(* which makes one pass over the cards for the first call and at most one  *)
(* more for those that came meanwhile.                                     *)
(*                                                                         *)
(* A call brings the coordinates of cards it knows of, or asks for those   *)
(* that the store lists when its pass starts.  A pass is best effort: it   *)
(* may fail, and it may be given up after a timeout.                       *)
(***************************************************************************)
EXTENDS FiniteSets

CONSTANTS
  Updates,   \* calls for one approval
  Cards      \* coordinates of its cards

VARIABLES
  storedCards,   \* deliveries the store lists
  syncPc,        \* idle, joined (awaits its batch), late (awaits, then asks again)
  syncWork,      \* what the call asked for
  unserved,      \* the cards it asked for and no later pass has taken up
  batch          \* the entry of approvalPresentationSyncs

syncVars == <<storedCards, syncPc, syncWork, unserved, batch>>

SyncWorks == [stored : BOOLEAN, override : SUBSET Cards]
NoWork == [stored |-> FALSE, override |-> {}]

(* A call names one card or none: then it asks for the stored ones. *)
Asked == {[stored |-> TRUE, override |-> {}]}
         \cup {[stored |-> FALSE, override |-> {card}] : card \in Cards}

(* The names tell whether a pass is yet to start or is running. *)
Phases == {"none", "beforeFirst", "first", "beforeTrailing", "trailing"}
NoBatch == [phase |-> "none", accepting |-> FALSE, work |-> NoWork, trailing |-> NoWork]

SyncTypeOK ==
  /\ storedCards \subseteq Cards
  /\ syncPc \in [Updates -> {"idle", "joined", "late"}]
  /\ syncWork \in [Updates -> SyncWorks]
  /\ unserved \in [Updates -> SUBSET Cards]
  /\ batch \in [phase : Phases, accepting : BOOLEAN, work : SyncWorks, trailing : SyncWorks]

SyncInit ==
  /\ storedCards \in SUBSET Cards
  /\ syncPc = [u \in Updates |-> "idle"]
  /\ syncWork = [u \in Updates |-> NoWork]
  /\ unserved = [u \in Updates |-> {}]
  /\ batch = NoBatch

(* mergeApprovalPresentationSyncWork. *)
Merge(current, incoming) ==
  [stored |-> current.stored \/ incoming.stored,
   override |-> current.override \cup incoming.override]

NewBatch(work) ==
  [phase |-> "beforeFirst", accepting |-> TRUE, work |-> work, trailing |-> NoWork]

(* A batch whose trailing pass is running cannot take the call in. *)
JoinAlways(u, work) ==   \* mutant
  IF batch = NoBatch
  THEN batch' = NewBatch(work) /\ syncPc' = [syncPc EXCEPT ![u] = "joined"]
  ELSE /\ batch' = [batch EXCEPT !.trailing = Merge(@, work)]
       /\ syncPc' = [syncPc EXCEPT ![u] = "joined"]

Join(u, work) ==
  CASE batch = NoBatch ->
         batch' = NewBatch(work) /\ syncPc' = [syncPc EXCEPT ![u] = "joined"]
    [] batch # NoBatch /\ batch.accepting ->
         /\ batch' = [batch EXCEPT !.trailing = Merge(@, work)]
         /\ syncPc' = [syncPc EXCEPT ![u] = "joined"]
    [] OTHER -> UNCHANGED batch /\ syncPc' = [syncPc EXCEPT ![u] = "late"]

RequestSync(u, work) ==
  /\ syncPc[u] = "idle"
  /\ syncWork' = [syncWork EXCEPT ![u] = work]
  /\ unserved' = [unserved EXCEPT ![u] =
                    work.override \cup (IF work.stored THEN storedCards ELSE {})]
  /\ Join(u, work)
  /\ UNCHANGED storedCards

(* A pass lists the stored deliveries when it starts. *)
StartPass ==
  /\ batch.phase \in {"beforeFirst", "beforeTrailing"}
  /\ batch' = [batch EXCEPT !.phase = IF @ = "beforeFirst" THEN "first" ELSE "trailing"]
  /\ LET cards == batch.work.override \cup (IF batch.work.stored THEN storedCards ELSE {})
     IN  unserved' = [u \in Updates |-> unserved[u] \ cards]
  /\ UNCHANGED <<storedCards, syncPc, syncWork>>

(* The first pass is over: from now on the batch takes no more calls. *)
EndFirstPass ==
  /\ batch.phase = "first" /\ batch.trailing # NoWork
  /\ batch' = [phase |-> "beforeTrailing", accepting |-> FALSE,
               work |-> batch.trailing, trailing |-> NoWork]
  /\ UNCHANGED <<storedCards, syncPc, syncWork, unserved>>

(* The batch is removed before those that await its promise go on. *)
EndBatchKeepsEntry ==   \* mutant
  /\ \/ batch.phase = "trailing"
     \/ batch.phase = "first" /\ batch.trailing = NoWork
  /\ batch' = [batch EXCEPT !.phase = "trailing", !.accepting = FALSE]
  /\ syncPc' = [u \in Updates |-> IF syncPc[u] = "joined" THEN "idle" ELSE syncPc[u]]
  /\ UNCHANGED <<storedCards, syncWork, unserved>>

EndBatch ==
  /\ \/ batch.phase = "trailing"
     \/ batch.phase = "first" /\ batch.trailing = NoWork
  /\ batch' = NoBatch
  /\ syncPc' = [u \in Updates |-> IF syncPc[u] = "joined" THEN "idle" ELSE syncPc[u]]
  /\ syncWork' = [u \in Updates |-> IF syncPc[u] = "joined" THEN NoWork ELSE syncWork[u]]
  /\ UNCHANGED <<storedCards, unserved>>

(* A late call asks again once the batch it awaited is over; another may
   have begun before its turn comes. *)
AskAgain(u) ==
  /\ syncPc[u] = "late" /\ (batch = NoBatch \/ batch.accepting)
  /\ Join(u, syncWork[u])
  /\ UNCHANGED <<storedCards, syncWork, unserved>>

(* A notifier stores the delivery of another card. *)
StoreCard(card) ==
  /\ card \notin storedCards
  /\ storedCards' = storedCards \cup {card}
  /\ UNCHANGED <<syncPc, syncWork, unserved, batch>>

SyncNext ==
  \/ \E u \in Updates : AskAgain(u) \/ \E work \in Asked : RequestSync(u, work)
  \/ StartPass \/ EndFirstPass \/ EndBatch
  \/ \E card \in Cards : StoreCard(card)

(* A pass ends, by its timeout at the latest, and the event loop goes on: a
   late call is resumed when its batch ends, before the next has ended. *)
SyncFairness ==
  /\ WF_syncVars(StartPass) /\ WF_syncVars(EndFirstPass) /\ WF_syncVars(EndBatch)
  /\ \A u \in Updates : SF_syncVars(AskAgain(u))

SyncSpec == SyncInit /\ [][SyncNext]_syncVars /\ SyncFairness

---------------------------------------------------------------------------
(* A call returns only after a pass that started later than the call took up
   every card it asked for; none is dropped while passes are coalesced. *)
ReturnedIsServed ==
  \A u \in Updates : syncPc[u] = "idle" => unserved[u] = {}

(* A batch leaves nothing behind that keeps later calls from returning, and
   no call is put off for ever by batches that others begin. *)
UpdatesReturn ==
  \A u \in Updates : syncPc[u] # "idle" ~> syncPc[u] = "idle"
=============================================================================
