----------------------------- MODULE AuditChain -----------------------------
(***************************************************************************)
(* ChainedAuditStore: the audit events of one server process, linked into  *)
(* a hash chain over a store that is a JSONL file or a database table.     *)
(*                                                                         *)
(* append hangs every request on one promise chain, so requests are worked *)
(* on one at a time: list(1) of the store, then one append to it.  The     *)
(* hash of a stored event is identified with its position in the order of  *)
(* insertion, 0 standing for no hash: distinct events have distinct hashes *)
(* and nothing alters a stored event.                                      *)
(***************************************************************************)
EXTENDS Naturals, Sequences, FiniteSets

CONSTANTS
  Ids,         \* event ids
  Orders,      \* how the stores of this deployment order their listings
  VerifyLimit, \* how many of the newest events a verification lists
  MaxTime,     \* bound on occurrence times
  MaxQueue,    \* bound on requests waiting
  MaxFaults    \* bound on rejected store calls and restarts

ASSUME AuditAssumption ==
  /\ Orders \subseteq {"insertion", "timestamp"}
  /\ VerifyLimit \in Nat \ {0}
  /\ MaxTime \in Nat /\ MaxQueue \in Nat /\ MaxFaults \in Nat

VARIABLES
  order,     \* "insertion": JSONL; "timestamp": ORDER BY timestamp DESC
  stored,    \* the store's events, in the order of insertion
  readable,  \* FALSE once a JSONL line was cut short: list() throws
  queue,     \* appendQueue, the request being worked on first
  stage,     \* what the first request is waiting for
  head,      \* previousEventHash it was given by list(1)
  faults

vars == <<order, stored, readable, queue, stage, head, faults>>

Requests == [id : Ids, at : 0..MaxTime]
Events == [id : Ids, at : Nat, prev : Nat]

Init ==
  /\ order \in Orders
  /\ stored = <<>> /\ readable = TRUE
  /\ queue = <<>> /\ stage = "waiting" /\ head = 0
  /\ faults = 0

------------------------------------------------------------------------------
(* The store *)

Positions == DOMAIN stored

(* Event i is listed after event j, newest first. *)
Before(i, j) == IF order = "insertion" THEN i < j
                                       ELSE stored[i].at < stored[j].at

(* list(limit): the newest ones; events the order does not tell apart may be
   listed either way. *)
Newest(limit) ==
  {i \in Positions : Cardinality({j \in Positions : Before(i, j)}) < limit}

Known(id) == \E i \in Positions : stored[i].id = id

(* Mutant: the store has no unique key. *)
StoreAlways(event) == stored' = Append(stored, event)

(* append once by event id *)
Store(event) ==
  stored' = IF Known(event.id) THEN stored ELSE Append(stored, event)

------------------------------------------------------------------------------
(* The append queue *)

(* append: a request may carry any occurrence time, and the id of an event
   that was requested or stored before. *)
Request(r) ==
  /\ Len(queue) < MaxQueue
  /\ queue' = Append(queue, r)
  /\ UNCHANGED <<order, stored, readable, stage, head, faults>>

(* list(1) *)
ReadHead ==
  /\ queue # <<>> /\ stage = "waiting" /\ readable
  /\ \/ stored = <<>> /\ head' = 0
     \/ head' \in Newest(1)
  /\ stage' = "read"
  /\ UNCHANGED <<order, stored, readable, queue, faults>>

(* Mutant: a tie is left as it is. *)
NextTimestampTied(candidate, previous) ==
  IF previous = 0 \/ candidate > stored[previous].at
  THEN candidate ELSE stored[previous].at

(* nextAuditTimestamp *)
NextTimestamp(candidate, previous) ==
  IF previous = 0 \/ candidate > stored[previous].at
  THEN candidate ELSE stored[previous].at + 1

(* Mutant: the link is left out. *)
ChainedUnlinked(r) == [id |-> r.id, at |-> NextTimestamp(r.at, head)]

(* appendChained *)
Chained(r) == [id |-> r.id, at |-> NextTimestamp(r.at, head), prev |-> head]

(* The first request is answered, and the next one has its turn. *)
Advance == /\ queue' = Tail(queue)
           /\ stage' = "waiting"
           /\ head' = 0

Write ==
  /\ stage = "read"
  /\ Store(Chained(Head(queue)))
  /\ Advance
  /\ UNCHANGED <<order, readable, faults>>

(* Mutant: a rejection is not caught and the queue never moves again. *)
RejectUncaught == /\ stage' = "poisoned"
                  /\ UNCHANGED <<queue, head>>

(* append.catch: a rejected request does not hold up the others. *)
Reject == Advance

(* list() parses every line, the one that was cut short included. *)
ReadUnreadable ==
  /\ queue # <<>> /\ stage = "waiting" /\ ~readable
  /\ Reject
  /\ UNCHANGED <<order, stored, readable, faults>>

Fault == faults < MaxFaults /\ faults' = faults + 1

ReadFails ==
  /\ queue # <<>> /\ stage = "waiting"
  /\ Fault
  /\ Reject
  /\ UNCHANGED <<order, stored, readable>>

(* The store rejects, whether or not it has taken the event. *)
WriteFails ==
  /\ stage = "read"
  /\ Fault
  /\ Store(Chained(Head(queue))) \/ UNCHANGED stored
  /\ Reject
  /\ UNCHANGED <<order, readable>>

(* The file system takes only a part of the line. *)
WriteCut ==
  /\ stage = "read" /\ order = "insertion" /\ ~Known(Head(queue).id)
  /\ Fault
  /\ readable' = FALSE
  /\ Reject
  /\ UNCHANGED <<order, stored>>

(* The process dies; what it had not answered is lost. *)
Restart ==
  /\ Fault
  /\ queue' = <<>> /\ stage' = "waiting" /\ head' = 0
  /\ UNCHANGED <<order, stored, readable>>

Work == ReadHead \/ Write \/ ReadUnreadable

Next == \/ \E r \in Requests : Request(r)
        \/ Work
        \/ ReadFails \/ WriteFails \/ WriteCut \/ Restart

Spec == Init /\ [][Next]_vars

(* The event loop runs the promise chain, and calls of the store settle. *)
FairSpec == Spec /\ WF_vars(Work)

------------------------------------------------------------------------------
(* Verification *)

(* The event that precedes event i among the listed ones. *)
Predecessor(i, listed) ==
  LET earlier == {j \in listed : Before(j, i)}
  IN  IF earlier = {} THEN 0
      ELSE CHOOSE j \in earlier : \A k \in earlier : k = j \/ Before(k, j)

(* verifyAuditEvents over what was listed, oldest first *)
Verifies(listed) == \A i \in listed : stored[i].prev = Predecessor(i, listed)

------------------------------------------------------------------------------
(* Properties *)

(* Requests, events and the link each event carries keep their shape, and only
   a queued request is worked on. *)
TypeOK ==
  /\ order \in Orders
  /\ stored \in Seq(Events)
  /\ readable \in BOOLEAN
  /\ queue \in Seq(Requests)
  /\ stage \in {"waiting", "read"}
  /\ stage = "read" => queue # <<>>
  /\ head \in Nat
  /\ faults \in 0..MaxFaults

(* Whatever was rejected, retried, backdated or lost in a restart, the store
   lists all its events in one order, and in that order they form one chain. *)
ChainVerifies ==
  /\ \A i, j \in Positions : i # j => Before(i, j) \/ Before(j, i)
  /\ Verifies(Positions)

(* An event that is appended again, since its first append seemed to fail, is
   stored once. *)
StoredOnce ==
  \A i, j \in Positions : stored[i].id = stored[j].id => i = j

(* Why there is one chain: every event links to the one inserted before it and
   is later than it, and the head that was read is still the last event. *)
ChainInv ==
  /\ \A i \in Positions : stored[i].prev = i - 1
  /\ \A i, j \in Positions : i < j => stored[i].at < stored[j].at
  /\ stage = "read" => head = Len(stored)

(* Once nothing fails any more, every request that waits is stored: neither an
   earlier rejection nor a restart stops the queue. *)
RecoversAfterFault ==
  \A id \in Ids :
    /\ \E k \in DOMAIN queue : queue[k].id = id
    /\ faults = MaxFaults /\ readable
    ~> Known(id)

(* docs/API_SPEC.md, GET /v1/audit/verify: it recomputes the hash chain and
   returns the first break; so a store nobody tampered with has none. *)
UntamperedVerifies == Verifies(Newest(VerifyLimit))
==============================================================================
