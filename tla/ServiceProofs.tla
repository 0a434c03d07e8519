---------------------------- MODULE ServiceProofs ----------------------------
(***************************************************************************)
(* Proofs about the services beside the gate, for any number of actors:    *)
(* the audit chain, the migration lock, the coalesced passes over the      *)
(* cards of approvals and the cards themselves, the cache of signing keys, *)
(* and the evaluation of policies.  They share no state but for the cards, *)
(* whose passes are those of the section before.                           *)
(***************************************************************************)
EXTENDS AuditChain, MigrationLock, ApprovalCards, SigningKeys, PolicyEvaluation,
        FiniteSetTheorems, SequenceTheorems, TLAPS

-----------------------------------------------------------------------------
(* The audit chain: the types, the chain that links every event to the one
   before it, and that a full verification of it succeeds. *)

(* What is stored are events, with numbers for timestamps. *)
LEMMA EventType ==
  ASSUME stored \in Seq(Events), NEW i \in 1..Len(stored)
  PROVE  stored[i] \in Events /\ stored[i].at \in Nat
<1>1. stored[i] \in Events
  OBVIOUS
<1> QED
  BY <1>1 DEF Events

(* The timestamp given to an event is a number. *)
LEMMA NextTimestampType ==
  ASSUME stored \in Seq(Events), NEW candidate \in Nat,
         NEW previous \in 0..Len(stored)
  PROVE  NextTimestamp(candidate, previous) \in Nat
<1>1. CASE previous = 0
  BY <1>1 DEF NextTimestamp
<1>2. CASE previous # 0
  <2>1. stored[previous].at \in Nat
    BY <1>2, EventType
  <2> QED
    BY <2>1 DEF NextTimestamp
<1> QED
  BY <1>1, <1>2

(* ... and later than that of the event it follows. *)
LEMMA NextTimestampLater ==
  ASSUME stored \in Seq(Events), NEW candidate \in Nat,
         NEW previous \in Positions, previous # 0
  PROVE  NextTimestamp(candidate, previous) > stored[previous].at
<1>1. stored[previous].at \in Nat
  BY EventType DEF Positions
<1> QED
  BY <1>1 DEF NextTimestamp

(* The head that was read is a position of the store, or none. *)
HeadInv == TypeOK /\ (stage = "read" => head \in 0..Len(stored))

(* What the first request turns into is an event. *)
LEMMA ChainedType ==
  ASSUME HeadInv, stage = "read"
  PROVE  Chained(Head(queue)) \in Events
<1>1. Head(queue) \in Requests
  BY DEF HeadInv, TypeOK
<1>2. Head(queue).id \in Ids /\ Head(queue).at \in Nat
  BY <1>1 DEF Requests
<1>3. NextTimestamp(Head(queue).at, head) \in Nat
  BY <1>2, NextTimestampType DEF HeadInv, TypeOK
<1> QED
  BY <1>2, <1>3 DEF Chained, Events, HeadInv, TypeOK

(* Storing an event keeps the type of the store and loses nothing. *)
LEMMA StoreType ==
  ASSUME stored \in Seq(Events), NEW event \in Events, Store(event)
  PROVE  stored' \in Seq(Events) /\ Len(stored') >= Len(stored)
  BY DEF Store

(* Answering the first request keeps the types of the queue. *)
LEMMA AdvanceType ==
  ASSUME TypeOK, queue # <<>>, Advance
  PROVE  queue' \in Seq(Requests) /\ stage' = "waiting" /\ head' = 0
  BY DEF Advance, TypeOK

(* The types are inductive together with the range of the head. *)
THEOREM AuditTypes == Spec => []HeadInv
<1>1. Init => HeadInv
  <2> SUFFICES ASSUME Init PROVE HeadInv
    OBVIOUS
  <2> QED
    BY AuditAssumption DEF Init, HeadInv, TypeOK
<1>2. HeadInv /\ [Next]_vars => HeadInv'
  <2> SUFFICES ASSUME HeadInv, [Next]_vars PROVE HeadInv'
    OBVIOUS
  <2> USE DEF HeadInv
  <2>1. ASSUME NEW r \in Requests, Request(r) PROVE HeadInv'
    BY <2>1 DEF Request, TypeOK
  <2>2. CASE ReadHead
    <3>1. head' \in 0..Len(stored)
      BY <2>2 DEF ReadHead, Newest, Positions, TypeOK
    <3> QED
      BY <2>2, <3>1 DEF ReadHead, TypeOK
  <2>3. CASE Write
    <3>1. stored' \in Seq(Events)
      BY <2>3, ChainedType, StoreType DEF Write, TypeOK
    <3>2. queue' \in Seq(Requests) /\ stage' = "waiting" /\ head' = 0
      BY <2>3, AdvanceType DEF Write, TypeOK
    <3> QED
      BY <2>3, <3>1, <3>2 DEF Write, TypeOK
  <2>4. CASE ReadUnreadable
    BY <2>4, AdvanceType DEF ReadUnreadable, Reject, TypeOK
  <2>5. CASE ReadFails
    BY <2>5, AdvanceType, AuditAssumption DEF ReadFails, Fault, Reject, TypeOK
  <2>6. CASE WriteFails
    <3>1. stored' \in Seq(Events)
      BY <2>6, ChainedType, StoreType DEF WriteFails, TypeOK
    <3>2. queue' \in Seq(Requests) /\ stage' = "waiting" /\ head' = 0
      BY <2>6, AdvanceType DEF WriteFails, Reject, TypeOK
    <3> QED
      BY <2>6, <3>1, <3>2, AuditAssumption DEF WriteFails, Fault, TypeOK
  <2>7. CASE WriteCut
    <3>1. queue' \in Seq(Requests) /\ stage' = "waiting" /\ head' = 0
      BY <2>7, AdvanceType DEF WriteCut, Reject, TypeOK
    <3>2. faults' \in 0..MaxFaults
      BY <2>7, AuditAssumption DEF WriteCut, Fault, TypeOK
    <3> QED
      BY <2>7, <3>1, <3>2 DEF WriteCut, TypeOK
  <2>8. CASE Restart
    BY <2>8, AuditAssumption DEF Restart, Fault, TypeOK
  <2>9. CASE UNCHANGED vars
    BY <2>9 DEF vars, TypeOK
  <2> QED
    BY <2>1, <2>2, <2>3, <2>4, <2>5, <2>6, <2>7, <2>8, <2>9 DEF Next, Work
<1> QED
  BY <1>1, <1>2, PTL DEF Spec

(* Requests, events and links keep their types in every reachable state. *)
THEOREM AuditTypeCorrect == Spec => []TypeOK
<1>1. HeadInv => TypeOK
  BY DEF HeadInv
<1> QED
  BY AuditTypes, <1>1, PTL

------------------------------------------------------------------------------
(* The chain *)

(* In a chain the order of a listing is that of insertion, in either store. *)
LEMMA ListedAsInserted ==
  ASSUME TypeOK, ChainInv, NEW i \in Positions, NEW j \in Positions
  PROVE  Before(i, j) <=> i < j
<1>1. stored[i].at \in Nat /\ stored[j].at \in Nat /\ i \in Nat /\ j \in Nat
  BY EventType DEF TypeOK, Positions
<1>2. i < j => stored[i].at < stored[j].at
  BY DEF ChainInv
<1>3. j < i => stored[j].at < stored[i].at
  BY DEF ChainInv
<1>4. i < j \/ i = j \/ j < i
  BY <1>1
<1>5. stored[i].at < stored[j].at <=> i < j
  BY <1>1, <1>2, <1>3, <1>4
<1> QED
  BY <1>5 DEF Before

(* Hence list(1) answers with the event inserted last. *)
LEMMA NewestIsLast ==
  ASSUME TypeOK, ChainInv, NEW i \in Newest(1)
  PROVE  i = Len(stored)
<1>1. i \in Positions /\ Cardinality({j \in Positions : Before(i, j)}) < 1
  BY DEF Newest
<1> DEFINE Later == {j \in Positions : Before(i, j)}
<1>2. Positions = 1..Len(stored) /\ Len(stored) \in Nat
  BY DEF Positions, TypeOK
<1>3. IsFiniteSet(Later)
  <2>1. IsFiniteSet(1..Len(stored))
    BY <1>2, FS_Interval
  <2> QED
    BY <1>2, <2>1, FS_Subset
<1>4. Cardinality(Later) = 0
  BY <1>1, <1>3, FS_CardinalityType
<1>5. Later = {}
  BY <1>3, <1>4, FS_EmptySet
<1>6. ASSUME i # Len(stored) PROVE FALSE
  <2>1. Len(stored) \in Positions /\ i < Len(stored)
    BY <1>1, <1>2, <1>6
  <2>2. Before(i, Len(stored))
    BY <1>1, <2>1, ListedAsInserted
  <2> QED
    BY <1>5, <2>1, <2>2
<1> QED
  BY <1>6

(* Storing the event made of the first request extends the chain by one, or
   leaves it as it is. *)
LEMMA StoreChains ==
  ASSUME HeadInv, ChainInv, stage = "read", Store(Chained(Head(queue)))
  PROVE  /\ \A i \in DOMAIN stored' : stored'[i].prev = i - 1
         /\ \A i, j \in DOMAIN stored' :
              i < j => stored'[i].at < stored'[j].at
<1> DEFINE event == Chained(Head(queue))
           n == Len(stored)
<1>1. n \in Nat /\ Positions = 1..n /\ stored \in Seq(Events) /\ head = n
  BY DEF HeadInv, TypeOK, Positions, ChainInv
<1>2. event \in Events /\ event.prev = n
  BY <1>1, ChainedType DEF Chained
<1>3. CASE stored' = stored
  BY <1>3 DEF ChainInv, Positions
<1>4. CASE stored' = Append(stored, event)
  <2>1. /\ DOMAIN stored' = 1..n + 1
        /\ \A i \in 1..n : stored'[i] = stored[i]
        /\ stored'[n + 1] = event
    BY <1>1, <1>2, <1>4
  <2>2. \A i \in 1..n : stored[i].at \in Nat
    BY <1>1, EventType
  <2>3. \A i \in 1..n : stored[i].at < event.at
    <3> SUFFICES ASSUME NEW i \in 1..n PROVE stored[i].at < event.at
      OBVIOUS
    <3>1. n \in Positions /\ n # 0
      BY <1>1
    <3>2. Head(queue).at \in Nat
      <4>1. Head(queue) \in Requests
        BY DEF HeadInv, TypeOK
      <4> QED
        BY <4>1 DEF Requests
    <3>3. event.at > stored[n].at
      BY <1>1, <3>1, <3>2, NextTimestampLater DEF Chained
    <3>4. i = n \/ stored[i].at < stored[n].at
      BY <1>1, <3>1 DEF ChainInv
    <3>5. event.at \in Nat
      BY <1>2 DEF Events
    <3> QED
      BY <2>2, <3>1, <3>3, <3>4, <3>5, <1>1
  <2>4. \A i \in 1..n : stored[i].prev = i - 1
    BY <1>1 DEF ChainInv
  <2>5. \A i \in 1..n + 1 : stored'[i].prev = i - 1
    BY <1>1, <1>2, <2>1, <2>4
  <2>6. \A i, j \in 1..n : i < j => stored[i].at < stored[j].at
    BY <1>1 DEF ChainInv
  <2>7. \A i, j \in 1..n + 1 : i < j => stored'[i].at < stored'[j].at
    <3> SUFFICES ASSUME NEW i \in 1..n + 1, NEW j \in 1..n + 1, i < j
                 PROVE  stored'[i].at < stored'[j].at
      OBVIOUS
    <3>1. i \in 1..n /\ (j \in 1..n \/ j = n + 1)
      BY <1>1
    <3> QED
      BY <2>1, <2>3, <2>6, <3>1
  <2> QED
    BY <2>1, <2>5, <2>7
<1> QED
  BY <1>3, <1>4 DEF Store

(* A step that leaves the store alone and reads no head keeps the chain. *)
LEMMA ChainStays ==
  ASSUME TypeOK, ChainInv, UNCHANGED stored,
         stage' = "read" => stage = "read" /\ UNCHANGED head
  PROVE  ChainInv'
  BY DEF ChainInv, Positions, TypeOK

(* Every event links to the one inserted before it and is later than it. *)
THEOREM ChainInvariant == Spec => []ChainInv
<1>1. Init => ChainInv
  BY DEF Init, ChainInv, Positions
<1>2. HeadInv /\ ChainInv /\ [Next]_vars => ChainInv'
  <2> SUFFICES ASSUME HeadInv, ChainInv, [Next]_vars PROVE ChainInv'
    OBVIOUS
  <2>0. TypeOK
    BY DEF HeadInv
  <2>1. ASSUME NEW r \in Requests, Request(r) PROVE ChainInv'
    BY <2>0, <2>1, ChainStays DEF Request
  <2>2. CASE ReadHead
    <3>1. head' = Len(stored)
      BY <2>0, <2>2, NewestIsLast DEF ReadHead
    <3> QED
      BY <2>2, <3>1 DEF ReadHead, ChainInv, Positions
  <2>3. CASE Write
    BY <2>3, StoreChains DEF Write, Advance, ChainInv, Positions
  <2>4. CASE ReadUnreadable
    BY <2>0, <2>4, ChainStays DEF ReadUnreadable, Reject, Advance
  <2>5. CASE ReadFails
    BY <2>0, <2>5, ChainStays DEF ReadFails, Reject, Advance
  <2>6. CASE WriteFails
    <3>1. CASE Store(Chained(Head(queue)))
      BY <2>6, <3>1, StoreChains
      DEF WriteFails, Reject, Advance, ChainInv, Positions
    <3>2. CASE UNCHANGED stored
      BY <2>0, <2>6, <3>2, ChainStays DEF WriteFails, Reject, Advance
    <3> QED
      BY <2>6, <3>1, <3>2 DEF WriteFails
  <2>7. CASE WriteCut
    BY <2>0, <2>7, ChainStays DEF WriteCut, Reject, Advance
  <2>8. CASE Restart
    BY <2>0, <2>8, ChainStays DEF Restart
  <2>9. CASE UNCHANGED vars
    BY <2>0, <2>9, ChainStays DEF vars
  <2> QED
    BY <2>1, <2>2, <2>3, <2>4, <2>5, <2>6, <2>7, <2>8, <2>9 DEF Next, Work
<1> QED
  BY <1>1, <1>2, AuditTypes, PTL DEF Spec

(* A listing of all events verifies, whatever was rejected, repeated, backdated
   or lost, in a JSONL file as in a table. *)
THEOREM ChainAlwaysVerifies == Spec => []ChainVerifies
<1>1. TypeOK /\ ChainInv => ChainVerifies
  <2> SUFFICES ASSUME TypeOK, ChainInv PROVE ChainVerifies
    OBVIOUS
  <2> DEFINE n == Len(stored)
  <2>1. n \in Nat /\ Positions = 1..n
    BY DEF TypeOK, Positions
  <2>2. \A i, j \in Positions : i # j => Before(i, j) \/ Before(j, i)
    BY <2>1, ListedAsInserted
  <2>3. ASSUME NEW i \in Positions
        PROVE  stored[i].prev = Predecessor(i, Positions)
    <3> DEFINE earlier == {j \in Positions : Before(j, i)}
               last(j) == \A k \in earlier : k = j \/ Before(k, j)
    <3>1. earlier = 1..i - 1
      BY <2>1, ListedAsInserted
    <3>2. CASE i = 1
      BY <2>1, <3>1, <3>2 DEF Predecessor, ChainInv
    <3>3. CASE i # 1
      <4>1. i - 1 \in earlier /\ last(i - 1)
        BY <2>1, <3>1, <3>3, ListedAsInserted
      <4>2. \A j \in earlier : last(j) => j = i - 1
        BY <2>1, <3>1, <3>3, ListedAsInserted
      <4>3. (CHOOSE j \in earlier : last(j)) = i - 1
        BY <4>1, <4>2
      <4>4. Predecessor(i, Positions) = i - 1
        BY <4>1, <4>3 DEF Predecessor
      <4> QED
        BY <4>4 DEF ChainInv
    <3> QED
      BY <3>2, <3>3
  <2> QED
    BY <2>2, <2>3 DEF ChainVerifies, Verifies
<1> QED
  BY <1>1, AuditTypeCorrect, ChainInvariant, PTL
------------------------------------------------------------------------------
(* Append once *)

(* Storing an event whose id is known changes nothing. *)
LEMMA StoreKeepsOnce ==
  ASSUME stored \in Seq(Events), StoredOnce, NEW event \in Events, Store(event)
  PROVE  StoredOnce'
<1> DEFINE n == Len(stored)
<1>1. n \in Nat /\ Positions = 1..n
  BY DEF Positions
<1>2. CASE Known(event.id)
  BY <1>2 DEF Store, StoredOnce, Positions
<1>3. CASE ~Known(event.id)
  <2>1. /\ DOMAIN stored' = 1..n + 1
        /\ \A i \in 1..n : stored'[i] = stored[i]
        /\ stored'[n + 1] = event
    BY <1>1, <1>3 DEF Store
  <2>2. \A i \in 1..n : stored[i].id # event.id
    BY <1>1, <1>3 DEF Known
  <2>3. \A i, j \in 1..n : stored[i].id = stored[j].id => i = j
    BY <1>1 DEF StoredOnce
  <2>4. ASSUME NEW i \in 1..n + 1, NEW j \in 1..n + 1,
               stored'[i].id = stored'[j].id
        PROVE  i = j
    <3>1. (i \in 1..n \/ i = n + 1) /\ (j \in 1..n \/ j = n + 1)
      BY <1>1
    <3> QED
      BY <2>1, <2>2, <2>3, <2>4, <3>1
  <2> QED
    BY <2>1, <2>4 DEF StoredOnce, Positions
<1> QED
  BY <1>2, <1>3

(* An event is stored once, however often its append is repeated. *)
THEOREM AppendOnce == Spec => []StoredOnce
<1>1. Init => StoredOnce
  BY DEF Init, StoredOnce, Positions
<1>2. HeadInv /\ StoredOnce /\ [Next]_vars => StoredOnce'
  <2> SUFFICES ASSUME HeadInv, StoredOnce, [Next]_vars PROVE StoredOnce'
    OBVIOUS
  <2>1. stored \in Seq(Events)
    BY DEF HeadInv, TypeOK
  <2>2. CASE UNCHANGED stored
    BY <2>2 DEF StoredOnce, Positions
  <2>3. ASSUME stage = "read", Store(Chained(Head(queue))) PROVE StoredOnce'
    BY <2>1, <2>3, ChainedType, StoreKeepsOnce
  <2>4. CASE Write
    BY <2>3, <2>4 DEF Write
  <2>5. CASE WriteFails
    BY <2>2, <2>3, <2>5 DEF WriteFails
  <2>6. CASE ~Write /\ ~WriteFails
    <3>1. UNCHANGED stored
      BY <2>6 DEF Next, Work, Request, ReadHead, ReadUnreadable, ReadFails,
                  WriteCut, Restart, vars
    <3> QED
      BY <2>2, <3>1
  <2> QED
    BY <2>4, <2>5, <2>6
<1> QED
  BY <1>1, <1>2, AuditTypes, PTL DEF Spec

-----------------------------------------------------------------------------
(* The migration lock: the ledger is the list of the first migrations in
   every reachable state, whoever holds the lock file. *)

(* A process that migrates is never ahead of the ledger; one that is done
   found, or completed, all of it. *)
LedgerInv ==
  /\ MigrationTypeOK
  /\ IsPrefixOfKnown(ledger)
  /\ \A p \in Starters :
       /\ migPc[p] = "migrate" =>
            migNext[p] \in 1 .. Migrations /\ migNext[p] <= Len(ledger) + 1
       /\ migPc[p] \in {"release", "running"} => Len(ledger) = Migrations

(* A ledger in order is no longer than the list of known migrations. *)
LEMMA LedgerIsBounded ==
  ASSUME LedgerInv
  PROVE  Len(ledger) \in Nat /\ Len(ledger) <= Migrations
<1>1. ledger \in Seq(1 .. Migrations) /\ Len(ledger) \in Nat
  BY LenProperties DEF LedgerInv, MigrationTypeOK
<1>2. CASE Len(ledger) = 0
  BY <1>1, <1>2, MigrationsAssumption
<1>3. CASE Len(ledger) # 0
  <2>1. Len(ledger) \in DOMAIN ledger
    BY <1>1, <1>3, LenProperties
  <2>2. ledger[Len(ledger)] = Len(ledger)
    BY <2>1 DEF LedgerInv, IsPrefixOfKnown
  <2>3. ledger[Len(ledger)] \in 1 .. Migrations
    BY <1>1, <2>1, ElementOfSeq, LenProperties
  <2> QED
    BY <1>1, <2>2, <2>3, MigrationsAssumption
<1> QED
  BY <1>2, <1>3

(* Nothing but the step of one process changes; ledger and positions stay,
   and the process does not come to hold a complete ledger. *)
LEMMA KeepsLedger ==
  ASSUME LedgerInv, NEW p \in Starters, NEW pc,
         pc \in Waiting \cup LockHeld \cup {"running", "gone"},
         pc \notin {"migrate", "release"},
         pc = "running" => migPc[p] = "release",
         MigGoTo(p, pc), UNCHANGED <<ledger, migNext>>,
         lockFile' \in [by : Starters \cup {NoProcess}, pid : Starters \cup {NoProcess}]
  PROVE  LedgerInv'
<1>1. MigrationTypeOK'
  BY DEF LedgerInv, MigrationTypeOK, MigGoTo
<1>2. \A q \in Starters : q # p => migPc'[q] = migPc[q]
  BY DEF LedgerInv, MigrationTypeOK, MigGoTo
<1>3. migPc'[p] = pc
  BY DEF LedgerInv, MigrationTypeOK, MigGoTo
<1>4. IsPrefixOfKnown(ledger)'
  BY DEF LedgerInv, IsPrefixOfKnown
<1>5. ASSUME NEW q \in Starters
      PROVE  /\ migPc'[q] = "migrate" =>
                  migNext'[q] \in 1 .. Migrations /\ migNext'[q] <= Len(ledger') + 1
             /\ migPc'[q] \in {"release", "running"} => Len(ledger') = Migrations
  <2>1. CASE q = p
    BY <1>3, <2>1 DEF LedgerInv
  <2>2. CASE q # p
    BY <1>2, <2>2 DEF LedgerInv
  <2> QED
    BY <2>1, <2>2
<1> QED
  BY <1>1, <1>4, <1>5 DEF LedgerInv

(* Reading a ledger that is in order finds where to go on. *)
LEMMA ReadLedgerKeeps ==
  ASSUME LedgerInv, NEW p \in Starters, ReadLedger(p)
  PROVE  LedgerInv'
<1> DEFINE next == Len(ledger) + 1
<1>1. Len(ledger) \in Nat /\ Len(ledger) <= Migrations /\ next \in 1 .. Migrations + 1
  BY LedgerIsBounded, MigrationsAssumption
<1>2. /\ migNext' = [migNext EXCEPT ![p] = next]
      /\ migPc' = [migPc EXCEPT ![p] =
                     IF Len(ledger) = Migrations THEN "release" ELSE "migrate"]
      /\ UNCHANGED <<lockFile, ledger>>
  <2>1. IsPrefixOfKnown(ledger)
    BY DEF LedgerInv
  <2> QED
    BY <2>1 DEF ReadLedger, MigGoTo
<1>3. MigrationTypeOK'
  BY <1>1, <1>2 DEF LedgerInv, MigrationTypeOK, LockHeld
<1>4. IsPrefixOfKnown(ledger)'
  BY <1>2 DEF LedgerInv, IsPrefixOfKnown
<1>5. ASSUME NEW q \in Starters
      PROVE  /\ migPc'[q] = "migrate" =>
                  migNext'[q] \in 1 .. Migrations /\ migNext'[q] <= Len(ledger') + 1
             /\ migPc'[q] \in {"release", "running"} => Len(ledger') = Migrations
  <2>1. CASE q = p
    <3>1. /\ migNext'[q] = next /\ Len(ledger') = Len(ledger)
          /\ migPc'[q] = IF Len(ledger) = Migrations THEN "release" ELSE "migrate"
      BY <1>2, <2>1 DEF LedgerInv, MigrationTypeOK
    <3> QED
      BY <1>1, <3>1, MigrationsAssumption
  <2>2. CASE q # p
    BY <1>2, <2>2 DEF LedgerInv, MigrationTypeOK
  <2> QED
    BY <2>1, <2>2
<1> QED
  BY <1>3, <1>4, <1>5 DEF LedgerInv

(* The key of the ledger lets a process append the next migration only. *)
LEMMA AppendsNext ==
  ASSUME LedgerInv, NEW p \in Starters, migPc[p] = "migrate",
         ~ \E i \in DOMAIN ledger : ledger[i] = migNext[p]
  PROVE  migNext[p] = Len(ledger) + 1 /\ migNext[p] \in 1 .. Migrations
<1>1. migNext[p] \in 1 .. Migrations /\ migNext[p] <= Len(ledger) + 1
  BY DEF LedgerInv
<1>2. Len(ledger) \in Nat
  BY LedgerIsBounded
<1>3. ASSUME migNext[p] <= Len(ledger)
      PROVE  FALSE
  <2>1. migNext[p] \in DOMAIN ledger
    BY <1>1, <1>2, <1>3, LenProperties, MigrationsAssumption DEF LedgerInv, MigrationTypeOK
  <2> QED
    BY <2>1 DEF LedgerInv, IsPrefixOfKnown
<1> QED
  BY <1>1, <1>2, <1>3, MigrationsAssumption

LEMMA ApplyMigrationKeeps ==
  ASSUME LedgerInv, NEW p \in Starters, ApplyMigration(p)
  PROVE  LedgerInv'
<1>1. CASE \E i \in DOMAIN ledger : ledger[i] = migNext[p]
  <2>1. MigGoTo(p, "releaseFailed") /\ UNCHANGED <<lockFile, ledger, migNext>>
    BY <1>1 DEF ApplyMigration
  <2> QED
    BY <2>1, KeepsLedger DEF LockHeld, LedgerInv, MigrationTypeOK
<1>2. CASE ~ \E i \in DOMAIN ledger : ledger[i] = migNext[p]
  <2> DEFINE n == Len(ledger)
  <2>1. /\ ledger' = Append(ledger, migNext[p])
        /\ migNext' = [migNext EXCEPT ![p] = @ + 1]
        /\ migPc' = [migPc EXCEPT ![p] =
                       IF migNext[p] = Migrations THEN "release" ELSE "migrate"]
        /\ lockFile' = lockFile
    BY <1>2 DEF ApplyMigration, MigGoTo
  <2>2. /\ n \in Nat /\ n <= Migrations
        /\ migNext[p] = n + 1 /\ migNext[p] \in 1 .. Migrations
    BY <1>2, LedgerIsBounded, AppendsNext DEF ApplyMigration
  <2>3. /\ ledger' \in Seq(1 .. Migrations) /\ Len(ledger') = n + 1
        /\ \A i \in 1 .. n : ledger'[i] = ledger[i]
        /\ ledger'[n + 1] = migNext[p]
    <3> HIDE DEF n
    <3>1. ledger \in Seq(1 .. Migrations) /\ n = Len(ledger)
      BY DEF LedgerInv, MigrationTypeOK, n
    <3> QED
      BY <2>1, <2>2, <3>1, AppendProperties
  <2>4. IsPrefixOfKnown(ledger)'
    <3>1. SUFFICES ASSUME NEW i \in 1 .. n + 1
                   PROVE  ledger'[i] = i
      BY <2>3, LenProperties DEF IsPrefixOfKnown
    <3>2. CASE i = n + 1
      BY <2>2, <2>3, <3>2
    <3>3. CASE i # n + 1
      <4>1. i \in 1 .. n
        BY <2>2, <3>3
      <4>2. i \in DOMAIN ledger
        BY <4>1, LenProperties DEF LedgerInv, MigrationTypeOK
      <4> QED
        BY <2>3, <4>1, <4>2 DEF LedgerInv, IsPrefixOfKnown
    <3> QED
      BY <3>2, <3>3
  <2>5. MigrationTypeOK'
    BY <2>1, <2>2, <2>3, MigrationsAssumption DEF LedgerInv, MigrationTypeOK, LockHeld
  <2>6. ASSUME NEW q \in Starters
        PROVE  /\ migPc'[q] = "migrate" =>
                    migNext'[q] \in 1 .. Migrations /\ migNext'[q] <= Len(ledger') + 1
               /\ migPc'[q] \in {"release", "running"} => Len(ledger') = Migrations
    <3>1. CASE q = p
      <4>1. /\ migNext'[q] = n + 2
            /\ migPc'[q] = IF migNext[p] = Migrations THEN "release" ELSE "migrate"
        BY <2>1, <2>2, <3>1 DEF LedgerInv, MigrationTypeOK
      <4> QED
        BY <2>2, <2>3, <4>1, MigrationsAssumption
    <3>2. CASE q # p
      <4>1. migNext'[q] = migNext[q] /\ migPc'[q] = migPc[q]
        BY <2>1, <3>2 DEF LedgerInv, MigrationTypeOK
      <4>2. migPc[q] \notin {"release", "running"}
        BY <2>2, MigrationsAssumption DEF LedgerInv
      <4>3. migPc[q] = "migrate" =>
              migNext[q] \in 1 .. Migrations /\ migNext[q] <= n + 1
        BY DEF LedgerInv
      <4> QED
        BY <2>2, <2>3, <4>1, <4>2, <4>3, MigrationsAssumption
    <3> QED
      BY <3>1, <3>2
  <2> QED
    BY <2>4, <2>5, <2>6 DEF LedgerInv
<1> QED
  BY <1>1, <1>2

(* Every step of any process keeps the ledger in order. *)
LEMMA LedgerInductive ==
  ASSUME LedgerInv, [MigrationNext]_migVars
  PROVE  LedgerInv'
<1>1. CASE UNCHANGED migVars
  BY <1>1 DEF migVars, LedgerInv, MigrationTypeOK, IsPrefixOfKnown
<1>2. ASSUME NEW p \in Starters,
             \/ CreateLock(p) \/ WritePid(p) \/ InspectLock(p) \/ ReclaimLock(p)
             \/ RetryLock(p) \/ ReleaseLock(p) \/ FailMigration(p) \/ Die(p)
      PROVE  LedgerInv'
  <2>1. /\ UNCHANGED <<ledger, migNext>>
        /\ lockFile' \in [by : Starters \cup {NoProcess}, pid : Starters \cup {NoProcess}]
    BY <1>2 DEF CreateLock, WritePid, InspectLock, ReclaimLock, RetryLock, ReleaseLock,
                FailMigration, Die, Unlink, NoFile, LedgerInv, MigrationTypeOK
  <2>2. PICK pc : /\ MigGoTo(p, pc)
                  /\ pc \in Waiting \cup LockHeld \cup {"running", "gone"}
                  /\ pc \notin {"migrate", "release"}
                  /\ pc = "running" => migPc[p] = "release"
    BY <1>2 DEF CreateLock, WritePid, InspectLock, ReclaimLock, RetryLock, ReleaseLock,
                FailMigration, Die, Waiting, LockHeld
  <2> QED
    BY <2>1, <2>2, KeepsLedger
<1>3. ASSUME NEW p \in Starters, ReadLedger(p)
      PROVE  LedgerInv'
  BY <1>3, ReadLedgerKeeps
<1>4. ASSUME NEW p \in Starters, ApplyMigration(p)
      PROVE  LedgerInv'
  BY <1>4, ApplyMigrationKeeps
<1> QED
  BY <1>1, <1>2, <1>3, <1>4 DEF MigrationNext, StartUp

(* The ledger holds the first migrations in every reachable state, and no
   process that migrates is ahead of it: ensureMigrations over a lock file that
   more than one process may believe to hold. *)
THEOREM LedgerInOrder == MigrationSpec => []LedgerInv
<1>1. MigrationInit => LedgerInv
  BY MigrationsAssumption, EmptySeq
     DEF MigrationInit, LedgerInv, MigrationTypeOK, IsPrefixOfKnown, NoFile, Waiting
<1>2. LedgerInv /\ [MigrationNext]_migVars => LedgerInv'
  BY LedgerInductive
<1> QED
  BY <1>1, <1>2, PTL DEF MigrationSpec

(* Each migration is applied once and in order, and servers run over a migrated
   schema only, however many processes reclaim stale locks at once. *)
THEOREM MigratesOnceInOrder == MigrationSpec => []MigratedOnceInOrder
<1>1. LedgerInv => MigratedOnceInOrder
  BY DEF LedgerInv, MigratedOnceInOrder
<1> QED
  BY <1>1, LedgerInOrder, PTL

-----------------------------------------------------------------------------
(* The passes over the cards: a call returns only after its cards were
   taken up. *)

(* The cards a pass with this work would take up if it began now. *)
CardsOf(work) == work.override \cup (IF work.stored THEN storedCards ELSE {})

(* The cards the passes of the batch that are yet to begin take up. *)
ToCome ==
  CASE batch.phase = "beforeFirst" -> CardsOf(batch.work) \cup CardsOf(batch.trailing)
    [] batch.phase = "first" -> CardsOf(batch.trailing)
    [] batch.phase = "beforeTrailing" -> CardsOf(batch.work)
    [] OTHER -> {}

(* What a call still waits for is covered: by the batch it joined, or by what
   it will ask for again.  The batch accepts calls until its trailing pass. *)
CoverInv ==
  /\ SyncTypeOK
  /\ batch.phase = "none" => batch = NoBatch
  /\ batch.accepting <=> batch.phase \in {"beforeFirst", "first"}
  /\ \A u \in Updates :
       /\ syncPc[u] = "idle" => unserved[u] = {}
       /\ syncPc[u] = "joined" => batch.phase # "none" /\ unserved[u] \subseteq ToCome
       /\ syncPc[u] = "late" => unserved[u] \subseteq CardsOf(syncWork[u])

(* What merged work takes up is what both take up. *)
LEMMA MergeCovers ==
  ASSUME NEW v \in SyncWorks, NEW w \in SyncWorks
  PROVE  /\ Merge(v, w) \in SyncWorks
         /\ CardsOf(Merge(v, w)) = CardsOf(v) \cup CardsOf(w)
BY DEF Merge, CardsOf, SyncWorks

(* No work takes up no card. *)
LEMMA NoWorkCovers == NoWork \in SyncWorks /\ CardsOf(NoWork) = {}
BY DEF NoWork, SyncWorks, CardsOf

(* A call that joins keeps the types, and finds its work in a batch to come or
   is late; the cards to come for the others become no fewer. *)
LEMMA JoinCovers ==
  ASSUME CoverInv, NEW u \in Updates, NEW work \in SyncWorks, Join(u, work),
         UNCHANGED storedCards
  PROVE  /\ batch' \in [phase : Phases, accepting : BOOLEAN,
                        work : SyncWorks, trailing : SyncWorks]
         /\ batch'.phase = "none" => batch' = NoBatch
         /\ batch'.accepting <=> batch'.phase \in {"beforeFirst", "first"}
         /\ batch.phase # "none" => batch'.phase # "none" /\ ToCome \subseteq ToCome'
         /\ \/ /\ syncPc' = [syncPc EXCEPT ![u] = "joined"]
               /\ batch'.phase # "none" /\ CardsOf(work) \subseteq ToCome'
            \/ syncPc' = [syncPc EXCEPT ![u] = "late"]
<1>1. batch \in [phase : Phases, accepting : BOOLEAN, work : SyncWorks, trailing : SyncWorks]
  BY DEF CoverInv, SyncTypeOK
<1>2. CASE batch = NoBatch
  <2>1. batch' = NewBatch(work) /\ syncPc' = [syncPc EXCEPT ![u] = "joined"]
    BY <1>2 DEF Join
  <2>2. batch.phase = "none"
    BY <1>2 DEF NoBatch
  <2>3. /\ batch'.phase = "beforeFirst" /\ batch'.accepting = TRUE
        /\ batch'.work = work /\ batch'.trailing = NoWork
        /\ batch' \in [phase : Phases, accepting : BOOLEAN, work : SyncWorks, trailing : SyncWorks]
    BY <2>1, NoWorkCovers DEF NewBatch, Phases
  <2>4. CardsOf(work) \subseteq ToCome'
    BY <2>3 DEF ToCome, CardsOf
  <2> QED
    BY <2>1, <2>2, <2>3, <2>4
<1>3. CASE batch # NoBatch /\ batch.accepting
  <2>1. /\ batch' = [batch EXCEPT !.trailing = Merge(@, work)]
        /\ syncPc' = [syncPc EXCEPT ![u] = "joined"]
    BY <1>3 DEF Join
  <2>2. batch.phase \in {"beforeFirst", "first"}
    BY <1>3 DEF CoverInv
  <2>3. /\ batch'.phase = batch.phase /\ batch'.accepting = batch.accepting
        /\ batch'.work = batch.work /\ batch'.trailing = Merge(batch.trailing, work)
        /\ batch' \in [phase : Phases, accepting : BOOLEAN, work : SyncWorks, trailing : SyncWorks]
    BY <1>1, <2>1, MergeCovers
  <2>4. \A w : CardsOf(w)' = CardsOf(w')
    BY DEF CardsOf
  <2>5. CardsOf(batch.trailing)' = CardsOf(batch.trailing) \cup CardsOf(work)
    <3>1. CardsOf(batch.trailing)' = CardsOf(Merge(batch.trailing, work))
      BY <2>3 DEF CardsOf
    <3> QED
      BY <1>1, <3>1, MergeCovers
  <2>6. CardsOf(batch.work)' = CardsOf(batch.work)
    BY <2>3 DEF CardsOf
  <2>7. ToCome' = ToCome \cup CardsOf(work)
    BY <2>2, <2>3, <2>5, <2>6 DEF ToCome
  <2> QED
    BY <1>3, <2>1, <2>2, <2>3, <2>7
<1>4. CASE batch # NoBatch /\ ~batch.accepting
  <2>1. UNCHANGED batch /\ syncPc' = [syncPc EXCEPT ![u] = "late"]
    BY <1>4 DEF Join
  <2>2. ToCome' = ToCome
    BY <2>1 DEF ToCome, CardsOf
  <2> QED
    BY <1>1, <2>1, <2>2 DEF CoverInv
<1> QED
  BY <1>2, <1>3, <1>4

(* A call that joins on behalf of u, which waits for cards its work names,
   leaves the others as they are. *)
LEMMA JoinKeeps ==
  ASSUME CoverInv, NEW u \in Updates, NEW work \in SyncWorks, Join(u, work),
         UNCHANGED storedCards,
         syncWork' = [syncWork EXCEPT ![u] = work],
         NEW cards \in SUBSET Cards, cards \subseteq CardsOf(work),
         unserved' = [unserved EXCEPT ![u] = cards]
  PROVE  CoverInv'
<1>1. /\ syncPc \in [Updates -> {"idle", "joined", "late"}]
      /\ syncWork \in [Updates -> SyncWorks]
      /\ unserved \in [Updates -> SUBSET Cards]
      /\ storedCards \subseteq Cards
  BY DEF CoverInv, SyncTypeOK
<1>2. SyncTypeOK'
  BY <1>1, JoinCovers DEF SyncTypeOK
<1>3. \A w : CardsOf(w)' = CardsOf(w')
  BY DEF CardsOf
<1>4. CardsOf(work)' = CardsOf(work)
  BY DEF CardsOf
<1>5. ASSUME NEW v \in Updates
      PROVE  /\ syncPc'[v] = "idle" => unserved'[v] = {}
             /\ syncPc'[v] = "joined" => batch'.phase # "none" /\ unserved'[v] \subseteq ToCome'
             /\ syncPc'[v] = "late" => unserved'[v] \subseteq CardsOf(syncWork[v])'
  <2>1. CASE v = u
    <3>1. unserved'[v] = cards /\ syncWork'[v] = work
      BY <1>1, <2>1
    <3>2. CardsOf(syncWork[v])' = CardsOf(work)
      BY <3>1 DEF CardsOf
    <3>3. \/ syncPc'[v] = "joined" /\ batch'.phase # "none" /\ CardsOf(work) \subseteq ToCome'
          \/ syncPc'[v] = "late"
      BY <1>1, <2>1, JoinCovers
    <3> QED
      BY <3>1, <3>2, <3>3
  <2>2. CASE v # u
    <3>1. unserved'[v] = unserved[v] /\ syncWork'[v] = syncWork[v]
      BY <1>1, <2>2
    <3>2. syncPc'[v] = syncPc[v]
      BY <1>1, <2>2, JoinCovers
    <3>3. CardsOf(syncWork[v])' = CardsOf(syncWork[v])
      BY <3>1 DEF CardsOf
    <3>4. batch.phase # "none" => batch'.phase # "none" /\ ToCome \subseteq ToCome'
      BY JoinCovers
    <3> QED
      BY <3>1, <3>2, <3>3, <3>4 DEF CoverInv
  <2> QED
    BY <2>1, <2>2
<1>6. /\ batch'.phase = "none" => batch' = NoBatch
      /\ batch'.accepting <=> batch'.phase \in {"beforeFirst", "first"}
  BY JoinCovers
<1> QED
  BY <1>2, <1>5, <1>6 DEF CoverInv

LEMMA RequestSyncKeeps ==
  ASSUME CoverInv, NEW u \in Updates, NEW work \in SyncWorks, RequestSync(u, work)
  PROVE  CoverInv'
<1>1. CardsOf(work) \subseteq Cards
  BY DEF CardsOf, SyncWorks, CoverInv, SyncTypeOK
<1>2. unserved' = [unserved EXCEPT ![u] = CardsOf(work)]
  BY DEF RequestSync, CardsOf
<1> QED
  BY <1>1, <1>2, JoinKeeps DEF RequestSync

(* The work a call asks for on its own. *)
LEMMA AskedWork == Asked \subseteq SyncWorks
<1> SUFFICES ASSUME NEW work \in Asked
             PROVE  work \in SyncWorks
  OBVIOUS
<1>1. CASE work = [stored |-> TRUE, override |-> {}]
  BY <1>1 DEF SyncWorks
<1>2. CASE \E card \in Cards : work = [stored |-> FALSE, override |-> {card}]
  <2>1. PICK card \in Cards : work = [stored |-> FALSE, override |-> {card}]
    BY <1>2
  <2>2. {card} \in SUBSET Cards
    OBVIOUS
  <2> QED
    BY <2>1, <2>2 DEF SyncWorks
<1> QED
  BY <1>1, <1>2 DEF Asked

LEMMA AskAgainKeeps ==
  ASSUME CoverInv, NEW u \in Updates, AskAgain(u)
  PROVE  CoverInv'
<1>1. /\ syncWork \in [Updates -> SyncWorks]
      /\ unserved \in [Updates -> SUBSET Cards]
  BY DEF CoverInv, SyncTypeOK
<1>2. unserved[u] \subseteq CardsOf(syncWork[u])
  BY DEF CoverInv, AskAgain
<1>3. /\ syncWork' = [syncWork EXCEPT ![u] = syncWork[u]]
      /\ unserved' = [unserved EXCEPT ![u] = unserved[u]]
  BY <1>1 DEF AskAgain
<1> QED
  BY <1>1, <1>2, <1>3, JoinKeeps DEF AskAgain

(* A pass that starts takes up what it was to take up, and no more is
   expected of it. *)
LEMMA StartPassKeeps ==
  ASSUME CoverInv, StartPass
  PROVE  CoverInv'
<1> DEFINE cards == CardsOf(batch.work)
<1>1. /\ batch \in [phase : Phases, accepting : BOOLEAN, work : SyncWorks, trailing : SyncWorks]
      /\ unserved \in [Updates -> SUBSET Cards]
      /\ batch.phase \in {"beforeFirst", "beforeTrailing"}
  BY DEF CoverInv, SyncTypeOK, StartPass
<1>2. /\ batch'.phase = IF batch.phase = "beforeFirst" THEN "first" ELSE "trailing"
      /\ batch'.accepting = batch.accepting /\ batch'.trailing = batch.trailing
      /\ batch' \in [phase : Phases, accepting : BOOLEAN, work : SyncWorks, trailing : SyncWorks]
  BY <1>1 DEF StartPass, Phases
<1>3. \A u \in Updates : unserved'[u] = unserved[u] \ cards
  BY DEF StartPass, CardsOf
<1>4. ToCome \ cards \subseteq ToCome'
  BY <1>1, <1>2 DEF ToCome, CardsOf, StartPass
<1>5. SyncTypeOK'
  <2>1. unserved' \in [Updates -> SUBSET Cards]
    BY <1>1, <1>3 DEF StartPass
  <2> QED
    BY <1>2, <2>1 DEF CoverInv, SyncTypeOK, StartPass
<1>6. ASSUME NEW u \in Updates
      PROVE  /\ syncPc'[u] = "idle" => unserved'[u] = {}
             /\ syncPc'[u] = "joined" => batch'.phase # "none" /\ unserved'[u] \subseteq ToCome'
             /\ syncPc'[u] = "late" => unserved'[u] \subseteq CardsOf(syncWork[u])'
  <2>1. syncPc'[u] = syncPc[u] /\ CardsOf(syncWork[u])' = CardsOf(syncWork[u])
    BY DEF StartPass, CardsOf
  <2>2. batch'.phase # "none"
    BY <1>2
  <2> QED
    BY <1>3, <1>4, <2>1, <2>2 DEF CoverInv
<1>7. /\ batch'.phase # "none"
      /\ batch'.accepting <=> batch'.phase \in {"beforeFirst", "first"}
  BY <1>1, <1>2 DEF CoverInv
<1> QED
  BY <1>5, <1>6, <1>7 DEF CoverInv

(* What is expected of the trailing pass was collected for it. *)
LEMMA EndFirstPassKeeps ==
  ASSUME CoverInv, EndFirstPass
  PROVE  CoverInv'
<1>1. /\ batch'.phase = "beforeTrailing" /\ batch'.accepting = FALSE
      /\ batch'.work = batch.trailing
      /\ batch' \in [phase : Phases, accepting : BOOLEAN, work : SyncWorks, trailing : SyncWorks]
  BY NoWorkCovers DEF EndFirstPass, CoverInv, SyncTypeOK, Phases
<1>2. ToCome' = ToCome
  BY <1>1 DEF EndFirstPass, ToCome, CardsOf
<1>3. SyncTypeOK'
  BY <1>1 DEF EndFirstPass, CoverInv, SyncTypeOK
<1>4. ASSUME NEW u \in Updates
      PROVE  /\ syncPc'[u] = "idle" => unserved'[u] = {}
             /\ syncPc'[u] = "joined" => batch'.phase # "none" /\ unserved'[u] \subseteq ToCome'
             /\ syncPc'[u] = "late" => unserved'[u] \subseteq CardsOf(syncWork[u])'
  <2>1. CardsOf(syncWork[u])' = CardsOf(syncWork[u])
    BY DEF EndFirstPass, CardsOf
  <2> QED
    BY <1>1, <1>2, <2>1 DEF EndFirstPass, CoverInv
<1> QED
  BY <1>1, <1>3, <1>4 DEF CoverInv

(* A batch ends when nothing is expected of it any more. *)
LEMMA EndBatchKeeps ==
  ASSUME CoverInv, EndBatch
  PROVE  CoverInv'
<1>1. ToCome = {}
  BY NoWorkCovers DEF EndBatch, ToCome
<1>2. /\ batch' = NoBatch /\ batch'.phase = "none" /\ batch'.accepting = FALSE
      /\ batch' \in [phase : Phases, accepting : BOOLEAN, work : SyncWorks, trailing : SyncWorks]
  BY NoWorkCovers DEF EndBatch, NoBatch, Phases
<1>3. SyncTypeOK'
  BY <1>2 DEF EndBatch, CoverInv, SyncTypeOK, SyncWorks, NoWork
<1>4. ASSUME NEW u \in Updates
      PROVE  /\ syncPc'[u] = "idle" => unserved'[u] = {}
             /\ syncPc'[u] # "joined"
             /\ syncPc'[u] = "late" => unserved'[u] \subseteq CardsOf(syncWork[u])'
  <2>1. syncPc[u] = "late" => CardsOf(syncWork[u])' = CardsOf(syncWork[u])
    BY DEF EndBatch, CardsOf
  <2>2. syncPc'[u] = IF syncPc[u] = "joined" THEN "idle" ELSE syncPc[u]
    BY DEF EndBatch
  <2> QED
    BY <1>1, <2>1, <2>2 DEF EndBatch, CoverInv
<1> QED
  BY <1>2, <1>3, <1>4 DEF CoverInv

(* A card that is stored later is not missed by a pass to come. *)
LEMMA StoreCardKeeps ==
  ASSUME CoverInv, NEW card \in Cards, StoreCard(card)
  PROVE  CoverInv'
<1>1. \A w : CardsOf(w) \subseteq w.override \cup (IF w.stored THEN storedCards' ELSE {})
  BY DEF StoreCard, CardsOf
<1>2. ToCome \subseteq ToCome'
  BY DEF StoreCard, ToCome, CardsOf
<1>3. SyncTypeOK'
  BY DEF StoreCard, CoverInv, SyncTypeOK
<1>4. ASSUME NEW u \in Updates
      PROVE  /\ syncPc'[u] = "idle" => unserved'[u] = {}
             /\ syncPc'[u] = "joined" => batch'.phase # "none" /\ unserved'[u] \subseteq ToCome'
             /\ syncPc'[u] = "late" => unserved'[u] \subseteq CardsOf(syncWork[u])'
  <2>1. CardsOf(syncWork[u]) \subseteq CardsOf(syncWork[u])'
    BY DEF StoreCard, CardsOf
  <2> QED
    BY <1>2, <2>1 DEF StoreCard, CoverInv
<1> QED
  BY <1>3, <1>4 DEF StoreCard, CoverInv

LEMMA CoverInductive ==
  ASSUME CoverInv, [SyncNext]_syncVars
  PROVE  CoverInv'
<1>1. CASE UNCHANGED syncVars
  BY <1>1 DEF syncVars, CoverInv, SyncTypeOK, ToCome, CardsOf
<1>2. CASE SyncNext
  BY <1>2, RequestSyncKeeps, AskedWork, AskAgainKeeps, StartPassKeeps, EndFirstPassKeeps,
     EndBatchKeeps, StoreCardKeeps DEF SyncNext
<1> QED
  BY <1>1, <1>2

(* Whatever a call still waits for is covered by a pass to come, or will be
   asked for again: the batches of syncApprovalPresentationBestEffort. *)
THEOREM EveryCallIsCovered == SyncSpec => []CoverInv
<1>1. SyncInit => CoverInv
  BY NoWorkCovers DEF SyncInit, CoverInv, SyncTypeOK, NoBatch, Phases
<1>2. CoverInv /\ [SyncNext]_syncVars => CoverInv'
  BY CoverInductive
<1> QED
  BY <1>1, <1>2, PTL DEF SyncSpec

(* No call returns before a pass that began after it took up its cards, for any
   number of calls that are coalesced. *)
THEOREM NoCardIsDropped == SyncSpec => []ReturnedIsServed
<1>1. CoverInv => ReturnedIsServed
  BY DEF CoverInv, ReturnedIsServed
<1> QED
  BY <1>1, EveryCallIsCovered, PTL

---------------------------------------------------------------------------
(* The cards themselves: when a decided approval is at rest, no chat still
   offers its buttons for want of a pass. *)

(* A card that still offers its buttons, and that no error has left out. *)
Owed(card) == shown[card] = "open" /\ card \notin forsaken

(* A call that will ask for the stored cards if the approval is decided. *)
WillAsk(u) == callPc[u] \in {"sending", "rereading", "asking"}

(* A card that a pass is editing, or that a pass to come takes up. *)
AskedFor(card) ==
  \/ card \in editing \/ card \in ToCome
  \/ \E u \in Updates : syncPc[u] = "late" /\ card \in CardsOf(syncWork[u])

(* A card that is sent but not yet stored is with the call that sent it. *)
SentInv ==
  \A card \in Cards : Owed(card) =>
    \/ card \in storedCards
    \/ \E u \in Updates : callPc[u] = "sending" /\ card \in callCards[u]

(* Once the approval is decided, an open card is asked for, or a call is on
   its way to ask for the stored ones. *)
ClosingInv ==
  decided =>
    \A card \in Cards :
      Owed(card) /\ result[card] # "failed" =>
        AskedFor(card) \/ \E u \in Updates : WillAsk(u)

CardInv ==
  /\ CardTypeOK /\ CoverInv
  /\ editing # {} => batch.phase \in {"first", "trailing"}
  /\ \A card \in Cards : result[card] = "updated" => shown[card] = "closed"
  /\ SentInv /\ ClosingInv

(* What the passes and the late calls see does not change with the calls. *)
LEMMA SyncStays ==
  ASSUME UNCHANGED syncVars
  PROVE  /\ CoverInv => CoverInv'
         /\ \A card : /\ AskedFor(card) /\ card \notin editing => AskedFor(card)'
                      /\ AskedFor(card) /\ UNCHANGED editing => AskedFor(card)'
BY DEF syncVars, CoverInv, SyncTypeOK, ToCome, CardsOf, AskedFor

(* A call that asks, for itself or again, adds to what is asked for. *)
LEMMA JoinAsks ==
  ASSUME CoverInv, NEW u \in Updates, NEW work \in SyncWorks, Join(u, work),
         UNCHANGED <<storedCards, editing>>,
         syncWork' = [syncWork EXCEPT ![u] = work],
         syncPc[u] = "idle" \/ syncWork[u] = work
  PROVE  \A card : AskedFor(card) \/ card \in CardsOf(work) => AskedFor(card)'
<1>1. /\ syncPc \in [Updates -> {"idle", "joined", "late"}]
      /\ syncWork \in [Updates -> SyncWorks]
  BY DEF CoverInv, SyncTypeOK
<1>2. ToCome \subseteq ToCome'
  <2>1. batch.phase = "none" => ToCome = {}
    BY DEF ToCome
  <2> QED
    BY <2>1, JoinCovers
<1>3. \/ syncPc' = [syncPc EXCEPT ![u] = "joined"] /\ CardsOf(work) \subseteq ToCome'
      \/ syncPc' = [syncPc EXCEPT ![u] = "late"]
  BY JoinCovers
<1> TAKE card
<1>4. CASE card \in CardsOf(work)
  <2>1. syncPc'[u] = "late" => card \in CardsOf(syncWork[u])'
    BY <1>1, <1>4 DEF CardsOf
  <2> QED
    BY <1>1, <1>3, <1>4, <2>1 DEF AskedFor
<1>5. CASE card \in editing \/ card \in ToCome
  BY <1>2, <1>5 DEF AskedFor
<1>6. ASSUME NEW v \in Updates, syncPc[v] = "late", card \in CardsOf(syncWork[v])
      PROVE  AskedFor(card)'
  <2>1. CASE v = u
    BY <1>4, <1>6, <2>1
  <2>2. CASE v # u
    <3>1. syncPc'[v] = "late" /\ card \in CardsOf(syncWork[v])'
      BY <1>1, <1>3, <1>6, <2>2 DEF CardsOf
    <3> QED
      BY <3>1 DEF AskedFor
  <2> QED
    BY <2>1, <2>2
<1> QED
  BY <1>4, <1>5, <1>6 DEF AskedFor

(* A new card is sent only while the approval is pending. *)
LEMMA NotifyCloses ==
  ASSUME CardInv, NEW u \in Updates, NEW cards \in SUBSET Cards, Notify(u, cards)
  PROVE  CardInv'
<1>1. CardTypeOK'
  BY DEF CardInv, CardTypeOK, Notify, Goto
<1>2. SentInv'
  BY DEF CardInv, CardTypeOK, SentInv, Owed, Notify, Goto, Starts, syncVars
<1>3. \A card \in Cards : result'[card] = "updated" => shown'[card] = "closed"
  BY DEF CardInv, CardTypeOK, Notify
<1>4. ~decided'
  BY DEF Notify
<1> QED
  BY <1>1, <1>2, <1>3, <1>4, SyncStays DEF CardInv, ClosingInv, Notify, syncVars

LEMMA SendCardCloses ==
  ASSUME CardInv, NEW u \in Updates, NEW card \in Cards, SendCard(u, card)
  PROVE  CardInv'
<1>1. CardTypeOK'
  BY DEF CardInv, CardTypeOK, SendCard
<1>2. SentInv'
  BY DEF CardInv, CardTypeOK, SentInv, Owed, SendCard, syncVars
<1>3. \A k \in Cards : result'[k] = "updated" => shown'[k] = "closed"
  BY DEF CardInv, CardTypeOK, SendCard
<1>4. ClosingInv'
  BY DEF ClosingInv, WillAsk, SendCard
<1> QED
  BY <1>1, <1>2, <1>3, <1>4, SyncStays DEF CardInv, SendCard, syncVars

LEMMA SendFailsCloses ==
  ASSUME CardInv, NEW u \in Updates, NEW card \in Cards, NEW arrived \in BOOLEAN,
         SendFails(u, card, arrived)
  PROVE  CardInv'
<1>1. CardTypeOK'
  BY DEF CardInv, CardTypeOK, SendFails, Goto
<1>2. SentInv'
  BY DEF CardInv, CardTypeOK, SentInv, Owed, SendFails, Goto, syncVars
<1>3. \A k \in Cards : result'[k] = "updated" => shown'[k] = "closed"
  BY DEF CardInv, CardTypeOK, SendFails
<1>4. callPc'[u] = "sending"
  BY DEF CardInv, CardTypeOK, SendFails, Goto
<1>5. ClosingInv'
  BY <1>4 DEF ClosingInv, WillAsk
<1> QED
  BY <1>1, <1>2, <1>3, <1>5, SyncStays DEF CardInv, SendFails, syncVars

(* A delivery that is recorded, by a call that goes on to ask. *)
LEMMA RecordCardCloses ==
  ASSUME CardInv, NEW u \in Updates, RecordCard(u)
  PROVE  CardInv'
<1>1. NextCard(u) \in Unrecorded(u) /\ Unrecorded(u) \subseteq Cards
  BY DEF RecordCard, NextCard, Unrecorded, CardInv, CardTypeOK
<1>2. StoreCard(NextCard(u))
  BY <1>1 DEF RecordCard, StoreCard, Unrecorded
<1>3. CoverInv'
  BY <1>1, <1>2, StoreCardKeeps DEF CardInv
<1>4. CardTypeOK'
  BY DEF CardInv, CardTypeOK, RecordCard, cardVars
<1>5. SentInv'
  BY DEF CardInv, SentInv, Owed, RecordCard, cardVars
<1>6. ClosingInv'
  BY DEF ClosingInv, WillAsk, RecordCard, AllSent, cardVars
<1> QED
  BY <1>3, <1>4, <1>5, <1>6 DEF CardInv, RecordCard, cardVars

LEMMA RecordFailsCloses ==
  ASSUME CardInv, NEW u \in Updates, NEW kept \in BOOLEAN, RecordFails(u, kept)
  PROVE  CardInv'
<1>1. NextCard(u) \in Unrecorded(u) /\ Unrecorded(u) \subseteq Cards
  BY DEF RecordFails, NextCard, Unrecorded, CardInv, CardTypeOK
<1>2. StoreCard(NextCard(u)) \/ UNCHANGED syncVars
  BY <1>1 DEF RecordFails, StoreCard, Unrecorded, syncVars
<1>3. CoverInv'
  BY <1>1, <1>2, StoreCardKeeps, SyncStays DEF CardInv
<1>4. CardTypeOK'
  BY DEF CardInv, CardTypeOK, RecordFails, Goto
<1>5. SentInv'
  <2>1. storedCards \subseteq storedCards'
    BY DEF RecordFails
  <2> QED
    BY <2>1 DEF CardInv, CardTypeOK, SentInv, Owed, RecordFails, Goto
<1>6. callPc'[u] = "rereading"
  BY DEF CardInv, CardTypeOK, RecordFails, Goto
<1>7. ClosingInv'
  BY <1>6 DEF ClosingInv, WillAsk
<1> QED
  BY <1>3, <1>4, <1>5, <1>7 DEF CardInv, RecordFails

LEMMA RecordedCloses ==
  ASSUME CardInv, NEW u \in Updates, Recorded(u)
  PROVE  CardInv'
<1>1. CardTypeOK'
  BY DEF CardInv, CardTypeOK, Recorded, Goto
<1>2. SentInv'
  BY DEF CardInv, CardTypeOK, SentInv, Owed, Recorded, Goto, Unrecorded, syncVars
<1>3. callPc'[u] = "rereading"
  BY DEF CardInv, CardTypeOK, Recorded, Goto
<1>4. ClosingInv'
  BY <1>3 DEF ClosingInv, WillAsk
<1> QED
  BY <1>1, <1>2, <1>4, SyncStays DEF CardInv, Recorded, syncVars

(* The sender looks at the approval again: that is what makes up for a decision
   that overtook it. *)
LEMMA RereadCloses ==
  ASSUME CardInv, NEW u \in Updates, Reread(u)
  PROVE  CardInv'
<1>1. CardTypeOK'
  BY DEF CardInv, CardTypeOK, Reread, Goto
<1>2. SentInv'
  BY DEF CardInv, CardTypeOK, SentInv, Owed, Reread, Goto, syncVars
<1>3. decided' => callPc'[u] = "asking"
  BY DEF CardInv, CardTypeOK, Reread, Goto
<1>4. ClosingInv'
  BY <1>3 DEF ClosingInv, WillAsk
<1> QED
  BY <1>1, <1>2, <1>4, SyncStays DEF CardInv, Reread, syncVars

LEMMA RereadFailsCloses ==
  ASSUME CardInv, NEW u \in Updates, RereadFails(u)
  PROVE  CardInv'
<1>1. CardTypeOK'
  BY DEF CardInv, CardTypeOK, RereadFails, Goto, CoverInv, SyncTypeOK
<1>2. SentInv'
  BY DEF CardInv, CardTypeOK, SentInv, Owed, RereadFails, Goto, syncVars
<1>3. ASSUME NEW card \in Cards, Owed(card)'
      PROVE  \E v \in Updates : WillAsk(v)'
  <2>1. PICK v \in Updates : callPc[v] = "sending" /\ card \in callCards[v]
    BY <1>3 DEF CardInv, SentInv, Owed, RereadFails
  <2>2. callPc'[v] = "sending"
    BY <2>1 DEF CardInv, CardTypeOK, RereadFails, Goto
  <2> QED
    BY <2>2 DEF WillAsk
<1>4. ClosingInv'
  BY <1>3 DEF ClosingInv
<1> QED
  BY <1>1, <1>2, <1>4, SyncStays DEF CardInv, RereadFails, syncVars

LEMMA DecideCloses ==
  ASSUME CardInv, NEW u \in Updates, NEW clicked \in SUBSET Cards, Decide(u, clicked)
  PROVE  CardInv'
<1>1. CardTypeOK'
  BY DEF CardInv, CardTypeOK, Decide, Goto
<1>2. SentInv'
  BY DEF CardInv, CardTypeOK, SentInv, Owed, Decide, Starts, Goto, syncVars
<1>3. callPc'[u] = "asking"
  BY DEF CardInv, CardTypeOK, Decide, Goto
<1>4. ClosingInv'
  BY <1>3 DEF ClosingInv, WillAsk
<1> QED
  BY <1>1, <1>2, <1>4, SyncStays DEF CardInv, Decide, syncVars

(* A call that asks for a pass, and is then not on its way to ask any more, has
   asked for every stored card if it was. *)
LEMMA AskCloses ==
  ASSUME CardInv, NEW u \in Updates, NEW work \in SyncWorks, RequestSync(u, work),
         UNCHANGED <<decided, shown, result, editing, forsaken>>,
         NEW pc \in {"over", "repairing"}, NEW cards \in SUBSET Cards, Goto(u, pc, cards),
         callPc[u] \in {"asking", "clicked", "repairing"},
         callPc[u] = "asking" => work.stored
  PROVE  CardInv'
<1>1. CardTypeOK'
  BY DEF CardInv, CardTypeOK, Goto
<1>2. CoverInv'
  BY RequestSyncKeeps DEF CardInv
<1>3. SentInv'
  BY DEF CardInv, CardTypeOK, SentInv, Owed, Goto, RequestSync
<1>4. \A card : AskedFor(card) \/ card \in CardsOf(work) => AskedFor(card)'
  BY JoinAsks DEF CardInv, RequestSync
<1>5. \A v \in Updates : WillAsk(v) /\ v # u => WillAsk(v)'
  BY DEF WillAsk, Goto, CardInv, CardTypeOK
<1>6. ASSUME decided, NEW card \in Cards, Owed(card), result[card] # "failed"
      PROVE  AskedFor(card)' \/ \E v \in Updates : WillAsk(v)'
  <2>1. CASE callPc[u] = "asking"
    <3>1. CASE card \in storedCards
      BY <1>4, <2>1, <3>1 DEF CardsOf
    <3>2. CASE card \notin storedCards
      <4>1. PICK v \in Updates : callPc[v] = "sending"
        BY <1>6, <3>2 DEF CardInv, SentInv
      <4> QED
        BY <1>5, <2>1, <4>1 DEF WillAsk
    <3> QED
      BY <3>1, <3>2
  <2>2. CASE callPc[u] # "asking"
    BY <1>4, <1>5, <1>6, <2>2 DEF CardInv, ClosingInv, WillAsk
  <2> QED
    BY <2>1, <2>2
<1>7. ClosingInv'
  BY <1>6 DEF ClosingInv, Owed
<1>8. editing' # {} => batch'.phase \in {"first", "trailing"}
  <2>1. batch.phase \in {"first", "trailing"} => batch # NoBatch /\ batch'.phase = batch.phase
    BY DEF RequestSync, Join, CardInv, CoverInv, SyncTypeOK, NoBatch
  <2> QED
    BY <2>1 DEF CardInv
<1> QED
  BY <1>1, <1>2, <1>3, <1>7, <1>8 DEF CardInv

LEMMA AskStoredCloses ==
  ASSUME CardInv, NEW u \in Updates, AskStored(u)
  PROVE  CardInv'
<1> DEFINE work == [stored |-> TRUE, override |-> {}]
           pc == IF callCards[u] = {} THEN "over" ELSE "repairing"
<1>1. work \in SyncWorks /\ work.stored
  BY DEF SyncWorks
<1>2. pc \in {"over", "repairing"} /\ callCards[u] \in SUBSET Cards
  BY DEF CardInv, CardTypeOK
<1>3. RequestSync(u, work) /\ Goto(u, pc, callCards[u])
  BY DEF AskStored
<1> HIDE DEF work, pc
<1> QED
  BY <1>1, <1>2, <1>3, AskCloses DEF AskStored

LEMMA AskClickedCloses ==
  ASSUME CardInv, NEW u \in Updates, RepairClicked(u) \/ AskClicked(u)
  PROVE  CardInv'
<1> DEFINE work == [stored |-> FALSE, override |-> callCards[u]]
<1>1. work \in SyncWorks
  BY DEF SyncWorks, CardInv, CardTypeOK
<1>2. RequestSync(u, work) /\ Goto(u, "over", {})
  BY DEF RepairClicked, AskClicked
<1> HIDE DEF work
<1> QED
  BY <1>1, <1>2, AskCloses DEF RepairClicked, AskClicked

(* A call that neither asked nor will leaves everything to the others. *)
LEMMA ClickCloses ==
  ASSUME CardInv, NEW u \in Updates,
         ClickedIsTracked(u) \/ \E card \in Cards : Click(u, card)
  PROVE  CardInv'
<1>1. /\ UNCHANGED <<syncVars, decided, shown, result, editing, forsaken>>
      /\ callPc[u] \in {"ready", "repairing"}
      /\ \E pc \in {"over", "clicked"}, cards \in SUBSET Cards : Goto(u, pc, cards)
  BY DEF ClickedIsTracked, Click, Starts, CardInv, CoverInv, SyncTypeOK
<1>2. PICK pc \in {"over", "clicked"}, cards \in SUBSET Cards : Goto(u, pc, cards)
  BY <1>1
<1>3. CardTypeOK'
  BY <1>1, <1>2 DEF CardInv, CardTypeOK, Goto
<1>4. SentInv'
  BY <1>1, <1>2 DEF CardInv, CardTypeOK, SentInv, Owed, Goto, syncVars
<1>5. \A v \in Updates : WillAsk(v) => WillAsk(v)'
  BY <1>1, <1>2 DEF WillAsk, Goto, CardInv, CardTypeOK
<1>6. \A card \in Cards : AskedFor(card) => AskedFor(card)'
  BY <1>1, SyncStays
<1>7. ClosingInv'
  BY <1>1, <1>5, <1>6 DEF CardInv, ClosingInv, Owed
<1> QED
  BY <1>1, <1>3, <1>4, <1>7, SyncStays DEF CardInv, syncVars

(* A pass that begins takes its cards from those asked for. *)
LEMMA BeginPassCloses ==
  ASSUME CardInv, BeginPass
  PROVE  CardInv'
<1>1. /\ batch \in [phase : Phases, accepting : BOOLEAN, work : SyncWorks, trailing : SyncWorks]
      /\ batch.phase \in {"beforeFirst", "beforeTrailing"}
      /\ storedCards \subseteq Cards
  BY DEF CardInv, CoverInv, SyncTypeOK, BeginPass, StartPass
<1>2. /\ batch'.phase = IF batch.phase = "beforeFirst" THEN "first" ELSE "trailing"
      /\ batch'.trailing = batch.trailing
  BY <1>1 DEF BeginPass, StartPass
<1>3. editing = {} /\ editing' = CardsOf(batch.work)
  BY <1>1 DEF CardInv, BeginPass, CardsOf
<1>4. CardTypeOK'
  <2>1. CardsOf(batch.work) \subseteq Cards
    BY <1>1 DEF CardsOf, SyncWorks
  <2> QED
    BY <1>3, <2>1 DEF CardInv, CardTypeOK, BeginPass
<1>5. CoverInv'
  BY StartPassKeeps DEF CardInv, BeginPass
<1>6. SentInv'
  BY DEF CardInv, SentInv, Owed, BeginPass, StartPass
<1>7. ToCome \ CardsOf(batch.work) \subseteq ToCome'
  BY <1>1, <1>2 DEF ToCome, CardsOf, BeginPass, StartPass
<1>8. \A u \in Updates : syncPc'[u] = syncPc[u] /\ CardsOf(syncWork[u])' = CardsOf(syncWork[u])
  BY DEF BeginPass, StartPass, CardsOf
<1>9. \A card \in Cards : AskedFor(card) => AskedFor(card)'
  BY <1>3, <1>7, <1>8 DEF AskedFor
<1>10. ClosingInv'
  BY <1>9 DEF CardInv, ClosingInv, Owed, WillAsk, BeginPass
<1> QED
  BY <1>2, <1>4, <1>5, <1>6, <1>10 DEF CardInv, BeginPass

(* An edit closes the card, is recorded as failed, or leaves it to the call
   that is about to record it. *)
LEMMA EditCardCloses ==
  ASSUME CardInv, NEW card \in Cards, NEW reached \in BOOLEAN,
         NEW outcome \in {"updated", "failed"}, EditCard(card, reached, outcome)
  PROVE  CardInv'
<1>1. CardTypeOK'
  BY DEF CardInv, CardTypeOK, EditCard
<1>2. \A k \in Cards : Owed(k)' => Owed(k) /\ (k = card => ~reached)
  BY DEF CardInv, CardTypeOK, EditCard, Owed
<1>3. SentInv'
  BY <1>2 DEF CardInv, SentInv, EditCard, syncVars
<1>4. \A k \in Cards : result'[k] = "updated" => shown'[k] = "closed"
  BY DEF CardInv, CardTypeOK, EditCard
<1>5. \A k \in Cards : AskedFor(k) /\ k # card => AskedFor(k)'
  BY DEF EditCard, AskedFor, ToCome, CardsOf, syncVars
<1>6. ASSUME decided, NEW k \in Cards, Owed(k)', result'[k] # "failed"
      PROVE  AskedFor(k)' \/ \E v \in Updates : WillAsk(v)'
  <2>1. CASE k = card
    <3>1. card \notin storedCards
      BY <1>2, <1>6, <2>1 DEF CardInv, CardTypeOK, EditCard
    <3>2. PICK v \in Updates : callPc[v] = "sending"
      BY <1>2, <1>6, <2>1, <3>1 DEF CardInv, SentInv
    <3> QED
      BY <3>2 DEF WillAsk, EditCard
  <2>2. CASE k # card
    <3>1. result'[k] = result[k]
      BY <2>2 DEF CardInv, CardTypeOK, EditCard
    <3> QED
      BY <1>2, <1>5, <1>6, <2>2, <3>1 DEF CardInv, ClosingInv, WillAsk, EditCard
  <2> QED
    BY <2>1, <2>2
<1>7. ClosingInv'
  BY <1>6 DEF ClosingInv, EditCard
<1> QED
  BY <1>1, <1>3, <1>4, <1>7, SyncStays DEF CardInv, EditCard, syncVars

LEMMA EditIsLostCloses ==
  ASSUME CardInv, NEW card \in Cards, NEW reached \in BOOLEAN, EditIsLost(card, reached)
  PROVE  CardInv'
<1>1. CardTypeOK'
  BY DEF CardInv, CardTypeOK, EditIsLost
<1>2. \A k \in Cards : Owed(k)' => Owed(k) /\ k # card
  BY DEF CardInv, CardTypeOK, EditIsLost, Owed
<1>3. SentInv'
  BY <1>2 DEF CardInv, SentInv, EditIsLost, syncVars
<1>4. \A k \in Cards : result'[k] = "updated" => shown'[k] = "closed"
  BY DEF CardInv, CardTypeOK, EditIsLost
<1>5. \A k \in Cards : AskedFor(k) /\ k # card => AskedFor(k)'
  BY DEF EditIsLost, AskedFor, ToCome, CardsOf, syncVars
<1>6. ClosingInv'
  BY <1>2, <1>5 DEF CardInv, ClosingInv, WillAsk, EditIsLost
<1> QED
  BY <1>1, <1>3, <1>4, <1>6, SyncStays DEF CardInv, EditIsLost, syncVars

(* When a pass ends, what is to come stays to come. *)
LEMMA EndPassCloses ==
  ASSUME CardInv, EndPass
  PROVE  CardInv'
<1>1. CoverInv'
  BY EndFirstPassKeeps, EndBatchKeeps DEF CardInv, EndPass
<1>2. ToCome \subseteq ToCome'
  BY NoWorkCovers DEF EndPass, EndFirstPass, EndBatch, ToCome, CardsOf
<1>3. \A u \in Updates : syncPc[u] = "late" =>
        syncPc'[u] = "late" /\ CardsOf(syncWork[u])' = CardsOf(syncWork[u])
  BY DEF EndPass, EndFirstPass, EndBatch, CardsOf, CardInv, CoverInv, SyncTypeOK
<1>4. \A card \in Cards : AskedFor(card) => AskedFor(card)'
  BY <1>2, <1>3 DEF AskedFor, EndPass
<1>5. CardTypeOK' /\ SentInv'
  BY DEF CardInv, CardTypeOK, SentInv, Owed, EndPass, EndFirstPass, EndBatch, cardVars
<1>6. ClosingInv'
  BY <1>4 DEF CardInv, ClosingInv, Owed, WillAsk, EndPass, cardVars
<1> QED
  BY <1>1, <1>5, <1>6 DEF CardInv, EndPass, cardVars

LEMMA AskLateCloses ==
  ASSUME CardInv, NEW u \in Updates, AskLate(u)
  PROVE  CardInv'
<1>1. /\ syncWork \in [Updates -> SyncWorks]
      /\ syncWork' = [syncWork EXCEPT ![u] = syncWork[u]]
  BY DEF AskLate, AskAgain, CardInv, CoverInv, SyncTypeOK
<1>2. \A card : AskedFor(card) => AskedFor(card)'
  BY <1>1, JoinAsks DEF AskLate, AskAgain, CardInv, cardVars
<1>3. CoverInv'
  BY AskAgainKeeps DEF CardInv, AskLate
<1>4. CardTypeOK' /\ SentInv'
  BY DEF CardInv, CardTypeOK, SentInv, Owed, AskLate, AskAgain, cardVars
<1>5. ClosingInv'
  BY <1>2 DEF CardInv, ClosingInv, Owed, WillAsk, AskLate, cardVars
<1>6. editing' # {} => batch'.phase \in {"first", "trailing"}
  <2>1. batch.phase \in {"first", "trailing"} => batch # NoBatch /\ batch'.phase = batch.phase
    BY DEF AskLate, AskAgain, Join, CardInv, CoverInv, SyncTypeOK, NoBatch
  <2> QED
    BY <2>1 DEF CardInv, AskLate, cardVars
<1> QED
  BY <1>3, <1>4, <1>5, <1>6 DEF CardInv, AskLate, cardVars

(* Whatever becomes of the sends, the clicks and the passes, an open card of a
   decided approval is asked for or about to be. *)
THEOREM CardsInvariant == CardSpec => []CardInv
<1>1. SyncInit /\ storedCards = {} /\ CardInit => CardInv
  <2> SUFFICES ASSUME SyncInit, storedCards = {}, CardInit
               PROVE  CardInv
    OBVIOUS
  <2>1. CoverInv
    BY NoWorkCovers DEF SyncInit, CoverInv, SyncTypeOK, NoBatch, Phases
  <2> QED
    BY <2>1 DEF CardInit, CardInv, CardTypeOK, SentInv, Owed, ClosingInv
<1>2. CardInv /\ [CardNext]_<<syncVars, cardVars>> => CardInv'
  <2> SUFFICES ASSUME CardInv, [CardNext]_<<syncVars, cardVars>>
               PROVE  CardInv'
    OBVIOUS
  <2>1. CASE UNCHANGED <<syncVars, cardVars>>
    <3>1. CoverInv' /\ \A card \in Cards : AskedFor(card) => AskedFor(card)'
      BY <2>1, SyncStays DEF CardInv, cardVars
    <3> QED
      BY <2>1, <3>1 DEF CardInv, CardTypeOK, SentInv, Owed, ClosingInv, WillAsk, syncVars, cardVars
  <2>2. CASE CardNext
    BY <2>2, NotifyCloses, DecideCloses, SendCardCloses, ClickCloses, SendFailsCloses,
       RecordFailsCloses, RecordCardCloses, RecordedCloses, RereadCloses, RereadFailsCloses,
       AskStoredCloses, AskClickedCloses, AskLateCloses, BeginPassCloses, EndPassCloses,
       EditCardCloses, EditIsLostCloses DEF CardNext
  <2> QED
    BY <2>1, <2>2
<1> QED
  BY <1>1, <1>2, PTL DEF CardSpec

(* No chat of a decided approval keeps its buttons for want of a pass, although
   sends, recordings and the decision overtake each other. *)
THEOREM DecidedAreClosed == CardSpec => []DecidedCardsClose
<1>1. CardInv => DecidedCardsClose
  <2> SUFFICES ASSUME CardInv, NEW card \in Cards, decided, AtRest, shown[card] = "open",
                      card \notin forsaken
               PROVE  result[card] = "failed"
    BY DEF CardInv, DecidedCardsClose
  <2>1. ~\E u \in Updates : WillAsk(u)
    BY DEF AtRest, WillAsk
  <2>2. ~AskedFor(card)
    BY DEF AtRest, AskedFor, ToCome, NoBatch, CardInv
  <2> QED
    BY <2>1, <2>2 DEF CardInv, ClosingInv, Owed
<1> QED
  BY <1>1, CardsInvariant, PTL

-----------------------------------------------------------------------------
(* The signing keys: a withdrawn key lapses.  The answer of a fetch was
   published when the fetch had begun, which bounds the age of the key in
   the cache by the longest fetch, and the age at which it is used by the
   life of the cache. *)

(* Times lie in the past, and the key published has not been withdrawn. *)
ClockInv ==
  /\ \A k \in Keys : k >= published => retiredAt[k] = 0
  /\ \A k \in Keys : retiredAt[k] <= keyClock
  /\ \A r \in Bearers : decidedAt[r] <= keyClock
  /\ \A r \in Bearers : reqPc[r] # "new" => reqKey[r] \in Keys

FetchInv ==
  keyFetch # NoFetch =>
    /\ 0 < keyFetch.began /\ keyFetch.began <= keyClock
    /\ keyClock <= keyFetch.began + FetchTime
    /\ keyFetch.answer # 0 /\ retiredAt[keyFetch.answer] # 0 =>
         keyFetch.began <= retiredAt[keyFetch.answer]

CacheInv ==
  /\ keyCache.fetchedAt <= keyClock
  /\ keyCache.key # 0 /\ retiredAt[keyCache.key] # 0 =>
       keyCache.fetchedAt <= retiredAt[keyCache.key] + FetchTime

KeysInv == KeyTypeOK /\ ClockInv /\ FetchInv /\ CacheInv /\ WithdrawnKeysLapse

---------------------------------------------------------------------------
(* A request that finds the cache fresh is decided in time. *)
LEMMA FreshIsInTime ==
  ASSUME KeysInv, NEW r \in Bearers, NEW key \in Keys, Authenticate(r, key)
  PROVE  KeysInv'
PROOF
<1>. USE KeyTimes DEF KeysInv, Keys
<1>1. KeyTypeOK'
  BY DEF KeyTypeOK, Authenticate, Conclude, Verdict
<1>2. ClockInv'
  <2>1. /\ UNCHANGED <<keyClock, published, retiredAt>>
        /\ decidedAt' = [decidedAt EXCEPT ![r] = keyClock]
        /\ reqKey' = [reqKey EXCEPT ![r] = key]
        /\ \A q \in Bearers \ {r} : reqPc'[q] = reqPc[q]
    BY DEF KeyTypeOK, Authenticate, Conclude
  <2>2. keyClock \in Int
    BY DEF KeyTypeOK
  <2>3. \A q \in Bearers : decidedAt'[q] <= keyClock'
    BY <2>1, <2>2 DEF KeyTypeOK, ClockInv
  <2>4. \A q \in Bearers : reqPc'[q] # "new" => reqKey'[q] \in Keys
    BY <2>1 DEF KeyTypeOK, ClockInv
  <2>. QED  BY <2>1, <2>3, <2>4 DEF ClockInv
<1>3. FetchInv' /\ CacheInv'
  BY DEF FetchInv, CacheInv, Authenticate, Conclude
<1>4. WithdrawnKeysLapse'
  <2>. SUFFICES ASSUME NEW q \in Bearers, reqPc'[q] = "accepted",
                       retiredAt[reqKey'[q]] # 0
                PROVE  decidedAt'[q] < retiredAt[reqKey'[q]] + CacheTime + FetchTime
    BY DEF WithdrawnKeysLapse, Authenticate
  <2>1. CASE q = r
    <3>1. keyCache.key = key /\ reqKey'[q] = key /\ decidedAt'[q] = keyClock
      BY <2>1 DEF KeyTypeOK, Authenticate, Conclude, Verdict
    <3>2. keyClock - keyCache.fetchedAt < CacheTime
      BY DEF Authenticate, Cached
    <3>3. keyClock \in Nat /\ keyCache.fetchedAt \in Nat
      BY DEF KeyTypeOK
    <3>4. key # 0 /\ retiredAt[key] \in Nat
      BY DEF KeyTypeOK
    <3>5. retiredAt' = retiredAt
      BY DEF Authenticate
    <3>6. keyCache.fetchedAt <= retiredAt[key] + FetchTime
      BY <3>1, <3>4, <3>5 DEF CacheInv
    <3>. HIDE DEF KeysInv, Keys
    <3>. QED  BY <3>1, <3>2, <3>3, <3>4, <3>5, <3>6
  <2>2. CASE q # r
    BY <2>2 DEF KeyTypeOK, WithdrawnKeysLapse, Authenticate, Conclude
  <2>. QED  BY <2>1, <2>2
<1>. QED  BY <1>1, <1>2, <1>3, <1>4

(* To wait for a fetch decides nothing. *)
LEMMA WaitingIsHarmless ==
  ASSUME KeysInv, NEW r \in Bearers, NEW key \in Keys,
         AwaitUnknown(r, key) \/ AwaitKeys(r, key)
  PROVE  KeysInv'
PROOF
<1>. USE KeyTimes DEF KeysInv, Keys
<1>. DEFINE Unmoved == UNCHANGED <<keyClock, published, retiredAt, keyCache, decidedAt>>
<1>1. /\ Unmoved /\ reqPc[r] = "new"
      /\ reqPc' = [reqPc EXCEPT ![r] = "waiting"] /\ reqKey' = [reqKey EXCEPT ![r] = key]
      /\ keyFetch' = IF keyFetch = NoFetch THEN [began |-> keyClock, answer |-> 0]
                     ELSE keyFetch
      /\ refreshedAt' \in {refreshedAt, keyClock}
  BY DEF AwaitUnknown, AwaitKeys, AwaitFetch, Arrives
<1>2. KeyTypeOK'
  <2>1. keyFetch' \in [began : 0..MaxClock, answer : 0..MaxKey]
    BY <1>1 DEF KeyTypeOK
  <2>2. /\ reqPc' \in [Bearers -> {"new", "waiting", "accepted", "rejected"}]
        /\ reqKey' \in [Bearers -> 0..MaxKey]
    BY <1>1 DEF KeyTypeOK
  <2>3. refreshedAt' \in 0..MaxClock
    BY <1>1 DEF KeyTypeOK
  <2>. QED  BY <1>1, <2>1, <2>2, <2>3 DEF KeyTypeOK
<1>3. ClockInv'
  BY <1>1 DEF KeyTypeOK, ClockInv
<1>4. FetchInv'
  BY <1>1 DEF KeyTypeOK, FetchInv
<1>5. CacheInv' /\ WithdrawnKeysLapse'
  BY <1>1 DEF KeyTypeOK, CacheInv, WithdrawnKeysLapse
<1>. QED  BY <1>2, <1>3, <1>4, <1>5

(* The provider answers with a key it has not withdrawn. *)
LEMMA AnswersAreCurrent ==
  ASSUME KeysInv, AnswerFetch
  PROVE  KeysInv'
PROOF
<1>. USE KeyTimes DEF KeysInv, Keys
<1>1. KeyTypeOK'
  BY DEF KeyTypeOK, AnswerFetch
<1>2. ClockInv' /\ CacheInv' /\ WithdrawnKeysLapse'
  BY DEF ClockInv, CacheInv, WithdrawnKeysLapse, AnswerFetch
<1>3. FetchInv'
  <2>1. /\ keyFetch # NoFetch /\ keyFetch'.began = keyFetch.began
        /\ keyFetch'.answer = published
        /\ UNCHANGED <<keyClock, retiredAt>>
    BY DEF KeyTypeOK, AnswerFetch
  <2>2. retiredAt[published] = 0
    BY DEF KeyTypeOK, ClockInv
  <2>. QED  BY <2>1, <2>2 DEF FetchInv
<1>. QED  BY <1>1, <1>2, <1>3

(* What arrives was published less than a fetch ago. *)
LEMMA ArrivalIsInTime ==
  ASSUME KeysInv, FetchArrives
  PROVE  KeysInv'
PROOF
<1>. USE KeyTimes DEF KeysInv, Keys
<1>1. KeyTypeOK'
  BY DEF KeyTypeOK, FetchArrives, NoFetch, Verdict
<1>2. ClockInv'
  BY DEF KeyTypeOK, ClockInv, FetchArrives, Verdict, Awaiting
<1>3. retiredAt[keyFetch.answer] # 0 =>
        keyClock <= retiredAt[keyFetch.answer] + FetchTime
  BY DEF KeyTypeOK, FetchInv, FetchArrives, NoFetch
<1>4. FetchInv' /\ CacheInv'
  BY <1>3 DEF KeyTypeOK, FetchInv, CacheInv, FetchArrives
<1>5. WithdrawnKeysLapse'
  <2>. SUFFICES ASSUME NEW q \in Bearers, reqPc'[q] = "accepted",
                       retiredAt[reqKey[q]] # 0
                PROVE  decidedAt'[q] < retiredAt[reqKey[q]] + CacheTime + FetchTime
    BY DEF WithdrawnKeysLapse, FetchArrives
  <2>1. CASE q \in Awaiting
    <3>1. reqKey[q] = keyFetch.answer /\ decidedAt'[q] = keyClock
      BY <2>1 DEF KeyTypeOK, FetchArrives, Verdict
    <3>2. keyFetch.answer \in Keys
      BY DEF KeyTypeOK, FetchArrives
    <3>. QED  BY <1>3, <3>1, <3>2 DEF KeyTypeOK
  <2>2. CASE q \notin Awaiting
    BY <2>2 DEF WithdrawnKeysLapse, FetchArrives
  <2>. QED  BY <2>1, <2>2
<1>. QED  BY <1>1, <1>2, <1>4, <1>5

(* A failure accepts nobody, a rotation withdraws a key now, and time passes
   only within the timeout of a fetch. *)
LEMMA EnvironmentIsHarmless ==
  ASSUME KeysInv, FetchFails \/ Rotate \/ PassTime
  PROVE  KeysInv'
PROOF
<1>. USE KeyTimes DEF KeysInv, Keys
<1>1. CASE FetchFails
  <2>1. KeyTypeOK'
    BY <1>1 DEF KeyTypeOK, FetchFails, NoFetch
  <2>2. ClockInv'
    BY <1>1 DEF KeyTypeOK, ClockInv, FetchFails, Awaiting
  <2>3. FetchInv' /\ CacheInv'
    BY <1>1 DEF KeyTypeOK, FetchInv, CacheInv, FetchFails
  <2>4. WithdrawnKeysLapse'
    BY <1>1 DEF WithdrawnKeysLapse, FetchFails
  <2>. QED  BY <2>1, <2>2, <2>3, <2>4
<1>2. CASE Rotate
  <2>1. KeyTypeOK'
    BY <1>2 DEF KeyTypeOK, Rotate
  <2>2. ClockInv'
    BY <1>2 DEF KeyTypeOK, ClockInv, Rotate
  <2>3. FetchInv'
    BY <1>2 DEF KeyTypeOK, FetchInv, Rotate, NoFetch
  <2>4. CacheInv'
    BY <1>2 DEF KeyTypeOK, CacheInv, Rotate
  <2>5. WithdrawnKeysLapse'
    BY <1>2 DEF KeyTypeOK, ClockInv, WithdrawnKeysLapse, Rotate
  <2>. QED  BY <2>1, <2>2, <2>3, <2>4, <2>5
<1>3. CASE PassTime
  <2>1. KeyTypeOK'
    BY <1>3 DEF KeyTypeOK, PassTime
  <2>2. ClockInv'
    BY <1>3 DEF KeyTypeOK, ClockInv, PassTime
  <2>3. FetchInv'
    BY <1>3 DEF KeyTypeOK, FetchInv, PassTime
  <2>4. CacheInv' /\ WithdrawnKeysLapse'
    BY <1>3 DEF KeyTypeOK, CacheInv, WithdrawnKeysLapse, PassTime
  <2>. QED  BY <2>1, <2>2, <2>3, <2>4
<1>. QED  BY <1>1, <1>2, <1>3

(* The invariant is inductive. *)
THEOREM KeysInvariant == KeysSpec => []KeysInv
PROOF
<1>1. KeyInit => KeysInv
  BY KeyTimes DEF KeyInit, KeysInv, KeyTypeOK, ClockInv, FetchInv, CacheInv,
                  WithdrawnKeysLapse, NoFetch, Keys
<1>2. KeysInv /\ [KeysNext]_keyVars => KeysInv'
  <2>. SUFFICES ASSUME KeysInv, [KeysNext]_keyVars PROVE KeysInv'
    OBVIOUS
  <2>1. ASSUME NEW r \in Bearers, NEW key \in 1..published,
               Authenticate(r, key) \/ AwaitUnknown(r, key) \/ AwaitKeys(r, key)
        PROVE  KeysInv'
    <3>1. key \in Keys
      BY KeyTimes DEF KeysInv, KeyTypeOK, Keys
    <3>. QED  BY <2>1, <3>1, FreshIsInTime, WaitingIsHarmless
  <2>2. CASE AnswerFetch \/ FetchArrives \/ FetchFails \/ Rotate \/ PassTime
    BY <2>2, AnswersAreCurrent, ArrivalIsInTime, EnvironmentIsHarmless
  <2>3. CASE UNCHANGED keyVars
    BY <2>3 DEF keyVars, KeysInv, KeyTypeOK, ClockInv, FetchInv, CacheInv,
                WithdrawnKeysLapse
  <2>. QED  BY <2>1, <2>2, <2>3 DEF KeysNext
<1>. QED  BY <1>1, <1>2, PTL DEF KeysSpec

(* A key that the provider withdrew is trusted for a bounded time. *)
THEOREM WithdrawnKeysAreRefused == KeysSpec => []WithdrawnKeysLapse
PROOF
<1>1. KeysInv => WithdrawnKeysLapse
  BY DEF KeysInv
<1>. QED  BY <1>1, KeysInvariant, PTL

-----------------------------------------------------------------------------
(* Policy evaluation: what an evaluation selects and why, and that an action
   nobody changed is decided as it was at submission. *)

(* What the evaluations of an action nobody changed select. *)
SaidAtFirst == Said(AmountFact(polCall, polCall.original))

(* A rule of each pattern at most. *)
RulesInv ==
  /\ polTools \in Seq(ToolRules)
  /\ \A i, j \in DOMAIN polTools : polTools[i].pattern = polTools[j].pattern => i = j

(* A pattern considered in vain. *)
Missed(pattern) == \E i \in EntryOf(pattern) : ~Matches(polTools[i], Fact)

(* Until an evaluation has selected a rule, the conditions of those it has
   considered fail. *)
SearchInv ==
  /\ polPc = "exact" => polTrace = <<>> /\ polAt = 1
  /\ polPc = "wildcard" =>
       /\ polTrace \in Seq(Patterns) /\ polAt \in Nat \ {0}
       /\ \A i \in EntryOf("a.b.c") : ~Matches(polTools[i], Fact)
       /\ \A i \in DOMAIN polTools :
            i < polAt /\ polTools[i].pattern \in Wildcards => ~Matches(polTools[i], Fact)
       /\ \A k \in DOMAIN polTrace : Missed(polTrace[k])

(* What an evaluation is asked to evaluate, and what became of the first. *)
RecordInv ==
  /\ polPass \in Passes /\ DOMAIN polResult = Passes
  /\ polPc \in {"exact", "wildcard", "evaluated"} =>
       /\ polPass \in {"submission", "original"} => polInput = polCall.original
       /\ polPass = "dispatch" => polInput = polVoted
  /\ \/ polPc \in {"pending", "allowed", "authorized", "dispatched", "failed"}
     \/ polPass # "submission" /\ polPc # "denied"
     => polResult["submission"] = SaidAtFirst /\ StoredDecision # "deny"

SearchedInv == RulesInv /\ SearchInv /\ EvaluationIsExplained
PolicyInv == SearchedInv /\ RecordInv /\ UnchangedActionIsDecidedAlike

(* The rule of the exact name is selected when its conditions hold. *)
LEMMA ExactIsSelected ==
  ASSUME RulesInv, NEW amount, NEW i \in EntryOf("a.b.c"), Matches(polTools[i], amount)
  PROVE  Said(amount) = [rule |-> "a.b.c", decision |-> DecisionFor(polTools[i].approval)]
<1>1. i \in DOMAIN polTools /\ polTools[i].pattern = "a.b.c"
  BY DEF EntryOf
<1>2. {j \in DOMAIN polTools : Matches(polTools[j], amount)} \cap EntryOf("a.b.c") = {i}
  BY <1>1 DEF EntryOf, RulesInv
<1>3. (CHOOSE j \in {i} : TRUE) = i
  OBVIOUS
<1>. QED  BY <1>1, <1>2, <1>3 DEF Said

(* Otherwise it is the first wildcard whose conditions hold. *)
LEMMA WildcardIsSelected ==
  ASSUME RulesInv, NEW amount,
         \A j \in EntryOf("a.b.c") : ~Matches(polTools[j], amount),
         NEW i \in DOMAIN polTools, polTools[i].pattern \in Wildcards,
         Matches(polTools[i], amount),
         \A j \in DOMAIN polTools :
           j < i /\ polTools[j].pattern \in Wildcards => ~Matches(polTools[j], amount)
  PROVE  Said(amount) = [rule |-> polTools[i].pattern,
                         decision |-> DecisionFor(polTools[i].approval)]
<1>. DEFINE holding == {j \in DOMAIN polTools : Matches(polTools[j], amount)}
            wild == {j \in holding : polTools[j].pattern \in Wildcards}
<1>1. holding \cap EntryOf("a.b.c") = {}
  OBVIOUS
<1>2. i \in wild /\ wild \subseteq DOMAIN polTools /\ DOMAIN polTools \subseteq Nat
  BY DEF RulesInv
<1>3. \A j \in wild : i <= j
  BY <1>2
<1>4. \A j \in wild : (\A k \in wild : j <= k) => j = i
  BY <1>2, <1>3
<1>5. (CHOOSE j \in wild : \A k \in wild : j <= k) = i
  <2>. HIDE DEF wild
  <2>. QED  BY <1>2, <1>3, <1>4
<1>. QED  BY <1>1, <1>2, <1>5 DEF Said

(* Otherwise the default decides. *)
LEMMA DefaultIsSelected ==
  ASSUME NEW amount,
         \A j \in EntryOf("a.b.c") : ~Matches(polTools[j], amount),
         \A j \in DOMAIN polTools :
           polTools[j].pattern \in Wildcards => ~Matches(polTools[j], amount)
  PROVE  Said(amount) = [rule |-> "default", decision |-> DecisionFor(polDefault)]
BY DEF Said

(* What a policy says changes with the policy only. *)
LEMMA SaidStays ==
  ASSUME polTools' = polTools, polDefault' = polDefault
  PROVE  /\ \A amount : Said(amount)' = Said(amount)
         /\ RulesInv => RulesInv'
         /\ \A pattern : EntryOf(pattern)' = EntryOf(pattern)
BY DEF Said, RulesInv, EntryOf

(* The exact rule is considered. *)
LEMMA ConsiderExactKeeps ==
  ASSUME SearchedInv, RecordInv, ConsiderExact
  PROVE  SearchedInv'
<1>. USE DEF SearchedInv
<1>1. RulesInv' /\ Fact' = Fact /\ polTools' = polTools /\ polTrace = <<>> /\ polAt = 1
  BY SaidStays DEF ConsiderExact, SearchInv, Fact
<1>2. CASE EntryOf("a.b.c") = {}
  <2>1. polPc' = "wildcard" /\ polTrace' = <<>> /\ polAt' = 1
    BY <1>1, <1>2 DEF ConsiderExact
  <2>2. EntryOf("a.b.c")' = {}
    BY <1>1, <1>2 DEF EntryOf
  <2>3. \A i \in DOMAIN polTools' : ~(i < 1)
    BY <1>1 DEF RulesInv
  <2>4. SearchInv'
    BY <2>1, <2>2, <2>3 DEF SearchInv
  <2>. QED  BY <1>1, <2>1, <2>4 DEF EvaluationIsExplained
<1>3. CASE EntryOf("a.b.c") # {}
  <2>1. PICK i \in EntryOf("a.b.c") :
          /\ polTrace' = <<"a.b.c">>
          /\ IF Matches(polTools[i], Fact)
             THEN Select("a.b.c", polTools[i].approval)
             ELSE polPc' = "wildcard" /\ UNCHANGED polResult
    BY <1>3 DEF ConsiderExact
  <2>2. /\ i \in DOMAIN polTools /\ polTools[i].pattern = "a.b.c"
        /\ EntryOf("a.b.c") = {i} /\ EntryOf("a.b.c")' = {i}
    BY <1>1 DEF EntryOf, RulesInv
  <2>3. polTrace' \in Seq(Patterns) /\ polTrace'[1] = "a.b.c"
        /\ DOMAIN polTrace' = {1} /\ Len(polTrace') = 1
    BY <2>1 DEF Patterns
  <2>4. CASE Matches(polTools[i], Fact)
    <3>1. /\ polPc' = "evaluated" /\ polPass' = polPass
          /\ polResult'[polPass'] = [rule |-> "a.b.c",
                                     decision |-> DecisionFor(polTools[i].approval)]
      BY <2>1, <2>4 DEF ConsiderExact, Select, RecordInv
    <3>2. polResult'[polPass'] = Said(Fact)'
      BY <1>1, <2>4, <3>1, ExactIsSelected, SaidStays DEF ConsiderExact
    <3>3. Matches(polTools[i], Fact)'
      BY <1>1, <2>4 DEF Matches
    <3>4. EvaluationIsExplained'
      BY <1>1, <2>2, <2>3, <3>1, <3>2, <3>3 DEF EvaluationIsExplained
    <3>5. SearchInv'
      BY <3>1 DEF SearchInv
    <3>. QED  BY <1>1, <3>4, <3>5
  <2>5. CASE ~Matches(polTools[i], Fact)
    <3>1. polPc' = "wildcard" /\ polAt' = 1
      BY <1>1, <2>1, <2>5 DEF ConsiderExact
    <3>2. ~Matches(polTools[i], Fact)'
      BY <1>1, <2>5 DEF Matches
    <3>3. Missed("a.b.c")'
      BY <2>2, <3>2 DEF Missed
    <3>4. \A j \in DOMAIN polTools' : ~(j < 1)
      BY <1>1 DEF RulesInv
    <3>5. SearchInv'
      BY <2>2, <2>3, <3>1, <3>2, <3>3, <3>4 DEF SearchInv
    <3>. QED  BY <1>1, <3>1, <3>5 DEF EvaluationIsExplained
  <2>. QED  BY <2>4, <2>5
<1>. QED  BY <1>2, <1>3

(* One entry of policy.tools is considered, if it is a wildcard. *)
LEMMA ConsiderEntryKeeps ==
  ASSUME SearchedInv, RecordInv, ConsiderEntry
  PROVE  SearchedInv'
<1>. USE DEF SearchedInv
<1>1. /\ RulesInv' /\ Fact' = Fact /\ polTools' = polTools
      /\ \A pattern : EntryOf(pattern)' = EntryOf(pattern)
  BY SaidStays DEF ConsiderEntry, Fact
<1>2. \A i : Matches(polTools[i], Fact)' <=> Matches(polTools[i], Fact)
  BY <1>1 DEF Matches
<1>3. /\ polPc = "wildcard" /\ polTrace \in Seq(Patterns) /\ polAt \in DOMAIN polTools
      /\ DOMAIN polTools \subseteq Nat
  BY DEF ConsiderEntry, SearchInv, RulesInv
<1>4. PICK at \in DOMAIN polTools : at = polAt
  BY <1>3
<1>5. polTools[at].pattern \in Patterns /\ polAt' = at + 1
  <2>1. polTools[at] \in ToolRules
    BY DEF RulesInv
  <2>2. polAt' = polAt + 1
    BY DEF ConsiderEntry
  <2>. QED  BY <1>4, <2>1, <2>2 DEF ToolRules
<1>6. /\ \A pattern : Missed(pattern)' <=> Missed(pattern)
      /\ \A k \in DOMAIN polTrace : Missed(polTrace[k])
  BY <1>1, <1>2, <1>3 DEF SearchInv, Missed
<1>7. at \in EntryOf(polTools[at].pattern)
  BY DEF EntryOf
<1>8. /\ \A i \in EntryOf("a.b.c")' : ~Matches(polTools[i], Fact)'
      /\ \A i \in DOMAIN polTools' :
           i < at /\ polTools'[i].pattern \in Wildcards => ~Matches(polTools[i], Fact)'
  BY <1>1, <1>2, <1>3, <1>4 DEF SearchInv
<1>9. CASE polTools[at].pattern \in Wildcards
  <2>1. /\ polTrace' = Append(polTrace, polTools[at].pattern)
        /\ polTrace' \in Seq(Patterns)
        /\ DOMAIN polTrace' = 1..Len(polTrace') /\ Len(polTrace') = Len(polTrace) + 1
        /\ Len(polTrace') \in DOMAIN polTrace'
        /\ polTrace'[Len(polTrace')] = polTools[at].pattern
        /\ \A k \in DOMAIN polTrace' :
             k # Len(polTrace') => k \in DOMAIN polTrace /\ polTrace'[k] = polTrace[k]
    BY <1>3, <1>4, <1>5, <1>9 DEF ConsiderEntry
  <2>2. CASE Matches(polTools[at], Fact)
    <3>1. /\ polPc' = "evaluated" /\ polPass' = polPass
          /\ polResult'[polPass'] = [rule |-> polTools[at].pattern,
                                     decision |-> DecisionFor(polTools[at].approval)]
      BY <1>4, <1>9, <2>2 DEF ConsiderEntry, Select, RecordInv
    <3>2. Said(Fact) = [rule |-> polTools[at].pattern,
                        decision |-> DecisionFor(polTools[at].approval)]
      BY <1>3, <1>4, <1>9, <2>2, WildcardIsSelected DEF SearchInv
    <3>3. polResult'[polPass'] = Said(Fact)'
      BY <1>1, <3>1, <3>2, SaidStays DEF ConsiderEntry
    <3>4. \A k \in DOMAIN polTrace' :
             k # Len(polTrace') => Missed(polTrace'[k])
      BY <1>6, <2>1
    <3>5. ASSUME NEW k \in DOMAIN polTrace'
          PROVE  \E i \in EntryOf(polTrace'[k]) :
                   Matches(polTools[i], Fact)
                     <=> k = Len(polTrace') /\ polResult'[polPass'].rule = polTrace'[k]
      <4>1. CASE k = Len(polTrace')
        BY <1>7, <2>1, <2>2, <3>1, <4>1
      <4>2. CASE k # Len(polTrace')
        BY <3>4, <4>2 DEF Missed
      <4>. QED  BY <4>1, <4>2
    <3>6. EvaluationIsExplained'
      BY <1>1, <1>2, <3>3, <3>5 DEF EvaluationIsExplained
    <3>. QED  BY <1>1, <3>1, <3>6 DEF SearchInv
  <2>3. CASE ~Matches(polTools[at], Fact)
    <3>1. polPc' = "wildcard"
      BY <1>3, <1>4, <2>3 DEF ConsiderEntry
    <3>2. Missed(polTools[at].pattern)
      BY <1>7, <2>3 DEF Missed
    <3>3. \A k \in DOMAIN polTrace' : Missed(polTrace'[k])
      BY <1>6, <2>1, <3>2
    <3>4. \A i \in DOMAIN polTools' :
             i < polAt' /\ polTools'[i].pattern \in Wildcards => ~Matches(polTools[i], Fact)'
      BY <1>1, <1>2, <1>3, <1>5, <1>8, <2>3
    <3>5. SearchInv'
      <4>1. \A k \in DOMAIN polTrace' : Missed(polTrace[k])'
        BY <1>1, <1>2, <3>3 DEF Missed
      <4>. QED  BY <1>3, <1>5, <1>8, <2>1, <3>1, <3>4, <4>1 DEF SearchInv
    <3>. QED  BY <1>1, <3>1, <3>5 DEF EvaluationIsExplained
  <2>. QED  BY <2>2, <2>3
<1>10. CASE polTools[at].pattern \notin Wildcards
  <2>1. polTrace' = polTrace /\ polPc' = "wildcard"
    BY <1>3, <1>4, <1>10 DEF ConsiderEntry
  <2>2. \A i \in DOMAIN polTools' :
           i < polAt' /\ polTools'[i].pattern \in Wildcards => ~Matches(polTools[i], Fact)'
    BY <1>1, <1>3, <1>5, <1>8, <1>10
  <2>3. \A k \in DOMAIN polTrace' : Missed(polTrace[k])'
    BY <1>1, <1>2, <1>6, <2>1 DEF Missed
  <2>4. SearchInv'
    BY <1>3, <1>5, <1>8, <2>1, <2>2, <2>3 DEF SearchInv
  <2>. QED  BY <1>1, <2>1, <2>4 DEF EvaluationIsExplained
<1>. QED  BY <1>9, <1>10

(* No entry is left, and none was selected. *)
LEMMA TakeDefaultKeeps ==
  ASSUME SearchedInv, RecordInv, TakeDefault
  PROVE  SearchedInv'
<1>. USE DEF SearchedInv
<1>1. /\ RulesInv' /\ Fact' = Fact /\ polTools' = polTools /\ polTrace' = polTrace
      /\ \A pattern : EntryOf(pattern)' = EntryOf(pattern)
  BY SaidStays DEF TakeDefault, Fact
<1>2. \A i : Matches(polTools[i], Fact)' <=> Matches(polTools[i], Fact)
  BY <1>1 DEF Matches
<1>3. /\ polPc' = "evaluated" /\ polPass' = polPass
      /\ polResult'[polPass'] = [rule |-> "default", decision |-> DecisionFor(polDefault)]
  BY DEF TakeDefault, Select, RecordInv
<1>4. \A i \in DOMAIN polTools : i < polAt
  BY DEF TakeDefault, SearchInv, RulesInv
<1>5. Said(Fact) = [rule |-> "default", decision |-> DecisionFor(polDefault)]
  BY <1>4, DefaultIsSelected DEF TakeDefault, SearchInv
<1>6. polResult'[polPass'] = Said(Fact)'
  BY <1>1, <1>3, <1>5, SaidStays DEF TakeDefault
<1>7. \A k \in DOMAIN polTrace' : Missed(polTrace[k]) /\ polTrace'[k] # "default"
  BY <1>1 DEF TakeDefault, SearchInv, Patterns, Wildcards
<1>8. EvaluationIsExplained'
  BY <1>1, <1>2, <1>3, <1>6, <1>7 DEF EvaluationIsExplained, Missed
<1>. QED  BY <1>1, <1>3, <1>8 DEF SearchInv

(* The steps that end an evaluation, begin another one or have it fail. *)
LEMMA SearchEndsOrBegins ==
  ASSUME SearchedInv, RecordInv,
         UNCHANGED <<polTools, polDefault, polCall>>,
         \/ polPc' = "exact" /\ polTrace' = <<>> /\ polAt' = 1
         \/ polPc' = "evaluated" /\ polResult'[polPass'] = FailureResult
         \/ polPc' \notin {"exact", "wildcard", "evaluated"}
  PROVE  SearchedInv'
BY SaidStays DEF SearchedInv, SearchInv, EvaluationIsExplained

---------------------------------------------------------------------------
(* The steps of an evaluation leave what was asked, and what the first one
   selected once that has ended. *)
LEMMA EvaluationKeepsRecord ==
  ASSUME PolicyInv, ConsiderExact \/ ConsiderEntry \/ TakeDefault \/ ProviderFails,
         SearchedInv'
  PROVE  RecordInv' /\ UnchangedActionIsDecidedAlike'
<1>. USE DEF PolicyInv
<1>1. /\ UNCHANGED <<polTools, polDefault, polCall, polPass, polInput, polVoted>>
      /\ polPc \in {"exact", "wildcard"} /\ polPc' \in {"exact", "wildcard", "evaluated"}
      /\ \/ polResult' = polResult
         \/ \E outcome : polResult' = [polResult EXCEPT ![polPass] = outcome]
  <2>1. CASE ConsiderExact
    BY <2>1 DEF ConsiderExact, Select
  <2>2. CASE ConsiderEntry
    BY <2>2 DEF ConsiderEntry, Select
  <2>3. CASE TakeDefault \/ ProviderFails
    BY <2>3 DEF TakeDefault, ProviderFails, Select
  <2>. QED  BY <2>1, <2>2, <2>3
<1>1a. /\ DOMAIN polResult' = DOMAIN polResult
      /\ polPass # "submission" => polResult'["submission"] = polResult["submission"]
  BY <1>1 DEF RecordInv, Passes
<1>2. SaidAtFirst' = SaidAtFirst
  BY <1>1, SaidStays DEF SaidAtFirst, AmountFact, ContextAmount
<1>3. polPass # "submission" => StoredDecision' = StoredDecision
  BY <1>1a, <1>1 DEF StoredDecision, Forced
<1>4. RecordInv'
  BY <1>1a, <1>1, <1>2, <1>3 DEF RecordInv
<1>5. UnchangedActionIsDecidedAlike'
  <2>1. SUFFICES ASSUME polPc' = "evaluated", polInput' = polCall'.original,
                        polResult'["submission"] # FailureResult,
                        polResult'[polPass'] # FailureResult
                 PROVE  polResult'[polPass'] = polResult'["submission"]
    BY <1>1 DEF UnchangedActionIsDecidedAlike
  <2>2. polResult'[polPass'] = Said(Fact)'
    BY <2>1 DEF SearchedInv, EvaluationIsExplained
  <2>3. Said(Fact)' = SaidAtFirst'
    BY <2>1 DEF SaidAtFirst, Fact
  <2>4. CASE polPass # "submission"
    BY <1>1a, <1>1, <1>4, <2>2, <2>3, <2>4 DEF RecordInv
  <2>. QED  BY <1>1, <2>4
<1>. QED  BY <1>4, <1>5

(* The submission is settled: it is denied, or what it was told is what policy
   says of the original input. *)
LEMMA SettleSubmissionKeeps ==
  ASSUME PolicyInv, SettleSubmission
  PROVE  RecordInv' /\ UnchangedActionIsDecidedAlike'
<1>. USE DEF PolicyInv
<1>1. /\ UNCHANGED <<polTools, polDefault, polCall, polPass, polVoted, polResult>>
      /\ polPc = "evaluated" /\ polPass = "submission"
      /\ polPc' \in {"allowed", "denied", "pending"}
      /\ polPc' # "denied" => StoredDecision # "deny"
  BY DEF SettleSubmission, EndEvaluation
<1>2. SaidAtFirst' = SaidAtFirst /\ StoredDecision' = StoredDecision
  BY <1>1, SaidStays DEF SaidAtFirst, AmountFact, ContextAmount, StoredDecision, Forced
<1>3. polResult["submission"] = FailureResult => StoredDecision = "deny"
  BY DEF StoredDecision, Forced, FailureResult
<1>4. polPc' # "denied" => polResult["submission"] = SaidAtFirst
  <2>1. polInput = polCall.original
    BY <1>1 DEF RecordInv
  <2>2. Said(Fact) = SaidAtFirst
    BY <2>1 DEF Fact, SaidAtFirst
  <2>. QED  BY <1>1, <1>3, <2>2 DEF SearchedInv, EvaluationIsExplained
<1>5. RecordInv'
  BY <1>1, <1>2, <1>4 DEF RecordInv
<1>. QED  BY <1>1, <1>5 DEF UnchangedActionIsDecidedAlike

(* The steps between the evaluations of a vote and of the dispatch. *)
LEMMA AskingKeeps ==
  ASSUME PolicyInv,
         \/ \E input \in Amounts : VoteFor(input)
         \/ SettleOriginal \/ SettleApproved \/ Dispatch
  PROVE  RecordInv' /\ UnchangedActionIsDecidedAlike'
<1>. USE DEF PolicyInv
<1>1. /\ UNCHANGED <<polTools, polDefault, polCall>>
      /\ DOMAIN polResult' = DOMAIN polResult
      /\ polResult'["submission"] = polResult["submission"]
      /\ polPc' \in {"exact", "authorized", "pending"} /\ polPass' \in Passes
      /\ polPc \in {"pending", "allowed", "authorized"}
           \/ (polPass # "submission" /\ polPc # "denied")
      /\ polPc' = "exact" /\ polPass' \in {"submission", "original"} =>
           polInput' = polCall'.original
      /\ polPc' = "exact" /\ polPass' = "dispatch" => polInput' = polVoted'
  BY DEF VoteFor, SettleOriginal, SettleApproved, Dispatch, Evaluate, EndEvaluation,
         RecordInv, Passes
<1>2. SaidAtFirst' = SaidAtFirst /\ StoredDecision' = StoredDecision
  BY <1>1, SaidStays DEF SaidAtFirst, AmountFact, ContextAmount, StoredDecision, Forced
<1>3. RecordInv'
  BY <1>1, <1>2 DEF RecordInv
<1>. QED  BY <1>1, <1>3 DEF UnchangedActionIsDecidedAlike

(* An action nobody changed is refused before its dispatch only because the
   provider failed: what was not denied at submission is not denied now, and
   what was allowed is allowed. *)
LEMMA SettleDispatchKeeps ==
  ASSUME PolicyInv, SettleDispatch
  PROVE  RecordInv' /\ UnchangedActionIsDecidedAlike'
<1>. USE DEF PolicyInv
<1>1. /\ UNCHANGED <<polTools, polDefault, polCall, polPass, polVoted, polResult>>
      /\ polPc = "evaluated" /\ polPass = "dispatch"
      /\ polPc' \in {"failed", "dispatched"}
      /\ polPc' = "failed" =>
           \/ polResult["dispatch"].decision = "deny"
           \/ StoredDecision = "allow" /\ polResult["dispatch"].decision # "allow"
  BY DEF SettleDispatch, EndEvaluation
<1>2. SaidAtFirst' = SaidAtFirst /\ StoredDecision' = StoredDecision
  BY <1>1, SaidStays DEF SaidAtFirst, AmountFact, ContextAmount, StoredDecision, Forced
<1>3. RecordInv'
  BY <1>1, <1>2 DEF RecordInv
<1>4. ASSUME polPc' = "failed", polVoted' = polCall'.original,
             polResult["dispatch"] # FailureResult
      PROVE  FALSE
  <2>1. polInput = polCall.original
    BY <1>1, <1>4 DEF RecordInv
  <2>2. Said(Fact) = SaidAtFirst
    BY <2>1 DEF Fact, SaidAtFirst
  <2>3. polResult["dispatch"] = polResult["submission"]
    BY <1>1, <1>4, <2>2 DEF SearchedInv, EvaluationIsExplained, RecordInv
  <2>4. StoredDecision # "deny"
    BY <1>1 DEF RecordInv
  <2>. QED  BY <1>1, <1>4, <2>3, <2>4 DEF StoredDecision, Forced
<1>5. UnchangedActionIsDecidedAlike'
  BY <1>1, <1>4 DEF UnchangedActionIsDecidedAlike
<1>. QED  BY <1>3, <1>5

LEMMA PolicyStarts ==
  ASSUME PolicyInit
  PROVE  PolicyInv
<1>1. polTools \in Seq(ToolRules)
  <2>1. PICK n \in 0..MaxRules : polTools \in [1..n -> ToolRules]
    BY DEF PolicyInit, ToolLists
  <2>2. n \in Nat
    BY <2>1, PolicyAssumption
  <2>. QED  BY <2>1, <2>2
<1>2. RulesInv
  BY <1>1 DEF PolicyInit, ToolLists, RulesInv
<1>3. /\ polPc = "exact" /\ polPass = "submission" /\ polTrace = <<>> /\ polAt = 1
      /\ polInput = polCall.original /\ DOMAIN polResult = Passes
  BY DEF PolicyInit
<1>4. SearchedInv /\ RecordInv /\ UnchangedActionIsDecidedAlike
  BY <1>2, <1>3 DEF SearchedInv, SearchInv, EvaluationIsExplained, RecordInv, Passes,
                    UnchangedActionIsDecidedAlike
<1>. QED  BY <1>4 DEF PolicyInv

LEMMA PolicyInductive ==
  ASSUME PolicyInv, [PolicyNext]_polVars
  PROVE  PolicyInv'
<1>. USE DEF PolicyInv
<1>1. CASE ConsiderExact \/ ConsiderEntry \/ TakeDefault \/ ProviderFails
  <2>1. ProviderFails => SearchedInv'
    BY SearchEndsOrBegins DEF ProviderFails, RecordInv
  <2>2. SearchedInv'
    BY <1>1, <2>1, ConsiderExactKeeps, ConsiderEntryKeeps, TakeDefaultKeeps
  <2>. QED  BY <1>1, <2>2, EvaluationKeepsRecord
<1>2. CASE SettleSubmission
  <2>1. SearchedInv'
    BY <1>2, SearchEndsOrBegins DEF SettleSubmission, EndEvaluation
  <2>. QED  BY <1>2, <2>1, SettleSubmissionKeeps
<1>3. CASE \/ \E input \in Amounts : VoteFor(input)
           \/ SettleOriginal \/ SettleApproved \/ Dispatch
  <2>1. SearchedInv'
    BY <1>3, SearchEndsOrBegins
       DEF VoteFor, SettleOriginal, SettleApproved, Dispatch, Evaluate, EndEvaluation
  <2>. QED  BY <1>3, <2>1, AskingKeeps
<1>4. CASE SettleDispatch
  <2>1. SearchedInv'
    BY <1>4, SearchEndsOrBegins DEF SettleDispatch, EndEvaluation
  <2>. QED  BY <1>4, <2>1, SettleDispatchKeeps
<1>5. CASE UNCHANGED polVars
  <2>1. UNCHANGED <<polTools, polDefault, polCall, polPc, polPass, polInput, polVoted,
                    polTrace, polAt, polResult>>
    BY <1>5 DEF polVars
  <2>2. /\ \A pattern : EntryOf(pattern)' = EntryOf(pattern)
        /\ \A amount : Said(amount)' = Said(amount)
        /\ RulesInv'
    BY <2>1, SaidStays DEF SearchedInv
  <2>3. Fact' = Fact /\ SaidAtFirst' = SaidAtFirst /\ StoredDecision' = StoredDecision
    BY <2>1, <2>2 DEF Fact, AmountFact, ContextAmount, SaidAtFirst, StoredDecision, Forced
  <2>4. SearchInv'
    BY <2>1, <2>2, <2>3 DEF SearchedInv, SearchInv, Missed
  <2>5. EvaluationIsExplained'
    BY <2>1, <2>2, <2>3 DEF SearchedInv, EvaluationIsExplained, Missed
  <2>6. RecordInv'
    BY <2>1, <2>3 DEF RecordInv
  <2>7. UnchangedActionIsDecidedAlike'
    BY <2>1 DEF UnchangedActionIsDecidedAlike
  <2>. QED  BY <2>2, <2>4, <2>5, <2>6, <2>7 DEF SearchedInv
<1>. QED  BY <1>1, <1>2, <1>3, <1>4, <1>5 DEF PolicyNext

(* While an evaluation looks for its rule, every rule it has passed over has a
   condition that fails; and from the end of the first evaluation on, its
   selection is what the policy says of the original input. *)
THEOREM PolicyInvariant == PolicySpec => []PolicyInv
<1>1. PolicyInit => PolicyInv
  BY PolicyStarts
<1>2. PolicyInv /\ [PolicyNext]_polVars => PolicyInv'
  BY PolicyInductive
<1>. QED  BY <1>1, <1>2, PTL DEF PolicySpec

(* Every evaluation selects the rule that precedence gives, and its trace
   explains why, for policies of any length. *)
THEOREM EvaluationsAreExplained == PolicySpec => []EvaluationIsExplained
<1>1. PolicyInv => EvaluationIsExplained
  BY DEF PolicyInv, SearchedInv
<1>. QED  BY <1>1, PolicyInvariant, PTL

(* Policy answers alike as often as it is asked about an action nobody
   changed, from the request and from the record of it. *)
THEOREM UnchangedIsDecidedAlike == PolicySpec => []UnchangedActionIsDecidedAlike
<1>1. PolicyInv => UnchangedActionIsDecidedAlike
  BY DEF PolicyInv
<1>. QED  BY <1>1, PolicyInvariant, PTL

(* A decision is one of the four of a result. *)
LEMMA SelectedIsResult ==
  ASSUME NEW pattern \in Patterns \cup {"default"}, NEW approval
  PROVE  /\ [rule |-> pattern, decision |-> DecisionFor(approval)] \in Results
         /\ NoResult \in Results /\ FailureResult \in Results
BY DEF Results, DecisionFor, NoResult, FailureResult

(* The search for a rule keeps the types. *)
LEMMA SearchKeepsTypes ==
  ASSUME PolicyTypeOK, ConsiderExact \/ ConsiderEntry \/ TakeDefault \/ ProviderFails
  PROVE  PolicyTypeOK'
<1>1. /\ UNCHANGED <<polTools, polDefault, polCall, polPass, polInput, polVoted>>
      /\ polPc' \in {polPc, "wildcard", "evaluated"}
  BY DEF ConsiderExact, ConsiderEntry, TakeDefault, ProviderFails, Select
<1>2. \A i \in DOMAIN polTools : polTools[i].pattern \in Patterns
  <2>1. polTools \in Seq(ToolRules)
    BY DEF PolicyTypeOK
  <2>2. \A i \in DOMAIN polTools : polTools[i] \in ToolRules
    BY <2>1
  <2>3. \A rule \in ToolRules : rule.pattern \in Patterns
    BY DEF ToolRules
  <2>. QED  BY <2>2, <2>3
<1>3. \A found \in Results : [polResult EXCEPT ![polPass] = found] \in [Passes -> Results]
  BY DEF PolicyTypeOK
<1>4. \A pattern \in Patterns \cup {"default"} : \A approval :
        [rule |-> pattern, decision |-> DecisionFor(approval)] \in Results
  BY SelectedIsResult
<1>5. polAt' \in 1..(Len(polTools) + 1) /\ polTrace' \in Seq(Patterns)
  <2>1. CASE ConsiderEntry
    <3>1. polAt \in DOMAIN polTools /\ polAt' = polAt + 1
      BY <2>1 DEF ConsiderEntry, PolicyTypeOK
    <3>2. polAt' \in 1..(Len(polTools) + 1)
      BY <3>1 DEF PolicyTypeOK
    <3>3. polTrace' = polTrace \/ polTrace' = Append(polTrace, polTools[polAt].pattern)
      BY <2>1 DEF ConsiderEntry
    <3>4. polTrace \in Seq(Patterns) /\ polTools[polAt].pattern \in Patterns
      BY <1>2, <3>1 DEF PolicyTypeOK
    <3>. QED  BY <3>2, <3>3, <3>4
  <2>2. CASE ConsiderExact
    <3>1. polAt' = polAt /\ polTrace' \in {polTrace, <<"a.b.c">>}
      BY <2>2 DEF ConsiderExact
    <3>2. "a.b.c" \in Patterns
      BY DEF Patterns
    <3>3. polTrace \in Seq(Patterns) /\ polAt \in 1..(Len(polTools) + 1)
      BY DEF PolicyTypeOK
    <3>4. <<"a.b.c">> \in Seq(Patterns)
      BY <3>2
    <3>. QED  BY <3>1, <3>3, <3>4
  <2>3. CASE TakeDefault \/ ProviderFails
    BY <2>3 DEF TakeDefault, ProviderFails, PolicyTypeOK
  <2>. QED  BY <2>1, <2>2, <2>3
<1>6. polResult' \in [Passes -> Results]
  <2>1. CASE ConsiderEntry
    <3>1. polAt \in DOMAIN polTools
      BY <2>1 DEF ConsiderEntry, PolicyTypeOK
    <3>2. \/ polResult' = polResult
          \/ Select(polTools[polAt].pattern, polTools[polAt].approval)
      BY <2>1 DEF ConsiderEntry
    <3>. QED  BY <1>2, <1>3, <1>4, <3>1, <3>2 DEF Select, PolicyTypeOK
  <2>2. CASE ConsiderExact
    <3>1. \/ polResult' = polResult
          \/ \E i \in EntryOf("a.b.c") : Select("a.b.c", polTools[i].approval)
      BY <2>2 DEF ConsiderExact
    <3>. QED  BY <1>3, <1>4, <3>1 DEF Select, Patterns, PolicyTypeOK
  <2>3. CASE TakeDefault
    BY <2>3, <1>3, <1>4 DEF TakeDefault, Select
  <2>4. CASE ProviderFails
    BY <2>4, <1>3, SelectedIsResult DEF ProviderFails, Patterns
  <2>. QED  BY <2>1, <2>2, <2>3, <2>4
<1>. QED  BY <1>1, <1>5, <1>6 DEF PolicyTypeOK

(* So do the steps between two evaluations. *)
LEMMA SettlingKeepsTypes ==
  ASSUME PolicyTypeOK,
         \/ SettleSubmission \/ SettleOriginal \/ SettleApproved \/ SettleDispatch
         \/ Dispatch \/ \E input \in Amounts : VoteFor(input)
  PROVE  PolicyTypeOK'
<1>. USE DEF SettleSubmission, SettleOriginal, SettleApproved, SettleDispatch, Dispatch,
             VoteFor, Evaluate, EndEvaluation
<1>1. /\ UNCHANGED <<polTools, polDefault, polCall>>
      /\ polTrace' = <<>> /\ polAt' = 1
  OBVIOUS
<1>2. polPc' \in {"exact", "pending", "denied", "allowed", "authorized", "dispatched", "failed"}
  OBVIOUS
<1>3. polPass' \in Passes
  BY DEF PolicyTypeOK, Passes
<1>4. polVoted' \in Amounts
  BY DEF PolicyTypeOK
<1>5. polInput' \in Amounts
  BY DEF PolicyTypeOK
<1>6. polResult' \in [Passes -> Results]
  <2>1. NoResult \in Results
    BY DEF NoResult, Results
  <2>2. \/ polResult' = polResult
        \/ polResult' = [polResult EXCEPT !["original"] = NoResult, !["approved"] = NoResult]
    OBVIOUS
  <2>. QED  BY <2>1, <2>2 DEF PolicyTypeOK
<1>7. polTrace' \in Seq(Patterns) /\ polAt' \in 1..(Len(polTools') + 1)
  BY <1>1 DEF PolicyTypeOK
<1>. HIDE DEF SettleSubmission, SettleOriginal, SettleApproved, SettleDispatch, Dispatch,
              VoteFor, Evaluate, EndEvaluation
<1>. QED  BY <1>1, <1>2, <1>3, <1>4, <1>5, <1>6, <1>7 DEF PolicyTypeOK

(* Evaluations keep their types: the entry that is next is one of the policy
   or the end of it, and what is considered are patterns of its rules. *)
THEOREM PolicyTypes == PolicySpec => []PolicyTypeOK
<1>1. ASSUME PolicyInit
      PROVE  PolicyTypeOK
  <2>1. polTools \in Seq(ToolRules)
    BY <1>1, PolicyStarts DEF PolicyInv, SearchedInv, RulesInv
  <2>2. polCall \in [canonical : BOOLEAN, forced : BOOLEAN, asserted : Amounts,
                     original : Amounts, frozen : Amounts]
    BY <1>1, PolicyAssumption DEF PolicyInit
  <2>3. polInput \in Amounts /\ polVoted \in Amounts
    BY <1>1 DEF PolicyInit
  <2>4. polResult \in [Passes -> Results]
    BY <1>1 DEF PolicyInit, NoResult, Results
  <2>5. polTrace \in Seq(Patterns) /\ polAt \in 1..(Len(polTools) + 1)
    BY <1>1, <2>1 DEF PolicyInit
  <2>. QED  BY <1>1, <2>1, <2>2, <2>3, <2>4, <2>5 DEF PolicyInit, PolicyTypeOK, Passes
<1>2. PolicyTypeOK /\ [PolicyNext]_polVars => PolicyTypeOK'
  <2>1. PolicyTypeOK /\ UNCHANGED polVars => PolicyTypeOK'
    BY DEF polVars, PolicyTypeOK
  <2>. QED  BY <2>1, SearchKeepsTypes, SettlingKeepsTypes DEF PolicyNext
<1>. QED  BY <1>1, <1>2, PTL DEF PolicySpec

=============================================================================
