--------------------------- MODULE MigrationLock ----------------------------
(***************************************************************************)
(* Server processes that start over one SQLite database: each takes the    *)
(* lock file beside it, reads the ledger of migrations, applies what is    *)
(* missing, step by step, and gives the lock file up.  A process that dies *)
(* leaves its lock file to be reclaimed by the next.                       *)
(*                                                                         *)
(* A process starts once and process identifiers are not used again; a     *)
(* restart is another process.                                             *)
(***************************************************************************)
EXTENDS Naturals, Sequences

CONSTANTS
  Starters,    \* the processes
  Migrations   \* how many migrations the build knows

ASSUME MigrationsAssumption == Migrations \in Nat

NoProcess == "no process"
NoFile == [by |-> NoProcess, pid |-> NoProcess]

VARIABLES
  lockFile,    \* its creator and the process identifier it holds
  ledger,      \* positions of the applied migrations, in order of insertion
  migPc,       \* what each process is about to do
  migNext      \* the position it applies next

migVars == <<lockFile, ledger, migPc, migNext>>

Waiting == {"create", "inspect", "reclaim", "wait"}
LockHeld == {"created", "readLedger", "migrate", "release", "releaseFailed"}

MigrationTypeOK ==
  /\ lockFile \in [by : Starters \cup {NoProcess}, pid : Starters \cup {NoProcess}]
  /\ ledger \in Seq(1 .. Migrations)
  /\ migPc \in [Starters -> Waiting \cup LockHeld \cup {"running", "gone"}]
  /\ migNext \in [Starters -> 1 .. Migrations + 1]

MigrationInit ==
  /\ lockFile = NoFile
  /\ ledger = <<>>
  /\ migPc = [p \in Starters |-> "create"]
  /\ migNext = [p \in Starters |-> 1]

MigGoTo(p, pc) == migPc' = [migPc EXCEPT ![p] = pc]

(* processExists. *)
Alive(p) == migPc[p] # "gone"

(* openSync(lockPath, 'wx'). *)
CreateLock(p) ==
  /\ migPc[p] = "create"
  /\ IF lockFile = NoFile
     THEN lockFile' = [by |-> p, pid |-> NoProcess] /\ MigGoTo(p, "created")
     ELSE MigGoTo(p, "inspect") /\ UNCHANGED lockFile
  /\ UNCHANGED <<ledger, migNext>>

(* writeFileSync through the descriptor: it reaches the file p created, if
   that is still there. *)
WritePid(p) ==
  /\ migPc[p] = "created"
  /\ lockFile' = IF lockFile.by = p
                 THEN [lockFile EXCEPT !.pid = p] ELSE lockFile
  /\ MigGoTo(p, "readLedger")
  /\ UNCHANGED <<ledger, migNext>>

(* reclaimStaleSqliteMigrationLock reads the file; one that is empty does
   not parse and is not reclaimed, however old it is. *)
Reclaimable == lockFile.pid # NoProcess /\ ~Alive(lockFile.pid)

InspectLockNever(p) ==   \* mutant
  /\ migPc[p] = "inspect"
  /\ MigGoTo(p, IF lockFile = NoFile THEN "create" ELSE "wait")
  /\ UNCHANGED <<lockFile, ledger, migNext>>

InspectLock(p) ==
  /\ migPc[p] = "inspect"
  /\ MigGoTo(p, CASE lockFile = NoFile -> "create"
                  [] Reclaimable -> "reclaim"
                  [] OTHER -> "wait")
  /\ UNCHANGED <<lockFile, ledger, migNext>>

(* unlinkSync(lockPath): whichever file has that name by now. *)
Unlink == lockFile' = NoFile

ReclaimLock(p) ==
  /\ migPc[p] = "reclaim"
  /\ Unlink
  /\ MigGoTo(p, "create")
  /\ UNCHANGED <<ledger, migNext>>

(* The process tries again; or its deadline has passed, it ends, and its
   operator starts another, which has left no trace yet either. *)
RetryLock(p) ==
  /\ migPc[p] = "wait"
  /\ MigGoTo(p, "create")
  /\ UNCHANGED <<lockFile, ledger, migNext>>

(* The ledger is read once and must be a prefix of the known migrations. *)
IsPrefixOfKnown(rows) == \A i \in DOMAIN rows : rows[i] = i

ReadLedger(p) ==
  /\ migPc[p] = "readLedger"
  /\ migNext' = [migNext EXCEPT ![p] = Len(ledger) + 1]
  /\ MigGoTo(p, CASE ~IsPrefixOfKnown(ledger) -> "releaseFailed"
                  [] IsPrefixOfKnown(ledger) /\ Len(ledger) = Migrations -> "release"
                  [] OTHER -> "migrate")
  /\ UNCHANGED <<lockFile, ledger>>

(* One transaction migrates the schema and inserts into the ledger, whose
   key refuses a second insertion. *)
ApplyMigrationUnkeyed(p) ==   \* mutant
  /\ migPc[p] = "migrate"
  /\ ledger' = Append(ledger, migNext[p])
  /\ migNext' = [migNext EXCEPT ![p] = @ + 1]
  /\ MigGoTo(p, IF migNext[p] = Migrations THEN "release" ELSE "migrate")
  /\ UNCHANGED lockFile

ApplyMigration(p) ==
  /\ migPc[p] = "migrate"
  /\ IF \E i \in DOMAIN ledger : ledger[i] = migNext[p]
     THEN MigGoTo(p, "releaseFailed") /\ UNCHANGED <<ledger, migNext>>
     ELSE /\ ledger' = Append(ledger, migNext[p])
          /\ migNext' = [migNext EXCEPT ![p] = @ + 1]
          /\ MigGoTo(p, IF migNext[p] = Migrations THEN "release" ELSE "migrate")
  /\ UNCHANGED lockFile

(* sqlite3 fails or times out. *)
FailMigration(p) ==
  /\ migPc[p] \in {"readLedger", "migrate"}
  /\ MigGoTo(p, "releaseFailed")
  /\ UNCHANGED <<lockFile, ledger, migNext>>

ReleaseLock(p) ==
  /\ migPc[p] \in {"release", "releaseFailed"}
  /\ Unlink
  /\ MigGoTo(p, IF migPc[p] = "release" THEN "running" ELSE "gone")
  /\ UNCHANGED <<ledger, migNext>>

Die(p) ==
  /\ Alive(p)
  /\ MigGoTo(p, "gone")
  /\ UNCHANGED <<lockFile, ledger, migNext>>

StartUp(p) ==
  \/ CreateLock(p) \/ WritePid(p) \/ InspectLock(p) \/ ReclaimLock(p)
  \/ RetryLock(p) \/ ReadLedger(p) \/ ApplyMigration(p) \/ ReleaseLock(p)

MigrationNext ==
  \E p \in Starters : StartUp(p) \/ FailMigration(p) \/ Die(p)

(* A process that is starting goes on until it dies, and one that waited in
   vain is started again. *)
MigrationFairness == \A p \in Starters : WF_migVars(StartUp(p))

MigrationSpec == MigrationInit /\ [][MigrationNext]_migVars /\ MigrationFairness

---------------------------------------------------------------------------
(* Each migration is applied once and in order, and a server runs only over
   a migrated schema, although two processes that reclaim the same stale lock
   may both migrate: the slower one unlinks the file of the faster one, and
   then only the key of the ledger keeps them apart. *)
MigratedOnceInOrder ==
  /\ IsPrefixOfKnown(ledger)
  /\ (\E p \in Starters : migPc[p] = "running") => Len(ledger) = Migrations

(* The lock file of a dead process is reclaimed, unless nobody is left to
   want it, if the process lived to write its identifier. *)
LockIsFreed ==
  \A p \in Starters :
    (lockFile.pid = p /\ ~Alive(p))
      ~> (\/ lockFile.pid # p
          \/ \A q \in Starters : migPc[q] \in {"running", "gone"})
=============================================================================
