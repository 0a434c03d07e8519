------------------------------ MODULE MCServices ------------------------------
(***************************************************************************)
(* Components that share no state, checked in one run, each under its own  *)
(* fairness, if any: a behaviour is one of the component it works on.  The others  *)
(* stay as they began, in a state where fairness asks nothing of them.     *)
(***************************************************************************)
EXTENDS AuditChain, MigrationLock, PresentationSync, SigningKeys

VARIABLE serves   \* the component that works

NobodyStarts ==
  /\ lockFile = NoFile /\ ledger = <<>>
  /\ migPc = [p \in Starters |-> "gone"]
  /\ migNext = [p \in Starters |-> 1]

ServicesInit ==
  /\ serves \in {"audit", "migration", "presentation", "keys"}
  /\ Init /\ SyncInit /\ KeyInit
  /\ IF serves = "migration" THEN MigrationInit ELSE NobodyStarts
  /\ serves # "audit" => order = "insertion"
  /\ serves # "presentation" => storedCards = {}

ServicesNext ==
  \/ serves = "audit" /\ UNCHANGED <<serves, migVars, syncVars, keyVars>> /\ Next
  \/ serves = "migration" /\ UNCHANGED <<serves, vars, syncVars, keyVars>> /\ MigrationNext
  \/ serves = "presentation" /\ UNCHANGED <<serves, vars, migVars, keyVars>> /\ SyncNext
  \/ serves = "keys" /\ UNCHANGED <<serves, vars, migVars, syncVars>> /\ KeysNext

ServicesSpec ==
  /\ ServicesInit /\ [][ServicesNext]_<<serves, vars, migVars, syncVars, keyVars>>
  /\ WF_vars(Work) /\ MigrationFairness /\ SyncFairness

(* The events, locks, batches and keys of every component keep their types. *)
ServiceTypes == TypeOK /\ MigrationTypeOK /\ SyncTypeOK /\ KeyTypeOK
===============================================================================
