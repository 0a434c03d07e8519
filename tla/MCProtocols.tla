----------------------------- MODULE MCProtocols -----------------------------
(***************************************************************************)
(* Components that share no state, checked in one run: a behaviour is one  *)
(* of the component it works on, and the others stay as they began.        *)
(***************************************************************************)
EXTENDS PostgresStore, SqliteStore, PreparedFlow, Runner, FirstRun,
        PolicyEvaluation, ApprovalCards, TLC

VARIABLE works   \* the component that works

chatVars == <<syncVars, cardVars>>

Components ==
  {"postgres", "sqlite", "prepared", "runner", "concierge", "policy", "cards"}

(* The other components begin in one state. *)
PolicyIsIdle ==
  /\ polTools = <<>> /\ polDefault = "deny"
  /\ polCall = [canonical |-> TRUE, forced |-> FALSE, asserted |-> Unstated,
                original |-> Unstated, frozen |-> Unstated]

ProtocolsInit ==
  /\ PostgresInit /\ SqliteInit /\ PrepInit /\ RunnerInit /\ FirstInit
  /\ PolicyInit /\ SyncInit /\ CardInit
  /\ storedCards = {}
  /\ works \in IF PolicyIsIdle THEN Components ELSE {"policy"}
  /\ works # "runner" => runner = [c \in RunnerCalls |-> "sdk"]

ProtocolsNext ==
  \/ /\ works = "postgres"
     /\ UNCHANGED <<works, liteVars, prepVars, runVars, firstVars, polVars, chatVars>>
     /\ PostgresNext
  \/ /\ works = "sqlite"
     /\ UNCHANGED <<works, pgVars, prepVars, runVars, firstVars, polVars, chatVars>>
     /\ SqliteNext
  \/ /\ works = "prepared"
     /\ UNCHANGED <<works, pgVars, liteVars, runVars, firstVars, polVars, chatVars>>
     /\ PreparedNext
  \/ /\ works = "runner"
     /\ UNCHANGED <<works, pgVars, liteVars, prepVars, firstVars, polVars, chatVars>>
     /\ RunnerNext
  \/ /\ works = "concierge"
     /\ UNCHANGED <<works, pgVars, liteVars, prepVars, runVars, polVars, chatVars>>
     /\ FirstNext
  \/ /\ works = "policy"
     /\ UNCHANGED <<works, pgVars, liteVars, prepVars, runVars, firstVars, chatVars>>
     /\ PolicyNext
  \/ /\ works = "cards"
     /\ UNCHANGED <<works, pgVars, liteVars, prepVars, runVars, firstVars, polVars>>
     /\ CardNext

ProtocolsSpec ==
  ProtocolsInit
    /\ [][ProtocolsNext]_<<pgVars, liteVars, prepVars, runVars, firstVars,
                           polVars, chatVars, works>>

(* The records, locations and files of the component that works keep their
   types. *)
ProtocolTypes ==
  /\ works = "prepared" => PrepTypeOK
  /\ works = "runner" => RunnerTypeOK
  /\ works = "concierge" => FirstTypeOK
  /\ works = "policy" => PolicyTypeOK
  /\ works = "cards" => CardTypeOK

CallSymmetry == Permutations(StoreCalls)
=============================================================================
