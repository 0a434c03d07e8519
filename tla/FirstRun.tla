------------------------------ MODULE FirstRun ------------------------------
(***************************************************************************)
(* Commands of the First Run concierge in one checkout, each a process:    *)
(* journeys (local, chatgpt) and the installation of the tunnel client     *)
(* hold the lock directory; stop, reset and the removal of the tunnel      *)
(* client only look whether somebody alive holds it.                       *)
(*                                                                         *)
(* A step is what a command does between two awaits, or between two calls  *)
(* of the file system where another process could come in between.         *)
(***************************************************************************)
EXTENDS Naturals, FiniteSets

CONSTANT Commands

Nobody == "nobody"

ASSUME CommandsAssumption == Nobody \notin Commands

NoLock == [made |-> FALSE, owner |-> Nobody]

VARIABLES
  lockDir,     \* active.lock: whether it is there, and whose owner.json it holds
  recorded,    \* state.json is there
  container,   \* the journey whose session the gateway container runs for
  keyFiles,    \* the commands whose runtime-key file is there
  profile,     \* the tunnel profile: its file, its ownership marker
  client,      \* the tunnel client: who linked it, its receipt
  cmdPc,
  cmd          \* what the command is, and what it has done

runFiles == <<lockDir, recorded, container, keyFiles, profile, client>>
firstVars == <<lockDir, recorded, container, keyFiles, profile, client, cmdPc, cmd>>

Journeys == {"local", "chatgpt"}
Lookers == {"stop", "reset", "remove"}
Idle == [kind |-> "none", stage |-> "none", handed |-> FALSE, provisional |-> FALSE,
         end |-> "none"]

Acquiring == {"lock", "inspect", "reclaim", "remake"}
Holding == {"own", "state", "up", "locate", "verify", "key", "profile", "init",
            "doctor", "tunnel", "install", "link", "receipt", "fail", "finally",
            "release"}
Looking == {"look", "clear", "prompt", "dismantle", "forget", "unlink", "unlinkReceipt"}

CmdPcs == {"idle", "done", "killed"} \cup Acquiring \cup Holding \cup Looking

CmdRecords ==
  [kind : Journeys \cup Lookers \cup {"install", "none"},
   stage : {"journey", "install", "none"},
   handed : BOOLEAN, provisional : BOOLEAN,
   end : {"none", "ok", "failed", "incomplete"}]

FirstTypeOK ==
  /\ lockDir \in [made : BOOLEAN, owner : Commands \cup {Nobody}]
  /\ recorded \in BOOLEAN
  /\ container \in Commands \cup {Nobody}
  /\ keyFiles \subseteq Commands
  /\ profile \in [file : BOOLEAN, marker : BOOLEAN]
  /\ client \in [binary : Commands \cup {Nobody}, receipt : BOOLEAN]
  /\ cmdPc \in [Commands -> CmdPcs]
  /\ cmd \in [Commands -> CmdRecords]

FirstInit ==
  /\ lockDir = NoLock
  /\ recorded = FALSE
  /\ container = Nobody
  /\ keyFiles = {}
  /\ profile = [file |-> FALSE, marker |-> FALSE]
  /\ client = [binary |-> Nobody, receipt |-> FALSE]
  /\ cmdPc = [p \in Commands |-> "idle"]
  /\ cmd = [p \in Commands |-> Idle]

To(p, pc) == cmdPc' = [cmdPc EXCEPT ![p] = pc]
Ends(p, how) == To(p, "done") /\ cmd' = [cmd EXCEPT ![p].end = how]
Running(p) == cmdPc[p] \notin {"idle", "done", "killed"}

(* A chatgpt journey may install the tunnel client before anything else. *)
StartCommand(p, kind, stage) ==
  /\ cmdPc[p] = "idle"
  /\ stage = "install" => kind \in {"chatgpt", "install"}
  /\ stage = "journey" => kind \in Journeys
  /\ stage = "none" => kind \in Lookers
  /\ cmd' = [cmd EXCEPT ![p].kind = kind, ![p].stage = stage]
  /\ To(p, IF stage = "none" THEN "look" ELSE "lock")
  /\ UNCHANGED runFiles

---------------------------------------------------------------------------
(* acquireLock and ensureNoLiveLock.                                       *)

MakeLock(p) ==
  /\ cmdPc[p] = "lock"
  /\ IF lockDir.made THEN To(p, "inspect") /\ UNCHANGED lockDir
     ELSE lockDir' = [made |-> TRUE, owner |-> Nobody] /\ To(p, "own")
  /\ UNCHANGED <<recorded, container, keyFiles, profile, client, cmd>>

(* processIsAlive(owner.pid). *)
OwnerIsDead == lockDir.owner # Nobody /\ ~Running(lockDir.owner)

(* A lock whose owner cannot be read may be about to be written. *)
InspectOwnerOnly(p) ==   \* mutant
  /\ cmdPc[p] = "inspect"
  /\ IF lockDir.owner = Nobody \/ OwnerIsDead THEN To(p, "reclaim") /\ UNCHANGED cmd
     ELSE Ends(p, "failed")
  /\ UNCHANGED runFiles

InspectOwner(p) ==
  /\ cmdPc[p] = "inspect"
  /\ IF OwnerIsDead THEN To(p, "reclaim") /\ UNCHANGED cmd ELSE Ends(p, "failed")
  /\ UNCHANGED runFiles

(* removeOwnedLockDirectory: it removes the owner file that is there now. *)
ReclaimOwned(p) ==
  /\ cmdPc[p] = "reclaim"
  /\ IF lockDir.made
     THEN lockDir' = NoLock /\ To(p, "remake") /\ UNCHANGED cmd
     ELSE Ends(p, "failed") /\ UNCHANGED lockDir
  /\ UNCHANGED <<recorded, container, keyFiles, profile, client>>

RemakeLock(p) ==
  /\ cmdPc[p] = "remake"
  /\ IF lockDir.made THEN Ends(p, "failed") /\ UNCHANGED lockDir
     ELSE lockDir' = [made |-> TRUE, owner |-> Nobody] /\ To(p, "own") /\ UNCHANGED cmd
  /\ UNCHANGED <<recorded, container, keyFiles, profile, client>>

WriteOwner(p) ==
  /\ cmdPc[p] = "own"
  /\ lockDir' = [made |-> TRUE, owner |-> p]
  /\ To(p, IF cmd[p].stage = "install" THEN "install" ELSE "state")
  /\ UNCHANGED <<recorded, container, keyFiles, profile, client, cmd>>

(* The closure acquireLock returns: it leaves a lock alone that is no longer
   its own. *)
Release(p) ==
  /\ cmdPc[p] = "release"
  /\ lockDir' = IF lockDir.owner = p THEN NoLock ELSE lockDir
  /\ IF cmd[p].stage = "install" /\ cmd[p].kind = "chatgpt" /\ cmd[p].end = "none"
     THEN To(p, "lock") /\ cmd' = [cmd EXCEPT ![p].stage = "journey"]
     ELSE Ends(p, IF cmd[p].end = "none" THEN "ok" ELSE cmd[p].end)
  /\ UNCHANGED <<recorded, container, keyFiles, profile, client>>

(* stop and reset ask for the state first; a stale lock is removed. *)
Look(p) ==
  /\ cmdPc[p] = "look"
  /\ IF cmd[p].kind \in {"stop", "reset"} /\ ~recorded THEN Ends(p, "failed")
     ELSE CASE ~lockDir.made -> UNCHANGED cmd /\
                 To(p, IF cmd[p].kind = "remove" THEN "unlink" ELSE "prompt")
            [] lockDir.made /\ OwnerIsDead -> To(p, "clear") /\ UNCHANGED cmd
            [] OTHER -> Ends(p, "failed")
  /\ UNCHANGED runFiles

ClearLock(p) ==
  /\ cmdPc[p] = "clear"
  /\ IF lockDir.made /\ lockDir.owner # Nobody
     THEN /\ lockDir' = NoLock /\ UNCHANGED cmd
          /\ To(p, IF cmd[p].kind = "remove" THEN "unlink" ELSE "prompt")
     ELSE Ends(p, "failed") /\ UNCHANGED lockDir
  /\ UNCHANGED <<recorded, container, keyFiles, profile, client>>

---------------------------------------------------------------------------
(* Journeys.                                                               *)

(* state.json is there before docker is asked for anything. *)
WriteState(p) ==
  /\ cmdPc[p] = "state"
  /\ recorded' = TRUE
  /\ To(p, "up")
  /\ UNCHANGED <<lockDir, container, keyFiles, profile, client, cmd>>

(* docker compose up, which may fail having created the container. *)
ComposeUp(p) ==
  /\ cmdPc[p] = "up"
  /\ \/ container' = p /\ To(p, "locate")
     \/ container' \in {p, container} /\ To(p, "fail")
  /\ UNCHANGED <<lockDir, recorded, keyFiles, profile, client, cmd>>

Locate(p) ==
  /\ cmdPc[p] = "locate"
  /\ recorded' = TRUE
  /\ To(p, "verify")
  /\ UNCHANGED <<lockDir, container, keyFiles, profile, client, cmd>>

(* waitForGateway, verifyContainer, discoverTools: from here on the gateway
   is the user's. *)
HandOver(p) ==
  /\ cmdPc[p] = "verify" /\ container # Nobody
  /\ cmd' = [cmd EXCEPT ![p].handed = TRUE]
  /\ To(p, IF cmd[p].kind = "local" THEN "finally" ELSE "key")
  /\ UNCHANGED runFiles

(* The user may also pause here. *)
WriteKey(p) ==
  /\ cmdPc[p] = "key"
  /\ \/ keyFiles' = keyFiles \cup {p} /\ To(p, "profile")
     \/ UNCHANGED keyFiles /\ To(p, "finally")
  /\ UNCHANGED <<lockDir, recorded, container, profile, client, cmd>>

CheckProfile(p) ==
  /\ cmdPc[p] = "profile"
  /\ \/ profile.file /\ profile.marker /\ To(p, "doctor") /\ UNCHANGED cmd
     \/ ~profile.file /\ ~profile.marker /\ To(p, "init")
        /\ cmd' = [cmd EXCEPT ![p].provisional = TRUE]
     \/ profile.file # profile.marker /\ To(p, "fail") /\ UNCHANGED cmd
  /\ UNCHANGED runFiles

(* tunnel-client init, which may fail having written the profile. *)
InitProfile(p) ==
  /\ cmdPc[p] = "init"
  /\ \/ profile' = [profile EXCEPT !.file = TRUE] /\ To(p, "doctor")
     \/ profile' \in {profile, [profile EXCEPT !.file = TRUE]} /\ To(p, "fail")
  /\ UNCHANGED <<lockDir, recorded, container, keyFiles, client, cmd>>

(* tunnel-client doctor; then a new profile is marked as owned. *)
Doctor(p) ==
  /\ cmdPc[p] = "doctor"
  /\ profile' = IF cmd[p].provisional THEN [profile EXCEPT !.marker = TRUE] ELSE profile
  /\ cmd' = [cmd EXCEPT ![p].provisional = FALSE]
  /\ To(p, "tunnel")
  /\ UNCHANGED <<lockDir, recorded, container, keyFiles, client>>

EndTunnel(p) ==
  /\ cmdPc[p] = "tunnel"
  /\ To(p, "finally")
  /\ UNCHANGED <<runFiles, cmd>>

(* A step fails, or a signal ends it. *)
Fails(p) ==
  /\ cmdPc[p] \in {"up", "locate", "verify", "key", "profile", "init", "doctor", "tunnel"}
  /\ To(p, "fail")
  /\ UNCHANGED <<runFiles, cmd>>

(* SIGINT or SIGTERM: the session's handler deletes the key at once, and the
   journey learns of the signal later. *)
Signal(p) ==
  /\ Running(p) /\ p \in keyFiles
  /\ keyFiles' = keyFiles \ {p}
  /\ UNCHANGED <<lockDir, recorded, container, profile, client, cmdPc, cmd>>

(* The catch clause of runJourney. *)
CleanUpLate(p) ==   \* mutant
  /\ cmdPc[p] = "fail"
  /\ profile' = profile
  /\ \/ ~cmd[p].handed /\ container' = Nobody
        /\ cmd' = [cmd EXCEPT ![p].provisional = FALSE, ![p].end = "failed"]
     \/ ~cmd[p].handed /\ UNCHANGED container
        /\ cmd' = [cmd EXCEPT ![p].provisional = FALSE, ![p].end = "incomplete"]
     \/ cmd[p].handed /\ UNCHANGED container
        /\ cmd' = [cmd EXCEPT ![p].provisional = FALSE, ![p].end = "failed"]
  /\ To(p, "finally")
  /\ UNCHANGED <<lockDir, recorded, keyFiles, client>>

CleanUp(p) ==
  /\ cmdPc[p] = "fail"
  /\ profile' = IF cmd[p].provisional THEN [profile EXCEPT !.file = FALSE] ELSE profile
  /\ \/ ~cmd[p].handed /\ container' = Nobody
        /\ cmd' = [cmd EXCEPT ![p].provisional = FALSE, ![p].end = "failed"]
     \/ ~cmd[p].handed /\ UNCHANGED container
        /\ cmd' = [cmd EXCEPT ![p].provisional = FALSE, ![p].end = "incomplete"]
     \/ cmd[p].handed /\ UNCHANGED container
        /\ cmd' = [cmd EXCEPT ![p].provisional = FALSE, ![p].end = "failed"]
  /\ To(p, "finally")
  /\ UNCHANGED <<lockDir, recorded, keyFiles, client>>

(* Its finally clause, up to the release of the lock. *)
Finally(p) ==
  /\ cmdPc[p] = "finally"
  /\ keyFiles' = keyFiles \ {p}
  /\ To(p, "release")
  /\ UNCHANGED <<lockDir, recorded, container, profile, client, cmd>>

---------------------------------------------------------------------------
(* installCheckoutTunnelClient and removeCheckoutTunnelClient.             *)

CheckClient(p) ==
  /\ cmdPc[p] = "install"
  /\ CASE client.binary = Nobody /\ ~client.receipt -> To(p, "link") /\ UNCHANGED cmd
       [] client.binary # Nobody /\ client.receipt -> To(p, "release") /\ UNCHANGED cmd
       [] OTHER -> To(p, "release") /\ cmd' = [cmd EXCEPT ![p].end = "failed"]
  /\ UNCHANGED runFiles

(* Download, checks, and linkSync, which overwrites nothing. *)
LinkClient(p) ==
  /\ cmdPc[p] = "link"
  /\ \/ /\ client.binary = Nobody
        /\ client' = [client EXCEPT !.binary = p]
        /\ To(p, "receipt") /\ UNCHANGED cmd
     \/ /\ To(p, "release") /\ cmd' = [cmd EXCEPT ![p].end = "failed"]
        /\ UNCHANGED client
  /\ UNCHANGED <<lockDir, recorded, container, keyFiles, profile>>

(* writeJsonPrivateExclusive; an install that fails here takes its own link
   back. *)
WriteReceiptOrFail(p) ==   \* mutant
  /\ cmdPc[p] = "receipt"
  /\ \/ /\ ~client.receipt
        /\ client' = [client EXCEPT !.receipt = TRUE] /\ UNCHANGED cmd
     \/ UNCHANGED client /\ cmd' = [cmd EXCEPT ![p].end = "failed"]
  /\ To(p, "release")
  /\ UNCHANGED <<lockDir, recorded, container, keyFiles, profile>>

WriteReceipt(p) ==
  /\ cmdPc[p] = "receipt"
  /\ \/ /\ ~client.receipt
        /\ client' = [client EXCEPT !.receipt = TRUE] /\ UNCHANGED cmd
     \/ /\ client' = IF client.binary = p THEN [client EXCEPT !.binary = Nobody] ELSE client
        /\ cmd' = [cmd EXCEPT ![p].end = "failed"]
  /\ To(p, "release")
  /\ UNCHANGED <<lockDir, recorded, container, keyFiles, profile>>

(* Only what the receipt describes is removed. *)
UnlinkClient(p) ==
  /\ cmdPc[p] = "unlink"
  /\ CASE client.receipt -> client' = [client EXCEPT !.binary = Nobody] /\
                            To(p, "unlinkReceipt") /\ UNCHANGED cmd
       [] ~client.receipt /\ client.binary = Nobody -> Ends(p, "ok") /\ UNCHANGED client
       [] OTHER -> Ends(p, "failed") /\ UNCHANGED client
  /\ UNCHANGED <<lockDir, recorded, container, keyFiles, profile>>

UnlinkReceipt(p) ==
  /\ cmdPc[p] = "unlinkReceipt"
  /\ client' = [client EXCEPT !.receipt = FALSE]
  /\ Ends(p, IF client.receipt THEN "ok" ELSE "failed")
  /\ UNCHANGED <<lockDir, recorded, container, keyFiles, profile>>

---------------------------------------------------------------------------
(* stop and reset.                                                         *)

(* reset waits for its confirmation, and looks at the lock no more. *)
Confirm(p) ==
  /\ cmdPc[p] = "prompt"
  /\ \/ To(p, "dismantle") /\ UNCHANGED cmd
     \/ cmd[p].kind = "reset" /\ Ends(p, "ok")
  /\ UNCHANGED runFiles

Dismantle(p) ==
  /\ cmdPc[p] = "dismantle"
  /\ \/ container' = Nobody /\ To(p, "forget") /\ UNCHANGED cmd
     \/ UNCHANGED container /\ Ends(p, "incomplete")
  /\ UNCHANGED <<lockDir, recorded, keyFiles, profile, client>>

(* stop writes the state it read, as stopped; reset removes the directory of
   state.json and of the lock. *)
Forget(p) ==
  /\ cmdPc[p] = "forget"
  /\ IF cmd[p].kind = "reset" THEN recorded' = FALSE /\ lockDir' = NoLock
     ELSE recorded' = TRUE /\ UNCHANGED lockDir
  /\ Ends(p, "ok")
  /\ UNCHANGED <<container, keyFiles, profile, client>>

Kill(p) ==
  /\ Running(p)
  /\ To(p, "killed")
  /\ UNCHANGED <<runFiles, cmd>>

FirstNext ==
  \E p \in Commands :
    \/ \E kind \in Journeys \cup Lookers \cup {"install"},
          stage \in {"journey", "install", "none"} : StartCommand(p, kind, stage)
    \/ MakeLock(p) \/ InspectOwner(p) \/ ReclaimOwned(p) \/ RemakeLock(p)
    \/ WriteOwner(p) \/ Release(p) \/ Look(p) \/ ClearLock(p)
    \/ WriteState(p) \/ ComposeUp(p) \/ Locate(p) \/ HandOver(p)
    \/ WriteKey(p) \/ CheckProfile(p) \/ InitProfile(p) \/ Doctor(p) \/ EndTunnel(p)
    \/ Fails(p) \/ Signal(p) \/ CleanUp(p) \/ Finally(p)
    \/ CheckClient(p) \/ LinkClient(p) \/ WriteReceipt(p)
    \/ UnlinkClient(p) \/ UnlinkReceipt(p)
    \/ Confirm(p) \/ Dismantle(p) \/ Forget(p) \/ Kill(p)

FirstSpec == FirstInit /\ [][FirstNext]_firstVars

---------------------------------------------------------------------------
Killed(p) == cmdPc[p] = "killed"
WasReset == \E p \in Commands : cmd[p].kind = "reset" /\ cmdPc[p] = "done"
                                /\ cmd[p].end = "ok"

(* The lock holds one launcher at a time, as long as no killed launcher left
   it to be reclaimed, which two may do at once, and no reset removed it: a
   lock that is not owned yet is left alone, and a launcher lets go of its own
   lock only. *)
LaunchersExclude ==
  (~WasReset /\ \A p \in Commands : ~Killed(p)) =>
    Cardinality({p \in Commands : cmdPc[p] \in Holding}) <= 1

(* Whatever fails or is interrupted, an ended command has deleted its runtime
   key; a profile that was not verified is removed by the journey that made
   it, so that it blocks no later one; and so is the gateway of a journey that
   failed before it was verified. *)
NothingIsLeft ==
  /\ \A p \in keyFiles : Running(p) \/ Killed(p)
  /\ profile.file /\ ~profile.marker => \E p \in Commands : cmd[p].provisional
  /\ container # Nobody =>
       ~(/\ cmdPc[container] = "done" /\ cmd[container].end = "failed"
         /\ ~cmd[container].handed)

(* A tunnel client without its receipt could be neither removed nor replaced:
   only an installation that was killed leaves one.  Or two removals at once,
   for neither holds the lock: the slower one deletes the receipt there is, of
   a client that may have been installed after the faster one was done. *)
HasRemoved(p) == cmd[p].kind = "remove" /\ cmdPc[p] = "done" /\ cmd[p].end = "ok"

ClientIsOwned ==
  client.binary # Nobody /\ ~client.receipt =>
    \/ cmdPc[client.binary] \in {"receipt", "killed"}
    \/ \E p, q \in Commands : p # q /\ HasRemoved(p) /\ HasRemoved(q)
=============================================================================
