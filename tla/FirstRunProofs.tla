---------------------------- MODULE FirstRunProofs ----------------------------
(***************************************************************************)
(* Proofs about FirstRun, for any number of commands: launchers exclude    *)
(* each other, nothing private or unverified is left behind, and a tunnel  *)
(* client is owned.                                                        *)
(***************************************************************************)
EXTENDS FirstRun, FiniteSetTheorems, TLAPS

(* No lock was left to be reclaimed, and none was removed by a reset. *)
Exclusive == ~WasReset /\ \A p \in Commands : ~Killed(p)

(* Whoever is past WriteOwner owns the lock; one that has made it but not
   written its owner yet is alone; and nobody takes a lock for stale. *)
LockInv ==
  Exclusive =>
    \A p \in Commands :
      /\ cmdPc[p] \in Holding => lockDir.made
      /\ cmdPc[p] \in Holding \ {"own"} <=> lockDir.owner = p
      /\ cmdPc[p] = "own" => \A q \in Commands : cmdPc[q] \in Holding => q = p
      /\ cmdPc[p] \notin {"reclaim", "remake", "clear"}

(* A key is there from its writing to the finally clause; a profile about to
   be made is provisional. *)
KeyInv ==
  \A p \in Commands :
    /\ p \in keyFiles =>
         cmdPc[p] \in {"profile", "init", "doctor", "tunnel", "fail", "finally", "killed"}
    /\ cmdPc[p] = "init" => cmd[p].provisional

ProfileInv ==
  profile.file /\ ~profile.marker => \E p \in Commands : cmd[p].provisional

(* Where a command is before it asks docker for a container, or when it never
   does. *)
BeforeCompose ==
  {"idle", "own", "state", "up", "install", "link", "receipt"} \cup Acquiring \cup Looking

JourneyPcs ==
  {"state", "up", "locate", "verify", "key", "profile", "init", "doctor",
   "tunnel", "fail", "finally"}

(* A journey knows its stage, and a command that has failed goes no further. *)
StageInv ==
  \A p \in Commands :
    /\ cmdPc[p] \in JourneyPcs => cmd[p].stage = "journey"
    /\ cmdPc[p] \in Acquiring \cup {"own"} => cmd[p].stage # "none"
    /\ cmdPc[p] \in Acquiring \cup {"idle", "own", "state", "up", "install"} =>
         cmd[p].end = "none"

(* So that a container runs for a journey that was not found failed, unless
   the gateway is the user's. *)
GatewayInv ==
  container # Nobody =>
    /\ cmdPc[container] \notin BeforeCompose
    /\ cmd[container].stage = "journey"
    /\ cmd[container].end = "failed" => cmd[container].handed

(* Whoever is about to delete the receipt finds it, unless another removal
   was faster, and with it a client that has no other claim to it. *)
Claimed == cmdPc[client.binary] \in {"receipt", "killed"}

RemovalInv ==
  \A r \in Commands :
    /\ cmdPc[r] \in {"unlink", "unlinkReceipt"} => cmd[r].kind = "remove"
    /\ cmdPc[r] = "unlinkReceipt" =>
         \/ client.receipt /\ (client.binary # Nobody => Claimed)
         \/ \E q \in Commands : HasRemoved(q)

ConciergeInv ==
  /\ FirstTypeOK /\ LockInv /\ KeyInv /\ ProfileInv
  /\ StageInv /\ GatewayInv /\ RemovalInv /\ ClientIsOwned
---------------------------------------------------------------------------
(* A step of command p. *)
StepOf(p) ==
  \/ \E kind \in Journeys \cup Lookers \cup {"install"},
        stage \in {"journey", "install", "none"} : StartCommand(p, kind, stage)
  \/ MakeLock(p) \/ InspectOwner(p) \/ ReclaimOwned(p) \/ RemakeLock(p)
  \/ WriteOwner(p) \/ Release(p) \/ Look(p) \/ ClearLock(p)
  \/ WriteState(p) \/ ComposeUp(p) \/ Locate(p) \/ HandOver(p)
  \/ WriteKey(p) \/ CheckProfile(p) \/ InitProfile(p) \/ Doctor(p) \/ EndTunnel(p)
  \/ Fails(p) \/ Signal(p) \/ CleanUp(p) \/ Finally(p)
  \/ CheckClient(p) \/ LinkClient(p) \/ WriteReceipt(p)
  \/ UnlinkClient(p) \/ UnlinkReceipt(p)
  \/ Confirm(p) \/ Dismantle(p) \/ Forget(p) \/ Kill(p)

(* Types. *)
LEMMA StepKeepsTypes ==
  ASSUME FirstTypeOK, NEW p \in Commands, StepOf(p)
  PROVE  FirstTypeOK'
<1>. USE DEF StepOf, StartCommand, MakeLock, InspectOwner, ReclaimOwned, RemakeLock, WriteOwner,
             Release, Look, ClearLock, WriteState, ComposeUp, Locate, HandOver,
             WriteKey, CheckProfile, InitProfile, Doctor, EndTunnel, Fails, Signal,
             CleanUp, Finally, CheckClient, LinkClient, WriteReceipt, UnlinkClient,
             UnlinkReceipt, Confirm, Dismantle, Forget, Kill, runFiles
<1>1. lockDir' \in [made : BOOLEAN, owner : Commands \cup {Nobody}]
  <2>1. \/ lockDir' = lockDir
        \/ \E made \in BOOLEAN, owner \in Commands \cup {Nobody} :
             lockDir' = [made |-> made, owner |-> owner]
    BY DEF To, Ends, NoLock
  <2> QED
    BY <2>1 DEF FirstTypeOK
<1>2. recorded' \in BOOLEAN /\ container' \in Commands \cup {Nobody} /\ keyFiles' \subseteq Commands
  BY DEF FirstTypeOK
<1>3. profile' \in [file : BOOLEAN, marker : BOOLEAN]
  BY DEF FirstTypeOK
<1>4. client' \in [binary : Commands \cup {Nobody}, receipt : BOOLEAN]
  <2>1. client' \in {client, [client EXCEPT !.binary = p], [client EXCEPT !.binary = Nobody],
                     [client EXCEPT !.receipt = TRUE], [client EXCEPT !.receipt = FALSE]}
    OBVIOUS
  <2> QED
    BY <2>1 DEF FirstTypeOK
<1>5. cmdPc' \in [Commands -> CmdPcs]
  <2>1. cmdPc' = cmdPc \/ \E pc \in CmdPcs : cmdPc' = [cmdPc EXCEPT ![p] = pc]
    BY DEF To, Ends, CmdPcs, Acquiring, Holding, Looking
  <2> QED
    BY <2>1 DEF FirstTypeOK
<1>6. cmd' \in [Commands -> CmdRecords]
  <2>1. \/ cmd' = cmd
        \/ \E end \in {"ok", "failed", "incomplete"} : cmd' = [cmd EXCEPT ![p].end = end]
        \/ cmd' = [cmd EXCEPT ![p].stage = "journey"]
        \/ \E handed \in BOOLEAN : cmd' = [cmd EXCEPT ![p].handed = handed]
        \/ \E provisional \in BOOLEAN : cmd' = [cmd EXCEPT ![p].provisional = provisional]
        \/ \E provisional \in BOOLEAN, end \in {"failed", "incomplete"} :
             cmd' = [cmd EXCEPT ![p].provisional = provisional, ![p].end = end]
        \/ \E kind \in Journeys \cup Lookers \cup {"install"},
              stage \in {"journey", "install", "none"} :
             cmd' = [cmd EXCEPT ![p].kind = kind, ![p].stage = stage]
        \/ cmd' = [cmd EXCEPT ![p].end = cmd[p].end]
    BY DEF Ends
  <2>. HIDE DEF StepOf, StartCommand, MakeLock, InspectOwner, ReclaimOwned, RemakeLock, WriteOwner,
                Release, Look, ClearLock, WriteState, ComposeUp, Locate, HandOver,
                WriteKey, CheckProfile, InitProfile, Doctor, EndTunnel, Fails, Signal,
                CleanUp, Finally, CheckClient, LinkClient, WriteReceipt, UnlinkClient,
                UnlinkReceipt, Confirm, Dismantle, Forget, Kill
  <2>2. cmd[p] \in CmdRecords /\ cmd \in [Commands -> CmdRecords]
    BY DEF FirstTypeOK
  <2>. USE <2>2 DEF CmdRecords
  <2>3. CASE \E kind \in Journeys \cup Lookers \cup {"install"},
              stage \in {"journey", "install", "none"} :
             cmd' = [cmd EXCEPT ![p].kind = kind, ![p].stage = stage]
    <3>1. PICK kind \in Journeys \cup Lookers \cup {"install"},
               stage \in {"journey", "install", "none"} :
            cmd' = [cmd EXCEPT ![p].kind = kind, ![p].stage = stage]
      BY <2>3
    <3>2. [cmd EXCEPT ![p].kind = kind] \in [Commands -> CmdRecords]
      OBVIOUS
    <3>3. \A c \in [Commands -> CmdRecords] :
            [c EXCEPT ![p].stage = stage] \in [Commands -> CmdRecords]
      OBVIOUS
    <3>. HIDE DEF CmdRecords
    <3> QED
      BY <3>1, <3>2, <3>3
  <2>4. CASE \E provisional \in BOOLEAN, end \in {"failed", "incomplete"} :
             cmd' = [cmd EXCEPT ![p].provisional = provisional, ![p].end = end]
    <3>1. PICK provisional \in BOOLEAN, end \in {"failed", "incomplete"} :
            cmd' = [cmd EXCEPT ![p].provisional = provisional, ![p].end = end]
      BY <2>4
    <3>2. [cmd EXCEPT ![p].provisional = provisional] \in [Commands -> CmdRecords]
      OBVIOUS
    <3>3. \A c \in [Commands -> CmdRecords] :
            [c EXCEPT ![p].end = end] \in [Commands -> CmdRecords]
      OBVIOUS
    <3>. HIDE DEF CmdRecords
    <3> QED
      BY <3>1, <3>2, <3>3
  <2>5. CASE cmd' = [cmd EXCEPT ![p].end = cmd[p].end]
    BY <2>5
  <2>6. CASE \/ cmd' = cmd
             \/ \E end \in {"ok", "failed", "incomplete"} : cmd' = [cmd EXCEPT ![p].end = end]
             \/ cmd' = [cmd EXCEPT ![p].stage = "journey"]
             \/ \E handed \in BOOLEAN : cmd' = [cmd EXCEPT ![p].handed = handed]
             \/ \E provisional \in BOOLEAN : cmd' = [cmd EXCEPT ![p].provisional = provisional]
    BY <2>6
  <2> QED
    BY <2>1, <2>3, <2>4, <2>5, <2>6
<1> QED
  BY <1>1, <1>2, <1>3, <1>4, <1>5, <1>6 DEF FirstTypeOK

LEMMA InitTypes == FirstInit => FirstTypeOK
<1>1. \A no \in BOOLEAN : [kind |-> "none", stage |-> "none", handed |-> no,
                           provisional |-> no, end |-> "none"] \in CmdRecords
  BY DEF CmdRecords
<1>2. Idle \in CmdRecords
  BY <1>1 DEF Idle
<1>3. \A no \in BOOLEAN : /\ [made |-> no, owner |-> Nobody] \in [made : BOOLEAN, owner : Commands \cup {Nobody}]
                            /\ [file |-> no, marker |-> no] \in [file : BOOLEAN, marker : BOOLEAN]
                            /\ [binary |-> Nobody, receipt |-> no] \in [binary : Commands \cup {Nobody}, receipt : BOOLEAN]
  OBVIOUS
<1> QED
  BY <1>2, <1>3 DEF FirstInit, FirstTypeOK, NoLock, CmdPcs

(* A command that has ended takes no step, and the others stay what they are. *)
LEMMA OneCommandMoves ==
  ASSUME FirstTypeOK, NEW p \in Commands, StepOf(p)
  PROVE  /\ cmdPc[p] \notin {"done", "killed"}
         /\ \A q \in Commands \ {p} : cmdPc'[q] = cmdPc[q] /\ cmd'[q] = cmd[q]
<1>. USE DEF StepOf, StartCommand, MakeLock, InspectOwner, ReclaimOwned, RemakeLock, WriteOwner,
             Release, Look, ClearLock, WriteState, ComposeUp, Locate, HandOver,
             WriteKey, CheckProfile, InitProfile, Doctor, EndTunnel, Fails, Signal,
             CleanUp, Finally, CheckClient, LinkClient, WriteReceipt, UnlinkClient,
             UnlinkReceipt, Confirm, Dismantle, Forget, Kill
<1>1. cmdPc[p] \notin {"done", "killed"}
  BY DEF Running
<1>2. \A q \in Commands \ {p} : cmdPc'[q] = cmdPc[q]
  BY DEF FirstTypeOK, To, Ends
<1>3. \A q \in Commands \ {p} : cmd'[q] = cmd[q]
  <2>1. CASE \/ WriteKey(p) \/ CheckProfile(p) \/ InitProfile(p) \/ Doctor(p) \/ EndTunnel(p)
             \/ Fails(p) \/ Signal(p) \/ CleanUp(p) \/ Finally(p) \/ Kill(p)
    BY <2>1 DEF FirstTypeOK, Ends
  <2>2. CASE \/ CheckClient(p) \/ LinkClient(p) \/ WriteReceipt(p) \/ UnlinkClient(p)
             \/ UnlinkReceipt(p) \/ Confirm(p) \/ Dismantle(p) \/ Forget(p)
    BY <2>2 DEF FirstTypeOK, Ends
  <2>3. CASE \/ \E kind \in Journeys \cup Lookers \cup {"install"},
                   stage \in {"journey", "install", "none"} : StartCommand(p, kind, stage)
             \/ MakeLock(p) \/ InspectOwner(p) \/ ReclaimOwned(p) \/ RemakeLock(p)
             \/ WriteOwner(p) \/ Release(p) \/ Look(p) \/ ClearLock(p)
             \/ WriteState(p) \/ ComposeUp(p) \/ Locate(p) \/ HandOver(p)
    BY <2>3 DEF FirstTypeOK, Ends
  <2>. HIDE DEF StartCommand, MakeLock, InspectOwner, ReclaimOwned, RemakeLock, WriteOwner,
             Release, Look, ClearLock, WriteState, ComposeUp, Locate, HandOver,
             WriteKey, CheckProfile, InitProfile, Doctor, EndTunnel, Fails, Signal,
             CleanUp, Finally, CheckClient, LinkClient, WriteReceipt, UnlinkClient,
             UnlinkReceipt, Confirm, Dismantle, Forget, Kill
  <2> QED
    BY <2>1, <2>2, <2>3
<1> QED
  BY <1>1, <1>2, <1>3

---------------------------------------------------------------------------
(* The lock. *)

LEMMA StillExclusive ==
  ASSUME FirstTypeOK, NEW p \in Commands, StepOf(p), Exclusive'
  PROVE  Exclusive
BY OneCommandMoves DEF Exclusive, WasReset, Killed

(* The holder of a lock is alive. *)
LEMMA OwnerIsAlive ==
  ASSUME FirstTypeOK, LockInv, Exclusive
  PROVE  ~OwnerIsDead
BY DEF FirstTypeOK, LockInv, OwnerIsDead, Running, Holding

LEMMA StepKeepsLock ==
  ASSUME FirstTypeOK, LockInv, NEW p \in Commands, StepOf(p)
  PROVE  LockInv'
<1>. SUFFICES ASSUME Exclusive'
              PROVE  \A q \in Commands :
                       /\ cmdPc'[q] \in Holding => lockDir'.made
                       /\ cmdPc'[q] \in Holding \ {"own"} <=> lockDir'.owner = q
                       /\ cmdPc'[q] = "own" => \A r \in Commands : cmdPc'[r] \in Holding => r = q
                       /\ cmdPc'[q] \notin {"reclaim", "remake", "clear"}
  BY DEF LockInv
<1>1. Exclusive
  BY StillExclusive
<1>2. \A q \in Commands :
        /\ cmdPc[q] \in Holding => lockDir.made
        /\ cmdPc[q] \in Holding \ {"own"} <=> lockDir.owner = q
        /\ cmdPc[q] = "own" => \A r \in Commands : cmdPc[r] \in Holding => r = q
        /\ cmdPc[q] \notin {"reclaim", "remake", "clear"}
  BY <1>1 DEF LockInv
<1>3. ~OwnerIsDead
  BY <1>1, OwnerIsAlive
<1>4. \A q \in Commands \ {p} : cmdPc'[q] = cmdPc[q]
  BY OneCommandMoves
<1>5. CASE MakeLock(p)
  <2>1. CASE lockDir.made
    BY <1>5, <2>1, <1>2, <1>4 DEF MakeLock, To, FirstTypeOK, Holding
  <2>2. CASE ~lockDir.made
    <3>1. lockDir'.made /\ lockDir'.owner = Nobody /\ cmdPc'[p] = "own"
      BY <1>5, <2>2 DEF MakeLock, To, FirstTypeOK
    <3>2. \A q \in Commands \ {p} : cmdPc'[q] \notin Holding
      BY <2>2, <1>2, <1>4
    <3> QED
      BY <3>1, <3>2, <1>2, <1>4, CommandsAssumption DEF Holding
  <2> QED
    BY <2>1, <2>2
<1>6. CASE WriteOwner(p)
  <2>1. /\ lockDir'.made /\ lockDir'.owner = p /\ cmdPc[p] = "own"
        /\ cmdPc'[p] \in Holding \ {"own"}
    BY <1>6 DEF WriteOwner, To, FirstTypeOK, Holding
  <2> QED
    BY <2>1, <1>2, <1>4 DEF Holding
<1>7. CASE Release(p)
  <2>1. lockDir' = NoLock /\ cmdPc'[p] \in {"lock", "done"} /\ cmdPc[p] = "release"
    BY <1>7, <1>2 DEF Release, To, Ends, FirstTypeOK, Holding
  <2>2. \A q \in Commands : cmdPc'[q] \notin Holding
    BY <2>1, <1>2, <1>4 DEF Holding
  <2> QED
    BY <2>1, <2>2, <1>2, <1>4, CommandsAssumption DEF NoLock, Holding
<1>8. CASE Kill(p)
  BY <1>8 DEF Kill, To, FirstTypeOK, Exclusive, Killed
<1>9. CASE Forget(p)
  <2>1. cmd[p].kind # "reset"
    <3>1. cmdPc'[p] = "done" /\ cmd'[p].end = "ok" /\ cmd'[p].kind = cmd[p].kind
      BY <1>9 DEF Forget, Ends, To, FirstTypeOK, CmdRecords
    <3> QED
      BY <3>1 DEF Exclusive, WasReset
  <2> QED
    BY <2>1, <1>9, <1>2, <1>4 DEF Forget, Ends, To, FirstTypeOK, Holding
<1>10. CASE ReclaimOwned(p) \/ RemakeLock(p) \/ ClearLock(p)
  BY <1>10, <1>2 DEF ReclaimOwned, RemakeLock, ClearLock
<1>11. CASE ~(\/ MakeLock(p) \/ WriteOwner(p) \/ Release(p) \/ Kill(p) \/ Forget(p)
              \/ ReclaimOwned(p) \/ RemakeLock(p) \/ ClearLock(p))
  <2>1. lockDir' = lockDir
    BY <1>11 DEF StepOf, StartCommand, InspectOwner, Look, WriteState, ComposeUp, Locate, HandOver,
       WriteKey, CheckProfile, InitProfile, Doctor, EndTunnel, Fails, Signal, CleanUp,
       Finally, CheckClient, LinkClient, WriteReceipt, UnlinkClient, UnlinkReceipt,
       Confirm, Dismantle, runFiles
  <2>2. \/ cmdPc'[p] = cmdPc[p]
        \/ cmdPc[p] \in Holding \ {"own"} /\ cmdPc'[p] \in Holding \ {"own"}
        \/ /\ cmdPc[p] \notin Holding
           /\ cmdPc'[p] \notin Holding \cup {"reclaim", "remake", "clear"}
    <3>. USE DEF To, Ends, FirstTypeOK, Holding
    <3>1. CASE \E kind \in Journeys \cup Lookers \cup {"install"},
                stage \in {"journey", "install", "none"} : StartCommand(p, kind, stage)
      BY <3>1 DEF StartCommand
    <3>2. CASE InspectOwner(p) \/ Look(p) \/ UnlinkClient(p) \/ UnlinkReceipt(p)
               \/ Confirm(p) \/ Dismantle(p)
      BY <3>2, <1>3 DEF InspectOwner, Look, UnlinkClient, UnlinkReceipt, Confirm, Dismantle
    <3>3. CASE WriteState(p) \/ ComposeUp(p) \/ Locate(p) \/ HandOver(p) \/ WriteKey(p)
               \/ CheckProfile(p) \/ InitProfile(p) \/ Doctor(p) \/ EndTunnel(p)
      BY <3>3 DEF WriteState, ComposeUp, Locate, HandOver, WriteKey, CheckProfile,
         InitProfile, Doctor, EndTunnel
    <3>4. CASE Fails(p) \/ Signal(p) \/ CleanUp(p) \/ Finally(p)
      BY <3>4 DEF Fails, Signal, CleanUp, Finally
    <3>5. CASE CheckClient(p) \/ LinkClient(p) \/ WriteReceipt(p)
      BY <3>5 DEF CheckClient, LinkClient, WriteReceipt
    <3> QED
      BY <1>11, <3>1, <3>2, <3>3, <3>4, <3>5 DEF StepOf
  <2> QED
    BY <2>1, <2>2, <1>2, <1>4 DEF Holding
<1> QED
  BY <1>5, <1>6, <1>7, <1>8, <1>9, <1>10, <1>11

(* Whoever is past WriteOwner is the one owner there is. *)
LEMMA LockExcludes ==
  ASSUME FirstTypeOK, LockInv
  PROVE  LaunchersExclude
<1>. SUFFICES ASSUME Exclusive
              PROVE  Cardinality({p \in Commands : cmdPc[p] \in Holding}) <= 1
  BY DEF LaunchersExclude, Exclusive
<1>1. \A p, q \in Commands : cmdPc[p] \in Holding /\ cmdPc[q] \in Holding => p = q
  BY DEF LockInv
<1>2. CASE \A p \in Commands : cmdPc[p] \notin Holding
  <2>1. {p \in Commands : cmdPc[p] \in Holding} = {}
    BY <1>2
  <2> QED
    BY <2>1, FS_EmptySet
<1>3. CASE \E p \in Commands : cmdPc[p] \in Holding
  <2>1. PICK p \in Commands : cmdPc[p] \in Holding
    BY <1>3
  <2>2. {q \in Commands : cmdPc[q] \in Holding} = {p}
    BY <2>1, <1>1
  <2>3. Cardinality({p}) = 1
    BY FS_Singleton
  <2> QED
    BY <2>2, <2>3
<1> QED
  BY <1>2, <1>3
---------------------------------------------------------------------------
(* Keys and profiles. *)

LEMMA StepKeepsKeys ==
  ASSUME FirstTypeOK, KeyInv, NEW p \in Commands, StepOf(p)
  PROVE  KeyInv'
<1>. DEFINE KeyPcs == {"profile", "init", "doctor", "tunnel", "fail", "finally", "killed"}
<1>1. \A q \in Commands \ {p} :
        /\ cmdPc'[q] = cmdPc[q] /\ cmd'[q] = cmd[q]
        /\ q \in keyFiles' => q \in keyFiles
  <2>1. keyFiles' \subseteq keyFiles \cup {p}
    BY DEF StepOf, StartCommand, MakeLock, InspectOwner, ReclaimOwned, RemakeLock, WriteOwner,
       Release, Look, ClearLock, WriteState, ComposeUp, Locate, HandOver, WriteKey,
       CheckProfile, InitProfile, Doctor, EndTunnel, Fails, Signal, CleanUp, Finally,
       CheckClient, LinkClient, WriteReceipt, UnlinkClient, UnlinkReceipt, Confirm,
       Dismantle, Forget, Kill, runFiles
  <2> QED
    BY <2>1, OneCommandMoves
<1>2. p \in keyFiles' => cmdPc'[p] \in KeyPcs
  <2>1. CASE WriteKey(p) \/ Finally(p) \/ Signal(p)
    BY <2>1 DEF WriteKey, Finally, Signal, To, FirstTypeOK, KeyInv
  <2>2. CASE ~(WriteKey(p) \/ Finally(p) \/ Signal(p))
    <3>1. keyFiles' = keyFiles
      BY <2>2 DEF StepOf, StartCommand, MakeLock, InspectOwner, ReclaimOwned, RemakeLock, WriteOwner,
         Release, Look, ClearLock, WriteState, ComposeUp, Locate, HandOver,
         CheckProfile, InitProfile, Doctor, EndTunnel, Fails, CleanUp, CheckClient,
         LinkClient, WriteReceipt, UnlinkClient, UnlinkReceipt, Confirm, Dismantle,
         Forget, Kill, runFiles
    <3>2. CASE cmdPc[p] \in KeyPcs
      BY <2>2, <3>2 DEF StepOf, StartCommand, MakeLock, InspectOwner, ReclaimOwned, RemakeLock, WriteOwner,
         Release, Look, ClearLock, WriteState, ComposeUp, Locate, HandOver,
         CheckProfile, InitProfile, Doctor, EndTunnel, Fails, CleanUp, CheckClient,
         LinkClient, WriteReceipt, UnlinkClient, UnlinkReceipt, Confirm, Dismantle,
         Forget, Kill, To, Ends, FirstTypeOK
    <3> QED
      BY <3>1, <3>2 DEF KeyInv
  <2> QED
    BY <2>1, <2>2
<1>3. cmdPc'[p] = "init" => cmd'[p].provisional
  <2>1. CASE CheckProfile(p) \/ Signal(p)
    BY <2>1 DEF CheckProfile, Signal, To, FirstTypeOK, CmdRecords, KeyInv
  <2>2. CASE \/ WriteKey(p) \/ InitProfile(p) \/ Doctor(p) \/ EndTunnel(p) \/ Fails(p)
             \/ CleanUp(p) \/ Finally(p) \/ Kill(p)
    BY <2>2 DEF WriteKey, InitProfile, Doctor, EndTunnel, Fails, CleanUp, Finally, Kill, To,
       Ends, FirstTypeOK
  <2>3. CASE \/ CheckClient(p) \/ LinkClient(p) \/ WriteReceipt(p) \/ UnlinkClient(p)
             \/ UnlinkReceipt(p) \/ Confirm(p) \/ Dismantle(p) \/ Forget(p)
    BY <2>3 DEF CheckClient, LinkClient, WriteReceipt, UnlinkClient, UnlinkReceipt, Confirm,
       Dismantle, Forget, To, Ends, FirstTypeOK
  <2>4. CASE \/ \E kind \in Journeys \cup Lookers \cup {"install"},
                   stage \in {"journey", "install", "none"} : StartCommand(p, kind, stage)
             \/ MakeLock(p) \/ InspectOwner(p) \/ ReclaimOwned(p) \/ RemakeLock(p)
             \/ WriteOwner(p) \/ Release(p) \/ Look(p) \/ ClearLock(p)
             \/ WriteState(p) \/ ComposeUp(p) \/ Locate(p) \/ HandOver(p)
    BY <2>4 DEF StartCommand, MakeLock, InspectOwner, ReclaimOwned, RemakeLock, WriteOwner,
       Release, Look, ClearLock, WriteState, ComposeUp, Locate, HandOver, To, Ends, FirstTypeOK
  <2> QED
    BY <2>1, <2>2, <2>3, <2>4 DEF StepOf
<1> QED
  BY <1>1, <1>2, <1>3 DEF KeyInv

(* A profile is verified, or removed, by whoever made it. *)
LEMMA StepKeepsProfile ==
  ASSUME FirstTypeOK, KeyInv, ProfileInv, NEW p \in Commands, StepOf(p)
  PROVE  ProfileInv'
<1>1. \A q \in Commands \ {p} : cmd'[q] = cmd[q]
  BY OneCommandMoves
<1>2. CASE InitProfile(p)
  BY <1>2, <1>1 DEF InitProfile, ProfileInv, KeyInv
<1>3. CASE Doctor(p) \/ CleanUp(p)
  <2>1. CASE cmd[p].provisional
    BY <1>3, <2>1 DEF Doctor, CleanUp, ProfileInv, FirstTypeOK
  <2>2. CASE ~cmd[p].provisional
    BY <1>3, <2>2, <1>1 DEF Doctor, CleanUp, ProfileInv
  <2> QED
    BY <2>1, <2>2
<1>4. CASE ~(InitProfile(p) \/ Doctor(p) \/ CleanUp(p))
  <2>1. profile' = profile
    BY <1>4 DEF StepOf, StartCommand, MakeLock, InspectOwner, ReclaimOwned, RemakeLock, WriteOwner,
       Release, Look, ClearLock, WriteState, ComposeUp, Locate, HandOver, WriteKey,
       CheckProfile, EndTunnel, Fails, Signal, Finally, CheckClient, LinkClient,
       WriteReceipt, UnlinkClient, UnlinkReceipt, Confirm, Dismantle, Forget, Kill,
       runFiles
  <2>2. cmd[p].provisional => cmd'[p].provisional
    <3>. cmd \in [Commands -> CmdRecords]
      BY DEF FirstTypeOK
    <3>1. CASE \E kind \in Journeys \cup Lookers \cup {"install"},
                stage \in {"journey", "install", "none"} : StartCommand(p, kind, stage)
      BY <3>1 DEF StartCommand, CmdRecords
    <3>2. CASE Release(p) \/ HandOver(p) \/ CheckProfile(p)
      BY <3>2 DEF Release, HandOver, CheckProfile, Ends, CmdRecords
    <3>3. CASE CheckClient(p) \/ LinkClient(p) \/ WriteReceipt(p)
      BY <3>3 DEF CheckClient, LinkClient, WriteReceipt, CmdRecords
    <3>4. CASE UNCHANGED cmd \/ \E end \in {"ok", "failed", "incomplete"} : Ends(p, end)
      BY <3>4 DEF Ends, CmdRecords
    <3> QED
      BY <1>4, <3>1, <3>2, <3>3, <3>4 DEF StepOf, MakeLock, InspectOwner, ReclaimOwned, RemakeLock, WriteOwner, Look, ClearLock,
         WriteState, ComposeUp, Locate, WriteKey, EndTunnel, Fails, Signal, Finally,
         UnlinkClient, UnlinkReceipt, Confirm, Dismantle, Forget, Kill
  <2> QED
    BY <2>1, <2>2, <1>1 DEF ProfileInv
<1> QED
  BY <1>2, <1>3, <1>4

---------------------------------------------------------------------------
(* The gateway. *)

LEMMA StepKeepsStage ==
  ASSUME FirstTypeOK, StageInv, NEW p \in Commands, StepOf(p)
  PROVE  StageInv'
<1>. /\ cmd \in [Commands -> CmdRecords] /\ cmdPc \in [Commands -> CmdPcs]
  BY DEF FirstTypeOK
<1>1. \A q \in Commands \ {p} : cmdPc'[q] = cmdPc[q] /\ cmd'[q] = cmd[q]
  BY OneCommandMoves
<1>2. /\ cmdPc'[p] \in JourneyPcs => cmd'[p].stage = "journey"
      /\ cmdPc'[p] \in Acquiring \cup {"own"} => cmd'[p].stage # "none"
      /\ cmdPc'[p] \in Acquiring \cup {"idle", "own", "state", "up", "install"} =>
           cmd'[p].end = "none"
  <2>. USE DEF StageInv, JourneyPcs, Acquiring, To, Ends, CmdRecords
  <2>1. CASE \E kind \in Journeys \cup Lookers \cup {"install"},
              stage \in {"journey", "install", "none"} : StartCommand(p, kind, stage)
    BY <2>1 DEF StartCommand
  <2>2. CASE MakeLock(p) \/ InspectOwner(p) \/ ReclaimOwned(p) \/ RemakeLock(p)
    BY <2>2 DEF MakeLock, InspectOwner, ReclaimOwned, RemakeLock
  <2>3. CASE WriteOwner(p) \/ Release(p)
    BY <2>3 DEF WriteOwner, Release
  <2>4. CASE Look(p) \/ ClearLock(p) \/ UnlinkClient(p) \/ UnlinkReceipt(p)
             \/ Confirm(p) \/ Dismantle(p) \/ Forget(p)
    BY <2>4 DEF Look, ClearLock, UnlinkClient, UnlinkReceipt, Confirm, Dismantle, Forget
  <2>5. CASE WriteState(p) \/ ComposeUp(p) \/ Locate(p) \/ HandOver(p) \/ WriteKey(p)
    BY <2>5 DEF WriteState, ComposeUp, Locate, HandOver, WriteKey
  <2>6. CASE CheckProfile(p) \/ InitProfile(p) \/ Doctor(p) \/ EndTunnel(p)
    BY <2>6 DEF CheckProfile, InitProfile, Doctor, EndTunnel
  <2>7. CASE Fails(p) \/ Signal(p) \/ CleanUp(p) \/ Finally(p) \/ Kill(p)
    BY <2>7 DEF Fails, Signal, CleanUp, Finally, Kill
  <2>8. CASE CheckClient(p) \/ LinkClient(p) \/ WriteReceipt(p)
    BY <2>8 DEF CheckClient, LinkClient, WriteReceipt
  <2> QED
    BY <2>1, <2>2, <2>3, <2>4, <2>5, <2>6, <2>7, <2>8 DEF StepOf
<1> QED
  BY <1>1, <1>2 DEF StageInv

LEMMA StepKeepsGateway ==
  ASSUME FirstTypeOK, StageInv, GatewayInv, NEW p \in Commands, StepOf(p)
  PROVE  GatewayInv'
<1>. /\ cmd \in [Commands -> CmdRecords] /\ cmdPc \in [Commands -> CmdPcs]
     /\ container \in Commands \cup {Nobody}
  BY DEF FirstTypeOK
<1>. SUFFICES ASSUME container' # Nobody
              PROVE  /\ cmdPc'[container'] \notin BeforeCompose
                     /\ cmd'[container'].stage = "journey"
                     /\ cmd'[container'].end = "failed" => cmd'[container'].handed
  BY DEF GatewayInv
<1>1. \A q \in Commands \ {p} : cmdPc'[q] = cmdPc[q] /\ cmd'[q] = cmd[q]
  BY OneCommandMoves
<1>2. CASE ComposeUp(p) /\ container' = p
  BY <1>2 DEF ComposeUp, To, StageInv, JourneyPcs, BeforeCompose, Acquiring, Looking
<1>3. CASE ~(ComposeUp(p) /\ container' = p)
  <2>1. container' = container
    BY <1>3 DEF StepOf, StartCommand, MakeLock, InspectOwner, ReclaimOwned, RemakeLock, WriteOwner,
       Release, Look, ClearLock, WriteState, ComposeUp, Locate, HandOver, WriteKey,
       CheckProfile, InitProfile, Doctor, EndTunnel, Fails, Signal, CleanUp, Finally,
       CheckClient, LinkClient, WriteReceipt, UnlinkClient, UnlinkReceipt, Confirm,
       Dismantle, Forget, Kill, runFiles
  <2>2. CASE container # p
    BY <2>1, <2>2, <1>1 DEF GatewayInv
  <2>3. CASE container = p
    <3>1. /\ cmdPc[p] \notin BeforeCompose
          /\ cmd[p].stage = "journey"
          /\ cmd[p].end = "failed" => cmd[p].handed
      BY <2>1, <2>3 DEF GatewayInv
    <3>. USE <3>1 DEF BeforeCompose, Acquiring, Looking, To, Ends, CmdRecords
    <3>2. CASE Locate(p) \/ HandOver(p) \/ WriteKey(p) \/ CheckProfile(p) \/ InitProfile(p)
      BY <3>2, <2>1, <2>3 DEF Locate, HandOver, WriteKey, CheckProfile, InitProfile
    <3>3. CASE Doctor(p) \/ EndTunnel(p) \/ Fails(p) \/ Signal(p) \/ Finally(p) \/ Kill(p)
      BY <3>3, <2>1, <2>3 DEF Doctor, EndTunnel, Fails, Signal, Finally, Kill
    <3>4. CASE CleanUp(p) \/ Release(p)
      BY <3>4, <2>1, <2>3 DEF CleanUp, Release
    <3>5. CASE ~(\/ Locate(p) \/ HandOver(p) \/ WriteKey(p) \/ CheckProfile(p)
                 \/ InitProfile(p) \/ Doctor(p) \/ EndTunnel(p) \/ Fails(p) \/ Signal(p)
                 \/ Finally(p) \/ Kill(p) \/ CleanUp(p) \/ Release(p))
      BY <3>5 DEF StepOf, StartCommand, MakeLock, InspectOwner, ReclaimOwned, RemakeLock, WriteOwner,
         Look, ClearLock, WriteState, ComposeUp, CheckClient, LinkClient, WriteReceipt,
         UnlinkClient, UnlinkReceipt, Confirm, Dismantle, Forget
    <3> QED
      BY <3>2, <3>3, <3>4, <3>5
  <2> QED
    BY <2>2, <2>3
<1> QED
  BY <1>2, <1>3

(* Nothing is left, as keys, profiles and the gateway are accounted for. *)
LEMMA AccountedFor ==
  ASSUME FirstTypeOK, KeyInv, ProfileInv, GatewayInv
  PROVE  NothingIsLeft
BY DEF NothingIsLeft, FirstTypeOK, KeyInv, ProfileInv, GatewayInv, Running, Killed

---------------------------------------------------------------------------
(* The tunnel client. *)

(* What the invariants of the client say of one more step. *)
LEMMA StepKeepsClient ==
  ASSUME FirstTypeOK, RemovalInv, ClientIsOwned, NEW p \in Commands, StepOf(p)
  PROVE  RemovalInv' /\ ClientIsOwned'
<1>. /\ cmd \in [Commands -> CmdRecords] /\ cmdPc \in [Commands -> CmdPcs]
     /\ client \in [binary : Commands \cup {Nobody}, receipt : BOOLEAN]
  BY DEF FirstTypeOK
<1>1. /\ cmdPc[p] \notin {"done", "killed"}
      /\ \A q \in Commands \ {p} : cmdPc'[q] = cmdPc[q] /\ cmd'[q] = cmd[q]
  BY OneCommandMoves
<1>2. \A q \in Commands : HasRemoved(q) => HasRemoved(q)' /\ q # p
  BY <1>1 DEF HasRemoved
<1>3. CASE LinkClient(p)
  BY <1>3, <1>1, <1>2, CommandsAssumption
     DEF LinkClient, To, RemovalInv, ClientIsOwned, Claimed
<1>4. CASE WriteReceipt(p)
  BY <1>4, <1>1, <1>2, CommandsAssumption
     DEF WriteReceipt, To, RemovalInv, ClientIsOwned, Claimed
<1>5. CASE UnlinkClient(p)
  BY <1>5, <1>1, <1>2 DEF UnlinkClient, To, Ends, RemovalInv, ClientIsOwned, Claimed
<1>6. CASE UnlinkReceipt(p)
  BY <1>6, <1>1, <1>2 DEF UnlinkReceipt, To, Ends, RemovalInv, ClientIsOwned, Claimed, HasRemoved
<1>7. CASE ~(LinkClient(p) \/ WriteReceipt(p) \/ UnlinkClient(p) \/ UnlinkReceipt(p))
  <2>1. client' = client
    BY <1>7 DEF StepOf, StartCommand, MakeLock, InspectOwner, ReclaimOwned, RemakeLock, WriteOwner,
       Release, Look, ClearLock, WriteState, ComposeUp, Locate, HandOver, WriteKey,
       CheckProfile, InitProfile, Doctor, EndTunnel, Fails, Signal, CleanUp, Finally,
       CheckClient, Confirm, Dismantle, Forget, Kill, runFiles
  <2>2. /\ cmdPc'[p] = "unlinkReceipt" => cmdPc[p] = "unlinkReceipt"
        /\ cmdPc'[p] = cmdPc[p] => cmd'[p] = cmd[p]
        /\ cmdPc'[p] = "unlink" /\ cmdPc[p] # "unlink" => cmd'[p].kind = "remove"
        /\ cmdPc[p] = "receipt" => cmdPc'[p] \in {"receipt", "killed"}
    BY <1>7 DEF StepOf, StartCommand, MakeLock, InspectOwner, ReclaimOwned, RemakeLock, WriteOwner,
       Release, Look, ClearLock, WriteState, ComposeUp, Locate, HandOver, WriteKey,
       CheckProfile, InitProfile, Doctor, EndTunnel, Fails, Signal, CleanUp, Finally,
       CheckClient, Confirm, Dismantle, Forget, Kill, To, Ends, Running
  <2> QED
    BY <2>1, <2>2, <1>1, <1>2 DEF RemovalInv, ClientIsOwned, Claimed
<1> QED
  BY <1>3, <1>4, <1>5, <1>6, <1>7

---------------------------------------------------------------------------
LEMMA ConciergeInductive ==
  ASSUME ConciergeInv, [FirstNext]_firstVars
  PROVE  ConciergeInv'
<1>1. CASE FirstNext
  <2>1. PICK p \in Commands : StepOf(p)
    BY <1>1 DEF FirstNext, StepOf
  <2> QED
    BY <2>1, StepKeepsTypes, StepKeepsLock, StepKeepsKeys, StepKeepsProfile, StepKeepsStage,
       StepKeepsGateway, StepKeepsClient DEF ConciergeInv
<1>2. CASE UNCHANGED firstVars
  <2>. USE <1>2 DEF firstVars, ConciergeInv
  <2>1. FirstTypeOK' /\ KeyInv' /\ ProfileInv' /\ StageInv' /\ GatewayInv'
    BY DEF FirstTypeOK, KeyInv, ProfileInv, StageInv, GatewayInv
  <2>2. LockInv'
    BY DEF LockInv, Exclusive, WasReset, Killed
  <2>3. RemovalInv' /\ ClientIsOwned'
    BY DEF RemovalInv, ClientIsOwned, Claimed, HasRemoved
  <2> QED
    BY <2>1, <2>2, <2>3
<1> QED
  BY <1>1, <1>2

(* Locks, keys, profiles, gateways and tunnel clients are accounted for after
   any steps of any commands: what acquireLock, runJourney and the tunnel
   client commands keep true together. *)
THEOREM ConciergeInvariant == FirstSpec => []ConciergeInv
<1>1. FirstInit => ConciergeInv
  <2>. SUFFICES ASSUME FirstInit
                PROVE  ConciergeInv
    OBVIOUS
  <2>1. FirstTypeOK
    BY InitTypes
  <2>2. \A p \in Commands : cmdPc[p] = "idle" /\ cmd[p] = Idle
    BY DEF FirstInit
  <2>3. LockInv /\ KeyInv /\ ProfileInv /\ StageInv /\ GatewayInv
    BY <2>2, CommandsAssumption DEF FirstInit, LockInv, KeyInv, ProfileInv, StageInv,
       GatewayInv, Idle, NoLock, JourneyPcs, Acquiring, Holding
  <2>4. RemovalInv /\ ClientIsOwned
    BY <2>2 DEF FirstInit, RemovalInv, ClientIsOwned
  <2> QED
    BY <2>1, <2>3, <2>4 DEF ConciergeInv
<1> QED
  BY <1>1, ConciergeInductive, PTL DEF FirstSpec

(* acquireLock and its release: without stale locks and resets, one launcher
   at most is between them. *)
THEOREM LaunchersAreExclusive == FirstSpec => []LaunchersExclude
<1>1. ConciergeInv => LaunchersExclude
  BY LockExcludes DEF ConciergeInv
<1> QED
  BY <1>1, ConciergeInvariant, PTL

(* The catch and finally clauses of runJourney: keys, unverified profiles and
   gateways of failed journeys are gone when their commands have ended. *)
THEOREM NothingIsLeftBehind == FirstSpec => []NothingIsLeft
<1>1. ConciergeInv => NothingIsLeft
  BY AccountedFor DEF ConciergeInv
<1> QED
  BY <1>1, ConciergeInvariant, PTL

(* installCheckoutTunnelClient and removeCheckoutTunnelClient: a client that
   is there has its receipt, or its installation writes it or was killed,
   unless two removals have succeeded. *)
THEOREM ClientsAreOwned == FirstSpec => []ClientIsOwned
<1>1. ConciergeInv => ClientIsOwned
  BY DEF ConciergeInv
<1> QED
  BY <1>1, ConciergeInvariant, PTL
=============================================================================
