--------------------------- MODULE CompositionProofs ---------------------------
(***************************************************************************)
(* Proofs about the compositions that one run checks: a behaviour of one   *)
(* is a behaviour of every component in it, fairness included, so that     *)
(* what is proved of the components holds of it.                           *)
(***************************************************************************)
EXTENDS MCProtocols, MCServices, DispatchProofs, FirstRunProofs, ServiceProofs

----------------------------------------------------------------------------
(* The protocols. *)

LEMMA ProtocolsBegin ==
  ASSUME ProtocolsInit
  PROVE  /\ PostgresInit /\ SqliteInit /\ PrepInit /\ RunnerInit /\ FirstInit
         /\ PolicyInit /\ SyncInit /\ storedCards = {} /\ CardInit
BY DEF ProtocolsInit

LEMMA ProtocolsStep ==
  ASSUME [ProtocolsNext]_<<pgVars, liteVars, prepVars, runVars, firstVars,
                           polVars, chatVars, works>>
  PROVE  /\ [PostgresNext]_pgVars /\ [SqliteNext]_liteVars
         /\ [PreparedNext]_prepVars /\ [RunnerNext]_runVars
         /\ [FirstNext]_firstVars /\ [PolicyNext]_polVars
         /\ [CardNext]_<<syncVars, cardVars>>
<1>1. \/ UNCHANGED <<pgVars, liteVars, prepVars, runVars, firstVars, polVars, chatVars, works>>
      \/ ProtocolsNext
  OBVIOUS
<1>. QED  BY <1>1 DEF ProtocolsNext, chatVars

(* The run of the protocols checks each of them as it is specified alone:
   whichever works, the others take no step that they could not take. *)
THEOREM ProtocolsAreTheirs ==
  ProtocolsSpec =>
    /\ PostgresSpec /\ SqliteSpec /\ PreparedSpec /\ RunnerSpec
    /\ FirstSpec /\ PolicySpec /\ CardSpec
<1>1. ProtocolsInit =>
        /\ PostgresInit /\ SqliteInit /\ PrepInit /\ RunnerInit /\ FirstInit
        /\ PolicyInit /\ SyncInit /\ storedCards = {} /\ CardInit
  BY ProtocolsBegin
<1>2. [ProtocolsNext]_<<pgVars, liteVars, prepVars, runVars, firstVars,
                        polVars, chatVars, works>> =>
        /\ [PostgresNext]_pgVars /\ [SqliteNext]_liteVars
        /\ [PreparedNext]_prepVars /\ [RunnerNext]_runVars
        /\ [FirstNext]_firstVars /\ [PolicyNext]_polVars
        /\ [CardNext]_<<syncVars, cardVars>>
  BY ProtocolsStep
<1>. QED  BY <1>1, <1>2, PTL DEF ProtocolsSpec, PostgresSpec, SqliteSpec, PreparedSpec,
                                 RunnerSpec, FirstSpec, PolicySpec, CardSpec

(* The records, locations and files of every protocol keep their types, also
   while another one works. *)
THEOREM ProtocolsKeepTypes == ProtocolsSpec => []ProtocolTypes
<1>1. FlowInv /\ RunInv /\ ConciergeInv /\ PolicyTypeOK /\ CardInv => ProtocolTypes
  BY DEF FlowInv, RunInv, ConciergeInv, CardInv, ProtocolTypes
<1>. QED  BY <1>1, ProtocolsAreTheirs, FlowInvariant, RunnerInvariant, ConciergeInvariant,
             PolicyTypes, CardsInvariant, PTL

----------------------------------------------------------------------------
(* The services. *)

LEMMA ServicesStep ==
  ASSUME [ServicesNext]_<<serves, vars, migVars, syncVars, keyVars>>
  PROVE  /\ [Next]_vars /\ [MigrationNext]_migVars
         /\ [SyncNext]_syncVars /\ [KeysNext]_keyVars
         /\ serves' = serves
<1>1. \/ UNCHANGED <<serves, vars, migVars, syncVars, keyVars>>
      \/ ServicesNext
  OBVIOUS
<1>. QED  BY <1>1 DEF ServicesNext

(* The run of the services checks each of them as it is specified alone, and
   under its own fairness; the processes that migrate start in it only when
   it is their turn. *)
THEOREM ServicesAreTheirs ==
  ServicesSpec =>
    /\ FairSpec /\ SyncSpec /\ KeysSpec
    /\ serves = "migration" => MigrationSpec
<1>1. ServicesInit => /\ Init /\ SyncInit /\ KeyInit
                      /\ serves = "migration" => MigrationInit
  BY DEF ServicesInit
<1>2. [ServicesNext]_<<serves, vars, migVars, syncVars, keyVars>> =>
        /\ [Next]_vars /\ [MigrationNext]_migVars
        /\ [SyncNext]_syncVars /\ [KeysNext]_keyVars
  BY ServicesStep
<1>. QED  BY <1>1, <1>2, PTL DEF ServicesSpec, FairSpec, Spec, SyncSpec, KeysSpec, MigrationSpec

(* The ledger is in order also while no process starts. *)
LEMMA ServicesKeepLedger == ServicesSpec => []LedgerInv
<1>1. ServicesInit => LedgerInv
  <2>1. NobodyStarts => LedgerInv
    BY MigrationsAssumption, EmptySeq
       DEF NobodyStarts, LedgerInv, MigrationTypeOK, IsPrefixOfKnown, NoFile
  <2>2. MigrationInit => LedgerInv
    BY MigrationsAssumption, EmptySeq
       DEF MigrationInit, LedgerInv, MigrationTypeOK, IsPrefixOfKnown, NoFile, Waiting
  <2>. QED  BY <2>1, <2>2 DEF ServicesInit
<1>2. LedgerInv /\ [ServicesNext]_<<serves, vars, migVars, syncVars, keyVars>> => LedgerInv'
  BY LedgerInductive, ServicesStep
<1>. QED  BY <1>1, <1>2, PTL DEF ServicesSpec

(* The events, locks, batches and keys of every service keep their types. *)
THEOREM ServicesKeepTypes == ServicesSpec => []ServiceTypes
<1>1. TypeOK /\ LedgerInv /\ CoverInv /\ KeysInv => ServiceTypes
  BY DEF LedgerInv, CoverInv, KeysInv, ServiceTypes
<1>. QED  BY <1>1, ServicesAreTheirs, ServicesKeepLedger, AuditTypeCorrect,
             EveryCallIsCovered, KeysInvariant, PTL DEF FairSpec

===============================================================================
