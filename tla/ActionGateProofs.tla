--------------------------- MODULE ActionGateProofs ---------------------------
(***************************************************************************)
(* Proofs about ActionGate, for every set of calls, principals, inputs and *)
(* policies: type correctness, that an action takes effect at most once,   *)
(* and that a refused action is never reserved, let alone run.             *)
(***************************************************************************)
EXTENDS ActionGate, TLAPS

------------------------------------------------------------------------------
(* Operators *)

(* The values calls and records start from are well typed. *)
LEMMA ConstantTypes ==
  /\ NoToolCall \in ToolCalls
  /\ NoLocals \in Locals
BY GateAssumption DEF GateAssumption, NoToolCall, ToolCalls, ToolCallStatus,
   Decisions, Sources, NoLocals, Locals, Kinds, Reports, ReportStates

(* A call that moves on stays at a known label. *)
LEMMA GotoType ==
  ASSUME PcTypes, NEW c \in Calls
  PROVE  \A label \in Pcs : Goto(c, label) => PcTypes'
BY DEF PcTypes, Goto

(* A call that returns is idle and forgets its snapshots. *)
LEMMA ReturnType ==
  ASSUME PcTypes, LocTypes, NEW c \in Calls, Return(c)
  PROVE  PcTypes' /\ LocTypes'
BY ConstantTypes DEF PcTypes, LocTypes, Return, Pcs

(* What the fields of a snapshot are. *)
LEMMA SnapshotType ==
  ASSUME LocTypes, NEW c \in Calls
  PROVE  /\ loc[c].tc \in ToolCalls
         /\ loc[c].report \in Reports
         /\ loc[c].input \in Inputs
         /\ loc[c].who \in Principals
         /\ loc[c].via \in BOOLEAN
BY DEF LocTypes, Locals

(* A call may replace the tool call it remembers. *)
LEMMA SetSnapshot ==
  ASSUME LocTypes, NEW c \in Calls, NEW t \in ToolCalls
  PROVE  [loc EXCEPT ![c].tc = t] \in [Calls -> Locals]
BY DEF LocTypes, Locals

(* A reported execution may only be marked as a replay. *)
LEMMA SetReplay ==
  ASSUME LocTypes, NEW c \in Calls
  PROVE  [loc EXCEPT ![c].replay = TRUE] \in [Calls -> Locals]
BY DEF LocTypes, Locals

(* The rule of a tool call is a rule of the policy it was decided by. *)
LEMMA RuleType ==
  ASSUME NEW t \in ToolCalls
  PROVE  OriginalRule(t) \in Rules
BY GateAssumption DEF GateAssumption, OriginalRule, ToolCalls

(* A guard may change a decision, but only into a decision. *)
LEMMA DecisionType ==
  ASSUME NEW rule \in Rules, NEW seen
  PROVE  EffectiveDecision(rule, seen) \in Decisions
BY DEF EffectiveDecision, Rules, Decisions

(* The tool call a submission will store is one. *)
LEMMA DraftType ==
  ASSUME NEW t \in ToolCalls, NEW seen \in SUBSET Sources, NEW rev \in Int
  PROVE  DraftToolCall(t, seen, rev) \in ToolCalls
<1>1. EffectiveDecision(OriginalRule(t), seen) \in Decisions
  BY RuleType, DecisionType
<1>2. ExposureRequired(t) \in BOOLEAN
  BY RuleType DEF ExposureRequired, Classified, ToolCalls
<1> QED BY <1>1, <1>2 DEF DraftToolCall, ToolCalls

(* So is the one a local execution stores with its result, *)
LEMMA ExecutedType ==
  ASSUME LocTypes, NEW c \in Calls
  PROVE  LocalExecuted(c) \in ToolCalls
<1>1. loc[c].tc \in ToolCalls
  BY SnapshotType
<1>2. loc[c].tc.withheld \/ ExposureRequired(loc[c].tc) \in BOOLEAN
  BY <1>1, RuleType DEF ExposureRequired, Classified, ToolCalls
<1> QED BY <1>1, <1>2 DEF LocalExecuted, ToolCalls, ToolCallStatus

(* and the one a report stores with its outcome. *)
LEMMA TerminalType ==
  ASSUME LocTypes, NEW c \in Calls
  PROVE  TerminalToolCall(c) \in ToolCalls
<1>1. loc[c].tc \in ToolCalls
  BY SnapshotType
<1>2. DeliveryExposes(c) \in BOOLEAN
  BY DEF DeliveryExposes
<1> QED BY <1>1, <1>2 DEF TerminalToolCall, ToolCalls, ToolCallStatus

(* Every vote is of a principal, for an input. *)
LEMMA VotesType ==
  ASSUME LocTypes, ap \in Approvals, NEW c \in Calls
  PROVE  VotesWith(c) \subseteq Votes
BY SnapshotType DEF VotesWith, Votes, Approvals

(* The compare-and-set that ends or advances an attempt. *)
LEMMA CompleteType ==
  ASSUME PcTypes, LocTypes, att \in Attempts, NEW c \in Calls, NEW from,
         NEW to \in AttemptStates, NEW next \in Pcs,
         CompleteAttempt(c, from, to, next)
  PROVE  PcTypes' /\ LocTypes' /\ att' \in Attempts
<1>1. CASE OwnsAttempt(c, from)
  BY <1>1, GotoType DEF CompleteAttempt, LocTypes, Attempts
<1>2. CASE ~OwnsAttempt(c, from)
  BY <1>2, ReturnType DEF CompleteAttempt
<1> QED BY <1>1, <1>2

(* The exposure of a result is one of the policy's sources. *)
LEMMA ExposureType ==
  ASSUME EnvironmentTypes, NEW t \in ToolCalls, RecordExposure(t)
  PROVE  revision' \in Nat /\ sources' \subseteq Sources /\ exposed' \in BOOLEAN
<1>1. OriginalRule(t).source \in Sources
  BY RuleType DEF Rules
<1> QED BY <1>1 DEF RecordExposure, EnvironmentTypes

------------------------------------------------------------------------------
(* Type correctness *)

(* The empty store is well typed. *)
LEMMA InitType == Init => TypeOK
<1> SUFFICES ASSUME Init PROVE TypeOK
  OBVIOUS
<1>1. EnvironmentTypes
  <2>1. /\ now = 0 /\ policy \in Versions /\ revision = 0 /\ sources = {}
        /\ exposed = FALSE /\ effects = 0 /\ faults = 0
    BY DEF Init, GateInit
  <2>2. now \in 0..MaxTime /\ faults \in 0..MaxFaults
    BY <2>1, GateAssumption DEF GateAssumption
  <2>3. revision \in Nat /\ effects \in Nat
    BY <2>1
  <2>4. sources \subseteq Sources /\ exposed \in BOOLEAN
    BY <2>1
  <2> QED BY <2>1, <2>2, <2>3, <2>4 DEF EnvironmentTypes
<1>2. tc \in ToolCalls /\ LocTypes
  BY ConstantTypes DEF LocTypes, Init, GateInit
<1>3. ap \in Approvals
  BY GateAssumption DEF GateAssumption, Approvals, ApprovalStatus, Init,
     GateInit
<1>4. att \in Attempts
  BY GateAssumption DEF GateAssumption, Attempts, AttemptStates, Init,
     GateInit
<1>5. grant \in Grants /\ receipt \in Receipts
  BY GateAssumption DEF GateAssumption, Grants, Receipts, LegacyStates, Init,
     GateInit
<1>6. PcTypes
  BY DEF PcTypes, Pcs, Init, GateInit
<1> QED BY <1>1, <1>2, <1>3, <1>4, <1>5, <1>6 DEF TypeOK, RecordTypes

(* A submission keeps the types. *)
LEMMA SubmitStepType ==
  ASSUME TypeOK, NEW c \in Calls, SubmitStep(c)
  PROVE  TypeOK'
<1> USE DEF TypeOK

<1>1. CASE SubmitInfluence(c)
  <2>1. EnvironmentTypes' /\ RecordTypes'
    BY <1>1 DEF SubmitInfluence, EnvironmentTypes, RecordTypes, env, scope,
       records
  <2>2. PcTypes'
    BY <1>1, GotoType DEF SubmitInfluence, Pcs
  <2> DEFINE draft == loc[c].tc
             new == IF OriginalRule(draft).guarded
                    THEN DraftToolCall(draft, ObservedSources(draft.scoped),
                                       IF draft.scoped THEN revision ELSE 0)
                    ELSE DraftToolCall(draft, {}, 0)
  <2>3. ObservedSources(draft.scoped) \subseteq Sources
    BY GateAssumption
       DEF GateAssumption, ObservedSources, EnvironmentTypes, Sources
  <2>4. new \in ToolCalls
    BY <2>3, DraftType, SnapshotType DEF EnvironmentTypes
  <2>5. loc' = [loc EXCEPT ![c].tc = new]
    BY <1>1 DEF SubmitInfluence
  <2> HIDE DEF new
  <2>6. LocTypes'
    BY <2>4, <2>5, SetSnapshot DEF LocTypes
  <2> QED BY <2>1, <2>2, <2>6
<1>2. CASE SubmitCreate(c)
  <2>1. EnvironmentTypes' /\ RecordTypes'
    BY <1>2, SnapshotType, GateAssumption DEF SubmitCreate, EnvironmentTypes,
       RecordTypes, env, scope, execution, ToolCalls, ToolCallStatus,
       GateAssumption
  <2>2. PcTypes'
    BY <1>2, GotoType DEF SubmitCreate, Pcs
  <2>3. OriginalInput \in Inputs
    BY GateAssumption DEF GateAssumption
  <2>4. \/ loc' = loc
        \/ loc' = [loc EXCEPT ![c].input = OriginalInput, ![c].via = FALSE]
    BY <1>2 DEF SubmitCreate
  <2>5. LocTypes'
    BY <2>3, <2>4 DEF LocTypes, Locals
  <2> QED BY <2>1, <2>2, <2>5
<1>3. CASE SubmitReplay(c)
  <2>1. EnvironmentTypes' /\ RecordTypes'
    BY <1>3 DEF SubmitReplay, EnvironmentTypes, RecordTypes, env, scope,
       records
  <2>2. PcTypes'
    BY <1>3, ReturnType DEF SubmitReplay
  <2>3. LocTypes'
    BY <1>3, ReturnType DEF SubmitReplay, LocTypes
  <2> QED BY <2>1, <2>2, <2>3
<1>4. CASE SubmitBlock(c)
  <2>1. EnvironmentTypes' /\ RecordTypes'
    BY <1>4, SnapshotType DEF SubmitBlock, EnvironmentTypes, RecordTypes, env,
       scope, execution, ToolCalls, ToolCallStatus
  <2>2. PcTypes'
    BY <1>4, ReturnType DEF SubmitBlock
  <2>3. LocTypes'
    BY <1>4, ReturnType DEF SubmitBlock, LocTypes
  <2> QED BY <2>1, <2>2, <2>3
<1>5. CASE SubmitPend(c)
  <2>1. EnvironmentTypes' /\ RecordTypes'
    BY <1>5, SnapshotType DEF SubmitPend, EnvironmentTypes, RecordTypes, env,
       scope, execution, ToolCalls, ToolCallStatus
  <2>2. PcTypes'
    BY <1>5, GotoType DEF SubmitPend, Pcs
  <2>3. LocTypes'
    BY <1>5 DEF SubmitPend, LocTypes
  <2> QED BY <2>1, <2>2, <2>3
<1>6. CASE SubmitApproval(c)
  <2>1. EnvironmentTypes' /\ RecordTypes'
    BY <1>6, SnapshotType, GateAssumption DEF SubmitApproval,
       EnvironmentTypes, RecordTypes, env, scope, execution, Approvals,
       ApprovalStatus, Refused, GateAssumption, LocTypes, Locals
  <2>2. PcTypes'
    BY <1>6, ReturnType DEF SubmitApproval
  <2>3. LocTypes'
    BY <1>6, ReturnType DEF SubmitApproval, LocTypes
  <2> QED BY <2>1, <2>2, <2>3
<1> QED BY <1>1, <1>2, <1>3, <1>4, <1>5, <1>6 DEF SubmitStep

(* A vote keeps the types. *)
LEMMA ApproveStepType ==
  ASSUME TypeOK, NEW c \in Calls, ApproveStep(c)
  PROVE  TypeOK'
<1> USE DEF TypeOK

<1>1. CASE ApproveLoad(c)
  <2>1. EnvironmentTypes' /\ RecordTypes'
    BY <1>1 DEF ApproveLoad, EnvironmentTypes, RecordTypes, env, scope,
       records
  <2>2. PcTypes'
    BY <1>1, GotoType, ReturnType DEF ApproveLoad, Pcs
  <2>3. LocTypes'
    BY <1>1, ReturnType DEF ApproveLoad, LocTypes
  <2> QED BY <2>1, <2>2, <2>3
<1>2. CASE ApproveCheck(c)
  <2>1. EnvironmentTypes' /\ RecordTypes'
    BY <1>2 DEF ApproveCheck, EnvironmentTypes, RecordTypes, env, scope,
       records
  <2>2. PcTypes'
    BY <1>2, GotoType, ReturnType DEF ApproveCheck, Pcs
  <2>3. LocTypes'
    BY <1>2, ReturnType DEF ApproveCheck, LocTypes, Locals, RecordTypes,
       EnvironmentTypes
  <2> QED BY <2>1, <2>2, <2>3
<1>3. CASE ApproveRecord(c)
  <2>1. EnvironmentTypes' /\ RecordTypes'
    BY <1>3, VotesType DEF ApproveRecord, EnvironmentTypes, RecordTypes,
       Approvals, env, scope, execution
  <2>2. PcTypes'
    BY <1>3, ReturnType DEF ApproveRecord
  <2>3. LocTypes'
    BY <1>3, ReturnType DEF ApproveRecord, LocTypes
  <2> QED BY <2>1, <2>2, <2>3
<1>4. CASE ApproveFinalize(c)
  <2>1. EnvironmentTypes' /\ RecordTypes'
    BY <1>4, VotesType, SnapshotType
       DEF ApproveFinalize, EnvironmentTypes, RecordTypes, Approvals,
           ApprovalStatus, env, scope, execution
  <2>2. PcTypes'
    BY <1>4, GotoType DEF ApproveFinalize, Pcs
  <2>3. LocTypes'
    BY <1>4 DEF ApproveFinalize, LocTypes, Locals
  <2> QED BY <2>1, <2>2, <2>3
<1>5. CASE ApproveExpires(c)
  <2>1. EnvironmentTypes' /\ RecordTypes'
    BY <1>5 DEF ApproveExpires, EnvironmentTypes, RecordTypes, env, scope,
       execution, Approvals, ApprovalStatus, Refused
  <2>2. PcTypes'
    BY <1>5, GotoType DEF ApproveExpires, Pcs
  <2>3. LocTypes'
    BY <1>5 DEF ApproveExpires, LocTypes
  <2> QED BY <2>1, <2>2, <2>3
<1>6. CASE ApproveConflict(c)
  <2>1. EnvironmentTypes' /\ RecordTypes'
    BY <1>6 DEF ApproveConflict, EnvironmentTypes, RecordTypes, env, scope,
       records
  <2>2. PcTypes'
    BY <1>6, ReturnType DEF ApproveConflict
  <2>3. LocTypes'
    BY <1>6, ReturnType DEF ApproveConflict, LocTypes
  <2> QED BY <2>1, <2>2, <2>3
<1> QED BY <1>1, <1>2, <1>3, <1>4, <1>5, <1>6 DEF ApproveStep

(* A rejection, a cancellation or an expiry keeps the types. *)
LEMMA CloseStepType ==
  ASSUME TypeOK, NEW c \in Calls, CloseStep(c)
  PROVE  TypeOK'
<1> USE DEF TypeOK

<1>1. CASE CloseCheck(c)
  <2>1. EnvironmentTypes' /\ RecordTypes'
    BY <1>1 DEF CloseCheck, EnvironmentTypes, RecordTypes, env, scope, records
  <2>2. PcTypes'
    BY <1>1, GotoType, ReturnType DEF CloseCheck, Pcs
  <2>3. LocTypes'
    BY <1>1, ReturnType DEF CloseCheck, LocTypes, Locals, RecordTypes
  <2> QED BY <2>1, <2>2, <2>3
<1>2. CASE CloseLoad(c)
  <2>1. EnvironmentTypes' /\ RecordTypes'
    BY <1>2 DEF CloseLoad, EnvironmentTypes, RecordTypes, env, scope, records
  <2>2. PcTypes'
    BY <1>2, GotoType, ReturnType DEF CloseLoad, Pcs
  <2>3. LocTypes'
    BY <1>2, ReturnType DEF CloseLoad, LocTypes, Locals
  <2> QED BY <2>1, <2>2, <2>3
<1>3. CASE CloseCommit(c)
  <2>1. EnvironmentTypes' /\ RecordTypes'
    BY <1>3, SnapshotType DEF CloseCommit, EnvironmentTypes, RecordTypes, env,
       scope, execution, Approvals, ApprovalStatus, Refused
  <2>2. PcTypes'
    BY <1>3, GotoType DEF CloseCommit, Pcs
  <2>3. LocTypes'
    BY <1>3 DEF CloseCommit, LocTypes
  <2> QED BY <2>1, <2>2, <2>3
<1>4. CASE CloseExpires(c)
  <2>1. EnvironmentTypes' /\ RecordTypes'
    BY <1>4 DEF CloseExpires, EnvironmentTypes, RecordTypes, env, scope,
       execution, Approvals, ApprovalStatus, Refused
  <2>2. PcTypes'
    BY <1>4, GotoType DEF CloseExpires, Pcs
  <2>3. LocTypes'
    BY <1>4 DEF CloseExpires, LocTypes
  <2> QED BY <2>1, <2>2, <2>3
<1>5. CASE CloseConflict(c)
  <2>1. EnvironmentTypes' /\ RecordTypes'
    BY <1>5 DEF CloseConflict, EnvironmentTypes, RecordTypes, env, scope,
       records
  <2>2. PcTypes'
    BY <1>5, ReturnType DEF CloseConflict
  <2>3. LocTypes'
    BY <1>5, ReturnType DEF CloseConflict, LocTypes
  <2> QED BY <2>1, <2>2, <2>3
<1>6. CASE RejectWrite(c)
  <2>1. EnvironmentTypes' /\ RecordTypes'
    BY <1>6, SnapshotType DEF RejectWrite, EnvironmentTypes, RecordTypes, env,
       scope, execution, ToolCalls, ToolCallStatus
  <2>2. PcTypes'
    BY <1>6, ReturnType DEF RejectWrite
  <2>3. LocTypes'
    BY <1>6, ReturnType DEF RejectWrite, LocTypes
  <2> QED BY <2>1, <2>2, <2>3
<1>7. CASE Expire(c)
  <2>1. EnvironmentTypes' /\ RecordTypes'
    BY <1>7 DEF Expire, EnvironmentTypes, RecordTypes, env, scope, execution,
       Approvals, ApprovalStatus, Refused
  <2>2. PcTypes'
    BY <1>7, GotoType, ReturnType DEF Expire, Pcs
  <2>3. LocTypes'
    BY <1>7, ReturnType DEF Expire, LocTypes
  <2> QED BY <2>1, <2>2, <2>3
<1>8. CASE Terminalize(c)
  <2>1. EnvironmentTypes' /\ RecordTypes'
    BY <1>8, SnapshotType DEF Terminalize, EnvironmentTypes, RecordTypes, env,
       scope, execution, ToolCalls, ToolCallStatus
  <2>2. PcTypes'
    BY <1>8, ReturnType DEF Terminalize
  <2>3. LocTypes'
    BY <1>8, ReturnType DEF Terminalize, LocTypes
  <2> QED BY <2>1, <2>2, <2>3
<1> QED BY <1>1, <1>2, <1>3, <1>4, <1>5, <1>6, <1>7, <1>8 DEF CloseStep

(* A reservation keeps the types. *)
LEMMA ReservationStepType ==
  ASSUME TypeOK, NEW c \in Calls, ReservationStep(c)
  PROVE  TypeOK'
<1> USE DEF TypeOK

<1>1. CASE CreateReceipt(c)
  <2>1. EnvironmentTypes' /\ RecordTypes'
    BY <1>1 DEF CreateReceipt, EnvironmentTypes, RecordTypes, env, scope,
       Receipts, LegacyStates
  <2>2. PcTypes'
    BY <1>1, GotoType DEF CreateReceipt, Pcs
  <2>3. LocTypes'
    BY <1>1 DEF CreateReceipt, LocTypes
  <2> QED BY <2>1, <2>2, <2>3
<1>2. CASE Revalidate(c)
  <2>1. EnvironmentTypes' /\ RecordTypes'
    BY <1>2 DEF Revalidate, EnvironmentTypes, RecordTypes, env, scope, records
  <2>2. PcTypes'
    BY <1>2, GotoType DEF Revalidate, Pcs
  <2>3. LocTypes'
    BY <1>2 DEF Revalidate, LocTypes
  <2> QED BY <2>1, <2>2, <2>3
<1>3. CASE Reserve(c)
  <2>5. \/ att' = att
        \/ att' = [att EXCEPT !.state = "reserved", !.owner = c,
                              !.mode = loc[c].tc.mode, !.input = loc[c].input,
                              !.viaApproval = loc[c].via, !.reservedAt = now]
    BY <1>3 DEF Reserve
  <2>6. loc[c].tc.mode \in {"local_mock", "external_grant"} /\ now \in Nat
    BY SnapshotType DEF ToolCalls, EnvironmentTypes
  <2>7. att' \in Attempts
    BY <2>5, <2>6, SnapshotType DEF RecordTypes, Attempts, AttemptStates
  <2>1. EnvironmentTypes' /\ RecordTypes'
    BY <1>3, <2>7 DEF Reserve, EnvironmentTypes, RecordTypes, env, scope
  <2>2. PcTypes'
    BY <1>3, GotoType, ReturnType DEF Reserve, Pcs
  <2>3. ASSUME loc' = [loc EXCEPT ![c].tc.input = loc[c].input]
        PROVE  LocTypes'
    <3>1. [loc[c].tc EXCEPT !.input = loc[c].input] \in ToolCalls
      BY SnapshotType DEF ToolCalls
    <3>2. loc' = [loc EXCEPT ![c].tc =
                    [loc[c].tc EXCEPT !.input = loc[c].input]]
      BY <2>3
    <3> QED BY <3>1, <3>2, SetSnapshot DEF LocTypes
  <2>4. LocTypes'
    BY <1>3, <2>3, ReturnType DEF Reserve
  <2> QED BY <2>1, <2>2, <2>4
<1>4. CASE FailBeforeDispatch(c)
  <2>1. EnvironmentTypes' /\ RecordTypes'
    BY <1>4, CompleteType DEF FailBeforeDispatch, EnvironmentTypes,
       RecordTypes, env, scope, Pcs, AttemptStates, TerminalStates,
       ReportStates
  <2>2. PcTypes'
    BY <1>4, CompleteType DEF FailBeforeDispatch, RecordTypes, Pcs,
       AttemptStates, TerminalStates, ReportStates
  <2>3. LocTypes'
    BY <1>4, CompleteType DEF FailBeforeDispatch, LocTypes, RecordTypes, Pcs,
       AttemptStates, TerminalStates, ReportStates
  <2> QED BY <2>1, <2>2, <2>3
<1>5. CASE FailToolCall(c)
  <2>1. EnvironmentTypes' /\ RecordTypes'
    BY <1>5, SnapshotType DEF FailToolCall, EnvironmentTypes, RecordTypes,
       env, scope, ToolCalls, ToolCallStatus
  <2>2. PcTypes'
    BY <1>5, GotoType DEF FailToolCall, Pcs
  <2>3. LocTypes'
    BY <1>5 DEF FailToolCall, LocTypes
  <2> QED BY <2>1, <2>2, <2>3
<1>6. CASE FailReceipt(c)
  <2>1. EnvironmentTypes' /\ RecordTypes'
    BY <1>6 DEF FailReceipt, EnvironmentTypes, RecordTypes, env, scope,
       Receipts, LegacyStates
  <2>2. PcTypes'
    BY <1>6, ReturnType DEF FailReceipt
  <2>3. LocTypes'
    BY <1>6, ReturnType DEF FailReceipt, LocTypes
  <2> QED BY <2>1, <2>2, <2>3
<1> QED BY <1>1, <1>2, <1>3, <1>4, <1>5, <1>6 DEF ReservationStep

(* A local execution keeps the types. *)
LEMMA LocalStepType ==
  ASSUME TypeOK, NEW c \in Calls, LocalStep(c)
  PROVE  TypeOK'
<1> USE DEF TypeOK

<1>1. CASE LocalPreflight(c)
  <2>1. EnvironmentTypes' /\ RecordTypes'
    BY <1>1 DEF LocalPreflight, EnvironmentTypes, RecordTypes, env, scope,
       records
  <2>2. PcTypes'
    BY <1>1, GotoType DEF LocalPreflight, Pcs
  <2>3. LocTypes'
    BY <1>1 DEF LocalPreflight, LocTypes
  <2> QED BY <2>1, <2>2, <2>3
<1>2. CASE LocalBind(c)
  <2>1. EnvironmentTypes' /\ RecordTypes'
    BY <1>2 DEF LocalBind, EnvironmentTypes, RecordTypes, env, scope, records
  <2>2. PcTypes'
    BY <1>2, GotoType DEF LocalBind, Pcs
  <2>3. LocTypes'
    BY <1>2 DEF LocalBind, LocTypes
  <2> QED BY <2>1, <2>2, <2>3
<1>3. CASE LocalDispatch(c)
  <2>4. att' = att \/ att' = [att EXCEPT !.state = "dispatched"]
    BY <1>3 DEF LocalDispatch
  <2>1. EnvironmentTypes' /\ RecordTypes'
    BY <1>3, <2>4 DEF LocalDispatch, EnvironmentTypes, RecordTypes, Attempts,
       AttemptStates, env, scope
  <2>2. PcTypes'
    BY <1>3, GotoType, ReturnType DEF LocalDispatch, Pcs
  <2>3. LocTypes'
    BY <1>3, ReturnType DEF LocalDispatch, LocTypes
  <2> QED BY <2>1, <2>2, <2>3
<1>4. CASE LocalInvoke(c)
  <2>1. EnvironmentTypes' /\ RecordTypes'
    BY <1>4 DEF LocalInvoke, EnvironmentTypes, RecordTypes, env, scope,
       records
  <2>2. PcTypes'
    BY <1>4, GotoType DEF LocalInvoke, Pcs
  <2>3. LocTypes'
    BY <1>4 DEF LocalInvoke, LocTypes
  <2> QED BY <2>1, <2>2, <2>3
<1>5. CASE LocalRefused(c)
  <2>1. EnvironmentTypes' /\ RecordTypes'
    BY <1>5 DEF LocalRefused, EnvironmentTypes, RecordTypes, env, scope,
       records
  <2>2. PcTypes'
    BY <1>5, GotoType DEF LocalRefused, Pcs
  <2>3. LocTypes'
    BY <1>5 DEF LocalRefused, LocTypes
  <2> QED BY <2>1, <2>2, <2>3
<1>6. CASE LocalUnknown(c)
  <2>1. EnvironmentTypes' /\ RecordTypes'
    BY <1>6, CompleteType DEF LocalUnknown, EnvironmentTypes, RecordTypes,
       env, scope, Pcs, AttemptStates, TerminalStates, ReportStates
  <2>2. PcTypes'
    BY <1>6, CompleteType DEF LocalUnknown, RecordTypes, Pcs, AttemptStates,
       TerminalStates, ReportStates
  <2>3. LocTypes'
    BY <1>6, CompleteType DEF LocalUnknown, LocTypes, RecordTypes, Pcs,
       AttemptStates, TerminalStates, ReportStates
  <2> QED BY <2>1, <2>2, <2>3
<1>7. CASE LocalResult(c)
  <2>1. EnvironmentTypes' /\ RecordTypes'
    BY <1>7, CompleteType DEF LocalResult, EnvironmentTypes, RecordTypes, env,
       scope, Pcs, AttemptStates, TerminalStates, ReportStates
  <2>2. PcTypes'
    BY <1>7, CompleteType DEF LocalResult, RecordTypes, Pcs, AttemptStates,
       TerminalStates, ReportStates
  <2>3. LocTypes'
    BY <1>7, CompleteType DEF LocalResult, LocTypes, RecordTypes, Pcs,
       AttemptStates, TerminalStates, ReportStates
  <2> QED BY <2>1, <2>2, <2>3
<1>8. CASE LocalWrite(c)
  <2>1. EnvironmentTypes' /\ RecordTypes'
    BY <1>8, ExecutedType DEF LocalWrite, EnvironmentTypes, RecordTypes,
       env, scope
  <2>2. PcTypes'
    BY <1>8, GotoType DEF LocalWrite, Pcs
  <2>3. LocTypes'
    BY <1>8, ExecutedType, SetSnapshot DEF LocalWrite, LocTypes
  <2> QED BY <2>1, <2>2, <2>3
<1>9. CASE LocalReceipt(c)
  <2>1. EnvironmentTypes' /\ RecordTypes'
    BY <1>9, SnapshotType DEF LocalReceipt, EnvironmentTypes, RecordTypes,
       env, scope, Receipts, LegacyStates
  <2>2. PcTypes'
    BY <1>9, GotoType, ReturnType DEF LocalReceipt, Pcs
  <2>3. LocTypes'
    BY <1>9, ReturnType DEF LocalReceipt, LocTypes
  <2> QED BY <2>1, <2>2, <2>3
<1>10. CASE LocalExpose(c)
  <2>1. EnvironmentTypes' /\ RecordTypes'
    BY <1>10, ExposureType, SnapshotType
       DEF LocalExpose, EnvironmentTypes, RecordTypes, env, records
  <2>2. PcTypes'
    BY <1>10, GotoType DEF LocalExpose, Pcs
  <2>3. LocTypes'
    BY <1>10 DEF LocalExpose, LocTypes
  <2> QED BY <2>1, <2>2, <2>3
<1>11. CASE LocalRelease(c)
  <2>1. EnvironmentTypes' /\ RecordTypes'
    BY <1>11, SnapshotType DEF LocalRelease, EnvironmentTypes, RecordTypes,
       env, scope, ToolCalls, ToolCallStatus
  <2>2. PcTypes'
    BY <1>11, ReturnType DEF LocalRelease
  <2>3. LocTypes'
    BY <1>11, ReturnType DEF LocalRelease, LocTypes
  <2> QED BY <2>1, <2>2, <2>3
<1> QED BY <1>1, <1>2, <1>3, <1>4, <1>5, <1>6, <1>7, <1>8, <1>9, <1>10, <1>11 DEF LocalStep

(* The issue of a grant keeps the types. *)
LEMMA GrantStepType ==
  ASSUME TypeOK, NEW c \in Calls, GrantStep(c)
  PROVE  TypeOK'
<1> USE DEF TypeOK

<1>1. CASE GrantCreate(c)
  <2>1. EnvironmentTypes' /\ RecordTypes'
    BY <1>1, SnapshotType, GateAssumption DEF GrantCreate, EnvironmentTypes,
       RecordTypes, env, scope, Grants, GateAssumption
  <2>2. PcTypes'
    BY <1>1, GotoType DEF GrantCreate, Pcs
  <2>3. LocTypes'
    BY <1>1 DEF GrantCreate, LocTypes
  <2> QED BY <2>1, <2>2, <2>3
<1>2. CASE GrantBind(c)
  <2>4. att' = att \/ att' = [att EXCEPT !.bound = TRUE]
    BY <1>2 DEF GrantBind
  <2>1. EnvironmentTypes' /\ RecordTypes'
    BY <1>2, <2>4 DEF GrantBind, EnvironmentTypes, RecordTypes, Attempts,
       env, scope
  <2>2. PcTypes'
    BY <1>2, GotoType DEF GrantBind, Pcs
  <2>3. LocTypes'
    BY <1>2 DEF GrantBind, LocTypes
  <2> QED BY <2>1, <2>2, <2>3
<1>3. CASE GrantAudit(c)
  <2>1. EnvironmentTypes' /\ RecordTypes'
    BY <1>3 DEF GrantAudit, EnvironmentTypes, RecordTypes, env, scope, records
  <2>2. PcTypes'
    BY <1>3, GotoType DEF GrantAudit, Pcs
  <2>3. LocTypes'
    BY <1>3 DEF GrantAudit, LocTypes
  <2> QED BY <2>1, <2>2, <2>3
<1>4. CASE Authorize(c)
  <2>1. EnvironmentTypes' /\ RecordTypes'
    BY <1>4, SnapshotType DEF Authorize, EnvironmentTypes, RecordTypes, env,
       scope, ToolCalls, ToolCallStatus
  <2>2. PcTypes'
    BY <1>4, ReturnType DEF Authorize
  <2>3. LocTypes'
    BY <1>4, ReturnType DEF Authorize, LocTypes
  <2> QED BY <2>1, <2>2, <2>3
<1> QED BY <1>1, <1>2, <1>3, <1>4 DEF GrantStep

(* The use of a grant keeps the types. *)
LEMMA ConsumeStepType ==
  ASSUME TypeOK, NEW c \in Calls, ConsumeStep(c)
  PROVE  TypeOK'
<1> USE DEF TypeOK

<1>1. CASE ConsumeAttempt(c)
  <2>1. EnvironmentTypes' /\ RecordTypes'
    BY <1>1 DEF ConsumeAttempt, EnvironmentTypes, RecordTypes, env, scope,
       records
  <2>2. PcTypes'
    BY <1>1, GotoType, ReturnType DEF ConsumeAttempt, Pcs
  <2>3. LocTypes'
    BY <1>1, ReturnType DEF ConsumeAttempt, LocTypes
  <2> QED BY <2>1, <2>2, <2>3
<1>2. CASE ConsumeToolCall(c)
  <2>1. EnvironmentTypes' /\ RecordTypes'
    BY <1>2 DEF ConsumeToolCall, EnvironmentTypes, RecordTypes, env, scope,
       records
  <2>2. PcTypes'
    BY <1>2, GotoType, ReturnType DEF ConsumeToolCall, Pcs
  <2>4. loc' = [loc EXCEPT ![c].tc = tc] \/ Return(c)
    BY <1>2 DEF ConsumeToolCall
  <2>3. LocTypes'
    BY <2>4, SetSnapshot, ReturnType DEF LocTypes, RecordTypes
  <2> QED BY <2>1, <2>2, <2>3
<1>3. CASE ConsumeValidate(c)
  <2>1. EnvironmentTypes' /\ RecordTypes'
    BY <1>3 DEF ConsumeValidate, EnvironmentTypes, RecordTypes, env, scope,
       records
  <2>2. PcTypes'
    BY <1>3, GotoType, ReturnType DEF ConsumeValidate, Pcs
  <2>3. LocTypes'
    BY <1>3, ReturnType DEF ConsumeValidate, LocTypes
  <2> QED BY <2>1, <2>2, <2>3
<1>4. CASE ConsumeDispatch(c)
  <2>4. att' = att \/ att' = [att EXCEPT !.state = "dispatched"]
    BY <1>4 DEF ConsumeDispatch
  <2>5. grant' = grant \/ grant' = [grant EXCEPT !.status = "consumed"]
    BY <1>4 DEF ConsumeDispatch
  <2>6. effects' \in Nat
    BY <1>4 DEF ConsumeDispatch, EnvironmentTypes
  <2>1. EnvironmentTypes' /\ RecordTypes'
    BY <1>4, <2>4, <2>5, <2>6 DEF ConsumeDispatch, EnvironmentTypes,
       RecordTypes, Attempts, AttemptStates, Grants, env, scope
  <2>2. PcTypes'
    BY <1>4, ReturnType DEF ConsumeDispatch
  <2>3. LocTypes'
    BY <1>4, ReturnType DEF ConsumeDispatch, LocTypes
  <2> QED BY <2>1, <2>2, <2>3
<1> QED BY <1>1, <1>2, <1>3, <1>4 DEF ConsumeStep

(* A report keeps the types. *)
LEMMA ReportStepType ==
  ASSUME TypeOK, NEW c \in Calls, ReportStep(c)
  PROVE  TypeOK'
<1> USE DEF TypeOK

<1>1. CASE ReportToolCall(c)
  <2>1. EnvironmentTypes' /\ RecordTypes'
    BY <1>1 DEF ReportToolCall, EnvironmentTypes, RecordTypes, env, scope,
       records
  <2>2. PcTypes'
    BY <1>1, GotoType DEF ReportToolCall, Pcs
  <2>3. LocTypes'
    BY <1>1, SetSnapshot DEF ReportToolCall, LocTypes, RecordTypes
  <2> QED BY <2>1, <2>2, <2>3
<1>2. CASE ReportAttempt(c)
  <2>1. EnvironmentTypes' /\ RecordTypes'
    BY <1>2 DEF ReportAttempt, EnvironmentTypes, RecordTypes, env, scope,
       records
  <2>2. PcTypes'
    BY <1>2, GotoType, ReturnType DEF ReportAttempt, Pcs
  <2>3. LocTypes'
    BY <1>2, ReturnType DEF ReportAttempt, LocTypes
  <2> QED BY <2>1, <2>2, <2>3
<1>3. CASE ReportReceiptCheck(c)
  <2>1. EnvironmentTypes' /\ RecordTypes'
    BY <1>3 DEF ReportReceiptCheck, EnvironmentTypes, RecordTypes, env, scope,
       records
  <2>2. PcTypes'
    BY <1>3, GotoType, ReturnType DEF ReportReceiptCheck, Pcs
  <2>3. LocTypes'
    BY <1>3, ReturnType DEF ReportReceiptCheck, LocTypes
  <2> QED BY <2>1, <2>2, <2>3
<1>4. CASE ReportTransition(c)
  <2>4. loc[c].report.state \in ReportStates /\ loc[c].report.body \in Bodies
    BY SnapshotType DEF Reports
  <2>1. EnvironmentTypes' /\ RecordTypes'
    BY <1>4, <2>4 DEF ReportTransition, EnvironmentTypes, RecordTypes,
       Attempts, AttemptStates, TerminalStates, env, scope
  <2>2. PcTypes'
    BY <1>4, GotoType DEF ReportTransition, Pcs
  <2>3. LocTypes'
    BY <1>4 DEF ReportTransition, LocTypes
  <2> QED BY <2>1, <2>2, <2>3
<1>5. CASE ReportReplay(c)
  <2>1. EnvironmentTypes' /\ RecordTypes'
    BY <1>5 DEF ReportReplay, EnvironmentTypes, RecordTypes, env, scope,
       records
  <2>2. PcTypes'
    BY <1>5, GotoType, ReturnType DEF ReportReplay, Pcs
  <2>4. loc' = [loc EXCEPT ![c].replay = TRUE] \/ Return(c)
    BY <1>5 DEF ReportReplay
  <2>5. LocTypes
    BY DEF TypeOK
  <2>3. LocTypes'
    <3>1. CASE loc' = [loc EXCEPT ![c].replay = TRUE]
      BY <2>5, <3>1, SetReplay DEF LocTypes
    <3>2. CASE Return(c)
      BY <2>5, <3>2, ReturnType DEF LocTypes
    <3> QED BY <2>4, <3>1, <3>2
  <2> QED BY <2>1, <2>2, <2>3
<1>6. CASE ReportReceipt(c)
  <2>4. /\ LegacyOutcome(loc[c].report) \in LegacyStates
        /\ loc[c].report.body \in Bodies
    BY SnapshotType DEF Reports, LegacyOutcome, LegacyStates
  <2>1. EnvironmentTypes' /\ RecordTypes'
    BY <1>6, <2>4 DEF ReportReceipt, EnvironmentTypes, RecordTypes, Receipts,
       env, scope
  <2>2. PcTypes'
    BY <1>6, GotoType, ReturnType DEF ReportReceipt, Pcs
  <2>3. LocTypes'
    BY <1>6, ReturnType DEF ReportReceipt, LocTypes
  <2> QED BY <2>1, <2>2, <2>3
<1>7. CASE ReportWrite(c)
  <2> DEFINE persisted == loc[c].replay /\ loc[c].tc.status # "authorized"
             delivered == IF persisted THEN loc[c].tc ELSE TerminalToolCall(c)
  <2>3. delivered \in ToolCalls
    BY SnapshotType, TerminalType
  <2>4. tc' = tc \/ tc' = delivered
    BY <1>7 DEF ReportWrite
  <2>5. loc' = [loc EXCEPT ![c].tc = delivered] \/ Return(c)
    BY <1>7 DEF ReportWrite
  <2> HIDE DEF delivered, persisted
  <2>1. EnvironmentTypes' /\ RecordTypes'
    BY <1>7, <2>3, <2>4 DEF ReportWrite, EnvironmentTypes, RecordTypes,
       env, scope
  <2>2. PcTypes'
    BY <1>7, GotoType, ReturnType DEF ReportWrite, Pcs
  <2>6. LocTypes'
    BY <2>3, <2>5, SetSnapshot, ReturnType DEF LocTypes
  <2> QED BY <2>1, <2>2, <2>6
<1>8. CASE ReportExpose(c)
  <2>1. EnvironmentTypes' /\ RecordTypes'
    BY <1>8, ExposureType, SnapshotType
       DEF ReportExpose, EnvironmentTypes, RecordTypes, env, records
  <2>2. PcTypes'
    BY <1>8, GotoType DEF ReportExpose, Pcs
  <2>3. LocTypes'
    BY <1>8 DEF ReportExpose, LocTypes
  <2> QED BY <2>1, <2>2, <2>3
<1>9. CASE ReportRelease(c)
  <2>1. EnvironmentTypes' /\ RecordTypes'
    BY <1>9, SnapshotType DEF ReportRelease, EnvironmentTypes, RecordTypes,
       env, scope, ToolCalls, ToolCallStatus
  <2>2. PcTypes'
    BY <1>9, ReturnType DEF ReportRelease
  <2>3. LocTypes'
    BY <1>9, ReturnType DEF ReportRelease, LocTypes
  <2> QED BY <2>1, <2>2, <2>3
<1> QED BY <1>1, <1>2, <1>3, <1>4, <1>5, <1>6, <1>7, <1>8, <1>9 DEF ReportStep

(* A fault keeps the types. *)
LEMMA FaultType ==
  ASSUME TypeOK, NEW c \in Calls, Fault(c)
  PROVE  TypeOK'
<1> USE DEF TypeOK

<1>1. CASE Abort(c)
  <2>1. EnvironmentTypes' /\ RecordTypes'
    BY <1>1, GateAssumption DEF Abort, EnvironmentTypes, RecordTypes, env,
       scope, records, GateAssumption
  <2>2. PcTypes'
    BY <1>1, ReturnType DEF Abort
  <2>3. LocTypes'
    BY <1>1, ReturnType DEF Abort, LocTypes
  <2> QED BY <2>1, <2>2, <2>3
<1>2. CASE SubmitInfluenceUnavailable(c)
  <2>1. EnvironmentTypes' /\ RecordTypes'
    BY <1>2, GateAssumption DEF SubmitInfluenceUnavailable, EnvironmentTypes,
       RecordTypes, env, scope, records, GateAssumption
  <2>2. PcTypes'
    BY <1>2, GotoType DEF SubmitInfluenceUnavailable, Pcs
  <2>3. DraftToolCall(loc[c].tc, {"unknown"}, -1) \in ToolCalls
    BY GateAssumption, DraftType, SnapshotType DEF GateAssumption, Sources
  <2>4. LocTypes'
    BY <1>2, <2>3, SetSnapshot DEF SubmitInfluenceUnavailable, LocTypes
  <2> QED BY <2>1, <2>2, <2>4
<1>3. CASE GrantUnavailable(c)
  <2>1. EnvironmentTypes' /\ RecordTypes'
    BY <1>3, GateAssumption DEF GrantUnavailable, EnvironmentTypes,
       RecordTypes, env, scope, records, GateAssumption
  <2>2. PcTypes'
    BY <1>3, GotoType DEF GrantUnavailable, Pcs
  <2>3. LocTypes'
    BY <1>3 DEF GrantUnavailable, LocTypes
  <2> QED BY <2>1, <2>2, <2>3
<1> QED BY <1>1, <1>2, <1>3 DEF Fault

(* A new submission, vote, decision, use of a grant or report keeps the types. *)
LEMMA RequestType ==
  ASSUME TypeOK, NEW c \in Calls, Request(c)
  PROVE  TypeOK'
<1> USE DEF TypeOK
<1> PcTypes /\ LocTypes
  OBVIOUS
<1>1. ASSUME NEW mode \in Modes, NEW scoped \in Scopes,
             SubmitEvaluate(c, mode, scoped)
      PROVE  TypeOK'
  <2> DEFINE draft == [NoToolCall EXCEPT !.status = "submitted",
                                         !.policy = policy, !.mode = mode,
                                         !.scoped = scoped]
  <2>1. draft \in ToolCalls
    BY GateAssumption, ConstantTypes
       DEF GateAssumption, EnvironmentTypes, ToolCalls, ToolCallStatus
  <2>2. loc' = [loc EXCEPT ![c] = [NoLocals EXCEPT !.at = now, !.tc = draft]]
    BY <1>1 DEF SubmitEvaluate
  <2> HIDE DEF draft
  <2>7. now \in Nat
    BY GateAssumption DEF GateAssumption, EnvironmentTypes
  <2>6. [NoLocals EXCEPT !.at = now, !.tc = draft] \in Locals
    BY <2>1, <2>7, ConstantTypes DEF Locals
  <2>3. LocTypes'
    BY <2>2, <2>6 DEF LocTypes
  <2>4. PcTypes'
    BY <1>1, GotoType DEF SubmitEvaluate, Pcs
  <2>5. EnvironmentTypes' /\ RecordTypes'
    BY <1>1 DEF SubmitEvaluate, EnvironmentTypes, RecordTypes, env, scope,
       records
  <2> QED BY <2>3, <2>4, <2>5
<1>2. ASSUME NEW p \in Principals, NEW input \in Inputs,
             ApproveBegin(c, p, input)
      PROVE  TypeOK'
  <2>1. LocTypes'
    BY <1>2, ConstantTypes DEF ApproveBegin, LocTypes, Locals
  <2>2. PcTypes'
    BY <1>2, GotoType DEF ApproveBegin, Pcs
  <2>3. EnvironmentTypes' /\ RecordTypes'
    BY <1>2 DEF ApproveBegin, EnvironmentTypes, RecordTypes, env, scope,
       records
  <2> QED BY <2>1, <2>2, <2>3
<1>3. ASSUME NEW p \in Principals, NEW kind \in {"reject", "cancel", "read"},
             CloseBegin(c, p, kind)
      PROVE  TypeOK'
  <2>1. LocTypes'
    BY <1>3, ConstantTypes DEF CloseBegin, LocTypes, Locals, Kinds
  <2>2. PcTypes'
    BY <1>3, GotoType DEF CloseBegin, Pcs
  <2>3. EnvironmentTypes' /\ RecordTypes'
    BY <1>3 DEF CloseBegin, EnvironmentTypes, RecordTypes, env, scope, records
  <2> QED BY <2>1, <2>2, <2>3
<1>4. ASSUME NEW input \in Inputs, ConsumeBegin(c, input)
      PROVE  TypeOK'
  <2>1. LocTypes'
    BY <1>4, ConstantTypes DEF ConsumeBegin, LocTypes, Locals
  <2>2. PcTypes'
    BY <1>4, GotoType DEF ConsumeBegin, Pcs
  <2>3. EnvironmentTypes' /\ RecordTypes'
    BY <1>4 DEF ConsumeBegin, EnvironmentTypes, RecordTypes, env, scope,
       records
  <2> QED BY <2>1, <2>2, <2>3
<1>5. ASSUME NEW report \in Reports, ReportBegin(c, report)
      PROVE  TypeOK'
  <2>1. LocTypes'
    BY <1>5, ConstantTypes DEF ReportBegin, LocTypes, Locals
  <2>2. PcTypes'
    BY <1>5, GotoType DEF ReportBegin, Pcs
  <2>3. EnvironmentTypes' /\ RecordTypes'
    BY <1>5 DEF ReportBegin, EnvironmentTypes, RecordTypes, env, scope, records
  <2> QED BY <2>1, <2>2, <2>3
<1> QED BY <1>1, <1>2, <1>3, <1>4, <1>5
        DEF Request, ApprovalRequest, RunnerRequest

(* The clock, a policy reload or a foreign exposure keeps the types. *)
LEMMA EnvironmentType ==
  ASSUME TypeOK, Environment
  PROVE  TypeOK'
<1> USE DEF TypeOK, EnvironmentTypes, RecordTypes, PcTypes, LocTypes
<1>1. CASE Tick
  BY <1>1, GateAssumption DEF GateAssumption, Tick, scope, records
<1>2. CASE PolicyReload
  BY <1>2 DEF PolicyReload, scope, records
<1>3. CASE ForeignExposure
  BY <1>3 DEF ForeignExposure, env, records, Sources
<1> QED BY <1>1, <1>2, <1>3 DEF Environment

(* Nothing changes in a stuttering step. *)
LEMMA StutterType ==
  ASSUME TypeOK, UNCHANGED vars
  PROVE  TypeOK'
BY DEF vars, TypeOK, EnvironmentTypes, RecordTypes, PcTypes, LocTypes

(* Every step of the gate keeps the types. *)
LEMMA NextType ==
  ASSUME TypeOK, [Next]_vars
  PROVE  TypeOK'
<1>1. ASSUME NEW c \in Calls, Step(c)
      PROVE  TypeOK'
  BY <1>1, SubmitStepType, ApproveStepType, CloseStepType,
     ReservationStepType, LocalStepType, GrantStepType, ConsumeStepType,
     ReportStepType DEF Step, ApprovalStep, ExecutionStep
<1>2. ASSUME NEW c \in Calls, Request(c)
      PROVE  TypeOK'
  BY <1>2, RequestType
<1>3. ASSUME NEW c \in Calls, Fault(c)
      PROVE  TypeOK'
  BY <1>3, FaultType
<1> QED BY <1>1, <1>2, <1>3, EnvironmentType, StutterType DEF Next

(* Whatever interleaves, fails or is reloaded, every record, label and
   snapshot of the gate keeps its type. *)
THEOREM TypeCorrect == Spec => []TypeOK
<1>1. Init => TypeOK
  BY InitType
<1>2. TypeOK /\ [Next]_vars => TypeOK'
  BY NextType
<1> QED BY <1>1, <1>2, PTL DEF Spec

------------------------------------------------------------------------------
(* One effect *)

(* A call that returns is idle, whatever it forgets. *)
LEMMA ReturnGoes ==
  ASSUME NEW c \in Calls, Return(c)
  PROVE  Goto(c, "idle")
BY DEF Return, Goto

(* A call that leaves attempt and effects alone may move anywhere but into a
   path whose claim on the attempt it does not have. *)
LEMMA MoveEffect ==
  ASSUME PcTypes, OneEffectInv, NEW c \in Calls, UNCHANGED <<att, effects>>
  PROVE  \A label \in Pcs :
           /\ Goto(c, label)
           /\ label # "local_recheck"
           /\ label \in LocalPath => pc[c] \in LocalPath
           /\ label \in ReportPath => att.bound
           => OneEffectInv'
BY DEF PcTypes, OneEffectInv, Goto

(* Labels outside both paths are always allowed. *)
LEMMA LeaveEffect ==
  ASSUME PcTypes, OneEffectInv, NEW c \in Calls, UNCHANGED <<att, effects>>
  PROVE  \A label \in Pcs :
           Goto(c, label) /\ label \notin LocalPath \cup ReportPath
           => OneEffectInv'
BY MoveEffect DEF LocalPath

(* A call may give up at any await. *)
LEMMA ReturnEffect ==
  ASSUME PcTypes, OneEffectInv, NEW c \in Calls, UNCHANGED <<att, effects>>,
         Return(c)
  PROVE  OneEffectInv'
BY LeaveEffect, ReturnGoes DEF Pcs, LocalPath, ReportPath

(* Nobody but the owner of an attempt is on the local path. *)
LEMMA CompleteEffect ==
  ASSUME TypeOK, OneEffectInv, NEW c \in Calls, UNCHANGED effects,
         NEW from \in {"reserved", "dispatched"}, NEW to \in TerminalStates,
         from = "dispatched" => to # "failed_before_dispatch",
         NEW next \in Pcs \ (LocalPath \cup ReportPath),
         pc[c] # "local_recheck",
         CompleteAttempt(c, from, to, next)
  PROVE  OneEffectInv'
<1>1. CASE OwnsAttempt(c, from)
  <2>1. /\ att.owner = c /\ att.state = from
        /\ att' = [att EXCEPT !.state = to]
        /\ Goto(c, next)
    BY <1>1 DEF CompleteAttempt, OwnsAttempt
  <2>2. att'.state = to /\ att'.owner = att.owner /\ att'.bound = att.bound
    BY <2>1 DEF TypeOK, RecordTypes, Attempts
  <2>3. to \notin {"absent", "reserved", "dispatched"}
    BY DEF TerminalStates, ReportStates
  <2> QED BY <2>1, <2>2, <2>3
          DEF OneEffectInv, Goto, TypeOK, PcTypes, EnvironmentTypes, LocalPath
<1>2. CASE ~OwnsAttempt(c, from)
  BY <1>2, ReturnEffect DEF CompleteAttempt, TypeOK
<1> QED BY <1>1, <1>2

(* There is no effect to begin with. *)
LEMMA InitEffect == Init => OneEffectInv
BY DEF Init, GateInit, OneEffectInv, LocalPath, ReportPath

(* Neither submission nor decision touches the attempt. *)
LEMMA ApprovalStepEffect ==
  ASSUME TypeOK, OneEffectInv, NEW c \in Calls, ApprovalStep(c)
  PROVE  OneEffectInv'
<1> PcTypes
  BY DEF TypeOK
<1>1. CASE SubmitStep(c)
  <2>1. CASE SubmitInfluence(c)
    BY <2>1, LeaveEffect DEF SubmitInfluence, Pcs, LocalPath, ReportPath, records
  <2>2. CASE SubmitCreate(c)
    BY <2>2, LeaveEffect
       DEF SubmitCreate, Pcs, LocalPath, ReportPath, execution
  <2>3. CASE SubmitReplay(c)
    BY <2>3, ReturnEffect DEF SubmitReplay, records
  <2>4. CASE SubmitBlock(c)
    BY <2>4, ReturnEffect DEF SubmitBlock, execution
  <2>5. CASE SubmitPend(c)
    BY <2>5, LeaveEffect DEF SubmitPend, Pcs, LocalPath, ReportPath, execution
  <2>6. CASE SubmitApproval(c)
    BY <2>6, ReturnEffect DEF SubmitApproval, execution
  <2> QED BY <1>1, <2>1, <2>2, <2>3, <2>4, <2>5, <2>6 DEF SubmitStep
<1>2. CASE ApproveStep(c)
  <2>1. CASE ApproveLoad(c)
    BY <2>1, LeaveEffect, ReturnEffect
       DEF ApproveLoad, Pcs, LocalPath, ReportPath, records
  <2>2. CASE ApproveCheck(c)
    BY <2>2, LeaveEffect, ReturnEffect
       DEF ApproveCheck, Pcs, LocalPath, ReportPath, records
  <2>3. CASE ApproveRecord(c)
    BY <2>3, ReturnEffect DEF ApproveRecord, execution
  <2>4. CASE ApproveFinalize(c)
    BY <2>4, LeaveEffect
       DEF ApproveFinalize, Pcs, LocalPath, ReportPath, execution
  <2>5. CASE ApproveExpires(c)
    BY <2>5, LeaveEffect
       DEF ApproveExpires, Pcs, LocalPath, ReportPath, execution
  <2>6. CASE ApproveConflict(c)
    BY <2>6, ReturnEffect DEF ApproveConflict, records
  <2> QED BY <1>2, <2>1, <2>2, <2>3, <2>4, <2>5, <2>6 DEF ApproveStep
<1>3. CASE CloseStep(c)
  <2>1. CASE CloseCheck(c)
    BY <2>1, LeaveEffect, ReturnEffect
       DEF CloseCheck, Pcs, LocalPath, ReportPath, records
  <2>2. CASE CloseLoad(c)
    BY <2>2, LeaveEffect, ReturnEffect
       DEF CloseLoad, Pcs, LocalPath, ReportPath, records
  <2>3. CASE CloseCommit(c)
    BY <2>3, LeaveEffect
       DEF CloseCommit, Pcs, LocalPath, ReportPath, execution
  <2>4. CASE CloseExpires(c)
    BY <2>4, LeaveEffect
       DEF CloseExpires, Pcs, LocalPath, ReportPath, execution
  <2>5. CASE CloseConflict(c)
    BY <2>5, ReturnEffect DEF CloseConflict, records
  <2>6. CASE RejectWrite(c)
    BY <2>6, ReturnEffect DEF RejectWrite, execution
  <2>7. CASE Expire(c)
    BY <2>7, LeaveEffect, ReturnEffect
       DEF Expire, Pcs, LocalPath, ReportPath, execution
  <2>8. CASE Terminalize(c)
    BY <2>8, ReturnEffect DEF Terminalize, execution
  <2> QED BY <1>3, <2>1, <2>2, <2>3, <2>4, <2>5, <2>6, <2>7, <2>8
          DEF CloseStep
<1> QED BY <1>1, <1>2, <1>3 DEF ApprovalStep

(* A reservation starts from an attempt that does not exist, so from no effect
   and from no other call on the local path. *)
LEMMA ReservationStepEffect ==
  ASSUME TypeOK, OneEffectInv, NEW c \in Calls, ReservationStep(c)
  PROVE  OneEffectInv'
<1> PcTypes
  BY DEF TypeOK
<1>1. CASE CreateReceipt(c)
  BY <1>1, LeaveEffect DEF CreateReceipt, Pcs, LocalPath, ReportPath
<1>2. CASE Revalidate(c)
  BY <1>2, LeaveEffect DEF Revalidate, Pcs, LocalPath, ReportPath, records
<1>3. CASE Reserve(c)
  <2>1. CASE ReservationBinds(c) /\ att.state = "absent"
    <3>1. /\ att'.state = "reserved" /\ att'.owner = c
          /\ att'.bound = att.bound /\ effects' = effects
      BY <1>3, <2>1 DEF Reserve, TypeOK, RecordTypes, Attempts
    <3>2. \/ Goto(c, "local_preflight")
          \/ Goto(c, "grant_create")
      BY <1>3, <2>1 DEF Reserve
    <3> QED BY <2>1, <3>1, <3>2
            DEF OneEffectInv, Goto, PcTypes, TypeOK, EnvironmentTypes,
                LocalPath, ReportPath
  <2>2. CASE ~(ReservationBinds(c) /\ att.state = "absent")
    BY <1>3, <2>2, ReturnEffect DEF Reserve
  <2> QED BY <2>1, <2>2
<1>4. CASE FailBeforeDispatch(c)
  BY <1>4, CompleteEffect
     DEF FailBeforeDispatch, Pcs, LocalPath, ReportPath, TerminalStates
<1>5. CASE FailToolCall(c)
  BY <1>5, LeaveEffect DEF FailToolCall, Pcs, LocalPath, ReportPath
<1>6. CASE FailReceipt(c)
  BY <1>6, ReturnEffect DEF FailReceipt
<1> QED BY <1>1, <1>2, <1>3, <1>4, <1>5, <1>6 DEF ReservationStep

(* The local path keeps its claim from the reservation to the tool. *)
LEMMA LocalStepEffect ==
  ASSUME TypeOK, OneEffectInv, NEW c \in Calls, LocalStep(c)
  PROVE  OneEffectInv'
<1> PcTypes
  BY DEF TypeOK
<1>1. CASE LocalPreflight(c)
  BY <1>1, MoveEffect
     DEF LocalPreflight, Pcs, LocalPath, ReportPath, records
<1>2. CASE LocalBind(c)
  BY <1>2, MoveEffect DEF LocalBind, Pcs, LocalPath, ReportPath, records
<1>3. CASE LocalDispatch(c)
  <2>1. CASE OwnsAttempt(c, "reserved") /\ ExposureGuard(loc[c].tc)
    <3>1. /\ att.state = "reserved" /\ att.owner = c
          /\ att' = [att EXCEPT !.state = "dispatched"]
          /\ Goto(c, "local_recheck") /\ effects' = effects
          /\ pc[c] = "local_dispatch"
      BY <1>3, <2>1 DEF LocalDispatch, OwnsAttempt
    <3>2. /\ att'.state = "dispatched" /\ att'.owner = att.owner
          /\ att'.bound = att.bound
      BY <3>1 DEF TypeOK, RecordTypes, Attempts
    <3>3. effects = 0
      BY <3>1 DEF OneEffectInv, TypeOK, EnvironmentTypes
    <3> QED BY <3>1, <3>2, <3>3
            DEF OneEffectInv, Goto, PcTypes, LocalPath, ReportPath
  <2>2. CASE OwnsAttempt(c, "reserved") /\ ~ExposureGuard(loc[c].tc)
    <3>1. Goto(c, "fail_before") /\ UNCHANGED <<att, effects>>
      BY <1>3, <2>2 DEF LocalDispatch
    <3> QED BY <3>1, LeaveEffect DEF Pcs, LocalPath, ReportPath
  <2>3. CASE ~OwnsAttempt(c, "reserved")
    <3>1. Return(c) /\ UNCHANGED <<att, effects>>
      BY <1>3, <2>3 DEF LocalDispatch
    <3> QED BY <3>1, ReturnEffect
  <2> QED BY <2>1, <2>2, <2>3
<1>4. CASE LocalInvoke(c)
  <2>1. /\ pc[c] = "local_recheck" /\ Goto(c, "local_await")
        /\ effects' = effects + 1 /\ att' = att
    BY <1>4 DEF LocalInvoke, records
  <2>2. effects = 0 /\ att.state = "dispatched" /\ att.owner = c
    BY <2>1 DEF OneEffectInv, LocalPath
  <2> QED BY <2>1, <2>2
          DEF OneEffectInv, Goto, PcTypes, LocalPath, ReportPath
<1>5. CASE LocalRefused(c)
  BY <1>5, LeaveEffect DEF LocalRefused, Pcs, LocalPath, ReportPath, records
<1>6. CASE LocalUnknown(c)
  BY <1>6, CompleteEffect
     DEF LocalUnknown, Pcs, LocalPath, ReportPath, TerminalStates, ReportStates
<1>7. CASE LocalResult(c)
  <2>1. CASE CompleteAttempt(c, "dispatched", "succeeded", "local_write")
    BY <1>7, <2>1, CompleteEffect
       DEF LocalResult, Pcs, LocalPath, ReportPath, TerminalStates, ReportStates
  <2>2. CASE CompleteAttempt(c, "dispatched", "unknown_outcome", "fail")
    BY <1>7, <2>2, CompleteEffect
       DEF LocalResult, Pcs, LocalPath, ReportPath, TerminalStates, ReportStates
  <2> QED BY <1>7, <2>1, <2>2 DEF LocalResult
<1>8. CASE LocalWrite(c)
  BY <1>8, LeaveEffect DEF LocalWrite, Pcs, LocalPath, ReportPath
<1>9. CASE LocalReceipt(c)
  BY <1>9, LeaveEffect, ReturnEffect
     DEF LocalReceipt, Pcs, LocalPath, ReportPath
<1>10. CASE LocalExpose(c)
  BY <1>10, LeaveEffect DEF LocalExpose, Pcs, LocalPath, ReportPath, records
<1>11. CASE LocalRelease(c)
  BY <1>11, ReturnEffect DEF LocalRelease
<1> QED BY <1>1, <1>2, <1>3, <1>4, <1>5, <1>6, <1>7, <1>8, <1>9, <1>10, <1>11
        DEF LocalStep

(* Binding a grant needs the attempt of a call that is not on the local path. *)
LEMMA GrantStepEffect ==
  ASSUME TypeOK, OneEffectInv, NEW c \in Calls, GrantStep(c)
  PROVE  OneEffectInv'
<1> PcTypes
  BY DEF TypeOK
<1>1. CASE GrantCreate(c)
  BY <1>1, LeaveEffect DEF GrantCreate, Pcs, LocalPath, ReportPath
<1>2. CASE GrantBind(c)
  <2>1. CASE OwnsAttempt(c, "reserved")
    <3>1. /\ pc[c] = "grant_bind" /\ att.owner = c /\ att.state = "reserved"
          /\ att' = [att EXCEPT !.bound = TRUE]
          /\ Goto(c, "grant_audit") /\ effects' = effects
      BY <1>2, <2>1 DEF GrantBind, OwnsAttempt
    <3>2. att'.state = "reserved" /\ att'.bound = TRUE
      BY <3>1 DEF TypeOK, RecordTypes, Attempts
    <3> QED BY <3>1, <3>2
            DEF OneEffectInv, Goto, PcTypes, LocalPath, ReportPath
  <2>2. CASE ~OwnsAttempt(c, "reserved")
    BY <1>2, <2>2, LeaveEffect DEF GrantBind, Pcs, LocalPath, ReportPath
  <2> QED BY <2>1, <2>2
<1>3. CASE GrantAudit(c)
  BY <1>3, LeaveEffect DEF GrantAudit, Pcs, LocalPath, ReportPath, records
<1>4. CASE Authorize(c)
  BY <1>4, ReturnEffect DEF Authorize
<1> QED BY <1>1, <1>2, <1>3, <1>4 DEF GrantStep

(* The runner that dispatches found the attempt reserved and bound: no effect
   happened, and no local call is on its way to one. *)
LEMMA ConsumeStepEffect ==
  ASSUME TypeOK, OneEffectInv, NEW c \in Calls, ConsumeStep(c)
  PROVE  OneEffectInv'
<1> PcTypes
  BY DEF TypeOK
<1>1. CASE ConsumeAttempt(c)
  BY <1>1, LeaveEffect, ReturnEffect
     DEF ConsumeAttempt, Pcs, LocalPath, ReportPath, records
<1>2. CASE ConsumeToolCall(c)
  BY <1>2, LeaveEffect, ReturnEffect
     DEF ConsumeToolCall, Pcs, LocalPath, ReportPath, records
<1>3. CASE ConsumeValidate(c)
  BY <1>3, LeaveEffect, ReturnEffect
     DEF ConsumeValidate, Pcs, LocalPath, ReportPath, records
<1>4. CASE ConsumeDispatch(c)
  <2> DEFINE free == /\ grant.status = "issued"
                     /\ att.state = "reserved" /\ att.bound
                     /\ ExposureGuard(loc[c].tc)
  <2>1. CASE free
    <3>1. /\ att.state = "reserved" /\ att.bound
          /\ att' = [att EXCEPT !.state = "dispatched"]
          /\ effects' = effects + 1 /\ Return(c)
      BY <1>4, <2>1 DEF ConsumeDispatch
    <3>2. att'.state = "dispatched" /\ att'.bound = att.bound
      BY <3>1 DEF TypeOK, RecordTypes, Attempts
    <3>3. effects = 0
      BY <3>1 DEF OneEffectInv, TypeOK, EnvironmentTypes
    <3> QED BY <3>1, <3>2, <3>3, ReturnGoes
            DEF OneEffectInv, Goto, PcTypes, LocalPath, ReportPath
  <2>2. CASE ~free
    BY <1>4, <2>2, ReturnEffect DEF ConsumeDispatch
  <2> QED BY <2>1, <2>2
<1> QED BY <1>1, <1>2, <1>3, <1>4 DEF ConsumeStep

(* Only a report on a bound attempt gets far enough to end it. *)
LEMMA ReportStepEffect ==
  ASSUME TypeOK, OneEffectInv, NEW c \in Calls, ReportStep(c)
  PROVE  OneEffectInv'
<1> PcTypes
  BY DEF TypeOK
<1> pc[c] \in ReportPath => att.bound
  BY DEF OneEffectInv
<1>1. CASE ReportToolCall(c)
  BY <1>1, LeaveEffect DEF ReportToolCall, Pcs, LocalPath, ReportPath, records
<1>2. CASE ReportAttempt(c)
  BY <1>2, MoveEffect, ReturnEffect
     DEF ReportAttempt, AttemptMatchesGrant, Pcs, LocalPath, records
<1>3. CASE ReportReceiptCheck(c)
  BY <1>3, MoveEffect, ReturnEffect
     DEF ReportReceiptCheck, Pcs, LocalPath, ReportPath, records
<1>4. CASE ReportTransition(c)
  <2>1. /\ pc[c] = "report_commit" /\ Goto(c, "report_receipt")
        /\ att' = [att EXCEPT !.state = loc[c].report.state,
                              !.body = loc[c].report.body]
        /\ effects' = effects
    BY <1>4 DEF ReportTransition
  <2>2. att'.state = loc[c].report.state /\ att'.bound = att.bound
    BY <2>1 DEF TypeOK, RecordTypes, Attempts
  <2>3. loc[c].report.state \notin
          {"absent", "reserved", "failed_before_dispatch"}
    BY SnapshotType DEF TypeOK, Reports, ReportStates
  <2>4. att.bound
    BY <2>1 DEF OneEffectInv, ReportPath
  <2> QED BY <2>1, <2>2, <2>3, <2>4
          DEF OneEffectInv, Goto, PcTypes, LocalPath, ReportPath
<1>5. CASE ReportReplay(c)
  BY <1>5, MoveEffect, ReturnEffect
     DEF ReportReplay, Pcs, LocalPath, ReportPath, records
<1>6. CASE ReportReceipt(c)
  BY <1>6, MoveEffect, ReturnEffect
     DEF ReportReceipt, Pcs, LocalPath, ReportPath
<1>7. CASE ReportWrite(c)
  BY <1>7, MoveEffect, ReturnEffect
     DEF ReportWrite, Pcs, LocalPath, ReportPath
<1>8. CASE ReportExpose(c)
  BY <1>8, MoveEffect DEF ReportExpose, Pcs, LocalPath, ReportPath, records
<1>9. CASE ReportRelease(c)
  BY <1>9, ReturnEffect DEF ReportRelease
<1> QED BY <1>1, <1>2, <1>3, <1>4, <1>5, <1>6, <1>7, <1>8, <1>9
        DEF ReportStep

(* Requests start outside both paths; the world and faults have no effect. *)
LEMMA OtherEffect ==
  ASSUME TypeOK, OneEffectInv
  PROVE  /\ \A c \in Calls : Request(c) \/ Fault(c) => OneEffectInv'
         /\ Environment \/ UNCHANGED vars => OneEffectInv'
<1> PcTypes
  BY DEF TypeOK
<1>1. ASSUME NEW c \in Calls, Request(c)
      PROVE  OneEffectInv'
  BY <1>1, LeaveEffect
     DEF Request, ApprovalRequest, RunnerRequest, SubmitEvaluate, ApproveBegin,
         CloseBegin, ConsumeBegin, ReportBegin, Pcs, LocalPath, ReportPath,
         records
<1>2. ASSUME NEW c \in Calls, Fault(c)
      PROVE  OneEffectInv'
  BY <1>2, LeaveEffect, ReturnEffect
     DEF Fault, Abort, SubmitInfluenceUnavailable, GrantUnavailable, Pcs,
         LocalPath, ReportPath, records
<1>3. ASSUME Environment \/ UNCHANGED vars
      PROVE  UNCHANGED <<att, effects, pc>>
  BY <1>3 DEF Environment, Tick, PolicyReload, ForeignExposure, records, vars
<1> QED BY <1>1, <1>2, <1>3 DEF OneEffectInv

(* Every step of the gate keeps the claim. *)
LEMMA NextEffect ==
  ASSUME TypeOK, OneEffectInv, [Next]_vars
  PROVE  OneEffectInv'
BY OtherEffect, ApprovalStepEffect, ReservationStepEffect, LocalStepEffect,
   GrantStepEffect, ConsumeStepEffect, ReportStepEffect
   DEF Next, Step, ExecutionStep

(* The claim a call has on its attempt holds in every reachable state. *)
THEOREM OneEffect == Spec => []OneEffectInv
<1>1. Init => OneEffectInv
  BY InitEffect
<1>2. TypeOK /\ OneEffectInv /\ [Next]_vars => OneEffectInv'
  BY NextEffect
<1> QED BY <1>1, <1>2, TypeCorrect, PTL DEF Spec

(* However many calls, runners, retries and crashes interleave, the provider
   is reached or a runner told to reach it at most once. *)
THEOREM AtMostOnce == Spec => []AtMostOnceEffect
<1>1. OneEffectInv => AtMostOnceEffect
  BY DEF OneEffectInv, AtMostOnceEffect
<1> QED BY <1>1, OneEffect, PTL

------------------------------------------------------------------------------
(* A refused action *)

(* Nearly every step leaves the approval alone, undoes neither tool call nor
   attempt, and does not make its call carry the action. *)
LEMMA KeepRefusal ==
  ASSUME PcTypes, RefusalInv, NEW c \in Calls, NEW label,
         pc' = [pc EXCEPT ![c] = label],
         label \notin CarryingPcs,
         label \in SnapshotPcs => loc'[c].tc.status # "absent",
         \A d \in Calls : d # c => loc'[d] = loc[d],
         ap' = ap,
         tc' = tc \/ tc'.status # "absent",
         att' = att \/ (att.state # "absent" /\ att'.state # "absent")
  PROVE  RefusalInv'
<1>1. \A d \in Calls : pc'[d] = IF d = c THEN label ELSE pc[d]
  BY DEF PcTypes
<1>2. tc'.status = "absent" => tc.status = "absent" /\ tc' = tc
  OBVIOUS
<1>3. att'.state = "absent" <=> att.state = "absent"
  OBVIOUS
<1>4. \A d \in Calls :
        Carrying(d)' => d # c /\ Carrying(d) /\ pc'[d] = pc[d]
  BY <1>1 DEF Carrying
<1>5. \A d \in Calls : pc'[d] \in SnapshotPcs => loc'[d].tc.status # "absent"
  BY <1>1 DEF RefusalInv
<1>6. \A d \in Calls : Carrying(d)' =>
        /\ tc'.status # "absent"
        /\ att'.state = "absent"
        /\ \A e \in Calls : Carrying(e)' => d = e
        /\ ap'.status \in {"absent", "approved"}
        /\ pc'[d] \in {"submit_block", "submit_pend", "submit_approval"} =>
             ap'.status = "absent"
        /\ pc'[d] \in {"receipt", "revalidate", "reserve"} =>
             (loc'[d].via <=> ap'.status = "approved")
  BY <1>2, <1>3, <1>4 DEF RefusalInv
<1> QED BY <1>2, <1>3, <1>5, <1>6 DEF RefusalInv, Carrying

(* The same, for a step that returns. *)
LEMMA ReturnRefusal ==
  ASSUME PcTypes, LocTypes, RefusalInv, NEW c \in Calls, Return(c), ap' = ap,
         tc' = tc \/ tc'.status # "absent",
         att' = att \/ (att.state # "absent" /\ att'.state # "absent")
  PROVE  RefusalInv'
<1>1. pc' = [pc EXCEPT ![c] = "idle"] /\ loc' = [loc EXCEPT ![c] = NoLocals]
  BY DEF Return
<1>2. \A d \in Calls : d # c => loc'[d] = loc[d]
  BY <1>1 DEF LocTypes
<1>3. "idle" \notin CarryingPcs /\ "idle" \notin SnapshotPcs
  BY DEF CarryingPcs, SnapshotPcs, ReportPath
<1> QED BY <1>1, <1>2, <1>3, KeepRefusal

(* The call that carries the action hands it on to its own next await. *)
LEMMA CarryOn ==
  ASSUME PcTypes, LocTypes, RefusalInv, NEW c \in Calls, Carrying(c),
         NEW label \in CarryingPcs, Goto(c, label),
         UNCHANGED <<ap, att, loc>>,
         tc' = tc \/ tc'.status # "absent",
         \/ /\ label \in {"submit_pend", "submit_approval"}
            /\ pc[c] \in {"submit_pend", "submit_approval"}
         \/ /\ label \in {"receipt", "revalidate", "reserve"}
            /\ pc[c] \in {"receipt", "revalidate", "reserve"}
  PROVE  RefusalInv'
<1>1. \A d \in Calls : pc'[d] = IF d = c THEN label ELSE pc[d]
  BY DEF PcTypes, Goto
<1>2. \A d \in Calls : Carrying(d)' <=> d = c
  BY <1>1 DEF Carrying, RefusalInv
<1>3. label \notin SnapshotPcs
  BY DEF CarryingPcs, SnapshotPcs, ReportPath
<1>4. \A d \in Calls : pc'[d] \in SnapshotPcs => loc'[d].tc.status # "absent"
  BY <1>1, <1>3 DEF RefusalInv
<1>5. /\ tc'.status # "absent" /\ att'.state = "absent"
      /\ ap'.status \in {"absent", "approved"}
      /\ pc'[c] \in {"submit_block", "submit_pend", "submit_approval"} =>
           ap'.status = "absent"
      /\ pc'[c] \in {"receipt", "revalidate", "reserve"} =>
           (loc'[c].via <=> ap'.status = "approved")
  BY <1>1 DEF RefusalInv
<1> QED BY <1>2, <1>4, <1>5 DEF RefusalInv, Refused

(* A decision on a pending approval finds nobody carrying the action. *)
LEMMA PendingCarriesNobody ==
  ASSUME RefusalInv, ap.status = "pending"
  PROVE  /\ att.state = "absent"
         /\ tc.status # "absent"
         /\ \A d \in Calls : ~Carrying(d)
BY DEF RefusalInv

(* It may record a vote, close the approval or finalize it. *)
LEMMA CloseRefusal ==
  ASSUME PcTypes, RefusalInv, NEW c \in Calls, ap.status = "pending",
         NEW label, pc' = [pc EXCEPT ![c] = label],
         label \notin CarryingPcs \cup SnapshotPcs,
         \A d \in Calls : d # c => loc'[d] = loc[d],
         ap'.status \in {"pending"} \cup Refused,
         UNCHANGED <<tc, att>>
  PROVE  RefusalInv'
<1>1. \A d \in Calls : pc'[d] = IF d = c THEN label ELSE pc[d]
  BY DEF PcTypes
<1>2. \A d \in Calls : ~Carrying(d)'
  BY <1>1, PendingCarriesNobody DEF Carrying
<1>3. \A d \in Calls : pc'[d] \in SnapshotPcs => loc'[d].tc.status # "absent"
  BY <1>1 DEF RefusalInv
<1>4. tc'.status # "absent" /\ att'.state = "absent"
  BY PendingCarriesNobody
<1> QED BY <1>2, <1>3, <1>4 DEF RefusalInv

(* Nobody carries an action that was not submitted. *)
LEMMA InitRefusal == Init => RefusalInv
<1> SUFFICES ASSUME Init PROVE RefusalInv
  OBVIOUS
<1>1. tc.status = "absent" /\ ap.status = "absent" /\ att.state = "absent"
  BY DEF Init, GateInit, NoToolCall
<1>2. \A c \in Calls : pc[c] = "idle"
  BY DEF Init, GateInit
<1> QED BY <1>1, <1>2
        DEF RefusalInv, Carrying, CarryingPcs, SnapshotPcs, ReportPath, Refused

(* Only the submission that finds no tool call comes to carry the action. *)
LEMMA SubmitStepRefusal ==
  ASSUME TypeOK, RefusalInv, NEW c \in Calls, SubmitStep(c)
  PROVE  RefusalInv'
<1> PcTypes /\ LocTypes
  BY DEF TypeOK
<1> loc[c].tc \in ToolCalls
  BY SnapshotType
<1>1. CASE SubmitInfluence(c)
  <2>1. loc'[c].tc.status = loc[c].tc.status
    BY <1>1, RuleType DEF SubmitInfluence, DraftToolCall, LocTypes, Locals,
       ToolCalls
  <2>2. loc[c].tc.status # "absent"
    BY <1>1 DEF SubmitInfluence, RefusalInv, SnapshotPcs
  <2>3. pc' = [pc EXCEPT ![c] = "submit_create"] /\ UNCHANGED <<tc, ap, att>>
    BY <1>1 DEF SubmitInfluence, Goto, records
  <2>4. \A d \in Calls : d # c => loc'[d] = loc[d]
    BY <1>1 DEF SubmitInfluence, LocTypes
  <2>5. "submit_create" \notin CarryingPcs
    BY DEF CarryingPcs
  <2> QED BY <2>1, <2>2, <2>3, <2>4, <2>5, KeepRefusal
<1>2. CASE SubmitCreate(c)
  <2>1. /\ tc.status = "absent" /\ tc' = loc[c].tc
        /\ loc[c].tc.status # "absent"
        /\ UNCHANGED <<ap, att>>
    BY <1>2 DEF SubmitCreate, RefusalInv, SnapshotPcs, execution
  <2>2. /\ ap.status = "absent" /\ att.state = "absent"
        /\ \A d \in Calls : ~Carrying(d)
    BY <2>1 DEF RefusalInv
  <2>3. \E label \in {"submit_block", "submit_pend", "receipt"} :
          /\ Goto(c, label)
          /\ label = "receipt" => ~loc'[c].via
    BY <1>2 DEF SubmitCreate, LocTypes, Locals
  <2>4. \A d \in Calls : d # c => loc'[d] = loc[d]
    BY <1>2 DEF SubmitCreate, LocTypes
  <2>5. PICK label \in {"submit_block", "submit_pend", "receipt"} :
          /\ Goto(c, label)
          /\ label = "receipt" => ~loc'[c].via
    BY <2>3
  <2>6. \A d \in Calls : pc'[d] = IF d = c THEN label ELSE pc[d]
    BY <2>5 DEF Goto, PcTypes
  <2>7. \A d \in Calls : Carrying(d)' => d = c
    BY <2>2, <2>6 DEF Carrying
  <2>8. \A d \in Calls : pc'[d] \in SnapshotPcs => loc'[d].tc.status # "absent"
    BY <2>4, <2>6 DEF RefusalInv, SnapshotPcs, ReportPath
  <2>9. pc'[c] \in {"receipt", "revalidate", "reserve"} => ~loc'[c].via
    BY <2>5, <2>6
  <2> QED BY <2>1, <2>2, <2>7, <2>8, <2>9 DEF RefusalInv, Refused
<1>3. CASE SubmitReplay(c)
  BY <1>3, ReturnRefusal DEF SubmitReplay, records
<1>4. CASE SubmitBlock(c)
  <2>1. tc'.status # "absent"
    BY <1>4 DEF SubmitBlock, ToolCalls
  <2> QED BY <1>4, <2>1, ReturnRefusal DEF SubmitBlock, execution
<1>5. CASE SubmitPend(c)
  <2>1. tc'.status # "absent"
    BY <1>5 DEF SubmitPend, ToolCalls
  <2> QED BY <1>5, <2>1, CarryOn
          DEF SubmitPend, execution, Carrying, CarryingPcs
<1>6. CASE SubmitApproval(c)
  <2>1. /\ Return(c) /\ ap'.status = "pending" /\ UNCHANGED <<tc, att>>
        /\ Carrying(c)
    BY <1>6 DEF SubmitApproval, execution, Carrying, CarryingPcs
  <2>2. /\ tc.status # "absent" /\ att.state = "absent"
        /\ \A d \in Calls : Carrying(d) => c = d
    BY <2>1 DEF RefusalInv
  <2>3. /\ \A d \in Calls : pc'[d] = IF d = c THEN "idle" ELSE pc[d]
        /\ \A d \in Calls : d # c => loc'[d] = loc[d]
    BY <2>1 DEF Return, PcTypes, LocTypes
  <2>4. \A d \in Calls : ~Carrying(d)'
    BY <2>2, <2>3 DEF Carrying, CarryingPcs
  <2>5. \A d \in Calls : pc'[d] \in SnapshotPcs => loc'[d].tc.status # "absent"
    BY <2>3 DEF RefusalInv, SnapshotPcs, ReportPath
  <2> QED BY <2>1, <2>2, <2>4, <2>5 DEF RefusalInv
<1> QED BY <1>1, <1>2, <1>3, <1>4, <1>5, <1>6 DEF SubmitStep

(* Only the vote that completes the quorum comes to carry the action. *)
LEMMA ApproveStepRefusal ==
  ASSUME TypeOK, RefusalInv, NEW c \in Calls, ApproveStep(c)
  PROVE  RefusalInv'
<1> PcTypes /\ LocTypes
  BY DEF TypeOK
<1>1. CASE ApproveLoad(c)
  <2>1. CASE ap.status = "pending"
    BY <1>1, <2>1, KeepRefusal
       DEF ApproveLoad, Goto, records, CarryingPcs, SnapshotPcs, ReportPath
  <2>2. CASE ap.status # "pending"
    BY <1>1, <2>2, ReturnRefusal DEF ApproveLoad, records
  <2> QED BY <2>1, <2>2
<1>2. CASE ApproveCheck(c)
  <2>1. UNCHANGED <<tc, ap, att>>
    BY <1>2 DEF ApproveCheck, records
  <2>2. \/ Return(c)
        \/ \E label \in {"expire", "approve_commit"} :
             pc' = [pc EXCEPT ![c] = label]
    BY <1>2 DEF ApproveCheck, Goto
  <2>3. \A d \in Calls : d # c => loc'[d] = loc[d]
    BY <1>2 DEF ApproveCheck, Return, LocTypes
  <2>4. \A label \in {"expire", "approve_commit"} :
          label \notin CarryingPcs /\ label \notin SnapshotPcs
    BY DEF CarryingPcs, SnapshotPcs, ReportPath
  <2> QED BY <2>1, <2>2, <2>3, <2>4, ReturnRefusal, KeepRefusal
<1>3. CASE ApproveRecord(c)
  <2>1. /\ ap.status = "pending" /\ UNCHANGED <<tc, att>>
        /\ ap' = [ap EXCEPT !.votes = VotesWith(c)]
        /\ Return(c)
    BY <1>3 DEF ApproveRecord, execution, VoteIsAdmissible, VoteReachesExpiry
  <2>2. ap'.status = "pending"
    BY <2>1 DEF TypeOK, RecordTypes, Approvals
  <2>3. \A d \in Calls : d # c => loc'[d] = loc[d]
    BY <2>1 DEF Return, LocTypes
  <2> QED BY <2>1, <2>2, <2>3, CloseRefusal
          DEF Return, CarryingPcs, SnapshotPcs, ReportPath
<1>4. CASE ApproveFinalize(c)
  <2>1. /\ ap.status = "pending" /\ UNCHANGED <<tc, att>>
        /\ Goto(c, "receipt")
        /\ loc' = [loc EXCEPT ![c].via = TRUE]
    BY <1>4 DEF ApproveFinalize, execution, VoteIsAdmissible, VoteReachesExpiry
  <2>2. ap'.status = "approved"
    BY <1>4 DEF ApproveFinalize, TypeOK, RecordTypes, Approvals
  <2>3. /\ \A d \in Calls : pc'[d] = IF d = c THEN "receipt" ELSE pc[d]
        /\ \A d \in Calls : d # c => loc'[d] = loc[d]
        /\ loc'[c].via
    BY <2>1 DEF Goto, PcTypes, LocTypes, Locals
  <2>4. \A d \in Calls : Carrying(d)' => d = c
    BY <2>1, <2>3, PendingCarriesNobody DEF Carrying
  <2>5. \A d \in Calls : pc'[d] \in SnapshotPcs => loc'[d].tc.status # "absent"
    BY <2>3 DEF RefusalInv, SnapshotPcs, ReportPath
  <2>6. tc'.status # "absent" /\ att'.state = "absent"
    BY <2>1, PendingCarriesNobody
  <2> QED BY <2>2, <2>3, <2>4, <2>5, <2>6 DEF RefusalInv, Refused
<1>5. CASE ApproveExpires(c)
  <2>1. /\ ap.status = "pending" /\ UNCHANGED <<tc, att, loc>>
        /\ pc' = [pc EXCEPT ![c] = "terminalize"]
    BY <1>5 DEF ApproveExpires, execution, VoteReachesExpiry, Goto
  <2>2. ap'.status \in Refused
    BY <1>5 DEF ApproveExpires, TypeOK, RecordTypes, Approvals, Refused
  <2> QED BY <2>1, <2>2, CloseRefusal
          DEF CarryingPcs, SnapshotPcs, ReportPath
<1>6. CASE ApproveConflict(c)
  BY <1>6, ReturnRefusal DEF ApproveConflict, records
<1> QED BY <1>1, <1>2, <1>3, <1>4, <1>5, <1>6 DEF ApproveStep

(* A refusal closes a pending approval, which nobody carries. *)
LEMMA CloseStepRefusal ==
  ASSUME TypeOK, RefusalInv, NEW c \in Calls, CloseStep(c)
  PROVE  RefusalInv'
<1> PcTypes /\ LocTypes
  BY DEF TypeOK
<1> loc[c].tc \in ToolCalls
  BY SnapshotType
<1>0. \A label \in {"expire", "close_load", "close_commit", "close_check",
                    "terminalize", "reject_write"} :
        label \notin CarryingPcs /\ label \notin SnapshotPcs
  BY DEF CarryingPcs, SnapshotPcs, ReportPath
<1>1. CASE CloseCheck(c)
  <2>1. UNCHANGED <<tc, ap, att>>
    BY <1>1 DEF CloseCheck, records
  <2>2. \/ Return(c)
        \/ \E label \in {"expire", "close_load", "close_commit"} :
             pc' = [pc EXCEPT ![c] = label]
    BY <1>1 DEF CloseCheck, Goto
  <2>3. \A d \in Calls : d # c => loc'[d] = loc[d]
    BY <1>1 DEF CloseCheck, Return, LocTypes
  <2> QED BY <1>0, <2>1, <2>2, <2>3, ReturnRefusal, KeepRefusal
<1>2. CASE CloseLoad(c)
  <2>1. UNCHANGED <<tc, ap, att>>
    BY <1>2 DEF CloseLoad, records
  <2>2. Return(c) \/ pc' = [pc EXCEPT ![c] = "close_check"]
    BY <1>2 DEF CloseLoad, Goto
  <2>3. \A d \in Calls : d # c => loc'[d] = loc[d]
    BY <1>2 DEF CloseLoad, Return, LocTypes
  <2> QED BY <1>0, <2>1, <2>2, <2>3, ReturnRefusal, KeepRefusal
<1>3. CASE CloseCommit(c)
  <2>1. /\ ap.status = "pending" /\ UNCHANGED <<tc, att, loc>>
        /\ \E label \in {"reject_write", "terminalize"} :
             pc' = [pc EXCEPT ![c] = label]
    BY <1>3 DEF CloseCommit, CloseAuthorized, execution, Goto
  <2>2. ap'.status \in Refused
    BY <1>3 DEF CloseCommit, TypeOK, RecordTypes, Approvals, Refused
  <2> QED BY <1>0, <2>1, <2>2, CloseRefusal
<1>4. CASE CloseExpires(c)
  <2>1. /\ ap.status = "pending" /\ UNCHANGED <<tc, att, loc>>
        /\ pc' = [pc EXCEPT ![c] = "terminalize"]
    BY <1>4 DEF CloseExpires, CloseAuthorized, execution, Goto
  <2>2. ap'.status \in Refused
    BY <1>4 DEF CloseExpires, TypeOK, RecordTypes, Approvals, Refused
  <2> QED BY <1>0, <2>1, <2>2, CloseRefusal
<1>5. CASE CloseConflict(c)
  BY <1>5, ReturnRefusal DEF CloseConflict, records
<1>6. CASE RejectWrite(c)
  <2>1. tc'.status # "absent"
    BY <1>6 DEF RejectWrite, ToolCalls
  <2> QED BY <1>6, <2>1, ReturnRefusal DEF RejectWrite, execution
<1>7. CASE Expire(c)
  <2>1. CASE ap.status = "pending" /\ ApprovalExpired
    <3>1. /\ ap.status = "pending" /\ UNCHANGED <<tc, att, loc>>
          /\ pc' = [pc EXCEPT ![c] = "terminalize"]
      BY <1>7, <2>1 DEF Expire, execution, Goto
    <3>2. ap'.status \in Refused
      BY <1>7, <2>1 DEF Expire, TypeOK, RecordTypes, Approvals, Refused
    <3> QED BY <1>0, <3>1, <3>2, CloseRefusal
  <2>2. CASE ~(ap.status = "pending" /\ ApprovalExpired)
    BY <1>7, <2>2, ReturnRefusal DEF Expire, execution
  <2> QED BY <2>1, <2>2
<1>8. CASE Terminalize(c)
  <2>1. tc' = tc \/ tc'.status # "absent"
    BY <1>8 DEF Terminalize, ToolCalls
  <2> QED BY <1>8, <2>1, ReturnRefusal DEF Terminalize, execution
<1> QED BY <1>1, <1>2, <1>3, <1>4, <1>5, <1>6, <1>7, <1>8 DEF CloseStep

(* An attempt that exists never becomes absent again, so completing it keeps
   a refused action unreserved. *)
LEMMA CompleteRefusal ==
  ASSUME TypeOK, RefusalInv, NEW c \in Calls, UNCHANGED <<tc, ap>>,
         NEW from \in {"reserved", "dispatched"}, NEW to \in TerminalStates,
         NEW next, next \notin CarryingPcs \cup SnapshotPcs,
         CompleteAttempt(c, from, to, next)
  PROVE  RefusalInv'
<1> PcTypes /\ LocTypes
  BY DEF TypeOK
<1>1. CASE OwnsAttempt(c, from)
  <2>1. /\ att.state # "absent"
        /\ att' = [att EXCEPT !.state = to]
        /\ pc' = [pc EXCEPT ![c] = next] /\ loc' = loc
    BY <1>1 DEF CompleteAttempt, OwnsAttempt, Goto
  <2>2. att'.state # "absent"
    BY <2>1 DEF TypeOK, RecordTypes, Attempts, TerminalStates, ReportStates
  <2> QED BY <2>1, <2>2, KeepRefusal
<1>2. CASE ~OwnsAttempt(c, from)
  BY <1>2, ReturnRefusal DEF CompleteAttempt
<1> QED BY <1>1, <1>2

(* The only reservation is that of the call that carries the action. *)
LEMMA ReservationStepRefusal ==
  ASSUME TypeOK, RefusalInv, NEW c \in Calls, ReservationStep(c)
  PROVE  RefusalInv'
<1> PcTypes /\ LocTypes
  BY DEF TypeOK
<1> loc[c].tc \in ToolCalls
  BY SnapshotType
<1>0. \A label \in {"fail", "fail_before", "fail_receipt", "local_preflight",
                    "grant_create"} :
        label \notin CarryingPcs /\ label \notin SnapshotPcs
  BY DEF CarryingPcs, SnapshotPcs, ReportPath
<1>1. CASE CreateReceipt(c)
  BY <1>1, CarryOn DEF CreateReceipt, Carrying, CarryingPcs
<1>2. CASE Revalidate(c)
  <2>1. /\ Carrying(c) /\ pc[c] = "revalidate"
        /\ UNCHANGED <<tc, ap, att, loc>>
        /\ Goto(c, "reserve") \/ Goto(c, "fail")
    BY <1>2 DEF Revalidate, records, Carrying, CarryingPcs
  <2>2. CASE Goto(c, "reserve")
    BY <2>1, <2>2, CarryOn DEF CarryingPcs
  <2>3. CASE Goto(c, "fail")
    BY <1>0, <2>1, <2>3, KeepRefusal DEF Goto
  <2> QED BY <2>1, <2>2, <2>3
<1>3. CASE Reserve(c)
  <2>1. CASE ReservationBinds(c) /\ att.state = "absent"
    <3>1. /\ Carrying(c) /\ UNCHANGED <<tc, ap>>
          /\ \E label \in {"local_preflight", "grant_create"} :
               pc' = [pc EXCEPT ![c] = label]
          /\ \A d \in Calls : d # c => loc'[d] = loc[d]
      BY <1>3, <2>1 DEF Reserve, Carrying, CarryingPcs, Goto, LocTypes
    <3>2. PICK label \in {"local_preflight", "grant_create"} :
            pc' = [pc EXCEPT ![c] = label]
      BY <3>1
    <3>3. \A d \in Calls : pc'[d] = IF d = c THEN label ELSE pc[d]
      BY <3>2 DEF PcTypes
    <3>4. /\ tc.status # "absent" /\ ap.status \in {"absent", "approved"}
          /\ \A d \in Calls : Carrying(d) => d = c
      BY <3>1 DEF RefusalInv
    <3>5. \A d \in Calls : ~Carrying(d)'
      BY <1>0, <3>3, <3>4 DEF Carrying
    <3>6. \A d \in Calls :
            pc'[d] \in SnapshotPcs => loc'[d].tc.status # "absent"
      BY <1>0, <3>1, <3>3 DEF RefusalInv
    <3> QED BY <3>1, <3>4, <3>5, <3>6 DEF RefusalInv, Refused
  <2>2. CASE ~(ReservationBinds(c) /\ att.state = "absent")
    BY <1>3, <2>2, ReturnRefusal DEF Reserve
  <2> QED BY <2>1, <2>2
<1>4. CASE FailBeforeDispatch(c)
  BY <1>0, <1>4, CompleteRefusal DEF FailBeforeDispatch, TerminalStates
<1>5. CASE FailToolCall(c)
  <2>1. tc'.status # "absent"
    BY <1>5 DEF FailToolCall, ToolCalls
  <2> QED BY <1>0, <1>5, <2>1, KeepRefusal DEF FailToolCall, Goto
<1>6. CASE FailReceipt(c)
  BY <1>6, ReturnRefusal DEF FailReceipt
<1> QED BY <1>1, <1>2, <1>3, <1>4, <1>5, <1>6 DEF ReservationStep

(* A local execution has its reservation behind it, and carries no more. *)
LEMMA LocalStepRefusal ==
  ASSUME TypeOK, RefusalInv, NEW c \in Calls, LocalStep(c)
  PROVE  RefusalInv'
<1> PcTypes /\ LocTypes
  BY DEF TypeOK
<1> loc[c].tc \in ToolCalls
  BY SnapshotType
<1>0. \A label \in {"fail", "fail_before", "local_bind", "local_dispatch",
                    "local_recheck", "local_unknown", "local_await",
                    "local_write"} :
        label \notin CarryingPcs /\ label \notin SnapshotPcs
  BY DEF CarryingPcs, SnapshotPcs, ReportPath
<1>00. \A label \in {"local_receipt", "local_expose", "local_release"} :
        label \notin CarryingPcs /\ label \in SnapshotPcs
  BY DEF CarryingPcs, SnapshotPcs
<1>1. CASE LocalPreflight(c)
  BY <1>0, <1>1, KeepRefusal DEF LocalPreflight, Goto, records
<1>2. CASE LocalBind(c)
  BY <1>0, <1>2, KeepRefusal DEF LocalBind, Goto, records
<1>3. CASE LocalDispatch(c)
  <2>1. CASE OwnsAttempt(c, "reserved") /\ ExposureGuard(loc[c].tc)
    <3>1. /\ att.state # "absent"
          /\ att' = [att EXCEPT !.state = "dispatched"]
          /\ pc' = [pc EXCEPT ![c] = "local_recheck"]
          /\ UNCHANGED <<tc, ap, loc>>
      BY <1>3, <2>1 DEF LocalDispatch, OwnsAttempt, Goto
    <3>2. att'.state # "absent"
      BY <3>1 DEF TypeOK, RecordTypes, Attempts
    <3> QED BY <1>0, <3>1, <3>2, KeepRefusal
  <2>2. CASE OwnsAttempt(c, "reserved") /\ ~ExposureGuard(loc[c].tc)
    <3>1. /\ pc' = [pc EXCEPT ![c] = "fail_before"]
          /\ UNCHANGED <<tc, ap, att, loc>>
      BY <1>3, <2>2 DEF LocalDispatch, Goto
    <3> QED BY <1>0, <3>1, KeepRefusal
  <2>3. CASE ~OwnsAttempt(c, "reserved")
    <3>1. Return(c) /\ UNCHANGED <<tc, ap, att>>
      BY <1>3, <2>3 DEF LocalDispatch
    <3> QED BY <3>1, ReturnRefusal
  <2> QED BY <2>1, <2>2, <2>3
<1>4. CASE LocalInvoke(c)
  BY <1>0, <1>4, KeepRefusal DEF LocalInvoke, Goto, records
<1>5. CASE LocalRefused(c)
  BY <1>0, <1>5, KeepRefusal DEF LocalRefused, Goto, records
<1>6. CASE LocalUnknown(c)
  BY <1>0, <1>6, CompleteRefusal DEF LocalUnknown, TerminalStates, ReportStates
<1>7. CASE LocalResult(c)
  BY <1>0, <1>7, CompleteRefusal DEF LocalResult, TerminalStates, ReportStates
<1>8. CASE LocalWrite(c)
  <2>1. tc'.status # "absent" /\ loc'[c].tc.status # "absent"
    BY <1>8 DEF LocalWrite, LocalExecuted, ToolCalls, LocTypes, Locals
  <2>2. \A d \in Calls : d # c => loc'[d] = loc[d]
    BY <1>8 DEF LocalWrite, LocTypes
  <2> QED BY <1>00, <1>8, <2>1, <2>2, KeepRefusal DEF LocalWrite, Goto
<1>9. CASE LocalReceipt(c)
  <2>1. loc[c].tc.status # "absent"
    BY <1>00, <1>9 DEF LocalReceipt, RefusalInv
  <2>2. CASE ExposureRequired(loc[c].tc)
    BY <1>00, <1>9, <2>1, <2>2, KeepRefusal DEF LocalReceipt, Goto
  <2>3. CASE ~ExposureRequired(loc[c].tc)
    BY <1>9, <2>3, ReturnRefusal DEF LocalReceipt
  <2> QED BY <2>2, <2>3
<1>10. CASE LocalExpose(c)
  <2>1. loc[c].tc.status # "absent"
    BY <1>00, <1>10 DEF LocalExpose, RefusalInv
  <2> QED BY <1>00, <1>10, <2>1, KeepRefusal DEF LocalExpose, Goto, records
<1>11. CASE LocalRelease(c)
  <2>1. loc[c].tc.status # "absent"
    BY <1>00, <1>11 DEF LocalRelease, RefusalInv
  <2>2. tc'.status # "absent"
    BY <1>11, <2>1 DEF LocalRelease, ToolCalls
  <2> QED BY <1>11, <2>2, ReturnRefusal DEF LocalRelease
<1> QED BY <1>1, <1>2, <1>3, <1>4, <1>5, <1>6, <1>7, <1>8, <1>9, <1>10, <1>11
        DEF LocalStep

(* So has the issue of a grant, *)
LEMMA GrantStepRefusal ==
  ASSUME TypeOK, RefusalInv, NEW c \in Calls, GrantStep(c)
  PROVE  RefusalInv'
<1> PcTypes /\ LocTypes
  BY DEF TypeOK
<1> loc[c].tc \in ToolCalls
  BY SnapshotType
<1>0. \A label \in {"fail_before", "grant_bind", "grant_audit", "authorize"} :
        label \notin CarryingPcs /\ label \notin SnapshotPcs
  BY DEF CarryingPcs, SnapshotPcs, ReportPath
<1>1. CASE GrantCreate(c)
  BY <1>0, <1>1, KeepRefusal DEF GrantCreate, Goto
<1>2. CASE GrantBind(c)
  <2>1. /\ UNCHANGED <<tc, ap, loc>>
        /\ \E label \in {"grant_audit", "fail_before"} :
             pc' = [pc EXCEPT ![c] = label]
        /\ att' = att \/ (att.state = "reserved"
                           /\ att' = [att EXCEPT !.bound = TRUE])
    BY <1>2 DEF GrantBind, OwnsAttempt, Goto
  <2>2. att' = att \/ (att.state # "absent" /\ att'.state # "absent")
    BY <2>1 DEF TypeOK, RecordTypes, Attempts
  <2> QED BY <1>0, <2>1, <2>2, KeepRefusal
<1>3. CASE GrantAudit(c)
  BY <1>0, <1>3, KeepRefusal DEF GrantAudit, Goto, records
<1>4. CASE Authorize(c)
  <2>1. tc'.status # "absent"
    BY <1>4 DEF Authorize, ToolCalls
  <2> QED BY <1>4, <2>1, ReturnRefusal DEF Authorize
<1> QED BY <1>1, <1>2, <1>3, <1>4 DEF GrantStep

(* the use of one, *)
LEMMA ConsumeStepRefusal ==
  ASSUME TypeOK, RefusalInv, NEW c \in Calls, ConsumeStep(c)
  PROVE  RefusalInv'
<1> PcTypes /\ LocTypes
  BY DEF TypeOK
<1>0. \A label \in {"consume_tool", "consume_validate", "consume_dispatch"} :
        label \notin CarryingPcs /\ label \notin SnapshotPcs
  BY DEF CarryingPcs, SnapshotPcs, ReportPath
<1>1. CASE ConsumeAttempt(c)
  BY <1>0, <1>1, KeepRefusal, ReturnRefusal DEF ConsumeAttempt, Goto, records
<1>2. CASE ConsumeToolCall(c)
  <2>1. UNCHANGED <<tc, ap, att>>
    BY <1>2 DEF ConsumeToolCall, records
  <2>2. Return(c) \/ pc' = [pc EXCEPT ![c] = "consume_validate"]
    BY <1>2 DEF ConsumeToolCall, Goto
  <2>3. \A d \in Calls : d # c => loc'[d] = loc[d]
    BY <1>2 DEF ConsumeToolCall, Return, LocTypes
  <2> QED BY <1>0, <2>1, <2>2, <2>3, KeepRefusal, ReturnRefusal
<1>3. CASE ConsumeValidate(c)
  BY <1>0, <1>3, KeepRefusal, ReturnRefusal DEF ConsumeValidate, Goto, records
<1>4. CASE ConsumeDispatch(c)
  <2>1. /\ UNCHANGED <<tc, ap>> /\ Return(c)
        /\ att' = att \/ (att.state = "reserved"
                           /\ att' = [att EXCEPT !.state = "dispatched"])
    BY <1>4 DEF ConsumeDispatch
  <2>2. att' = att \/ (att.state # "absent" /\ att'.state # "absent")
    BY <2>1 DEF TypeOK, RecordTypes, Attempts
  <2> QED BY <2>1, <2>2, ReturnRefusal
<1> QED BY <1>1, <1>2, <1>3, <1>4 DEF ConsumeStep

(* and the report of an outcome. *)
LEMMA ReportStepRefusal ==
  ASSUME TypeOK, RefusalInv, NEW c \in Calls, ReportStep(c)
  PROVE  RefusalInv'
<1> PcTypes /\ LocTypes
  BY DEF TypeOK
<1> loc[c].tc \in ToolCalls
  BY SnapshotType
<1>0. \A label \in ReportPath :
        label \notin CarryingPcs /\ label \in SnapshotPcs
  BY DEF CarryingPcs, SnapshotPcs, ReportPath
<1>00. pc[c] \in ReportPath => loc[c].tc.status # "absent"
  BY <1>0 DEF RefusalInv
<1>1. CASE ReportToolCall(c)
  <2>1. /\ pc' = [pc EXCEPT ![c] = "report_attempt"]
        /\ UNCHANGED <<tc, ap, att>>
        /\ \A d \in Calls : d # c => loc'[d] = loc[d]
    BY <1>1 DEF ReportToolCall, Goto, records, LocTypes
  <2> QED BY <2>1, KeepRefusal DEF CarryingPcs, SnapshotPcs, ReportPath
<1>2. CASE ReportAttempt(c)
  <2>1. /\ UNCHANGED <<tc, ap, att>>
        /\ \/ Return(c)
           \/ /\ pc' = [pc EXCEPT ![c] = "report_outcome"] /\ loc' = loc
              /\ loc[c].tc.status # "absent"
    BY <1>2 DEF ReportAttempt, ToolCallMatchesGrant, Goto, records
  <2> QED BY <1>0, <2>1, KeepRefusal, ReturnRefusal DEF ReportPath
<1>3. CASE ReportReceiptCheck(c)
  <2>1. /\ UNCHANGED <<tc, ap, att>> /\ pc[c] \in ReportPath
        /\ \/ Return(c)
           \/ pc' = [pc EXCEPT ![c] = "report_commit"] /\ loc' = loc
    BY <1>3 DEF ReportReceiptCheck, Goto, records, ReportPath
  <2> QED BY <1>0, <1>00, <2>1, KeepRefusal, ReturnRefusal DEF ReportPath
<1>4. CASE ReportTransition(c)
  <2>1. /\ pc[c] \in ReportPath /\ pc' = [pc EXCEPT ![c] = "report_receipt"]
        /\ att.state = "dispatched"
        /\ att' = [att EXCEPT !.state = loc[c].report.state,
                              !.body = loc[c].report.body]
        /\ UNCHANGED <<tc, ap, loc>>
    BY <1>4 DEF ReportTransition, Goto, ReportPath
  <2>2. att'.state # "absent"
    BY <2>1, SnapshotType
       DEF TypeOK, RecordTypes, Attempts, Reports, ReportStates
  <2> QED BY <1>0, <1>00, <2>1, <2>2, KeepRefusal DEF ReportPath
<1>5. CASE ReportReplay(c)
  <2>1. /\ UNCHANGED <<tc, ap, att>> /\ pc[c] \in ReportPath
        /\ \/ Return(c)
           \/ /\ pc' = [pc EXCEPT ![c] = "report_receipt"]
              /\ loc' = [loc EXCEPT ![c].replay = TRUE]
    BY <1>5 DEF ReportReplay, Goto, records, ReportPath
  <2>2. CASE Return(c)
    BY <2>1, <2>2, ReturnRefusal
  <2>3. CASE /\ pc' = [pc EXCEPT ![c] = "report_receipt"]
             /\ loc' = [loc EXCEPT ![c].replay = TRUE]
    <3>1. /\ loc'[c].tc = loc[c].tc
          /\ \A d \in Calls : d # c => loc'[d] = loc[d]
      BY <2>3 DEF LocTypes, Locals
    <3> QED BY <1>0, <1>00, <2>1, <2>3, <3>1, KeepRefusal DEF ReportPath
  <2> QED BY <2>1, <2>2, <2>3
<1>6. CASE ReportReceipt(c)
  <2>1. /\ UNCHANGED <<tc, ap, att>> /\ pc[c] \in ReportPath
        /\ \/ Return(c)
           \/ pc' = [pc EXCEPT ![c] = "report_write"] /\ loc' = loc
    BY <1>6 DEF ReportReceipt, Goto, ReportPath
  <2> QED BY <1>0, <1>00, <2>1, KeepRefusal, ReturnRefusal DEF ReportPath
<1>7. CASE ReportWrite(c)
  <2> DEFINE persisted == loc[c].replay /\ loc[c].tc.status # "authorized"
             delivered == IF persisted THEN loc[c].tc ELSE TerminalToolCall(c)
  <2>1. loc[c].tc.status # "absent"
    BY <1>7, <1>00 DEF ReportWrite, ReportPath
  <2>2. delivered \in ToolCalls /\ delivered.status # "absent"
    <3>1. TerminalToolCall(c) \in ToolCalls
      BY TerminalType
    <3>2. TerminalToolCall(c).status # "absent"
      BY DEF TerminalToolCall, ToolCalls
    <3> QED BY <2>1, <3>1, <3>2
  <2>3. /\ tc' = IF persisted THEN tc ELSE delivered
        /\ UNCHANGED <<ap, att>>
        /\ \/ Return(c)
           \/ /\ pc' = [pc EXCEPT ![c] = "report_expose"]
              /\ loc' = [loc EXCEPT ![c].tc = delivered]
    BY <1>7 DEF ReportWrite, Goto
  <2> HIDE DEF delivered, persisted
  <2>4. tc' = tc \/ tc'.status # "absent"
    BY <2>2, <2>3
  <2>5. CASE Return(c)
    BY <2>3, <2>4, <2>5, ReturnRefusal
  <2>6. CASE /\ pc' = [pc EXCEPT ![c] = "report_expose"]
             /\ loc' = [loc EXCEPT ![c].tc = delivered]
    <3>1. /\ loc'[c].tc.status # "absent"
          /\ \A d \in Calls : d # c => loc'[d] = loc[d]
      BY <2>2, <2>6 DEF LocTypes, Locals
    <3> QED BY <1>0, <2>3, <2>4, <2>6, <3>1, KeepRefusal DEF ReportPath
  <2> QED BY <2>3, <2>5, <2>6
<1>8. CASE ReportExpose(c)
  <2>1. /\ UNCHANGED <<tc, ap, att, loc>> /\ pc[c] \in ReportPath
        /\ pc' = [pc EXCEPT ![c] = "report_release"]
    BY <1>8 DEF ReportExpose, Goto, records, ReportPath
  <2> QED BY <1>0, <1>00, <2>1, KeepRefusal DEF ReportPath
<1>9. CASE ReportRelease(c)
  <2>1. tc'.status # "absent"
    BY <1>9, <1>00 DEF ReportRelease, ReportPath, ToolCalls
  <2> QED BY <1>9, <2>1, ReturnRefusal DEF ReportRelease
<1> QED BY <1>1, <1>2, <1>3, <1>4, <1>5, <1>6, <1>7, <1>8, <1>9
        DEF ReportStep

(* A new call carries nothing yet; a fault only drops what was carried. *)
LEMMA OtherRefusal ==
  ASSUME TypeOK, RefusalInv
  PROVE  /\ \A c \in Calls : Request(c) \/ Fault(c) => RefusalInv'
         /\ Environment \/ UNCHANGED vars => RefusalInv'
<1> PcTypes /\ LocTypes
  BY DEF TypeOK
<1>0. \A label \in {"approve_load", "close_check", "consume_attempt",
                    "report_tool", "fail_before"} :
        label \notin CarryingPcs /\ label \notin SnapshotPcs
  BY DEF CarryingPcs, SnapshotPcs, ReportPath
<1>1. ASSUME NEW c \in Calls, Request(c)
      PROVE  RefusalInv'
  <2>1. ASSUME NEW mode \in Modes, NEW scoped \in Scopes,
               SubmitEvaluate(c, mode, scoped)
        PROVE  RefusalInv'
    <3> DEFINE draft == [NoToolCall EXCEPT !.status = "submitted",
                                           !.policy = policy, !.mode = mode,
                                           !.scoped = scoped]
               fresh == [NoLocals EXCEPT !.at = now, !.tc = draft]
    <3>1. fresh.tc.status = "submitted"
      BY DEF NoToolCall, NoLocals
    <3>2. /\ UNCHANGED <<tc, ap, att>>
          /\ pc' = [pc EXCEPT ![c] = "submit_influence"]
          /\ loc' = [loc EXCEPT ![c] = fresh]
      BY <2>1 DEF SubmitEvaluate, records, Goto
    <3> HIDE DEF fresh
    <3>3. /\ loc'[c].tc.status # "absent"
          /\ \A d \in Calls : d # c => loc'[d] = loc[d]
      BY <3>1, <3>2 DEF LocTypes
    <3> QED BY <3>2, <3>3, KeepRefusal DEF CarryingPcs
  <2>2. ASSUME \/ \E p \in Principals, input \in Inputs :
                    ApproveBegin(c, p, input)
               \/ \E p \in Principals, kind \in {"reject", "cancel", "read"} :
                    CloseBegin(c, p, kind)
               \/ RunnerRequest(c)
        PROVE  /\ UNCHANGED <<tc, ap, att>>
               /\ \A d \in Calls : d # c => loc'[d] = loc[d]
               /\ \E label \in {"approve_load", "close_check",
                                "consume_attempt", "report_tool"} :
                    pc' = [pc EXCEPT ![c] = label]
    BY <2>2 DEF ApproveBegin, CloseBegin, RunnerRequest, ConsumeBegin,
       ReportBegin, Goto, records, LocTypes
  <2> QED BY <1>0, <1>1, <2>1, <2>2, KeepRefusal DEF Request, ApprovalRequest
<1>2. ASSUME NEW c \in Calls, Fault(c)
      PROVE  RefusalInv'
  <2>1. CASE Abort(c)
    BY <2>1, ReturnRefusal DEF Abort, records
  <2>2. CASE SubmitInfluenceUnavailable(c)
    <3>1. loc[c].tc \in ToolCalls /\ loc[c].tc.status # "absent"
      BY <2>2, SnapshotType
         DEF SubmitInfluenceUnavailable, RefusalInv, SnapshotPcs
    <3>2. /\ UNCHANGED <<tc, ap, att>>
          /\ pc' = [pc EXCEPT ![c] = "submit_create"]
          /\ loc' = [loc EXCEPT ![c].tc =
               DraftToolCall(loc[c].tc, {"unknown"}, -1)]
      BY <2>2 DEF SubmitInfluenceUnavailable, records, Goto
    <3>3. /\ loc'[c].tc.status # "absent"
          /\ \A d \in Calls : d # c => loc'[d] = loc[d]
      BY <3>1, <3>2 DEF DraftToolCall, LocTypes, Locals, ToolCalls
    <3> QED BY <3>2, <3>3, KeepRefusal DEF CarryingPcs
  <2>3. CASE GrantUnavailable(c)
    BY <1>0, <2>3, KeepRefusal DEF GrantUnavailable, Goto, records
  <2> QED BY <1>2, <2>1, <2>2, <2>3 DEF Fault
<1>3. ASSUME Environment \/ UNCHANGED vars
      PROVE  UNCHANGED <<tc, ap, att, pc, loc>>
  BY <1>3 DEF Environment, Tick, PolicyReload, ForeignExposure, records, vars
<1> QED BY <1>1, <1>2, <1>3 DEF RefusalInv, Carrying

(* Every step of the gate keeps the action carried by at most one call. *)
LEMMA NextRefusal ==
  ASSUME TypeOK, RefusalInv, [Next]_vars
  PROVE  RefusalInv'
BY OtherRefusal, SubmitStepRefusal, ApproveStepRefusal, CloseStepRefusal,
   ReservationStepRefusal, LocalStepRefusal, GrantStepRefusal,
   ConsumeStepRefusal, ReportStepRefusal
   DEF Next, Step, ApprovalStep, ExecutionStep

(* At most one call carries the action to its reservation, and only while the
   approval, if any, stands approved. *)
THEOREM CarriedByOne == Spec => []RefusalInv
<1>1. Init => RefusalInv
  BY InitRefusal
<1>2. TypeOK /\ RefusalInv /\ [Next]_vars => RefusalInv'
  BY NextRefusal
<1> QED BY <1>1, <1>2, TypeCorrect, PTL DEF Spec

(* Whatever races with a rejection, a cancellation or an expiry, an action
   that was refused is never reserved and has no effect. *)
THEOREM RefusedStaysRefused == Spec => []RefusedNeverRuns
<1>1. TypeOK /\ OneEffectInv /\ RefusalInv => RefusedNeverRuns
  BY DEF TypeOK, EnvironmentTypes, OneEffectInv, RefusalInv, RefusedNeverRuns
<1> QED BY <1>1, TypeCorrect, OneEffect, CarriedByOne, PTL

==============================================================================
