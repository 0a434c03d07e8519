---------------------------- MODULE DispatchProofs ----------------------------
(***************************************************************************)
(* Proofs about the two ways an action is dispatched outside the gate, for *)
(* any number of calls: PreparedFlow, where the provider is called once,   *)
(* an ended action is not published and known outcomes stay; and Runner,   *)
(* where the downstream tool is called once, known outcomes are true and   *)
(* shown results are recorded.                                             *)
(***************************************************************************)
EXTENDS PreparedFlow, Runner, FiniteSetTheorems, TLAPS

(* The records of a prepared action agree: grant and attempt go together, and
   only once the approval is given; a known outcome is on the receipt too. *)
Agree(v) ==
  /\ v \in Views
  /\ v.grant = "none" <=> v.attempt.state = "none"
  /\ v.grant = "issued" <=> v.attempt.state = "reserved"
  /\ v.grant # "none" => v.approval = "approved"
  /\ v.attempt.outcome # None =>
       /\ v.attempt.state \in {"succeeded", "failed_after_dispatch"}
       /\ v.receipt.outcome = v.attempt.outcome
  /\ v.receipt.outcome # None => v.receipt.present

(* What a change from v to w takes nothing back of. *)
Follows(v, w) ==
  /\ Agree(w)
  /\ v.grant = "consumed" => w.grant = "consumed"
  /\ v.toolCall.status = "failed" /\ v.attempt.state = "none" => w.attempt.state = "none"
  /\ v.attempt.outcome # None => w.attempt = v.attempt
  /\ v.receipt.outcome # None => w.receipt.outcome = v.receipt.outcome

---------------------------------------------------------------------------
(* The operations of the store on records that agree. *)

LEMMA SameFollows ==
  ASSUME NEW v, Agree(v)
  PROVE  Follows(v, v)
BY DEF Follows, Agree

LEMMA ApprovalFollows ==
  ASSUME NEW v, Agree(v), NEW op \in Closings \cup {"decide"}
  PROVE  Follows(v, After(Req(op), v))
<1>1. Wins(Req(op), v) => v.approval = "pending"
  <2>1. CASE op = "decide"
    BY <2>1 DEF Wins, Winning, Answer, Req, DecideAnswer, Closings
  <2>2. CASE op \in Closings
    <3>1. Answer(Req(op), v) = CloseAnswer(v, Req(op))
      BY <2>2 DEF Answer, Req, Closings
    <3> QED
      BY <2>2, <3>1 DEF Wins, Winning, CloseAnswer, Req, Closings
  <2> QED
    BY <2>1, <2>2
<1>2. CASE Wins(Req(op), v)
  <2>1. \E approval \in {"approved", "rejected", "cancelled", "expired"} :
          After(Req(op), v) = [v EXCEPT !.approval = approval]
    BY <1>2 DEF After, Effect, Wins, Winning, Answer, Req, DecideAnswer, CloseAnswer, Closings
  <2> QED
    BY <1>1, <1>2, <2>1 DEF Follows, Agree, Views
<1> QED
  BY <1>2, SameFollows DEF After

LEMMA PublishFollows ==
  ASSUME NEW v, Agree(v)
  PROVE  Follows(v, After(Req("publish"), v))
<1>1. CASE Wins(Req("publish"), v)
  <2>1. /\ v.approval = "approved" /\ v.toolCall.status = "pending_approval"
        /\ ~v.receipt.present /\ v.grant = "none" /\ v.attempt.state = "none"
    BY <1>1 DEF Wins, Winning, Answer, Req, PublishAnswer, PublicationExists
  <2>2. After(Req("publish"), v) = Published(v)
    BY <1>1 DEF After, Effect, Req, Closings
  <2>. DEFINE toolCall == [v.toolCall EXCEPT !.status = "authorized"]
              receipt == [present |-> TRUE, outcome |-> None]
              attempt == [state |-> "reserved", bound |-> TRUE, outcome |-> None]
  <2>3. toolCall \in ToolCallRows /\ receipt \in ReceiptRows /\ attempt \in AttemptRows
    BY DEF Agree, Views, ToolCallRows, ReceiptRows, AttemptRows
  <2>4. Published(v) = [v EXCEPT !.toolCall = toolCall, !.receipt = receipt,
                                 !.grant = "issued", !.attempt = attempt]
    BY DEF Published
  <2>5. Published(v) \in Views
    BY <2>3, <2>4 DEF Agree, Views
  <2>6. /\ Published(v).receipt = receipt /\ Published(v).attempt = attempt
        /\ Published(v).grant = "issued" /\ Published(v).approval = v.approval
    BY <2>4 DEF Agree, Views
  <2> QED
    BY <2>1, <2>2, <2>5, <2>6 DEF Follows, Agree
<1> QED
  BY <1>1, SameFollows DEF After

LEMMA ConsumeFollows ==
  ASSUME NEW v, Agree(v)
  PROVE  /\ Follows(v, After(Req("consume"), v))
         /\ Wins(Req("consume"), v) =>
              v.grant = "issued" /\ After(Req("consume"), v).grant = "consumed"
<1>1. CASE Wins(Req("consume"), v)
  <2>1. v.grant = "issued" /\ v.attempt.state = "reserved"
    BY <1>1 DEF Wins, Winning, Answer, Req, ConsumeAnswer, Agree, Views
  <2>2. After(Req("consume"), v) =
          [v EXCEPT !.grant = "consumed", !.attempt.state = "dispatched"]
    BY <1>1 DEF After, Effect, Req, Closings
  <2>. DEFINE attempt == [v.attempt EXCEPT !.state = "dispatched"]
              w == [v EXCEPT !.grant = "consumed", !.attempt = attempt]
  <2>3. attempt \in AttemptRows /\ attempt.state = "dispatched"
        /\ attempt.outcome = v.attempt.outcome
    BY DEF Agree, Views, AttemptRows
  <2>4. After(Req("consume"), v) = w
    BY <2>2
  <2>5. /\ w \in Views /\ w.attempt = attempt /\ w.grant = "consumed"
        /\ w.receipt = v.receipt /\ w.approval = v.approval
    BY <2>3 DEF Agree, Views
  <2> QED
    BY <2>1, <2>3, <2>4, <2>5 DEF Follows, Agree
<1> QED
  BY <1>1, SameFollows DEF After

LEMMA RecordFollows ==
  ASSUME NEW v, Agree(v), NEW body \in Bodies
  PROVE  Follows(v, After(ReqOf("record", body), v))
<1>. DEFINE r == ReqOf("record", body)
<1>1. CASE Wins(r, v)
  <2>1. /\ v.grant = "consumed" /\ v.attempt.state = "dispatched"
        /\ v.receipt.present /\ v.receipt.outcome = None
    BY <1>1 DEF Wins, Winning, Answer, ReqOf, RecordAnswer, ConflictDisposition, Closings
  <2>. DEFINE attempt == [v.attempt EXCEPT !.state = SettledState(body), !.outcome = body]
              receipt == [v.receipt EXCEPT !.outcome = body]
              toolCall == [status |-> ToolCallStatus(body), outcome |-> body]
              w == [v EXCEPT !.attempt = attempt, !.receipt = receipt, !.toolCall = toolCall]
  <2>2. /\ toolCall \in ToolCallRows
        /\ receipt \in ReceiptRows /\ receipt.present = v.receipt.present
        /\ receipt.outcome = body
        /\ attempt \in AttemptRows /\ attempt.outcome = body
        /\ attempt.state \in {"succeeded", "failed_after_dispatch"}
    BY DEF Agree, Views, ToolCallRows, ReceiptRows, AttemptRows, SettledState, ToolCallStatus
  <2>3. After(r, v) = w
    BY <1>1 DEF After, Effect, ReqOf, Closings, Agree, Views
  <2>4. /\ w \in Views /\ w.attempt = attempt /\ w.receipt = receipt
        /\ w.grant = v.grant /\ w.approval = v.approval
    BY <2>2 DEF Agree, Views
  <2>5. v.attempt.outcome = None
    BY <2>1 DEF Agree
  <2>6. body # None
    BY BodiesAssumption DEF None
  <2>. HIDE DEF attempt, receipt, toolCall, w
  <2> QED
    BY <2>1, <2>2, <2>3, <2>4, <2>5, <2>6 DEF Follows, Agree
<1> QED
  BY <1>1, SameFollows DEF After

LEMMA AdoptFollows ==
  ASSUME NEW v, Agree(v), NEW body \in Bodies
  PROVE  Follows(v, After(ReqOf("adopt", body), v))
<1>. DEFINE r == ReqOf("adopt", body)
<1>1. CASE Wins(r, v)
  <2>1. /\ v.grant = "consumed" /\ v.attempt.outcome = body
        /\ v.receipt.present /\ v.receipt.outcome \in {None, body}
    BY <1>1 DEF Wins, Winning, Answer, ReqOf, AdoptAnswer, Closings
  <2>. DEFINE receipt == [v.receipt EXCEPT !.outcome = body]
              toolCall == [status |-> ToolCallStatus(body), outcome |-> body]
              w == [v EXCEPT !.receipt = receipt, !.toolCall = toolCall]
  <2>2. /\ toolCall \in ToolCallRows
        /\ receipt \in ReceiptRows /\ receipt.present = v.receipt.present
        /\ receipt.outcome = body
    BY DEF Agree, Views, ToolCallRows, ReceiptRows, ToolCallStatus
  <2>3. After(r, v) = w
    BY <1>1 DEF After, Effect, ReqOf, Closings, Agree, Views
  <2>4. /\ w \in Views /\ w.attempt = v.attempt /\ w.receipt = receipt
        /\ w.grant = v.grant /\ w.approval = v.approval
    BY <2>2 DEF Agree, Views
  <2>5. body # None
    BY BodiesAssumption DEF None
  <2>. HIDE DEF receipt, toolCall, w
  <2> QED
    BY <2>1, <2>2, <2>3, <2>4, <2>5 DEF Follows, Agree
<1> QED
  BY <1>1, SameFollows DEF After

LEMMA GiveUpFollows ==
  ASSUME NEW v, Agree(v)
  PROVE  Follows(v, After(Req("giveUp"), v))
<1>1. CASE Wins(Req("giveUp"), v)
  <2>1. v.attempt.state = "dispatched"
    BY <1>1 DEF Wins, Winning, Answer, Req, SettleAnswer, TerminalStates, Closings
  <2>. DEFINE attempt == [v.attempt EXCEPT !.state = "unknown_outcome"]
              w == [v EXCEPT !.attempt = attempt]
  <2>2. /\ attempt \in AttemptRows /\ attempt.state = "unknown_outcome"
        /\ attempt.outcome = v.attempt.outcome
    BY DEF Agree, Views, AttemptRows
  <2>3. After(Req("giveUp"), v) = w
    BY <1>1 DEF After, Effect, Req, Closings, Agree, Views
  <2>4. /\ w \in Views /\ w.attempt = attempt /\ w.receipt = v.receipt
        /\ w.grant = v.grant /\ w.approval = v.approval
    BY <2>2 DEF Agree, Views
  <2> QED
    BY <2>1, <2>2, <2>3, <2>4 DEF Follows, Agree
<1> QED
  BY <1>1, SameFollows DEF After

LEMMA ReceiptOutcomeFollows ==
  ASSUME NEW v, Agree(v), NEW body \in Bodies
  PROVE  Follows(v, After(ReqOf("receiptOutcome", body), v))
<1>. DEFINE r == ReqOf("receiptOutcome", body)
<1>1. CASE Wins(r, v)
  <2>1. v.receipt.present /\ v.receipt.outcome = None
    BY <1>1 DEF Wins, Winning, Answer, ReqOf, ReceiptOutcomeAnswer, Closings
  <2>. DEFINE receipt == [v.receipt EXCEPT !.outcome = body]
              w == [v EXCEPT !.receipt = receipt]
  <2>2. /\ receipt \in ReceiptRows /\ receipt.present = v.receipt.present
        /\ receipt.outcome = body
    BY DEF Agree, Views, ReceiptRows
  <2>3. After(r, v) = w
    BY <1>1 DEF After, Effect, ReqOf, Closings, Agree, Views
  <2>4. /\ w \in Views /\ w.attempt = v.attempt /\ w.receipt = receipt
        /\ w.grant = v.grant /\ w.approval = v.approval
    BY <2>2 DEF Agree, Views
  <2>5. v.attempt.outcome = None
    BY <2>1, <2>2 DEF Agree
  <2>. HIDE DEF receipt, w
  <2>6. Agree(w)
    BY <2>1, <2>2, <2>4, <2>5 DEF Agree
  <2> QED
    BY <2>1, <2>3, <2>4, <2>6 DEF Follows
<1> QED
  BY <1>1, SameFollows DEF After

(* What happens to the tool call, the scope and the time concerns no other
   record. *)
LEMMA SideFollows ==
  ASSUME NEW v, Agree(v), NEW w \in Views,
         w.grant = v.grant, w.approval = v.approval, w.attempt = v.attempt, w.receipt = v.receipt
  PROVE  Follows(v, w)
BY DEF Follows, Agree

---------------------------------------------------------------------------
(* The flow: a call that is about to call the provider is alone, nobody did
   before it, and the grant is consumed for good. *)
OutcomePcs == {"record", "adopt", "giveUp", "receiptOutcome", "project"}

FlowInv ==
  /\ PrepTypeOK
  /\ Agree(prepRows)
  /\ \A c \in StoreCalls :
       /\ prepPc[c] = "execute" => prepRows.grant = "consumed" /\ prepEffects = 0
       /\ prepPc[c] \in OutcomePcs => prepLoc[c].body \in Bodies
  /\ \A c, d \in StoreCalls : prepPc[c] = "execute" /\ prepPc[d] = "execute" => c = d
  /\ prepEffects <= 1
  /\ prepEffects = 1 => prepRows.grant = "consumed"

Loaded == [toolCall : ToolCallRows, body : Bodies \cup {None}]

LEMMA FlowTypes ==
  ASSUME FlowInv
  PROVE  /\ prepRows \in Views /\ Agree(prepRows)
         /\ prepPc \in [StoreCalls -> PrepPcs]
         /\ prepLoc \in [StoreCalls -> Loaded]
         /\ prepEffects \in Nat
         /\ NothingLoaded \in Loaded
BY DEF FlowInv, PrepTypeOK, Loaded, NothingLoaded, NoRecords, ToolCallRows

(* A step of one call that does not take it to the provider. *)
LEMMA FlowGoesOn ==
  ASSUME FlowInv, NEW c \in StoreCalls,
         Follows(prepRows, prepRows'), UNCHANGED <<prepPolicy, prepEffects>>,
         prepPc' \in [StoreCalls -> PrepPcs], prepLoc' \in [StoreCalls -> Loaded],
         \A d \in StoreCalls \ {c} : prepPc'[d] = prepPc[d] /\ prepLoc'[d] = prepLoc[d],
         prepPc'[c] # "execute",
         prepPc'[c] \in OutcomePcs => prepLoc'[c].body \in Bodies
  PROVE  FlowInv'
<1>1. PrepTypeOK' /\ Agree(prepRows)'
  BY DEF FlowInv, PrepTypeOK, Loaded, Follows, Agree
<1>2. prepRows.grant = "consumed" => prepRows'.grant = "consumed"
  BY DEF Follows
<1> QED
  BY <1>1, <1>2 DEF FlowInv

(* The call ends, or goes on with what it has loaded. *)
LEMMA EndGoesOn ==
  ASSUME FlowInv, NEW c \in StoreCalls, Follows(prepRows, prepRows'),
         UNCHANGED <<prepPolicy, prepEffects>>, End(c)
  PROVE  FlowInv'
BY FlowTypes, FlowGoesOn DEF End, GoTo, PrepPcs, OutcomePcs

LEMMA GoToGoesOn ==
  ASSUME FlowInv, NEW c \in StoreCalls, Follows(prepRows, prepRows'),
         UNCHANGED <<prepPolicy, prepEffects, prepLoc>>,
         NEW pc \in PrepPcs \ {"execute"}, GoTo(c, pc),
         pc \in OutcomePcs => prepLoc[c].body \in Bodies
  PROVE  FlowInv'
BY FlowTypes, FlowGoesOn DEF GoTo

(* The call of the store by which a call goes on. *)
LEMMA CallStoreGoesOn ==
  ASSUME FlowInv, NEW c \in StoreCalls, NEW r, NEW more, NEW pc \in PrepPcs \ {"execute"},
         Follows(prepRows, After(r, prepRows)), CallStore(c, r, more, pc),
         pc \in OutcomePcs => prepLoc[c].body \in Bodies
  PROVE  FlowInv' /\ Follows(prepRows, prepRows')
BY EndGoesOn, GoToGoesOn DEF CallStore

(* A tool call that is stored as failed. *)
LEMMA ToolCallFollows ==
  ASSUME FlowInv, NEW toolCall \in ToolCallRows, prepRows' = [prepRows EXCEPT !.toolCall = toolCall]
  PROVE  Follows(prepRows, prepRows')
BY FlowTypes, SideFollows DEF Views

LEMMA LoadGoesOn ==
  ASSUME FlowInv, NEW c \in StoreCalls, Stays, NEW pc \in PrepPcs \ (OutcomePcs \cup {"execute"}),
         GoTo(c, pc), prepLoc' = [prepLoc EXCEPT ![c].toolCall = prepRows.toolCall]
  PROVE  FlowInv' /\ Follows(prepRows, prepRows')
<1>1. prepLoc' \in [StoreCalls -> Loaded]
  <2>1. prepRows.toolCall \in ToolCallRows
    BY FlowTypes DEF Views
  <2> QED
    BY <2>1, FlowTypes DEF Loaded
<1>2. Follows(prepRows, prepRows')
  BY FlowTypes, SameFollows DEF Stays
<1> QED
  BY <1>1, <1>2, FlowTypes, FlowGoesOn DEF GoTo, Stays

---------------------------------------------------------------------------
(* The steps of a call. *)

LEMMA ApprovalSteps ==
  ASSUME FlowInv, NEW c \in StoreCalls,
         \/ ApproveRequested(c) \/ Vote(c) \/ RevalidatePublication(c)
         \/ Publish(c) \/ FailPrepared(c)
         \/ CloseRequested(c) \/ \E op \in Closings : ClosePrepared(c, op)
         \/ Terminalize(c)
  PROVE  FlowInv' /\ Follows(prepRows, prepRows')
<1>1. CASE ApproveRequested(c) \/ CloseRequested(c)
  <2>1. /\ Stays /\ \E pc \in {"vote", "revalidate", "close"} : GoTo(c, pc)
        /\ prepLoc' = [prepLoc EXCEPT ![c].toolCall = prepRows.toolCall]
    BY <1>1 DEF ApproveRequested, CloseRequested
  <2> QED
    BY <2>1, LoadGoesOn DEF PrepPcs, OutcomePcs
<1>2. CASE Vote(c)
  <2>1. PICK pc \in {"terminalize", "revalidate"} : CallStore(c, Req("decide"), {}, pc)
    BY <1>2 DEF Vote
  <2>2. Follows(prepRows, After(Req("decide"), prepRows))
    BY FlowTypes, ApprovalFollows
  <2> QED
    BY <2>1, <2>2, CallStoreGoesOn DEF PrepPcs, OutcomePcs
<1>3. CASE RevalidatePublication(c)
  <2>1. UNCHANGED <<prepRows, prepPolicy, prepEffects, prepLoc>>
        /\ \E pc \in {"publish", "fail"} : GoTo(c, pc)
    BY <1>3 DEF RevalidatePublication, Stays
  <2>2. Follows(prepRows, prepRows')
    BY <2>1, FlowTypes, SameFollows
  <2> QED
    BY <2>1, <2>2, GoToGoesOn DEF PrepPcs, OutcomePcs
<1>4. CASE Publish(c)
  <2>1. Follows(prepRows, prepRows')
    BY <1>4, FlowTypes, PublishFollows DEF Publish
  <2> QED
    BY <1>4, <2>1, EndGoesOn DEF Publish
<1>5. CASE FailPrepared(c) \/ Terminalize(c)
  <2>. DEFINE toolCall == [prepLoc[c].toolCall EXCEPT !.status = "failed"]
  <2>1. /\ prepRows' = [prepRows EXCEPT !.toolCall = toolCall] /\ End(c)
        /\ UNCHANGED <<prepPolicy, prepEffects>>
    BY <1>5 DEF FailPrepared, Terminalize
  <2>2. toolCall \in ToolCallRows
    BY FlowTypes DEF Loaded, ToolCallRows
  <2>3. Follows(prepRows, prepRows')
    BY <2>1, <2>2, ToolCallFollows
  <2> QED
    BY <2>1, <2>3, EndGoesOn
<1>6. CASE \E op \in Closings : ClosePrepared(c, op)
  <2>1. PICK op \in Closings : CallStore(c, Req(op), {}, "terminalize")
    BY <1>6 DEF ClosePrepared
  <2>2. Follows(prepRows, After(Req(op), prepRows))
    BY FlowTypes, ApprovalFollows
  <2> QED
    BY <2>1, <2>2, CallStoreGoesOn DEF PrepPcs, OutcomePcs
<1> QED
  BY <1>1, <1>2, <1>3, <1>4, <1>5, <1>6

(* Only the winner of the consumption goes on to the provider. *)
LEMMA ExecutionSteps ==
  ASSUME FlowInv, NEW c \in StoreCalls,
         ConsumeRequested(c) \/ DispatchPrepared(c) \/ CallProvider(c)
  PROVE  FlowInv' /\ Follows(prepRows, prepRows')
<1>1. CASE ConsumeRequested(c)
  <2>1. UNCHANGED <<prepRows, prepPolicy, prepEffects, prepLoc>> /\ GoTo(c, "dispatch")
    BY <1>1 DEF ConsumeRequested, Stays
  <2>2. Follows(prepRows, prepRows')
    BY <2>1, FlowTypes, SameFollows
  <2> QED
    BY <2>1, <2>2, GoToGoesOn DEF PrepPcs, OutcomePcs
<1>2. CASE DispatchPrepared(c)
  <2>1. /\ prepRows' = After(Req("consume"), prepRows)
        /\ UNCHANGED <<prepPolicy, prepEffects>>
        /\ IF Wins(Req("consume"), prepRows)
           THEN GoTo(c, "execute") /\ UNCHANGED prepLoc ELSE End(c)
    BY <1>2 DEF DispatchPrepared, CallStore
  <2>2. /\ Follows(prepRows, prepRows')
        /\ Wins(Req("consume"), prepRows) =>
             prepRows.grant = "issued" /\ prepRows'.grant = "consumed"
    BY <2>1, FlowTypes, ConsumeFollows
  <2>3. CASE Wins(Req("consume"), prepRows)
    <3>1. /\ prepRows.grant = "issued" /\ prepRows'.grant = "consumed"
          /\ prepPc' = [prepPc EXCEPT ![c] = "execute"] /\ UNCHANGED prepLoc
      BY <2>1, <2>2, <2>3 DEF GoTo
    <3>2. prepEffects = 0 /\ \A d \in StoreCalls : prepPc[d] # "execute"
      BY <3>1 DEF FlowInv, PrepTypeOK
    <3>3. PrepTypeOK' /\ Agree(prepRows)'
      BY <2>1, <2>2, <3>1 DEF FlowInv, PrepTypeOK, Follows, Agree, PrepPcs
    <3>4. \A d \in StoreCalls : prepPc'[d] = IF d = c THEN "execute" ELSE prepPc[d]
      BY <3>1, FlowTypes
    <3> QED
      BY <2>1, <2>2, <3>1, <3>2, <3>3, <3>4 DEF FlowInv, OutcomePcs
  <2>4. CASE ~Wins(Req("consume"), prepRows)
    BY <2>1, <2>2, <2>4, EndGoesOn
  <2> QED
    BY <2>3, <2>4
<1>3. CASE CallProvider(c)
  <2>1. /\ prepPc[c] = "execute" /\ prepEffects' = prepEffects + 1
        /\ UNCHANGED <<prepRows, prepPolicy>>
        /\ prepPc' = [prepPc EXCEPT ![c] = "idle"]
        /\ prepLoc' = [prepLoc EXCEPT ![c] = NothingLoaded]
    BY <1>3 DEF CallProvider, End, GoTo
  <2>2. prepRows.grant = "consumed" /\ prepEffects = 0
        /\ \A d \in StoreCalls \ {c} : prepPc[d] # "execute"
    BY <2>1 DEF FlowInv
  <2>3. \A d \in StoreCalls : prepPc'[d] # "execute"
    BY <2>1, <2>2, FlowTypes
  <2>4. PrepTypeOK'
    BY <2>1, FlowTypes DEF FlowInv, PrepTypeOK, Loaded, PrepPcs
  <2>5. \A d \in StoreCalls : prepPc'[d] \in OutcomePcs => prepLoc'[d].body \in Bodies
    BY <2>1, FlowTypes DEF FlowInv, OutcomePcs
  <2> QED
    BY <2>1, <2>2, <2>3, <2>4, <2>5, SameFollows DEF FlowInv
<1> QED
  BY <1>1, <1>2, <1>3

LEMMA ReportSteps ==
  ASSUME FlowInv, NEW c \in StoreCalls,
         \/ ReportRequested(c)
         \/ \E known \in BOOLEAN, body \in Bodies : LoadAttempt(c, known, body)
         \/ RecordPrepared(c) \/ GiveUp(c) \/ RecordReceiptOutcome(c) \/ Project(c)
  PROVE  FlowInv' /\ Follows(prepRows, prepRows')
<1>0. prepPc[c] \in OutcomePcs => prepLoc[c].body \in Bodies
  BY DEF FlowInv
<1>1. CASE ReportRequested(c)
  BY <1>1, LoadGoesOn DEF ReportRequested, PrepPcs, OutcomePcs
<1>2. CASE \E known \in BOOLEAN, body \in Bodies : LoadAttempt(c, known, body)
  <2>1. UNCHANGED <<prepRows, prepPolicy, prepEffects>>
    BY <1>2 DEF LoadAttempt, Stays
  <2>2. Follows(prepRows, prepRows')
    BY <2>1, FlowTypes, SameFollows
  <2>3. CASE End(c)
    BY <2>1, <2>2, <2>3, EndGoesOn
  <2>4. CASE ~End(c)
    <3>1. PICK body \in Bodies, pc \in {"giveUp", "record", "adopt"} :
            GoTo(c, pc) /\ prepLoc' = [prepLoc EXCEPT ![c].body = body]
      BY <1>2, <2>4 DEF LoadAttempt
    <3>2. /\ prepLoc' \in [StoreCalls -> Loaded] /\ prepLoc'[c].body = body
          /\ \A d \in StoreCalls \ {c} : prepLoc'[d] = prepLoc[d]
      BY <3>1, FlowTypes DEF Loaded
    <3>3. /\ prepPc' \in [StoreCalls -> PrepPcs] /\ prepPc'[c] # "execute"
          /\ \A d \in StoreCalls \ {c} : prepPc'[d] = prepPc[d]
      BY <3>1, FlowTypes DEF GoTo, PrepPcs
    <3> QED
      BY <2>1, <2>2, <3>2, <3>3, FlowGoesOn
  <2> QED
    BY <2>3, <2>4
<1>3. CASE RecordPrepared(c)
  <2>1. /\ prepRows' = After(ReqOf(prepPc[c], prepLoc[c].body), prepRows) /\ End(c)
        /\ prepPc[c] \in {"record", "adopt"} /\ UNCHANGED <<prepPolicy, prepEffects>>
    BY <1>3 DEF RecordPrepared
  <2>2. prepLoc[c].body \in Bodies
    BY <1>0, <2>1 DEF OutcomePcs
  <2>3. Follows(prepRows, prepRows')
    BY <2>1, <2>2, FlowTypes, RecordFollows, AdoptFollows
  <2> QED
    BY <2>1, <2>3, EndGoesOn
<1>4. CASE GiveUp(c)
  <2>1. prepLoc[c].body \in Bodies
    BY <1>0, <1>4 DEF GiveUp, OutcomePcs
  <2>2. CASE CallStore(c, Req("giveUp"), {"replay"}, "receiptOutcome")
    <3>1. Follows(prepRows, After(Req("giveUp"), prepRows))
      BY FlowTypes, GiveUpFollows
    <3> QED
      BY <2>1, <2>2, <3>1, CallStoreGoesOn DEF PrepPcs
  <2>3. CASE End(c) /\ Stays
    <3>1. Follows(prepRows, prepRows')
      BY <2>3, FlowTypes, SameFollows DEF Stays
    <3> QED
      BY <2>3, <3>1, EndGoesOn DEF Stays
  <2> QED
    BY <1>4, <2>2, <2>3 DEF GiveUp
<1>5. CASE RecordReceiptOutcome(c)
  <2>1. prepLoc[c].body \in Bodies
    BY <1>0, <1>5 DEF RecordReceiptOutcome, OutcomePcs
  <2>2. /\ prepRows' = After(ReqOf("receiptOutcome", prepLoc[c].body), prepRows)
        /\ (GoTo(c, "project") /\ UNCHANGED prepLoc) \/ End(c)
        /\ UNCHANGED <<prepPolicy, prepEffects>>
    BY <1>5 DEF RecordReceiptOutcome
  <2>3. Follows(prepRows, prepRows')
    BY <2>1, <2>2, FlowTypes, ReceiptOutcomeFollows
  <2> QED
    BY <2>1, <2>2, <2>3, EndGoesOn, GoToGoesOn DEF PrepPcs
<1>6. CASE Project(c)
  <2>. DEFINE toolCall == [status |-> "failed", outcome |-> prepLoc[c].body]
  <2>1. /\ prepRows' = [prepRows EXCEPT !.toolCall = toolCall] /\ End(c)
        /\ UNCHANGED <<prepPolicy, prepEffects>>
    BY <1>6 DEF Project
  <2>2. toolCall \in ToolCallRows
    BY FlowTypes DEF Loaded, ToolCallRows
  <2>3. Follows(prepRows, prepRows')
    BY <2>1, <2>2, ToolCallFollows
  <2> QED
    BY <2>1, <2>3, EndGoesOn
<1> QED
  BY <1>1, <1>2, <1>3, <1>4, <1>5, <1>6

(* The surroundings touch neither grant nor attempt. *)
LEMMA SurroundingSteps ==
  ASSUME FlowInv,
         (\E c \in StoreCalls : Abandon(c)) \/ ReloadPolicy \/ ScopeMoves \/ UNCHANGED prepVars
  PROVE  FlowInv' /\ Follows(prepRows, prepRows')
<1>1. CASE \E c \in StoreCalls : Abandon(c)
  <2>1. PICK c \in StoreCalls : End(c) /\ Stays
    BY <1>1 DEF Abandon
  <2>2. Follows(prepRows, prepRows')
    BY <2>1, FlowTypes, SameFollows DEF Stays
  <2> QED
    BY <2>1, <2>2, EndGoesOn DEF Stays
<1>2. CASE ReloadPolicy \/ ScopeMoves \/ UNCHANGED prepVars
  <2>1. /\ UNCHANGED <<prepPc, prepLoc, prepEffects>>
        /\ prepPolicy' \in {"deciding", "other"}
    BY <1>2 DEF ReloadPolicy, ScopeMoves, prepVars, FlowInv, PrepTypeOK
  <2>2. Follows(prepRows, prepRows')
    <3>1. CASE UNCHANGED prepRows
      BY <3>1, FlowTypes, SameFollows
    <3>2. CASE Wins(Req("expose"), prepRows) /\ prepRows' = After(Req("expose"), prepRows)
      <4>1. prepRows.scope = 0
        BY <3>2 DEF Wins, Winning, Answer, Req, ExposeAnswer, Closings
      <4>2. prepRows' = [prepRows EXCEPT !.scope = 1]
        BY <3>2, <4>1 DEF After, Effect, Req, Closings
      <4> QED
        BY <4>2, FlowTypes, SideFollows DEF Views
    <3>3. CASE \E late \in BOOLEAN : prepRows' = [prepRows EXCEPT !.late = late]
      BY <3>3, FlowTypes, SideFollows DEF Views
    <3> QED
      BY <1>2, <3>1, <3>2, <3>3 DEF ReloadPolicy, ScopeMoves, prepVars
  <2> QED
    BY <2>1, <2>2 DEF FlowInv, PrepTypeOK, Follows, Agree
<1> QED
  BY <1>1, <1>2

LEMMA FlowInductive ==
  ASSUME FlowInv, [PreparedNext]_prepVars
  PROVE  FlowInv' /\ Follows(prepRows, prepRows')
BY ApprovalSteps, ExecutionSteps, ReportSteps, SurroundingSteps DEF PreparedNext

(* A prepared action that was submitted has no authorization yet. *)
LEMMA FlowStarts == PrepInit => FlowInv
<1>. SUFFICES ASSUME PrepInit
              PROVE  FlowInv
  OBVIOUS
<1>1. PICK body \in Bodies : prepRows = Created(NoRecords, ReqOf("create", body))
  BY BodiesAssumption DEF PrepInit
<1>2. prepRows = [key |-> body, scope |-> 0, late |-> FALSE,
                  toolCall |-> [status |-> "pending_approval", outcome |-> None],
                  approval |-> "pending", receipt |-> [present |-> FALSE, outcome |-> None],
                  grant |-> "none",
                  attempt |-> [state |-> "none", bound |-> FALSE, outcome |-> None]]
  BY <1>1 DEF Created, NoRecords, ReqOf
<1>3. \A no \in BOOLEAN :
        /\ [present |-> no, outcome |-> None] \in ReceiptRows
        /\ [state |-> "none", bound |-> no, outcome |-> None] \in AttemptRows
  BY DEF ReceiptRows, AttemptRows
<1>4. [status |-> "pending_approval", outcome |-> None] \in ToolCallRows
  BY DEF ToolCallRows
<1>5. \A late \in BOOLEAN, toolCall \in ToolCallRows, receipt \in ReceiptRows, attempt \in AttemptRows :
        [key |-> body, scope |-> 0, late |-> late, toolCall |-> toolCall,
         approval |-> "pending", receipt |-> receipt, grant |-> "none",
         attempt |-> attempt] \in Views
  BY DEF Views
<1>6. Agree(prepRows)
  BY <1>2, <1>3, <1>4, <1>5 DEF Agree
<1>7. NothingLoaded \in Loaded
  BY DEF NothingLoaded, Loaded, NoRecords, ToolCallRows
<1>8. PrepTypeOK
  BY <1>6, <1>7 DEF PrepInit, PrepTypeOK, Agree, PrepPcs, Loaded
<1> QED
  BY <1>6, <1>8 DEF PrepInit, FlowInv, OutcomePcs

(* Over any number of repeated approvals, consumptions and reports, the
   records agree and one call at most is about to call the provider. *)
THEOREM FlowInvariant == PreparedSpec => []FlowInv
<1>1. FlowInv /\ [PreparedNext]_prepVars => FlowInv'
  BY FlowInductive
<1> QED
  BY FlowStarts, <1>1, PTL DEF PreparedSpec

(* The provider is called once at most, for an action that stands approved
   and whose grant is consumed. *)
THEOREM ProviderIsCalledOnce == PreparedSpec => []PreparedRunsOnce
<1>1. FlowInv => PreparedRunsOnce
  <2>. SUFFICES ASSUME FlowInv
                PROVE  PreparedRunsOnce
    OBVIOUS
  <2>. DEFINE E == {c \in StoreCalls : prepPc[c] = "execute"}
  <2>1. prepEffects \in {0, 1}
    BY DEF FlowInv, PrepTypeOK
  <2>2. CASE E = {}
    <3>1. Cardinality(E) = 0
      BY <2>2, FS_EmptySet
    <3> QED
      BY <2>1, <3>1 DEF PreparedRunsOnce, FlowInv, Agree
  <2>3. CASE E # {}
    <3>1. PICK c \in E : TRUE
      BY <2>3
    <3>2. E = {c}
      BY <3>1 DEF FlowInv
    <3>3. Cardinality(E) = 1
      BY <3>2, FS_Singleton
    <3>4. prepEffects = 0
      BY <3>1 DEF FlowInv
    <3> QED
      BY <3>3, <3>4 DEF PreparedRunsOnce
  <2> QED
    BY <2>2, <2>3
<1> QED
  BY <1>1, FlowInvariant, PTL

(* A rejected, expired or failed action is not published by whoever was about
   to: publishApprovedExternalAuthorizationAtomically asks for a tool call
   that is pending. *)
THEOREM EndedIsNeverPublished == PreparedSpec => EndedStaysUnpublished
<1>1. FlowInv /\ [PreparedNext]_prepVars =>
        [ prepRows.toolCall.status = "failed" /\ prepRows.attempt.state = "none"
            => prepRows'.attempt.state = "none" ]_prepVars
  BY FlowInductive DEF Follows
<1> QED
  BY <1>1, FlowInvariant, PTL DEF PreparedSpec, EndedStaysUnpublished

(* The first known outcome is recorded on attempt and receipt at once, and no
   report replaces it. *)
THEOREM KnownOutcomesStay == PreparedSpec => KnownOutcomeIsWhole
<1>1. FlowInv /\ [PreparedNext]_prepVars =>
        [ LET outcome == prepRows.attempt.outcome
          IN  /\ outcome # None => prepRows'.attempt = prepRows.attempt
              /\ prepRows'.attempt.outcome # None =>
                   prepRows'.receipt.outcome = prepRows'.attempt.outcome
              /\ prepRows.receipt.outcome # None =>
                   prepRows'.receipt.outcome = prepRows.receipt.outcome ]_prepVars
  BY FlowInductive DEF Follows, Agree
<1> QED
  BY <1>1, FlowInvariant, PTL DEF PreparedSpec, KnownOutcomeIsWhole

---------------------------------------------------------------------------
(* Runner. *)

Sent(c, kind) == [call |-> c, kind |-> kind] \in messages

(* The server dispatched the attempt for this call, as far as the call knows:
   it goes on to the tool, called it, or reported that it will not. *)
Winner(c) == runPc[c] = "consumed" \/ c \in downstream \/ Sent(c, "cancelled")

(* There is one winner, and it either calls the tool or reports that it was
   cancelled. *)
WinnerInv ==
  /\ \A c, d \in RunnerCalls : Winner(c) /\ Winner(d) => c = d
  /\ \A c \in RunnerCalls : Winner(c) => action.consumed
  /\ action.attempt # "reserved" => action.consumed
  /\ \A c \in RunnerCalls :
       /\ c \in downstream => runPc[c] \in {"call", "settle", "report", "done"}
       /\ Sent(c, "cancelled") => runPc[c] \in {"report", "done"} /\ c \notin downstream
       /\ action.attempt = "cancelled" => runPc[c] # "consumed" /\ c \notin downstream

(* A call reports once, a known outcome only after its tool came to it. *)
ReportInv ==
  /\ \A c \in RunnerCalls :
       /\ \A kind \in KnownOutcomes \cup UnknownOutcomes : Sent(c, kind) =>
            /\ runPc[c] \in {"settle", "report", "done"}
            /\ runPc[c] = "settle" => kind \in KnownOutcomes
       /\ runPc[c] \in {"call", "settle"} => c \in downstream
       /\ Sent(c, "succeeded") => toolResult = "ok"
       /\ Sent(c, "failed_after_dispatch") => toolResult = "error"
  /\ KnownIsTrue
  /\ ResultIsRecorded

RunInv == RunnerTypeOK /\ WinnerInv /\ ReportInv

(* A call goes on, or answers an error, without having won: from where it has
   sent nothing but a consumption, or to where a report has been given up. *)
LEMMA GoingOn ==
  ASSUME RunInv, NEW c \in RunnerCalls, NEW pc,
         runPc' = [runPc EXCEPT ![c] = pc],
         \/ /\ runPc[c] \in {"idle", "submit", "wait", "cancel", "send", "consume"}
            /\ pc \in {"submit", "wait", "cancel", "send", "consume", "done"}
         \/ /\ runPc[c] \in {"settle", "report"}
            /\ pc = "done",
         answered' \in {answered, [answered EXCEPT ![c] = "error"]},
         action' \in [status : {"none", "pending_approval", "authorized", "ended"},
                      consumed : BOOLEAN,
                      attempt : {"reserved", "dispatched"} \cup KnownOutcomes \cup UnknownOutcomes],
         action'.consumed = action.consumed, action'.attempt = action.attempt,
         messages' \in {messages, messages \cup {[call |-> c, kind |-> "consume"]}},
         UNCHANGED <<runner, aborted, downstream, toolResult>>
  PROVE  RunInv'
<1>1. runPc \in [RunnerCalls -> RunPcs] /\ answered \in [RunnerCalls -> {"none", "result", "error"}]
  BY DEF RunInv, RunnerTypeOK
<1>2. RunnerTypeOK'
  BY DEF RunInv, RunnerTypeOK, RunPcs
<1>3. \A d \in RunnerCalls : runPc'[d] = IF d = c THEN pc ELSE runPc[d]
  BY <1>1
<1>4. \A d \in RunnerCalls, kind \in KnownOutcomes \cup UnknownOutcomes :
        Sent(d, kind)' <=> Sent(d, kind)
  BY DEF Sent, KnownOutcomes, UnknownOutcomes
<1>5. WinnerInv'
  BY <1>3, <1>4 DEF RunInv, WinnerInv, Winner, ReportInv, KnownOutcomes, UnknownOutcomes
<1>6. \A d \in RunnerCalls : answered'[d] = "result" => answered[d] = "result"
  BY <1>1
<1>7. ReportInv'
  BY <1>3, <1>4, <1>6 DEF RunInv, ReportInv, KnownIsTrue, ResultIsRecorded,
     KnownOutcomes, UnknownOutcomes
<1> QED
  BY <1>2, <1>5, <1>7 DEF RunInv

(* The calls of a step keep their places in the type invariant. *)
LEMMA Functions ==
  ASSUME RunInv
  PROVE  /\ runPc \in [RunnerCalls -> RunPcs]
         /\ answered \in [RunnerCalls -> {"none", "result", "error"}]
         /\ runner \in [RunnerCalls -> {"wrapper", "sdk"}]
         /\ downstream \subseteq RunnerCalls
BY DEF RunInv, RunnerTypeOK

(* A call that has not won, or whose tool was called, reports. *)
LEMMA Reporting ==
  ASSUME RunInv, NEW c \in RunnerCalls, NEW pc, NEW kind,
         runPc' = [runPc EXCEPT ![c] = pc], Send(c, kind),
         \/ runPc[c] = "consume" /\ pc = "report" /\ kind \in {"timed_out", "unknown_outcome"}
         \/ runPc[c] = "call" /\ pc = "report" /\ kind \in {"timed_out", "unknown_outcome"}
         \/ runPc[c] = "call" /\ pc = "settle" /\ kind = "succeeded" /\ toolResult = "ok"
         \/ /\ runPc[c] = "call" /\ pc = "settle"
            /\ kind = "failed_after_dispatch" /\ toolResult = "error",
         UNCHANGED <<action, runner, aborted, downstream, toolResult, answered>>
  PROVE  RunInv'
<1>1. RunnerTypeOK'
  BY DEF RunInv, RunnerTypeOK, RunPcs, Send, KnownOutcomes, UnknownOutcomes
<1>2. \A d \in RunnerCalls : runPc'[d] = IF d = c THEN pc ELSE runPc[d]
  BY Functions
<1>3. \A d \in RunnerCalls, k \in KnownOutcomes \cup UnknownOutcomes :
        Sent(d, k)' <=> Sent(d, k) \/ (d = c /\ k = kind)
  BY DEF Send, Sent
<1>4. \A d \in RunnerCalls : Sent(d, "cancelled")' <=> Sent(d, "cancelled")
  BY <1>3 DEF KnownOutcomes, UnknownOutcomes
<1>5. WinnerInv'
  BY <1>2, <1>4 DEF RunInv, WinnerInv, Winner
<1>6. ReportInv'
  BY <1>2, <1>3 DEF RunInv, ReportInv, KnownIsTrue, ResultIsRecorded,
     KnownOutcomes, UnknownOutcomes
<1> QED
  BY <1>1, <1>5, <1>6 DEF RunInv

(* The winner calls the tool: nobody else did, and nobody reported that the
   action was cancelled. *)
LEMMA CallDownstreamKeeps ==
  ASSUME RunInv, NEW c \in RunnerCalls, CallDownstream(c)
  PROVE  RunInv'
<1>1. RunnerTypeOK'
  BY DEF RunInv, RunnerTypeOK, RunPcs, CallDownstream, RunGoTo
<1>2. /\ runPc[c] = "consumed"
      /\ \A d \in RunnerCalls : runPc'[d] = IF d = c THEN "call" ELSE runPc[d]
      /\ downstream' = downstream \cup {c}
  BY Functions DEF CallDownstream, RunGoTo
<1>3. \A d \in RunnerCalls : \A k : Sent(d, k)' <=> Sent(d, k)
  BY DEF Sent, CallDownstream
<1>4. UNCHANGED <<action, toolResult, answered>>
  BY DEF CallDownstream
<1>5. WinnerInv'
  BY <1>2, <1>3, <1>4 DEF RunInv, WinnerInv, Winner
<1>6. ReportInv'
  BY <1>2, <1>3, <1>4 DEF RunInv, ReportInv, KnownIsTrue, ResultIsRecorded,
     KnownOutcomes, UnknownOutcomes
<1> QED
  BY <1>1, <1>5, <1>6 DEF RunInv

LEMMA ReportCancelledKeeps ==
  ASSUME RunInv, NEW c \in RunnerCalls, ReportCancelled(c)
  PROVE  RunInv'
<1>1. RunnerTypeOK'
  BY DEF RunInv, RunnerTypeOK, RunPcs, ReportCancelled, RunGoTo, Send, UnknownOutcomes
<1>2. /\ runPc[c] = "consumed"
      /\ \A d \in RunnerCalls : runPc'[d] = IF d = c THEN "report" ELSE runPc[d]
  BY Functions DEF ReportCancelled, RunGoTo
<1>3. \A d \in RunnerCalls : \A k : Sent(d, k)' <=> Sent(d, k) \/ (d = c /\ k = "cancelled")
  BY DEF Sent, ReportCancelled, Send
<1>4. UNCHANGED <<action, downstream, toolResult, answered>>
  BY DEF ReportCancelled
<1>5. WinnerInv'
  BY <1>2, <1>3, <1>4 DEF RunInv, WinnerInv, Winner
<1>6. ReportInv'
  BY <1>2, <1>3, <1>4 DEF RunInv, ReportInv, KnownIsTrue, ResultIsRecorded,
     KnownOutcomes, UnknownOutcomes
<1> QED
  BY <1>1, <1>5, <1>6 DEF RunInv

(* The tool answers, a request is cancelled, or an approval is decided. *)
LEMMA OthersKeep ==
  ASSUME RunInv,
         \/ ToolReturns \/ DecideApproval
         \/ \E c \in RunnerCalls : Abort(c)
  PROVE  RunInv'
<1>1. RunnerTypeOK'
  BY DEF RunInv, RunnerTypeOK, ToolReturns, DecideApproval, Abort
<1>2. /\ UNCHANGED <<runPc, messages, downstream, answered>>
      /\ action'.consumed = action.consumed /\ action'.attempt = action.attempt
      /\ toolResult # "none" => toolResult' = toolResult
  BY DEF RunInv, RunnerTypeOK, ToolReturns, DecideApproval, Abort
<1>3. WinnerInv'
  BY <1>2 DEF RunInv, WinnerInv, Winner, Sent
<1>4. ReportInv'
  BY <1>2 DEF RunInv, ReportInv, KnownIsTrue, ResultIsRecorded, Sent
<1> QED
  BY <1>1, <1>3, <1>4 DEF RunInv

(* The first consumption makes its sender the winner, if it still waits. *)
LEMMA ServeConsumeKeeps ==
  ASSUME RunInv, NEW c \in RunnerCalls, ServeConsume(c)
  PROVE  RunInv'
<1> DEFINE wins == action.status = "authorized" /\ ~action.consumed
<1>1. /\ action' = IF wins THEN [action EXCEPT !.consumed = TRUE, !.attempt = "dispatched"]
                   ELSE action
      /\ messages' = messages \ {[call |-> c, kind |-> "consume"]}
      /\ UNCHANGED <<runner, aborted, downstream, toolResult>>
      /\ \/ /\ runPc[c] = "consume" /\ wins
            /\ RunGoTo(c, "consumed") /\ UNCHANGED answered
         \/ runPc[c] = "consume" /\ ~wins /\ Answers(c, "error")
         \/ UNCHANGED <<runPc, answered>>
  BY DEF ServeConsume
<1>2. RunnerTypeOK'
  BY <1>1 DEF RunInv, RunnerTypeOK, RunPcs, RunGoTo, Answers
<1>3. \A d \in RunnerCalls, k \in KnownOutcomes \cup UnknownOutcomes :
        Sent(d, k)' <=> Sent(d, k)
  BY <1>1 DEF Sent, KnownOutcomes, UnknownOutcomes
<1>4. \A d \in RunnerCalls : Sent(d, "cancelled")' <=> Sent(d, "cancelled")
  BY <1>3 DEF UnknownOutcomes
<1>5. \A d \in RunnerCalls :
        \/ runPc'[d] = runPc[d]
        \/ d = c /\ runPc[d] = "consume" /\ wins /\ runPc'[d] = "consumed"
        \/ d = c /\ runPc[d] = "consume" /\ runPc'[d] = "done"
  BY <1>1, Functions DEF RunGoTo, Answers
<1>6. /\ wins => action'.consumed /\ action'.attempt = "dispatched" /\ ~action.consumed
      /\ ~wins => action' = action
  BY <1>1 DEF RunInv, RunnerTypeOK
<1>7. \A d \in RunnerCalls : answered'[d] = "result" => answered[d] = "result"
  BY <1>1, Functions DEF Answers
<1>8. WinnerInv'
  <2>1. CASE wins
    <3>1. \A d \in RunnerCalls : ~Winner(d)
      BY <1>6, <2>1 DEF RunInv, WinnerInv
    <3>2. \A d \in RunnerCalls : Winner(d)' => d = c /\ runPc'[d] = "consumed"
      BY <1>1, <1>4, <1>5, <3>1 DEF Winner
    <3> HIDE DEF wins
    <3> QED
      BY <1>1, <1>4, <1>6, <2>1, <3>1, <3>2 DEF WinnerInv, Winner
  <2>2. CASE ~wins
    <3>1. \A d \in RunnerCalls : runPc'[d] = runPc[d]
                                 \/ (runPc[d] = "consume" /\ runPc'[d] = "done")
      BY <1>5, <2>2
    <3>2. action' = action /\ downstream' = downstream
      BY <1>1, <1>6, <2>2
    <3> HIDE DEF wins
    <3> QED
      BY <1>4, <3>1, <3>2 DEF RunInv, WinnerInv, Winner
  <2> QED
    BY <2>1, <2>2
<1>9. ReportInv'
  <2>1. \A d \in RunnerCalls : \/ runPc'[d] = runPc[d]
                               \/ runPc[d] = "consume" /\ runPc'[d] \in {"consumed", "done"}
    BY <1>5
  <2>2. action'.attempt = action.attempt
        \/ (action'.attempt = "dispatched" /\ action.attempt = "reserved")
    BY <1>6 DEF RunInv, WinnerInv
  <2>3. downstream' = downstream /\ toolResult' = toolResult
    BY <1>1
  <2> HIDE DEF wins
  <2> QED
    BY <1>3, <1>7, <2>1, <2>2, <2>3 DEF RunInv, ReportInv, KnownIsTrue, ResultIsRecorded,
       KnownOutcomes, UnknownOutcomes
<1> QED
  BY <1>2, <1>8, <1>9 DEF RunInv

(* A report ends the attempt that was dispatched, and only the same outcome is
   taken for it again. *)
LEMMA ServeReportKeeps ==
  ASSUME RunInv, NEW c \in RunnerCalls,
         NEW outcome \in KnownOutcomes \cup UnknownOutcomes, ServeReport(c, outcome)
  PROVE  RunInv'
<1> DEFINE recorded == action.attempt = "dispatched"
           agrees == recorded \/ action.attempt = outcome
<1>1. /\ Sent(c, outcome)
      /\ action' = IF recorded THEN [action EXCEPT !.attempt = outcome] ELSE action
      /\ messages' = messages \ {[call |-> c, kind |-> outcome]}
      /\ UNCHANGED <<runner, aborted, downstream, toolResult>>
      /\ \/ /\ runPc[c] \in {"settle", "report"}
            /\ Answers(c, IF agrees /\ runPc[c] = "settle" THEN "result" ELSE "error")
         \/ UNCHANGED <<runPc, answered>>
  BY DEF ServeReport, Sent
<1>2. RunnerTypeOK'
  BY <1>1 DEF RunInv, RunnerTypeOK, RunPcs, RunGoTo, Answers
<1>3. \A d \in RunnerCalls : \A k : Sent(d, k)' => Sent(d, k)
  BY <1>1 DEF Sent
<1>4. \A d \in RunnerCalls :
        \/ runPc'[d] = runPc[d]
        \/ runPc[d] \in {"settle", "report"} /\ runPc'[d] = "done"
  BY <1>1, Functions DEF RunGoTo, Answers
<1>5. /\ action'.consumed = action.consumed
      /\ action'.attempt = IF recorded THEN outcome ELSE action.attempt
  BY <1>1 DEF RunInv, RunnerTypeOK
<1>6. WinnerInv'
  <2>1. action'.attempt = "cancelled" =>
          \A d \in RunnerCalls : runPc'[d] # "consumed" /\ d \notin downstream'
    <3>1. CASE recorded /\ outcome = "cancelled"
      <4>1. Winner(c) /\ runPc[c] \in {"report", "done"} /\ c \notin downstream
        BY <1>1, <3>1 DEF RunInv, WinnerInv, Winner
      <4>2. \A d \in RunnerCalls : Winner(d) => d = c
        BY <4>1 DEF RunInv, WinnerInv
      <4> QED
        BY <1>1, <1>4, <4>1, <4>2 DEF Winner
    <3>2. CASE ~(recorded /\ outcome = "cancelled")
      BY <1>1, <1>4, <1>5, <3>2 DEF RunInv, WinnerInv
    <3> QED
      BY <3>1, <3>2
  <2>2. \A d \in RunnerCalls : Winner(d)' => Winner(d)
    BY <1>1, <1>3, <1>4 DEF Winner
  <2>3. action'.attempt # "reserved" => action'.consumed
    BY <1>5 DEF RunInv, WinnerInv
  <2>4. ASSUME NEW d \in RunnerCalls
        PROVE  /\ d \in downstream' => runPc'[d] \in {"call", "settle", "report", "done"}
               /\ Sent(d, "cancelled")' => runPc'[d] \in {"report", "done"} /\ d \notin downstream'
    BY <1>1, <1>3, <1>4 DEF RunInv, WinnerInv
  <2> QED
    BY <1>5, <2>1, <2>2, <2>3, <2>4 DEF RunInv, WinnerInv
<1>7. \A d \in RunnerCalls :
        answered'[d] = "result" =>
          \/ answered[d] = "result"
          \/ d = c /\ runPc[c] = "settle" /\ agrees
  BY <1>1, Functions DEF Answers
<1>8. ReportInv'
  <2>1. KnownIsTrue'
    BY <1>1, <1>5 DEF RunInv, ReportInv, KnownIsTrue
  <2>2. ResultIsRecorded'
    <3>1. action.attempt \in KnownOutcomes => action'.attempt \in KnownOutcomes
      BY <1>5 DEF KnownOutcomes
    <3>2. runPc[c] = "settle" /\ agrees => c \in downstream /\ action'.attempt \in KnownOutcomes
      BY <1>1, <1>5 DEF RunInv, ReportInv
    <3> HIDE DEF agrees, recorded
    <3> QED
      BY <1>1, <1>7, <3>1, <3>2 DEF RunInv, ReportInv, ResultIsRecorded
  <2>3. ASSUME NEW d \in RunnerCalls
        PROVE  /\ \A kind \in KnownOutcomes \cup UnknownOutcomes : Sent(d, kind)' =>
                    /\ runPc'[d] \in {"settle", "report", "done"}
                    /\ runPc'[d] = "settle" => kind \in KnownOutcomes
               /\ runPc'[d] \in {"call", "settle"} => d \in downstream'
               /\ Sent(d, "succeeded")' => toolResult' = "ok"
               /\ Sent(d, "failed_after_dispatch")' => toolResult' = "error"
    BY <1>1, <1>3, <1>4 DEF RunInv, ReportInv
  <2> QED
    BY <2>1, <2>2, <2>3 DEF ReportInv
<1> QED
  BY <1>2, <1>6, <1>8 DEF RunInv

(* Nothing that is known is lost by any step of the clients, of the server or
   of the messages between them. *)
LEMMA RunInductive ==
  ASSUME RunInv, [RunnerNext]_runVars
  PROVE  RunInv'
<1>1. CASE UNCHANGED runVars
  BY <1>1 DEF runVars, RunInv, RunnerTypeOK, WinnerInv, Winner, Sent, ReportInv,
     KnownIsTrue, ResultIsRecorded
<1>2. CASE \E c \in RunnerCalls :
             StartCall(c) \/ Submit(c) \/ Poll(c) \/ AbandonWait(c) \/ CancelApproval(c)
             \/ SendConsume(c) \/ LoseReport(c)
  <2>0. PICK c \in RunnerCalls :
             StartCall(c) \/ Submit(c) \/ Poll(c) \/ AbandonWait(c) \/ CancelApproval(c)
             \/ SendConsume(c) \/ LoseReport(c)
    BY <1>2
  <2>t. action \in [status : {"none", "pending_approval", "authorized", "ended"},
                    consumed : BOOLEAN,
                    attempt : {"reserved", "dispatched"} \cup KnownOutcomes \cup UnknownOutcomes]
    BY DEF RunInv, RunnerTypeOK
  <2>1. CASE StartCall(c)
    BY <2>1, <2>t, GoingOn DEF StartCall, RunGoTo
  <2>2. CASE Submit(c)
    BY <2>2, <2>t, GoingOn DEF Submit, RunGoTo
  <2>3. CASE Poll(c)
    BY <2>3, <2>t, GoingOn DEF Poll, RunGoTo, Answers
  <2>4. CASE AbandonWait(c)
    BY <2>4, <2>t, GoingOn DEF AbandonWait, RunGoTo, Answers
  <2>5. CASE CancelApproval(c)
    BY <2>5, <2>t, GoingOn DEF CancelApproval, RunGoTo, Answers
  <2>6. CASE SendConsume(c)
    BY <2>6, <2>t, GoingOn DEF SendConsume, RunGoTo, Send
  <2>7. CASE LoseReport(c)
    BY <2>7, <2>t, GoingOn DEF LoseReport, RunGoTo, Answers
  <2> QED
    BY <2>0, <2>1, <2>2, <2>3, <2>4, <2>5, <2>6, <2>7
<1>3. CASE \E c \in RunnerCalls : LoseConsume(c) \/ ReportKnown(c) \/ ReportUnknown(c)
  <2>0. PICK c \in RunnerCalls : LoseConsume(c) \/ ReportKnown(c) \/ ReportUnknown(c)
    BY <1>3
  <2>t. /\ action \in [status : {"none", "pending_approval", "authorized", "ended"},
                       consumed : BOOLEAN,
                       attempt : {"reserved", "dispatched"} \cup KnownOutcomes \cup UnknownOutcomes]
        /\ toolResult \in {"none", "ok", "error"}
    BY DEF RunInv, RunnerTypeOK
  <2>1. CASE LoseConsume(c)
    <3>1. CASE Answers(c, "error") /\ UNCHANGED messages
      BY <2>1, <2>t, <3>1, GoingOn DEF LoseConsume, RunGoTo, Answers
    <3>2. CASE ~(Answers(c, "error") /\ UNCHANGED messages)
      <4>1. PICK kind \in {"timed_out", "unknown_outcome"} : Send(c, kind)
        BY <2>1, <3>2 DEF LoseConsume
      <4> QED
        BY <2>1, <3>2, <4>1, Reporting DEF LoseConsume, RunGoTo
    <3> QED
      BY <3>1, <3>2
  <2>2. CASE ReportKnown(c)
    <3>1. CASE toolResult = "ok"
      BY <2>2, <3>1, Reporting DEF ReportKnown, RunGoTo
    <3>2. CASE toolResult = "error"
      BY <2>2, <3>2, Reporting DEF ReportKnown, RunGoTo
    <3> QED
      BY <2>2, <2>t, <3>1, <3>2 DEF ReportKnown
  <2>3. CASE ReportUnknown(c)
    <3>1. PICK kind \in {"timed_out", "unknown_outcome"} : Send(c, kind)
      BY <2>3 DEF ReportUnknown
    <3> QED
      BY <2>3, <3>1, Reporting DEF ReportUnknown, RunGoTo
  <2> QED
    BY <2>0, <2>1, <2>2, <2>3
<1>4. CASE \E c \in RunnerCalls : CallDownstream(c)
  BY <1>4, CallDownstreamKeeps
<1>5. CASE \E c \in RunnerCalls : ReportCancelled(c)
  BY <1>5, ReportCancelledKeeps
<1>6. CASE ToolReturns \/ DecideApproval \/ \E c \in RunnerCalls : Abort(c)
  BY <1>6, OthersKeep
<1>7. CASE \E c \in RunnerCalls : ServeConsume(c)
  BY <1>7, ServeConsumeKeeps
<1>8. CASE \E c \in RunnerCalls, outcome \in KnownOutcomes \cup UnknownOutcomes :
             ServeReport(c, outcome)
  BY <1>8, ServeReportKeeps
<1> QED
  BY <1>1, <1>2, <1>3, <1>4, <1>5, <1>6, <1>7, <1>8 DEF RunnerNext

LEMMA RunInitially ==
  ASSUME RunnerInit
  PROVE  RunInv
BY DEF RunnerInit, RunInv, RunnerTypeOK, RunPcs, WinnerInv, Winner, Sent, ReportInv,
   KnownIsTrue, ResultIsRecorded, KnownOutcomes, UnknownOutcomes

(* Of the runners that consume the grant of an action, one at most is told
   that it won, and of its calls of the tool and its report that it was
   cancelled there is at most one; a known outcome is reported by the call
   whose tool came to it. *)
THEOREM RunnerInvariant == RunnerSpec => []RunInv
<1>1. RunnerInit => RunInv
  BY RunInitially
<1>2. RunInv /\ [RunnerNext]_runVars => RunInv'
  BY RunInductive
<1> QED
  BY <1>1, <1>2, PTL DEF RunnerSpec

(* forwardAfterConsume and runProtected call the tool once, under the grant
   they consumed, and never an action whose execution was reported as
   cancelled, for any number of wrapper and SDK calls of the action. *)
THEOREM ToolIsCalledOnce == RunnerSpec => []CalledOnce
<1>1. ASSUME RunInv
      PROVE  CalledOnce
  <2>1. \A c, d \in downstream : c = d
    BY <1>1 DEF RunInv, RunnerTypeOK, WinnerInv, Winner
  <2>2. Cardinality(downstream) <= 1
    <3>1. CASE downstream = {}
      BY <3>1, FS_EmptySet
    <3>2. ASSUME NEW c \in downstream
          PROVE  Cardinality(downstream) <= 1
      <4>1. downstream = {c}
        BY <2>1, <3>2
      <4>2. Cardinality({c}) = 1
        BY FS_Singleton
      <4> QED
        BY <4>1, <4>2
    <3> QED
      BY <3>1, <3>2
  <2>3. downstream # {} => action.consumed /\ action.attempt # "cancelled"
    BY <1>1 DEF RunInv, RunnerTypeOK, WinnerInv, Winner
  <2> QED
    BY <2>2, <2>3 DEF CalledOnce
<1> QED
  BY <1>1, RunnerInvariant, PTL

(* The first report of a dispatched attempt is the one that is recorded:
   "succeeded" or "failed" only when the tool answered so, whatever was lost
   or late. *)
THEOREM KnownOutcomesAreTrue == RunnerSpec => []KnownIsTrue
<1>1. RunInv => KnownIsTrue
  BY DEF RunInv, ReportInv
<1> QED
  BY <1>1, RunnerInvariant, PTL

(* A client passes the tool's result on only after the server took the report
   of it: what a model was shown has a recorded known outcome. *)
THEOREM ShownResultsAreRecorded == RunnerSpec => []ResultIsRecorded
<1>1. RunInv => ResultIsRecorded
  BY DEF RunInv, ReportInv
<1> QED
  BY <1>1, RunnerInvariant, PTL
=============================================================================
