--------------------------- MODULE PolicyEvaluation ---------------------------
(***************************************************************************)
(* How policy decides one action, each time it is asked: at submission, at *)
(* a vote, which may change the input, and before the action is            *)
(* dispatched.  A policy is its list of tool rules, in file order, and its *)
(* default.  The tool is "a.b.c": a rule names it exactly, or by the       *)
(* prefix "a.b.*" or "a.*"; rules of other tools are never considered.     *)
(* A rule has no condition, or one about the fact "amount": above Limit.   *)
(*                                                                         *)
(* The provider of evaluations may fail.  The policy does not change       *)
(* between the evaluations and no content influences them: both are the    *)
(* subject of ActionGate.                                                  *)
(***************************************************************************)
EXTENDS Naturals, Sequences

CONSTANTS
  Limit,      \* the amount a condition compares with
  Amounts,    \* the amounts an input may state, Unstated among them
  MaxRules    \* bound: the rules of the tool in a policy

Unstated == 0     \* the amounts an input states are counted from one

ASSUME PolicyAssumption == MaxRules \in Nat /\ Unstated \in Amounts

VARIABLES
  polTools,     \* the rules of policy.tools, in file order
  polDefault,   \* the approval mode of policy.default
  polCall,      \* the submission, and the context frozen with it
  polPc,        \* where the call, or an evaluation of it, stands
  polPass,      \* what the evaluation in progress is for
  polInput,     \* the input it evaluates
  polVoted,     \* the input the vote approves
  polTrace,     \* the patterns it has considered (ruleEvaluations)
  polAt,        \* the entry of polTools that is next
  polResult     \* per pass: the rule it selected and the decision

polVars == <<polTools, polDefault, polCall, polPc, polPass, polInput, polVoted,
             polTrace, polAt, polResult>>

Passes == {"submission", "original", "approved", "dispatch"}
Approvals == {"never", "required", "deny"}
Wildcards == {"a.b.*", "a.*"}
Patterns == {"a.b.c"} \cup Wildcards
Conditions == {"always", "above"}
ToolRules == [pattern : Patterns, approval : Approvals, when : Conditions]

DecisionAsStated(approval) == approval   \* mutant: the mode is passed on

DecisionFor(approval) ==
  CASE approval = "never" -> "allow"
    [] approval = "required" -> "require_approval"
    [] OTHER -> "deny"

NoResult == [rule |-> "none", decision |-> "none"]
FailureResult == [rule |-> "__policy_provider_failure__", decision |-> "deny"]
Results ==
  [rule : Patterns \cup {"none", "default", "__policy_provider_failure__"},
   decision : {"none", "allow", "require_approval", "deny"}]

Defined(fact, otherwise) == IF fact # Unstated THEN fact ELSE otherwise

ContextAmountOfInput(call, input) ==   \* mutant: the record's metadata is not read again
  IF call.canonical \/ polPass = "submission"
  THEN Defined(call.frozen, Defined(call.asserted, input)) ELSE input

(* Of a canonical call the context derived at ingress is kept, with the
   original input's amount; of another one it is derived again, and its
   metadata takes precedence over the input. *)
ContextAmount(call, input) ==
  IF call.canonical THEN call.frozen ELSE Defined(call.asserted, input)

(* The evaluator falls back on the input where the context states nothing. *)
AmountFact(call, input) == Defined(ContextAmount(call, input), input)

Matches(rule, amount) ==
  \/ rule.when = "always"
  \/ rule.when = "above" /\ amount # Unstated /\ amount > Limit

EntryOf(pattern) == {i \in DOMAIN polTools : polTools[i].pattern = pattern}

PolicyTypeOK ==
  /\ polTools \in Seq(ToolRules) /\ polDefault \in Approvals
  /\ polCall \in [canonical : BOOLEAN, forced : BOOLEAN, asserted : Amounts,
                  original : Amounts, frozen : Amounts]
  /\ polPc \in {"exact", "wildcard", "evaluated", "pending", "denied",
                "allowed", "authorized", "dispatched", "failed"}
  /\ polPass \in Passes
  /\ polInput \in Amounts /\ polVoted \in Amounts
  /\ polTrace \in Seq(Patterns) /\ polAt \in 1..(Len(polTools) + 1)
  /\ polResult \in [Passes -> Results]

(* The keys of policy.tools are unique. *)
ToolLists ==
  {tools \in UNION {[1..n -> ToolRules] : n \in 0..MaxRules} :
     \A i, j \in DOMAIN tools : tools[i].pattern = tools[j].pattern => i = j}

(* The submission arrives: canonical requests carry no metadata that policy
   reads, and a contract of the server may force an approval. *)
PolicyInit ==
  /\ polTools \in ToolLists
  /\ polDefault \in Approvals
  /\ \E canonical, forced \in BOOLEAN, original, asserted \in Amounts :
       /\ canonical => asserted = Unstated
       /\ forced => canonical
       /\ polCall = [canonical |-> canonical, forced |-> forced,
                     asserted |-> asserted, original |-> original,
                     frozen |-> IF canonical THEN original ELSE Unstated]
       /\ polInput = original /\ polVoted = original
  /\ polPc = "exact" /\ polPass = "submission"
  /\ polTrace = <<>> /\ polAt = 1
  /\ polResult = [p \in Passes |-> NoResult]

Evaluate(pass, input) ==
  /\ polPc' = "exact" /\ polPass' = pass /\ polInput' = input
  /\ polTrace' = <<>> /\ polAt' = 1

Select(rule, approval) ==
  /\ polPc' = "evaluated"
  /\ polResult' = [polResult EXCEPT ![polPass] =
                     [rule |-> rule, decision |-> DecisionFor(approval)]]

Fact == AmountFact(polCall, polInput)

(* evaluatePolicyTrace: the rule of the tool's exact name comes first, and
   when its conditions fail the wildcards are tried. *)
ConsiderExact ==
  /\ polPc = "exact"
  /\ \/ /\ EntryOf("a.b.c") = {}
        /\ polPc' = "wildcard"
        /\ UNCHANGED <<polTrace, polResult>>
     \/ \E i \in EntryOf("a.b.c") :
          /\ polTrace' = <<"a.b.c">>
          /\ IF Matches(polTools[i], Fact)
             THEN Select("a.b.c", polTools[i].approval)
             ELSE polPc' = "wildcard" /\ UNCHANGED polResult
  /\ UNCHANGED <<polTools, polDefault, polCall, polPass, polInput, polVoted, polAt>>

ConsiderEntryFirstFit ==   \* mutant: the first that fits the name ends the search
  /\ polPc = "wildcard" /\ polAt <= Len(polTools)
  /\ LET rule == polTools[polAt]
         considered == rule.pattern \in Wildcards
     IN /\ polTrace' = IF considered THEN Append(polTrace, rule.pattern)
                                     ELSE polTrace
        /\ polAt' = IF considered THEN Len(polTools) + 1 ELSE polAt + 1
        /\ IF considered /\ Matches(rule, Fact)
           THEN Select(rule.pattern, rule.approval)
           ELSE UNCHANGED <<polPc, polResult>>
  /\ UNCHANGED <<polTools, polDefault, polCall, polPass, polInput, polVoted>>

(* findWildcardRule: one entry of policy.tools, in file order. *)
ConsiderEntry ==
  /\ polPc = "wildcard" /\ polAt <= Len(polTools)
  /\ polAt' = polAt + 1
  /\ LET rule == polTools[polAt]
         considered == rule.pattern \in Wildcards
     IN /\ polTrace' = IF considered THEN Append(polTrace, rule.pattern)
                                     ELSE polTrace
        /\ IF considered /\ Matches(rule, Fact)
           THEN Select(rule.pattern, rule.approval)
           ELSE UNCHANGED <<polPc, polResult>>
  /\ UNCHANGED <<polTools, polDefault, polCall, polPass, polInput, polVoted>>

(* No entry is left: the default decides. *)
TakeDefault ==
  /\ polPc = "wildcard" /\ polAt > Len(polTools)
  /\ Select("default", polDefault)
  /\ UNCHANGED <<polTools, polDefault, polCall, polPass, polInput, polVoted,
                 polTrace, polAt>>

(* evaluatePolicyProvider: no provider, a provider without an identity, an
   exception and an invalid trace all deny. *)
ProviderFails ==
  /\ polPc = "exact"
  /\ polPc' = "evaluated"
  /\ polResult' = [polResult EXCEPT ![polPass] = FailureResult]
  /\ UNCHANGED <<polTools, polDefault, polCall, polPass, polInput, polVoted,
                 polTrace, polAt>>

(* Nothing of an evaluation remains but its result. *)
EndEvaluation(results) ==
  /\ polResult' = results
  /\ polTrace' = <<>> /\ polAt' = 1 /\ polInput' = polCall.original

Forced(decision) ==
  IF polCall.forced /\ decision = "allow" THEN "require_approval" ELSE decision

StoredDecision == Forced(polResult["submission"].decision)

(* submitToolCall stores the decision with the call. *)
SettleSubmission ==
  /\ polPc = "evaluated" /\ polPass = "submission"
  /\ EndEvaluation(polResult)
  /\ polPc' = CASE StoredDecision = "allow" -> "allowed"
                [] StoredDecision = "deny" -> "denied"
                [] OTHER -> "pending"
  /\ UNCHANGED <<polTools, polDefault, polCall, polPass, polVoted>>

(* An approver votes for the original input or for another one. *)
VoteFor(input) ==
  /\ polPc = "pending"
  /\ Evaluate("original", polCall.original)
  /\ polVoted' = input
  /\ UNCHANGED <<polTools, polDefault, polCall, polResult>>

(* assertApprovalPolicyIsCurrent evaluates the original input, and then the
   approved one. *)
SettleOriginal ==
  /\ polPc = "evaluated" /\ polPass = "original"
  /\ Evaluate("approved", polVoted)
  /\ UNCHANGED <<polTools, polDefault, polCall, polVoted, polResult>>

RouteIsKept ==
  LET original == polResult["original"]
      approved == polResult["approved"]
  IN /\ original.decision = "require_approval"
     /\ approved.decision # "deny"
     /\ approved.decision = "require_approval" => approved.rule = original.rule

(* It accepts the vote, or the approval stays as it was. *)
SettleApproved ==
  /\ polPc = "evaluated" /\ polPass = "approved"
  /\ EndEvaluation([polResult EXCEPT !["original"] = NoResult, !["approved"] = NoResult])
  /\ IF RouteIsKept THEN polPc' = "authorized" /\ UNCHANGED polVoted
     ELSE polPc' = "pending" /\ polVoted' = polCall.original
  /\ UNCHANGED <<polTools, polDefault, polCall, polPass>>

(* The action is about to run: executeToolCall, consumeGrant. *)
Dispatch ==
  /\ polPc \in {"allowed", "authorized"}
  /\ Evaluate("dispatch", polVoted)
  /\ UNCHANGED <<polTools, polDefault, polCall, polVoted, polResult>>

(* finalPolicyRevalidationFailure. *)
SettleDispatch ==
  /\ polPc = "evaluated" /\ polPass = "dispatch"
  /\ LET decision == polResult["dispatch"].decision
     IN polPc' = IF decision = "deny" \/ (StoredDecision = "allow" /\ decision # "allow")
                 THEN "failed" ELSE "dispatched"
  /\ EndEvaluation(polResult)
  /\ UNCHANGED <<polTools, polDefault, polCall, polPass, polVoted>>

PolicyNext ==
  \/ ConsiderExact \/ ConsiderEntry \/ TakeDefault \/ ProviderFails
  \/ SettleSubmission \/ SettleOriginal \/ SettleApproved \/ SettleDispatch
  \/ \E input \in Amounts : VoteFor(input)
  \/ Dispatch

PolicySpec == PolicyInit /\ [][PolicyNext]_polVars

------------------------------------------------------------------------------
(* What a policy says of an amount, without the order of a loop. *)
Said(amount) ==
  LET holding == {i \in DOMAIN polTools : Matches(polTools[i], amount)}
      exact == holding \cap EntryOf("a.b.c")
      wild == {i \in holding : polTools[i].pattern \in Wildcards}
      first == CHOOSE i \in wild : \A j \in wild : i <= j
      entry == IF exact # {} THEN CHOOSE i \in exact : TRUE ELSE first
  IN IF exact \cup wild = {}
     THEN [rule |-> "default", decision |-> DecisionFor(polDefault)]
     ELSE [rule |-> polTools[entry].pattern,
           decision |-> DecisionFor(polTools[entry].approval)]

(* An evaluation selects the rule of the exact name when its conditions hold,
   otherwise the first wildcard of the file whose conditions hold, otherwise
   the default; and its trace explains it: the rule selected is the last one
   considered, and every rule considered before it applies to the tool and has
   a condition that fails.  evaluatePolicyTrace and findWildcardRule. *)
EvaluationIsExplained ==
  polPc = "evaluated" /\ polResult[polPass] # FailureResult =>
    /\ polResult[polPass] = Said(Fact)
    /\ \A k \in DOMAIN polTrace :
         \E i \in EntryOf(polTrace[k]) :
           Matches(polTools[i], Fact)
             <=> k = Len(polTrace) /\ polResult[polPass].rule = polTrace[k]

(* Asked again about an action nobody changed, policy answers what it answered
   at submission, from the record alone: a vote for the original input is
   refused, and an action fails before dispatch, only because the provider
   failed or an approval was forced upon an allowed action.
   policyContextFromToolCall against policyContextFromSubmit. *)
UnchangedActionIsDecidedAlike ==
  /\ polPc = "evaluated" /\ polInput = polCall.original
       /\ FailureResult \notin {polResult["submission"], polResult[polPass]}
     => polResult[polPass] = polResult["submission"]
  /\ polPc = "failed" /\ polVoted = polCall.original =>
       polResult["dispatch"] = FailureResult

(* An action whose input a vote changed is evaluated with the changed input:
   it is not dispatched when a submission of that input, of the same kind and
   with the same metadata, would be denied.  policyContextFromToolCall keeps
   the facts derived from the original input of a canonical call. *)
EditedInputIsEvaluated ==
  polPc = "dispatched" =>
    Said(Defined(polCall.asserted, polVoted)).decision # "deny"

==============================================================================
