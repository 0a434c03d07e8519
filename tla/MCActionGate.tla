---------------------------- MODULE MCActionGate -----------------------------
(***************************************************************************)
(* Instances of ActionGate for TLC: the policies the runs load, and the    *)
(* symmetry of the interchangeable calls and approvers.                    *)
(***************************************************************************)
EXTENDS ActionGate, TLC

CONSTANTS c1, c2, alice, bob, rita, original, edited, v1, v2

MCRuleIds == {"rule", "other"}

Unguarded(decision) ==
  [id |-> "rule", decision |-> decision, guarded |-> FALSE, allowFrom |-> {},
   otherwise |-> "allow", source |-> "none"]

(* A rule that reads a classified source itself and tolerates some content. *)
Guarded(decision, allowFrom, otherwise) ==
  [id |-> "rule", decision |-> decision, guarded |-> TRUE,
   allowFrom |-> allowFrom, otherwise |-> otherwise,
   source |-> "public_untrusted"]

Always(rule) == [v \in Versions |-> [i \in Inputs |-> rule]]

(* Approval is needed; the second policy denies what the first lets through. *)
ApprovalPolicy ==
  [v \in Versions |-> [i \in Inputs |->
     Unguarded(IF v = v1 THEN "require_approval" ELSE "deny")]]

(* Editing moves the action to another rule of the same policy. *)
EditablePolicy ==
  [v \in Versions |-> [i \in Inputs |->
     IF i = original THEN Unguarded("require_approval")
     ELSE IF v = v1 THEN [Unguarded("allow") EXCEPT !.id = "other"]
                    ELSE Unguarded("deny")]]

(* Allowed while the scope holds nothing of unknown origin, and approved by a
   person otherwise; or, for results of no tracked source, approved while it is
   clean and denied otherwise. *)
InfluencedPolicy ==
  [v \in Versions |-> [i \in Inputs |->
     IF v = v1
     THEN Guarded("allow", {"none", "public_untrusted"}, "require_approval")
     ELSE [Guarded("require_approval", {"none"}, "deny")
             EXCEPT !.source = "none"]]]

ClassifiedAllowPolicy ==
  Always([Unguarded("allow") EXCEPT !.source = "public_untrusted"])

(* The exposure lookup of a submission fails, or a call that carries a local
   action ends: the faults around runners are the subject of other runs. *)
LocalFault(c) ==
  \/ SubmitInfluenceUnavailable(c)
  \/ att.state # "absent" /\ att.mode = "local_mock" /\ Abort(c)

LocalFaultsNext ==
  \/ Environment
  \/ \E c \in Calls : Request(c) \/ Step(c) \/ LocalFault(c)

LocalFaultsSpec == Init /\ [][LocalFaultsNext]_vars

CallSymmetry == Permutations(Calls)
Symmetry == Permutations(Calls) \cup Permutations({alice, bob})
==============================================================================
