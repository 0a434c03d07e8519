---------------------------- MODULE OneShotAction ----------------------------
(***************************************************************************)
(* What the gate promises for one action, with no awaits, no records and   *)
(* no races: it gets one verdict, runs at most once and only with the      *)
(* input the verdict granted, has one outcome, and the requester is told   *)
(* one story that agrees with both.                                        *)
(***************************************************************************)
EXTENDS Naturals

CONSTANTS Inputs, Nothing, Outcomes

VARIABLES
  verdict,    \* "none", "open", "granted" or "refused"
  authority,  \* the input a granted verdict covers
  runs,       \* how often the action ran
  ran,        \* the input it ran with
  outcome,    \* how the attempt ended
  told        \* what the tool call says

abstractVars == <<verdict, authority, runs, ran, outcome, told>>

Init ==
  /\ verdict = "none" /\ authority = Nothing
  /\ runs = 0 /\ ran = Nothing
  /\ outcome = "none" /\ told = "none"

(* Policy settles the action at once, or leaves it open for people. *)
Submit ==
  /\ verdict = "none"
  /\ \/ verdict' \in {"open", "refused"} /\ UNCHANGED authority
     \/ verdict' = "granted" /\ authority' \in Inputs
  /\ UNCHANGED <<runs, ran, outcome, told>>

Decide ==
  /\ verdict = "open"
  /\ \/ verdict' = "refused" /\ UNCHANGED authority
     \/ verdict' = "granted" /\ authority' \in Inputs
  /\ UNCHANGED <<runs, ran, outcome, told>>

Run ==
  /\ verdict = "granted"
  /\ runs = 0 /\ outcome = "none" /\ told = "none"
  /\ runs' = 1 /\ ran' = authority
  /\ UNCHANGED <<verdict, authority, outcome, told>>

(* Only what ran can have succeeded, failed or been cut short, and only what
   did not run failed before it was dispatched. *)
Conclude ==
  /\ verdict = "granted" /\ outcome = "none" /\ told = "none"
  /\ outcome' \in Outcomes
  /\ outcome' = "failed_before_dispatch" => runs = 0
  /\ outcome' \notin {"failed_before_dispatch", "unknown_outcome"} => runs = 1
  /\ UNCHANGED <<verdict, authority, runs, ran, told>>

Tell ==
  /\ told = "none"
  /\ told' = IF verdict = "refused" THEN "refused"
             ELSE IF outcome = "succeeded" THEN "executed" ELSE "failed"
  /\ \/ verdict = "refused"
     \/ verdict = "granted" /\ (outcome = "none" => runs = 0)
  /\ UNCHANGED <<verdict, authority, runs, ran, outcome>>

Next == Submit \/ Decide \/ Run \/ Conclude \/ Tell

Spec == Init /\ [][Next]_abstractVars
==============================================================================
