------------------------------- MODULE Runner -------------------------------
(***************************************************************************)
(* The clients that execute a forwarded action themselves: calls of the    *)
(* MCP wrapper, one after the other under one JSON-RPC id, and of the SDK, *)
(* which may run at the same time under the same idempotency key.  Each    *)
(* submits the action, waits for its approval, consumes its grant, calls   *)
(* the downstream tool and reports what came of it.                        *)
(*                                                                         *)
(* Requests to the server are messages: the server serves them whenever    *)
(* they arrive, which may be after their sender has given up on them, and  *)
(* an answer may be lost.  The server is the one of ActionGate, reduced to *)
(* what these requests change.                                             *)
(***************************************************************************)
EXTENDS Naturals, FiniteSets

CONSTANTS
  RunnerCalls,          \* calls of callTool and runExternalAction
  CancelPendingOnAbort  \* config.actionproxy.cancelPendingOnAbort

VARIABLES
  action,      \* the server's records of the action
  messages,    \* requests under way to the server
  runPc,       \* what each call awaits
  runner,      \* "wrapper" or "sdk"
  aborted,     \* the calls whose MCP request was cancelled
  downstream,  \* the calls that called the downstream tool
  toolResult,  \* what the downstream tool came to: "none", "ok" or "error"
  answered     \* what each call answered: "none", "result" or "error"

runVars == <<action, messages, runPc, runner, aborted, downstream, toolResult, answered>>

KnownOutcomes == {"succeeded", "failed_after_dispatch"}
UnknownOutcomes == {"timed_out", "cancelled", "unknown_outcome"}
RunPcs ==
  {"idle", "submit", "wait", "cancel", "send", "consume", "consumed",
   "call", "settle", "report", "done"}

RunnerTypeOK ==
  /\ action \in [status : {"none", "pending_approval", "authorized", "ended"},
                 consumed : BOOLEAN,
                 attempt : {"reserved", "dispatched"} \cup KnownOutcomes \cup UnknownOutcomes]
  /\ messages \subseteq ([call : RunnerCalls, kind : {"consume"}]
                         \cup [call : RunnerCalls, kind : KnownOutcomes \cup UnknownOutcomes])
  /\ runPc \in [RunnerCalls -> RunPcs]
  /\ runner \in [RunnerCalls -> {"wrapper", "sdk"}]
  /\ aborted \subseteq RunnerCalls /\ downstream \subseteq RunnerCalls
  /\ toolResult \in {"none", "ok", "error"}
  /\ answered \in [RunnerCalls -> {"none", "result", "error"}]

RunnerInit ==
  /\ action = [status |-> "none", consumed |-> FALSE, attempt |-> "reserved"]
  /\ messages = {}
  /\ runPc = [c \in RunnerCalls |-> "idle"]
  /\ runner \in [RunnerCalls -> {"wrapper", "sdk"}]
  /\ aborted = {} /\ downstream = {} /\ toolResult = "none"
  /\ answered = [c \in RunnerCalls |-> "none"]

RunGoTo(c, pc) == runPc' = [runPc EXCEPT ![c] = pc]
Answers(c, what) ==
  /\ RunGoTo(c, "done")
  /\ answered' = [answered EXCEPT ![c] = what]
Send(c, kind) == messages' = messages \cup {[call |-> c, kind |-> kind]}

Active(c) == runPc[c] \notin {"idle", "done"}

---------------------------------------------------------------------------
(* The clients.                                                            *)

(* The wrapper refuses a JSON-RPC id that is in flight. *)
StartCall(c) ==
  /\ runPc[c] = "idle"
  /\ runner[c] = "wrapper" =>
       \A d \in RunnerCalls : runner[d] = "wrapper" => ~Active(d)
  /\ RunGoTo(c, "submit")
  /\ UNCHANGED <<action, messages, runner, aborted, downstream, toolResult, answered>>

(* A repeated submission returns the action as it is; policy settles a new
   one, or asks for an approval.  The SDK polls an action of any status. *)
Submit(c) ==
  /\ runPc[c] = "submit"
  /\ \/ /\ action.status = "none"
        /\ \E status \in {"pending_approval", "authorized", "ended"} :
             action' = [action EXCEPT !.status = status]
     \/ action.status # "none" /\ UNCHANGED action
  /\ RunGoTo(c, "wait")
  /\ UNCHANGED <<messages, runner, aborted, downstream, toolResult, answered>>

(* waitForToolCall.  The tool call of a known outcome is no longer
   authorized, but the wrapper takes one that was executed as well. *)
Authorized == action.status = "authorized" /\ action.attempt \in {"reserved", "dispatched"}

Poll(c) ==
  /\ runPc[c] = "wait" /\ action.status # "pending_approval"
  /\ \/ /\ Authorized \/ (runner[c] = "wrapper" /\ action.attempt = "succeeded")
        /\ RunGoTo(c, "send") /\ UNCHANGED answered
     \/ /\ ~Authorized /\ ~(runner[c] = "wrapper" /\ action.attempt = "succeeded")
        /\ Answers(c, "error")
  /\ UNCHANGED <<action, messages, runner, aborted, downstream, toolResult>>

(* A request fails, or the wait ends by its timeout or with the MCP request:
   then the wrapper may cancel the approval. *)
AbandonWait(c) ==
  /\ runPc[c] \in {"submit", "wait"}
  /\ \/ Answers(c, "error")
     \/ /\ runPc[c] = "wait" /\ runner[c] = "wrapper" /\ CancelPendingOnAbort
        /\ RunGoTo(c, "cancel") /\ UNCHANGED answered
  /\ UNCHANGED <<action, messages, runner, aborted, downstream, toolResult>>

CancelApproval(c) ==
  /\ runPc[c] = "cancel"
  /\ action' = IF action.status = "pending_approval"
               THEN [action EXCEPT !.status = "ended"] ELSE action
  /\ Answers(c, "error")
  /\ UNCHANGED <<messages, runner, aborted, downstream, toolResult>>

SendConsume(c) ==
  /\ runPc[c] = "send"
  /\ Send(c, "consume") /\ RunGoTo(c, "consume")
  /\ UNCHANGED <<action, runner, aborted, downstream, toolResult, answered>>

(* The answer is lost.  The wrapper reports a request that timed out or was
   cancelled, although it cannot know whether the grant was consumed. *)
LoseConsumeGoesOn(c) ==   \* mutant
  /\ runPc[c] = "consume"
  /\ RunGoTo(c, "consumed")
  /\ UNCHANGED <<action, messages, runner, aborted, downstream, toolResult, answered>>

LoseConsume(c) ==
  /\ runPc[c] = "consume"
  /\ \/ Answers(c, "error") /\ UNCHANGED messages
     \/ /\ runner[c] = "wrapper"
        /\ Send(c, IF c \in aborted THEN "unknown_outcome" ELSE "timed_out")
        /\ RunGoTo(c, "report") /\ UNCHANGED answered
  /\ UNCHANGED <<action, runner, aborted, downstream, toolResult>>

(* An MCP request that was cancelled meanwhile is not forwarded. *)
CallDownstream(c) ==
  /\ runPc[c] = "consumed" /\ c \notin aborted
  /\ downstream' = downstream \cup {c}
  /\ RunGoTo(c, "call")
  /\ UNCHANGED <<action, messages, runner, aborted, toolResult, answered>>

ReportCancelled(c) ==
  /\ runPc[c] = "consumed" /\ c \in aborted
  /\ Send(c, "cancelled") /\ RunGoTo(c, "report")
  /\ UNCHANGED <<action, runner, aborted, downstream, toolResult, answered>>

(* The tool works, and its answer is known by the time it arrives. *)
ToolReturns ==
  /\ downstream # {} /\ toolResult = "none"
  /\ toolResult' \in {"ok", "error"}
  /\ UNCHANGED <<action, messages, runPc, runner, aborted, downstream, answered>>

(* The SDK reports no error it could tell from an unknown outcome. *)
ReportKnown(c) ==
  /\ runPc[c] = "call" /\ toolResult # "none"
  /\ runner[c] = "sdk" => toolResult = "ok"
  /\ Send(c, IF toolResult = "ok" THEN "succeeded" ELSE "failed_after_dispatch")
  /\ RunGoTo(c, "settle")
  /\ UNCHANGED <<action, runner, aborted, downstream, toolResult, answered>>

(* The downstream call times out, is cancelled, or its transport fails. *)
ReportFailed(c) ==   \* mutant
  /\ runPc[c] = "call"
  /\ Send(c, "failed_after_dispatch")
  /\ RunGoTo(c, "report")
  /\ UNCHANGED <<action, runner, aborted, downstream, toolResult, answered>>

ReportUnknown(c) ==
  /\ runPc[c] = "call"
  /\ \E outcome \in {"unknown_outcome", "timed_out"} :
       /\ outcome = "timed_out" => runner[c] = "wrapper"
       /\ Send(c, outcome)
  /\ RunGoTo(c, "report")
  /\ UNCHANGED <<action, runner, aborted, downstream, toolResult, answered>>

(* The report is refused or not answered: the result is not passed on. *)
LoseReportOnly(c) ==   \* mutant
  /\ runPc[c] \in {"settle", "report"}
  /\ Answers(c, IF runPc[c] = "settle" THEN "result" ELSE "error")
  /\ UNCHANGED <<action, messages, runner, aborted, downstream, toolResult>>

LoseReport(c) ==
  /\ runPc[c] \in {"settle", "report"}
  /\ Answers(c, "error")
  /\ UNCHANGED <<action, messages, runner, aborted, downstream, toolResult>>

Abort(c) ==
  /\ Active(c) /\ runner[c] = "wrapper" /\ c \notin aborted
  /\ aborted' = aborted \cup {c}
  /\ UNCHANGED <<action, messages, runPc, runner, downstream, toolResult, answered>>

---------------------------------------------------------------------------
(* The server.                                                             *)

DecideApproval ==
  /\ action.status = "pending_approval"
  /\ \E status \in {"authorized", "ended"} : action' = [action EXCEPT !.status = status]
  /\ UNCHANGED <<messages, runPc, runner, aborted, downstream, toolResult, answered>>

(* Its answer reaches a sender that still waits, or is lost. *)
ServeConsume(c) ==
  LET message == [call |-> c, kind |-> "consume"]
      wins == action.status = "authorized" /\ ~action.consumed
  IN  /\ message \in messages
      /\ messages' = messages \ {message}
      /\ action' = IF wins THEN [action EXCEPT !.consumed = TRUE, !.attempt = "dispatched"]
                   ELSE action
      /\ \/ /\ runPc[c] = "consume"
            /\ IF wins THEN RunGoTo(c, "consumed") /\ UNCHANGED answered
               ELSE Answers(c, "error")
         \/ UNCHANGED <<runPc, answered>>
      /\ UNCHANGED <<runner, aborted, downstream, toolResult>>

(* The first outcome of a dispatched attempt is recorded; the same again is a
   replay. *)
ServeReport(c, outcome) ==
  LET message == [call |-> c, kind |-> outcome]
      recorded == action.attempt = "dispatched"
      agrees == recorded \/ action.attempt = outcome
  IN  /\ message \in messages
      /\ messages' = messages \ {message}
      /\ action' = IF recorded THEN [action EXCEPT !.attempt = outcome] ELSE action
      /\ \/ /\ runPc[c] \in {"settle", "report"}
            /\ Answers(c, IF agrees /\ runPc[c] = "settle" THEN "result" ELSE "error")
         \/ UNCHANGED <<runPc, answered>>
      /\ UNCHANGED <<runner, aborted, downstream, toolResult>>

RunnerNext ==
  \/ \E c \in RunnerCalls :
       \/ StartCall(c) \/ Submit(c) \/ Poll(c) \/ AbandonWait(c) \/ CancelApproval(c)
       \/ SendConsume(c) \/ LoseConsume(c) \/ CallDownstream(c) \/ ReportCancelled(c)
       \/ ReportKnown(c) \/ ReportUnknown(c) \/ LoseReport(c) \/ Abort(c)
       \/ ServeConsume(c) \/ \E outcome \in KnownOutcomes \cup UnknownOutcomes : ServeReport(c, outcome)
  \/ ToolReturns \/ DecideApproval

RunnerSpec == RunnerInit /\ [][RunnerNext]_runVars

---------------------------------------------------------------------------
(* Whatever is lost, late or repeated, the downstream tool is called at most
   once, under the consumed grant, and never for an action whose execution was
   reported as cancelled. *)
CalledOnce ==
  /\ Cardinality(downstream) <= 1
  /\ downstream # {} => action.consumed /\ action.attempt # "cancelled"

(* The attempt ends with a known outcome only if that is what the tool came
   to, even where another call's report of a lost consumption is late. *)
KnownIsTrue ==
  /\ action.attempt = "succeeded" => toolResult = "ok"
  /\ action.attempt = "failed_after_dispatch" => toolResult = "error"

(* A model is shown the tool's result only after the server recorded it. *)
ResultIsRecorded ==
  \A c \in RunnerCalls :
    answered[c] = "result" => c \in downstream /\ action.attempt \in KnownOutcomes
=============================================================================
