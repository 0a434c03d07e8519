# ActionProxy in TLA+

A verification development for the ActionProxy server: the gate that stands
between an AI agent and the tools it wants to call. An agent submits a tool
call; policy allows, denies or asks people; people vote, reject, cancel or let
the approval expire; what is authorized runs once, either inside the server or
at an external runner that holds a signed grant; the outcome is recorded and,
where it carries classified content, withheld until the exposure is on record.

The server is TypeScript on one event loop (`apps/server/src`), but it may run
as several processes over one Postgres database. Everything difficult in it
comes from the same place: every handler awaits its store many times, and
between two awaits anything else can happen.

## 1. Inventory

Every component of the repository is listed in `PROJECT.json`, with its sources
and with the reason when it is not modelled. The ones that carry core logic:

### Action gate service (`services/action-gate.ts`)

* State: none of its own besides the coalescing map of presentation updates;
  it works on tool calls, approvals, attempts, grants and receipts in the store.
* Operations: `submitToolCall`, `approveApproval`, `rejectApproval`,
  `cancelApproval`, the lazy expiry in every approval read, `executeToolCall`
  (local), `authorizeExternalExecution` (runner), `failToolCall`, receipts,
  content exposure before release.
* Interacts with the policy evaluator (synchronous), the store and the audit
  store (awaited), the tool registry (awaited), the grant service (awaited), the
  approval notifier (best effort).
* Hard: snapshots read before an await and written back after it. Tool calls
  are written whole by `updateToolCall`, with no compare-and-set; only
  approvals, attempts, grants, receipts and exposures have atomic operations.
* Correct when: the action runs at most once, with an input somebody had the
  authority to grant; a refusal is final; every record tells the same story.

### Atomic store operations (`storage/memory-store.ts`, `postgres-store.ts`, `sqlite-store.ts`)

* State: the durable records.
* Operations that matter here: `createToolCallIdempotentlyAtomically`,
  `recordApprovalDecisionAtomically`, `rejectApprovalAtomically`,
  `cancelApprovalAtomically`, `expireApprovalAtomically`,
  `reserveExecutionAttemptAtomically`, `bindExecutionAttemptGrantAtomically`,
  `transitionExecutionAttemptAtomically`,
  `consumeExecutionGrantAndDispatchAttemptAtomically`,
  `recordActionReceiptOutcomeAtomically`, `recordContentExposureAtomically`.
* Hard: each compares a different part of the records; what one of them does not
  compare can have changed since the caller checked it.
* Correct when: each guard covers what its callers rely on.

### Execution grants (`security/execution-grants.ts`)

* State: grants in the store.
* Operations: `createGrant`, `consumeGrant`, `reportOutcome`.
* Hard: consumption races between runners; reports are retried, duplicated and
  contradicted; a report reconciles what an earlier crashed report left undone.
* Correct when: one dispatch per grant, one outcome per attempt, receipt and
  tool call agree with it, and only an exact replay may repair.

### Content influence (`policy/content-influence.ts`, `contracts/content-influence.ts`)

* State: exposures per influence scope, with a revision.
* Operations: look up, evaluate the guard, record an exposure.
* Hard: other actions of the scope expose content while this one is being
  decided; the lookup may overflow or fail.
* Correct when: the guard only makes decisions stricter, and a dispatch happens
  only on evidence that is still current.

### Policy (`policy/policy-manager.ts`, `policy/evaluate-policy.ts`, `policy/policy-trace.ts`)

* State: one active policy object with its version hash; with each tool call the
  facts of it that were frozen at ingress.
* Operations: `replacePolicy`; evaluation by exact, wildcard and default rules,
  asked at submission, twice at a vote, and before a dispatch.
* Hard: the policy is replaced between any two awaits of any handler; the same
  action is evaluated from different records, with an input a vote may edit.
* Correct when: what runs is still permitted by the policy it was decided under,
  that policy is the active one when a local tool is called, a trace explains the
  decision, and an action nobody changed is decided alike each time.

### Audit chain and stores (`security/audit-chain.ts`, `storage/jsonl-audit-store.ts`)

* State: the stored events; in memory one promise chain of appends.
* Operations: append (read the head, link, store once by event id), list the
  newest, verify.
* Interacts with every component that audits. All of one server process go
  through one `ChainedAuditStore`; some await the append and fail with it,
  others ignore its failure.
* Hard: concurrent appends, occurrence times that are equal or lie in the past
  while tables list by timestamp, a store call that rejects after it took the
  event, a repeated append, a restart, a line cut short.
* Correct when: the store lists one chain at all times, holds each event once,
  and a failed append does not hold up the later ones.

### Prepared actions (`services/prepared-external-authorization-publication.ts`, gate, grants, stores)

* State: receipt, grant, attempt and tool call of one action, published together.
* Operations: publication after the last vote, publication again by a repeated
  approval, consumption by the server-owned executor, recording of a known
  outcome with all its projections, adoption of one that was recorded alone.
* Hard: a crash between any two of them; a repeated approval that meets a changed
  policy while the action is executed.
* Correct when: the provider is called once at most, a refused action is never
  published, and a known outcome is recorded whole and stays.

### Storage: transactions and migrations (`storage/`)

* State: rows and their locks in Postgres; one database file behind a `sqlite3`
  process per query; a lock file and a ledger of migrations.
* Operations: the atomic operations above as each store implements them;
  starting over a database that lacks migrations.
* Hard: rows are locked in different orders; the SQLite operations read before
  their transaction; COMMIT may succeed although its caller sees an error;
  processes start at once, and die holding the lock.
* Correct when: each operation is one step to everybody else and only its winner
  is told that it won; each migration is applied once, in order, before a server
  runs.

### Presentation of approvals (`action-gate.ts`, `integrations/`)

* State: the messages in the chats, the deliveries that name them, and per approval
  one entry with the running pass over its cards and the work collected for a
  trailing one.
* Operations: notification and resend, which record the deliveries when all sends
  have ended; decisions, which ask for a pass; clicks on stale cards.
* Hard: a decision that overtakes a send, whose pass does not yet know the card;
  work that arrives while the trailing pass runs; answers of the chat that are lost
  or late; passes and records that fail.
* Correct when: a call returns after a pass that began later took up what it
  brought, and it does return; and a decided approval at rest leaves no buttons on
  a card but where an edit failed on record, or an error left it out.

### Signing keys (`security/auth-service.ts`)

* State: one cached key set with its time, one fetch under way, the time of the
  last refresh that an unknown key forced.
* Operations: verification of a token, whose key is looked up in the cache, in a
  shared fetch, or in a forced one; failure and timeout of a fetch.
* Hard: the provider rotates its key while a fetch is under way, and many requests
  share the answer.
* Correct when: a withdrawn key is refused after a bounded time.

### Runners (`packages/mcp-wrapper`, `packages/sdk-js`)

* State: where a call is: submitting, waiting, consuming, calling, reporting.
* Hard: every request or its answer may be lost or late, MCP requests are
  cancelled, two runners may work on one idempotency key.
* Correct when: the downstream tool is called once at most, what is recorded as a
  known outcome is true, and a model sees only recorded results.

### First Run concierge (`scripts/first-run.mjs`)

* State: the lock directory, `state.json`, the gateway container, the files of
  the runtime keys, the tunnel profile, the tunnel client and its receipt.
* Operations: journeys, installation and removal of the tunnel client, stop,
  reset; each a process that may be interrupted or killed.
* Correct when: launchers exclude each other, and one that ends has removed what
  it made and nothing else.

The rest - dashboards, formatting, configuration parsing, the web application,
scripts and examples - holds no protocol state, or is a user of the HTTP API.

## 2. Modules

| Module | Models | Extends |
|---|---|---|
| `GateState` | records, snapshots, policy and influence functions, initial state | |
| `ApprovalFlow` | submission, votes, rejection, cancellation, expiry | `GateState` |
| `ExecutionFlow` | reservation, local execution, grants, consumption, reports | `GateState` |
| `ActionGate` | the composition, its environment, its properties | both flows |
| `OneShotAction` | the abstract promise for one action | |
| `StoreRecords` | the atomic operations: what each answers and leaves | |
| `ActionStore` | the abstract promise of every store | `StoreRecords` |
| `PostgresStore` | transactions with row locks, deadlocks, lost connections | `StoreRecords` |
| `SqliteStore` | reads, then one transaction of conditional writes | `StoreRecords` |
| `PreparedFlow` | publication, consumption and outcome of a prepared action | `StoreRecords` |
| `PolicyEvaluation` | rule matching and the evaluations of one action's life | |
| `Runner` | MCP wrapper and SDK over lossy requests | |
| `FirstRun` | the commands of the concierge | |
| `MigrationLock` | lock file, reclaim, ledger of migrations | |
| `PresentationSync` | coalesced passes over the cards of an approval | |
| `ApprovalCards` | cards sent, recorded, overtaken by a decision, edited and clicked | `PresentationSync` |
| `SigningKeys` | cache of a provider's keys, shared and forced fetches, rotation | |
| `AuditChain` | append queue, audit stores, verification | |
| `MCActionGate` | policies and symmetry for TLC | `ActionGate` |
| `MCProtocols` | the seven components with safety properties only | those modules |
| `MCServices` | the three components that also have fairness, and `SigningKeys` | those modules |
| `ActionGateProofs` | types, one effect, final refusal, proved | `ActionGate` |
| `ActionGateTruthProofs` | one owner, true tool call, agreeing outcomes, kept evidence, exposure before release, final statuses, proved | `ActionGateProofs` |
| `ActionGatePromiseProofs` | authority of effects and invocations, fresh evidence at dispatch, refinement of `OneShotAction`, nothing half done without a fault, proved | `ActionGateTruthProofs` |
| `StoreProofs` | refinement of `ActionStore` by the SQLite and the Postgres store, order of the row locks, proved | `SqliteStore`, `PostgresStore` |
| `DispatchProofs` | one call of the provider, no publication after an end, kept outcomes; one call of the tool, true and recorded outcomes, proved | `PreparedFlow`, `Runner` |
| `FirstRunProofs` | exclusion of launchers, nothing left behind, owned clients, proved | `FirstRun` |
| `ServiceProofs` | audit chain, migrations, presentation, cards, signing keys, policy evaluation, proved | those six modules |
| `CompositionProofs` | what holds of the components holds in the compositions, types, proved | `MCProtocols`, `MCServices` and the four `...Proofs` of their components |

How they are composed:

* `ActionGate` composes the two flows with their surroundings, and implements
  `OneShotAction`.
* `PreparedFlow` runs over the operations of `StoreRecords`, each one step.
  `PostgresStore` and `SqliteStore` implement those operations in several steps
  and are shown to implement `ActionStore`, which is why one step is enough in
  the former, and in the flows of the gate as well.
* `ApprovalCards` composes notifications, decisions and clicks with the passes of
  `PresentationSync`: each of its calls ends by asking for one.
* `AuditChain`, `PolicyEvaluation`, `Runner`, `MigrationLock`,
  `PresentationSync`, `ApprovalCards`, `SigningKeys` and `FirstRun` do not extend
  the gate. To the gate an audit append is a call that may throw, which is an
  `Abort`; a policy is a table; a presentation update does not change its records;
  a principal is authenticated; a runner is a source of requests in any order. To
  them the gate is a source of requests, or a server reduced to what their requests
  change.
* `MCProtocols` and `MCServices` put components that share no state into one run.
  A behaviour chooses one of them, and the others stay in one initial state, so
  the search is the sum of the components' searches and not their product. That a
  behaviour of the composition is one of every component is proved
  (`CompositionProofs`); migrations start in it only when it is their turn.

### State

The model follows one action: the tool call `tc` of one idempotency key, its
approval `ap`, its execution attempt `att`, its grant and its action receipt.
The program has many, but their records share nothing except the influence
scope, which enters as `revision` and `sources` and is also moved by
`ForeignExposure`. `Calls` is the set of server calls in flight; `pc[c]` names
the await call `c` is suspended at and `loc[c]` holds what it read before. An
idle call can be started as any request, so a client's retry is a new request
of an idle call.

### Actions

An action is what a call does between two awaits of the store: it ends with the
store operation it awaits, or with the checks that follow a read. A read is
merged with the synchronous checks after it. Where a handler reads several
records in a row, the reads stay separate steps if another call can write those
records in between (`ConsumeAttempt`, `ConsumeToolCall`, `ConsumeValidate`) and
are merged where the record is by then immutable or written by the same owner.

The labels follow the handlers:

* `submit_*` is `submitToolCall`. The policy version is captured before the
  first await, the exposure lookup comes next, then the idempotent creation;
  whoever loses that race replays the stored tool call.
* `approve_*` is `approveApproval`: two loads, the checks, and the
  compare-and-set whose outcomes are recorded, finalized, expired and conflict.
* `close_*` is `rejectApproval`, `cancelApproval` and a plain read, which all
  expire what is due; `reject_write` and `terminalize` write the tool call.
* `receipt`, `revalidate`, `reserve` precede both execution modes; `local_*`,
  `grant_*`, `consume_*` and `report_*` are the two modes.
* `fail_before`, `fail`, `fail_receipt` end an attempt that must not run.

`effects` counts the local tool's invocations and the grants consumed: after a
consumption the runner has been told to go, and the server cannot know more.

### Identifications

* Hashes are the values they hash: an input, a policy version, the evidence.
  Signatures are assumed unforgeable.
* A rule is what the evaluator returns for an input: its id, base decision,
  influence guard and the source integrity of its results.
* Time is a counter; lifetimes are in ticks. Store and server share the clock,
  as `this.now()` and the database do closely enough for hours-long lifetimes.
* An influence scope's exposures are the set of their integrities and a revision
  number, which is all that evaluation and binding look at.
* Runner outcomes are a state and one of a few bodies. A body stands for the
  result and for what is said of its delivery; `VisibleBodies` are those whose
  `resultDelivery` says that the model sees them. `DeliveryAccepted` is what
  `reportOutcome` asks of a classified call over MCP: content with a result or an
  error, none with a transport failure.
* A receipt does not expire. `currentReceiptMismatch` refuses one whose optional
  `expiresAt` has passed (`execution-grants.ts:1224`), but no code of the
  repository gives a receipt an `expiresAt` (`prepareActionReceipt`,
  `action-gate.ts:3200`), so the check never refuses.

### Environment

`Tick` advances the clock; `PolicyReload` makes another policy active;
`ForeignExposure` is another action of the scope. `Abort` ends a call between
two awaits: its process died, or a store or audit call threw where the code does
not catch it. A failing exposure write at `local_expose`, `local_release`,
`report_expose` or `report_release` has the same effect as `Abort` there.
`SubmitInfluenceUnavailable` and `GrantUnavailable` are the failures the code
does catch, at the submission's lookup and in `createGrant`.

### The audit chain

`queue` is the promise chain, its first request the one being worked on; `stage`
and `head` say whether it waits for `list(1)` or has its answer. `stored` keeps
the events in the order of insertion, while `Before` and `Newest` are the order
the store lists them in: that of a JSONL file or `ORDER BY timestamp`, where
equal timestamps may come either way. A hash is identified with the position of
its event; nothing in the program changes a stored event. `WriteFails` rejects
whether or not the store took the event, `WriteCut` leaves a part of a JSONL
line behind, after which every `list` throws (`ReadUnreadable`). Server processes
that share a store are left out: `docs/STORAGE.md` says one audit writer.

### The stores

A view (`Views`) holds the records of one action. `Answer(r, v)` is what the
memory store answers request `r` on view `v`, `After(r, v)` what it leaves; a
body stands for all that is compared by hash. `late` says whether the approval's
authorization has expired, and enters as the clock does: a call judges it as of a
time of its own, at most as late as its decision.

`PostgresStore` gives each operation its plan, the rows in the order of its
`SELECT ... FOR UPDATE` or `FOR SHARE`, or a single statement. An operation that
asks the database for the time is called first (`Call`) and may then wait, with
the time it began; any other holds and knows nothing before its first lock, so it
begins with it (`Begin`) or is one step (`AtOnce`). `LockRow` waits for the row's
holders and reads the row when it has the lock; `Commit` decides
on what was read and writes only the rows that changed; `DeadlockVictim`,
`LoseConnection` and `LoseAnswer` are the three ways an error reaches the caller
of a transaction, the last after COMMIT took effect. `SqliteStore` has `LiteRead` per query that
comes before the transaction, and the transaction itself (`Transaction`, in
`LiteWrite` or, where nothing is read before, in `LiteAtOnce`), whose conditions
(`Holds`) are those in its SQL. The `sqlite3` process may end before it
(`LiteKilled`) or after it, its answer lost.

`ActionStore` knows neither: an operation happens in one step that wins on the
records of that very step, or changes nothing, and `won` names the caller who was
told so. An adoption may be performed again on records that show its outcome
already (`Readopt`), which the SQLite conditions allow and which changes nothing
another caller relies on.

### Prepared actions

`prepPc` names the await of a call of the gate (`vote`, `revalidate`, `publish`,
`fail`, `close`, `terminalize`) or of the grant service (`dispatch`, `execute`,
`loadAttempt`, `record`, `adopt`, `giveUp`, `receiptOutcome`, `project`), and
`prepLoc` the tool call it loaded, which `failToolCall` later stores as failed.
`Abandon` is a call that throws or dies. The extensions that prepare and dispatch
native actions are not in the repository: they agree, or the call ends.

### Policy evaluation

One action of the tool `a.b.c`; a policy is a list of at most `MaxRules` rules
and a default. `ConsiderExact`, `ConsiderEntry`, `TakeDefault` are one evaluation, rule
by rule as its trace records it; `polPass` says what it is for. `SettleSubmission`,
`SettleOriginal`, `SettleApproved` and `SettleDispatch` are what the gate does with
the answer. `frozen` is the amount in the context a canonical request got at
ingress, `asserted` the one in the metadata of a request that is not canonical.
The reference the evaluation is compared with is `Said`, which quantifies over the
policy and follows no loop.

### Runners

`runPc[c]` is what call `c` awaits, `messages` the requests that still travel to
the server: one whose sender gave up is served nevertheless, and late.
`LoseConsume` and `LoseReport` are a timeout or a transport error on the way back.
`action` is the server's record of the action, reduced to its status, the
consumption and the attempt; `downstream` and `toolResult` are the tool itself.

### First Run, migrations, presentation, keys

In `FirstRun` a step is what a command does between two awaits or between two
calls of the file system: the lock directory is made (`MakeLock`) before its owner
is written (`WriteOwner`), and read (`InspectOwner`) before it is reclaimed
(`ReclaimOwned`). `Fails` and `Signal` are failures and signals that the command
handles, `Kill` one it cannot.

In `MigrationLock` a file is told from one of the same name by who created it:
`Unlink` removes whichever has the name. `ReadLedger` happens once per process and
`ApplyMigration` inserts under the ledger's key. A process that waited in vain
ends and is started again, which is the same step as its retry (`RetryLock`).

In `PresentationSync` `batch` is the entry of `approvalPresentationSyncs`, its
phase the pass that is about to start or is running. `unserved[u]` is a history
variable: the cards call `u` asked for which no pass that began since took up.

In `ApprovalCards` a card is a message, so that a resend makes another one. `shown`
is what its chat shows, `storedCards` the deliveries that name it. `Notify` looks
at the approval before the sends, `Reread` after all deliveries are stored;
between them `Decide` may ask for a pass (`AskStored`) that misses what is not yet
stored. A click lists the deliveries (`Click`) before it asks for a pass over them
and the clicked card (`AskClicked`); one that observes the expiry itself repairs
its own card only if that is untracked (`RepairClicked`). An edit or a send may
reach the chat although its caller sees an error. `forsaken` is a history
variable: the open cards that an error of the store or a lost answer put out of
reach of the calls. `DecidedCardsClose` is about all others, so about the order of
sends, decisions and passes and not about errors the code gives up on. Only a
Telegram channel edits its messages; the server does not die in this model, and
after a crash nothing but a click on the stale card repairs it.

In `SigningKeys` the provider publishes one key at a time, numbered; a token is
known by the key that signed it. `AnswerFetch` reads the key the provider has at
that moment, `FetchArrives` caches it later and resumes all that wait, since they
are resumed before the event loop takes another request. A request that was
resumed by a fetch asks for no other (`fromCache` is false). `PassTime` lets no
fetch outlive its timeout, which aborts reading the answer as well. Static key
sets have no state. `docs/THREAT_MODEL.md:123` says that automatic refresh of the
keys is not implemented; the code has it, and the model follows the code.

## 3. Properties and runs

Invariants hold in every state, action properties of every step.

| Run | Question | Properties |
|---|---|---|
| `Approval` | Do votes, refusals and expiry race safely? | `TypeOK`, `EffectHasAuthority`, `RefusedNeverRuns` |
| `Edited` | Is it safe to let an approver edit the input? | `ToolCallTruth`, `ImplementsOneShot` |
| `Influence` | Is an action dispatched, and a local tool called, only on current evidence and authority, and is nothing left half done where no call faults? | `NothingIsForgotten`, `InvokedUnderCurrentAuthority`, `DispatchOnFreshEvidence` |
| `Reports` | Do runners that race and repeat themselves leave one effect and one outcome? | `AtMostOnceEffect`, `OutcomeAgreement`, `WithheldUntilExposed`, `FinalStays` |
| `DecisionLiveness` | Does every decision reach the tool call? | `RefusalReachesToolCall`, `ApprovalReachesToolCall` |
| `OutcomeLiveness` | Does every known outcome reach the tool call and get released for good? | `OutcomeReachesToolCall` |
| `Protocols` | Do stores, prepared actions, runners, the concierge, policy and cards keep their promises when two of each work at once? | stores: `PostgresKeepsPromise`, `SqliteKeepsPromise`, `NoDeadlockWithoutPublication`; prepared: `PreparedRunsOnce`, `EndedStaysUnpublished`, `KnownOutcomeIsWhole`; runners: `CalledOnce`, `KnownIsTrue`, `ResultIsRecorded`; concierge: `LaunchersExclude`, `NothingIsLeft`, `ClientIsOwned`; policy: `EvaluationIsExplained`, `UnchangedActionIsDecidedAlike`; cards: `DecidedCardsClose`; all: `ProtocolTypes` |
| `Services` | Do audit chain, migrations, presentation and signing keys stay consistent and go on after failures? | audit: `ChainVerifies`, `StoredOnce`, `RecoversAfterFault`; migrations: `MigratedOnceInOrder`, `LockIsFreed`; presentation: `ReturnedIsServed`, `UpdatesReturn`; keys: `WithdrawnKeysLapse`; all: `ServiceTypes` |
| `ExpiryAtDispatch` | Can an expired approval execute? | `ExpiredApprovalNeverExecutes` (violated) |
| `AuditWindow` | Does an untampered chain always verify? | `UntamperedVerifies` (violated) |
| `ReplayReconciles` | Does an exact replay reconcile what is missing? | `ReplayReconciles` (violated) |
| `EditedInput` | Is an edited input evaluated as edited? | `EditedInputIsEvaluated` (violated) |

Distinct states of the complete searches: Approval 98,320; Edited 1,756,464;
Influence 2,398,984; Reports 2,396,742; DecisionLiveness 398,270; OutcomeLiveness
419,518; Protocols 1,137,001; Services 85,438.

What is notable about them:

* `EffectHasAuthority` is about distinct principals: the same approver from two
  calls, a vote for another input, or the requester under separation of duties
  must not complete a quorum.
* `ToolCallTruth` and `FinalStays` are about the whole-record writes of
  `updateToolCall`. They hold because of ownership: the compare-and-sets on
  approval and attempt choose one writer at a time. For prepared actions this
  fails, which is the finding `ReplayReconciles`.
* `InvokedUnderCurrentAuthority` is why `executeToolCall` checks the binding
  again after the durable dispatch.
* `DispatchOnFreshEvidence` evaluates the guard anew over everything the scope
  has been exposed to by the step of dispatch; the revision guard inside the
  compare-and-set is what makes this equal to the evaluation at submission.
* `NothingIsForgotten` compares all the records at the moments when no call is in
  flight: a pending tool call has an approval that can still be decided, a refusal
  has reached the tool call, a reserved or dispatched attempt is one a runner can
  go on with, an outcome stands in all three records and is shown if it is known.
  Its premise is that no call has faulted, so it also says that the states listed
  under "Fairness" below, such as a tool call pending without an approval
  (`action-gate.ts:760`), come from a fault and never from a race or an early
  return. The exception `Lapsed` is an approval that expired between its last vote
  and its reservation.
* `WithheldUntilExposed` has two reasons to withhold. `requiresContentExposureBeforeRelease`
  looks at the scope of the action, `requiresContentExposureBeforeDelivery` only
  at what the report says: the classified result of an action without a scope is
  withheld too if it is reported as visible to the model. There is nowhere to
  record its exposure, so `recordContentExposureBeforeDelivery` refuses, the
  outcome stands and the result is never released.
* `OutcomeReachesToolCall` says "for good". A replay of a report whose snapshot
  predates the first report's write sets the result to withheld again after it
  was released, and then releases it itself. If such a replay faults in
  between, the result stays withheld, until yet another replay; without faults
  the property holds.
* `ImplementsOneShot` maps the records to `OneShotAction`: a verdict, the input
  it covers, the number of runs, the input that ran, the outcome, and what the
  requester is told. `Verdict` is read off the tool call's decision and the
  approval; `told` off the tool call's status.
* `PostgresKeepsPromise` and `SqliteKeepsPromise` are refinements for all
  operations at once. For Postgres they say that what a transaction read under
  its locks still holds at COMMIT, although `reserve` reads the attempt without a
  lock; for SQLite that the conditions inside the transaction cover what the
  queries before it saw.
* `NoDeadlockWithoutPublication`: `publishPreparedExternalAuthorizationAtomically`
  locks the tool call before the attempt, the other operations the attempt
  before the tool call. A deadlock is possible and harmless: its victim changes
  nothing. Among the other operations there is none.
* `CalledOnce` and `KnownIsTrue` are about a lost answer to a consumption. The
  wrapper cannot know whether the server dispatched, so it reports an unknown
  outcome and never calls the tool; its report may be served before the
  consumption it gave up on.
* `LaunchersExclude` leaves out two cases in which the code does not exclude:
  two launchers that reclaim the lock of a killed one at once, where the slower
  removes the faster one's lock, and a reset, which looks at the lock before its
  confirmation prompt and not after it.
* `ClientIsOwned` leaves out two removals of the tunnel client that were both
  done. A removal holds no lock and deletes the receipt there is, so the slower of
  two may delete that of a client installed in between. The run has two commands,
  so there the exception is two removals and nothing else; the theorem is about
  any number of commands.
* `MigratedOnceInOrder` holds although the same reclaim lets two processes
  migrate at once: the key of the ledger refuses the second insertion.
* `LockIsFreed` speaks of lock files that name their process. A process that dies
  between creating the file and writing its identifier leaves an empty one, which
  does not parse: `reclaimStaleSqliteMigrationLock` answers false from its catch
  and never comes to the reclaim by age, so the file has to be removed by hand,
  although `docs/STORAGE.md:72` says that a dead owner's lock is reclaimed.
* `UnchangedActionIsDecidedAlike` compares evaluations that read different
  records. An approval forced upon an action that policy allows cannot be granted
  by any vote, since the vote asks for an original decision of
  `require_approval`; the property's exclusion says so.

* `DecidedCardsClose` needs both halves of the code: the re-read after the
  deliveries are stored, and the trailing pass for work that comes while another
  pass runs.
* `WithdrawnKeysLapse` bounds trust in a withdrawn key by the life of the cache
  and one fetch. A forced refresh may join a fetch that began before the rotation
  and caches its answer as of its arrival; the timeout of that fetch is what the
  bound needs.

### Findings

**Expiry at dispatch.** `docs/approval-authorization-v1.md:44` says of an approval at or after
`expiresAt` that it cannot "reserve execution, or execute", and line 48 that
"Checks use authoritative server/database time supplied to the atomic state
transition." The votes and the reservation do so. The dispatch of a grant does
not: `consumeGrant` compares `expiresAt` before it awaits the policy
revalidation, and `consumeExecutionGrantAndDispatchAttemptAtomically` compares
grant, attempt and exposure revision only. `ExpiryAtDispatch` finds the run in
which the clock passes `expiresAt` between the two. The grant's own lifetime is
compared before it as well, and in that transition no more than the approval's.
The window is one round trip to the store. The local path has its last check
right before the call of the tool, without an await in between, and
`InvokedUnderCurrentAuthority` holds for it.

**Windowed verification.** `docs/API_SPEC.md:341` says that
`GET /v1/audit/verify` recomputes the chain and returns the first detected
break. `verifyAuditStore` lists at most 10,000 events, and `verifyAuditEvents`
expects the oldest one listed to have no predecessor. With one event more than
are listed, or with a smaller `limit` in the query, an untampered chain is
reported as broken at its first listed event. `AuditWindow` shows it with three
events and a limit of two; `ChainVerifies` says that the full listing is fine.

**Replay of a prepared outcome.** The comment at
`apps/server/src/security/execution-grants.ts:762` says that "Exact outcome
replays therefore always reconcile missing terminal evidence." `approveApproval`
of an action that is approved already publishes it again after a revalidation of
the policy; when the policy changed, `failToolCall` stores the tool call it
loaded as failed, without comparing it with what is stored. If the action was
dispatched meanwhile and its attempt ended with a known outcome, the adoption
asks for a tool call that is authorized or shows the outcome, and answers
`binding_mismatch`: the tool call stays failed beside an attempt that succeeded.
`ReplayReconciles` shows it with two calls.

**Edited input.** `docs/API_SPEC.md:276` says that ActionProxy "re-evaluates
policy against the edited input", `docs/ARCHITECTURE.md:138` the same, and the
comment at `policy-trace.ts:304` that "approval and dispatch revalidation still
evaluate the exact finalized input". For a canonical request
`policyContextFromToolCall` takes amount and currency from the context frozen at
ingress, which was derived from the original input, and the evaluator prefers
the context to the input. A condition on the amount is thus decided with the
original amount at the vote and at dispatch. `EditedInput` finds an action
dispatched with an amount that policy denies as a submission. Requests that are
not canonical are evaluated with the edited amount.

### Bounds, and why they are enough

* Two calls. Every conflict in the code is between a call that read and one that
  wrote since; two in flight, each of which may return and start again as
  another request, produce all pairs of handlers in all orders. The proofs in
  section 4 hold for any number.
* Two of three principals for the quorum, one of them the requester: enough for
  a vote that completes, one that does not, one that repeats and one that is
  not permitted. One approver elsewhere.
* Two inputs where editing matters; two policy versions, the second of which
  contradicts the first, so that a reload can fall between any two steps and be
  undone again.
* `ApprovalTtl` and `GrantTtl` of one tick with a clock of one to three:
  expiry falls before, on and after each step.
* `ExposureLimit` 1 and `MaxRevision` 2: an empty scope, an exposed one, and one
  that overflows the lookup.
* One fault: a crash at any await, with the other call and all later requests
  there to meet what it left. Runs without faults are the ones that say so. In
  `Influence` (`LocalFaultsSpec`) the fault is the submission's lookup or a call
  that carries a local action; faults around runners are in `Reports`.
* Audit: three events, two of them waiting, two occurrence times and two faults,
  so that a backdated event, a repetition and a failure can follow one another.
* Three bodies for reports, two of them visible to the model: equal and different
  outcomes of the same state, and each accepted, refused or withheld on account of
  its delivery. Elsewhere one visible body, and with it, in `Influence`, one policy
  whose rule has classified results and one whose rule has not.
* Stores and prepared actions: `Bodies = {1, 2}`, where body 1 is the request of
  a prepared action and a successful outcome, body 2 the request of a plain one
  and a failure: every operation meets its equal, a different one, and both kinds
  of action. `ReplayReconciles` has a third body, so that the outcomes of two
  reports can both succeed and differ.
* Two runners, each the wrapper or the SDK, with the wrapper told to cancel what
  it waits for; two commands of the concierge of any kinds.
* `MaxRules = 2`: every policy of at most two rules over one exact pattern and two wildcards of
  different length, with amounts unstated, at and above the condition's limit:
  two rules suffice for an order, a shadowing and a fall-through.
* Three starting processes and two migrations: one that dies with the lock and
  two that reclaim it; a ledger that is empty, incomplete and complete. Three
  updates and two cards: one for the running pass, one for the trailing pass, one
  that comes too late for it. The same three for cards: a notification, a decision
  and a click or a second notification.
* Signing keys: three requests, two keys, a cache of two ticks, a fetch and a
  cooldown of one, six ticks: a cache that is filled, expires and is filled again
  around a rotation, and a refresh that is forced and one that is refused.

Together the passing runs fire every action. Symmetry is used in safety runs
only: over calls and, in `Approval`, over the two approvers that are not the
requester; nothing else in those configurations names them. In `Protocols` it
covers the calls of the stores and of prepared actions.

`CHECK_DEADLOCK FALSE` is set where the system really may stop: no policy can be
reloaded, the clock ends and every request is answered; every runner, command or
starting process has ended; an action was denied or dispatched.

### Fairness

`FairSpec` adds weak fairness of `Step(c)` for every call: a handler that was
started goes on, because the event loop resumes a settled promise and the
store's operations settle. Nothing else is fair: no client has to send a
request, no runner to retry, the clock need not run and the policy need not
settle. The liveness properties are checked without faults, because a handler
that died is not resumed by anything: `docs/execution-attempt-v1.md`, section
"Crash and recovery posture", says so, and its stuck states are what the model
reaches with `MaxFaults = 1`.

The runs of `Services` use each component's own fairness; a component that does
not work is in a state in which it enables none of the fair actions.

For the audit chain `WF_vars(Work)` asks the same of the promise chain: store calls
settle, by an answer or a rejection. `RecoversAfterFault` speaks of the time
after the last fault the bound permits, and of a file that can be read.

For migrations a process that is starting goes on until it dies, its retries
included: the loop of `acquireSqliteMigrationLock` is synchronous, and a process
whose deadline passed is started again by its supervisor, as a start-up error
ends the server. Dying is not fair, nor is a failing `sqlite3`.

For presentation passes start and end, since each is bounded by its timeout, and
a late call is resumed when the batch it awaited is over. The latter is strong
fairness: another call may begin a new batch first, so that asking again is
enabled only from time to time, but the late call's continuation is in the queue
of the event loop and runs before a second batch can have ended.

States in which an action stays for ever by design, all of them safe:

* approved, but expired before its reservation: the tool call stays pending;
* a crash between the tool call's `pending_approval` and the approval's
  creation: nobody can decide it, and a replay returns it as it is;
* a crash between a closing compare-and-set and the tool call's write;
* a reserved or dispatched attempt whose call died;
* the classified result of an action without a scope that was reported as visible
  to the model: its outcome is known, and it stays withheld.

## 4. Proofs

Proved for every value of the constants that satisfies the assumptions of the
modules: `GateAssumption` (the three `ActionGate...Proofs`), `BodiesAssumption`
(`StoreProofs`, `DispatchProofs`), `CommandsAssumption` (`FirstRunProofs`:
the value `Nobody` is no command), and in `ServiceProofs` `AuditAssumption`,
`MigrationsAssumption`, `KeyTimes` and `PolicyAssumption` (the bound on rules is a
number, and an amount may be unstated); presentation, cards and runners need none.
`CompositionProofs` rests on those of its components.

| Module | Theorem | States |
|---|---|---|
| `ActionGateProofs` | `TypeCorrect` | `Spec => []TypeOK` |
|  | `OneEffect` | `Spec => []OneEffectInv` |
|  | `AtMostOnce` | `Spec => []AtMostOnceEffect` |
|  | `CarriedByOne` | `Spec => []RefusalInv` |
|  | `RefusedStaysRefused` | `Spec => []RefusedNeverRuns` |
| `ActionGateTruthProofs` | `OwnedByOne` | `Spec => []OwnershipInv` |
|  | `ToolCallTellsTruth` | `Spec => []ToolCallTruth` |
|  | `OutcomesAgree` | `Spec => []OutcomeAgreement` |
|  | `EvidenceStays` | `Spec => []EvidenceInv` |
|  | `ShownOnlyExposed` | `Spec => []WithheldUntilExposed` |
|  | `FinalStatusesStay` | `Spec => FinalStays` |
| `ActionGatePromiseProofs` | `AuthorityIsCarried` | `Spec => []AuthorityInv` |
|  | `AuthorizedEffects` | `Spec => []EffectHasAuthority` |
|  | `GateKeepsPromise` | `Spec => ImplementsOneShot` |
|  | `DispatchIsPermitted` | `Spec => []DispatchInv` |
|  | `DispatchedOnFreshEvidence` | `Spec => DispatchOnFreshEvidence` |
|  | `InvokedUnderAuthority` | `Spec => InvokedUnderCurrentAuthority` |
|  | `EverythingIsCarried` | `Spec => []ForgottenInv` |
|  | `NothingForgotten` | `Spec => []NothingIsForgotten` |
| `StoreProofs` | `SqliteInvariant` | `SqliteSpec => []LiteInv` |
|  | `SqliteImplements` | `SqliteSpec => SqliteKeepsPromise` |
|  | `PostgresInvariant` | `PostgresSpec => []PgInv` |
|  | `PostgresImplements` | `PostgresSpec => PostgresKeepsPromise` |
|  | `PostgresOrdersLocks` | `PostgresSpec => []NoDeadlockWithoutPublication` |
| `DispatchProofs` | `FlowInvariant` | `PreparedSpec => []FlowInv` |
|  | `ProviderIsCalledOnce` | `PreparedSpec => []PreparedRunsOnce` |
|  | `EndedIsNeverPublished` | `PreparedSpec => EndedStaysUnpublished` |
|  | `KnownOutcomesStay` | `PreparedSpec => KnownOutcomeIsWhole` |
|  | `RunnerInvariant` | `RunnerSpec => []RunInv` |
|  | `ToolIsCalledOnce` | `RunnerSpec => []CalledOnce` |
|  | `KnownOutcomesAreTrue` | `RunnerSpec => []KnownIsTrue` |
|  | `ShownResultsAreRecorded` | `RunnerSpec => []ResultIsRecorded` |
| `FirstRunProofs` | `ConciergeInvariant` | `FirstSpec => []ConciergeInv` |
|  | `LaunchersAreExclusive` | `FirstSpec => []LaunchersExclude` |
|  | `NothingIsLeftBehind` | `FirstSpec => []NothingIsLeft` |
|  | `ClientsAreOwned` | `FirstSpec => []ClientIsOwned` |
| `ServiceProofs` | `AuditTypeCorrect` | `Spec => []TypeOK` of `AuditChain` |
|  | `ChainInvariant` | `Spec => []ChainInv` |
|  | `ChainAlwaysVerifies` | `Spec => []ChainVerifies` |
|  | `AppendOnce` | `Spec => []StoredOnce` |
|  | `LedgerInOrder` | `MigrationSpec => []LedgerInv` |
|  | `MigratesOnceInOrder` | `MigrationSpec => []MigratedOnceInOrder` |
|  | `EveryCallIsCovered` | `SyncSpec => []CoverInv` |
|  | `NoCardIsDropped` | `SyncSpec => []ReturnedIsServed` |
|  | `CardsInvariant` | `CardSpec => []CardInv` |
|  | `DecidedAreClosed` | `CardSpec => []DecidedCardsClose` |
|  | `KeysInvariant` | `KeysSpec => []KeysInv` |
|  | `WithdrawnKeysAreRefused` | `KeysSpec => []WithdrawnKeysLapse` |
|  | `PolicyTypes` | `PolicySpec => []PolicyTypeOK` |
|  | `PolicyInvariant` | `PolicySpec => []PolicyInv` |
|  | `EvaluationsAreExplained` | `PolicySpec => []EvaluationIsExplained` |
|  | `UnchangedIsDecidedAlike` | `PolicySpec => []UnchangedActionIsDecidedAlike` |
| `CompositionProofs` | `ProtocolsAreTheirs` | `ProtocolsSpec => PostgresSpec /\ ... /\ CardSpec` |
|  | `ProtocolsKeepTypes` | `ProtocolsSpec => []ProtocolTypes` |
|  | `ServicesAreTheirs` | `ServicesSpec => FairSpec /\ SyncSpec /\ KeysSpec`, and `MigrationSpec` if it is their turn |
|  | `ServicesKeepTypes` | `ServicesSpec => []ServiceTypes` |

`GateAssumption` says no more than that the constants have their types, that
the approvers and the requester are principals, that a quorum has at least one
vote, that there is a body and a policy version, that visible bodies are bodies
and that the value for no body is none of them. It does not assume that the
approvers can form a quorum, nor anything about the rules.

**Types.** `TypeOK` is inductive by itself. There is one lemma per action, each
using only the type of the field that the action changes.

**One effect.** That `effects <= 1` is not inductive: a call about to invoke the
local tool could meet an attempt that a runner already dispatched.
`OneEffectInv` adds why that cannot be. A call on the local path owns the
attempt, and the attempt is not bound to a grant; since only bound attempts are
dispatched by a consumption or ended by a report, no runner can interfere. A
call on the report path has seen a bound attempt, and bound stays bound. At
`local_recheck` no effect has happened yet, and after an effect the attempt is
in none of the states an effect starts from. The reservation happens at most
once, which is what keeps two calls from owning the attempt.

**Refusal.** `RefusedNeverRuns` relates approval and attempt. It is not
inductive because a call may be on its way to the reservation when the refusal
comes. `RefusalInv` says that at most one call carries the action between its
creation and its reservation, and that it does so either before there is an
approval (the submission that created the tool call) or after the approval was
approved for good (the vote that completed the quorum). So while an approval is
pending nobody carries the action, and a refusal of a pending approval meets no
attempt. The invariant also has to know that a snapshot which is written back is
never of an absent tool call, since otherwise a submission could create the
action a second time.

**Ownership.** `ToolCallTruth` compares a tool call that was written from a
snapshot with records that others may have changed since. `OwnershipInv` gives
every await its reason. From the creation of the tool call to the last word of the
call that executes it, one call owns the next write (`OneOwner`), and `OwnerClaim`
lists what it may rely on there, since nobody else writes it. Whoever is not the
owner acts on a final status that a compare-and-set has settled (`VisitorClaim`):
a vote that closed, a report on a consumed grant. `Story` says how far the records
have come with one another. `OutcomeAgreement` and `FinalStays` follow from the
same invariant: a snapshot is written back only where its status is no older than
the stored one.

**Evidence.** `EvidenceInv` says that every snapshot carries the evidence, policy,
mode and decision the submission stored (`HolderPcs` names the awaits at which a
call has a snapshot), so the writes of whole records change none of them.
`WithheldInv` adds that only a call that has recorded the exposure lifts the mark,
that it does so for an action with a scope (`ExposingPcs`), and that a report on
its way to the records says of its content what the action requires
(`DeliveryClaim`): so whatever the records hold of a classified result as visible
to the model was stored as withheld.

**Authority.** `VotesInv`: the votes counted are of distinct, eligible principals
and for one input, and an approval that stands approved has a quorum of them for
its own input. From the verdict to the attempt the owner carries what was granted
(`CallAuthority`), and the attempt keeps it (`AuthorityInv`). A second invariant
follows who executes with which input (`ExecutorInv`), and a third why evidence can
be pinned by a number (`FreshInv`): the sources of a scope change only together
with its revision, so evidence of the current revision is what would be observed
now. `DispatchInv` joins them: a call about to dispatch has found it permitted at
its last look, and the revision guard of the write refuses it if the scope moved
since.

**The one-shot action.** `GateKeepsPromise` is a step simulation over those
invariants. The verdict, the run and the outcome of `OneShotAction` are read off
the records. One lemma per action shows that it maps to one step of the promise
or to a stutter. `PromiseInv` is what the mapping needs besides: what was consumed
or is awaited did run, what is blocked was denied, what fails was granted.

**Nothing is forgotten.** `NothingIsForgotten` speaks of the moments when all calls
are idle, and is an invariant only because of what holds between them. `CarriedInv`
has one line per way in which a record can be behind another: a tool call nobody has
decided (`Untold`), a refusal the tool call does not show (`Unrefused`), an end that is
not yet reported, recorded or shown (`Unreported`, `Unrecorded`, `Unshown`), each
with the calls that may be on their way to mend it (`WillTell` and the sets of
awaits). As long as a record is behind, such a call exists; a step either keeps
that call on its way, mends the record, or is a fault, after which nothing is
claimed. `LookedClaim` is what a call knows at an await between a read and its write:
it went there because of what it saw, and what it saw has not been taken back, so
its write is not the one that finds nothing to do. With no call in flight no record
can be behind. Which awaits belong to which line is the content of the proof;
TLC checked `ForgottenInv` on four configurations before.

**The compositions.** A step of `ProtocolsSpec` or `ServicesSpec` is a step of one
component and a stutter of the others, so each component's specification follows from
the composition's: its initial states, its steps and, for the services, its fairness,
which the composition states in the component's own variables. The invariants and
refinements of the components thus hold of the very specifications the runs check.

**The SQLite store.** The refinement says that a transaction that commits decides
as the abstract operation would on the records of that step, although its plan was
made on records read before. `Admitted` is what the records owe a request that is
between its queries and its transaction, and `StillAdmitted` that no later change
takes it away. `HoldsSuffice` shows that the conditions in the SQL hold exactly
for the winning answers, or for an adoption that is performed again, which is the
step `Readopt` of the promise. `RecordsInv` is how the records of one action agree;
every operation keeps it (`EffectKeeps`).

**The Postgres store.** Here the plan is made under row locks, so the invariant is
about what was seen. `SeenInv`: a row that was there when a transaction took it is
held and stands as it was seen. A row that was missing cannot be locked, and may have
been inserted since. An operation that succeeds has taken every row it reads, the
attempt of `reserve` excepted, whose insertion meets the key of the table at the
COMMIT, and what it saw wins as the table does (`WinnersHold`, `SucceedsAlike`). What it writes back merges with the table to the
effect of the promise (`MergedIsEffect`), since the rows it changes are held for
update or were absent. No row of the records is ever deleted, and what a transaction
saw of the time was never taken back, which is why an expiry by a lost vote may be
decided as of the earlier look.

**The order of locks.** `PlansInOrder`: key, scope, attempt, tool call, approval,
receipt, grant is the order of every operation but the publication. Who is waited for
and waits, waits for a later row (`WaitsForLater`). A call is deadlocked when it is in
every set of calls that is closed under waiting and under who it waits for itself;
stated so, the calls that wait for a later row, or for none, are such a set
without it, and no induction over paths is needed.

**Prepared actions.** `Agree` is what the records say of each other, `Follows` what
a step may do to them: a consumed grant stays consumed, a known outcome stays. One
lemma per operation shows both, so that the flow has only to add that a call about
to call the provider is alone, because a second consumption loses, and that it
finds no effect.

**The concierge.** `LockInv` holds while no lock was left by a killed launcher and
none was removed by a reset; under that condition a launcher past its `own` step is
the owner the lock names, and nobody takes a lock for stale. `KeyInv`,
`ProfileInv` and `GatewayInv` follow the runtime key, the unverified profile and the
container to the clause that cleans them up, with `StageInv` for the commands that
never come to it. `RemovalInv` finds the receipt that a removal is about to delete.
TLC found the need for the exemption in `ClientIsOwned` with three commands: the
unlink at `first-run.mjs:3846` is not conditional on the client that was checked.

**Policy evaluation.** `SearchInv` is the loop's invariant: every rule passed over
does not match. With it, and with the patterns of a policy being distinct
(`RulesInv`), the first wildcard found is the one the quantified `Said` names, for
lists of any length. `RecordInv` says that submission, vote and dispatch evaluate
the same facts for an input nobody edited.

**The chain.** `ChainVerifies` is about listings, and a step appends after a head
that was read from a listing earlier. `ChainInv` states the chain over the order
of insertion: every event links to the one before, is later than it, and a head
that was read is still the last event. `ListedAsInserted` shows that under it
both orders of listing are the order of insertion, hence `list(1)` answers with
the last event (`NewestIsLast`), hence the next event extends the chain
(`StoreChains`), and a verification finds for each event the predecessor it
links to.

**The ledger.** `MigratedOnceInOrder` is proved without any exclusion by the lock
file, because there is none: two processes that reclaim one stale lock both
migrate. `LedgerInv` says instead that the ledger is a prefix of the known
migrations, that a process that migrates is never more than one behind its end,
and that one that releases the lock or serves found the ledger complete. A
process that is behind inserts a version that is there already, which the
ledger's key refuses; one that is at the end appends exactly the next version.

**The cards.** `ReturnedIsServed` is about calls that returned; `CoverInv` says of
those that did not where their cards are. `ToCome` is what the passes of the batch
that have not begun will take up: what a joined call waits for is among it, and
what a late call waits for is in the work it will ask for again. Merging work
loses nothing (`MergeCovers`), a pass that begins moves its cards from `ToCome` to
the served ones, and a batch ends only when nothing is left to come.

**The closing of cards.** `CardInv` adds to it where an open card is (`SentInv`:
stored, or with the call that sent it) and who will close it once the approval is
decided (`ClosingInv`: a pass to come has it, or a call is on its way to ask for the
stored cards). A decision that overtakes a send meets the second case through the
re-read after the delivery is stored. `JoinAsks` shows that a request that joins a
batch loses no card that was asked for, and that its own are asked for from then on.

**The runners.** `WinnerInv` names the call that consumed: it goes on to the tool,
or has called it, or has reported that it will not. There is one such call, because
a second consumption is refused, and it either calls the tool or reports a
cancellation, which is why a cancelled attempt has no call of the tool behind it.
`ReportInv` follows the reports on their way: a known outcome travels only from a
call whose tool answered so, and a call that waits for such a report to be taken
is given the result only if the server's record agrees with it.

**The keys.** `WithdrawnKeysLapse` speaks of decisions; `KeysInv` adds where the key
they trust came from. A fetch began before its answer was withdrawn (`FetchInv`)
and ends within its timeout, so the cached key is older than its withdrawal by a
fetch at most (`CacheInv`), and it is used before the life of the cache is over.

The properties proved are the formulas that the runs check. The invariants of the
gate (`OwnershipInv` to `PromiseInv`, and `ForgottenInv`), of the concierge (with up to four commands),
of the Postgres store (with two calls), of the runners, the audit chain, migrations,
presentation and keys were checked by TLC before they were proved; those of the
SQLite store, of prepared actions, of cards and of policy evaluation were proved
directly. They are not repeated in the runs.

Only model-checked, and why:

* Everything about fairness (`UpdatesReturn`, `RecoversAfterFault`, `LockIsFreed`
  and the liveness of the gate): liveness and `ENABLED` are beyond the prover.

The three refinements (`ImplementsOneShot`, `PostgresKeepsPromise`,
`SqliteKeepsPromise`) are about safety: the promises state no fairness of their own.

## 5. What is not modelled

* `reviseApproval` and the superseded status, and the coordinator of native
  dispatches: their implementation is an extension that is not in this
  repository, and the configurations it ships never take those branches. Forced
  approvals enter `PolicyEvaluation` only.
* In the gate: approval notifications, telemetry and best-effort audit writes,
  whose failures are swallowed. `ApprovalCards` has the notifications, but no
  Slack or email messages, no recipients and no crash of the server. Audit writes
  that are not swallowed are faults (`Abort`).
* Unkeyed submissions: they create a tool call of their own, hence another
  action. Unscoped runners report without metadata of a model-visible delivery.
* Formatting, parsing, hashing, redaction, HTTP and MCP transport.
* The gate over several steps per store operation: the flows take each atomic
  operation as one step, which the two refinements of `ActionStore` justify for
  the operations of `StoreRecords`. Plain reads and writes of single rows,
  workspaces, API keys, observed tools and remediations are left out there.
* The Postgres advisory lock of the migrations, the SQL of the migrations, and the
  local-dev snapshot file.
* The other conditions of a policy rule (currency, domains, recipients, environment),
  which only narrow a match as the amount does; approver resolution; presets.
* The approver directory, API keys, scopes and the claims of tokens, MCP sessions and the MCP
  route, observed tools and policy detection, remediation, integration
  configuration, dashboards, the web application, release scripts and examples.
  `PROJECT.json` gives the reason for each: they hold no protocol state of an
  action, or are sequential programs over files and formats.

## 6. Plan

Done, in this order: records, approval flow, execution flow, composition,
abstract promise, liveness, types, the two invariants, audit chain; stores and
their refinement, prepared actions, policy evaluation, runners, First Run,
migrations, presentation, cards, signing keys; the proofs about runners,
migrations, presentation and keys; those about ownership, evidence, authority,
dispatch and the promise of the gate, the refinements and the locks of both stores,
prepared actions, the concierge, policy evaluation and cards; that without a fault
nothing is forgotten; that the compositions are their components.

Next, most important first:

1. Approver directory: whole-record writes from stale reads by connect, disable
   and delete, and the uniqueness of identities over them.
2. API keys and MCP sessions: rotation, revocation and expiry against requests
   that were authenticated before.
3. A `PolicyEvaluation` inside `ActionGate` in place of its table of rules.
