# Agent007: a verification project

Models in TLA+ of the parts of Agent007 that keep durable state while several requests,
scheduled jobs and people work on it at once: payments and their books, revenue actions,
the mission pipeline with its retries, the mission supervisor, and the turns of a
conversation with the CEO agent. They are checked with TLC on small instances, and every
safety property that the passing runs check is proved with TLAPS for every value of the
constants. Paths begin at `src/`, the directory that holds the repository; files named
without a path are in `src/src/lib/`.

## 1. The system

Agent007 is a Next.js application with a PostgreSQL database (Prisma) and no memory of
its own between requests: every route handler is a sequence of independent database
and provider calls, several instances of it run at once, and a request can die between
any two calls. Most rows that matter are JSON values that are read, changed and written
back whole. That is the source of most of what is hard here.

| Component | State it keeps | Operations | What makes it correct |
| --- | --- | --- | --- |
| Stripe webhook (`src/src/app/api/webhooks/stripe/route.ts`, `stripe-webhook-integrity.ts`, `revenue-integrity.ts`, `stripe-customer-resolution.ts`, `business-outcome-integrity.ts`, `transaction-evidence-integrity.ts`) | `Transaction`, `IncomeEntry`, `Customer`, verified outcomes (`Memory` rows) | `checkout.session.completed`, `payment_intent.succeeded`, `charge.refunded`, each a dozen calls | a payment is booked exactly once, a refund is final and booked, evidence stands on a real payment |
| Purchase fulfilment (`product-fulfillment.ts`, `email.ts`) | download tokens, the fulfilment mark in `Transaction.rawPayload`, the milestone log | issue token, send mail, mark, announce | a fulfilled purchase stays so and is served once |
| Database integrity tool (`self-repair.ts`) | none of its own | find and delete "invalid" rows | deletes nothing another component derives |
| Revenue action queue (`revenue-execution.ts`, `revenue-executors.ts`, `revenue-execution-guard.ts`) | `PendingManageAction`, `AuditLog` | prepare, approve, execute | no effect without approval, at most one effect per action, a lifecycle that ends |
| Revenue approval boundary (`revenue-approval.ts`) | the same two tables | prepare, approve, claim, complete, cancel, each one database transaction | the same, next to the other route |
| Mission pipeline (`mission-pipeline.ts`, `mission-heartbeat.ts`, `mission-pipeline-recovery.ts`, `src/src/app/api/missions/`) | the mission's approval log and its heartbeat, two `UserSetting` rows | run, pause for the owner, approve and resume, reject, sweep and retry | the owner's gate holds, stages run in order and approved ones once, retries end |
| Approval and milestone log (`approval-audit-log.ts`) | one JSON value | append, read back | no entry lost that anything relies on |
| Autonomy manager (`autonomy/autonomy-manager.ts`) | leases (`Memory` rows), policy state | acquire, confirm, release, sweep, run | one holder of a lease |
| Mission supervisor (`mission-supervisor.ts`, `active-missions-db.ts`, `active-missions.ts`, `src/src/app/api/mission-active/`) | a mission as one JSON value, the supervisor's state of it, the artifact ledger | cycle: inspect, advance, run a leader, replan, escalate; requests: advance, approve, set and verify an artifact, message | nothing completes without its owner and its artifacts; a stalled mission is heard of, leaders are stopped |
| Conversation turns (`src/src/app/api/agent/route.ts`, `ceo-response-persistence.ts`) | `Conversation.revision`, `Message` with its turn marker, the audit log of superseded answers | accept, prepare, answer, audit, close | a message is given one turn, clients are told the truth, markers say which turns were left unfinished |
| CEO research objectives (`ceo-research-objective.ts`) | the objectives of a conversation | establish, continue, supersede, under an advisory lock | one is active; it keeps what it is about |
| Scheduler tick (`src/src/app/api/schedules/tick/route.ts`) | `Schedule`, the turns of scheduled conversations | run what is due | a due schedule runs once |
| Revenue reconciliation (`revenue-reconciliation.ts`) | `PendingManageAction.result` | match done outreach with succeeded transactions | verified revenue has a real transaction |
| Billing lifecycle (`billing-lifecycle.ts`) | `Invoice`, `Subscription` | settle, cancel, past due, activate | one transaction settles one invoice |
| Proof ledger (`proof-ledger.ts`) | receipts and versioned evidence ledgers | append a version, read back | versions form a chain |
| Provider runtime (`provider-runtime-v2.ts`, `provider-intelligence.ts`, `provider-standing.ts`) | per-provider health in process memory | choose, call, record | a failing provider is left alone and comes back |
| Autonomous mission state machine (`autonomy/mission-state.ts`) | none | a table of transitions | nobody stores its states |
| Owner authentication and approvals (`owner-auth.ts`, `user-approval.ts`, `rate-limiter.ts`) | users, approval requests, counters | request, approve, deny | only approved users enter |
| Checkout, download delivery | none | create a session; serve a file for a token | inputs and consumers of the webhook |
| Backups, orchestrator and tools, user interface | files, prompts, React state | I/O and text | not within reach of these methods |

How they interact:

- Stripe calls the webhook, at least once per event and in no order; the webhook calls
  fulfilment, which calls mail providers. The repair tool deletes income entries behind
  the webhook's back.
- The two revenue routes share `PendingManageAction`; the operator and the UI call
  either. Executors call SMTP and Stripe, and a checkout they create comes back as a
  webhook event.
- A mission of the pipeline is run by the operator, resumed in the background by the
  approve route, and retried by the sweep of the scheduler. Only the sweep takes the
  lease; the other two work on the same log and heartbeat without one.
- The supervisor's cycle lists missions first and saves what it listed minutes later,
  while requests to `/api/mission-active` read, change and save the same row.
- Requests to `/api/agent` and scheduled runs take turns of conversations from one
  counter each; the newest turn decides whose answer may be stored.

Nothing but the database connects them. The hard behaviours, each at its line, are the
`hazards` of `PROJECT.json`.

## 2. The modules

| Module | Models |
| --- | --- |
| `StripeWebhook` | the webhook, with the parts of fulfilment and of the repair tool that touch its tables |
| `DerivedLedger` | the abstract promise to the books: an entry comes after its payment, once per reference, and stays; instantiated with all entries (`Books`) and with those of sales (`SalesBooks`) |
| `RevenueQueue` | both revenue routes on one table, the executors, failures |
| `RevenueLifecycle` | the abstract lifecycle of an action: `TRANSITIONS` of `revenue-execution-guard.ts` |
| `MissionPipeline` | one mission: runs, decisions of the owner, the lease and the sweep, on its log and heartbeat |
| `StagedDelivery` | the abstract promise of a pipeline mission: stages deliver in order, the CEO's with the owner's consent, the report after it |
| `MissionSupervisor` | one durable mission: the supervisor's cycle and the requests |
| `MissionChain` | the abstract chain of a durable mission: one verified stage after the other, the owner's last, `COMPLETED` for good |
| `ConversationTurns` | one conversation: messages, scheduled runs, its research objective |
| `ObjectiveHistory` | the abstract history of research objectives: one active, it gains tickers, the next supersedes it, the superseded stay as they are |
| `MCStripeWebhook`, `MCRevenueQueue`, `MCMissionPipeline`, `MCConversationTurns` | sets of events and symmetries of the runs |
| `StripeWebhookProofs`, `RevenueQueueProofs`, `MissionPipelineProofs`, `MissionSupervisorProofs`, `ConversationTurnsProofs` | the theorems |

Each handler, run or cycle is a program counter with the copies it has read; every
action is one call to the database or to a provider, so they interleave exactly where
the code awaits. Operators whose comment begins with "mutant" are not part of a model:
each is the definition that follows with a plausible slip in it, kept to show that a run
would notice.

### StripeWebhook

| Code | Actions |
| --- | --- |
| delivery, early answers | `Receive` (`Ignored`: 2xx at once; a paid checkout without an owner: 422, no change) |
| `resolveStripeCustomer` (one transaction under an advisory lock) | `ResolveCustomer` |
| `findUnique` + `assertStripeReplayCompatible` | `FindTransaction` |
| `create` / `update` from the copy | `WriteTransaction` (`NewRow`, `UpdatedRow`, `NextState`) |
| `recordVerifiedTransactionOutcome` | `VerifyTransaction`, `RecordOutcome` |
| `ensureIncomeEntry` (one transaction under an advisory lock) | `EnsureSaleEntry`, `EnsureRefundEntry` (`WithEntry`) |
| `fulfillPurchase` | `IssueToken`, `SendFulfillmentEmail` |
| `persistFulfillmentState` | `PersistFulfillment` |
| `charge.refunded` | `FindRefunded`, `VerifyRefund`, `RecordRefundOutcome`, `MarkRefunded`, `EnsureRefundEntry` |
| `catch` of `POST`, death of the process | `Throw`, `Fail`; `FailPersist` for the inner `catch` |
| repair tool in fix mode | `RepairIncome` |

`UpdatedRow` deserves care: the code computes the new status and payload from the row it
read earlier, but fills in customer and venture only where they were missing then. The
model does the same, from `copy` and not from `tx`. The assertion before it is given the
row's own customer and venture by the caller, so only owner and amount can differ; that
is what `FindTransaction` compares.

Abstractions: a payload is its fulfilment mark; currency is one; the user named in the
metadata exists (an unknown one is a 422 with no change); experiment attribution is not
in the inputs; the milestone log of fulfilment changes nothing here. A refund's entry
carries the amount refunded as a positive number under `ref = "refund"`. `nth` numbers
the rows with one reference, so that a duplicate would be visible in a set.

### RevenueQueue

An operation of `/api/revenue-execution` is a request with a program counter, because it
is a sequence of calls; an operation of `/api/revenue-approval` is one action, because it
is one database transaction, except `prepare`, whose advisory lock is worth seeing
(`PrepareLocked`, `FindLocked`, `CreateLocked`). `CallExecutor` stands for both
executors: it returns after the effect, throws without it, or throws although the
provider performed it. A checkout prepared by the approval route carries no `userId` and
is refused before Stripe is called (`revenue-executors.ts` 132-133). `Fail` is a death or
an error outside any `try`; `CatchFailure` is a database error inside the `try` of
`executeApprovedRevenueExecution`, which lands in its `catch`. Validation of requests,
payload limits and the text of results are left out; the operator is one user, because
every query is scoped to it.

### MissionPipeline

| Code | Actions |
| --- | --- |
| `POST /api/missions/run` | `Start` |
| `POST /api/missions/[id]/approve` | `OwnerApproves`, `OwnerRejects`, then `RejectLoad`, or `Resume` (`resumeMissionPipeline`) |
| `sweepMissionPipelineAutoRetries`, `isMissionDueForAutoRetry` | `Sweep`, `Due` |
| `acquireMissionExecutionLease`, `releaseMissionExecutionLease` | `LeaseRead`, `LeaseWrite`, `LeaseConfirm`, `ReleaseRead`, `ReleaseDelete`, `Expire` |
| `runMissionPipeline`: start | `LoadPrior`, `SaveInitial`, `Snapshot` |
| the owner's gate | `GateApproval`, `GateRejection`, `Pause` |
| `logApprovalEvent` | `AppendRead`, `AppendWrite` |
| `runTeamWithVerificationLoop`, the CEO's stage | `Leader`, `Ceo` |
| `buildHeartbeatFromAuditLog`, `saveHeartbeat` | `Build` (`Derived`, `Current`, `StageStatus`), `SaveStage` |
| the report and the end of a run | `Report` |
| a crashed stage | `FailLoad`, `SaveLast` |
| the platform kills the invocation | `Die` |

The log is a set of pairs of an action and a stage, because all its readers ask whether
an entry is there. The rounds of a stage are one step with their outcome: approved,
escalated, or crashed. The statuses idle, working, errored and stuck are one, "working":
nothing tells them apart. Timers (the backoff of a retry, the expiry of a lease) run out
at any time. A database call may fail (`MaxErrors`); each caller here swallows the error
and goes on with an empty log or no heartbeat, and so does the model. `consent`,
`decision`, `finished`, `reports`, `retries` and `served` record what happened, for the
properties; no guard reads them.

### MissionSupervisor

`internalCycle` is `List`, `Inspect` (`Decision` is `inspectMission` with
`evaluateFailurePolicy`), then one of `Advance`, `Postpone`, `NotReady`, `Delegate`,
`Replan`, `Escalate`; a leader's run is `LeaderFails`, `LeaderUnverified` or
`LeaderVerified`, followed by `ReplanFailed`, `SaveMission`; and `Write` stores the
supervisor's state. What is saved is `snap`, the mission as it was listed. `Abandon` is a
mission that was listed and whose turn does not come: its lease is not had, or the cycle
ends first, because the row of the mission index matches the same prefix, is hydrated to
a mission without an id and makes the call for its lease throw outside the `try`. Nothing
makes a cycle `List` the mission either: it takes the first five of all rows, in no
order. A `verify-artifact` request that names another venture finds no such artifact and
takes a verified one back to unverified (`AnswerVerify`). A request is
`Ask` (read) and an `Answer...` (change and save). Which leader has the stage, whether it
is ready and whether a replacement is found are facts about agents and vary freely.
Texts, control events and database errors are left out.

One cycle runs at a time. The code keeps cycles apart by a manager's lease and a lease
per mission, both of which expire after minutes; a cycle that outlasts them could overlap
with the next one. The lease as such is in `MissionPipeline`.

### ConversationTurns

| Code | Actions |
| --- | --- |
| `POST /api/agent`: the conversation | `Find`, `Create`, `Load` |
| the turn and the user message (one transaction) | `Accept`, `AcceptFails`, `AcceptUnheard` (it commits and its outcome is lost); `AcceptScheduled` of a scheduled run |
| the client goes away early: the marker is closed, then the request is answered | `CancelEarly`, `TellCancelled` |
| what the message asks of the objective | `Prepare` |
| `ensureResearchObjective` (one transaction under an advisory lock) | `Lock`, `ReadActive`, `Continue`, `Establish`, `EnsureFails` |
| evidence gathered without a `catch` | `GatherThrows` |
| `persistCeoAssistantMessage` (one transaction at READ COMMITTED) | `Check`, `Insert`, `InsertUnheard`, `AnswerFails` |
| `recordSupersededCeoResponse` | `Audit` |
| the stream's `finally` | `Close` |
| the platform kills the handler | `Die` |

A statement of a transaction that takes no lock is an action of its own, because at READ
COMMITTED others commit between two of them. What is written in messages and answers is
left out but for the tickers of an objective; so are deleted conversations. Whether a
message is about shares, which it names and whether it continues the objective vary
freely. An objective keeps `MaxTickers` tickers, those it has first (`Unique`). "error" in
`told` is the stream's error event and any other status that is no success. `Done` is the
stuttering of a conversation with nothing left to do.

## 3. Runs

Passing runs:

| Run | Instance | Shows |
| --- | --- | --- |
| `StripeSerial` | one payment as the application's own checkout sends it (the intent names no owner), its refund, one request at a time, 2 failures, 1 repair | when requests do not overlap: one booking, one fulfilment, a final refund backed by the status |
| `StripeConcurrent` | checkout and intent both name the owner, one carries the venture, a refund; 2 requests, 1 failure | under every interleaving: what was answered is booked, evidence is scoped, identity is stable, `DerivedLedger` is implemented |
| `StripeLive` | a payment without a venture and its refund, in order; 2 requests, 1 failure; fairness | the payment and its refund are booked in the end |
| `QueueSafety` | 2 rows, 1 key, 2 requests, the operator claims and completes too, 2 failures | exclusive claims, one effect per action, effects only after approval, no duplicate under the lock |
| `QueueLifecycle` | the same without failures and without the operator's claim and complete; a checkout, which may be refused; fairness | `TRANSITIONS` is followed, approvals are audited, a claimed action settles |
| `PipelineSerial` | one invocation at a time, 2 team stages and the CEO's, escalations, 2 retries, 3 requests, 1 kill; fairness | approved stages are kept, retries stay in their budget and end, completion means the CEO's stage, an approved mission reports or fails for good |
| `PipelineConcurrent` | 2 invocations, 1 team stage, 1 retry, 2 requests, 1 database error | the owner's gate holds and `StagedDelivery` is implemented although log entries get lost and errors are swallowed |
| `Supervisor` | 2 stages with artifacts, 1 request, thresholds 2 and 3, 1 kill; fairness | owner and artifacts stand behind every stage, leaders are stopped, a mission that cycles reach again and again does not stall unheard |
| `Turns` | 3 messages (with or without one request id), 2 scheduled runs, 3 tickers of which an objective keeps 2, 1 kill; 6.5 million states | a message is given one turn, clients are told the truth, the objectives are an `ObjectiveHistory`, markers say which turns were left unfinished |

Runs that find a violation; the findings in `PROJECT.json` quote what the repository says:

| Run | What TLC finds |
| --- | --- |
| `StripeRefundUndone` | a success event that read the row before a refund writes `succeeded` over `refunded` |
| `PipelineRerunTwice` | two sweeps list the same due mission; the second takes the lease when the first has released it and re-runs the mission for the same failure |
| `TurnsStaleAnswer` | a newer turn is accepted between the check of the revision and the write of the answer |

**Borders.** The positive statements hold exactly as far as their instances say, and the
code is beyond them in places:

- `RefundIsFinal` fails exactly when a refund is marked between a sale's read of the row
  and its write, and `FulfilledOnce` when a fulfilment is recorded while another request
  of the payment acts on its copy: two deliveries of one checkout both find it
  unfulfilled, and both issue and mail. Section 4 has the theorems; the run shows the
  case without any overlap.
- `SaleBookedOnce` needs that only one of a payment's two success events names the
  owner, as with the application's own checkout. If both do, each books the payment under
  one reference with different notes.
- `RefundedEventuallyBooked` is for payments without a venture. For a venture's payment a
  death between "refunded" and its entry is final: every redelivery is refused by the
  outcome check, because the payment is refunded.
- `AnsweredRefundIsBooked` and the refinement of `DerivedLedger` need `MaxRepairs = 0`: the
  repair tool deletes every entry whose amount is not positive, those of refunds among
  them. What is booked of sales survives it.
- A fulfilment recorded as completed need not have been mailed: `email.ts` reports a
  failure in its result, which `fulfillPurchase` drops.
- `LockedPrepareOnce` is about the approval route; the execution route looks and creates
  under no lock, and two requests can prepare one idempotency key.
- `ImplementsLifecycle` needs that the audit entry after `done` does not fail (the `catch`
  would then record `failed` over `done`) and that the operator does not settle an action
  a request is executing (the outcome is written by id).
- `ApprovedStageNotRedone`, `RetryBudgetHolds`, `CompletedMeansCeo` and
  `OneRerunPerFailure` hold until two invocations overlap or a database call fails for the
  first time: an entry that is lost from the log is a stage that runs again.
- `RetriesEndUnlessEscalated`: with a stage that was escalated, every retry runs that
  stage again, its completion renews the budget, and a later stage that crashes each time
  is retried forever, against `mission-pipeline-recovery.ts:24`.
- `ReachedMissionIsHeard` presumes that cycles inspect the mission for ever and that their
  bound on leader runs is not always used up by missions before it. The code promises
  neither: `mission-supervisor.ts:218` takes five rows of an unordered list that keeps
  completed missions, a replan resets the count of the mission it serves, and the index's
  row ends the cycle for every mission behind it.
- `MarkersTruthful` allows an open marker where `ceo-response-persistence.ts:52` promises
  a closed one: a turn whose transaction committed while its client was told 503 stays
  open although nothing crashed, and so does one whose evidence gathering throws or whose
  marker could not be closed. A retry of that 503 with the same request id is told that it
  is a duplicate, and nobody runs the turn.
- In the supervisor a save of a mission listed earlier can take a mission back, even a
  completed one, which `architecture-control-plane.ts:194` does not allow. It takes a move
  of the mission while somebody else holds a copy; without such a move it walks
  `MissionChain`. No run checks that, because the run has such moves.

**Bounds.** `MaxFailures`, `MaxRepairs`, `MaxRequests`, `MaxErrors`, `MaxDeaths`, and
`Cap`, at which tokens, mails and effects stop counting (2 is enough to see "more than
one"; `StripeConcurrent` and `StripeLive` do not look at the counters and use 1).
`MaxAutoRetries`, `ReplanAt` and `EscalateAt` are constants of the code with smaller
values; `MaxTickers` is 8 there. One payment, mission or conversation is enough: no call
reads or writes another one's rows, and customers only grow; what other missions take
from a supervisor's cycle is in `Postpone`, `Abandon` and the fairness it does not have. Two requests are enough for every race listed, all
of which are between a read and a write of one other request; the third message of
`Turns` lets one objective be established, continued and superseded by different requests. Two team stages let
one be approved and the next crash. Deliveries of Stripe are not bounded: an event may
arrive any number of times, also after its answer.

**Deadlock** is checked in the webhook, the queue, the supervisor and the turns (whose
end is the step `Done`). The three `Pipeline` runs do not check it: when the operator's
requests are used up and no retry is due, a mission really has nothing left to do.

**Symmetry** is used in `QueueSafety`, `PipelineConcurrent` and `Turns`, for requests
(not for scheduled runs), rows, invocations and tickers, and never with a liveness property.

**Fairness.** `WF` on the calls of a request that was not interrupted: the Node process
runs it on.

- Webhook: also `SF` on the redelivery of each event without a 2xx: Stripe retries for
  days and requests do end. Nothing is assumed of the order of events (except under
  `InOrder`) or of duplicates.
- Pipeline: `WF` on `Sweep` and `Expire`: the scheduler sweeps every fifteen minutes, and
  leases have an expiry time.
- Supervisor: `WF` on the cycle's own steps only. That cycles reach the mission and leave
  a leader's run for it is presumed where it is needed, in `ReachedMissionIsHeard`.
- Nothing is assumed of failures, of the operator or of the owner. `Turns` has no
  fairness: clients may go away, and nothing else waits for a turn.

## 4. Proofs

Every safety property of the passing runs is proved for every value of the constants: any
number of requests, events, rows, stages, retries, failures and kills. Where a theorem
has a hypothesis beyond the assumptions of its module (constants have their kinds, the
"none" values are not among them; TLC evaluates them in every run), it is named below.

Where a property does not hold of every behaviour, the hypothesis is not a small instance
but the window the code leaves open, as steps that may not happen: `Spec /\ [][A]_vars =>
P`. Everything else may still overlap, fail and die, so such a theorem says that this
window is the only way to lose the property, and what a repair of the code would have to
close. A second theorem derives the hypothesis from the constants of the run that checks
the property (`SerialRefundsAndFulfilments`, `QuietLifecycle`, `QuietApprovalIsAudited`,
`AloneIsUndisturbed`).

**StripeWebhookProofs.** `IInv` says what a request works on at each label (`JobOK`), that
the payment it wrote is still there (`RecordedOK`), that the entry it wrote is still there
while it fulfils (`BookedOK`), that rows appear whole (`TableOK`) and that no entry is
ahead of its payment (`LedgerBacked`). From it:

- `TypeCorrect`, and `AnsweredSales`, which is not inductive on its own: an answer relies
  on what its request did some calls earlier. It holds with the repair tool too.
- `BooksRefinement` and `AnsweredRefunds`, if `MaxRepairs = 0`: every step either leaves
  the ledger alone and records at most one payment, or derives one entry (`LedgerStep`).
- `EvidenceScoped`: evidence is verified calls before it is recorded. `EvidenceInv` adds
  that customers on file stay so, what a request has resolved and compared, and that what
  was verified of a row survives every update by others.
- `IdentityKept`, if the sales of one payment that name a venture or an address name the
  same (`PartiesAgree`): `UpdatedRow` writes from a stale copy, and only what every
  possible writer would write is stable.
- `BookedOnce`, if only one kind of event announces a payment's sale (`OneNotice`), from
  `KeyedOK`: entries of sales are of events with an owner, one per reference.
- `SalesBooksRefinement`, for any number of repairs: the tool deletes no entry of a sale, so
  the entries of sales alone implement `DerivedLedger`.
- `PaymentFactsAlwaysFixed`: owner and amount of a payment are fixed, its venture and
  customer never cleared, also when its sales disagree.
- `RefundFinalOutsideWindow` and `RefundEntriesBacked`, if no refund is marked while a sale
  of its payment is between its read and its write (`RefundsApart`), from `RefundOK`: a sale
  about to write knows whether the payment is refunded.
- `FulfilledOnceOutsideWindow`, if no fulfilment is recorded while another request acts on
  its copy of the row (`MarksApart`), from `MarkOK`: what a request holds of the fulfilment is
  what the row says.
- `SerialRefundsAndFulfilments`: one request at a time closes both windows.

**RevenueQueueProofs.** `IInv` says that a row whose execution is owned has left `approved`
for good (`OwnedOK`), that there is no effect before the call (`NotYetOK`), and that the
lock of a key is held from the find to the commit (`LockOK`). It is what turns the
conditional update of one row into "one effect, whatever races or dies".

- `TypeCorrect`, `ClaimIsExclusive`, `EffectsAreApproved`, `EffectsAfterApproval`,
  `LockedPrepareIsOnce`: with the operator acting by hand.
- `RowsNeverUnclaimed`, whatever fails and whoever settles: a row keeps its key and door, only
  an approved one is claimed, no claimed one is ever approved or claimed again, and a
  cancelled one stays cancelled. It is `OwnedOK` that confines the writes by id.
- `LifecycleRefinement`, if no error strikes between recording an action done and its audit
  entry and nobody completes by hand what a request is executing (`OutcomesApart`), from
  `ExecutingOK`: nobody else moves a row that is executed. Requests may die, errors may land
  in the `catch` before the outcome is recorded, the operator may claim and complete.
- `ApprovalIsAudited`, if no request dies between an approval and its audit entry
  (`ApprovalsLogged`).
- `QuietLifecycle`, `QuietApprovalIsAudited`: without failures, and for the first without an
  operator who settles, the hypotheses hold.

**MissionPipelineProofs.** The log loses entries, so nothing can be said about what it
holds; `IInv` says that it holds nothing false (`StoreOK`: an approval in it was given, a
stage it calls approved has delivered), that what an invocation has read from it or is to
add is no less true (`ReadOK`), and what an invocation has to know at the stages and at
the gate (`StageOK`, `GateOK`, `OrderOK`).

- `TypeCorrect`, `CeoAfterConsentAlways`, `StagesInOrderAlways`, `DeliveryRefinement`: for any
  number of invocations, errors and kills. The refinement rests on `StageOK` and `OrderOK`
  for the stages, `GateOK` for the consent and `ReportOK` for the report: who is about to
  report has seen the last stage delivered.
- `ApprovedNotRedone`, `BudgetKept`, `CompletedHadCeo`, `OneRerun`, as long as no two
  invocations have been under way at once and no database call has failed (`Undisturbed`,
  a predicate of states): then nothing is lost from the log, and `AloneInv` can say what it
  does hold (`LogOK`, `DoneOK`), how retries and the stored count go together (`BudgetOK`),
  and that a served failure is no longer due (`ServedOK`).
- `AloneIsUndisturbed`: one worker and no errors are enough for that.

**MissionSupervisorProofs.** The inductive invariant follows the artifacts through every
copy of the mission, the stored one, the cycle's and those of requests: whichever is saved
last, its stages have their evidence (`Evidence`), what the cycle is to advance has been
checked (`Checked`), and runs of leaders are counted (`Counted`). It gives `TypeCorrect`,
`CompletedByOwnerAlways`, `StagesBackedAlways`, `AttemptBudgetAlways`.

`ChainRefinement`: the mission implements `MissionChain`, if nobody moves it on while the
cycle or another request is between reading and saving it (`MovesApart`), from `Fresh`:
every copy that may still be saved is of the stage the mission is at. Overlaps that move
nothing (messages, artifacts, delegations, runs of leaders, replans, deaths) are allowed.

**ConversationTurnsProofs.** The invariant says how turns and messages go together
(`TurnInv`), what was stored before a client was told (`ReplyInv`), and that what the
holder of the lock has read is still the active objective (`LockInv`). It gives
`TypeCorrect`, `RetryNotRunAgainAlways`, `RepliesTruthfulAlways`, `OneActiveObjectiveAlways`,
`MarkersTruthfulAlways` and `TickersKeptAlways`.

- `ObjectivesRefinement`, for any number of handlers, lock time-outs and kills: the
  objectives implement `ObjectiveHistory`. It rests on `LockInv`, and `WantOK` adds that a
  handler that is to write an objective has tickers to write. `UniqueBounds` says what the
  cap on tickers keeps: all that the objective had.
- `CurrentAnswerWhenHeld`: `CurrentAnswerOnly`, which `TurnsStaleAnswer` refutes, holds if no
  turn is accepted between the check of the revision and the write of the answer
  (`HeldWhileInserting`); a lock on the conversation's row would give that.

**Only model-checked** are the liveness properties (`SaleEventuallyBooked`,
`RefundedEventuallyBooked`, `ClaimedEventuallySettles`, `ApprovedMissionReports`,
`RetriesEndUnlessEscalated`, `ReachedMissionIsHeard`): TLAPS has neither fairness nor
ENABLED. No module uses RECURSIVE. **Only proved**, because no run asks for it or the
run's behaviours leave the hypothesis, are `ChainRefinement`, `SalesBooksRefinement`,
`RowsNeverUnclaimed`, `PaymentFactsAlwaysFixed` and `CurrentAnswerWhenHeld`.

## 5. Not modelled

Within the modelled components: signature verification, configuration checks and rate
limits at the edges of routes; texts of notes, mails, prompts, reports and audit entries;
users other than the one a row belongs to; the limit of 200 entries of the approval log;
second refunds of one payment (the lookup of `EntryOf` ignores the amount, as the code
does, but the runs have one refund per payment).

Components as a whole:

- *Revenue reconciliation* matches free-form results of actions with transactions by
  correlation ids in their metadata. The queue's model keeps no results and the webhook's
  no metadata, and a model of its own would hold by its WHERE clauses.
- *Billing lifecycle*: no code of the repository calls it, so there is no system around it
  whose interleavings could be modelled.
- *Proof ledger*: it stands on two unique keys and one insert, and receipts are read back
  for reports only.
- *Provider runtime*: selection, cool-down and standing are per-process memory with
  wall-clock times; the answer of a provider is the outcome of one step in every model.
- *Autonomous mission state machine*: a table of transitions without a caller that stores
  its states.
- *Which schedules are due*: the update that moves a schedule's next run has no condition;
  a model could only restate that.
- *Download delivery* and *Checkout*: stateless; one lookup, one call to Stripe.
- *Owner authentication and approvals*: credential handling, left aside.
- *Backups, orchestrator and tools, user interface*: I/O, text and rendering. They are
  most of the repository's lines and hold none of the state the properties are about.

## 6. Plan

1. The version chain of evidence ledgers in `proof-ledger.ts`, next to the missions that
   write to it.
2. Supervisor cycles that outlast their lease and overlap.
3. Several conversations and schedules at once, with the update that moves a schedule.
4. Reconciliation composed with the queue's results and the webhook's metadata, once both
   carry correlation ids.
5. The four theorems on an undisturbed pipeline from the steps that lose a log entry or
   miss the heartbeat, instead of from the absence of every overlap and error.
