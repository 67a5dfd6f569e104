# Verification of AI-Revenue-Recover

TLA+ models of the revenue-recovery agent in `src/`, the TLC runs that check them
on small instances, and TLAPS proofs of what matters most for every value of
the constants. Paths below are relative to `src/apps/api/src/modules/` unless they
say otherwise.

## 1. The system

The API takes failing revenue (failed payments, overdue invoices, lapsed
subscriptions, abandoned checkouts) as *recovery cases*, asks an AI provider for one
action of a closed list, puts that action through a deterministic policy gate, and
runs one tool. Webhooks and simulated customers report the outcome. The process is
Node.js on PostgreSQL: every `await` of a database call is a point where another
request may run, several processes may share the database, and a handler that
throws or dies leaves behind what it has committed.

### Components

| component | state | operations | talks to | hard part |
|---|---|---|---|---|
| Policy engine `policy/` | none; reads case, counts, preferences | `evaluateCase`, `evaluate` | execute | rule order, rounding, counts other requests are about to change |
| Case actions and tools `cases/cases-actions`, `tools/` | `RecoveryCase.status`, `ContactAttempt`, `Payment`, timeline | `execute`, five tools, `finish` | gate, links, outbox | status read, then written in a later call; crash between the calls |
| AI diagnosis `ai/` | `AiDecision`, status | `diagnoseCase`, `diagnosePending` | provider | slow provider call between read and write; cases that fail stay in front |
| Verification `verification/` | status, recovered amount, payments, invoice | `simulateCustomer`, `verifyProviderPayment` | webhook, batch, promises | reads before the transaction |
| Voice calls `promises/voice` | status, promise | `simulateCall` | promises | unconditional escalation |
| Promises `promises/` | `PromiseToPay` | `recordPromise`, `sweep`, `settle` | execute, verification | overlapping sweeps, refreshes, exceptions half way |
| Email outbox `outbox/`, `email/` | `EmailOutbox`, `ContactAttempt.status` | `enqueueEmail`, `drain`, `dispatch` | Resend | lost answers, two dispatchers, crashes |
| Email webhooks `email/resend-webhook` | webhook ledger, contact status | `receive` | outbox's rows | repeated and reordered events |
| Payment links and webhook `payments/` | `PaymentLink`, webhook ledger | `createPaymentLink`, `receive` | verification | redelivery, two links, crash between ledger and case |
| Sequences `sequences/` | derived from the timeline | `runCase`, `sweep` | execute | deferral, fallbacks, pausing; a limit, and an exception that ends the sweep |
| Batch agent, jobs `agent/`, `jobs/` | what it has listed; a Redis queue | `runBatch`, `enqueueBatch`, maintenance timer | everything | works on an old list; starts again after a failure |
| Approvals `approvals/` | `ApprovalRequest` | `request`, `approve`, `reject` | execute | action runs before the verdict is written |
| Contact preferences `customers/` | `ContactPreference` | `setPreference` | gate | consent changes mid-flight |
| Event intake `events/` | `RevenueEvent`, new customers, source rows and cases | `receive` | - | racing duplicates, clashes of another unique key |
| Simulator `simulator/` | the same rows | `simulate*`, `runBatch` | - | no transaction, numbers by count |
| Mock provider `ai/mock-gemini` | none | `decide` | gate | agrees with the policy's own lists |
| Gemini provider `ai/gemini` | none | `diagnose` | Google | throws |
| Controllers, schemas, API key guard | none | validation, wiring | - | the guard of simulated verification |
| Front end `apps/web` | fields of the Test Lab | pages, buttons | API | forms that keep old answers |
| Seed, queries, analytics, operations | - | reads, demo data, redaction | - | - |

What makes each correct: the gate never lets a disputed invoice be pursued, a hard
failure be charged or a limit be passed by more than the requests in flight; no
terminal case is worked on; a retry is counted once; an email is delivered at most
once and, where background jobs are enabled, every queued one ends; a payment is
credited once and, while its case can be verified, booked; an event and an invoice make
one case; a missed promise never stays open and a kept one stays kept; an approval has a
call of the gate and its tool behind it; no active case is forgotten, none is starved by
the limit of a loop, and every queued batch ends.

`PROJECT.json` lists the hazards of the code by line, and the property that watches
each of them.

## 2. The modules

| module | models | composed from |
|---|---|---|
| `Recovery` | the enumerations and status groups of the code | - |
| `PolicyEngine` | the gate as pure operators: ordered rules, verdict, fallback, rounding, window | `Recovery` |
| `MockDiagnosis` | the mock provider's table, and its recommendation in front of the gate | `PolicyEngine` |
| `EventIntake` | how cases come into being: events in transactions, simulations without | - |
| `ContactPacing` | the gate's clock rules against a running clock | `PolicyEngine` |
| `CaseLifecycle` | requests that execute, diagnose, verify and call, any number at once | `PolicyEngine` |
| `Automation` | sequence steps, batch turns and approvals on top of those requests | `CaseLifecycle` |
| `Sweeps` | the loops over many cases: sequence sweep, pending diagnosis, bulk verification, batch agent, job queue | `PolicyEngine` |
| `Promises` | promises, sweeps and settlements | `PolicyEngine` |
| `EmailDelivery` | what an outbox promises (abstract) | - |
| `Outbox` | outbox rows, dispatchers, webhooks | refines `EmailDelivery` |
| `PaymentLinks` | links, Razorpay deliveries, the ledger | `Recovery` |
| `MC*` | symmetry and constant values of the runs | |
| `*_proofs` | theorems | the module they are about, `TLAPS` |

**Convention.** One action is one database call (or one transaction), with the reads
and decisions that follow it up to the next `await`. What a handler has read is kept
in its own record (`req`, `task`, `hook`, `job`), so it may be stale when used.
Statements commit one by one under Read Committed; the writes of
`simulateCustomer`, of a voice refusal, and of the outbox commit are single
transactions and single actions. Timeline and audit rows are left out, except
the `ACTION_EXECUTED` events other code counts (`retries` in `CaseLifecycle`, `done`
in `Automation`). Definitions named "Mutant of ..." are not part of a model; each
is a wrong form of the definition after it, used to show that a property notices.

**CaseLifecycle.** `BeginExecute`, `Evaluate`, `LoadCase`, `CreateLink`,
`CreateAttempt`, `CountPayments`, `ScheduleRetry`, `FinishLoad`, `FinishUpdate`,
`FinishRecord` are `execute` and the tools; `BeginDiagnose`, `SaveDecision`, `Advance`
are `diagnoseCase`, whose `may` is the status check made before the provider call;
`BeginVerify`, `FindPending`, `Settle`, `AttemptFailed` are `simulateCustomer` (also
behind the webhook and the batch agent); `BeginVoice`, `Refuse`, `RecordPromise`,
`UpsertPromise`, `MarkWaiting` are `simulateCall`. `Abort` is a handler that throws
or dies. Contacts are counted apart by whether the gate allowed them
(`cleared`) or they were the ungated fallback of a denied retry.

**Automation** adds a job to a handler: who it works for and which call comes next.
`RunCase` is the sequence's choice of a step from the timeline (`done`, `ripe`,
`pledged`); `Snapshot`, `CallDiagnose`, `CallExecute`, `ReadFresh`, `CallVerify` are the
body of `runBatch` on a case of its list; `Request`, `CreateForm`, `Review`,
`MarkReviewed` the approval queue. `Step` is any step of the call in progress,
taken unchanged from `CaseLifecycle`, and what its caller does when it returns.

**Sweeps** is about the loops themselves. `StartSweep`, `StartDiagnosing`, `StartVerifying`
and `ListBatch` read a list (`Selected`: what the query wants, in its order, up to
`Limit`); `RunCase` and `ExecuteStep`, `DiagnoseNext`, `VerifyNext`, and `BatchNext` to
`BatchVerify` take its turns, on snapshots that grow old meanwhile. A service a turn
calls is one step, whose outcome is any that the gate may give (`Verdicts`, taken from
`PolicyEngine`) or an exception: `Throws` when the case has ended or the payment
provider refuses a link, `DiagnosisThrows` as `GeminiProvider` does. What happens to the
loop then is the point: the sequence sweep ends, the others go on. `Simulate`,
`EndBatch`, `BatchThrows` are the rest of `runBatch`; `Enqueue`, `TakeJob`, `Failed`,
`BackOffEnds` and `Crash` the queue. `Automation` opens up the same calls for one case;
`Sweeps` closes them and has many cases.

**Promises** repeats the part of `execute` a sweep reaches, with dates (`due`),
`followUps`, `remindedAt` (`flagged`) and nights during which contacts are
deferred. A sweep is one handler per promise, started at any time after the list
was read.

**EventIntake** has one action per statement of `receive`'s transaction: what a
handler has written is derived from its stage (`HoldsEvent`, `HoldsCustomer`, `HoldsKey`)
and becomes a row at `Commit`, and another handler's insert of the same unique value
waits for that. `FindEvent` and `Answer` are the answer to a unique violation, of the
event or of its source row. `Simulate` to `OpenCase` are the simulator, each call
committed on its own. A key stands for a payment reference or an invoice number.

**Outbox** has one action per call of `dispatch` (`Claim`, `Send`, `Commit`, `Fail`) with
each way it can throw, and the webhook's `Report`, `CreateEvent`, `FindAttempt`,
`UpdateStatus`, `MarkProcessed`. `inbox` is the customer's mailbox behind Resend.

**PaymentLinks** follows one case with several links: tools that find the case active
(`BeginLink`, `BeginRetry`, and `BeginOther` for refusals, escalations, closures and
diagnoses), look for an open link and create one, or schedule a retry, and write the
status in a later call than they read it (`FinishLoad`, `FinishUpdate`), so that
`RECOVERED` may be overwritten; deliveries of one event per link from the ledger's read
to its mark; redeliveries; and deaths of either. `booked` is the recovered amount,
which no later status takes away; `credited` counts the events with the reference of a
link's payment.

## 3. The runs

All pass within five minutes on two workers.

| run | instance | shows |
|---|---|---|
| `pacing` | one execution at a time, whole days, ticks of 3 min | cooldown up to the rounding (a contact may be 3 minutes early); window up to one tick |
| `lifecycle` | 2 handlers on one case, both limits 1: retries, e-mails, outcomes, diagnosis, calls that promise or refuse; overdue, disputed or hard failure; in and out of the window | type invariant; every counted retry has a row of its own; a recovered case is settled; limits are passed by at most one; disputes and hard failures are respected; sealed cases stay |
| `automation` | 2 handlers, one may die, sequence + batch + reviewers + direct requests | an approved form has an execution that returned behind it; executions bounded by overlap; verdicts final |
| `automation_live` | 1 handler, default sequence, promises, no consent | every active case ends, is promised, or goes through its sequence |
| `sweeps` | 2 cases, 1 handler, 1 job with 2 attempts, sweeps and diagnoses of one case at a time, outside providers that may fail for good, 1 death | every active case ends behind no case that always throws; every pending case is diagnosed unless as many older ones as the limit fail; every job ends |
| `event_intake` | 2 handlers, an event about invoice 1 and one without a unique row, batches of up to 2, 1 fault | one case per event and source row; orphans bounded; every event answered unless its number is taken |
| `outbox` | 2 dispatchers, 2 webhook requests, 2 events, 1 fault, 3 attempts, background jobs | refinement of `EmailDelivery`, statuses backed, failures final, every email ends |
| `promises_safety` | 2 handlers, 2 recordings, 1 fault | reminders bounded, escalation after a reminder, kept stays kept |
| `promises_live` | 2 handlers, one promise, night or day, one more night, 1 fault | every missed promise ends |
| `payment_links` | 2 links, which may be open already, 1 tool or other handler, 2 deliveries, 1 retry, 1 death | answered means booked; a payment is credited once, and once per delivery that found the retry; a reported payment is booked while its case can be verified |
| `finish_downgrades` | violation | see findings |
| `outbox_durable` | violation | see findings |

**Why the bounds are enough.** The hazards are races of two handlers on one case (cases
share nothing but the clock, and each has its own customer, so one case suffices);
`lifecycle` follows a case up to three contacts and three payment rows (`FewRows`): with limits
of one, two handlers pass them by one, and a second too many would be the third row.
That the overshoot grows with the handlers, and no faster, is proved for any number.
A case with a promise is followed up to two rows. `MaxContactRows` and `MaxPaymentRows` only end the automation runs.
`sweeps` has two cases so that a limit of one leaves one out, in the sweep as in the
diagnosis: behind an older case that always fails the younger is never diagnosed, which
is the exception in the property, and without that exception TLC finds it. The younger
ranks higher, so that the batch takes them in the other order. Its sequence has one
contact before the escalation, and two attempts are the first and the last. With one
handler its loops overlap with what arrives, is paid and is handed over between their
turns, not with one another: no property of it is about two loops at once, and those of
`lifecycle`, `automation` and `promises_safety` are.
In `event_intake` the event's invoice has the first number a simulation counts to, so
that event and simulation clash, and one customer makes its upserts wait. In
`payment_links` two links may be open from the start, as two tools that race leave them;
one handler beside the webhook is enough to overwrite `RECOVERED`, and then TLC finds
three credits, the bound of `CreditedOnce`. The proofs have any number. One fault is
enough to leave any half-done handler behind; `MaxRecords = 2` is one refresh. The
outbox runs with 3 attempts instead of 5: first, middle and last. Limits of 1 make the
boundary the first thing that happens.

**Fairness.** Handlers that run go on (the event loop). The maintenance timer drains
every 60 s (`jobs/recovery-jobs.service.ts:32`), but only where `BACKGROUND_JOBS_ENABLED`
is `"true"` (lines 19-24; it is off by default, `README.md:161`): `Drain` is enabled under
the constant `BackgroundJobs` only, and `EveryEmailEnds` is claimed under it only.
In `PaymentLinks` webhook requests go on and Razorpay delivers again until it is
answered; tools need not finish. A sweep is called again and again by the API or a batch - nothing in the
code calls it by itself - and gets to each case or promise it lists: strong fairness
on its start, since the handlers may be busy in between. Clocks advance, cooldowns
pass. A provider of events sends each again until it has a receipt: strong fairness
per event, as the handlers may be busy. Nothing makes a customer pay, a provider accept, or an operator review.
`automation` takes it that a sweep reaches the case; `sweeps` shows when: the sweep and the
diagnosis are called again and again (nothing in the code calls them either), the queue
hands out what waits in it (BullMQ; strong fairness, since workers may be busy), back-offs
and waits end, and a step is not denied for ever: the gate defers a contact only while
waiting for the clock would let it pass (`DeferralHelps`, proved), so strong fairness per
case asks for one turn that is not deferred.
`automation_live` holds the window open, and `promises_live` lets night fall once more
after the first (`MaxNights`): at night sweeps only defer, and a day is much longer
than a sweep.

### Findings

* `finish_downgrades`: the comment on `ToolsService.finish`
  (`tools/simulated-tools.service.ts:203-207`) says it never downgrades a recovered
  case. It reads the status and writes it in a later call without a condition; a
  webhook between the two is overwritten. `SealedIsFinal` is what does hold.
* `outbox_durable`: `src/prisma/schema.prisma:373-374` says outbox rows survive a crash.
  A row claimed by a process that dies stays `PROCESSING`, which nothing selects.

### Other divergences met while modelling

They follow from the models (each is a reachable behaviour) and are described here
rather than run.

* The fallback link of a denied retry is not gated: it contacts without consent, at
  night and past the contact limit (`policy/policy-engine.service.ts:224-233`;
  `README.md:165-166`). Hence the split of `contacts`.
* A denial is not always escalated to a human (`cases/cases-actions.service.ts:31`).
* `diagnoseCase` writes `DIAGNOSED` on a status read before the provider call.
* A failure verified beside a success leaves the retry row `FAILED` on a recovered
  case.
* The batch agent settles live cases by a random number (`README.md:112-113` says
  only a signed webhook does). The verification endpoints ask for
  `ALLOW_SIMULATED_VERIFICATION` and the demo token
  (`verification/verification.controller.ts:51-67`), but `runBatch` calls the service
  behind them, and verification is on by default.
* Two overlapping deliveries of one Resend event both apply it; `AppliedBounded`
  states the bound that holds.
* A queued email is sent later without asking the gate again.
* Overlapping promise sweeps send a reminder each (`FollowUpsBounded`); a follow-up
  sent for an old date counts against a promise refreshed meanwhile; a refresh
  keeps `remindedAt`, so the new date has no early reminder.
* A `settle` that breaks the promise and dies before `execute` leaves an active case
  without a promise or an escalation.
* Overlapping deliveries of one payment settle a pending retry each, and a tool that
  overwrites `RECOVERED` (the first finding) lets a later delivery settle once more if the
  first died before its mark (`CreditedOnce` bounds all of them). The same overwriting
  leaves a processed event beside a case that is waiting again: what `AnsweredIsCredited`
  promises is the recovered amount, not the status.
* A tool that dies between its email and the status leaves the case `DIAGNOSED`, and so
  does a diagnosis that writes late; the payment of the emailed link is then refused at
  every redelivery, as only waiting cases can be verified
  (`verification/verification.service.ts:66`), until something else moves the case on. On
  an escalated or closed case it is refused for ever. `PaidIsCredited` therefore asks for a
  case that stays verifiable. The payment of a second link leaves no row of its own.
* `approve` marks the request `APPROVED` whatever the gate made of its action
  (`approvals/approvals.service.ts:41-45`): an approved action may have been denied and
  replaced by its fallback or by nothing.
* Without background jobs nothing drains the outbox: an email whose first request is
  rejected stays `FAILED` with attempts left and a back-off nobody waits for
  (`outbox/outbox.service.ts:48-53`; the only caller of `drain` is
  `jobs/recovery-jobs.service.ts:55`).
* A configured sequence may contain a retry (`src/packages/shared/src/sequences.ts:6`). Past
  the retry limit its fallback link runs at every sweep and never completes the step
  (`sequences/sequences.service.ts:156-165`), so the steps after it are not reached.
* Two sweeps that race on one sequence step both run it, and the second event
  completes the next step when its tool is the same.
* A second event about an invoice number or payment reference that has a row is not a
  duplicate to `receive`: the violation is thrown (`events/events.service.ts:60-64`), and
  the provider's redeliveries fail for ever. `EveryEventIsTaken` excepts just that.
* The simulator takes invoice numbers by count: a clash ends the batch, and a death
  between its two calls leaves an invoice or payment without a case.
* `sequences/sequences.service.ts:138-147`: the exception of one turn ends the sweep, so a
  case for which a link can never be made keeps every younger one from its sequence:
  hence the exception in `EveryCaseEnds`. Cases that wait use up the limit as well, but
  each ends in time.
* `diagnosePending` takes the oldest first and a failed diagnosis leaves the case where it
  is: as many hopeless cases as the limit block all later ones (`EveryCaseIsDiagnosed`).
* A batch that is run again creates the cases it simulates again.
* `statsSummary` says its sum is over all cases that are not recovered
  (`cases/cases.service.ts:53`); it leaves out those closed as lost.
* The Test Lab (`src/apps/web/src/app/test-lab.tsx:40-45`) takes the case and customer of the
  latest answer to be those of the created case whenever there is one: after creating a
  case, "Load Case" on another shows its message but puts the created case and customer
  back into the form, and the consent goes to the wrong customer (`README.md:201-202` says
  it loads the correct one).
* The prompt wants low recoverability escalated (`ai/gemini-prompt.ts:44`); the mock
  answers a small cart and a reliable payer's failed authentication with an e-mail or
  a link (`ai/mock-gemini.provider.ts:73`, `97`).
* An approval that overlaps a rejection runs the action and the later write wins.

## 4. The proofs

| theorem | module | statement |
|---|---|---|
| `DisputeStops` | `CaseLifecycle_proofs` | whatever is asked, on a disputed invoice only an exempt action is executed |
| `DeferralHelps` | `CaseLifecycle_proofs` | a denied contact is deferred iff waiting would let it pass, else escalated |
| `MockChargesAreRetryable` | `CaseLifecycle_proofs` | a charge the mock recommends is denied by a dispute or the retry limit only |
| `MockAsksForMethod` | `CaseLifecycle_proofs` | a failed payment that needs a new method is neither charged nor sent a plain link |
| `IntakeTyped` | `EventIntake_proofs` | `Spec => []TypeOK` |
| `EventsMakeOneCase`, `SourcesHaveOneCase` | `EventIntake_proofs` | one case per event, one per invoice or payment |
| `FewOrphans` | `EventIntake_proofs` | source rows without a case are being worked on or cost a death each |
| `TypeCorrect` | `CaseLifecycle_proofs` | `Spec => []TypeOK` |
| `SealedFinal` | `CaseLifecycle_proofs` | `Spec => SealedIsFinal` |
| `RetryOvershoot`, `ContactOvershoot` | `CaseLifecycle_proofs` | the limits up to the handlers in flight |
| `DisputeIsRespected`, `HardFailureIsRespected` | `CaseLifecycle_proofs` | the two prohibitions |
| `RetriesOwnTheirRows`, `RecoveredCasesAreSettled` | `CaseLifecycle_proofs` | a payment row per retry; what a recovered case has |
| `AutoTypeCorrect` | `Automation_proofs` | `AutoSpec => []AutoTypeOK` |
| `AutomationAsRequests`, `AutomationIsBounded` | `Automation_proofs` | `AutoSpec => Spec`, and with it all of the above |
| `ApprovalStandsForExecution`, `VerdictIsFinal` | `Automation_proofs` | an approval is marked only once `execute` has returned; a verdict stays |
| `RunsAreBounded` | `Automation_proofs` | the action of a request is executed once per handler and death at most |
| `DeliveryHolds`, `OneHolderHolds` | `Outbox_proofs` | delivery invariant, one holder |
| `Refinement` | `Outbox_proofs` | `Spec => Delivery!Spec` |
| `OutboxTyped`, `StatusesAreBacked` | `Outbox_proofs` | types; a contact row claims no more than the customer got |
| `FailuresAreFinal`, `AppliedIsBounded` | `Outbox_proofs` | `Spec => FailureIsFinal`; once per request and fault |
| `LinksTyped`, `AnswersStandForCredit`, `CreditsAreBounded` | `PaymentLinks_proofs` | types; what an answer to Razorpay stands for, `Spec => []AnsweredIsCredited`; how often a payment is credited |
| `PromisesTyped`, `KeptPromisesStayKept` | `Promises_proofs` | types; `Spec => KeptStaysKept` |
| `EscalationsFollowReminders`, `RemindersAreBounded` | `Promises_proofs` | no escalation before a reminder; one per handler and death |
| `WindowIsKept`, `CooldownIsKept` | `ContactPacing_proofs` | the allowed hours up to a tick; the cooldown up to its rounding |
| `SweepsTyped` | `Sweeps_proofs` | `Spec => []TypeOK` |

They hold for any number of cases, customers' inputs, handlers, messages,
dispatchers, faults and any limits, under the named assumptions of the modules'
constants (finite sets of handlers, inputs taken from the code's enumerations).
`CooldownIsKept` alone has a hypothesis, `OneAtATime`: two executions that overlap both
see the old age, and their contacts may follow at once (`AllowedContactsBounded` bounds
how many). Each inductive invariant below was first checked by TLC under the
configuration of its module's run.

*Limits.* `retries[c] =< MaxRetryAttempts + |Requests| - 1` is not inductive: a
handler past the gate is going to add one. `LimitsInv` counts the handlers that
run a cleared tool as if they had already recorded; `Evaluate` may then add a handler
only while the recorded count is below the limit, when at most the other
`|Requests| - 1` handlers are running. It also needs that a handler at a contact call
runs a contact action.

*Prohibitions.* `PursuitInv` adds to the two properties that no handler past the
gate runs a contact or a charge on such a case; entry is closed by `DisputeStops`
and `AllowedCharge`, and a case's source record never becomes disputed again.

*Sealing* needs only the type invariant: `Committed` names each handler step that can
still write.

*Retry rows.* `RetriesHaveOwnRows` already counts a handler about to record and is
inductive: the row is inserted in the step in which the handler joins `Recording`, and
the insert is refused when the reference is taken. *Settled cases.* `SettleInv` says what
a handler between its checks and its transaction has brought about so far.

*Automation* implements `CaseLifecycle` with the identity as refinement mapping: its
steps call `BeginExecute`, `BeginDiagnose`, `BeginVerify`, or take a step of a call in
progress, or leave the case alone. That a call begins as a request would needs
`AutoInv`: a job that calls has a case, and an action if it executes; a stage other
than waiting for a call belongs to an idle request; the decision a diagnosis is
about to report is an action. `AutoInv` also carries the approval: a review
about to mark its form has an execution behind it, since only an execution that
returned leads to that stage. A reviewed form stays as it is because a review
starts from a pending form only, and whoever writes a form or runs its action
holds it in its job.

*Repeated approvals.* `RunsBounded` is not inductive: reviews at work will add runs.
`RunsInv` says that while a request is pending every run belongs to a review about to mark
it or to one that died there, and that after the verdict, when no review begins any more,
runs and reviews still at work together stay below the bound. Writing the verdict turns
the first into the second, since no review both works and marks.

*Intake.* `IntakeInv` says of every event that it is in the ledger with one case, held
by one transaction, or neither, and of every key that it is free, held by one
transaction, or taken by one case or by one simulation about to open it. An insert
enters such a hold only when nobody has it and no row exists; without the wait for
open transactions (`CreateEventLookup`) the first part breaks.

`OrphansInv` is about rows instead of numbers: each row without a case has a handler
of its own at `open`, or cost one of the faults.

*Mock provider.* The two failures it charges for are on the policy's list, so of a
charge's three rules two are left; `DeferralHelps` closes the contact it recommends.

*Outbox.* `DeliveryInv` ties who holds a message to what its row and the mailbox say;
the refinement maps `asked` to rows that exist and `told` to rows that are `SENT`, and
every step maps to a step of `EmailDelivery` or a stutter.

On top of it `WebInv` says that an event is reported of an email that is out, so that
no status runs ahead of its email; that a failure stays follows from `FailureKnown`
itself, as whoever could overwrite it is in its definition. `AppliedInv` counts, before an event
is marked in the ledger, the requests about to mark it, and afterwards those that had
passed the ledger before; the mark turns the first count into the second. The back-off
is a number because a set of *n* elements has 2^*n* subsets (`PowersOfTwo`): no library
fact about exponents says so.

*Payment links.* `AnswerInv` adds the handlers on their way to the answer, and that a
recovered case is booked; the status itself does not stay. In `CreditInv` a delivery that
found a retry which another has settled since (`Late`) counts as if it had credited.
Settling an open retry makes the others that found it late, at most one less than there
are webhook requests, and the settlement itself is the last of that number; nobody finds
a settled retry, so nobody else ever becomes late. Without a retry the unique reference
of the payment row bounds the credits.

*Promises.* `RemindInv` follows the reminder from the message to the counter the
escalation reads, for a promise recorded once; `PacedInv` has two halves as `RunsInv`
has: until a follow-up is counted each reminder has a handler that will count it or had
one that died, and from then on handlers on their way count as if they had sent.

*Pacing.* The gate asks window and age in one step and the contact is written in a
later one, at most a tick on (`WindowInv`); with one execution the age it saw only grows
(`CooldownInv`), and rounding half up gives away one tick (`RoundingGivesOneTick`).

*Sweeps.* That a job's failures stay within its attempts is not a matter of types:
`JobInv` says that a job that may run again has an attempt left and that one handler
holds it, or two failures would be counted for one attempt.

**Only model-checked:** liveness (`EveryEmailEnds`, `EveryMissedPromiseEnds`,
`PaidIsCredited`, `EveryCaseIsWorked`, `EveryEventIsTaken`, `EveryCaseEnds`,
`EveryCaseIsDiagnosed`, `EveryJobEnds`), which like ENABLED is out of the prover's
reach. Every invariant and action property of the passing runs is a theorem. No module
declares a recursive operator.

## 5. Not modelled, and simplifications

* What the Gemini provider writes and parses, the seed, analytics, queries, operations, the
  rest of the controllers, the front end but for its batch button (see `PROJECT.json` for each).
* Sweeps: a promise that pauses a sequence is in `Automation`, the promise sweep a batch ends
  with in `Promises`; a provider that fails for a case fails for good, as passing failures
  only repeat a turn.
* Intake: an e-mail address is one customer; drawn references and e-mails of the
  simulator clash only as a call that throws; a row without a unique value is one
  step with its case, whose number is a count.
* The customer-wide lookup of a failed payment for a subscription case
  (`policy/policy-engine.service.ts:101-107`); one customer per case.
* Limits are whole numbers (the configuration accepts any non-negative number).
* Live payments are on; one provider payment per case in `CaseLifecycle`, several
  links in `PaymentLinks`, where outcomes that are simulated or fail are left out. `DISPUTED` is only ever set by the seed.
* Outbox: Resend remembers an idempotency key longer than the retries last (24 h
  against 30 minutes); the contact update and the timeline row of a webhook are one
  step; the drain's limit of 25 rows is left out.
* Promises: the limit of 50 rows and an exception that ends the early half of a
  sweep are left out, and a dispute acts like missing consent.
* Approvals: every case is taken to be above the approval threshold.

## 6. Plan

1. A separate abstract specification of the case, open, settled or lost, that
   `CaseLifecycle` and with it `Automation` implement.
2. The Test Lab as a small model of forms and late answers.
3. The customer-wide lookup of the gate and several cases per customer.
