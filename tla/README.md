# nawara-core in TLA+

A verification development of the services under `src/apps` and of the kit they
share (`src/libs/service-kit`).  Each module is translated from the source, with
the tests and the documents read beside it; `PROJECT.json` names, for every
definition, the lines it stands for.  The system is a set of NestJS services,
each with its own PostgreSQL database, that talk over HTTP and through RabbitMQ.
What is hard about it is the same everywhere: a decision is one transaction, a
provider or another service is called between two transactions, several
instances run the same workers, and every message may come twice, late or never.

The development covers the path of money and of messages first, then what other
services keep where a step can meet another:

| module | models | proved |
|---|---|---|
| `PaymentSettlement` | payment-service: payments, attempts, captures, late successes | type correctness, `OneCollection`, `SettledOnce`, `SettledOnEvidence`, `LateSuccessSound`, `DatabaseGuards` |
| `PaymentOutcome` | what payment-service promises a producer (abstract) | `PaymentSettlement` implements it (`KeepsPromise`) |
| `EventDelivery` | service-kit: outbox, relay, broker, retries, dead letters, inbox | type correctness, `NeverLost`, `AckedIsAccounted`, `CopiesAreTrusted`, `EffectOnce`; history stays |
| `InvoiceSettlement` | billing-service: invoices, payment requests, dispatcher, event consumer, reconciler | type correctness, `PaidOnMoney`, `OneCollectable`, `NeverConflicts`; ends stay; its payments keep `PaymentOutcome` |
| `NotificationDelivery` | notification-service: delivery worker, recovery, leases, cancel, secret purge | type correctness, `SentOnce`, `EvidenceAgrees`, `CancelStops`, `SecretLifetime`; ends stay |
| `WebhookIntake` | payment-service: notifications of a provider, their retrier, quarantine, disputes | type correctness, `DisputesAgree`, `EvidenceKept`; what is recorded stays |
| `RefundSettlement` | payment-service: refund requests, the worker, evidence and its allocation | type correctness, `RefundsSound`; returns are real; ends stay |
| `RefundCases` | billing-service: refund cases, relays, effects of refunds and chargebacks, the start-up safety check | type correctness, `RefundCasesSound`; ends stay; `RefundSettlement` is the Payment it assumes |
| `AssistedSettlement` | billing-service: settlement of cash an Organization collected, its late captures and their cases | type correctness, `AssistedSound`; ends stay |
| `SessionTokens` | auth-service: rotation against revocation | type correctness, `CredentialsSound`; tokens stay |
| `AuthorizationReceipts` | auth-service: issue, replay, consumption, recovery of a receipt | type correctness, `CredentialsSound`; receipts stay |
| `FileLifecycle`, `DownloadTickets` | file-service: rows and objects; download links | type correctness, `StorageSound`; ends stay |
| `OwnershipTransition` | organization-service: the phases of the ownership transition | type correctness, `OwnershipSound`; authority stays |
| `AuditEvidence` | audit-service: ingestion, legal holds, retention | type correctness, `AuditSound`; the trail stays |
| `ReleasePolicy` | release-service: releases and the minimum version | type correctness, `ReleasesSound`; what was released stays |

`MC<module>` gives a module its symmetry and special initial states for TLC;
`MCPaymentEvidence` and `MCServices` put several modules into one instance;
`<module>Proofs` holds its theorems (`SettlementEvidenceProofs` continues
`PaymentSettlementProofs`, `PaymentEvidenceProofs` is about the modules
of `MCPaymentEvidence`, `ServicesProofs` about those of `MCServices`).  Definitions whose name ends in `_` are
plausible bugs (a dropped guard, a missing reset); every property is broken by at
least one of them, which is how we know that it says something about the code.

## 1. Inventory

For each component: its state, its operations, who it talks to, what is hard
about it, and what would make it correct.

### payment-service (`src/apps/payment-service/src`)

*Payments and attempts* (`payments/`, `attempts/`).  State: `payment` (status,
closing reason, the attempt it settled on), `payment_attempt` (status, inferred
or confirmed failure), `provider_transaction_fact` and its conflicts (what a
provider says it captured), `payment_late_success`, `capture_recovery_state`, the
outbox.  Operations: create (idempotent under the producer's natural key), cancel,
the expiry sweeper, start (T1: the row; the provider's `initiate`; T2: its answer),
sync, the attempt resolver, `applyStatus` (the fact, then the decision, then
perhaps the late success, each its own transaction), the closing of a payment
whose attempt is uncertain, the capture reconciler.  Hard: any of these may run
between two transactions of another; a failure can be a guess that the provider
contradicts later.  Correct: one open collection at a time, one settlement, only
on evidence, a capture that comes too late is kept exactly once.

*Webhooks* (`webhooks/`).  State: `webhook_event` with a state, an outcome and a
count of attempts.  Operations: receive (verify, store, process), the retrier,
quarantine of unusable evidence, facts of unknown attempts.  Hard: a redelivery
runs beside the retrier and both write the state; retries run out.  Correct: no
verified event is forgotten, none is applied twice, a terminal state stays.

*Refunds* (`refunds/`).  State: authorizations, attempts, facts, allocations,
leases.  Operations: authorize (with a receipt of auth-service), the worker's
send and look-up, evidence, allocation.  Correct: the sum refunded never exceeds
what was captured, one authorization is spent once.

*Disputes* (`disputes/`).  Notifications in any order, held until their
capture is verified; the owner's evidence.  Correct: the lifecycle
of a dispute does not go back; a held one is applied or becomes a conflict.

*Reconciliation, authorization of callers, idempotency keys, simulation,
provider adapters, events and their reemission* complete the service.

### service-kit (`src/libs/service-kit/src`)

*Events* (`events/`).  State: the producer's `outbox`, the broker's work queue,
delay queue and dead letter queue, the consumer's `inbox` and the provenance of
each event.  Operations: enqueue in the producer's transaction, the relay's
batches (`FOR UPDATE SKIP LOCKED`, publish with confirms, stamp, commit), deliver,
the trust decision, the handler with its inbox row, retry copies, dead letters,
reemission, replay of dead letters.  Hard: a confirm that does not come tells
nothing, the relay's transaction can roll back after the broker stored the event,
a handler goes on after its channel is lost.  Correct: nothing recorded is lost,
each effect happens once, everything ends in an effect or where an operator
sees it.

*Poll loops, database helper, migrations, rate limits, health, metrics,
logging, service authentication, i18n, configuration* hold no state of the
business.  A transaction is an action of the models, a poll loop the weak
fairness of its pass.

### billing-service (`src/apps/billing-service/src`)

*Invoices and payment requests* (`invoices/`, `payment-integration/`).  State:
`invoice`, `payment_request` (status, payment id, `sendingSince`,
`cancelRequestedAt`), `payment_event_receipt`, the outbox.  Operations: issue,
discard, create a request, cancel an unsent one, the dispatcher (claim, renew,
send, record), the event consumer, the reconciler (pages of stale requests, read
the payment, apply the snapshot).  Calls payment-service's create, cancel and
read.  Hard: two dispatchers may hold one request when a claim looks stale, the
call may be on the wire when its sender gives up, the end of a payment may be
known before its id is.  Correct: at most one payment of an invoice can take
money; money taken is recognised once; every request is sent.

*Subscriptions, entitlement, catalog, currencies, platforms, checkout, fees*
(`subscriptions/`, `catalog/`, `checkout/`, `fees/` ...): rows under constraints
and pure rules (`domain/`).

*Assistance, recovery, late settlements* (`assistance/`, `recovery/`,
`late-settlements/`, the late successes of `reconciliation/`).  State:
`assistance_request`, its settlement channels (an invoice with its payment request
each), the cash-return obligation, `payment_late_success`, `assistance_late_settlement`
and its application, the purchase.  Operations: report the cash, open a channel, the
sweep that opens the obligation after the deadline, the beneficiary's confirmation,
the classification of a capture that came after its payment ended, the Owner's
application of one, the resolution of cases.  Hard: a payment's success, the sweep, the
Owner's decision, a refund and a chargeback race for one request, and the Owner's receipt
is spent before the transaction that applies it.  Correct: one of them wins.

*Refunds, reconciliation cases, fraud holds* (`refunds/`, `reconciliation/`,
`fraud-holds/`): cases relayed to payment-service, their effect on invoices and
subscriptions, and the exposure to disputes.

### notification-service (`src/apps/notification-service/src`)

*Delivery* (`delivery/`).  State: `notification` (sealed secret, expiry,
cancellation), `notification_delivery` (status, lease, resends),
`notification_delivery_attempt`.  Operations: recover, claim, renew, process
(read, start an attempt, call, finish), release on shutdown, purge; *API*: send,
cancel, status.  Hard: the provider may have accepted a message whose answer is
lost; a lease may end under a live worker.  Correct: a message is not sent
twice on a guess, the row and the attempts tell one story, a secret is purged when
it can no longer be used and not before.

*Intake* (`intake/`): events become notifications, once per event and channel.
*Templates, destination limiter, retention*: static data, a delay, a deletion.

### auth-service (`src/apps/auth-service/src`)

*Sessions* (`tokens/`, `auth/`): refresh tokens in families; rotation, reuse
detection, revocation of a family or of a user.  Correct: a revoked session does
not live on, whatever rotation runs beside it.  *Receipts, step-up, challenges,
operator codes* (`receipts/`, `owner/`, `operator/`): single-use proofs; issue,
replay, consume under a reference, recovery of an uncertain outcome.  Correct: a
proof is spent once, and a caller who lost the answer learns it.  *Hierarchy,
memberships, onboarding, platforms*: single statements under constraints, and
the source side of the ownership transition.

### organization-service (`src/apps/organization-service/src`)

*Ownership* (`ownership/`): the phases by which authority over companies moves
from auth-service (PREPARED, VERIFIED, FROZEN, ACTIVATABLE, ACTIVE, RETIRED), with
import, verify, approve, activate, rollback.  Hard: some commands check the
phase in one statement and write it in another.  Correct: never active on content
that was not verified; no rollback once active.  *Creates under an idempotency
key* (`companies/`, `platforms/`, `organizations/`, `idempotency/`).

### file-service (`src/apps/file-service/src`)

State: `file`, `file_access_ticket`, `file_evidence_grant`, holds, and the object
store.  Operations: upload (direct or with a ticket), attach, download (reserve,
settle, sweep), grants, holds, delete, the cleanup worker.  Hard: the store and
the database do not share a transaction.  Correct: no available file without its
object, no object kept for ever without a row, a ticket used once, a held file
never deleted.

### audit-service (`src/apps/audit-service/src`)

Append-once ingestion, legal holds (events under a company's advisory lock),
retention in batches, queries.  Correct: the first evidence under an id stays; a
held record is never deleted.

### release-service (`src/apps/release-service/src`)

Components, releases, compatibility policies; register, publish, withdraw, change
the minimum.  Correct: the minimum version is always one clients can get.

### Not modelled at all

`audit-contract` (stateless validation), `infra/`, `scripts/`, `docs/`, the
end-to-end tests, metrics, logging and configuration.

## 2. The modules

### PaymentSettlement

One action per transaction, or per step between two transactions: `StartAttempt`
is T1 of start, `CallAccepted`, `CallAmbiguous` and `CallRejected` are T2 for each
answer, `LoseCall` a process that stops in between.  An observer is one run of
`applyStatus` (from sync, the resolver or a webhook): `Observe`, then
`RecordCaptureFact` when the answer is a success, then one of `ApplyPending`,
`ApplyNotFound`, `ApplyExpired`, `ApplyFailed`, `ApplySucceeded`, then perhaps
`RecordLateSuccess`; `Crash` may end it anywhere.  `Cancel` and `SweepOne` close
or end a payment, `ReconcileFact` is the capture reconciler.  The writes every
finality makes (`recordQualifyingLateSuccesses`, the event) are in `EndPayment`,
so no action can leave them out.

`RecordLateSuccess` checks what its code checks, a second capture of the attempt, and
leaves the rest to the insert: a key that is taken does nothing, and the trigger
(`FactGuard`, of `0026`) aborts the transaction.  The other transactions decide on what
they read after their lock, and their actions carry no trigger.  One abort is finer
than the model's actions: `recordCaptureFact` locks the payment of the attempt it was told
of, so a contradiction reported through another payment's attempt can commit between the
reads of such a transaction and its write.  What the trigger then makes of it is a step
that is not taken, `Crash` or `FailToReconcile`.

Amounts are *figures*: equal to the payment's, wrong, in a non-ISO currency, or
unusable.  The provider may answer anything at any time.  `settledBy` is a
history variable: the capture a payment was settled on.

`PaymentOutcome` is the contract: a payment is open, perhaps cancelling or
expiring, and ends once with one announcement; a capture is what a payment was
settled on or a late success, never both.  `KeepsPromise` is the refinement
(`Outcome!Spec` under a mapping that hides attempts, observers and recovery).

### EventDelivery

Many relays (service instances) and many workers (deliveries in hand) share one
enforced subscription: a work queue, a delay queue, a dead letter queue.
Messages are bags, because the code relies on no order.  A relay's transaction is
explicit: `Claim`, then for each row `PublishConfirmed` or `PublishUnconfirmed`
(stored or not: the confirm does not tell), then `CommitBatch` or `LoseBatch`.  A
worker goes through trust, handle, failed, dead and ack; `LoseChannel` returns
its message to the queue while it runs on, `StopWorker` ends it.  `Reemit` and
`ReplayDeadLetter` are the operator's tools.

### InvoiceSettlement

Billing's API, dispatchers and reconcilers against a payment-service reduced to
`PaymentOutcome`'s promise (`PaymentCreate`, `PaymentCancel`, `PaymentEnds`): this
is the composition of the two services, at the level of what one promises the
other.  A call that timed out stays on the `wire` and may arrive later.
A terminal event can be delivered at any time after the fact, any number of times
or never; the reconciler is the other route.  `Redeploy` is payment-service
restarting with another list of currencies.  Outside production only:
production adds checks of origin that refuse, and change nothing else.  Linking
the invoice to its subscription or purchase is the counter `linked`.

### NotificationDelivery

One notification with its deliveries, several instances.  `lease` is who holds the
token of a delivery; every write of a claim is guarded by it, as the code's
updates are by `leaseToken`.  `RenewQueued` and `Renewed` are the two ends of the
renewal, between which a claim can start with a token that is no longer its own.
`BeginCancel` and `CommitCancel` are the cancel's transaction: it holds the
notification's lock, which a terminal transition waits for and a claim does not.
A recovery pass is one transaction per delivery here and one per batch in the
code; clocks agree; due times are abstracted (a pending delivery may be due).

### WebhookIntake

A delivery stores the notification (`Receive`), and processing is three steps:
`Select` and `Claim` (the retrier's; a redelivery claims nothing), the transaction that
applies it to the payment or the dispute, and the write of the row's state, which a
redelivery does unconditionally (`webhook.service.ts:291`).  A process can stop
between any two.  A dispute is held while its capture is unverified, is closed once,
and conflicts when another has its chargeback.  A notice that states a chargeback without a
loss is malformed (`dispute.types.ts:48`), as is one without an amount: `SetAside` ends it as a
conflict, with nothing recorded of it.  A capture without a usable amount or a transaction
reference (`unkeyed_capture`) becomes no fact: it ends as a conflict, or as processed when its
attempt has already succeeded (`Keyless`).  Disputes are enabled.  What a
capture does to its attempt is `PaymentSettlement`'s; here it succeeds, contradicts
or fails for a while.

### RefundSettlement

`Request` leaves the intent, `Consume` and `AuthConsumes` spend the Owner's receipt at
auth-service (external: spent once, for the reference that came first), the worker sends
under one key and fetches (`Dispatch`, `Call`, `Store`, `Fetch`), `RecordRefundFact` and
`ApplyEvidence` take in what the provider reports, and `Allocate` allocates a movement
under the payment's lock.  The provider (external) knows a refund by its key.

### RefundCases

The other side of the same wire: billing commits a relay's refund attempt id before
it calls, a cancelled case and a late authorization exclude each other, the mirror
and the completion come by event or by the reconciler, the effect worker applies a
completed refund once, beside that of a lost dispute.  `Restart` sends the
process through its financial safety check: four reads, in the code's order, between
which HTTP and consumers go on.

### AssistedSettlement

One assistance request, with a channel after another and late captures of each.  What
takes the request's row lock in the code is one action: `ApplyAssistedSettlement`,
`CashReturnSweep`, `ApplyLate`, `ConfirmReturn`.  A channel follows its payment request by
a database trigger (`Followed`), and is `uncertain` while the request is being sent.
`AuthorizeLate` and `ApplyLate` are the two halves of the Owner's decision: the receipt is
consumed after the checks, the transaction checks again.  The guards `OpenRefund`,
`Proves` and `Counts` are those that the service asks and the database asks again.
The payment request is reduced to what `InvoiceSettlement` shows of it, and a refund's
relay to live, refused or none, as in `RefundCases`.

### SessionTokens

PostgreSQL's READ COMMITTED is in the model: the revocation's statement fixes what it
sees when it begins and waits for the rows that others have locked, so
the token a concurrent rotation has inserted and not committed escapes it.  What
closes the gap is that the rotation looks at its family again.

### AuthorizationReceipts

Each step between the reads and writes of an issue, a consumption, a lookup
and a recovery; either answer can be lost.  A replayed issue voids what nobody may
hold while somebody may be consuming it.

### FileLifecycle and DownloadTickets

A row and an object that no transaction covers together: upload, completion (whose
commit may be answered by an error), sweeps of abandoned uploads, deletion under a
lease, evidence holds.  A download is reserved, streamed and settled by the
request, by its failure handler or by the sweep.

### OwnershipTransition, AuditEvidence, ReleasePolicy

Commands that measure first and write in a second transaction; a purge whose
batch selected its rows before a hold was placed; a minimum version that an owner
moves while another withdraws the release it rests on.  `straddled` remembers the
activations in the middle of which another operator rolled back or a bootstrap write
committed (section 6).

### Instances of several modules

`MCPaymentEvidence` and `MCServices` extend modules that do not share state.  A
variable `focus`, chosen once, names the one that moves; the others stay in a
state in which nothing can happen, so that their fairness asks for nothing.  The
reachable states are the sum, not the product, and one run checks each of them.

## 3. The runs

`pass` runs finish without an error; `violation` runs reproduce a disagreement
between the code and what it says of itself (section 6).

| run | instance | shows |
|---|---|---|
| `settlement_attempts` | 1 payment, 2 attempts, 1 capture of 2 figures, 1 observer | one collection, one settlement, on evidence, the refinement of `PaymentOutcome` |
| `settlement_captures` | 1 attempt, 2 observers of 2 captures, or of 1 of 2 figures told by notifications (`TwoObservers`) | late successes and the reconciler's selection when two captures meet; the triggers refuse a late success contradicted after its decision, and nothing else |
| `settlement_rejection` | as `settlement_attempts` | violation: finding 1 |
| `delivery` | 2 events (one unverified) with 2 relays and 2 workers, or 1 of each and more faults; 1 retry, 2 disturbances, fair | nothing lost, nothing acknowledged unaccounted, copies trusted, one effect, every event ends |
| `billing_safety` | 1 invoice, 2 requests, 2 dispatchers, 1 reconciler, 1 fault, 1 redeploy | paid on money, one collectable payment, no conflict |
| `billing_ends` | 2 invoices (one collected from its draft, or both requested and paged), 1 dispatcher, 1 reconciler, 1 fault, fair | money is recognised, requests are sent |
| `notification_safety` | 2 deliveries, 2 instances, 1 attempt, 1 fault | sent once, evidence agrees, cancel stops, secret's lifetime |
| `notification_ends` | 1 delivery, 2 instances, 2 attempts, 1 fault, 1 renewal, fair | every delivery ends, no secret stays |
| `notification_cancel` | as `notification_safety` | violation: finding 2 |
| `evidence` | `WebhookIntake`: 1 notice of any kind with a crash (a capture that cannot be keyed meets an attempt with a fact) or 2 notices of disputes; `RefundSettlement`: one refund being asked for or two with the provider; `RefundCases`: two cases, or one while a process starts; `AssistedSettlement`: 2 channels and 1 late capture, or 1 and 2; fair | disputes agree with what was said, no evidence is lost, money is returned once and allocated once, cases tell the truth, one of a request's rivals wins, and all of it ends |
| `refunds_independent` | two refunds of `RefundSettlement` | violation: finding 3 |
| `services` | 2 sessions and 3 tokens; 2 receipt keys; 2 files and 2 cleaners; 1 link and 3 redemptions; 2 operators; 2 records under 1 hold; 3 versions and 2 owners; fair | each service's invariant, and that nothing stays half done in file-service |

**Bounds.**  Rows and processes are model values and interchangeable (symmetry in
safety runs only).  Two attempts are what a second collection needs; two captures
are what makes a first one ambiguous; two observers, dispatchers, relays, workers
or instances are what an interleaving of the same code needs, and no code waits
for a third.  `MaxRetries`, `MaxAttempts` and `MaxRecovery` are the code's own
limits, set small enough to be reached.  `MaxFaults`, `MaxDisturbances`,
`MaxRedeploys`, `MaxRenewals`, `MaxDeliveries`, `MaxReports`, `MaxParts`, `MaxLosses`, `MaxPolicies`
and the `Max...Faults` bound only what goes wrong or repeats without
end, so that liveness is asked of behaviours in which faults stop.  Settlement
has no such bound: crashes are free there.  `MaxUses` stands for the retrier's ten
attempts, `MaxDownloads` and `MaxInFlight` for a link's limits.  `DispatchBatch` is 1 in TLC; a
larger batch matters only for several invoices.

`CHECK_DEADLOCK FALSE` is in every configuration because each system really comes
to rest: all payments ended, all events delivered, nothing to send.

**Fairness.**  Weak fairness stands for poll loops that run again after every
pass, a handler or a call that returns (all are bounded by timers), a delay that
ends, and a claim or a lease that becomes stale.  Strong fairness is used where a
step waits for a lock, or a worker chooses among rows, that others take again and
again: recovery, the steps of a claim and the purge in `NotificationDelivery`
(PostgreSQL grants a row lock in turn, and the purge, which skips a locked row,
comes back), the retrier's choice of a row in `WebhookIntake` (`Select`: oldest due
first, so no row is passed over for ever), and the refund worker's `Take`.
Nothing is assumed of callers, of payers, of operators, of owners, or of events
arriving: `MoneyIsRecognized` holds even if the broker delivers none.

## 4. The proofs

TLAPS checks, for every value of the constants, that the properties below hold in
every behaviour.  Each proof has the same shape: an inductive invariant, checked by
TLC on the instances of section 3 before it was proved; a handful of *moves*, the
only things a step can do to one row; a lemma per action that names its moves; and
lemmas that each move keeps the invariant.

**PaymentSettlementProofs.**  `TypeCorrect`: the rows' shapes, and the references
between them (`References`: an attempt that exists has a payment, an observation a
fact with an attempt, ...), which no action on its own would preserve.
`OneCollectionAlways`, `SettledOnceAlways`, with
`IInv == TypeOK /\ OneCollection /\ SettledOnce`.  Neither is inductive alone: that a
success finds the payment unsettled needs `OneCollection` (a final payment has no
uncertain attempt), and that no other attempt stays open when one succeeds needs that
`pending`, `created` and `closing` say which attempts may exist.

**SettlementEvidenceProofs.**  `SettledOnEvidenceAlways`, `LateSuccessSoundAlways`,
the action property `DatabaseGuardsHold`, and the refinement: `ImplementsOutcome`
(`Spec => Outcome!Spec`) and `PromiseKept` (the form the run checks).  `EInv` adds to
`IInv` what a settled payment rests on (`Rests`), that what can be booked late
belongs to an attempt that will not settle (`LateKept`), that an observer between the
decision and the late success still names such a fact, of its attempt and of the figure
it observed (`LateRun`), and that no unusable figure becomes a fact.  A step is quiet, closes a payment, ends one, succeeds, or
books late successes (`Ledger`); each result follows from these five.
`DatabaseGuardsHold` has two halves: every transition, settlement and late success that
is written satisfies the triggers, which the five show; and what a trigger would refuse is a
late success whose fact is contested, because `LateRun` gives all else that it
asks (`OnlyContradictions`).  The simulation goes by the same five: a quiet step maps to a stutter, each of the others to the action
of `PaymentOutcome` of the same meaning.

**EventDeliveryProofs.**  `DeliveryTypeCorrect`, `NothingIsLost`, `AcksAreSafe`,
`CopiesAreNeverRefused`, `EffectsAreOnce`, `HistoryStaysAlways`.  The central lemma is `AccountedIsKept`:
once somebody has an event, every step leaves somebody with it; each step that takes
a message away puts its copy first.  `NothingIsLost` and `AcksAreSafe` then only
look at who becomes stamped or acknowledging.  `CopiesAreTrusted` is inductive
with the type invariant; `EffectOnce` needs `Observed`: a delivery past the
trust decision is of an event that was observed and verified.  `HistoryStays` is the action
property on top: what was recorded, published, observed, dropped or committed stays so, and
an effect is committed only after the observation (`EffectChanges`).

**InvoiceSettlementProofs.**  `BillingTypeCorrect`, `PaidOnMoneyAlways`,
`OneCollectableAlways`, `BillingNeverConflicts`, with `IInv == TypeOK /\ Books /\ Hands`.
`Books` relates the rows of the two services: only what was sent has a payment
(`OnlySent`), what ended in Billing ended as Payment did or was never sent (`Stages`), one
active request per invoice, which is open.  `Hands` is what makes that inductive
across calls: what is on the wire or in a dispatcher's hands was sent (`HandsSent`),
and what a reconciler has read is final (`ReadIsFinal`).  While the list of currencies
stands, a rejection is for good (`Refusals`, `AnswersStand`); `OneCollectable` has that
hypothesis because the code has it (section 6).  `BillingEndsStayAlways`: no step takes back how a
request, a payment or an invoice ended (`BillingEndsStay`).  `BillingMeetsPromise` closes
the composition from Billing's side: the payment-service in this module, read as one
outcome per request (`OutcomeMet`, `AnnouncedMet`, `BookedMet`), implements `PaymentOutcome`, as
`PaymentSettlement` does.  Billing is therefore proved against no more than the contract that
payment-service is proved to keep.

**NotificationDeliveryProofs.**  `NotificationTypeCorrect`, `SentOnceAlways`,
`EvidenceAgreesAlways`, `CancelStopsAlways`, `SecretLifetimeAlways`, `EvidenceStaysAlways`.
Deliveries share only the secret, so the invariant is one of a delivery (`Local`): a token is held only
while the delivery is SENDING and its holder has begun no attempt or the last
(`LeaseAgrees`); whoever calls has an attempt of its own, also after it lost the lease
(`CallsAreOwn`); before another attempt there is room for it, and every message that
may have been accepted was followed by the resend (`Budget`); what was accepted is among
the attempts no claim knows to be unaccepted (`Counted`).  A step frames, settles, claims,
begins, calls, finishes or recovers each delivery, and for each of these `EveryStepKeeps`
shows the invariant after it and what it leaves as it was (`EvidenceStays`).

**RefundSettlementProofs.**  `RefundTypeCorrect`, `RefundsSoundAlways`, `ReturnsAlways`,
`ReturnsStayAlways`.  That money goes
back once rests on the receipt: authority is given only on a receipt spent for exactly
that case (`RowSound`, `SpentFor`), and of the refunds of one capture at most one can
still return money (`OneLive`).  What a worker does between its steps is in `Holds`:
an answer it carries is still true of Auth and of the provider.  That the counter of an
authorization is the sum of its allocations is a count: `Units(r)` is the set of the
units returned, one pair per movement and unit, and an allocation adds exactly the
pairs of its movement (`Counts`).  A sum by recursion could not be proved about here;
the cardinality of that set is the same number.
`ReturnsAreReal` says where counted money comes from: the provider returned it.
`ReturnsStay` is an action property: a report that is repeated, late or contradicts an earlier one
changes nothing that was recorded.  Both, and what `PaymentEvidenceProofs` reads out of
this module, follow from `StatusMoves`: which status a step may move, and to which.

**PaymentEvidenceProofs.**  Four modules and what joins them.

- `WebhookIntake` (`IntakeTypeCorrect`, `DisputesAgreeAlways`, `EvidenceKeptAlways`,
  `IntakeStaysAlways`).
  `IntakeInv` says of a run that is about to mark a row what the properties say of
  the row (`RunRests`): the evidence is committed before, so whichever of a request and the
  retrier writes last, what it writes has its evidence.  Two kinds of notice end with no
  evidence of their own, a malformed dispute and a capture that cannot be keyed; of these it
  says that they do not end as processed, unless the attempt had settled on another
  capture.  Evidence only grows, and a settled attempt stays settled (`Grows`),
  which is why a run that waits for a lock or overtakes another may rely on what it saw.
  `DisputesAgree` is inductive with the types: a notice applies only when it
  opens, closes or gives the chargeback that is missing (`Applies`), and each of the
  three leaves the dispute what its notices made it.  `IntakeStays` is the action property:
  a notice that comes again, or late, changes nothing that was recorded of its dispute.
- `RefundCases` (`RefundCaseTypeCorrect`, `RefundCasesSoundAlways`, `OwedOnceAlways`,
  `RefundEndsStayAlways`).  Payment knows only attempts whose relay was committed before
  the call, and no answer, stored or in somebody's hands, is ahead of Payment
  (`RelaysSound`, `HandsSound`); one case at most is live, and a completed one rests on a
  return (`CasesAgree`).  For the start-up check, `ScanSound` says, after each of its
  four reads, that what was read still holds unless Payment recorded something since.
- `AssistedSettlement` (`AssistedTypeCorrect`, `AssistedSoundAlways`,
  `AssistedEndsStayAlways`).  While a channel may still succeed, nothing else has taken the
  request and no other channel may (`ChannelsSound`; this is what the row's lock is for); the one
  purchase has its evidence and the request and the cash agree with it (`PurchaseSound`);
  what is held for the Owner was recorded on a channel that failed (`CapturesSound`).
- `RefundsAreAsRead` joins two of them.  `RefundCases` reduces Payment to three actions
  (`Handles`, `GoesOn`, `Returns`); `RefundSettlement` has the whole.  Read through the
  statuses Billing is answered (`SeenAs`), and with the capture of the sale, every step of
  `RefundSettlement` is one of the three or changes nothing that is read, so what is proved of the
  cases holds of the payment-service that is modelled, not of an assumed one.  What
  disputes forbid is an input of `RefundSettlement`; here it is allowed.
- `EvidenceTypeCorrect` and `EvidenceSoundAlways` are about `Evidence`, the specification
  the run checks: its initial states lie in the middle of things, so each has to be
  shown to satisfy the invariant of its module, and the invariant of a module that is not in
  focus stands still.

**ServicesProofs.**  `ServicesTypeCorrect`, `CredentialsSoundAlways`, `StorageSoundAlways`,
`OwnershipSoundAlways`, `AuditSoundAlways`, `ReleasesSoundAlways`, and for each service what no
step takes back: `CredentialsStayAlways`, `StorageStaysAlways`, `OwnershipStaysAlways`,
`AuditStaysAlways`, `ReleasesStayAlways`.  A step moves one module
and leaves the rows of the others (`EachStepsAlone`), so `ServicesInv` is the
conjunction of one invariant per module:

- `SessionInv`: the token a rotation has read is live and no other rotation's
  (`RotatingLive`), the one it inserted is nobody else's (`InsertedIsNew`), and a suspension,
  which waits for the rotations under way, has seen every live token
  (`SuspensionSeesAll`).
- `ReceiptInv`: the three statements are inductive with the types, once the sets that
  are counted are finite: an issue adds one receipt and one proof together.
- `FileInv`: bytes on their way belong to a file nobody has given up
  (`StillUploading`, because the lease outlasts the request), a file past its time never
  becomes available (`LateUploads`), and what a worker has removed stays away
  (`CleanersClaim`).  Together they keep a sweep and a completion apart.
- `LinkInv`: a reservation is of the one redemption that is going on or was answered
  (`LeasedToOne`); only one that answered nobody releases it.
- `OwnershipInv`: an activation that neither a rollback nor a bootstrap write straddled
  still finds the content it compared (`ActivationHolds`).
- `AuditInv`: an order under a Company's lock shares it with no row a batch has deleted
  (`OrdersExclude`), so a hold placed by it reaches none of them.
- `ReleaseInv`: what was checked under the component's lock holds until the commit
  (`WrittenStands`), and a kept decision is that of its tag for good, because policies
  are only ever appended (`KeptAsDecided`).

The action properties need five facts more (`HistoryInv`), which hold beside
`ServicesInv` and are inductive with it: a token that was replaced is revoked
(`ReplacedIsRevoked`), a single-use ticket counts one use (`SingleUses`), an order that
places a hold is alone with it (`PlacesAreNew`), a batch is of rows past their horizon
(`BatchIsDue`; rows never become younger), and a withdrawal is of a release that was published
(`WithdrawsPublished`).  `AuditStays` is where the invariant matters most: that no record under a
hold is deleted is `HoldsAreKept` read at the commit of the batch.

**Assumptions.**  The named assumptions of each module, which TLC evaluates in every
run: numbers are natural, the sets whose members are counted are finite, the value that
means "none" is nothing else (`NullIsNoRow`, for the rows of facts and late successes),
and a notification has at least one delivery (`send-request.ts:67` refuses an empty
list of channels; without one, `SecretLifetime` would ask who ended the last).
`StartIsOfTheInstance` says that the rows `MCServices` and `MCPaymentEvidence` start with
are members of the instance, and distinct where two are named.

**Model-checked only.**  Liveness: `EventEnds`, `MoneyIsRecognized`, `RequestsAreSent`,
`EveryDeliveryEnds`, `SecretIsPurged`, `EvidenceSettles`, `Settled`, because fairness is
beyond the prover.  Every invariant and every action property of a passing run is proved.

## 5. What the properties are for

`PROJECT.json` lists the hazards of this code, each at its line, with the
properties that would notice.  In short:

- *A customer pays twice, or money is lost from the books.*  `OneCollection`,
  `SettledOnce`, `OneCollectable` and `PaidOnMoney` stand between two actors
  and a second payment; `SettledOnEvidence` and `LateSuccessSound` keep captured
  money on the books exactly once; `NeverConflicts` says that the event and the
  reconciler never contradict each other.
- *A message is lost, or takes effect twice.*  `NeverLost`, `AckedIsAccounted`,
  `CopiesAreTrusted`, `EffectOnce` and `EventEnds` are the kit's promise;
  `SentOnce`, `EvidenceAgrees`, `CancelStops` and `SecretLifetime` are what
  notification-service may conclude from evidence that can be missing.
- *What a provider says comes twice, late or in another order.*  `DisputesAgree`:
  a dispute never goes back, and what was announced of it is what it became;
  `EvidenceKept`: no verified notification disappears, whatever redelivery and
  retrier do to its row, and none ends as done on nothing.
- *Money is returned twice, or for nothing.*  `RefundsSound`: one receipt, one
  return per capture, whatever answer is lost (`ReturnedOnce`), and parts, duplicates
  and wrong amounts never sum to more than was authorized (`AllocatedOnce`); `RefundCasesSound`: a
  case is cancelled or paid out, never both, its effect is applied once, and
  the safety check of a start says "mismatch" only if the books moved.
- *Cash is settled and returned, or one capture sold and refunded.*  `AssistedSound`:
  one purchase per request and none beside a return (`OnePurchase`), a payment that
  succeeds always buys (`PaidIsSold`), a late capture is sold only if nothing of its
  payment was or may be refunded (`SoldOrRefunded`), and a closed case stays true
  (`CasesEndTrue`).
- *A proof is used twice, or a revoked session lives on.*  `CredentialsSound`.
- *A row without its object, an object without its row, a limit exceeded.*
  `StorageSound`, `Settled`.
- *A decision on something that changed since it was read.*  `OwnershipSound`,
  `AuditSound`, `ReleasesSound`.  Not of an
  activation that was overtaken, which the code does not exclude (section 6).

Each conjunction (`CredentialsSound`, `RefundCasesSound`, ...) is of named parts, each
stated with its own comment in its module.

## 6. Where the code and its documents disagree

1. *A provider's rejection can be dropped* (`settlement_rejection`).  "The
   provider's own rejection is definitive" (`attempt.service.ts:130`), but T2 of start
   returns an attempt untouched when the resolver has meanwhile inferred its failure
   from a not-found answer: the attempt stays a guess and its payment uncertain,
   until another answer comes.
2. *A cancel can answer 200 while a delivery is being sent* (`notification_cancel`):
   it reads the statuses under the notification's lock, which a claim does not take
   (`notification-api.service.ts:165`; `docs/sdd/notification-service.md:659` promises
   409 `delivery_in_progress`).
3. *The refunds of two captures are not independent* (`refunds_independent`): when the
   first completes, the allocation of the second takes nothing, although each
   was authorized for a capture of its own.

More was met while modelling and is stated where it matters, without a run of
its own:

- A dead letter can say `retries_exhausted` with retries left: when the copy of a
  retry is not confirmed, the message is dead-lettered at once
  (`rabbitmq-event-bus.ts:832`).
- payment-service checks the currency of a create before it looks for an earlier
  payment under the natural key (`payment.service.ts:48`), so after a redeploy with
  another list of currencies a resend is refused while the first payment stays
  collectable: `OneCollectable` speaks of histories without one.
- `docs/sdd/billing-service.md:497` lets the dispatcher cancel a `sending` request
  marked for cancellation, which the code does not do.
- A completion of an upload that commits and is answered by an error is compensated
  by deleting the object (`upload.service.ts:261`, `:280`): the row says AVAILABLE and
  the object is gone.  `FilesSound` excepts exactly these rows (`unanswered`).
- "Ends every session now" (`operator-admin.service.ts:45`): a rotation that commits
  after the revocation's statement leaves a token behind, until its next use finds
  the user inactive.
- `approve` reads the phase without a lock (`ownership-admin.ts:222`) and approves whatever
  the row holds when it writes, not what its operator read.
- "`activate` needs [...] an unchanged content digest" (`ownership-admin.ts:52`): it compares the
  digest with the row it read first (line 240), and its transaction looks at neither again.
  A first-Company transaction that passed `assertWritable` before the verification may
  commit in between, or another operator roll back and an older `verify` commit the
  digest it measured earlier: authority starts with a verified digest that is not the
  content's.  `OwnershipSound` records such activations (`straddled`) and speaks of the
  others.  It was false as first stated, which only the attempt to prove it showed.
- A dispute that was held can use its last attempt while its capture is still
  unverified (`webhook.service.ts:215`): it ends as exhausted.
- The "unreachable" branch of the audit insert (`audit-record.repository.ts:72`) is
  reached when retention purges the row between the conflict and the read.
- The financial safety check can report a mismatch between consistent books: Payment's
  losses and relays are read at other moments than Billing's while consumers run, although
  `financial-safety.ts:19` says that only Billing ahead is one.
  `RefundCasesSound` states what holds: a mismatch means that the books moved.
- Two late captures of one payment: once the first is sold, the `late_success` case of the
  second is "resolved only by the completed capture-specific refund"
  (`late-success.service.ts:54`), which can no longer be opened, because a purchase of the
  payment request refuses it (`refund-case.service.ts:225`).  Only a full chargeback ends
  the case; `AssistedSettles` therefore asks for the resolution of a case only when its
  evidence exists.
- An Owner can open the capture-specific refund of a late capture before Billing has
  classified it.  The classification does not look at refund cases
  (`late-success.service.ts:167`), so the capture can become a late assisted settlement
  whose refund, by `refund-case.service.ts:196`, is its own case's: once the first
  refund is complete, no evidence for that reconciliation case can come.

## 7. What is not modelled, and why

The implementation is 79,920 lines in 685 files.  A good part of that has no state
of the system to speak of: validation campaigns and repository checks under
`scripts/`, the audit catalogue, DTOs, controllers, configuration, command lines,
metrics.  The map covers the lines whose control the models keep, so its share of
the whole stays small although most of the transactional core is in it.

- *billing-service: subscriptions, entitlement, checkout, catalog, fees.*  Periods and
  access are arithmetic over rows that one transaction writes; their reference
  definitions would be the code again.
- *billing-service: recovery, restrictions, corrections, assistance disputes and
  attestations.*  Recovery counts payments against an obligation in single transactions;
  a dispute or an attestation only refuses a decision of `AssistedSettlement`, which has
  more behaviours without them.
- *payment-service: the resolver's lease and order of work, the owner's answers to a
  dispute, associations of facts by an owner.*  The resolver is one more observer of
  `PaymentSettlement`; the rest are single transactions.
- *Creates under an idempotency key* (organization-service, notification intake): one
  unique constraint each.
- *auth-service: hierarchy, memberships, onboarding, enrolment.*  Single statements
  under constraints.

What remains worth proving: that `AssistedSettlement`'s payment request is
`InvoiceSettlement`'s, as `RefundsAreAsRead` shows for refunds.
