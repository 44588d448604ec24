# Verification of the payment gateway

TLA+ models of the invoice payment gateway in this repository, the TLC
instances that check them and TLAPS proofs about them. Every
definition is taken from the code; `PROJECT.json` gives the lines.

## The system

A merchant creates invoices and pays them through `POST /invoices/{id}/pay`
with an `Idempotency-Key`. The gateway charges a PSP (here `cmd/mock-psp`),
records the outcome in Postgres and announces it to the merchant.

| Component | State | Operations | Interaction |
|---|---|---|---|
| Payment service (`service/payment_service.go`, repositories) | `invoices`, `payment_attempts`, `idempotency_keys`, `outbound_events` | `PayInvoice`: key lookup, locked creation of a PENDING attempt, PSP call, `persistSuccess`/`persistFailure` | calls the PSP; shares its tables with webhook handlers |
| PSP and its client (`cmd/mock-psp`, `internal/psp`) | in-memory idempotency cache, running charges, webhook goroutines | charge, answer, time out, notify | called by handlers; calls `/webhooks/psp` |
| Inbound webhooks (`ProcessPSPWebhook`) | `webhook_events` | deduplicate, settle, mark PROCESSED or FAILED | runs the same `persistSuccess`/`persistFailure` as the pay handler |
| Outbound events (`worker/webhook_dispatcher.go`, `webhook_service.go`) | `outbound_events`, `businesses.webhook_url` | claim, POST, mark, retry, redeliver | fed by settlement; posts to merchants |
| Invoices (`invoice_service.go`) | `invoices` | create | |
| API keys (`api_key_service.go`, `middleware/auth.go`) | `api_keys` | authenticate, bootstrap, create, list, rotate, revoke, record the last use | yields the business of a request |
| Migrations (`database/migrate.go`) | `schema_migrations`, the schema | find or make the tracker, baseline, apply, record | every server runs them before it listens |
| Businesses, customers, signatures, server wiring | insert-only rows, none | | |

What is hard: several handlers of one invoice or one key; a PSP outcome that
comes late, twice or never; failures between statements that are not one
transaction; webhook deliveries that overlap; workers and redeliveries that
write the same row; key handlers without a transaction; servers that start
together or crash while they migrate. `PROJECT.json` lists these hazards at
their lines.

What makes each part correct:

- payments: the card is charged once per invoice, attempts, invoice and outbox
  tell one story, a merchant is told what the tables say, a key stands for one
  attempt, tenants are kept apart, every request is answered;
- inbound webhooks: a processed event has had its effect, an unprocessed one is
  applied by a later delivery, deliveries never undo each other;
- outbound events: handed out once, tried within the budget, DELIVERED only on
  a 2xx, finally delivered or dead-lettered;
- API keys: a revocation is immediate, keys stay in their business, a rotation
  leaves a working key, a key is handed out unauthenticated only for bootstrap;
- migrations: a recorded file has been applied, in order, nobody serves on half
  a schema, servers that start together do not all stop each other, and what a
  crash leaves behind does not stop the next start.

## Modules

| Module | What it models |
|---|---|
| `GatewayTypes` | constants and their assumptions, card tokens, statuses, the requests |
| `PaymentStore` | the payment tables and the repository functions, row locks included |
| `Settlement` | `persistSuccess`, `persistFailure` |
| `PaymentService` | `PayInvoice`, one process per request (`pc[r]`) |
| `MockPSP` | PSP, HTTP client, webhook sender |
| `WebhookIntake` | `ProcessPSPWebhook`, one process per delivery (`wpc[d]`) |
| `PaymentGateway` | their composition, its fairness and its properties |
| `PaymentLedger` | the abstract specification: attempts are opened, succeed or are declined |
| `GatewayInvariant` | the inductive invariants `IInv` and `RecordInv` in named parts |
| `PaymentGatewayProofs` | `IInv` is invariant, and what follows from it alone |
| `LedgerRefinement` | `PaymentGateway` implements `PaymentLedger`; settled is final |
| `GatewayRecordProofs` | `RecordInv` is invariant: answers, webhook rows, the PSP's lives |
| `OutboxDispatcher` | outbound events, dispatchers, redelivery |
| `OutboxInvariant`, `OutboxProofs` | its inductive invariant `DispatchInv`, its theorems |
| `Notification` | `PaymentLedger` and `OutboxDispatcher` composed: from the payment to the merchant, and the invariant `NotifyInv` |
| `NotificationProofs` | the composition's theorems |
| `ApiKeys` | keys, the middleware and the key handlers, one process per call |
| `Migrations` | `RunMigrations` of several servers over one database |
| `ApiKeysProofs`, `MigrationsProofs` | their inductive invariants and theorems |
| `MCGateway`, `MCOutbox`, `MCNotification`, `MCApiKeys`, `MCMigrations` | TLC instances; each `.cfg` picks its sets |

### Payment path

*Names.* The code makes fresh UUIDs. In the model whatever a request creates is
named by the request: its attempt, its PSP call, the cache entry and charge of
that call (`psp_ref`) and the event of that charge.

*Steps.* `pc[r]` is between two statements whose order others can observe:
`lookup`, `lockInvoice`, `insertKey`, `checkPending`, `insertAttempt` (with the
commit), `charge`, `await`, then `lockPaid`/`settle` for `persistSuccess` or
`fail`/`enqueue` for `persistFailure`. `lookupAgain` is the lookup after 23505.
`GetByKey` and the `GetByID` that follows it are one step: key row and attempt
are committed together and the row never changes.

*Transactions.* The tables hold committed data (READ COMMITTED). A transaction's
writes appear at its commit; its row lock (`rowLock`) is held from the `FOR
UPDATE` to its end; its uncommitted key row makes an insert of the same key
wait (`UncommittedKeys`). `UPDATE invoices ... OPEN` is applied at the commit,
under the lock that hides it. `persistFailure` runs outside a transaction, so
its two statements are two steps.

*Failures.* `Fail` and `HookFail` end a handler anywhere: a database error, the
caller's disconnect (statements run under the request's context) or a crash of
the server. Its open transaction is rolled back. A commit that succeeds while
its answer is lost is a commit followed by `Fail`, except that the answer to the
merchant is then the recorded status. `HookRefuse` is the 401 or 400 an authentic
event can meet (`Verify` refuses its timestamp, the body is cut short): nothing is
recorded, and as the sender takes every answer below 500 for final, it ends its
tries. After a `HookFail` (500 or no answer) it goes on. `ChargeUnknown` is every way in which
`Charge` returns an unknown outcome without an answer of the PSP.

*PSP.* `HandleCharge` may come long after the client gave up. `InTime` says that
the client's 2 s end before the 30 s of `tok_timeout`, unless the call joined
the entry late. It only takes answers away, so what can happen with `tok_timeout`
can happen with `tok_success` too, whose answer may always come too late; the
instances use the latter. `PSPRestart` empties the cache and kills goroutines.

*Hypothetical inputs.* `NotifyDeclines` adds a PSP that also sends
`charge.failed` (the handler has the branch, the mock never sends it).
`ReadFaults` lets the read in `applyWebhook` fail.

Left out: amounts, currencies, failure codes and payloads (no branch depends on
them); VOID and UNCOLLECTIBLE are checked but no code sets them; forged events
(what a signature check does to an authentic one is `HookRefuse`).

### Outbound events

`status`, `attemptCount` and `due` are the row; `held`, `claimedCount`, `current`
and `outcome` are the dispatcher's batch, with the `attempt_count` it read when
it claimed. Time is only "due or not". `tries`, `accepted`, `redeliveries` and
`queued` are history. A worker is the dispatcher of one server process; there
may be several, since `ClaimDue` uses `SKIP LOCKED`. A read error of the business
row, a missing endpoint and a failed POST are all failed tries, as in the code.

`Notification` feeds it. Since the payment path implements `PaymentLedger`
(`RefinesLedger`), the ledger stands for it: a success settles the attempt, pays
the invoice and inserts the event in one step, a decline and its event are two.
An event is named by its attempt, which is settled once.

### API keys

`keyState` (`none`, `active`, `revoked`) and `owner` are the rows; a key is named
by the call that issued it. A call goes from `auth` to `handler` (create, list)
or `owned` (revoke, rotate), then `count` (the bootstrap rule), `issue`, `revoke`
and `reply`: one step per statement, since no handler opens a transaction.
`Fail` ends a call anywhere: a failed statement, a stopped server, a lost answer.
What was written stays, and a secret whose answer is lost is known to nobody, as
it is stored only as a hash. An error of `GetByHash` or `GetByID` counts as no
row, as in the code. A bearer is the key itself: only a known secret
(`SecretKnown`) is presented, hashing and header syntax are left out. Any key id
may be in a path. `GET /api-keys` stands for all calls that only need a key.
`TouchLastUsed` runs on its own and may come after everything else.

`activeAtSend`, `revoker` and `latest` are history. `RotationKeepsAKey` is about
the rows: a merchant whose rotation succeeded but whose answer was lost has an
active key it does not know, and the bootstrap rule then refuses another one.
`BootstrapOnlyWhenLockedOut` is what the count guarantees; the comments promise
more, that a key is unauthenticated only the first time (`FirstKeyOnly`, see the
violation runs).

### Migrations

A file is one step of the schema (`applied`), because it runs in a transaction
with its record (`recorded`). `pc[s]` follows the statements of `RunMigrations`:
`tracker`, `createTracker`, `exists`, `count`, `baseline` (a step per file), then per
file `check`, `exec` (possibly `blocked`), `commit` or `record`; `serve` is the
listening server, `dead` one that is down. A server goes down in `log.Fatal` over a
conflict (`Die`), or by `Crash` (bounded): it is killed, or a statement fails for a
reason of its own. It stays down unless somebody starts it (`Start`). The database at the start is new, made
by hand, or migrated by an earlier release with fewer files.

Postgres is modelled by what the code can see of it: uncommitted tables and
columns are invisible; who executes a file whose objects another transaction is
making waits (`InProgress`, `blocked`); afterwards `CREATE TABLE` reports 23505 (a
catalogue's unique index), `ADD COLUMN` 42701; without a race `CREATE TABLE`
reports 42P07. `CREATE TABLE IF NOT EXISTS` of the tracker looks first and can
lose the same race. Missing tables (42P01) and 23505 end the server,
42P07 and 42701 do not (`isAlreadyExists`).

The baseline takes a schema without records for a complete one. The properties
are therefore stated for `SoundStart`: what was made by hand is nothing or
everything. The other starts are explored too. TLC shows that a database with
only the first tables made by hand (the situation AI_USAGE.md tells of, before
all files were run) is recorded as migrated and served without the other tables,
and that if its baseline is interrupted the remaining files may fail on missing
tables at every start.

## Runs

| Run | Instance | Checks |
|---|---|---|
| `race` | 3 requests that are not all the same, 1 invoice, 2 keys, a charged and a rejected token, 1 webhook try that may be refused or fail, failing reads, 1 PSP restart | `OneLiveAttempt`, `ChargedOncePerPSPLife`, `RefIsTheCharge`, `FailedNeverCharged`, `PendingIndexNeverFires`, `RecordInv`, `SettledIsFinal`, refinement of `PaymentLedger` |
| `webhooks` | 2 requests with one key, of one business or two, for one invoice or two; a charged, a declined and a network-error token; 2 deliveries per event, declines notified; fairness | `TypeOK`, `IInv`, `TenantIsolation`, `OneAttemptPerKey`, `PaidIffSucceeded`, `AnswerMatchesRecord`, `ProcessedMeansSettled`, `SucceededHasEvent`, `EveryRequestAnswered`, `ChargeIsRecorded` |
| `outbox` | `Notification`: 2 attempts for 1 invoice, 2 workers that claim one event at a time, 2 tries per event, 1 redelivery each, 1 fault, fairness | `TypeOK`, `OneSuccessPerInvoice`, `ClaimedOnce`, `DeliveryBudget`, `DeliveredMeansAccepted`, `FailedMeansBudgetSpent`, `NotifyInv`, `SettledStaysSettled`, `EventSettles`, `PaymentIsAnnounced` |
| `api_keys` | 3 calls, 2 businesses | `TypeOK`, `ImmediateRevocation`, `KeysStayInTenant`, `RotationKeepsAKey`, `BootstrapOnlyWhenLockedOut` |
| `migrations` | 3 servers, 4 files (2 tables, 2 columns), 1 crash that may stay down, every start, fairness | `TypeOK`, `RecordedIsApplied`, `ServesFullSchema`, `AppliedInOrder`, `SomeServerComesUp`, `FreshStartComesUp` |

TLC tries every assignment of business, invoice, key and token to the requests,
up to two restrictions in `MCGateway`. `SomeRival`: in `race` the three are not all
the same (a payer with two identical retries is left to the proofs, to save time).
`OneKeyTwice`: in `webhooks` the first request pays its own invoice, and of two
different cards only a charged and a declined one are tried; the second may be a
retry, the key spent on a second invoice (then it waits for the first one's
uncommitted key row while it holds a lock, the one hold-and-wait of the code), or
another business's request. `RecordInv` compares the `psp_transaction_id` answered
with the stored one only until the PSP restarts (see *Answers*). Three requests are a payer, a retry and a rival, or a payer and
two racers; two deliveries are enough to overlap and to have one fail and one
repeat; two attempts make a first, a retried and a last try;
batches of two, checked once on this instance, add nothing that a claimed event
which is not yet being delivered does not show. Requests and keys
are interchangeable (symmetry), except in runs with liveness. Deadlock is not
checked: when all requests are answered nothing remains to be done, and that
none waits for ever is `EveryRequestAnswered`. Three calls are a key, a rotation of
it and a rival, or two creations and a call with one of the keys; with four calls
of one business (3.7 million states, too slow for a regular run) the same
properties hold. Three servers are one that works, one that waits for it and one
that crashes or comes late; four files are a table, one that refers to it and a
column of each, as in the repository's eleven.

The other seven runs show where the code departs from what the repository says;
TLC finds each property violated:

| Run | What the counterexample shows |
|---|---|
| `lost_failure_event` | FAILED is committed, the handler stops, `payment.failed` is never written (DESIGN.md: events are written within the payment transaction) |
| `original_key_refused` | a same-key racer locks the invoice after the settlement and is told "already paid" (DESIGN.md: the original key returns the record) |
| `swallowed_webhook` | a failed read marks the event PROCESSED, the attempt stays PENDING (comment in `chargeAndSettle`: a webhook settles it) |
| `stuck_delivering` | a failed try that is not recorded leaves the event DELIVERING for good (retry.go: attempt N+1 or FAILED follows) |
| `lost_redelivery` | a redelivery accepted while a worker has the event is overwritten (openapi.yaml: queue an event for redelivery) |
| `bootstrap_race` | two creations without a key both count no active key and both insert one (openapi.yaml: without Bearer only if the business has no active key); `BootstrapOnlyWhenLockedOut` is what does hold |
| `first_key_only` | a business revokes its only key and is given another one without a key (comment in `api_key_service.go`: only for the first key; openapi.yaml: after the first key, create requires auth) |

### Fairness

`FairSpec` of the payment path: a started handler goes on (`PayStep` or `CallPSP`, one
condition per handler, and `HookStep`), because goroutines are scheduled, Postgres grants locks in turn and
the HTTP client times out (`ChargeUnknown`); the PSP finishes a charge it began;
its webhook goroutine goes through its tries. Not fair: sending a request,
arrival of a call or a delivery, failures, refusals. `ChargeIsRecorded` therefore
excepts the charges whose sender gave up after its tries or was refused: nothing
else tells the gateway of them until the merchant retries. `FairSpec` of the outbox: time passes,
a worker goes on with its batch (a POST ends with its timeout), and a due event
is claimed in the end, since the poll takes those longest due first. `FairSpec` of the
migrations: a server that runs goes on; nobody is obliged to start a dead one
again (docker-compose.yml has no restart policy). So `SomeServerComesUp` says that
somebody serves if nobody crashes: those that died over a file leave one that got
further. If that one crashes for good, nobody serves; what is checked then is
`FreshStartComesUp`, that a server started while all others are down comes up,
whatever the crash left behind. `ApiKeys` has no
liveness property: a call that is dropped is `Fail`. Weak fairness suffices
everywhere.

## Proofs

Every safety property of the passing runs, invariant or action property, and the
refinement of `PaymentLedger` are proved for all values of the constants:

| Module | For all | Theorems |
|---|---|---|
| `PaymentGatewayProofs` | requests, businesses, invoices, keys, tokens, tries, restarts | `Invariance` (`IInv`), `TypeCorrect`, `OneLiveAttemptHolds`, `PaidIffSucceededHolds`, `SucceededHasEventHolds`, `PendingIndexNeverFiresHolds`, `RefIsTheChargeHolds`, `FailedNeverChargedHolds` |
| `LedgerRefinement` | the same | `SettledIsFinalHolds`, `RefinesLedgerHolds` |
| `GatewayRecordProofs` | the same | `RecordInvariance`, `AnswerMatchesRecordHolds`, `TenantIsolationHolds`, `OneAttemptPerKeyHolds`, `ProcessedMeansSettledHolds` (if reads do not fail), `ChargedOncePerPSPLifeHolds` |
| `OutboxProofs` | events, businesses, workers, batch size, budget, redeliveries, faults | `DispatchInvariance`, `OutboxTypeCorrect`, `ClaimedOnceHolds`, `DeliveryBudgetHolds`, `DeliveredMeansAcceptedHolds`, `FailedMeansBudgetSpentHolds`, `SettledStaysSettledHolds` |
| `NotificationProofs` | the same, and invoices | `ImplementsDispatcher`, `ImplementsLedger`, `NotifyInvariance`, `OneSuccessPerInvoiceHolds` |
| `ApiKeysProofs` | calls, businesses | `Invariance`, `TypeCorrect`, `ImmediateRevocationHolds`, `KeysStayInTenantHolds`, `RotationKeepsAKeyHolds`, `BootstrapOnlyWhenLockedOutHolds` |
| `MigrationsProofs` | servers, files, crashes | `Invariance`, `TypeCorrect`, `RecordedIsAppliedHolds`, `ServesFullSchemaHolds`, `AppliedInOrderHolds` |

Assumptions: those of the modules' constants, evaluated by the runs. For the payment
path the types of the constants and that `None`, requests and deliveries are
distinct; for the outbox the types, that `None` is no event, and
`BackoffAssumption`, that there is a delay before every try but the first (the
code has 8 attempts and 7 delays); for the keys that `None` is no id; for the
migrations that there is a file and that a file refers to earlier ones only.
No set is assumed to be finite.

*Payment path.* The properties are not inductive by themselves. That nobody inserts a second
pending attempt needs to know who is inside a transaction (`LockInv`: a lock is
held exactly between `FOR UPDATE` and the end) and that its checks are still
valid (`InvoiceInv`, `PendingIndexNeverFires`). That the handler settles the right
attempt needs `KeyInv` and `AttInv` (a key has one row, counting uncommitted ones,
and a handler's attempt has its request's key and hash). That a recorded outcome is
the PSP's needs `CallInv`, `EntryInv`, `OutcomeInv` and `HookInv`: a call carries the
attempt of its handler, the cache holds the entry of every charge since the last
restart, an outcome in hand is the outcome of an entry, and deliveries exist for
resolved charges only. Since one attempt is always charged with one token, an
attempt that was declined is never charged, restarts included.

The proof has a lemma per group of parts and kind of step (`PayTypes`, `PayKeys`,
`PayLocks`, `PayLedger`, `PayPSP`, ..., the pay handler's actions; `Other...` and
`Hook...` for the rest), with one case per action; `NextIInv` puts them together.

*Refinement.* `LedgerStep` says in terms of the tables what a step can be: `Unseen`,
or one attempt is `Opened`, `Succeeded` or `Declined`. The late cases carry the
argument: `persistSuccess` on a SUCCEEDED attempt finds the invoice PAID and the
event there (`PaidIffSucceeded`, `SucceededHasEvent`), so writing them again is a
stutter; a decline in hand is for a token the PSP does not charge. With the identity on
attempts and the sets of paid invoices and announced attempts as refinement
mapping, each of these is a step of `PaymentLedger`. `SettledIsFinal` falls out.

*Answers, webhooks, the PSP's lives.* `RecordInv` is inductive next to `IInv`.
`AnswerInv`: a merchant's answer can only go stale if the row changes after it, and
`SettledIsFinal` forbids that; a handler answers either from the row or with the
`psp_ref` in hand, and before a restart an attempt has a single charge, so both
are the same. After a restart they may differ: `persistSuccess` rereads the row and
puts the reference in hand over it, so two answers about one attempt may show two
charges of it. `AnswerMatchesRecord` says the one shown is always a charge made for
that attempt. `ProcessedInv`: a delivery that leaves `applyWebhook` has found the
attempt PENDING, or settled; settled the other way is impossible because one
attempt is always charged with one token (`FailedNotCharged`,
`DeclinedNotSucceeded`), and outcomes and settlements never change afterwards.
`LifeInv` counts: the charges made or being made for an attempt are at most the
restarts so far, and one more while the cache has an entry. A charge starts only
when there is no entry, a forgotten one (`failUncached`) takes its own back, and a
restart turns the cached one into a past one. An invoice's charges are all of its
one live attempt, which gives `ChargedOncePerPSPLife`: without a restart the card is
charged once.

*API keys.* A handler acts on what it read some statements earlier, so the
invariant says that this is still true: an owner and a business never change, a
key is issued once (`RowInv`, `HandlerInv`), and a revoked key stays revoked
(`RevokedInv`). Then a key that passes the middleware was active when it was sent
(`SentInv`); a rotation about to revoke has issued a newer key, so its target is
not the newest (`RotationInv`); a bootstrap that has passed the count can only
find earlier keys revoked (`BootstrapInv`).

*Migrations.* `SchemaInv` is the reason the baseline is safe: while nothing is
recorded the schema is empty or complete, because a file and its record are
committed together; a server that has seen `businesses` and then counts no record
therefore looks at a complete schema. `LoopInv` says that the files a server has
passed are recorded.

*Outbox.* Workers count failures from the `attempt_count` they claimed, so after a
redelivery several of them write counts that are stale. `BudgetInv` therefore
bounds the future as well: the tries made, those that the holders of an event may
still make (`HeldTries`, a set of worker and number pairs) and those of whoever
claims its row next never exceed one budget per delivery owed. A claim moves the
row's share to the worker, a try moves one from the future to the past, a retry
gives the rest back, a redelivery adds a budget. `FirstRoundInv` is exact where
there was no redelivery: one holder, a row that is DELIVERING, and a count that is
the number of tries; it yields `FailedMeansBudgetSpent` and `SettledStaysSettled`.
`ClaimInv` counts holders and a claimable row against the deliveries owed.

*Notification.* Each step of the composition is a step or a stutter of both parts
(`ImplementsDispatcher`, `ImplementsLedger`), so `DispatchInv` is inherited;
`LedgerInv` is the ledger's own invariant and `OutboxInv` ties the two: an event
exists only for a settled attempt, and always for a succeeded one.

Model-checked only: the liveness properties `EveryRequestAnswered`,
`ChargeIsRecorded`, `EventSettles`, `PaymentIsAnnounced`, `SomeServerComesUp` and
`FreshStartComesUp`, because fairness is outside what the proof system handles; and
what the seven violation runs show. That `Notification` may use the ledger for the payment path
rests on `RefinesLedgerHolds`.

## Not modelled

- Webhook signatures (`webhook/signature.go`): a keyed hash and a comparison of two
  clocks, without state. Authentic events are modelled; that one is refused all the
  same (its timestamp is too old) is `HookRefuse`, final for the sender.
- `GET /events`, `GET /events/{id}` and the other reads change nothing. The cursor
  of `ListByBusiness` has a hazard of its own, since `created_at` is the start of the
  inserting transaction and a row can become visible behind a cursor; but whether
  the statement runs at all depends on how Postgres types `$2`, which is compared
  with `''` and with a UUID column, which no test of the repository settles.
- Customers: one insert, never changed, read by `CreateInvoice` only.
- Amounts, currencies, payloads, failure codes, names, prefixes: no branch that the
  properties can see depends on them. The merchants' signing secret likewise.
- Configuration, logging, the connection pool, routing beyond the choice of
  middleware: no protocol state.

## Plan

1. A theorem that states the redelivery case of `SettledStaysSettled` and
   `FailedMeansBudgetSpent` as sharply as the code allows.
2. The signing secret in `SetEndpoint` for businesses older than migration 009.
