# Verification of the Blyss server

Blyss is a marketplace for Kenyan creators: products and subscriptions are sold
through a hosted checkout and paid by card or M-Pesa (Paystack) or by Stripe.
The server (`src/server/polar`, a fork of Polar.sh) is a FastAPI application
and a pool of dramatiq workers over PostgreSQL and Redis. Almost everything that
is hard about it comes from that arrangement: a purchase or a renewal is a
sequence of short transactions made by requests, background tasks, crons and
processor webhooks, each of which reads rows, calls a payment service in the
middle of its transaction, writes the columns it changed, and queues further
jobs after its commit.

This directory models the parts in which such steps can meet in a harmful order: the
sale of a checkout, the renewal of subscriptions, the payment of their orders, the
benefits and seats that come with them, the webhooks that tell sellers, and the
payouts. TLC checks each on small instances, and TLAPS proves every safety property
that these runs check for all instances. `PROJECT.json` is the index: components,
runs, mutants, the source lines behind every definition, findings, hazards and
theorems.

Paths below are relative to `src/server/polar` unless they begin with `src/`.

## Files

| File | What it is |
| --- | --- |
| `OrderPayment.tla` | payment of one subscription order: charges, webhooks, dunning |
| `OrderPayment_proofs.tla` | `TypeCorrect`, `PaidByChargeCorrect`, `LockHasChargeCorrect`, `PastDueIsScheduledCorrect`, `ChargedOnceCorrect`, `PaidKeepsSubscriptionCorrect` |
| `SubscriptionCycle.tla` | renewal of one subscription: scheduler, cycle task, requests, billing |
| `SubscriptionCycle_proofs.tla` | `TypeCorrect`, `PendingHasJobCorrect`, `ActiveIsBilledCorrect`, `PeriodsDisjointCorrect`, `BilledOnceCorrect` |
| `PaystackCheckout.tla` | checkouts paid with Paystack, external events, expiry, a limited discount |
| `Purchase.tla` | what a checkout promises; `PaystackCheckout` implements it |
| `PaystackCheckout_proofs.tla` | `TypeCorrect`, `SucceededIsSoldCorrect`, `SoldHoldsDiscountCorrect`, `HandledIsSoldCorrect`, `KeepsPromiseCorrect` |
| `BenefitGrants.tla` | the grants of one benefit by several purchases, and the access outside |
| `BenefitGrants_proofs.tla` | `TypeCorrect`, `EntitledKeepsGrantCorrect`, `GrantedHasAccessCorrect`, `AccessIsGrantedCorrect` |
| `CustomerSeats.tla` | the seats of a seat-based subscription and the access of their members |
| `CustomerSeats_proofs.tla` | `TypeCorrect`, `AssignedWithinLimitCorrect`, `AccessHasSeatCorrect`, `SeatHasAccessCorrect` |
| `WebhookDelivery.tla` | webhooks to one endpoint of a seller, in order and with retries |
| `WebhookDelivery_proofs.tla` | `TypeCorrect`, `AttemptedInOrderCorrect`, `AttemptsBoundedCorrect`, `PendingHasMessageCorrect` |
| `Payouts.tla` | payouts of one seller account: balance, transfer, attempts, cancellation |
| `Payouts_proofs.tla` | `TypeCorrect`, `BookedWithinEarnedCorrect`, `TransferIsBookedCorrect`, `PaidWithinAmountCorrect` |
| `Sums_proofs.tla` | lemmas on sums over finite sets, which `Payouts_proofs` rests on |
| `MC*.tla`, `MC*_*.cfg` | the instances of these for TLC |

In all specifications an operator that comes right before another one and whose
comment begins with "Slip:" is a mutated form of it: the way a plausible mistake
would change the code. The specifications never use them. They are there to
show, one property at a time, that the property notices the mistake.

## Inventory

### How the parts work together

* **Requests** run in one transaction per request. `get_db_session`
  (`postgres.py:83`) commits after the handler has returned, thus after any lock
  taken inside the handler was released. Jobs collected during the request are
  flushed after the commit (`middlewares.py:135`).
* **Tasks** run in an `AsyncSessionMaker` that commits on exit
  (`worker/_sqlalchemy.py:105`); their jobs are flushed after the task. A task
  that raises is rolled back and delivered again with a growing delay, and given
  up after a number of retries. A worker that dies leaves the message to be
  delivered to another.
* **Transactions** are READ COMMITTED without version checks. A session keeps
  the rows it has read; on commit only the columns it changed are written. Two
  of them that change different columns of one row merge, two that change the
  same one overwrite each other.
* **Locks** are row locks (`FOR UPDATE NOWAIT`, or the row lock an `UPDATE`
  holds until its transaction ends) and Redis locks with a timeout that is not
  renewed (`locker.py`).
* **Processors** answer a request at once (Paystack) or by a webhook that may
  come before, long after, or never (Stripe). Webhooks are stored as external
  events and handled by a task.
* **Crons** find rows by their dates: due subscriptions, orders whose next
  attempt is due, expired checkouts, payouts to be triggered.

### Components

For each part: its state, its operations, what is hard, what makes it correct.
`PROJECT.json` lists them with their files.

**Order payment and dunning** (`order/`, `integrations/stripe/payment.py`).
State: the order's status, `next_payment_attempt_at`,
`payment_lock_acquired_at`; the payments recorded for it; the subscription's
status and `past_due_at`. Operations: `trigger_payment`,
`process_retry_payment`, `handle_payment`, `handle_payment_failure`,
`process_dunning`, `process_dunning_order`, `void`. Hard: the charge happens in
the middle of a transaction and is not undone with it; its webhook races the
task; the lock spans transactions; late failures act on stale rows. Correct when
an order is paid only by money received, the customer is charged once, no lock or
date is left behind, and a failed order is eventually paid, voided, or its
subscription revoked. *Modelled.*

**Subscription cycle** (`subscription/`, `billing_entry/`). State: the
subscription's status, period, trial, cancelation and `scheduler_locked_at`; the
billing entries and the order item of each; two Redis locks. Operations: the
scheduler's list, lock and send; `subscription.cycle`; the requests that cancel,
uncancel, revoke, start or end a trial, extend a period, change seats, product or
interval; `order.create_subscription_order`. Hard: requests read before they lock
and commit after they unlock; the cycle's lock expires after a second; a message
that finds the lock taken is dropped; jobs are flushed after the commit. Correct
when no moment is charged twice without a credit and no entry billed twice, nothing
due is forgotten, and an ended or canceled subscription is not renewed. *Modelled,
without amounts.*

**Checkout, Paystack, external events, discounts** (`checkout/`,
`checkout_link/`, `cart/`, `integrations/paystack/`, `external_event/`,
`discount/`, `trial_redemption/`). State: the checkout (open, confirmed,
succeeded, failed, expired), its redemption of a discount, the stored events, the
order it leads to. Operations: create, update and confirm under a row lock;
`handle_success`, `handle_failure`; the Paystack tasks; the expiry cron. Hard:
two events for one checkout, a payment that arrives after the expiry or after a
reported failure, the check for an existing order without a lock. Correct when a
successful payment leads to exactly one order and a limited discount is redeemed
by no more purchases than it allows. *Modelled for
Paystack, without prices.*

**Stripe integration** (`integrations/stripe/`, `payment/`, `payment_method/`).
Webhook tasks for charges, refunds, disputes, payouts and accounts. An environment
of the models: charges of renewals, transfers and payouts, and their events.

**Benefits and grants** (`benefit/`). State: a grant per benefit, customer and
purchase; access in external services. Operations: grant, revoke, update and
delete, each a task per benefit. Hard: several purchases share one access;
grants fail and are retried; a purchase is revoked while it is granted. Correct
when a customer has access exactly as long as one of their purchases gives it.
*Modelled for one benefit, with the strategy of GitHub repositories.*

**Customer seats** (`customer_seat/`). Assign, claim, resend, revoke. Hard: the
seats are counted and then taken without a lock, reused when revoked, and their
benefits follow by jobs. Correct when no more seats are taken than bought and access
goes with the seat. *Modelled for subscriptions.*

**Refunds, disputes, wallets, ledger** (`refund/`, `dispute/`, `wallet/`,
`transaction/`, `processor_transaction/`). State: refunds, the refunded amount of
an order, ledger transactions that sum to balances. Hard: the refund is asked for
before it is recorded, its webhook may come first; amounts are added to what was
read. Correct when the ledger agrees with the processor and a balance is spent
once. *Not modelled yet.*

**Payouts, accounts, held balances** (`payout/`, `account/`, `account_credit/`,
`held_balance/`). State: payouts, their attempts, the ledger. Operations: create
under a Redis lock, transfer, trigger by cron, cancel, webhooks. Hard: the lock
is released before the commit, attempts are retried after crashes, cancelation
races the cron. Correct when a balance is paid out once. *Payouts are modelled, held
balances not yet.*

**Outgoing webhooks** (`webhook/`). State: endpoints, events, deliveries. Hard:
delivery in order of creation with retries; endpoints disabled after failures.
Correct when events of an endpoint are delivered in order, each at least once or
given up. *Modelled.*

**Usage billing** (`meter/`, `customer_meter/`, `event/`, `event_type/`,
`billing_entry/tasks.py`). Debounced recomputation of a customer's meters under a
row lock over a time window. Correct when every event is counted once. *Not modelled
yet.*

**License keys** (`license_key/`): activation and usage limits are read and then
written. *Not modelled yet.*

**Background worker and locks** (`worker/`, `locker.py`). Their contract (commit,
then flush; at-least-once delivery; retries given up; locks that expire) is part
of every model. Debouncing is not modelled yet.

**Organizations and their review, catalogue, customers and portal** (
`organization/`, `organization_review/`, `user_organization/`, `product/`,
`category/`, `creator_category/`, `custom_field/`, `file/`, `review/`,
`wishlist/`, `customer/`, `customer_portal/`, `customer_session/`, `member/`,
`member_session/`): rows that are created, read, updated and deleted, without a
protocol between requests. Blocking an organization enters as an event.

**Donations, pledges, campaigns, newsletters** (`donation/`, `pledge/`,
`campaign/`, `newsletter/`, `creator_waitlist/`): donations are a small variant
of Checkout; the others have no payment logic in use.

**Authentication** (`auth/`, `oauth2/`, `user/`, `login_code/`, `email_update/`,
access tokens): its correctness is a matter of security, out of scope here.

**Output and reading** (`notifications/`, `notification_recipient/`, `email/`,
`invoice/`, `tax/`, `eventstream/`, `cli/`, `analytics/`, `metrics/`, `search/`,
`marketplace_stats/`, `observability/`, `health/`, `backoffice/`,
`runtime_settings/`, and the clients under `integrations/` for GitHub, Discord,
Google, Apple, Plain, Loops, ChargebackStop, AWS and Tinybird): no state that
another part depends on, or calls out of the system.

**Outside the server** (`src/clients/web`, `src/k8s`, `src/dev`, `src/plan`,
migrations and scripts): a web client without state of its own, deployment and
documents.

## How a transaction is modelled

A task or request is a worker's record `task[w]` with a `step`, the rows it has
`seen`, and what it computed so far. Beginning reads the committed rows;
committing merges: a column is written if its new value differs from the one seen
or the code assigns it in a way that marks it as changed whatever it was (those
are the "flags"), otherwise the committed value stays. So every interleaving of
two sessions on the same row is a behaviour of the model, and a stale read shows
up as it does in PostgreSQL. A transaction is split where its order relative to
others matters: before and after it takes a lock, after the processor has been
called, after its commit and before its jobs are flushed. Anything in between
touches no shared state and is one step with the commit.

### OrderPayment

| State | Code |
| --- | --- |
| `order` | `status`, `next_payment_attempt_at`, `payment_lock_acquired_at`, `stripe_invoice_id`, whether the amount is below Stripe's minimum |
| `sub` | `status`, ticks until `past_due_deadline`, `ended_at`, whether a payment method exists |
| `rowLock` | who holds the row of the order since its `UPDATE` of the lock column |
| `charge` | per charge: its state at the processor and that of its webhook |
| `triggers`, `dunnings` | queued `order.trigger_payment`, `order.process_dunning_order` |
| `credits` | wallet entries written for amounts below the minimum |
| `task` | what each worker executes |

| Action | Code |
| --- | --- |
| `TriggerBegin`, `TriggerWithoutMethod`, `TriggerRefused`, `TriggerSkipped`, `TriggerCredit` | `order/tasks.py` `order.trigger_payment`, the early returns of `trigger_payment` and the credit below the minimum |
| `ManualBegin`, `ManualEnd` | `process_retry_payment` |
| `AcquireLock`, `LockRefused` | `acquire_payment_lock` |
| `CreateCharge`, `CreateChargeInvalid`, `KeepLock`, `PaidAtOnce`, `ChargeDeclined`, `ChargeInvalid` | the call of the processor and what follows its answer |
| `SettleCharge`, `HookBegin`, `HookSucceeded`, `HookRefused`, `HookFailed` | the processor, and the webhook task with `handle_payment` and `handle_payment_failure` |
| `Cron`, `DunningBegin`, `DunningCanceled`, `DunningWithoutMethod`, `DunningTriggers` | `order.process_dunning`, `order.process_dunning_order` |
| `VoidBegin`, `VoidCommit`, `Revoke`, `RemoveMethod`, `AddMethod`, `SetBlocked` | requests that change these rows |
| `Crash`, `Raise`, `Rollback` | a worker that dies, a task that fails and is retried or given up |
| `Tick` | time, in the unit of `RetryIntervals` |

Time stands still while a message or task is under way (tasks last seconds, the
intervals days), unless "backlog" lets it pass.

### SubscriptionCycle

| State | Code |
| --- | --- |
| `sub` | `status`, `cancel_at_period_end`, `ends_at`, `ended_at`, `current_period_start`, `current_period_end`, `recurring_interval` (of the product as well, written with it), `trial_end`, `scheduler_locked_at` |
| `entries` | billing entries: a renewal or a proration that charges, credits or does either, what it covers and the order that bills it |
| `orders` | per order, the entries its amount includes |
| `cycles`, `jobs` | queued `subscription.cycle`, `order.create_subscription_order` |
| `scheduler` | where the scheduler is with the subscription: listed, locked |
| `cycleLock`, `apiLock` | the Redis locks of the cycle task and of the requests |

| Action | Code |
| --- | --- |
| `ListDue`, `LockDue`, `SendCycle`, `SchedulerCrash` | `subscription/scheduler.py` |
| `CycleDropped`, `CycleBegin`, `CycleSkipped`, `CycleCommit`, `LockExpires` | `subscription/tasks.py` `subscription.cycle` with `cycle` of the service |
| `RequestBegin`, `RequestLock`, `RequestRefused`, `RequestUnlock`, `RequestCommit` | `subscription/endpoints.py` with the service's handler of each request (`Accepted`, `Updated`, `Inserted`, `Invoices`) |
| `UpdateProduct`, `ChangeInterval`, `ProductProration` | `subscription/update.py`, `models/subscription_update.py`: a product of the same interval keeps the period's start, one of another begins a period at once |
| `OrderBegin`, `OrderCommit` | `create_subscription_order` and `create_order_items_from_pending` |
| `Finish` | the flush of the jobs after the commit |
| `PaymentFails`, `PaymentSucceeds`, `PaymentGivenUp` | what the payment of a renewal (OrderPayment) does to the subscription, in one step |

A product has one price that is not metered: a fixed one, or with "seat_priced" one
by seats. Only a fixed price is prorated when the product changes: what is left of the
period is credited and the new period, from now on, is debited. A change of interval
is invoiced at once whatever the request says, with all entries that are pending.

### PaystackCheckout and Purchase

| State | Code |
| --- | --- |
| `checkout` | `status`, whether a customer is attached, `charge_reference` and `charge_status` in the metadata |
| `late` | checkouts whose `expires_at` has passed |
| `redemptions` | `DiscountRedemption` rows of a discount all checkouts use; nothing keeps a checkout from having several |
| `orders` | how many orders `handle_success` created for each |
| `payments` | transactions at Paystack: by the popup, which carry the checkout's id, or by `/charge`, which leave a reference |
| `events`, `jobs`, `retries`, `freeJobs` | the external event of a transaction, the message of its task, how often it was retried; `checkout.handle_free_success` |

| Action | Code |
| --- | --- |
| `ConfirmBegin/Commit/Refused`, `Charge`, `AbandonBegin/Commit`, `PollBegin/Commit`, `HealCommit` | `client_confirm`, `client_charge`, `client_abandon`, `client_payment_status`, `client_get` of `checkout/endpoints.py` and the service behind them |
| `OpenPopup`, `Pay` | the buyer's browser and Paystack |
| `DeliverBegin/Commit/Flush`, `Resend`, `Prune` | the webhook with `enqueue`, the backoffice, the cron |
| `TaskRefused`, `TaskBegin`, `ReadCheckout`, `Unverified`, `IgnoreCharge`, `SuccessCommit`, `FailedCommit` | `handle_paystack` with `charge_success` and `charge_failed` |
| `FreeBegin/Commit`, `PassExpiry`, `ExpireOpen`, `Crash` | free checkouts, `expire_open_checkouts`, a process that dies |

A confirmation reads the checkout and then locks it and its discount with
`FOR UPDATE NOWAIT`. The lock keeps two confirmations from writing at the same time, but
the row is in the session already and is not refreshed: the status that is tested, and
the metadata that is written back, are those read before the lock. `ConfirmBegin` is
the reading and its guard, `ConfirmCommit` what happens under the locks, where only
the discount's redemptions are counted anew. All else that touches a checkout reads it,
asks Paystack and commits, without a lock; "overlap" lets such sessions meet on one
checkout.
`Purchase` has six actions on three variables: a checkout is confirmed with a unit
of the discount, reopened, sold or expired. The refinement (`KeepsPromise`) maps
the status, with "sold" for whatever has an order, the number of orders and the
redemptions; `exclusive` is the absence of overlap. Under overlap `Purchase` lets
a checkout `Race`: it may be sold twice, confirmed after it was sold or has expired,
and hold several units, but is never unsold nor over the limit.

### BenefitGrants

| State | Code |
| --- | --- |
| `active`, `deletion` | a purchase gives the benefit; the benefit is deleted |
| `grants` | one row per purchase: `granted_at`, `revoked_at`, `error`, `account_id` and `granted_account_id` |
| `access` | accounts that have access at the outside service |
| `messages` | messages of the `benefit.*` tasks; a set, as a second copy of a message finds nothing to do |

`Change` is what a purchase, its end or a change of product does by
`enqueue_benefits_grants`; `EnqueueStart` and `EnqueueStop` are that task;
`Connect` the portal and the OAuth callback; `DeleteBenefit`, `EnqueueDeletions`
the deletion. A task of a grant is `Skip`ped or goes through `Begin` (the row is
read, granted ones counted), `CallGrant`, `CallRevoke` or `CallFails` (the outside
service) and `Commit` (changed columns are written). With "uninstall" a call may be
`Unable` to do anything: the installation of the GitHub App cannot be read, or the OAuth
account is gone, and the strategy raises `BenefitActionRequiredError`. A grant records
that as its error; a revocation passes over it and revokes the grant. One task at a
time runs for the customer unless "parallel".

### CustomerSeats

| State | Code |
| --- | --- |
| `active`, `limit`, `pendingUpdate` | the subscription, its number of seats now and from the next period |
| `seats` | rows: `status`, customer and member, invitation token |
| `jobs`, `access` | `benefit.enqueue_benefits_grants` of each member, who has the benefits |

`Assign`, `Claim`, `Revoke` and `Update` have a `Begin` that reads and checks and a
`Commit`; `EndBegin` is the end of the subscription, which commits like a
revocation of all seats; `NextPeriod` applies a pending update; `Handle` executes a
job. Which requests meet on the same seat or member is a matter of the
environment (`Apart`).

### WebhookDelivery

| State | Code |
| --- | --- |
| `enabled` | the endpoint |
| `sent` | events in the order of `created_at`: committed and flushed or not, `succeeded`, `skipped`, archived, number of deliveries, older than the guard's maximum age |
| `messages`, `redeliveries`, `failures` | messages of `webhook_event.send`, the same with `redeliver`, and of `webhook_event.failed` |

`Send`, `Commit`, `Flush`, `Age` bring events in; `SendSkipped`, `SendNothing`,
`SendBegin`, `SendSucceeded`, `SendFailed`, `Crash` are `_webhook_event_send`, which
commits the delivery before it raises the `Retry`; `OnEventFailed` disables the
endpoint after a streak of failures; `Archive`, `UpdateEndpoint` and
`RedeliverEvent` are what their names say.

### Payouts

| State | Code |
| --- | --- |
| `earned`, `balance` | income, and the sum of the account's transactions |
| `lock` | the Redis lock `payout:<account>` |
| `payouts`, `attempts` | the rows; a payout's status is computed from its attempts, as the database trigger does |
| `created`, `triggers`, `events` | messages of `payout.created`, `payout.trigger_stripe_payout` and Stripe's events |
| `transfers`, `paid` | what Stripe did: transfers to the seller's account, payouts from it |

`CreateSum`, `CreateNumber`, `CreateInsert`, `CreateCommit` are `create`: the
balance is read, the payouts are counted for the invoice number, the row is
inserted and the lock released, and only then the request commits. `Transfer`,
`TransferCommit` are `payout.created`; `TriggerPayouts` the cron; `TriggerTooEarly`,
`TriggerRefused`, `TriggerPayout`, `TriggerCommit` its message; `UpdateFromStripe`,
`SyncWithProvider`, `Retry`, `Cancel`, `CancelCommit` the webhooks and the
backoffice.

### Environments

Every module knows a set of events that may or may not happen: crashes, manual
retries, late or early webhooks, overlapping requests, declines and so on
(`AllEvents`). Init chooses one of the sets in the constant `Environments`, and
the events outside it do not happen in that behaviour. A property that the code
does not keep under some events says so with `Without({...})`. This is how the
properties stay honest: each is claimed for as many events as it holds for, the
events it excludes are named in its definition and explained here, and each
safety run contains for each property environments in which it is claimed.

## Properties and what the runs show

### order_safety

Two workers, two charges, intervals <<1, 2>>, eleven environments. Two workers are
enough for every race of a task with a webhook, a cron or a request; two charges
for an attempt and its retry, at once or in turn; intervals of different length
for both branches of dunning and for the deadline. One message of each actor may
be queued while another is executed, which is what the cron, a crash or a retry
adds.

| Property | Says | Not claimed under, and why |
| --- | --- | --- |
| `PaidByCharge` | a paid order has a charge that succeeded, or a credit | |
| `ChargedOnce` | at most one charge succeeds | crash (the lock is rolled back, the charge is not), manual (the lock is released on success), backlog and late_hook (the failure of an earlier attempt releases the lock of a later one; with late webhooks alone this takes four charges, which the run does not have) |
| `LockHasCharge` | the lock of a pending order has a charge whose webhook will clear it | early webhooks of charges that were processing: they commit before the lock is written |
| `PastDueIsScheduled` | a past due subscription's order has a date for its next attempt | stale webhooks, processing charges, revocations, final orders: the failure finds a date, or none, that another attempt wrote |
| `PaidKeepsSubscription` | no step takes the active subscription of a paid order away | stale and manual failures; a revocation that was asked for |

"Stale" are crash, backlog and late_hook: a webhook whose row was read before a
later attempt. A late webhook is real (Stripe retries for days), but the model
does not claim what the code does not keep.

### order_liveness

`DunningEnds`: an order with a date for its next attempt is eventually paid or
void, or its subscription is revoked. Fairness: workers end their tasks and take
messages again after failures (strong, as a task that was refused is delivered
again), the processor settles every charge, the webhook of each is handled, the
cron runs hourly and time passes. These are what dramatiq's retries, Stripe's
webhooks and the scheduler provide. Three charges: one more than there are
intervals, so that the deadline ends dunning and not the lack of charges. It is
not claimed for events that lose an attempt for good (a lost job, a crash), keep
it processing for ever, or end the subscription otherwise.

### cycle_safety

Two workers, `Intervals` {1, 2}, `Interval` 2, `Horizon` 4, `MaxEvents` 2, six
environments: two periods can end, each with an inner instant for requests in the
middle; a product may be changed to a shorter interval and back; two events are the
least for two requests that overlap, or a request and a crash.

| Property | Says | Not claimed under, and why |
| --- | --- | --- |
| `PeriodsDisjoint` | no moment is charged twice, by renewals or by the debit of a new product, without a credit in between | trial_set (the trial may be moved into a paid period), lock_expires, overlap with requests that move the period (trial_now, extend, interval), seat_priced with interval |
| `ActiveIsBilled` | the period an active subscription is in has the entry of a renewal, or the debit of the product it was changed to | seat_priced with interval: a price by seats is not prorated, and the new period has neither |
| `BilledOnce` | an entry is part of one order's amount | all events that let two order jobs, or a job and an immediate invoice, run at once: payments, backlog, extend, trials, invoices and changes of the interval. So it shows that nothing else makes them meet, and not what the race itself does |
| `PendingHasJob` | a renewal without an order has a job that creates it | a crash between commit and flush |

### cycle_liveness

`DueIsCycled`: a due subscription is renewed or ended. Fairness: the scheduler
takes its steps, workers end their tasks (weak) and take each kind of message again
and again (strong, since crashes put messages back). Overlapping requests, changes of the
interval, crashes and locks that expire happen; not claimed when the scheduler dies
between commit and send, or when a message is dropped because the Redis lock outlives
a commit that left the subscription due again (trials, backlog, extended periods,
payments that recover, changes of the interval that overlap). Without these a message
is hardly ever dropped and a lock hardly ever expires under a task that is needed: what
the run shows is that the scheduler's lock is always followed by a task that clears it,
through crashes and stale requests.

### pay_safety

Two workers, two checkouts that share a discount with one unit, two payments, one
retry per task, two events, eight environments. Two payments are needed for a decline
followed by a success, or a popup and a charge; one unit for two checkouts, so that
each release matters; one retry, so that a message can be given up.

| Property | Says | Not claimed under, and why |
| --- | --- | --- |
| `SucceededIsSold` | a checkout has succeeded exactly when it has exactly one order | sessions that overlap (see `pay_two_orders`); a confirmation that read an open checkout writes `confirmed` over a sale |
| `SoldHoldsDiscount` | a checkout that awaits its payment or was sold holds its unit of the discount | overlap: a failure that read the row earlier frees it; charge: a charge polled while the checkout is open completes it without a redemption |
| `HandledIsSold` | an event of a paid popup counts as handled only when its checkout was sold | outage: when Paystack cannot be asked for long enough the task ends well |
| `KeepsPromise` | the checkout implements `Purchase`: its first half without overlap, `Race` with it | |

### pay_liveness

`PaidIsSold`: a payment in the popup is followed by an order. Fairness: tasks and
requests end (weak); Paystack repeats a webhook until it is accepted, and each
message has its turn (strong, since other requests occupy the two workers of the
model in between). With crashes, expiry, overlapping sessions and duplicates of
events that were pruned. Not claimed when the checkout is reopened by an
abandonment or a decline (see `pay_reopened`), when Paystack stays silent, or when
the job of an event is lost (only an operator resends it).

### webhook_delivery

Two workers, two events, two attempts, a streak of two, two events of the
environment. A streak as long as the events lets the endpoint be disabled.

| Property | Says | Not claimed under, and why |
| --- | --- | --- |
| `AttemptedInOrder` | no event of the last minute is overtaken by a later one's first delivery | late_commit: an event older by `created_at` whose transaction commits later is not seen |
| `AttemptsBounded` | no more than `WEBHOOK_MAX_RETRIES` deliveries | a redelivery, a crash after the commit of the delivery, or a slow worker adds one |
| `PendingHasMessage` | a pending event that is neither skipped nor archived has a message | a job lost after the commit |
| `EventSettles` | a queued event is eventually accepted, failed or skipped | |

The fairness of `EventSettles`: transactions and posts end, time passes, the queue
gives every message its turn (strong: a later event's message is only taken once
earlier ones have a delivery or are old).

### grants_lifecycle

Two purchases, two accounts, two workers, two events, eight environments. Two
purchases are what it takes to count fewer than two.

| Property | Says | Not claimed under, and why |
| --- | --- | --- |
| `GrantedHasAccess` | the account of a grant has access, or a message will revoke the grant | parallel: a grant and a revocation call the outside service in either order; switch: an update of a grant takes its previous account away without counting the others; once the benefit is deleted, hasty and late_connect: a grant that comes after the deletion has looked for grants; uninstall with either: a grant that fails while it is granted is not counted, and the only other one is taken for the last |
| `AccessIsGranted` | access belongs to a grant or to a message on its way | parallel: two revocations both count two; switch; uninstall: the revocation is passed over and the access stays; once the benefit is deleted, hasty together with crash: the worker dies after the call and the message it leaves finds the benefit gone |
| `EntitledKeepsGrant` | a grant goes only when the purchase ended or an update of it failed, as when the customer disconnected | hasty: a stop and a start of one purchase that overtake each other |
| `EndedIsRevoked` | the grant of an ended purchase is eventually revoked | hasty; late_connect: a grant that waits for an account is not revoked, and granted later |
| `EntitledIsSettled` | a purchase is eventually granted, or waits for the customer | hasty |

Fairness: messages are taken as long as there are any, calls return and commit
(all weak). Tasks that fail more than twenty times are not modelled.

### payouts_lifecycle

Two workers, two payouts, two units earned, one event, seven environments. Two
payouts suffice for a balance booked twice and for one payout that waits behind
another.

| Property | Says | Not claimed under, and why |
| --- | --- | --- |
| `BookedWithinEarned` | booked payouts and balance add up to what was earned | overtaken: another request commits between the sum and the number, so both get numbers; impatient: a payout canceled twice, later or at once, is credited twice |
| `TransferIsBooked` | a transfer that was not reversed belongs to a payout that was not canceled | early_cancel: a cancellation that reads before the transfer is committed |
| `PaidWithinAmount` | no payout is paid out more than once | crash between Stripe and the commit; backlog: the cron triggers again; impatient retries |
| `PayoutIsTriggered` | a payout is eventually tried | lost jobs and events that withdraw or delay it |
| `PaidIsRecorded` | what Stripe has paid is eventually recorded | crash (the attempt was rolled back); reorder (`payout.updated` after `payout.paid`) |

Fairness: requests and tasks end, messages and events are handled, the cron runs
and `ACCOUNT_PAYOUT_DELAY` passes (weak).

### seats_assignment

Two members, two workers, up to two seats, three assignments: one more than seats,
so that a revoked row is reused.

| Property | Says | Not claimed under, and why |
| --- | --- | --- |
| `AssignedWithinLimit` | seats assigned exceed those sold by at most the requests at the same time, less one | next_period and resize: a reduction is checked when it is asked for, and not when it takes effect |
| `AccessHasSeat` | who has access has a claimed seat, once their jobs are done | double and collide (a seat claimed or reused while it is revoked loses its member), reorder and lost_job (of the jobs) |
| `SeatHasAccess` | who has a claimed seat has access, once their jobs are done | the same |

With more than one request at a time the code does not keep the plain limit; the
bound says by how much it fails. next_period and resize matter from three seats on.

### Violations: where comments disagree with the code

Each run checks one statement of the repository and TLC finds a behaviour of the
code that breaks it.

| Run | Statement | What happens |
| --- | --- | --- |
| `pay_two_orders` | `handle_success` "is idempotent ... so retries / poll-races are safe" | two requests read the confirmed checkout, ask Paystack, and complete it both |
| `pay_reopened` | "Update checkout status to confirmed if not already" | the call that should do it raises a `TypeError`; the payment of a reopened checkout is given up |

Other disagreements, seen while modelling, without a run:

* *Orders.* The first failure uses retry interval 0 and the n-th recorded failure
  interval n, so that with <<2, 5, 7, 7>> the second attempt comes after 9 days, not
  "7 days (2 + 5)" (config.py:510-515); manual retries count too. A manual retry
  releases the lock before its charge is resolved. The exception of a declined
  Paystack renewal is swallowed and no failure recorded, although they "will be
  handled by the dunning process" (order/tasks.py:127). The failure of a final order
  reopens an ended subscription. `void` leaves `next_payment_attempt_at`.
* *Subscriptions.* The cycle of a trial that is to end sets `ended_at` and then
  `active`. A trial given to an active subscription may be shortened to before the
  end of the paid period. Two requests that end a trial bill two first periods, as
  rows are read before the lock and committed after it. Two order jobs bill the same
  entries. `trial_set` leaves the `ends_at` of a canceled subscription; a product
  update takes back an extension of the period. A product priced by seats is not
  prorated: the change of its interval is refused (`NoPendingBillingEntries`) when
  nothing is pending, and otherwise begins a period that nobody is charged for and that
  overlaps the paid one. Changes of the interval that overlap leave a row of which one
  wrote the start and another the end; its renewal may leave it due again while the
  Redis lock is held, and the next message is dropped.
* *Checkouts.* `_handle_verification_failure` expects references that begin with
  `checkout_`, while they are generated as `blyss_`: it never reopens anything. An
  abandonment leaves `charge_reference`, which its docstring says is cleared.
  `_lock_checkout_update` is to "reload fresh from database" (checkout/service.py:2107),
  but the query does not ask for it (`populate_existing`): a second confirmation tests
  the status it read before, writes `confirmed` over `succeeded` or `expired`, and
  redeems the discount once more.
* *Benefits.* A grant that waits for the customer's account is not revoked with its
  purchase, and granted when the account is connected, although "subscriptions
  automatically revoke customer benefits" (refund/schemas.py:61-62). A switched
  account is revoked without counting the other grants that use it. A revocation that
  raises `BenefitActionRequiredError`, since the GitHub App was uninstalled or the OAuth
  account is gone, marks the grant as revoked while the access stays; and a grant that
  fails for that reason is not counted, so that the end of another purchase takes the
  access from one that still gives it. `benefit.delete_grant` passes over that error too.
* *Seats.* A claim that meets a revocation leaves a claimed seat without a member,
  whose benefits nobody revokes. Seats can be assigned after the subscription ended.
* *Payouts.* The cron does not leave out canceled payouts. The transfer to Stripe has
  an idempotency key, the payout has none, and `PayoutAlreadyTriggered` is declared
  and handled but never raised.

## What is proved

Every safety property of a passing run is a theorem: `TypeOK` of each component, the
invariants, the two action properties (`PaidKeepsSubscription`,
`EntitledKeepsGrant`) and the refinement of `Purchase`. They hold for all values of
the constants: any set of workers, any number of charges, payments, payouts,
purchases, members or events, any intervals, limits and environments. The
assumptions are named in the modules that declare the constants and say little:
`Nobody` is no worker, `NoCharge` no charge, numbers are naturals, intervals and
periods are positive, environments are sets of events. Sets are assumed to be finite
only where the code or the property counts them: charges, the workers of seats and
payouts, the purchases of a customer. TLC evaluates the assumptions in the runs, whose
modules extend the modules that declare them.

Each proof has the same shape: an inductive invariant, which contains the property
and what it takes to keep it, a lemma that Init implies it, one that a step keeps
it, with a case for each action, and the theorem that combines the two. Where actions
are many, lemmas named `...Fields`, `...Effect` or `...Type` state first what an action
does to the columns in question, and the invariant's proof uses only those. Properties
that are claimed without some events have an invariant under the same condition.

### OrderPayment

* `TypeCorrect` needs `HooksOK`: a worker that handles a webhook has a charge whose
  webhook is pending, and no two workers the same one, so that each handler ends
  the webhook it began.
* `PaidByChargeCorrect`: a task may write a status that it computed from a row read
  long ago. `PaidInv` adds that whatever makes an order paid is there already when a
  task has *seen* the order paid or holds Paystack's answer that it was charged.
* `LockHasChargeCorrect`: `HoldInv` says who holds the row's lock and that they have
  seen the order pending; `SeenInv` that an order once read as paid or void stays
  so; `SettlingInv` that a charge under way has no webhook yet. With these `LockInv`
  extends the property to the task that has charged and is about to commit its lock.
* `PastDueIsScheduledCorrect`: `PastInv` says that one attempt at a time is on its
  way (`TokenOK`: a message, a task, a charge to be reported, or a date), and that
  whoever may fail it has read the subscription and the date as they are.
* `ChargedOnceCorrect`: `OnceInv` replaces "one charge succeeds" by "one charge is
  open", where it stays when its webhook has been handled. While one is open, the
  order is settled or locked, or the task that charged has not committed, or no
  attempt is left; and a task that could still charge has read a state in which
  none was open.
* `PaidKeepsSubscriptionCorrect`: an action property, from an invariant that looks
  ahead. `KeepInv` says that once the order is paid nobody is left who has read it
  unpaid and may still fail its payment (`SettledOK`); for this, who works while the
  subscription is canceled must have read it canceled (`FreshOK`), so that no stale
  commit makes it active again and opens a second attempt.

### SubscriptionCycle

* `PendingHasJobCorrect`: `JobsInv` says that a waiting entry is `Covered` by a queued
  job, a task that has committed and not yet flushed, or an order task that has read
  *this* entry. Whoever takes the message has read all pending entries; when it
  crashes, the message is back.
* `ActiveIsBilledCorrect`, under every event but the change of interval of a price by
  seats: as long as the current period has no entry the subscription is in its first
  trial or over, and whoever works on an older row sees the same start; the step that
  ends this state inserts the entry of the start it writes, which is a renewal or the
  debit of a new product (`BilledInv`).
* `PeriodsDisjointCorrect`: what a moment is charged, less what it is credited, is at
  most one, and nothing from the usual end of the period on (`EntriesOK`). Without
  overlap a worker sees the row as it is, and the period ends no earlier than that;
  with overlap, but no request that moves the period, all rows anyone sees have a
  period of the usual length and `LockInv` lets one cycle at a time start the next
  one (`PeriodsInv`). Counts of entries are followed through each insertion by lemmas
  (`NetAppend` and those that rest on it). `RequestInv` carries
  what a request accepted from its reading to its commit.
* `BilledOnceCorrect`, without the events by which two order jobs could meet: one
  message or task renews at a time and one order job is there at a time (`OneCycle`,
  `OneOrder`), because a subscription that has an order job is not due, and time waits
  for the renewal (`DueOK`); so the entries that an order task has read are still
  unbilled when it commits (`BillsOK`).

### PaystackCheckout and Purchase

* `TypeInv` adds to the types that an event belongs to a transaction that is over and
  a task to the checkout of its transaction. `SaleInv`: no sale is undone and the
  discount's limit is kept, whatever overlaps. `ExclusiveInv`: without overlap what a
  session has read, a confirmation included, is what the row still says. `ChargeInv`:
  without `/charge` no checkout has a reference to poll, and no session has read one.
  Together they are `PromiseInv`.
* `KeepsPromiseCorrect`: the lemma `StepEffect` reduces each action to one of a few
  effects on the checkout, its orders and its redemptions; each of these is a step of
  `Purchase` or a stutter, from `PromiseInv`. Overlapping sessions are included: a
  confirmation on a stale row is a `Race`.
* `SucceededIsSoldCorrect` and `SoldHoldsDiscountCorrect` follow from `ExclusiveInv`,
  `HandledIsSoldCorrect` from `SaleInv` with the tasks of the event.

### BenefitGrants

* `EntitledKeepsGrantCorrect`: without hasty changes a message on its way agrees with
  what the purchase wants (`EntitledInv`), tasks that run in parallel included.
* `GrantedHasAccessCorrect` and `AccessIsGrantedCorrect` need one more part each of
  `GrantInv`. `CalmInv`: one task runs, what it has read is still so, all grants use
  one account, and a revocation is the last one exactly if no other grant counts.
  `DeletionInv`: once a benefit is deleted in order, nothing gives it any more and
  what is granted has a message that deletes it. `HeldInv` and `AccessInv`: what an
  access rests on, a message that will call again after a crash included. With
  "uninstall" a grant may have had its account and be neither granted nor revoked
  (`RowOK`), and a task may have done nothing (`StepOK`); without hasty changes and
  late connections it is then not on its way to be revoked, so that the count of the
  others stays right. `AccessInv` is claimed without "uninstall".

### CustomerSeats

* `AssignedWithinLimitCorrect`: assigned seats *and the requests that are assigning*
  are at most the limit and the number of workers less one. A claim counts its seat
  as assigned, since it brings it back if it is revoked meanwhile (`CountsOK`).
* `AccessHasSeatCorrect`, `SeatHasAccessCorrect`: who *will have* access, by the last
  of the member's jobs or, without one, by the access there is, has a claimed seat and
  the other way round (`AccessOK`).

### WebhookDelivery

* `AttemptedInOrderCorrect`: every event before one that is delivered, or being
  posted, has a delivery or is old, and is visible to the query (`OrderInv`).
* `AttemptsBoundedCorrect`: an event with a message has an attempt left, a post
  that runs holds the message and runs alone (`AttemptsInv`).
* `PendingHasMessageCorrect` is inductive with `TypeInv`, which says in addition that
  an outcome that was read is not undone.

### Payouts

* `TypeCorrect` needs that the lock keeps the requests apart that have read the
  balance (`CreatesOK`), so that there are no more rows than numbers.
* `BookedWithinEarnedCorrect`: the number read under the lock is used once, so of all
  requests that have read the same balance one inserts (`BookingsOK`); the sum of
  what stands plus the balance is what was earned at each commit.
* `TransferIsBookedCorrect`: a payout that is still to be transferred is neither
  canceled nor being canceled, and who cancels has read whether there is something
  to return (`TransferOK`).
* `PaidWithinAmountCorrect`: a message that triggers a payout is the only one, and
  its amount and what is paid out are within the payout's amount; every payout at
  Stripe has its attempt committed or about to be (`PaymentsOK`).
* Sums are `SumFunctionOnSet` of the community modules. `Sums_proofs` shows that its
  recursive definition defines it and how a sum changes with one element; the
  inductions choose a counterexample of the least cardinality, as the library's
  induction theorems take an operator.

### What the proofs changed

Two candidates failed for a reason in the code, which TLC's instances are too small
to show or did not contain. `ChargedOnce` was claimed under late webhooks: with four
charges the failure of the first attempt, reported late, releases the lock of a
later one. `GrantedHasAccess` and `AccessIsGranted` were claimed for a benefit that
is deleted while purchases change in haste or accounts are connected late.
Both now exclude what the code does not keep. `Payouts` let two cancellations
of one payout run at once without counting that as "impatient", and thus credit it
twice; a commit in `BenefitGrants` could drop the second copy of a message that was
queued while the first was executed. Both are corrected.

### Only model-checked

Liveness (`DunningEnds`, `DueIsCycled`, `PaidIsSold`, `EventSettles`,
`EndedIsRevoked`, `EntitledIsSettled`, `PayoutIsTriggered`, `PaidIsRecorded`): all of
it rests on fairness, thus on ENABLED, which the prover does not handle. And the
two runs that expect a violation, whose counterexamples are their proof.

## Not modelled

* Amounts, taxes, prices and currencies: sums of integers that no modelled decision
  depends on, except for the minimum below which nothing is charged (`small`) and
  the amounts of payouts. A price that is archived while a buyer pays makes
  `handle_success` raise; that is one more way to `pay_reopened` and left out.
* Several orders of one subscription, several subscriptions of one customer:
  OrderPayment has one order, SubscriptionCycle one subscription, and each sees
  the other as events (`revoke`, `final_order`, `payments`). That `void` leaves a
  date matters only with two.
* Metered entries, free prices and product updates that wait for the next period;
  notifications.
* The deletion of a customer and the new grants of a product whose benefits change, in
  CustomerSeats; the expiry after 60 seconds of the lock under which a payout is created.
* Retries of `benefit.delete_grant` that are given up.
* Refunds, disputes, the ledger, held balances, wallets, license keys, meters and
  debouncing: logic that a model could reach and that this one does not yet; the
  hazards list what is at stake.
* Tasks that fail until they are given up, where that is not a property's subject
  (benefit tasks).
* Most of the repository by size: endpoints that validate, filter, list, render
  and format, schemas, migrations, the backoffice's pages, clients of outside
  services, and the web client. They keep no state between two requests; there is
  nothing in them for a model to explore. The map covers the state machines, which
  are a small part of the lines.
* Behaviour of PostgreSQL, Redis, dramatiq, Paystack and Stripe beyond the contract
  above. It is the environment, marked external in the map where a definition
  stands for it.
* `CHECK_DEADLOCK FALSE` in all configurations: a paid order, an ended subscription
  or a sold checkout has nothing more to do, and the models' charges, events and
  clock are bounded.

## Plan

1. **Refund**, with the ledger as an abstract specification: a refund asked for at
   Stripe, its row, its webhook, the refunded amount of an order; its theorem says
   that what is recorded never exceeds what the processor has returned.
2. **LicenseKey** and **Wallet**, which share the shape of seats (count, then write;
   the proof of `AssignedWithinLimit` carries over), and **Debounce**.
3. Compositions: OrderPayment with two orders of one subscription; an abstract life
   of a subscription implemented by both modules about it, with the refinement
   proved step by step as that of `Purchase` is.
