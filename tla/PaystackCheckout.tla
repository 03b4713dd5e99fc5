-------------------------- MODULE PaystackCheckout --------------------------
(***************************************************************************)
(* Checkouts paid with Paystack: the requests of the buyer, Paystack's     *)
(* webhook, the external events it stores, the tasks that handle them, the *)
(* cron that expires checkouts and the discount they all redeem            *)
(* (server/polar/checkout/endpoints.py, service.py, repository.py,         *)
(* tasks.py, integrations/paystack/tasks.py, external_event/service.py,    *)
(* discount/service.py).                                                   *)
(*                                                                         *)
(* A payment is a transaction at Paystack.  One started in the popup       *)
(* carries the id of the checkout and is completed by the webhook; one     *)
(* started by /charge has its reference stamped on the checkout and is     *)
(* completed by the requests that poll it.                                 *)
(***************************************************************************)
EXTENDS Integers, Sequences, FiniteSets

CONSTANTS
  Checkouts,
  Workers,        \* concurrent tasks and requests
  MaxPayments,    \* bound on the transactions at Paystack
  MaxRetries,     \* max_retries of the Paystack tasks
  MaxRedemptions, \* max_redemptions of the discount all checkouts use
  MaxEvents,      \* bound on abandonments, crashes, outages and prunings
  Environments    \* the sets of events that may happen together

AllEvents == {"abandon", "charge", "decline", "free", "outage", "expiry",
              "prune", "crash", "lost_job", "overlap"}

NoCheckout == "none"

ASSUME CheckoutsAssumption == NoCheckout \notin Checkouts
ASSUME PaymentsAssumption == MaxPayments \in Nat
ASSUME RetriesAssumption == MaxRetries \in Nat
ASSUME RedemptionsAssumption == MaxRedemptions \in Nat
ASSUME EventsAssumption == MaxEvents \in Nat
ASSUME EnvironmentsAssumption == Environments \subseteq SUBSET AllEvents

VARIABLES
  environment, \* the events that may happen in this behavior; it never changes
  checkout,    \* the committed rows of the checkouts
  late,        \* the checkouts whose expires_at has passed
  redemptions, \* the rows of discount redemptions, <<checkout, number>>
  orders,      \* how many orders each checkout has
  payments,    \* the transactions at Paystack, in the order they were started
  events,      \* the row of the external event of each transaction
  jobs,        \* the message of the task that handles the event
  retries,     \* how often that message was retried
  freeJobs,    \* the message of checkout.handle_free_success
  happened,    \* abandonments, crashes, outages and prunings so far
  task         \* what each worker is executing

vars == <<environment, checkout, late, redemptions, orders, payments, events,
          jobs, retries, freeJobs, happened, task>>

-----------------------------------------------------------------------------
(* Rows.                                                                   *)

Payments == 1 .. MaxPayments
NoPayment == 0

(* customer: one is attached, reference: the payment charge_reference      *)
(* names, charged: charge_status is success.                               *)
Row == [status: {"open", "confirmed", "succeeded", "expired"},
        customer: BOOLEAN, reference: Payments \cup {NoPayment}, charged: BOOLEAN]

Opened == [status |-> "open", customer |-> FALSE, reference |-> NoPayment,
           charged |-> FALSE]

Payment == [checkout: Checkouts, channel: {"popup", "charge"},
            state: {"pending", "success", "failed"}]

(* A message is running until its worker ends and acknowledges it.         *)
Messages == {"none", "queued", "running"}

(* deliver: the webhook request, success and failed: the tasks of the two  *)
(* Paystack events, free: handle_free_success, the others: requests.       *)
Kinds == {"deliver", "success", "failed", "free", "confirm", "abandon", "poll", "heal"}
OfEvent == {"deliver", "success", "failed"}

(* A task goes from the row of its event to that of the checkout to its    *)
(* commit; the webhook request from its lookup to the flush of its job.    *)
Steps == {"idle", "event", "read", "committed"}

(* sold: an order of the checkout was found.                               *)
Task == [step: Steps, kind: Kinds, checkout: Checkouts \cup {NoCheckout},
         payment: Payments \cup {NoPayment}, seen: Row, sold: BOOLEAN]

Idle == [step |-> "idle", kind |-> "poll", checkout |-> NoCheckout,
         payment |-> NoPayment, seen |-> Opened, sold |-> FALSE]

TypeOK ==
  /\ environment \in SUBSET AllEvents
  /\ checkout \in [Checkouts -> Row]
  /\ late \in SUBSET Checkouts
  /\ redemptions \in SUBSET (Checkouts \X Nat)
  /\ orders \in [Checkouts -> Nat]
  /\ payments \in Seq(Payment)
  /\ events \in [Payments -> {"absent", "stored", "handled"}]
  /\ jobs \in [Payments -> Messages]
  /\ retries \in [Payments -> 0 .. MaxRetries]
  /\ freeJobs \in [Checkouts -> Messages]
  /\ happened \in Nat
  /\ task \in [Workers -> Task]

-----------------------------------------------------------------------------
(* What the code does with the row it read.                                *)

May(event) == event \in environment

Happens(event) == May(event) /\ happened < MaxEvents /\ happened' = happened + 1

(* One session at a time works on a checkout, unless sessions overlap.     *)
Alone(c) ==
  May("overlap") \/
    \A w \in Workers : task[w].step = "idle" \/ task[w].checkout # c
                         \/ task[w].kind = "deliver"

(* No constraint keeps a checkout from having several redemptions.         *)
RedemptionsOf(c) == {r \in redemptions : r[1] = c}

(* redeem_discount: the discount is locked with FOR UPDATE NOWAIT, and its *)
(* redemptions are counted under the lock.                                 *)
Redeemable == Cardinality(redemptions) < MaxRedemptions

Redeem(c) == redemptions' = redemptions \cup {<<c, Cardinality(RedemptionsOf(c)) + 1>>}

(* get_by_client_secret refuses a checkout past its expiry.                *)
Found(c) == c \notin late

(* handle_success creates an order: for a confirmed checkout that has a    *)
(* customer.                                                               *)
Succeeds(row) == row.status = "confirmed" /\ row.customer

(* Slip: a checkout that has ended fails as well.                          *)
FailsAlways(row) == TRUE

(* handle_failure does nothing to a checkout that has ended.               *)
Fails(row) == row.status \in {"open", "confirmed"}

(* The columns a session changed are written over the committed ones.      *)
WriteStatus(c, seen, status) ==
  checkout' = IF seen.status = status THEN checkout
              ELSE [checkout EXCEPT ![c].status = status]

(* payment_processor_metadata is one column: who changes an entry of it    *)
(* writes what it read of the others.                                      *)
WithMetadata(row, seen) ==
  [row EXCEPT !.reference = seen.reference, !.charged = seen.charged]

(* Slip: the status written is not one of the enumeration.                 *)
SucceedMisnamed(c, seen) ==
  /\ WriteStatus(c, seen, "success")
  /\ orders' = [orders EXCEPT ![c] = @ + 1]
  /\ UNCHANGED redemptions

(* intent_status is added to the metadata.                                 *)
Succeed(c, seen) ==
  /\ checkout' = [checkout EXCEPT ![c] = [WithMetadata(@, seen) EXCEPT !.status = "succeeded"]]
  /\ orders' = [orders EXCEPT ![c] = @ + 1]
  /\ UNCHANGED redemptions

(* Slip: the redemption is freed and the checkout stays confirmed.         *)
FailWithoutReopening(c, seen) ==
  /\ redemptions' = IF Fails(seen) THEN redemptions \ RedemptionsOf(c) ELSE redemptions
  /\ UNCHANGED <<checkout, orders>>

Fail(c, seen) ==
  /\ WriteStatus(c, seen, IF Fails(seen) THEN "open" ELSE seen.status)
  /\ redemptions' = IF Fails(seen) THEN redemptions \ RedemptionsOf(c) ELSE redemptions
  /\ UNCHANGED orders

Unwritten == UNCHANGED <<checkout, redemptions, orders>>

Begin(w, kind, c, p, step) ==
  /\ task[w].step = "idle"
  /\ task' = [task EXCEPT ![w] =
                [step |-> step, kind |-> kind, checkout |-> c, payment |-> p,
                 seen |-> checkout[c], sold |-> orders[c] > 0]]

Running(w, kind, step) == task[w].kind = kind /\ task[w].step = step

End(w) == task' = [task EXCEPT ![w] = Idle]

-----------------------------------------------------------------------------
(* The buyer.                                                              *)

(* client_confirm reads the checkout before it locks the row with FOR      *)
(* UPDATE NOWAIT, and the lock does not refresh what was read.             *)
ConfirmBegin(w, c) ==
  /\ Found(c) /\ Alone(c)
  /\ checkout[c].status = "open"
  /\ Begin(w, "confirm", c, NoPayment, "read")
  /\ UNCHANGED <<environment, checkout, late, redemptions, orders, payments,
                 events, jobs, retries, freeJobs, happened>>

(* The first confirmation adds to the metadata and attaches a customer.    *)
ConfirmCommit(w) ==
  LET c == task[w].checkout
      seen == task[w].seen
      Attached(row) == IF seen.customer THEN row
                       ELSE [WithMetadata(row, seen) EXCEPT !.customer = TRUE]
  IN /\ Running(w, "confirm", "read")
     /\ Redeemable
     /\ checkout' = [checkout EXCEPT ![c] = [Attached(@) EXCEPT !.status = "confirmed"]]
     /\ Redeem(c)
     /\ freeJobs' = IF May("free") THEN [freeJobs EXCEPT ![c] = "queued"] ELSE freeJobs
     /\ End(w)
     /\ UNCHANGED <<environment, late, orders, payments, events, jobs, retries, happened>>

(* Another transaction has the lock of the row or of the discount, the     *)
(* discount is exhausted, or a field is missing.                           *)
ConfirmRefused(w) ==
  /\ Running(w, "confirm", "read")
  /\ Unwritten
  /\ End(w)
  /\ UNCHANGED <<environment, late, payments, events, jobs, retries, freeJobs, happened>>

NewPayment(c, channel, state) ==
  /\ Len(payments) < MaxPayments
  /\ payments' = Append(payments, [checkout |-> c, channel |-> channel, state |-> state])

(* The popup opens on a checkout that was just confirmed.                  *)
OpenPopup(c) ==
  /\ ~May("free")
  /\ checkout[c].status = "confirmed" /\ checkout[c].customer
  /\ NewPayment(c, "popup", "pending")
  /\ UNCHANGED <<environment, checkout, late, redemptions, orders, events, jobs,
                 retries, freeJobs, happened, task>>

(* client_charge asks for no status; its request may die between the       *)
(* charge and the commit of the reference.                                 *)
Charge(c) ==
  /\ May("charge") /\ ~May("free")
  /\ Found(c)
  /\ \E state \in {"pending", "success"} :
       /\ NewPayment(c, "charge", state)
       /\ \/ /\ checkout' = [checkout EXCEPT ![c].reference = Len(payments'),
                                             ![c].charged = (state = "success")]
             /\ UNCHANGED happened
          \/ Happens("crash") /\ UNCHANGED checkout
  /\ UNCHANGED <<environment, late, redemptions, orders, events, jobs, retries,
                 freeJobs, task>>

(* The buyer authorizes a payment, also after the popup was closed.        *)
Pay(p) ==
  /\ p \in DOMAIN payments
  /\ payments[p].state = "pending"
  /\ \/ payments' = [payments EXCEPT ![p].state = "success"]
     \/ May("decline") /\ payments' = [payments EXCEPT ![p].state = "failed"]
  /\ UNCHANGED <<environment, checkout, late, redemptions, orders, events, jobs,
                 retries, freeJobs, happened, task>>

(* client_abandon: the popup was closed.                                   *)
AbandonBegin(w, c) ==
  /\ Found(c) /\ Alone(c)
  /\ checkout[c].status = "confirmed"
  /\ ~checkout[c].charged
  /\ Happens("abandon")
  /\ Begin(w, "abandon", c, NoPayment, "read")
  /\ UNCHANGED <<environment, checkout, late, redemptions, orders, payments,
                 events, jobs, retries, freeJobs>>

AbandonCommit(w) ==
  /\ task[w].kind = "abandon" /\ task[w].step = "read"
  /\ Fail(task[w].checkout, task[w].seen)
  /\ End(w)
  /\ UNCHANGED <<environment, late, payments, events, jobs, retries, freeJobs,
                 happened>>

Paid(p) == payments[p].state = "success"

(* client_payment_status and client_get read the checkout, then ask        *)
(* Paystack for the transaction its reference names.  A request that finds *)
(* it unpaid changes nothing.                                              *)
PollBegin(w, c) ==
  LET p == checkout[c].reference
  IN /\ Found(c) /\ Alone(c)
     /\ p # NoPayment /\ Paid(p)
     /\ \/ checkout[c].status = "open" /\ Begin(w, "poll", c, p, "read")
        \/ checkout[c].status = "confirmed" /\ Begin(w, "heal", c, p, "read")
     /\ UNCHANGED <<environment, checkout, late, redemptions, orders, payments,
                    events, jobs, retries, freeJobs, happened>>

(* client_payment_status confirms an open checkout and completes it.  An   *)
(* error of handle_success is swallowed and the request still commits.     *)
PollCommit(w) ==
  LET c == task[w].checkout
      confirmed == [task[w].seen EXCEPT !.status = "confirmed"]
  IN /\ task[w].kind = "poll" /\ task[w].step = "read"
     /\ IF Succeeds(confirmed) THEN Succeed(c, confirmed)
        ELSE WriteStatus(c, task[w].seen, "confirmed") /\ UNCHANGED <<redemptions, orders>>
     /\ End(w)
     /\ UNCHANGED <<environment, late, payments, events, jobs, retries, freeJobs,
                    happened>>

(* client_get completes a confirmed checkout, and swallows errors as well. *)
HealCommit(w) ==
  LET seen == task[w].seen
  IN /\ task[w].kind = "heal" /\ task[w].step = "read"
     /\ IF Succeeds(seen) THEN Succeed(task[w].checkout, seen) ELSE Unwritten
     /\ End(w)
     /\ UNCHANGED <<environment, late, payments, events, jobs, retries, freeJobs,
                    happened>>

-----------------------------------------------------------------------------
(* External events.                                                        *)

(* Paystack sends the event of a transaction until the request succeeds,   *)
(* and may send it again.  The request looks the event up (enqueue).       *)
DeliverBegin(w, p) ==
  /\ p \in DOMAIN payments
  /\ payments[p].state # "pending"
  /\ events[p] = "absent"
  /\ Begin(w, "deliver", payments[p].checkout, p, "read")
  /\ UNCHANGED <<environment, checkout, late, redemptions, orders, payments,
                 events, jobs, retries, freeJobs, happened>>

(* The unique constraint on (source, external_id) fails the insert of a    *)
(* request that another one has overtaken.                                 *)
DeliverCommit(w) ==
  LET p == task[w].payment
  IN /\ task[w].kind = "deliver" /\ task[w].step = "read"
     /\ IF events[p] = "absent"
        THEN /\ events' = [events EXCEPT ![p] = "stored"]
             /\ task' = [task EXCEPT ![w].step = "committed"]
        ELSE End(w) /\ UNCHANGED events
     /\ UNCHANGED <<environment, checkout, late, redemptions, orders, payments,
                    jobs, retries, freeJobs, happened>>

Enqueue(p) ==
  /\ jobs' = [jobs EXCEPT ![p] = "queued"]
  /\ retries' = [retries EXCEPT ![p] = 0]

(* The job is flushed after the commit, or lost with the process.          *)
DeliverFlush(w) ==
  /\ task[w].kind = "deliver" /\ task[w].step = "committed"
  /\ \/ Enqueue(task[w].payment) /\ UNCHANGED happened
     \/ Happens("lost_job") /\ UNCHANGED <<jobs, retries>>
  /\ End(w)
  /\ UNCHANGED <<environment, checkout, late, redemptions, orders, payments,
                 events, freeJobs>>

(* resend: an operator enqueues an event whose message is dead.            *)
Resend(p) ==
  /\ May("lost_job") \/ May("outage")
  /\ events[p] = "stored" /\ jobs[p] = "none"
  /\ \A w \in Workers : task[w].step = "idle" \/ task[w].payment # p
  /\ Enqueue(p)
  /\ UNCHANGED <<environment, checkout, late, redemptions, orders, payments,
                 events, freeJobs, happened, task>>

(* external_event.prune, so long after that nothing of it is left to do:   *)
(* Paystack may still send the event once more.                            *)
Prune(p) ==
  /\ Happens("prune")
  /\ events[p] = "handled" /\ jobs[p] = "none"
  /\ \A w \in Workers : task[w].step = "idle" \/ task[w].payment # p
  /\ events' = [events EXCEPT ![p] = "absent"]
  /\ UNCHANGED <<environment, checkout, late, redemptions, orders, payments,
                 jobs, retries, freeJobs, task>>

-----------------------------------------------------------------------------
(* The tasks of the worker.  A message is acknowledged when its task ends; *)
(* one that is still running may be delivered to another worker.           *)

Takable(message) == message = "queued" \/ (May("overlap") /\ message = "running")

(* An event that was handled fails its task, whose retries change nothing. *)
TaskRefused(p) ==
  /\ jobs[p] = "queued" /\ events[p] # "stored"
  /\ jobs' = [jobs EXCEPT ![p] = "none"]
  /\ UNCHANGED <<environment, checkout, late, redemptions, orders, payments,
                 events, retries, freeJobs, happened, task>>

TaskBegin(w, p) ==
  /\ Takable(jobs[p]) /\ events[p] = "stored"
  /\ Alone(payments[p].checkout)
  /\ Begin(w, IF Paid(p) THEN "success" ELSE "failed", payments[p].checkout, p, "event")
  /\ jobs' = [jobs EXCEPT ![p] = "running"]
  /\ UNCHANGED <<environment, checkout, late, redemptions, orders, payments,
                 events, retries, freeJobs, happened>>

(* The task ends well: handled_at is committed with what it wrote.         *)
Handled(w) ==
  /\ events' = [events EXCEPT ![task[w].payment] = "handled"]
  /\ jobs' = [jobs EXCEPT ![task[w].payment] = "none"]
  /\ End(w)
  /\ UNCHANGED retries

(* Slip: the task ends well although it raised.                            *)
RetrySwallowed(w) == Handled(w)

(* The task raises: rolled back, and retried as long as it can be.         *)
Retry(w) ==
  LET p == task[w].payment
  IN /\ IF retries[p] < MaxRetries
        THEN /\ jobs' = [jobs EXCEPT ![p] = "queued"]
             /\ retries' = [retries EXCEPT ![p] = @ + 1]
        ELSE jobs' = [jobs EXCEPT ![p] = "none"] /\ UNCHANGED retries
     /\ End(w)
     /\ UNCHANGED events

(* Paystack fails to answer, or says the transaction did not succeed.  The *)
(* references it is given begin with blyss_, which _handle_verification_   *)
(* failure does not expect: the checkout stays as it is.                   *)
Unverified(w) ==
  /\ Running(w, "success", "event")
  /\ Happens("outage")
  /\ \/ retries[task[w].payment] < MaxRetries /\ Retry(w)
     \/ Handled(w)
  /\ Unwritten
  /\ UNCHANGED <<environment, late, payments, freeJobs>>

(* A payment of /charge has no checkout_id: its event is handled.          *)
IgnoreCharge(w) ==
  /\ task[w].step = "event"
  /\ payments[task[w].payment].channel = "charge"
  /\ Handled(w)
  /\ Unwritten
  /\ UNCHANGED <<environment, late, payments, freeJobs, happened>>

ReadCheckout(w) ==
  LET c == task[w].checkout
  IN /\ task[w].step = "event"
     /\ payments[task[w].payment].channel = "popup"
     /\ task' = [task EXCEPT ![w].step = "read", ![w].seen = checkout[c],
                             ![w].sold = orders[c] > 0]
     /\ UNCHANGED <<environment, checkout, late, redemptions, orders, payments,
                    events, jobs, retries, freeJobs, happened>>

(* charge_success.  For an open checkout update is called with an argument *)
(* it does not have, and the TypeError is retried like any other error.    *)
SuccessCommit(w) ==
  LET seen == task[w].seen
  IN /\ Running(w, "success", "read")
     /\ IF seen.status = "open" THEN Unwritten /\ Retry(w)
        ELSE IF task[w].sold THEN Unwritten /\ Handled(w)
        ELSE IF Succeeds(seen) THEN Succeed(task[w].checkout, seen) /\ Handled(w)
        ELSE Unwritten /\ Retry(w)
     /\ UNCHANGED <<environment, late, payments, freeJobs, happened>>

(* charge_failed.                                                          *)
FailedCommit(w) ==
  /\ Running(w, "failed", "read")
  /\ Fail(task[w].checkout, task[w].seen)
  /\ Handled(w)
  /\ UNCHANGED <<environment, late, payments, freeJobs, happened>>

FreeBegin(w, c) ==
  /\ Takable(freeJobs[c])
  /\ Alone(c)
  /\ Begin(w, "free", c, NoPayment, "read")
  /\ freeJobs' = [freeJobs EXCEPT ![c] = "running"]
  /\ UNCHANGED <<environment, checkout, late, redemptions, orders, payments,
                 events, jobs, retries, happened>>

(* handle_free_success fails unless the checkout is confirmed, and is      *)
(* retried until it is dead.                                               *)
FreeCommit(w) ==
  LET c == task[w].checkout
      Acknowledge(m) ==
        freeJobs' = IF freeJobs[c] = "running" THEN [freeJobs EXCEPT ![c] = m] ELSE freeJobs
  IN /\ Running(w, "free", "read")
     /\ IF Succeeds(task[w].seen) THEN Succeed(c, task[w].seen) /\ Acknowledge("none")
        ELSE Unwritten /\ \E m \in {"none", "queued"} : Acknowledge(m)
     /\ End(w)
     /\ UNCHANGED <<environment, late, payments, events, jobs, retries, happened>>

(* A worker dies before its commit: its message is delivered again.        *)
Crash(w) ==
  LET t == task[w]
  IN /\ t.step \in {"event", "read"}
     /\ Happens("crash")
     /\ jobs' = IF t.kind \in {"success", "failed"}
                THEN [jobs EXCEPT ![t.payment] = "queued"] ELSE jobs
     /\ freeJobs' = IF t.kind = "free" THEN [freeJobs EXCEPT ![t.checkout] = "queued"]
                    ELSE freeJobs
     /\ End(w)
     /\ UNCHANGED <<environment, checkout, late, redemptions, orders, payments,
                    events, retries>>

-----------------------------------------------------------------------------
(* Expiry.                                                                 *)

PassExpiry(c) ==
  /\ May("expiry")
  /\ late' = late \cup {c}
  /\ UNCHANGED <<environment, checkout, redemptions, orders, payments, events,
                 jobs, retries, freeJobs, happened, task>>

(* Slip: checkouts that were confirmed expire as well.                     *)
ExpireConfirmed(c) ==
  /\ c \in late /\ Alone(c)
  /\ checkout[c].status \in {"open", "confirmed"}
  /\ checkout' = [checkout EXCEPT ![c].status = "expired"]
  /\ UNCHANGED <<environment, late, redemptions, orders, payments, events, jobs,
                 retries, freeJobs, happened, task>>

(* expire_open_checkouts: one UPDATE of the rows that are open.            *)
ExpireOpen(c) ==
  /\ c \in late /\ Alone(c)
  /\ checkout[c].status = "open"
  /\ checkout' = [checkout EXCEPT ![c].status = "expired"]
  /\ UNCHANGED <<environment, late, redemptions, orders, payments, events, jobs,
                 retries, freeJobs, happened, task>>

-----------------------------------------------------------------------------
Init ==
  /\ environment \in Environments
  /\ checkout = [c \in Checkouts |-> Opened]
  /\ late = {}
  /\ redemptions = {}
  /\ orders = [c \in Checkouts |-> 0]
  /\ payments = <<>>
  /\ events = [p \in Payments |-> "absent"]
  /\ jobs = [p \in Payments |-> "none"]
  /\ retries = [p \in Payments |-> 0]
  /\ freeJobs = [c \in Checkouts |-> "none"]
  /\ happened = 0
  /\ task = [w \in Workers |-> Idle]

Proceed(w) ==
  \/ DeliverCommit(w) \/ DeliverFlush(w)
  \/ ConfirmCommit(w) \/ ConfirmRefused(w)
  \/ AbandonCommit(w) \/ PollCommit(w) \/ HealCommit(w)
  \/ Unverified(w) \/ IgnoreCharge(w) \/ ReadCheckout(w)
  \/ SuccessCommit(w) \/ FailedCommit(w) \/ FreeCommit(w)

Next ==
  \/ \E c \in Checkouts :
       \/ OpenPopup(c) \/ Charge(c)
       \/ PassExpiry(c) \/ ExpireOpen(c)
       \/ \E w \in Workers : \/ ConfirmBegin(w, c) \/ AbandonBegin(w, c)
                            \/ PollBegin(w, c) \/ FreeBegin(w, c)
  \/ \E p \in Payments :
       \/ Pay(p) \/ Resend(p) \/ Prune(p) \/ TaskRefused(p)
       \/ \E w \in Workers : DeliverBegin(w, p) \/ TaskBegin(w, p)
  \/ \E w \in Workers : Proceed(w) \/ Crash(w)

Spec == Init /\ [][Next]_vars

(* Tasks and requests end.  Paystack repeats an event until it is          *)
(* accepted, and the queue gives every message its turn: neither waits for *)
(* good behind the requests of buyers, which other processes serve.        *)
Fairness ==
  /\ \A w \in Workers : WF_vars(Proceed(w))
  /\ \A p \in Payments :
       /\ SF_vars(\E w \in Workers : DeliverBegin(w, p))
       /\ SF_vars(\E w \in Workers : TaskBegin(w, p))
  /\ \A c \in Checkouts : SF_vars(\E w \in Workers : FreeBegin(w, c))

FairSpec == Spec /\ Fairness

-----------------------------------------------------------------------------
(* What a checkout must keep.  A property that some events break names     *)
(* them: it is claimed for the environments without them.                  *)

Without(E) == environment \cap E = {}

Sold(c) == orders[c] > 0

PopupPaid(p) ==
  p \in DOMAIN payments /\ payments[p].channel = "popup" /\ Paid(p)

(* client_payment_status: "handle_success is idempotent -- it guards on    *)
(* checkout.status != confirmed so retries / poll-races are safe".         *)
SoldOnce == \A c \in Checkouts : orders[c] <= 1

(* A checkout whose buyer paid is closed and one that is closed was sold:  *)
(* no late failure, abandonment or cron reopens or expires it, no second   *)
(* payment sells it again, as long as one session at a time works on it.   *)
SucceededIsSold ==
  Without({"overlap"}) =>
    \A c \in Checkouts : checkout[c].status = "succeeded" <=> orders[c] = 1

(* A checkout that awaits its payment or was sold holds a unit of the      *)
(* discount, so that no one else gets the price it was promised: a charge  *)
(* polled while the checkout is open completes it without redeeming.       *)
SoldHoldsDiscount ==
  Without({"overlap", "charge"}) =>
    \A c \in Checkouts :
      checkout[c].status \in {"confirmed", "succeeded"} => RedemptionsOf(c) # {}

(* The event of a successful popup payment is marked handled only when its *)
(* checkout was sold; one that was given up stays for resend.  When        *)
(* Paystack cannot be asked the event is handled all the same.             *)
HandledIsSold ==
  Without({"outage"}) =>
    \A p \in Payments :
      PopupPaid(p) /\ events[p] = "handled" => Sold(payments[p].checkout)

(* A payment in the popup is eventually followed by the order, whatever is *)
(* delivered twice, crashes or expires.  A checkout that was reopened      *)
(* meanwhile is not: see PaidOpenIsSold.                                   *)
PaidIsSold ==
  \A p \in Payments :
    Without({"abandon", "decline", "outage", "lost_job"}) /\ PopupPaid(p)
      ~> PopupPaid(p) /\ Sold(payments[p].checkout)

(* What a checkout promises (Purchase).                                    *)
Stage(c) == IF Sold(c) THEN "sold" ELSE checkout[c].status

Promise ==
  INSTANCE Purchase WITH
    Limit <- MaxRedemptions,
    exclusive <- ~May("overlap"),
    stage <- [c \in Checkouts |-> Stage(c)],
    sales <- orders,
    held <- redemptions

(* The checkout implements Purchase: it is sold once and for good, from    *)
(* open or confirmed only, and expires only when it is open; when sessions *)
(* overlap, and a stale confirmation may write over a sale or an expiry    *)
(* and redeem again, it is still never unsold nor over the limit.          *)
KeepsPromise == Promise!Spec

GivenUp(p) ==
  /\ events[p] = "stored" /\ jobs[p] = "none"
  /\ \A w \in Workers : task[w].payment # p

(* charge_success: "Update checkout status to confirmed if not already": a *)
(* verified payment of an open checkout is not given up.                   *)
PaidOpenIsSold ==
  \A p \in Payments : PopupPaid(p) /\ GivenUp(p) =>
    checkout[payments[p].checkout].status # "open"
=============================================================================
