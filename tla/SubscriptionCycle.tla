------------------------- MODULE SubscriptionCycle -------------------------
(***************************************************************************)
(* The renewal of one subscription: the scheduler that finds it due, the   *)
(* subscription.cycle task, the requests of the API that change it         *)
(* meanwhile, its billing entries and the orders that bill them            *)
(* (server/polar/subscription/scheduler.py, tasks.py, service.py,          *)
(* billing_entry/service.py, order/tasks.py, order/service.py).            *)
(*                                                                         *)
(* As in OrderPayment, a task or request works on the row its session has  *)
(* read and writes the columns it changed when it commits.  Customer and   *)
(* organization exist and are not blocked.                                 *)
(***************************************************************************)
EXTENDS Integers, Sequences, FiniteSets

CONSTANTS
  Workers,      \* concurrent task and request executions
  Intervals,    \* the billing intervals of the products, in ticks of the clock
  Interval,     \* that of the product the subscription begins with
  Horizon,      \* the last instant of the clock: a bound of the model
  MaxEvents,    \* bound on requests, crashes and payment failures
  Environments  \* the sets of events that may happen together

Nobody == "nobody"   \* nobody holds the lock
NoDate == -1         \* a NULL timestamp
NoOrder == 0         \* order_item_id is NULL

(* Seats and product are changed with proration, on the next invoice or on *)
(* one of their own.  "interval": the new product is billed in another     *)
(* interval, which is always invoiced at once.                             *)
SeatRequests == {"seats", "seats_invoice"}
ProductRequests == {"product", "product_invoice", "interval"}

Requests == {"cancel", "uncancel", "revoke", "trial_now", "trial_set", "extend"}
              \cup SeatRequests \cup ProductRequests

(* "seat_priced": the products are priced by seats; a product has one      *)
(* price that is not metered.  The others are events of the environment.   *)
AllEvents == Requests \cup {"trial", "seat_priced", "payments", "crash",
  "lost_job", "scheduler_crash", "lock_expires", "overlap", "backlog"}

ASSUME WorkersAssumption == Nobody \notin Workers
ASSUME IntervalAssumption == Interval \in Intervals /\ Intervals \subseteq Nat \ {0}
ASSUME HorizonAssumption == Horizon \in Nat
ASSUME EventsAssumption == MaxEvents \in Nat
ASSUME EnvironmentsAssumption == Environments \subseteq SUBSET AllEvents

VARIABLES
  environment, \* the events that may happen in this behavior; it never changes
  sub,        \* the committed row of the subscription
  entries,    \* its billing entries, in the order they were inserted
  orders,     \* for each order, the entries its amount includes
  cycles,     \* queued subscription.cycle messages
  jobs,       \* queued order.create_subscription_order messages
  scheduler,  \* what the scheduler is doing with the subscription
  cycleLock,  \* holder of the Redis lock subscription:cycle:{id}
  apiLock,    \* holder of the Redis lock subscription:{id}
  now,        \* the clock
  events,     \* requests, crashes and payment failures so far
  task        \* what each worker is executing

vars == <<environment, sub, entries, orders, cycles, jobs, scheduler, cycleLock,
          apiLock, now, events, task>>

-----------------------------------------------------------------------------
(* Rows.                                                                   *)

Dates == Nat \cup {NoDate}

(* cancel: cancel_at_period_end, ended: ended_at is set, interval: that of *)
(* the subscription and of its product, which are written together,        *)
(* locked: scheduler_locked_at is set.                                     *)
Row == [status: {"trialing", "active", "past_due", "canceled"},
        cancel: BOOLEAN, endsAt: Dates, ended: BOOLEAN,
        start: Nat, end: Nat, interval: Nat, trialEnd: Dates,
        locked: BOOLEAN]

(* A cycle entry charges a period.  The prorations of a product update     *)
(* credit what is left of the period and charge (debit) the new one from   *)
(* now on; one of a change of seats charges or credits their difference.   *)
(* item: the order of the entry's order item.                              *)
Entry == [kind: {"cycle", "credit", "debit", "seats"}, from: Nat, to: Nat, item: Nat]

Kinds == Requests \cup {"cycle", "order"}

(* A request is "read", "locked", "unlocked", "committed"; a task goes     *)
(* from "read" to "committed", when its jobs are still to be flushed.      *)
Steps == {"idle", "read", "locked", "unlocked", "committed"}

(* date: the argument of the request, bills: the pending entries read,     *)
(* job: an order job waits to be flushed.                                  *)
Task == [step: Steps, kind: Kinds, seen: Row, date: Nat,
         bills: SUBSET (Nat \ {0}), job: BOOLEAN]

Unread == [status |-> "active", cancel |-> FALSE, endsAt |-> NoDate,
           ended |-> FALSE, start |-> 0, end |-> 0, interval |-> Interval,
           trialEnd |-> NoDate, locked |-> FALSE]

Idle == [step |-> "idle", kind |-> "cycle", seen |-> Unread, date |-> 0,
         bills |-> {}, job |-> FALSE]

TypeOK ==
  /\ environment \in SUBSET AllEvents
  /\ sub \in Row
  /\ entries \in Seq(Entry)
  /\ orders \in Seq(SUBSET (Nat \ {0}))
  /\ cycles \in Nat
  /\ jobs \in Nat
  /\ scheduler \in {"idle", "listed", "locked"}
  /\ cycleLock \in Workers \cup {Nobody}
  /\ apiLock \in Workers \cup {Nobody}
  /\ now \in Nat
  /\ events \in Nat
  /\ task \in [Workers -> Task]

-----------------------------------------------------------------------------
(* What the services compute from the row they read.                       *)

Active(s) == s.status \in {"trialing", "active"}
Billable(s) == Active(s) \/ s.status = "past_due"

(* Slip: the status written is not one of the enumeration.                 *)
CycleRevokedMisnamed(s) == [s EXCEPT !.status = "revoked", !.ended = TRUE, !.locked = FALSE]

(* cycle of a subscription that is to be canceled: the trial's status is   *)
(* set to active whichever branch ran before.                              *)
CycleRevoked(s) ==
  [s EXCEPT !.status = IF @ = "trialing" THEN "active" ELSE "canceled",
            !.ended = TRUE, !.locked = FALSE]

(* Slip: the start of the period is not advanced.                          *)
CycleRenewedKeepingStart(s) ==
  [s EXCEPT !.status = IF @ = "trialing" THEN "active" ELSE @,
            !.end = s.end + s.interval, !.locked = FALSE]

(* Slip: scheduler_locked_at is not cleared.                               *)
CycleRenewedKeepingLock(s) ==
  [s EXCEPT !.status = IF @ = "trialing" THEN "active" ELSE @,
            !.start = s.end, !.end = s.end + s.interval, !.locked = TRUE]

CycleRenewed(s) ==
  [s EXCEPT !.status = IF @ = "trialing" THEN "active" ELSE @,
            !.start = s.end, !.end = s.end + s.interval, !.locked = FALSE]

Cycled(s) == IF s.cancel THEN CycleRevoked(s) ELSE CycleRenewed(s)

CycleEntry(s) ==
  [kind |-> "cycle", from |-> s.end, to |-> s.end + s.interval, item |-> NoOrder]

(* The task re-checks what the scheduler saw.                              *)
Due(s) == Active(s) /\ s.end <= now

(* can_cancel: at the end of the period, or immediately.                   *)
MayRevoke(s) == Billable(s) /\ ~s.ended
MayCancel(s) == MayRevoke(s) /\ ~s.cancel /\ s.endsAt = NoDate

CancelAtPeriodEnd(s) == [s EXCEPT !.cancel = TRUE, !.endsAt = s.end]
Revoke(s) == [s EXCEPT !.status = "canceled", !.ended = TRUE, !.endsAt = now]

MayUncancel(s) == ~s.ended /\ Billable(s) /\ s.cancel
Uncancel(s) == [s EXCEPT !.cancel = FALSE, !.endsAt = NoDate]

EndTrialNow(s) == [s EXCEPT !.trialEnd = now, !.end = now]

(* Only a trial that begins must end after the current period.             *)
MaySetTrial(s, date) ==
  s.status = "trialing" \/ (s.status = "active" /\ date > s.end)

SetTrial(s, date) ==
  [s EXCEPT !.status = "trialing", !.trialEnd = date, !.end = date]

MayExtend(s, date) == Active(s) /\ ~s.cancel /\ date >= s.end

SeatPriced == "seat_priced" \in environment

MayUpdateSeats(s) == SeatPriced /\ s.status # "canceled" /\ ~s.cancel
MayUpdateProduct(s) == s.status \notin {"canceled", "trialing"} /\ ~s.cancel

(* A product of the same interval is billed for a period that begins with  *)
(* the current one and has its usual length.                               *)
UpdateProduct(s) == [s EXCEPT !.end = s.start + s.interval]

(* A product of another interval begins a period of that length now.       *)
ChangeInterval(s, length) ==
  [s EXCEPT !.start = now, !.end = now + length, !.interval = length]

(* Whether the request is accepted for the row that was read, and the row  *)
(* after it.                                                               *)
Accepted(kind, s, date) ==
  CASE kind = "cancel" -> MayCancel(s)
    [] kind = "uncancel" -> MayUncancel(s)
    [] kind = "revoke" -> MayRevoke(s)
    [] kind = "trial_now" -> s.status = "trialing"
    [] kind = "trial_set" -> MaySetTrial(s, date)
    [] kind = "extend" -> MayExtend(s, date)
    [] kind \in SeatRequests -> MayUpdateSeats(s)
    [] kind \in {"product", "product_invoice"} -> MayUpdateProduct(s)
    [] kind = "interval" -> MayUpdateProduct(s) /\ date # s.interval

Updated(kind, s, date) ==
  CASE kind = "cancel" -> CancelAtPeriodEnd(s)
    [] kind = "uncancel" -> Uncancel(s)
    [] kind = "revoke" -> Revoke(s)
    [] kind = "trial_now" -> Cycled(EndTrialNow(s))
    [] kind = "trial_set" -> SetTrial(s, date)
    [] kind = "extend" -> [s EXCEPT !.end = date]
    [] kind \in {"product", "product_invoice"} -> UpdateProduct(s)
    [] kind = "interval" -> ChangeInterval(s, date)
    [] OTHER -> s

Proration(kind, end) == [kind |-> kind, from |-> now, to |-> end, item |-> NoOrder]

(* Slip: what is left of the period is not credited.                       *)
ProductProrationUncredited(s, new) ==
  IF SeatPriced THEN <<>> ELSE <<Proration("debit", new.end)>>

(* Only a fixed price is prorated: that of seats is not.                   *)
ProductProration(s, new) ==
  IF SeatPriced THEN <<>>
  ELSE <<Proration("credit", s.end), Proration("debit", new.end)>>

(* The entries the request inserts; no seat is prorated during a trial.    *)
Inserted(kind, s, date) ==
  IF kind \in ProductRequests THEN ProductProration(s, Updated(kind, s, date))
  ELSE IF kind \in SeatRequests /\ s.status # "trialing" THEN <<Proration("seats", s.end)>>
  ELSE IF kind = "trial_now" /\ ~s.cancel THEN <<CycleEntry(EndTrialNow(s))>>
  ELSE <<>>

(* The request creates an order itself, in its own transaction.            *)
Invoices(kind, s) ==
  kind \in {"seats_invoice", "product_invoice", "interval"} /\ s.status # "trialing"

(* Slip: entries that have an order are read as well.                      *)
PendingAndBilled == DOMAIN entries

Pending == {i \in DOMAIN entries : entries[i].item = NoOrder}

-----------------------------------------------------------------------------
(* Transactions.                                                           *)

(* The columns that are flagged or differ from the row read are written.   *)
Merge(new, seen, flagged) ==
  [c \in DOMAIN sub |->
     IF new[c] = seen[c] /\ c \notin flagged THEN sub[c] ELSE new[c]]

Event == events < MaxEvents /\ events' = events + 1

(* update_order_item_id: only entries that have no order item yet.         *)
Billed(es, bills, o) ==
  [i \in DOMAIN es |->
     IF i \in bills /\ es[i].item = NoOrder THEN [es[i] EXCEPT !.item = o] ELSE es[i]]

-----------------------------------------------------------------------------
(* The scheduler (scheduler.py).                                           *)

Schedulable(s) == Due(s) /\ ~s.locked

ListDue ==
  /\ scheduler = "idle"
  /\ Schedulable(sub)
  /\ scheduler' = "listed"
  /\ UNCHANGED <<environment, sub, entries, orders, cycles, jobs, cycleLock,
                 apiLock, now, events, task>>

(* remove_job: the lock is committed before the message is sent.           *)
LockDue ==
  /\ scheduler = "listed"
  /\ sub' = [sub EXCEPT !.locked = TRUE]
  /\ scheduler' = "locked"
  /\ UNCHANGED <<environment, entries, orders, cycles, jobs, cycleLock,
                 apiLock, now, events, task>>

SendCycle ==
  /\ scheduler = "locked"
  /\ cycles' = cycles + 1
  /\ scheduler' = "idle"
  /\ UNCHANGED <<environment, sub, entries, orders, jobs, cycleLock, apiLock,
                 now, events, task>>

SchedulerCrash ==
  /\ "scheduler_crash" \in environment
  /\ Event
  /\ scheduler \in {"listed", "locked"}
  /\ scheduler' = "idle"
  /\ UNCHANGED <<environment, sub, entries, orders, cycles, jobs, cycleLock,
                 apiLock, now, task>>

-----------------------------------------------------------------------------
(* subscription.cycle.                                                     *)

IsRequest(w) == task[w].kind \in Requests

(* No request is in progress, unless requests may overlap.                 *)
NoRequest ==
  "overlap" \in environment \/ \A w \in Workers : task[w].step = "idle" \/ ~IsRequest(w)

(* Another worker holds the lock: the message is dropped.  Looking at the  *)
(* lock and taking it are one step: losing the race is a retry.            *)
CycleDropped(w) ==
  /\ task[w].step = "idle"
  /\ cycles > 0
  /\ cycleLock # Nobody
  /\ cycles' = cycles - 1
  /\ UNCHANGED <<environment, sub, entries, orders, jobs, scheduler,
                 cycleLock, apiLock, now, events, task>>

CycleBegin(w) ==
  /\ task[w].step = "idle"
  /\ cycles > 0
  /\ cycleLock = Nobody
  /\ NoRequest
  /\ cycles' = cycles - 1
  /\ cycleLock' = w
  /\ task' = [task EXCEPT ![w] = [Idle EXCEPT !.step = "read", !.kind = "cycle", !.seen = sub]]
  /\ UNCHANGED <<environment, sub, entries, orders, jobs, scheduler, apiLock,
                 now, events>>

Cycling(w) == task[w].step = "read" /\ task[w].kind = "cycle"

(* "Already been cycled": the scheduler lock is cleared, nothing else.     *)
CycleSkipped(w) ==
  /\ Cycling(w)
  /\ ~Due(task[w].seen)
  /\ sub' = Merge([task[w].seen EXCEPT !.locked = FALSE], task[w].seen, {"locked"})
  /\ task' = [task EXCEPT ![w] = [@ EXCEPT !.step = "committed"]]
  /\ UNCHANGED <<environment, entries, orders, cycles, jobs, scheduler,
                 cycleLock, apiLock, now, events>>

CycleCommit(w) ==
  /\ Cycling(w)
  /\ Due(task[w].seen)
  /\ sub' = Merge(Cycled(task[w].seen), task[w].seen, {"locked"})
  /\ entries' = IF task[w].seen.cancel THEN entries
                ELSE Append(entries, CycleEntry(task[w].seen))
  /\ task' = [task EXCEPT ![w] = [@ EXCEPT !.step = "committed", !.job = TRUE]]
  /\ UNCHANGED <<environment, orders, cycles, jobs, scheduler, cycleLock,
                 apiLock, now, events>>

(* The lock lives one second; its holder does not renew it.                *)
LockExpires ==
  /\ "lock_expires" \in environment
  /\ Event
  /\ cycleLock # Nobody
  /\ cycleLock' = Nobody
  /\ UNCHANGED <<environment, sub, entries, orders, cycles, jobs, scheduler,
                 apiLock, now, task>>

-----------------------------------------------------------------------------
(* order.create_subscription_order.                                        *)

OrderBegin(w) ==
  /\ task[w].step = "idle"
  /\ jobs > 0
  /\ jobs' = jobs - 1
  /\ task' = [task EXCEPT ![w] = [Idle EXCEPT !.step = "read", !.kind = "order", !.bills = Pending]]
  /\ UNCHANGED <<environment, sub, entries, orders, cycles, scheduler,
                 cycleLock, apiLock, now, events>>

(* Without pending entries no order is created.                            *)
OrderCommit(w) ==
  /\ task[w].step = "read"
  /\ task[w].kind = "order"
  /\ LET bills == task[w].bills
     IN IF bills = {} THEN UNCHANGED <<orders, entries>>
        ELSE /\ orders' = Append(orders, bills)
             /\ entries' = Billed(entries, bills, Len(orders) + 1)
  /\ task' = [task EXCEPT ![w] = [@ EXCEPT !.step = "committed"]]
  /\ UNCHANGED <<environment, sub, cycles, jobs, scheduler, cycleLock,
                 apiLock, now, events>>

-----------------------------------------------------------------------------
(* Requests of the API: the row is read before the lock is taken, and the  *)
(* session commits after the handler has released the lock.  A request     *)
(* that is refused for the row it read changes nothing and is left out.    *)

Unbusy == \A w \in Workers : task[w].step = "idle"

RequestBegin(w, kind, date) ==
  /\ kind \in environment
  /\ task[w].step = "idle"
  /\ "overlap" \in environment \/ Unbusy
  /\ Accepted(kind, sub, date)
  /\ Event
  /\ task' = [task EXCEPT ![w] = [Idle EXCEPT !.step = "read", !.kind = kind,
                                              !.seen = sub, !.date = date]]
  /\ UNCHANGED <<environment, sub, entries, orders, cycles, jobs, scheduler,
                 cycleLock, apiLock, now>>

(* Dates are in the future, an interval is that of a product; the other    *)
(* requests have no argument.                                              *)
Arguments(kind) ==
  IF kind \in {"trial_set", "extend"} THEN now + 1 .. Horizon
  ELSE IF kind = "interval" THEN Intervals
  ELSE {0}

RequestLock(w) ==
  /\ IsRequest(w)
  /\ task[w].step = "read"
  /\ apiLock = Nobody
  /\ apiLock' = w
  /\ task' = [task EXCEPT ![w] = [@ EXCEPT !.step = "locked"]]
  /\ UNCHANGED <<environment, sub, entries, orders, cycles, jobs, scheduler,
                 cycleLock, now, events>>

(* SubscriptionLocked, or there is nothing to invoice, or the synchronous  *)
(* payment failed.                                                         *)
RequestRefused(w) ==
  /\ IsRequest(w)
  /\ \/ task[w].step = "read" /\ apiLock # Nobody
     \/ task[w].step = "locked" /\ Invoices(task[w].kind, task[w].seen)
  /\ apiLock' = IF apiLock = w THEN Nobody ELSE apiLock
  /\ task' = [task EXCEPT ![w] = Idle]
  /\ UNCHANGED <<environment, sub, entries, orders, cycles, jobs, scheduler,
                 cycleLock, now, events>>

(* An immediate invoice bills every entry pending at that moment, and      *)
(* those the request inserts; without any it is refused.                   *)
RequestUnlock(w) ==
  /\ IsRequest(w)
  /\ task[w].step = "locked"
  /\ LET kind == task[w].kind
         seen == task[w].seen
         inserts == Inserted(kind, seen, task[w].date) # <<>>
     IN /\ Invoices(kind, seen) => Pending # {} \/ inserts
        /\ task' = [task EXCEPT ![w] = [@ EXCEPT !.step = "unlocked",
                      !.bills = IF Invoices(kind, seen) THEN Pending ELSE {}]]
  /\ apiLock' = Nobody
  /\ UNCHANGED <<environment, sub, entries, orders, cycles, jobs, scheduler,
                 cycleLock, now, events>>

RequestCommit(w) ==
  /\ IsRequest(w)
  /\ task[w].step = "unlocked"
  /\ LET kind == task[w].kind
         seen == task[w].seen
         es == entries \o Inserted(kind, seen, task[w].date)
         bills == task[w].bills \cup (Len(entries) + 1 .. Len(es))
     IN /\ sub' = Merge(Updated(kind, seen, task[w].date), seen,
                        IF kind = "trial_now" THEN {"locked"} ELSE {})
        /\ IF Invoices(kind, seen)
           THEN /\ orders' = Append(orders, bills)
                /\ entries' = Billed(es, bills, Len(orders) + 1)
           ELSE orders' = orders /\ entries' = es
        /\ task' = [task EXCEPT ![w] = [@ EXCEPT !.step = "committed", !.job = kind = "trial_now"]]
  /\ UNCHANGED <<environment, cycles, jobs, scheduler, cycleLock, apiLock,
                 now, events>>

-----------------------------------------------------------------------------
(* The end of a task or request: its jobs reach the queue.                 *)

(* Slip: the jobs of a committed transaction are not flushed.              *)
FinishWithoutFlush(w) ==
  /\ task[w].step = "committed"
  /\ cycleLock' = IF cycleLock = w THEN Nobody ELSE cycleLock
  /\ task' = [task EXCEPT ![w] = Idle]
  /\ UNCHANGED <<environment, sub, entries, orders, cycles, jobs, scheduler,
                 apiLock, now, events>>

Finish(w) ==
  /\ task[w].step = "committed"
  /\ cycleLock' = IF cycleLock = w THEN Nobody ELSE cycleLock
  /\ jobs' = IF task[w].job THEN jobs + 1 ELSE jobs
  /\ task' = [task EXCEPT ![w] = Idle]
  /\ UNCHANGED <<environment, sub, entries, orders, cycles, scheduler,
                 apiLock, now, events>>

(* The process dies.  Its message is delivered again once the locks it     *)
(* held have expired; jobs it has not flushed are lost.                    *)
Crash(w) ==
  /\ "crash" \in environment
  /\ Event
  /\ task[w].step # "idle"
  /\ task[w].job => "lost_job" \in environment
  /\ cycles' = IF task[w].kind = "cycle" THEN cycles + 1 ELSE cycles
  /\ jobs' = IF task[w].kind = "order" THEN jobs + 1 ELSE jobs
  /\ cycleLock' = IF cycleLock = w THEN Nobody ELSE cycleLock
  /\ apiLock' = IF apiLock = w THEN Nobody ELSE apiLock
  /\ task' = [task EXCEPT ![w] = Idle]
  /\ UNCHANGED <<environment, sub, entries, orders, scheduler, now>>

-----------------------------------------------------------------------------
(* Payments and the clock.                                                 *)

(* The payment of a renewal fails, succeeds on a retry, or is given up     *)
(* (module OrderPayment).                                                  *)
Pays(status, row) ==
  /\ "payments" \in environment
  /\ Event
  /\ sub.status = status
  /\ ~sub.ended
  /\ Unbusy
  /\ sub' = row
  /\ UNCHANGED <<environment, entries, orders, cycles, jobs, scheduler,
                 cycleLock, apiLock, now, task>>

PaymentFails == Pays("active", [sub EXCEPT !.status = "past_due"])
PaymentSucceeds == Pays("past_due", [sub EXCEPT !.status = "active"])
PaymentGivenUp == Pays("past_due", Revoke(sub))

NothingToDo == cycles = 0 /\ jobs = 0 /\ scheduler = "idle" /\ ~Schedulable(sub)

(* A task takes no time; messages may wait only with "backlog".            *)
Tick ==
  /\ now < Horizon
  /\ Unbusy
  /\ "backlog" \in environment \/ NothingToDo
  /\ now' = now + 1
  /\ UNCHANGED <<environment, sub, entries, orders, cycles, jobs, scheduler,
                 cycleLock, apiLock, events, task>>

-----------------------------------------------------------------------------
(* The specification.                                                      *)

(* A subscription begins with a period, billed by the order of its         *)
(* checkout, or with "trial" by a trial of the same length.                *)
Init ==
  /\ environment \in Environments
  /\ \/ /\ sub = [Unread EXCEPT !.end = Interval]
        /\ entries = <<[kind |-> "cycle", from |-> 0, to |-> Interval, item |-> 1]>>
        /\ orders = <<{1}>>
     \/ /\ "trial" \in environment
        /\ sub = [Unread EXCEPT !.status = "trialing", !.end = Interval, !.trialEnd = Interval]
        /\ entries = <<>>
        /\ orders = <<>>
  /\ cycles = 0
  /\ jobs = 0
  /\ scheduler = "idle"
  /\ cycleLock = Nobody
  /\ apiLock = Nobody
  /\ now = 0
  /\ events = 0
  /\ task = [w \in Workers |-> Idle]

Proceed(w) ==
  \/ CycleSkipped(w) \/ CycleCommit(w) \/ OrderCommit(w)
  \/ RequestLock(w) \/ RequestRefused(w) \/ RequestUnlock(w) \/ RequestCommit(w)
  \/ Finish(w)

SchedulerStep == ListDue \/ LockDue \/ SendCycle

Next ==
  \/ \E w \in Workers :
       \/ CycleDropped(w) \/ CycleBegin(w) \/ OrderBegin(w)
       \/ \E kind \in Requests : \E date \in Arguments(kind) : RequestBegin(w, kind, date)
       \/ Proceed(w)
       \/ Crash(w)
  \/ SchedulerStep
  \/ SchedulerCrash \/ LockExpires
  \/ PaymentFails \/ PaymentSucceeds \/ PaymentGivenUp
  \/ Tick

Spec == Init /\ [][Next]_vars

(* The scheduler runs, workers keep taking messages and end their tasks.   *)
Fairness ==
  /\ WF_vars(SchedulerStep)
  /\ \A w \in Workers : WF_vars(Proceed(w))
  /\ SF_vars(\E w \in Workers : CycleBegin(w))
  /\ SF_vars(\E w \in Workers : OrderBegin(w))

FairSpec == Spec /\ Fairness

-----------------------------------------------------------------------------
(* What the renewal of a subscription must keep.  A property that some     *)
(* events break names them: it is claimed for the environments without     *)
(* them.                                                                   *)

Without(E) == environment \cap E = {}

CycleEntries == {i \in DOMAIN entries : entries[i].kind = "cycle"}

(* The entries that charge, or credit, a moment.                           *)
Covering(kinds, t) ==
  {i \in DOMAIN entries :
     entries[i].kind \in kinds /\ entries[i].from <= t /\ t < entries[i].to}

Charges(t) == Cardinality(Covering({"cycle", "debit"}, t))
Credits(t) == Cardinality(Covering({"credit"}, t))

(* None of the events that break PeriodsDisjoint.                          *)
Undisturbed ==
  /\ Without({"trial_set", "lock_expires"})
  /\ Without({"overlap"}) \/ Without({"trial_now", "extend", "interval"})
  /\ Without({"seat_priced"}) \/ Without({"interval"})

(* No moment is charged twice without having been credited in between,     *)
(* whatever crashes, is delivered again or is changed meanwhile (cycle,    *)
(* _generate_product_subscription_update), unless a trial is moved, the    *)
(* lock of the task expires under it, two requests that move the period    *)
(* overlap, or the interval of a product priced by seats is changed: its   *)
(* price is not prorated, and the period begins anew without a credit.     *)
(* Moments that no entry mentions are not charged at all.                  *)
PeriodsDisjoint ==
  Undisturbed =>
    \A i \in DOMAIN entries : \A t \in entries[i].from .. entries[i].to :
      Charges(t) - Credits(t) <= 1

(* The period an active subscription is in has been billed, unless it is a *)
(* trial: the row never moves to a period without a cycle entry or, when   *)
(* the interval changes, the debit of the new product's price from then    *)
(* on.  A price by seats has no such debit: an order for what else is      *)
(* pending lets the change pass.                                           *)
ActiveIsBilled ==
  (Without({"seat_priced"}) \/ Without({"interval"}))
  /\ sub.status \in {"active", "past_due"} /\ ~sub.ended =>
    \E i \in DOMAIN entries :
      entries[i].kind \in {"cycle", "debit"} /\ entries[i].from = sub.start

(* A billing entry is part of the amount of at most one order: the items   *)
(* of an order are computed before its entries are marked                  *)
(* (create_order_items_from_pending), so one order job at a time is        *)
(* needed.  An immediate invoice, a backlog, and two renewals in a row     *)
(* (of a trial, or after the recovery from dunning) break that.            *)
BilledOnce ==
  Without({"payments", "seats_invoice", "product_invoice", "interval", "backlog", "extend",
           "trial", "trial_set"})
    => \A i \in DOMAIN entries : \A o, p \in DOMAIN orders :
         i \in orders[o] /\ i \in orders[p] => o = p

(* A renewal that waits for its order has a job that will create it.       *)
PendingHasJob ==
  Without({"lost_job"}) /\ (\E i \in CycleEntries : entries[i].item = NoOrder) =>
    \/ jobs > 0
    \/ \E w \in Workers : task[w].job
    \/ \E w \in Workers : task[w].kind = "order" /\ task[w].step = "read"

(* A subscription that is due is eventually renewed or ended: the          *)
(* scheduler skips a locked subscription, so a lock must always be         *)
(* followed by a cycle task that clears it.  A message that comes while    *)
(* the Redis lock outlives the commit is dropped, and the scheduler may    *)
(* die between the commit of the lock and the message.  A renewal of what  *)
(* was due before, or of a row that overlapping changes of the interval    *)
(* have mixed, is due again while that lock is held.                       *)
DueIsCycled ==
  Without({"scheduler_crash", "payments", "backlog", "trial", "trial_set", "extend"})
  /\ (Without({"overlap"}) \/ Without({"interval"}))
  /\ Due(sub) ~> ~Due(sub)
=============================================================================
