------------------------------- MODULE Payouts ------------------------------
(***************************************************************************)
(* Payouts of one seller account: the balance they are booked from, the    *)
(* transfer to the seller's Stripe account, the attempts to pay it out     *)
(* from there, what Stripe reports of them, retries and cancellations      *)
(* (server/polar/payout/service.py, tasks.py, repository.py,               *)
(* models/payout_attempt.py, transaction/service/payout.py,                *)
(* backoffice/payouts/endpoints.py).                                       *)
(***************************************************************************)
EXTENDS Integers, Sequences, FiniteSets, FiniteSetsExt

CONSTANTS
  Workers,      \* concurrent requests and task executions
  MaxEarned,    \* bound on what the seller earns
  MaxPayouts,   \* bound on the payouts
  MaxEvents,    \* bound on crashes, refusals, retries and cancellations
  Environments  \* the sets of events that may happen together

AllEvents == {"overtaken", "lost_job", "backlog", "refusal", "retry", "impatient",
              "cancel", "early_cancel", "crash", "reorder"}

NoWorker == "none"

ASSUME WorkersAssumption == NoWorker \notin Workers /\ IsFiniteSet(Workers)
ASSUME BoundsAssumption == MaxEarned \in Nat /\ MaxPayouts \in Nat /\ MaxEvents \in Nat
ASSUME EnvironmentsAssumption == Environments \subseteq SUBSET AllEvents

VARIABLES
  environment, \* the events that may happen in this behavior; it never changes
  earned,      \* what the seller has earned
  balance,     \* the sum of the account's transactions
  lock,        \* the worker that holds the lock payout:<account>
  payouts,     \* the payouts in the order they were created
  created,     \* payouts with a payout.created message
  triggers,    \* the payout.trigger_stripe_payout messages
  attempts,    \* the committed payout attempts
  transfers,   \* at Stripe: the transfer of each payout
  paid,        \* at Stripe: the payouts of the seller's Stripe account
  events,      \* payout.updated and payout.paid events to be handled
  happened,    \* crashes, refusals, retries and cancellations so far
  task         \* what each worker is executing

vars == <<environment, earned, balance, lock, payouts, created, triggers, attempts,
          transfers, paid, events, happened, task>>

-----------------------------------------------------------------------------
(* Rows and messages.                                                      *)

Amounts == 1 .. MaxEarned
PayoutIds == 1 .. MaxPayouts

(* Fees are booked with the payout and are part of amount here;            *)
(* transferred: transfer_id is set, old: ACCOUNT_PAYOUT_DELAY is over.     *)
Payout == [amount: Nat, canceled: BOOLEAN, transferred: BOOLEAN, old: BOOLEAN]

(* payout 0: an idle worker's.                                             *)
Trigger == [payout: {0} \cup PayoutIds, amount: Nat]

NoTrigger == [payout |-> 0, amount |-> 0]

(* at: the payout at Stripe, 0 when Stripe has refused it.                 *)
Attempt == [payout: PayoutIds, amount: Nat, at: Nat,
            status: {"pending", "in_transit", "succeeded", "failed"}]

StripePayout == [payout: PayoutIds, amount: Nat,
                 status: {"pending", "in_transit", "succeeded", "failed"}]

(* amount: the sum read, number: of the invoice, trigger: the message, at: *)
(* the payout made at Stripe, transferred: as it was read.                 *)
Task == [step: {"idle", "summed", "numbered", "inserted", "transferring", "triggering",
                "canceling"},
         payout: {0} \cup PayoutIds, amount: Nat, number: Nat,
         trigger: Trigger, at: Nat, transferred: BOOLEAN]

Idle == [step |-> "idle", payout |-> 0, amount |-> 0, number |-> 0,
         trigger |-> NoTrigger, at |-> 0, transferred |-> FALSE]

TypeOK ==
  /\ environment \in SUBSET AllEvents
  /\ earned \in 0 .. MaxEarned /\ balance \in Int
  /\ lock \in Workers \cup {NoWorker}
  /\ payouts \in Seq(Payout) /\ Len(payouts) <= MaxPayouts
  /\ created \in SUBSET PayoutIds
  /\ triggers \in SUBSET Trigger
  /\ attempts \in Seq(Attempt)
  /\ transfers \in [PayoutIds -> {"none", "made", "reversed"}]
  /\ paid \in Seq(StripePayout)
  /\ events \in SUBSET [at: Nat, status: {"in_transit", "succeeded", "failed"}]
  /\ happened \in Nat
  /\ task \in [Workers -> Task]

-----------------------------------------------------------------------------
(* What the code and Stripe read.                                          *)

May(event) == event \in environment

Happens(event) == May(event) /\ happened < MaxEvents /\ happened' = happened + 1

(* The amount of some rows.                                                *)
Total(rows, S) == SumFunctionOnSet([i \in DOMAIN rows |-> rows[i].amount], S)

AttemptsOf(p) == {a \in DOMAIN attempts : attempts[a].payout = p}

(* The trigger payout_status_update keeps the column status equal to this. *)
Status(p) ==
  LET statuses == {attempts[a].status : a \in AttemptsOf(p)}
  IN IF payouts[p].canceled THEN "canceled"
     ELSE IF "succeeded" \in statuses THEN "succeeded"
     ELSE IF statuses = {} THEN "pending"
     ELSE IF attempts[Max(AttemptsOf(p))].status = "in_transit" THEN "in_transit"
     ELSE IF statuses = {"failed"} THEN "failed" ELSE "pending"

(* What the seller's Stripe account holds.                                 *)
Available ==
  Total(payouts, {p \in DOMAIN payouts : transfers[p] = "made"})
  - Total(paid, {i \in DOMAIN paid : paid[i].status # "failed"})

(* Slip: attempts that are under way are not counted.                      *)
RemainingSucceeded(p) ==
  payouts[p].amount
  - Total(attempts, {a \in AttemptsOf(p) : attempts[a].status = "succeeded"})

Remaining(p) ==
  payouts[p].amount
  - Total(attempts, {a \in AttemptsOf(p) : attempts[a].status # "failed"})

Busy(p) ==
  \/ p \in created
  \/ \E m \in triggers : m.payout = p
  \/ \E w \in Workers : task[w].payout = p

ToBeTransferred(p) ==
  p \in created \/ \E w \in Workers : task[w].step = "transferring" /\ task[w].payout = p

-----------------------------------------------------------------------------
(* The seller earns money and asks for payouts (create).                   *)

Earn ==
  /\ earned < MaxEarned
  /\ earned' = earned + 1 /\ balance' = balance + 1
  /\ UNCHANGED <<environment, lock, payouts, created, triggers, attempts, transfers,
                 paid, events, happened, task>>

Inserting == {w \in Workers : task[w].step = "inserted"}

(* The lock is taken and the balance read.                                 *)
CreateSum(w) ==
  /\ task[w].step = "idle"
  /\ lock = NoWorker
  /\ balance > 0
  /\ Len(payouts) + Cardinality(Inserting) < MaxPayouts
  /\ lock' = w
  /\ task' = [task EXCEPT ![w] = [Idle EXCEPT !.step = "summed", !.amount = balance]]
  /\ UNCHANGED <<environment, earned, balance, payouts, created, triggers, attempts,
                 transfers, paid, events, happened>>

(* _get_next_invoice_number: the payouts are counted.                      *)
CreateNumber(w) ==
  /\ task[w].step = "summed"
  /\ task' = [task EXCEPT ![w].step = "numbered", ![w].number = Len(payouts) + 1]
  /\ UNCHANGED <<environment, earned, balance, lock, payouts, created, triggers,
                 attempts, transfers, paid, events, happened>>

(* Slip: nothing keeps invoice numbers from being used twice.              *)
CreateInsertUnchecked(w) ==
  /\ task[w].step = "numbered"
  /\ task' = [task EXCEPT ![w].step = "inserted"]
  /\ lock' = NoWorker
  /\ UNCHANGED <<environment, earned, balance, payouts, created, triggers, attempts,
                 transfers, paid, events, happened>>

(* The row is inserted, and the lock released before the commit: the       *)
(* unique invoice number makes the insertion wait for one that is not      *)
(* committed yet, and fail when it is.                                     *)
CreateInsert(w) ==
  /\ task[w].step = "numbered"
  /\ \A v \in Inserting : task[v].number # task[w].number
  /\ task' = [task EXCEPT ![w] =
       IF task[w].number \in DOMAIN payouts THEN Idle ELSE [@ EXCEPT !.step = "inserted"]]
  /\ lock' = NoWorker
  /\ UNCHANGED <<environment, earned, balance, payouts, created, triggers, attempts,
                 transfers, paid, events, happened>>

(* Unless a request is overtaken between the two, no other commits between *)
(* its reading of the balance and of the number.                           *)
CreateCommit(w) ==
  /\ task[w].step = "inserted"
  /\ May("overtaken") \/ \A v \in Workers : task[v].step # "summed"
  /\ payouts' = Append(payouts, [amount |-> task[w].amount, canceled |-> FALSE,
                                 transferred |-> FALSE, old |-> FALSE])
  /\ balance' = balance - task[w].amount
  /\ \/ created' = created \cup {Len(payouts) + 1}
     \/ May("lost_job") /\ UNCHANGED created
  /\ task' = [task EXCEPT ![w] = Idle]
  /\ UNCHANGED <<environment, earned, lock, triggers, attempts, transfers, paid,
                 events, happened>>

-----------------------------------------------------------------------------
(* payout.created: the transfer has an idempotency key, so that it is made *)
(* once.                                                                   *)

Transfer(w, p) ==
  /\ task[w].step = "idle"
  /\ p \in created
  /\ created' = created \ {p}
  /\ transfers' = [transfers EXCEPT ![p] = IF @ = "none" THEN "made" ELSE @]
  /\ task' = [task EXCEPT ![w] = [Idle EXCEPT !.step = "transferring", !.payout = p]]
  /\ UNCHANGED <<environment, earned, balance, lock, payouts, triggers, attempts, paid,
                 events, happened>>

TransferCommit(w) ==
  LET p == task[w].payout
  IN /\ task[w].step = "transferring"
     /\ payouts' = [payouts EXCEPT ![p].transferred = TRUE]
     /\ task' = [task EXCEPT ![w] = Idle]
     /\ UNCHANGED <<environment, earned, balance, lock, created, triggers, attempts,
                    transfers, paid, events, happened>>

-----------------------------------------------------------------------------
(* Payouts from the seller's Stripe account.                               *)

Age(p) ==
  /\ p \in DOMAIN payouts /\ ~payouts[p].old
  /\ payouts' = [payouts EXCEPT ![p].old = TRUE]
  /\ UNCHANGED <<environment, earned, balance, lock, created, triggers, attempts,
                 transfers, paid, events, happened, task>>

(* Slip: a payout waits for the end of the others of the account.          *)
PendingOneAtATime ==
  {p \in DOMAIN payouts :
     /\ payouts[p].old /\ AttemptsOf(p) = {}
     /\ \A a \in DOMAIN attempts : attempts[a].status \in {"succeeded", "failed"}}

(* get_all_stripe_pending: payouts without an attempt.                     *)
Pending == {p \in DOMAIN payouts : payouts[p].old /\ AttemptsOf(p) = {}}

(* The cron triggers the oldest of an account, when the last trigger is   *)
(* over or, in a backlog of tasks, earlier.                                *)
TriggerPayouts ==
  /\ Pending # {}
  /\ LET p == Min(Pending)
     IN /\ IF Busy(p) THEN Happens("backlog") ELSE UNCHANGED happened
        /\ triggers' = triggers \cup {[payout |-> p, amount |-> payouts[p].amount]}
  /\ UNCHANGED <<environment, earned, balance, lock, payouts, created, attempts,
                 transfers, paid, events, task>>

(* The balance is not there yet: triggered again later.                    *)
TriggerTooEarly(m) ==
  /\ m \in triggers
  /\ Available < m.amount
  /\ triggers' = triggers \ {m}
  /\ UNCHANGED <<environment, earned, balance, lock, payouts, created, attempts,
                 transfers, paid, events, happened, task>>

(* Stripe refuses: the attempt has failed.                                 *)
TriggerRefused(m) ==
  /\ m \in triggers
  /\ Available >= m.amount
  /\ Happens("refusal")
  /\ triggers' = triggers \ {m}
  /\ attempts' = Append(attempts, [payout |-> m.payout, amount |-> m.amount, at |-> 0,
                                   status |-> "failed"])
  /\ UNCHANGED <<environment, earned, balance, lock, payouts, created, transfers, paid,
                 events, task>>

TriggerPayout(w, m) ==
  /\ task[w].step = "idle"
  /\ m \in triggers
  /\ Available >= m.amount
  /\ triggers' = triggers \ {m}
  /\ paid' = Append(paid, [payout |-> m.payout, amount |-> m.amount, status |-> "pending"])
  /\ task' = [task EXCEPT ![w] = [Idle EXCEPT !.step = "triggering", !.payout = m.payout,
                                              !.trigger = m, !.at = Len(paid) + 1]]
  /\ UNCHANGED <<environment, earned, balance, lock, payouts, created, attempts,
                 transfers, events, happened>>

(* Slip: the id of Stripe's payout is not kept.                            *)
TriggerCommitUnlinked(w) ==
  LET m == task[w].trigger
  IN /\ task[w].step = "triggering"
     /\ attempts' = Append(attempts, [payout |-> m.payout, amount |-> m.amount,
                                      at |-> 0, status |-> "pending"])
     /\ task' = [task EXCEPT ![w] = Idle]
     /\ UNCHANGED <<environment, earned, balance, lock, payouts, created, triggers,
                    transfers, paid, events, happened>>

TriggerCommit(w) ==
  LET m == task[w].trigger
  IN /\ task[w].step = "triggering"
     /\ attempts' = Append(attempts, [payout |-> m.payout, amount |-> m.amount,
                                      at |-> task[w].at, status |-> "pending"])
     /\ task' = [task EXCEPT ![w] = Idle]
     /\ UNCHANGED <<environment, earned, balance, lock, payouts, created, triggers,
                    transfers, paid, events, happened>>

(* The backoffice retries: what remains, a part of it, or, with the form   *)
(* left empty, all of it.                                                  *)
Retry(p, amount) ==
  /\ p \in DOMAIN payouts
  /\ amount <= Remaining(p) \/ (May("impatient") /\ amount = payouts[p].amount)
  /\ May("impatient") \/ ~Busy(p)
  /\ Happens("retry")
  /\ triggers' = triggers \cup {[payout |-> p, amount |-> amount]}
  /\ UNCHANGED <<environment, earned, balance, lock, payouts, created, attempts,
                 transfers, paid, events, task>>

-----------------------------------------------------------------------------
(* What Stripe reports.                                                    *)

StripeUpdates(i, status) ==
  /\ i \in DOMAIN paid
  /\ \/ paid[i].status = "pending" /\ status = "in_transit"
     \/ paid[i].status = "in_transit" /\ status \in {"succeeded", "failed"}
  /\ paid' = [paid EXCEPT ![i].status = status]
  /\ events' = events \cup {[at |-> i, status |-> status]}
  /\ UNCHANGED <<environment, earned, balance, lock, payouts, created, triggers,
                 attempts, transfers, happened, task>>

(* Slip: Stripe's own word for a payout that has succeeded is stored.      *)
SetStatusRaw(at, status) ==
  attempts' = [a \in DOMAIN attempts |->
                 IF attempts[a].at # at THEN attempts[a]
                 ELSE [attempts[a] EXCEPT !.status = IF status = "succeeded" THEN "paid"
                                                     ELSE status]]

SetStatus(at, status) ==
  attempts' = [a \in DOMAIN attempts |->
                 IF attempts[a].at = at THEN [attempts[a] EXCEPT !.status = status]
                 ELSE attempts[a]]

(* update_from_stripe: an event that comes before the attempt is           *)
(* committed is retried.                                                   *)
UpdateFromStripe(e) ==
  /\ e \in events
  /\ \E a \in DOMAIN attempts : attempts[a].at = e.at
  /\ May("reorder") \/ e.status = "in_transit"
       \/ [at |-> e.at, status |-> "in_transit"] \notin events
  /\ SetStatus(e.at, e.status)
  /\ events' = events \ {e}
  /\ UNCHANGED <<environment, earned, balance, lock, payouts, created, triggers,
                 transfers, paid, happened, task>>

(* sync_with_provider: the backoffice refreshes the last attempt.          *)
SyncWithProvider(p) ==
  LET linked == {a \in AttemptsOf(p) : attempts[a].at # 0}
  IN /\ linked # {}
     /\ SetStatus(attempts[Max(linked)].at, paid[attempts[Max(linked)].at].status)
     /\ UNCHANGED <<environment, earned, balance, lock, payouts, created, triggers,
                    transfers, paid, events, happened, task>>

-----------------------------------------------------------------------------
(* Cancellation by the backoffice.                                         *)

Canceling(p) == \E w \in Workers : task[w].step = "canceling" /\ task[w].payout = p

Cancel(w, p) ==
  /\ task[w].step = "idle"
  /\ p \in DOMAIN payouts
  /\ Status(p) \in {"pending", "failed"}
  /\ \/ ~Busy(p)
     \/ May("early_cancel") /\ ToBeTransferred(p) /\ (May("impatient") \/ ~Canceling(p))
     \/ May("impatient") /\ ~ToBeTransferred(p)
  /\ Happens("cancel")
  /\ task' = [task EXCEPT ![w] = [Idle EXCEPT !.step = "canceling", !.payout = p,
                                              !.transferred = payouts[p].transferred]]
  /\ UNCHANGED <<environment, earned, balance, lock, payouts, created, triggers,
                 attempts, transfers, paid, events>>

(* Slip: the transfer is left with the seller.                             *)
CancelCommitUnreversed(w) ==
  LET p == task[w].payout
  IN /\ task[w].step = "canceling"
     /\ payouts' = [payouts EXCEPT ![p].canceled = TRUE]
     /\ balance' = balance + payouts[p].amount
     /\ task' = [task EXCEPT ![w] = Idle]
     /\ UNCHANGED <<environment, earned, lock, created, triggers, attempts, transfers,
                    paid, events, happened>>

(* A transfer known by its id is reversed; the cancellation fails when     *)
(* Stripe refuses that.                                                    *)
CancelCommit(w) ==
  LET p == task[w].payout
      refused == task[w].transferred
                 /\ (transfers[p] # "made" \/ Available < payouts[p].amount)
  IN /\ task[w].step = "canceling"
     /\ IF refused
        THEN UNCHANGED <<payouts, balance, transfers>>
        ELSE /\ payouts' = [payouts EXCEPT ![p].canceled = TRUE]
             /\ balance' = balance + payouts[p].amount
             /\ transfers' = [transfers EXCEPT ![p] =
                                IF task[w].transferred THEN "reversed" ELSE @]
     /\ task' = [task EXCEPT ![w] = Idle]
     /\ UNCHANGED <<environment, earned, lock, created, triggers, attempts, paid,
                    events, happened>>

(* A process dies before it commits: its message is delivered again, what  *)
(* Stripe has done stays done.                                             *)
Crash(w) ==
  LET t == task[w]
  IN /\ t.step # "idle"
     /\ Happens("crash")
     /\ lock' = IF lock = w THEN NoWorker ELSE lock
     /\ created' = IF t.step = "transferring" THEN created \cup {t.payout} ELSE created
     /\ triggers' = IF t.step = "triggering" THEN triggers \cup {t.trigger} ELSE triggers
     /\ \/ UNCHANGED transfers
        \/ /\ t.step = "canceling" /\ t.transferred /\ transfers[t.payout] = "made"
           /\ Available >= payouts[t.payout].amount
           /\ transfers' = [transfers EXCEPT ![t.payout] = "reversed"]
     /\ task' = [task EXCEPT ![w] = Idle]
     /\ UNCHANGED <<environment, earned, balance, payouts, attempts, paid, events>>

-----------------------------------------------------------------------------
Init ==
  /\ environment \in Environments
  /\ earned = 0 /\ balance = 0
  /\ lock = NoWorker
  /\ payouts = <<>> /\ attempts = <<>> /\ paid = <<>>
  /\ created = {} /\ triggers = {} /\ events = {}
  /\ transfers = [p \in PayoutIds |-> "none"]
  /\ happened = 0
  /\ task = [w \in Workers |-> Idle]

Start(w) == \E p \in PayoutIds : Transfer(w, p)

Handle(m) == TriggerTooEarly(m) \/ TriggerRefused(m) \/ \E w \in Workers : TriggerPayout(w, m)

Finish(w) ==
  \/ CreateNumber(w) \/ CreateInsert(w) \/ CreateCommit(w)
  \/ TransferCommit(w) \/ TriggerCommit(w) \/ CancelCommit(w)

Next ==
  \/ Earn \/ TriggerPayouts
  \/ \E w \in Workers : CreateSum(w) \/ Start(w) \/ Finish(w) \/ Crash(w)
  \/ \E m \in triggers : Handle(m)
  \/ \E p \in PayoutIds :
       \/ Age(p) \/ SyncWithProvider(p)
       \/ \E amount \in Amounts : Retry(p, amount)
       \/ \E w \in Workers : Cancel(w, p)
  \/ \E i \in DOMAIN paid, status \in {"in_transit", "succeeded", "failed"} :
       StripeUpdates(i, status)
  \/ \E e \in events : UpdateFromStripe(e)

Spec == Init /\ [][Next]_vars

(* Requests and tasks end, messages are taken, the cron runs, and Stripe's *)
(* events are delivered.                                                   *)
Fairness ==
  /\ WF_vars(TriggerPayouts) /\ WF_vars(\E p \in PayoutIds : Age(p))
  /\ WF_vars(\E m \in triggers : Handle(m))
  /\ WF_vars(\E e \in events : UpdateFromStripe(e))
  /\ \A w \in Workers : WF_vars(Finish(w)) /\ WF_vars(Start(w))

FairSpec == Spec /\ Fairness

-----------------------------------------------------------------------------
(* What payouts must keep.  A property that some events break names them:  *)
(* it is claimed for the environments without them.                        *)

Without(E) == environment \cap E = {}

(* No more is booked than was earned, and everything else is in the        *)
(* balance: two requests that read the same balance do not both succeed,   *)
(* although the first releases the lock before its commit.                 *)
BookedWithinEarned ==
  Without({"overtaken", "impatient"}) =>
    /\ balance >= 0
    /\ balance + Total(payouts, {p \in DOMAIN payouts : ~payouts[p].canceled}) = earned

(* Money at the seller's Stripe account belongs to a payout that is        *)
(* booked: a canceled one has been returned.                               *)
TransferIsBooked ==
  Without({"early_cancel"}) =>
    \A p \in PayoutIds : transfers[p] = "made" => ~payouts[p].canceled

(* No payout is paid out more than once, in one piece or several, whatever *)
(* Stripe refuses, fails or reports late.                                  *)
PaidWithinAmount ==
  Without({"crash", "backlog", "impatient"}) =>
    \A p \in DOMAIN payouts :
      Total(paid, {i \in DOMAIN paid : paid[i].payout = p /\ paid[i].status # "failed"})
        <= payouts[p].amount

(* A payout is eventually tried: none waits forever behind another one.    *)
PayoutIsTriggered ==
  \A p \in PayoutIds :
    Without({"crash", "cancel", "backlog", "lost_job", "impatient", "overtaken"})
      /\ p \in DOMAIN payouts ~> AttemptsOf(p) # {}

(* What Stripe has paid is eventually recorded as succeeded.               *)
PaidIsRecorded ==
  \A p \in PayoutIds :
    Without({"crash", "reorder"})
      /\ (\E i \in DOMAIN paid : paid[i].payout = p /\ paid[i].status = "succeeded")
      ~> p \in DOMAIN payouts /\ Status(p) \in {"succeeded", "canceled"}
=============================================================================
