---------------------------- MODULE OrderPayment ----------------------------
(***************************************************************************)
(* The payment of one subscription order: charging it, the webhooks that   *)
(* report the charge, and dunning when the charge fails                    *)
(* (server/polar/order/service.py, order/tasks.py, order/repository.py,    *)
(* integrations/stripe/payment.py, subscription/service.py).               *)
(*                                                                         *)
(* Every task and request works on the rows its session has read, and at   *)
(* commit writes the columns it changed (SQLAlchemy's unit of work under   *)
(* READ COMMITTED).  The update that takes the payment lock holds the row  *)
(* lock of the order until its transaction ends.                           *)
(***************************************************************************)
EXTENDS Integers, Sequences, FiniteSets, Functions

CONSTANTS
  Workers,         \* concurrent task and request executions
  Charges,         \* charges the processor may be asked for: a bound of the model
  RetryIntervals,  \* settings.DUNNING_RETRY_INTERVALS, in ticks of the clock
  MaxMessages,     \* bound on the queued messages of one actor
  Environments     \* the sets of events that may happen together

Nobody == "nobody"       \* nobody holds the row lock of the order
NoCharge == "no charge"
NoDate == -1             \* a NULL timestamp; dates are counted in ticks left

AllEvents == {"crash", "give_up", "early_hook", "manual", "void", "revoke",
  "method_removed", "method_added", "blocked", "processing", "hard_decline",
  "invalid_method", "no_method", "below_minimum", "lost_job", "final_order",
  "backlog", "late_hook", "paystack"}

(* past_due_deadline is the sum of the intervals and one minute, so that    *)
(* the attempt after the last interval still comes before it.              *)
Deadline == FoldFunction(+, 0, RetryIntervals) + 1

ASSUME WorkersAssumption == Nobody \notin Workers
ASSUME ChargesAssumption == NoCharge \notin Charges /\ IsFiniteSet(Charges)
ASSUME IntervalsAssumption ==
  /\ RetryIntervals \in Seq(Nat \ {0})
  /\ Len(RetryIntervals) > 0
  /\ Deadline \in Nat \ {0}
ASSUME MessagesAssumption == MaxMessages \in Nat \ {0}
ASSUME EnvironmentsAssumption == Environments \subseteq SUBSET AllEvents

VARIABLES
  environment, \* the events that may happen in this behavior; it never changes
  order,     \* the committed row of the order
  sub,       \* the committed row of its subscription
  rowLock,   \* the transaction that holds the row lock of the order
  charge,    \* the charges at the processor, and the webhook of each
  triggers,  \* queued order.trigger_payment messages
  dunnings,  \* queued order.process_dunning_order messages
  credits,   \* wallet entries written instead of a charge below the minimum
  blocked,   \* the organization is blocked or denied
  task       \* what each worker is executing

vars == <<environment, order, sub, rowLock, charge, triggers, dunnings, credits,
          blocked, task>>

-----------------------------------------------------------------------------
(* Rows.                                                                   *)

Date == {NoDate} \cup Nat

(* next: next_payment_attempt_at, lock: payment_lock_acquired_at is set,   *)
(* ref: stripe_invoice_id is set, small: due_amount is below Stripe's 50.  *)
OrderRow == [status: {"pending", "paid", "void"}, next: Date, lock: BOOLEAN,
             ref: BOOLEAN, small: BOOLEAN]

(* dueLeft: ticks to past_due_deadline, NoDate when past_due_at is NULL;   *)
(* ended: ended_at is set; method: the payment method exists.              *)
SubRow == [status: {"active", "past_due", "canceled"}, dueLeft: Date,
           ended: BOOLEAN, method: BOOLEAN]

Rows == [order: OrderRow, sub: SubRow]

(* hook: the webhook of the outcome, from the processor's send until its   *)
(* handler has committed ("done") or its retries are exhausted ("dead");   *)
(* "done" from the start when none is handled.                             *)
ChargeState == {"unused", "processing", "succeeded", "declined", "declined_hard"}
ChargeRow == [state: ChargeState, manual: BOOLEAN,
              hook: {"none", "pending", "done", "dead"}]

Failed == {"declined", "declined_hard"}
Kinds == {"trigger", "manual", "hook", "dunning", "void"}
Steps == {"idle", "read", "locked", "charged"}
Results == ChargeState \cup {"none", "invalid"}

Task == [step: Steps, kind: Kinds, charge: Charges \cup {NoCharge},
         result: Results, seen: Rows]

Unread == [order |-> [status |-> "pending", next |-> NoDate, lock |-> FALSE,
                      ref |-> FALSE, small |-> FALSE],
           sub |-> [status |-> "active", dueLeft |-> NoDate,
                    ended |-> FALSE, method |-> TRUE]]

Idle == [step |-> "idle", kind |-> "trigger", charge |-> NoCharge,
         result |-> "none", seen |-> Unread]

TypeOK ==
  /\ environment \in SUBSET AllEvents
  /\ order \in OrderRow
  /\ sub \in SubRow
  /\ rowLock \in Workers \cup {Nobody}
  /\ charge \in [Charges -> ChargeRow]
  /\ triggers \in Nat
  /\ dunnings \in Nat
  /\ credits \in Nat
  /\ blocked \in BOOLEAN
  /\ task \in [Workers -> Task]

-----------------------------------------------------------------------------
(* What the services compute from the rows they read.                      *)

(* The processor of the customer's payment method.                         *)
Processor == IF "paystack" \in environment THEN "paystack" ELSE "stripe"

Billable(s) == s.status \in {"active", "past_due"}

CanCancelImmediately(s) == Billable(s) /\ ~s.ended

(* Slip: the status written is not one of the enumeration.                 *)
RevokedMisnamed(s) == [s EXCEPT !.status = "revoked", !.ended = TRUE]

Revoked(s) == [s EXCEPT !.status = "canceled", !.ended = TRUE]

MarkPastDue(s) ==
  [s EXCEPT !.status = "past_due",
            !.dueLeft = IF @ = NoDate THEN Deadline ELSE @]

MarkActive(s) == [s EXCEPT !.status = "active", !.dueLeft = NoDate]

(* Slip: the lock is not released.                                         *)
ReleaseLockForgotten(r) == r

ReleaseLock(r) == [r EXCEPT !.order.lock = FALSE]

HandlePayment(r) ==
  LET paid == r.order.status = "pending"
  IN [order |-> [r.order EXCEPT !.status = IF paid THEN "paid" ELSE @,
                                !.next = NoDate, !.lock = FALSE],
      sub |-> IF paid /\ r.sub.status = "past_due"
              THEN MarkActive(r.sub) ELSE r.sub]

(* hard: the latest payment's decline code is not recoverable.             *)
FirstDunningAttempt(r, hard) ==
  LET s == MarkPastDue(r.sub)
  IN [order |-> [r.order EXCEPT !.next = IF hard THEN s.dueLeft
                                         ELSE RetryIntervals[1]],
      sub |-> s]

(* Slip: the last attempt clears the date without revoking.                *)
ConsecutiveWithoutRevocation(r, failures) ==
  IF failures >= Len(RetryIntervals) \/ r.sub.dueLeft = 0 \/ r.order.status = "void"
  THEN [r EXCEPT !.order.next = NoDate]
  ELSE [r EXCEPT !.order.next = RetryIntervals[failures + 1]]

(* Slip: only failed charges end dunning, the deadline does not.           *)
ConsecutiveWithoutDeadline(r, failures) ==
  IF failures >= Len(RetryIntervals) \/ r.order.status = "void"
  THEN [order |-> [r.order EXCEPT !.next = NoDate],
        sub |-> IF CanCancelImmediately(r.sub) THEN Revoked(r.sub) ELSE r.sub]
  ELSE [r EXCEPT !.order.next = RetryIntervals[failures + 1]]

ConsecutiveDunningAttempt(r, failures) ==
  IF \/ failures >= Len(RetryIntervals)
     \/ r.sub.dueLeft = 0
     \/ r.order.status = "void"
  THEN [order |-> [r.order EXCEPT !.next = NoDate],
        sub |-> IF CanCancelImmediately(r.sub) THEN Revoked(r.sub) ELSE r.sub]
  ELSE [r EXCEPT !.order.next = RetryIntervals[failures + 1]]

(* failures: the payments of the order recorded as failed.                 *)
HandlePaymentFailure(r, skipDunning, failures, hard) ==
  IF r.order.status = "paid" THEN r
  ELSE IF skipDunning THEN ReleaseLock(r)
  ELSE IF r.order.next = NoDate THEN FirstDunningAttempt(ReleaseLock(r), hard)
  ELSE ConsecutiveDunningAttempt(ReleaseLock(r), failures)

(* Payments are recorded from Stripe's webhooks only.                      *)
RecordedFailures ==
  {c \in Charges :
     Processor = "stripe" /\ charge[c].state \in Failed /\ charge[c].hook = "done"}

-----------------------------------------------------------------------------
(* Transactions.                                                           *)

(* The columns of an update_dict are written even when they do not change. *)
NoFlags == [order |-> {}, sub |-> {}]

PaymentFlags(r) ==
  [NoFlags EXCEPT !.sub = IF r.order.status = "pending" /\ r.sub.status = "past_due"
                          THEN {"status", "dueLeft"} ELSE {}]

FailureFlags(r) ==
  IF r.order.status = "paid" THEN NoFlags
  ELSE [order |-> {"next"}, sub |-> IF r.order.next = NoDate THEN {"status"} ELSE {}]

(* Slip: the whole row is written back.                                    *)
MergeWholeRow(current, seen, new, flagged) == new

(* The columns that are flagged or differ from the row read are written;   *)
(* the others keep what other transactions have committed meanwhile.       *)
Merge(current, seen, new, flagged) ==
  [c \in DOMAIN current |->
     IF new[c] = seen[c] /\ c \notin flagged THEN current[c] ELSE new[c]]

Holds(w) == rowLock = w

Begin(w, kind, c) ==
  /\ task[w].step = "idle"
  /\ task' = [task EXCEPT ![w] = [step |-> "read", kind |-> kind, charge |-> c,
                 result |-> "none", seen |-> [order |-> order, sub |-> sub]]]
  /\ UNCHANGED <<order, sub, rowLock, credits, blocked>>

End(w) ==
  /\ task' = [task EXCEPT ![w] = Idle]
  /\ rowLock' = IF Holds(w) THEN Nobody ELSE rowLock

(* A writer of the order row waits for the transaction that holds its row  *)
(* lock.  The holder has already written the payment lock.                 *)
Commit(w, new, flags) ==
  /\ rowLock \in {Nobody, w}
  /\ order' = Merge([order EXCEPT !.lock = IF Holds(w) THEN TRUE ELSE @],
                    task[w].seen.order, new.order, flags.order)
  /\ sub' = Merge(sub, task[w].seen.sub, new.sub, flags.sub)
  /\ End(w)

(* Rolled back; the message, if any, is delivered again unless the retries *)
(* of dramatiq are exhausted.  A request of the API is not retried.        *)
Rollback(w, again) ==
  /\ triggers' = IF again /\ task[w].kind = "trigger" THEN triggers + 1 ELSE triggers
  /\ dunnings' = IF again /\ task[w].kind = "dunning" THEN dunnings + 1 ELSE dunnings
  /\ charge' = IF ~again /\ task[w].kind = "hook"
               THEN [charge EXCEPT ![task[w].charge].hook = "dead"] ELSE charge
  /\ End(w)
  /\ UNCHANGED <<environment, order, sub, credits, blocked>>

Raise(w) == \/ Rollback(w, TRUE)
            \/ "give_up" \in environment /\ Rollback(w, FALSE)

-----------------------------------------------------------------------------
(* order.trigger_payment.                                                  *)

(* Slip: the message stays in the queue while it is processed.             *)
TriggerBeginUnacknowledged(w) ==
  /\ triggers > 0
  /\ Begin(w, "trigger", NoCharge)
  /\ UNCHANGED <<environment, charge, triggers, dunnings>>

TriggerBegin(w) ==
  /\ triggers > 0
  /\ triggers' = triggers - 1
  /\ Begin(w, "trigger", NoCharge)
  /\ UNCHANGED <<environment, charge, dunnings>>

Reading(w, kind) == task[w].step = "read" /\ task[w].kind = kind

(* The row that was read still allows a charge.                            *)
MayCharge(r) == r.order.status = "pending" /\ ~r.order.lock

BelowMinimum(r) == Processor = "stripe" /\ r.order.small

(* The payment method is gone: dunning takes over.                         *)
TriggerWithoutMethod(w) ==
  /\ Reading(w, "trigger")
  /\ ~task[w].seen.sub.method
  /\ \E hard \in BOOLEAN :
       /\ hard => \E c \in RecordedFailures : charge[c].state = "declined_hard"
       /\ Commit(w, HandlePaymentFailure(task[w].seen, FALSE,
                                         Cardinality(RecordedFailures), hard),
                 FailureFlags(task[w].seen))
  /\ UNCHANGED <<environment, charge, triggers, dunnings, credits, blocked>>

(* OrderNotPending or PaymentAlreadyInProgress, from the row that was read. *)
TriggerRefused(w) ==
  /\ Reading(w, "trigger")
  /\ task[w].seen.sub.method
  /\ \/ task[w].seen.order.status # "pending"
     \/ ~blocked /\ task[w].seen.order.lock
  /\ Raise(w)

TriggerSkipped(w) ==
  /\ Reading(w, "trigger")
  /\ task[w].seen.sub.method
  /\ task[w].seen.order.status = "pending"
  /\ blocked
  /\ End(w)
  /\ UNCHANGED <<environment, order, sub, charge, triggers, dunnings, credits,
                 blocked>>

(* Below the minimum of the processor the order is paid from the balance.  *)
TriggerCredit(w) ==
  /\ Reading(w, "trigger")
  /\ task[w].seen.sub.method
  /\ ~blocked
  /\ MayCharge(task[w].seen)
  /\ BelowMinimum(task[w].seen)
  /\ Commit(w, [task[w].seen EXCEPT !.order.status = "paid"], NoFlags)
  /\ credits' = credits + 1
  /\ UNCHANGED <<environment, charge, triggers, dunnings, blocked>>

-----------------------------------------------------------------------------
(* The charge, by order.trigger_payment and by a manual retry.             *)

(* process_retry_payment, refused unless the row read is in dunning.       *)
ManualBegin(w) ==
  /\ "manual" \in environment
  /\ Processor = "stripe"
  /\ MayCharge([order |-> order])
  /\ order.next # NoDate
  /\ Begin(w, "manual", NoCharge)
  /\ UNCHANGED <<environment, charge, triggers, dunnings>>

WantsLock(w) ==
  \/ Reading(w, "manual")
  \/ /\ Reading(w, "trigger")
     /\ task[w].seen.sub.method
     /\ ~blocked
     /\ MayCharge(task[w].seen)
     /\ ~BelowMinimum(task[w].seen)

(* acquire_payment_lock_by_id: an update of the row where the lock is null. *)
AcquireLock(w) ==
  /\ WantsLock(w)
  /\ rowLock = Nobody
  /\ ~order.lock
  /\ rowLock' = w
  /\ task' = [task EXCEPT ![w] = [@ EXCEPT !.step = "locked", !.seen.order.lock = TRUE]]
  /\ UNCHANGED <<environment, order, sub, charge, triggers, dunnings, credits,
                 blocked>>

LockRefused(w) ==
  /\ WantsLock(w)
  /\ rowLock = Nobody
  /\ order.lock
  /\ Raise(w)

Outcomes(w) ==
  IF Processor = "paystack" THEN {"succeeded", "declined"}
  ELSE {"succeeded", "declined"}
       \cup ({"processing"} \cap environment)
       \cup (IF "hard_decline" \in environment THEN {"declined_hard"} ELSE {})

(* The request reaches the processor: money moves before anything of it is *)
(* written to the database.  Paystack's webhooks for a renewal carry no    *)
(* checkout_id and are ignored.                                            *)
CreateCharge(w) ==
  /\ task[w].step = "locked"
  /\ \E c \in Charges, outcome \in Outcomes(w) :
       /\ charge[c].state = "unused"
       /\ charge' = [charge EXCEPT ![c] =
            [state |-> outcome, manual |-> task[w].kind = "manual",
             hook |-> CASE Processor = "paystack" -> "done"
                        [] outcome = "processing" -> "none"
                        [] OTHER -> "pending"]]
       /\ task' = [task EXCEPT ![w] =
            [@ EXCEPT !.step = "charged", !.charge = c, !.result = outcome]]
  /\ UNCHANGED <<environment, order, sub, rowLock, triggers, dunnings,
                 credits, blocked>>

(* Stripe's InvalidRequestError: the payment method cannot be used.        *)
CreateChargeInvalid(w) ==
  /\ "invalid_method" \in environment
  /\ Processor = "stripe"
  /\ task[w].step = "locked"
  /\ task' = [task EXCEPT ![w] = [@ EXCEPT !.step = "charged", !.result = "invalid"]]
  /\ UNCHANGED <<environment, order, sub, rowLock, charge, triggers, dunnings,
                 credits, blocked>>

Charged(w, results) == task[w].step = "charged" /\ task[w].result \in results

(* Stripe accepted the request; the lock stays until the webhook.          *)
KeepLock(w) ==
  /\ Charged(w, {"succeeded", "processing"})
  /\ task[w].kind = "trigger"
  /\ Processor = "stripe"
  /\ Commit(w, task[w].seen, NoFlags)
  /\ UNCHANGED <<environment, charge, triggers, dunnings, credits, blocked>>

(* Slip: the status in Paystack's answer is not looked at.                 *)
PaidAtOnceUnchecked(w) ==
  /\ Charged(w, {"succeeded", "declined"})
  /\ Processor = "paystack"
  /\ Commit(w, HandlePayment([task[w].seen EXCEPT !.order.ref = TRUE]),
            PaymentFlags(task[w].seen))
  /\ UNCHANGED <<environment, charge, triggers, dunnings, credits, blocked>>

(* Paystack's answer is final: the order is paid in the same transaction.  *)
PaidAtOnce(w) ==
  /\ Charged(w, {"succeeded"})
  /\ Processor = "paystack"
  /\ Commit(w, HandlePayment([task[w].seen EXCEPT !.order.ref = TRUE]),
            PaymentFlags(task[w].seen))
  /\ UNCHANGED <<environment, charge, triggers, dunnings, credits, blocked>>

(* PaymentFailed: the lock is released and the transaction committed.      *)
ChargeDeclined(w) ==
  /\ Charged(w, Failed)
  /\ Commit(w, ReleaseLock(task[w].seen), NoFlags)
  /\ UNCHANGED <<environment, charge, triggers, dunnings, credits, blocked>>

(* The unusable method is deleted, another one of the customer may replace *)
(* it, and the failure enters dunning.                                     *)
ChargeInvalid(w) ==
  /\ Charged(w, {"invalid"})
  /\ task[w].kind = "trigger"
  /\ \E other \in BOOLEAN, hard \in BOOLEAN :
       /\ other => Billable(task[w].seen.sub)
       /\ hard => \E c \in RecordedFailures : charge[c].state = "declined_hard"
       /\ Commit(w, HandlePaymentFailure([task[w].seen EXCEPT !.sub.method = other],
                                         FALSE, Cardinality(RecordedFailures), hard),
                 FailureFlags(task[w].seen))
  /\ UNCHANGED <<environment, charge, triggers, dunnings, credits, blocked>>

(* The manual retry lets go of the lock whatever the outcome.              *)
ManualEnd(w) ==
  /\ Charged(w, Results \ Failed)
  /\ task[w].kind = "manual"
  /\ Commit(w, ReleaseLock(task[w].seen), NoFlags)
  /\ UNCHANGED <<environment, charge, triggers, dunnings, credits, blocked>>

(* A payment that needed time or an action of the customer is settled.     *)
SettleCharge(c) ==
  /\ charge[c].state = "processing"
  /\ \E outcome \in {"succeeded", "declined"} :
       charge' = [charge EXCEPT ![c].state = outcome, ![c].hook = "pending"]
  /\ UNCHANGED <<environment, order, sub, rowLock, triggers, dunnings,
                 credits, blocked, task>>

-----------------------------------------------------------------------------
(* stripe.webhook.charge.succeeded and charge.failed.                      *)

(* Unless early_hook happens, the webhook of a charge is handled after the *)
(* transaction that asked for it.                                          *)
HookBegin(w, c) ==
  /\ charge[c].hook = "pending"
  /\ \A v \in Workers :
       /\ ~(task[v].kind = "hook" /\ task[v].charge = c)
       /\ "early_hook" \notin environment => task[v].charge # c
  /\ Begin(w, "hook", c)
  /\ UNCHANGED <<environment, charge, triggers, dunnings>>

HookDone(c) == charge' = [charge EXCEPT ![c].hook = "done"]

HookSucceeded(w) ==
  LET c == task[w].charge  r == task[w].seen
  IN /\ Reading(w, "hook")
     /\ charge[c].state = "succeeded"
     /\ r.order.ref \/ r.order.status = "pending"
     /\ Commit(w, HandlePayment(r), PaymentFlags(r))
     /\ HookDone(c)
     /\ UNCHANGED <<environment, triggers, dunnings, credits, blocked>>

(* OrderNotPending: the payment is not recorded.                           *)
HookRefused(w) ==
  LET r == task[w].seen
  IN /\ Reading(w, "hook")
     /\ charge[task[w].charge].state = "succeeded"
     /\ ~r.order.ref /\ r.order.status # "pending"
     /\ Raise(w)

(* The payment is recorded as failed and counts as such at once.           *)
HookFailed(w) ==
  LET c == task[w].charge
  IN /\ Reading(w, "hook")
     /\ charge[c].state \in Failed
     /\ Commit(w, HandlePaymentFailure(task[w].seen, charge[c].manual,
                    Cardinality(RecordedFailures \cup {c}),
                    charge[c].state = "declined_hard"),
               IF charge[c].manual THEN NoFlags ELSE FailureFlags(task[w].seen))
     /\ HookDone(c)
     /\ UNCHANGED <<environment, triggers, dunnings, credits, blocked>>

-----------------------------------------------------------------------------
(* Dunning.                                                                *)

(* An hour is enough for the queue to drain, unless there is a backlog,    *)
(* and for the webhooks to be handled, unless they are late.               *)
Drained ==
  /\ "backlog" \notin environment =>
       /\ triggers = 0 /\ dunnings = 0
       /\ \A w \in Workers :
            task[w].step # "idle" => task[w].kind \notin {"trigger", "dunning"}
  /\ "late_hook" \notin environment => \A c \in Charges : charge[c].hook # "pending"

(* order.process_dunning, every hour: whatever is due, in any status.      *)
Cron ==
  /\ order.next = 0
  /\ Drained
  /\ dunnings < MaxMessages
  /\ dunnings' = dunnings + 1
  /\ UNCHANGED <<environment, order, sub, rowLock, charge, triggers, credits,
                 blocked, task>>

DunningBegin(w) ==
  /\ dunnings > 0
  /\ dunnings' = dunnings - 1
  /\ Begin(w, "dunning", NoCharge)
  /\ UNCHANGED <<environment, charge, triggers>>

DunningCanceled(w) ==
  /\ Reading(w, "dunning")
  /\ task[w].seen.sub.status = "canceled"
  /\ Commit(w, [task[w].seen EXCEPT !.order.next = NoDate],
            [NoFlags EXCEPT !.order = {"next"}])
  /\ UNCHANGED <<environment, charge, triggers, dunnings, credits, blocked>>

DunningWithoutMethod(w) ==
  /\ Reading(w, "dunning")
  /\ task[w].seen.sub.status # "canceled"
  /\ ~task[w].seen.sub.method
  /\ \E hard \in BOOLEAN :
       /\ hard => \E c \in RecordedFailures : charge[c].state = "declined_hard"
       /\ Commit(w, HandlePaymentFailure(task[w].seen, FALSE,
                                         Cardinality(RecordedFailures), hard),
                 FailureFlags(task[w].seen))
  /\ UNCHANGED <<environment, charge, triggers, dunnings, credits, blocked>>

(* The job reaches the queue after the commit: a crash between loses it.   *)
DunningTriggers(w) ==
  /\ Reading(w, "dunning")
  /\ task[w].seen.sub.status # "canceled"
  /\ task[w].seen.sub.method
  /\ triggers < MaxMessages
  /\ triggers' \in {triggers + 1} \cup (IF "lost_job" \in environment
                                        THEN {triggers} ELSE {})
  /\ End(w)
  /\ UNCHANGED <<environment, order, sub, charge, dunnings, credits, blocked>>

-----------------------------------------------------------------------------
(* The customer, the organization and the backoffice.                      *)

VoidBegin(w) ==
  /\ "void" \in environment
  /\ order.status = "pending"
  /\ Begin(w, "void", NoCharge)
  /\ UNCHANGED <<environment, charge, triggers, dunnings>>

VoidCommit(w) ==
  /\ Reading(w, "void")
  /\ Commit(w, [task[w].seen EXCEPT !.order.status = "void"], NoFlags)
  /\ UNCHANGED <<environment, charge, triggers, dunnings, credits, blocked>>

(* The subscription is revoked through the API.                            *)
Revoke ==
  /\ "revoke" \in environment
  /\ CanCancelImmediately(sub)
  /\ sub' = Revoked(sub)
  /\ UNCHANGED <<environment, order, rowLock, charge, triggers, dunnings,
                 credits, blocked, task>>

(* The customer may delete a method no billable subscription depends on.   *)
RemoveMethod ==
  /\ "method_removed" \in environment
  /\ sub.method
  /\ ~Billable(sub)
  /\ sub' = [sub EXCEPT !.method = FALSE]
  /\ UNCHANGED <<environment, order, rowLock, charge, triggers, dunnings,
                 credits, blocked, task>>

(* A new default method reschedules the pending orders of past due         *)
(* subscriptions whose deadline has not passed, for now.                   *)
AddMethod ==
  /\ "method_added" \in environment
  /\ rowLock = Nobody
  /\ order.status = "pending"
  /\ sub.status = "past_due" /\ sub.dueLeft > 0 /\ ~sub.ended
  /\ ~(sub.method /\ order.next = 0)
  /\ order' = [order EXCEPT !.next = 0]
  /\ sub' = [sub EXCEPT !.method = TRUE]
  /\ UNCHANGED <<environment, rowLock, charge, triggers, dunnings, credits,
                 blocked, task>>

SetBlocked ==
  /\ "blocked" \in environment
  /\ blocked' = ~blocked
  /\ UNCHANGED <<environment, order, sub, rowLock, charge, triggers, dunnings,
                 credits, task>>

(* The worker dies or an unforeseen exception ends the task: the database  *)
(* rolls back, what the processor was told stays.                          *)
Crash(w) ==
  /\ "crash" \in environment
  /\ task[w].step # "idle"
  /\ Rollback(w, TRUE)

(* Tasks end within a minute (TimeLimit); a tick is a day.                 *)
Tick ==
  /\ \A w \in Workers : task[w] = Idle
  /\ Drained
  /\ order.next > 0 \/ sub.dueLeft > 0
  /\ order' = [order EXCEPT !.next = IF @ > 0 THEN @ - 1 ELSE @]
  /\ sub' = [sub EXCEPT !.dueLeft = IF @ > 0 THEN @ - 1 ELSE @]
  /\ UNCHANGED <<environment, rowLock, charge, triggers, dunnings, credits,
                 blocked, task>>

-----------------------------------------------------------------------------

NewSubs ==
  {Unread.sub}
  \cup (IF "no_method" \in environment
        THEN {[Unread.sub EXCEPT !.method = FALSE]} ELSE {})
  \cup (IF "final_order" \in environment
        THEN {[Unread.sub EXCEPT !.status = "canceled", !.ended = TRUE]} ELSE {})

(* create_subscription_order has committed a pending order in the          *)
(* background mode: without a payment method the failure is immediate.     *)
Init ==
  /\ environment \in Environments
  /\ \E s \in NewSubs, small \in BOOLEAN :
       LET new == [order |-> [Unread.order EXCEPT !.small = small], sub |-> s]
           rows == IF s.method THEN new ELSE HandlePaymentFailure(new, FALSE, 0, FALSE)
       IN /\ small => "below_minimum" \in environment
          /\ order = rows.order
          /\ sub = rows.sub
          /\ triggers \in (IF ~s.method THEN {0}
                           ELSE IF "lost_job" \in environment THEN {0, 1} ELSE {1})
  /\ rowLock = Nobody
  /\ charge = [c \in Charges |-> [state |-> "unused", manual |-> FALSE, hook |-> "none"]]
  /\ dunnings = 0
  /\ credits = 0
  /\ blocked = FALSE
  /\ task = [w \in Workers |-> Idle]

TriggerStep(w) ==
  TriggerWithoutMethod(w) \/ TriggerRefused(w) \/ TriggerSkipped(w) \/ TriggerCredit(w)

ChargeStep(w) ==
  \/ AcquireLock(w) \/ LockRefused(w) \/ CreateCharge(w) \/ CreateChargeInvalid(w)
  \/ KeepLock(w) \/ PaidAtOnce(w) \/ ChargeDeclined(w) \/ ChargeInvalid(w) \/ ManualEnd(w)

HookStep(w) == HookSucceeded(w) \/ HookRefused(w) \/ HookFailed(w)

DunningStep(w) == DunningCanceled(w) \/ DunningWithoutMethod(w) \/ DunningTriggers(w)

(* A task that has begun, short of a crash.                                *)
Proceed(w) ==
  TriggerStep(w) \/ ChargeStep(w) \/ HookStep(w) \/ DunningStep(w) \/ VoidCommit(w)

Next ==
  \/ \E w \in Workers :
       \/ TriggerBegin(w) \/ ManualBegin(w) \/ DunningBegin(w) \/ VoidBegin(w)
       \/ \E c \in Charges : HookBegin(w, c)
       \/ Proceed(w)
       \/ Crash(w)
  \/ \E c \in Charges : SettleCharge(c)
  \/ Cron \/ Revoke \/ RemoveMethod \/ AddMethod \/ SetBlocked \/ Tick

Spec == Init /\ [][Next]_vars

(* Workers keep taking messages and end their tasks, the processor settles *)
(* every charge, and the hourly cron keeps running.                        *)
Fairness ==
  /\ \A w \in Workers : SF_vars(Proceed(w))
  /\ SF_vars(\E w \in Workers : TriggerBegin(w))
  /\ SF_vars(\E w \in Workers : DunningBegin(w))
  /\ \A c \in Charges : SF_vars(\E w \in Workers : HookBegin(w, c)) /\ WF_vars(SettleCharge(c))
  /\ SF_vars(Cron) /\ SF_vars(Tick)

FairSpec == Spec /\ Fairness

-----------------------------------------------------------------------------
(* What the payment of an order must keep.  A property that some events    *)
(* break names them: it is claimed for the environments without them.      *)

Without(E) == environment \cap E = {}

(* An order is paid only by a charge that succeeded and whose webhook, if  *)
(* one is awaited, was handled, or by the credit of an amount below the    *)
(* minimum: no stale row, retry or crash turns an order paid               *)
(* (handle_payment, trigger_payment).                                      *)
PaidByCharge ==
  order.status = "paid" =>
    \/ credits > 0
    \/ \E c \in Charges : charge[c].state = "succeeded" /\ charge[c].hook = "done"

(* The customer is charged once for an order: the payment lock outlives    *)
(* the transaction of trigger_payment.  A crash rolls the lock back, a     *)
(* manual retry lets go of it, and in a backlog, or when webhooks are      *)
(* late, the failure of another attempt may release it (trigger_payment,   *)
(* process_retry_payment, handle_payment_failure).                         *)
ChargedOnce ==
  Without({"crash", "manual", "backlog", "late_hook"}) =>
    Cardinality({c \in Charges : charge[c].state = "succeeded"}) <= 1

(* The committed lock of a pending order is never left behind: a charge    *)
(* whose webhook will clear it is on its way (handle_payment_failure       *)
(* clears the lock on failure, handle_payment on success).  A charge that  *)
(* settles, and whose webhook is handled, before the transaction that      *)
(* asked for it commits leaves it.                                         *)
LockHasCharge ==
  ~({"early_hook", "processing"} \subseteq environment)
  /\ order.status = "pending" /\ order.lock =>
    \E c \in Charges : charge[c].state = "processing" \/ charge[c].hook = "pending"

(* A webhook that works on a row read long before the charge or dunning    *)
(* task of the next attempt ends.                                          *)
Stale == {"crash", "backlog", "late_hook"}

(* A subscription stays past due only while its order has a date for the   *)
(* next attempt; otherwise it would be neither retried nor revoked.        *)
PastDueIsScheduled ==
  Without(Stale \cup {"processing", "revoke", "final_order"})
  /\ order.status = "pending" /\ sub.status = "past_due" => order.next # NoDate

(* No late failure takes the subscription of a paid order away; only a     *)
(* revocation asked for through the API does.                              *)
PaidKeepsSubscription ==
  [][Without(Stale \cup {"manual", "revoke"})
     /\ order.status = "paid" /\ sub.status = "active" => sub'.status = "active"]_vars

(* Events that lose an attempt for good, repeat it without end or let the  *)
(* subscription end behind dunning's back.                                 *)
Endless == Stale \cup {"lost_job", "processing", "early_hook", "blocked", "manual",
                       "revoke", "final_order", "paystack"}

(* Dunning comes to an end: an order with a date for the next attempt is   *)
(* eventually paid or voided, or its subscription is revoked               *)
(* (process_dunning, _handle_consecutive_dunning_attempts).                 *)
DunningEnds ==
  Without(Endless) /\ order.next # NoDate
    ~> order.status # "pending" \/ sub.status = "canceled"
=============================================================================
