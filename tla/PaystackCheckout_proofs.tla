----------------------- MODULE PaystackCheckout_proofs -----------------------
(***************************************************************************)
(* Theorems about PaystackCheckout, for every value of its constants.      *)
(***************************************************************************)
EXTENDS PaystackCheckout, FiniteSetTheorems, TLAPS

-----------------------------------------------------------------------------
(* What the types need in order to be inductive: an event belongs to a     *)
(* transaction that is over, and a task works on the checkout of its       *)
(* transaction.                                                            *)

Over(p) == p \in DOMAIN payments /\ payments[p].state # "pending"

EventsOK ==
  /\ Len(payments) <= MaxPayments
  /\ \A p \in Payments : events[p] # "absent" => Over(p)

Busy(w) == task[w].step # "idle"

TaskOK(w) ==
  LET t == task[w]
  IN Busy(w) =>
       /\ t.checkout \in Checkouts
       /\ t.kind \in OfEvent => Over(t.payment) /\ payments[t.payment].checkout = t.checkout
       /\ t.kind = "success" => Paid(t.payment)
       /\ t.kind = "failed" => ~Paid(t.payment)
       /\ t.step = "event" => t.kind \in {"success", "failed"}

TypeInv == TypeOK /\ EventsOK /\ \A w \in Workers : TaskOK(w)

-----------------------------------------------------------------------------
(* A sale is never undone, and the limit of the discount is kept, whatever *)
(* overlaps; an event of a payment in the popup is handled by the sale.    *)

SaleInv ==
  /\ \A c \in Checkouts : checkout[c].status = "succeeded" => Sold(c)
  /\ \A w \in Workers : Busy(w) /\ task[w].sold => Sold(task[w].checkout)
  /\ IsFiniteSet(redemptions) /\ Cardinality(redemptions) <= MaxRedemptions

(* When one session at a time works on a checkout, what it read is what is *)
(* committed: the columns /charge writes aside, which no session uses.     *)

InSession(w) == Busy(w) /\ task[w].kind # "deliver"

FreshOK(w) ==
  LET t == task[w]
  IN InSession(w) =>
       /\ \A v \in Workers : InSession(v) /\ task[v].checkout = t.checkout => v = w
       /\ t.step = "read" =>
            /\ t.seen.status = checkout[t.checkout].status
            /\ t.seen.customer = checkout[t.checkout].customer
            /\ t.sold <=> Sold(t.checkout)
       /\ t.kind \in {"confirm", "poll"} => t.seen.status = "open"

RowOK(c) ==
  /\ orders[c] = IF checkout[c].status = "succeeded" THEN 1 ELSE 0
  /\ RedemptionsOf(c) # {} => checkout[c].status \in {"confirmed", "succeeded"}

ExclusiveInv ==
  ~May("overlap") => /\ \A w \in Workers : FreshOK(w)
                     /\ \A c \in Checkouts : RowOK(c)

(* Without /charge no request polls, and only client_confirm confirms.     *)

ChargeInv ==
  ~May("charge") =>
    /\ \A c \in Checkouts : checkout[c].reference = NoPayment
    /\ \A w \in Workers : Busy(w) =>
         task[w].kind \notin {"poll", "heal"} /\ task[w].seen.reference = NoPayment

PromiseInv == TypeInv /\ SaleInv /\ ExclusiveInv /\ ChargeInv

HoldsOK(c) == checkout[c].status \in {"confirmed", "succeeded"} => RedemptionsOf(c) # {}

-----------------------------------------------------------------------------
(* The values of the operators, and the types of what they write.          *)

USE PaymentsAssumption, RetriesAssumption, CheckoutsAssumption

LEMMA OpenedType == Opened \in Row
  BY DEF Opened, Row

LEMMA RowWith ==
  ASSUME NEW r \in Row
  PROVE  /\ [r EXCEPT !.customer = TRUE] \in Row
         /\ \A seen \in Row : WithMetadata(r, seen) \in Row
         /\ \A status \in {"open", "confirmed", "succeeded", "expired"} :
              [r EXCEPT !.status = status] \in Row
         /\ \A p \in Payments, charged \in BOOLEAN :
              [r EXCEPT !.reference = p, !.charged = charged] \in Row
  BY DEF Row, WithMetadata

LEMMA IdleType == Idle \in Task
  BY OpenedType DEF Idle, Task, Steps, Kinds

StoreOK ==
  /\ checkout \in [Checkouts -> Row]
  /\ redemptions \in SUBSET (Checkouts \X Nat)
  /\ orders \in [Checkouts -> Nat]

QueueOK ==
  /\ events \in [Payments -> {"absent", "stored", "handled"}]
  /\ jobs \in [Payments -> Messages]
  /\ retries \in [Payments -> 0 .. MaxRetries]

TasksOK == task \in [Workers -> Task]

LEMMA WriteStatusType ==
  ASSUME StoreOK, NEW c, NEW seen \in Row,
         NEW status \in {"open", "confirmed", "succeeded", "expired"},
         WriteStatus(c, seen, status)
  PROVE  checkout' \in [Checkouts -> Row]
  BY DEF StoreOK, WriteStatus, Row

LEMMA SucceedType ==
  ASSUME StoreOK, NEW c \in Checkouts, NEW seen \in Row, Succeed(c, seen)
  PROVE  StoreOK'
  <1>1. [WithMetadata(checkout[c], seen) EXCEPT !.status = "succeeded"] \in Row
    BY RowWith DEF StoreOK
  <1> QED BY <1>1 DEF StoreOK, Succeed

LEMMA FailType ==
  ASSUME StoreOK, NEW c, NEW seen \in Row, Fail(c, seen)
  PROVE  StoreOK'
  <1>1. (IF Fails(seen) THEN "open" ELSE seen.status)
          \in {"open", "confirmed", "succeeded", "expired"}
    BY DEF Row
  <1>2. checkout' \in [Checkouts -> Row]
    BY <1>1, WriteStatusType DEF Fail
  <1> QED BY <1>2 DEF StoreOK, Fail

LEMMA UnwrittenType == ASSUME StoreOK, Unwritten PROVE StoreOK'
  BY DEF StoreOK, Unwritten

LEMMA BeginType ==
  ASSUME StoreOK, TasksOK, NEW w \in Workers, NEW kind \in Kinds,
         NEW c \in Checkouts, NEW p \in Payments \cup {NoPayment},
         NEW step \in Steps, Begin(w, kind, c, p, step)
  PROVE  TasksOK'
  <1>1. [step |-> step, kind |-> kind, checkout |-> c, payment |-> p,
         seen |-> checkout[c], sold |-> orders[c] > 0] \in Task
    BY DEF Task, StoreOK
  <1> QED BY <1>1 DEF Begin, TasksOK

LEMMA EndType == ASSUME TasksOK, NEW w, End(w) PROVE TasksOK'
  BY IdleType DEF End, TasksOK

LEMMA HandledType ==
  ASSUME QueueOK, TasksOK, NEW w \in Workers, Handled(w)
  PROVE  QueueOK' /\ TasksOK'
  BY EndType DEF Handled, QueueOK, Messages

LEMMA RetryType ==
  ASSUME QueueOK, TasksOK, NEW w \in Workers, Retry(w)
  PROVE  QueueOK' /\ TasksOK'
  <1> DEFINE p == task[w].payment
  <1>1. TasksOK'
    BY EndType DEF Retry
  <1>2. retries' \in [Payments -> 0 .. MaxRetries]
    <2>1. CASE p \in Payments
      BY <2>1 DEF Retry, QueueOK
    <2>2. CASE p \notin Payments
      <3>1. retries' = retries
        BY <2>2 DEF Retry, QueueOK
      <3> QED BY <3>1 DEF QueueOK
    <2> QED BY <2>1, <2>2
  <1>3. jobs' \in [Payments -> Messages]
    BY DEF Retry, QueueOK, Messages
  <1> QED BY <1>1, <1>2, <1>3 DEF Retry, QueueOK

-----------------------------------------------------------------------------
(* TypeInv: what the steps of the buyer and of the tasks leave of it.      *)

LEMMA TypeParts ==
  ASSUME TypeOK PROVE StoreOK /\ QueueOK /\ TasksOK
  BY DEF TypeOK, StoreOK, QueueOK, TasksOK

LEMMA TypeWhole ==
  ASSUME TypeOK, StoreOK', QueueOK', TasksOK', environment' = environment,
         late' \in SUBSET Checkouts, payments' \in Seq(Payment),
         freeJobs' \in [Checkouts -> Messages], happened' \in Nat
  PROVE  TypeOK'
  BY DEF TypeOK, StoreOK, QueueOK, TasksOK

LEMMA HappensType ==
  ASSUME happened \in Nat, NEW event, Happens(event) PROVE happened' \in Nat
  BY DEF Happens

(* Steps that leave the tasks and the events alone, and end no transaction *)
(* otherwise than once.                                                    *)
LEMMA PaymentsKept ==
  ASSUME TypeInv, TypeOK', Len(payments') <= MaxPayments,
         \A p \in DOMAIN payments :
           /\ p \in DOMAIN payments'
           /\ payments[p].state # "pending" => payments'[p] = payments[p]
           /\ payments'[p].checkout = payments[p].checkout,
         \A p \in Payments : events'[p] # "absent" => events[p] # "absent",
         \A w \in Workers : task'[w] = task[w] \/ ~Busy(w)'
  PROVE  TypeInv'
  <1>1. \A p : Over(p) => Over(p)' /\ payments'[p] = payments[p]
    BY DEF Over
  <1>2. EventsOK'
    BY <1>1 DEF TypeInv, EventsOK
  <1>3. ASSUME NEW w \in Workers PROVE TaskOK(w)'
    <2>1. CASE ~Busy(w)'
      BY <2>1 DEF TaskOK
    <2>2. CASE task'[w] = task[w]
      <3>1. TaskOK(w)
        BY DEF TypeInv
      <3> QED BY <1>1, <2>2, <3>1 DEF TaskOK, Busy, Paid, OfEvent
    <2> QED BY <1>3, <2>1, <2>2
  <1> QED BY <1>2, <1>3 DEF TypeInv

(* Steps of one task.                                                      *)
LEMMA TaskStep ==
  ASSUME TypeInv, TypeOK', payments' = payments, EventsOK', NEW w \in Workers,
         TaskOK(w)', \A v \in Workers : v # w => task'[v] = task[v]
  PROVE  TypeInv'
  <1>1. ASSUME NEW v \in Workers, v # w PROVE TaskOK(v)'
    <2>1. TaskOK(v)
      BY DEF TypeInv
    <2> QED BY <1>1, <2>1 DEF TaskOK, Busy, Over, Paid, OfEvent
  <1> QED BY <1>1 DEF TypeInv

LEMMA EndTask ==
  ASSUME TasksOK, NEW w \in Workers, End(w)
  PROVE  /\ task'[w] = Idle /\ ~Busy(w)' /\ TaskOK(w)'
         /\ \A v \in Workers : v # w => task'[v] = task[v]
  BY DEF TasksOK, End, Idle, Busy, TaskOK

LEMMA BeginTask ==
  ASSUME TasksOK, NEW w \in Workers, NEW kind, NEW c, NEW p, NEW step,
         Begin(w, kind, c, p, step)
  PROVE  /\ task'[w].step = step /\ task'[w].kind = kind
         /\ task'[w].checkout = c /\ task'[w].payment = p
         /\ task'[w].seen = checkout[c] /\ task'[w].sold = (orders[c] > 0)
         /\ \A v \in Workers : v # w => task'[v] = task[v]
         /\ ~Busy(w)
  BY DEF TasksOK, Begin, Busy

-----------------------------------------------------------------------------
(* The steps of the buyer, of Paystack and of the cron.                    *)

LEMMA NewPaymentTypes ==
  ASSUME TypeInv, NEW c \in Checkouts, NEW channel \in {"popup", "charge"},
         NEW state \in {"pending", "success", "failed"}, NewPayment(c, channel, state)
  PROVE  /\ payments' \in Seq(Payment)
         /\ Len(payments') \in Payments /\ Len(payments') <= MaxPayments
         /\ \A p \in DOMAIN payments : p \in DOMAIN payments' /\ payments'[p] = payments[p]
  <1>1. [checkout |-> c, channel |-> channel, state |-> state] \in Payment
    BY DEF Payment
  <1>2. payments \in Seq(Payment)
    BY DEF TypeInv, TypeOK
  <1> QED BY <1>1, <1>2 DEF NewPayment, Payments

LEMMA OpenPopupTypes ==
  ASSUME TypeInv, NEW c \in Checkouts, OpenPopup(c) PROVE TypeInv'
  <1>1. /\ payments' \in Seq(Payment) /\ Len(payments') <= MaxPayments
        /\ \A p \in DOMAIN payments : p \in DOMAIN payments' /\ payments'[p] = payments[p]
    BY NewPaymentTypes DEF OpenPopup
  <1>2. TypeOK'
    BY <1>1 DEF OpenPopup, TypeInv, TypeOK
  <1> QED BY <1>1, <1>2, PaymentsKept DEF OpenPopup

LEMMA ChargeTypes ==
  ASSUME TypeInv, NEW c \in Checkouts, Charge(c) PROVE TypeInv'
  <1>1. PICK state \in {"pending", "success"} :
          /\ NewPayment(c, "charge", state)
          /\ \/ /\ checkout' = [checkout EXCEPT ![c].reference = Len(payments'),
                                               ![c].charged = (state = "success")]
                /\ UNCHANGED happened
             \/ Happens("crash") /\ UNCHANGED checkout
    BY DEF Charge
  <1>2. /\ payments' \in Seq(Payment) /\ Len(payments') <= MaxPayments
        /\ Len(payments') \in Payments
        /\ \A p \in DOMAIN payments : p \in DOMAIN payments' /\ payments'[p] = payments[p]
    BY <1>1, NewPaymentTypes
  <1>3. happened' \in Nat
    BY <1>1, HappensType DEF TypeInv, TypeOK
  <1>4. checkout' \in [Checkouts -> Row]
    <2> DEFINE row == [checkout[c] EXCEPT !.reference = Len(payments'),
                                          !.charged = (state = "success")]
    <2>1. checkout[c] \in Row /\ row \in Row
      BY <1>2, RowWith DEF TypeInv, TypeOK
    <2>2. checkout' = [checkout EXCEPT ![c] = row] \/ checkout' = checkout
      BY <1>1, <2>1 DEF TypeInv, TypeOK
    <2> QED BY <2>1, <2>2 DEF TypeInv, TypeOK
  <1>5. TypeOK'
    BY <1>2, <1>3, <1>4 DEF Charge, TypeInv, TypeOK
  <1> QED BY <1>2, <1>5, PaymentsKept DEF Charge

LEMMA PayTypes ==
  ASSUME TypeInv, NEW p \in Payments, Pay(p) PROVE TypeInv'
  <1>1. /\ payments \in Seq(Payment) /\ p \in DOMAIN payments
        /\ payments[p] \in Payment /\ payments[p].state = "pending"
    BY DEF Pay, TypeInv, TypeOK
  <1>2. PICK state \in {"success", "failed"} :
          payments' = [payments EXCEPT ![p].state = state]
    BY DEF Pay
  <1>3. [payments[p] EXCEPT !.state = state] \in Payment
    BY <1>1 DEF Payment
  <1>4. payments' \in Seq(Payment)
    BY <1>1, <1>2, <1>3
  <1>5. TypeOK'
    BY <1>4 DEF Pay, TypeInv, TypeOK
  <1>6. Len(payments') <= MaxPayments
    BY <1>1, <1>2 DEF TypeInv, EventsOK
  <1>7. ASSUME NEW q \in DOMAIN payments
        PROVE  /\ q \in DOMAIN payments'
               /\ payments[q].state # "pending" => payments'[q] = payments[q]
               /\ payments'[q].checkout = payments[q].checkout
    <2>1. payments[q] \in Payment
      BY <1>1, <1>7
    <2> QED BY <1>1, <1>2, <1>7, <2>1 DEF Payment
  <1> QED BY <1>5, <1>6, <1>7, PaymentsKept DEF Pay

LEMMA OtherTypes ==
  ASSUME TypeInv,
         \/ \E c \in Checkouts : PassExpiry(c) \/ ExpireOpen(c)
         \/ \E p \in Payments : Resend(p) \/ Prune(p) \/ TaskRefused(p)
  PROVE  TypeInv'
  <1>1. ASSUME NEW c \in Checkouts, PassExpiry(c) \/ ExpireOpen(c) PROVE TypeInv'
    <2>1. StoreOK'
      <3>1. [checkout[c] EXCEPT !.status = "expired"] \in Row
        BY RowWith DEF TypeInv, TypeOK
      <3> QED BY <1>1, <3>1 DEF PassExpiry, ExpireOpen, TypeInv, TypeOK, StoreOK
    <2>2. TypeOK'
      BY <1>1, <2>1 DEF PassExpiry, ExpireOpen, TypeInv, TypeOK, StoreOK
    <2> QED BY <1>1, <2>2, PaymentsKept DEF PassExpiry, ExpireOpen, TypeInv, EventsOK
  <1>2. ASSUME NEW p \in Payments, Resend(p) \/ Prune(p) \/ TaskRefused(p) PROVE TypeInv'
    <2>1. happened' \in Nat
      BY <1>2, HappensType DEF Resend, Prune, TaskRefused, TypeInv, TypeOK
    <2>2. QueueOK'
      <3>1. CASE Resend(p)
        BY <3>1 DEF Resend, Enqueue, TypeInv, TypeOK, QueueOK, Messages
      <3>2. CASE Prune(p) \/ TaskRefused(p)
        BY <3>2 DEF Prune, TaskRefused, TypeInv, TypeOK, QueueOK, Messages
      <3> QED BY <1>2, <3>1, <3>2
    <2>3. TypeOK'
      BY <1>2, <2>1, <2>2 DEF Resend, Prune, TaskRefused, TypeInv, TypeOK, QueueOK
    <2>4. \A q \in Payments : events'[q] # "absent" => events[q] # "absent"
      BY <1>2 DEF Resend, Prune, TaskRefused, TypeInv, TypeOK
    <2> QED BY <1>2, <2>3, <2>4, PaymentsKept
            DEF Resend, Prune, TaskRefused, TypeInv, EventsOK
  <1> QED BY <1>1, <1>2

-----------------------------------------------------------------------------
(* The steps of the tasks.                                                 *)

LEMMA RequestBeginTypes ==
  ASSUME TypeInv, NEW w \in Workers, NEW c \in Checkouts,
         ConfirmBegin(w, c) \/ AbandonBegin(w, c) \/ PollBegin(w, c) \/ FreeBegin(w, c)
  PROVE  TypeInv'
  <1>1. PICK kind \in {"confirm", "abandon", "poll", "heal", "free"}, p \in Payments \cup {NoPayment} :
          Begin(w, kind, c, p, "read")
    <2>1. checkout[c].reference \in Payments \cup {NoPayment}
      BY DEF TypeInv, TypeOK, Row
    <2> QED BY <2>1 DEF ConfirmBegin, AbandonBegin, PollBegin, FreeBegin
  <1>2. TasksOK'
    BY <1>1, TypeParts, BeginType DEF TypeInv, Kinds, Steps
  <1>3. happened' \in Nat
    BY HappensType DEF ConfirmBegin, AbandonBegin, PollBegin, FreeBegin, TypeInv, TypeOK
  <1>4. freeJobs' \in [Checkouts -> Messages]
    BY DEF ConfirmBegin, AbandonBegin, PollBegin, FreeBegin, TypeInv, TypeOK, Messages
  <1>5. TypeOK'
    BY <1>2, <1>3, <1>4 DEF ConfirmBegin, AbandonBegin, PollBegin, FreeBegin, TypeInv, TypeOK, TasksOK
  <1>6. /\ task'[w].kind = kind /\ task'[w].step = "read" /\ task'[w].checkout = c
        /\ \A v \in Workers : v # w => task'[v] = task[v]
    BY <1>1, TypeParts, BeginTask DEF TypeInv
  <1>7. EventsOK' /\ payments' = payments
    BY DEF ConfirmBegin, AbandonBegin, PollBegin, FreeBegin, TypeInv, EventsOK, Over
  <1>8. TaskOK(w)'
    BY <1>6 DEF TaskOK, OfEvent
  <1> QED BY <1>5, <1>6, <1>7, <1>8, TaskStep

LEMMA EventBeginTypes ==
  ASSUME TypeInv, NEW w \in Workers, NEW p \in Payments,
         DeliverBegin(w, p) \/ TaskBegin(w, p)
  PROVE  TypeInv'
  <1>1. Over(p)
    BY DEF DeliverBegin, TaskBegin, Over, TypeInv, EventsOK
  <1>2. payments[p].checkout \in Checkouts
    <2>1. payments[p] \in Payment
      BY <1>1 DEF Over, TypeInv, TypeOK
    <2> QED BY <2>1 DEF Payment
  <1>3. PICK kind \in OfEvent, step \in {"event", "read"} :
          /\ Begin(w, kind, payments[p].checkout, p, step)
          /\ kind = "success" => Paid(p)
          /\ kind = "failed" => ~Paid(p)
          /\ step = "event" => kind \in {"success", "failed"}
    BY DEF DeliverBegin, TaskBegin, OfEvent
  <1>4. TasksOK'
    BY <1>2, <1>3, TypeParts, BeginType DEF TypeInv, Kinds, Steps, OfEvent
  <1>5. TypeOK'
    BY <1>4 DEF DeliverBegin, TaskBegin, TypeInv, TypeOK, TasksOK, Messages
  <1>6. EventsOK' /\ payments' = payments
    BY DEF DeliverBegin, TaskBegin, TypeInv, EventsOK, Over
  <1>7. \A v \in Workers : v # w => task'[v] = task[v]
    BY <1>3, TypeParts, BeginTask DEF TypeInv
  <1>8. /\ task'[w].kind = kind /\ task'[w].step = step /\ task'[w].payment = p
        /\ task'[w].checkout = payments[p].checkout
    BY <1>3, TypeParts, BeginTask DEF TypeInv
  <1>9. TaskOK(w)'
    BY <1>1, <1>2, <1>3, <1>6, <1>8 DEF TaskOK, Over, Paid
  <1> QED BY <1>5, <1>6, <1>7, <1>9, TaskStep

(* A step that ends its task, and marks no other event.                    *)
LEMMA EndTypes ==
  ASSUME TypeInv, NEW w \in Workers, End(w), StoreOK', QueueOK',
         environment' = environment, late' = late, payments' = payments,
         freeJobs' \in [Checkouts -> Messages], happened' \in Nat,
         \A p \in Payments : events'[p] # "absent" => Over(p)
  PROVE  TypeInv'
  <1>1. TasksOK'
    BY TypeParts, EndType DEF TypeInv
  <1>2. TypeOK'
    BY <1>1, TypeWhole DEF TypeInv, TypeOK
  <1>3. EventsOK'
    BY DEF TypeInv, EventsOK, Over
  <1> QED BY <1>2, <1>3, TypeParts, EndTask, TaskStep DEF TypeInv

LEMMA ConfirmTypes ==
  ASSUME TypeInv, IsFiniteSet(redemptions), NEW w \in Workers,
         ConfirmCommit(w) \/ ConfirmRefused(w)
  PROVE  TypeInv'
  <1> DEFINE c == task[w].checkout
             seen == task[w].seen
             attached == IF seen.customer THEN checkout[c]
                         ELSE [WithMetadata(checkout[c], seen) EXCEPT !.customer = TRUE]
             row == [attached EXCEPT !.status = "confirmed"]
  <1>1. TaskOK(w) /\ StoreOK /\ QueueOK /\ TasksOK
    BY TypeParts DEF TypeInv
  <1>2. c \in Checkouts /\ seen \in Row
    BY <1>1 DEF TaskOK, Busy, TasksOK, Task, ConfirmCommit, ConfirmRefused, Running
  <1>3. StoreOK'
    <2>1. CASE ConfirmRefused(w)
      BY <1>1, <2>1, UnwrittenType DEF ConfirmRefused
    <2>2. CASE ConfirmCommit(w)
      <3>1. attached \in Row
        BY <1>1, <1>2, RowWith DEF StoreOK
      <3>2. row \in Row
        BY <3>1, RowWith
      <3>3. checkout' = [checkout EXCEPT ![c] = row]
        BY <2>2 DEF ConfirmCommit
      <3>4. checkout' \in [Checkouts -> Row]
        BY <1>1, <3>2, <3>3 DEF StoreOK
      <3>5. redemptions' \in SUBSET (Checkouts \X Nat)
        <4>1. IsFiniteSet(RedemptionsOf(c))
          BY FS_Subset DEF RedemptionsOf
        <4>2. Cardinality(RedemptionsOf(c)) + 1 \in Nat
          BY <4>1, FS_CardinalityType
        <4> QED BY <1>1, <1>2, <2>2, <4>2 DEF ConfirmCommit, Redeem, StoreOK
      <3> QED BY <1>1, <2>2, <3>4, <3>5 DEF ConfirmCommit, StoreOK
    <2> QED BY <2>1, <2>2
  <1>4. freeJobs' \in [Checkouts -> Messages]
    BY DEF ConfirmCommit, ConfirmRefused, TypeInv, TypeOK, Messages
  <1>5. QueueOK' /\ \A p \in Payments : events'[p] # "absent" => Over(p)
    BY <1>1 DEF ConfirmCommit, ConfirmRefused, QueueOK, TypeInv, EventsOK
  <1>6. End(w)
    BY DEF ConfirmCommit, ConfirmRefused
  <1> QED BY <1>3, <1>4, <1>5, <1>6, EndTypes DEF ConfirmCommit, ConfirmRefused, TypeInv, TypeOK

LEMMA DeliverTypes ==
  ASSUME TypeInv, NEW w \in Workers, DeliverCommit(w) \/ DeliverFlush(w)
  PROVE  TypeInv'
  <1>1. TaskOK(w) /\ StoreOK /\ QueueOK /\ TasksOK
    BY TypeParts DEF TypeInv
  <1>2. Over(task[w].payment)
    BY <1>1 DEF TaskOK, Busy, OfEvent, DeliverCommit, DeliverFlush
  <1>3. CASE End(w)
    <2>1. StoreOK' /\ happened' \in Nat
      BY <1>1, HappensType DEF DeliverCommit, DeliverFlush, StoreOK, TypeInv, TypeOK
    <2>2. QueueOK' /\ \A p \in Payments : events'[p] # "absent" => Over(p)
      <3>1. CASE DeliverCommit(w)
        BY <1>1, <1>2, <3>1 DEF DeliverCommit, QueueOK, TypeInv, EventsOK
      <3>2. CASE DeliverFlush(w)
        <4>1. 0 \in 0 .. MaxRetries
          OBVIOUS
        <4> QED BY <1>1, <3>2, <4>1
                DEF DeliverFlush, Enqueue, QueueOK, Messages, TypeInv, EventsOK
      <3> QED BY <3>1, <3>2
    <2> QED BY <1>3, <2>1, <2>2, EndTypes
            DEF DeliverCommit, DeliverFlush, TypeInv, TypeOK
  <1>4. CASE DeliverCommit(w) /\ ~End(w)
    <2>1. /\ events' = [events EXCEPT ![task[w].payment] = "stored"]
          /\ task' = [task EXCEPT ![w].step = "committed"]
          /\ task[w].step = "read"
      BY <1>4 DEF DeliverCommit
    <2>2. TasksOK' /\ QueueOK'
      BY ZenonT(60), <1>1, <1>4, <2>1 DEF DeliverCommit, TasksOK, Task, Steps, QueueOK
    <2>3. TypeOK'
      BY <1>4, <2>2 DEF DeliverCommit, TypeInv, TypeOK, TasksOK, QueueOK
    <2>4. EventsOK' /\ payments' = payments
      BY <1>2, <1>4, <2>1 DEF DeliverCommit, TypeInv, TypeOK, EventsOK, Over
    <2>5. TaskOK(w)' /\ \A v \in Workers : v # w => task'[v] = task[v]
      BY <1>1, <2>1, <2>4 DEF TasksOK, TaskOK, Busy, Over, Paid
    <2> QED BY <2>3, <2>4, <2>5, TaskStep
  <1> QED BY <1>3, <1>4 DEF DeliverFlush

LEMMA RequestCommitTypes ==
  ASSUME TypeInv, NEW w \in Workers,
         AbandonCommit(w) \/ PollCommit(w) \/ HealCommit(w)
  PROVE  TypeInv'
  <1>1. TaskOK(w) /\ StoreOK /\ QueueOK /\ TasksOK
    BY TypeParts DEF TypeInv
  <1>2. task[w].checkout \in Checkouts /\ task[w].seen \in Row
    BY <1>1 DEF TaskOK, Busy, TasksOK, Task, AbandonCommit, PollCommit, HealCommit
  <1>3. [task[w].seen EXCEPT !.status = "confirmed"] \in Row
    BY <1>2 DEF Row
  <1>4. StoreOK'
    <2>1. CASE AbandonCommit(w)
      BY <1>1, <1>2, <2>1, FailType DEF AbandonCommit
    <2>2. CASE PollCommit(w)
      <3>1. CASE Succeed(task[w].checkout, [task[w].seen EXCEPT !.status = "confirmed"])
        BY <1>1, <1>2, <1>3, <3>1, SucceedType
      <3>2. CASE /\ WriteStatus(task[w].checkout, task[w].seen, "confirmed")
                 /\ UNCHANGED <<redemptions, orders>>
        <4>1. checkout' \in [Checkouts -> Row]
          BY <1>1, <1>2, <3>2, WriteStatusType
        <4> QED BY <1>1, <3>2, <4>1 DEF StoreOK
      <3> QED BY <2>2, <3>1, <3>2 DEF PollCommit
    <2>3. CASE HealCommit(w)
      BY <1>1, <1>2, <2>3, SucceedType, UnwrittenType DEF HealCommit
    <2> QED BY <2>1, <2>2, <2>3
  <1>5. QueueOK' /\ \A p \in Payments : events'[p] # "absent" => Over(p)
    BY <1>1 DEF AbandonCommit, PollCommit, HealCommit, QueueOK, TypeInv, EventsOK
  <1>6. End(w)
    BY DEF AbandonCommit, PollCommit, HealCommit
  <1> QED BY <1>4, <1>5, <1>6, EndTypes
          DEF AbandonCommit, PollCommit, HealCommit, TypeInv, TypeOK

LEMMA TaskWith ==
  ASSUME NEW t \in Task, NEW row \in Row, NEW sold \in BOOLEAN
  PROVE  [t EXCEPT !.step = "read", !.seen = row, !.sold = sold] \in Task
  BY DEF Task, Steps

LEMMA ReadCheckoutTypes ==
  ASSUME TypeInv, NEW w \in Workers, ReadCheckout(w) PROVE TypeInv'
  <1> DEFINE c == task[w].checkout
  <1>1. TaskOK(w) /\ StoreOK /\ QueueOK /\ TasksOK
    BY TypeParts DEF TypeInv
  <1>2. task[w] \in Task /\ checkout[c] \in Row
    BY <1>1 DEF TaskOK, Busy, StoreOK, TasksOK, ReadCheckout
  <1>3. [task[w] EXCEPT !.step = "read", !.seen = checkout[c], !.sold = orders[c] > 0] \in Task
    <2>1. (orders[c] > 0) \in BOOLEAN
      OBVIOUS
    <2> QED BY <1>2, <2>1, TaskWith
  <1>4. task' = [task EXCEPT ![w] = [task[w] EXCEPT !.step = "read", !.seen = checkout[c],
                                                    !.sold = orders[c] > 0]]
    BY <1>1 DEF ReadCheckout, TasksOK
  <1>5. TypeOK'
    BY <1>3, <1>4 DEF ReadCheckout, TypeInv, TypeOK
  <1>6. EventsOK' /\ payments' = payments
    BY DEF ReadCheckout, TypeInv, EventsOK, Over
  <1>7. /\ task'[w].kind = task[w].kind /\ task'[w].checkout = c
        /\ task'[w].payment = task[w].payment /\ task'[w].step = "read"
        /\ \A v \in Workers : v # w => task'[v] = task[v]
    BY <1>1, <1>2, <1>4 DEF TasksOK, Task
  <1>8. TaskOK(w)'
    BY <1>1, <1>6, <1>7 DEF TaskOK, Busy, Over, Paid, ReadCheckout
  <1> QED BY <1>5, <1>6, <1>7, <1>8, TaskStep

(* How the task of an event ends.                                          *)
LEMMA EventEndTypes ==
  ASSUME TypeInv, NEW w \in Workers, Handled(w) \/ Retry(w), TaskOK(w), Busy(w),
         task[w].kind \in {"success", "failed"}, StoreOK', happened' \in Nat,
         UNCHANGED <<environment, late, payments, freeJobs>>
  PROVE  TypeInv'
  <1>1. QueueOK'
    BY TypeParts, HandledType, RetryType DEF TypeInv
  <1>2. Over(task[w].payment)
    BY DEF TaskOK, OfEvent
  <1>3. \A p \in Payments : events'[p] # "absent" => Over(p)
    BY <1>2 DEF Handled, Retry, TypeInv, TypeOK, EventsOK
  <1> QED BY <1>1, <1>3, EndTypes DEF Handled, Retry, TypeInv, TypeOK

LEMMA EventTaskTypes ==
  ASSUME TypeInv, NEW w \in Workers,
         Unverified(w) \/ IgnoreCharge(w) \/ SuccessCommit(w) \/ FailedCommit(w)
  PROVE  TypeInv'
  <1>1. TaskOK(w) /\ StoreOK /\ TasksOK
    BY TypeParts DEF TypeInv
  <1>2. Busy(w) /\ task[w].kind \in {"success", "failed"}
    BY <1>1 DEF Unverified, IgnoreCharge, SuccessCommit, FailedCommit, Running, Busy, TaskOK
  <1>3. task[w].checkout \in Checkouts /\ task[w].seen \in Row
    BY <1>1, <1>2 DEF TaskOK, TasksOK, Task
  <1>4. /\ Unwritten \/ Succeed(task[w].checkout, task[w].seen)
             \/ Fail(task[w].checkout, task[w].seen)
        /\ Handled(w) \/ Retry(w)
    BY DEF Unverified, IgnoreCharge, SuccessCommit, FailedCommit
  <1>5. StoreOK'
    BY <1>1, <1>3, <1>4, UnwrittenType, SucceedType, FailType
  <1>6. happened' \in Nat
    BY HappensType
       DEF Unverified, IgnoreCharge, SuccessCommit, FailedCommit, TypeInv, TypeOK
  <1> QED BY <1>1, <1>2, <1>4, <1>5, <1>6, EventEndTypes
          DEF Unverified, IgnoreCharge, SuccessCommit, FailedCommit

LEMMA FreeCommitTypes ==
  ASSUME TypeInv, NEW w \in Workers, FreeCommit(w) PROVE TypeInv'
  <1>1. TaskOK(w) /\ StoreOK /\ QueueOK /\ TasksOK
    BY TypeParts DEF TypeInv
  <1>2. task[w].checkout \in Checkouts /\ task[w].seen \in Row
    BY <1>1 DEF TaskOK, Busy, TasksOK, Task, FreeCommit, Running
  <1>3. StoreOK'
    BY <1>1, <1>2, UnwrittenType, SucceedType DEF FreeCommit
  <1>4. freeJobs' \in [Checkouts -> Messages]
    BY DEF FreeCommit, TypeInv, TypeOK, Messages
  <1>5. QueueOK' /\ \A p \in Payments : events'[p] # "absent" => Over(p)
    BY <1>1 DEF FreeCommit, QueueOK, TypeInv, EventsOK
  <1> QED BY <1>3, <1>4, <1>5, EndTypes DEF FreeCommit, TypeInv, TypeOK

LEMMA CrashTypes ==
  ASSUME TypeInv, NEW w \in Workers, Crash(w) PROVE TypeInv'
  <1>1. StoreOK' /\ happened' \in Nat
    BY HappensType, TypeParts DEF Crash, TypeInv, TypeOK, StoreOK
  <1>2. QueueOK' /\ freeJobs' \in [Checkouts -> Messages]
    BY TypeParts DEF Crash, TypeInv, TypeOK, QueueOK, Messages
  <1>3. \A p \in Payments : events'[p] # "absent" => Over(p)
    BY DEF Crash, TypeInv, EventsOK
  <1> QED BY <1>1, <1>2, <1>3, EndTypes DEF Crash

-----------------------------------------------------------------------------

LEMMA TypeInit == ASSUME Init PROVE TypeInv
  <1>1. environment \in SUBSET AllEvents
    BY EnvironmentsAssumption DEF Init
  <1>2. payments \in Seq(Payment) /\ Len(payments) = 0
    BY DEF Init
  <1>3. TypeOK
    BY <1>1, <1>2, OpenedType, IdleType DEF Init, TypeOK, Messages
  <1>4. EventsOK
    BY <1>2 DEF Init, EventsOK
  <1>5. \A w \in Workers : TaskOK(w)
    BY DEF Init, TaskOK, Busy, Idle
  <1> QED BY <1>3, <1>4, <1>5 DEF TypeInv

(* Redemptions are inserted one by one.                                    *)
LEMMA RedemptionsStep ==
  ASSUME [Next]_vars
  PROVE  \/ \E c : redemptions' = redemptions \ RedemptionsOf(c)
         \/ \E c : Redeem(c) /\ Redeemable
         \/ redemptions' = redemptions
  <1> DEFINE Removes == \E c : redemptions' = redemptions \ RedemptionsOf(c)
             Kept == redemptions' = redemptions
  <1>1. ASSUME NEW w \in Workers, Proceed(w) \/ Crash(w)
        PROVE  ConfirmCommit(w) \/ Removes \/ Kept
    <2>1. ASSUME NEW c, NEW seen, Succeed(c, seen) \/ Fail(c, seen) \/ Unwritten
          PROVE  Removes \/ Kept
      BY <2>1 DEF Succeed, Fail, Unwritten
    <2>2. CASE ConfirmRefused(w) \/ AbandonCommit(w) \/ HealCommit(w) \/ Unverified(w)
                 \/ IgnoreCharge(w) \/ SuccessCommit(w) \/ FailedCommit(w) \/ FreeCommit(w)
      <3>1. \/ Unwritten \/ Succeed(task[w].checkout, task[w].seen)
            \/ Fail(task[w].checkout, task[w].seen)
        BY <2>2 DEF ConfirmRefused, AbandonCommit, HealCommit, Unverified, IgnoreCharge,
           SuccessCommit, FailedCommit, FreeCommit
      <3> QED BY <2>1, <3>1
    <2>3. CASE PollCommit(w)
      <3>1. Kept
        BY <2>3 DEF PollCommit, Succeed
      <3> QED BY <3>1
    <2>4. CASE DeliverCommit(w) \/ DeliverFlush(w) \/ ReadCheckout(w) \/ Crash(w)
      <3>1. Kept
        BY <2>4 DEF DeliverCommit, DeliverFlush, ReadCheckout, Crash
      <3> QED BY <3>1
    <2> QED BY <1>1, <2>2, <2>3, <2>4 DEF Proceed
  <1>2. ASSUME NEW w \in Workers, ConfirmCommit(w)
        PROVE  Redeem(task[w].checkout) /\ Redeemable
    BY <1>2 DEF ConfirmCommit
  <1>3. ASSUME Next, \A w \in Workers : ~Proceed(w) /\ ~Crash(w) PROVE Kept
    BY <1>3 DEF Next, OpenPopup, Charge, PassExpiry, ExpireOpen, ConfirmBegin, AbandonBegin,
       PollBegin, FreeBegin, Pay, Resend, Prune, TaskRefused, DeliverBegin, TaskBegin
  <1> QED BY <1>1, <1>2, <1>3 DEF vars

LEMMA FiniteNext ==
  ASSUME IsFiniteSet(redemptions), [Next]_vars PROVE IsFiniteSet(redemptions')
  BY RedemptionsStep, FS_Subset, FS_AddElement DEF Redeem

LEMMA TypeNext == ASSUME TypeInv, IsFiniteSet(redemptions), [Next]_vars PROVE TypeInv'
  <1>1. CASE UNCHANGED vars
    BY <1>1 DEF vars, TypeInv, TypeOK, EventsOK, TaskOK, Over, Busy, Paid
  <1>2. ASSUME NEW c \in Checkouts,
               OpenPopup(c) \/ Charge(c) \/ PassExpiry(c) \/ ExpireOpen(c)
        PROVE  TypeInv'
    BY <1>2, OpenPopupTypes, ChargeTypes, OtherTypes
  <1>3. ASSUME NEW c \in Checkouts, NEW w \in Workers,
               ConfirmBegin(w, c) \/ AbandonBegin(w, c) \/ PollBegin(w, c) \/ FreeBegin(w, c)
        PROVE  TypeInv'
    BY <1>3, RequestBeginTypes
  <1>4. ASSUME NEW p \in Payments, Pay(p) \/ Resend(p) \/ Prune(p) \/ TaskRefused(p)
        PROVE  TypeInv'
    BY <1>4, PayTypes, OtherTypes
  <1>5. ASSUME NEW p \in Payments, NEW w \in Workers, DeliverBegin(w, p) \/ TaskBegin(w, p)
        PROVE  TypeInv'
    BY <1>5, EventBeginTypes
  <1>6. ASSUME NEW w \in Workers, Proceed(w) \/ Crash(w)
        PROVE  TypeInv'
    BY <1>6, ConfirmTypes, DeliverTypes, RequestCommitTypes, EventTaskTypes, ReadCheckoutTypes,
       FreeCommitTypes, CrashTypes DEF Proceed
  <1> QED BY <1>1, <1>2, <1>3, <1>4, <1>5, <1>6 DEF Next

(* The types of the rows, messages and tasks, in every behavior.           *)
THEOREM TypeCorrect == Spec => []TypeOK
  <1>1. Spec => [](TypeInv /\ IsFiniteSet(redemptions))
    <2>1. Init => TypeInv /\ IsFiniteSet(redemptions)
      BY TypeInit, FS_EmptySet DEF Init
    <2>2. /\ TypeInv /\ IsFiniteSet(redemptions)
          /\ [Next]_vars
          => TypeInv' /\ IsFiniteSet(redemptions)'
      BY TypeNext, FiniteNext
    <2> QED BY <2>1, <2>2, PTL DEF Spec
  <1>2. TypeInv => TypeOK
    BY DEF TypeInv
  <1> QED BY <1>1, <1>2, PTL

-----------------------------------------------------------------------------
(* What a step may do to the rows of the checkouts and to what the tasks   *)
(* have read of them.                                                      *)

RowsKept ==
  /\ UNCHANGED <<orders, redemptions>>
  /\ \A c \in Checkouts : /\ checkout'[c].status = checkout[c].status
                          /\ checkout'[c].customer = checkout[c].customer

Rereads(w) ==
  /\ task'[w].seen = checkout[task'[w].checkout]
  /\ task'[w].sold <=> Sold(task'[w].checkout)

SameWork(w) ==
  /\ Busy(w)
  /\ task'[w].kind = task[w].kind /\ task'[w].checkout = task[w].checkout

Starts(w) ==
  LET t == task'[w]
  IN /\ ~Busy(w)
     /\ t.kind = "deliver" \/ Alone(t.checkout)
     /\ t.kind \in {"poll", "heal"} => checkout[t.checkout].reference # NoPayment
     /\ t.kind \in {"confirm", "poll"} => checkout[t.checkout].status = "open"

TaskMoves(w) ==
  \/ ~Busy(w)'
  \/ /\ SameWork(w) /\ task[w].kind = "deliver"
     /\ task'[w].seen = task[w].seen /\ task'[w].sold = task[w].sold
  \/ Rereads(w) /\ SameWork(w) /\ task[w].kind \notin {"confirm", "poll"}
  \/ Rereads(w) /\ Starts(w)

Quiet ==
  /\ RowsKept
  /\ \/ task' = task
     \/ \E w \in Workers : TaskMoves(w) /\ \A v \in Workers : v # w => task'[v] = task[v]

Commits(w) ==
  LET c == task[w].checkout
      seen == task[w].seen
      confirmed == [seen EXCEPT !.status = "confirmed"]
  IN /\ InSession(w) /\ task[w].step = "read" /\ ~Busy(w)'
     /\ \A v \in Workers : v # w => task'[v] = task[v]
     /\ \/ Succeeds(seen) /\ Succeed(c, seen)
        \/ task[w].kind = "poll" /\ Succeeds(confirmed) /\ Succeed(c, confirmed)
        \/ /\ task[w].kind = "poll" /\ WriteStatus(c, seen, "confirmed")
           /\ UNCHANGED <<redemptions, orders>>
        \/ ConfirmCommit(w)
        \/ Fail(c, seen)

LEMMA UnwrittenRows == ASSUME UNCHANGED <<checkout, orders, redemptions>> PROVE RowsKept
  BY DEF RowsKept

LEMMA BuyerQuiet ==
  ASSUME TypeInv, NEW c \in Checkouts, OpenPopup(c) \/ Charge(c) \/ PassExpiry(c)
  PROVE  Quiet
  <1>1. CASE Charge(c)
    <2>1. \/ UNCHANGED checkout
          \/ \E p, charged : checkout' = [checkout EXCEPT ![c].reference = p,
                                                          ![c].charged = charged]
      BY <1>1 DEF Charge
    <2>2. checkout \in [Checkouts -> Row]
      BY DEF TypeInv, TypeOK
    <2>3. RowsKept
      BY <1>1, <2>1, <2>2 DEF RowsKept, Charge, Row
    <2> QED BY <1>1, <2>3 DEF Quiet, Charge
  <1> QED BY <1>1, UnwrittenRows DEF OpenPopup, PassExpiry, Quiet

LEMMA EventQuiet ==
  ASSUME NEW p \in Payments, Pay(p) \/ Resend(p) \/ Prune(p) \/ TaskRefused(p)
  PROVE  Quiet
  BY UnwrittenRows DEF Pay, Resend, Prune, TaskRefused, Quiet

LEMMA BeginQuiet ==
  ASSUME TypeInv, NEW w \in Workers,
         \/ \E c \in Checkouts :
              ConfirmBegin(w, c) \/ AbandonBegin(w, c) \/ PollBegin(w, c) \/ FreeBegin(w, c)
         \/ \E p \in Payments : DeliverBegin(w, p) \/ TaskBegin(w, p)
  PROVE  Quiet
  <1>1. PICK kind, c, p, step :
          /\ kind \in Kinds /\ Begin(w, kind, c, p, step)
          /\ kind = "deliver" \/ Alone(c)
          /\ kind \in {"poll", "heal"} => checkout[c].reference # NoPayment
          /\ kind \in {"confirm", "poll"} => checkout[c].status = "open"
    BY DEF ConfirmBegin, AbandonBegin, PollBegin, FreeBegin, DeliverBegin, TaskBegin, Kinds
  <1>2. /\ task'[w].kind = kind /\ task'[w].checkout = c
        /\ task'[w].seen = checkout[c] /\ task'[w].sold = (orders[c] > 0)
        /\ \A v \in Workers : v # w => task'[v] = task[v]
        /\ ~Busy(w)
    BY <1>1, TypeParts, BeginTask DEF TypeInv
  <1>3. Rereads(w) /\ Starts(w)
    BY <1>1, <1>2 DEF Rereads, Starts, Sold
  <1>4. RowsKept
    BY UnwrittenRows
       DEF ConfirmBegin, AbandonBegin, PollBegin, FreeBegin, DeliverBegin, TaskBegin
  <1> QED BY <1>2, <1>3, <1>4 DEF Quiet, TaskMoves

(* A task that writes a row ends with its commit.                          *)
LEMMA WriterCommits ==
  ASSUME TypeInv, NEW w \in Workers, ~Unwritten,
         \/ ConfirmCommit(w) \/ AbandonCommit(w) \/ PollCommit(w) \/ HealCommit(w)
         \/ SuccessCommit(w) \/ FailedCommit(w) \/ FreeCommit(w)
  PROVE  Commits(w)
  <1>1. End(w)
    BY DEF ConfirmCommit, AbandonCommit, PollCommit, HealCommit, SuccessCommit, FailedCommit,
       FreeCommit, Handled, Retry
  <1>2. ~Busy(w)' /\ \A v \in Workers : v # w => task'[v] = task[v]
    BY <1>1, TypeParts, EndTask DEF TypeInv
  <1>3. InSession(w) /\ task[w].step = "read"
    BY DEF ConfirmCommit, AbandonCommit, PollCommit, HealCommit, SuccessCommit, FailedCommit,
       FreeCommit, Running, InSession, Busy
  <1>4. \/ Succeeds(task[w].seen) /\ Succeed(task[w].checkout, task[w].seen)
        \/ Fail(task[w].checkout, task[w].seen)
        \/ PollCommit(w) \/ ConfirmCommit(w)
    BY DEF AbandonCommit, HealCommit, SuccessCommit, FailedCommit, FreeCommit
  <1> QED BY <1>2, <1>3, <1>4 DEF Commits, PollCommit

LEMMA ProceedEffect ==
  ASSUME TypeInv, NEW w \in Workers, Proceed(w) \/ Crash(w)
  PROVE  Quiet \/ Commits(w)
  <1>1. TaskOK(w) /\ TasksOK
    BY TypeParts DEF TypeInv
  <1>2. ASSUME End(w) PROVE ~Busy(w)' /\ \A v \in Workers : v # w => task'[v] = task[v]
    BY <1>1, <1>2, EndTask
  <1>3. ASSUME End(w), UNCHANGED <<checkout, orders, redemptions>> PROVE Quiet
    BY <1>2, <1>3, UnwrittenRows DEF Quiet, TaskMoves
  <1>4. CASE DeliverCommit(w) \/ DeliverFlush(w) \/ ConfirmRefused(w) \/ Unverified(w)
               \/ IgnoreCharge(w) \/ Crash(w)
    <2>1. CASE End(w)
      BY <1>3, <1>4, <2>1 DEF DeliverCommit, DeliverFlush, ConfirmRefused, Unverified, IgnoreCharge,
         Crash, Unwritten
    <2>2. CASE ~End(w)
      <3>1. /\ DeliverCommit(w) /\ task' = [task EXCEPT ![w].step = "committed"]
            /\ task[w].kind = "deliver"
        BY <1>4, <2>2 DEF DeliverCommit, DeliverFlush, ConfirmRefused, Unverified,
           IgnoreCharge, Crash, Handled, Retry
      <3>2. SameWork(w) /\ task'[w].seen = task[w].seen /\ task'[w].sold = task[w].sold
        BY <1>1, <3>1 DEF SameWork, Busy, TasksOK, Task, DeliverCommit
      <3>3. \A v \in Workers : v # w => task'[v] = task[v]
        BY <1>1, <3>1 DEF TasksOK
      <3> QED BY <3>1, <3>2, <3>3, UnwrittenRows DEF Quiet, TaskMoves, DeliverCommit
    <2> QED BY <2>1, <2>2
  <1>5. CASE ReadCheckout(w)
    <2>1. /\ task'[w].kind = task[w].kind /\ task'[w].checkout = task[w].checkout
          /\ task'[w].seen = checkout[task[w].checkout]
          /\ task'[w].sold = (orders[task[w].checkout] > 0)
          /\ \A v \in Workers : v # w => task'[v] = task[v]
      BY <1>1, <1>5 DEF ReadCheckout, TasksOK, Task
    <2>2. Busy(w) /\ task[w].kind \notin {"confirm", "poll"}
      BY <1>1, <1>5 DEF ReadCheckout, TaskOK, Busy
    <2> QED BY <1>5, <2>1, <2>2, UnwrittenRows
            DEF Quiet, TaskMoves, SameWork, Rereads, Sold, ReadCheckout
  <1>6. CASE ConfirmCommit(w) \/ AbandonCommit(w) \/ PollCommit(w) \/ HealCommit(w)
               \/ SuccessCommit(w) \/ FailedCommit(w) \/ FreeCommit(w)
    <2>1. End(w)
      BY <1>6 DEF ConfirmCommit, AbandonCommit, PollCommit, HealCommit, SuccessCommit, FailedCommit,
         FreeCommit, Handled, Retry
    <2>2. CASE Unwritten
      BY <1>3, <2>1, <2>2 DEF Unwritten
    <2>3. CASE ~Unwritten
      BY <1>6, <2>3, WriterCommits
    <2> QED BY <2>2, <2>3
  <1> QED BY <1>4, <1>5, <1>6 DEF Proceed

LEMMA StepEffect ==
  ASSUME TypeInv, [Next]_vars
  PROVE  \/ Quiet
         \/ \E c \in Checkouts : ExpireOpen(c)
         \/ \E w \in Workers : Commits(w)
  <1>1. CASE UNCHANGED vars
    BY <1>1, UnwrittenRows DEF vars, Quiet
  <1> QED BY <1>1, BuyerQuiet, EventQuiet, BeginQuiet, ProceedEffect DEF Next

-----------------------------------------------------------------------------
(* What the steps that write do to the row of one checkout.                *)

OthersKept(c) ==
  \A d \in Checkouts : d # c =>
    /\ checkout'[d] = checkout[d] /\ orders'[d] = orders[d]
    /\ RedemptionsOf(d)' = RedemptionsOf(d)

LEMMA StatusWritten ==
  ASSUME StoreOK, NEW c \in Checkouts, NEW seen, NEW status, WriteStatus(c, seen, status)
  PROVE  /\ checkout'[c].status = IF seen.status = status THEN checkout[c].status ELSE status
         /\ checkout'[c].customer = checkout[c].customer
         /\ \A d \in Checkouts : d # c => checkout'[d] = checkout[d]
  BY DEF WriteStatus, StoreOK, Row

LEMMA SucceedRow ==
  ASSUME StoreOK, NEW c \in Checkouts, NEW seen, Succeed(c, seen)
  PROVE  /\ checkout'[c].status = "succeeded"
         /\ checkout'[c].reference = seen.reference
         /\ orders'[c] = orders[c] + 1 /\ redemptions' = redemptions
         /\ OthersKept(c)
  BY DEF Succeed, WithMetadata, StoreOK, Row, OthersKept, RedemptionsOf

LEMMA FailRow ==
  ASSUME StoreOK, NEW c \in Checkouts, NEW seen, Fail(c, seen)
  PROVE  /\ orders' = orders
         /\ OthersKept(c)
         /\ Fails(seen) =>
              /\ checkout'[c].status = IF seen.status = "open" THEN checkout[c].status ELSE "open"
              /\ redemptions' = redemptions \ RedemptionsOf(c)
         /\ ~Fails(seen) =>
              checkout'[c].status = checkout[c].status /\ redemptions' = redemptions
  <1>1. \A d \in Checkouts : d # c => checkout'[d] = checkout[d]
    BY StatusWritten DEF Fail
  <1>2. Fails(seen) =>
          checkout'[c].status = IF seen.status = "open" THEN checkout[c].status ELSE "open"
    BY StatusWritten DEF Fail
  <1>3. ~Fails(seen) => checkout'[c].status = checkout[c].status
    BY DEF Fail, WriteStatus
  <1>4. \A d \in Checkouts : d # c => RedemptionsOf(d)' = RedemptionsOf(d)
    BY DEF Fail, RedemptionsOf
  <1> QED BY <1>1, <1>2, <1>3, <1>4 DEF Fail, OthersKept

LEMMA Redeemed ==
  ASSUME NEW c, Redeem(c)
  PROVE  /\ RedemptionsOf(c)' # {}
         /\ \A d : d # c => RedemptionsOf(d)' = RedemptionsOf(d)
  <1> DEFINE unit == <<c, Cardinality(RedemptionsOf(c)) + 1>>
  <1>1. redemptions' = redemptions \cup {unit}
    BY DEF Redeem
  <1>2. unit[1] = c
    OBVIOUS
  <1> HIDE DEF unit
  <1> QED BY <1>1, <1>2 DEF RedemptionsOf

LEMMA ConfirmRow ==
  ASSUME StoreOK, NEW w \in Workers, NEW c \in Checkouts, task[w].checkout = c,
         ConfirmCommit(w)
  PROVE  /\ task[w].kind = "confirm" /\ checkout'[c].status = "confirmed"
         /\ checkout'[c].reference = IF task[w].seen.customer THEN checkout[c].reference
                                     ELSE task[w].seen.reference
         /\ orders' = orders /\ Redeem(c) /\ Redeemable
         /\ OthersKept(c)
  <1>1. /\ checkout'[c].status = "confirmed"
        /\ checkout'[c].reference = IF task[w].seen.customer THEN checkout[c].reference
                                    ELSE task[w].seen.reference
        /\ \A d \in Checkouts : d # c => checkout'[d] = checkout[d]
    BY DEF ConfirmCommit, WithMetadata, StoreOK, Row
  <1>2. \A d \in Checkouts : d # c => RedemptionsOf(d)' = RedemptionsOf(d)
    BY Redeemed DEF ConfirmCommit
  <1> QED BY <1>1, <1>2 DEF ConfirmCommit, Running, OthersKept

LEMMA ExpireRow ==
  ASSUME StoreOK, NEW c \in Checkouts, ExpireOpen(c)
  PROVE  /\ checkout[c].status = "open" /\ checkout'[c].status = "expired"
         /\ orders' = orders /\ redemptions' = redemptions /\ task' = task
         /\ OthersKept(c)
  BY DEF ExpireOpen, StoreOK, Row, OthersKept, RedemptionsOf

(* A commit, by what it read: it sells the checkout, confirms it for its   *)
(* buyer or for a charge that is awaited, reopens it or leaves the row.    *)

Sells(w) ==
  LET c == task[w].checkout
  IN /\ task[w].seen.customer /\ (task[w].kind = "poll" \/ task[w].seen.status = "confirmed")
     /\ checkout'[c].status = "succeeded"
     /\ orders'[c] = orders[c] + 1 /\ redemptions' = redemptions

Awaits(w) ==
  LET c == task[w].checkout
  IN /\ task[w].kind = "poll"
     /\ checkout'[c].status = IF task[w].seen.status = "confirmed" THEN checkout[c].status
                              ELSE "confirmed"
     /\ orders' = orders /\ redemptions' = redemptions

Confirms(w) ==
  LET c == task[w].checkout
  IN /\ task[w].kind = "confirm" /\ checkout'[c].status = "confirmed"
     /\ orders' = orders /\ Redeem(c) /\ Redeemable

Reopens(w) ==
  LET c == task[w].checkout
  IN /\ Fails(task[w].seen)
     /\ checkout'[c].status = IF task[w].seen.status = "open" THEN checkout[c].status ELSE "open"
     /\ orders' = orders /\ redemptions' = redemptions \ RedemptionsOf(c)

Leaves(w) ==
  LET c == task[w].checkout
  IN checkout'[c].status = checkout[c].status /\ orders' = orders /\ redemptions' = redemptions

LEMMA CommitRow ==
  ASSUME TypeInv, NEW w \in Workers, Commits(w)
  PROVE  /\ task[w].checkout \in Checkouts
         /\ OthersKept(task[w].checkout)
         /\ Sells(w) \/ Awaits(w) \/ Confirms(w) \/ Reopens(w) \/ Leaves(w)
  <1> DEFINE c == task[w].checkout
             seen == task[w].seen
             confirmed == [seen EXCEPT !.status = "confirmed"]
  <1>1. StoreOK /\ c \in Checkouts /\ seen \in Row
    BY TypeParts DEF TypeInv, TaskOK, Commits, InSession, TasksOK, Task
  <1>2. confirmed.status = "confirmed" /\ confirmed.customer = seen.customer
    BY <1>1 DEF Row
  <1> HIDE DEF confirmed
  <1>3. CASE Succeeds(seen) /\ Succeed(c, seen)
    <2>1. Sells(w)
      BY <1>1, <1>3, SucceedRow DEF Sells, Succeeds
    <2> QED BY <1>1, <1>3, <2>1, SucceedRow
  <1>4. CASE task[w].kind = "poll" /\ Succeeds(confirmed) /\ Succeed(c, confirmed)
    <2>1. Sells(w)
      BY <1>1, <1>2, <1>4, SucceedRow DEF Sells, Succeeds
    <2> QED BY <1>1, <1>4, <2>1, SucceedRow
  <1>5. CASE /\ task[w].kind = "poll" /\ WriteStatus(c, seen, "confirmed")
             /\ UNCHANGED <<redemptions, orders>>
    <2>1. Awaits(w) /\ OthersKept(c)
      BY <1>1, <1>5, StatusWritten DEF Awaits, OthersKept, RedemptionsOf
    <2> QED BY <1>1, <2>1
  <1>6. CASE Fail(c, seen)
    <2>1. OthersKept(c)
      BY <1>1, <1>6, FailRow
    <2>2. CASE Fails(seen)
      <3>1. Reopens(w)
        BY <1>1, <1>6, <2>2, FailRow DEF Reopens
      <3> QED BY <1>1, <2>1, <3>1
    <2>3. CASE ~Fails(seen)
      <3>1. Leaves(w)
        BY <1>1, <1>6, <2>3, FailRow DEF Leaves
      <3> QED BY <1>1, <2>1, <3>1
    <2> QED BY <2>2, <2>3
  <1>7. CASE ConfirmCommit(w)
    <2>1. Confirms(w) /\ OthersKept(c)
      BY <1>1, <1>7, ConfirmRow DEF Confirms
    <2> QED BY <1>1, <2>1
  <1> QED BY <1>3, <1>4, <1>5, <1>6, <1>7 DEF Commits, confirmed

-----------------------------------------------------------------------------
(* SaleInv.                                                                *)

LEMMA SoldKept ==
  ASSUME TypeInv, [Next]_vars, NEW c \in Checkouts, Sold(c) PROVE Sold(c)'
  <1>1. StoreOK
    BY TypeParts DEF TypeInv
  <1>2. CASE Quiet
    BY <1>2 DEF Quiet, RowsKept, Sold
  <1>3. CASE \E d \in Checkouts : ExpireOpen(d)
    BY <1>1, <1>3, ExpireRow DEF Sold
  <1>4. ASSUME NEW w \in Workers, Commits(w) PROVE Sold(c)'
    BY <1>1, <1>4, CommitRow
       DEF OthersKept, Sells, Awaits, Confirms, Reopens, Leaves, Sold, StoreOK
  <1> QED BY <1>2, <1>3, <1>4, StepEffect

(* Redemptions are counted under the lock of the discount.                 *)
LEMMA LimitKept ==
  ASSUME SaleInv, [Next]_vars
  PROVE  IsFiniteSet(redemptions') /\ Cardinality(redemptions') <= MaxRedemptions
  <1>1. IsFiniteSet(redemptions) /\ Cardinality(redemptions) \in Nat
    BY FS_CardinalityType DEF SaleInv
  <1>2. CASE redemptions' = redemptions
    BY <1>2 DEF SaleInv
  <1>3. ASSUME NEW c, redemptions' = redemptions \ RedemptionsOf(c)
        PROVE  IsFiniteSet(redemptions') /\ Cardinality(redemptions') <= MaxRedemptions
    <2>1. redemptions' \subseteq redemptions
      BY <1>3
    <2>2. IsFiniteSet(redemptions') /\ Cardinality(redemptions') <= Cardinality(redemptions)
      BY <1>1, <2>1, FS_Subset
    <2>3. Cardinality(redemptions') \in Nat
      BY <2>2, FS_CardinalityType
    <2> QED BY <1>1, <2>2, <2>3, RedemptionsAssumption DEF SaleInv
  <1>4. ASSUME NEW c, Redeem(c), Redeemable
        PROVE  IsFiniteSet(redemptions') /\ Cardinality(redemptions') <= MaxRedemptions
    <2> DEFINE unit == <<c, Cardinality(RedemptionsOf(c)) + 1>>
    <2>3. redemptions' = redemptions \cup {unit}
      BY <1>4 DEF Redeem
    <2> HIDE DEF unit
    <2>4. /\ IsFiniteSet(redemptions \cup {unit})
          /\ Cardinality(redemptions \cup {unit}) =
               IF unit \in redemptions THEN Cardinality(redemptions)
               ELSE Cardinality(redemptions) + 1
      BY <1>1, FS_AddElement
    <2>1. IsFiniteSet(redemptions') /\ Cardinality(redemptions') <= Cardinality(redemptions) + 1
      BY <1>1, <2>3, <2>4
    <2>2. Cardinality(redemptions') \in Nat
      BY <2>1, FS_CardinalityType
    <2> QED BY <1>1, <1>4, <2>1, <2>2, RedemptionsAssumption DEF Redeemable
  <1> QED BY <1>2, <1>3, <1>4, RedemptionsStep

LEMMA SaleNext == ASSUME TypeInv, SaleInv, [Next]_vars PROVE SaleInv'
  <1>1. StoreOK /\ TypeInv' /\ TasksOK
    BY TypeParts, TypeNext DEF TypeInv, SaleInv
  <1>2. ASSUME NEW c \in Checkouts, checkout'[c].status = "succeeded" PROVE Sold(c)'
    <2>1. CASE Quiet
      BY <1>2, <2>1, SoldKept DEF Quiet, RowsKept, SaleInv
    <2>2. CASE \E d \in Checkouts : ExpireOpen(d)
      BY <1>1, <1>2, <2>2, SoldKept, ExpireRow DEF OthersKept, SaleInv
    <2>3. ASSUME NEW w \in Workers, Commits(w) PROVE Sold(c)'
      <3>1. CASE c # task[w].checkout
        BY <1>2, <2>3, <3>1, CommitRow, SoldKept DEF OthersKept, SaleInv
      <3>2. CASE c = task[w].checkout /\ Sells(w)
        BY <1>1, <3>2 DEF Sells, Sold, StoreOK
      <3>3. CASE c = task[w].checkout /\ ~Sells(w)
        <4>1. checkout[c].status = "succeeded"
          BY <1>2, <2>3, <3>3, CommitRow DEF Awaits, Confirms, Reopens, Leaves
        <4> QED BY <4>1, SoldKept DEF SaleInv
      <3> QED BY <3>1, <3>2, <3>3
    <2> QED BY <2>1, <2>2, <2>3, StepEffect
  <1>3. ASSUME NEW v \in Workers, Busy(v)', task'[v].sold PROVE Sold(task[v].checkout)'
    <2>1. task'[v].checkout \in Checkouts
      BY <1>1, <1>3 DEF TypeInv, TaskOK
    <2>2. CASE task'[v] = task[v]
      <3>1. Sold(task'[v].checkout)
        BY <1>3, <2>2 DEF SaleInv, Busy
      <3> QED BY <2>1, <2>2, <3>1, SoldKept
    <2>3. CASE task'[v] # task[v]
      <3>1. PICK w \in Workers : TaskMoves(w) /\ \A u \in Workers : u # w => task'[u] = task[u]
        BY <1>1, <1>3, <2>3, StepEffect, ExpireRow DEF Quiet, Commits
      <3>2. TaskMoves(v)
        BY <2>3, <3>1
      <3>3. Sold(task'[v].checkout)
        BY <1>3, <3>2 DEF TaskMoves, Rereads, SameWork, SaleInv
      <3> QED BY <2>1, <3>3, SoldKept DEF Sold
    <2> QED BY <2>2, <2>3
  <1> QED BY <1>2, <1>3, LimitKept DEF SaleInv

-----------------------------------------------------------------------------
(* ExclusiveInv and ChargeInv.                                             *)

LEMMA EnvironmentKept == ASSUME [Next]_vars PROVE environment' = environment
  BY DEF Next, vars, Proceed, ConfirmBegin, ConfirmCommit, ConfirmRefused, OpenPopup, Charge,
     PassExpiry, ExpireOpen, AbandonBegin, PollBegin, FreeBegin, Pay, Resend, Prune, TaskRefused, DeliverBegin,
     TaskBegin, DeliverCommit, DeliverFlush, AbandonCommit, PollCommit, HealCommit,
     Unverified, IgnoreCharge, ReadCheckout, SuccessCommit, FailedCommit, FreeCommit, Crash

(* Nothing else works on a checkout that expires.                          *)
LEMMA AloneIdle ==
  ASSUME ~May("overlap"), NEW c, Alone(c), NEW w \in Workers, InSession(w)
  PROVE  task[w].checkout # c
  BY DEF Alone, InSession, Busy

LEMMA QuietFresh ==
  ASSUME TypeInv, TypeInv', ~May("overlap"), Quiet, \A w \in Workers : FreshOK(w),
         NEW w \in Workers
  PROVE  FreshOK(w)'
  <1>1. RowsKept /\ (InSession(w)' => task'[w].checkout \in Checkouts)
    BY DEF Quiet, InSession, TypeInv, TaskOK
  <1>2. CASE task' = task
    BY <1>1, <1>2 DEF FreshOK, InSession, Busy, RowsKept, Sold
  <1>3. ASSUME NEW u \in Workers, TaskMoves(u), \A v \in Workers : v # u => task'[v] = task[v]
        PROVE  FreshOK(w)'
    <2>1. CASE ~InSession(u)'
      <3>1. \A v \in Workers : InSession(v)' => InSession(v) /\ task'[v] = task[v]
        BY <1>3, <2>1 DEF InSession, Busy
      <3> QED BY <1>1, <3>1 DEF FreshOK, RowsKept, Sold, InSession, Busy
    <2>2. CASE InSession(u)'
      <3>1. \/ Rereads(u) /\ SameWork(u) /\ task[u].kind \notin {"confirm", "poll"}
            \/ Rereads(u) /\ Starts(u)
        BY <1>3, <2>2 DEF TaskMoves, InSession, SameWork, Busy
      <3>2. \A v \in Workers : v # u /\ InSession(v) => task[v].checkout # task'[u].checkout
        <4>1. CASE SameWork(u)
          BY <2>2, <4>1 DEF SameWork, FreshOK, InSession, Busy
        <4>2. CASE Starts(u)
          BY <2>2, <4>2, AloneIdle DEF Starts, InSession
        <4> QED BY <3>1, <4>1, <4>2
      <3>3. CASE w = u
        <4>1. \A v \in Workers : InSession(v)' /\ task'[v].checkout = task'[u].checkout => v = u
          BY <1>3, <3>2 DEF InSession, Busy
        <4>2. /\ task'[u].seen.status = checkout'[task'[u].checkout].status
              /\ task'[u].seen.customer = checkout'[task'[u].checkout].customer
              /\ task'[u].sold <=> Sold(task[u].checkout)'
          BY <1>1, <2>2, <3>1, <3>3 DEF Rereads, RowsKept, Sold
        <4>3. task'[u].kind \in {"confirm", "poll"} => task'[u].seen.status = "open"
          BY <3>1 DEF Rereads, SameWork, Starts
        <4> QED BY <3>3, <4>1, <4>2, <4>3 DEF FreshOK
      <3>4. CASE w # u /\ InSession(w)'
        <4>1. task'[w] = task[w] /\ InSession(w)
          BY <1>3, <3>4 DEF InSession, Busy
        <4>2. \A v \in Workers : InSession(v)' /\ task'[v].checkout = task'[w].checkout => v = w
          BY <1>3, <3>2, <4>1 DEF FreshOK, InSession, Busy
        <4> QED BY <1>1, <4>1, <4>2, <3>4 DEF FreshOK, RowsKept, Sold
      <3> QED BY <3>3, <3>4 DEF FreshOK
    <2> QED BY <2>1, <2>2
  <1> QED BY <1>2, <1>3 DEF Quiet

(* A step that writes the row of c, and ends the one task that works on it *)
(* or finds none that does.                                                *)
LEMMA WriteFresh ==
  ASSUME TypeInv', NEW c, OthersKept(c), NEW w \in Workers,
         \A v \in Workers : FreshOK(v),
         \A v \in Workers : InSession(v)' => task'[v] = task[v] /\ task[v].checkout # c
  PROVE  FreshOK(w)'
  <1>1. InSession(w)' => task'[w].checkout \in Checkouts
    BY DEF InSession, TypeInv, TaskOK
  <1>2. \A v \in Workers : InSession(v)' => InSession(v)
    BY DEF InSession, Busy
  <1> QED BY <1>1, <1>2 DEF FreshOK, OthersKept, Sold

LEMMA FreshNext ==
  ASSUME TypeInv, TypeInv', ~May("overlap"), \A w \in Workers : FreshOK(w), [Next]_vars,
         NEW w \in Workers
  PROVE  FreshOK(w)'
  <1>1. StoreOK
    BY TypeParts DEF TypeInv
  <1>2. CASE Quiet
    BY <1>2, QuietFresh
  <1>3. ASSUME NEW c \in Checkouts, ExpireOpen(c) PROVE FreshOK(w)'
    <2>1. task' = task /\ OthersKept(c) /\ Alone(c)
      BY <1>1, <1>3, ExpireRow DEF ExpireOpen
    <2>2. \A v \in Workers : InSession(v)' => task'[v] = task[v] /\ task[v].checkout # c
      BY <2>1, AloneIdle DEF InSession, Busy
    <2> QED BY <2>1, <2>2, WriteFresh
  <1>4. ASSUME NEW u \in Workers, Commits(u) PROVE FreshOK(w)'
    <2>1. OthersKept(task[u].checkout)
      BY <1>4, CommitRow
    <2>2. \A v \in Workers : InSession(v)' =>
            task'[v] = task[v] /\ task[v].checkout # task[u].checkout
      BY <1>4 DEF Commits, FreshOK, InSession, Busy
    <2> QED BY <2>1, <2>2, WriteFresh
  <1> QED BY <1>2, <1>3, <1>4, StepEffect

LEMMA RowNext ==
  ASSUME TypeInv, ~May("overlap"), \A w \in Workers : FreshOK(w), [Next]_vars,
         \A c \in Checkouts : RowOK(c), NEW c \in Checkouts
  PROVE  RowOK(c)'
  <1>1. StoreOK /\ RowOK(c)
    BY TypeParts DEF TypeInv
  <1>2. CASE Quiet
    BY <1>1, <1>2 DEF Quiet, RowsKept, RowOK, RedemptionsOf
  <1>3. ASSUME NEW d \in Checkouts, ExpireOpen(d) PROVE RowOK(c)'
    BY <1>1, <1>3, ExpireRow DEF RowOK, OthersKept, RedemptionsOf
  <1>4. ASSUME NEW w \in Workers, Commits(w) PROVE RowOK(c)'
    <2>1. CASE c # task[w].checkout
      BY <1>1, <1>4, <2>1, CommitRow DEF RowOK, OthersKept
    <2>2. CASE c = task[w].checkout
      <3>1. /\ task[w].seen.status = checkout[c].status
            /\ task[w].kind \in {"confirm", "poll"} => task[w].seen.status = "open"
        BY <1>4, <2>2 DEF Commits, FreshOK
      <3>2. CASE Sells(w)
        BY <1>1, <2>2, <3>1, <3>2 DEF Sells, RowOK, RedemptionsOf
      <3>3. CASE Awaits(w) \/ Confirms(w) \/ Leaves(w)
        BY <1>1, <2>2, <3>1, <3>3 DEF Awaits, Confirms, Leaves, RowOK, RedemptionsOf
      <3>4. CASE Reopens(w)
        <4>1. RedemptionsOf(c)' = {}
          BY <2>2, <3>4 DEF Reopens, RedemptionsOf
        <4> QED BY <1>1, <2>2, <3>1, <3>4, <4>1 DEF Reopens, RowOK, Fails
      <3> QED BY <1>4, <3>2, <3>3, <3>4, CommitRow
    <2> QED BY <2>1, <2>2
  <1> QED BY <1>2, <1>3, <1>4, StepEffect

LEMMA ExclusiveNext ==
  ASSUME TypeInv, TypeInv', ExclusiveInv, [Next]_vars PROVE ExclusiveInv'
  BY EnvironmentKept, FreshNext, RowNext DEF ExclusiveInv, May

(* The reference of a checkout is written by /charge, and by the sessions  *)
(* that write the one they read.                                           *)
LEMMA ReferenceKept ==
  ASSUME TypeInv, ChargeInv, [Next]_vars, ~May("charge"), NEW c \in Checkouts
  PROVE  checkout'[c].reference = NoPayment
  <1>1. StoreOK /\ checkout[c].reference = NoPayment
    BY TypeParts DEF TypeInv, ChargeInv
  <1>2. ASSUME NEW d, NEW seen, NEW status, WriteStatus(d, seen, status)
        PROVE  checkout'[c].reference = NoPayment
    BY <1>1, <1>2 DEF WriteStatus, StoreOK, Row
  <1>3. ASSUME NEW d, ExpireOpen(d)
        PROVE  checkout'[c].reference = NoPayment
    BY <1>1, <1>3 DEF ExpireOpen, StoreOK, Row
  <1>4. ASSUME NEW w \in Workers, Commits(w)
        PROVE  checkout'[c].reference = NoPayment
    <2> DEFINE d == task[w].checkout
               seen == task[w].seen
               confirmed == [seen EXCEPT !.status = "confirmed"]
    <2>1. d \in Checkouts /\ OthersKept(d)
      BY <1>4, CommitRow
    <2>2. CASE c # d
      BY <1>1, <2>1, <2>2 DEF OthersKept
    <2>3. CASE c = d
      <3>1. seen.reference = NoPayment /\ confirmed.reference = NoPayment
        <4>1. Busy(w) /\ seen \in Row
          BY <1>4, TypeParts DEF Commits, InSession, TypeInv, TasksOK, Task
        <4> QED BY <4>1 DEF ChargeInv, Row
      <3> HIDE DEF confirmed
      <3>2. CASE Succeed(d, seen) \/ Succeed(d, confirmed)
        BY <1>1, <2>1, <2>3, <3>1, <3>2, SucceedRow
      <3>3. CASE ConfirmCommit(w)
        BY <1>1, <2>1, <2>3, <3>1, <3>3, ConfirmRow
      <3>4. CASE Fail(d, seen) \/ WriteStatus(d, seen, "confirmed")
        BY <1>2, <3>4 DEF Fail
      <3> QED BY <1>4, <3>2, <3>3, <3>4 DEF Commits, confirmed
    <2> QED BY <2>2, <2>3
  <1>5. CASE checkout' = checkout
    BY <1>1, <1>5
  <1>6. ASSUME NEW w \in Workers, Proceed(w) \/ Crash(w)
        PROVE  Commits(w) \/ checkout' = checkout
    <2>1. CASE ConfirmCommit(w) \/ AbandonCommit(w) \/ PollCommit(w) \/ HealCommit(w)
                 \/ SuccessCommit(w) \/ FailedCommit(w) \/ FreeCommit(w)
      BY <2>1, WriterCommits DEF Unwritten
    <2> QED BY <1>6, <2>1 DEF Proceed, DeliverCommit, DeliverFlush, ConfirmRefused,
               Unverified, IgnoreCharge, ReadCheckout, Crash, Unwritten
  <1> QED BY <1>3, <1>4, <1>5, <1>6
          DEF Next, vars, OpenPopup, Charge, PassExpiry, ConfirmBegin, AbandonBegin,
              PollBegin, FreeBegin, Pay, Resend, Prune, TaskRefused, DeliverBegin, TaskBegin

LEMMA ChargeNext ==
  ASSUME TypeInv, TypeInv', ChargeInv, [Next]_vars PROVE ChargeInv'
  <1> SUFFICES ASSUME ~May("charge") PROVE ChargeInv'
    BY EnvironmentKept DEF ChargeInv, May
  <1>1. \A c \in Checkouts : checkout'[c].reference = NoPayment
    BY ReferenceKept DEF ChargeInv
  <1>2. ASSUME NEW w \in Workers, Busy(w)'
        PROVE  task'[w].kind \notin {"poll", "heal"} /\ task'[w].seen.reference = NoPayment
    <2>1. CASE task'[w] = task[w]
      BY <1>2, <2>1 DEF ChargeInv, Busy
    <2>2. CASE task'[w] # task[w]
      <3>1. TypeInv /\ StoreOK /\ TasksOK
        BY TypeParts DEF TypeInv
      <3>2. /\ SameWork(w) \/ Starts(w)
            /\ (SameWork(w) /\ task'[w].seen = task[w].seen) \/ Rereads(w)
        BY <1>2, <2>2, <3>1, StepEffect, ExpireRow DEF Quiet, TaskMoves, Commits
      <3>3. task'[w].checkout \in Checkouts
        BY <1>2 DEF TypeInv, TaskOK
      <3> QED BY <3>2, <3>3 DEF SameWork, Starts, Rereads, ChargeInv
    <2> QED BY <2>1, <2>2
  <1> QED BY <1>1, <1>2 DEF ChargeInv

-----------------------------------------------------------------------------

LEMMA PromiseInit == ASSUME Init PROVE PromiseInv
  <1>1. TypeInv
    BY TypeInit
  <1>2. IsFiniteSet(redemptions) /\ Cardinality(redemptions) <= MaxRedemptions
    BY FS_EmptySet, RedemptionsAssumption DEF Init
  <1>3. \A c \in Checkouts : checkout[c] = Opened /\ orders[c] = 0 /\ RedemptionsOf(c) = {}
    BY DEF Init, RedemptionsOf
  <1>4. \A w \in Workers : ~Busy(w)
    BY DEF Init, Busy, Idle
  <1> QED BY <1>1, <1>2, <1>3, <1>4
          DEF PromiseInv, SaleInv, ExclusiveInv, ChargeInv, FreshOK, RowOK, InSession, Opened

LEMMA PromiseNext == ASSUME PromiseInv, [Next]_vars PROVE PromiseInv'
  BY TypeNext, SaleNext, ExclusiveNext, ChargeNext DEF PromiseInv, SaleInv

LEMMA PromiseCorrect == Spec => []PromiseInv
  BY PromiseInit, PromiseNext, PTL DEF Spec

(* A checkout is succeeded exactly when it was sold, and sold once, as     *)
(* long as one session at a time works on it: neither a late failure, an   *)
(* abandonment, the cron nor a second payment undoes or repeats the sale.  *)
THEOREM SucceededIsSoldCorrect == Spec => []SucceededIsSold
  <1>1. PromiseInv => SucceededIsSold
    BY DEF PromiseInv, ExclusiveInv, RowOK, SucceededIsSold, Without, May
  <1> QED BY <1>1, PromiseCorrect, PTL

LEMMA HoldsNext ==
  ASSUME PromiseInv, Without({"overlap", "charge"}), [Next]_vars,
         \A c \in Checkouts : HoldsOK(c), NEW c \in Checkouts
  PROVE  HoldsOK(c)'
  <1>1. ~May("overlap") /\ ~May("charge")
    BY DEF Without, May
  <1>2. StoreOK /\ HoldsOK(c) /\ \A w \in Workers : FreshOK(w)
    BY <1>1, TypeParts DEF PromiseInv, TypeInv, ExclusiveInv
  <1>3. CASE Quiet
    BY <1>2, <1>3 DEF Quiet, RowsKept, HoldsOK, RedemptionsOf
  <1>4. ASSUME NEW d \in Checkouts, ExpireOpen(d) PROVE HoldsOK(c)'
    BY <1>2, <1>4, ExpireRow DEF HoldsOK, OthersKept
  <1>5. ASSUME NEW w \in Workers, Commits(w) PROVE HoldsOK(c)'
    <2>1. CASE c # task[w].checkout
      BY <1>2, <1>5, <2>1, CommitRow DEF PromiseInv, HoldsOK, OthersKept
    <2>2. CASE c = task[w].checkout
      <3>1. task[w].seen.status = checkout[c].status /\ task[w].kind # "poll"
        BY <1>1, <1>2, <1>5, <2>2 DEF Commits, FreshOK, PromiseInv, ChargeInv, InSession
      <3>2. Sells(w) \/ Confirms(w) \/ Reopens(w) \/ Leaves(w)
        BY <1>5, <3>1, CommitRow DEF PromiseInv, Awaits
      <3>3. CASE Sells(w) \/ Leaves(w)
        <4>1. RedemptionsOf(c)' = RedemptionsOf(c)
          BY <3>3 DEF Sells, Leaves, RedemptionsOf
        <4>2. checkout[c].status \in {"confirmed", "succeeded"} \/ Leaves(w)
          BY <3>1, <3>3 DEF Sells
        <4> QED BY <1>2, <2>2, <3>3, <4>1, <4>2 DEF Sells, Leaves, HoldsOK
      <3>4. CASE Confirms(w)
        BY <2>2, <3>4, Redeemed DEF Confirms, HoldsOK
      <3>5. CASE Reopens(w)
        BY <2>2, <3>1, <3>5 DEF Reopens, Fails, HoldsOK
      <3> QED BY <3>2, <3>3, <3>4, <3>5
    <2> QED BY <2>1, <2>2
  <1> QED BY <1>3, <1>4, <1>5, StepEffect DEF PromiseInv

(* A checkout that awaits its payment or was sold holds a unit of the      *)
(* discount, so that no one else gets the price it was promised.           *)
THEOREM SoldHoldsDiscountCorrect == Spec => []SoldHoldsDiscount
  <1>1. Init => SoldHoldsDiscount
    BY DEF Init, SoldHoldsDiscount, Opened
  <1>2. ASSUME PromiseInv, SoldHoldsDiscount, [Next]_vars PROVE SoldHoldsDiscount'
    <2> SUFFICES ASSUME Without({"overlap", "charge"}), NEW c \in Checkouts PROVE HoldsOK(c)'
      BY <1>2, EnvironmentKept DEF SoldHoldsDiscount, HoldsOK, Without
    <2> QED BY <1>2, HoldsNext DEF SoldHoldsDiscount, HoldsOK
  <1> QED BY <1>1, <1>2, PromiseCorrect, PTL DEF Spec

-----------------------------------------------------------------------------
(* HandledIsSold: an event is handled once its transaction is over, so     *)
(* what was paid then is what is paid now.                                 *)

HandledOK(p) == PopupPaid(p) /\ events[p] = "handled" => Sold(payments[p].checkout)

LEMMA PaymentOverKept ==
  ASSUME TypeInv, [Next]_vars, NEW p, Over(p)
  PROVE  p \in DOMAIN payments' /\ payments'[p] = payments[p]
  <1>1. payments \in Seq(Payment)
    BY DEF TypeInv, TypeOK
  <1>2. ASSUME NEW c \in Checkouts, OpenPopup(c) \/ Charge(c)
        PROVE  p \in DOMAIN payments' /\ payments'[p] = payments[p]
    <2>1. \E channel \in {"popup", "charge"}, state \in {"pending", "success", "failed"} :
            NewPayment(c, channel, state)
      BY <1>2 DEF OpenPopup, Charge
    <2> QED BY <2>1, NewPaymentTypes DEF Over
  <1>3. ASSUME NEW q \in Payments, Pay(q)
        PROVE  p \in DOMAIN payments' /\ payments'[p] = payments[p]
    BY <1>1, <1>3 DEF Pay, Over
  <1>4. CASE payments' = payments
    BY <1>4 DEF Over
  <1> QED BY <1>2, <1>3, <1>4
          DEF Next, vars, Proceed, ConfirmBegin, ConfirmCommit, ConfirmRefused,
              PassExpiry, ExpireOpen, AbandonBegin,
              PollBegin, FreeBegin, Resend, Prune, TaskRefused, DeliverBegin, TaskBegin,
              DeliverCommit, DeliverFlush, AbandonCommit, PollCommit, HealCommit,
              Unverified, IgnoreCharge, ReadCheckout, SuccessCommit, FailedCommit,
              FreeCommit, Crash

(* The tasks that end well.                                                *)
LEMMA HandledBy ==
  ASSUME TypeInv, [Next]_vars, NEW p \in Payments, events[p] # "handled",
         events'[p] = "handled"
  PROVE  \E w \in Workers :
           /\ task[w].payment = p
           /\ Unverified(w) \/ IgnoreCharge(w) \/ SuccessCommit(w) \/ FailedCommit(w)
           /\ Handled(w)
  <1>1. events \in [Payments -> {"absent", "stored", "handled"}]
    BY DEF TypeInv, TypeOK
  <1>2. ~UNCHANGED events
    OBVIOUS
  <1>3. \A q : ~Prune(q)
    BY <1>1 DEF Prune
  <1>4. \A w \in Workers : ~DeliverCommit(w)
    BY <1>1 DEF DeliverCommit
  <1>5. PICK w \in Workers :
          Unverified(w) \/ IgnoreCharge(w) \/ SuccessCommit(w) \/ FailedCommit(w)
    BY <1>2, <1>3, <1>4
       DEF Next, vars, Proceed, ConfirmBegin, ConfirmCommit, ConfirmRefused, OpenPopup,
           Charge, PassExpiry, ExpireOpen, AbandonBegin, PollBegin, FreeBegin, Pay, Resend, TaskRefused, DeliverBegin,
           TaskBegin, DeliverFlush, AbandonCommit, PollCommit, HealCommit, ReadCheckout,
           FreeCommit, Crash
  <1>6. Handled(w)
    BY <1>2, <1>5 DEF Unverified, IgnoreCharge, SuccessCommit, FailedCommit, Retry
  <1>7. task[w].payment = p
    BY <1>1, <1>6 DEF Handled
  <1> QED BY <1>5, <1>6, <1>7

LEMMA HandledNext ==
  ASSUME PromiseInv, Without({"outage"}), [Next]_vars,
         \A p \in Payments : HandledOK(p), NEW p \in Payments
  PROVE  HandledOK(p)'
  <1> SUFFICES ASSUME PopupPaid(p)', events'[p] = "handled"
               PROVE  Sold(payments[p].checkout)'
    BY DEF HandledOK
  <1>1. TypeInv /\ SaleInv /\ TypeInv' /\ SaleInv'
    BY PromiseNext DEF PromiseInv
  <1>2. CASE events[p] = "handled"
    <2>1. Over(p)
      BY <1>1, <1>2 DEF TypeInv, EventsOK
    <2>2. PopupPaid(p) /\ payments'[p] = payments[p]
      BY <1>1, <2>1, PaymentOverKept DEF PopupPaid, Paid, Over
    <2>3. payments[p] \in Payment /\ Sold(payments[p].checkout)
      BY <1>1, <1>2, <2>1, <2>2 DEF HandledOK, Over, TypeInv, TypeOK
    <2> QED BY <1>1, <2>2, <2>3, SoldKept DEF Payment, Sold
  <1>3. CASE events[p] # "handled"
    <2>1. PICK w \in Workers :
            /\ task[w].payment = p
            /\ Unverified(w) \/ IgnoreCharge(w) \/ SuccessCommit(w) \/ FailedCommit(w)
            /\ Handled(w)
      BY <1>1, <1>3, HandledBy
    <2>2. ~Unverified(w)
      BY DEF Without, Unverified, Happens, May
    <2>3. payments' = payments
      BY <2>1, <2>2 DEF IgnoreCharge, SuccessCommit, FailedCommit
    <2>4. payments[p].channel = "popup" /\ Paid(p)
      BY <2>3 DEF PopupPaid, Paid
    <2>5. TaskOK(w) /\ StoreOK
      BY <1>1, TypeParts DEF TypeInv
    <2>6. SuccessCommit(w)
      BY <2>1, <2>2, <2>4, <2>5
         DEF IgnoreCharge, FailedCommit, Running, TaskOK, Busy
    <2>7. /\ task[w].checkout \in Checkouts /\ payments[p].checkout = task[w].checkout
          /\ Busy(w)
      BY <2>1, <2>5, <2>6 DEF SuccessCommit, Running, TaskOK, Busy, OfEvent
    <2>8. \/ task[w].sold
          \/ Succeeds(task[w].seen) /\ Succeed(task[w].checkout, task[w].seen)
          \/ Retry(w) /\ events' = events
      BY <2>6 DEF SuccessCommit, Retry
    <2>9. orders'[task[w].checkout] > 0
      <3>1. CASE task[w].sold
        BY <1>1, <2>7, <3>1, SoldKept DEF SaleInv, Sold
      <3>2. CASE Succeeds(task[w].seen) /\ Succeed(task[w].checkout, task[w].seen)
        <4>1. orders'[task[w].checkout] = orders[task[w].checkout] + 1
          BY <2>5, <2>7, <3>2, SucceedRow
        <4> QED BY <2>5, <2>7, <4>1 DEF StoreOK
      <3> QED BY <1>3, <2>8, <3>1, <3>2
    <2> QED BY <2>3, <2>7, <2>9 DEF Sold
  <1> QED BY <1>2, <1>3

(* The event of a successful payment in the popup is marked handled only   *)
(* when its checkout was sold, whatever overlaps, crashes or is delivered  *)
(* twice, as long as Paystack answers.                                     *)
THEOREM HandledIsSoldCorrect == Spec => []HandledIsSold
  <1>1. Init => HandledIsSold
    BY DEF Init, HandledIsSold
  <1>2. ASSUME PromiseInv, HandledIsSold, [Next]_vars PROVE HandledIsSold'
    <2> SUFFICES ASSUME Without({"outage"}), NEW p \in Payments PROVE HandledOK(p)'
      BY <1>2, EnvironmentKept DEF HandledIsSold, HandledOK, Without
    <2> QED BY <1>2, HandledNext DEF HandledIsSold, HandledOK
  <1> QED BY <1>1, <1>2, PromiseCorrect, PTL DEF Spec

-----------------------------------------------------------------------------
(* Purchase: every step of PaystackCheckout is one of the promise or       *)
(* changes nothing of it.                                                  *)

StageMap == [c \in Checkouts |-> Stage(c)]

LEMMA PromiseVars ==
  ASSUME environment' = environment, StageMap' = StageMap, orders' = orders,
         redemptions' = redemptions
  PROVE  UNCHANGED Promise!vars
  BY DEF Promise!vars, StageMap, May

LEMMA StageWritten ==
  ASSUME StoreOK, StoreOK', NEW c \in Checkouts, OthersKept(c)
  PROVE  /\ StageMap' = [StageMap EXCEPT ![c] = Stage(c)']
         /\ orders' = [orders EXCEPT ![c] = orders'[c]]
         /\ orders'[c] = orders[c] => orders' = orders
  <1>1. \A d \in Checkouts : d # c => Stage(d)' = Stage(d) /\ orders'[d] = orders[d]
    BY DEF OthersKept, Stage, Sold
  <1>2. orders \in [Checkouts -> Nat] /\ orders' \in [Checkouts -> Nat]
    BY DEF StoreOK
  <1>3. StageMap' = [StageMap EXCEPT ![c] = Stage(c)']
    BY <1>1 DEF StageMap
  <1> QED BY <1>1, <1>2, <1>3

LEMMA PromiseCardinality == \A S : Promise!Cardinality(S) = Cardinality(S)
  BY DEF Promise!Cardinality, Cardinality, Promise!IsFiniteSet, IsFiniteSet

LEMMA PromiseUnits ==
  ASSUME NEW c
  PROVE  /\ Promise!Units(c) = RedemptionsOf(c)
         /\ Promise!Another(c) = redemptions \cup {<<c, Cardinality(RedemptionsOf(c)) + 1>>}
  BY PromiseCardinality DEF Promise!Units, Promise!Another, RedemptionsOf

LEMMA StageRow ==
  ASSUME PromiseInv, ~May("overlap"), NEW c \in Checkouts
  PROVE  /\ StageMap[c] = IF checkout[c].status = "succeeded" THEN "sold"
                          ELSE checkout[c].status
         /\ Stage(c) = StageMap[c]
  BY DEF PromiseInv, ExclusiveInv, RowOK, StageMap, Stage, Sold

LEMMA QuietPromise ==
  ASSUME PromiseInv, environment' = environment, Quiet
  PROVE  UNCHANGED Promise!vars
  <1>1. StageMap' = StageMap
    BY DEF Quiet, RowsKept, StageMap, Stage, Sold
  <1> QED BY <1>1, PromiseVars DEF Quiet, RowsKept

(* One session at a time.                                                  *)
LEMMA ExclusivePromise ==
  ASSUME PromiseInv, PromiseInv', ~May("overlap"), environment' = environment,
         NEW c \in Checkouts, OthersKept(c),
         \/ ExpireOpen(c)
         \/ \E w \in Workers : Commits(w) /\ task[w].checkout = c
  PROVE  [Promise!Next]_(Promise!vars)
  <1>1. StoreOK /\ StoreOK' /\ RowOK(c) /\ ~May("overlap")'
    BY DEF PromiseInv, TypeInv, TypeOK, StoreOK, ExclusiveInv, May
  <1>2. /\ StageMap' = [StageMap EXCEPT ![c] = Stage(c)']
        /\ orders' = [orders EXCEPT ![c] = orders'[c]]
        /\ orders'[c] = orders[c] => orders' = orders
    BY <1>1, StageWritten
  <1>3. StageMap[c] = IF checkout[c].status = "succeeded" THEN "sold" ELSE checkout[c].status
    BY StageRow
  <1>4. Stage(c)' = IF checkout'[c].status = "succeeded" THEN "sold" ELSE checkout'[c].status
    BY <1>1 DEF PromiseInv, ExclusiveInv, RowOK, Stage, Sold
  <1>6. CASE ExpireOpen(c)
    <2>1. /\ checkout[c].status = "open" /\ checkout'[c].status = "expired"
          /\ orders' = orders /\ redemptions' = redemptions
      BY <1>1, <1>6, ExpireRow
    <2>2. Promise!Expire(c)
      BY <1>2, <1>3, <1>4, <2>1 DEF Promise!Expire, StageMap, May
    <2> QED BY <2>2 DEF Promise!Next
  <1>7. ASSUME NEW w \in Workers, Commits(w), task[w].checkout = c
        PROVE  [Promise!Next]_(Promise!vars)
    <2>1. /\ task[w].seen.status = checkout[c].status
          /\ task[w].kind \in {"confirm", "poll"} => task[w].seen.status = "open"
      BY <1>7 DEF PromiseInv, ExclusiveInv, Commits, FreshOK
    <2>2. CASE Sells(w)
      <3>1. Promise!Sell(c)
        BY <1>2, <1>3, <1>4, <1>7, <2>1, <2>2 DEF Sells, Promise!Sell, StageMap, May
      <3> QED BY <3>1 DEF Promise!Next
    <2>3. CASE Awaits(w)
      <3>1. Promise!Await(c)
        BY <1>2, <1>3, <1>4, <1>7, <2>1, <2>3 DEF Awaits, Promise!Await, StageMap, May
      <3> QED BY <3>1 DEF Promise!Next
    <2>6. CASE Confirms(w)
      <3>1. Redeem(c) /\ redemptions' = Promise!Another(c)
        BY <1>7, <2>6, PromiseUnits DEF Confirms, Redeem
      <3>2. Promise!Confirm(c)
        BY <1>2, <1>3, <1>4, <1>7, <2>1, <2>6, <3>1, PromiseCardinality
           DEF Confirms, Redeemable, Promise!Confirm, StageMap, May
      <3> QED BY <3>2 DEF Promise!Next
    <2>4. CASE Reopens(w) /\ checkout[c].status = "confirmed"
      <3>1. Promise!Reopen(c)
        BY <1>2, <1>3, <1>4, <1>7, <2>1, <2>4, PromiseUnits DEF Reopens, Promise!Reopen, StageMap, May
      <3> QED BY <3>1 DEF Promise!Next
    <2>5. CASE Leaves(w) \/ (Reopens(w) /\ checkout[c].status # "confirmed")
      <3>1. checkout'[c].status = checkout[c].status /\ orders' = orders
        BY <1>7, <2>1, <2>5 DEF Leaves, Reopens, Fails
      <3>2. redemptions' = redemptions
        BY <1>1, <1>7, <2>1, <2>5 DEF Leaves, Reopens, Fails, RowOK
      <3>3. StageMap' = StageMap
        BY <1>2, <1>3, <1>4, <3>1 DEF StageMap
      <3> QED BY <3>1, <3>2, <3>3, PromiseVars
    <2> QED BY <1>7, <2>2, <2>3, <2>4, <2>5, <2>6, CommitRow DEF PromiseInv
  <1> QED BY <1>6, <1>7

(* Sessions that overlap.                                                  *)
LEMMA RacePromise ==
  ASSUME PromiseInv, PromiseInv', May("overlap"), environment' = environment,
         NEW c \in Checkouts, OthersKept(c), orders'[c] \in {orders[c], orders[c] + 1},
         redemptions' = redemptions \/ Redeem(c) \/ redemptions' = redemptions \ RedemptionsOf(c)
  PROVE  Promise!Race(c)
  <1>1. StoreOK /\ StoreOK'
    BY DEF PromiseInv, TypeInv, TypeOK, StoreOK
  <1>2. /\ StageMap' = [StageMap EXCEPT ![c] = Stage(c)']
        /\ orders' = [orders EXCEPT ![c] = orders'[c]]
    BY <1>1, StageWritten
  <1>3. Stage(c)' \in Promise!Stages /\ (Stage(c)' = "sold" <=> orders'[c] > 0)
    <2>1. checkout'[c].status \in {"open", "confirmed", "succeeded", "expired"}
      BY <1>1 DEF StoreOK, Row
    <2>2. checkout'[c].status = "succeeded" => orders'[c] > 0
      BY DEF PromiseInv, SaleInv, Sold
    <2> QED BY <2>1, <2>2 DEF Stage, Sold, Promise!Stages
  <1>4. Cardinality(redemptions') <= MaxRedemptions
    BY DEF PromiseInv, SaleInv
  <1>5. redemptions' \in {redemptions, Promise!Another(c), redemptions \ Promise!Units(c)}
    BY PromiseUnits DEF Redeem
  <1> QED BY <1>2, <1>3, <1>4, <1>5, PromiseCardinality DEF Promise!Race, StageMap, May

LEMMA PromiseStep ==
  ASSUME PromiseInv, [Next]_vars PROVE [Promise!Next]_(Promise!vars)
  <1>1. PromiseInv' /\ environment' = environment /\ StoreOK
    BY PromiseNext, EnvironmentKept, TypeParts DEF PromiseInv, TypeInv
  <1>2. CASE Quiet
    BY <1>1, <1>2, QuietPromise
  <1>3. ASSUME NEW c \in Checkouts, ExpireOpen(c)
        PROVE  [Promise!Next]_(Promise!vars)
    <2>1. OthersKept(c) /\ orders' = orders /\ redemptions' = redemptions
      BY <1>1, <1>3, ExpireRow
    <2>2. CASE May("overlap")
      BY <1>1, <2>1, <2>2, RacePromise DEF Promise!Next
    <2> QED BY <1>1, <1>3, <2>1, <2>2, ExclusivePromise
  <1>4. ASSUME NEW w \in Workers, Commits(w)
        PROVE  [Promise!Next]_(Promise!vars)
    <2> DEFINE c == task[w].checkout
    <2>1. /\ c \in Checkouts /\ OthersKept(c)
          /\ Sells(w) \/ Awaits(w) \/ Confirms(w) \/ Reopens(w) \/ Leaves(w)
      BY <1>4, CommitRow DEF PromiseInv
    <2>2. /\ orders'[c] \in {orders[c], orders[c] + 1}
          /\ \/ redemptions' = redemptions \/ Redeem(c)
             \/ redemptions' = redemptions \ RedemptionsOf(c)
      BY <2>1 DEF Sells, Awaits, Confirms, Reopens, Leaves
    <2>3. CASE May("overlap")
      BY <1>1, <2>1, <2>2, <2>3, RacePromise DEF Promise!Next
    <2> QED BY <1>1, <1>4, <2>1, <2>3, ExclusivePromise
  <1> QED BY <1>2, <1>3, <1>4, StepEffect DEF PromiseInv

(* The checkout implements Purchase: it is sold once and for good, from    *)
(* open or confirmed only, and expires only when it is open; when sessions *)
(* overlap it is still never unsold nor over the limit of the discount.    *)
THEOREM KeepsPromiseCorrect == Spec => KeepsPromise
  <1>1. Init => Promise!Init
    BY DEF Init, Promise!Init, Stage, Sold, Opened, May
  <1>2. PromiseInv /\ [Next]_vars => [Promise!Next]_(Promise!vars)
    BY PromiseStep
  <1> QED BY <1>1, <1>2, PromiseCorrect, PTL DEF Spec, KeepsPromise, Promise!Spec

=============================================================================
