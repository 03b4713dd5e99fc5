---------------------- MODULE SubscriptionCycle_proofs ----------------------
(***************************************************************************)
(* Theorems about SubscriptionCycle, for every value of its constants.     *)
(***************************************************************************)
EXTENDS SubscriptionCycle, SequenceTheorems, FiniteSetTheorems, TLAPS

USE WorkersAssumption, IntervalAssumption, HorizonAssumption, EventsAssumption,
    EnvironmentsAssumption

-----------------------------------------------------------------------------
(* Why a renewal that waits for its order has a job: the job of a task     *)
(* waits for the flush that ends it, the queue keeps it until a worker     *)
(* takes it, and that worker has read the entry, or the entry was inserted *)
(* later by a task with a job of its own.                                  *)

Covered(i) ==
  \/ jobs > 0
  \/ \E w \in Workers : task[w].job
  \/ \E w \in Workers : task[w].kind = "order" /\ task[w].step = "read" /\ i \in task[w].bills

Waiting == {i \in DOMAIN entries : entries[i].kind = "cycle" /\ entries[i].item = NoOrder}

JobsInv ==
  /\ \A w \in Workers : task[w].job => task[w].step = "committed"
  /\ Without({"lost_job"}) => \A i \in Waiting : Covered(i)

(* Why the current period is billed: until it is, nothing has moved it, so *)
(* that whoever works on an older row still sees the same start, and the   *)
(* renewal that ends this state inserts the entry of the start it writes.  *)

Charge(e) == e.kind \in {"cycle", "debit"}

StartBilled == \E i \in DOMAIN entries : Charge(entries[i]) /\ entries[i].from = sub.start

Working(w) == task[w].kind # "order" /\ task[w].step \in {"read", "locked", "unlocked"}

Debited == Without({"seat_priced"}) \/ Without({"interval"})

BilledOK ==
  /\ ~StartBilled => sub.status \notin {"active", "past_due"} \/ sub.ended
  /\ \A w \in Workers : Working(w) =>
       /\ task[w].seen.ended => sub.ended
       /\ StartBilled \/ task[w].seen.start = sub.start

BilledInv == Debited => BilledOK

-----------------------------------------------------------------------------
(* The values of the operators.                                            *)

LEMMA UnreadType == Unread \in Row
  BY DEF Unread, Row, Dates, NoDate

LEMMA IdleType == Idle \in Task
  BY UnreadType DEF Idle, Task, Steps, Kinds

LEMMA CycledType ==
  ASSUME NEW s \in Row PROVE Cycled(s) \in Row
  <1> DEFINE status(other) == IF s.status = "trialing" THEN "active" ELSE other
  <1>0. status("canceled") \in {"active", "canceled"}
        /\ status(s.status) \in {"active", "past_due", "canceled"}
    BY DEF Row
  <1>1. CycleRevoked(s) \in Row
    <2>1. CycleRevoked(s) = [s EXCEPT !.status = status("canceled"), !.ended = TRUE,
                                      !.locked = FALSE]
      BY DEF CycleRevoked, Row
    <2> HIDE DEF status
    <2> QED BY <1>0, <2>1 DEF Row
  <1>2. CycleRenewed(s) \in Row
    <2>1. CycleRenewed(s) = [s EXCEPT !.status = status(s.status), !.start = s.end,
                                      !.end = s.end + s.interval, !.locked = FALSE]
      BY DEF CycleRenewed, Row
    <2>2. s.end \in Nat /\ s.end + s.interval \in Nat
      BY DEF Row
    <2>3. status(s.status) \in {"trialing", "active", "past_due", "canceled"}
      BY <1>0
    <2> HIDE DEF status
    <2> QED BY <2>1, <2>2, <2>3 DEF Row
  <1> QED BY <1>1, <1>2 DEF Cycled

LEMMA UpdatedType ==
  ASSUME now \in Nat, NEW s \in Row, NEW kind \in Requests, NEW date \in Nat
  PROVE  Updated(kind, s, date) \in Row
  <1>1. CancelAtPeriodEnd(s) \in Row /\ Revoke(s) \in Row
    BY DEF CancelAtPeriodEnd, Revoke, Row, Dates
  <1>2. Uncancel(s) \in Row
    BY DEF Uncancel, Row, Dates
  <1>3. EndTrialNow(s) \in Row
    BY DEF EndTrialNow, Row, Dates
  <1>4. SetTrial(s, date) \in Row
    BY DEF SetTrial, Row, Dates
  <1>5. [s EXCEPT !.end = date] \in Row
    BY DEF Row
  <1>6. UpdateProduct(s) \in Row
    BY DEF UpdateProduct, Row
  <1>7. ChangeInterval(s, date) \in Row
    <2>1. now + date \in Nat
      OBVIOUS
    <2> DEFINE end == now + date
    <2>2. ChangeInterval(s, date) = [s EXCEPT !.start = now, !.end = end, !.interval = date]
      BY DEF ChangeInterval
    <2> HIDE DEF end
    <2> QED BY <2>1, <2>2 DEF Row, end
  <1> QED BY <1>1, <1>2, <1>3, <1>4, <1>5, <1>6, <1>7, CycledType
          DEF Updated, Requests, SeatRequests, ProductRequests

LEMMA MergeType ==
  ASSUME sub \in Row, NEW new \in Row, NEW seen \in Row, NEW flagged
  PROVE  Merge(new, seen, flagged) \in Row
  BY DEF Merge, Row

LEMMA CycleEntryType ==
  ASSUME NEW s \in Row PROVE CycleEntry(s) \in Entry
  BY DEF CycleEntry, Entry, Row, NoOrder

LEMMA InsertedType ==
  ASSUME now \in Nat, NEW s \in Row, NEW kind \in Requests, NEW date \in Nat
  PROVE  Inserted(kind, s, date) \in Seq(Entry)
  <1>1. EndTrialNow(s) \in Row
    BY DEF EndTrialNow, Row, Dates
  <1>2. CycleEntry(EndTrialNow(s)) \in Entry
    BY <1>1, CycleEntryType
  <1>3. ASSUME NEW k \in {"credit", "debit", "seats"}, NEW end \in Nat
        PROVE  Proration(k, end) \in Entry
    BY DEF Proration, Entry, NoOrder
  <1>4. s.end \in Nat /\ Updated(kind, s, date).end \in Nat
    BY UpdatedType DEF Row
  <1>5. ProductProration(s, Updated(kind, s, date)) \in Seq(Entry)
    <2> HIDE DEF Updated
    <2>1. Proration("credit", s.end) \in Entry
          /\ Proration("debit", Updated(kind, s, date).end) \in Entry
      BY <1>3, <1>4
    <2> QED BY <2>1 DEF ProductProration
  <1>6. Proration("seats", s.end) \in Entry
    BY <1>3, <1>4
  <1> QED BY <1>2, <1>5, <1>6 DEF Inserted

(* Marking entries keeps their number and everything but the order item.   *)
LEMMA BilledProperties ==
  ASSUME NEW es \in Seq(Entry), NEW bills, NEW o \in Nat
  PROVE  /\ Billed(es, bills, o) \in Seq(Entry)
         /\ DOMAIN Billed(es, bills, o) = DOMAIN es
         /\ \A i \in DOMAIN es :
              /\ Billed(es, bills, o)[i].kind = es[i].kind
              /\ Billed(es, bills, o)[i].from = es[i].from
              /\ Billed(es, bills, o)[i].to = es[i].to
              /\ es[i].item # NoOrder => Billed(es, bills, o)[i].item = es[i].item
              /\ Billed(es, bills, o)[i].item = NoOrder /\ o # NoOrder =>
                   es[i].item = NoOrder /\ i \notin bills
  <1> DEFINE b == Billed(es, bills, o)
  <1>1. ASSUME NEW i \in DOMAIN es
        PROVE  /\ b[i] \in Entry /\ b[i].kind = es[i].kind /\ b[i].from = es[i].from
               /\ b[i].to = es[i].to
               /\ es[i].item # NoOrder => b[i].item = es[i].item
               /\ b[i].item = NoOrder /\ o # NoOrder =>
                    es[i].item = NoOrder /\ i \notin bills
    <2>1. es[i] \in Entry
      OBVIOUS
    <2>2. b[i] = IF i \in bills /\ es[i].item = NoOrder
                 THEN [es[i] EXCEPT !.item = o] ELSE es[i]
      BY DEF Billed
    <2> HIDE DEF b
    <2> QED BY <2>1, <2>2 DEF Entry
  <1>2. DOMAIN es = 1 .. Len(es) /\ Len(es) \in Nat
    OBVIOUS
  <1>3. b \in [1 .. Len(es) -> Entry]
    BY <1>1, <1>2 DEF Billed
  <1>4. b \in Seq(Entry)
    BY <1>2, <1>3
  <1>5. DOMAIN b = DOMAIN es
    BY DEF Billed
  <1> QED BY <1>1, <1>4, <1>5

-----------------------------------------------------------------------------
(* Type correctness.                                                       *)

LEMMA TaskType ==
  ASSUME TypeOK, NEW w \in Workers
  PROVE  /\ task[w] \in Task
         /\ task[w].seen \in Row /\ task[w].date \in Nat
         /\ task[w].bills \subseteq Nat \ {0} /\ task[w].kind \in Kinds
  BY DEF TypeOK, Task

LEMMA StepType ==
  ASSUME TypeOK, NEW w \in Workers, NEW s \in Steps, NEW b \in SUBSET (Nat \ {0}),
         NEW j \in BOOLEAN
  PROVE  [task EXCEPT ![w] = [@ EXCEPT !.step = s, !.bills = b, !.job = j]]
           \in [Workers -> Task]
  BY DEF TypeOK, Task

LEMMA IdlesType ==
  ASSUME TypeOK, NEW w \in Workers
  PROVE  [task EXCEPT ![w] = Idle] \in [Workers -> Task]
  BY IdleType DEF TypeOK

LEMMA TypeInit == Init => TypeOK
  <1> SUFFICES ASSUME Init PROVE TypeOK
    OBVIOUS
  <1>1. sub \in Row
    BY UnreadType DEF Init, Row, Dates
  <1>2. entries \in Seq(Entry) /\ orders \in Seq(SUBSET (Nat \ {0}))
    <2>1. [kind |-> "cycle", from |-> 0, to |-> Interval, item |-> 1] \in Entry
      BY DEF Entry
    <2>2. {1} \in SUBSET (Nat \ {0})
      OBVIOUS
    <2>3. <<[kind |-> "cycle", from |-> 0, to |-> Interval, item |-> 1]>> \in Seq(Entry)
      BY <2>1
    <2>4. <<{1}>> \in Seq(SUBSET (Nat \ {0}))
      BY <2>2
    <2>5. <<>> \in Seq(Entry) /\ <<>> \in Seq(SUBSET (Nat \ {0}))
      OBVIOUS
    <2>6. \/ entries = <<[kind |-> "cycle", from |-> 0, to |-> Interval, item |-> 1]>>
             /\ orders = <<{1}>>
          \/ entries = <<>> /\ orders = <<>>
      BY DEF Init
    <2> QED BY <2>3, <2>4, <2>5, <2>6
  <1> QED BY <1>1, <1>2, IdleType DEF Init, TypeOK

LEMMA SchedulerType ==
  ASSUME TypeOK, SchedulerStep \/ SchedulerCrash
  PROVE  TypeOK'
  <1>1. CASE ListDue
    BY <1>1 DEF ListDue, TypeOK
  <1>2. CASE LockDue
    <2>1. sub' \in Row
      BY <1>2 DEF LockDue, TypeOK, Row
    <2> QED BY <1>2, <2>1 DEF LockDue, TypeOK
  <1>3. CASE SendCycle
    BY <1>3 DEF SendCycle, TypeOK
  <1>4. CASE SchedulerCrash
    BY <1>4 DEF SchedulerCrash, Event, TypeOK
  <1> QED BY <1>1, <1>2, <1>3, <1>4 DEF SchedulerStep

LEMMA CycleType ==
  ASSUME TypeOK, NEW w \in Workers,
         CycleDropped(w) \/ CycleBegin(w) \/ CycleSkipped(w) \/ CycleCommit(w)
  PROVE  TypeOK'
  <1>1. CASE CycleDropped(w)
    BY <1>1 DEF CycleDropped, TypeOK
  <1>2. CASE CycleBegin(w)
    <2>1. [Idle EXCEPT !.step = "read", !.kind = "cycle", !.seen = sub] \in Task
      BY IdleType DEF Task, Steps, Kinds, TypeOK
    <2>2. task' \in [Workers -> Task]
      BY <1>2, <2>1 DEF CycleBegin, TypeOK
    <2> QED BY <1>2, <2>2 DEF CycleBegin, TypeOK
  <1>3. CASE CycleSkipped(w)
    <2>1. [task[w].seen EXCEPT !.locked = FALSE] \in Row
      BY TaskType DEF Row
    <2>2. sub' \in Row
      BY <1>3, <2>1, TaskType, MergeType DEF CycleSkipped, TypeOK
    <2>3. [task[w] EXCEPT !.step = "committed"] \in Task
      BY TaskType DEF Task, Steps
    <2>4. task' \in [Workers -> Task]
      BY <1>3, <2>3 DEF CycleSkipped, TypeOK
    <2> QED BY <1>3, <2>2, <2>4 DEF CycleSkipped, TypeOK
  <1>4. CASE CycleCommit(w)
    <2>1. sub' \in Row
      BY <1>4, TaskType, CycledType, MergeType DEF CycleCommit, TypeOK
    <2>2. entries' \in Seq(Entry)
      <3>1. CycleEntry(task[w].seen) \in Entry
        BY TaskType, CycleEntryType
      <3> QED BY <1>4, <3>1 DEF CycleCommit, TypeOK
    <2>3. [task[w] EXCEPT !.step = "committed", !.job = TRUE] \in Task
      BY TaskType DEF Task, Steps
    <2>4. task' \in [Workers -> Task]
      BY <1>4, <2>3 DEF CycleCommit, TypeOK
    <2> QED BY <1>4, <2>1, <2>2, <2>4 DEF CycleCommit, TypeOK
  <1> QED BY <1>1, <1>2, <1>3, <1>4

LEMMA OrderType ==
  ASSUME TypeOK, NEW w \in Workers, OrderBegin(w) \/ OrderCommit(w)
  PROVE  TypeOK'
  <1>1. CASE OrderBegin(w)
    <2>1. Pending \subseteq Nat \ {0}
      BY DEF Pending, TypeOK
    <2>2. [Idle EXCEPT !.step = "read", !.kind = "order", !.bills = Pending] \in Task
      BY <2>1, IdleType DEF Task, Steps, Kinds
    <2>3. task' \in [Workers -> Task]
      BY <1>1, <2>2 DEF OrderBegin, TypeOK
    <2> QED BY <1>1, <2>3 DEF OrderBegin, TypeOK
  <1>2. CASE OrderCommit(w)
    <2>1. [task[w] EXCEPT !.step = "committed"] \in Task
      BY TaskType DEF Task, Steps
    <2>2. task' \in [Workers -> Task]
      BY <1>2, <2>1 DEF OrderCommit, TypeOK
    <2>3. orders' \in Seq(SUBSET (Nat \ {0}))
      <3>1. orders' \in {orders, Append(orders, task[w].bills)}
        BY <1>2 DEF OrderCommit
      <3>2. orders \in Seq(SUBSET (Nat \ {0})) /\ task[w].bills \in SUBSET (Nat \ {0})
        BY TaskType DEF TypeOK
      <3> HIDE DEF TypeOK
      <3> QED BY <3>1, <3>2, AppendProperties
    <2>4. entries' \in Seq(Entry)
      <3>1. Len(orders) + 1 \in Nat /\ entries \in Seq(Entry)
        BY DEF TypeOK
      <3> QED BY <1>2, <3>1, BilledProperties DEF OrderCommit
    <2> QED BY <1>2, <2>2, <2>3, <2>4 DEF OrderCommit, TypeOK
  <1> QED BY <1>1, <1>2

LEMMA RequestType ==
  ASSUME TypeOK, NEW w \in Workers,
         \/ \E kind \in Requests : \E date \in Arguments(kind) : RequestBegin(w, kind, date)
         \/ RequestLock(w) \/ RequestRefused(w) \/ RequestUnlock(w) \/ RequestCommit(w)
  PROVE  TypeOK'
  <1>1. ASSUME NEW kind \in Requests, NEW date \in Arguments(kind), RequestBegin(w, kind, date)
        PROVE  TypeOK'
    <2>1. date \in Nat
      <3>1. now \in Nat
        BY DEF TypeOK
      <3>2. date \in now + 1 .. Horizon \/ date \in Intervals \/ date = 0
        BY DEF Arguments
      <3>3. CASE date \in now + 1 .. Horizon
        BY <3>1, <3>3, HorizonAssumption
      <3>4. CASE date \in Intervals
        BY <3>4, IntervalAssumption
      <3> QED BY <3>2, <3>3, <3>4
    <2>2. [Idle EXCEPT !.step = "read", !.kind = kind, !.seen = sub, !.date = date] \in Task
      BY <2>1, IdleType DEF Task, Steps, Kinds, TypeOK
    <2>3. task' \in [Workers -> Task]
      BY <1>1, <2>2 DEF RequestBegin, TypeOK
    <2>4. /\ events' = events + 1
          /\ UNCHANGED <<environment, sub, entries, orders, cycles, jobs, scheduler,
                         cycleLock, apiLock, now>>
      BY <1>1 DEF RequestBegin, Event
    <2> QED BY <2>3, <2>4 DEF TypeOK
  <1>2. CASE RequestLock(w)
    <2>1. [task[w] EXCEPT !.step = "locked"] \in Task
      BY TaskType DEF Task, Steps
    <2>2. task' \in [Workers -> Task]
      BY <1>2, <2>1 DEF RequestLock, TypeOK
    <2> QED BY <1>2, <2>2 DEF RequestLock, TypeOK
  <1>3. CASE RequestRefused(w)
    BY <1>3, IdlesType DEF RequestRefused, TypeOK
  <1>4. CASE RequestUnlock(w)
    <2> DEFINE b == IF Invoices(task[w].kind, task[w].seen) THEN Pending ELSE {}
    <2>1. b \in SUBSET (Nat \ {0})
      BY DEF Pending, TypeOK
    <2>2. [task[w] EXCEPT !.step = "unlocked", !.bills = b] \in Task
      BY <2>1, TaskType DEF Task, Steps
    <2>3. task' \in [Workers -> Task]
      BY <1>4, <2>2 DEF RequestUnlock, TypeOK
    <2> QED BY <1>4, <2>3 DEF RequestUnlock, TypeOK
  <1>5. CASE RequestCommit(w)
    <2> DEFINE kind == task[w].kind
               seen == task[w].seen
               es == entries \o Inserted(kind, seen, task[w].date)
               bills == task[w].bills \cup (Len(entries) + 1 .. Len(es))
    <2>1. kind \in Requests /\ seen \in Row /\ now \in Nat /\ task[w].date \in Nat
      BY <1>5, TaskType DEF RequestCommit, IsRequest, TypeOK
    <2>2. sub' \in Row
      <3>1. Updated(kind, seen, task[w].date) \in Row
        BY <2>1, TaskType, UpdatedType
      <3>2. \E flagged : sub' = Merge(Updated(kind, seen, task[w].date), seen, flagged)
        BY <1>5 DEF RequestCommit
      <3> QED BY <2>1, <3>1, <3>2, MergeType DEF TypeOK
    <2>3. es \in Seq(Entry)
      <3>1. Inserted(kind, seen, task[w].date) \in Seq(Entry)
        BY <2>1, InsertedType
      <3> QED BY <3>1 DEF TypeOK
    <2>4. entries' \in Seq(Entry)
      <3>1. Len(orders) + 1 \in Nat
        BY DEF TypeOK
      <3>2. entries' \in {es, Billed(es, bills, Len(orders) + 1)}
        BY <1>5 DEF RequestCommit
      <3> HIDE DEF es, bills
      <3>3. Billed(es, bills, Len(orders) + 1) \in Seq(Entry)
        BY <2>3, <3>1, BilledProperties
      <3> QED BY <2>3, <3>2, <3>3
    <2>5. bills \subseteq Nat \ {0}
      BY <2>3, TaskType DEF TypeOK
    <2>6. orders' \in Seq(SUBSET (Nat \ {0}))
      <3>1. orders' \in {orders, Append(orders, bills)}
        BY <1>5 DEF RequestCommit
      <3>2. orders \in Seq(SUBSET (Nat \ {0})) /\ bills \in SUBSET (Nat \ {0})
        BY <2>5 DEF TypeOK
      <3> HIDE DEF bills
      <3>3. Append(orders, bills) \in Seq(SUBSET (Nat \ {0}))
        BY <3>2, AppendProperties
      <3> QED BY <3>1, <3>2, <3>3
    <2>7. [task[w] EXCEPT !.step = "committed", !.job = kind = "trial_now"] \in Task
      BY TaskType DEF Task, Steps
    <2>8. task' \in [Workers -> Task]
      BY <1>5, <2>7 DEF RequestCommit, TypeOK
    <2> QED BY <1>5, <2>2, <2>4, <2>6, <2>8 DEF RequestCommit, TypeOK
  <1> QED BY <1>1, <1>2, <1>3, <1>4, <1>5

LEMMA EndType ==
  ASSUME TypeOK, NEW w \in Workers, Finish(w) \/ Crash(w)
  PROVE  TypeOK'
  <1>1. CASE Finish(w)
    BY <1>1, IdlesType DEF Finish, TypeOK
  <1>2. CASE Crash(w)
    BY <1>2, IdlesType DEF Crash, Event, TypeOK
  <1> QED BY <1>1, <1>2

LEMMA OutsideType ==
  ASSUME TypeOK,
         \/ LockExpires \/ PaymentFails \/ PaymentSucceeds \/ PaymentGivenUp \/ Tick
         \/ UNCHANGED vars
  PROVE  TypeOK'
  <1>1. CASE LockExpires
    BY <1>1 DEF LockExpires, Event, TypeOK
  <1>2. ASSUME NEW status, NEW row \in Row, Pays(status, row) PROVE TypeOK'
    BY <1>2 DEF Pays, Event, TypeOK
  <1>3. CASE PaymentFails
    <2>1. [sub EXCEPT !.status = "past_due"] \in Row
      BY DEF TypeOK, Row
    <2> QED BY <1>2, <1>3, <2>1 DEF PaymentFails
  <1>4. CASE PaymentSucceeds
    <2>1. [sub EXCEPT !.status = "active"] \in Row
      BY DEF TypeOK, Row
    <2> QED BY <1>2, <1>4, <2>1 DEF PaymentSucceeds
  <1>5. CASE PaymentGivenUp
    <2>1. Revoke(sub) \in Row
      BY DEF Revoke, TypeOK, Row, Dates
    <2> QED BY <1>2, <1>5, <2>1 DEF PaymentGivenUp
  <1>6. CASE Tick
    BY <1>6 DEF Tick, TypeOK
  <1>7. CASE UNCHANGED vars
    BY <1>7 DEF vars, TypeOK
  <1> QED BY <1>1, <1>3, <1>4, <1>5, <1>6, <1>7

LEMMA TypeStep == TypeOK /\ [Next]_vars => TypeOK'
  BY SchedulerType, CycleType, OrderType, RequestType, EndType, OutsideType
     DEF Next, Proceed

(* Every reachable state has the types TypeOK gives: no task, request or   *)
(* payment writes a status or date outside its column, and the entries and *)
(* orders stay sequences, whatever the period, the workers and the events. *)
THEOREM TypeCorrect == Spec => []TypeOK
  BY TypeInit, TypeStep, PTL DEF Spec

-----------------------------------------------------------------------------
(* A renewal that waits for its order has a job.                           *)

LEMMA JobsInit == Init => JobsInv
  <1> SUFFICES ASSUME Init PROVE JobsInv
    OBVIOUS
  <1>1. \A w \in Workers : task[w].job = FALSE
    BY DEF Init, Idle
  <1>2. Waiting = {}
    BY DEF Init, Waiting, NoOrder
  <1> QED BY <1>1, <1>2 DEF JobsInv

(* A step of one worker that leaves the entries alone.                     *)
LEMMA JobsKept ==
  ASSUME TypeOK, JobsInv, NEW w \in Workers, NEW t,
         task' = [task EXCEPT ![w] = t],
         entries' = entries, environment' = environment,
         jobs' \in Nat, jobs > 0 => jobs' > 0,
         t.job => t.step = "committed",
         task[w].job /\ Without({"lost_job"}) => t.job \/ jobs' > 0,
         task[w].kind = "order" /\ task[w].step = "read" => jobs' > 0
  PROVE  JobsInv'
  <1>1. task'[w] = t /\ \A v \in Workers : v # w => task'[v] = task[v]
    BY DEF TypeOK
  <1>2. \A v \in Workers : task'[v].job => task'[v].step = "committed"
    BY <1>1 DEF JobsInv
  <1>3. ASSUME Without({"lost_job"})', NEW i \in Waiting'
        PROVE  Covered(i)'
    <2>1. Without({"lost_job"}) /\ i \in Waiting
      BY <1>3 DEF Without, Waiting
    <2>2. Covered(i)
      BY <2>1 DEF JobsInv
    <2>3. CASE jobs > 0
      BY <2>3 DEF Covered
    <2>4. ASSUME NEW v \in Workers, task[v].job PROVE Covered(i)'
      BY <1>1, <2>1, <2>4 DEF Covered
    <2>5. ASSUME NEW v \in Workers, task[v].kind = "order", task[v].step = "read",
                 i \in task[v].bills
          PROVE  Covered(i)'
      BY <1>1, <2>5 DEF Covered
    <2> QED BY <2>2, <2>3, <2>4, <2>5 DEF Covered
  <1> QED BY <1>2, <1>3 DEF JobsInv

LEMMA JobsSame ==
  ASSUME JobsInv, UNCHANGED <<task, entries, jobs, environment>>
  PROVE  JobsInv'
  BY DEF JobsInv, Without, Waiting, Covered

LEMMA JobsOrderBegin ==
  ASSUME TypeOK, JobsInv, NEW w \in Workers, OrderBegin(w)
  PROVE  JobsInv'
  <1> DEFINE t == [Idle EXCEPT !.step = "read", !.kind = "order", !.bills = Pending]
  <1>1. /\ t.job = FALSE /\ t.kind = "order" /\ t.step = "read" /\ t.bills = Pending
    BY DEF Idle
  <1> HIDE DEF t
  <1>2. task' = [task EXCEPT ![w] = t]
    BY DEF OrderBegin, t
  <1>3. task'[w] = t /\ \A v \in Workers : v # w => task'[v] = task[v]
    BY <1>2 DEF TypeOK
  <1>4. \A v \in Workers : task'[v].job => task'[v].step = "committed"
    BY <1>1, <1>3 DEF JobsInv
  <1>5. \A i \in Waiting' : i \in Pending
    BY DEF OrderBegin, Waiting, Pending
  <1>6. \A i \in Waiting' : Covered(i)'
    BY <1>1, <1>3, <1>5 DEF Covered
  <1> QED BY <1>4, <1>6 DEF JobsInv

LEMMA JobsOrderCommit ==
  ASSUME TypeOK, JobsInv, NEW w \in Workers, OrderCommit(w)
  PROVE  JobsInv'
  <1> DEFINE t == [task[w] EXCEPT !.step = "committed"]
  <1>1. t.job = task[w].job /\ t.step = "committed" /\ task[w].step = "read"
    BY TaskType DEF Task, OrderCommit
  <1>2. ~ task[w].job
    BY <1>1 DEF JobsInv
  <1> HIDE DEF t
  <1>3. task' = [task EXCEPT ![w] = t] /\ jobs' = jobs /\ environment' = environment
    BY DEF OrderCommit, t
  <1>4. task'[w] = t /\ \A v \in Workers : v # w => task'[v] = task[v]
    BY <1>3 DEF TypeOK
  <1>5. \A v \in Workers : task'[v].job => task'[v].step = "committed"
    BY <1>1, <1>4 DEF JobsInv
  <1>6. ASSUME NEW i \in Waiting' PROVE i \in Waiting /\ i \notin task[w].bills
    <2>1. CASE task[w].bills = {}
      BY <2>1 DEF OrderCommit, Waiting
    <2>2. CASE task[w].bills # {}
      <3> DEFINE o == Len(orders) + 1
      <3>1. o \in Nat /\ o # NoOrder /\ entries \in Seq(Entry)
        BY DEF TypeOK, NoOrder
      <3>2. entries' = Billed(entries, task[w].bills, o)
        BY <2>2 DEF OrderCommit
      <3> HIDE DEF o
      <3>3. DOMAIN entries' = DOMAIN entries
            /\ \A j \in DOMAIN entries :
                 /\ entries'[j].kind = entries[j].kind
                 /\ entries'[j].item = NoOrder =>
                      entries[j].item = NoOrder /\ j \notin task[w].bills
        BY <3>1, <3>2, BilledProperties
      <3> QED BY <3>3 DEF Waiting
    <2> QED BY <2>1, <2>2
  <1>7. ASSUME Without({"lost_job"})', NEW i \in Waiting' PROVE Covered(i)'
    <2>1. Covered(i)
      BY <1>3, <1>6, <1>7 DEF JobsInv, Without
    <2> QED BY <1>2, <1>3, <1>4, <1>6, <2>1 DEF Covered
  <1> QED BY <1>5, <1>7 DEF JobsInv

LEMMA JobsCycleCommit ==
  ASSUME TypeOK, JobsInv, NEW w \in Workers, CycleCommit(w)
  PROVE  JobsInv'
  <1> DEFINE t == [task[w] EXCEPT !.step = "committed", !.job = TRUE]
  <1>1. t.job = TRUE /\ t.step = "committed"
    BY TaskType DEF Task
  <1> HIDE DEF t
  <1>2. task' = [task EXCEPT ![w] = t]
    BY DEF CycleCommit, t
  <1>3. task'[w] = t /\ \A v \in Workers : v # w => task'[v] = task[v]
    BY <1>2 DEF TypeOK
  <1> QED BY <1>1, <1>3 DEF JobsInv, Covered

(* A request inserts a renewal only with a job.                            *)
LEMMA InsertedProration ==
  ASSUME NEW s, NEW kind \in Requests, kind # "trial_now", NEW date,
         NEW i \in DOMAIN Inserted(kind, s, date)
  PROVE  Inserted(kind, s, date)[i].kind # "cycle"
  <1> DEFINE new == Updated(kind, s, date)
  <1>1. /\ Proration("credit", s.end).kind = "credit"
        /\ Proration("debit", new.end).kind = "debit"
        /\ Proration("seats", s.end).kind = "seats"
    BY DEF Proration
  <1>2. Inserted(kind, s, date) \in
          {<<>>, <<Proration("credit", s.end), Proration("debit", new.end)>>,
           <<Proration("seats", s.end)>>}
    BY DEF Inserted, ProductProration
  <1> HIDE DEF new
  <1> QED BY <1>1, <1>2

(* What a request leaves of the entries: those that were there, with their *)
(* period, and at their end those it inserts.                              *)
LEMMA RequestEntries ==
  ASSUME TypeOK, NEW w \in Workers, RequestCommit(w)
  PROVE  LET ins == Inserted(task[w].kind, task[w].seen, task[w].date)
             es == entries \o ins
         IN /\ DOMAIN entries' = DOMAIN es
            /\ DOMAIN es = 1 .. Len(entries) + Len(ins)
            /\ DOMAIN entries = 1 .. Len(entries)
            /\ \A i \in DOMAIN entries : es[i] = entries[i]
            /\ \A i \in DOMAIN ins : es[Len(entries) + i] = ins[i]
            /\ \A i \in DOMAIN es : i \notin DOMAIN entries =>
                 i - Len(entries) \in DOMAIN ins /\ es[i] = ins[i - Len(entries)]
            /\ \A i \in DOMAIN es :
                 /\ entries'[i].kind = es[i].kind
                 /\ entries'[i].from = es[i].from
                 /\ entries'[i].to = es[i].to
                 /\ entries'[i].item = NoOrder => es[i].item = NoOrder
            /\ ~Invoices(task[w].kind, task[w].seen) => entries' = es
  <1> DEFINE ins == Inserted(task[w].kind, task[w].seen, task[w].date)
             es == entries \o ins
             bills == task[w].bills \cup (Len(entries) + 1 .. Len(es))
             o == Len(orders) + 1
  <1>1. /\ task[w].kind \in Requests /\ task[w].seen \in Row
        /\ task[w].date \in Nat /\ now \in Nat
    BY TaskType DEF RequestCommit, IsRequest, TypeOK
  <1>2. ins \in Seq(Entry) /\ entries \in Seq(Entry)
    BY <1>1, InsertedType DEF TypeOK
  <1>3. o \in Nat /\ o # NoOrder
    BY DEF TypeOK, NoOrder
  <1>4. /\ entries' = es \/ entries' = Billed(es, bills, o)
        /\ ~Invoices(task[w].kind, task[w].seen) => entries' = es
    BY DEF RequestCommit
  <1> HIDE DEF ins, bills, o
  <1>5. /\ es \in Seq(Entry)
        /\ DOMAIN es = 1 .. Len(entries) + Len(ins)
        /\ DOMAIN entries = 1 .. Len(entries)
        /\ DOMAIN ins = 1 .. Len(ins)
        /\ Len(entries) \in Nat /\ Len(ins) \in Nat
        /\ \A i \in DOMAIN entries : es[i] = entries[i]
        /\ \A i \in DOMAIN ins : es[Len(entries) + i] = ins[i]
    BY <1>2
  <1>6. ASSUME NEW i \in DOMAIN es, i \notin DOMAIN entries
        PROVE  i - Len(entries) \in DOMAIN ins /\ es[i] = ins[i - Len(entries)]
    <2> HIDE DEF es
    <2>1. i - Len(entries) \in DOMAIN ins /\ i = Len(entries) + (i - Len(entries))
      BY <1>5, <1>6
    <2> QED BY <1>5, <2>1
  <1> HIDE DEF es
  <1>7. /\ DOMAIN entries' = DOMAIN es
        /\ \A i \in DOMAIN es :
             /\ entries'[i].kind = es[i].kind
             /\ entries'[i].from = es[i].from
             /\ entries'[i].to = es[i].to
             /\ entries'[i].item = NoOrder => es[i].item = NoOrder
    BY <1>3, <1>4, <1>5, BilledProperties
  <1> QED BY <1>4, <1>5, <1>6, <1>7 DEF ins, es

LEMMA JobsRequestCommit ==
  ASSUME TypeOK, JobsInv, NEW w \in Workers, RequestCommit(w)
  PROVE  JobsInv'
  <1> DEFINE t == [task[w] EXCEPT !.step = "committed", !.job = task[w].kind = "trial_now"]
             ins == Inserted(task[w].kind, task[w].seen, task[w].date)
             es == entries \o ins
  <1>1. /\ t.job = (task[w].kind = "trial_now") /\ t.step = "committed"
        /\ task[w].step = "unlocked" /\ task[w].kind \in Requests
    BY TaskType DEF Task, RequestCommit, IsRequest
  <1>2. ~ task[w].job
    BY <1>1 DEF JobsInv
  <1> HIDE DEF t
  <1>3. task' = [task EXCEPT ![w] = t] /\ jobs' = jobs /\ environment' = environment
    BY DEF RequestCommit, t
  <1>4. task'[w] = t /\ \A v \in Workers : v # w => task'[v] = task[v]
    BY <1>3 DEF TypeOK
  <1>5. \A v \in Workers : task'[v].job => task'[v].step = "committed"
    BY <1>1, <1>4 DEF JobsInv
  <1>6. CASE task[w].kind = "trial_now"
    BY <1>1, <1>4, <1>5, <1>6 DEF JobsInv, Covered
  <1>7. CASE task[w].kind # "trial_now"
    <2>1. ASSUME NEW i \in Waiting' PROVE i \in Waiting
      <3>1. /\ DOMAIN entries' = DOMAIN es
            /\ \A j \in DOMAIN entries : es[j] = entries[j]
            /\ \A j \in DOMAIN es : j \notin DOMAIN entries =>
                 j - Len(entries) \in DOMAIN ins /\ es[j] = ins[j - Len(entries)]
            /\ \A j \in DOMAIN es :
                 /\ entries'[j].kind = es[j].kind
                 /\ entries'[j].item = NoOrder => es[j].item = NoOrder
        BY RequestEntries
      <3>2. \A j \in DOMAIN ins : ins[j].kind # "cycle"
        BY <1>1, <1>7, InsertedProration
      <3> HIDE DEF es, ins
      <3>3. i \in DOMAIN es /\ es[i].kind = "cycle" /\ es[i].item = NoOrder
        BY <3>1 DEF Waiting
      <3> QED BY <3>1, <3>2, <3>3 DEF Waiting
    <2>2. ASSUME Without({"lost_job"})', NEW i \in Waiting' PROVE Covered(i)'
      <3>1. Covered(i)
        BY <1>3, <2>1, <2>2 DEF JobsInv, Without
      <3>2. task[w].kind # "order"
        BY <1>1 DEF Requests, SeatRequests, ProductRequests
      <3> QED BY <1>2, <1>3, <1>4, <3>1, <3>2 DEF Covered
    <2> QED BY <1>5, <2>2 DEF JobsInv
  <1> QED BY <1>6, <1>7

LEMMA JobsWorker ==
  ASSUME TypeOK, JobsInv, NEW w \in Workers,
         \/ CycleBegin(w) \/ CycleSkipped(w)
         \/ \E kind \in Requests : \E date \in Arguments(kind) : RequestBegin(w, kind, date)
         \/ RequestLock(w) \/ RequestRefused(w) \/ RequestUnlock(w)
         \/ Finish(w) \/ Crash(w)
  PROVE  JobsInv'
  <1>1. task[w] \in Task /\ jobs \in Nat
    BY TaskType DEF TypeOK
  <1>2. task[w].job => task[w].step = "committed"
    BY DEF JobsInv
  <1>3. Idle.job = FALSE
    BY DEF Idle
  <1>4. CASE CycleBegin(w)
    <2> DEFINE t == [Idle EXCEPT !.step = "read", !.kind = "cycle", !.seen = sub]
    <2>1. t.job = FALSE
      BY DEF Idle
    <2> HIDE DEF t
    <2>2. /\ task' = [task EXCEPT ![w] = t] /\ task[w].step = "idle"
          /\ entries' = entries /\ environment' = environment /\ jobs' = jobs
      BY <1>4 DEF CycleBegin, t
    <2> QED BY <1>1, <1>2, <2>1, <2>2, JobsKept
  <1>5. CASE CycleSkipped(w)
    <2> DEFINE t == [task[w] EXCEPT !.step = "committed"]
    <2>1. t.job = task[w].job /\ t.step = "committed"
      BY <1>1 DEF Task
    <2> HIDE DEF t
    <2>2. /\ task' = [task EXCEPT ![w] = t] /\ task[w].step = "read" /\ task[w].kind = "cycle"
          /\ entries' = entries /\ environment' = environment /\ jobs' = jobs
      BY <1>5 DEF CycleSkipped, Cycling, t
    <2> QED BY <1>1, <1>2, <2>1, <2>2, JobsKept
  <1>6. ASSUME NEW kind \in Requests, NEW date, RequestBegin(w, kind, date)
        PROVE  JobsInv'
    <2> DEFINE t == [Idle EXCEPT !.step = "read", !.kind = kind, !.seen = sub, !.date = date]
    <2>1. t.job = FALSE
      BY DEF Idle
    <2> HIDE DEF t
    <2>2. /\ task' = [task EXCEPT ![w] = t] /\ task[w].step = "idle"
          /\ entries' = entries /\ environment' = environment /\ jobs' = jobs
      BY <1>6 DEF RequestBegin, t
    <2> QED BY <1>1, <1>2, <2>1, <2>2, JobsKept
  <1>7. CASE RequestLock(w)
    <2> DEFINE t == [task[w] EXCEPT !.step = "locked"]
    <2>1. t.job = task[w].job
      BY <1>1 DEF Task
    <2> HIDE DEF t
    <2>2. /\ task' = [task EXCEPT ![w] = t] /\ task[w].step = "read" /\ task[w].kind # "order"
          /\ entries' = entries /\ environment' = environment /\ jobs' = jobs
      BY <1>7 DEF RequestLock, IsRequest, Requests, SeatRequests, ProductRequests, t
    <2> QED BY <1>1, <1>2, <2>1, <2>2, JobsKept
  <1>8. CASE RequestRefused(w)
    <2>1. /\ task' = [task EXCEPT ![w] = Idle] /\ task[w].step # "committed"
          /\ task[w].kind # "order"
          /\ entries' = entries /\ environment' = environment /\ jobs' = jobs
      BY <1>8 DEF RequestRefused, IsRequest, Requests, SeatRequests, ProductRequests
    <2> QED BY <1>1, <1>2, <1>3, <2>1, JobsKept
  <1>9. CASE RequestUnlock(w)
    <2> DEFINE b == IF Invoices(task[w].kind, task[w].seen) THEN Pending ELSE {}
               t == [task[w] EXCEPT !.step = "unlocked", !.bills = b]
    <2>1. t.job = task[w].job
      BY <1>1 DEF Task
    <2> HIDE DEF t
    <2>2. /\ task' = [task EXCEPT ![w] = t] /\ task[w].step = "locked"
          /\ entries' = entries /\ environment' = environment /\ jobs' = jobs
      BY <1>9 DEF RequestUnlock, t
    <2> QED BY <1>1, <1>2, <2>1, <2>2, JobsKept
  <1>10. CASE Finish(w)
    <2>1. /\ task' = [task EXCEPT ![w] = Idle] /\ task[w].step = "committed"
          /\ entries' = entries /\ environment' = environment
          /\ jobs' = IF task[w].job THEN jobs + 1 ELSE jobs
      BY <1>10 DEF Finish
    <2>2. /\ jobs' \in Nat
          /\ jobs > 0 => jobs' > 0
          /\ task[w].job => jobs' > 0
          /\ task[w].step # "read"
      BY <1>1, <2>1
    <2>3. Idle.job => Idle.step = "committed"
      BY <1>3
    <2> QED BY <2>1, <2>2, <2>3, JobsKept
  <1>11. CASE Crash(w)
    <2>1. /\ task' = [task EXCEPT ![w] = Idle]
          /\ entries' = entries /\ environment' = environment
          /\ jobs' = IF task[w].kind = "order" THEN jobs + 1 ELSE jobs
          /\ task[w].job => ~ Without({"lost_job"})
      BY <1>11 DEF Crash, Without
    <2>2. /\ jobs' \in Nat
          /\ jobs > 0 => jobs' > 0
          /\ task[w].kind = "order" => jobs' > 0
      BY <1>1, <2>1
    <2>3. Idle.job => Idle.step = "committed"
      BY <1>3
    <2> QED BY <2>1, <2>2, <2>3, JobsKept
  <1> QED BY <1>4, <1>5, <1>6, <1>7, <1>8, <1>9, <1>10, <1>11

LEMMA JobsStep == TypeOK /\ JobsInv /\ [Next]_vars => JobsInv'
  <1> SUFFICES ASSUME TypeOK, JobsInv, [Next]_vars PROVE JobsInv'
    OBVIOUS
  <1>1. ASSUME \/ SchedulerStep \/ SchedulerCrash \/ LockExpires
               \/ PaymentFails \/ PaymentSucceeds \/ PaymentGivenUp \/ Tick
               \/ UNCHANGED vars \/ \E w \in Workers : CycleDropped(w)
        PROVE  JobsInv'
    <2>1. UNCHANGED <<task, entries, jobs, environment>>
      BY <1>1 DEF SchedulerStep, ListDue, LockDue, SendCycle, SchedulerCrash, LockExpires,
         PaymentFails, PaymentSucceeds, PaymentGivenUp, Pays, Tick, CycleDropped, vars
    <2> QED BY <2>1, JobsSame
  <1>2. ASSUME NEW w \in Workers,
               CycleBegin(w) \/ OrderBegin(w) \/ Proceed(w) \/ Crash(w)
               \/ \E kind \in Requests : \E date \in Arguments(kind) : RequestBegin(w, kind, date)
        PROVE  JobsInv'
    BY <1>2, JobsWorker, JobsOrderBegin, JobsOrderCommit, JobsCycleCommit, JobsRequestCommit
       DEF Proceed
  <1> QED BY <1>1, <1>2 DEF Next

(* Unless a process dies between a commit and the flush of its jobs, a     *)
(* renewal that no order bills yet has its job in the queue, in a task     *)
(* that ends or in one that works: no interleaving, redelivery or request  *)
(* loses an order.                                                         *)
THEOREM PendingHasJobCorrect == Spec => []PendingHasJob
  <1>1. JobsInv => PendingHasJob
    <2> SUFFICES ASSUME JobsInv, Without({"lost_job"}), NEW i \in CycleEntries,
                        entries[i].item = NoOrder
                 PROVE  \/ jobs > 0
                        \/ \E w \in Workers : task[w].job
                        \/ \E w \in Workers : task[w].kind = "order" /\ task[w].step = "read"
      BY DEF PendingHasJob
    <2>1. i \in Waiting
      BY DEF CycleEntries, Waiting
    <2> QED BY <2>1 DEF JobsInv, Covered
  <1> QED BY JobsInit, JobsStep, TypeCorrect, <1>1, PTL DEF Spec

-----------------------------------------------------------------------------
(* What each step makes of the task of its worker and leaves of the others.*)

LEMMA EnvironmentKept == [Next]_vars => environment' = environment
  BY DEF Next, Proceed, vars, SchedulerStep, ListDue, LockDue, SendCycle, SchedulerCrash,
     CycleDropped, CycleBegin, CycleSkipped, CycleCommit, LockExpires, OrderBegin, OrderCommit,
     RequestBegin, RequestLock, RequestRefused, RequestUnlock, RequestCommit, Finish, Crash,
     PaymentFails, PaymentSucceeds, PaymentGivenUp, Pays, Tick

Others(w) == \A v \in Workers : v # w => task'[v] = task[v]

LEMMA CycleBegins ==
  ASSUME TypeOK, NEW w \in Workers, CycleBegin(w)
  PROVE  /\ Others(w) /\ task[w].step = "idle"
         /\ task'[w].step = "read" /\ task'[w].kind = "cycle" /\ task'[w].seen = sub
         /\ task'[w].job = FALSE
  BY DEF CycleBegin, Others, Idle, TypeOK

LEMMA RequestBegins ==
  ASSUME TypeOK, NEW w \in Workers, NEW kind, NEW date, RequestBegin(w, kind, date)
  PROVE  /\ Others(w) /\ task[w].step = "idle"
         /\ task'[w].step = "read" /\ task'[w].kind = kind /\ task'[w].seen = sub
         /\ task'[w].date = date /\ task'[w].job = FALSE
  BY DEF RequestBegin, Others, Idle, TypeOK

LEMMA OrderBegins ==
  ASSUME TypeOK, NEW w \in Workers, OrderBegin(w)
  PROVE  /\ Others(w) /\ task[w].step = "idle"
         /\ task'[w].step = "read" /\ task'[w].kind = "order" /\ task'[w].bills = Pending
         /\ task'[w].job = FALSE
  BY DEF OrderBegin, Others, Idle, TypeOK

LEMMA RequestGoesOn ==
  ASSUME TypeOK, NEW w \in Workers, RequestLock(w) \/ RequestUnlock(w)
  PROVE  /\ Others(w) /\ IsRequest(w) /\ task[w].step \in {"read", "locked"}
         /\ task'[w].step \in {"locked", "unlocked"} /\ task'[w].kind = task[w].kind
         /\ task'[w].seen = task[w].seen /\ task'[w].date = task[w].date
         /\ task'[w].job = task[w].job
  <1>1. CASE RequestLock(w)
    <2>1. task' = [task EXCEPT ![w] = [task[w] EXCEPT !.step = "locked"]]
      BY <1>1 DEF RequestLock
    <2>2. IsRequest(w) /\ task[w].step = "read"
      BY <1>1 DEF RequestLock
    <2> QED BY <2>1, <2>2, TaskType DEF Others, TypeOK, Task
  <1>2. CASE RequestUnlock(w)
    <2> DEFINE b == IF Invoices(task[w].kind, task[w].seen) THEN Pending ELSE {}
    <2>1. task' = [task EXCEPT ![w] = [task[w] EXCEPT !.step = "unlocked", !.bills = b]]
      BY <1>2 DEF RequestUnlock
    <2>2. IsRequest(w) /\ task[w].step = "locked"
      BY <1>2 DEF RequestUnlock
    <2> HIDE DEF b
    <2> QED BY <2>1, <2>2, TaskType DEF Others, TypeOK, Task
  <1> QED BY <1>1, <1>2

LEMMA WorkerCommits ==
  ASSUME TypeOK, NEW w \in Workers,
         CycleSkipped(w) \/ CycleCommit(w) \/ OrderCommit(w) \/ RequestCommit(w)
  PROVE  /\ Others(w) /\ task[w].step \in {"read", "unlocked"}
         /\ task'[w].step = "committed" /\ task'[w].kind = task[w].kind
         /\ task'[w].job \in {task[w].job, CycleCommit(w), task[w].kind = "trial_now"}
         /\ CycleSkipped(w) \/ OrderCommit(w) => task'[w].job = task[w].job
         /\ RequestCommit(w) => task'[w].job = (task[w].kind = "trial_now")
  <1>1. ASSUME NEW j \in BOOLEAN, task' = [task EXCEPT ![w] = [@ EXCEPT !.step = "committed", !.job = j]]
        PROVE  /\ Others(w)
               /\ task'[w].step = "committed" /\ task'[w].kind = task[w].kind
               /\ task'[w].job = j
    BY <1>1, TaskType DEF Others, TypeOK, Task
  <1>2. CASE CycleSkipped(w) \/ OrderCommit(w)
    <2>1. task' = [task EXCEPT ![w] = [task[w] EXCEPT !.step = "committed"]]
      BY <1>2 DEF CycleSkipped, OrderCommit
    <2>2. task[w].step = "read"
      BY <1>2 DEF CycleSkipped, Cycling, OrderCommit
    <2>3. ~RequestCommit(w)
      BY <2>2 DEF RequestCommit
    <2> QED BY <2>1, <2>2, <2>3, TaskType DEF Others, TypeOK, Task
  <1>3. CASE CycleCommit(w)
    <2>1. task' = [task EXCEPT ![w] = [@ EXCEPT !.step = "committed", !.job = TRUE]]
      BY <1>3 DEF CycleCommit
    <2>2. task[w].step = "read" /\ task[w].kind = "cycle" /\ Due(task[w].seen)
      BY <1>3 DEF CycleCommit, Cycling
    <2>3. ~RequestCommit(w) /\ ~CycleSkipped(w) /\ ~OrderCommit(w)
      BY <2>2 DEF RequestCommit, CycleSkipped, OrderCommit
    <2> QED BY <1>1, <1>3, <2>1, <2>2, <2>3
  <1>4. CASE RequestCommit(w)
    <2>1. task' = [task EXCEPT ![w] = [@ EXCEPT !.step = "committed",
                                               !.job = task[w].kind = "trial_now"]]
      BY <1>4 DEF RequestCommit
    <2>2. task[w].step = "unlocked"
      BY <1>4 DEF RequestCommit
    <2>3. ~CycleCommit(w) /\ ~CycleSkipped(w) /\ ~OrderCommit(w)
      BY <2>2 DEF CycleCommit, CycleSkipped, Cycling, OrderCommit
    <2> QED BY <1>1, <2>1, <2>2, <2>3
  <1> QED BY <1>2, <1>3, <1>4

LEMMA WorkerEnds ==
  ASSUME TypeOK, NEW w \in Workers, RequestRefused(w) \/ Finish(w) \/ Crash(w)
  PROVE  /\ Others(w) /\ task'[w] = Idle
         /\ task'[w].step = "idle" /\ task'[w].kind = "cycle" /\ task'[w].job = FALSE
  <1>1. task' = [task EXCEPT ![w] = Idle]
    BY DEF RequestRefused, Finish, Crash
  <1>2. Idle.step = "idle" /\ Idle.kind = "cycle" /\ Idle.job = FALSE
    BY DEF Idle
  <1>3. task'[w] = Idle /\ Others(w)
    BY <1>1 DEF Others, TypeOK
  <1> QED BY <1>2, <1>3

(* What a commit writes of the columns that decide about periods.          *)
LEMMA MergedFields ==
  ASSUME TypeOK, NEW new, NEW seen, NEW flagged, sub' = Merge(new, seen, flagged)
  PROVE  /\ sub'.start = IF new.start = seen.start /\ "start" \notin flagged
                         THEN sub.start ELSE new.start
         /\ sub'.end = IF new.end = seen.end /\ "end" \notin flagged
                       THEN sub.end ELSE new.end
         /\ sub'.status = IF new.status = seen.status /\ "status" \notin flagged
                          THEN sub.status ELSE new.status
         /\ sub'.cancel = IF new.cancel = seen.cancel /\ "cancel" \notin flagged
                          THEN sub.cancel ELSE new.cancel
         /\ sub'.ended = IF new.ended = seen.ended /\ "ended" \notin flagged
                         THEN sub.ended ELSE new.ended
         /\ sub'.locked = IF new.locked = seen.locked /\ "locked" \notin flagged
                          THEN sub.locked ELSE new.locked
         /\ sub'.interval = IF new.interval = seen.interval /\ "interval" \notin flagged
                            THEN sub.interval ELSE new.interval
  <1>1. DOMAIN sub = {"status", "cancel", "endsAt", "ended", "start", "end", "interval",
                "trialEnd", "locked"}
    BY DEF TypeOK, Row
  <1> QED BY <1>1 DEF Merge

(* Neither the lock of a cycle task nor the request of a task is anybody   *)
(* else's.                                                                 *)

Cycler(w) == task[w].kind = "cycle" /\ task[w].step # "idle"

LockInv == Without({"lock_expires"}) => \A w \in Workers : Cycler(w) => cycleLock = w

RequestInv ==
  \A w \in Workers : IsRequest(w) /\ Working(w) =>
    /\ task[w].kind \in environment
    /\ Accepted(task[w].kind, task[w].seen, task[w].date)

LEMMA LockStep == TypeOK /\ LockInv /\ [Next]_vars => LockInv'
  <1> SUFFICES ASSUME TypeOK, LockInv, [Next]_vars, Without({"lock_expires"})',
                      NEW v \in Workers, Cycler(v)'
               PROVE  cycleLock' = v
    BY DEF LockInv
  <1>1. Without({"lock_expires"}) => \A w \in Workers : Cycler(w) => cycleLock = w
    BY DEF LockInv
  <1>2. environment' = environment
    BY DEF Next, Proceed, vars, SchedulerStep, ListDue, LockDue, SendCycle, SchedulerCrash,
       CycleDropped, CycleBegin, CycleSkipped, CycleCommit, LockExpires, OrderBegin, OrderCommit,
       RequestBegin, RequestLock, RequestRefused, RequestUnlock, RequestCommit, Finish, Crash,
       PaymentFails, PaymentSucceeds, PaymentGivenUp, Pays, Tick
  <1>3. Without({"lock_expires"}) /\ ~LockExpires
    BY <1>2 DEF Without, LockExpires
  <1>4. Cycler(v) => cycleLock = v
    BY <1>1, <1>3
  <1>5. CASE \/ SchedulerStep \/ SchedulerCrash
             \/ PaymentFails \/ PaymentSucceeds \/ PaymentGivenUp \/ Tick
             \/ UNCHANGED vars \/ \E w \in Workers : CycleDropped(w)
    <2>1. task' = task /\ cycleLock' = cycleLock
      BY <1>5 DEF SchedulerStep, ListDue, LockDue, SendCycle, SchedulerCrash, PaymentFails,
         PaymentSucceeds, PaymentGivenUp, Pays, Tick, CycleDropped, vars
    <2> QED BY <1>4, <2>1 DEF Cycler
  <1>6. ASSUME NEW w \in Workers, CycleBegin(w) PROVE cycleLock' = v
    <2>1. cycleLock = Nobody /\ cycleLock' = w
      BY <1>6 DEF CycleBegin
    <2>2. v = w \/ Cycler(v)
      BY <1>6, CycleBegins DEF Others, Cycler
    <2> QED BY <1>4, <2>1, <2>2
  <1>7. ASSUME NEW w \in Workers, OrderBegin(w)
               \/ \E kind \in Requests : \E date \in Arguments(kind) : RequestBegin(w, kind, date)
        PROVE  cycleLock' = v
    <2>1. cycleLock' = cycleLock
      BY <1>7 DEF OrderBegin, RequestBegin
    <2>2. Others(w) /\ task'[w].kind # "cycle"
      BY <1>7, OrderBegins, RequestBegins DEF Requests, SeatRequests, ProductRequests
    <2> QED BY <1>4, <2>1, <2>2 DEF Others, Cycler
  <1>8. ASSUME NEW w \in Workers,
               \/ RequestLock(w) \/ RequestUnlock(w)
               \/ CycleSkipped(w) \/ CycleCommit(w) \/ OrderCommit(w) \/ RequestCommit(w)
        PROVE  cycleLock' = v
    <2>1. cycleLock' = cycleLock
      BY <1>8 DEF RequestLock, RequestUnlock, CycleSkipped, CycleCommit, OrderCommit, RequestCommit
    <2>2. Others(w) /\ task'[w].kind = task[w].kind /\ task[w].step # "idle"
      BY <1>8, RequestGoesOn, WorkerCommits
    <2> QED BY <1>4, <2>1, <2>2 DEF Others, Cycler
  <1>9. ASSUME NEW w \in Workers, RequestRefused(w) \/ Finish(w) \/ Crash(w)
        PROVE  cycleLock' = v
    <2>1. cycleLock' = cycleLock \/ cycleLock = w
      BY <1>9 DEF RequestRefused, Finish, Crash
    <2>2. v # w /\ task'[v] = task[v]
      BY <1>9, WorkerEnds DEF Others, Cycler
    <2> QED BY <1>4, <2>1, <2>2 DEF Cycler
  <1> QED BY <1>3, <1>5, <1>6, <1>7, <1>8, <1>9 DEF Next, Proceed

LEMMA RequestStep == TypeOK /\ RequestInv /\ [Next]_vars => RequestInv'
  <1> SUFFICES ASSUME TypeOK, RequestInv, [Next]_vars,
                      NEW v \in Workers, IsRequest(v)', Working(v)'
               PROVE  /\ task'[v].kind \in environment'
                      /\ Accepted(task'[v].kind, task'[v].seen, task'[v].date)
    BY EnvironmentKept DEF RequestInv, Accepted, MayCancel, MayRevoke, MayUncancel, MaySetTrial,
       MayExtend, MayUpdateSeats, MayUpdateProduct, Billable, Active, SeatPriced
  <1>1. environment' = environment
    BY EnvironmentKept
  <1>2. ASSUME IsRequest(v), Working(v), task'[v].kind = task[v].kind,
               task'[v].seen = task[v].seen, task'[v].date = task[v].date
        PROVE  /\ task'[v].kind \in environment'
               /\ Accepted(task'[v].kind, task'[v].seen, task'[v].date)
    BY <1>1, <1>2 DEF RequestInv
  <1>3. task'[v] = task[v] => IsRequest(v) /\ Working(v)
    BY DEF IsRequest, Working
  <1>4. CASE task' = task
    BY <1>2, <1>3, <1>4
  <1>5. ASSUME NEW w \in Workers, Others(w), task'[w].kind \notin Requests \/ task'[w].step = "idle"
                                             \/ task'[w].step = "committed"
        PROVE  /\ task'[v].kind \in environment'
               /\ Accepted(task'[v].kind, task'[v].seen, task'[v].date)
    <2>1. v # w
      BY <1>5 DEF IsRequest, Working
    <2> QED BY <1>2, <1>3, <1>5, <2>1 DEF Others
  <1>6. ASSUME NEW w \in Workers, RequestLock(w) \/ RequestUnlock(w)
        PROVE  /\ task'[v].kind \in environment'
               /\ Accepted(task'[v].kind, task'[v].seen, task'[v].date)
    <2>1. CASE v = w
      <3>1. IsRequest(v) /\ Working(v)
        BY <1>6, <2>1, RequestGoesOn DEF Working, IsRequest, Requests, SeatRequests,
           ProductRequests
      <3> QED BY <1>2, <1>6, <2>1, <3>1, RequestGoesOn
    <2>2. CASE v # w
      BY <1>2, <1>3, <1>6, <2>2, RequestGoesOn DEF Others
    <2> QED BY <2>1, <2>2
  <1>7. ASSUME NEW w \in Workers, NEW kind \in Requests, NEW date, RequestBegin(w, kind, date)
        PROVE  /\ task'[v].kind \in environment'
               /\ Accepted(task'[v].kind, task'[v].seen, task'[v].date)
    <2>1. CASE v = w
      <3>1. kind \in environment /\ Accepted(kind, sub, date)
        BY <1>7 DEF RequestBegin
      <3>2. task'[v].kind = kind /\ task'[v].seen = sub /\ task'[v].date = date
        BY ZenonT(60), <1>7, <2>1, RequestBegins
      <3> QED BY <1>1, <3>1, <3>2
    <2>2. CASE v # w
      BY <1>2, <1>3, <1>7, <2>2, RequestBegins DEF Others
    <2> QED BY <2>1, <2>2
  <1>8. CASE \/ SchedulerStep \/ SchedulerCrash \/ LockExpires
             \/ PaymentFails \/ PaymentSucceeds \/ PaymentGivenUp \/ Tick
             \/ UNCHANGED vars \/ \E w \in Workers : CycleDropped(w)
    <2>1. task' = task
      BY <1>8 DEF SchedulerStep, ListDue, LockDue, SendCycle, SchedulerCrash, PaymentFails,
         PaymentSucceeds, PaymentGivenUp, Pays, Tick, CycleDropped, LockExpires, vars
    <2> QED BY <1>4, <2>1
  <1>9. ASSUME NEW w \in Workers,
               \/ CycleBegin(w) \/ OrderBegin(w)
               \/ CycleSkipped(w) \/ CycleCommit(w) \/ OrderCommit(w) \/ RequestCommit(w)
               \/ RequestRefused(w) \/ Finish(w) \/ Crash(w)
        PROVE  /\ task'[v].kind \in environment'
               /\ Accepted(task'[v].kind, task'[v].seen, task'[v].date)
    <2>1. Others(w) /\ (task'[w].kind \notin Requests \/ task'[w].step \in {"idle", "committed"})
      BY <1>9, CycleBegins, OrderBegins, WorkerCommits, WorkerEnds
         DEF Requests, SeatRequests, ProductRequests
    <2> QED BY <1>5, <2>1
  <1> QED BY <1>6, <1>7, <1>8, <1>9 DEF Next, Proceed

-----------------------------------------------------------------------------
(* The current period of an active subscription is billed.                 *)

LEMMA BilledInit == Init => BilledOK
  <1> SUFFICES ASSUME Init PROVE BilledOK
    OBVIOUS
  <1>1. \A w \in Workers : ~ Working(w)
    BY DEF Init, Idle, Working
  <1>2. CASE entries = <<[kind |-> "cycle", from |-> 0, to |-> Interval, item |-> 1]>>
             /\ sub = [Unread EXCEPT !.end = Interval]
    <2>1. 1 \in DOMAIN entries /\ Charge(entries[1]) /\ entries[1].from = 0
      BY <1>2 DEF Charge
    <2>2. sub.start = 0
      BY <1>2 DEF Unread
    <2> QED BY <1>1, <2>1, <2>2 DEF BilledOK, StartBilled
  <1>3. CASE sub = [Unread EXCEPT !.status = "trialing", !.end = Interval, !.trialEnd = Interval]
    <2>1. sub.status = "trialing"
      BY <1>3 DEF Unread
    <2> QED BY <1>1, <2>1 DEF BilledOK
  <1> QED BY <1>2, <1>3 DEF Init

(* What every step does to the entries, the row and the tasks.             *)
EntriesKept ==
  \A i \in DOMAIN entries : /\ i \in DOMAIN entries'
                            /\ entries'[i].kind = entries[i].kind
                            /\ entries'[i].from = entries[i].from

Begins(start) == \E i \in DOMAIN entries' : Charge(entries'[i]) /\ entries'[i].from = start

PeriodKept ==
  /\ sub.ended => sub'.ended
  /\ sub'.start = sub.start \/ StartBilled'
  /\ StartBilled' \/ sub'.status \notin {"active", "past_due"} \/ sub'.ended

ReadersKept ==
  \A w \in Workers : Working(w)' =>
    task'[w].seen = sub' \/ (Working(w) /\ task'[w].seen = task[w].seen)

LEMMA BilledKept ==
  ASSUME BilledOK, EntriesKept, PeriodKept, ReadersKept
  PROVE  BilledOK'
  <1>1. StartBilled => StartBilled'
    <2> SUFFICES ASSUME StartBilled, sub'.start = sub.start PROVE StartBilled'
      BY DEF PeriodKept
    <2> QED BY DEF StartBilled, EntriesKept, Charge
  <1>2. ASSUME NEW w \in Workers, Working(w)'
        PROVE  /\ task'[w].seen.ended => sub'.ended
               /\ StartBilled' \/ task'[w].seen.start = sub'.start
    <2>1. CASE task'[w].seen = sub'
      BY <2>1
    <2>2. CASE Working(w) /\ task'[w].seen = task[w].seen
      BY <1>1, <2>2 DEF BilledOK, PeriodKept
    <2> QED BY <1>2, <2>1, <2>2 DEF ReadersKept
  <1> QED BY <1>2 DEF BilledOK, PeriodKept

(* Steps that leave the start, the status and the entries alone.           *)
LEMMA PeriodUntouched ==
  ASSUME BilledOK, EntriesKept, sub'.start = sub.start, sub.ended => sub'.ended,
         sub'.status = sub.status \/ sub'.status \notin {"active", "past_due"}
  PROVE  PeriodKept
  <1>1. StartBilled => StartBilled'
    BY DEF StartBilled, EntriesKept, Charge
  <1> QED BY <1>1 DEF BilledOK, PeriodKept

LEMMA TasksUntouched ==
  ASSUME task' = task PROVE ReadersKept
  BY DEF ReadersKept, Working

(* A worker that commits or ends works no more; the others go on.          *)
LEMMA WorkerDone ==
  ASSUME TypeOK, NEW w \in Workers, NEW t, task' = [task EXCEPT ![w] = t],
         t.step \in {"idle", "committed"} \/ t.kind = "order" \/ t.seen = sub'
           \/ (Working(w) /\ t.seen = task[w].seen)
  PROVE  ReadersKept
  <1>1. task'[w] = t /\ \A v \in Workers : v # w => task'[v] = task[v]
    BY DEF TypeOK
  <1> QED BY <1>1 DEF ReadersKept, Working

(* A renewal, by the cycle or by the end of a trial, of a row that has the *)
(* start, the status and the end of the one read.                          *)
LEMMA CyclePeriod ==
  ASSUME TypeOK, BilledOK, EntriesKept, NEW w \in Workers, Working(w), NEW base \in Row,
         base.start = task[w].seen.start, base.ended = task[w].seen.ended,
         base.status = task[w].seen.status,
         sub' = Merge(Cycled(base), task[w].seen, {"locked"}),
         base.cancel \/ Begins(base.end)
  PROVE  PeriodKept
  <1> DEFINE seen == task[w].seen
             new == Cycled(base)
  <1>1. seen \in Row /\ sub \in Row /\ new \in Row
    BY TaskType, CycledType DEF TypeOK
  <1>2. DOMAIN sub = {"status", "cancel", "endsAt", "ended", "start", "end", "interval",
                "trialEnd", "locked"}
    BY <1>1 DEF Row
  <1>3. /\ sub'.start = IF new.start = seen.start THEN sub.start ELSE new.start
        /\ sub'.ended = IF new.ended = seen.ended THEN sub.ended ELSE new.ended
    <2> HIDE DEF new, seen
    <2>1. sub' = Merge(new, seen, {"locked"})
      BY DEF new, seen
    <2> QED BY <1>2, <2>1 DEF Merge
  <1>4. (seen.ended => sub.ended) /\ (StartBilled \/ seen.start = sub.start)
    BY DEF BilledOK
  <1>5. sub.ended \in BOOLEAN /\ seen.ended \in BOOLEAN
    BY <1>1 DEF Row
  <1>6. StartBilled /\ sub'.start = sub.start => StartBilled'
    BY DEF StartBilled, EntriesKept, Charge
  <1>7. CASE base.cancel
    <2>1. new.start = base.start /\ new.ended = TRUE
      BY <1>7 DEF Cycled, CycleRevoked, Row
    <2> HIDE DEF new, seen
    <2>2. sub'.start = sub.start /\ sub'.ended = TRUE
      BY <1>3, <1>4, <1>5, <2>1 DEF seen
    <2> QED BY <2>2 DEF PeriodKept
  <1>8. CASE ~ base.cancel
    <2>1. new.start = base.end /\ new.ended = base.ended
      BY <1>8 DEF Cycled, CycleRenewed, Row
    <2> HIDE DEF new, seen
    <2>2. sub'.ended = sub.ended
      BY <1>3, <2>1 DEF seen
    <2>3. sub'.start = base.end => StartBilled'
      BY <1>8 DEF StartBilled, Begins
    <2>4. CASE base.end = seen.start
      <3>1. sub'.start = sub.start
        BY <1>3, <2>1, <2>4
      <3>2. StartBilled'
        BY <1>4, <1>6, <2>3, <2>4, <3>1
      <3> QED BY <2>2, <3>2 DEF PeriodKept
    <2>5. CASE base.end # seen.start
      <3>1. sub'.start = base.end
        BY <1>3, <2>1, <2>5
      <3> QED BY <2>2, <2>3, <3>1 DEF PeriodKept
    <2> QED BY <2>4, <2>5
  <1> QED BY <1>7, <1>8

(* A request other than the end of a trial.                                *)
LEMMA RequestPeriod ==
  ASSUME TypeOK, BilledOK, EntriesKept, NEW w \in Workers, Working(w),
         NEW kind \in Requests, kind \notin {"trial_now", "interval"}, NEW date \in Nat,
         sub' = Merge(Updated(kind, task[w].seen, date), task[w].seen, {})
  PROVE  PeriodKept
  <1> DEFINE seen == task[w].seen
             new == Updated(kind, seen, date)
  <1>1. seen \in Row /\ sub \in Row
    BY TaskType DEF TypeOK
  <1>2. DOMAIN sub = {"status", "cancel", "endsAt", "ended", "start", "end", "interval",
                "trialEnd", "locked"}
    BY <1>1 DEF Row
  <1>3. /\ new.start = seen.start
        /\ new.ended = seen.ended \/ new.ended = TRUE
        /\ new.status = seen.status \/ new.status \in {"canceled", "trialing"}
    BY <1>1 DEF Updated, CancelAtPeriodEnd, Uncancel, Revoke, SetTrial, UpdateProduct, Row,
       Requests, SeatRequests, ProductRequests
  <1>4. /\ sub'.start = IF new.start = seen.start THEN sub.start ELSE new.start
        /\ sub'.ended = IF new.ended = seen.ended THEN sub.ended ELSE new.ended
        /\ sub'.status = IF new.status = seen.status THEN sub.status ELSE new.status
    <2> HIDE DEF new, seen
    <2>1. sub' = Merge(new, seen, {})
      BY DEF new, seen
    <2> QED BY <1>2, <2>1 DEF Merge
  <1> HIDE DEF new, seen
  <1> QED BY <1>3, <1>4, PeriodUntouched

(* A new interval: the period begins now, as does what its debit charges.  *)
LEMMA IntervalPeriod ==
  ASSUME TypeOK, BilledOK, EntriesKept, NEW w \in Workers, Working(w), NEW date \in Nat,
         sub' = Merge(ChangeInterval(task[w].seen, date), task[w].seen, {}),
         Begins(now)
  PROVE  PeriodKept
  <1> DEFINE seen == task[w].seen
             new == ChangeInterval(seen, date)
  <1>1. seen \in Row /\ sub \in Row
    BY TaskType DEF TypeOK
  <1>2. DOMAIN sub = {"status", "cancel", "endsAt", "ended", "start", "end", "interval",
                      "trialEnd", "locked"}
    BY <1>1 DEF Row
  <1>3. new.start = now /\ new.ended = seen.ended /\ new.status = seen.status
    BY <1>1 DEF ChangeInterval, Row
  <1>4. /\ sub'.start = IF new.start = seen.start THEN sub.start ELSE new.start
        /\ sub'.ended = sub.ended /\ sub'.status = sub.status
    <2> HIDE DEF new, seen
    <2>1. sub' = Merge(new, seen, {})
      BY DEF new, seen
    <2> QED BY <1>2, <1>3, <2>1 DEF Merge
  <1> HIDE DEF new
  <1>5. StartBilled /\ sub'.start = sub.start => StartBilled'
    BY DEF StartBilled, EntriesKept, Charge
  <1>6. StartBilled \/ seen.start = sub.start
    BY DEF BilledOK
  <1>7. sub'.start = now => StartBilled'
    BY DEF StartBilled, Begins
  <1>8. sub.ended => sub'.ended
    BY <1>4
  <1> QED BY <1>3, <1>4, <1>5, <1>6, <1>7, <1>8 DEF PeriodKept

LEMMA BilledCycle ==
  ASSUME TypeOK, BilledOK, NEW w \in Workers, CycleCommit(w)
  PROVE  BilledOK'
  <1> DEFINE seen == task[w].seen
             t == [task[w] EXCEPT !.step = "committed", !.job = TRUE]
  <1>1. /\ Working(w) /\ seen \in Row
    BY TaskType DEF CycleCommit, Cycling, Working
  <1>2. entries \in Seq(Entry) /\ CycleEntry(seen) \in Entry
    BY <1>1, CycleEntryType DEF TypeOK
  <1>3. entries' = IF seen.cancel THEN entries ELSE Append(entries, CycleEntry(seen))
    BY DEF CycleCommit
  <1>4. CycleEntry(seen).kind = "cycle" /\ CycleEntry(seen).from = seen.end
    BY DEF CycleEntry
  <1>5. sub' = Merge(Cycled(seen), seen, {"locked"})
    BY DEF CycleCommit
  <1>6. /\ EntriesKept
        /\ seen.cancel \/ Begins(seen.end)
    <2> HIDE DEF seen
    <2> DEFINE e == CycleEntry(seen)
    <2> HIDE DEF e
    <2>1. CASE seen.cancel
      BY <1>3, <2>1 DEF EntriesKept
    <2>2. CASE ~ seen.cancel
      <3>1. entries' = Append(entries, e) /\ e \in Entry
        BY <1>2, <1>3, <2>2 DEF e
      <3>2. /\ \A i \in DOMAIN entries : i \in DOMAIN entries' /\ entries'[i] = entries[i]
            /\ Len(entries) + 1 \in DOMAIN entries' /\ entries'[Len(entries) + 1] = e
        BY <1>2, <3>1
      <3> QED BY <1>4, <3>2 DEF EntriesKept, Begins, Charge, e
    <2> QED BY <2>1, <2>2
  <1>7. PeriodKept
    BY <1>1, <1>5, <1>6, CyclePeriod
  <1>8. ReadersKept
    <2>1. t.step = "committed"
      BY TaskType DEF Task
    <2> HIDE DEF t
    <2>2. task' = [task EXCEPT ![w] = t]
      BY DEF CycleCommit, t
    <2> QED BY <2>1, <2>2, WorkerDone
  <1> QED BY <1>6, <1>7, <1>8, BilledKept

LEMMA BilledRequest ==
  ASSUME TypeOK, RequestInv, BilledOK, Debited, NEW w \in Workers, RequestCommit(w)
  PROVE  BilledOK'
  <1> DEFINE seen == task[w].seen
             ins == Inserted(task[w].kind, seen, task[w].date)
             es == entries \o ins
             t == [task[w] EXCEPT !.step = "committed", !.job = task[w].kind = "trial_now"]
  <1>1. /\ Working(w) /\ seen \in Row /\ task[w].kind \in Requests
        /\ task[w].date \in Nat /\ now \in Nat
    BY TaskType DEF RequestCommit, IsRequest, Working, Requests, SeatRequests, ProductRequests,
       TypeOK
  <1>2. /\ DOMAIN entries' = DOMAIN es
        /\ DOMAIN es = 1 .. Len(entries) + Len(ins)
        /\ DOMAIN entries = 1 .. Len(entries)
        /\ \A i \in DOMAIN entries : es[i] = entries[i]
        /\ \A i \in DOMAIN ins : es[Len(entries) + i] = ins[i]
        /\ \A i \in DOMAIN es : entries'[i].kind = es[i].kind /\ entries'[i].from = es[i].from
    BY RequestEntries
  <1>3. Len(entries) \in Nat /\ Len(ins) \in Nat /\ DOMAIN ins = 1 .. Len(ins)
    <2>1. ins \in Seq(Entry)
      BY <1>1, InsertedType
    <2> QED BY <2>1 DEF TypeOK
  <1>4. EntriesKept
    <2> HIDE DEF es, ins
    <2> QED BY <1>2, <1>3 DEF EntriesKept
  <1>5. sub' = Merge(Updated(task[w].kind, seen, task[w].date), seen,
                     IF task[w].kind = "trial_now" THEN {"locked"} ELSE {})
    BY DEF RequestCommit
  <1>6. PeriodKept
    <2>0. ASSUME NEW k \in DOMAIN ins, Charge(ins[k]) PROVE Begins(ins[k].from)
      <3> HIDE DEF es, ins
      <3>1. Len(entries) + k \in DOMAIN entries' /\ es[Len(entries) + k] = ins[k]
        BY <1>2, <1>3
      <3> QED BY <1>2, <2>0, <3>1 DEF Begins, Charge
    <2>1. CASE task[w].kind \notin {"trial_now", "interval"}
      BY <1>1, <1>4, <1>5, <2>1, RequestPeriod
    <2>3. CASE task[w].kind = "interval"
      <3>1. sub' = Merge(ChangeInterval(seen, task[w].date), seen, {})
        BY <1>5, <2>3 DEF Updated, SeatRequests
      <3>2. ~ SeatPriced
        <4>1. "interval" \in environment
          BY <1>1, <2>3 DEF RequestInv, RequestCommit
        <4> QED BY <4>1 DEF SeatPriced, Debited, Without
      <3>3. ins = <<Proration("credit", seen.end),
                    Proration("debit", Updated("interval", seen, task[w].date).end)>>
        BY <2>3, <3>2 DEF Inserted, ProductRequests, ProductProration
      <3>4. 2 \in DOMAIN ins /\ ins[2].kind = "debit" /\ ins[2].from = now
        BY <3>3 DEF Proration
      <3> HIDE DEF ins
      <3>5. Begins(now)
        BY <2>0, <3>4 DEF Charge
      <3> QED BY <1>1, <1>4, <3>1, <3>5, IntervalPeriod
    <2>2. CASE task[w].kind = "trial_now"
      <3> DEFINE base == EndTrialNow(seen)
      <3>1. /\ base \in Row /\ base.start = seen.start /\ base.ended = seen.ended
            /\ base.status = seen.status /\ base.cancel = seen.cancel
        BY <1>1 DEF EndTrialNow, Row, Dates
      <3>2. sub' = Merge(Cycled(base), seen, {"locked"})
        BY <1>5, <2>2 DEF Updated, SeatRequests, ProductRequests
      <3>3. ASSUME ~ base.cancel
            PROVE  Begins(base.end)
        <4>1. ins = <<CycleEntry(base)>>
          BY <2>2, <3>1, <3>3 DEF Inserted, SeatRequests, ProductRequests
        <4>2. 1 \in DOMAIN ins /\ ins[1].kind = "cycle" /\ ins[1].from = base.end
          BY <4>1 DEF CycleEntry
        <4> HIDE DEF es, ins, base
        <4> QED BY <2>0, <4>2 DEF Charge
      <3> HIDE DEF base
      <3> QED BY <1>1, <1>4, <3>1, <3>2, <3>3, CyclePeriod
    <2> QED BY <2>1, <2>2, <2>3
  <1>7. ReadersKept
    <2>1. t.step = "committed"
      BY TaskType DEF Task
    <2> HIDE DEF t
    <2>2. task' = [task EXCEPT ![w] = t]
      BY DEF RequestCommit, t
    <2> QED BY <2>1, <2>2, WorkerDone
  <1> QED BY <1>4, <1>6, <1>7, BilledKept

LEMMA BilledOrder ==
  ASSUME TypeOK, BilledOK, NEW w \in Workers, OrderCommit(w)
  PROVE  BilledOK'
  <1>1. EntriesKept
    <2>1. entries \in Seq(Entry) /\ Len(orders) + 1 \in Nat
      BY DEF TypeOK
    <2>2. entries' = entries \/ entries' = Billed(entries, task[w].bills, Len(orders) + 1)
      BY DEF OrderCommit
    <2> QED BY <2>1, <2>2, BilledProperties DEF EntriesKept
  <1>2. sub' = sub
    BY DEF OrderCommit
  <1>3. PeriodKept
    BY <1>1, <1>2, PeriodUntouched
  <1>4. ReadersKept
    <2>1. [task[w] EXCEPT !.step = "committed"].step = "committed"
      BY TaskType DEF Task
    <2> QED BY <2>1, WorkerDone DEF OrderCommit
  <1> QED BY <1>1, <1>3, <1>4, BilledKept

(* The other steps leave the entries alone.                                *)
LEMMA BilledWorker ==
  ASSUME TypeOK, BilledOK, NEW w \in Workers,
         \/ CycleBegin(w) \/ CycleSkipped(w) \/ OrderBegin(w)
         \/ \E kind \in Requests : \E date \in Arguments(kind) : RequestBegin(w, kind, date)
         \/ RequestLock(w) \/ RequestRefused(w) \/ RequestUnlock(w)
         \/ Finish(w) \/ Crash(w)
  PROVE  BilledOK'
  <1>1. entries' = entries
    BY DEF CycleBegin, CycleSkipped, OrderBegin, RequestBegin, RequestLock, RequestRefused,
       RequestUnlock, Finish, Crash
  <1>2. EntriesKept
    BY <1>1 DEF EntriesKept
  <1>3. sub'.start = sub.start /\ sub'.ended = sub.ended /\ sub'.status = sub.status
    <2>1. CASE CycleSkipped(w)
      <3> DEFINE new == [task[w].seen EXCEPT !.locked = FALSE]
      <3>1. DOMAIN sub = {"status", "cancel", "endsAt", "ended", "start", "end", "interval",
                "trialEnd", "locked"}
        BY DEF TypeOK, Row
      <3>2. new.start = task[w].seen.start /\ new.ended = task[w].seen.ended
            /\ new.status = task[w].seen.status
        BY TaskType DEF Row
      <3> HIDE DEF new
      <3>3. sub' = Merge(new, task[w].seen, {"locked"})
        BY <2>1 DEF CycleSkipped, new
      <3> QED BY <3>1, <3>2, <3>3 DEF Merge
    <2>2. CASE ~ CycleSkipped(w)
      <3>1. sub' = sub
        BY <2>2 DEF CycleBegin, OrderBegin, RequestBegin, RequestLock, RequestRefused,
           RequestUnlock, Finish, Crash
      <3> QED BY <3>1
    <2> QED BY <2>1, <2>2
  <1>4. PeriodKept
    BY <1>2, <1>3, PeriodUntouched
  <1>5. ReadersKept
    <2>1. ASSUME NEW t, task' = [task EXCEPT ![w] = t], sub' = sub, t.seen = sub
          PROVE  ReadersKept
      BY <2>1, WorkerDone
    <2>2. ASSUME NEW t, task' = [task EXCEPT ![w] = t], t.step \in {"idle", "committed"}
          PROVE  ReadersKept
      BY <2>2, WorkerDone
    <2>3. ASSUME NEW t, task' = [task EXCEPT ![w] = t], Working(w), t.seen = task[w].seen
          PROVE  ReadersKept
      BY <2>3, WorkerDone
    <2>4. CASE CycleBegin(w)
      <3>1. [Idle EXCEPT !.step = "read", !.kind = "cycle", !.seen = sub].seen = sub
        BY DEF Idle
      <3> QED BY <2>1, <2>4, <3>1 DEF CycleBegin
    <2>5. CASE CycleSkipped(w)
      <3>1. [task[w] EXCEPT !.step = "committed"].step = "committed"
        BY TaskType DEF Task
      <3> QED BY <2>2, <2>5, <3>1 DEF CycleSkipped
    <2>6. CASE OrderBegin(w)
      <3>1. [Idle EXCEPT !.step = "read", !.kind = "order", !.bills = Pending].kind = "order"
        BY DEF Idle
      <3> QED BY <2>6, <3>1, WorkerDone DEF OrderBegin
    <2>7. ASSUME NEW kind \in Requests, NEW date, RequestBegin(w, kind, date)
          PROVE  ReadersKept
      <3>1. [Idle EXCEPT !.step = "read", !.kind = kind, !.seen = sub, !.date = date].seen = sub
        BY DEF Idle
      <3> QED BY <2>1, <2>7, <3>1 DEF RequestBegin
    <2>8. CASE RequestLock(w)
      <3>1. [task[w] EXCEPT !.step = "locked"].seen = task[w].seen
        BY TaskType DEF Task
      <3>2. Working(w)
        BY <2>8 DEF RequestLock, IsRequest, Working, Requests, SeatRequests, ProductRequests
      <3> QED BY <2>3, <2>8, <3>1, <3>2 DEF RequestLock
    <2>9. CASE RequestUnlock(w)
      <3> DEFINE b == IF Invoices(task[w].kind, task[w].seen) THEN Pending ELSE {}
      <3>1. [task[w] EXCEPT !.step = "unlocked", !.bills = b].seen = task[w].seen
        BY TaskType DEF Task
      <3>2. Working(w)
        BY <2>9 DEF RequestUnlock, IsRequest, Working, Requests, SeatRequests, ProductRequests
      <3>3. task' = [task EXCEPT ![w] = [task[w] EXCEPT !.step = "unlocked", !.bills = b]]
        BY <2>9 DEF RequestUnlock
      <3> HIDE DEF b
      <3> QED BY <2>3, <3>1, <3>2, <3>3
    <2>10. CASE RequestRefused(w) \/ Finish(w) \/ Crash(w)
      <3>1. task' = [task EXCEPT ![w] = Idle] /\ Idle.step = "idle"
        BY <2>10 DEF RequestRefused, Finish, Crash, Idle
      <3> QED BY <2>2, <3>1
    <2> QED BY <2>4, <2>5, <2>6, <2>7, <2>8, <2>9, <2>10
  <1> QED BY <1>2, <1>4, <1>5, BilledKept

LEMMA BilledOutside ==
  ASSUME TypeOK, BilledOK,
         \/ SchedulerStep \/ SchedulerCrash \/ LockExpires
         \/ PaymentFails \/ PaymentSucceeds \/ PaymentGivenUp \/ Tick
         \/ UNCHANGED vars \/ \E w \in Workers : CycleDropped(w)
  PROVE  BilledOK'
  <1>1. entries' = entries /\ task' = task
    BY DEF SchedulerStep, ListDue, LockDue, SendCycle, SchedulerCrash, LockExpires,
       PaymentFails, PaymentSucceeds, PaymentGivenUp, Pays, Tick, CycleDropped, vars
  <1>2. EntriesKept /\ ReadersKept
    BY <1>1, TasksUntouched DEF EntriesKept
  <1>3. PeriodKept
    <2>1. CASE LockDue
      BY <1>2, <2>1, PeriodUntouched DEF LockDue, TypeOK, Row
    <2>2. CASE PaymentFails \/ PaymentSucceeds
      <3>1. /\ sub.status \in {"active", "past_due"} /\ ~ sub.ended
            /\ sub'.start = sub.start
        BY <2>2 DEF PaymentFails, PaymentSucceeds, Pays, TypeOK, Row
      <3>2. StartBilled
        BY <3>1 DEF BilledOK
      <3>3. StartBilled'
        BY <1>1, <3>1, <3>2 DEF StartBilled, Charge
      <3> QED BY <3>1, <3>3 DEF PeriodKept
    <2>3. CASE PaymentGivenUp
      <3>1. sub'.start = sub.start /\ sub'.ended = TRUE /\ sub'.status = "canceled"
        BY <2>3 DEF PaymentGivenUp, Pays, Revoke, TypeOK, Row
      <3> QED BY <3>1 DEF PeriodKept
    <2>4. CASE sub' = sub
      BY <1>2, <2>4, PeriodUntouched
    <2> QED BY <2>1, <2>2, <2>3, <2>4 DEF SchedulerStep, ListDue, SendCycle, SchedulerCrash,
            LockExpires, Tick, CycleDropped, vars
  <1> QED BY <1>2, <1>3, BilledKept

LEMMA BilledStep == TypeOK /\ RequestInv /\ BilledInv /\ [Next]_vars => BilledInv'
  <1> SUFFICES ASSUME TypeOK, RequestInv, BilledInv, [Next]_vars, Debited' PROVE BilledOK'
    BY DEF BilledInv
  <1>1. environment' = environment
    BY EnvironmentKept
  <1>2. Debited /\ BilledOK
    BY <1>1 DEF Debited, Without, BilledInv
  <1> QED BY <1>2, BilledOutside, BilledWorker, BilledCycle, BilledRequest, BilledOrder
          DEF Next, Proceed

(* The period that an active or past due subscription is in begins with a  *)
(* charge, a renewal's or the debit of a product of another interval, in   *)
(* every environment but that of such a product priced by seats: neither   *)
(* two renewals at a time, nor a stale row, nor a crash, nor a change of   *)
(* the interval moves it to a period that nobody bills.                    *)
THEOREM ActiveIsBilledCorrect == Spec => []ActiveIsBilled
  <1>1. BilledInv => ActiveIsBilled
    BY DEF BilledInv, BilledOK, Debited, StartBilled, Charge, ActiveIsBilled
  <1>2. Init => RequestInv /\ BilledInv
    <2>1. Init => RequestInv
      BY DEF Init, Idle, RequestInv, Working
    <2> QED BY <2>1, BilledInit DEF BilledInv
  <1>3. TypeOK /\ (RequestInv /\ BilledInv) /\ [Next]_vars => (RequestInv /\ BilledInv)'
    BY RequestStep, BilledStep
  <1> QED BY <1>1, <1>2, <1>3, TypeCorrect, PTL DEF Spec

-----------------------------------------------------------------------------
(* Why no moment is charged twice.  What a moment is charged, less what it *)
(* is credited, is at most one, and nothing from the usual end of the      *)
(* current period on.  When requests do not overlap, whoever works sees    *)
(* the row as it is, and the period ends no earlier than that, except of a *)
(* trial that was ended to be canceled, which is not renewed.  When they   *)
(* do, but none of them moves the period, all rows that anybody sees have  *)
(* a period of the usual length, and the lock lets one task at a time      *)
(* start the next one.                                                     *)

Within(e, t) == e.from <= t /\ t < e.to

ChargesOf(es, t) == {i \in DOMAIN es : Charge(es[i]) /\ Within(es[i], t)}
CreditsOf(es, t) == {i \in DOMAIN es : es[i].kind = "credit" /\ Within(es[i], t)}

NetOf(es, t) == Cardinality(ChargesOf(es, t)) - Cardinality(CreditsOf(es, t))

(* What one entry adds to it.                                              *)
Sign(e, t) ==
  IF ~Within(e, t) THEN 0
  ELSE IF Charge(e) THEN 1
  ELSE IF e.kind = "credit" THEN -1
  ELSE 0

Overlaps == "overlap" \in environment

Regular(s) == s.end = s.start + s.interval

Agrees(s) ==
  /\ s.start = sub.start /\ s.end = sub.end /\ s.interval = sub.interval
  /\ s.status = sub.status /\ s.cancel = sub.cancel /\ s.ended = sub.ended

EntriesOK ==
  \A t \in Nat : /\ NetOf(entries, t) <= 1
                 /\ t >= sub.start + sub.interval => NetOf(entries, t) <= 0

RowOK ==
  IF Overlaps THEN Regular(sub)
  ELSE /\ sub.end >= sub.start + sub.interval \/ (sub.cancel /\ sub.ended)
       /\ sub.status = "trialing" => \A t \in Nat : NetOf(entries, t) <= 0

ReaderOK(w) ==
  Working(w) =>
    /\ Cycler(w) => /\ task[w].seen.start = sub.start /\ task[w].seen.end = sub.end
                    /\ task[w].seen.interval = sub.interval
    /\ IF Overlaps THEN Regular(task[w].seen)
       ELSE Agrees(task[w].seen) /\ \A v \in Workers : Working(v) => v = w

PeriodsOK == EntriesOK /\ RowOK /\ \A w \in Workers : ReaderOK(w)

PeriodsInv == Undisturbed => PeriodsOK

(* The entries that cover a moment, counted.                               *)
LEMMA CoveringFinite ==
  ASSUME NEW es \in Seq(Entry), NEW t \in Nat
  PROVE  /\ IsFiniteSet(ChargesOf(es, t)) /\ IsFiniteSet(CreditsOf(es, t))
         /\ Cardinality(ChargesOf(es, t)) \in Nat /\ Cardinality(CreditsOf(es, t)) \in Nat
         /\ NetOf(es, t) \in Int
  <1>1. DOMAIN es = 1 .. Len(es) /\ Len(es) \in Nat
    OBVIOUS
  <1>2. IsFiniteSet(DOMAIN es)
    BY <1>1, FS_Interval
  <1>3. ChargesOf(es, t) \in SUBSET DOMAIN es /\ CreditsOf(es, t) \in SUBSET DOMAIN es
    BY DEF ChargesOf, CreditsOf
  <1>4. IsFiniteSet(ChargesOf(es, t)) /\ IsFiniteSet(CreditsOf(es, t))
    BY <1>2, <1>3, FS_Subset
  <1>5. Cardinality(ChargesOf(es, t)) \in Nat /\ Cardinality(CreditsOf(es, t)) \in Nat
    BY <1>4, FS_CardinalityType
  <1> QED BY <1>4, <1>5 DEF NetOf

LEMMA NetAppend ==
  ASSUME NEW es \in Seq(Entry), NEW e \in Entry, NEW t \in Nat
  PROVE  NetOf(Append(es, e), t) = NetOf(es, t) + Sign(e, t)
  <1> DEFINE fs == Append(es, e)
             n == Len(es) + 1
  <1>1. /\ DOMAIN fs = DOMAIN es \cup {n} /\ n \notin DOMAIN es
        /\ fs[n] = e /\ \A i \in DOMAIN es : fs[i] = es[i]
    OBVIOUS
  <1>2. IsFiniteSet(ChargesOf(es, t)) /\ IsFiniteSet(CreditsOf(es, t))
        /\ Cardinality(ChargesOf(es, t)) \in Nat /\ Cardinality(CreditsOf(es, t)) \in Nat
    BY CoveringFinite
  <1> HIDE DEF fs, n
  <1>3. n \notin ChargesOf(es, t) /\ n \notin CreditsOf(es, t)
    BY <1>1 DEF ChargesOf, CreditsOf
  <1>4. Cardinality(ChargesOf(es, t) \cup {n}) = Cardinality(ChargesOf(es, t)) + 1
        /\ Cardinality(CreditsOf(es, t) \cup {n}) = Cardinality(CreditsOf(es, t)) + 1
    BY <1>2, <1>3, FS_AddElement
  <1>5. ChargesOf(fs, t) = IF Charge(e) /\ Within(e, t) THEN ChargesOf(es, t) \cup {n}
                           ELSE ChargesOf(es, t)
    BY <1>1 DEF ChargesOf
  <1>6. CreditsOf(fs, t) = IF e.kind = "credit" /\ Within(e, t) THEN CreditsOf(es, t) \cup {n}
                           ELSE CreditsOf(es, t)
    BY <1>1 DEF CreditsOf
  <1>7. Charge(e) => e.kind # "credit"
    BY DEF Charge
  <1> QED BY <1>2, <1>4, <1>5, <1>6, <1>7 DEF NetOf, Sign, fs

LEMMA NetAlike ==
  ASSUME NEW es, NEW fs, DOMAIN fs = DOMAIN es,
         \A i \in DOMAIN es : fs[i].kind = es[i].kind /\ fs[i].from = es[i].from
                              /\ fs[i].to = es[i].to,
         NEW t \in Nat
  PROVE  NetOf(fs, t) = NetOf(es, t)
  <1>1. ChargesOf(fs, t) = ChargesOf(es, t) /\ CreditsOf(fs, t) = CreditsOf(es, t)
    BY DEF ChargesOf, CreditsOf, Charge, Within
  <1> QED BY <1>1 DEF NetOf

LEMMA NetEmpty ==
  ASSUME NEW t \in Nat PROVE NetOf(<<>>, t) = 0
  <1>1. ChargesOf(<<>>, t) = {} /\ CreditsOf(<<>>, t) = {}
    BY DEF ChargesOf, CreditsOf
  <1>2. Cardinality({}) = 0
    BY FS_EmptySet
  <1>3. NetOf(<<>>, t) = Cardinality({}) - Cardinality({})
    BY <1>1 DEF NetOf
  <1> QED BY <1>2, <1>3

(* What steps leave alone.                                                 *)

SeenKept ==
  \A w \in Workers : Working(w)' =>
    Working(w) /\ task'[w].seen = task[w].seen /\ task'[w].kind = task[w].kind

NetKept ==
  \A t \in Nat : /\ NetOf(entries, t) \in Int
                 /\ NetOf(entries', t) \in {NetOf(entries, t), NetOf(entries, t) - 1}

LEMMA SameEntries ==
  ASSUME TypeOK, entries' = entries PROVE NetKept
  <1>1. \A t \in Nat : NetOf(entries, t) \in Int
    BY CoveringFinite DEF TypeOK
  <1> QED BY <1>1 DEF NetKept

LEMMA ReadersSame ==
  ASSUME PeriodsOK, environment' = environment, SeenKept,
         sub'.start = sub.start, sub'.end = sub.end, sub'.interval = sub.interval,
         Overlaps \/ (sub'.status = sub.status /\ sub'.cancel = sub.cancel
                      /\ sub'.ended = sub.ended)
  PROVE  \A w \in Workers : ReaderOK(w)'
  <1> SUFFICES ASSUME NEW w \in Workers, Working(w)' PROVE ReaderOK(w)'
    BY DEF ReaderOK
  <1>1. Working(w) /\ task'[w].seen = task[w].seen /\ task'[w].kind = task[w].kind
    BY DEF SeenKept
  <1>2. ReaderOK(w) /\ (Cycler(w)' => Cycler(w))
    BY <1>1 DEF PeriodsOK, Cycler, Working
  <1>3. \A v \in Workers : Working(v)' => Working(v)
    BY DEF SeenKept
  <1> QED BY <1>1, <1>2, <1>3 DEF ReaderOK, Overlaps, Regular, Agrees

(* The only reader commits or ends.                                        *)
LEMMA ReadersGone ==
  ASSUME PeriodsOK, environment' = environment, SeenKept, ~Overlaps,
         NEW w \in Workers, Working(w), ~Working(w)'
  PROVE  \A v \in Workers : ReaderOK(v)'
  <1>1. ASSUME NEW v \in Workers, Working(v)' PROVE FALSE
    <2>1. Working(v) /\ v # w
      BY <1>1 DEF SeenKept
    <2> QED BY <2>1 DEF PeriodsOK, ReaderOK
  <1> QED BY <1>1 DEF ReaderOK

(* A renewal while requests overlap: no other task renews.                 *)
LEMMA ReadersRenewed ==
  ASSUME PeriodsOK, environment' = environment, SeenKept, Overlaps,
         \A v \in Workers : Working(v)' => ~Cycler(v)'
  PROVE  \A v \in Workers : ReaderOK(v)'
  <1> SUFFICES ASSUME NEW v \in Workers, Working(v)' PROVE ReaderOK(v)'
    BY DEF ReaderOK
  <1>1. Working(v) /\ task'[v].seen = task[v].seen
    BY DEF SeenKept
  <1>2. Regular(task[v].seen)
    BY <1>1 DEF PeriodsOK, ReaderOK
  <1> QED BY <1>1, <1>2 DEF ReaderOK, Overlaps, Regular

LEMMA ReadersBegun ==
  ASSUME PeriodsOK, environment' = environment, NEW w \in Workers, Others(w),
         task'[w].seen = sub, sub' = sub,
         Overlaps \/ \A v \in Workers : ~Working(v)
  PROVE  \A v \in Workers : ReaderOK(v)'
  <1> SUFFICES ASSUME NEW v \in Workers, Working(v)' PROVE ReaderOK(v)'
    BY DEF ReaderOK
  <1>1. CASE Overlaps
    <2>1. CASE v = w
      <3>1. Regular(sub)
        BY <1>1 DEF PeriodsOK, RowOK
      <3>2. task'[v].seen = sub'
        BY <2>1
      <3> QED BY <1>1, <3>1, <3>2 DEF ReaderOK, Overlaps, Regular
    <2>2. CASE v # w
      <3>1. task'[v] = task[v]
        BY <2>2 DEF Others
      <3>2. Working(v) /\ ReaderOK(v) /\ (Cycler(v)' => Cycler(v))
        BY <3>1 DEF PeriodsOK, Working, Cycler
      <3> QED BY <1>1, <3>1, <3>2 DEF ReaderOK, Overlaps, Regular
    <2> QED BY <2>1, <2>2
  <1>2. CASE ~Overlaps
    <2>1. \A u \in Workers : Working(u)' => u = w
      BY <1>2 DEF Others, Working
    <2> QED BY <1>2, <2>1 DEF ReaderOK, Overlaps, Agrees
  <1> QED BY <1>1, <1>2

(* Steps that leave the period alone.                                      *)
LEMMA PeriodsKept ==
  ASSUME TypeOK, PeriodsOK, environment' = environment, NetKept,
         sub'.start = sub.start, sub'.interval = sub.interval, sub'.end = sub.end \/ ~Overlaps,
         Overlaps \/ /\ sub'.status = "trialing" => sub.status = "trialing"
                     /\ \/ sub'.end >= sub'.start + sub'.interval
                        \/ /\ sub'.end = sub.end
                           /\ sub.cancel /\ sub.ended => sub'.cancel /\ sub'.ended,
         \A w \in Workers : ReaderOK(w)'
  PROVE  PeriodsOK'
  <1>1. EntriesOK'
    <2> SUFFICES ASSUME NEW t \in Nat
                 PROVE  /\ NetOf(entries', t) <= 1
                        /\ t >= sub'.start + sub'.interval => NetOf(entries', t) <= 0
      BY DEF EntriesOK
    <2>1. /\ NetOf(entries, t) <= 1
          /\ t >= sub.start + sub.interval => NetOf(entries, t) <= 0
      BY DEF PeriodsOK, EntriesOK
    <2> QED BY <2>1 DEF NetKept
  <1>2. RowOK'
    <2>1. CASE Overlaps
      BY <2>1 DEF PeriodsOK, RowOK, Overlaps, Regular
    <2>2. CASE ~Overlaps
      <3>1. ASSUME sub'.status = "trialing", NEW t \in Nat PROVE NetOf(entries', t) <= 0
        <4>1. NetOf(entries, t) <= 0
          BY <2>2, <3>1 DEF PeriodsOK, RowOK
        <4> QED BY <4>1 DEF NetKept
      <3>2. sub'.end >= sub'.start + sub'.interval \/ (sub'.cancel /\ sub'.ended)
        BY <2>2 DEF PeriodsOK, RowOK
      <3> QED BY <2>2, <3>1, <3>2 DEF RowOK, Overlaps
    <2> QED BY <2>1, <2>2
  <1> QED BY <1>1, <1>2 DEF PeriodsOK

(* Steps that begin a period.                                              *)
LEMMA PeriodsMoved ==
  ASSUME environment' = environment, NEW start \in Nat, NEW length \in Nat,
         \A t \in Nat : /\ NetOf(entries', t) <= 1
                        /\ t >= start + length => NetOf(entries', t) <= 0,
         sub'.start = start, sub'.end = start + length, sub'.interval = length,
         Overlaps \/ sub'.status # "trialing",
         \A w \in Workers : ReaderOK(w)'
  PROVE  PeriodsOK'
  <1>1. EntriesOK'
    BY DEF EntriesOK
  <1>2. sub'.end >= sub'.start + sub'.interval
    OBVIOUS
  <1>3. RowOK'
    BY <1>2 DEF RowOK, Regular, Overlaps
  <1> QED BY <1>1, <1>3 DEF PeriodsOK

(* The next period begins where nothing is charged any more.               *)
LEMMA NetRenewed ==
  ASSUME TypeOK, NEW e \in Entry, e.kind = "cycle",
         \A t \in Nat : NetOf(entries, t) <= 1 /\ (t >= e.from => NetOf(entries, t) <= 0),
         \A t \in Nat : NetOf(entries', t) = NetOf(Append(entries, e), t)
  PROVE  \A t \in Nat : /\ NetOf(entries', t) <= 1
                        /\ t >= e.to /\ t >= e.from => NetOf(entries', t) <= 0
  <1> SUFFICES ASSUME NEW t \in Nat
               PROVE  /\ NetOf(entries', t) <= 1
                      /\ t >= e.to /\ t >= e.from => NetOf(entries', t) <= 0
    OBVIOUS
  <1>1. NetOf(entries, t) \in Int
    BY CoveringFinite DEF TypeOK
  <1>2. NetOf(entries', t) = NetOf(entries, t) + Sign(e, t)
    BY NetAppend DEF TypeOK
  <1>3. Sign(e, t) = IF e.from <= t /\ t < e.to THEN 1 ELSE 0
    BY DEF Sign, Within, Charge
  <1>4. e.from \in Nat /\ e.to \in Nat
    BY DEF Entry
  <1>5. NetOf(entries, t) <= 1 /\ (t >= e.from => NetOf(entries, t) <= 0)
    OBVIOUS
  <1>6. CASE e.from <= t /\ t < e.to
    BY <1>1, <1>2, <1>3, <1>4, <1>5, <1>6
  <1>7. CASE ~(e.from <= t /\ t < e.to)
    BY <1>1, <1>2, <1>3, <1>4, <1>5, <1>7
  <1> QED BY <1>6, <1>7

LEMMA EntryTypes ==
  ASSUME TypeOK
  PROVE  /\ sub.start \in Nat /\ sub.end \in Nat /\ sub.interval \in Nat /\ now \in Nat
         /\ \A w \in Workers : /\ task[w].seen.start \in Nat /\ task[w].seen.end \in Nat
                               /\ task[w].seen.interval \in Nat
                               /\ task[w].seen.cancel \in BOOLEAN
                               /\ task[w].date \in Nat
  BY TaskType DEF TypeOK, Row

(* A task or request whose commit is not the renewal of a period.          *)
LEMMA WorkerStops ==
  ASSUME NEW w \in Workers, Others(w),
         task'[w].step \in {"idle", "committed"} \/ task'[w].kind = "order"
  PROVE  SeenKept /\ ~Working(w)'
  BY DEF SeenKept, Others, Working

LEMMA PeriodsCycle ==
  ASSUME TypeOK, PeriodsOK, LockInv, Without({"lock_expires"}), NEW w \in Workers, CycleCommit(w)
  PROVE  PeriodsOK'
  <1> DEFINE seen == task[w].seen
             new == Cycled(seen)
  <1>1. /\ Working(w) /\ Cycler(w) /\ environment' = environment
        /\ seen.start = sub.start /\ seen.end = sub.end /\ seen.interval = sub.interval
        /\ ~Overlaps => Agrees(seen)
    BY DEF CycleCommit, Cycling, Working, Cycler, PeriodsOK, ReaderOK
  <1>2. SeenKept /\ ~Working(w)'
    BY WorkerCommits, WorkerStops
  <1>3. \A v \in Workers : Working(v)' => ~Cycler(v)'
    <2>1. ASSUME NEW v \in Workers, Working(v)', Cycler(v)' PROVE FALSE
      <3>1. v # w /\ Working(v) /\ Cycler(v)
        BY <1>2, <2>1 DEF SeenKept, Cycler, Working
      <3> QED BY <1>1, <3>1 DEF LockInv
    <2> QED BY <2>1
  <1>4. \A v \in Workers : ReaderOK(v)'
    BY <1>1, <1>2, <1>3, ReadersGone, ReadersRenewed
  <1>5. seen \in Row /\ seen.start \in Nat /\ seen.end \in Nat /\ seen.interval \in Nat
        /\ seen.cancel \in BOOLEAN
    BY TaskType DEF Row
  <1>6. sub' = Merge(new, seen, {"locked"})
    BY DEF CycleCommit
  <1>7. entries' = IF seen.cancel THEN entries ELSE Append(entries, CycleEntry(seen))
    BY DEF CycleCommit
  <1>8. CASE seen.cancel
    <2>1. /\ new.start = seen.start /\ new.end = seen.end /\ new.interval = seen.interval
          /\ new.ended = TRUE /\ new.cancel = seen.cancel /\ new.status # "trialing"
          /\ seen.status = "trialing" => new.status = "active"
      BY <1>5, <1>8 DEF Cycled, CycleRevoked, Row
    <2> HIDE DEF new, seen
    <2>2. /\ sub'.start = sub.start /\ sub'.end = sub.end /\ sub'.interval = sub.interval
          /\ ~Overlaps => /\ sub'.ended = TRUE /\ sub'.cancel = TRUE
                          /\ sub'.status # "trialing"
      <3>1. /\ sub'.start = sub.start /\ sub'.end = sub.end /\ sub'.interval = sub.interval
        BY <1>6, <2>1, MergedFields
      <3>2. ASSUME ~Overlaps PROVE /\ sub'.ended = TRUE /\ sub'.cancel = TRUE
                                   /\ sub'.status # "trialing"
        <4>1. seen.status = sub.status /\ seen.cancel = sub.cancel /\ seen.ended = sub.ended
          BY <1>1, <3>2 DEF Agrees
        <4>2. sub'.ended = IF new.ended = seen.ended THEN sub.ended ELSE new.ended
          BY <1>6, MergedFields
        <4>3. sub'.cancel = IF new.cancel = seen.cancel THEN sub.cancel ELSE new.cancel
          BY <1>6, MergedFields
        <4>4. sub'.status = IF new.status = seen.status THEN sub.status ELSE new.status
          BY <1>6, MergedFields
        <4>5. sub'.ended = TRUE
          BY <2>1, <4>1, <4>2
        <4>6. sub'.cancel = TRUE
          BY <1>5, <1>8, <2>1, <4>1, <4>3 DEF seen
        <4>7. sub'.status # "trialing"
          BY <2>1, <4>1, <4>4
        <4> QED BY <4>5, <4>6, <4>7
      <3> QED BY <3>1, <3>2
    <2>3. NetKept
      BY <1>7, <1>8, SameEntries
    <2> QED BY <1>1, <1>4, <2>2, <2>3, PeriodsKept
  <1>9. CASE ~seen.cancel
    <2>1. /\ new.start = seen.end /\ new.end = seen.end + seen.interval
          /\ new.interval = seen.interval /\ new.status # "trialing"
      BY <1>5, <1>9 DEF Cycled, CycleRenewed, Row
    <2> DEFINE e == CycleEntry(seen)
    <2>2. e.kind = "cycle" /\ e.from = seen.end /\ e.to = seen.end + seen.interval /\ e \in Entry
      BY <1>5, CycleEntryType DEF CycleEntry
    <2>3. entries' = Append(entries, e)
      BY <1>7, <1>9
    <2> HIDE DEF e, new, seen
    <2>4. sub.start + sub.interval <= seen.end
      <3>1. CASE Overlaps
        <4>1. sub.end = sub.start + sub.interval
          BY <3>1 DEF PeriodsOK, RowOK, Regular
        <4> QED BY <1>1, <4>1, EntryTypes
      <3>2. CASE ~Overlaps
        <4>1. sub.end >= sub.start + sub.interval \/ sub.cancel
          BY <3>2 DEF PeriodsOK, RowOK
        <4>2. sub.cancel = seen.cancel
          BY <1>1, <3>2 DEF Agrees
        <4> QED BY <1>1, <1>9, <4>1, <4>2, EntryTypes
      <3> QED BY <3>1, <3>2
    <2>5. \A t \in Nat : NetOf(entries, t) <= 1 /\ (t >= e.from => NetOf(entries, t) <= 0)
      <3>1. \A t \in Nat : t >= seen.end => t >= sub.start + sub.interval
        BY <1>5, <2>4, EntryTypes
      <3> QED BY <2>2, <3>1 DEF PeriodsOK, EntriesOK
    <2>6. \A t \in Nat : /\ NetOf(entries', t) <= 1
                         /\ t >= e.to /\ t >= e.from => NetOf(entries', t) <= 0
      BY <2>2, <2>3, <2>5, NetRenewed
    <2>7. /\ sub'.start = seen.end /\ sub'.end = seen.end + seen.interval
          /\ sub'.interval = seen.interval
      <3>1. /\ sub'.start = IF new.start = seen.start THEN sub.start ELSE new.start
            /\ sub'.end = IF new.end = seen.end THEN sub.end ELSE new.end
            /\ sub'.interval = IF new.interval = seen.interval THEN sub.interval
                               ELSE new.interval
        BY <1>6, MergedFields
      <3> QED BY <1>1, <2>1, <3>1
    <2>8. sub'.status # "trialing" \/ Overlaps
      <3>1. sub'.status = IF new.status = seen.status THEN sub.status ELSE new.status
        BY <1>6, MergedFields
      <3> QED BY <1>1, <2>1, <3>1 DEF Agrees
    <2>9. \A t \in Nat : t >= seen.end + seen.interval => t >= e.to /\ t >= e.from
      BY <1>5, <2>2
    <2> QED BY <1>1, <1>4, <1>5, <2>6, <2>7, <2>8, <2>9, PeriodsMoved
  <1> QED BY <1>8, <1>9

LEMMA UpdatedFields ==
  ASSUME NEW s \in Row, NEW kind \in Requests,
         kind \notin {"trial_now", "trial_set", "interval"}, NEW date
  PROVE  LET new == Updated(kind, s, date)
         IN /\ new.start = s.start /\ new.interval = s.interval
            /\ new.status \in {s.status, "canceled"}
            /\ new.locked = s.locked
            /\ kind = "extend" => new.end = date
            /\ kind \in ProductRequests => new.end = s.start + s.interval
            /\ kind \notin ProductRequests \cup {"extend"} => new.end = s.end
            /\ kind \notin {"cancel", "uncancel", "revoke"} =>
                 new.cancel = s.cancel /\ new.ended = s.ended
  BY DEF Updated, CancelAtPeriodEnd, Uncancel, Revoke, UpdateProduct, Row, Requests,
     SeatRequests, ProductRequests

LEMMA AcceptedFields ==
  ASSUME NEW kind, NEW s, NEW date, Accepted(kind, s, date)
  PROVE  /\ kind = "cancel" => MayCancel(s)
         /\ kind = "uncancel" => MayUncancel(s)
         /\ kind = "revoke" => MayRevoke(s)
         /\ kind = "trial_now" => s.status = "trialing"
         /\ kind = "extend" => MayExtend(s, date)
         /\ kind \in ProductRequests => MayUpdateProduct(s)
  <1>1. ASSUME kind = "cancel" PROVE MayCancel(s)
    BY <1>1 DEF Accepted, SeatRequests, ProductRequests
  <1>2. ASSUME kind = "uncancel" PROVE MayUncancel(s)
    BY <1>2 DEF Accepted, SeatRequests, ProductRequests
  <1>3. ASSUME kind = "revoke" PROVE MayRevoke(s)
    BY <1>3 DEF Accepted, SeatRequests, ProductRequests
  <1>4. ASSUME kind = "trial_now" PROVE s.status = "trialing"
    BY <1>4 DEF Accepted, SeatRequests, ProductRequests
  <1>5. ASSUME kind = "extend" PROVE MayExtend(s, date)
    BY <1>5 DEF Accepted, SeatRequests, ProductRequests
  <1>6. ASSUME kind \in ProductRequests PROVE MayUpdateProduct(s)
    BY <1>6 DEF Accepted, SeatRequests, ProductRequests
  <1> QED BY <1>1, <1>2, <1>3, <1>4, <1>5, <1>6

(* What a request inserts decides what it adds to the charges of a moment. *)
LEMMA RequestNet ==
  ASSUME TypeOK, NEW w \in Workers, RequestCommit(w), NEW t \in Nat
  PROVE  LET ins == Inserted(task[w].kind, task[w].seen, task[w].date)
         IN /\ NetOf(entries', t) = NetOf(entries \o ins, t)
            /\ NetOf(entries, t) \in Int
            /\ ins = <<>> => NetOf(entries', t) = NetOf(entries, t)
            /\ \A e \in Entry : ins = <<e>> =>
                 NetOf(entries', t) = NetOf(Append(entries, e), t)
            /\ \A c, d \in Entry : ins = <<c, d>> =>
                 NetOf(entries', t) = NetOf(entries, t) + Sign(c, t) + Sign(d, t)
  <1> DEFINE ins == Inserted(task[w].kind, task[w].seen, task[w].date)
             es == entries \o ins
  <1>1. /\ DOMAIN entries' = DOMAIN es
        /\ \A j \in DOMAIN es : /\ entries'[j].kind = es[j].kind
                                /\ entries'[j].from = es[j].from
                                /\ entries'[j].to = es[j].to
    BY RequestEntries
  <1>2. NetOf(entries', t) = NetOf(es, t)
    <2> HIDE DEF es
    <2> QED BY <1>1, NetAlike
  <1>3. entries \in Seq(Entry)
    BY DEF TypeOK
  <1>4. NetOf(entries, t) \in Int
    BY <1>3, CoveringFinite
  <1> HIDE DEF ins
  <1>5. ASSUME ins = <<>> PROVE es = entries
    BY <1>3, <1>5
  <1>6. ASSUME NEW e \in Entry, ins = <<e>> PROVE es = Append(entries, e)
    BY <1>3, <1>6
  <1>7. ASSUME NEW c \in Entry, NEW d \in Entry, ins = <<c, d>>
        PROVE  NetOf(es, t) = NetOf(entries, t) + Sign(c, t) + Sign(d, t)
    <2>1. es = Append(Append(entries, c), d)
      BY <1>3, <1>7
    <2>2. Append(entries, c) \in Seq(Entry)
      BY <1>3
    <2>3. NetOf(Append(Append(entries, c), d), t) = NetOf(Append(entries, c), t) + Sign(d, t)
      BY <2>2, NetAppend
    <2>4. NetOf(Append(entries, c), t) = NetOf(entries, t) + Sign(c, t)
      BY <1>3, NetAppend
    <2> QED BY <2>1, <2>3, <2>4
  <1> QED BY <1>2, <1>4, <1>5, <1>6, <1>7 DEF ins, es

(* The prorations of a product update, as their signs.                     *)
LEMMA ProrationSigns ==
  ASSUME now \in Nat, NEW end \in Nat, NEW t \in Nat
  PROVE  /\ Proration("credit", end) \in Entry /\ Proration("debit", end) \in Entry
         /\ Proration("seats", end) \in Entry
         /\ Sign(Proration("credit", end), t) = IF now <= t /\ t < end THEN -1 ELSE 0
         /\ Sign(Proration("debit", end), t) = IF now <= t /\ t < end THEN 1 ELSE 0
         /\ Sign(Proration("seats", end), t) = 0
  BY DEF Proration, Entry, Sign, Within, Charge, NoOrder

(* A request that leaves the start of the period alone charges nothing     *)
(* that it does not credit.                                                *)
LEMMA RequestKeepsNet ==
  ASSUME TypeOK, NEW w \in Workers, RequestCommit(w),
         task[w].kind \notin {"trial_now", "interval"},
         task[w].kind \in ProductRequests =>
           task[w].seen.end >= task[w].seen.start + task[w].seen.interval
  PROVE  NetKept
  <1> DEFINE seen == task[w].seen
             kind == task[w].kind
             ins == Inserted(kind, seen, task[w].date)
             end == seen.start + seen.interval
             c == Proration("credit", seen.end)
             d == Proration("debit", end)
  <1> SUFFICES ASSUME NEW t \in Nat
               PROVE  /\ NetOf(entries, t) \in Int
                      /\ NetOf(entries', t) \in {NetOf(entries, t), NetOf(entries, t) - 1}
    BY DEF NetKept
  <1>1. /\ now \in Nat /\ seen \in Row /\ seen.end \in Nat /\ end \in Nat
        /\ kind \in Requests /\ kind \notin {"trial_now", "interval"}
    <2>1. seen \in Row /\ now \in Nat /\ kind \in Requests
      BY TaskType DEF TypeOK, RequestCommit, IsRequest
    <2>2. seen.start \in Nat /\ seen.end \in Nat /\ seen.interval \in Nat
      BY <2>1 DEF Row
    <2> QED BY <2>1, <2>2
  <1>2. NetOf(entries, t) \in Int
    BY RequestNet
  <1>3. ins \in {<<>>, <<Proration("seats", seen.end)>>}
        \/ (kind \in ProductRequests /\ ins = <<c, d>>)
    <2>1. CASE kind \in ProductRequests
      <3>1. Updated(kind, seen, task[w].date) = UpdateProduct(seen)
        BY <1>1, <2>1 DEF Updated, ProductRequests
      <3>2. UpdateProduct(seen).end = end
        BY <1>1 DEF UpdateProduct, Row
      <3> QED BY <2>1, <3>1, <3>2 DEF Inserted, ProductProration
    <2>2. CASE kind \notin ProductRequests
      BY <1>1, <2>2 DEF Inserted
    <2> QED BY <2>1, <2>2
  <1>4. CASE ins = <<>>
    BY <1>2, <1>4, RequestNet
  <1>5. CASE ins = <<Proration("seats", seen.end)>>
    <2>1. Proration("seats", seen.end) \in Entry /\ Sign(Proration("seats", seen.end), t) = 0
      BY <1>1, ProrationSigns
    <2>2. NetOf(entries', t) = NetOf(Append(entries, Proration("seats", seen.end)), t)
      BY <1>5, <2>1, RequestNet
    <2>3. NetOf(Append(entries, Proration("seats", seen.end)), t) = NetOf(entries, t) + 0
      BY <2>1, NetAppend DEF TypeOK
    <2> QED BY <1>2, <2>2, <2>3
  <1>6. CASE kind \in ProductRequests /\ ins = <<c, d>>
    <2>1. /\ c \in Entry /\ Sign(c, t) = IF now <= t /\ t < seen.end THEN -1 ELSE 0
      BY <1>1, ProrationSigns
    <2>2. /\ d \in Entry /\ Sign(d, t) = IF now <= t /\ t < end THEN 1 ELSE 0
      BY <1>1, ProrationSigns
    <2> HIDE DEF c, d
    <2>3. NetOf(entries', t) = NetOf(entries, t) + Sign(c, t) + Sign(d, t)
      BY <1>6, <2>1, <2>2, RequestNet
    <2>4. seen.end >= end
      BY <1>6
    <2> HIDE DEF seen, kind, ins, end
    <2>5. Sign(c, t) + Sign(d, t) \in {0, -1}
      BY <1>1, <2>1, <2>2, <2>4
    <2>6. Sign(c, t) \in Int /\ Sign(d, t) \in Int
      BY <2>1, <2>2
    <2> QED BY <1>2, <2>3, <2>5, <2>6
  <1> QED BY <1>3, <1>4, <1>5, <1>6

LEMMA PeriodsRequest ==
  ASSUME TypeOK, PeriodsOK, Undisturbed, RequestInv, NEW w \in Workers, RequestCommit(w),
         task[w].kind \notin {"trial_now", "interval"}
  PROVE  PeriodsOK'
  <1> DEFINE seen == task[w].seen
             kind == task[w].kind
             date == task[w].date
             new == Updated(kind, seen, date)
  <1>1. /\ Working(w) /\ IsRequest(w) /\ kind \in Requests /\ environment' = environment
        /\ IF Overlaps THEN Regular(seen) ELSE Agrees(seen)
    BY DEF RequestCommit, IsRequest, Working, PeriodsOK, ReaderOK, Requests, SeatRequests,
       ProductRequests
  <1>2. kind \in environment /\ Accepted(kind, seen, date)
    BY <1>1 DEF RequestInv
  <1>3. kind # "trial_set" /\ (Overlaps => kind # "extend")
    BY <1>2 DEF Undisturbed, Without, Overlaps
  <1>4. seen \in Row /\ seen.end \in Nat /\ seen.start \in Nat /\ date \in Nat
        /\ seen.interval \in Nat
    BY TaskType DEF Row
  <1>5. /\ new.start = seen.start /\ new.interval = seen.interval
        /\ new.status \in {seen.status, "canceled"}
        /\ kind = "extend" => new.end = date
        /\ kind \in ProductRequests => new.end = seen.start + seen.interval
        /\ kind \notin ProductRequests \cup {"extend"} => new.end = seen.end
        /\ kind \notin {"cancel", "uncancel", "revoke"} =>
             new.cancel = seen.cancel /\ new.ended = seen.ended
    BY <1>1, <1>3, <1>4, UpdatedFields
  <1>6. sub' = Merge(new, seen, {})
    BY DEF RequestCommit
  <1>7. SeenKept /\ ~Working(w)' /\ NetKept
    <2>1. ASSUME kind \in ProductRequests PROVE seen.end >= seen.start + seen.interval
      <3>1. CASE Overlaps
        BY <1>1, <1>4, <3>1 DEF Regular
      <3>2. CASE ~Overlaps
        <4>1. ~seen.cancel
          BY <1>2, <2>1, AcceptedFields DEF MayUpdateProduct
        <4> QED BY <1>1, <3>2, <4>1 DEF Agrees, PeriodsOK, RowOK
      <3> QED BY <3>1, <3>2
    <2> QED BY <2>1, WorkerCommits, WorkerStops, RequestKeepsNet
  <1> HIDE DEF new
  <1>8. /\ sub'.start = IF new.start = seen.start THEN sub.start ELSE new.start
        /\ sub'.end = IF new.end = seen.end THEN sub.end ELSE new.end
        /\ sub'.interval = IF new.interval = seen.interval THEN sub.interval ELSE new.interval
        /\ sub'.status = IF new.status = seen.status THEN sub.status ELSE new.status
        /\ sub'.cancel = IF new.cancel = seen.cancel THEN sub.cancel ELSE new.cancel
        /\ sub'.ended = IF new.ended = seen.ended THEN sub.ended ELSE new.ended
    BY <1>6, MergedFields
  <1>9. sub'.start = sub.start /\ sub'.interval = sub.interval
    BY <1>5, <1>8
  <1>10. CASE Overlaps
    <2>1. new.end = seen.end
      BY <1>1, <1>3, <1>5, <1>10 DEF Regular
    <2>2. sub'.end = sub.end
      BY <1>8, <2>1
    <2>3. \A v \in Workers : ReaderOK(v)'
      BY <1>1, <1>7, <1>9, <1>10, <2>2, ReadersSame
    <2> QED BY <1>1, <1>7, <1>9, <1>10, <2>2, <2>3, PeriodsKept
  <1>11. CASE ~Overlaps
    <2>1. /\ seen.start = sub.start /\ seen.end = sub.end /\ seen.interval = sub.interval
          /\ seen.status = sub.status /\ seen.cancel = sub.cancel /\ seen.ended = sub.ended
      BY <1>1, <1>11 DEF Agrees
    <2>2. \A v \in Workers : ReaderOK(v)'
      BY <1>1, <1>7, <1>11, ReadersGone
    <2>3. sub'.status = "trialing" => sub.status = "trialing"
      BY <1>5, <1>8, <2>1
    <2>4. sub.end >= sub.start + sub.interval \/ (sub.cancel /\ sub.ended)
      BY <1>11 DEF PeriodsOK, RowOK
    <2>5. CASE kind \in ProductRequests
      <3>1. sub'.end = sub.start + sub.interval
        BY <1>4, <1>5, <1>8, <2>1, <2>5
      <3>2. sub'.end >= sub'.start + sub'.interval
        BY <1>9, <3>1, EntryTypes
      <3> QED BY <1>1, <1>7, <1>9, <1>11, <2>2, <2>3, <3>2, PeriodsKept
    <2>6. CASE kind = "extend"
      <3>1. ~seen.cancel /\ date >= seen.end
        BY <1>2, <2>6, AcceptedFields DEF MayExtend
      <3>2. sub'.end = date
        BY <1>5, <1>8, <2>1, <2>6
      <3>3. sub'.end >= sub'.start + sub'.interval
        BY <1>4, <1>9, <2>1, <2>4, <3>1, <3>2, EntryTypes
      <3> QED BY <1>1, <1>7, <1>9, <1>11, <2>2, <2>3, <3>3, PeriodsKept
    <2>7. CASE kind \notin ProductRequests \cup {"extend"}
      <3>1. sub'.end = sub.end
        BY <1>5, <1>8, <2>7
      <3>2. sub.cancel /\ sub.ended => sub'.cancel /\ sub'.ended
        <4>1. CASE kind \in {"cancel", "uncancel", "revoke"}
          <5>1. ~seen.ended
            BY <1>2, <4>1, AcceptedFields DEF MayCancel, MayRevoke, MayUncancel
          <5> QED BY <2>1, <5>1
        <4>2. CASE kind \notin {"cancel", "uncancel", "revoke"}
          BY <1>5, <1>8, <4>2
        <4> QED BY <4>1, <4>2
      <3> QED BY <1>1, <1>7, <1>9, <1>11, <2>2, <2>3, <3>1, <3>2, PeriodsKept
    <2> QED BY <2>5, <2>6, <2>7
  <1> QED BY <1>10, <1>11

(* A new interval: from now on, what was charged before is credited.       *)
LEMMA PeriodsInterval ==
  ASSUME TypeOK, PeriodsOK, Undisturbed, RequestInv, NEW w \in Workers, RequestCommit(w),
         task[w].kind = "interval"
  PROVE  PeriodsOK'
  <1> DEFINE seen == task[w].seen
             length == task[w].date
             new == ChangeInterval(seen, length)
             ins == Inserted("interval", seen, length)
             c == Proration("credit", sub.end)
             d == Proration("debit", now + length)
  <1>1. Working(w) /\ IsRequest(w) /\ environment' = environment
    BY DEF RequestCommit, IsRequest, Working, Requests
  <1>2. "interval" \in environment /\ MayUpdateProduct(seen)
    <2>1. "interval" \in environment /\ Accepted("interval", seen, length)
      BY <1>1 DEF RequestInv
    <2> QED BY <2>1, AcceptedFields DEF ProductRequests
  <1>3. ~Overlaps /\ ~SeatPriced
    BY <1>2 DEF Undisturbed, Without, Overlaps, SeatPriced
  <1>4. /\ seen.start = sub.start /\ seen.end = sub.end /\ seen.interval = sub.interval
        /\ seen.status = sub.status /\ seen.cancel = sub.cancel /\ seen.ended = sub.ended
    BY <1>1, <1>3 DEF PeriodsOK, ReaderOK, Agrees
  <1>5. /\ now \in Nat /\ length \in Nat /\ seen \in Row /\ sub.end \in Nat
        /\ sub.start \in Nat /\ sub.interval \in Nat
    BY TaskType, EntryTypes
  <1>6. sub.end >= sub.start + sub.interval
    <2>1. ~sub.cancel
      BY <1>2, <1>4 DEF MayUpdateProduct
    <2> QED BY <1>3, <2>1 DEF PeriodsOK, RowOK
  <1>7. /\ new.start = now /\ new.end = now + length /\ new.interval = length
        /\ new.status = seen.status
    BY <1>5 DEF ChangeInterval, Row
  <1>8. sub' = Merge(new, seen, {})
    <2>1. Updated("interval", seen, length) = new
      BY DEF Updated, SeatRequests, ProductRequests
    <2> QED BY <2>1 DEF RequestCommit
  <1>9. /\ sub'.start = now /\ sub'.end = now + length /\ sub'.interval = length
        /\ sub'.status = sub.status
    <2> HIDE DEF new, seen
    <2> QED BY <1>4, <1>7, <1>8, MergedFields
  <1>10. sub'.status # "trialing"
    BY <1>2, <1>4, <1>9 DEF MayUpdateProduct
  <1>11. \A v \in Workers : ReaderOK(v)'
    BY <1>1, <1>3, WorkerCommits, WorkerStops, ReadersGone
  <1>12. ins = <<c, d>>
    <2>1. Updated("interval", seen, length).end = now + length
      BY <1>7 DEF Updated, SeatRequests, ProductRequests
    <2> QED BY <1>3, <1>4, <2>1 DEF Inserted, ProductRequests, ProductProration
  <1> HIDE DEF new
  <1>13. ASSUME NEW t \in Nat
         PROVE  /\ NetOf(entries', t) <= 1
                /\ t >= now + length => NetOf(entries', t) <= 0
    <2>1. /\ c \in Entry /\ Sign(c, t) = IF now <= t /\ t < sub.end THEN -1 ELSE 0
      BY <1>5, ProrationSigns
    <2>2. /\ d \in Entry /\ Sign(d, t) = IF now <= t /\ t < now + length THEN 1 ELSE 0
      BY <1>5, ProrationSigns
    <2> HIDE DEF c, d
    <2>3. NetOf(entries', t) = NetOf(entries, t) + Sign(c, t) + Sign(d, t)
          /\ NetOf(entries, t) \in Int
      BY <1>12, <2>1, <2>2, RequestNet
    <2>4. /\ NetOf(entries, t) <= 1
          /\ t >= sub.end => NetOf(entries, t) <= 0
      BY <1>5, <1>6 DEF PeriodsOK, EntriesOK
    <2> HIDE DEF seen, length, ins
    <2>5. CASE t < now
      BY <1>5, <2>1, <2>2, <2>3, <2>4, <2>5
    <2>6. CASE t >= now /\ t < now + length
      BY <1>5, <2>1, <2>2, <2>3, <2>4, <2>6
    <2>7. CASE t >= now + length
      BY <1>5, <2>1, <2>2, <2>3, <2>4, <2>7
    <2> QED BY <1>5, <2>5, <2>6, <2>7
  <1> HIDE DEF length
  <1> QED BY <1>1, <1>5, <1>9, <1>10, <1>11, <1>13, PeriodsMoved

(* The end of a trial: no period was billed before.                        *)
LEMMA PeriodsTrialEnd ==
  ASSUME TypeOK, PeriodsOK, Undisturbed, RequestInv, NEW w \in Workers, RequestCommit(w),
         task[w].kind = "trial_now"
  PROVE  PeriodsOK'
  <1> DEFINE seen == task[w].seen
             base == EndTrialNow(seen)
             new == Cycled(base)
             ins == Inserted(task[w].kind, seen, task[w].date)
             es == entries \o ins
  <1>1. Working(w) /\ IsRequest(w) /\ environment' = environment
    BY DEF RequestCommit, IsRequest, Working, Requests
  <1>2. "trial_now" \in environment /\ seen.status = "trialing"
    <2>1. "trial_now" \in environment /\ Accepted("trial_now", seen, task[w].date)
      BY <1>1 DEF RequestInv
    <2> QED BY <2>1, AcceptedFields
  <1>3. ~Overlaps
    BY <1>2 DEF Undisturbed, Without, Overlaps
  <1>4. /\ seen.start = sub.start /\ seen.end = sub.end /\ seen.interval = sub.interval
        /\ seen.status = sub.status
        /\ seen.cancel = sub.cancel /\ seen.ended = sub.ended
    BY <1>1, <1>3 DEF PeriodsOK, ReaderOK, Agrees
  <1>5. \A t \in Nat : NetOf(entries, t) <= 0
    BY <1>2, <1>3, <1>4 DEF PeriodsOK, RowOK
  <1>6. seen \in Row /\ now \in Nat /\ seen.interval \in Nat /\ seen.cancel \in BOOLEAN
    BY TaskType DEF TypeOK, Row
  <1>7. /\ base \in Row /\ base.start = seen.start /\ base.end = now
        /\ base.interval = seen.interval
        /\ base.status = "trialing" /\ base.cancel = seen.cancel /\ base.ended = seen.ended
    BY <1>2, <1>6 DEF EndTrialNow, Row, Dates
  <1>8. sub' = Merge(new, seen, {"locked"})
    <2>1. Updated("trial_now", seen, task[w].date) = new
      BY DEF Updated, SeatRequests, ProductRequests
    <2> QED BY <2>1 DEF RequestCommit
  <1>9. SeenKept /\ ~Working(w)'
    BY WorkerCommits, WorkerStops
  <1>10. \A v \in Workers : ReaderOK(v)'
    BY <1>1, <1>3, <1>9, ReadersGone
  <1>13. /\ sub'.start = new.start /\ sub'.end = new.end /\ sub'.status = new.status
         /\ sub'.interval = new.interval
         /\ sub'.cancel = new.cancel /\ sub'.ended = new.ended
    <2> HIDE DEF new, seen
    <2> QED BY <1>4, <1>8, MergedFields
  <1>14. CASE seen.cancel
    <2>1. /\ new.start = seen.start /\ new.end = now /\ new.ended = TRUE
          /\ new.cancel = seen.cancel /\ new.status = "active"
      BY <1>7, <1>14 DEF Cycled, CycleRevoked, Row
    <2>2. ins = <<>>
      BY <1>14 DEF Inserted, SeatRequests, ProductRequests
    <2> HIDE DEF new, seen, es, ins, base
    <2>3. \A t \in Nat : NetOf(entries', t) <= 0
      BY <1>5, <2>2, RequestNet DEF ins, seen
    <2>4. ~Overlaps' /\ sub'.cancel /\ sub'.ended
      BY <1>1, <1>3, <1>13, <1>14, <2>1 DEF Overlaps
    <2>5. EntriesOK'
      <3>1. \A t \in Nat : NetOf(entries', t) <= 0 /\ NetOf(entries', t) <= 1
        <4>1. \A t \in Nat : NetOf(entries', t) = NetOf(entries, t) /\ NetOf(entries, t) \in Int
          BY <2>2, RequestNet DEF ins, seen
        <4> QED BY <2>3, <4>1
      <3> QED BY <3>1 DEF EntriesOK
    <2> QED BY <1>10, <2>3, <2>4, <2>5 DEF PeriodsOK, RowOK
  <1>15. CASE ~seen.cancel
    <2> DEFINE e == CycleEntry(base)
    <2>1. /\ new.start = now /\ new.end = now + seen.interval /\ new.status = "active"
          /\ new.interval = seen.interval
      BY <1>7, <1>15 DEF Cycled, CycleRenewed, Row
    <2>2. ins = <<e>>
      BY <1>15 DEF Inserted, SeatRequests, ProductRequests
    <2>3. e.kind = "cycle" /\ e.from = now /\ e.to = now + seen.interval /\ e \in Entry
      BY <1>7, CycleEntryType DEF CycleEntry
    <2> HIDE DEF new, es, ins, base, e, seen
    <2>4. \A t \in Nat : NetOf(entries', t) = NetOf(Append(entries, e), t)
                         /\ NetOf(entries, t) \in Int
      BY <2>2, <2>3, RequestNet DEF ins, seen
    <2>5. \A t \in Nat : NetOf(entries, t) <= 1 /\ (t >= e.from => NetOf(entries, t) <= 0)
      BY <1>5, <2>4
    <2>6. \A t \in Nat : /\ NetOf(entries', t) <= 1
                         /\ t >= e.to /\ t >= e.from => NetOf(entries', t) <= 0
      BY <2>3, <2>4, <2>5, NetRenewed
    <2>7. \A t \in Nat : t >= now + seen.interval => t >= e.to /\ t >= e.from
      BY <1>6, <2>3
    <2>8. /\ sub'.start = now /\ sub'.end = now + seen.interval
          /\ sub'.interval = seen.interval /\ sub'.status # "trialing"
      BY <1>13, <2>1
    <2> QED BY <1>1, <1>6, <1>10, <2>6, <2>7, <2>8, PeriodsMoved
  <1> QED BY <1>14, <1>15

(* The steps that leave the period, the renewals and the readers alone.    *)
LEMMA PeriodsQuiet ==
  ASSUME TypeOK, PeriodsOK, environment' = environment, SeenKept, NetKept,
         sub'.start = sub.start, sub'.end = sub.end, sub'.interval = sub.interval,
         sub'.status = sub.status, sub'.cancel = sub.cancel, sub'.ended = sub.ended
  PROVE  PeriodsOK'
  <1>1. \A w \in Workers : ReaderOK(w)'
    BY ReadersSame
  <1>2. ~Overlaps => \/ sub'.end >= sub'.start + sub'.interval
                     \/ sub.cancel /\ sub.ended /\ sub'.cancel /\ sub'.ended
    BY DEF PeriodsOK, RowOK
  <1> QED BY <1>1, <1>2, PeriodsKept

LEMMA SameTasks ==
  ASSUME task' = task PROVE SeenKept
  BY DEF SeenKept, Working

(* The row after a task that finds the subscription cycled already.        *)
LEMMA SkippedFields ==
  ASSUME TypeOK, NEW w \in Workers, CycleSkipped(w)
  PROVE  /\ sub'.start = sub.start /\ sub'.end = sub.end /\ sub'.interval = sub.interval
         /\ sub'.status = sub.status /\ sub'.cancel = sub.cancel /\ sub'.ended = sub.ended
         /\ sub'.locked = FALSE
  <1> DEFINE seen == task[w].seen
             new == [seen EXCEPT !.locked = FALSE]
  <1>1. /\ new.start = seen.start /\ new.end = seen.end /\ new.interval = seen.interval
        /\ new.status = seen.status /\ new.cancel = seen.cancel /\ new.ended = seen.ended
        /\ new.locked = FALSE
    BY TaskType DEF Row
  <1>2. sub' = Merge(new, seen, {"locked"})
    BY DEF CycleSkipped
  <1> HIDE DEF new, seen
  <1> QED BY <1>1, <1>2, MergedFields

LEMMA PeriodsOrder ==
  ASSUME TypeOK, PeriodsOK, NEW w \in Workers, OrderCommit(w)
  PROVE  PeriodsOK'
  <1>1. NetKept
    <2>1. entries \in Seq(Entry) /\ Len(orders) + 1 \in Nat
      BY DEF TypeOK
    <2>2. entries' = entries \/ entries' = Billed(entries, task[w].bills, Len(orders) + 1)
      BY DEF OrderCommit
    <2>3. CASE entries' = Billed(entries, task[w].bills, Len(orders) + 1)
      <3>1. /\ DOMAIN entries' = DOMAIN entries
            /\ \A i \in DOMAIN entries : /\ entries'[i].kind = entries[i].kind
                                         /\ entries'[i].from = entries[i].from
                                         /\ entries'[i].to = entries[i].to
        BY <2>1, <2>3, BilledProperties
      <3>2. \A t \in Nat : NetOf(entries', t) = NetOf(entries, t) /\ NetOf(entries, t) \in Int
        BY <2>1, <3>1, NetAlike, CoveringFinite
      <3> QED BY <3>2 DEF NetKept
    <2> QED BY <2>2, <2>3, SameEntries
  <1>2. sub' = sub /\ environment' = environment
    BY DEF OrderCommit
  <1>3. SeenKept
    BY WorkerCommits, WorkerStops
  <1> QED BY <1>1, <1>2, <1>3, PeriodsQuiet

(* A task or request reads the row: alone, unless requests may overlap.    *)
LEMMA PeriodsBegin ==
  ASSUME TypeOK, PeriodsOK, LockInv, Without({"lock_expires"}), NEW w \in Workers,
         \/ CycleBegin(w)
         \/ \E kind \in Requests : \E date \in Arguments(kind) : RequestBegin(w, kind, date)
  PROVE  PeriodsOK'
  <1>1. /\ environment' = environment /\ sub' = sub /\ entries' = entries
        /\ Others(w) /\ task'[w].seen = sub
    <2>1. CASE CycleBegin(w)
      BY <2>1, CycleBegins DEF CycleBegin
    <2>2. ASSUME NEW kind, NEW date, RequestBegin(w, kind, date)
          PROVE  /\ environment' = environment /\ sub' = sub /\ entries' = entries
                 /\ Others(w) /\ task'[w].seen = sub
      BY <2>2, RequestBegins DEF RequestBegin
    <2> QED BY <2>1, <2>2
  <1>2. Overlaps \/ \A v \in Workers : ~Working(v)
    <2>1. CASE CycleBegin(w)
      <3> SUFFICES ASSUME ~Overlaps, NEW v \in Workers, Working(v) PROVE FALSE
        OBVIOUS
      <3>1. ~IsRequest(v) /\ cycleLock = Nobody
        BY <2>1 DEF CycleBegin, NoRequest, Overlaps, Working
      <3>2. task[v].kind \in Kinds
        BY TaskType
      <3>3. Cycler(v)
        BY <3>1, <3>2 DEF IsRequest, Kinds, Working, Cycler
      <3> QED BY <3>1, <3>3, WorkersAssumption DEF LockInv
    <2>2. CASE ~CycleBegin(w)
      BY <2>2 DEF RequestBegin, Unbusy, Overlaps, Working
    <2> QED BY <2>1, <2>2
  <1>3. \A v \in Workers : ReaderOK(v)'
    BY <1>1, <1>2, ReadersBegun
  <1>4. ~Overlaps => \/ sub'.end >= sub'.start + sub'.interval
                     \/ sub.cancel /\ sub.ended /\ sub'.cancel /\ sub'.ended
    BY <1>1 DEF PeriodsOK, RowOK
  <1> QED BY <1>1, <1>3, <1>4, SameEntries, PeriodsKept

(* The status of a row that nobody is working on.                          *)
LEMMA PeriodsPays ==
  ASSUME TypeOK, PeriodsOK, PaymentFails \/ PaymentSucceeds \/ PaymentGivenUp
  PROVE  PeriodsOK'
  <1>1. /\ environment' = environment /\ entries' = entries /\ task' = task
        /\ ~sub.ended /\ \A w \in Workers : ~Working(w)
    BY DEF PaymentFails, PaymentSucceeds, PaymentGivenUp, Pays, Unbusy, Working
  <1>2. /\ sub'.start = sub.start /\ sub'.end = sub.end /\ sub'.interval = sub.interval
        /\ sub'.status # "trialing"
    BY DEF PaymentFails, PaymentSucceeds, PaymentGivenUp, Pays, Revoke, TypeOK, Row
  <1>3. \A w \in Workers : ReaderOK(w)'
    BY <1>1 DEF ReaderOK, Working
  <1>4. ~Overlaps => sub'.end >= sub'.start + sub'.interval
    BY <1>1, <1>2 DEF PeriodsOK, RowOK
  <1> QED BY <1>1, <1>2, <1>3, <1>4, SameEntries, PeriodsKept

LEMMA PeriodsWorker ==
  ASSUME TypeOK, PeriodsOK, NEW w \in Workers,
         \/ CycleSkipped(w) \/ OrderBegin(w) \/ RequestLock(w) \/ RequestUnlock(w)
         \/ RequestRefused(w) \/ Finish(w) \/ Crash(w)
  PROVE  PeriodsOK'
  <1>1. environment' = environment /\ entries' = entries
    BY DEF CycleSkipped, OrderBegin, RequestLock, RequestUnlock, RequestRefused, Finish, Crash
  <1>2. /\ sub'.start = sub.start /\ sub'.end = sub.end /\ sub'.interval = sub.interval
        /\ sub'.status = sub.status /\ sub'.cancel = sub.cancel /\ sub'.ended = sub.ended
    <2>1. CASE CycleSkipped(w)
      BY <2>1, SkippedFields
    <2>2. CASE ~CycleSkipped(w)
      <3>1. sub' = sub
        BY <2>2 DEF OrderBegin, RequestLock, RequestUnlock, RequestRefused, Finish, Crash
      <3> QED BY <3>1
    <2> QED BY <2>1, <2>2
  <1>3. SeenKept
    <2>1. CASE RequestLock(w) \/ RequestUnlock(w)
      BY <2>1, RequestGoesOn DEF SeenKept, Others, Working, IsRequest, Requests,
         SeatRequests, ProductRequests
    <2>2. CASE CycleSkipped(w) \/ OrderBegin(w)
      BY <2>2, WorkerCommits, OrderBegins, WorkerStops
    <2>3. CASE RequestRefused(w) \/ Finish(w) \/ Crash(w)
      BY <2>3, WorkerEnds, WorkerStops
    <2> QED BY <2>1, <2>2, <2>3
  <1> QED BY <1>1, <1>2, <1>3, SameEntries, PeriodsQuiet

LEMMA PeriodsOutside ==
  ASSUME TypeOK, PeriodsOK,
         \/ SchedulerStep \/ SchedulerCrash \/ LockExpires \/ Tick \/ UNCHANGED vars
         \/ \E w \in Workers : CycleDropped(w)
  PROVE  PeriodsOK'
  <1>1. environment' = environment /\ entries' = entries /\ task' = task
    BY DEF SchedulerStep, ListDue, LockDue, SendCycle, SchedulerCrash, LockExpires, Tick,
       CycleDropped, vars
  <1>2. /\ sub'.start = sub.start /\ sub'.end = sub.end /\ sub'.interval = sub.interval
        /\ sub'.status = sub.status /\ sub'.cancel = sub.cancel /\ sub'.ended = sub.ended
    <2>1. CASE LockDue
      BY <2>1 DEF LockDue, TypeOK, Row
    <2>2. CASE ~LockDue
      <3>1. sub' = sub
        BY <2>2 DEF SchedulerStep, ListDue, SendCycle, SchedulerCrash, LockExpires, Tick,
           CycleDropped, vars
      <3> QED BY <3>1
    <2> QED BY <2>1, <2>2
  <1> QED BY <1>1, <1>2, SameEntries, SameTasks, PeriodsQuiet

LEMMA PeriodsStep ==
  TypeOK /\ LockInv /\ RequestInv /\ PeriodsInv /\ [Next]_vars => PeriodsInv'
  <1> SUFFICES ASSUME TypeOK, LockInv, RequestInv, PeriodsInv, [Next]_vars, Undisturbed'
               PROVE  PeriodsOK'
    BY DEF PeriodsInv
  <1>1. Undisturbed
    BY EnvironmentKept DEF Undisturbed, Without
  <1>2. PeriodsOK /\ Without({"lock_expires"})
    BY <1>1 DEF PeriodsInv, Undisturbed, Without
  <1>3. ASSUME NEW w \in Workers, RequestCommit(w) PROVE PeriodsOK'
    BY <1>1, <1>2, <1>3, PeriodsRequest, PeriodsInterval, PeriodsTrialEnd
  <1>4. ASSUME NEW w \in Workers, CycleCommit(w) \/ OrderCommit(w) PROVE PeriodsOK'
    BY <1>2, <1>4, PeriodsCycle, PeriodsOrder
  <1> QED BY <1>2, <1>3, <1>4, PeriodsBegin, PeriodsPays, PeriodsWorker, PeriodsOutside
          DEF Next, Proceed

LEMMA PeriodsInit == Init => LockInv /\ RequestInv /\ PeriodsInv
  <1> SUFFICES ASSUME Init PROVE LockInv /\ RequestInv /\ PeriodsInv
    OBVIOUS
  <1>1. \A w \in Workers : task[w] = Idle /\ Idle.step = "idle"
    BY DEF Init, Idle
  <1>2. \A w \in Workers : ~Working(w) /\ ~Cycler(w)
    BY <1>1 DEF Working, Cycler
  <1>3. Interval \in Nat
    BY IntervalAssumption
  <1> DEFINE e == [kind |-> "cycle", from |-> 0, to |-> Interval, item |-> 1]
  <1>4. /\ sub.start = 0 /\ sub.end = Interval /\ sub.interval = Interval
        /\ (sub.status # "trialing" /\ entries = <<e>>) \/ entries = <<>>
    BY DEF Init, Unread
  <1>5. \A t \in Nat : /\ NetOf(<<>>, t) = 0
                       /\ NetOf(<<e>>, t) = IF t < Interval THEN 1 ELSE 0
    <2> TAKE t \in Nat
    <2>1. NetOf(<<>>, t) = 0
      BY NetEmpty
    <2>2. e \in Entry /\ Sign(e, t) = IF t < Interval THEN 1 ELSE 0
      BY <1>3 DEF Entry, Sign, Within, Charge
    <2> HIDE DEF e
    <2>3. <<>> \in Seq(Entry) /\ Append(<<>>, e) = <<e>>
      BY <2>2
    <2>4. NetOf(<<e>>, t) = NetOf(<<>>, t) + Sign(e, t)
      BY <2>2, <2>3, NetAppend
    <2> QED BY <2>1, <2>2, <2>4
  <1> HIDE DEF e
  <1>6. EntriesOK
    BY <1>3, <1>4, <1>5 DEF EntriesOK
  <1>7. RowOK
    BY <1>3, <1>4, <1>5 DEF RowOK, Regular
  <1> QED BY <1>2, <1>6, <1>7 DEF LockInv, RequestInv, PeriodsInv, PeriodsOK, ReaderOK

(* No moment is charged twice without a credit in between, for every       *)
(* history of renewals, requests, crashes and messages delivered again in  *)
(* which no trial is moved, the lock of the task does not expire under it, *)
(* requests that move the period do not overlap another request, and the   *)
(* interval of a product priced by seats is not changed.                   *)
THEOREM PeriodsDisjointCorrect == Spec => []PeriodsDisjoint
  <1>1. Init => LockInv /\ RequestInv /\ PeriodsInv
    BY PeriodsInit
  <1>2. TypeOK /\ (LockInv /\ RequestInv /\ PeriodsInv) /\ [Next]_vars
          => (LockInv /\ RequestInv /\ PeriodsInv)'
    BY LockStep, RequestStep, PeriodsStep
  <1>3. TypeOK /\ PeriodsInv => PeriodsDisjoint
    <2> SUFFICES ASSUME TypeOK, PeriodsInv, Undisturbed, NEW i \in DOMAIN entries,
                        NEW t \in entries[i].from .. entries[i].to
                 PROVE  Charges(t) - Credits(t) <= 1
      BY DEF PeriodsDisjoint
    <2>1. t \in Nat
      <3>1. entries[i] \in Entry
        BY DEF TypeOK
      <3>2. entries[i].from \in Nat
        BY <3>1 DEF Entry
      <3> QED BY <3>2
    <2>2. Covering({"cycle", "debit"}, t) = ChargesOf(entries, t)
          /\ Covering({"credit"}, t) = CreditsOf(entries, t)
      BY DEF Covering, ChargesOf, CreditsOf, Within, Charge
    <2>3. NetOf(entries, t) <= 1
      BY <2>1 DEF PeriodsInv, PeriodsOK, EntriesOK
    <2> QED BY <2>2, <2>3 DEF NetOf, Charges, Credits
  <1> QED BY <1>1, <1>2, <1>3, TypeCorrect, PTL DEF Spec

-----------------------------------------------------------------------------
(* BilledOnce.  At most one renewal and one order are under way: a task    *)
(* renews only what is due, nothing is due while an order waits, and the   *)
(* clock does not pass the end of a period that nobody is renewing.  The   *)
(* order that is created then takes entries that no other order has.       *)

OneAtATime ==
  Without({"payments", "seats_invoice", "product_invoice", "interval", "backlog", "extend",
           "trial", "trial_set"})

Loaded(w) == task[w].step # "idle" /\ (task[w].job \/ task[w].kind = "order")

SomeOrder == jobs > 0 \/ \E w \in Workers : Loaded(w)

UnderWay == cycles > 0 \/ scheduler = "locked" \/ \E w \in Workers : Cycler(w)

Plain(s) == s.status \in {"active", "canceled"} /\ Regular(s) /\ s.interval = Interval

PlainOK == Plain(sub) /\ \A w \in Workers : Working(w) => Plain(task[w].seen)

OneCycle ==
  /\ cycles <= 1
  /\ cycles > 0 => scheduler = "idle"
  /\ \A w \in Workers : Cycler(w) =>
       cycles = 0 /\ scheduler = "idle" /\ \A v \in Workers : Cycler(v) => v = w

OneOrder ==
  /\ jobs <= 1
  /\ \A w \in Workers : Loaded(w) => jobs = 0 /\ \A v \in Workers : Loaded(v) => v = w

CyclerOK(w) ==
  Working(w) /\ Cycler(w) =>
    /\ task[w].seen.start = sub.start /\ task[w].seen.end = sub.end
    /\ task[w].seen.status = "canceled" => sub.status = "canceled"

DueOK ==
  /\ UnderWay => sub.locked \/ ~Due(sub)
  /\ sub.status = "active" /\ (~sub.locked \/ UnderWay \/ scheduler # "idle") => now <= sub.end
  /\ SomeOrder => ~Due(sub) /\ \A w \in Workers : Working(w) /\ Cycler(w) => ~Due(task[w].seen)

BillsOK ==
  /\ \A o \in DOMAIN orders : \A i \in orders[o] :
       i \in DOMAIN entries /\ entries[i].item # NoOrder
  /\ \A w \in Workers : task[w].kind = "order" /\ task[w].step = "read" =>
       \A i \in task[w].bills : i \in DOMAIN entries /\ entries[i].item = NoOrder
  /\ \A i \in DOMAIN entries : \A o, p \in DOMAIN orders :
       i \in orders[o] /\ i \in orders[p] => o = p

OnceOK ==
  PlainOK /\ OneCycle /\ OneOrder /\ (\A w \in Workers : CyclerOK(w)) /\ DueOK /\ BillsOK

OnceInv == OneAtATime => OnceOK

(* What steps leave alone.                                                 *)

RowKept ==
  /\ sub'.start = sub.start /\ sub'.end = sub.end /\ sub'.interval = sub.interval
  /\ sub'.status \in {sub.status, "canceled"}

LEMMA PlainKept ==
  ASSUME PlainOK, RowKept, SeenKept PROVE PlainOK'
  <1>1. Plain(sub)'
    BY DEF PlainOK, Plain, RowKept, Regular
  <1>2. ASSUME NEW w \in Workers, Working(w)' PROVE Plain(task[w].seen)'
    <2>1. Working(w) /\ task'[w].seen = task[w].seen
      BY <1>2 DEF SeenKept
    <2>2. Plain(task[w].seen)
      BY <2>1 DEF PlainOK
    <2> QED BY <2>1, <2>2 DEF Plain, Regular
  <1> QED BY <1>1, <1>2 DEF PlainOK

LEMMA CyclersKept ==
  ASSUME \A w \in Workers : CyclerOK(w), RowKept, SeenKept
  PROVE  \A w \in Workers : CyclerOK(w)'
  <1> SUFFICES ASSUME NEW w \in Workers, Working(w)', Cycler(w)' PROVE CyclerOK(w)'
    BY DEF CyclerOK
  <1>1. Working(w) /\ task'[w].seen = task[w].seen /\ task'[w].kind = task[w].kind
    BY DEF SeenKept
  <1>2. Cycler(w) /\ CyclerOK(w)
    BY <1>1 DEF Cycler, Working
  <1> QED BY <1>1, <1>2 DEF CyclerOK, RowKept

LEMMA DueFields ==
  ASSUME NEW s, NEW t, t.end = s.end, t.status \in {s.status, "canceled"}, ~Due(s)
  PROVE  ~Due(t)
  BY DEF Due, Active

LEMMA DueKept ==
  ASSUME DueOK, RowKept, SeenKept, now' = now, sub'.locked = sub.locked,
         UnderWay' => UnderWay, scheduler' # "idle" => scheduler # "idle",
         SomeOrder' => SomeOrder
  PROVE  DueOK'
  <1>1. \A s : Due(s)' <=> Due(s)
    BY DEF Due
  <1>2. ~Due(sub) => ~Due(sub)'
    <2>1. ~Due(sub) => ~Due(sub')
      BY DueFields DEF RowKept
    <2> QED BY <2>1 DEF Due
  <1>3. ASSUME SomeOrder, NEW w \in Workers, Working(w)', Cycler(w)'
        PROVE  ~Due(task[w].seen)'
    <2>1. Working(w) /\ task'[w].seen = task[w].seen /\ task'[w].kind = task[w].kind
      BY <1>3 DEF SeenKept
    <2>2. Cycler(w)
      BY <1>3, <2>1 DEF Cycler, Working
    <2>3. ~Due(task[w].seen)
      BY <1>3, <2>1, <2>2 DEF DueOK
    <2> QED BY <2>1, <2>3 DEF Due
  <1>4. sub'.status = "active" => sub.status = "active"
    BY DEF RowKept
  <1>5. now <= sub.end => now' <= sub'.end
    BY DEF RowKept
  <1> QED BY <1>2, <1>3, <1>4, <1>5 DEF DueOK

(* Entries are added, and keep the order they have.                        *)
LEMMA BillsKept ==
  ASSUME BillsOK, orders' = orders,
         \A i \in DOMAIN entries : i \in DOMAIN entries' /\ entries'[i].item = entries[i].item,
         \A w \in Workers : task'[w].kind = "order" /\ task'[w].step = "read" =>
           \/ task[w].kind = "order" /\ task[w].step = "read" /\ task'[w].bills = task[w].bills
           \/ task'[w].bills = Pending
  PROVE  BillsOK'
  <1>1. \A o \in DOMAIN orders' : \A i \in orders'[o] :
          i \in DOMAIN entries' /\ entries'[i].item # NoOrder
    BY DEF BillsOK
  <1>2. ASSUME NEW w \in Workers, task'[w].kind = "order", task'[w].step = "read",
               NEW i \in task'[w].bills
        PROVE  i \in DOMAIN entries' /\ entries'[i].item = NoOrder
    BY <1>2 DEF BillsOK, Pending
  <1>3. \A i \in DOMAIN entries' : \A o, p \in DOMAIN orders' :
          i \in orders'[o] /\ i \in orders'[p] => o = p
    <2> SUFFICES ASSUME NEW o \in DOMAIN orders, NEW p \in DOMAIN orders, NEW i \in orders[o],
                        i \in orders[p]
                 PROVE  o = p
      OBVIOUS
    <2> QED BY DEF BillsOK
  <1> QED BY <1>1, <1>2, <1>3 DEF BillsOK

(* The scheduler, the locks and the clock.                                 *)
LEMMA OnceScheduler ==
  ASSUME TypeOK, OnceOK,
         \/ ListDue \/ SendCycle \/ SchedulerCrash \/ LockExpires \/ UNCHANGED vars
         \/ \E w \in Workers : CycleDropped(w)
  PROVE  OnceOK'
  <1>1. /\ sub' = sub /\ task' = task /\ entries' = entries /\ orders' = orders
        /\ jobs' = jobs /\ now' = now
    BY DEF ListDue, SendCycle, SchedulerCrash, LockExpires, vars, CycleDropped
  <1>2. RowKept /\ SeenKept /\ sub'.locked = sub.locked
    BY <1>1, SameTasks DEF RowKept
  <1>3. \A w \in Workers : (Cycler(w)' <=> Cycler(w)) /\ (Loaded(w)' <=> Loaded(w))
    BY <1>1 DEF Cycler, Loaded
  <1>4. OneCycle' /\ (UnderWay' => UnderWay)
    <2>0. cycles \in Nat /\ (ListDue => ~UnderWay)
      <3>1. ASSUME ListDue PROVE ~UnderWay
        <4>1. Due(sub) /\ ~sub.locked
          BY <3>1 DEF ListDue, Schedulable
        <4> QED BY <4>1 DEF OnceOK, DueOK
      <3> QED BY <3>1 DEF TypeOK
    <2>1. CASE ListDue
      BY <1>3, <2>0, <2>1 DEF ListDue, OnceOK, OneCycle, UnderWay
    <2>2. CASE SendCycle
      <3>1. cycles = 0 /\ \A w \in Workers : ~Cycler(w)
        BY <2>0, <2>2 DEF SendCycle, OnceOK, OneCycle
      <3>2. cycles' = 1 /\ scheduler' = "idle" /\ scheduler = "locked"
        BY <2>2, <3>1 DEF SendCycle
      <3> QED BY <1>3, <3>1, <3>2 DEF OneCycle, UnderWay
    <2>3. CASE ~ListDue /\ ~SendCycle
      <3>1. /\ cycles' \in Nat /\ cycles' <= cycles
            /\ scheduler' = scheduler \/ scheduler' = "idle"
        BY <2>0, <2>3 DEF SchedulerCrash, LockExpires, vars, CycleDropped
      <3>2. scheduler' = "locked" => scheduler = "locked"
        BY <3>1
      <3> QED BY <1>3, <2>0, <3>1, <3>2 DEF OnceOK, OneCycle, UnderWay
    <2> QED BY <2>1, <2>2, <2>3
  <1>5. OneOrder' /\ (SomeOrder' => SomeOrder)
    BY <1>1, <1>3 DEF OnceOK, OneOrder, SomeOrder
  <1>6. DueOK'
    <2>1. CASE scheduler' # "idle" => scheduler # "idle"
      BY <1>1, <1>2, <1>4, <1>5, <2>1, DueKept DEF OnceOK
    <2>2. CASE ListDue
      <3>1. ~sub.locked
        BY <2>2 DEF ListDue, Schedulable
      <3>2. sub.status = "active" => now <= sub.end
        BY <3>1 DEF OnceOK, DueOK
      <3>3. Due(sub)' = Due(sub) /\ \A w \in Workers : Due(task[w].seen)' = Due(task[w].seen)
        BY <1>1 DEF Due
      <3>4. \A w \in Workers : Working(w)' = Working(w)
        BY <1>1 DEF Working
      <3> QED BY <1>1, <1>3, <1>4, <1>5, <3>2, <3>3, <3>4 DEF OnceOK, DueOK
    <2> QED BY <2>1, <2>2 DEF SendCycle, SchedulerCrash, LockExpires, vars, CycleDropped
  <1>7. BillsOK'
    BY <1>1, BillsKept DEF OnceOK
  <1> QED BY <1>2, <1>4, <1>5, <1>6, <1>7, PlainKept, CyclersKept DEF OnceOK

(* The scheduler locks the row only when nobody is renewing it.            *)
LEMMA OnceLock ==
  ASSUME TypeOK, OnceOK, LockDue
  PROVE  OnceOK'
  <1>1. /\ task' = task /\ entries' = entries /\ orders' = orders /\ jobs' = jobs
        /\ now' = now /\ cycles' = cycles /\ scheduler = "listed" /\ scheduler' = "locked"
    BY DEF LockDue
  <1>2. /\ sub'.start = sub.start /\ sub'.end = sub.end /\ sub'.interval = sub.interval
        /\ sub'.status = sub.status /\ sub'.locked = TRUE
    BY DEF LockDue, TypeOK, Row
  <1>3. RowKept /\ SeenKept
    BY <1>1, <1>2, SameTasks DEF RowKept
  <1>4. \A w \in Workers : /\ Cycler(w)' = Cycler(w) /\ Loaded(w)' = Loaded(w)
                           /\ Working(w)' = Working(w)
    BY <1>1 DEF Cycler, Loaded, Working
  <1>5. OneCycle'
    BY <1>1, <1>4 DEF OnceOK, OneCycle
  <1>6. OneOrder' /\ (SomeOrder' => SomeOrder)
    BY <1>1, <1>4 DEF OnceOK, OneOrder, SomeOrder
  <1>7. DueOK'
    <2>1. Due(sub)' = Due(sub) /\ \A w \in Workers : Due(task[w].seen)' = Due(task[w].seen)
      BY <1>1, <1>2 DEF Due, Active
    <2>2. sub.status = "active" => now <= sub.end
      BY <1>1 DEF OnceOK, DueOK
    <2> QED BY <1>1, <1>2, <1>4, <1>6, <2>1, <2>2 DEF OnceOK, DueOK
  <1>8. BillsOK'
    BY <1>1, BillsKept DEF OnceOK
  <1> QED BY <1>3, <1>5, <1>6, <1>7, <1>8, PlainKept, CyclersKept DEF OnceOK

(* The clock goes on when there is nothing to do.                          *)
LEMMA OnceTick ==
  ASSUME TypeOK, OnceOK, OneAtATime, Tick
  PROVE  OnceOK'
  <1>1. /\ task' = task /\ entries' = entries /\ orders' = orders /\ jobs' = jobs
        /\ sub' = sub /\ now' = now + 1 /\ cycles' = cycles /\ scheduler' = scheduler
    BY DEF Tick
  <1>2. /\ cycles = 0 /\ jobs = 0 /\ scheduler = "idle" /\ ~Schedulable(sub)
        /\ \A w \in Workers : task[w].step = "idle"
    BY DEF Tick, OneAtATime, Without, NothingToDo, Unbusy
  <1>3. \A w \in Workers : ~Cycler(w)' /\ ~Loaded(w)' /\ ~Working(w)'
    BY <1>1, <1>2 DEF Cycler, Loaded, Working
  <1>4. RowKept /\ SeenKept
    BY <1>1, SameTasks DEF RowKept
  <1>5. OneCycle' /\ OneOrder' /\ ~SomeOrder' /\ ~UnderWay'
    BY <1>1, <1>2, <1>3 DEF OneCycle, OneOrder, SomeOrder, UnderWay
  <1>6. sub.status = "active" /\ ~sub.locked => now + 1 <= sub.end
    <2>1. now \in Nat /\ sub.end \in Nat
      BY DEF TypeOK, Row
    <2>2. ~sub.locked => ~Due(sub)
      BY <1>2 DEF Schedulable
    <2> QED BY <2>1, <2>2 DEF Due, Active
  <1>7. DueOK'
    BY <1>1, <1>2, <1>5, <1>6 DEF DueOK
  <1>8. BillsOK'
    BY <1>1, BillsKept DEF OnceOK
  <1> QED BY <1>4, <1>5, <1>7, <1>8, PlainKept, CyclersKept DEF OnceOK

(* A task or request begins.                                               *)
LEMMA OnceCycleBegin ==
  ASSUME TypeOK, OnceOK, NEW w \in Workers, CycleBegin(w)
  PROVE  OnceOK'
  <1>1. /\ sub' = sub /\ entries' = entries /\ orders' = orders /\ jobs' = jobs
        /\ now' = now /\ scheduler' = scheduler
    BY DEF CycleBegin
  <1>2. /\ Others(w) /\ task[w].step = "idle" /\ task'[w].step = "read"
        /\ task'[w].kind = "cycle" /\ task'[w].seen = sub /\ task'[w].job = FALSE
    BY CycleBegins
  <1>3. /\ cycles = 1 /\ cycles' = 0 /\ scheduler = "idle" /\ UnderWay
        /\ \A v \in Workers : ~Cycler(v)
    BY DEF CycleBegin, OnceOK, OneCycle, UnderWay, TypeOK
  <1>4. /\ \A v \in Workers : Loaded(v)' => Loaded(v)
        /\ \A v \in Workers : Cycler(v)' => v = w
        /\ \A v \in Workers : v # w => Working(v)' = Working(v)
    BY <1>2, <1>3 DEF Others, Loaded, Cycler, Working
  <1>5. PlainOK'
    <2>1. ASSUME NEW v \in Workers, Working(v)' PROVE Plain(task[v].seen)'
      <3>1. CASE v = w
        <4>1. Plain(sub) /\ task'[v].seen = sub
          BY <1>2, <3>1 DEF OnceOK, PlainOK
        <4> QED BY <4>1 DEF Plain, Regular
      <3>2. CASE v # w
        <4>1. Working(v) /\ task'[v] = task[v]
          BY <1>2, <1>4, <2>1, <3>2 DEF Others
        <4>2. Plain(task[v].seen)
          BY <4>1 DEF OnceOK, PlainOK
        <4> QED BY <4>1, <4>2 DEF Plain, Regular
      <3> QED BY <3>1, <3>2
    <2>2. Plain(sub)'
      BY <1>1 DEF OnceOK, PlainOK, Plain, Regular
    <2> QED BY <2>1, <2>2 DEF PlainOK
  <1>6. OneCycle'
    BY <1>1, <1>3, <1>4 DEF OneCycle
  <1>7. OneOrder' /\ (SomeOrder' => SomeOrder)
    BY <1>1, <1>4 DEF OnceOK, OneOrder, SomeOrder
  <1>8. \A v \in Workers : CyclerOK(v)'
    BY <1>1, <1>2, <1>4 DEF CyclerOK
  <1>9. DueOK'
    <2>1. Due(sub)' = Due(sub) /\ Due(task[w].seen)' = Due(sub)
      BY <1>1, <1>2 DEF Due
    <2> QED BY <1>1, <1>3, <1>4, <1>7, <2>1 DEF OnceOK, DueOK
  <1>10. BillsOK'
    <2>1. \A v \in Workers : task'[v].kind = "order" =>
            task[v].kind = "order" /\ task'[v] = task[v]
      BY <1>2 DEF Others
    <2> QED BY <1>1, <2>1, BillsKept DEF OnceOK
  <1> QED BY <1>5, <1>6, <1>7, <1>8, <1>9, <1>10 DEF OnceOK

LEMMA OnceRequestBegin ==
  ASSUME TypeOK, OnceOK, NEW w \in Workers, NEW kind \in Requests, NEW date,
         RequestBegin(w, kind, date)
  PROVE  OnceOK'
  <1>1. /\ sub' = sub /\ entries' = entries /\ orders' = orders /\ jobs' = jobs
        /\ now' = now /\ scheduler' = scheduler /\ cycles' = cycles
    BY DEF RequestBegin
  <1>2. /\ Others(w) /\ task[w].step = "idle" /\ task'[w].step = "read"
        /\ task'[w].kind = kind /\ task'[w].seen = sub /\ task'[w].job = FALSE
    BY RequestBegins
  <1>3. kind \notin {"cycle", "order"}
    BY DEF Requests, SeatRequests, ProductRequests
  <1>4. /\ \A v \in Workers : Loaded(v)' => Loaded(v)
        /\ \A v \in Workers : Cycler(v)' => Cycler(v) /\ v # w
        /\ \A v \in Workers : v # w => Working(v)' = Working(v)
    BY <1>2, <1>3 DEF Others, Loaded, Cycler, Working
  <1>5. PlainOK'
    <2>1. ASSUME NEW v \in Workers, Working(v)' PROVE Plain(task[v].seen)'
      <3>1. CASE v = w
        <4>1. Plain(sub) /\ task'[v].seen = sub
          BY <1>2, <3>1 DEF OnceOK, PlainOK
        <4> QED BY <4>1 DEF Plain, Regular
      <3>2. CASE v # w
        <4>1. Working(v) /\ task'[v] = task[v]
          BY <1>2, <1>4, <2>1, <3>2 DEF Others
        <4>2. Plain(task[v].seen)
          BY <4>1 DEF OnceOK, PlainOK
        <4> QED BY <4>1, <4>2 DEF Plain, Regular
      <3> QED BY <3>1, <3>2
    <2>2. Plain(sub)'
      BY <1>1 DEF OnceOK, PlainOK, Plain, Regular
    <2> QED BY <2>1, <2>2 DEF PlainOK
  <1>6. OneCycle' /\ (UnderWay' => UnderWay)
    BY <1>1, <1>4 DEF OnceOK, OneCycle, UnderWay
  <1>7. OneOrder' /\ (SomeOrder' => SomeOrder)
    BY <1>1, <1>4 DEF OnceOK, OneOrder, SomeOrder
  <1>8. \A v \in Workers : CyclerOK(v)'
    BY <1>1, <1>2, <1>4 DEF OnceOK, CyclerOK, Others
  <1>9. DueOK'
    <2>1. /\ Due(sub)' = Due(sub)
          /\ \A v \in Workers : v # w => Due(task[v].seen)' = Due(task[v].seen)
      BY <1>1, <1>2 DEF Due, Others
    <2> QED BY <1>1, <1>4, <1>6, <1>7, <2>1 DEF OnceOK, DueOK
  <1>10. BillsOK'
    <2>1. \A v \in Workers : task'[v].kind = "order" =>
            task[v].kind = "order" /\ task'[v] = task[v]
      BY <1>2, <1>3 DEF Others
    <2> QED BY <1>1, <2>1, BillsKept DEF OnceOK
  <1> QED BY <1>5, <1>6, <1>7, <1>8, <1>9, <1>10 DEF OnceOK

LEMMA OnceOrderBegin ==
  ASSUME TypeOK, OnceOK, NEW w \in Workers, OrderBegin(w)
  PROVE  OnceOK'
  <1>1. /\ sub' = sub /\ entries' = entries /\ orders' = orders /\ cycles' = cycles
        /\ now' = now /\ scheduler' = scheduler
    BY DEF OrderBegin
  <1>2. /\ Others(w) /\ task[w].step = "idle" /\ task'[w].step = "read"
        /\ task'[w].kind = "order" /\ task'[w].bills = Pending
    BY OrderBegins
  <1>3. jobs = 1 /\ jobs' = 0 /\ SomeOrder /\ \A v \in Workers : ~Loaded(v)
    BY DEF OrderBegin, OnceOK, OneOrder, SomeOrder, TypeOK
  <1>4. /\ \A v \in Workers : Loaded(v)' => v = w
        /\ \A v \in Workers : Cycler(v)' => Cycler(v)
    BY <1>2, <1>3 DEF Others, Loaded, Cycler
  <1>5. RowKept /\ SeenKept
    BY <1>1, <1>2, WorkerStops DEF RowKept
  <1>6. OneCycle' /\ (UnderWay' => UnderWay)
    BY <1>1, <1>4 DEF OnceOK, OneCycle, UnderWay
  <1>7. OneOrder'
    BY <1>3, <1>4 DEF OneOrder
  <1>8. DueOK'
    BY <1>1, <1>3, <1>5, <1>6, DueKept DEF OnceOK
  <1>9. BillsOK'
    <2>1. \A v \in Workers : v # w => task'[v] = task[v]
      BY <1>2 DEF Others
    <2> QED BY <1>1, <1>2, <2>1, BillsKept DEF OnceOK
  <1> QED BY <1>5, <1>6, <1>7, <1>8, <1>9, PlainKept, CyclersKept DEF OnceOK

LEMMA OnceRequestGoesOn ==
  ASSUME TypeOK, OnceOK, NEW w \in Workers, RequestLock(w) \/ RequestUnlock(w)
  PROVE  OnceOK'
  <1>1. /\ sub' = sub /\ entries' = entries /\ orders' = orders /\ cycles' = cycles
        /\ now' = now /\ scheduler' = scheduler /\ jobs' = jobs
    BY DEF RequestLock, RequestUnlock
  <1>2. /\ Others(w) /\ task[w].step \in {"read", "locked"} /\ task[w].kind \in Requests
        /\ task'[w].step \in {"locked", "unlocked"} /\ task'[w].kind = task[w].kind
        /\ task'[w].seen = task[w].seen /\ task'[w].job = task[w].job
    BY RequestGoesOn DEF IsRequest
  <1>3. task[w].kind # "order"
    BY <1>2 DEF Requests, SeatRequests, ProductRequests
  <1>4. \A v \in Workers : Loaded(v)' = Loaded(v) /\ Cycler(v)' = Cycler(v)
    BY <1>2 DEF Others, Loaded, Cycler
  <1>5. RowKept /\ SeenKept
    BY <1>1, <1>2, <1>3 DEF RowKept, SeenKept, Others, Working
  <1>6. OneCycle' /\ (UnderWay' => UnderWay)
    BY <1>1, <1>4 DEF OnceOK, OneCycle, UnderWay
  <1>7. OneOrder' /\ (SomeOrder' => SomeOrder)
    BY <1>1, <1>4 DEF OnceOK, OneOrder, SomeOrder
  <1>8. DueOK'
    BY <1>1, <1>5, <1>6, <1>7, DueKept DEF OnceOK
  <1>9. BillsOK'
    <2>1. \A v \in Workers : v # w => task'[v] = task[v]
      BY <1>2 DEF Others
    <2> QED BY <1>1, <1>2, <2>1, BillsKept DEF OnceOK
  <1> QED BY <1>5, <1>6, <1>7, <1>8, <1>9, PlainKept, CyclersKept DEF OnceOK

(* What a task that ends or crashes leaves is again queued once.           *)
LEMMA OnceEnds ==
  ASSUME TypeOK, OnceOK, NEW w \in Workers, RequestRefused(w) \/ Finish(w) \/ Crash(w)
  PROVE  OnceOK'
  <1>1. /\ sub' = sub /\ entries' = entries /\ orders' = orders
        /\ now' = now /\ scheduler' = scheduler
    BY DEF RequestRefused, Finish, Crash
  <1>2. Others(w) /\ task'[w].step = "idle" /\ task'[w].kind = "cycle"
    BY WorkerEnds
  <1>3. /\ \A v \in Workers : Loaded(v)' => Loaded(v) /\ v # w
        /\ \A v \in Workers : Cycler(v)' => Cycler(v) /\ v # w
    BY <1>2 DEF Others, Loaded, Cycler
  <1>4. cycles' = cycles \/ (Cycler(w) /\ cycles' = cycles + 1)
    <2>1. CASE Crash(w)
      BY <2>1 DEF Crash, Cycler
    <2>2. CASE RequestRefused(w) \/ Finish(w)
      BY <2>2 DEF RequestRefused, Finish
    <2> QED BY <2>1, <2>2
  <1>5. jobs' = jobs \/ (Loaded(w) /\ jobs' = jobs + 1)
    <2>1. CASE Crash(w)
      BY <2>1 DEF Crash, Loaded
    <2>2. CASE Finish(w)
      BY <2>2 DEF Finish, Loaded
    <2>3. CASE RequestRefused(w)
      BY <2>3 DEF RequestRefused
    <2> QED BY <2>1, <2>2, <2>3
  <1>6. RowKept /\ SeenKept
    BY <1>1, <1>2, WorkerStops DEF RowKept
  <1>7. OneCycle' /\ (UnderWay' => UnderWay)
    <2>1. CASE cycles' = cycles
      BY <1>1, <1>3, <2>1 DEF OnceOK, OneCycle, UnderWay
    <2>2. CASE Cycler(w) /\ cycles' = cycles + 1
      <3>1. /\ cycles' = 1 /\ scheduler' = "idle" /\ UnderWay
            /\ \A v \in Workers : ~Cycler(v)'
        BY <1>1, <1>3, <2>2 DEF OnceOK, OneCycle, UnderWay
      <3> QED BY <3>1 DEF OneCycle
    <2> QED BY <1>4, <2>1, <2>2
  <1>8. OneOrder' /\ (SomeOrder' => SomeOrder)
    <2>1. CASE jobs' = jobs
      BY <1>3, <2>1 DEF OnceOK, OneOrder, SomeOrder
    <2>2. CASE Loaded(w) /\ jobs' = jobs + 1
      <3>1. jobs' = 1 /\ SomeOrder /\ \A v \in Workers : ~Loaded(v)'
        BY <1>3, <2>2 DEF OnceOK, OneOrder, SomeOrder
      <3> QED BY <3>1 DEF OneOrder
    <2> QED BY <1>5, <2>1, <2>2
  <1>9. DueOK'
    BY <1>1, <1>6, <1>7, <1>8, DueKept DEF OnceOK
  <1>10. BillsOK'
    <2>1. \A v \in Workers : task'[v].kind = "order" => task'[v] = task[v]
      BY <1>2 DEF Others
    <2> QED BY <1>1, <2>1, BillsKept DEF OnceOK
  <1> QED BY <1>6, <1>7, <1>8, <1>9, <1>10, PlainKept, CyclersKept DEF OnceOK

(* The task that finds the subscription cycled already unlocks a row that  *)
(* is not due.                                                             *)
LEMMA OnceSkipped ==
  ASSUME TypeOK, OnceOK, NEW w \in Workers, CycleSkipped(w)
  PROVE  OnceOK'
  <1>1. /\ entries' = entries /\ orders' = orders /\ cycles' = cycles /\ jobs' = jobs
        /\ now' = now /\ scheduler' = scheduler
    BY DEF CycleSkipped
  <1>2. /\ Others(w) /\ task[w].step = "read" /\ task'[w].step = "committed"
        /\ task[w].kind = "cycle" /\ task'[w].kind = "cycle" /\ task'[w].job = task[w].job
    BY WorkerCommits DEF CycleSkipped, Cycling
  <1>3. \A v \in Workers : Loaded(v)' = Loaded(v) /\ Cycler(v)' = Cycler(v)
    BY <1>2 DEF Others, Loaded, Cycler
  <1>4. RowKept /\ SeenKept /\ ~Working(w)'
    BY <1>2, SkippedFields, WorkerStops DEF RowKept
  <1>5. Working(w) /\ Cycler(w) /\ ~Due(task[w].seen)
    BY <1>2 DEF CycleSkipped, Working, Cycler
  <1>6. sub.status = "active" => now < sub.end
    <2>1. /\ task[w].seen.end = sub.end /\ task[w].seen.status \in {"active", "canceled"}
          /\ task[w].seen.status = "canceled" => sub.status = "canceled"
      BY <1>5 DEF OnceOK, CyclerOK, PlainOK, Plain
    <2>2. now \in Nat /\ sub.end \in Nat
      BY DEF TypeOK, Row
    <2> QED BY <1>5, <2>1, <2>2 DEF Due, Active
  <1>7. OneCycle'
    BY <1>1, <1>3 DEF OnceOK, OneCycle
  <1>8. OneOrder' /\ (SomeOrder' => SomeOrder)
    BY <1>1, <1>3 DEF OnceOK, OneOrder, SomeOrder
  <1>9. DueOK'
    <2>1. sub'.status = sub.status /\ sub'.end = sub.end
      BY SkippedFields
    <2>2. ~Due(sub)'
      <3>1. sub.status \in {"active", "canceled"} /\ now \in Nat /\ sub.end \in Nat
        BY DEF OnceOK, PlainOK, Plain, TypeOK, Row
      <3> QED BY <1>1, <1>6, <2>1, <3>1 DEF Due, Active
    <2>3. sub'.status = "active" => now' <= sub'.end
      <3>1. now \in Nat /\ sub.end \in Nat
        BY DEF TypeOK, Row
      <3> QED BY <1>1, <1>6, <2>1, <3>1
    <2>4. ASSUME SomeOrder', NEW v \in Workers, Working(v)', Cycler(v)'
          PROVE  FALSE
      <3>1. v # w /\ Cycler(v)
        BY <1>3, <1>4, <2>4
      <3> QED BY <1>5, <3>1 DEF OnceOK, OneCycle
    <2> QED BY <2>2, <2>3, <2>4 DEF DueOK
  <1>10. BillsOK'
    <2>1. \A v \in Workers : task'[v].kind = "order" /\ task'[v].step = "read" =>
            task'[v] = task[v]
      BY <1>2 DEF Others
    <2> QED BY <1>1, <2>1, BillsKept DEF OnceOK
  <1> QED BY <1>4, <1>7, <1>8, <1>9, <1>10, PlainKept, CyclersKept DEF OnceOK

(* The order takes entries that have no order.                             *)
LEMMA OnceOrder ==
  ASSUME TypeOK, OnceOK, NEW w \in Workers, OrderCommit(w)
  PROVE  OnceOK'
  <1> DEFINE bills == task[w].bills
             o == Len(orders) + 1
  <1>1. /\ sub' = sub /\ cycles' = cycles /\ jobs' = jobs /\ now' = now
        /\ scheduler' = scheduler
    BY DEF OrderCommit
  <1>2. /\ Others(w) /\ task[w].step = "read" /\ task'[w].step = "committed"
        /\ task[w].kind = "order" /\ task'[w].kind = "order" /\ task'[w].job = task[w].job
    BY WorkerCommits DEF OrderCommit
  <1>3. \A v \in Workers : Loaded(v)' = Loaded(v) /\ Cycler(v)' = Cycler(v)
    BY <1>2 DEF Others, Loaded, Cycler
  <1>4. RowKept /\ SeenKept
    BY <1>1, <1>2, WorkerStops DEF RowKept
  <1>5. OneCycle' /\ (UnderWay' => UnderWay)
    BY <1>1, <1>3 DEF OnceOK, OneCycle, UnderWay
  <1>6. OneOrder' /\ (SomeOrder' => SomeOrder)
    BY <1>1, <1>3 DEF OnceOK, OneOrder, SomeOrder
  <1>7. DueOK'
    BY <1>1, <1>4, <1>5, <1>6, DueKept DEF OnceOK
  <1>8. BillsOK'
    <2>1. CASE bills = {}
      <3>1. entries' = entries /\ orders' = orders
        BY <2>1 DEF OrderCommit
      <3>2. \A v \in Workers : task'[v].kind = "order" /\ task'[v].step = "read" =>
              task'[v] = task[v]
        BY <1>2 DEF Others
      <3> QED BY <3>1, <3>2, BillsKept DEF OnceOK
    <2>2. CASE bills # {}
      <3>1. orders' = Append(orders, bills) /\ entries' = Billed(entries, bills, o)
        BY <2>2 DEF OrderCommit
      <3>2. orders \in Seq(SUBSET (Nat \ {0})) /\ bills \in SUBSET (Nat \ {0})
        BY TaskType DEF TypeOK
      <3>3. entries \in Seq(Entry) /\ o \in Nat /\ o # NoOrder
        BY DEF TypeOK, NoOrder
      <3>4. /\ \A i \in bills : i \in DOMAIN entries /\ entries[i].item = NoOrder
            /\ \A p \in DOMAIN orders : \A i \in orders[p] :
                 i \in DOMAIN entries /\ entries[i].item # NoOrder
            /\ \A i \in DOMAIN entries : \A p, q \in DOMAIN orders :
                 i \in orders[p] /\ i \in orders[q] => p = q
        BY <1>2 DEF OnceOK, BillsOK
      <3>5. /\ DOMAIN entries' = DOMAIN entries
            /\ \A i \in DOMAIN entries : /\ entries[i].item # NoOrder => entries'[i].item # NoOrder
                                         /\ i \in bills => entries'[i].item # NoOrder
        BY <3>1, <3>3, BilledProperties
      <3> HIDE DEF bills
      <3>6. /\ DOMAIN orders' = DOMAIN orders \cup {o} /\ o \notin DOMAIN orders
            /\ orders'[o] = bills /\ \A p \in DOMAIN orders : orders'[p] = orders[p]
        BY <3>1, <3>2
      <3> HIDE DEF o
      <3>7. \A p \in DOMAIN orders' : \A i \in orders'[p] :
              i \in DOMAIN entries' /\ entries'[i].item # NoOrder
        BY <3>4, <3>5, <3>6
      <3>8. \A v \in Workers : ~(task'[v].kind = "order" /\ task'[v].step = "read")
        <4>1. ASSUME NEW v \in Workers, task'[v].kind = "order", task'[v].step = "read"
              PROVE  FALSE
          <5>1. v # w /\ Loaded(v) /\ Loaded(w)
            BY <1>2, <4>1 DEF Others, Loaded
          <5> QED BY <5>1 DEF OnceOK, OneOrder
        <4> QED BY <4>1
      <3>9. ASSUME NEW p \in DOMAIN orders', NEW q \in DOMAIN orders',
                   NEW i, i \in orders'[p], i \in orders'[q]
            PROVE  p = q
        <4>1. CASE p = o
          BY <3>4, <3>6, <3>9, <4>1
        <4>2. CASE q = o
          BY <3>4, <3>6, <3>9, <4>2
        <4>3. CASE p # o /\ q # o
          <5>1. p \in DOMAIN orders /\ q \in DOMAIN orders /\ i \in orders[p] /\ i \in orders[q]
            BY <3>6, <3>9, <4>3
          <5> QED BY <3>4, <5>1
        <4> QED BY <4>1, <4>2, <4>3
      <3> QED BY <3>7, <3>8, <3>9 DEF BillsOK
    <2> QED BY <2>1, <2>2
  <1> QED BY <1>4, <1>5, <1>6, <1>7, <1>8, PlainKept, CyclersKept DEF OnceOK

(* The requests that may be made move neither the period nor its end.      *)
LEMMA OnceRequest ==
  ASSUME TypeOK, OnceOK, OneAtATime, RequestInv, NEW w \in Workers, RequestCommit(w)
  PROVE  OnceOK'
  <1> DEFINE seen == task[w].seen
             kind == task[w].kind
             new == Updated(kind, seen, task[w].date)
  <1>1. /\ orders' = orders \/ Invoices(kind, seen)
        /\ cycles' = cycles /\ jobs' = jobs /\ now' = now /\ scheduler' = scheduler
    BY DEF RequestCommit
  <1>2. /\ Working(w) /\ IsRequest(w) /\ kind \in Requests
    BY DEF RequestCommit, IsRequest, Working, Requests, SeatRequests, ProductRequests
  <1>3. Plain(seen) /\ kind \in environment /\ Accepted(kind, seen, task[w].date)
    BY <1>2 DEF OnceOK, PlainOK, RequestInv
  <1>4. kind \notin {"trial_now", "trial_set", "extend", "seats_invoice", "product_invoice",
                    "interval"}
    BY <1>3, AcceptedFields DEF OneAtATime, Without, Plain
  <1>5. orders' = orders /\ ~Invoices(kind, seen)
    BY <1>1, <1>4 DEF Invoices
  <1>6. /\ Others(w) /\ task[w].step = "unlocked" /\ task'[w].step = "committed"
        /\ task'[w].kind = kind /\ task'[w].job = FALSE
    BY <1>4, WorkerCommits DEF RequestCommit
  <1>7. kind \notin {"order", "cycle"}
    BY <1>2 DEF Requests, SeatRequests, ProductRequests
  <1>8. \A v \in Workers : (Loaded(v)' => Loaded(v)) /\ Cycler(v)' = Cycler(v)
    BY <1>6, <1>7 DEF Others, Loaded, Cycler
  <1>9. RowKept /\ sub'.locked = sub.locked
    <2>1. seen \in Row
      BY TaskType
    <2>2. /\ new.start = seen.start /\ new.end = seen.end /\ new.interval = seen.interval
          /\ new.locked = seen.locked
          /\ new.status \in {seen.status, "canceled"}
      BY <1>2, <1>3, <1>4, <2>1, UpdatedFields DEF Plain, Regular
    <2>3. sub' = Merge(new, seen, {})
      BY <1>4 DEF RequestCommit
    <2> HIDE DEF new, seen, kind
    <2> QED BY <2>2, <2>3, MergedFields DEF RowKept
  <1>10. SeenKept
    BY <1>6, WorkerStops
  <1>11. OneCycle' /\ (UnderWay' => UnderWay)
    BY <1>1, <1>8 DEF OnceOK, OneCycle, UnderWay
  <1>12. OneOrder' /\ (SomeOrder' => SomeOrder)
    BY <1>1, <1>8 DEF OnceOK, OneOrder, SomeOrder
  <1>13. DueOK'
    BY <1>1, <1>9, <1>10, <1>11, <1>12, DueKept DEF OnceOK
  <1>14. BillsOK'
    <2>1. \A i \in DOMAIN entries : i \in DOMAIN entries' /\ entries'[i].item = entries[i].item
      <3> DEFINE es == entries \o Inserted(kind, seen, task[w].date)
      <3>1. entries' = es /\ \A i \in DOMAIN entries : i \in DOMAIN es /\ es[i] = entries[i]
        BY <1>5, RequestEntries DEF TypeOK
      <3> QED BY <3>1
    <2>2. \A v \in Workers : task'[v].kind = "order" /\ task'[v].step = "read" =>
            task'[v] = task[v]
      BY <1>6 DEF Others
    <2> QED BY <1>5, <2>1, <2>2, BillsKept DEF OnceOK
  <1> QED BY <1>9, <1>10, <1>11, <1>12, <1>13, <1>14, PlainKept, CyclersKept DEF OnceOK

(* A renewal: of what is due, when no order is under way.  It makes the    *)
(* subscription end after now, or cancels it.                              *)
LEMMA OnceCycle ==
  ASSUME TypeOK, OnceOK, NEW w \in Workers, CycleCommit(w)
  PROVE  OnceOK'
  <1> DEFINE seen == task[w].seen
             new == Cycled(seen)
  <1>1. /\ orders' = orders /\ cycles' = cycles /\ jobs' = jobs /\ now' = now
        /\ scheduler' = scheduler /\ Due(seen)
    BY DEF CycleCommit
  <1>2. /\ Others(w) /\ task[w].step = "read" /\ task'[w].step = "committed"
        /\ task[w].kind = "cycle" /\ task'[w].kind = "cycle"
    BY WorkerCommits DEF CycleCommit, Cycling
  <1>3. Working(w) /\ Cycler(w) /\ UnderWay /\ SeenKept /\ ~Working(w)'
    BY <1>2, WorkerStops DEF Working, Cycler, UnderWay
  <1>4. ~SomeOrder
    BY <1>1, <1>3 DEF OnceOK, DueOK
  <1>5. /\ \A v \in Workers : Loaded(v)' => v = w
        /\ \A v \in Workers : Cycler(v)' = Cycler(v)
        /\ \A v \in Workers : ~(Working(v)' /\ Cycler(v)')
    <2>1. \A v \in Workers : Cycler(v)' = Cycler(v)
      BY <1>2 DEF Others, Cycler
    <2>2. \A v \in Workers : Loaded(v)' => v = w
      BY <1>2, <1>4 DEF Others, Loaded, SomeOrder
    <2>3. \A v \in Workers : Cycler(v) => v = w
      BY <1>3 DEF OnceOK, OneCycle
    <2> QED BY <1>3, <2>1, <2>2, <2>3
  <1>6. /\ seen \in Row /\ seen.start = sub.start /\ seen.end = sub.end
        /\ seen.status = "active" /\ seen.end <= now
        /\ sub.status \in {"active", "canceled"} /\ Regular(sub)
        /\ seen.interval = Interval /\ sub.interval = Interval
        /\ Interval \in Nat /\ Interval > 0
        /\ seen.end \in Nat /\ now \in Nat /\ seen.cancel \in BOOLEAN
    <2>1. seen \in Row /\ now \in Nat
      BY TaskType DEF TypeOK
    <2>2. Plain(seen) /\ CyclerOK(w) /\ Plain(sub)
      BY <1>3 DEF OnceOK, PlainOK
    <2>3. seen.end \in Nat /\ seen.cancel \in BOOLEAN
      BY <2>1 DEF Row
    <2> QED BY <1>1, <1>3, <2>1, <2>2, <2>3, IntervalAssumption DEF Plain, CyclerOK, Due, Active
  <1>7. sub.status = "active" => now = sub.end
    <2>1. sub.status = "active" => now <= sub.end
      BY <1>3 DEF OnceOK, DueOK
    <2>2. sub.end \in Nat
      BY DEF TypeOK, Row
    <2> QED BY <1>6, <2>1, <2>2
  <1>8. sub' = Merge(new, seen, {"locked"})
    BY DEF CycleCommit
  <1>9. /\ sub'.end = sub'.start + Interval /\ sub'.interval = Interval
        /\ sub'.status \in {"active", "canceled"}
        /\ sub'.status = "active" => sub.status = "active" /\ now < sub'.end
    <2>1. CASE seen.cancel
      <3>1. /\ new.start = seen.start /\ new.end = seen.end /\ new.status = "canceled"
            /\ new.interval = seen.interval
        BY <1>6, <2>1 DEF Cycled, CycleRevoked, Row
      <3>2. /\ sub'.start = sub.start /\ sub'.end = sub.end /\ sub'.status = "canceled"
            /\ sub'.interval = sub.interval
        <4> HIDE DEF new, seen
        <4> QED BY <1>6, <1>8, <3>1, MergedFields
      <3> QED BY <1>6, <3>2 DEF Regular
    <2>2. CASE ~seen.cancel
      <3>1. /\ new.start = seen.end /\ new.end = seen.end + Interval /\ new.status = "active"
            /\ new.interval = seen.interval
        BY <1>6, <2>2 DEF Cycled, CycleRenewed, Row
      <3>2. /\ sub'.start = (IF new.start = seen.start THEN sub.start ELSE new.start)
            /\ sub'.end = (IF new.end = seen.end THEN sub.end ELSE new.end)
            /\ sub'.status = sub.status /\ sub'.interval = sub.interval
        <4> HIDE DEF new, seen
        <4> QED BY <1>6, <1>8, <3>1, MergedFields
      <3>3. sub'.start = sub.end /\ sub'.end = sub.end + Interval
        BY <1>6, <3>1, <3>2
      <3> QED BY <1>6, <1>7, <3>2, <3>3
    <2> QED BY <1>6, <2>1, <2>2
  <1>10. PlainOK'
    <2>1. Plain(sub)'
      BY <1>9 DEF Plain, Regular
    <2>2. ASSUME NEW v \in Workers, Working(v)' PROVE Plain(task[v].seen)'
      <3>1. Working(v) /\ task'[v].seen = task[v].seen
        BY <1>3, <2>2 DEF SeenKept
      <3>2. Plain(task[v].seen)
        BY <3>1 DEF OnceOK, PlainOK
      <3> QED BY <3>1, <3>2 DEF Plain, Regular
    <2> QED BY <2>1, <2>2 DEF PlainOK
  <1>11. OneCycle'
    BY <1>1, <1>5 DEF OnceOK, OneCycle
  <1>12. OneOrder'
    <2>1. jobs' = 0
      BY <1>1, <1>4 DEF SomeOrder, TypeOK
    <2> QED BY <1>5, <2>1 DEF OneOrder
  <1>13. \A v \in Workers : CyclerOK(v)'
    BY <1>5 DEF CyclerOK
  <1>14. DueOK'
    <2>1. ~Due(sub)'
      <3>1. sub'.status = "active" => now' < sub'.end /\ sub'.end \in Nat
        <4>1. sub' \in Row
          BY TypeStep DEF TypeOK, Next, Proceed
        <4> QED BY <1>1, <1>9, <4>1 DEF Row
      <3> QED BY <1>1, <1>6, <1>9, <3>1 DEF Due, Active
    <2>2. sub'.status = "active" => now' <= sub'.end
      <3>1. sub' \in Row
        BY TypeStep DEF TypeOK, Next, Proceed
      <3>2. sub'.end \in Nat
        BY <3>1 DEF Row
      <3> QED BY <1>1, <1>6, <1>9, <3>2
    <2> QED BY <1>5, <2>1, <2>2 DEF DueOK
  <1>15. BillsOK'
    <2>1. \A i \in DOMAIN entries : i \in DOMAIN entries' /\ entries'[i].item = entries[i].item
      <3>1. entries' \in {entries, Append(entries, CycleEntry(seen))}
        BY DEF CycleCommit
      <3> QED BY SMTT(60), <3>1 DEF TypeOK
    <2>2. \A v \in Workers : task'[v].kind = "order" /\ task'[v].step = "read" =>
            task'[v] = task[v]
      BY <1>2 DEF Others
    <2> QED BY <1>1, <2>1, <2>2, BillsKept DEF OnceOK
  <1> QED BY <1>10, <1>11, <1>12, <1>13, <1>14, <1>15 DEF OnceOK

LEMMA OnceStep == TypeOK /\ RequestInv /\ OnceInv /\ [Next]_vars => OnceInv'
  <1> SUFFICES ASSUME TypeOK, RequestInv, OnceInv, [Next]_vars, OneAtATime'
               PROVE  OnceOK'
    BY DEF OnceInv
  <1>1. OneAtATime
    BY EnvironmentKept DEF OneAtATime, Without
  <1>2. OnceOK
    BY <1>1 DEF OnceInv
  <1>3. ~PaymentFails /\ ~PaymentSucceeds /\ ~PaymentGivenUp
    BY <1>1 DEF OneAtATime, Without, PaymentFails, PaymentSucceeds, PaymentGivenUp, Pays
  <1>4. ASSUME NEW w \in Workers,
               \/ CycleBegin(w) \/ OrderBegin(w)
               \/ \E kind \in Requests : \E date \in Arguments(kind) : RequestBegin(w, kind, date)
               \/ Proceed(w) \/ Crash(w)
        PROVE  OnceOK'
    BY <1>1, <1>2, <1>4, OnceCycleBegin, OnceOrderBegin, OnceRequestBegin, OnceRequestGoesOn,
       OnceEnds, OnceSkipped, OnceOrder, OnceRequest, OnceCycle DEF Proceed
  <1> QED BY <1>1, <1>2, <1>3, <1>4, OnceScheduler, OnceLock, OnceTick DEF Next, SchedulerStep

LEMMA OnceInit == Init => OnceInv
  <1> SUFFICES ASSUME Init, OneAtATime PROVE OnceOK
    BY DEF OnceInv
  <1>1. /\ sub = [Unread EXCEPT !.end = Interval]
        /\ entries = <<[kind |-> "cycle", from |-> 0, to |-> Interval, item |-> 1]>>
        /\ orders = <<{1}>> /\ cycles = 0 /\ jobs = 0 /\ scheduler = "idle" /\ now = 0
    BY DEF Init, OneAtATime, Without
  <1>2. \A w \in Workers : task[w].step = "idle"
    BY DEF Init, Idle
  <1>3. \A w \in Workers : ~Working(w) /\ ~Cycler(w) /\ ~Loaded(w)
    BY <1>2 DEF Working, Cycler, Loaded
  <1>4. /\ sub.start = 0 /\ sub.end = Interval /\ sub.status = "active"
        /\ sub.interval = Interval /\ sub.end \in Nat /\ sub.end > 0
    BY <1>1, IntervalAssumption DEF Unread
  <1>5. PlainOK /\ OneCycle /\ OneOrder /\ (\A w \in Workers : CyclerOK(w)) /\ ~SomeOrder
    BY <1>1, <1>3, <1>4 DEF PlainOK, Plain, Regular, OneCycle, OneOrder, CyclerOK, SomeOrder
  <1>6. DueOK
    BY <1>1, <1>3, <1>4, <1>5 DEF DueOK, Due
  <1>7. BillsOK
    <2>1. /\ DOMAIN orders = {1} /\ orders[1] = {1}
          /\ DOMAIN entries = {1} /\ entries[1].item = 1
      BY <1>1
    <2> QED BY <1>2, <2>1 DEF BillsOK, NoOrder
  <1> QED BY <1>5, <1>6, <1>7 DEF OnceOK

(* A billing entry is in the amount of at most one order, for every history*)
(* of renewals, crashes, messages delivered again, expired locks and       *)
(* overlapping requests in which renewals keep their distance: the order of*)
(* one renewal is created before the subscription is due again.            *)
THEOREM BilledOnceCorrect == Spec => []BilledOnce
  <1>1. Init => RequestInv /\ OnceInv
    BY PeriodsInit, OnceInit
  <1>2. TypeOK /\ (RequestInv /\ OnceInv) /\ [Next]_vars => (RequestInv /\ OnceInv)'
    BY RequestStep, OnceStep
  <1>3. OnceInv => BilledOnce
    BY DEF OnceInv, OneAtATime, OnceOK, BillsOK, BilledOnce
  <1> QED BY <1>1, <1>2, <1>3, TypeCorrect, PTL DEF Spec

=============================================================================
