---------------------------- MODULE Payouts_proofs --------------------------
(***************************************************************************)
(* Theorems about Payouts, for every value of its constants.               *)
(***************************************************************************)
EXTENDS Payouts, Sums_proofs, SequenceTheorems, TLAPS

-----------------------------------------------------------------------------
(* What tasks, attempts and events refer to.                               *)

Creating == {w \in Workers : task[w].step \in {"summed", "numbered"}}

(* The lock keeps the requests that have read the balance apart.           *)
CreatesOK ==
  /\ \A w \in Creating : lock = w
  /\ Len(payouts) + Cardinality(Inserting) + (IF Creating = {} THEN 0 ELSE 1) <= MaxPayouts

TaskRefs(w) ==
  /\ task[w].step \in {"transferring", "canceling"} => task[w].payout \in DOMAIN payouts
  /\ task[w].step = "triggering" =>
       /\ task[w].trigger.payout = task[w].payout
       /\ task[w].payout \in DOMAIN payouts /\ task[w].at \in DOMAIN paid

MessagesOK ==
  /\ created \subseteq DOMAIN payouts
  /\ \A m \in triggers : m.payout \in DOMAIN payouts

StripeOK ==
  /\ \A i \in DOMAIN paid : paid[i].payout \in DOMAIN payouts
  /\ \A a \in DOMAIN attempts : attempts[a].at \in {0} \cup DOMAIN paid
  /\ \A e \in events : e.at \in DOMAIN paid

RefsOK == (\A w \in Workers : TaskRefs(w)) /\ MessagesOK /\ StripeOK

TypeInv == TypeOK /\ CreatesOK /\ RefsOK

-----------------------------------------------------------------------------
(* Who returns the transfer of a payout that is canceled.                  *)

CanceledBy(w, p) == task[w].step = "canceling" /\ task[w].payout = p

(* What happens to one payout.                                             *)
TransferOK(p) ==
  /\ transfers[p] = "made" =>
       /\ p \in DOMAIN payouts /\ ~payouts[p].canceled
       /\ payouts[p].transferred \/ ToBeTransferred(p)
  /\ ToBeTransferred(p) => ~payouts[p].canceled /\ \A w \in Workers : ~CanceledBy(w, p)
  /\ \A w \in Workers : CanceledBy(w, p) /\ ~task[w].transferred => transfers[p] # "made"

TransfersOK == \A p \in PayoutIds : TransferOK(p)

TransferInv == Without({"early_cancel"}) => TransfersOK

-----------------------------------------------------------------------------
(* What the requests that are under way may still book.                    *)

Booked == Total(payouts, {p \in DOMAIN payouts : ~payouts[p].canceled})

(* What a request has read is no more than what it may book.               *)
BookingOK(w) ==
  /\ task[w].step = "summed" => task[w].amount <= balance
  /\ task[w].step = "numbered" =>
       /\ task[w].number \in 1 .. Len(payouts) + 1
       /\ task[w].number = Len(payouts) + 1 => task[w].amount <= balance
  /\ task[w].step = "inserted" =>
       task[w].number = Len(payouts) + 1 /\ task[w].amount <= balance
  /\ task[w].step = "canceling" => ~payouts[task[w].payout].canceled

Apart(v, w) ==
  /\ task[v].step = "inserted" => task[w].step # "inserted"
  /\ task[v].step = "canceling" =>
       ~(task[w].step = "canceling" /\ task[w].payout = task[v].payout)

BookingsOK ==
  /\ balance >= 0 /\ balance + Booked = earned
  /\ \A w \in Workers : BookingOK(w)
  /\ \A v, w \in Workers : v # w => Apart(v, w)

BookingInv == Without({"overtaken", "impatient"}) => BookingsOK

-----------------------------------------------------------------------------
(* What has been paid out and may still be.                                *)

PaidOf(p) == {i \in DOMAIN paid : paid[i].payout = p /\ paid[i].status # "failed"}

(* The attempt of a payout at Stripe is committed or about to be.          *)
Recorded(i) ==
  \/ \E a \in DOMAIN attempts : /\ attempts[a].at = i
                                /\ attempts[a].payout = paid[i].payout
                                /\ attempts[a].amount = paid[i].amount
  \/ \E w \in Workers : /\ task[w].step = "triggering" /\ task[w].at = i
                        /\ task[w].payout = paid[i].payout
                        /\ task[w].trigger.amount = paid[i].amount

(* A payout that has failed at Stripe never recovers.                      *)
FailuresOK ==
  /\ \A a \in DOMAIN attempts :
       attempts[a].at # 0 /\ attempts[a].status = "failed" =>
         paid[attempts[a].at].status = "failed"
  /\ \A e \in events : e.status = "failed" => paid[e.at].status = "failed"

PaidOut(p) == Total(paid, PaidOf(p))

(* One message at a time triggers a payout, when no other is under way.    *)
TriggerOK(m) ==
  /\ \A n \in triggers : n.payout = m.payout => n = m
  /\ \A w \in Workers : task[w].step = "triggering" => task[w].payout # m.payout
  /\ PaidOut(m.payout) + m.amount <= payouts[m.payout].amount

PaymentsOK ==
  /\ \A i \in DOMAIN paid : Recorded(i)
  /\ FailuresOK
  /\ \A m \in triggers : TriggerOK(m)
  /\ \A p \in DOMAIN payouts : PaidOut(p) <= payouts[p].amount

PaymentInv == Without({"crash", "backlog", "impatient"}) => PaymentsOK

-----------------------------------------------------------------------------
(* Sequences, records and tasks.                                           *)

LEMMA Appended ==
  ASSUME NEW S, NEW q \in Seq(S), NEW x \in S
  PROVE  /\ Append(q, x) \in Seq(S) /\ Len(Append(q, x)) = Len(q) + 1 /\ Len(q) \in Nat
         /\ DOMAIN Append(q, x) = DOMAIN q \cup {Len(q) + 1} /\ Len(q) + 1 \notin DOMAIN q
         /\ \A i \in DOMAIN q : Append(q, x)[i] = q[i]
         /\ Append(q, x)[Len(q) + 1] = x
  <1>1. Len(q) \in Nat /\ DOMAIN q = 1 .. Len(q)
    BY LenProperties
  <1>2. /\ Append(q, x) \in Seq(S) /\ Len(Append(q, x)) = Len(q) + 1
        /\ \A i \in 1 .. Len(q) : Append(q, x)[i] = q[i]
        /\ Append(q, x)[Len(q) + 1] = x
    BY AppendProperties
  <1>3. DOMAIN Append(q, x) = 1 .. Len(q) + 1
    BY <1>2, LenProperties
  <1> QED BY <1>1, <1>2, <1>3

LEMMA SeqFacts ==
  ASSUME NEW S, NEW q \in Seq(S)
  PROVE  /\ Len(q) \in Nat /\ DOMAIN q = 1 .. Len(q) /\ \A i \in DOMAIN q : q[i] \in S
         /\ IsFiniteSet(DOMAIN q)
  <1>1. Len(q) \in Nat /\ DOMAIN q = 1 .. Len(q)
    BY LenProperties
  <1>2. IsFiniteSet(1 .. Len(q))
    BY <1>1, FS_Interval
  <1> QED BY <1>1, <1>2, ElementOfSeq

LEMMA Rewritten ==
  ASSUME NEW S, NEW q \in Seq(S), NEW rows \in [DOMAIN q -> S]
  PROVE  rows \in Seq(S) /\ Len(rows) = Len(q) /\ DOMAIN rows = DOMAIN q
  <1>1. Len(q) \in Nat /\ DOMAIN q = 1 .. Len(q)
    BY LenProperties
  <1>2. rows \in Seq(S)
    BY <1>1, SeqDef
  <1>3. DOMAIN rows = 1 .. Len(rows) /\ Len(rows) \in Nat
    BY <1>2, LenProperties
  <1>4. 1 .. Len(rows) = 1 .. Len(q)
    BY <1>1, <1>3
  <1>5. Len(rows) = Len(q)
    BY <1>1, <1>3, <1>4
  <1> QED BY <1>2, <1>3, <1>4, <1>5, <1>1

LEMMA Replaced ==
  ASSUME NEW S, NEW q \in Seq(S), NEW i \in DOMAIN q, NEW x \in S
  PROVE  /\ [q EXCEPT ![i] = x] \in Seq(S) /\ Len([q EXCEPT ![i] = x]) = Len(q)
         /\ DOMAIN [q EXCEPT ![i] = x] = DOMAIN q
         /\ [q EXCEPT ![i] = x][i] = x
         /\ \A k \in DOMAIN q : k # i => [q EXCEPT ![i] = x][k] = q[k]
  <1> DEFINE rows == [q EXCEPT ![i] = x]
  <1>1. rows \in [DOMAIN q -> S] /\ rows[i] = x /\ \A k \in DOMAIN q : k # i => rows[k] = q[k]
    BY SeqFacts
  <1>2. rows \in Seq(S) /\ Len(rows) = Len(q) /\ DOMAIN rows = DOMAIN q
    BY <1>1, Rewritten
  <1> QED BY <1>1, <1>2

Steps == {"idle", "summed", "numbered", "inserted", "transferring", "triggering",
          "canceling"}

LEMMA TaskType ==
  ASSUME NEW k \in Steps, NEW p \in {0} \cup PayoutIds, NEW a \in Nat, NEW n \in Nat,
         NEW m \in Trigger, NEW i \in Nat, NEW b \in BOOLEAN
  PROVE  [step |-> k, payout |-> p, amount |-> a, number |-> n, trigger |-> m, at |-> i,
          transferred |-> b] \in Task
  BY DEF Task, Steps

LEMMA IdleType == Idle \in Task /\ Idle.step = "idle" /\ Idle.payout = 0
  <1>1. NoTrigger \in Trigger
    BY DEF NoTrigger, Trigger
  <1>2. Idle \in Task
    BY <1>1, TaskType DEF Idle, Steps
  <1> QED BY <1>2 DEF Idle

LEMMA TriggerFields ==
  ASSUME NEW m \in Trigger PROVE m.payout \in {0} \cup PayoutIds /\ m.amount \in Nat
  BY DEF Trigger

LEMMA TriggerType ==
  ASSUME NEW p \in PayoutIds, NEW n \in Nat
  PROVE  [payout |-> p, amount |-> n] \in Trigger
  BY DEF Trigger

LEMMA TaskFields ==
  ASSUME TypeOK, NEW w \in Workers
  PROVE  /\ task[w] \in Task /\ task[w].step \in Steps
         /\ task[w].payout \in {0} \cup PayoutIds
         /\ task[w].amount \in Nat /\ task[w].number \in Nat /\ task[w].trigger \in Trigger
         /\ task[w].at \in Nat /\ task[w].transferred \in BOOLEAN
  <1>1. task[w] \in Task
    BY DEF TypeOK
  <1>2. task[w].step \in Steps /\ task[w].payout \in {0} \cup PayoutIds
    BY <1>1 DEF Task, Steps
  <1>3. task[w].amount \in Nat /\ task[w].number \in Nat /\ task[w].at \in Nat
    BY <1>1 DEF Task
  <1>4. task[w].trigger \in Trigger
    BY <1>1 DEF Task
  <1>5. task[w].transferred \in BOOLEAN
    BY <1>1 DEF Task
  <1> QED BY <1>1, <1>2, <1>3, <1>4, <1>5

LEMMA PayoutFields ==
  ASSUME NEW x \in Payout
  PROVE  /\ x.amount \in Nat /\ x.canceled \in BOOLEAN /\ x.transferred \in BOOLEAN
         /\ x.old \in BOOLEAN
  <1>1. x.amount \in Nat
    BY DEF Payout
  <1>2. x.canceled \in BOOLEAN
    BY DEF Payout
  <1>3. x.transferred \in BOOLEAN
    BY DEF Payout
  <1>4. x.old \in BOOLEAN
    BY DEF Payout
  <1> QED BY <1>1, <1>2, <1>3, <1>4

LEMMA PayoutType ==
  ASSUME NEW n \in Nat, NEW c \in BOOLEAN, NEW t \in BOOLEAN, NEW o \in BOOLEAN
  PROVE  [amount |-> n, canceled |-> c, transferred |-> t, old |-> o] \in Payout
  BY DEF Payout

Statuses == {"pending", "in_transit", "succeeded", "failed"}

LEMMA AttemptFields ==
  ASSUME NEW x \in Attempt
  PROVE  x.payout \in PayoutIds /\ x.amount \in Nat /\ x.at \in Nat /\ x.status \in Statuses
  <1>1. x.payout \in PayoutIds
    BY DEF Attempt
  <1>2. x.amount \in Nat /\ x.at \in Nat
    BY DEF Attempt
  <1>3. x.status \in Statuses
    BY DEF Attempt, Statuses
  <1> QED BY <1>1, <1>2, <1>3

LEMMA AttemptType ==
  ASSUME NEW p \in PayoutIds, NEW n \in Nat, NEW i \in Nat, NEW s \in Statuses
  PROVE  [payout |-> p, amount |-> n, at |-> i, status |-> s] \in Attempt
  BY DEF Attempt, Statuses

LEMMA StripePayoutFields ==
  ASSUME NEW x \in StripePayout
  PROVE  x.payout \in PayoutIds /\ x.amount \in Nat /\ x.status \in Statuses
  <1>1. x.payout \in PayoutIds
    BY DEF StripePayout
  <1>2. x.amount \in Nat
    BY DEF StripePayout
  <1>3. x.status \in Statuses
    BY DEF StripePayout, Statuses
  <1> QED BY <1>1, <1>2, <1>3

LEMMA StripePayoutType ==
  ASSUME NEW p \in PayoutIds, NEW n \in Nat, NEW s \in Statuses
  PROVE  [payout |-> p, amount |-> n, status |-> s] \in StripePayout
  BY DEF StripePayout, Statuses

LEMMA TaskSet ==
  ASSUME TypeOK, NEW w \in Workers, NEW t \in Task, task' = [task EXCEPT ![w] = t]
  PROVE  /\ task' \in [Workers -> Task] /\ task'[w] = t
         /\ \A v \in Workers : v # w => task'[v] = task[v]
  BY DEF TypeOK

(* The rows and messages that exist are not more than their bound.         *)
LEMMA Known ==
  ASSUME TypeInv
  PROVE  /\ Len(payouts) \in Nat /\ DOMAIN payouts = 1 .. Len(payouts)
         /\ DOMAIN payouts \subseteq PayoutIds
         /\ \A p \in DOMAIN payouts : payouts[p] \in Payout
         /\ \A m \in triggers : m \in Trigger /\ m.payout \in DOMAIN payouts
         /\ Cardinality(Inserting) \in Nat /\ IsFiniteSet(Inserting)
  <1>1. /\ Len(payouts) \in Nat /\ DOMAIN payouts = 1 .. Len(payouts)
        /\ \A p \in DOMAIN payouts : payouts[p] \in Payout /\ Len(payouts) <= MaxPayouts
    BY SeqFacts DEF TypeInv, TypeOK
  <1>2. DOMAIN payouts \subseteq PayoutIds
    BY <1>1, BoundsAssumption DEF PayoutIds
  <1>3. \A m \in triggers : m \in Trigger /\ m.payout \in DOMAIN payouts
    BY DEF TypeInv, TypeOK, RefsOK, MessagesOK
  <1>4. Cardinality(Inserting) \in Nat /\ IsFiniteSet(Inserting)
    BY WorkersAssumption, FS_Subset, FS_CardinalityType DEF Inserting
  <1> QED BY <1>1, <1>2, <1>3, <1>4

-----------------------------------------------------------------------------
(* What refers to rows still does when none is removed.                    *)
LEMMA RefsKept ==
  ASSUME RefsOK, DOMAIN payouts \subseteq DOMAIN payouts', DOMAIN paid \subseteq DOMAIN paid',
         \A i \in DOMAIN paid' : paid'[i].payout \in DOMAIN payouts',
         created' \subseteq DOMAIN payouts', \A m \in triggers' : m.payout \in DOMAIN payouts',
         \A a \in DOMAIN attempts' : attempts'[a].at \in {0} \cup DOMAIN paid',
         \A e \in events' : e.at \in DOMAIN paid',
         \A w \in Workers : task'[w] = task[w] \/ TaskRefs(w)'
  PROVE  RefsOK'
  <1>1. \A w \in Workers : TaskRefs(w)'
    BY DEF RefsOK, TaskRefs
  <1>2. MessagesOK' /\ StripeOK'
    BY DEF MessagesOK, StripeOK
  <1> QED BY <1>1, <1>2 DEF RefsOK

(* The task neither starts nor ends to create a payout.                    *)
LEMMA CreatesKept ==
  ASSUME TypeInv, NEW w \in Workers, NEW t \in Task, task' = [task EXCEPT ![w] = t],
         task[w].step \notin {"summed", "numbered", "inserted"},
         t.step \notin {"summed", "numbered", "inserted"},
         Len(payouts') = Len(payouts), lock' = lock
  PROVE  CreatesOK'
  <1>1. task'[w] = t /\ \A v \in Workers : v # w => task'[v] = task[v]
    BY TaskSet DEF TypeInv
  <1>2. Creating' = Creating /\ Inserting' = Inserting
    BY <1>1 DEF Creating, Inserting
  <1> QED BY <1>2 DEF TypeInv, CreatesOK

LEMMA RefsTask ==
  ASSUME TypeInv, NEW w \in Workers, NEW t \in Task, task' = [task EXCEPT ![w] = t],
         UNCHANGED <<payouts, created, triggers, attempts, paid, events>>,
         t.step # "triggering",
         t.step \in {"transferring", "canceling"} => t.payout \in DOMAIN payouts
  PROVE  RefsOK'
  <1>1. task'[w] = t /\ \A v \in Workers : v # w => task'[v] = task[v]
    BY TaskSet DEF TypeInv
  <1>2. TaskRefs(w)'
    BY <1>1 DEF TaskRefs
  <1>3. RefsOK
    BY DEF TypeInv
  <1>4. /\ \A i \in DOMAIN paid : paid[i].payout \in DOMAIN payouts
        /\ created \subseteq DOMAIN payouts /\ \A m \in triggers : m.payout \in DOMAIN payouts
        /\ \A a \in DOMAIN attempts : attempts[a].at \in {0} \cup DOMAIN paid
        /\ \A e \in events : e.at \in DOMAIN paid
    BY <1>3 DEF RefsOK, MessagesOK, StripeOK
  <1> QED BY <1>1, <1>2, <1>3, <1>4, RefsKept

(* The requests that create payouts.                                       *)

LEMMA SumEffect ==
  ASSUME TypeInv, NEW w \in Workers, CreateSum(w)
  PROVE  \E t \in Task : /\ task' = [task EXCEPT ![w] = t] /\ t.step = "summed"
                         /\ t.amount = balance /\ t.payout = 0
  <1> DEFINE t == [Idle EXCEPT !.step = "summed", !.amount = balance]
  <1>1. balance \in Nat
    BY DEF CreateSum, TypeInv, TypeOK
  <1>2. t \in Task /\ t.step = "summed" /\ t.amount = balance /\ t.payout = 0
    BY <1>1, IdleType DEF Task
  <1> QED BY <1>2 DEF CreateSum

LEMMA NumberEffect ==
  ASSUME TypeInv, NEW w \in Workers, CreateNumber(w)
  PROVE  \E t \in Task : /\ task' = [task EXCEPT ![w] = t] /\ t.step = "numbered"
                         /\ t.amount = task[w].amount /\ t.number = Len(payouts) + 1
                         /\ t.payout = task[w].payout
  <1> DEFINE t == [task[w] EXCEPT !.step = "numbered", !.number = Len(payouts) + 1]
  <1>1. Len(payouts) + 1 \in Nat
    BY Known
  <1>2. task[w] \in Task /\ task \in [Workers -> Task]
    BY TaskFields DEF TypeInv, TypeOK
  <1>3. t \in Task /\ t.step = "numbered" /\ t.amount = task[w].amount
        /\ t.number = Len(payouts) + 1 /\ t.payout = task[w].payout
    BY <1>1, <1>2 DEF Task
  <1>4. task' = [task EXCEPT ![w] = t]
    BY <1>2 DEF CreateNumber
  <1> QED BY <1>3, <1>4

LEMMA InsertEffect ==
  ASSUME TypeInv, NEW w \in Workers, CreateInsert(w)
  PROVE  \E t \in Task :
           /\ task' = [task EXCEPT ![w] = t]
           /\ \/ t = Idle
              \/ /\ task[w].number \notin DOMAIN payouts /\ t.step = "inserted"
                 /\ t.amount = task[w].amount /\ t.number = task[w].number
                 /\ t.payout = task[w].payout
  <1> DEFINE t == [task[w] EXCEPT !.step = "inserted"]
  <1>1. task[w] \in Task /\ task \in [Workers -> Task]
    BY TaskFields DEF TypeInv, TypeOK
  <1>2. t \in Task /\ t.step = "inserted" /\ t.amount = task[w].amount
        /\ t.number = task[w].number /\ t.payout = task[w].payout
    BY <1>1 DEF Task
  <1>3. CASE task[w].number \in DOMAIN payouts
    BY <1>3, IdleType DEF CreateInsert
  <1>4. CASE task[w].number \notin DOMAIN payouts
    <2>1. task' = [task EXCEPT ![w] = t]
      BY <1>1, <1>4 DEF CreateInsert
    <2> QED BY <1>2, <1>4, <2>1
  <1> QED BY <1>3, <1>4

LEMMA CreateSumType == ASSUME TypeInv, NEW w \in Workers, CreateSum(w) PROVE TypeInv'
  <1>1. PICK t \in Task : task' = [task EXCEPT ![w] = t] /\ t.step = "summed"
    BY SumEffect
  <1>2. /\ task' \in [Workers -> Task] /\ task'[w] = t
        /\ \A v \in Workers : v # w => task'[v] = task[v]
    BY <1>1, TaskSet DEF TypeInv
  <1>3. /\ lock = NoWorker /\ lock' = w /\ task[w].step = "idle"
        /\ Len(payouts) + Cardinality(Inserting) < MaxPayouts
        /\ UNCHANGED <<environment, earned, balance, payouts, created, triggers, attempts,
                       transfers, paid, events, happened>>
    BY DEF CreateSum
  <1>4. Creating = {}
    BY <1>3, WorkersAssumption DEF TypeInv, CreatesOK, Creating
  <1>5. Creating' = {w} /\ Inserting' = Inserting
    BY <1>1, <1>2, <1>3, <1>4 DEF Creating, Inserting
  <1>6. CreatesOK'
    BY <1>3, <1>5, Known, BoundsAssumption DEF CreatesOK
  <1>7. RefsOK'
    BY <1>1, <1>3, RefsTask
  <1>8. TypeOK'
    BY <1>2, <1>3 DEF TypeInv, TypeOK
  <1> QED BY <1>6, <1>7, <1>8 DEF TypeInv

LEMMA CreateNumberType == ASSUME TypeInv, NEW w \in Workers, CreateNumber(w) PROVE TypeInv'
  <1>1. PICK t \in Task : task' = [task EXCEPT ![w] = t] /\ t.step = "numbered"
    BY NumberEffect
  <1>2. /\ task' \in [Workers -> Task] /\ task'[w] = t
        /\ \A v \in Workers : v # w => task'[v] = task[v]
    BY <1>1, TaskSet DEF TypeInv
  <1>3. /\ task[w].step = "summed"
        /\ UNCHANGED <<environment, earned, balance, lock, payouts, created, triggers,
                       attempts, transfers, paid, events, happened>>
    BY DEF CreateNumber
  <1>4. Creating' = Creating /\ Inserting' = Inserting
    BY <1>1, <1>2, <1>3 DEF Creating, Inserting
  <1>5. CreatesOK'
    BY <1>3, <1>4 DEF TypeInv, CreatesOK
  <1>6. RefsOK'
    BY <1>1, <1>3, RefsTask
  <1>7. TypeOK'
    BY <1>2, <1>3 DEF TypeInv, TypeOK
  <1> QED BY <1>5, <1>6, <1>7 DEF TypeInv

LEMMA CreateInsertType == ASSUME TypeInv, NEW w \in Workers, CreateInsert(w) PROVE TypeInv'
  <1>1. PICK t \in Task : /\ task' = [task EXCEPT ![w] = t]
                          /\ t.step \in {"idle", "inserted"}
    BY InsertEffect, IdleType
  <1>2. /\ task' \in [Workers -> Task] /\ task'[w] = t
        /\ \A v \in Workers : v # w => task'[v] = task[v]
    BY <1>1, TaskSet DEF TypeInv
  <1>3. /\ task[w].step = "numbered" /\ lock' = NoWorker
        /\ UNCHANGED <<environment, earned, balance, payouts, created, triggers, attempts,
                       transfers, paid, events, happened>>
    BY DEF CreateInsert
  <1>4. Creating = {w}
    BY <1>3 DEF TypeInv, CreatesOK, Creating
  <1>5. Creating' = {}
    BY <1>1, <1>2, <1>4 DEF Creating
  <1>6. w \notin Inserting
    BY <1>3 DEF Inserting
  <1>7. Inserting' = Inserting \/ Inserting' = Inserting \cup {w}
    BY <1>1, <1>2, <1>3 DEF Inserting
  <1>8. Cardinality(Inserting') <= Cardinality(Inserting) + 1 /\ Cardinality(Inserting') \in Nat
    <2>1. Cardinality(Inserting) \in Nat /\ IsFiniteSet(Inserting)
      BY Known
    <2>2. Cardinality(Inserting \cup {w}) = Cardinality(Inserting) + 1
      BY <1>6, <2>1, FS_AddElement
    <2>3. CASE Inserting' = Inserting
      BY <2>1, <2>3
    <2>4. CASE Inserting' = Inserting \cup {w}
      BY <2>1, <2>2, <2>4
    <2> QED BY <1>7, <2>3, <2>4
  <1>9. CreatesOK'
    BY <1>3, <1>4, <1>5, <1>8, Known, BoundsAssumption DEF TypeInv, CreatesOK
  <1>10. RefsOK'
    BY <1>1, <1>3, RefsTask
  <1>11. TypeOK'
    BY <1>2, <1>3 DEF TypeInv, TypeOK
  <1> QED BY <1>9, <1>10, <1>11 DEF TypeInv

LEMMA CreateCommitEffect ==
  ASSUME TypeInv, NEW w \in Workers, CreateCommit(w)
  PROVE  /\ payouts' \in Seq(Payout) /\ Len(payouts') = Len(payouts) + 1
         /\ DOMAIN payouts' = DOMAIN payouts \cup {Len(payouts) + 1}
         /\ Len(payouts) + 1 \notin DOMAIN payouts /\ Len(payouts) + 1 \in PayoutIds
         /\ \A p \in DOMAIN payouts : payouts'[p] = payouts[p]
         /\ payouts'[Len(payouts) + 1].amount = task[w].amount
         /\ payouts'[Len(payouts) + 1].canceled = FALSE
         /\ created' \subseteq created \cup {Len(payouts) + 1}
         /\ task' = [task EXCEPT ![w] = Idle]
  <1> DEFINE x == [amount |-> task[w].amount, canceled |-> FALSE, transferred |-> FALSE,
                   old |-> FALSE]
  <1>1. x \in Payout /\ x.amount = task[w].amount /\ x.canceled = FALSE
    BY PayoutType, TaskFields DEF TypeInv
  <1>2. payouts' = Append(payouts, x)
    BY DEF CreateCommit
  <1>3. /\ task' = [task EXCEPT ![w] = Idle] /\ created' \subseteq created \cup {Len(payouts) + 1}
        /\ w \in Inserting
    BY DEF CreateCommit, Inserting
  <1>4. Cardinality(Inserting) # 0
    BY <1>3, Known, FS_EmptySet
  <1>5. Len(payouts) + 1 \in PayoutIds
    BY <1>4, Known, BoundsAssumption DEF TypeInv, CreatesOK, PayoutIds
  <1> HIDE DEF x
  <1>6. /\ payouts' \in Seq(Payout) /\ Len(payouts') = Len(payouts) + 1
        /\ DOMAIN payouts' = DOMAIN payouts \cup {Len(payouts) + 1}
        /\ Len(payouts) + 1 \notin DOMAIN payouts
        /\ \A p \in DOMAIN payouts : payouts'[p] = payouts[p]
        /\ payouts'[Len(payouts) + 1] = x
    BY <1>1, <1>2, Appended DEF TypeInv, TypeOK
  <1> QED BY <1>1, <1>3, <1>5, <1>6

LEMMA CreateCommitType == ASSUME TypeInv, NEW w \in Workers, CreateCommit(w) PROVE TypeInv'
  <1>1. /\ payouts' \in Seq(Payout) /\ Len(payouts') = Len(payouts) + 1
        /\ DOMAIN payouts' = DOMAIN payouts \cup {Len(payouts) + 1}
        /\ Len(payouts) + 1 \in PayoutIds /\ created' \subseteq created \cup {Len(payouts) + 1}
        /\ task' = [task EXCEPT ![w] = Idle]
    BY CreateCommitEffect
  <1>2. /\ task' \in [Workers -> Task] /\ task'[w] = Idle
        /\ \A v \in Workers : v # w => task'[v] = task[v]
    BY <1>1, TaskSet, IdleType DEF TypeInv
  <1>3. /\ task[w].step = "inserted" /\ balance' = balance - task[w].amount
        /\ UNCHANGED <<environment, earned, lock, triggers, attempts, transfers, paid,
                       events, happened>>
    BY DEF CreateCommit
  <1>4. Creating' = Creating /\ Inserting' = Inserting \ {w} /\ w \in Inserting
    BY <1>2, <1>3, IdleType DEF Creating, Inserting
  <1>5. Cardinality(Inserting') = Cardinality(Inserting) - 1
    BY <1>4, Known, FS_RemoveElement
  <1>6. CreatesOK'
    BY <1>1, <1>3, <1>4, <1>5, Known DEF TypeInv, CreatesOK
  <1>7. RefsOK'
    <2>1. TaskRefs(w)'
      BY <1>2, IdleType DEF TaskRefs
    <2>2. RefsOK
      BY DEF TypeInv
    <2> QED BY <1>1, <1>2, <1>3, <2>1, <2>2, RefsKept DEF RefsOK, MessagesOK, StripeOK
  <1>8. Len(payouts') <= MaxPayouts /\ balance' \in Int /\ created' \in SUBSET PayoutIds
    BY <1>1, <1>3, TaskFields DEF TypeInv, TypeOK, PayoutIds
  <1>9. TypeOK'
    BY <1>1, <1>2, <1>3, <1>8 DEF TypeInv, TypeOK
  <1> QED BY <1>6, <1>7, <1>9 DEF TypeInv

(* The transfer, the triggers and the attempts.                            *)

LEMMA TransferEffect ==
  ASSUME TypeInv, NEW w \in Workers, NEW p \in PayoutIds, Transfer(w, p)
  PROVE  \E t \in Task : /\ task' = [task EXCEPT ![w] = t] /\ t.step = "transferring"
                         /\ t.payout = p
  <1> DEFINE t == [Idle EXCEPT !.step = "transferring", !.payout = p]
  <1>1. t \in Task /\ t.step = "transferring" /\ t.payout = p
    BY IdleType DEF Task
  <1> QED BY <1>1 DEF Transfer

LEMMA TransferType ==
  ASSUME TypeInv, NEW w \in Workers, NEW p \in PayoutIds, Transfer(w, p) PROVE TypeInv'
  <1>1. PICK t \in Task : /\ task' = [task EXCEPT ![w] = t] /\ t.step = "transferring"
                          /\ t.payout = p
    BY TransferEffect
  <1>2. /\ task' \in [Workers -> Task] /\ task'[w] = t
        /\ \A v \in Workers : v # w => task'[v] = task[v]
    BY <1>1, TaskSet DEF TypeInv
  <1>3. /\ task[w].step = "idle" /\ p \in created /\ created' = created \ {p}
        /\ transfers' = [transfers EXCEPT ![p] = IF @ = "none" THEN "made" ELSE @]
        /\ UNCHANGED <<environment, earned, balance, lock, payouts, triggers, attempts,
                       paid, events, happened>>
    BY DEF Transfer
  <1>4. CreatesOK'
    BY <1>1, <1>3, CreatesKept
  <1>5. RefsOK'
    <2>1. TaskRefs(w)'
      BY <1>1, <1>2, <1>3 DEF TypeInv, RefsOK, MessagesOK, TaskRefs
    <2>2. RefsOK
      BY DEF TypeInv
    <2> QED BY <1>2, <1>3, <2>1, <2>2, RefsKept DEF RefsOK, MessagesOK, StripeOK
  <1>6. transfers' \in [PayoutIds -> {"none", "made", "reversed"}]
    BY <1>3 DEF TypeInv, TypeOK
  <1>7. TypeOK'
    BY <1>2, <1>3, <1>6 DEF TypeInv, TypeOK
  <1> QED BY <1>4, <1>5, <1>7 DEF TypeInv

(* A column of one payout is written: what else stays as it is.            *)
Rewrites(p, x) ==
  /\ payouts' \in Seq(Payout) /\ Len(payouts') = Len(payouts)
  /\ DOMAIN payouts' = DOMAIN payouts /\ payouts'[p] = x
  /\ \A q \in DOMAIN payouts : q # p => payouts'[q] = payouts[q]

LEMMA PayoutWritten ==
  ASSUME TypeInv, NEW p \in DOMAIN payouts, NEW x \in Payout,
         payouts' = [payouts EXCEPT ![p] = x]
  PROVE  Rewrites(p, x)
  BY Replaced DEF TypeInv, TypeOK, Rewrites

(* A task ends that has written a payout.                                  *)
LEMMA RefsEnded ==
  ASSUME TypeInv, NEW w \in Workers, task' = [task EXCEPT ![w] = Idle],
         DOMAIN payouts' = DOMAIN payouts,
         UNCHANGED <<created, triggers, attempts, paid, events>>
  PROVE  RefsOK' /\ task' \in [Workers -> Task]
  <1>1. /\ task' \in [Workers -> Task] /\ task'[w] = Idle
        /\ \A v \in Workers : v # w => task'[v] = task[v]
    BY TaskSet, IdleType DEF TypeInv
  <1>2. TaskRefs(w)'
    BY <1>1, IdleType DEF TaskRefs
  <1>3. RefsOK
    BY DEF TypeInv
  <1> QED BY <1>1, <1>2, <1>3, RefsKept DEF RefsOK, MessagesOK, StripeOK

LEMMA TransferCommitEffect ==
  ASSUME TypeInv, NEW w \in Workers, TransferCommit(w)
  PROVE  /\ task[w].payout \in DOMAIN payouts /\ task[w].step = "transferring"
         /\ task' = [task EXCEPT ![w] = Idle]
         /\ \E x \in Payout : /\ Rewrites(task[w].payout, x) /\ x.transferred = TRUE
                              /\ x.amount = payouts[task[w].payout].amount
                              /\ x.canceled = payouts[task[w].payout].canceled
         /\ UNCHANGED <<environment, earned, balance, lock, created, triggers, attempts,
                        transfers, paid, events, happened>>
  <1>1. PICK p \in DOMAIN payouts : p = task[w].payout
    BY DEF TransferCommit, TypeInv, RefsOK, TaskRefs
  <1> DEFINE x == [payouts[p] EXCEPT !.transferred = TRUE]
  <1>2. x \in Payout /\ x.transferred = TRUE /\ x.amount = payouts[p].amount
        /\ x.canceled = payouts[p].canceled
    <2>1. payouts[p] \in Payout
      BY Known
    <2> QED BY <2>1 DEF Payout
  <1>3. payouts' = [payouts EXCEPT ![p] = x]
    BY <1>1 DEF TransferCommit
  <1> HIDE DEF x
  <1>4. Rewrites(p, x)
    BY <1>2, <1>3, PayoutWritten
  <1> QED BY <1>1, <1>2, <1>4 DEF TransferCommit

LEMMA TransferCommitType ==
  ASSUME TypeInv, NEW w \in Workers, TransferCommit(w) PROVE TypeInv'
  <1>1. /\ task[w].step = "transferring" /\ task' = [task EXCEPT ![w] = Idle]
        /\ payouts' \in Seq(Payout) /\ Len(payouts') = Len(payouts)
        /\ DOMAIN payouts' = DOMAIN payouts
        /\ UNCHANGED <<environment, earned, balance, lock, created, triggers, attempts,
                       transfers, paid, events, happened>>
    BY TransferCommitEffect DEF Rewrites
  <1>2. CreatesOK'
    BY <1>1, CreatesKept, IdleType
  <1>3. RefsOK' /\ task' \in [Workers -> Task]
    BY <1>1, RefsEnded
  <1>4. TypeOK'
    BY <1>1, <1>3 DEF TypeInv, TypeOK
  <1> QED BY <1>2, <1>3, <1>4 DEF TypeInv

LEMMA CreatesSame ==
  ASSUME TypeInv, UNCHANGED <<task, lock>>, Len(payouts') = Len(payouts)
  PROVE  CreatesOK'
  BY DEF TypeInv, CreatesOK, Creating, Inserting

LEMMA AgeEffect ==
  ASSUME TypeInv, NEW p \in PayoutIds, Age(p)
  PROVE  /\ p \in DOMAIN payouts
         /\ \E x \in Payout : /\ Rewrites(p, x) /\ x.transferred = payouts[p].transferred
                              /\ x.amount = payouts[p].amount
                              /\ x.canceled = payouts[p].canceled
         /\ UNCHANGED <<environment, earned, balance, lock, created, triggers, attempts,
                        transfers, paid, events, happened, task>>
  <1> DEFINE x == [payouts[p] EXCEPT !.old = TRUE]
  <1>1. p \in DOMAIN payouts
    BY DEF Age
  <1>2. x \in Payout /\ x.transferred = payouts[p].transferred
        /\ x.amount = payouts[p].amount /\ x.canceled = payouts[p].canceled
    <2>1. payouts[p] \in Payout
      BY <1>1, Known
    <2> QED BY <2>1 DEF Payout
  <1>3. payouts' = [payouts EXCEPT ![p] = x]
    BY DEF Age
  <1> HIDE DEF x
  <1>4. Rewrites(p, x)
    BY <1>1, <1>2, <1>3, PayoutWritten
  <1> QED BY <1>1, <1>2, <1>4 DEF Age

LEMMA AgeType == ASSUME TypeInv, NEW p \in PayoutIds, Age(p) PROVE TypeInv'
  <1>1. /\ payouts' \in Seq(Payout) /\ Len(payouts') = Len(payouts)
        /\ DOMAIN payouts' = DOMAIN payouts
        /\ UNCHANGED <<environment, earned, balance, lock, created, triggers, attempts,
                       transfers, paid, events, happened, task>>
    BY AgeEffect DEF Rewrites
  <1>2. CreatesOK'
    BY <1>1, CreatesSame
  <1>3. RefsOK'
    <2>1. RefsOK
      BY DEF TypeInv
    <2> QED BY <1>1, <2>1, RefsKept DEF RefsOK, MessagesOK, StripeOK
  <1>4. TypeOK'
    BY <1>1 DEF TypeInv, TypeOK
  <1> QED BY <1>2, <1>3, <1>4 DEF TypeInv

(* A message is sent that triggers a payout.                               *)
LEMMA TriggerAdded ==
  ASSUME TypeInv, NEW p \in DOMAIN payouts, NEW n \in Nat, happened' \in Nat,
         triggers' = triggers \cup {[payout |-> p, amount |-> n]},
         UNCHANGED <<environment, earned, balance, lock, payouts, created, attempts,
                     transfers, paid, events, task>>
  PROVE  TypeInv'
  <1>1. [payout |-> p, amount |-> n] \in Trigger
    BY Known, TriggerType
  <1>2. CreatesOK'
    BY CreatesSame
  <1>3. RefsOK'
    <2>1. RefsOK /\ \A m \in triggers' : m.payout \in DOMAIN payouts
      BY DEF TypeInv, RefsOK, MessagesOK
    <2> QED BY <2>1, RefsKept DEF RefsOK, MessagesOK, StripeOK
  <1>4. TypeOK'
    BY <1>1 DEF TypeInv, TypeOK
  <1> QED BY <1>2, <1>3, <1>4 DEF TypeInv

LEMMA TriggerPayoutsEffect ==
  ASSUME TypeInv, TriggerPayouts
  PROVE  /\ happened' \in Nat
         /\ \E p \in DOMAIN payouts :
              /\ AttemptsOf(p) = {} /\ (Busy(p) => May("backlog"))
              /\ triggers' = triggers \cup {[payout |-> p, amount |-> payouts[p].amount]}
         /\ UNCHANGED <<environment, earned, balance, lock, payouts, created, attempts,
                        transfers, paid, events, task>>
  <1>1. Pending \in SUBSET Nat /\ Pending # {}
    BY Known DEF TriggerPayouts, Pending
  <1>2. PICK n \in Pending : \A q \in Pending : n <= q
    BY <1>1, Least
  <1>3. Min(Pending) \in Pending
    BY <1>2 DEF Min
  <1>4. PICK p : p = Min(Pending)
    OBVIOUS
  <1>5. p \in DOMAIN payouts /\ AttemptsOf(p) = {}
    BY <1>3, <1>4 DEF Pending
  <1>6. /\ IF Busy(p) THEN Happens("backlog") ELSE UNCHANGED happened
        /\ triggers' = triggers \cup {[payout |-> p, amount |-> payouts[p].amount]}
    BY <1>4 DEF TriggerPayouts
  <1>7. happened' \in Nat /\ (Busy(p) => May("backlog"))
    BY <1>6 DEF Happens, TypeInv, TypeOK
  <1> QED BY <1>5, <1>6, <1>7 DEF TriggerPayouts

LEMMA TriggerPayoutsType == ASSUME TypeInv, TriggerPayouts PROVE TypeInv'
  <1>1. PICK p \in DOMAIN payouts :
          triggers' = triggers \cup {[payout |-> p, amount |-> payouts[p].amount]}
    BY TriggerPayoutsEffect
  <1>2. payouts[p].amount \in Nat
    BY Known, PayoutFields
  <1> QED BY <1>1, <1>2, TriggerPayoutsEffect, TriggerAdded

LEMMA RetryType ==
  ASSUME TypeInv, NEW p \in PayoutIds, NEW amount \in Amounts, Retry(p, amount)
  PROVE  TypeInv'
  <1>1. amount \in Nat /\ happened' \in Nat
    BY DEF Amounts, Retry, Happens, TypeInv, TypeOK
  <1> QED BY <1>1, TriggerAdded DEF Retry

LEMMA TooEarlyType ==
  ASSUME TypeInv, NEW m \in triggers, TriggerTooEarly(m) PROVE TypeInv'
  <1>1. /\ triggers' = triggers \ {m}
        /\ UNCHANGED <<environment, earned, balance, lock, payouts, created, attempts,
                       transfers, paid, events, happened, task>>
    BY DEF TriggerTooEarly
  <1>2. CreatesOK'
    BY <1>1, CreatesSame
  <1>3. RefsOK'
    <2>1. RefsOK
      BY DEF TypeInv
    <2> QED BY <1>1, <2>1, RefsKept DEF RefsOK, MessagesOK, StripeOK
  <1>4. TypeOK'
    BY <1>1 DEF TypeInv, TypeOK
  <1> QED BY <1>2, <1>3, <1>4 DEF TypeInv

(* An attempt is inserted.                                                 *)
Attempts(p, n, i, s) ==
  /\ attempts' \in Seq(Attempt)
  /\ DOMAIN attempts' = DOMAIN attempts \cup {Len(attempts) + 1}
  /\ Len(attempts) + 1 \notin DOMAIN attempts
  /\ \A a \in DOMAIN attempts : attempts'[a] = attempts[a]
  /\ attempts'[Len(attempts) + 1].payout = p
  /\ attempts'[Len(attempts) + 1].amount = n
  /\ attempts'[Len(attempts) + 1].at = i
  /\ attempts'[Len(attempts) + 1].status = s

LEMMA AttemptAdded ==
  ASSUME TypeInv, NEW p \in PayoutIds, NEW n \in Nat, NEW i \in Nat, NEW s \in Statuses,
         attempts' = Append(attempts, [payout |-> p, amount |-> n, at |-> i, status |-> s])
  PROVE  Attempts(p, n, i, s)
  <1> DEFINE x == [payout |-> p, amount |-> n, at |-> i, status |-> s]
  <1>1. x \in Attempt /\ attempts \in Seq(Attempt)
    BY AttemptType DEF TypeInv, TypeOK
  <1>2. x.payout = p /\ x.amount = n /\ x.at = i /\ x.status = s
    OBVIOUS
  <1>3. attempts' = Append(attempts, x)
    OBVIOUS
  <1> HIDE DEF x
  <1>4. /\ attempts' \in Seq(Attempt)
        /\ DOMAIN attempts' = DOMAIN attempts \cup {Len(attempts) + 1}
        /\ Len(attempts) + 1 \notin DOMAIN attempts
        /\ \A a \in DOMAIN attempts : attempts'[a] = attempts[a]
        /\ attempts'[Len(attempts) + 1] = x
    BY <1>1, <1>3, Appended
  <1> QED BY <1>2, <1>4 DEF Attempts

LEMMA RefusedEffect ==
  ASSUME TypeInv, NEW m \in triggers, TriggerRefused(m)
  PROVE  /\ Attempts(m.payout, m.amount, 0, "failed") /\ happened' \in Nat
         /\ triggers' = triggers \ {m}
         /\ UNCHANGED <<environment, earned, balance, lock, payouts, created, transfers,
                        paid, events, task>>
  <1>1. m.payout \in PayoutIds /\ m.amount \in Nat
    BY Known, TriggerFields
  <1>2. Attempts(m.payout, m.amount, 0, "failed")
    BY <1>1, AttemptAdded DEF TriggerRefused, Statuses
  <1> QED BY <1>2 DEF TriggerRefused, Happens, TypeInv, TypeOK

LEMMA RefusedType ==
  ASSUME TypeInv, NEW m \in triggers, TriggerRefused(m) PROVE TypeInv'
  <1>1. /\ attempts' \in Seq(Attempt) /\ happened' \in Nat /\ triggers' = triggers \ {m}
        /\ \A a \in DOMAIN attempts' : \/ a \in DOMAIN attempts /\ attempts'[a] = attempts[a]
                                       \/ attempts'[a].at = 0
        /\ UNCHANGED <<environment, earned, balance, lock, payouts, created, transfers,
                       paid, events, task>>
    <2>1. attempts'[Len(attempts) + 1].at = 0
      BY RefusedEffect DEF Attempts
    <2> QED BY <2>1, RefusedEffect DEF Attempts
  <1>2. CreatesOK'
    BY <1>1, CreatesSame
  <1>3. RefsOK'
    <2>1. RefsOK /\ \A a \in DOMAIN attempts' : attempts'[a].at \in {0} \cup DOMAIN paid
      BY <1>1 DEF TypeInv, RefsOK, StripeOK
    <2> QED BY <1>1, <2>1, RefsKept DEF RefsOK, MessagesOK, StripeOK
  <1>4. TypeOK'
    BY <1>1 DEF TypeInv, TypeOK
  <1> QED BY <1>2, <1>3, <1>4 DEF TypeInv

(* Stripe makes a payout.                                                  *)
Pays(p, n) ==
  /\ paid' \in Seq(StripePayout) /\ Len(paid) \in Nat
  /\ DOMAIN paid' = DOMAIN paid \cup {Len(paid) + 1} /\ Len(paid) + 1 \notin DOMAIN paid
  /\ \A i \in DOMAIN paid : paid'[i] = paid[i]
  /\ paid'[Len(paid) + 1].payout = p /\ paid'[Len(paid) + 1].amount = n
  /\ paid'[Len(paid) + 1].status = "pending"

LEMMA TriggerPayoutEffect ==
  ASSUME TypeInv, NEW w \in Workers, NEW m \in triggers, TriggerPayout(w, m)
  PROVE  /\ Pays(m.payout, m.amount)
         /\ \E t \in Task : /\ task' = [task EXCEPT ![w] = t] /\ t.step = "triggering"
                            /\ t.payout = m.payout /\ t.trigger = m /\ t.at = Len(paid) + 1
  <1>1. /\ m \in Trigger /\ m.payout \in PayoutIds /\ m.amount \in Nat
        /\ paid \in Seq(StripePayout)
    BY Known, TriggerFields DEF TypeInv, TypeOK
  <1> DEFINE x == [payout |-> m.payout, amount |-> m.amount, status |-> "pending"]
             t == [Idle EXCEPT !.step = "triggering", !.payout = m.payout, !.trigger = m,
                               !.at = Len(paid) + 1]
  <1>2. x \in StripePayout /\ x.payout = m.payout /\ x.amount = m.amount
        /\ x.status = "pending"
    BY <1>1, StripePayoutType DEF Statuses
  <1>3. Len(paid) + 1 \in Nat
    BY <1>1, SeqFacts
  <1>4. t \in Task /\ t.step = "triggering" /\ t.payout = m.payout /\ t.trigger = m
        /\ t.at = Len(paid) + 1
    BY <1>1, <1>3, IdleType DEF Task
  <1>5. paid' = Append(paid, x) /\ task' = [task EXCEPT ![w] = t]
    BY DEF TriggerPayout
  <1> HIDE DEF x, t
  <1>6. Pays(m.payout, m.amount)
    BY <1>1, <1>2, <1>5, Appended DEF Pays
  <1> QED BY <1>4, <1>5, <1>6

LEMMA TriggerPayoutType ==
  ASSUME TypeInv, NEW w \in Workers, NEW m \in triggers, TriggerPayout(w, m) PROVE TypeInv'
  <1>1. PICK t \in Task : /\ task' = [task EXCEPT ![w] = t] /\ t.step = "triggering"
                          /\ t.payout = m.payout /\ t.trigger = m /\ t.at = Len(paid) + 1
    BY TriggerPayoutEffect
  <1>2. Pays(m.payout, m.amount)
    BY TriggerPayoutEffect
  <1>3. /\ task' \in [Workers -> Task] /\ task'[w] = t
        /\ \A v \in Workers : v # w => task'[v] = task[v]
    BY <1>1, TaskSet DEF TypeInv
  <1>4. /\ task[w].step = "idle" /\ triggers' = triggers \ {m}
        /\ UNCHANGED <<environment, earned, balance, lock, payouts, created, attempts,
                       transfers, events, happened>>
    BY DEF TriggerPayout
  <1>5. CreatesOK'
    BY <1>1, <1>4, CreatesKept
  <1>6. RefsOK'
    <2>1. m.payout \in DOMAIN payouts
      BY Known
    <2>2. TaskRefs(w)'
      BY <1>1, <1>2, <1>3, <1>4, <2>1 DEF TaskRefs, Pays
    <2>3. RefsOK /\ \A i \in DOMAIN paid' : paid'[i].payout \in DOMAIN payouts
      BY <1>2, <2>1 DEF TypeInv, RefsOK, StripeOK, Pays
    <2>4. DOMAIN paid \subseteq DOMAIN paid'
      BY <1>2 DEF Pays
    <2> QED BY <1>3, <1>4, <2>2, <2>3, <2>4, RefsKept DEF RefsOK, MessagesOK, StripeOK
  <1>7. TypeOK'
    BY <1>2, <1>3, <1>4 DEF TypeInv, TypeOK, Pays
  <1> QED BY <1>5, <1>6, <1>7 DEF TypeInv

LEMMA TriggerCommitEffect ==
  ASSUME TypeInv, NEW w \in Workers, TriggerCommit(w)
  PROVE  /\ Attempts(task[w].payout, task[w].trigger.amount, task[w].at, "pending")
         /\ task[w].payout \in DOMAIN payouts /\ task[w].at \in DOMAIN paid
         /\ task' = [task EXCEPT ![w] = Idle] /\ task[w].step = "triggering"
         /\ UNCHANGED <<environment, earned, balance, lock, payouts, created, triggers,
                        transfers, paid, events, happened>>
  <1>1. /\ task[w].trigger.payout = task[w].payout /\ task[w].payout \in DOMAIN payouts
        /\ task[w].at \in DOMAIN paid
    BY DEF TriggerCommit, TypeInv, RefsOK, TaskRefs
  <1>2. task[w].payout \in PayoutIds /\ task[w].trigger.amount \in Nat /\ task[w].at \in Nat
    BY <1>1, Known, TaskFields, TriggerFields DEF TypeInv
  <1>3. attempts' = Append(attempts, [payout |-> task[w].payout,
                                      amount |-> task[w].trigger.amount, at |-> task[w].at,
                                      status |-> "pending"])
    BY <1>1 DEF TriggerCommit
  <1>4. Attempts(task[w].payout, task[w].trigger.amount, task[w].at, "pending")
    BY <1>2, <1>3, AttemptAdded DEF Statuses
  <1> QED BY <1>1, <1>4 DEF TriggerCommit

LEMMA TriggerCommitType ==
  ASSUME TypeInv, NEW w \in Workers, TriggerCommit(w) PROVE TypeInv'
  <1>1. /\ attempts' \in Seq(Attempt)
        /\ \A a \in DOMAIN attempts' : \/ a \in DOMAIN attempts /\ attempts'[a] = attempts[a]
                                       \/ attempts'[a].at \in DOMAIN paid
    <2>1. attempts'[Len(attempts) + 1].at \in DOMAIN paid
      BY TriggerCommitEffect DEF Attempts
    <2> QED BY <2>1, TriggerCommitEffect DEF Attempts
  <1>2. /\ task' = [task EXCEPT ![w] = Idle] /\ task[w].step = "triggering"
        /\ UNCHANGED <<environment, earned, balance, lock, payouts, created, triggers,
                       transfers, paid, events, happened>>
    BY TriggerCommitEffect
  <1>3. CreatesOK'
    BY <1>2, CreatesKept, IdleType
  <1>4. /\ task' \in [Workers -> Task] /\ task'[w] = Idle
        /\ \A v \in Workers : v # w => task'[v] = task[v]
    BY <1>2, TaskSet, IdleType DEF TypeInv
  <1>5. RefsOK'
    <2>1. RefsOK /\ \A a \in DOMAIN attempts' : attempts'[a].at \in {0} \cup DOMAIN paid
      BY <1>1 DEF TypeInv, RefsOK, StripeOK
    <2>2. TaskRefs(w)'
      BY <1>4, IdleType DEF TaskRefs
    <2> QED BY <1>2, <1>4, <2>1, <2>2, RefsKept DEF RefsOK, MessagesOK, StripeOK
  <1>6. TypeOK'
    BY <1>1, <1>2, <1>4 DEF TypeInv, TypeOK
  <1> QED BY <1>3, <1>5, <1>6 DEF TypeInv

(* What Stripe reports.                                                    *)

LEMMA StripeUpdatesEffect ==
  ASSUME TypeInv, NEW i \in DOMAIN paid, NEW status \in {"in_transit", "succeeded", "failed"},
         StripeUpdates(i, status)
  PROVE  /\ paid' \in Seq(StripePayout) /\ DOMAIN paid' = DOMAIN paid
         /\ paid'[i].payout = paid[i].payout /\ paid'[i].amount = paid[i].amount
         /\ paid'[i].status = status /\ paid[i].status # "failed"
         /\ \A k \in DOMAIN paid : k # i => paid'[k] = paid[k]
         /\ events' = events \cup {[at |-> i, status |-> status]}
  <1> DEFINE x == [paid[i] EXCEPT !.status = status]
  <1>1. x \in StripePayout /\ x.payout = paid[i].payout /\ x.amount = paid[i].amount
        /\ x.status = status
    <2>1. paid[i] \in StripePayout
      BY SeqFacts DEF TypeInv, TypeOK
    <2> QED BY <2>1 DEF StripePayout
  <1>2. paid' = [paid EXCEPT ![i] = x] /\ paid \in Seq(StripePayout)
    BY DEF StripeUpdates, TypeInv, TypeOK
  <1> HIDE DEF x
  <1>3. /\ paid' \in Seq(StripePayout) /\ DOMAIN paid' = DOMAIN paid /\ paid'[i] = x
        /\ \A k \in DOMAIN paid : k # i => paid'[k] = paid[k]
    BY <1>1, <1>2, Replaced
  <1> QED BY <1>1, <1>3 DEF StripeUpdates

LEMMA StripeUpdatesType ==
  ASSUME TypeInv, NEW i \in DOMAIN paid, NEW status \in {"in_transit", "succeeded", "failed"},
         StripeUpdates(i, status)
  PROVE  TypeInv'
  <1>1. /\ paid' \in Seq(StripePayout) /\ DOMAIN paid' = DOMAIN paid
        /\ \A k \in DOMAIN paid : paid'[k].payout = paid[k].payout
        /\ events' = events \cup {[at |-> i, status |-> status]}
    BY StripeUpdatesEffect
  <1>2. UNCHANGED <<environment, earned, balance, lock, payouts, created, triggers,
                    attempts, transfers, happened, task>>
    BY DEF StripeUpdates
  <1>3. CreatesOK'
    BY <1>2, CreatesSame
  <1>4. i \in Nat
    BY SeqFacts DEF TypeInv, TypeOK
  <1>5. RefsOK'
    <2>1. RefsOK /\ \A e \in events' : e.at \in DOMAIN paid
      BY <1>1 DEF TypeInv, RefsOK, StripeOK
    <2> QED BY <1>1, <1>2, <2>1, RefsKept DEF RefsOK, MessagesOK, StripeOK
  <1>6. events' \in SUBSET [at: Nat, status: {"in_transit", "succeeded", "failed"}]
    BY <1>1, <1>4 DEF TypeInv, TypeOK
  <1>7. TypeOK'
    BY <1>1, <1>2, <1>6 DEF TypeInv, TypeOK
  <1> QED BY <1>3, <1>5, <1>7 DEF TypeInv

(* The attempts at a payout of Stripe get its status.                      *)
Sets(i, s) ==
  /\ attempts' \in Seq(Attempt) /\ DOMAIN attempts' = DOMAIN attempts
  /\ \A a \in DOMAIN attempts :
       /\ attempts'[a].payout = attempts[a].payout
       /\ attempts'[a].amount = attempts[a].amount
       /\ attempts'[a].at = attempts[a].at
       /\ attempts[a].at # i => attempts'[a] = attempts[a]
       /\ attempts[a].at = i => attempts'[a].status = s

LEMMA StatusSet ==
  ASSUME TypeInv, NEW i \in Nat, NEW s \in Statuses, SetStatus(i, s)
  PROVE  Sets(i, s)
  <1> DEFINE row(a) == IF attempts[a].at = i THEN [attempts[a] EXCEPT !.status = s]
                       ELSE attempts[a]
  <1>1. attempts \in Seq(Attempt)
    BY DEF TypeInv, TypeOK
  <1>2. \A a \in DOMAIN attempts : attempts[a] \in Attempt
    BY <1>1, SeqFacts
  <1>3. \A a \in DOMAIN attempts :
          /\ row(a) \in Attempt /\ row(a).payout = attempts[a].payout
          /\ row(a).amount = attempts[a].amount /\ row(a).at = attempts[a].at
          /\ attempts[a].at # i => row(a) = attempts[a]
          /\ attempts[a].at = i => row(a).status = s
    <2> SUFFICES ASSUME NEW a \in DOMAIN attempts
                 PROVE  /\ row(a) \in Attempt /\ row(a).payout = attempts[a].payout
                        /\ row(a).amount = attempts[a].amount /\ row(a).at = attempts[a].at
                        /\ attempts[a].at # i => row(a) = attempts[a]
                        /\ attempts[a].at = i => row(a).status = s
      OBVIOUS
    <2> DEFINE x == [attempts[a] EXCEPT !.status = s]
    <2>1. x \in Attempt /\ x.payout = attempts[a].payout /\ x.amount = attempts[a].amount
          /\ x.at = attempts[a].at /\ x.status = s
      BY <1>2 DEF Attempt, Statuses
    <2> HIDE DEF x
    <2>2. row(a) = IF attempts[a].at = i THEN x ELSE attempts[a]
      BY DEF x
    <2> HIDE DEF row
    <2>3. CASE attempts[a].at = i
      BY <2>1, <2>2, <2>3
    <2>4. CASE attempts[a].at # i
      BY <1>2, <2>2, <2>4
    <2> QED BY <2>3, <2>4
  <1>4. attempts' = [a \in DOMAIN attempts |-> row(a)]
    BY DEF SetStatus
  <1> HIDE DEF row
  <1>5. attempts' \in [DOMAIN attempts -> Attempt]
    BY <1>3, <1>4
  <1>6. attempts' \in Seq(Attempt) /\ DOMAIN attempts' = DOMAIN attempts
    BY <1>1, <1>5, Rewritten
  <1> QED BY <1>3, <1>4, <1>6 DEF Sets

(* Writing statuses concerns no reference.                                 *)
LEMMA SetsType ==
  ASSUME TypeInv, NEW i, NEW s, Sets(i, s), events' \subseteq events,
         UNCHANGED <<environment, earned, balance, lock, payouts, created, triggers,
                     transfers, paid, happened, task>>
  PROVE  TypeInv'
  <1>1. CreatesOK'
    BY CreatesSame
  <1>2. RefsOK'
    <2>1. RefsOK /\ \A a \in DOMAIN attempts' : attempts'[a].at \in {0} \cup DOMAIN paid
      BY DEF TypeInv, RefsOK, StripeOK, Sets
    <2> QED BY <2>1, RefsKept DEF RefsOK, MessagesOK, StripeOK
  <1>3. TypeOK'
    BY DEF TypeInv, TypeOK, Sets
  <1> QED BY <1>1, <1>2, <1>3 DEF TypeInv

LEMMA UpdateEffect ==
  ASSUME TypeInv, NEW e \in events, UpdateFromStripe(e)
  PROVE  e.at \in DOMAIN paid /\ Sets(e.at, e.status) /\ events' = events \ {e}
  <1>1. e.at \in DOMAIN paid
    BY DEF TypeInv, RefsOK, StripeOK
  <1>2. e.at \in Nat /\ e.status \in Statuses
    BY DEF TypeInv, TypeOK, Statuses
  <1>3. Sets(e.at, e.status)
    BY <1>2, StatusSet DEF UpdateFromStripe
  <1> QED BY <1>1, <1>3 DEF UpdateFromStripe

LEMMA UpdateType == ASSUME TypeInv, NEW e \in events, UpdateFromStripe(e) PROVE TypeInv'
  <1>1. Sets(e.at, e.status) /\ events' \subseteq events
    BY UpdateEffect
  <1> QED BY <1>1, SetsType DEF UpdateFromStripe

(* A finite set of positions has a last one.                               *)
LEMMA Last ==
  ASSUME NEW n \in Nat, NEW T \in SUBSET (1 .. n), T # {}
  PROVE  Max(T) \in T
  <1> DEFINE D == {n - x : x \in T}
  <1>1. D \in SUBSET Nat /\ D # {}
    <2>1. \A x \in T : n - x \in Nat
      OBVIOUS
    <2> QED BY <2>1
  <1> HIDE DEF D
  <1>2. PICK d \in D : \A e \in D : d <= e
    BY <1>1, Least
  <1>3. PICK x \in T : d = n - x
    BY DEF D
  <1>4. \A y \in T : y <= x
    <2> SUFFICES ASSUME NEW y \in T PROVE y <= x
      OBVIOUS
    <2>1. n - x <= n - y
      BY <1>2, <1>3 DEF D
    <2> QED BY <2>1
  <1> QED BY <1>4 DEF Max

LEMMA SyncEffect ==
  ASSUME TypeInv, NEW p \in PayoutIds, SyncWithProvider(p)
  PROVE  \E i \in DOMAIN paid : Sets(i, paid[i].status)
  <1> DEFINE linked == {a \in AttemptsOf(p) : attempts[a].at # 0}
  <1>1. Len(attempts) \in Nat /\ linked \in SUBSET (1 .. Len(attempts))
    BY SeqFacts DEF AttemptsOf, TypeInv, TypeOK
  <1>2. PICK a \in linked : a = Max(linked)
    BY <1>1, Last DEF SyncWithProvider
  <1>3. attempts[a].at \in DOMAIN paid
    BY DEF AttemptsOf, TypeInv, RefsOK, StripeOK
  <1>4. PICK i \in DOMAIN paid : i = attempts[a].at
    BY <1>3
  <1>5. i \in Nat /\ paid[i].status \in Statuses
    BY SeqFacts, StripePayoutFields DEF TypeInv, TypeOK
  <1>6. SetStatus(i, paid[i].status)
    BY <1>2, <1>4 DEF SyncWithProvider
  <1> QED BY <1>5, <1>6, StatusSet

LEMMA SyncType == ASSUME TypeInv, NEW p \in PayoutIds, SyncWithProvider(p) PROVE TypeInv'
  <1>1. PICK i \in DOMAIN paid : Sets(i, paid[i].status)
    BY SyncEffect
  <1> QED BY <1>1, SetsType DEF SyncWithProvider

(* Cancellations and crashes.                                              *)

LEMMA CancelEffect ==
  ASSUME TypeInv, NEW w \in Workers, NEW p \in PayoutIds, Cancel(w, p)
  PROVE  /\ p \in DOMAIN payouts /\ happened' \in Nat
         /\ \E t \in Task : /\ task' = [task EXCEPT ![w] = t] /\ t.step = "canceling"
                            /\ t.payout = p /\ t.transferred = payouts[p].transferred
  <1> DEFINE t == [Idle EXCEPT !.step = "canceling", !.payout = p,
                               !.transferred = payouts[p].transferred]
  <1>1. p \in DOMAIN payouts /\ happened' \in Nat /\ task' = [task EXCEPT ![w] = t]
    BY DEF Cancel, Happens, TypeInv, TypeOK
  <1>2. payouts[p].transferred \in BOOLEAN
    BY <1>1, Known, PayoutFields
  <1>3. t \in Task
    BY <1>2, IdleType DEF Task
  <1>4. t.step = "canceling" /\ t.payout = p
    BY IdleType DEF Task
  <1>5. t.transferred = payouts[p].transferred
    BY IdleType DEF Task
  <1> QED BY <1>1, <1>3, <1>4, <1>5

LEMMA CancelType ==
  ASSUME TypeInv, NEW w \in Workers, NEW p \in PayoutIds, Cancel(w, p) PROVE TypeInv'
  <1>1. PICK t \in Task : /\ task' = [task EXCEPT ![w] = t] /\ t.step = "canceling"
                          /\ t.payout = p
    BY CancelEffect
  <1>2. task' \in [Workers -> Task]
    BY <1>1, TaskSet DEF TypeInv
  <1>3. /\ task[w].step = "idle" /\ p \in DOMAIN payouts /\ happened' \in Nat
        /\ UNCHANGED <<environment, earned, balance, lock, payouts, created, triggers,
                       attempts, transfers, paid, events>>
    BY CancelEffect DEF Cancel
  <1>4. CreatesOK'
    BY <1>1, <1>3, CreatesKept
  <1>5. RefsOK'
    BY <1>1, <1>3, RefsTask
  <1>6. TypeOK'
    BY <1>2, <1>3 DEF TypeInv, TypeOK
  <1> QED BY <1>4, <1>5, <1>6 DEF TypeInv

(* A cancellation is refused or returns what was transferred.              *)
Returns(w, p) ==
  /\ \E x \in Payout : /\ Rewrites(p, x) /\ x.canceled = TRUE
                       /\ x.amount = payouts[p].amount
                       /\ x.transferred = payouts[p].transferred
  /\ balance' = balance + payouts[p].amount
  /\ transfers' = [transfers EXCEPT ![p] = IF task[w].transferred THEN "reversed" ELSE @]

LEMMA CancelCommitEffect ==
  ASSUME TypeInv, NEW w \in Workers, CancelCommit(w)
  PROVE  /\ task[w].payout \in DOMAIN payouts /\ task[w].step = "canceling"
         /\ task' = [task EXCEPT ![w] = Idle]
         /\ \/ UNCHANGED <<payouts, balance, transfers>>
            \/ Returns(w, task[w].payout)
         /\ UNCHANGED <<environment, earned, lock, created, triggers, attempts, paid,
                        events, happened>>
  <1>1. PICK p \in DOMAIN payouts : p = task[w].payout
    BY DEF CancelCommit, TypeInv, RefsOK, TaskRefs
  <1> DEFINE x == [payouts[p] EXCEPT !.canceled = TRUE]
  <1>2. x \in Payout /\ x.canceled = TRUE /\ x.amount = payouts[p].amount
        /\ x.transferred = payouts[p].transferred
    <2>1. payouts[p] \in Payout
      BY Known
    <2> QED BY <2>1 DEF Payout
  <1>3. \/ UNCHANGED <<payouts, balance, transfers>>
        \/ /\ payouts' = [payouts EXCEPT ![p] = x]
           /\ balance' = balance + payouts[p].amount
           /\ transfers' = [transfers EXCEPT ![p] =
                              IF task[w].transferred THEN "reversed" ELSE @]
    BY <1>1 DEF CancelCommit
  <1> HIDE DEF x
  <1>4. UNCHANGED <<payouts, balance, transfers>> \/ Returns(w, p)
    BY <1>2, <1>3, PayoutWritten DEF Returns
  <1> QED BY <1>1, <1>4 DEF CancelCommit

LEMMA CancelCommitType ==
  ASSUME TypeInv, NEW w \in Workers, CancelCommit(w) PROVE TypeInv'
  <1>1. PICK p \in DOMAIN payouts : p = task[w].payout
    BY CancelCommitEffect
  <1>2. /\ payouts' \in Seq(Payout) /\ Len(payouts') = Len(payouts)
        /\ DOMAIN payouts' = DOMAIN payouts /\ balance' \in Int
    <2>1. /\ payouts \in Seq(Payout) /\ balance \in Int /\ payouts[p].amount \in Nat
      BY Known, PayoutFields DEF TypeInv, TypeOK
    <2>2. CASE UNCHANGED <<payouts, balance, transfers>>
      BY <2>1, <2>2
    <2>3. CASE Returns(w, p)
      BY <2>1, <2>3 DEF Returns, Rewrites
    <2> QED BY <1>1, <2>2, <2>3, CancelCommitEffect
  <1>3. transfers' \in [PayoutIds -> {"none", "made", "reversed"}]
    <2>1. transfers \in [PayoutIds -> {"none", "made", "reversed"}]
      BY DEF TypeInv, TypeOK
    <2>2. CASE UNCHANGED <<payouts, balance, transfers>>
      BY <2>1, <2>2
    <2>3. CASE Returns(w, p)
      BY <2>1, <2>3 DEF Returns
    <2> QED BY <1>1, <2>2, <2>3, CancelCommitEffect
  <1>4. /\ task[w].step = "canceling" /\ task' = [task EXCEPT ![w] = Idle]
        /\ UNCHANGED <<environment, earned, lock, created, triggers, attempts, paid,
                       events, happened>>
    BY CancelCommitEffect
  <1>5. CreatesOK'
    BY <1>2, <1>4, CreatesKept, IdleType
  <1>6. RefsOK' /\ task' \in [Workers -> Task]
    BY <1>2, <1>4, RefsEnded
  <1>7. Len(payouts') <= MaxPayouts
    BY <1>2 DEF TypeInv, TypeOK
  <1>8. TypeOK'
    BY <1>2, <1>3, <1>4, <1>6, <1>7 DEF TypeInv, TypeOK
  <1> QED BY <1>5, <1>6, <1>8 DEF TypeInv

LEMMA CrashType == ASSUME TypeInv, NEW w \in Workers, Crash(w) PROVE TypeInv'
  <1>1. /\ task' = [task EXCEPT ![w] = Idle] /\ happened' \in Nat
        /\ lock' = (IF lock = w THEN NoWorker ELSE lock)
        /\ UNCHANGED <<environment, earned, balance, payouts, attempts, paid, events>>
    BY DEF Crash, Happens, TypeInv, TypeOK
  <1>2. /\ task' \in [Workers -> Task] /\ task'[w] = Idle
        /\ \A v \in Workers : v # w => task'[v] = task[v]
    BY <1>1, TaskSet, IdleType DEF TypeInv
  <1>3. Creating' = Creating \ {w} /\ Inserting' = Inserting \ {w}
    BY <1>2, IdleType DEF Creating, Inserting
  <1>4. Cardinality(Inserting') <= Cardinality(Inserting) /\ Cardinality(Inserting') \in Nat
    <2>1. Cardinality(Inserting) \in Nat /\ IsFiniteSet(Inserting)
      BY Known
    <2>2. CASE w \in Inserting
      BY <1>3, <2>1, <2>2, OneLess
    <2>3. CASE w \notin Inserting
      <3>1. Inserting' = Inserting
        BY <1>3, <2>3
      <3> QED BY <2>1, <3>1
    <2> QED BY <2>2, <2>3
  <1>5. CreatesOK'
    <2>1. \A v \in Creating' : lock' = v
      <3>1. \A v \in Creating : lock = v
        BY DEF TypeInv, CreatesOK
      <3> QED BY <1>1, <1>3, <3>1
    <2>2. Len(payouts) + Cardinality(Inserting) + (IF Creating = {} THEN 0 ELSE 1)
            <= MaxPayouts
      BY DEF TypeInv, CreatesOK
    <2>3. Creating = {} => Creating' = {}
      BY <1>3
    <2>4. Len(payouts') + Cardinality(Inserting') + (IF Creating' = {} THEN 0 ELSE 1)
            <= MaxPayouts
      BY <1>1, <1>4, <2>2, <2>3, Known, BoundsAssumption
    <2> QED BY <2>1, <2>4 DEF CreatesOK
  <1>6. /\ created' \subseteq DOMAIN payouts /\ \A m \in triggers' : m.payout \in DOMAIN payouts
        /\ triggers' \in SUBSET Trigger
    <2>1. TaskRefs(w) /\ MessagesOK
      BY DEF TypeInv, RefsOK
    <2>2. \/ created' = created
          \/ task[w].step = "transferring" /\ created' = created \cup {task[w].payout}
      BY DEF Crash
    <2>3. \/ triggers' = triggers
          \/ task[w].step = "triggering" /\ triggers' = triggers \cup {task[w].trigger}
      BY DEF Crash
    <2>4. task[w].trigger \in Trigger /\ triggers \in SUBSET Trigger
      BY TaskFields DEF TypeInv, TypeOK
    <2>5. created' \subseteq DOMAIN payouts
      BY <2>1, <2>2 DEF TaskRefs, MessagesOK
    <2>6. \A m \in triggers' : m.payout \in DOMAIN payouts
      BY <2>1, <2>3 DEF TaskRefs, MessagesOK
    <2> QED BY <2>3, <2>4, <2>5, <2>6
  <1>7. RefsOK'
    <2>1. TaskRefs(w)'
      BY <1>2, IdleType DEF TaskRefs
    <2>2. RefsOK
      BY DEF TypeInv
    <2> QED BY <1>1, <1>2, <1>6, <2>1, <2>2, RefsKept DEF RefsOK, MessagesOK, StripeOK
  <1>8. transfers' \in [PayoutIds -> {"none", "made", "reversed"}]
    <2>1. UNCHANGED transfers
          \/ transfers' = [transfers EXCEPT ![task[w].payout] = "reversed"]
      BY DEF Crash
    <2> QED BY <2>1 DEF TypeInv, TypeOK
  <1>9. lock' \in Workers \cup {NoWorker} /\ created' \in SUBSET PayoutIds
    BY <1>1, <1>6, Known DEF TypeInv, TypeOK
  <1>10. TypeOK'
    BY <1>1, <1>2, <1>6, <1>8, <1>9 DEF TypeInv, TypeOK
  <1> QED BY <1>5, <1>7, <1>10 DEF TypeInv

LEMMA EarnType == ASSUME TypeInv, Earn PROVE TypeInv'
  <1>1. CreatesOK'
    BY CreatesSame DEF Earn
  <1>2. RefsOK'
    <2>1. RefsOK
      BY DEF TypeInv
    <2> QED BY <2>1, RefsKept DEF Earn, RefsOK, MessagesOK, StripeOK
  <1>3. earned' \in 0 .. MaxEarned /\ balance' \in Int
    BY BoundsAssumption DEF Earn, TypeInv, TypeOK
  <1>4. TypeOK'
    BY <1>3 DEF Earn, TypeInv, TypeOK
  <1> QED BY <1>1, <1>2, <1>4 DEF TypeInv

LEMMA SameType == ASSUME TypeInv, UNCHANGED vars PROVE TypeInv'
  <1>1. CreatesOK'
    BY CreatesSame DEF vars
  <1>2. RefsOK'
    <2>1. RefsOK
      BY DEF TypeInv
    <2> QED BY <2>1, RefsKept DEF vars, RefsOK, MessagesOK, StripeOK
  <1>3. TypeOK'
    BY DEF vars, TypeInv, TypeOK
  <1> QED BY <1>1, <1>2, <1>3 DEF TypeInv

(* The steps.                                                              *)
LEMMA Cases ==
  ASSUME [Next]_vars
  PROVE  \/ Earn \/ TriggerPayouts \/ UNCHANGED vars
         \/ \E w \in Workers :
              \/ CreateSum(w) \/ CreateNumber(w) \/ CreateInsert(w) \/ CreateCommit(w)
              \/ TransferCommit(w) \/ TriggerCommit(w) \/ CancelCommit(w) \/ Crash(w)
              \/ \E p \in PayoutIds : Transfer(w, p) \/ Cancel(w, p)
              \/ \E m \in triggers : TriggerPayout(w, m)
         \/ \E m \in triggers : TriggerTooEarly(m) \/ TriggerRefused(m)
         \/ \E p \in PayoutIds :
              Age(p) \/ SyncWithProvider(p) \/ \E amount \in Amounts : Retry(p, amount)
         \/ \E i \in DOMAIN paid, status \in {"in_transit", "succeeded", "failed"} :
              StripeUpdates(i, status)
         \/ \E e \in events : UpdateFromStripe(e)
  BY DEF Next, Start, Handle, Finish

LEMMA TypeInit == ASSUME Init PROVE TypeInv
  <1>1. /\ task = [w \in Workers |-> Idle] /\ payouts = <<>> /\ Len(payouts) = 0
        /\ DOMAIN payouts = {} /\ DOMAIN paid = {} /\ DOMAIN attempts = {}
    BY DEF Init
  <1>2. task \in [Workers -> Task] /\ \A w \in Workers : task[w].step = "idle"
    BY <1>1, IdleType
  <1>3. Creating = {} /\ Inserting = {}
    BY <1>2 DEF Creating, Inserting
  <1>4. Cardinality(Inserting) = 0
    BY <1>3, FS_EmptySet
  <1>5. CreatesOK
    BY <1>1, <1>3, <1>4, BoundsAssumption DEF CreatesOK
  <1>6. RefsOK
    BY <1>1, <1>2 DEF Init, RefsOK, TaskRefs, MessagesOK, StripeOK
  <1>7. TypeOK
    <2>1. payouts \in Seq(Payout) /\ attempts \in Seq(Attempt) /\ paid \in Seq(StripePayout)
      BY DEF Init
    <2>2. environment \in SUBSET AllEvents
      BY EnvironmentsAssumption DEF Init
    <2>3. transfers \in [PayoutIds -> {"none", "made", "reversed"}]
      BY DEF Init
    <2> QED BY <1>1, <1>2, <2>1, <2>2, <2>3, BoundsAssumption DEF Init, TypeOK
  <1> QED BY <1>5, <1>6, <1>7 DEF TypeInv

LEMMA TypeNext == ASSUME TypeInv, [Next]_vars PROVE TypeInv'
  <1>1. CASE Earn \/ TriggerPayouts \/ UNCHANGED vars
    BY <1>1, EarnType, TriggerPayoutsType, SameType
  <1>2. ASSUME NEW w \in Workers,
               \/ CreateSum(w) \/ CreateNumber(w) \/ CreateInsert(w) \/ CreateCommit(w)
               \/ TransferCommit(w) \/ TriggerCommit(w) \/ CancelCommit(w) \/ Crash(w)
        PROVE  TypeInv'
    BY <1>2, CreateSumType, CreateNumberType, CreateInsertType, CreateCommitType,
       TransferCommitType, TriggerCommitType, CancelCommitType, CrashType
  <1>3. ASSUME NEW w \in Workers, NEW p \in PayoutIds, Transfer(w, p) \/ Cancel(w, p)
        PROVE  TypeInv'
    BY <1>3, TransferType, CancelType
  <1>4. ASSUME NEW w \in Workers, NEW m \in triggers, TriggerPayout(w, m) PROVE TypeInv'
    BY <1>4, TriggerPayoutType
  <1>5. ASSUME NEW m \in triggers, TriggerTooEarly(m) \/ TriggerRefused(m) PROVE TypeInv'
    BY <1>5, TooEarlyType, RefusedType
  <1>6. ASSUME NEW p \in PayoutIds,
               Age(p) \/ SyncWithProvider(p) \/ \E amount \in Amounts : Retry(p, amount)
        PROVE  TypeInv'
    BY <1>6, AgeType, SyncType, RetryType
  <1>7. ASSUME NEW i \in DOMAIN paid, NEW status \in {"in_transit", "succeeded", "failed"},
               StripeUpdates(i, status)
        PROVE  TypeInv'
    BY <1>7, StripeUpdatesType
  <1>8. ASSUME NEW e \in events, UpdateFromStripe(e) PROVE TypeInv'
    BY <1>8, UpdateType
  <1> QED BY <1>1, <1>2, <1>3, <1>4, <1>5, <1>6, <1>7, <1>8, Cases

LEMMA TypeInvariant == Spec => []TypeInv
  <1>1. Init => TypeInv
    BY TypeInit
  <1>2. TypeInv /\ [Next]_vars => TypeInv'
    BY TypeNext
  <1> QED BY <1>1, <1>2, PTL DEF Spec

(* Every row, message and task keeps its type: amounts never get negative, *)
(* and payouts stay within their bound because the lock admits one request *)
(* at a time (create).                                                     *)
THEOREM TypeCorrect == Spec => []TypeOK
  <1>1. TypeInv => TypeOK
    BY DEF TypeInv
  <1> QED BY <1>1, TypeInvariant, PTL

-----------------------------------------------------------------------------
(* Transfers of canceled payouts are returned.                             *)

(* What neither transfers nor cancels a payout.                            *)
LEMMA TransfersKept ==
  ASSUME TypeInv, TransfersOK, UNCHANGED <<created, transfers>>,
         DOMAIN payouts' = DOMAIN payouts,
         \A p \in DOMAIN payouts : /\ payouts'[p].canceled = payouts[p].canceled
                                   /\ payouts'[p].transferred = payouts[p].transferred,
         \A w \in Workers :
           \/ task'[w] = task[w]
           \/ /\ task[w].step \notin {"transferring", "canceling"}
              /\ task'[w].step \notin {"transferring", "canceling"}
  PROVE  TransfersOK'
  <1>1. \A p \in PayoutIds : ToBeTransferred(p)' <=> ToBeTransferred(p)
    BY DEF ToBeTransferred
  <1>2. \A p \in PayoutIds : ToBeTransferred(p) => p \in DOMAIN payouts
    BY DEF ToBeTransferred, TypeInv, RefsOK, TaskRefs, MessagesOK
  <1>3. \A p \in PayoutIds, w \in Workers :
          CanceledBy(w, p)' => CanceledBy(w, p) /\ task'[w] = task[w]
    BY DEF CanceledBy
  <1> SUFFICES ASSUME NEW p \in PayoutIds PROVE TransferOK(p)'
    BY DEF TransfersOK
  <1>4. TransferOK(p)
    BY DEF TransfersOK
  <1> QED BY <1>1, <1>2, <1>3, <1>4 DEF TransferOK

LEMMA CreateCommitTransfers ==
  ASSUME TypeInv, TransfersOK, NEW w \in Workers, CreateCommit(w) PROVE TransfersOK'
  <1>1. PICK q : q = Len(payouts) + 1
    OBVIOUS
  <1>2. /\ DOMAIN payouts' = DOMAIN payouts \cup {q} /\ q \notin DOMAIN payouts
        /\ \A p \in DOMAIN payouts : payouts'[p] = payouts[p]
        /\ created' \subseteq created \cup {q} /\ created \subseteq created'
        /\ task' = [task EXCEPT ![w] = Idle]
    BY <1>1, CreateCommitEffect DEF CreateCommit
  <1>3. payouts'[q].canceled = FALSE
    BY <1>1, CreateCommitEffect
  <1>4. task'[w] = Idle /\ \A v \in Workers : v # w => task'[v] = task[v]
    BY <1>2, TaskSet, IdleType DEF TypeInv
  <1>5. task[w].step = "inserted" /\ transfers' = transfers
    BY DEF CreateCommit
  <1>6. \A p \in PayoutIds, v \in Workers :
          /\ CanceledBy(v, p)' <=> CanceledBy(v, p)
          /\ CanceledBy(v, p) => p \in DOMAIN payouts /\ task'[v] = task[v]
    BY <1>4, <1>5, IdleType DEF CanceledBy, TypeInv, RefsOK, TaskRefs
  <1>7. \A p \in PayoutIds :
          /\ ToBeTransferred(p)' => ToBeTransferred(p) \/ p = q
          /\ ToBeTransferred(p) => ToBeTransferred(p)'
    BY <1>2, <1>4, <1>5, IdleType DEF ToBeTransferred
  <1>8. \A p \in PayoutIds : ToBeTransferred(p) => p \in DOMAIN payouts
    BY DEF ToBeTransferred, TypeInv, RefsOK, TaskRefs, MessagesOK
  <1> SUFFICES ASSUME NEW p \in PayoutIds PROVE TransferOK(p)'
    BY DEF TransfersOK
  <1>9. TransferOK(p)
    BY DEF TransfersOK
  <1>10. CASE p = q
    <2>1. transfers[p] # "made"
      BY <1>2, <1>9, <1>10 DEF TransferOK
    <2>2. \A v \in Workers : ~CanceledBy(v, p)'
      BY <1>2, <1>6, <1>10
    <2> QED BY <1>3, <1>5, <1>10, <2>1, <2>2 DEF TransferOK
  <1>11. CASE p # q
    BY <1>2, <1>5, <1>6, <1>7, <1>8, <1>9, <1>11 DEF TransferOK
  <1> QED BY <1>10, <1>11

LEMMA TransferTransfers ==
  ASSUME TypeInv, TransfersOK, NEW w \in Workers, NEW q \in PayoutIds, Transfer(w, q)
  PROVE  TransfersOK'
  <1>1. PICK t \in Task : /\ task' = [task EXCEPT ![w] = t] /\ t.step = "transferring"
                          /\ t.payout = q
    BY TransferEffect
  <1>2. task'[w] = t /\ \A v \in Workers : v # w => task'[v] = task[v]
    BY <1>1, TaskSet DEF TypeInv
  <1>3. /\ task[w].step = "idle" /\ q \in created /\ created' = created \ {q}
        /\ payouts' = payouts
        /\ \A p \in PayoutIds : p # q => transfers'[p] = transfers[p]
    BY DEF Transfer, TypeInv, TypeOK
  <1>4. \A p \in PayoutIds, v \in Workers :
          CanceledBy(v, p)' => CanceledBy(v, p) /\ task'[v] = task[v]
    BY <1>1, <1>2 DEF CanceledBy
  <1>5. \A p \in PayoutIds : ToBeTransferred(p)' <=> ToBeTransferred(p)
    BY <1>1, <1>2, <1>3 DEF ToBeTransferred
  <1>6. q \in DOMAIN payouts /\ ToBeTransferred(q)
    BY <1>3 DEF ToBeTransferred, TypeInv, RefsOK, MessagesOK
  <1> SUFFICES ASSUME NEW p \in PayoutIds PROVE TransferOK(p)'
    BY DEF TransfersOK
  <1>7. TransferOK(p)
    BY DEF TransfersOK
  <1>8. CASE p = q
    BY <1>3, <1>4, <1>5, <1>6, <1>7, <1>8 DEF TransferOK
  <1>9. CASE p # q
    BY <1>3, <1>4, <1>5, <1>7, <1>9 DEF TransferOK
  <1> QED BY <1>8, <1>9

LEMMA TransferCommitTransfers ==
  ASSUME TypeInv, TransfersOK, NEW w \in Workers, TransferCommit(w) PROVE TransfersOK'
  <1>1. PICK q \in DOMAIN payouts : q = task[w].payout
    BY TransferCommitEffect
  <1>2. PICK x \in Payout : Rewrites(q, x) /\ x.transferred = TRUE
                            /\ x.canceled = payouts[q].canceled
    BY <1>1, TransferCommitEffect
  <1>3. /\ DOMAIN payouts' = DOMAIN payouts /\ payouts'[q].transferred
        /\ \A p \in DOMAIN payouts : /\ payouts'[p].canceled = payouts[p].canceled
                                     /\ p # q => payouts'[p] = payouts[p]
    BY <1>2 DEF Rewrites
  <1>4. /\ task[w].step = "transferring" /\ task' = [task EXCEPT ![w] = Idle]
        /\ UNCHANGED <<created, transfers>>
    BY TransferCommitEffect
  <1>5. task'[w] = Idle /\ \A v \in Workers : v # w => task'[v] = task[v]
    BY <1>4, TaskSet, IdleType DEF TypeInv
  <1>6. \A p \in PayoutIds, v \in Workers :
          CanceledBy(v, p)' => CanceledBy(v, p) /\ task'[v] = task[v]
    BY <1>5, IdleType DEF CanceledBy
  <1>7. \A p \in PayoutIds :
          /\ ToBeTransferred(p)' => ToBeTransferred(p)
          /\ p # q /\ ToBeTransferred(p) => ToBeTransferred(p)'
    BY <1>1, <1>4, <1>5, IdleType DEF ToBeTransferred
  <1>8. \A p \in PayoutIds : ToBeTransferred(p) => p \in DOMAIN payouts
    BY DEF ToBeTransferred, TypeInv, RefsOK, TaskRefs, MessagesOK
  <1> SUFFICES ASSUME NEW p \in PayoutIds PROVE TransferOK(p)'
    BY DEF TransfersOK
  <1>9. TransferOK(p)
    BY DEF TransfersOK
  <1>10. CASE p = q
    BY <1>3, <1>4, <1>6, <1>7, <1>8, <1>9, <1>10 DEF TransferOK
  <1>11. CASE p # q
    BY <1>3, <1>4, <1>6, <1>7, <1>8, <1>9, <1>11 DEF TransferOK
  <1> QED BY <1>10, <1>11

LEMMA CancelTransfers ==
  ASSUME TypeInv, TransfersOK, Without({"early_cancel"}), NEW w \in Workers,
         NEW q \in PayoutIds, Cancel(w, q)
  PROVE  TransfersOK'
  <1>1. PICK t \in Task : /\ task' = [task EXCEPT ![w] = t] /\ t.step = "canceling"
                          /\ t.payout = q /\ t.transferred = payouts[q].transferred
    BY CancelEffect
  <1>2. task'[w] = t /\ \A v \in Workers : v # w => task'[v] = task[v]
    BY <1>1, TaskSet DEF TypeInv
  <1>3. /\ task[w].step = "idle" /\ UNCHANGED <<payouts, created, transfers>>
        /\ ~ToBeTransferred(q)
    BY DEF Cancel, Without, May, Busy, ToBeTransferred
  <1>4. \A p \in PayoutIds, v \in Workers :
          CanceledBy(v, p)' => \/ CanceledBy(v, p) /\ task'[v] = task[v]
                               \/ v = w /\ p = q
    BY <1>1, <1>2 DEF CanceledBy
  <1>5. \A p \in PayoutIds : ToBeTransferred(p)' <=> ToBeTransferred(p)
    BY <1>1, <1>2, <1>3 DEF ToBeTransferred
  <1> SUFFICES ASSUME NEW p \in PayoutIds PROVE TransferOK(p)'
    BY DEF TransfersOK
  <1>6. TransferOK(p)
    BY DEF TransfersOK
  <1>7. CASE p = q
    <2>1. ~task'[w].transferred => transfers[p] # "made"
      BY <1>1, <1>2, <1>3, <1>6, <1>7 DEF TransferOK
    <2> QED BY <1>3, <1>4, <1>5, <1>6, <1>7, <2>1 DEF TransferOK
  <1>8. CASE p # q
    BY <1>3, <1>4, <1>5, <1>6, <1>8 DEF TransferOK
  <1> QED BY <1>7, <1>8

LEMMA CancelCommitTransfers ==
  ASSUME TypeInv, TransfersOK, NEW w \in Workers, CancelCommit(w) PROVE TransfersOK'
  <1>1. PICK q \in DOMAIN payouts : q = task[w].payout
    BY CancelCommitEffect
  <1>2. q \in PayoutIds
    BY Known
  <1>3. /\ task[w].step = "canceling" /\ task' = [task EXCEPT ![w] = Idle]
        /\ created' = created
    BY CancelCommitEffect
  <1>4. task'[w] = Idle /\ \A v \in Workers : v # w => task'[v] = task[v]
    BY <1>3, TaskSet, IdleType DEF TypeInv
  <1>5. \A p \in PayoutIds, v \in Workers :
          CanceledBy(v, p)' => CanceledBy(v, p) /\ task'[v] = task[v]
    BY <1>4, IdleType DEF CanceledBy
  <1>6. \A p \in PayoutIds : ToBeTransferred(p)' <=> ToBeTransferred(p)
    BY <1>3, <1>4, IdleType DEF ToBeTransferred
  <1>7. \A p \in PayoutIds : ToBeTransferred(p) => p \in DOMAIN payouts
    BY DEF ToBeTransferred, TypeInv, RefsOK, TaskRefs, MessagesOK
  <1> SUFFICES ASSUME NEW p \in PayoutIds PROVE TransferOK(p)'
    BY DEF TransfersOK
  <1>8. TransferOK(p)
    BY DEF TransfersOK
  <1>9. CASE UNCHANGED <<payouts, balance, transfers>>
    BY <1>5, <1>6, <1>8, <1>9 DEF TransferOK
  <1>10. CASE Returns(w, q)
    <2>1. /\ DOMAIN payouts' = DOMAIN payouts
          /\ \A r \in DOMAIN payouts : r # q => payouts'[r] = payouts[r]
      BY <1>10 DEF Returns, Rewrites
    <2>2. /\ \A r \in PayoutIds : r # q => transfers'[r] = transfers[r]
          /\ transfers'[q] = IF task[w].transferred THEN "reversed" ELSE transfers[q]
      BY <1>2, <1>10 DEF Returns, TypeInv, TypeOK
    <2>3. CanceledBy(w, q)
      BY <1>1, <1>3 DEF CanceledBy
    <2>4. CASE p = q
      <3>1. ~ToBeTransferred(p)
        BY <1>8, <2>3, <2>4 DEF TransferOK
      <3>2. transfers'[p] # "made"
        BY <1>8, <2>2, <2>3, <2>4 DEF TransferOK
      <3> QED BY <1>5, <1>6, <3>1, <3>2 DEF TransferOK
    <2>5. CASE p # q
      BY <1>5, <1>6, <1>7, <1>8, <2>1, <2>2, <2>5 DEF TransferOK
    <2> QED BY <2>4, <2>5
  <1> QED BY <1>1, <1>9, <1>10, CancelCommitEffect

LEMMA CrashTransfers ==
  ASSUME TypeInv, TransfersOK, NEW w \in Workers, Crash(w) PROVE TransfersOK'
  <1>1. /\ task' = [task EXCEPT ![w] = Idle] /\ payouts' = payouts
        /\ created' = IF task[w].step = "transferring" THEN created \cup {task[w].payout}
                      ELSE created
    BY DEF Crash
  <1>2. task'[w] = Idle /\ \A v \in Workers : v # w => task'[v] = task[v]
    BY <1>1, TaskSet, IdleType DEF TypeInv
  <1>3. \A p \in PayoutIds : transfers'[p] = "made" => transfers[p] = "made"
    <2>1. \/ UNCHANGED transfers
          \/ transfers' = [transfers EXCEPT ![task[w].payout] = "reversed"]
      BY DEF Crash
    <2> QED BY <2>1 DEF TypeInv, TypeOK
  <1>4. \A p \in PayoutIds, v \in Workers :
          CanceledBy(v, p)' => CanceledBy(v, p) /\ task'[v] = task[v]
    BY <1>2, IdleType DEF CanceledBy
  <1>5. \A p \in PayoutIds : ToBeTransferred(p)' <=> ToBeTransferred(p)
    <2>1. CASE task[w].step = "transferring"
      BY <1>1, <1>2, <2>1, IdleType DEF ToBeTransferred
    <2>2. CASE task[w].step # "transferring"
      BY <1>1, <1>2, <2>2, IdleType DEF ToBeTransferred
    <2> QED BY <2>1, <2>2
  <1> SUFFICES ASSUME NEW p \in PayoutIds PROVE TransferOK(p)'
    BY DEF TransfersOK
  <1>6. TransferOK(p)
    BY DEF TransfersOK
  <1> QED BY <1>1, <1>3, <1>4, <1>5, <1>6 DEF TransferOK

(* The other steps.                                                        *)
LEMMA WorkerTransfers ==
  ASSUME TypeInv, TransfersOK, NEW w \in Workers,
         \/ CreateSum(w) \/ CreateNumber(w) \/ CreateInsert(w) \/ TriggerCommit(w)
         \/ \E m \in triggers : TriggerPayout(w, m)
  PROVE  TransfersOK'
  <1>1. UNCHANGED <<payouts, created, transfers>>
    BY DEF CreateSum, CreateNumber, CreateInsert, TriggerCommit, TriggerPayout
  <1>2. task[w].step \in {"idle", "summed", "numbered", "triggering"}
    BY DEF CreateSum, CreateNumber, CreateInsert, TriggerCommit, TriggerPayout
  <1>3. PICK t \in Task : /\ task' = [task EXCEPT ![w] = t]
                          /\ t.step \notin {"transferring", "canceling"}
    BY SumEffect, NumberEffect, InsertEffect, TriggerCommitEffect, TriggerPayoutEffect,
       IdleType
  <1>4. task'[w] = t /\ \A v \in Workers : v # w => task'[v] = task[v]
    BY <1>3, TaskSet DEF TypeInv
  <1> QED BY <1>1, <1>2, <1>3, <1>4, TransfersKept

LEMMA OtherTransfers ==
  ASSUME TypeInv, TransfersOK,
         \/ Earn \/ TriggerPayouts \/ UNCHANGED vars
         \/ \E m \in triggers : TriggerTooEarly(m) \/ TriggerRefused(m)
         \/ \E p \in PayoutIds : SyncWithProvider(p) \/ \E amount \in Amounts : Retry(p, amount)
         \/ \E i \in DOMAIN paid, status \in {"in_transit", "succeeded", "failed"} :
              StripeUpdates(i, status)
         \/ \E e \in events : UpdateFromStripe(e)
  PROVE  TransfersOK'
  <1>1. UNCHANGED <<payouts, created, transfers, task>>
    BY DEF Earn, TriggerPayouts, vars, TriggerTooEarly, TriggerRefused, SyncWithProvider,
           Retry, StripeUpdates, UpdateFromStripe
  <1> QED BY <1>1, TransfersKept

LEMMA AgeTransfers ==
  ASSUME TypeInv, TransfersOK, NEW q \in PayoutIds, Age(q) PROVE TransfersOK'
  <1>1. PICK x \in Payout : Rewrites(q, x) /\ x.transferred = payouts[q].transferred
                            /\ x.canceled = payouts[q].canceled
    BY AgeEffect
  <1>2. q \in DOMAIN payouts /\ UNCHANGED <<created, transfers, task>>
    BY AgeEffect
  <1>3. \A p \in DOMAIN payouts : /\ payouts'[p].canceled = payouts[p].canceled
                                  /\ payouts'[p].transferred = payouts[p].transferred
    BY <1>1, <1>2 DEF Rewrites
  <1> QED BY <1>1, <1>2, <1>3, TransfersKept DEF Rewrites

(* The environment never changes.                                          *)
LEMMA SameEnvironment == ASSUME [Next]_vars PROVE environment' = environment
  BY Cases DEF Earn, TriggerPayouts, vars, CreateSum, CreateNumber, CreateInsert,
     CreateCommit, TransferCommit, TriggerCommit, CancelCommit, Crash, Transfer, Cancel,
     TriggerPayout, TriggerTooEarly, TriggerRefused, Age, SyncWithProvider, Retry,
     StripeUpdates, UpdateFromStripe

LEMMA TransferNext == ASSUME TypeInv, TransferInv, [Next]_vars PROVE TransferInv'
  <1> SUFFICES ASSUME Without({"early_cancel"})' PROVE TransfersOK'
    BY DEF TransferInv
  <1>1. Without({"early_cancel"}) /\ TransfersOK
    BY SameEnvironment DEF Without, TransferInv
  <1>2. ASSUME NEW w \in Workers, CreateCommit(w) \/ TransferCommit(w) \/ CancelCommit(w)
                                  \/ Crash(w)
        PROVE  TransfersOK'
    BY <1>1, <1>2, CreateCommitTransfers, TransferCommitTransfers, CancelCommitTransfers,
       CrashTransfers
  <1>3. ASSUME NEW w \in Workers, NEW p \in PayoutIds, Transfer(w, p) \/ Cancel(w, p)
        PROVE  TransfersOK'
    BY <1>1, <1>3, TransferTransfers, CancelTransfers
  <1>4. ASSUME NEW p \in PayoutIds, Age(p) PROVE TransfersOK'
    BY <1>1, <1>4, AgeTransfers
  <1> QED BY <1>1, <1>2, <1>3, <1>4, Cases, WorkerTransfers, OtherTransfers

(* Without cancellations before the transfer, no money is left at the      *)
(* seller's Stripe account for a payout that was canceled, whether the     *)
(* transfer, the cancellation or the reversal is interrupted or repeated   *)
(* (transfer_stripe, cancel).                                              *)
THEOREM TransferIsBookedCorrect == Spec => []TransferIsBooked
  <1>1. Init => TransferInv
    <2>1. ASSUME Init PROVE TransfersOK
      <3>1. /\ created = {} /\ \A p \in PayoutIds : transfers[p] = "none"
            /\ \A w \in Workers : task[w].step = "idle"
        BY <2>1, IdleType DEF Init
      <3>2. \A p \in PayoutIds : ~ToBeTransferred(p) /\ \A w \in Workers : ~CanceledBy(w, p)
        BY <3>1 DEF ToBeTransferred, CanceledBy
      <3> QED BY <3>1, <3>2 DEF TransfersOK, TransferOK
    <2> QED BY <2>1 DEF TransferInv
  <1>2. TypeInv /\ TransferInv /\ [Next]_vars => TransferInv'
    BY TransferNext
  <1>3. TransferInv => TransferIsBooked
    BY DEF TransferInv, TransfersOK, TransferOK, TransferIsBooked
  <1> QED BY <1>1, <1>2, <1>3, TypeInvariant, PTL DEF Spec

-----------------------------------------------------------------------------
(* Sums of the amounts of rows.                                            *)

LEMMA TotalType ==
  ASSUME NEW rows, NEW S \in SUBSET DOMAIN rows, IsFiniteSet(S),
         \A i \in S : rows[i].amount \in Nat
  PROVE  Total(rows, S) \in Nat
  <1> DEFINE f == [i \in DOMAIN rows |-> rows[i].amount]
  <1>1. \A i \in S : f[i] \in Nat
    OBVIOUS
  <1> HIDE DEF f
  <1>2. SumFunctionOnSet(f, S) \in Nat
    BY <1>1, SumType
  <1> QED BY <1>2 DEF Total, f

LEMMA TotalRemove ==
  ASSUME NEW rows, NEW S \in SUBSET DOMAIN rows, IsFiniteSet(S),
         \A i \in S : rows[i].amount \in Nat, NEW k \in S
  PROVE  Total(rows, S) = rows[k].amount + Total(rows, S \ {k})
  <1> DEFINE f == [i \in DOMAIN rows |-> rows[i].amount]
  <1>1. (\A i \in S : f[i] \in Nat) /\ f[k] = rows[k].amount
    OBVIOUS
  <1> HIDE DEF f
  <1>2. SumFunctionOnSet(f, S) = f[k] + SumFunctionOnSet(f, S \ {k})
    BY <1>1, SumRemove
  <1> QED BY <1>1, <1>2 DEF Total, f

LEMMA TotalSame ==
  ASSUME NEW q, NEW r, NEW S, IsFiniteSet(S), S \in SUBSET DOMAIN q, S \in SUBSET DOMAIN r,
         \A i \in S : q[i].amount = r[i].amount
  PROVE  Total(q, S) = Total(r, S)
  <1> DEFINE f == [i \in DOMAIN q |-> q[i].amount]
             h == [i \in DOMAIN r |-> r[i].amount]
  <1>1. \A i \in S : f[i] = h[i]
    OBVIOUS
  <1> HIDE DEF f, h
  <1>2. SumFunctionOnSet(f, S) = SumFunctionOnSet(h, S)
    BY <1>1, SumEqual
  <1> QED BY <1>2 DEF Total, f, h

(* The payouts that are not canceled.                                      *)
Kept == {p \in DOMAIN payouts : ~payouts[p].canceled}

LEMMA KeptFacts ==
  ASSUME TypeInv
  PROVE  /\ Kept \in SUBSET DOMAIN payouts /\ IsFiniteSet(Kept)
         /\ \A p \in DOMAIN payouts : payouts[p].amount \in Nat
         /\ Booked = Total(payouts, Kept) /\ Booked \in Nat
  <1>1. IsFiniteSet(DOMAIN payouts)
    BY SeqFacts DEF TypeInv, TypeOK
  <1>2. Kept \in SUBSET DOMAIN payouts /\ IsFiniteSet(Kept)
    BY <1>1, FS_Subset DEF Kept
  <1>3. \A p \in DOMAIN payouts : payouts[p].amount \in Nat
    BY Known, PayoutFields
  <1>4. Booked = Total(payouts, Kept)
    BY DEF Booked, Kept
  <1> QED BY <1>2, <1>3, <1>4, TotalType

LEMMA BookedSame ==
  ASSUME TypeInv, DOMAIN payouts' = DOMAIN payouts,
         \A p \in DOMAIN payouts : /\ payouts'[p].canceled = payouts[p].canceled
                                   /\ payouts'[p].amount = payouts[p].amount
  PROVE  Booked' = Booked
  <1>1. Kept' = Kept
    BY DEF Kept
  <1>2. Booked' = Total(payouts', Kept)
    BY <1>1 DEF Booked, Kept
  <1>3. Total(payouts', Kept) = Total(payouts, Kept)
    BY KeptFacts, TotalSame
  <1> QED BY <1>2, <1>3, KeptFacts

LEMMA BookedCommit ==
  ASSUME TypeInv, NEW w \in Workers, CreateCommit(w)
  PROVE  Booked' = task[w].amount + Booked
  <1>1. PICK q : q = Len(payouts) + 1
    OBVIOUS
  <1>2. /\ DOMAIN payouts' = DOMAIN payouts \cup {q} /\ q \notin DOMAIN payouts
        /\ \A p \in DOMAIN payouts : payouts'[p] = payouts[p]
    BY <1>1, CreateCommitEffect
  <1>3. payouts'[q].amount = task[w].amount /\ payouts'[q].canceled = FALSE
    BY <1>1, CreateCommitEffect
  <1>4. /\ Kept \in SUBSET DOMAIN payouts /\ IsFiniteSet(Kept)
        /\ \A p \in DOMAIN payouts : payouts[p].amount \in Nat
        /\ Booked = Total(payouts, Kept)
    BY KeptFacts
  <1>5. Kept' = Kept \cup {q}
    BY <1>2, <1>3 DEF Kept
  <1>6. task[w].amount \in Nat
    BY TaskFields DEF TypeInv
  <1>7. /\ IsFiniteSet(Kept \cup {q}) /\ Kept \cup {q} \in SUBSET DOMAIN payouts'
        /\ \A p \in Kept \cup {q} : payouts'[p].amount \in Nat
    BY <1>2, <1>3, <1>4, <1>6, FS_AddElement
  <1>8. (Kept \cup {q}) \ {q} = Kept
    BY <1>2, <1>4
  <1>9. Total(payouts', Kept \cup {q}) = task[w].amount + Total(payouts', Kept)
    BY <1>3, <1>7, <1>8, TotalRemove
  <1>10. Total(payouts', Kept) = Total(payouts, Kept)
    BY <1>2, <1>4, TotalSame
  <1>11. Booked' = Total(payouts', Kept \cup {q})
    BY <1>5 DEF Booked, Kept
  <1> QED BY <1>4, <1>9, <1>10, <1>11

LEMMA BookedReturned ==
  ASSUME TypeInv, NEW w \in Workers, NEW q \in DOMAIN payouts, Returns(w, q),
         ~payouts[q].canceled
  PROVE  Booked = payouts[q].amount + Booked' /\ Booked' \in Nat
  <1>1. /\ DOMAIN payouts' = DOMAIN payouts /\ payouts'[q].canceled
        /\ \A p \in DOMAIN payouts : p # q => payouts'[p] = payouts[p]
    BY DEF Returns, Rewrites
  <1>2. /\ Kept \in SUBSET DOMAIN payouts /\ IsFiniteSet(Kept)
        /\ \A p \in DOMAIN payouts : payouts[p].amount \in Nat
        /\ Booked = Total(payouts, Kept)
    BY KeptFacts
  <1>3. q \in Kept /\ Kept' = Kept \ {q}
    BY <1>1 DEF Kept
  <1>4. Total(payouts, Kept) = payouts[q].amount + Total(payouts, Kept \ {q})
    BY <1>2, <1>3, TotalRemove
  <1>5. IsFiniteSet(Kept \ {q})
    BY <1>2, FS_Subset
  <1>6. Total(payouts', Kept \ {q}) = Total(payouts, Kept \ {q})
    BY <1>1, <1>2, <1>5, TotalSame
  <1>7. Booked' = Total(payouts', Kept \ {q})
    BY <1>3 DEF Booked, Kept
  <1>8. Total(payouts, Kept \ {q}) \in Nat
    BY <1>2, <1>5, TotalType
  <1> QED BY <1>2, <1>4, <1>6, <1>7, <1>8

-----------------------------------------------------------------------------
(* No more is booked than was earned.                                      *)

(* What books nothing.                                                     *)
LEMMA BookingsKept ==
  ASSUME TypeInv, BookingsOK, UNCHANGED <<balance, earned>>, Len(payouts') = Len(payouts),
         DOMAIN payouts' = DOMAIN payouts,
         \A p \in DOMAIN payouts : /\ payouts'[p].canceled = payouts[p].canceled
                                   /\ payouts'[p].amount = payouts[p].amount,
         \A w \in Workers :
           \/ task'[w] = task[w]
           \/ task'[w].step \notin {"summed", "numbered", "inserted", "canceling"}
  PROVE  BookingsOK'
  <1>1. Booked' = Booked
    BY BookedSame
  <1>2. ASSUME NEW w \in Workers PROVE BookingOK(w)'
    <2>1. BookingOK(w)
      BY DEF BookingsOK
    <2>2. task[w].step = "canceling" => task[w].payout \in DOMAIN payouts
      BY DEF TypeInv, RefsOK, TaskRefs
    <2> QED BY <2>1, <2>2 DEF BookingOK
  <1>3. ASSUME NEW v \in Workers, NEW w \in Workers, v # w PROVE Apart(v, w)'
    <2>1. Apart(v, w)
      BY <1>3 DEF BookingsOK
    <2> QED BY <2>1 DEF Apart
  <1> QED BY <1>1, <1>2, <1>3 DEF BookingsOK

LEMMA EarnBookings == ASSUME TypeInv, BookingsOK, Earn PROVE BookingsOK'
  <1>1. balance' = balance + 1 /\ earned' = earned + 1 /\ UNCHANGED <<payouts, task>>
    BY DEF Earn
  <1>2. Booked' = Booked /\ Booked \in Nat /\ balance \in Int /\ earned \in Nat
    BY <1>1, BookedSame, KeptFacts, BoundsAssumption DEF TypeInv, TypeOK
  <1>3. ASSUME NEW w \in Workers PROVE BookingOK(w)'
    <2>1. BookingOK(w)
      BY DEF BookingsOK
    <2>2. task[w].amount \in Nat
      BY TaskFields DEF TypeInv
    <2> QED BY <1>1, <1>2, <2>1, <2>2 DEF BookingOK
  <1>4. ASSUME NEW v \in Workers, NEW w \in Workers, v # w PROVE Apart(v, w)'
    BY <1>1, <1>4 DEF BookingsOK, Apart
  <1>5. balance' >= 0 /\ balance' + Booked' = earned'
    BY <1>1, <1>2 DEF BookingsOK
  <1> QED BY <1>3, <1>4, <1>5 DEF BookingsOK

(* A request gets on: the rows stay as they are.                           *)
LEMMA RequestBookings ==
  ASSUME TypeInv, BookingsOK, NEW w \in Workers, NEW t \in Task,
         task' = [task EXCEPT ![w] = t], UNCHANGED <<payouts, balance, earned>>,
         BookingOK(w)', \A v \in Workers : v # w => Apart(v, w)' /\ Apart(w, v)'
  PROVE  BookingsOK'
  <1>1. task'[w] = t /\ \A v \in Workers : v # w => task'[v] = task[v]
    BY TaskSet DEF TypeInv
  <1>2. Booked' = Booked
    BY BookedSame
  <1>3. ASSUME NEW v \in Workers, v # w PROVE BookingOK(v)'
    <2>1. BookingOK(v)
      BY DEF BookingsOK
    <2> QED BY <1>1, <1>3, <2>1 DEF BookingOK
  <1>4. ASSUME NEW u \in Workers, NEW v \in Workers, u # v, u # w, v # w PROVE Apart(u, v)'
    <2>1. Apart(u, v)
      BY <1>4 DEF BookingsOK
    <2> QED BY <1>1, <1>4, <2>1 DEF Apart
  <1> QED BY <1>2, <1>3, <1>4 DEF BookingsOK

LEMMA CreateSumBookings ==
  ASSUME TypeInv, BookingsOK, NEW w \in Workers, CreateSum(w) PROVE BookingsOK'
  <1>1. PICK t \in Task : /\ task' = [task EXCEPT ![w] = t] /\ t.step = "summed"
                          /\ t.amount = balance
    BY SumEffect
  <1>2. task'[w] = t /\ UNCHANGED <<payouts, balance, earned>> /\ balance \in Int
    BY <1>1, TaskSet DEF TypeInv, TypeOK, CreateSum
  <1>3. BookingOK(w)'
    BY <1>1, <1>2 DEF BookingOK
  <1>4. \A v \in Workers : v # w => Apart(v, w)' /\ Apart(w, v)'
    BY <1>1, <1>2 DEF Apart
  <1> QED BY <1>1, <1>2, <1>3, <1>4, RequestBookings

LEMMA CreateNumberBookings ==
  ASSUME TypeInv, BookingsOK, NEW w \in Workers, CreateNumber(w) PROVE BookingsOK'
  <1>1. PICK t \in Task : /\ task' = [task EXCEPT ![w] = t] /\ t.step = "numbered"
                          /\ t.amount = task[w].amount /\ t.number = Len(payouts) + 1
    BY NumberEffect
  <1>2. task'[w] = t /\ UNCHANGED <<payouts, balance, earned>>
    BY <1>1, TaskSet DEF TypeInv, CreateNumber
  <1>3. task[w].amount <= balance /\ Len(payouts) + 1 \in 1 .. Len(payouts) + 1
    BY Known DEF CreateNumber, BookingsOK, BookingOK
  <1>4. BookingOK(w)'
    BY <1>1, <1>2, <1>3 DEF BookingOK
  <1>5. \A v \in Workers : v # w => Apart(v, w)' /\ Apart(w, v)'
    BY <1>1, <1>2 DEF Apart
  <1> QED BY <1>1, <1>2, <1>4, <1>5, RequestBookings

LEMMA CreateInsertBookings ==
  ASSUME TypeInv, BookingsOK, NEW w \in Workers, CreateInsert(w) PROVE BookingsOK'
  <1>1. PICK t \in Task :
          /\ task' = [task EXCEPT ![w] = t]
          /\ \/ t.step = "idle"
             \/ /\ task[w].number \notin DOMAIN payouts /\ t.step = "inserted"
                /\ t.amount = task[w].amount /\ t.number = task[w].number
    BY InsertEffect, IdleType
  <1>2. /\ task'[w] = t /\ UNCHANGED <<payouts, balance, earned>>
        /\ \A v \in Workers : v # w => task'[v] = task[v]
    BY <1>1, TaskSet DEF TypeInv, CreateInsert
  <1>3. task[w].number \notin DOMAIN payouts =>
          task[w].number = Len(payouts) + 1 /\ task[w].amount <= balance
    <2>1. BookingOK(w) /\ task[w].step = "numbered"
      BY DEF CreateInsert, BookingsOK
    <2>2. Len(payouts) \in Nat /\ DOMAIN payouts = 1 .. Len(payouts)
      BY Known
    <2> QED BY <2>1, <2>2 DEF BookingOK
  <1>4. BookingOK(w)'
    BY <1>1, <1>2, <1>3 DEF BookingOK
  <1>5. ASSUME NEW v \in Workers, v # w PROVE Apart(v, w)' /\ Apart(w, v)'
    <2>1. CASE t.step = "idle"
      BY <1>2, <2>1 DEF Apart
    <2>2. CASE t.step # "idle"
      <3>1. t.step = "inserted" /\ task[w].number = Len(payouts) + 1
        BY <1>1, <1>3, <2>2
      <3>2. task[v].step = "inserted" => task[v].number = Len(payouts) + 1
        BY DEF BookingsOK, BookingOK
      <3>3. task[v].step = "inserted" => task[v].number # task[w].number
        BY DEF CreateInsert, Inserting
      <3>4. task'[v].step # "inserted"
        BY <1>2, <1>5, <3>1, <3>2, <3>3
      <3> QED BY <1>2, <3>1, <3>4 DEF Apart
    <2> QED BY <2>1, <2>2
  <1> QED BY <1>1, <1>2, <1>4, <1>5, RequestBookings

LEMMA CancelBookings ==
  ASSUME TypeInv, BookingsOK, Without({"overtaken", "impatient"}), NEW w \in Workers,
         NEW q \in PayoutIds, Cancel(w, q)
  PROVE  BookingsOK'
  <1>1. PICK t \in Task : task' = [task EXCEPT ![w] = t] /\ t.step = "canceling" /\ t.payout = q
    BY CancelEffect
  <1>2. /\ task'[w] = t /\ UNCHANGED <<payouts, balance, earned>>
        /\ \A v \in Workers : v # w => task'[v] = task[v]
    BY <1>1, TaskSet DEF TypeInv, Cancel
  <1>3. ~payouts[q].canceled
    BY DEF Cancel, Status
  <1>4. BookingOK(w)'
    BY <1>1, <1>2, <1>3 DEF BookingOK
  <1>5. \A v \in Workers : ~(task[v].step = "canceling" /\ task[v].payout = q)
    <2>1. \A v \in Workers : task[v].payout = q => Busy(q)
      BY DEF Busy
    <2>2. ~Busy(q) \/ ~Canceling(q)
      BY DEF Cancel, Without, May
    <2> QED BY <2>1, <2>2 DEF Canceling
  <1>6. ASSUME NEW v \in Workers, v # w PROVE Apart(v, w)' /\ Apart(w, v)'
    BY <1>1, <1>2, <1>5, <1>6 DEF Apart
  <1> QED BY <1>1, <1>2, <1>4, <1>6, RequestBookings

LEMMA CreateCommitBookings ==
  ASSUME TypeInv, BookingsOK, Without({"overtaken", "impatient"}), NEW w \in Workers,
         CreateCommit(w)
  PROVE  BookingsOK'
  <1>1. /\ task' = [task EXCEPT ![w] = Idle] /\ Len(payouts') = Len(payouts) + 1
        /\ \A p \in DOMAIN payouts : payouts'[p] = payouts[p]
    BY CreateCommitEffect
  <1>2. task'[w] = Idle /\ \A v \in Workers : v # w => task'[v] = task[v]
    BY <1>1, TaskSet, IdleType DEF TypeInv
  <1>3. /\ task[w].step = "inserted" /\ balance' = balance - task[w].amount
        /\ earned' = earned /\ \A v \in Workers : task[v].step # "summed"
    BY DEF CreateCommit, Without, May
  <1>4. Booked' = task[w].amount + Booked /\ Booked \in Nat /\ task[w].amount \in Nat
        /\ balance \in Int /\ earned \in Nat /\ Len(payouts) \in Nat
    BY BookedCommit, KeptFacts, Known, TaskFields, BoundsAssumption DEF TypeInv, TypeOK
  <1>5. task[w].amount <= balance
    BY <1>3 DEF BookingsOK, BookingOK
  <1>6. balance' >= 0 /\ balance' + Booked' = earned'
    BY <1>3, <1>4, <1>5 DEF BookingsOK
  <1>7. ASSUME NEW v \in Workers PROVE BookingOK(v)'
    <2>1. CASE v = w
      BY <1>2, <2>1, IdleType DEF BookingOK
    <2>2. CASE v # w
      <3>1. BookingOK(v) /\ Apart(w, v)
        BY <2>2 DEF BookingsOK
      <3>2. task[v].step \notin {"summed", "inserted"} /\ task'[v] = task[v]
        BY <1>2, <1>3, <2>2, <3>1 DEF Apart
      <3>3. task[v].step = "canceling" => task[v].payout \in DOMAIN payouts
        BY DEF TypeInv, RefsOK, TaskRefs
      <3>4. task[v].step = "numbered" =>
              /\ task[v].number \in 1 .. Len(payouts) + 1 + 1
              /\ task[v].number # Len(payouts) + 1 + 1
        BY <1>4, <3>1 DEF BookingOK
      <3> QED BY <1>1, <3>1, <3>2, <3>3, <3>4 DEF BookingOK
    <2> QED BY <2>1, <2>2
  <1>8. ASSUME NEW u \in Workers, NEW v \in Workers, u # v PROVE Apart(u, v)'
    <2>1. Apart(u, v)
      BY <1>8 DEF BookingsOK
    <2> QED BY <1>2, <2>1, IdleType DEF Apart
  <1> QED BY <1>6, <1>7, <1>8 DEF BookingsOK

LEMMA CancelCommitBookings ==
  ASSUME TypeInv, BookingsOK, NEW w \in Workers, CancelCommit(w) PROVE BookingsOK'
  <1>1. PICK q \in DOMAIN payouts : q = task[w].payout
    BY CancelCommitEffect
  <1>2. /\ task[w].step = "canceling" /\ task' = [task EXCEPT ![w] = Idle]
        /\ earned' = earned
    BY CancelCommitEffect
  <1>3. task'[w] = Idle /\ \A v \in Workers : v # w => task'[v] = task[v]
    BY <1>2, TaskSet, IdleType DEF TypeInv
  <1>4. CASE UNCHANGED <<payouts, balance, transfers>>
    BY <1>2, <1>3, <1>4, BookingsKept, IdleType
  <1>5. CASE Returns(w, q)
    <2>1. ~payouts[q].canceled
      BY <1>1, <1>2 DEF BookingsOK, BookingOK
    <2>2. /\ Booked = payouts[q].amount + Booked' /\ payouts[q].amount \in Nat
          /\ Booked \in Nat /\ Booked' \in Nat /\ balance \in Int /\ earned \in Nat
      BY <1>5, <2>1, BookedReturned, KeptFacts, BoundsAssumption DEF TypeInv, TypeOK
    <2>3. /\ balance' = balance + payouts[q].amount /\ Len(payouts') = Len(payouts)
          /\ \A p \in DOMAIN payouts : p # q => payouts'[p] = payouts[p]
      BY <1>5 DEF Returns, Rewrites
    <2>4. Booked' = Booked - payouts[q].amount
      BY <2>2
    <2>5. balance' >= 0 /\ balance' + Booked' = earned'
      BY <1>2, <2>2, <2>3, <2>4 DEF BookingsOK
    <2>6. ASSUME NEW v \in Workers PROVE BookingOK(v)'
      <3>1. CASE v = w
        BY <1>3, <3>1, IdleType DEF BookingOK
      <3>2. CASE v # w
        <4>1. BookingOK(v) /\ Apart(w, v) /\ task'[v] = task[v]
          BY <1>3, <3>2 DEF BookingsOK
        <4>2. task[v].step = "canceling" =>
                task[v].payout \in DOMAIN payouts /\ task[v].payout # q
          BY <1>1, <1>2, <4>1 DEF Apart, TypeInv, RefsOK, TaskRefs
        <4>3. task[v].amount \in Nat
          BY TaskFields DEF TypeInv
        <4>4. task[v].amount <= balance => task[v].amount <= balance'
          BY <2>2, <2>3, <4>3
        <4> QED BY <2>3, <4>1, <4>2, <4>4 DEF BookingOK
      <3> QED BY <3>1, <3>2
    <2>7. ASSUME NEW u \in Workers, NEW v \in Workers, u # v PROVE Apart(u, v)'
      <3>1. Apart(u, v)
        BY <2>7 DEF BookingsOK
      <3> QED BY <1>3, <3>1, IdleType DEF Apart
    <2> QED BY <2>5, <2>6, <2>7 DEF BookingsOK
  <1> QED BY <1>1, <1>4, <1>5, CancelCommitEffect

(* The other steps.                                                        *)
LEMMA WorkerBookings ==
  ASSUME TypeInv, BookingsOK, NEW w \in Workers,
         \/ TransferCommit(w) \/ TriggerCommit(w) \/ Crash(w)
         \/ \E p \in PayoutIds : Transfer(w, p)
         \/ \E m \in triggers : TriggerPayout(w, m)
  PROVE  BookingsOK'
  <1>1. UNCHANGED <<balance, earned>>
    BY DEF TransferCommit, TriggerCommit, Crash, Transfer, TriggerPayout
  <1>2. PICK t \in Task : /\ task' = [task EXCEPT ![w] = t]
                          /\ t.step \notin {"summed", "numbered", "inserted", "canceling"}
    <2>1. CASE TransferCommit(w) \/ TriggerCommit(w) \/ Crash(w)
      <3>1. task' = [task EXCEPT ![w] = Idle]
        BY <2>1 DEF TransferCommit, TriggerCommit, Crash
      <3> QED BY <3>1, IdleType
    <2> QED BY <2>1, TransferEffect, TriggerPayoutEffect
  <1>3. task'[w] = t /\ \A v \in Workers : v # w => task'[v] = task[v]
    BY <1>2, TaskSet DEF TypeInv
  <1>4. /\ Len(payouts') = Len(payouts) /\ DOMAIN payouts' = DOMAIN payouts
        /\ \A p \in DOMAIN payouts : /\ payouts'[p].canceled = payouts[p].canceled
                                     /\ payouts'[p].amount = payouts[p].amount
    <2>1. CASE TransferCommit(w)
      <3>1. PICK x \in Payout : /\ Rewrites(task[w].payout, x)
                                /\ x.amount = payouts[task[w].payout].amount
                                /\ x.canceled = payouts[task[w].payout].canceled
        BY <2>1, TransferCommitEffect
      <3> QED BY <3>1 DEF Rewrites
    <2>2. CASE ~TransferCommit(w)
      <3>1. UNCHANGED payouts
        BY <2>2 DEF TriggerCommit, Crash, Transfer, TriggerPayout
      <3> QED BY <3>1
    <2> QED BY <2>1, <2>2
  <1> QED BY <1>1, <1>2, <1>3, <1>4, BookingsKept

LEMMA OtherBookings ==
  ASSUME TypeInv, BookingsOK,
         \/ TriggerPayouts \/ UNCHANGED vars
         \/ \E m \in triggers : TriggerTooEarly(m) \/ TriggerRefused(m)
         \/ \E p \in PayoutIds : SyncWithProvider(p) \/ \E amount \in Amounts : Retry(p, amount)
         \/ \E i \in DOMAIN paid, status \in {"in_transit", "succeeded", "failed"} :
              StripeUpdates(i, status)
         \/ \E e \in events : UpdateFromStripe(e)
  PROVE  BookingsOK'
  <1>1. UNCHANGED <<payouts, balance, earned, task>>
    BY DEF TriggerPayouts, vars, TriggerTooEarly, TriggerRefused, SyncWithProvider,
           Retry, StripeUpdates, UpdateFromStripe
  <1> QED BY <1>1, BookingsKept

LEMMA AgeBookings ==
  ASSUME TypeInv, BookingsOK, NEW q \in PayoutIds, Age(q) PROVE BookingsOK'
  <1>1. PICK x \in Payout : Rewrites(q, x) /\ x.amount = payouts[q].amount
                            /\ x.canceled = payouts[q].canceled
    BY AgeEffect
  <1>2. q \in DOMAIN payouts /\ UNCHANGED <<balance, earned, task>>
    BY AgeEffect
  <1>3. \A p \in DOMAIN payouts : /\ payouts'[p].canceled = payouts[p].canceled
                                  /\ payouts'[p].amount = payouts[p].amount
    BY <1>1, <1>2 DEF Rewrites
  <1> QED BY <1>1, <1>2, <1>3, BookingsKept DEF Rewrites

LEMMA BookingNext == ASSUME TypeInv, BookingInv, [Next]_vars PROVE BookingInv'
  <1> SUFFICES ASSUME Without({"overtaken", "impatient"})' PROVE BookingsOK'
    BY DEF BookingInv
  <1>1. Without({"overtaken", "impatient"}) /\ BookingsOK
    BY SameEnvironment DEF Without, BookingInv
  <1>2. ASSUME NEW w \in Workers, \/ CreateSum(w) \/ CreateNumber(w) \/ CreateInsert(w)
                                  \/ CreateCommit(w) \/ CancelCommit(w)
        PROVE  BookingsOK'
    BY <1>1, <1>2, CreateSumBookings, CreateNumberBookings, CreateInsertBookings,
       CreateCommitBookings, CancelCommitBookings
  <1>3. ASSUME NEW w \in Workers, NEW p \in PayoutIds, Cancel(w, p) PROVE BookingsOK'
    BY <1>1, <1>3, CancelBookings
  <1>4. ASSUME NEW p \in PayoutIds, Age(p) PROVE BookingsOK'
    BY <1>1, <1>4, AgeBookings
  <1>5. CASE Earn
    BY <1>1, <1>5, EarnBookings
  <1> QED BY <1>1, <1>2, <1>3, <1>4, <1>5, Cases, WorkerBookings, OtherBookings

(* The seller's balance and the payouts that are booked are together what  *)
(* the seller has earned: neither of two requests that read the same       *)
(* balance books what the other has booked, although the lock is released  *)
(* before the commit (create), and a canceled payout comes back once       *)
(* (cancel).                                                               *)
THEOREM BookedWithinEarnedCorrect == Spec => []BookedWithinEarned
  <1>1. Init => BookingInv
    <2>1. ASSUME Init PROVE BookingsOK
      <3>1. balance = 0 /\ earned = 0 /\ \A w \in Workers : task[w].step = "idle"
        BY <2>1, IdleType DEF Init
      <3>2. Kept = {}
        BY <2>1 DEF Init, Kept
      <3>3. Booked = 0
        <4>1. Booked = SumFunctionOnSet([i \in DOMAIN payouts |-> payouts[i].amount], {})
          BY <3>2 DEF Booked, Kept, Total
        <4> QED BY <4>1, SumFacts, FS_EmptySet
      <3> QED BY <3>1, <3>3 DEF BookingsOK, BookingOK, Apart
    <2> QED BY <2>1 DEF BookingInv
  <1>2. TypeInv /\ BookingInv /\ [Next]_vars => BookingInv'
    BY BookingNext
  <1>3. BookingInv => BookedWithinEarned
    BY DEF BookingInv, BookingsOK, Booked, BookedWithinEarned
  <1> QED BY <1>1, <1>2, <1>3, TypeInvariant, PTL DEF Spec

-----------------------------------------------------------------------------
(* No payout is paid out more than once.                                   *)

LEMMA PaidFacts ==
  ASSUME TypeInv, NEW p
  PROVE  /\ PaidOf(p) \in SUBSET DOMAIN paid /\ IsFiniteSet(PaidOf(p))
         /\ \A i \in DOMAIN paid : paid[i].amount \in Nat
         /\ PaidOut(p) \in Nat /\ (PaidOf(p) = {} => PaidOut(p) = 0)
  <1>1. /\ IsFiniteSet(DOMAIN paid) /\ \A i \in DOMAIN paid : paid[i] \in StripePayout
    BY SeqFacts DEF TypeInv, TypeOK
  <1>2. PaidOf(p) \in SUBSET DOMAIN paid /\ IsFiniteSet(PaidOf(p))
    BY <1>1, FS_Subset DEF PaidOf
  <1>3. \A i \in DOMAIN paid : paid[i].amount \in Nat
    BY <1>1, StripePayoutFields
  <1>4. PaidOut(p) \in Nat
    BY <1>2, <1>3, TotalType DEF PaidOut
  <1>5. ASSUME PaidOf(p) = {} PROVE PaidOut(p) = 0
    <2>1. PaidOut(p) = SumFunctionOnSet([i \in DOMAIN paid |-> paid[i].amount], {})
      BY <1>5 DEF PaidOut, Total
    <2> QED BY <2>1, SumFacts, FS_EmptySet
  <1> QED BY <1>2, <1>3, <1>4, <1>5

(* What triggers and pays nothing.                                         *)
LEMMA PaymentsKept ==
  ASSUME TypeInv, PaymentsOK, UNCHANGED <<attempts, paid, events>>, triggers' \subseteq triggers,
         DOMAIN payouts \subseteq DOMAIN payouts',
         \A p \in DOMAIN payouts' : payouts'[p].amount \in Nat,
         \A p \in DOMAIN payouts : payouts'[p].amount = payouts[p].amount,
         \A w \in Workers : \/ task'[w] = task[w]
                            \/ task[w].step # "triggering" /\ task'[w].step # "triggering"
  PROVE  PaymentsOK'
  <1>1. \A p : PaidOut(p)' = PaidOut(p)
    BY DEF PaidOut, PaidOf
  <1>2. \A i \in DOMAIN paid' : Recorded(i)'
    <2>1. \A i \in DOMAIN paid : Recorded(i)
      BY DEF PaymentsOK
    <2> QED BY <2>1 DEF Recorded
  <1>3. FailuresOK'
    BY DEF PaymentsOK, FailuresOK
  <1>4. ASSUME NEW m \in triggers' PROVE TriggerOK(m)'
    <2>1. m \in triggers /\ TriggerOK(m) /\ m.payout \in DOMAIN payouts
      BY Known DEF PaymentsOK
    <2> QED BY <1>1, <2>1 DEF TriggerOK
  <1>5. ASSUME NEW p \in DOMAIN payouts' PROVE PaidOut(p)' <= payouts'[p].amount
    <2>1. CASE p \in DOMAIN payouts
      BY <1>1, <2>1 DEF PaymentsOK
    <2>2. CASE p \notin DOMAIN payouts
      <3>1. PaidOf(p) = {}
        BY <2>2 DEF PaidOf, TypeInv, RefsOK, StripeOK
      <3>2. PaidOut(p) = 0
        BY <3>1, PaidFacts
      <3> QED BY <1>1, <3>2
    <2> QED BY <2>1, <2>2
  <1> QED BY <1>2, <1>3, <1>4, <1>5 DEF PaymentsOK

(* A message that triggers an idle payout fits in what remains of it.      *)
LEMMA TriggerPayments ==
  ASSUME TypeInv, PaymentsOK, NEW p \in DOMAIN payouts, NEW n \in Nat, ~Busy(p),
         PaidOut(p) + n <= payouts[p].amount,
         triggers' = triggers \cup {[payout |-> p, amount |-> n]},
         UNCHANGED <<payouts, attempts, paid, events, task>>
  PROVE  PaymentsOK'
  <1> DEFINE x == [payout |-> p, amount |-> n]
  <1>1. x.payout = p /\ x.amount = n /\ triggers' = triggers \cup {x}
    OBVIOUS
  <1> HIDE DEF x
  <1>2. (\A m \in triggers : m.payout # p) /\ \A w \in Workers : task[w].payout # p
    BY DEF Busy
  <1>3. \A q : PaidOut(q)' = PaidOut(q)
    BY DEF PaidOut, PaidOf
  <1>4. (\A i \in DOMAIN paid' : Recorded(i)') /\ FailuresOK'
    BY DEF PaymentsOK, Recorded, FailuresOK
  <1>5. ASSUME NEW m \in triggers' PROVE TriggerOK(m)'
    <2>1. CASE m = x
      BY <1>1, <1>2, <1>3, <2>1 DEF TriggerOK
    <2>2. CASE m \in triggers
      <3>1. TriggerOK(m)
        BY <2>2 DEF PaymentsOK
      <3> QED BY <1>1, <1>2, <1>3, <2>2, <3>1 DEF TriggerOK
    <2> QED BY <1>1, <2>1, <2>2
  <1>6. \A q \in DOMAIN payouts' : PaidOut(q)' <= payouts'[q].amount
    BY <1>3 DEF PaymentsOK
  <1> QED BY <1>4, <1>5, <1>6 DEF PaymentsOK

LEMMA TriggerPayoutsPayments ==
  ASSUME TypeInv, PaymentsOK, Without({"crash", "backlog", "impatient"}), TriggerPayouts
  PROVE  PaymentsOK'
  <1>1. PICK p \in DOMAIN payouts :
          /\ AttemptsOf(p) = {} /\ (Busy(p) => May("backlog"))
          /\ triggers' = triggers \cup {[payout |-> p, amount |-> payouts[p].amount]}
    BY TriggerPayoutsEffect
  <1>2. UNCHANGED <<payouts, attempts, paid, events, task>>
    BY DEF TriggerPayouts
  <1>3. ~Busy(p)
    BY <1>1 DEF Without, May
  <1>4. PaidOf(p) = {}
    <2>1. \A i \in DOMAIN paid : paid[i].payout = p => ~Recorded(i)
      BY <1>1, <1>3 DEF Recorded, AttemptsOf, Busy
    <2> QED BY <2>1 DEF PaymentsOK, PaidOf
  <1>5. payouts[p].amount \in Nat /\ PaidOut(p) = 0
    BY <1>4, PaidFacts, Known, PayoutFields
  <1> QED BY <1>1, <1>2, <1>3, <1>5, TriggerPayments

(* The attempts that have not failed cover what has been paid out.         *)
LEMMA PaidIsAttempted ==
  ASSUME TypeInv, PaymentsOK, NEW p \in DOMAIN payouts, ~Busy(p)
  PROVE  PaidOut(p) <= payouts[p].amount - Remaining(p)
  <1> DEFINE S == PaidOf(p)
             T == {a \in AttemptsOf(p) : attempts[a].status # "failed"}
             f == [i \in DOMAIN paid |-> paid[i].amount]
             g == [a \in DOMAIN attempts |-> attempts[a].amount]
             j == [i \in S |-> CHOOSE a \in T : /\ attempts[a].at = i
                                                /\ attempts[a].amount = paid[i].amount]
  <1>1. /\ IsFiniteSet(DOMAIN attempts) /\ \A a \in DOMAIN attempts : attempts[a] \in Attempt
    BY SeqFacts DEF TypeInv, TypeOK
  <1>2. T \in SUBSET DOMAIN attempts /\ IsFiniteSet(T)
    <2>1. T \in SUBSET DOMAIN attempts
      BY DEF AttemptsOf
    <2> QED BY <1>1, <2>1, FS_Subset
  <1>3. S \in SUBSET DOMAIN paid /\ IsFiniteSet(S)
    BY PaidFacts
  <1>4. \A i \in S : \E a \in T : attempts[a].at = i /\ attempts[a].amount = paid[i].amount
    <2> SUFFICES ASSUME NEW i \in S
                 PROVE  \E a \in T : attempts[a].at = i /\ attempts[a].amount = paid[i].amount
      OBVIOUS
    <2>1. i \in DOMAIN paid /\ paid[i].payout = p /\ paid[i].status # "failed" /\ Recorded(i)
      BY DEF PaidOf, PaymentsOK
    <2>2. PICK a \in DOMAIN attempts : /\ attempts[a].at = i /\ attempts[a].payout = p
                                       /\ attempts[a].amount = paid[i].amount
      BY <2>1 DEF Recorded, Busy
    <2>3. i # 0
      BY <2>1, SeqFacts DEF TypeInv, TypeOK
    <2>4. attempts[a].status # "failed"
      BY <2>1, <2>2, <2>3 DEF PaymentsOK, FailuresOK
    <2> QED BY <2>2, <2>4 DEF AttemptsOf
  <1>5. \A i \in S : /\ j[i] \in T /\ attempts[j[i]].at = i
                     /\ attempts[j[i]].amount = paid[i].amount
    BY <1>4
  <1>6. (\A i \in S : f[i] = paid[i].amount /\ f[i] \in Nat)
    BY <1>3, PaidFacts
  <1>7. \A a \in T : g[a] = attempts[a].amount /\ g[a] \in Nat
    BY <1>1, <1>2, AttemptFields
  <1> HIDE DEF S, T, j, f, g
  <1>8. \A i \in S : j[i] \in T /\ f[i] <= g[j[i]]
    BY <1>5, <1>6, <1>7
  <1>9. \A h, i \in S : j[h] = j[i] => h = i
    BY <1>5
  <1>10. SumFunctionOnSet(f, S) <= SumFunctionOnSet(g, T)
    BY <1>2, <1>3, <1>6, <1>7, <1>8, <1>9, SumInjected
  <1>11. PaidOut(p) = SumFunctionOnSet(f, S)
    BY DEF PaidOut, Total, f, S
  <1>12. Remaining(p) = payouts[p].amount - SumFunctionOnSet(g, T)
    BY DEF Remaining, Total, g, T
  <1>13. /\ payouts[p].amount \in Nat /\ SumFunctionOnSet(f, S) \in Nat
         /\ SumFunctionOnSet(g, T) \in Nat
    BY <1>2, <1>3, <1>6, <1>7, SumType, Known, PayoutFields
  <1> QED BY <1>10, <1>11, <1>12, <1>13

LEMMA RetryPayments ==
  ASSUME TypeInv, PaymentsOK, Without({"crash", "backlog", "impatient"}), NEW p \in PayoutIds,
         NEW amount \in Amounts, Retry(p, amount)
  PROVE  PaymentsOK'
  <1>1. /\ p \in DOMAIN payouts /\ amount <= Remaining(p) /\ ~Busy(p) /\ amount \in Nat
        /\ triggers' = triggers \cup {[payout |-> p, amount |-> amount]}
        /\ UNCHANGED <<payouts, attempts, paid, events, task>>
    BY DEF Retry, Without, May, Amounts
  <1>2. PaidOut(p) <= payouts[p].amount - Remaining(p)
    BY <1>1, PaidIsAttempted
  <1>3. PaidOut(p) \in Nat /\ payouts[p].amount \in Nat
    BY <1>1, PaidFacts, Known, PayoutFields
  <1>4. Remaining(p) \in Int
    <2> DEFINE T == {a \in AttemptsOf(p) : attempts[a].status # "failed"}
    <2>1. /\ IsFiniteSet(DOMAIN attempts)
          /\ \A a \in DOMAIN attempts : attempts[a].amount \in Nat
      BY SeqFacts, AttemptFields DEF TypeInv, TypeOK
    <2>2. T \in SUBSET DOMAIN attempts
      BY DEF AttemptsOf
    <2>3. Total(attempts, T) \in Nat
      BY <2>1, <2>2, FS_Subset, TotalType
    <2> QED BY <1>3, <2>3 DEF Remaining
  <1>5. PaidOut(p) + amount <= payouts[p].amount
    BY <1>1, <1>2, <1>3, <1>4
  <1> QED BY <1>1, <1>5, TriggerPayments

LEMMA RefusedPayments ==
  ASSUME TypeInv, PaymentsOK, NEW m \in triggers, TriggerRefused(m) PROVE PaymentsOK'
  <1>1. /\ Attempts(m.payout, m.amount, 0, "failed") /\ triggers' = triggers \ {m}
        /\ UNCHANGED <<payouts, paid, events, task>>
    BY RefusedEffect
  <1>2. \A p : PaidOut(p)' = PaidOut(p)
    BY <1>1 DEF PaidOut, PaidOf
  <1>3. ASSUME NEW i \in DOMAIN paid PROVE Recorded(i)'
    <2>1. Recorded(i)
      BY DEF PaymentsOK
    <2> QED BY <1>1, <2>1 DEF Recorded, Attempts
  <1>4. FailuresOK'
    <2>1. ASSUME NEW a \in DOMAIN attempts', attempts'[a].at # 0,
                 attempts'[a].status = "failed"
          PROVE  paid[attempts'[a].at].status = "failed"
      <3>1. a \in DOMAIN attempts /\ attempts'[a] = attempts[a]
        BY <1>1, <2>1 DEF Attempts
      <3> QED BY <2>1, <3>1 DEF PaymentsOK, FailuresOK
    <2>2. \A e \in events : e.status = "failed" => paid[e.at].status = "failed"
      BY DEF PaymentsOK, FailuresOK
    <2> QED BY <1>1, <2>1, <2>2 DEF FailuresOK
  <1>5. ASSUME NEW n \in triggers' PROVE TriggerOK(n)'
    <2>1. n \in triggers /\ TriggerOK(n)
      BY <1>1 DEF PaymentsOK
    <2> QED BY <1>1, <1>2, <2>1 DEF TriggerOK
  <1>6. \A p \in DOMAIN payouts' : PaidOut(p)' <= payouts'[p].amount
    BY <1>1, <1>2 DEF PaymentsOK
  <1> QED BY <1>1, <1>3, <1>4, <1>5, <1>6 DEF PaymentsOK

(* What has been paid out grows by the amount of the message.              *)
LEMMA PaysOut ==
  ASSUME TypeInv, NEW q, NEW n \in Nat, Pays(q, n)
  PROVE  /\ PaidOut(q)' = n + PaidOut(q)
         /\ \A p : p # q => PaidOut(p)' = PaidOut(p)
  <1>1. PICK k : k = Len(paid) + 1
    OBVIOUS
  <1>2. /\ DOMAIN paid' = DOMAIN paid \cup {k} /\ k \notin DOMAIN paid
        /\ \A i \in DOMAIN paid : paid'[i] = paid[i]
        /\ paid'[k].payout = q /\ paid'[k].amount = n /\ paid'[k].status # "failed"
    BY <1>1 DEF Pays
  <1>3. PaidOf(q)' = PaidOf(q) \cup {k} /\ \A p : p # q => PaidOf(p)' = PaidOf(p)
    BY <1>2 DEF PaidOf
  <1>4. \A p : /\ PaidOf(p) \in SUBSET DOMAIN paid /\ IsFiniteSet(PaidOf(p))
               /\ \A i \in DOMAIN paid : paid[i].amount \in Nat
    BY PaidFacts
  <1>5. \A p : PaidOf(p) \in SUBSET DOMAIN paid'
    BY <1>2, <1>4
  <1>6. \A p : Total(paid', PaidOf(p)) = Total(paid, PaidOf(p))
    <2> SUFFICES ASSUME NEW p PROVE Total(paid', PaidOf(p)) = Total(paid, PaidOf(p))
      OBVIOUS
    <2>1. \A i \in PaidOf(p) : paid'[i].amount = paid[i].amount
      BY <1>2, <1>4
    <2> QED BY <1>4, <1>5, <2>1, TotalSame
  <1>7. /\ IsFiniteSet(PaidOf(q) \cup {k}) /\ PaidOf(q) \cup {k} \in SUBSET DOMAIN paid'
        /\ \A i \in PaidOf(q) \cup {k} : paid'[i].amount \in Nat
        /\ (PaidOf(q) \cup {k}) \ {k} = PaidOf(q)
    BY <1>2, <1>4, FS_AddElement
  <1>8. Total(paid', PaidOf(q) \cup {k}) = n + Total(paid', PaidOf(q))
    BY <1>2, <1>7, TotalRemove
  <1>9. \A p : PaidOut(p)' = Total(paid', PaidOf(p)')
    BY DEF PaidOut
  <1>10. \A p : PaidOut(p) = Total(paid, PaidOf(p))
    BY DEF PaidOut
  <1> QED BY <1>3, <1>6, <1>8, <1>9, <1>10

LEMMA TriggerPayoutPayments ==
  ASSUME TypeInv, PaymentsOK, NEW w \in Workers, NEW m \in triggers, TriggerPayout(w, m)
  PROVE  PaymentsOK'
  <1>1. PICK t \in Task : /\ task' = [task EXCEPT ![w] = t] /\ t.step = "triggering"
                          /\ t.payout = m.payout /\ t.trigger = m /\ t.at = Len(paid) + 1
    BY TriggerPayoutEffect
  <1>2. Pays(m.payout, m.amount)
    BY TriggerPayoutEffect
  <1>3. task'[w] = t /\ \A v \in Workers : v # w => task'[v] = task[v]
    BY <1>1, TaskSet DEF TypeInv
  <1>4. /\ task[w].step = "idle" /\ triggers' = triggers \ {m}
        /\ UNCHANGED <<payouts, attempts, events>>
    BY DEF TriggerPayout
  <1>5. m.amount \in Nat /\ m.payout \in DOMAIN payouts /\ TriggerOK(m)
    BY Known, TriggerFields DEF PaymentsOK
  <1>6. /\ PaidOut(m.payout)' = m.amount + PaidOut(m.payout)
        /\ \A p : p # m.payout => PaidOut(p)' = PaidOut(p)
    BY <1>2, <1>5, PaysOut
  <1>7. ASSUME NEW i \in DOMAIN paid' PROVE Recorded(i)'
    <2>1. CASE i \in DOMAIN paid
      <3>1. Recorded(i) /\ paid'[i] = paid[i]
        BY <1>2, <2>1 DEF PaymentsOK, Pays
      <3> QED BY <1>3, <1>4, <3>1 DEF Recorded
    <2>2. CASE i \notin DOMAIN paid
      <3>1. i = Len(paid) + 1 /\ paid'[i].payout = m.payout /\ paid'[i].amount = m.amount
        BY <1>2, <2>2 DEF Pays
      <3> QED BY <1>1, <1>3, <3>1 DEF Recorded
    <2> QED BY <2>1, <2>2
  <1>8. FailuresOK'
    <2>1. \A i \in DOMAIN paid : paid'[i] = paid[i]
      BY <1>2 DEF Pays
    <2>2. (\A a \in DOMAIN attempts : attempts[a].at \in {0} \cup DOMAIN paid)
          /\ \A e \in events : e.at \in DOMAIN paid
      BY DEF TypeInv, RefsOK, StripeOK
    <2> QED BY <1>4, <2>1, <2>2 DEF PaymentsOK, FailuresOK
  <1>9. ASSUME NEW n \in triggers' PROVE TriggerOK(n)'
    <2>1. n \in triggers /\ TriggerOK(n) /\ n # m
      BY <1>4 DEF PaymentsOK
    <2>2. n.payout # m.payout
      BY <1>5, <2>1 DEF TriggerOK
    <2> QED BY <1>1, <1>3, <1>4, <1>6, <2>1, <2>2 DEF TriggerOK
  <1>10. ASSUME NEW p \in DOMAIN payouts' PROVE PaidOut(p)' <= payouts'[p].amount
    <2>1. CASE p = m.payout
      <3>1. PaidOut(p) \in Nat /\ payouts[p].amount \in Nat
        BY <1>4, PaidFacts, Known, PayoutFields
      <3> QED BY <1>4, <1>5, <1>6, <2>1, <3>1 DEF TriggerOK
    <2>2. CASE p # m.payout
      BY <1>4, <1>6, <2>2 DEF PaymentsOK
    <2> QED BY <2>1, <2>2
  <1> QED BY <1>7, <1>8, <1>9, <1>10 DEF PaymentsOK

LEMMA TriggerCommitPayments ==
  ASSUME TypeInv, PaymentsOK, NEW w \in Workers, TriggerCommit(w) PROVE PaymentsOK'
  <1>1. /\ Attempts(task[w].payout, task[w].trigger.amount, task[w].at, "pending")
        /\ task' = [task EXCEPT ![w] = Idle] /\ task[w].step = "triggering"
        /\ UNCHANGED <<payouts, triggers, paid, events>>
    BY TriggerCommitEffect
  <1>2. task'[w] = Idle /\ \A v \in Workers : v # w => task'[v] = task[v]
    BY <1>1, TaskSet, IdleType DEF TypeInv
  <1>3. \A p : PaidOut(p)' = PaidOut(p)
    BY <1>1 DEF PaidOut, PaidOf
  <1>4. ASSUME NEW i \in DOMAIN paid PROVE Recorded(i)'
    <2>1. Recorded(i)
      BY DEF PaymentsOK
    <2>2. CASE /\ task[w].at = i /\ task[w].payout = paid[i].payout
               /\ task[w].trigger.amount = paid[i].amount
      <3>1. PICK a : a = Len(attempts) + 1
        OBVIOUS
      <3>2. a \in DOMAIN attempts' /\ attempts'[a].at = i
            /\ attempts'[a].payout = paid[i].payout /\ attempts'[a].amount = paid[i].amount
        BY <1>1, <2>2, <3>1 DEF Attempts
      <3> QED BY <1>1, <3>2 DEF Recorded
    <2>3. CASE ~(/\ task[w].at = i /\ task[w].payout = paid[i].payout
                 /\ task[w].trigger.amount = paid[i].amount)
      <3>1. CASE \E a \in DOMAIN attempts : /\ attempts[a].at = i
                                            /\ attempts[a].payout = paid[i].payout
                                            /\ attempts[a].amount = paid[i].amount
        BY <1>1, <3>1 DEF Recorded, Attempts
      <3>2. CASE \E v \in Workers : /\ task[v].step = "triggering" /\ task[v].at = i
                                    /\ task[v].payout = paid[i].payout
                                    /\ task[v].trigger.amount = paid[i].amount
        BY <1>1, <1>2, <2>3, <3>2 DEF Recorded
      <3> QED BY <2>1, <3>1, <3>2 DEF Recorded
    <2> QED BY <2>2, <2>3
  <1>5. FailuresOK'
    <2>1. ASSUME NEW a \in DOMAIN attempts', attempts'[a].at # 0,
                 attempts'[a].status = "failed"
          PROVE  paid[attempts'[a].at].status = "failed"
      <3>1. a \in DOMAIN attempts /\ attempts'[a] = attempts[a]
        BY <1>1, <2>1 DEF Attempts
      <3> QED BY <2>1, <3>1 DEF PaymentsOK, FailuresOK
    <2>2. \A e \in events : e.status = "failed" => paid[e.at].status = "failed"
      BY DEF PaymentsOK, FailuresOK
    <2> QED BY <1>1, <2>1, <2>2 DEF FailuresOK
  <1>6. ASSUME NEW n \in triggers' PROVE TriggerOK(n)'
    <2>1. n \in triggers /\ TriggerOK(n)
      BY <1>1 DEF PaymentsOK
    <2> QED BY <1>1, <1>2, <1>3, <2>1, IdleType DEF TriggerOK
  <1>7. \A p \in DOMAIN payouts' : PaidOut(p)' <= payouts'[p].amount
    BY <1>1, <1>3 DEF PaymentsOK
  <1> QED BY <1>1, <1>4, <1>5, <1>6, <1>7 DEF PaymentsOK

(* A report of Stripe frees an amount or none.                             *)
LEMMA StripeUpdatesPayments ==
  ASSUME TypeInv, PaymentsOK, NEW i \in DOMAIN paid,
         NEW status \in {"in_transit", "succeeded", "failed"}, StripeUpdates(i, status)
  PROVE  PaymentsOK'
  <1>1. /\ DOMAIN paid' = DOMAIN paid
        /\ paid'[i].payout = paid[i].payout /\ paid'[i].amount = paid[i].amount
        /\ paid'[i].status = status /\ paid[i].status # "failed"
        /\ \A k \in DOMAIN paid : k # i => paid'[k] = paid[k]
        /\ events' = events \cup {[at |-> i, status |-> status]}
    BY StripeUpdatesEffect
  <1>2. UNCHANGED <<payouts, triggers, attempts, task>>
    BY DEF StripeUpdates
  <1>3. \A k \in DOMAIN paid : paid'[k].payout = paid[k].payout /\ paid'[k].amount = paid[k].amount
    BY <1>1
  <1>4. ASSUME NEW p PROVE PaidOut(p)' <= PaidOut(p) /\ PaidOut(p)' \in Nat
    <2>1. /\ PaidOf(p) \in SUBSET DOMAIN paid /\ IsFiniteSet(PaidOf(p))
          /\ \A k \in DOMAIN paid : paid[k].amount \in Nat
          /\ PaidOut(p) \in Nat
      BY PaidFacts
    <2>2. PaidOf(p)' = PaidOf(p) \/ (i \in PaidOf(p) /\ PaidOf(p)' = PaidOf(p) \ {i})
      <3>1. \A k \in DOMAIN paid : k # i => (k \in PaidOf(p)' <=> k \in PaidOf(p))
        BY <1>1 DEF PaidOf
      <3>2. PaidOf(p) \subseteq DOMAIN paid /\ PaidOf(p)' \subseteq DOMAIN paid
        BY <1>1 DEF PaidOf
      <3>3. i \in PaidOf(p)' => i \in PaidOf(p)
        BY <1>1 DEF PaidOf
      <3> QED BY <3>1, <3>2, <3>3
    <2>3. PaidOut(p)' = Total(paid', PaidOf(p)') /\ PaidOut(p) = Total(paid, PaidOf(p))
      BY DEF PaidOut
    <2>4. CASE PaidOf(p)' = PaidOf(p)
      <3>1. Total(paid', PaidOf(p)) = Total(paid, PaidOf(p))
        BY <1>1, <1>3, <2>1, TotalSame
      <3> QED BY <2>1, <2>3, <2>4, <3>1
    <2>5. CASE i \in PaidOf(p) /\ PaidOf(p)' = PaidOf(p) \ {i}
      <3>1. /\ IsFiniteSet(PaidOf(p) \ {i}) /\ PaidOf(p) \ {i} \in SUBSET DOMAIN paid
        BY <2>1, FS_Subset
      <3>2. Total(paid', PaidOf(p) \ {i}) = Total(paid, PaidOf(p) \ {i})
        BY <1>1, <1>3, <2>1, <3>1, TotalSame
      <3>3. Total(paid, PaidOf(p)) = paid[i].amount + Total(paid, PaidOf(p) \ {i})
        BY <2>1, <2>5, TotalRemove
      <3>4. Total(paid, PaidOf(p) \ {i}) \in Nat /\ paid[i].amount \in Nat
        BY <2>1, <3>1, TotalType
      <3> QED BY <2>3, <2>5, <3>2, <3>3, <3>4
    <2> QED BY <2>2, <2>4, <2>5
  <1>5. ASSUME NEW k \in DOMAIN paid PROVE Recorded(k)'
    <2>1. Recorded(k)
      BY DEF PaymentsOK
    <2> QED BY <1>2, <1>3, <2>1 DEF Recorded
  <1>6. \A k \in DOMAIN paid : paid[k].status = "failed" => paid'[k].status = "failed"
    BY <1>1
  <1>7. FailuresOK'
    <2>1. (\A a \in DOMAIN attempts : attempts[a].at \in {0} \cup DOMAIN paid)
          /\ \A e \in events : e.at \in DOMAIN paid
      BY DEF TypeInv, RefsOK, StripeOK
    <2>2. ASSUME NEW e \in events', e.status = "failed" PROVE paid'[e.at].status = "failed"
      <3>1. CASE e \in events
        BY <1>6, <2>1, <2>2, <3>1 DEF PaymentsOK, FailuresOK
      <3>2. CASE e = [at |-> i, status |-> status]
        <4>1. e.at = i /\ e.status = status
          BY <3>2
        <4> QED BY <1>1, <2>2, <4>1
      <3> QED BY <1>1, <3>1, <3>2
    <2>3. ASSUME NEW a \in DOMAIN attempts, attempts[a].at # 0, attempts[a].status = "failed"
          PROVE  paid'[attempts[a].at].status = "failed"
      BY <1>6, <2>1, <2>3 DEF PaymentsOK, FailuresOK
    <2> QED BY <1>2, <2>2, <2>3 DEF FailuresOK
  <1>8. ASSUME NEW m \in triggers' PROVE TriggerOK(m)'
    <2>1. m \in triggers /\ TriggerOK(m) /\ m.payout \in DOMAIN payouts /\ m \in Trigger
      BY <1>2, Known DEF PaymentsOK
    <2>2. PaidOut(m.payout)' + m.amount <= payouts[m.payout].amount
      <3>1. m.amount \in Nat /\ payouts[m.payout].amount \in Nat /\ PaidOut(m.payout) \in Nat
        BY <2>1, TriggerFields, Known, PayoutFields, PaidFacts
      <3>2. PaidOut(m.payout)' <= PaidOut(m.payout) /\ PaidOut(m.payout)' \in Nat
        BY <1>4
      <3>3. PaidOut(m.payout) + m.amount <= payouts[m.payout].amount
        BY <2>1 DEF TriggerOK
      <3> QED BY <3>1, <3>2, <3>3
    <2> QED BY <1>2, <2>1, <2>2 DEF TriggerOK
  <1>9. ASSUME NEW p \in DOMAIN payouts' PROVE PaidOut(p)' <= payouts'[p].amount
    <2>1. /\ PaidOut(p) <= payouts[p].amount /\ payouts[p].amount \in Nat
          /\ PaidOut(p) \in Nat
      BY <1>2, PaidFacts, Known, PayoutFields DEF PaymentsOK
    <2>2. PaidOut(p)' <= PaidOut(p) /\ PaidOut(p)' \in Nat
      BY <1>4
    <2> QED BY <1>2, <2>1, <2>2
  <1> QED BY <1>1, <1>5, <1>7, <1>8, <1>9 DEF PaymentsOK

(* What is written of Stripe's payouts is what Stripe says.                *)
LEMMA SetsPayments ==
  ASSUME TypeInv, PaymentsOK, NEW i \in DOMAIN paid, NEW s, Sets(i, s),
         s = "failed" => paid[i].status = "failed", events' \subseteq events,
         UNCHANGED <<payouts, triggers, paid, task>>
  PROVE  PaymentsOK'
  <1>1. \A p : PaidOut(p)' = PaidOut(p)
    BY DEF PaidOut, PaidOf
  <1>2. ASSUME NEW k \in DOMAIN paid PROVE Recorded(k)'
    <2>1. Recorded(k)
      BY DEF PaymentsOK
    <2> QED BY <2>1 DEF Recorded, Sets
  <1>3. FailuresOK'
    <2>1. ASSUME NEW a \in DOMAIN attempts', attempts'[a].at # 0,
                 attempts'[a].status = "failed"
          PROVE  paid[attempts'[a].at].status = "failed"
      <3>1. a \in DOMAIN attempts /\ attempts'[a].at = attempts[a].at
        BY DEF Sets
      <3>2. CASE attempts[a].at = i
        BY <2>1, <3>1, <3>2 DEF Sets
      <3>3. CASE attempts[a].at # i
        <4>1. attempts'[a] = attempts[a]
          BY <3>1, <3>3 DEF Sets
        <4> QED BY <2>1, <3>1, <4>1 DEF PaymentsOK, FailuresOK
      <3> QED BY <3>2, <3>3
    <2>2. \A e \in events' : e.status = "failed" => paid[e.at].status = "failed"
      BY DEF PaymentsOK, FailuresOK
    <2> QED BY <2>1, <2>2 DEF FailuresOK
  <1>4. ASSUME NEW m \in triggers' PROVE TriggerOK(m)'
    <2>1. TriggerOK(m)
      BY DEF PaymentsOK
    <2> QED BY <1>1, <2>1 DEF TriggerOK
  <1>5. \A p \in DOMAIN payouts' : PaidOut(p)' <= payouts'[p].amount
    BY <1>1 DEF PaymentsOK
  <1> QED BY <1>2, <1>3, <1>4, <1>5 DEF PaymentsOK

LEMMA UpdatePayments ==
  ASSUME TypeInv, PaymentsOK, NEW e \in events, UpdateFromStripe(e) PROVE PaymentsOK'
  <1>1. e.at \in DOMAIN paid /\ Sets(e.at, e.status) /\ events' \subseteq events
    BY UpdateEffect
  <1>2. e.status = "failed" => paid[e.at].status = "failed"
    BY DEF PaymentsOK, FailuresOK
  <1> QED BY <1>1, <1>2, SetsPayments DEF UpdateFromStripe

LEMMA SyncPayments ==
  ASSUME TypeInv, PaymentsOK, NEW p \in PayoutIds, SyncWithProvider(p) PROVE PaymentsOK'
  <1>1. PICK i \in DOMAIN paid : Sets(i, paid[i].status)
    BY SyncEffect
  <1> QED BY <1>1, SetsPayments DEF SyncWithProvider

(* The steps that write payouts leave their amounts as they are.           *)
LEMMA AmountsKept ==
  ASSUME TypeInv,
         \/ UNCHANGED payouts
         \/ \E w \in Workers : CreateCommit(w) \/ TransferCommit(w) \/ CancelCommit(w)
         \/ \E p \in PayoutIds : Age(p)
  PROVE  /\ DOMAIN payouts \subseteq DOMAIN payouts'
         /\ \A p \in DOMAIN payouts' : payouts'[p].amount \in Nat
         /\ \A p \in DOMAIN payouts : payouts'[p].amount = payouts[p].amount
  <1>1. CASE UNCHANGED payouts
    BY <1>1, Known, PayoutFields
  <1>2. ASSUME NEW w \in Workers, CreateCommit(w)
        PROVE  /\ DOMAIN payouts \subseteq DOMAIN payouts' /\ payouts' \in Seq(Payout)
               /\ \A p \in DOMAIN payouts : payouts'[p].amount = payouts[p].amount
    BY <1>2, CreateCommitEffect
  <1>3. ASSUME NEW q \in DOMAIN payouts, NEW x \in Payout, Rewrites(q, x),
               x.amount = payouts[q].amount
        PROVE  /\ DOMAIN payouts \subseteq DOMAIN payouts' /\ payouts' \in Seq(Payout)
               /\ \A p \in DOMAIN payouts : payouts'[p].amount = payouts[p].amount
    BY <1>3 DEF Rewrites
  <1>4. ASSUME NEW w \in Workers, TransferCommit(w)
        PROVE  /\ DOMAIN payouts \subseteq DOMAIN payouts' /\ payouts' \in Seq(Payout)
               /\ \A p \in DOMAIN payouts : payouts'[p].amount = payouts[p].amount
    BY <1>3, <1>4, TransferCommitEffect
  <1>5. ASSUME NEW w \in Workers, CancelCommit(w)
        PROVE  /\ DOMAIN payouts \subseteq DOMAIN payouts' /\ payouts' \in Seq(Payout)
               /\ \A p \in DOMAIN payouts : payouts'[p].amount = payouts[p].amount
    <2>1. CASE UNCHANGED payouts
      BY <2>1 DEF TypeInv, TypeOK
    <2>2. CASE Returns(w, task[w].payout)
      BY <1>3, <1>5, <2>2, CancelCommitEffect DEF Returns
    <2> QED BY <1>5, <2>1, <2>2, CancelCommitEffect
  <1>6. ASSUME NEW p \in PayoutIds, Age(p)
        PROVE  /\ DOMAIN payouts \subseteq DOMAIN payouts' /\ payouts' \in Seq(Payout)
               /\ \A q \in DOMAIN payouts : payouts'[q].amount = payouts[q].amount
    BY <1>3, <1>6, AgeEffect
  <1>7. ASSUME payouts' \in Seq(Payout)
        PROVE  \A p \in DOMAIN payouts' : payouts'[p].amount \in Nat
    BY <1>7, SeqFacts, PayoutFields
  <1> QED BY <1>1, <1>2, <1>4, <1>5, <1>6, <1>7

LEMMA WorkerPayments ==
  ASSUME TypeInv, PaymentsOK, NEW w \in Workers,
         \/ CreateSum(w) \/ CreateNumber(w) \/ CreateInsert(w) \/ CreateCommit(w)
         \/ TransferCommit(w) \/ CancelCommit(w)
         \/ \E p \in PayoutIds : Transfer(w, p) \/ Cancel(w, p)
  PROVE  PaymentsOK'
  <1>1. UNCHANGED <<attempts, paid, events, triggers>> /\ task[w].step # "triggering"
    BY DEF CreateSum, CreateNumber, CreateInsert, CreateCommit, TransferCommit, CancelCommit,
           Transfer, Cancel
  <1>2. PICK t \in Task : task' = [task EXCEPT ![w] = t] /\ t.step # "triggering"
    <2>1. CASE CreateCommit(w) \/ TransferCommit(w) \/ CancelCommit(w)
      <3>1. task' = [task EXCEPT ![w] = Idle]
        BY <2>1 DEF CreateCommit, TransferCommit, CancelCommit
      <3> QED BY <3>1, IdleType
    <2> QED BY <2>1, SumEffect, NumberEffect, InsertEffect, TransferEffect, CancelEffect,
               IdleType
  <1>3. task'[w] = t /\ \A v \in Workers : v # w => task'[v] = task[v]
    BY <1>2, TaskSet DEF TypeInv
  <1>4. /\ DOMAIN payouts \subseteq DOMAIN payouts'
        /\ \A p \in DOMAIN payouts' : payouts'[p].amount \in Nat
        /\ \A p \in DOMAIN payouts : payouts'[p].amount = payouts[p].amount
    <2>1. CASE CreateCommit(w) \/ TransferCommit(w) \/ CancelCommit(w)
      BY <2>1, AmountsKept
    <2>2. CASE ~(CreateCommit(w) \/ TransferCommit(w) \/ CancelCommit(w))
      <3>1. UNCHANGED payouts
        BY <2>2 DEF CreateSum, CreateNumber, CreateInsert, Transfer, Cancel
      <3> QED BY <3>1, AmountsKept
    <2> QED BY <2>1, <2>2
  <1> QED BY <1>1, <1>2, <1>3, <1>4, PaymentsKept

LEMMA OtherPayments ==
  ASSUME TypeInv, PaymentsOK,
         \/ Earn \/ UNCHANGED vars \/ \E m \in triggers : TriggerTooEarly(m)
         \/ \E p \in PayoutIds : Age(p)
  PROVE  PaymentsOK'
  <1>1. UNCHANGED <<attempts, paid, events, task>> /\ triggers' \subseteq triggers
    BY DEF Earn, vars, TriggerTooEarly, Age
  <1>2. UNCHANGED payouts \/ \E p \in PayoutIds : Age(p)
    BY DEF Earn, vars, TriggerTooEarly
  <1> QED BY <1>1, <1>2, AmountsKept, PaymentsKept

LEMMA PaymentNext == ASSUME TypeInv, PaymentInv, [Next]_vars PROVE PaymentInv'
  <1> SUFFICES ASSUME Without({"crash", "backlog", "impatient"})' PROVE PaymentsOK'
    BY DEF PaymentInv
  <1>1. Without({"crash", "backlog", "impatient"}) /\ PaymentsOK
    BY SameEnvironment DEF Without, PaymentInv
  <1>2. CASE TriggerPayouts
    BY <1>1, <1>2, TriggerPayoutsPayments
  <1>3. ASSUME NEW w \in Workers, TriggerCommit(w) \/ \E m \in triggers : TriggerPayout(w, m)
        PROVE  PaymentsOK'
    BY <1>1, <1>3, TriggerCommitPayments, TriggerPayoutPayments
  <1>4. ASSUME NEW w \in Workers PROVE ~Crash(w)
    BY <1>1 DEF Crash, Happens, May, Without
  <1>5. ASSUME NEW m \in triggers, TriggerRefused(m) PROVE PaymentsOK'
    BY <1>1, <1>5, RefusedPayments
  <1>6. ASSUME NEW p \in PayoutIds, SyncWithProvider(p) \/ \E amount \in Amounts : Retry(p, amount)
        PROVE  PaymentsOK'
    BY <1>1, <1>6, SyncPayments, RetryPayments
  <1>7. ASSUME NEW i \in DOMAIN paid, NEW status \in {"in_transit", "succeeded", "failed"},
               StripeUpdates(i, status)
        PROVE  PaymentsOK'
    BY <1>1, <1>7, StripeUpdatesPayments
  <1>8. ASSUME NEW e \in events, UpdateFromStripe(e) PROVE PaymentsOK'
    BY <1>1, <1>8, UpdatePayments
  <1> QED BY <1>1, <1>2, <1>3, <1>4, <1>5, <1>6, <1>7, <1>8, Cases, WorkerPayments,
             OtherPayments

(* What leaves the seller's Stripe account for a payout is no more than    *)
(* its amount: whatever is refused, fails, is reported late or retried in  *)
(* parts, the attempts that are known cover what has been paid             *)
(* (trigger_stripe_payout, retry, update_from_stripe).                     *)
THEOREM PaidWithinAmountCorrect == Spec => []PaidWithinAmount
  <1>1. Init => PaymentInv
    <2>1. ASSUME Init PROVE PaymentsOK
      BY <2>1 DEF Init, PaymentsOK, FailuresOK
    <2> QED BY <2>1 DEF PaymentInv
  <1>2. TypeInv /\ PaymentInv /\ [Next]_vars => PaymentInv'
    BY PaymentNext
  <1>3. PaymentInv => PaidWithinAmount
    BY DEF PaymentInv, PaymentsOK, PaidOut, PaidOf, PaidWithinAmount
  <1> QED BY <1>1, <1>2, <1>3, TypeInvariant, PTL DEF Spec

=============================================================================
