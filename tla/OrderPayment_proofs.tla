------------------------ MODULE OrderPayment_proofs ------------------------
(***************************************************************************)
(* Theorems about OrderPayment, for every value of its constants.          *)
(***************************************************************************)
EXTENDS OrderPayment, FiniteSetTheorems, TLAPS

USE WorkersAssumption, ChargesAssumption, IntervalsAssumption DEF Date

-----------------------------------------------------------------------------
(* What the types need in order to be inductive: a webhook is handled by   *)
(* one worker at a time, while it is pending, and only tasks that charge   *)
(* hold the row lock.                                                      *)

HooksOK ==
  /\ \A c \in Charges : charge[c].state = "unused" => charge[c].hook = "none"
  /\ \A w \in Workers :
       /\ task[w].kind = "hook" =>
            task[w].charge \in Charges /\ charge[task[w].charge].hook = "pending"
       /\ task[w].step \in {"locked", "charged"} => task[w].kind \in {"trigger", "manual"}
  /\ \A v, w \in Workers :
       task[v].kind = "hook" /\ task[w].kind = "hook" /\ task[v].charge = task[w].charge
         => v = w

(* What pays an order, and who may know of it: the row, the rows that were *)
(* read, and the task that holds Paystack's answer.                        *)

PaidFor ==
  \/ credits > 0
  \/ \E c \in Charges : charge[c].state = "succeeded" /\ charge[c].hook = "done"

PaidInv ==
  /\ order.status = "paid" => PaidFor
  /\ \A w \in Workers :
       /\ task[w].seen.order.status = "paid" => PaidFor
       /\ Processor = "paystack" /\ task[w].step = "charged" /\ task[w].result = "succeeded"
            => PaidFor

-----------------------------------------------------------------------------
(* The values of the operators.                                            *)

LEMMA UnreadType == Unread \in Rows
  BY DEF Unread, Rows, OrderRow, SubRow

LEMMA IdleType == Idle \in Task
  BY UnreadType DEF Idle, Task, Steps, Kinds, Results, ChargeState

LEMMA MergeOrderType ==
  ASSUME NEW current \in OrderRow, NEW seen \in OrderRow, NEW new \in OrderRow,
         NEW flagged
  PROVE  Merge(current, seen, new, flagged) \in OrderRow
  BY DEF Merge, OrderRow

LEMMA MergeSubType ==
  ASSUME NEW current \in SubRow, NEW seen \in SubRow, NEW new \in SubRow,
         NEW flagged
  PROVE  Merge(current, seen, new, flagged) \in SubRow
  BY DEF Merge, SubRow

LEMMA ReleaseLockType ==
  ASSUME NEW r \in Rows PROVE ReleaseLock(r) \in Rows
  BY DEF ReleaseLock, Rows, OrderRow

LEMMA LockedType ==
  ASSUME NEW t \in Task
  PROVE  [t EXCEPT !.step = "locked", !.seen.order.lock = TRUE] \in Task
  <1>1. t.seen \in Rows
    BY DEF Task
  <1>2. [t.seen EXCEPT !.order.lock = TRUE] \in Rows
    BY <1>1 DEF Rows, OrderRow
  <1>3. [t EXCEPT !.step = "locked", !.seen.order.lock = TRUE]
          = [t EXCEPT !.step = "locked", !.seen = [t.seen EXCEPT !.order.lock = TRUE]]
    BY DEF Task
  <1> QED BY <1>2, <1>3 DEF Task, Steps

LEMMA HandlePaymentType ==
  ASSUME NEW r \in Rows PROVE HandlePayment(r) \in Rows
  BY DEF HandlePayment, MarkActive, Rows, OrderRow, SubRow

LEMMA FirstDunningAttemptType ==
  ASSUME NEW r \in Rows, NEW hard \in BOOLEAN
  PROVE  FirstDunningAttempt(r, hard) \in Rows
  <1>1. RetryIntervals[1] \in Nat OBVIOUS
  <1>2. MarkPastDue(r.sub) \in SubRow
    BY DEF MarkPastDue, Rows, SubRow
  <1> QED BY <1>1, <1>2 DEF FirstDunningAttempt, Rows, OrderRow, SubRow

LEMMA ConsecutiveDunningAttemptType ==
  ASSUME NEW r \in Rows, NEW failures \in Nat
  PROVE  ConsecutiveDunningAttempt(r, failures) \in Rows
  <1>1. Revoked(r.sub) \in SubRow
    BY DEF Revoked, Rows, SubRow
  <1>2. failures < Len(RetryIntervals) => RetryIntervals[failures + 1] \in Nat
    OBVIOUS
  <1> QED BY <1>1, <1>2 DEF ConsecutiveDunningAttempt, Rows, OrderRow

LEMMA HandlePaymentFailureType ==
  ASSUME NEW r \in Rows, NEW skip \in BOOLEAN, NEW failures \in Nat,
         NEW hard \in BOOLEAN
  PROVE  HandlePaymentFailure(r, skip, failures, hard) \in Rows
  BY ReleaseLockType, FirstDunningAttemptType, ConsecutiveDunningAttemptType
     DEF HandlePaymentFailure

LEMMA FailuresType ==
  ASSUME NEW C \in SUBSET Charges
  PROVE  Cardinality(RecordedFailures \cup C) \in Nat
  <1>1. RecordedFailures \cup C \subseteq Charges
    BY DEF RecordedFailures
  <1> QED BY <1>1, FS_Subset, FS_CardinalityType

LEMMA RecordedFailuresType == Cardinality(RecordedFailures) \in Nat
  <1>1. RecordedFailures \cup {} = RecordedFailures
    OBVIOUS
  <1> QED BY <1>1, FailuresType

-----------------------------------------------------------------------------
(* The transactions keep the types of what they write.                     *)

RowsOK == order \in OrderRow /\ sub \in SubRow
TasksOK == rowLock \in Workers \cup {Nobody} /\ task \in [Workers -> Task]

LEMMA BeginType ==
  ASSUME TypeOK, NEW w \in Workers, NEW kind \in Kinds,
         NEW c \in Charges \cup {NoCharge}, Begin(w, kind, c)
  PROVE  /\ RowsOK' /\ TasksOK'
         /\ credits' \in Nat /\ blocked' \in BOOLEAN
  BY DEF TypeOK, RowsOK, TasksOK, Begin, Task, Steps, Results, Rows

LEMMA EndType ==
  ASSUME TypeOK, NEW w \in Workers, End(w)
  PROVE  TasksOK'
  BY IdleType DEF TypeOK, TasksOK, End

LEMMA SeenType ==
  ASSUME TypeOK, NEW w \in Workers
  PROVE  task[w] \in Task /\ task[w].seen \in Rows
         /\ task[w].seen.order \in OrderRow /\ task[w].seen.sub \in SubRow
  BY DEF TypeOK, Task, Rows

LEMMA CommitType ==
  ASSUME TypeOK, NEW w \in Workers, NEW new \in Rows, NEW flags, Commit(w, new, flags)
  PROVE  RowsOK' /\ TasksOK'
  <1> DEFINE locked == [order EXCEPT !.lock = IF Holds(w) THEN TRUE ELSE @]
  <1>1. locked \in OrderRow
    BY DEF TypeOK, OrderRow
  <1>2. new.order \in OrderRow /\ new.sub \in SubRow
    BY DEF Rows
  <1>3. order' \in OrderRow
    <2>1. order' = Merge(locked, task[w].seen.order, new.order, flags.order)
      BY DEF Commit
    <2> HIDE DEF locked
    <2> QED BY <1>1, <1>2, <2>1, SeenType, MergeOrderType
  <1>4. sub' \in SubRow
    <2>1. sub' = Merge(sub, task[w].seen.sub, new.sub, flags.sub)
      BY DEF Commit
    <2>2. sub \in SubRow
      BY DEF TypeOK
    <2> QED BY <1>2, <2>1, <2>2, SeenType, MergeSubType
  <1>5. TasksOK'
    BY EndType DEF Commit
  <1> QED BY <1>3, <1>4, <1>5 DEF RowsOK

LEMMA RollbackType ==
  ASSUME TypeOK, NEW w \in Workers, NEW again \in BOOLEAN, Rollback(w, again)
  PROVE  TypeOK'
  <1>1. TasksOK'
    BY EndType DEF Rollback
  <1>2. charge' \in [Charges -> ChargeRow]
    BY DEF TypeOK, Rollback, ChargeRow
  <1>3. triggers' \in Nat /\ dunnings' \in Nat
    BY DEF TypeOK, Rollback
  <1> QED BY <1>1, <1>2, <1>3 DEF TypeOK, TasksOK, Rollback

LEMMA RaiseType ==
  ASSUME TypeOK, NEW w \in Workers, Raise(w)
  PROVE  TypeOK'
  BY RollbackType DEF Raise

-----------------------------------------------------------------------------
(* Type correctness.                                                       *)

LEMMA TypeInit == Init => TypeOK
  <1> SUFFICES ASSUME Init PROVE TypeOK
    OBVIOUS
  <1>1. PICK s \in NewSubs, small \in BOOLEAN :
          LET new == [order |-> [Unread.order EXCEPT !.small = small], sub |-> s]
              rows == IF s.method THEN new
                      ELSE HandlePaymentFailure(new, FALSE, 0, FALSE)
          IN order = rows.order /\ sub = rows.sub
    BY DEF Init
  <1> DEFINE new == [order |-> [Unread.order EXCEPT !.small = small], sub |-> s]
  <1>2. new \in Rows
    BY ZenonT(60), UnreadType DEF NewSubs, Rows, OrderRow, SubRow
  <1>3. HandlePaymentFailure(new, FALSE, 0, FALSE) \in Rows
    BY <1>2, HandlePaymentFailureType
  <1>4. RowsOK
    BY <1>1, <1>2, <1>3 DEF RowsOK, Rows
  <1>5. charge \in [Charges -> ChargeRow] /\ triggers \in Nat
    BY DEF Init, ChargeRow, ChargeState
  <1> QED BY <1>4, <1>5, IdleType, EnvironmentsAssumption DEF TypeOK, RowsOK, Init

LEMMA TriggerType ==
  ASSUME TypeOK, NEW w \in Workers, TriggerBegin(w) \/ ManualBegin(w) \/ TriggerStep(w)
  PROVE  TypeOK'
  <1> USE DEF Kinds
  <1>1. CASE TriggerBegin(w)
    BY <1>1, BeginType DEF TriggerBegin, TypeOK, RowsOK, TasksOK
  <1>2. CASE ManualBegin(w)
    BY <1>2, BeginType DEF ManualBegin, TypeOK, RowsOK, TasksOK
  <1>3. CASE TriggerWithoutMethod(w)
    <2>1. PICK hard \in BOOLEAN :
            Commit(w, HandlePaymentFailure(task[w].seen, FALSE,
                        Cardinality(RecordedFailures), hard),
                   FailureFlags(task[w].seen))
      BY <1>3 DEF TriggerWithoutMethod
    <2>2. HandlePaymentFailure(task[w].seen, FALSE, Cardinality(RecordedFailures), hard)
            \in Rows
      BY SeenType, RecordedFailuresType, HandlePaymentFailureType
    <2> QED BY <1>3, <2>1, <2>2, CommitType
            DEF TriggerWithoutMethod, TypeOK, RowsOK, TasksOK
  <1>4. CASE TriggerRefused(w)
    BY <1>4, RaiseType DEF TriggerRefused
  <1>5. CASE TriggerSkipped(w)
    BY <1>5, EndType DEF TriggerSkipped, TypeOK, TasksOK
  <1>6. CASE TriggerCredit(w)
    <2>1. [task[w].seen EXCEPT !.order.status = "paid"] \in Rows
      BY SeenType DEF Rows, OrderRow
    <2> QED BY <1>6, <2>1, CommitType DEF TriggerCredit, TypeOK, RowsOK, TasksOK
  <1> QED BY <1>1, <1>2, <1>3, <1>4, <1>5, <1>6 DEF TriggerStep

LEMMA ChargeType ==
  ASSUME TypeOK, NEW w \in Workers, ChargeStep(w)
  PROVE  TypeOK'
  <1>1. CASE AcquireLock(w)
    <2>1. [task[w] EXCEPT !.step = "locked", !.seen.order.lock = TRUE] \in Task
      BY SeenType, LockedType
    <2>2. task' \in [Workers -> Task]
      BY <1>1, <2>1 DEF AcquireLock, TypeOK
    <2> QED BY <1>1, <2>2 DEF AcquireLock, TypeOK
  <1>2. CASE LockRefused(w)
    BY <1>2, RaiseType DEF LockRefused
  <1>3. CASE CreateCharge(w)
    <2>1. PICK c \in Charges, outcome \in Outcomes(w) :
            /\ charge' = [charge EXCEPT ![c] =
                 [state |-> outcome, manual |-> task[w].kind = "manual",
                  hook |-> CASE Processor = "paystack" -> "done"
                             [] outcome = "processing" -> "none"
                             [] OTHER -> "pending"]]
            /\ task' = [task EXCEPT ![w] =
                 [@ EXCEPT !.step = "charged", !.charge = c, !.result = outcome]]
      BY <1>3 DEF CreateCharge
    <2>2. outcome \in ChargeState
      BY DEF Outcomes, ChargeState
    <2>3. charge' \in [Charges -> ChargeRow]
      BY <2>1, <2>2 DEF TypeOK, ChargeRow
    <2>4. [task[w] EXCEPT !.step = "charged", !.charge = c, !.result = outcome] \in Task
      BY <2>2, SeenType DEF Task, Steps, Results
    <2>5. task' \in [Workers -> Task]
      BY <2>1, <2>4 DEF TypeOK
    <2> QED BY <1>3, <2>3, <2>5 DEF CreateCharge, TypeOK
  <1>4. CASE CreateChargeInvalid(w)
    BY ZenonT(60), <1>4 DEF CreateChargeInvalid, TypeOK, Task, Steps, Results
  <1>5. CASE KeepLock(w)
    BY <1>5, SeenType, CommitType DEF KeepLock, TypeOK, RowsOK, TasksOK
  <1>6. CASE PaidAtOnce(w)
    <2>1. [task[w].seen EXCEPT !.order.ref = TRUE] \in Rows
      BY SeenType DEF Rows, OrderRow
    <2>2. HandlePayment([task[w].seen EXCEPT !.order.ref = TRUE]) \in Rows
      BY <2>1, HandlePaymentType
    <2> QED BY <1>6, <2>2, CommitType DEF PaidAtOnce, TypeOK, RowsOK, TasksOK
  <1>7. CASE ChargeDeclined(w)
    BY <1>7, SeenType, ReleaseLockType, CommitType
       DEF ChargeDeclined, TypeOK, RowsOK, TasksOK
  <1>8. CASE ChargeInvalid(w)
    <2>1. PICK other \in BOOLEAN, hard \in BOOLEAN :
            Commit(w, HandlePaymentFailure([task[w].seen EXCEPT !.sub.method = other],
                        FALSE, Cardinality(RecordedFailures), hard),
                   FailureFlags(task[w].seen))
      BY <1>8 DEF ChargeInvalid
    <2>2. [task[w].seen EXCEPT !.sub.method = other] \in Rows
      BY SeenType DEF Rows, SubRow
    <2>3. HandlePaymentFailure([task[w].seen EXCEPT !.sub.method = other],
                        FALSE, Cardinality(RecordedFailures), hard) \in Rows
      BY <2>2, RecordedFailuresType, HandlePaymentFailureType
    <2> QED BY <1>8, <2>1, <2>3, CommitType DEF ChargeInvalid, TypeOK, RowsOK, TasksOK
  <1>9. CASE ManualEnd(w)
    BY <1>9, SeenType, ReleaseLockType, CommitType
       DEF ManualEnd, TypeOK, RowsOK, TasksOK
  <1> QED BY <1>1, <1>2, <1>3, <1>4, <1>5, <1>6, <1>7, <1>8, <1>9 DEF ChargeStep

LEMMA HookType ==
  ASSUME TypeOK, HooksOK, NEW w \in Workers,
         HookStep(w) \/ \E c \in Charges : HookBegin(w, c)
  PROVE  TypeOK'
  <1>1. CASE \E c \in Charges : HookBegin(w, c)
    BY <1>1, BeginType DEF HookBegin, Kinds, TypeOK, RowsOK, TasksOK
  <1>2. CASE HookSucceeded(w)
    <2>1. charge' \in [Charges -> ChargeRow]
      BY <1>2 DEF HookSucceeded, HookDone, TypeOK, ChargeRow
    <2> QED BY <1>2, <2>1, SeenType, HandlePaymentType, CommitType
            DEF HookSucceeded, TypeOK, RowsOK, TasksOK
  <1>3. CASE HookRefused(w)
    BY <1>3, RaiseType DEF HookRefused
  <1>4. CASE HookFailed(w)
    <2> DEFINE c == task[w].charge
               r == HandlePaymentFailure(task[w].seen, charge[c].manual,
                      Cardinality(RecordedFailures \cup {c}),
                      charge[c].state = "declined_hard")
    <2>1. charge' \in [Charges -> ChargeRow]
      BY <1>4 DEF HookFailed, HookDone, TypeOK, ChargeRow
    <2>2. c \in Charges
      BY <1>4 DEF HookFailed, Reading, HooksOK
    <2>3. charge[c].manual \in BOOLEAN
      BY <2>2 DEF TypeOK, ChargeRow
    <2>4. Cardinality(RecordedFailures \cup {c}) \in Nat
      BY <2>2, FailuresType
    <2>5. (charge[c].state = "declined_hard") \in BOOLEAN
      OBVIOUS
    <2>6. r \in Rows
      BY <2>3, <2>4, <2>5, SeenType, HandlePaymentFailureType
    <2>7. \E flags : Commit(w, r, flags)
      BY <1>4 DEF HookFailed
    <2>8. RowsOK' /\ TasksOK'
      BY <2>6, <2>7, CommitType
    <2> QED BY <1>4, <2>1, <2>8 DEF HookFailed, TypeOK, RowsOK, TasksOK
  <1> QED BY <1>1, <1>2, <1>3, <1>4 DEF HookStep

LEMMA DunningType ==
  ASSUME TypeOK, NEW w \in Workers,
         DunningBegin(w) \/ DunningStep(w) \/ VoidBegin(w) \/ VoidCommit(w)
  PROVE  TypeOK'
  <1>1. CASE DunningBegin(w)
    BY <1>1, BeginType DEF DunningBegin, Kinds, TypeOK, RowsOK, TasksOK
  <1>2. CASE DunningCanceled(w)
    <2>1. [task[w].seen EXCEPT !.order.next = NoDate] \in Rows
      BY SeenType DEF Rows, OrderRow
    <2> QED BY <1>2, <2>1, CommitType DEF DunningCanceled, TypeOK, RowsOK, TasksOK
  <1>3. CASE DunningWithoutMethod(w)
    <2>1. PICK hard \in BOOLEAN :
            Commit(w, HandlePaymentFailure(task[w].seen, FALSE,
                        Cardinality(RecordedFailures), hard),
                   FailureFlags(task[w].seen))
      BY <1>3 DEF DunningWithoutMethod
    <2>2. HandlePaymentFailure(task[w].seen, FALSE, Cardinality(RecordedFailures), hard)
            \in Rows
      BY SeenType, RecordedFailuresType, HandlePaymentFailureType
    <2> QED BY <1>3, <2>1, <2>2, CommitType
            DEF DunningWithoutMethod, TypeOK, RowsOK, TasksOK
  <1>4. CASE DunningTriggers(w)
    <2>1. triggers' \in Nat
      BY <1>4, MessagesAssumption DEF DunningTriggers, TypeOK
    <2> QED BY <1>4, <2>1, EndType DEF DunningTriggers, TypeOK, TasksOK
  <1>5. CASE VoidBegin(w)
    BY <1>5, BeginType DEF VoidBegin, Kinds, TypeOK, RowsOK, TasksOK
  <1>6. CASE VoidCommit(w)
    <2>1. [task[w].seen EXCEPT !.order.status = "void"] \in Rows
      BY SeenType DEF Rows, OrderRow
    <2> QED BY <1>6, <2>1, CommitType DEF VoidCommit, TypeOK, RowsOK, TasksOK
  <1> QED BY <1>1, <1>2, <1>3, <1>4, <1>5, <1>6 DEF DunningStep

LEMMA OutsideType ==
  ASSUME TypeOK,
         \/ \E c \in Charges : SettleCharge(c)
         \/ Cron \/ Revoke \/ RemoveMethod \/ AddMethod \/ SetBlocked \/ Tick
         \/ UNCHANGED vars
  PROVE  TypeOK'
  <1>1. CASE \E c \in Charges : SettleCharge(c)
    <2>1. charge' \in [Charges -> ChargeRow]
      BY <1>1 DEF SettleCharge, TypeOK, ChargeRow, ChargeState
    <2> QED BY <1>1, <2>1 DEF SettleCharge, TypeOK
  <1>2. CASE Cron
    BY <1>2 DEF Cron, TypeOK
  <1>3. CASE Revoke
    BY <1>3 DEF Revoke, Revoked, TypeOK, SubRow
  <1>4. CASE RemoveMethod
    BY <1>4 DEF RemoveMethod, TypeOK, SubRow
  <1>5. CASE AddMethod
    BY <1>5 DEF AddMethod, TypeOK, OrderRow, SubRow
  <1>6. CASE SetBlocked
    BY <1>6 DEF SetBlocked, TypeOK
  <1>7. CASE Tick
    <2> DEFINE Earlier(d) == IF d > 0 THEN d - 1 ELSE d
    <2>0. \A d \in Date : Earlier(d) \in Date
      BY DEF NoDate
    <2>1. order' \in OrderRow
      <3>1. order' = [order EXCEPT !.next = Earlier(order.next)]
        BY <1>7 DEF Tick, TypeOK, OrderRow
      <3>2. Earlier(order.next) \in Date
        BY <2>0 DEF TypeOK, OrderRow
      <3> HIDE DEF Earlier
      <3> QED BY <3>1, <3>2 DEF TypeOK, OrderRow
    <2>2. sub' \in SubRow
      <3>1. sub' = [sub EXCEPT !.dueLeft = Earlier(sub.dueLeft)]
        BY <1>7 DEF Tick, TypeOK, SubRow
      <3>2. Earlier(sub.dueLeft) \in Date
        BY <2>0 DEF TypeOK, SubRow
      <3> HIDE DEF Earlier
      <3> QED BY <3>1, <3>2 DEF TypeOK, SubRow
    <2> QED BY <1>7, <2>1, <2>2 DEF Tick, TypeOK
  <1>8. CASE UNCHANGED vars
    BY <1>8 DEF vars, TypeOK
  <1> QED BY <1>1, <1>2, <1>3, <1>4, <1>5, <1>6, <1>7, <1>8

LEMMA TypeStep == TypeOK /\ HooksOK /\ [Next]_vars => TypeOK'
  <1> SUFFICES ASSUME TypeOK, HooksOK, [Next]_vars PROVE TypeOK'
    OBVIOUS
  <1>1. ASSUME NEW w \in Workers, Crash(w) PROVE TypeOK'
    BY <1>1, RollbackType DEF Crash
  <1> QED BY <1>1, TriggerType, ChargeType, HookType, DunningType, OutsideType
          DEF Next, Proceed

-----------------------------------------------------------------------------
(* HooksOK.  Whatever ends a task keeps it, and so does whatever begins    *)
(* one that handles no webhook.                                            *)

LEMMA HooksInit == Init => HooksOK
  BY DEF Init, HooksOK, Idle

LEMMA EndHooks ==
  ASSUME TypeOK, HooksOK, NEW w \in Workers, End(w), charge' = charge
  PROVE  HooksOK'
  BY DEF TypeOK, HooksOK, End, Idle

LEMMA DoneHooks ==
  ASSUME TypeOK, HooksOK, NEW w \in Workers, End(w), task[w].kind = "hook",
         NEW h \in {"done", "dead"},
         charge' = [charge EXCEPT ![task[w].charge].hook = h]
  PROVE  HooksOK'
  <1> DEFINE c == task[w].charge
  <1>1. c \in Charges /\ charge[c].hook = "pending"
    BY DEF HooksOK
  <1>2. \A d \in Charges : charge'[d].state = charge[d].state
                           /\ (d # c => charge'[d].hook = charge[d].hook)
    BY <1>1 DEF TypeOK, ChargeRow
  <1>3. \A v \in Workers : v # w => task'[v] = task[v]
    BY DEF End, TypeOK
  <1>4. task'[w].kind = "trigger" /\ task'[w].step = "idle"
    BY DEF End, TypeOK, Idle
  <1>5. \A d \in Charges : charge[d].state = "unused" => d # c
    BY <1>1 DEF HooksOK
  <1>6. \A v \in Workers : v # w /\ task[v].kind = "hook" => task[v].charge # c
    BY DEF HooksOK
  <1> HIDE DEF c
  <1>7. \A d \in Charges : charge'[d].state = "unused" => charge'[d].hook = "none"
    BY <1>2, <1>5 DEF HooksOK
  <1>8. \A v \in Workers :
          /\ task'[v].kind = "hook" =>
               task'[v].charge \in Charges /\ charge'[task'[v].charge].hook = "pending"
          /\ task'[v].step \in {"locked", "charged"} => task'[v].kind \in {"trigger", "manual"}
    BY <1>2, <1>3, <1>4, <1>6 DEF HooksOK
  <1>9. \A u, v \in Workers :
          task'[u].kind = "hook" /\ task'[v].kind = "hook" /\ task'[u].charge = task'[v].charge
            => u = v
    BY SMTT(60), <1>3, <1>4 DEF HooksOK
  <1> QED BY <1>7, <1>8, <1>9 DEF HooksOK

LEMMA RollbackHooks ==
  ASSUME TypeOK, HooksOK, NEW w \in Workers, NEW again \in BOOLEAN, Rollback(w, again)
  PROVE  HooksOK'
  <1>1. CASE ~again /\ task[w].kind = "hook"
    BY <1>1, DoneHooks DEF Rollback
  <1>2. CASE ~(~again /\ task[w].kind = "hook")
    BY <1>2, EndHooks DEF Rollback
  <1> QED BY <1>1, <1>2

LEMMA BeginHooks ==
  ASSUME TypeOK, HooksOK, NEW w \in Workers, NEW kind \in Kinds \ {"hook"},
         Begin(w, kind, NoCharge), charge' = charge
  PROVE  HooksOK'
  BY DEF TypeOK, HooksOK, Begin

LEMMA HooksStep == TypeOK /\ HooksOK /\ [Next]_vars => HooksOK'
  <1> SUFFICES ASSUME TypeOK, HooksOK, [Next]_vars PROVE HooksOK'
    OBVIOUS
  <1>1. ASSUME NEW w \in Workers,
               \/ TriggerBegin(w) \/ ManualBegin(w) \/ DunningBegin(w) \/ VoidBegin(w)
        PROVE  HooksOK'
    BY <1>1, BeginHooks DEF TriggerBegin, ManualBegin, DunningBegin, VoidBegin, Kinds
  <1>2. ASSUME NEW w \in Workers, NEW c \in Charges, HookBegin(w, c)
        PROVE  HooksOK'
    <2>1. task' = [task EXCEPT ![w] = [step |-> "read", kind |-> "hook", charge |-> c,
                     result |-> "none", seen |-> [order |-> order, sub |-> sub]]]
      BY <1>2 DEF HookBegin, Begin
    <2>2. charge' = charge /\ charge[c].hook = "pending"
      BY <1>2 DEF HookBegin
    <2>3. \A v \in Workers : task[v].kind = "hook" => task[v].charge # c
      BY <1>2 DEF HookBegin
    <2> QED BY <2>1, <2>2, <2>3 DEF TypeOK, HooksOK
  <1>3. ASSUME NEW w \in Workers, TriggerStep(w) PROVE HooksOK'
    BY <1>3, EndHooks, RollbackHooks
       DEF TriggerStep, TriggerWithoutMethod, TriggerRefused, TriggerSkipped,
           TriggerCredit, Raise, Commit
  <1>4. ASSUME NEW w \in Workers, AcquireLock(w) PROVE HooksOK'
    <2>1. task[w].kind \in {"trigger", "manual"}
      BY <1>4 DEF AcquireLock, WantsLock, Reading
    <2>2. task'[w].kind = task[w].kind /\ charge' = charge
      BY <1>4 DEF AcquireLock, TypeOK, Task
    <2>3. \A v \in Workers : v # w => task'[v] = task[v]
      BY <1>4 DEF AcquireLock, TypeOK
    <2> QED BY <2>1, <2>2, <2>3 DEF HooksOK
  <1>5. ASSUME NEW w \in Workers, CreateCharge(w) PROVE HooksOK'
    <2>1. PICK c \in Charges, outcome \in Outcomes(w) :
            /\ charge[c].state = "unused"
            /\ charge' = [charge EXCEPT ![c] =
                 [state |-> outcome, manual |-> task[w].kind = "manual",
                  hook |-> CASE Processor = "paystack" -> "done"
                             [] outcome = "processing" -> "none"
                             [] OTHER -> "pending"]]
            /\ task' = [task EXCEPT ![w] =
                 [@ EXCEPT !.step = "charged", !.charge = c, !.result = outcome]]
      BY <1>5 DEF CreateCharge
    <2>2. outcome # "unused"
      BY DEF Outcomes
    <2>3. charge'[c].state # "unused" /\ \A d \in Charges : d # c => charge'[d] = charge[d]
      BY <2>1, <2>2 DEF TypeOK
    <2>4. task[w].kind \in {"trigger", "manual"}
      BY <1>5 DEF CreateCharge, HooksOK
    <2>5. task'[w].kind = task[w].kind
      BY <2>1 DEF TypeOK, Task
    <2>6. \A v \in Workers : v # w => task'[v] = task[v]
      BY <2>1 DEF TypeOK
    <2>7. \A v \in Workers : task[v].kind = "hook" => task[v].charge # c
      BY <2>1 DEF HooksOK
    <2> QED BY <2>3, <2>4, <2>5, <2>6, <2>7 DEF HooksOK
  <1>6. ASSUME NEW w \in Workers, CreateChargeInvalid(w) PROVE HooksOK'
    <2>1. task'[w].kind = task[w].kind /\ task'[w].charge = task[w].charge
      BY <1>6 DEF CreateChargeInvalid, TypeOK, Task
    <2>2. \A v \in Workers : v # w => task'[v] = task[v]
      BY <1>6 DEF CreateChargeInvalid, TypeOK
    <2>3. charge' = charge /\ task[w].kind \in {"trigger", "manual"}
      BY <1>6 DEF CreateChargeInvalid, HooksOK
    <2> QED BY <2>1, <2>2, <2>3 DEF HooksOK
  <1>7. ASSUME NEW w \in Workers,
               \/ LockRefused(w) \/ KeepLock(w) \/ PaidAtOnce(w) \/ ChargeDeclined(w)
               \/ ChargeInvalid(w) \/ ManualEnd(w)
        PROVE  HooksOK'
    BY <1>7, EndHooks, RollbackHooks
       DEF LockRefused, KeepLock, PaidAtOnce, ChargeDeclined, ChargeInvalid, ManualEnd,
           Raise, Commit
  <1>8. ASSUME NEW w \in Workers, HookStep(w) PROVE HooksOK'
    <2>1. CASE HookSucceeded(w)
      BY <2>1, DoneHooks DEF HookSucceeded, HookDone, Reading, Commit
    <2>2. CASE HookRefused(w)
      BY <2>2, RollbackHooks DEF HookRefused, Raise
    <2>3. CASE HookFailed(w)
      BY <2>3, DoneHooks DEF HookFailed, HookDone, Reading, Commit
    <2> QED BY <1>8, <2>1, <2>2, <2>3 DEF HookStep
  <1>9. ASSUME NEW w \in Workers, DunningStep(w) \/ VoidCommit(w) PROVE HooksOK'
    BY <1>9, EndHooks
       DEF DunningStep, DunningCanceled, DunningWithoutMethod, DunningTriggers,
           VoidCommit, Commit
  <1>10. ASSUME NEW w \in Workers, Crash(w) PROVE HooksOK'
    BY <1>10, RollbackHooks DEF Crash
  <1>11. ASSUME NEW c \in Charges, SettleCharge(c) PROVE HooksOK'
    <2>1. charge'[c].state # "unused" /\ charge'[c].hook = "pending"
      BY <1>11 DEF SettleCharge, TypeOK, ChargeRow
    <2>2. task' = task /\ \A d \in Charges : d # c => charge'[d] = charge[d]
      BY <1>11 DEF SettleCharge, TypeOK
    <2> QED BY <2>1, <2>2 DEF HooksOK
  <1>12. CASE Cron \/ Revoke \/ RemoveMethod \/ AddMethod \/ SetBlocked \/ Tick
              \/ UNCHANGED vars
    BY <1>12 DEF Cron, Revoke, RemoveMethod, AddMethod, SetBlocked, Tick, vars, HooksOK
  <1> QED BY <1>1, <1>2, <1>3, <1>4, <1>5, <1>6, <1>7, <1>8, <1>9, <1>10, <1>11, <1>12
          DEF Next, Proceed, ChargeStep

-----------------------------------------------------------------------------

(* Every reachable state has the types TypeOK gives, whatever the          *)
(* constants: no service writes a status, date or message count outside    *)
(* its column.                                                             *)
THEOREM TypeCorrect == Spec => []TypeOK
  <1>1. Init => TypeOK /\ HooksOK
    BY TypeInit, HooksInit
  <1>2. TypeOK /\ HooksOK /\ [Next]_vars => TypeOK' /\ HooksOK'
    BY TypeStep, HooksStep
  <1> QED BY <1>1, <1>2, PTL DEF Spec

-----------------------------------------------------------------------------
(* PaidInv.  PaidFor is never undone, and a transaction leaves the order   *)
(* with the status it had or the one that the task computed.               *)

LEMMA CommitStatus ==
  ASSUME TypeOK, NEW w \in Workers, NEW new \in Rows, NEW flags, Commit(w, new, flags)
  PROVE  /\ order'.status \in {order.status, new.order.status}
         /\ task' = [task EXCEPT ![w] = Idle]
  <1>1. "status" \in DOMAIN [order EXCEPT !.lock = IF Holds(w) THEN TRUE ELSE @]
    BY DEF TypeOK, OrderRow
  <1>2. [order EXCEPT !.lock = IF Holds(w) THEN TRUE ELSE @].status = order.status
    BY DEF TypeOK, OrderRow
  <1> QED BY <1>1, <1>2 DEF Commit, End, Merge

LEMMA FailureStatus ==
  ASSUME NEW r \in Rows, NEW skip \in BOOLEAN, NEW failures \in Nat, NEW hard \in BOOLEAN
  PROVE  HandlePaymentFailure(r, skip, failures, hard).order.status = r.order.status
  <1>1. ReleaseLock(r).order.status = r.order.status
    BY DEF ReleaseLock, Rows, OrderRow
  <1>2. ASSUME NEW q \in Rows
        PROVE  /\ FirstDunningAttempt(q, hard).order.status = q.order.status
               /\ ConsecutiveDunningAttempt(q, failures).order.status = q.order.status
    BY DEF FirstDunningAttempt, ConsecutiveDunningAttempt, Rows, OrderRow
  <1> QED BY <1>1, <1>2, ReleaseLockType DEF HandlePaymentFailure

(* A task ends with a status it had read, or one it is entitled to write.  *)
LEMMA CommitPaid ==
  ASSUME TypeOK, PaidInv, Processor' = Processor, NEW w \in Workers, NEW new \in Rows, NEW flags,
         Commit(w, new, flags), PaidFor => PaidFor',
         new.order.status = "paid" => PaidFor'
  PROVE  PaidInv'
  <1>1. order'.status = "paid" => PaidFor'
    BY CommitStatus DEF PaidInv
  <1>2. \A v \in Workers : task'[v] = IF v = w THEN Idle ELSE task[v]
    BY CommitStatus DEF TypeOK
  <1>3. Idle.seen.order.status = "pending" /\ Idle.step = "idle"
    BY DEF Idle, Unread
  <1>4. \A v \in Workers :
          /\ task'[v].seen.order.status = "paid" => PaidFor'
          /\ Processor = "paystack" /\ task'[v].step = "charged" /\ task'[v].result = "succeeded"
               => PaidFor'
    BY <1>2, <1>3 DEF PaidInv
  <1> QED BY <1>1, <1>4 DEF PaidInv

LEMMA EndPaid ==
  ASSUME TypeOK, PaidInv, Processor' = Processor, NEW w \in Workers, End(w), order' = order, PaidFor => PaidFor'
  PROVE  PaidInv'
  BY DEF TypeOK, PaidInv, End, Idle, Unread

LEMMA BeginPaid ==
  ASSUME TypeOK, PaidInv, Processor' = Processor, NEW w \in Workers, NEW kind, NEW c, Begin(w, kind, c),
         charge' = charge
  PROVE  PaidInv'
  <1>1. PaidFor' = PaidFor
    BY DEF Begin, PaidFor
  <1>2. task'[w].seen.order = order /\ task'[w].step = "read"
    BY DEF Begin, TypeOK
  <1>3. \A v \in Workers : v # w => task'[v] = task[v]
    BY DEF Begin, TypeOK
  <1> QED BY <1>1, <1>2, <1>3 DEF PaidInv, Begin

(* The only charges whose state or webhook changes are those that had not  *)
(* been used, settled or handled.                                          *)
LEMMA PaidForKept ==
  ASSUME TypeOK, credits' \in Nat, credits' >= credits,
         \A c \in Charges :
           charge[c].state = "succeeded" /\ charge[c].hook = "done" => charge'[c] = charge[c]
  PROVE  PaidFor => PaidFor'
  BY DEF TypeOK, PaidFor

LEMMA RollbackPaid ==
  ASSUME TypeOK, HooksOK, PaidInv, NEW w \in Workers, NEW again \in BOOLEAN,
         Rollback(w, again)
  PROVE  PaidInv'
  <1>1. \A c \in Charges :
          charge[c].state = "succeeded" /\ charge[c].hook = "done" => charge'[c] = charge[c]
    BY DEF Rollback, HooksOK, TypeOK
  <1>2. credits' = credits /\ credits \in Nat
    BY DEF Rollback, TypeOK
  <1>3. PaidFor => PaidFor'
    BY <1>1, <1>2, PaidForKept
  <1>4. End(w) /\ order' = order /\ Processor' = Processor
    BY DEF Rollback, Processor
  <1> QED BY <1>3, <1>4, EndPaid

LEMMA SameFor ==
  ASSUME charge' = charge, credits' = credits
  PROVE  PaidFor' = PaidFor
  BY DEF PaidFor

LEMMA PaidInit == Init => PaidInv
  <1> SUFFICES ASSUME Init PROVE PaidInv
    OBVIOUS
  <1>1. PICK s \in NewSubs, small \in BOOLEAN :
          LET new == [order |-> [Unread.order EXCEPT !.small = small], sub |-> s]
              rows == IF s.method THEN new
                      ELSE HandlePaymentFailure(new, FALSE, 0, FALSE)
          IN order = rows.order
    BY DEF Init
  <1> DEFINE new == [order |-> [Unread.order EXCEPT !.small = small], sub |-> s]
  <1>2. new \in Rows /\ new.order.status = "pending"
    <2>1. s \in SubRow
      <3>1. Unread.sub \in SubRow
        BY UnreadType DEF Rows
      <3> QED BY <3>1 DEF NewSubs, SubRow
    <2>2. [Unread.order EXCEPT !.small = small] \in OrderRow
      BY DEF OrderRow, Unread
    <2>3. [Unread.order EXCEPT !.small = small].status = "pending"
      BY DEF Unread
    <2> QED BY <2>1, <2>2, <2>3 DEF Rows
  <1>3. HandlePaymentFailure(new, FALSE, 0, FALSE).order.status = "pending"
    BY <1>2, FailureStatus
  <1>4. order.status = "pending"
    BY <1>1, <1>2, <1>3
  <1> QED BY <1>4 DEF Init, PaidInv, Idle, Unread

(* The environment of a behavior, and with it the processor, is fixed.     *)
LEMMA SameProcessor ==
  ASSUME [Next]_vars PROVE Processor' = Processor
  <1>1. environment' = environment
    BY ZenonT(60) DEF Next, vars, Proceed, TriggerBegin, ManualBegin, DunningBegin, VoidBegin, HookBegin,
           TriggerStep, TriggerWithoutMethod, TriggerRefused, TriggerSkipped, TriggerCredit,
           ChargeStep, AcquireLock, LockRefused, CreateCharge, CreateChargeInvalid, KeepLock,
           PaidAtOnce, ChargeDeclined, ChargeInvalid, ManualEnd, HookStep, HookSucceeded,
           HookRefused, HookFailed, DunningStep, DunningCanceled, DunningWithoutMethod,
           DunningTriggers, VoidCommit, Crash, Raise, Rollback, SettleCharge, Cron, Revoke,
           RemoveMethod, AddMethod, SetBlocked, Tick
  <1> QED BY <1>1 DEF Processor

LEMMA PaidStep == TypeOK /\ HooksOK /\ PaidInv /\ [Next]_vars => PaidInv'
  <1> SUFFICES ASSUME TypeOK, HooksOK, PaidInv, [Next]_vars PROVE PaidInv'
    OBVIOUS
  <1>0. Processor' = Processor
    BY SameProcessor
  <1> USE <1>0
  <1>1. ASSUME NEW w \in Workers,
               \/ TriggerBegin(w) \/ ManualBegin(w) \/ DunningBegin(w) \/ VoidBegin(w)
               \/ \E c \in Charges : HookBegin(w, c)
        PROVE  PaidInv'
    BY <1>1, BeginPaid
       DEF TriggerBegin, ManualBegin, DunningBegin, VoidBegin, HookBegin
  <1>2. ASSUME NEW w \in Workers, NEW r \in Rows, r.order = task[w].seen.order,
               NEW skip \in BOOLEAN, NEW failures \in Nat, NEW hard \in BOOLEAN,
               NEW flags, Commit(w, HandlePaymentFailure(r, skip, failures, hard), flags),
               PaidFor => PaidFor'
        PROVE  PaidInv'
    <2>1. HandlePaymentFailure(r, skip, failures, hard) \in Rows
      BY HandlePaymentFailureType
    <2>2. HandlePaymentFailure(r, skip, failures, hard).order.status
            = task[w].seen.order.status
      BY <1>2, FailureStatus
    <2> QED BY <1>2, <2>1, <2>2, CommitPaid DEF PaidInv
  <1>3. ASSUME NEW w \in Workers, TriggerWithoutMethod(w) \/ DunningWithoutMethod(w)
        PROVE  PaidInv'
    <2>1. PICK hard \in BOOLEAN :
            Commit(w, HandlePaymentFailure(task[w].seen, FALSE,
                        Cardinality(RecordedFailures), hard),
                   FailureFlags(task[w].seen))
      BY <1>3 DEF TriggerWithoutMethod, DunningWithoutMethod
    <2>2. PaidFor' = PaidFor
      BY <1>3, SameFor DEF TriggerWithoutMethod, DunningWithoutMethod
    <2> QED BY <1>2, <2>1, <2>2, SeenType, RecordedFailuresType
  <1>4. ASSUME NEW w \in Workers, Crash(w) \/ TriggerRefused(w) \/ LockRefused(w) \/ HookRefused(w)
        PROVE  PaidInv'
    BY <1>4, RollbackPaid DEF Crash, TriggerRefused, LockRefused, HookRefused, Raise
  <1>5. ASSUME NEW w \in Workers, TriggerSkipped(w) \/ DunningTriggers(w)
        PROVE  PaidInv'
    <2>1. End(w) /\ order' = order /\ PaidFor' = PaidFor
      BY <1>5, SameFor DEF TriggerSkipped, DunningTriggers
    <2> QED BY <2>1, EndPaid
  <1>6. ASSUME NEW w \in Workers, TriggerCredit(w) PROVE PaidInv'
    <2>1. [task[w].seen EXCEPT !.order.status = "paid"] \in Rows
      BY SeenType DEF Rows, OrderRow
    <2>2. PaidFor'
      BY <1>6 DEF TriggerCredit, PaidFor, TypeOK
    <2>3. Commit(w, [task[w].seen EXCEPT !.order.status = "paid"], NoFlags)
      BY <1>6 DEF TriggerCredit
    <2> QED BY <2>1, <2>2, <2>3, CommitPaid
  <1>7. ASSUME NEW w \in Workers, AcquireLock(w) PROVE PaidInv'
    <2>1. PaidFor' = PaidFor
      BY <1>7, SameFor DEF AcquireLock
    <2>2. task'[w].seen.order.status = task[w].seen.order.status /\ task'[w].step = "locked"
      BY <1>7, SeenType DEF AcquireLock, TypeOK, Task, Rows, OrderRow
    <2>3. \A v \in Workers : v # w => task'[v] = task[v]
      BY <1>7 DEF AcquireLock, TypeOK
    <2> QED BY <1>7, <2>1, <2>2, <2>3 DEF PaidInv, AcquireLock
  <1>8. ASSUME NEW w \in Workers, CreateCharge(w) PROVE PaidInv'
    <2>1. PICK c \in Charges, outcome \in Outcomes(w) :
            /\ charge[c].state = "unused"
            /\ charge' = [charge EXCEPT ![c] =
                 [state |-> outcome, manual |-> task[w].kind = "manual",
                  hook |-> CASE Processor = "paystack" -> "done"
                             [] outcome = "processing" -> "none"
                             [] OTHER -> "pending"]]
            /\ task' = [task EXCEPT ![w] =
                 [@ EXCEPT !.step = "charged", !.charge = c, !.result = outcome]]
      BY <1>8 DEF CreateCharge
    <2>2. credits' = credits /\ credits \in Nat /\ order' = order
      BY <1>8 DEF CreateCharge, TypeOK
    <2>3. \A d \in Charges : d # c => charge'[d] = charge[d]
      BY <2>1 DEF TypeOK
    <2>4. PaidFor => PaidFor'
      BY <2>1, <2>2, <2>3, PaidForKept
    <2>5. Processor = "paystack" /\ outcome = "succeeded" => PaidFor'
      BY <2>1 DEF TypeOK, PaidFor
    <2>6. task'[w].seen = task[w].seen /\ task'[w].result = outcome
      BY <2>1 DEF TypeOK, Task
    <2>7. \A v \in Workers : v # w => task'[v] = task[v]
      BY <2>1 DEF TypeOK
    <2> QED BY <2>2, <2>4, <2>5, <2>6, <2>7 DEF PaidInv
  <1>9. ASSUME NEW w \in Workers, CreateChargeInvalid(w) PROVE PaidInv'
    <2>1. PaidFor' = PaidFor /\ order' = order
      BY <1>9, SameFor DEF CreateChargeInvalid
    <2>2. task'[w].seen = task[w].seen /\ task'[w].result = "invalid"
      BY <1>9 DEF CreateChargeInvalid, TypeOK, Task
    <2>3. \A v \in Workers : v # w => task'[v] = task[v]
      BY <1>9 DEF CreateChargeInvalid, TypeOK
    <2> QED BY <2>1, <2>2, <2>3 DEF PaidInv
  <1>10. ASSUME NEW w \in Workers, KeepLock(w) \/ ChargeDeclined(w) \/ ManualEnd(w)
         PROVE  PaidInv'
    <2>1. PICK new \in {task[w].seen, ReleaseLock(task[w].seen)} : Commit(w, new, NoFlags)
      BY <1>10 DEF KeepLock, ChargeDeclined, ManualEnd
    <2>2. new \in Rows /\ new.order.status = task[w].seen.order.status
      <3>1. \A r \in Rows : ReleaseLock(r).order.status = r.order.status
        BY DEF ReleaseLock, Rows, OrderRow
      <3> QED BY <3>1, SeenType, ReleaseLockType
    <2>3. PaidFor' = PaidFor
      BY <1>10, SameFor DEF KeepLock, ChargeDeclined, ManualEnd
    <2> QED BY <2>1, <2>2, <2>3, CommitPaid DEF PaidInv
  <1>11. ASSUME NEW w \in Workers, PaidAtOnce(w) PROVE PaidInv'
    <2>1. [task[w].seen EXCEPT !.order.ref = TRUE] \in Rows
      BY SeenType DEF Rows, OrderRow
    <2>2. HandlePayment([task[w].seen EXCEPT !.order.ref = TRUE]) \in Rows
      BY <2>1, HandlePaymentType
    <2>3. PaidFor /\ PaidFor' = PaidFor
      BY <1>11, SameFor DEF PaidAtOnce, Charged, PaidInv
    <2> QED BY <1>11, <2>2, <2>3, CommitPaid DEF PaidAtOnce
  <1>12. ASSUME NEW w \in Workers, ChargeInvalid(w) PROVE PaidInv'
    <2>1. PICK other \in BOOLEAN, hard \in BOOLEAN :
            Commit(w, HandlePaymentFailure([task[w].seen EXCEPT !.sub.method = other],
                        FALSE, Cardinality(RecordedFailures), hard),
                   FailureFlags(task[w].seen))
      BY <1>12 DEF ChargeInvalid
    <2>2. /\ [task[w].seen EXCEPT !.sub.method = other] \in Rows
          /\ [task[w].seen EXCEPT !.sub.method = other].order = task[w].seen.order
      BY SeenType DEF Rows, SubRow
    <2>3. PaidFor' = PaidFor
      BY <1>12, SameFor DEF ChargeInvalid
    <2> QED BY <1>2, <2>1, <2>2, <2>3, RecordedFailuresType
  <1>13. ASSUME NEW w \in Workers, HookSucceeded(w) PROVE PaidInv'
    <2>1. task[w].charge \in Charges
      BY <1>13 DEF HookSucceeded, Reading, HooksOK
    <2>2. PaidFor'
      BY <1>13, <2>1 DEF HookSucceeded, HookDone, PaidFor, TypeOK, ChargeRow
    <2>3. HandlePayment(task[w].seen) \in Rows
      BY SeenType, HandlePaymentType
    <2> QED BY <1>13, <2>2, <2>3, CommitPaid DEF HookSucceeded
  <1>14. ASSUME NEW w \in Workers, HookFailed(w) PROVE PaidInv'
    <2> DEFINE c == task[w].charge
    <2>1. c \in Charges /\ charge[c].hook = "pending"
      BY <1>14 DEF HookFailed, Reading, HooksOK
    <2>2. charge[c].manual \in BOOLEAN /\ Cardinality(RecordedFailures \cup {c}) \in Nat
      BY <2>1, FailuresType DEF TypeOK, ChargeRow
    <2>3. credits' = credits /\ credits \in Nat
      BY <1>14 DEF HookFailed, TypeOK
    <2>4. \A d \in Charges :
            charge[d].state = "succeeded" /\ charge[d].hook = "done" => charge'[d] = charge[d]
      BY <1>14, <2>1 DEF HookFailed, HookDone, TypeOK
    <2>5. PaidFor => PaidFor'
      BY <2>3, <2>4, PaidForKept
    <2>6. \E flags : Commit(w, HandlePaymentFailure(task[w].seen, charge[c].manual,
                                 Cardinality(RecordedFailures \cup {c}),
                                 charge[c].state = "declined_hard"), flags)
      BY <1>14 DEF HookFailed
    <2>7. (charge[c].state = "declined_hard") \in BOOLEAN
      OBVIOUS
    <2> QED BY <1>2, <2>2, <2>5, <2>6, <2>7, SeenType
  <1>15. ASSUME NEW w \in Workers, DunningCanceled(w) \/ VoidCommit(w) PROVE PaidInv'
    <2>1. PICK new \in {[task[w].seen EXCEPT !.order.next = NoDate],
                        [task[w].seen EXCEPT !.order.status = "void"]} :
            \E flags : Commit(w, new, flags)
      BY <1>15 DEF DunningCanceled, VoidCommit
    <2>2. new \in Rows /\ new.order.status \in {task[w].seen.order.status, "void"}
      <3>1. CASE new = [task[w].seen EXCEPT !.order.next = NoDate]
        <4>1. [task[w].seen EXCEPT !.order.next = NoDate] \in Rows
          BY SeenType DEF Rows, OrderRow
        <4>2. [task[w].seen EXCEPT !.order.next = NoDate].order.status
                = task[w].seen.order.status
          BY SeenType DEF Rows, OrderRow
        <4> QED BY <3>1, <4>1, <4>2
      <3>2. CASE new = [task[w].seen EXCEPT !.order.status = "void"]
        <4>1. [task[w].seen EXCEPT !.order.status = "void"] \in Rows
          BY SeenType DEF Rows, OrderRow
        <4>2. [task[w].seen EXCEPT !.order.status = "void"].order.status = "void"
          BY SeenType DEF Rows, OrderRow
        <4> QED BY <3>2, <4>1, <4>2
      <3> QED BY <2>1, <3>1, <3>2
    <2>3. PaidFor' = PaidFor
      BY <1>15, SameFor DEF DunningCanceled, VoidCommit
    <2> QED BY <2>1, <2>2, <2>3, CommitPaid DEF PaidInv
  <1>16. ASSUME NEW c \in Charges, SettleCharge(c) PROVE PaidInv'
    <2>1. credits' = credits /\ credits \in Nat /\ order' = order /\ task' = task
      BY <1>16 DEF SettleCharge, TypeOK
    <2>2. \A d \in Charges :
            charge[d].state = "succeeded" /\ charge[d].hook = "done" => charge'[d] = charge[d]
      BY <1>16 DEF SettleCharge, TypeOK
    <2>3. PaidFor => PaidFor'
      BY <2>1, <2>2, PaidForKept
    <2> QED BY <2>1, <2>3 DEF PaidInv
  <1>17. CASE Cron \/ Revoke \/ RemoveMethod \/ AddMethod \/ SetBlocked \/ Tick
              \/ UNCHANGED vars
    <2>1. order'.status = order.status /\ task' = task
      BY <1>17 DEF Cron, Revoke, RemoveMethod, AddMethod, SetBlocked, Tick, vars,
                   TypeOK, OrderRow
    <2>2. PaidFor' = PaidFor
      BY <1>17, SameFor
         DEF Cron, Revoke, RemoveMethod, AddMethod, SetBlocked, Tick, vars
    <2> QED BY <2>1, <2>2 DEF PaidInv
  <1> QED BY <1>1, <1>3, <1>4, <1>5, <1>6, <1>7, <1>8, <1>9, <1>10, <1>11, <1>12, <1>13,
             <1>14, <1>15, <1>16, <1>17
          DEF Next, Proceed, TriggerStep, ChargeStep, HookStep, DunningStep

(* An order is paid only by a charge that succeeded or by the credit of an *)
(* amount below the minimum, with any number of workers, charges and       *)
(* retries, either processor and every event of the environment.           *)
THEOREM PaidByChargeCorrect == Spec => []PaidByCharge
  <1>1. Init => TypeOK /\ HooksOK /\ PaidInv
    BY TypeInit, HooksInit, PaidInit
  <1>2. TypeOK /\ HooksOK /\ PaidInv /\ [Next]_vars => TypeOK' /\ HooksOK' /\ PaidInv'
    BY TypeStep, HooksStep, PaidStep
  <1>3. PaidInv => PaidByCharge
    BY DEF PaidInv, PaidByCharge, PaidFor
  <1> QED BY <1>1, <1>2, <1>3, PTL DEF Spec

-----------------------------------------------------------------------------
(* What a commit writes of the columns, and what the services compute.     *)

LEMMA CommitFields ==
  ASSUME TypeOK, NEW w \in Workers, NEW new, NEW flags, Commit(w, new, flags)
  PROVE  LET seen == task[w].seen
         IN /\ rowLock \in {Nobody, w} /\ End(w)
            /\ order'.status = IF new.order.status = seen.order.status
                                  /\ "status" \notin flags.order
                               THEN order.status ELSE new.order.status
            /\ order'.next = IF new.order.next = seen.order.next /\ "next" \notin flags.order
                             THEN order.next ELSE new.order.next
            /\ order'.lock = IF new.order.lock = seen.order.lock /\ "lock" \notin flags.order
                             THEN (IF Holds(w) THEN TRUE ELSE order.lock)
                             ELSE new.order.lock
            /\ sub'.status = IF new.sub.status = seen.sub.status /\ "status" \notin flags.sub
                             THEN sub.status ELSE new.sub.status
            /\ sub'.ended = IF new.sub.ended = seen.sub.ended /\ "ended" \notin flags.sub
                            THEN sub.ended ELSE new.sub.ended
            /\ sub'.method = IF new.sub.method = seen.sub.method /\ "method" \notin flags.sub
                             THEN sub.method ELSE new.sub.method
  <1> DEFINE seen == task[w].seen
             locked == [order EXCEPT !.lock = IF Holds(w) THEN TRUE ELSE @]
  <1>1. /\ DOMAIN locked = {"status", "next", "lock", "ref", "small"}
        /\ DOMAIN sub = {"status", "dueLeft", "ended", "method"}
        /\ locked.status = order.status /\ locked.next = order.next
        /\ locked.lock = IF Holds(w) THEN TRUE ELSE order.lock
    BY DEF TypeOK, OrderRow, SubRow
  <1>2. /\ order' = Merge(locked, seen.order, new.order, flags.order)
        /\ sub' = Merge(sub, seen.sub, new.sub, flags.sub)
        /\ rowLock \in {Nobody, w} /\ End(w)
    BY DEF Commit
  <1> HIDE DEF locked, seen
  <1>3. /\ order'.status = IF new.order.status = seen.order.status /\ "status" \notin flags.order
                           THEN order.status ELSE new.order.status
        /\ order'.next = IF new.order.next = seen.order.next /\ "next" \notin flags.order
                         THEN order.next ELSE new.order.next
        /\ order'.lock = IF new.order.lock = seen.order.lock /\ "lock" \notin flags.order
                         THEN (IF Holds(w) THEN TRUE ELSE order.lock) ELSE new.order.lock
    BY <1>1, <1>2 DEF Merge
  <1>4. /\ sub'.status = IF new.sub.status = seen.sub.status /\ "status" \notin flags.sub
                         THEN sub.status ELSE new.sub.status
        /\ sub'.ended = IF new.sub.ended = seen.sub.ended /\ "ended" \notin flags.sub
                        THEN sub.ended ELSE new.sub.ended
        /\ sub'.method = IF new.sub.method = seen.sub.method /\ "method" \notin flags.sub
                         THEN sub.method ELSE new.sub.method
    BY <1>1, <1>2 DEF Merge
  <1> QED BY <1>2, <1>3, <1>4 DEF seen

LEMMA FlagsFields ==
  ASSUME NEW r
  PROVE  /\ NoFlags.order = {} /\ NoFlags.sub = {}
         /\ PaymentFlags(r).order = {} /\ PaymentFlags(r).sub \subseteq {"status", "dueLeft"}
         /\ FailureFlags(r).order = (IF r.order.status = "paid" THEN {} ELSE {"next"})
         /\ FailureFlags(r).sub = (IF r.order.status # "paid" /\ r.order.next = NoDate
                                   THEN {"status"} ELSE {})
  BY DEF NoFlags, PaymentFlags, FailureFlags

LEMMA ReleaseFields ==
  ASSUME NEW r \in Rows
  PROVE  /\ ReleaseLock(r) \in Rows /\ ReleaseLock(r).sub = r.sub
         /\ ReleaseLock(r).order.status = r.order.status
         /\ ReleaseLock(r).order.next = r.order.next
         /\ ReleaseLock(r).order.lock = FALSE
  <1>1. r.order \in OrderRow /\ ReleaseLock(r) = [r EXCEPT !.order.lock = FALSE]
    BY DEF ReleaseLock, Rows
  <1>2. ReleaseLock(r).sub = r.sub
    BY <1>1 DEF Rows
  <1>3. ReleaseLock(r).order = [r.order EXCEPT !.lock = FALSE]
    BY <1>1 DEF Rows
  <1> QED BY <1>1, <1>2, <1>3, ReleaseLockType DEF OrderRow

LEMMA PaymentFields ==
  ASSUME NEW r \in Rows
  PROVE  LET p == HandlePayment(r)
         IN /\ p.order.status = (IF r.order.status = "pending" THEN "paid" ELSE r.order.status)
            /\ p.order.next = NoDate /\ p.order.lock = FALSE
            /\ p.sub.ended = r.sub.ended /\ p.sub.method = r.sub.method
            /\ \/ p.sub.status = r.sub.status
               \/ p.sub.status = "active" /\ r.sub.status = "past_due"
  BY DEF HandlePayment, MarkActive, Rows, OrderRow, SubRow

(* The first failure schedules a retry and makes the subscription past due.*)
LEMMA FirstFields ==
  ASSUME NEW r \in Rows, NEW hard \in BOOLEAN
  PROVE  LET f == FirstDunningAttempt(r, hard)
         IN /\ f.order.status = r.order.status /\ f.order.lock = r.order.lock
            /\ f.order.next # NoDate
            /\ f.sub.status = "past_due"
            /\ f.sub.ended = r.sub.ended /\ f.sub.method = r.sub.method
  <1> DEFINE s == MarkPastDue(r.sub)
  <1>1. r.order \in OrderRow /\ r.sub \in SubRow
    BY DEF Rows
  <1>2. /\ s.status = "past_due" /\ s.ended = r.sub.ended /\ s.method = r.sub.method
        /\ s.dueLeft # NoDate
    BY <1>1 DEF MarkPastDue, SubRow, NoDate
  <1>3. RetryIntervals[1] # NoDate
    <2>1. RetryIntervals \in Seq(Nat) /\ 1 \in 1 .. Len(RetryIntervals)
      OBVIOUS
    <2>2. RetryIntervals[1] \in Nat
      BY <2>1
    <2> QED BY <2>2 DEF NoDate
  <1> HIDE DEF s
  <1> QED BY <1>1, <1>2, <1>3 DEF FirstDunningAttempt, s, OrderRow

(* A later failure reschedules, or revokes the subscription.               *)
LEMMA ConsecutiveFields ==
  ASSUME NEW r \in Rows, NEW failures \in Nat
  PROVE  LET f == ConsecutiveDunningAttempt(r, failures)
         IN /\ f.order.status = r.order.status /\ f.order.lock = r.order.lock
            /\ \/ f.order.next # NoDate /\ f.sub = r.sub
               \/ f.order.next = NoDate /\ ~CanCancelImmediately(r.sub) /\ f.sub = r.sub
               \/ /\ f.order.next = NoDate /\ CanCancelImmediately(r.sub)
                  /\ f.sub = Revoked(r.sub)
  <1>1. r.order \in OrderRow /\ r.sub \in SubRow
    BY DEF Rows
  <1>2. CASE failures >= Len(RetryIntervals) \/ r.sub.dueLeft = 0 \/ r.order.status = "void"
    BY <1>1, <1>2 DEF ConsecutiveDunningAttempt, OrderRow
  <1>3. CASE ~(failures >= Len(RetryIntervals) \/ r.sub.dueLeft = 0 \/ r.order.status = "void")
    <2>1. failures + 1 \in 1 .. Len(RetryIntervals)
      BY <1>3
    <2>2. RetryIntervals[failures + 1] \in Nat
      BY <2>1
    <2> QED BY <1>1, <1>3, <2>2 DEF ConsecutiveDunningAttempt, Rows, OrderRow, NoDate
  <1> QED BY <1>2, <1>3

(* A failure that skips dunning only lets go of the lock.                  *)
LEMMA SkippedFields ==
  ASSUME NEW r \in Rows, NEW failures \in Nat, NEW hard \in BOOLEAN
  PROVE  HandlePaymentFailure(r, TRUE, failures, hard)
           = IF r.order.status = "paid" THEN r ELSE ReleaseLock(r)
  BY DEF HandlePaymentFailure

(* The failure f of a payment of the rows r: it enters dunning, or goes on *)
(* with it.                                                                *)
DunningOf(r, f) ==
  /\ f \in Rows
  /\ f.order.status = r.order.status /\ f.sub.method = r.sub.method
  /\ r.order.status = "paid" => f = r
  /\ r.sub.ended => f.sub.ended
  /\ r.order.status # "paid" => f.order.lock = FALSE
  /\ r.order.status # "paid" /\ r.order.next = NoDate =>
       /\ f.order.next # NoDate /\ f.sub.status = "past_due"
       /\ f.sub.ended = r.sub.ended
  /\ r.order.status # "paid" /\ r.order.next # NoDate =>
       \/ f.order.next # NoDate /\ f.sub = r.sub
       \/ /\ f.order.next = NoDate
          /\ f.sub = IF CanCancelImmediately(r.sub) THEN Revoked(r.sub) ELSE r.sub

LEMMA DunningFields ==
  ASSUME NEW r \in Rows, NEW failures \in Nat, NEW hard \in BOOLEAN
  PROVE  DunningOf(r, HandlePaymentFailure(r, FALSE, failures, hard))
  <1> DEFINE l == ReleaseLock(r)
             f == HandlePaymentFailure(r, FALSE, failures, hard)
  <1>1. /\ l \in Rows /\ l.sub = r.sub /\ l.order.status = r.order.status
        /\ l.order.next = r.order.next /\ l.order.lock = FALSE
    BY ReleaseFields
  <1>2. r.sub \in SubRow
    BY DEF Rows
  <1>3. Revoked(r.sub).ended = TRUE /\ Revoked(r.sub).method = r.sub.method
    BY <1>2 DEF Revoked, SubRow
  <1>4. f \in Rows
    BY HandlePaymentFailureType
  <1>5. CASE r.order.status = "paid"
    BY <1>4, <1>5 DEF HandlePaymentFailure, DunningOf
  <1>6. CASE r.order.status # "paid" /\ r.order.next = NoDate
    <2>1. f = FirstDunningAttempt(l, hard)
      BY <1>6 DEF HandlePaymentFailure
    <2> HIDE DEF l, f
    <2>2. /\ f.order.status = r.order.status /\ f.order.lock = FALSE
          /\ f.order.next # NoDate /\ f.sub.status = "past_due"
          /\ f.sub.ended = r.sub.ended /\ f.sub.method = r.sub.method
      BY <1>1, <2>1, FirstFields
    <2>3. DunningOf(r, f)
      BY <1>4, <1>6, <2>2 DEF DunningOf
    <2> QED BY <2>3 DEF f
  <1>7. CASE r.order.status # "paid" /\ r.order.next # NoDate
    <2>1. f = ConsecutiveDunningAttempt(l, failures)
      BY <1>7 DEF HandlePaymentFailure
    <2> HIDE DEF l, f
    <2>2. /\ f.order.status = r.order.status /\ f.order.lock = FALSE
          /\ \/ f.order.next # NoDate /\ f.sub = r.sub
             \/ /\ f.order.next = NoDate
                /\ f.sub = IF CanCancelImmediately(r.sub) THEN Revoked(r.sub) ELSE r.sub
      BY <1>1, <2>1, ConsecutiveFields
    <2>3. r.sub.ended => f.sub.ended
      BY <1>3, <2>2
    <2>4. f.sub.method = r.sub.method
      BY <1>3, <2>2
    <2>5. DunningOf(r, f)
      BY <1>4, <1>7, <2>2, <2>3, <2>4 DEF DunningOf
    <2> QED BY <2>5 DEF f
  <1> QED BY <1>5, <1>6, <1>7

HIDE IntervalsAssumption

-----------------------------------------------------------------------------
(* The row lock is held by the task that charges, from a pending order on  *)
(* that it locks; and an order that was read as paid or void stays so.     *)

Begins(w) ==
  \/ TriggerBegin(w) \/ ManualBegin(w) \/ DunningBegin(w) \/ VoidBegin(w)
  \/ \E c \in Charges : HookBegin(w, c)

Ends(w) ==
  \/ TriggerStep(w) \/ LockRefused(w) \/ KeepLock(w) \/ PaidAtOnce(w) \/ ChargeDeclined(w)
  \/ ChargeInvalid(w) \/ ManualEnd(w) \/ HookStep(w) \/ DunningStep(w) \/ VoidCommit(w)
  \/ Crash(w)

Outside ==
  \/ Cron \/ Revoke \/ RemoveMethod \/ AddMethod \/ SetBlocked \/ Tick \/ UNCHANGED vars
  \/ \E c \in Charges : SettleCharge(c)

LEMMA StepCases ==
  ASSUME [Next]_vars
  PROVE  \/ Outside
         \/ \E w \in Workers : \/ Begins(w) \/ AcquireLock(w) \/ CreateCharge(w)
                               \/ CreateChargeInvalid(w) \/ Ends(w)
  BY DEF Next, Proceed, ChargeStep, Begins, Ends, Outside

Others(w) == \A v \in Workers : v # w => task'[v] = task[v]

LEMMA BeginFields ==
  ASSUME TypeOK, NEW w \in Workers, Begins(w)
  PROVE  /\ Others(w) /\ task[w].step = "idle" /\ task'[w].step = "read"
         /\ task'[w].result = "none" /\ task'[w].seen.order = order /\ task'[w].seen.sub = sub
         /\ TriggerBegin(w) => task'[w].kind = "trigger"
         /\ ManualBegin(w) => task'[w].kind = "manual"
         /\ DunningBegin(w) => task'[w].kind = "dunning"
         /\ VoidBegin(w) => task'[w].kind = "void"
         /\ ~(\E c \in Charges : HookBegin(w, c)) => task'[w].charge = NoCharge
         /\ order' = order /\ sub' = sub /\ rowLock' = rowLock /\ charge' = charge
         /\ environment' = environment
  <1>1. ASSUME NEW kind, NEW c, Begin(w, kind, c)
        PROVE  /\ Others(w) /\ task[w].step = "idle" /\ task'[w].step = "read"
               /\ task'[w].kind = kind /\ task'[w].charge = c
               /\ task'[w].result = "none" /\ task'[w].seen.order = order /\ task'[w].seen.sub = sub
               /\ order' = order /\ sub' = sub /\ rowLock' = rowLock
    BY <1>1 DEF Begin, Others, TypeOK
  <1> QED BY <1>1 DEF Begins, TriggerBegin, ManualBegin, DunningBegin, VoidBegin, HookBegin

LEMMA AcquireFields ==
  ASSUME TypeOK, NEW w \in Workers, AcquireLock(w)
  PROVE  /\ Others(w) /\ task[w].step = "read" /\ task'[w].step = "locked"
         /\ task[w].kind \in {"trigger", "manual"} /\ task'[w].kind = task[w].kind
         /\ task'[w].charge = task[w].charge /\ task'[w].result = task[w].result
         /\ task'[w].seen.order.status = task[w].seen.order.status
         /\ task'[w].seen.order.next = task[w].seen.order.next
         /\ task'[w].seen.order.lock = TRUE /\ task'[w].seen.sub = task[w].seen.sub
         /\ order' = order /\ sub' = sub /\ charge' = charge /\ environment' = environment
         /\ rowLock = Nobody /\ rowLock' = w
         /\ triggers' = triggers /\ dunnings' = dunnings
  <1>1. task' = [task EXCEPT ![w] = [task[w] EXCEPT !.step = "locked", !.seen.order.lock = TRUE]]
    BY DEF AcquireLock
  <1>2. task[w] \in Task /\ task[w].seen \in Rows /\ task[w].seen.order \in OrderRow
    BY SeenType
  <1>3. /\ task'[w].step = "locked" /\ task'[w].kind = task[w].kind
        /\ task'[w].charge = task[w].charge /\ task'[w].result = task[w].result
        /\ task'[w].seen = [task[w].seen EXCEPT !.order.lock = TRUE]
        /\ Others(w)
    BY <1>1, <1>2 DEF Task, TypeOK, Others
  <1>4. /\ task'[w].seen.order = [task[w].seen.order EXCEPT !.lock = TRUE]
        /\ task'[w].seen.sub = task[w].seen.sub
    BY <1>2, <1>3 DEF Rows
  <1>5. /\ task'[w].seen.order.status = task[w].seen.order.status
        /\ task'[w].seen.order.next = task[w].seen.order.next
        /\ task'[w].seen.order.lock = TRUE
    BY <1>2, <1>4 DEF OrderRow
  <1>6. task[w].step = "read" /\ task[w].kind \in {"trigger", "manual"}
    BY DEF AcquireLock, WantsLock, Reading
  <1> QED BY <1>3, <1>4, <1>5, <1>6 DEF AcquireLock

(* The charge that a task asks for.                                        *)
LEMMA ChargeFields ==
  ASSUME TypeOK, NEW w \in Workers, CreateCharge(w)
  PROVE  /\ Others(w) /\ task[w].step = "locked" /\ task'[w].step = "charged"
         /\ task'[w].kind = task[w].kind /\ task'[w].seen = task[w].seen
         /\ order' = order /\ sub' = sub /\ environment' = environment /\ rowLock' = rowLock
         /\ triggers' = triggers /\ dunnings' = dunnings
         /\ \E c \in Charges :
              /\ charge[c].state = "unused" /\ task'[w].charge = c
              /\ \A d \in Charges : d # c => charge'[d] = charge[d]
              /\ charge'[c].state = task'[w].result
              /\ charge'[c].manual = (task[w].kind = "manual")
              /\ task'[w].result \in Outcomes(w)
              /\ charge'[c].hook = (IF Processor = "paystack" THEN "done"
                                    ELSE IF task'[w].result = "processing" THEN "none"
                                    ELSE "pending")
  <1>1. PICK c \in Charges, outcome \in Outcomes(w) :
            /\ charge[c].state = "unused"
            /\ charge' = [charge EXCEPT ![c] =
                 [state |-> outcome, manual |-> task[w].kind = "manual",
                  hook |-> CASE Processor = "paystack" -> "done"
                             [] outcome = "processing" -> "none"
                             [] OTHER -> "pending"]]
            /\ task' = [task EXCEPT ![w] =
                 [@ EXCEPT !.step = "charged", !.charge = c, !.result = outcome]]
    BY DEF CreateCharge
  <1>2. /\ task'[w].step = "charged" /\ task'[w].charge = c /\ task'[w].result = outcome
        /\ task'[w].kind = task[w].kind /\ task'[w].seen = task[w].seen
        /\ Others(w)
    BY <1>1, SeenType DEF TypeOK, Task, Others
  <1>3. /\ charge'[c].state = outcome
        /\ charge'[c].manual = (task[w].kind = "manual")
        /\ charge'[c].hook = CASE Processor = "paystack" -> "done"
                               [] outcome = "processing" -> "none"
                               [] OTHER -> "pending"
        /\ \A d \in Charges : d # c => charge'[d] = charge[d]
    BY <1>1 DEF TypeOK
  <1>4. Processor = "paystack" => outcome # "processing"
    BY DEF Outcomes
  <1>5. charge'[c].hook = IF Processor = "paystack" THEN "done"
                          ELSE IF outcome = "processing" THEN "none" ELSE "pending"
    BY <1>3, <1>4
  <1> QED BY <1>1, <1>2, <1>3, <1>5 DEF CreateCharge

LEMMA InvalidFields ==
  ASSUME TypeOK, NEW w \in Workers, CreateChargeInvalid(w)
  PROVE  /\ Others(w) /\ task[w].step = "locked" /\ task'[w].step = "charged"
         /\ task'[w].kind = task[w].kind /\ task'[w].charge = task[w].charge
         /\ task'[w].result = "invalid" /\ task'[w].seen = task[w].seen
         /\ order' = order /\ sub' = sub /\ charge' = charge /\ environment' = environment
         /\ rowLock' = rowLock /\ triggers' = triggers /\ dunnings' = dunnings
  BY SeenType DEF CreateChargeInvalid, Others, TypeOK, Task

LEMMA EndFields ==
  ASSUME TypeOK, NEW w \in Workers, End(w)
  PROVE  /\ Others(w) /\ task'[w].step = "idle" /\ task'[w].kind = "trigger"
         /\ task'[w].charge = NoCharge /\ task'[w].result = "none"
         /\ task'[w].seen.order.status = "pending"
         /\ rowLock' = IF rowLock = w THEN Nobody ELSE rowLock
  BY DEF End, Others, TypeOK, Idle, Unread, Holds

LEMMA EndsEnd ==
  ASSUME NEW w \in Workers, Ends(w)
  PROVE  End(w) /\ environment' = environment /\ task[w].step # "idle"
  <1>1. CASE TriggerStep(w)
    BY <1>1 DEF TriggerStep, TriggerWithoutMethod, TriggerRefused, TriggerSkipped, TriggerCredit,
       Reading, Raise, Rollback, Commit
  <1>2. CASE LockRefused(w) \/ KeepLock(w) \/ PaidAtOnce(w) \/ ChargeDeclined(w)
             \/ ChargeInvalid(w) \/ ManualEnd(w)
    BY <1>2 DEF LockRefused, WantsLock, KeepLock, PaidAtOnce, ChargeDeclined, ChargeInvalid,
       ManualEnd, Charged, Reading, Raise, Rollback, Commit
  <1>3. CASE HookStep(w)
    BY <1>3 DEF HookStep, HookSucceeded, HookRefused, HookFailed, Reading, Raise, Rollback, Commit
  <1>4. CASE DunningStep(w) \/ VoidCommit(w)
    BY <1>4 DEF DunningStep, DunningCanceled, DunningWithoutMethod, DunningTriggers, VoidCommit,
       Reading, Commit
  <1>5. CASE Crash(w)
    BY <1>5 DEF Crash, Rollback
  <1> QED BY <1>1, <1>2, <1>3, <1>4, <1>5 DEF Ends

LEMMA OutsideFields ==
  ASSUME TypeOK, Outside
  PROVE  /\ task' = task /\ rowLock' = rowLock /\ environment' = environment
         /\ order'.status = order.status /\ order'.lock = order.lock
  BY DEF Outside, Cron, Revoke, RemoveMethod, AddMethod, SetBlocked, Tick, SettleCharge, vars,
     TypeOK, OrderRow

HoldInv ==
  \A w \in Workers :
    /\ task[w].step \in {"locked", "charged"} <=> rowLock = w
    /\ task[w].step \in {"locked", "charged"} =>
         /\ task[w].kind \in {"trigger", "manual"}
         /\ task[w].seen.order.status = "pending" /\ task[w].seen.order.lock = TRUE
    /\ task[w].step = "read" /\ task[w].kind = "manual" => task[w].seen.order.status = "pending"

LEMMA HoldInit == Init => HoldInv
  BY DEF Init, HoldInv, Idle

LEMMA HoldStep == TypeOK /\ HoldInv /\ [Next]_vars => HoldInv'
  <1> SUFFICES ASSUME TypeOK, HoldInv, [Next]_vars PROVE HoldInv'
    OBVIOUS
  <1>1. CASE Outside
    BY <1>1, OutsideFields DEF HoldInv
  <1>2. ASSUME NEW w \in Workers, Begins(w) PROVE HoldInv'
    <2>1. /\ Others(w) /\ task[w].step = "idle" /\ task'[w].step = "read"
          /\ task'[w].seen.order = order /\ rowLock' = rowLock
      BY <1>2, BeginFields
    <2>2. task'[w].kind = "manual" => order.status = "pending"
      <3>1. CASE ManualBegin(w)
        BY <3>1 DEF ManualBegin, MayCharge
      <3>2. ASSUME NEW c \in Charges, HookBegin(w, c) PROVE task'[w].kind = "hook"
        BY <3>2 DEF HookBegin, Begin, TypeOK
      <3> QED BY <1>2, <3>1, <3>2, BeginFields DEF Begins
    <2> QED BY <2>1, <2>2 DEF HoldInv, Others
  <1>3. ASSUME NEW w \in Workers, AcquireLock(w) PROVE HoldInv'
    <2>1. /\ Others(w) /\ task'[w].step = "locked" /\ task'[w].kind \in {"trigger", "manual"}
          /\ task'[w].seen.order.status = task[w].seen.order.status
          /\ task'[w].seen.order.lock = TRUE /\ rowLock = Nobody /\ rowLock' = w
      BY <1>3, AcquireFields
    <2>2. task[w].seen.order.status = "pending"
      BY <1>3 DEF AcquireLock, WantsLock, Reading, MayCharge, HoldInv
    <2> QED BY <2>1, <2>2 DEF HoldInv, Others
  <1>4. ASSUME NEW w \in Workers, CreateCharge(w) \/ CreateChargeInvalid(w) PROVE HoldInv'
    BY <1>4, ChargeFields, InvalidFields DEF HoldInv, Others
  <1>5. ASSUME NEW w \in Workers, Ends(w) PROVE HoldInv'
    BY <1>5, EndsEnd, EndFields DEF HoldInv, Others
  <1> QED BY <1>1, <1>2, <1>3, <1>4, <1>5, StepCases

-----------------------------------------------------------------------------
(* The ways a task ends: it writes nothing, or its commit fails the        *)
(* payment, pays the order, lets go of the lock, keeps it, and so on.      *)

Leaves(w) ==
  \/ TriggerRefused(w) \/ TriggerSkipped(w) \/ LockRefused(w) \/ HookRefused(w)
  \/ DunningTriggers(w) \/ Crash(w)

ManualFailed(w) == HookFailed(w) /\ charge[task[w].charge].manual

Fails(w) ==
  \/ TriggerWithoutMethod(w) \/ DunningWithoutMethod(w) \/ ChargeInvalid(w)
  \/ HookFailed(w) /\ ~charge[task[w].charge].manual

Pays(w) == PaidAtOnce(w) \/ HookSucceeded(w)

Releases(w) == ChargeDeclined(w) \/ ManualEnd(w) \/ ManualFailed(w)

LEMMA EndCases ==
  ASSUME NEW w \in Workers, Ends(w)
  PROVE  \/ Leaves(w) \/ Fails(w) \/ Pays(w) \/ Releases(w) \/ KeepLock(w)
         \/ TriggerCredit(w) \/ DunningCanceled(w) \/ VoidCommit(w)
  BY DEF Ends, Leaves, Fails, Pays, Releases, ManualFailed, TriggerStep, HookStep, DunningStep

LEMMA LeaveFields ==
  ASSUME NEW w \in Workers, Leaves(w)
  PROVE  order' = order /\ sub' = sub
  BY DEF Leaves, TriggerRefused, TriggerSkipped, LockRefused, HookRefused, DunningTriggers, Crash,
     Raise, Rollback

(* The rows a failure is computed from, and the failure.                   *)
WithMethod(r, m) == [r EXCEPT !.sub.method = m]

FailureOf(w, m, failures, hard) ==
  HandlePaymentFailure(WithMethod(task[w].seen, m), FALSE, failures, hard)

LEMMA MethodFields ==
  ASSUME NEW r \in Rows, NEW m \in BOOLEAN
  PROVE  LET q == WithMethod(r, m)
         IN /\ q \in Rows /\ q.order = r.order /\ q.sub.status = r.sub.status
            /\ q.sub.dueLeft = r.sub.dueLeft /\ q.sub.ended = r.sub.ended /\ q.sub.method = m
            /\ FailureFlags(q) = FailureFlags(r)
            /\ m = r.sub.method => q = r
  <1> DEFINE q == WithMethod(r, m)
  <1>1. r.order \in OrderRow /\ r.sub \in SubRow
    BY DEF Rows
  <1>2. q.order = r.order /\ q.sub = [r.sub EXCEPT !.method = m]
    BY <1>1 DEF Rows, WithMethod
  <1>3. /\ q.sub \in SubRow /\ q.sub.status = r.sub.status /\ q.sub.dueLeft = r.sub.dueLeft
        /\ q.sub.ended = r.sub.ended /\ q.sub.method = m
    BY <1>1, <1>2 DEF SubRow
  <1>4. q \in Rows
    BY <1>1, <1>2, <1>3 DEF Rows, WithMethod
  <1>5. FailureFlags(q) = FailureFlags(r)
    BY <1>2 DEF FailureFlags
  <1>6. m = r.sub.method => q = r
    BY <1>1 DEF Rows, SubRow, WithMethod
  <1> QED BY <1>2, <1>3, <1>4, <1>5, <1>6

LEMMA FailsCommit ==
  ASSUME TypeOK, HooksOK, NEW w \in Workers, Fails(w)
  PROVE  \E m \in BOOLEAN, failures \in Nat, hard \in BOOLEAN :
           /\ m = task[w].seen.sub.method \/ ChargeInvalid(w)
           /\ Commit(w, FailureOf(w, m, failures, hard), FailureFlags(task[w].seen))
  <1> DEFINE seen == task[w].seen
  <1>1. seen \in Rows /\ seen.sub.method \in BOOLEAN
    BY SeenType DEF SubRow
  <1>2. WithMethod(seen, seen.sub.method) = seen
    <2> HIDE DEF seen
    <2> QED BY <1>1, MethodFields
  <1>3. CASE TriggerWithoutMethod(w) \/ DunningWithoutMethod(w)
    BY <1>1, <1>2, <1>3, RecordedFailuresType
       DEF TriggerWithoutMethod, DunningWithoutMethod, FailureOf
  <1>4. CASE ChargeInvalid(w)
    BY <1>4, RecordedFailuresType DEF ChargeInvalid, FailureOf, WithMethod
  <1>5. CASE HookFailed(w) /\ ~charge[task[w].charge].manual
    <2> DEFINE c == task[w].charge
    <2>1. c \in Charges
      BY <1>5 DEF HooksOK, HookFailed, Reading
    <2>2. Cardinality(RecordedFailures \cup {c}) \in Nat
      BY <2>1, FailuresType
    <2>3. charge[c].manual = FALSE
      BY <1>5, <2>1 DEF TypeOK, ChargeRow
    <2>4. Commit(w, HandlePaymentFailure(seen, FALSE, Cardinality(RecordedFailures \cup {c}),
                      charge[c].state = "declined_hard"), FailureFlags(seen))
      BY <1>5, <2>3 DEF HookFailed
    <2> QED BY <1>1, <1>2, <2>2, <2>4 DEF FailureOf
  <1> QED BY <1>3, <1>4, <1>5 DEF Fails

(* A failure never changes the status of the order; it lets go of the lock *)
(* it has read, and either schedules the next attempt or revokes.          *)
LEMMA FailsFields ==
  ASSUME TypeOK, HooksOK, HoldInv, NEW w \in Workers, Fails(w)
  PROVE  LET seen == task[w].seen
         IN /\ order'.status = order.status
            /\ seen.order.status # "paid" /\ order'.lock => order.lock /\ ~seen.order.lock
            /\ sub.ended => sub'.ended
            /\ ~ChargeInvalid(w) => sub'.method = sub.method
            /\ seen.order.status = "paid" =>
                 /\ order'.next = order.next
                 /\ sub'.status = sub.status /\ sub'.ended = sub.ended
            /\ seen.order.status # "paid" =>
                 IF seen.order.next = NoDate
                 THEN /\ order'.next # NoDate /\ sub'.status = "past_due"
                      /\ sub'.ended = sub.ended
                 ELSE \/ /\ order'.next # NoDate
                         /\ sub'.status = sub.status /\ sub'.ended = sub.ended
                      \/ /\ order'.next = NoDate
                         /\ IF CanCancelImmediately(seen.sub)
                            THEN sub'.status = "canceled" /\ sub'.ended = TRUE
                            ELSE sub'.status = sub.status /\ sub'.ended = sub.ended
  <1> DEFINE seen == task[w].seen
  <1>1. PICK m \in BOOLEAN, failures \in Nat, hard \in BOOLEAN :
            /\ m = seen.sub.method \/ ChargeInvalid(w)
            /\ Commit(w, FailureOf(w, m, failures, hard), FailureFlags(seen))
    BY FailsCommit
  <1> DEFINE q == WithMethod(seen, m)
             f == FailureOf(w, m, failures, hard)
  <1>2. seen \in Rows /\ seen.order \in OrderRow /\ seen.sub \in SubRow
    BY SeenType
  <1>3. /\ q \in Rows /\ q.order = seen.order /\ q.sub.status = seen.sub.status
        /\ q.sub.ended = seen.sub.ended /\ q.sub.method = m
    <2> HIDE DEF seen
    <2> QED BY <1>2, MethodFields
  <1> HIDE DEF q
  <1>4. DunningOf(q, f)
    <2>1. f = HandlePaymentFailure(q, FALSE, failures, hard)
      BY DEF FailureOf, q
    <2> QED BY <1>3, <2>1, DunningFields
  <1>5. /\ CanCancelImmediately(q.sub) <=> CanCancelImmediately(seen.sub)
        /\ CanCancelImmediately(seen.sub) =>
             seen.sub.status # "canceled" /\ seen.sub.ended = FALSE
    BY <1>2, <1>3 DEF CanCancelImmediately, Billable, SubRow
  <1>6. Revoked(q.sub).status = "canceled" /\ Revoked(q.sub).ended = TRUE
    BY <1>3 DEF Revoked, Rows, SubRow
  <1>7. /\ order'.status = IF f.order.status = seen.order.status
                              /\ "status" \notin FailureFlags(seen).order
                           THEN order.status ELSE f.order.status
        /\ order'.next = IF f.order.next = seen.order.next
                            /\ "next" \notin FailureFlags(seen).order
                         THEN order.next ELSE f.order.next
        /\ order'.lock = IF f.order.lock = seen.order.lock
                            /\ "lock" \notin FailureFlags(seen).order
                         THEN (IF Holds(w) THEN TRUE ELSE order.lock) ELSE f.order.lock
        /\ sub'.status = IF f.sub.status = seen.sub.status
                            /\ "status" \notin FailureFlags(seen).sub
                         THEN sub.status ELSE f.sub.status
        /\ sub'.ended = IF f.sub.ended = seen.sub.ended
                           /\ "ended" \notin FailureFlags(seen).sub
                        THEN sub.ended ELSE f.sub.ended
        /\ sub'.method = IF f.sub.method = seen.sub.method
                            /\ "method" \notin FailureFlags(seen).sub
                         THEN sub.method ELSE f.sub.method
    <2> DEFINE flags == FailureFlags(seen)
    <2>1. Commit(w, f, flags)
      BY <1>1
    <2> HIDE DEF f, flags
    <2>2. order'.status = IF f.order.status = seen.order.status /\ "status" \notin flags.order
                          THEN order.status ELSE f.order.status
      BY <2>1, CommitFields DEF seen
    <2>3. order'.next = IF f.order.next = seen.order.next /\ "next" \notin flags.order
                        THEN order.next ELSE f.order.next
      BY <2>1, CommitFields DEF seen
    <2>4. order'.lock = IF f.order.lock = seen.order.lock /\ "lock" \notin flags.order
                        THEN (IF Holds(w) THEN TRUE ELSE order.lock) ELSE f.order.lock
      BY <2>1, CommitFields DEF seen
    <2>5. sub'.status = IF f.sub.status = seen.sub.status /\ "status" \notin flags.sub
                        THEN sub.status ELSE f.sub.status
      BY <2>1, CommitFields DEF seen
    <2>6. sub'.ended = IF f.sub.ended = seen.sub.ended /\ "ended" \notin flags.sub
                       THEN sub.ended ELSE f.sub.ended
      BY <2>1, CommitFields DEF seen
    <2>7. sub'.method = IF f.sub.method = seen.sub.method /\ "method" \notin flags.sub
                        THEN sub.method ELSE f.sub.method
      BY <2>1, CommitFields DEF seen
    <2> QED BY <2>2, <2>3, <2>4, <2>5, <2>6, <2>7 DEF flags
  <1>8. /\ FailureFlags(seen).order = (IF seen.order.status = "paid" THEN {} ELSE {"next"})
        /\ FailureFlags(seen).sub = (IF seen.order.status # "paid" /\ seen.order.next = NoDate
                                     THEN {"status"} ELSE {})
    BY FlagsFields
  <1>9. Holds(w) => seen.order.lock = TRUE
    BY DEF Holds, HoldInv
  <1> HIDE DEF f, seen
  <1>10. order'.status = order.status
    BY <1>3, <1>4, <1>7, <1>8 DEF DunningOf
  <1>11. seen.order.status # "paid" /\ order'.lock => order.lock /\ ~seen.order.lock
    BY <1>2, <1>3, <1>4, <1>7, <1>8, <1>9 DEF OrderRow, DunningOf
  <1>12. sub.ended => sub'.ended
    <2>1. f.sub.ended \in BOOLEAN /\ seen.sub.ended \in BOOLEAN
      BY <1>2, <1>4 DEF Rows, SubRow, DunningOf
    <2> QED BY <1>3, <1>4, <1>7, <1>8, <2>1 DEF DunningOf
  <1>13. ~ChargeInvalid(w) => sub'.method = sub.method
    BY <1>1, <1>3, <1>4, <1>7, <1>8 DEF DunningOf
  <1>14. CASE seen.order.status # "paid" /\ seen.order.next = NoDate
    <2>1. f.order.next # NoDate /\ f.sub.status = "past_due" /\ f.sub.ended = seen.sub.ended
      BY <1>3, <1>4, <1>14 DEF DunningOf
    <2> QED BY <1>7, <1>8, <1>10, <1>11, <1>12, <1>13, <1>14, <2>1 DEF seen
  <1>15. CASE seen.order.status # "paid" /\ seen.order.next # NoDate
    <2>1. order'.next = f.order.next
      BY <1>7, <1>8, <1>15
    <2>2. CASE f.order.next # NoDate /\ f.sub = q.sub
      <3>1. f.sub.status = seen.sub.status /\ f.sub.ended = seen.sub.ended
        BY <1>3, <2>2
      <3>2. sub'.status = sub.status /\ sub'.ended = sub.ended
        BY <1>7, <1>8, <1>15, <3>1
      <3> QED BY <1>10, <1>11, <1>12, <1>13, <1>15, <2>1, <2>2, <3>2 DEF seen
    <2>3. CASE /\ f.order.next = NoDate
               /\ f.sub = IF CanCancelImmediately(q.sub) THEN Revoked(q.sub) ELSE q.sub
      <3>1. CASE CanCancelImmediately(seen.sub)
        <4>1. f.sub.status = "canceled" /\ f.sub.ended = TRUE
          BY <1>5, <1>6, <2>3, <3>1
        <4>2. sub'.status = "canceled" /\ sub'.ended = TRUE
          BY <1>5, <1>7, <1>8, <1>15, <3>1, <4>1
        <4> QED BY <1>10, <1>11, <1>12, <1>13, <1>15, <2>1, <2>3, <3>1, <4>2 DEF seen
      <3>2. CASE ~CanCancelImmediately(seen.sub)
        <4>1. f.sub.status = seen.sub.status /\ f.sub.ended = seen.sub.ended
          BY <1>3, <1>5, <2>3, <3>2
        <4>2. sub'.status = sub.status /\ sub'.ended = sub.ended
          BY <1>7, <1>8, <1>15, <4>1
        <4> QED BY <1>10, <1>11, <1>12, <1>13, <1>15, <2>1, <2>3, <3>2, <4>2 DEF seen
      <3> QED BY <3>1, <3>2
    <2> QED BY <1>3, <1>4, <1>15, <2>2, <2>3 DEF DunningOf
  <1>16. CASE seen.order.status = "paid"
    <2>1. f.sub.status = seen.sub.status /\ f.sub.ended = seen.sub.ended
      BY <1>3, <1>4, <1>16 DEF DunningOf
    <2>2. sub'.status = sub.status /\ sub'.ended = sub.ended
      BY <1>7, <1>8, <1>16, <2>1
    <2>3. order'.next = order.next
      BY <1>3, <1>4, <1>7, <1>8, <1>16 DEF DunningOf
    <2> QED BY <1>10, <1>12, <1>13, <1>16, <2>2, <2>3 DEF seen
  <1> QED BY <1>14, <1>15, <1>16

(* What a commit writes, as a predicate to cite.                           *)
Written(w, new, flags) ==
  LET seen == task[w].seen
  IN /\ order'.status = IF new.order.status = seen.order.status /\ "status" \notin flags.order
                        THEN order.status ELSE new.order.status
     /\ order'.next = IF new.order.next = seen.order.next /\ "next" \notin flags.order
                      THEN order.next ELSE new.order.next
     /\ order'.lock = IF new.order.lock = seen.order.lock /\ "lock" \notin flags.order
                      THEN (IF Holds(w) THEN TRUE ELSE order.lock) ELSE new.order.lock
     /\ sub'.status = IF new.sub.status = seen.sub.status /\ "status" \notin flags.sub
                      THEN sub.status ELSE new.sub.status
     /\ sub'.ended = IF new.sub.ended = seen.sub.ended /\ "ended" \notin flags.sub
                     THEN sub.ended ELSE new.sub.ended
     /\ sub'.method = IF new.sub.method = seen.sub.method /\ "method" \notin flags.sub
                      THEN sub.method ELSE new.sub.method

LEMMA CommitWritten ==
  ASSUME TypeOK, NEW w \in Workers, NEW new, NEW flags, Commit(w, new, flags)
  PROVE  Written(w, new, flags)
  BY CommitFields DEF Written

(* A payment settles an order that was read as pending.                    *)
LEMMA PaysFields ==
  ASSUME TypeOK, HooksOK, NEW w \in Workers, Pays(w)
  PROVE  LET seen == task[w].seen
         IN /\ order'.status = IF seen.order.status = "pending" THEN "paid" ELSE order.status
            /\ order'.next \in {order.next, NoDate}
            /\ sub'.ended = sub.ended /\ sub'.method = sub.method
            /\ \/ sub'.status = sub.status
               \/ sub'.status = "active" /\ seen.sub.status = "past_due"
  <1>1. PICK r \in Rows :
          /\ r.order.status = task[w].seen.order.status /\ r.sub = task[w].seen.sub
          /\ Commit(w, HandlePayment(r), PaymentFlags(task[w].seen))
    <2>1. task[w].seen \in Rows /\ task[w].seen.order \in OrderRow
      BY SeenType
    <2>2. CASE PaidAtOnce(w)
      <3> DEFINE r == [task[w].seen EXCEPT !.order.ref = TRUE]
      <3>1. r.order = [task[w].seen.order EXCEPT !.ref = TRUE] /\ r.sub = task[w].seen.sub
        BY <2>1 DEF Rows
      <3>2. r.order.status = task[w].seen.order.status /\ r \in Rows
        BY <2>1, <3>1 DEF Rows, OrderRow
      <3>3. Commit(w, HandlePayment(r), PaymentFlags(task[w].seen))
        BY <2>2 DEF PaidAtOnce
      <3> QED BY <3>1, <3>2, <3>3
    <2>3. CASE HookSucceeded(w)
      BY <2>1, <2>3 DEF HookSucceeded
    <2> QED BY <2>2, <2>3 DEF Pays
  <1> DEFINE p == HandlePayment(r)
             flags == PaymentFlags(task[w].seen)
  <1>2. Written(w, p, flags)
    BY <1>1, CommitWritten
  <1>3. flags.order = {} /\ flags.sub \subseteq {"status", "dueLeft"}
    BY FlagsFields
  <1>4. /\ p.order.status = (IF r.order.status = "pending" THEN "paid" ELSE r.order.status)
        /\ p.order.next = NoDate
        /\ p.sub.ended = r.sub.ended /\ p.sub.method = r.sub.method
        /\ \/ p.sub.status = r.sub.status
           \/ p.sub.status = "active" /\ r.sub.status = "past_due"
    BY PaymentFields
  <1>9. flags.sub # {} => p.sub.status = "active" /\ r.sub.status = "past_due"
    <2>1. flags.sub # {} => r.order.status = "pending" /\ r.sub.status = "past_due"
      BY <1>1 DEF PaymentFlags, NoFlags
    <2>2. MarkActive(r.sub).status = "active"
      BY DEF MarkActive, Rows, SubRow
    <2> QED BY <2>1, <2>2 DEF HandlePayment
  <1> HIDE DEF p, flags
  <1>5. order'.status = IF task[w].seen.order.status = "pending" THEN "paid" ELSE order.status
    BY <1>1, <1>2, <1>3, <1>4 DEF Written
  <1>6. sub'.ended = sub.ended /\ sub'.method = sub.method
    BY <1>1, <1>2, <1>3, <1>4 DEF Written
  <1>7. order'.next \in {order.next, NoDate}
    BY <1>2, <1>4 DEF Written
  <1>8. \/ sub'.status = sub.status
        \/ sub'.status = "active" /\ r.sub.status = "past_due"
    <2>1. CASE flags.sub = {}
      BY <1>1, <1>2, <1>4, <2>1 DEF Written
    <2>2. CASE flags.sub # {}
      BY <1>2, <1>9, <2>2 DEF Written
    <2> QED BY <2>1, <2>2
  <1> QED BY <1>1, <1>5, <1>6, <1>7, <1>8

(* Flags that are read off NoFlags.                                        *)
LEMMA NoFlagsFields == NoFlags.order = {} /\ NoFlags.sub = {}
  BY DEF NoFlags

LEMMA ReleasesFields ==
  ASSUME TypeOK, HooksOK, HoldInv, NEW w \in Workers, Releases(w)
  PROVE  LET seen == task[w].seen
         IN /\ order'.status = order.status /\ order'.next = order.next
            /\ sub'.status = sub.status /\ sub'.ended = sub.ended /\ sub'.method = sub.method
            /\ seen.order.status # "paid" /\ order'.lock => order.lock /\ ~seen.order.lock
  <1> DEFINE seen == task[w].seen
  <1>1. seen \in Rows /\ seen.order \in OrderRow
    BY SeenType
  <1>2. PICK f : /\ (f = seen /\ seen.order.status = "paid") \/ f = ReleaseLock(seen)
                 /\ Commit(w, f, NoFlags)
    <2>1. CASE ChargeDeclined(w) \/ ManualEnd(w)
      BY <2>1 DEF ChargeDeclined, ManualEnd
    <2>2. CASE ManualFailed(w)
      <3> DEFINE c == task[w].charge
      <3>1. c \in Charges
        BY <2>2 DEF HooksOK, ManualFailed, HookFailed, Reading
      <3>2. Cardinality(RecordedFailures \cup {c}) \in Nat
        BY <3>1, FailuresType
      <3>3. charge[c].manual = TRUE
        BY <2>2, <3>1 DEF TypeOK, ChargeRow, ManualFailed
      <3>4. Commit(w, HandlePaymentFailure(seen, TRUE, Cardinality(RecordedFailures \cup {c}),
                        charge[c].state = "declined_hard"), NoFlags)
        BY <2>2, <3>3 DEF ManualFailed, HookFailed
      <3> QED BY <1>1, <3>2, <3>4, SkippedFields
    <2> QED BY <2>1, <2>2 DEF Releases
  <1>3. Written(w, f, NoFlags)
    BY <1>2, CommitWritten
  <1>4. /\ f.sub = seen.sub /\ f.order.status = seen.order.status
        /\ f.order.next = seen.order.next
        /\ seen.order.status # "paid" => f.order.lock = FALSE
    BY <1>1, <1>2, ReleaseFields
  <1>5. Holds(w) => seen.order.lock = TRUE
    BY DEF Holds, HoldInv
  <1>6. seen.order.lock \in BOOLEAN
    BY <1>1 DEF OrderRow
  <1>7. order'.status = order.status /\ order'.next = order.next
    BY <1>3, <1>4, NoFlagsFields DEF Written
  <1>8. sub'.status = sub.status /\ sub'.ended = sub.ended /\ sub'.method = sub.method
    BY <1>3, <1>4, NoFlagsFields DEF Written
  <1>9. order'.lock = IF f.order.lock = seen.order.lock
                      THEN (IF Holds(w) THEN TRUE ELSE order.lock) ELSE f.order.lock
    BY <1>3, NoFlagsFields DEF Written
  <1> HIDE DEF seen
  <1>10. seen.order.status # "paid" /\ order'.lock => order.lock /\ ~seen.order.lock
    BY <1>4, <1>5, <1>6, <1>9
  <1> QED BY <1>7, <1>8, <1>10 DEF seen

LEMMA KeepFields ==
  ASSUME TypeOK, HoldInv, NEW w \in Workers, KeepLock(w)
  PROVE  /\ order'.status = order.status /\ order'.next = order.next /\ order'.lock = TRUE
         /\ sub'.status = sub.status /\ sub'.ended = sub.ended /\ sub'.method = sub.method
  <1>1. Written(w, task[w].seen, NoFlags)
    BY CommitWritten DEF KeepLock
  <1>2. Holds(w)
    BY DEF Holds, HoldInv, KeepLock, Charged
  <1> QED BY <1>1, <1>2, NoFlagsFields DEF Written

LEMMA CreditFields ==
  ASSUME TypeOK, NEW w \in Workers, TriggerCredit(w)
  PROVE  /\ order'.status = "paid" /\ order'.next = order.next
         /\ sub'.status = sub.status /\ sub'.ended = sub.ended /\ sub'.method = sub.method
  <1> DEFINE seen == task[w].seen
             f == [seen EXCEPT !.order.status = "paid"]
  <1>1. seen \in Rows /\ seen.order \in OrderRow /\ seen.order.status = "pending"
    BY SeenType DEF TriggerCredit, MayCharge
  <1>2. f.sub = seen.sub /\ f.order.status = "paid" /\ f.order.next = seen.order.next
    BY <1>1 DEF Rows, OrderRow
  <1>3. Commit(w, f, NoFlags)
    BY DEF TriggerCredit
  <1> HIDE DEF f
  <1>4. Written(w, f, NoFlags)
    BY <1>3, CommitWritten
  <1> QED BY <1>1, <1>2, <1>4, NoFlagsFields DEF Written

LEMMA VoidFields ==
  ASSUME TypeOK, NEW w \in Workers, VoidCommit(w)
  PROVE  /\ order'.status = "void" \/ (task[w].seen.order.status = "void"
                                        /\ order'.status = order.status)
         /\ order'.next = order.next
         /\ sub'.status = sub.status /\ sub'.ended = sub.ended /\ sub'.method = sub.method
  <1> DEFINE seen == task[w].seen
             f == [seen EXCEPT !.order.status = "void"]
  <1>1. seen \in Rows /\ seen.order \in OrderRow
    BY SeenType
  <1>2. f.sub = seen.sub /\ f.order.status = "void" /\ f.order.next = seen.order.next
    BY <1>1 DEF Rows, OrderRow
  <1>3. Commit(w, f, NoFlags)
    BY DEF VoidCommit
  <1> HIDE DEF f
  <1>4. Written(w, f, NoFlags)
    BY <1>3, CommitWritten
  <1> QED BY <1>2, <1>4, NoFlagsFields DEF Written

LEMMA CanceledFields ==
  ASSUME TypeOK, HoldInv, NEW w \in Workers, DunningCanceled(w)
  PROVE  /\ order'.status = order.status /\ order'.next = NoDate /\ order'.lock = order.lock
         /\ sub'.status = sub.status /\ sub'.ended = sub.ended /\ sub'.method = sub.method
  <1> DEFINE seen == task[w].seen
             f == [seen EXCEPT !.order.next = NoDate]
             flags == [NoFlags EXCEPT !.order = {"next"}]
  <1>1. seen \in Rows /\ seen.order \in OrderRow
    BY SeenType
  <1>2. /\ f.sub = seen.sub /\ f.order.status = seen.order.status
        /\ f.order.lock = seen.order.lock /\ f.order.next = NoDate
    BY <1>1 DEF Rows, OrderRow
  <1>3. flags.order = {"next"} /\ flags.sub = {}
    BY DEF NoFlags
  <1>4. Commit(w, f, flags)
    BY DEF DunningCanceled
  <1>5. ~Holds(w)
    BY DEF Holds, HoldInv, DunningCanceled, Reading
  <1> HIDE DEF f, flags
  <1>6. Written(w, f, flags)
    BY <1>4, CommitWritten
  <1> QED BY <1>2, <1>3, <1>5, <1>6 DEF Written

-----------------------------------------------------------------------------
(* What the ends of the tasks do to the charges and the queues.            *)

Settles(w) ==
  \A d \in Charges :
    /\ charge'[d].state = charge[d].state /\ charge'[d].manual = charge[d].manual
    /\ \/ charge'[d].hook = charge[d].hook
       \/ task[w].kind = "hook" /\ task[w].charge = d /\ charge'[d].hook \in {"done", "dead"}

LEMMA EndsCharge ==
  ASSUME TypeOK, HooksOK, NEW w \in Workers, Ends(w)
  PROVE  Settles(w) /\ (task[w].kind # "hook" => charge' = charge)
  <1>1. ASSUME NEW again \in BOOLEAN, Rollback(w, again)
        PROVE  Settles(w) /\ (task[w].kind # "hook" => charge' = charge)
    <2>1. task[w].kind = "hook" => task[w].charge \in Charges
      BY DEF HooksOK
    <2> QED BY <1>1, <2>1 DEF Rollback, Settles, TypeOK, ChargeRow
  <1>2. ASSUME charge' = charge PROVE Settles(w)
    BY <1>2 DEF Settles
  <1>3. CASE HookSucceeded(w) \/ HookFailed(w)
    <2>1. task[w].kind = "hook" /\ task[w].charge \in Charges
      BY <1>3 DEF HookSucceeded, HookFailed, Reading, HooksOK
    <2>2. charge' = [charge EXCEPT ![task[w].charge].hook = "done"]
      BY <1>3 DEF HookSucceeded, HookFailed, HookDone
    <2>3. Settles(w)
      BY <2>1, <2>2 DEF Settles, TypeOK, ChargeRow
    <2> QED BY <2>1, <2>3
  <1>4. CASE TriggerRefused(w) \/ LockRefused(w) \/ HookRefused(w) \/ Crash(w)
    <2>1. \E again \in BOOLEAN : Rollback(w, again)
      BY <1>4 DEF TriggerRefused, LockRefused, HookRefused, Crash, Raise
    <2> QED BY <1>1, <2>1
  <1>5. CASE Fails(w) /\ ~HookFailed(w)
    BY <1>2, <1>5 DEF Fails, TriggerWithoutMethod, DunningWithoutMethod, ChargeInvalid
  <1>6. CASE PaidAtOnce(w) \/ ChargeDeclined(w) \/ ManualEnd(w) \/ KeepLock(w) \/ TriggerCredit(w)
             \/ DunningCanceled(w) \/ VoidCommit(w) \/ TriggerSkipped(w) \/ DunningTriggers(w)
    BY <1>2, <1>6 DEF PaidAtOnce, ChargeDeclined, ManualEnd, KeepLock, TriggerCredit,
       DunningCanceled, VoidCommit, TriggerSkipped, DunningTriggers
  <1> QED BY <1>3, <1>4, <1>5, <1>6, EndCases DEF Leaves, Fails, Pays, Releases, ManualFailed

(* A task of order.trigger_payment or order.process_dunning_order.         *)
Busy(w) == task[w].step # "idle" /\ task[w].kind \in {"trigger", "dunning"}

LEMMA EndsMessages ==
  ASSUME TypeOK, NEW w \in Workers, Ends(w)
  PROVE  \/ triggers' = triggers /\ dunnings' = dunnings
         \/ Busy(w) /\ triggers' = triggers + 1 /\ dunnings' = dunnings
         \/ Busy(w) /\ triggers' = triggers /\ dunnings' = dunnings + 1
  <1>1. task[w].step # "idle"
    BY EndsEnd
  <1>2. ASSUME NEW again \in BOOLEAN, Rollback(w, again)
        PROVE  \/ triggers' = triggers /\ dunnings' = dunnings
               \/ Busy(w) /\ triggers' = triggers + 1 /\ dunnings' = dunnings
               \/ Busy(w) /\ triggers' = triggers /\ dunnings' = dunnings + 1
    BY <1>1, <1>2 DEF Rollback, Busy
  <1>3. CASE TriggerRefused(w) \/ LockRefused(w) \/ HookRefused(w) \/ Crash(w)
    <2>1. \E again \in BOOLEAN : Rollback(w, again)
      BY <1>3 DEF TriggerRefused, LockRefused, HookRefused, Crash, Raise
    <2> QED BY <1>2, <2>1
  <1>4. CASE DunningTriggers(w)
    BY <1>1, <1>4 DEF DunningTriggers, Reading, Busy
  <1>5. CASE Fails(w) \/ Pays(w) \/ Releases(w) \/ KeepLock(w) \/ TriggerCredit(w)
             \/ DunningCanceled(w) \/ VoidCommit(w) \/ TriggerSkipped(w)
    BY <1>5 DEF Fails, Pays, Releases, ManualFailed, TriggerWithoutMethod, DunningWithoutMethod,
       ChargeInvalid, HookFailed, PaidAtOnce, HookSucceeded, ChargeDeclined, ManualEnd, KeepLock,
       TriggerCredit, DunningCanceled, VoidCommit, TriggerSkipped
  <1> QED BY <1>3, <1>4, <1>5, EndCases DEF Leaves

(* An order that was read as paid or void has become so for good.          *)
SeenInv ==
  \A w \in Workers :
    task[w].step # "idle" /\ task[w].seen.order.status # "pending" => order.status # "pending"

LEMMA EndsStatus ==
  ASSUME TypeOK, HooksOK, HoldInv, NEW w \in Workers, Ends(w)
  PROVE  order.status # "pending" => order'.status # "pending"
  BY EndCases, LeaveFields, FailsFields, PaysFields, ReleasesFields, KeepFields, CreditFields,
     CanceledFields, VoidFields

LEMMA StatusKept ==
  ASSUME TypeOK, HooksOK, HoldInv, [Next]_vars
  PROVE  order.status # "pending" => order'.status # "pending"
  BY StepCases, OutsideFields, BeginFields, AcquireFields, ChargeFields, InvalidFields, EndsStatus

LEMMA SeenInit == Init => SeenInv
  BY DEF Init, SeenInv, Idle

LEMMA SeenStep == TypeOK /\ HooksOK /\ HoldInv /\ SeenInv /\ [Next]_vars => SeenInv'
  <1> SUFFICES ASSUME TypeOK, HooksOK, HoldInv, SeenInv, [Next]_vars PROVE SeenInv'
    OBVIOUS
  <1>1. order.status # "pending" => order'.status # "pending"
    BY StatusKept
  <1>2. CASE Outside
    BY <1>1, <1>2, OutsideFields DEF SeenInv
  <1>3. ASSUME NEW w \in Workers, Begins(w) PROVE SeenInv'
    BY <1>1, <1>3, BeginFields DEF SeenInv, Others
  <1>4. ASSUME NEW w \in Workers, AcquireLock(w) PROVE SeenInv'
    BY ZenonT(60), <1>1, <1>4, AcquireFields DEF SeenInv, Others
  <1>5. ASSUME NEW w \in Workers, CreateCharge(w) PROVE SeenInv'
    BY <1>1, <1>5, ChargeFields DEF SeenInv, Others
  <1>6. ASSUME NEW w \in Workers, CreateChargeInvalid(w) PROVE SeenInv'
    BY <1>1, <1>6, InvalidFields DEF SeenInv, Others
  <1>7. ASSUME NEW w \in Workers, Ends(w) PROVE SeenInv'
    BY <1>1, <1>7, EndsEnd, EndFields DEF SeenInv, Others
  <1> QED BY <1>2, <1>3, <1>4, <1>5, <1>6, <1>7, StepCases

-----------------------------------------------------------------------------
(* LockHasCharge.  The committed lock, and a task that is about to commit  *)
(* it, have a charge whose webhook is still to come; a webhook that has    *)
(* read the row before the lock was set reports a success, which ends the  *)
(* order's being pending.                                                  *)

SettlingInv ==
  \A c \in Charges :
    charge[c].state = "processing" => charge[c].hook = "none" /\ "processing" \in environment

AwaitedBy(c) ==
  /\ charge[c].state = "processing" \/ charge[c].hook = "pending"
  /\ \A w \in Workers : task[w].kind = "hook" /\ task[w].charge = c =>
       charge[c].state = "succeeded" \/ task[w].seen.order.lock

Promised(w) ==
  task[w].step = "charged" /\ task[w].result \in {"succeeded", "processing"}
  /\ Processor = "stripe" =>
    \E c \in Charges :
      /\ task[w].charge = c /\ AwaitedBy(c)
      /\ task[w].result = "succeeded" => charge[c].state = "succeeded"
      /\ task[w].result = "processing" => "processing" \in environment

LockInv ==
  ~({"early_hook", "processing"} \subseteq environment) /\ order.status = "pending" =>
    /\ order.lock => \E c \in Charges : AwaitedBy(c)
    /\ \A w \in Workers : Promised(w)

LEMMA SettleFields ==
  ASSUME TypeOK, NEW c \in Charges, SettleCharge(c)
  PROVE  /\ charge[c].state = "processing" /\ charge'[c].state \in {"succeeded", "declined"}
         /\ charge'[c].hook = "pending" /\ charge'[c].manual = charge[c].manual
         /\ \A d \in Charges : d # c => charge'[d] = charge[d]
         /\ order' = order /\ sub' = sub /\ task' = task
         /\ triggers' = triggers /\ dunnings' = dunnings
  <1>1. PICK outcome \in {"succeeded", "declined"} :
          charge' = [charge EXCEPT ![c] = [@ EXCEPT !.state = outcome, !.hook = "pending"]]
    BY DEF SettleCharge, TypeOK, ChargeRow
  <1>2. charge[c] \in ChargeRow
    BY DEF TypeOK
  <1>3. charge'[c] = [charge[c] EXCEPT !.state = outcome, !.hook = "pending"]
        /\ \A d \in Charges : d # c => charge'[d] = charge[d]
    BY <1>1 DEF TypeOK
  <1>4. /\ charge'[c].state = outcome /\ charge'[c].hook = "pending"
        /\ charge'[c].manual = charge[c].manual
    BY <1>2, <1>3 DEF ChargeRow
  <1> QED BY <1>3, <1>4 DEF SettleCharge

LEMMA SettlingInit == Init => SettlingInv
  BY DEF Init, SettlingInv

LEMMA SettlingStep == TypeOK /\ HooksOK /\ SettlingInv /\ [Next]_vars => SettlingInv'
  <1> SUFFICES ASSUME TypeOK, HooksOK, SettlingInv, [Next]_vars PROVE SettlingInv'
    OBVIOUS
  <1>1. ASSUME NEW c \in Charges, SettleCharge(c) PROVE SettlingInv'
    BY ZenonT(60), <1>1, SettleFields DEF SettlingInv, SettleCharge
  <1>2. CASE Outside
    BY <1>1, <1>2 DEF Outside, Cron, Revoke, RemoveMethod, AddMethod, SetBlocked, Tick, vars,
       SettlingInv
  <1>3. ASSUME NEW w \in Workers, Begins(w) \/ AcquireLock(w) \/ CreateChargeInvalid(w)
        PROVE SettlingInv'
    <2>1. charge' = charge /\ environment' = environment
      BY <1>3, BeginFields, AcquireFields, InvalidFields
    <2> QED BY <2>1 DEF SettlingInv
  <1>4. ASSUME NEW w \in Workers, CreateCharge(w) PROVE SettlingInv'
    <2>1. "processing" \in Outcomes(w) => Processor # "paystack" /\ "processing" \in environment
      BY DEF Outcomes
    <2> QED BY <1>4, <2>1, ChargeFields DEF SettlingInv
  <1>5. ASSUME NEW w \in Workers, Ends(w) PROVE SettlingInv'
    BY <1>5, EndsCharge, EndsEnd DEF SettlingInv, Settles, HooksOK
  <1> QED BY <1>2, <1>3, <1>4, <1>5, StepCases

(* An order is created pending and unlocked.  Without a payment method its *)
(* payment has failed already.                                             *)
LEMMA InitFields ==
  ASSUME Init
  PROVE  /\ order.status = "pending" /\ order.lock = FALSE
         /\ triggers \in {0, 1} /\ (~sub.method => triggers = 0)
         /\ sub.status = "canceled" =>
              "final_order" \in environment /\ sub.ended /\ order.next = NoDate
         /\ sub.ended => sub.status = "canceled"
         /\ sub.status = "past_due" => order.next # NoDate
  <1>1. PICK s \in NewSubs, small \in BOOLEAN :
          LET new == [order |-> [Unread.order EXCEPT !.small = small], sub |-> s]
              rows == IF s.method THEN new
                      ELSE HandlePaymentFailure(new, FALSE, 0, FALSE)
          IN /\ order = rows.order /\ sub = rows.sub
             /\ triggers \in (IF ~s.method THEN {0}
                              ELSE IF "lost_job" \in environment THEN {0, 1} ELSE {1})
    BY DEF Init
  <1> DEFINE new == [order |-> [Unread.order EXCEPT !.small = small], sub |-> s]
  <1>2. /\ new \in Rows /\ new.order.status = "pending" /\ new.order.next = NoDate
        /\ new.order.lock = FALSE /\ new.sub = s
    <2>1. s \in SubRow
      <3>1. Unread.sub \in SubRow
        BY UnreadType DEF Rows
      <3> QED BY <3>1 DEF NewSubs, SubRow
    <2>2. [Unread.order EXCEPT !.small = small] \in OrderRow
      BY DEF OrderRow, Unread
    <2>3. /\ [Unread.order EXCEPT !.small = small].status = "pending"
          /\ [Unread.order EXCEPT !.small = small].next = NoDate
          /\ [Unread.order EXCEPT !.small = small].lock = FALSE
      BY DEF Unread
    <2> QED BY <2>1, <2>2, <2>3 DEF Rows
  <1>3. \/ s.method /\ s.status = "active" /\ s.ended = FALSE
        \/ s.method = FALSE /\ s.status = "active" /\ s.ended = FALSE
        \/ s.method /\ s.status = "canceled" /\ s.ended = TRUE /\ "final_order" \in environment
    <2>1. \/ s = Unread.sub \/ s = [Unread.sub EXCEPT !.method = FALSE]
          \/ /\ s = [Unread.sub EXCEPT !.status = "canceled", !.ended = TRUE]
             /\ "final_order" \in environment
      BY DEF NewSubs
    <2>2. Unread.sub = [status |-> "active", dueLeft |-> NoDate, ended |-> FALSE, method |-> TRUE]
      BY DEF Unread
    <2>3. CASE s = Unread.sub
      BY <2>2, <2>3
    <2>4. CASE s = [Unread.sub EXCEPT !.method = FALSE]
      BY <2>2, <2>4
    <2>5. CASE /\ s = [Unread.sub EXCEPT !.status = "canceled", !.ended = TRUE]
               /\ "final_order" \in environment
      BY <2>2, <2>5
    <2> QED BY <2>1, <2>3, <2>4, <2>5
  <1>4. CASE s.method
    <2>1. order = new.order /\ sub = s /\ triggers \in {0, 1}
      BY <1>1, <1>4
    <2> HIDE DEF new
    <2> QED BY <1>2, <1>3, <1>4, <2>1
  <1>5. CASE ~s.method
    <2> DEFINE f == HandlePaymentFailure(new, FALSE, 0, FALSE)
    <2>1. order = f.order /\ sub = f.sub /\ triggers = 0
      BY <1>1, <1>5
    <2> HIDE DEF new
    <2>2. DunningOf(new, f)
      BY <1>2, DunningFields
    <2> HIDE DEF f
    <2>3. /\ f.order.status = "pending" /\ f.order.lock = FALSE /\ f.order.next # NoDate
          /\ f.sub.status = "past_due" /\ f.sub.ended = FALSE
      BY <1>2, <1>3, <1>5, <2>2 DEF DunningOf
    <2> QED BY <2>1, <2>3
  <1> QED BY <1>4, <1>5

LEMMA LockInit == Init => LockInv
  <1> SUFFICES ASSUME Init PROVE LockInv
    OBVIOUS
  <1>1. \A w \in Workers : task[w].step = "idle"
    BY DEF Init, Idle
  <1> QED BY <1>1, InitFields DEF LockInv, Promised

(* An end of a task leaves a charge awaited, unless it handles a failure.  *)
LEMMA AwaitedKept ==
  ASSUME TypeOK, HooksOK, HoldInv, SeenInv, NEW w \in Workers, Ends(w),
         NEW c \in Charges, AwaitedBy(c), order'.status = "pending",
         ~(HookFailed(w) /\ task[w].charge = c)
  PROVE  AwaitedBy(c)'
  <1>1. Settles(w) /\ Others(w) /\ task'[w].kind = "trigger"
    BY EndsCharge, EndsEnd, EndFields
  <1>2. order.status = "pending" /\ task[w].seen.order.status = "pending"
    <2>1. order.status = "pending"
      BY EndsStatus
    <2> QED BY <2>1, EndsEnd DEF SeenInv
  <1>3. charge'[c].hook = charge[c].hook
    <2>1. CASE HookRefused(w)
      BY <1>2, <2>1 DEF HookRefused
    <2>2. CASE HookSucceeded(w)
      BY <1>2, <2>2, PaysFields DEF Pays
    <2>3. CASE Crash(w)
      BY <2>3 DEF Crash, Rollback
    <2>4. CASE HookFailed(w)
      BY <1>1, <2>4 DEF Settles
    <2>5. CASE task[w].kind # "hook"
      BY <1>1, <2>5 DEF Settles
    <2>6. task[w].kind = "hook" => HookRefused(w) \/ HookSucceeded(w) \/ Crash(w) \/ HookFailed(w)
      BY EndCases DEF Leaves, Fails, Pays, Releases, ManualFailed, TriggerRefused, TriggerSkipped,
         LockRefused, WantsLock, DunningTriggers, TriggerWithoutMethod, DunningWithoutMethod,
         ChargeInvalid, PaidAtOnce, ChargeDeclined, ManualEnd, KeepLock, TriggerCredit,
         DunningCanceled, VoidCommit, Reading, Charged, HoldInv
    <2> QED BY <2>1, <2>2, <2>3, <2>4, <2>5, <2>6
  <1>4. charge'[c].state = charge[c].state
    BY <1>1 DEF Settles
  <1>5. \A v \in Workers : task'[v].kind = "hook" => v # w /\ task'[v] = task[v]
    BY <1>1 DEF Others
  <1> QED BY <1>3, <1>4, <1>5 DEF AwaitedBy

(* Only a task that keeps the lock leaves it set.                          *)
LEMMA LockKept ==
  ASSUME TypeOK, HooksOK, HoldInv, SeenInv, NEW w \in Workers, Ends(w),
         order'.status = "pending", order'.lock, ~KeepLock(w)
  PROVE  order.lock /\ (HookFailed(w) => ~task[w].seen.order.lock)
  <1>1. order.status = "pending" /\ task[w].seen.order.status = "pending"
    <2>1. order.status = "pending"
      BY EndsStatus
    <2> QED BY <2>1, EndsEnd DEF SeenInv
  <1>2. HookFailed(w) => Fails(w) \/ Releases(w)
    BY DEF Fails, Releases, ManualFailed
  <1>3. CASE Fails(w)
    BY <1>1, <1>3, FailsFields
  <1>4. CASE Releases(w)
    BY <1>1, <1>4, ReleasesFields
  <1>5. CASE ~Fails(w) /\ ~Releases(w)
    BY <1>1, <1>2, <1>5, EndCases, LeaveFields, PaysFields, CreditFields, CanceledFields, VoidFields
  <1> QED BY <1>3, <1>4, <1>5

LEMMA LockStep ==
  TypeOK /\ HooksOK /\ HoldInv /\ SeenInv /\ SettlingInv /\ LockInv /\ [Next]_vars => LockInv'
  <1> SUFFICES ASSUME TypeOK, HooksOK, HoldInv, SeenInv, SettlingInv, LockInv, [Next]_vars,
                      ~({"early_hook", "processing"} \subseteq environment)',
                      order'.status = "pending"
               PROVE  /\ order'.lock => \E c \in Charges : AwaitedBy(c)'
                      /\ \A w \in Workers : Promised(w)'
    BY DEF LockInv
  <1>1. environment' = environment /\ Processor' = Processor
    BY SameProcessor, StepCases, OutsideFields, BeginFields, AcquireFields, ChargeFields,
       InvalidFields, EndsEnd
  <1>2. /\ order.lock => \E c \in Charges : AwaitedBy(c)
        /\ \A w \in Workers : Promised(w)
    BY <1>1, StatusKept DEF LockInv
  <1>3. ASSUME charge' = charge, task' = task, order'.lock = order.lock
        PROVE  /\ order'.lock => \E c \in Charges : AwaitedBy(c)'
               /\ \A w \in Workers : Promised(w)'
    <2>1. \A c \in Charges : AwaitedBy(c) => AwaitedBy(c)'
      BY <1>3 DEF AwaitedBy
    <2>2. ASSUME NEW w \in Workers PROVE Promised(w)'
      BY <1>1, <1>2, <1>3, <2>1 DEF Promised
    <2> QED BY <1>2, <1>3, <2>1, <2>2
  <1>4. ASSUME NEW c \in Charges, SettleCharge(c)
        PROVE  /\ order'.lock => \E d \in Charges : AwaitedBy(d)'
               /\ \A w \in Workers : Promised(w)'
    <2>1. \A w \in Workers : ~(task[w].kind = "hook" /\ task[w].charge = c)
      BY <1>4, SettleFields DEF SettlingInv, HooksOK
    <2>2. ASSUME NEW d \in Charges, AwaitedBy(d) PROVE AwaitedBy(d)'
      BY <1>4, <2>1, <2>2, SettleFields DEF AwaitedBy
    <2>3. ASSUME NEW d \in Charges, charge[d].state = "succeeded"
          PROVE  charge'[d].state = "succeeded"
      BY <1>4, <2>3, SettleFields
    <2>4. ASSUME NEW w \in Workers PROVE Promised(w)'
      <3>1. task' = task
        BY <1>4, SettleFields
      <3> QED BY <1>1, <1>2, <2>2, <2>3, <3>1 DEF Promised
    <2> QED BY <1>2, <1>4, <2>2, <2>4, SettleFields
  <1>5. ASSUME NEW w \in Workers, Begins(w)
        PROVE  /\ order'.lock => \E c \in Charges : AwaitedBy(c)'
               /\ \A v \in Workers : Promised(v)'
    <2>1. /\ Others(w) /\ task'[w].step = "read" /\ task'[w].seen.order = order
          /\ order' = order /\ charge' = charge
      BY <1>5, BeginFields
    <2>2. ASSUME NEW c \in Charges, AwaitedBy(c),
                 task'[w].kind = "hook" /\ task'[w].charge = c =>
                   charge[c].state = "succeeded" \/ order.lock
          PROVE  AwaitedBy(c)'
      BY <2>1, <2>2 DEF AwaitedBy, Others
    <2>3. ASSUME NEW v \in Workers PROVE Promised(v)'
      <3> SUFFICES ASSUME task'[v].step = "charged",
                          task'[v].result \in {"succeeded", "processing"}, Processor = "stripe"
                   PROVE  \E c \in Charges :
                            /\ task'[v].charge = c /\ AwaitedBy(c)'
                            /\ task'[v].result = "succeeded" => charge'[c].state = "succeeded"
                            /\ task'[v].result = "processing" => "processing" \in environment'
        BY <1>1 DEF Promised
      <3>1. v # w /\ task'[v] = task[v]
        BY <2>1 DEF Others
      <3>2. PICK c \in Charges :
              /\ task[v].charge = c /\ AwaitedBy(c)
              /\ task[v].result = "succeeded" => charge[c].state = "succeeded"
              /\ task[v].result = "processing" => "processing" \in environment
        BY <1>2, <3>1 DEF Promised
      <3>3. task'[w].kind = "hook" /\ task'[w].charge = c => "early_hook" \in environment
        <4>1. ASSUME task'[w].kind = "hook", task'[w].charge = c PROVE HookBegin(w, c)
          <5>1. ASSUME NEW d \in Charges, HookBegin(w, d) PROVE task'[w].charge = d
            BY <5>1 DEF HookBegin, Begin, TypeOK
          <5>2. PICK d \in Charges : HookBegin(w, d)
            BY <1>5, <3>2, <4>1, BeginFields
          <5> QED BY <4>1, <5>1, <5>2
        <4> QED BY <3>2, <4>1 DEF HookBegin
      <3>4. task'[w].kind = "hook" /\ task'[w].charge = c => charge[c].state = "succeeded"
        BY <1>1, <3>1, <3>2, <3>3
      <3>5. AwaitedBy(c)'
        BY <2>2, <3>2, <3>4
      <3> QED BY <1>1, <2>1, <3>1, <3>2, <3>5
    <2> QED BY <1>2, <2>1, <2>2, <2>3
  <1>6. ASSUME NEW w \in Workers, AcquireLock(w) \/ CreateChargeInvalid(w)
        PROVE  /\ order'.lock => \E c \in Charges : AwaitedBy(c)'
               /\ \A v \in Workers : Promised(v)'
    <2>1. /\ Others(w) /\ task[w].kind \in {"trigger", "manual"} /\ task'[w].kind = task[w].kind
          /\ task'[w].step # "charged" \/ task'[w].result = "invalid"
          /\ order' = order /\ charge' = charge
      BY <1>6, AcquireFields, InvalidFields DEF HoldInv
    <2>2. ASSUME NEW c \in Charges, AwaitedBy(c) PROVE AwaitedBy(c)'
      BY <2>1, <2>2 DEF AwaitedBy, Others
    <2>3. ASSUME NEW v \in Workers PROVE Promised(v)'
      <3>1. CASE v = w
        BY <2>1, <3>1 DEF Promised
      <3>2. CASE v # w
        BY <1>1, <1>2, <2>1, <2>2, <3>2 DEF Promised, Others
      <3> QED BY <3>1, <3>2
    <2> QED BY <1>2, <2>1, <2>2, <2>3
  <1>7. ASSUME NEW w \in Workers, CreateCharge(w)
        PROVE  /\ order'.lock => \E c \in Charges : AwaitedBy(c)'
               /\ \A v \in Workers : Promised(v)'
    <2>1. /\ Others(w) /\ task[w].step = "locked" /\ task'[w].kind = task[w].kind
          /\ order' = order /\ task[w].kind \in {"trigger", "manual"}
      BY <1>7, ChargeFields DEF HoldInv
    <2>2. PICK c \in Charges :
            /\ charge[c].state = "unused" /\ task'[w].charge = c
            /\ \A d \in Charges : d # c => charge'[d] = charge[d]
            /\ charge'[c].state = task'[w].result
            /\ task'[w].result \in Outcomes(w)
            /\ charge'[c].hook = (IF Processor = "paystack" THEN "done"
                                  ELSE IF task'[w].result = "processing" THEN "none"
                                  ELSE "pending")
      BY <1>7, ChargeFields
    <2>3. charge[c].hook = "none" /\ \A v \in Workers : ~(task[v].kind = "hook" /\ task[v].charge = c)
      BY <2>2 DEF HooksOK
    <2>4. ASSUME NEW d \in Charges, AwaitedBy(d) PROVE d # c /\ AwaitedBy(d)'
      <3>1. d # c
        BY <2>2, <2>3, <2>4 DEF AwaitedBy
      <3> QED BY <2>1, <2>2, <2>4, <3>1 DEF AwaitedBy, Others
    <2>5. ASSUME NEW v \in Workers, v # w PROVE Promised(v)'
      <3>1. task'[v] = task[v]
        BY <2>1, <2>5 DEF Others
      <3>2. ASSUME NEW d \in Charges, AwaitedBy(d) PROVE charge'[d] = charge[d]
        BY <2>2, <2>4, <3>2
      <3> QED BY <1>1, <1>2, <2>4, <3>1, <3>2 DEF Promised
    <2>6. Promised(w)'
      <3> SUFFICES ASSUME task'[w].result \in {"succeeded", "processing"}, Processor = "stripe"
                   PROVE  /\ AwaitedBy(c)'
                          /\ task'[w].result = "succeeded" => charge'[c].state = "succeeded"
                          /\ task'[w].result = "processing" => "processing" \in environment
        BY <1>1, <2>2 DEF Promised
      <3>1. charge'[c].state = "processing" \/ charge'[c].hook = "pending"
        BY <2>2
      <3>2. \A v \in Workers : ~(task'[v].kind = "hook" /\ task'[v].charge = c)
        BY <2>1, <2>3 DEF Others
      <3>3. task'[w].result = "processing" => "processing" \in environment
        BY <2>2 DEF Outcomes
      <3> QED BY <2>2, <3>1, <3>2, <3>3 DEF AwaitedBy
    <2> QED BY <1>2, <2>1, <2>4, <2>5, <2>6
  <1>8. ASSUME NEW w \in Workers, Ends(w)
        PROVE  /\ order'.lock => \E c \in Charges : AwaitedBy(c)'
               /\ \A v \in Workers : Promised(v)'
    <2>1. Others(w) /\ task'[w].step = "idle" /\ Settles(w)
      BY <1>8, EndsEnd, EndFields, EndsCharge
    <2>2. ASSUME NEW v \in Workers PROVE Promised(v)'
      <3> SUFFICES ASSUME task'[v].step = "charged",
                          task'[v].result \in {"succeeded", "processing"}, Processor = "stripe"
                   PROVE  \E c \in Charges :
                            /\ task'[v].charge = c /\ AwaitedBy(c)'
                            /\ task'[v].result = "succeeded" => charge'[c].state = "succeeded"
                            /\ task'[v].result = "processing" => "processing" \in environment'
        BY <1>1 DEF Promised
      <3>1. v # w /\ task'[v] = task[v]
        BY <2>1 DEF Others
      <3>2. PICK c \in Charges :
              /\ task[v].charge = c /\ AwaitedBy(c)
              /\ task[v].result = "succeeded" => charge[c].state = "succeeded"
              /\ task[v].result = "processing" => "processing" \in environment
        BY <1>2, <3>1 DEF Promised
      <3>3. rowLock = v
        BY <3>1 DEF HoldInv
      <3>4. ~HookFailed(w)
        BY <3>1, <3>3 DEF HookFailed, Commit
      <3>5. AwaitedBy(c)'
        BY <1>8, <3>2, <3>4, AwaitedKept
      <3>6. charge'[c].state = charge[c].state
        BY <2>1, <3>2 DEF Settles
      <3> QED BY <1>1, <3>1, <3>2, <3>5, <3>6
    <2>3. ASSUME order'.lock PROVE \E c \in Charges : AwaitedBy(c)'
      <3>1. CASE KeepLock(w)
        <4>1. /\ task[w].step = "charged" /\ task[w].result \in {"succeeded", "processing"}
              /\ Processor = "stripe"
          BY <3>1 DEF KeepLock, Charged
        <4>2. PICK c \in Charges : AwaitedBy(c)
          BY <1>2, <4>1 DEF Promised
        <4>3. ~HookFailed(w)
          BY <4>1 DEF HookFailed, Reading
        <4> QED BY <1>8, <4>2, <4>3, AwaitedKept
      <3>2. CASE ~KeepLock(w)
        <4>1. order.lock /\ (HookFailed(w) => ~task[w].seen.order.lock)
          BY <1>8, <2>3, <3>2, LockKept
        <4>2. PICK c \in Charges : AwaitedBy(c)
          BY <1>2, <4>1
        <4>3. ~(HookFailed(w) /\ task[w].charge = c)
          BY <4>1, <4>2 DEF AwaitedBy, HookFailed, Reading, Failed
        <4> QED BY <1>8, <4>2, <4>3, AwaitedKept
      <3> QED BY <3>1, <3>2
    <2> QED BY <2>2, <2>3
  <1>9. CASE Outside
    <2>1. CASE \E c \in Charges : SettleCharge(c)
      BY <1>4, <2>1
    <2>2. CASE ~\E c \in Charges : SettleCharge(c)
      <3>1. charge' = charge
        BY <1>9, <2>2 DEF Outside, Cron, Revoke, RemoveMethod, AddMethod, SetBlocked, Tick, vars
      <3> QED BY <1>3, <1>9, <3>1, OutsideFields
    <2> QED BY <2>1, <2>2
  <1> QED BY <1>5, <1>6, <1>7, <1>8, <1>9, StepCases

(* The lock that is committed with a pending order is never left behind: a *)
(* charge is in progress, or its webhook is to come, however many workers  *)
(* charge the order, retry it by hand, give up or crash (trigger_payment,  *)
(* handle_payment, handle_payment_failure).                                *)
THEOREM LockHasChargeCorrect == Spec => []LockHasCharge
  <1> DEFINE Inv == TypeOK /\ HooksOK /\ HoldInv /\ SeenInv /\ SettlingInv /\ LockInv
  <1>1. Init => Inv
    BY TypeInit, HooksInit, HoldInit, SeenInit, SettlingInit, LockInit
  <1>2. Inv /\ [Next]_vars => Inv'
    BY TypeStep, HooksStep, HoldStep, SeenStep, SettlingStep, LockStep
  <1>3. Inv => LockHasCharge
    BY DEF LockInv, LockHasCharge, AwaitedBy
  <1> QED BY <1>1, <1>2, <1>3, PTL DEF Spec

-----------------------------------------------------------------------------
(* PastDueIsScheduled.  One message or task at a time drives the payment;  *)
(* the webhook of a charge is handled before the next one; and whoever may *)
(* fail the payment has read a subscription and a date as they still are.  *)

Punctual == Without(Stale \cup {"processing", "revoke", "final_order"})

TokenOK ==
  /\ triggers + dunnings <= 1
  /\ \A w \in Workers :
       Busy(w) => triggers = 0 /\ dunnings = 0 /\ \A v \in Workers : Busy(v) => v = w

(* A charge whose failure will enter dunning, and the tasks that may do so. *)
Reported(c) == charge[c].hook = "pending" /\ ~charge[c].manual

Acting(w) ==
  \/ Busy(w) /\ (task[w].step = "charged" => task[w].result = "invalid")
  \/ task[w].kind = "hook" /\ Reported(task[w].charge)

ScheduledOK == sub.status = "past_due" => order.next # NoDate

EndedOK == sub.ended <=> sub.status = "canceled"

ReportOK ==
  \A c \in Charges : Reported(c) =>
    /\ triggers = 0 /\ dunnings = 0
    /\ \A w \in Workers : Busy(w) => ~Acting(w)
    /\ \A d \in Charges : Reported(d) => c = d

OverOK ==
  sub.ended =>
    /\ order.next = NoDate /\ triggers = 0 /\ dunnings = 0
    /\ \A c \in Charges : ~Reported(c)
    /\ \A w \in Workers : ~Acting(w)

ActingOK ==
  \A w \in Workers : Acting(w) =>
    /\ task[w].seen.sub.status = sub.status /\ task[w].seen.sub.ended = sub.ended
    /\ task[w].seen.order.next = NoDate <=> order.next = NoDate

PastOK == TokenOK /\ ScheduledOK /\ EndedOK /\ ReportOK /\ OverOK /\ ActingOK

PastInv == Punctual /\ order.status = "pending" => PastOK

LEMMA PastInit == Init => PastInv
  <1> SUFFICES ASSUME Init, Punctual PROVE PastOK
    BY DEF PastInv
  <1>1. \A w \in Workers : task[w].step = "idle" /\ task[w].kind = "trigger"
    BY DEF Init, Idle
  <1>2. \A c \in Charges : charge[c].hook = "none"
    BY DEF Init
  <1>3. "final_order" \notin environment
    BY DEF Punctual, Without
  <1>4. triggers \in {0, 1} /\ dunnings = 0
    BY InitFields DEF Init
  <1>5. \A w \in Workers : ~Busy(w) /\ ~Acting(w)
    BY <1>1 DEF Busy, Acting
  <1>6. \A c \in Charges : ~Reported(c)
    BY <1>2 DEF Reported
  <1>7. EndedOK /\ ~sub.ended /\ ScheduledOK
    BY <1>3, InitFields DEF EndedOK, ScheduledOK
  <1> QED BY <1>4, <1>5, <1>6, <1>7 DEF PastOK, TokenOK, ReportOK, OverOK, ActingOK

(* Only one task at a time may fail the payment.                           *)
LEMMA OneActing ==
  ASSUME HooksOK, TokenOK, ReportOK, NEW v \in Workers, NEW w \in Workers, Acting(v), Acting(w)
  PROVE  v = w
  <1>1. CASE Busy(v) /\ Busy(w)
    BY <1>1 DEF TokenOK
  <1>2. CASE ~Busy(v) /\ Busy(w)
    BY <1>2 DEF HooksOK, Acting, ReportOK
  <1>3. CASE Busy(v) /\ ~Busy(w)
    BY <1>3 DEF HooksOK, Acting, ReportOK
  <1>4. CASE ~Busy(v) /\ ~Busy(w)
    BY <1>4 DEF HooksOK, Acting, ReportOK
  <1> QED BY <1>1, <1>2, <1>3, <1>4

(* Who begins has read the rows as they are; a message becomes a task.     *)
LEMMA PastBegin ==
  ASSUME TypeOK, HooksOK, PastOK, NEW w \in Workers, Begins(w)
  PROVE  PastOK'
  <1>1. /\ Others(w) /\ task[w].step = "idle" /\ task'[w].step = "read"
        /\ task'[w].seen.order = order /\ task'[w].seen.sub = sub
        /\ order' = order /\ sub' = sub /\ charge' = charge
    BY BeginFields
  <1>2. \A c \in Charges : Reported(c)' = Reported(c)
    BY <1>1 DEF Reported
  <1>3. \A v \in Workers : v # w => Busy(v)' = Busy(v) /\ Acting(v)' = Acting(v)
    BY <1>1 DEF Others, Busy, Acting, Reported
  <1>4. triggers \in Nat /\ dunnings \in Nat
    BY DEF TypeOK
  <1>5. CASE TriggerBegin(w) \/ DunningBegin(w)
    <2>1. Busy(w)' /\ triggers' = 0 /\ dunnings' = 0 /\ triggers + dunnings = 1
      BY <1>1, <1>4, <1>5, BeginFields DEF TriggerBegin, DunningBegin, Busy, PastOK, TokenOK
    <2>2. \A v \in Workers : ~Busy(v)
      BY <2>1 DEF PastOK, TokenOK
    <2>3. (\A c \in Charges : ~Reported(c)) /\ ~sub.ended
      BY <1>4, <2>1 DEF PastOK, ReportOK, OverOK
    <2>4. TokenOK'
      BY <1>3, <2>1, <2>2 DEF TokenOK
    <2>5. ReportOK' /\ OverOK'
      BY <1>1, <1>2, <2>3 DEF ReportOK, OverOK
    <2>6. ActingOK'
      BY <1>1, <1>3 DEF PastOK, ActingOK, Others
    <2> QED BY <1>1, <2>4, <2>5, <2>6 DEF PastOK, ScheduledOK, EndedOK
  <1>6. CASE ~(TriggerBegin(w) \/ DunningBegin(w))
    <2>1. /\ triggers' = triggers /\ dunnings' = dunnings
          /\ task'[w].kind \in {"manual", "void", "hook"}
          /\ task'[w].kind = "hook" =>
               task'[w].charge \in Charges /\ charge[task'[w].charge].hook = "pending"
      <3>1. ASSUME NEW c \in Charges, HookBegin(w, c)
            PROVE  task'[w].kind = "hook" /\ task'[w].charge = c /\ charge[c].hook = "pending"
        BY <3>1 DEF HookBegin, Begin, TypeOK
      <3> QED BY <1>6, <3>1, BeginFields DEF Begins, ManualBegin, VoidBegin, HookBegin
    <2>2. ~Busy(w)' /\ ~Busy(w)
      BY <1>1, <2>1 DEF Busy
    <2>3. Acting(w)' => \E c \in Charges : Reported(c)
      BY <1>1, <2>1, <2>2 DEF Acting, Reported
    <2>4. TokenOK'
      BY <1>3, <2>1, <2>2 DEF PastOK, TokenOK
    <2>5. ReportOK'
      BY <1>2, <1>3, <2>1, <2>2 DEF PastOK, ReportOK
    <2>6. OverOK'
      BY <1>1, <1>2, <1>3, <2>1, <2>3 DEF PastOK, OverOK
    <2>7. ActingOK'
      BY <1>1, <1>3 DEF PastOK, ActingOK, Others
    <2> QED BY <1>1, <2>4, <2>5, <2>6, <2>7 DEF PastOK, ScheduledOK, EndedOK
  <1> QED BY <1>5, <1>6

LEMMA PastAcquire ==
  ASSUME TypeOK, HooksOK, PastOK, NEW w \in Workers, AcquireLock(w)
  PROVE  PastOK'
  <1>1. /\ Others(w) /\ task[w].step = "read" /\ task'[w].step = "locked"
        /\ task'[w].kind = task[w].kind /\ task'[w].kind \in {"trigger", "manual"}
        /\ task'[w].seen.order.next = task[w].seen.order.next
        /\ task'[w].seen.sub = task[w].seen.sub
        /\ order' = order /\ sub' = sub /\ charge' = charge
        /\ triggers' = triggers /\ dunnings' = dunnings
    BY AcquireFields
  <1>2. \A c \in Charges : Reported(c)' = Reported(c)
    BY <1>1 DEF Reported
  <1>3. \A v \in Workers : Busy(v)' = Busy(v) /\ Acting(v)' = Acting(v)
    BY <1>1 DEF Others, Busy, Acting, Reported
  <1>4. TokenOK' /\ ReportOK' /\ OverOK'
    BY <1>1, <1>2, <1>3 DEF PastOK, TokenOK, ReportOK, OverOK
  <1>5. ActingOK'
    BY <1>1, <1>3 DEF PastOK, ActingOK, Others
  <1> QED BY <1>1, <1>4, <1>5 DEF PastOK, ScheduledOK, EndedOK

(* The charge of a task takes over from the task; a manual one does not    *)
(* count.                                                                  *)
LEMMA PastCharge ==
  ASSUME TypeOK, HooksOK, HoldInv, PastOK, NEW w \in Workers, CreateCharge(w)
  PROVE  PastOK'
  <1>1. /\ Others(w) /\ task[w].step = "locked" /\ task'[w].step = "charged"
        /\ task'[w].kind = task[w].kind /\ task'[w].seen = task[w].seen
        /\ order' = order /\ sub' = sub
        /\ triggers' = triggers /\ dunnings' = dunnings
        /\ task[w].kind \in {"trigger", "manual"}
    BY ChargeFields DEF HoldInv
  <1>2. PICK c \in Charges :
          /\ charge[c].state = "unused" /\ task'[w].charge = c
          /\ \A d \in Charges : d # c => charge'[d] = charge[d]
          /\ charge'[c].manual = (task[w].kind = "manual")
          /\ task'[w].result \in Outcomes(w)
    BY ChargeFields
  <1>3. task'[w].result # "invalid"
    BY <1>2 DEF Outcomes
  <1>4. ~Reported(c) /\ \A d \in Charges : d # c => Reported(d)' = Reported(d)
    BY <1>2 DEF Reported, HooksOK
  <1>5. Reported(c)' => task[w].kind = "trigger"
    BY <1>1, <1>2 DEF Reported
  <1>6. Busy(w) = (task[w].kind = "trigger") /\ Busy(w)' = Busy(w) /\ ~Acting(w)'
    BY <1>1, <1>3 DEF Busy, Acting
  <1>7. \A v \in Workers : v # w => Busy(v)' = Busy(v) /\ Acting(v)' = Acting(v)
    <2> SUFFICES ASSUME NEW v \in Workers, v # w PROVE Busy(v)' = Busy(v) /\ Acting(v)' = Acting(v)
      OBVIOUS
    <2>1. task'[v] = task[v]
      BY <1>1 DEF Others
    <2>2. task[v].kind = "hook" => task[v].charge \in Charges /\ task[v].charge # c
      BY <1>2 DEF HooksOK
    <2>3. task[v].kind = "hook" => charge'[task[v].charge] = charge[task[v].charge]
      BY <1>2, <2>2
    <2> QED BY <2>1, <2>3 DEF Busy, Acting, Reported
  <1>8. TokenOK'
    BY <1>1, <1>6, <1>7 DEF PastOK, TokenOK
  <1>9. ActingOK'
    BY <1>1, <1>6, <1>7 DEF PastOK, ActingOK, Others
  <1>10. CASE Reported(c)'
    <2>1. Busy(w) /\ Acting(w)
      BY <1>1, <1>5, <1>6, <1>10 DEF Acting
    <2>2. /\ triggers = 0 /\ dunnings = 0 /\ ~sub.ended
          /\ \A v \in Workers : Busy(v) => v = w
          /\ \A d \in Charges : ~Reported(d)
      BY <2>1 DEF PastOK, TokenOK, OverOK, ReportOK
    <2>3. ReportOK'
      <3>1. \A v \in Workers : Busy(v)' => ~Acting(v)'
        BY <1>6, <1>7, <2>2
      <3>2. \A d \in Charges : Reported(d)' => d = c
        BY <1>4, <2>2
      <3> QED BY <1>1, <2>2, <3>1, <3>2 DEF ReportOK
    <2> QED BY <1>1, <1>8, <1>9, <2>2, <2>3 DEF PastOK, ScheduledOK, EndedOK, OverOK
  <1>11. CASE ~Reported(c)'
    <2>1. \A d \in Charges : Reported(d)' <=> Reported(d)
      BY <1>4, <1>11
    <2>2. ASSUME NEW d \in Charges, Reported(d)'
          PROVE  /\ triggers' = 0 /\ dunnings' = 0
                 /\ \A v \in Workers : Busy(v)' => ~Acting(v)'
                 /\ \A e \in Charges : Reported(e)' => d = e
      <3>1. Reported(d)
        BY <2>1, <2>2
      <3>2. /\ triggers = 0 /\ dunnings = 0
            /\ \A v \in Workers : Busy(v) => ~Acting(v)
            /\ \A e \in Charges : Reported(e) => d = e
        BY <3>1 DEF PastOK, ReportOK
      <3>3. \A v \in Workers : Busy(v)' => ~Acting(v)'
        BY <1>6, <1>7, <3>2
      <3> QED BY <1>1, <2>1, <3>2, <3>3
    <2>3. ReportOK'
      BY <2>2 DEF ReportOK
    <2>4. OverOK'
      BY <1>1, <1>6, <1>7, <2>1 DEF PastOK, OverOK
    <2> QED BY <1>1, <1>8, <1>9, <2>3, <2>4 DEF PastOK, ScheduledOK, EndedOK
  <1> QED BY <1>10, <1>11

LEMMA PastInvalid ==
  ASSUME TypeOK, HooksOK, HoldInv, PastOK, NEW w \in Workers, CreateChargeInvalid(w)
  PROVE  PastOK'
  <1>1. /\ Others(w) /\ task[w].step = "locked" /\ task'[w].step = "charged"
        /\ task'[w].kind = task[w].kind /\ task'[w].result = "invalid"
        /\ task'[w].seen = task[w].seen /\ task[w].kind \in {"trigger", "manual"}
        /\ order' = order /\ sub' = sub /\ charge' = charge
        /\ triggers' = triggers /\ dunnings' = dunnings
    BY InvalidFields DEF HoldInv
  <1>2. \A c \in Charges : Reported(c)' = Reported(c)
    BY <1>1 DEF Reported
  <1>3. \A v \in Workers : Busy(v)' = Busy(v) /\ Acting(v)' = Acting(v)
    BY <1>1 DEF Others, Busy, Acting, Reported
  <1>4. TokenOK' /\ ReportOK' /\ OverOK'
    BY <1>1, <1>2, <1>3 DEF PastOK, TokenOK, ReportOK, OverOK
  <1>5. ActingOK'
    BY <1>1, <1>3 DEF PastOK, ActingOK, Others
  <1> QED BY <1>1, <1>4, <1>5 DEF PastOK, ScheduledOK, EndedOK

LEMMA PastOutside ==
  ASSUME TypeOK, HooksOK, SettlingInv, PastOK, Punctual, Outside
  PROVE  PastOK'
  <1>1. task' = task
    BY OutsideFields
  <1>2. "processing" \notin environment /\ "backlog" \notin environment
        /\ "late_hook" \notin environment /\ "revoke" \notin environment
    BY DEF Punctual, Without, Stale
  <1>3. charge' = charge
    BY <1>2 DEF Outside, Cron, Revoke, RemoveMethod, AddMethod, SetBlocked, Tick, vars,
       SettleCharge, SettlingInv
  <1>4. /\ \A c \in Charges : Reported(c)' = Reported(c)
        /\ \A w \in Workers : Busy(w)' = Busy(w) /\ Acting(w)' = Acting(w)
    BY <1>1, <1>3 DEF Reported, Busy, Acting
  <1>5. triggers \in Nat /\ dunnings \in Nat /\ order.next \in Date
    BY DEF TypeOK, OrderRow
  <1>6. CASE Cron
    <2>1. triggers = 0 /\ dunnings = 0 /\ triggers' = 0 /\ dunnings' = 1
          /\ (\A w \in Workers : ~Busy(w)) /\ (\A c \in Charges : ~Reported(c))
          /\ order' = order /\ sub' = sub
      BY <1>2, <1>5, <1>6 DEF Cron, Drained, Busy, Reported
    <2>2. order.next # NoDate
      BY <1>6 DEF Cron, NoDate
    <2>3. ~sub.ended
      BY <2>2 DEF PastOK, OverOK
    <2>4. TokenOK' /\ ReportOK' /\ OverOK'
      BY <1>4, <2>1, <2>3 DEF TokenOK, ReportOK, OverOK
    <2>5. ActingOK'
      BY <1>1, <1>4, <2>1 DEF PastOK, ActingOK
    <2> QED BY <2>1, <2>4, <2>5 DEF PastOK, ScheduledOK, EndedOK
  <1>7. CASE RemoveMethod \/ AddMethod \/ SetBlocked \/ Tick \/ UNCHANGED vars
    <2>1. /\ triggers' = triggers /\ dunnings' = dunnings
          /\ sub'.status = sub.status /\ sub'.ended = sub.ended
          /\ order.next # NoDate <=> order'.next # NoDate
      <3>1. CASE RemoveMethod \/ SetBlocked \/ UNCHANGED vars
        BY <3>1 DEF RemoveMethod, SetBlocked, vars, TypeOK, SubRow
      <3>2. CASE AddMethod
        <4>1. order.next # NoDate
          BY <3>2 DEF AddMethod, PastOK, ScheduledOK
        <4>2. order'.next = 0 /\ 0 # NoDate
          BY <3>2 DEF AddMethod, TypeOK, OrderRow, NoDate
        <4> QED BY <3>2, <4>1, <4>2 DEF AddMethod, TypeOK, SubRow
      <3>3. CASE Tick
        <4>1. order'.next = IF order.next > 0 THEN order.next - 1 ELSE order.next
          BY <3>3 DEF Tick, TypeOK, OrderRow
        <4>2. order.next # NoDate <=> order'.next # NoDate
          BY <1>5, <4>1 DEF NoDate
        <4> QED BY <3>3, <4>2 DEF Tick, TypeOK, SubRow
      <3> QED BY <1>7, <3>1, <3>2, <3>3
    <2>2. TokenOK' /\ ReportOK'
      BY <1>4, <2>1 DEF PastOK, TokenOK, ReportOK
    <2>3. OverOK' /\ ScheduledOK' /\ EndedOK'
      BY <1>4, <2>1 DEF PastOK, OverOK, ScheduledOK, EndedOK
    <2>4. ActingOK'
      BY <1>1, <1>4, <2>1 DEF PastOK, ActingOK
    <2> QED BY <2>2, <2>3, <2>4 DEF PastOK
  <1> QED BY <1>2, <1>6, <1>7 DEF Outside, Revoke, SettleCharge, SettlingInv

(* A failure schedules the next attempt, or ends the subscription when     *)
(* nobody else is left to fail the payment.                                *)
LEMMA PastFails ==
  ASSUME TypeOK, HooksOK, HoldInv, SeenInv, PastOK, order.status = "pending",
         NEW w \in Workers, Ends(w), Fails(w)
  PROVE  PastOK'
  <1> DEFINE seen == task[w].seen
  <1>1. Others(w) /\ task'[w].step = "idle" /\ task'[w].kind = "trigger" /\ Settles(w)
    BY EndsEnd, EndFields, EndsCharge
  <1>2. Acting(w)
    <2>1. CASE TriggerWithoutMethod(w) \/ DunningWithoutMethod(w) \/ ChargeInvalid(w)
      BY <2>1 DEF TriggerWithoutMethod, DunningWithoutMethod, ChargeInvalid, Reading, Charged,
         Acting, Busy
    <2>2. CASE HookFailed(w) /\ ~charge[task[w].charge].manual
      BY <2>2 DEF HookFailed, Reading, HooksOK, Acting, Reported
    <2> QED BY <2>1, <2>2 DEF Fails
  <1>3. /\ seen.sub.status = sub.status /\ seen.sub.ended = sub.ended
        /\ seen.order.next = NoDate <=> order.next = NoDate
    BY <1>2 DEF PastOK, ActingOK
  <1>4. triggers = 0 /\ dunnings = 0
    BY <1>2 DEF Acting, PastOK, TokenOK, ReportOK, HooksOK
  <1>5. triggers' = 0 /\ dunnings' = 0
    <2>1. triggers' = triggers /\ dunnings' = dunnings
      BY DEF Fails, TriggerWithoutMethod, DunningWithoutMethod, ChargeInvalid, HookFailed
    <2> QED BY <1>4, <2>1
  <1>6. \A v \in Workers : v # w => ~Acting(v)
    BY <1>2, OneActing DEF PastOK
  <1>7. ~Busy(w)' /\ ~Acting(w)'
    BY <1>1 DEF Busy, Acting
  <1>8. ASSUME NEW c \in Charges PROVE ~Reported(c)'
    <2>1. CASE Busy(w)
      <3>1. ~Reported(c)
        BY <1>2, <2>1 DEF PastOK, ReportOK
      <3> QED BY <1>1, <3>1 DEF Settles, Reported
    <2>2. CASE ~Busy(w)
      <3>1. task[w].kind = "hook" /\ task[w].charge \in Charges /\ Reported(task[w].charge)
        BY <1>2, <2>2 DEF Acting, HooksOK
      <3>2. HookFailed(w)
        BY <3>1 DEF Fails, TriggerWithoutMethod, DunningWithoutMethod, ChargeInvalid, Reading
      <3>3. CASE c = task[w].charge
        BY <3>2, <3>1, <3>3 DEF HookFailed, HookDone, Reported, TypeOK, ChargeRow
      <3>4. CASE c # task[w].charge
        <4>1. ~Reported(c)
          BY <3>1, <3>4 DEF PastOK, ReportOK
        <4> QED BY <1>1, <4>1 DEF Settles, Reported
      <3> QED BY <3>3, <3>4
    <2> QED BY <2>1, <2>2
  <1>9. \A v \in Workers : v # w => Busy(v)' = Busy(v) /\ ~Acting(v)'
    <2> SUFFICES ASSUME NEW v \in Workers, v # w PROVE Busy(v)' = Busy(v) /\ ~Acting(v)'
      OBVIOUS
    <2>1. task'[v] = task[v] /\ ~Acting(v)
      BY <1>1, <1>6 DEF Others
    <2>2. task[v].kind = "hook" => task[v].charge \in Charges
      BY DEF HooksOK
    <2> QED BY <1>8, <2>1, <2>2 DEF Busy, Acting
  <1>10. TokenOK'
    BY <1>4, <1>5, <1>7, <1>9 DEF PastOK, TokenOK
  <1>11. ReportOK' /\ ActingOK'
    BY <1>7, <1>8, <1>9 DEF ReportOK, ActingOK
  <1>12. ~sub.ended /\ sub.status # "canceled" /\ sub.ended = FALSE
    BY <1>2 DEF PastOK, OverOK, EndedOK, TypeOK, SubRow
  <1>13. CanCancelImmediately(seen.sub)
    BY <1>3, <1>12, SeenType DEF CanCancelImmediately, Billable, SubRow
  <1>14. seen.order.status = "pending"
    BY EndsEnd DEF SeenInv
  <1> HIDE DEF seen
  <1>15. /\ seen.order.next = NoDate =>
              order'.next # NoDate /\ sub'.status = "past_due" /\ sub'.ended = sub.ended
         /\ seen.order.next # NoDate =>
              \/ order'.next # NoDate /\ sub'.status = sub.status /\ sub'.ended = sub.ended
              \/ order'.next = NoDate /\ sub'.status = "canceled" /\ sub'.ended = TRUE
    BY <1>13, <1>14, FailsFields DEF seen
  <1>16. ScheduledOK' /\ EndedOK' /\ (sub'.ended => order'.next = NoDate)
    <2>1. CASE seen.order.next = NoDate
      BY <1>12, <1>15, <2>1 DEF ScheduledOK, EndedOK
    <2>2. CASE seen.order.next # NoDate /\ order'.next # NoDate
      BY <1>12, <1>15, <2>2 DEF ScheduledOK, EndedOK
    <2>3. CASE seen.order.next # NoDate /\ order'.next = NoDate
      BY <1>12, <1>15, <2>3 DEF ScheduledOK, EndedOK
    <2> QED BY <2>1, <2>2, <2>3
  <1>17. OverOK'
    BY <1>5, <1>7, <1>8, <1>9, <1>16 DEF OverOK
  <1> QED BY <1>10, <1>11, <1>16, <1>17 DEF PastOK

(* The other ends of a task leave the dates and the subscription alone.    *)
LEMMA PastEnds ==
  ASSUME TypeOK, HooksOK, HoldInv, SeenInv, PastOK, "crash" \notin environment,
         order'.status = "pending", NEW w \in Workers, Ends(w), ~Fails(w)
  PROVE  PastOK'
  <1> DEFINE seen == task[w].seen
  <1>1. Others(w) /\ task'[w].step = "idle" /\ task'[w].kind = "trigger" /\ Settles(w)
    BY EndsEnd, EndFields, EndsCharge
  <1>2. order.status = "pending" /\ seen.order.status = "pending"
    <2>1. order.status = "pending"
      BY EndsStatus
    <2> QED BY <2>1, EndsEnd DEF SeenInv
  <1>3. /\ order'.next = order.next /\ sub'.status = sub.status /\ sub'.ended = sub.ended
    <2>1. ~DunningCanceled(w)
      <3>1. DunningCanceled(w) => Acting(w) /\ seen.sub.status = "canceled"
        BY DEF DunningCanceled, Reading, Acting, Busy
      <3> QED BY <3>1 DEF PastOK, ActingOK, EndedOK, OverOK
    <2>2. ~Pays(w) /\ ~TriggerCredit(w) /\ ~VoidCommit(w)
      BY <1>2, PaysFields, CreditFields, VoidFields
    <2> QED BY <2>1, <2>2, EndCases, LeaveFields, ReleasesFields, KeepFields
  <1>4. ~Busy(w)' /\ ~Acting(w)'
    BY <1>1 DEF Busy, Acting
  <1>5. \A c \in Charges : Reported(c)' => Reported(c)
    BY <1>1 DEF Settles, Reported
  <1>6. \A v \in Workers : v # w => Busy(v)' = Busy(v) /\ (Acting(v)' => Acting(v))
    <2> SUFFICES ASSUME NEW v \in Workers, v # w
                 PROVE  Busy(v)' = Busy(v) /\ (Acting(v)' => Acting(v))
      OBVIOUS
    <2>1. task'[v] = task[v]
      BY <1>1 DEF Others
    <2>2. task[v].kind = "hook" => task[v].charge \in Charges
      BY DEF HooksOK
    <2> QED BY <1>5, <2>1, <2>2 DEF Busy, Acting
  <1>7. ActingOK'
    BY <1>1, <1>3, <1>4, <1>6 DEF PastOK, ActingOK, Others
  <1>8. ScheduledOK' /\ EndedOK'
    BY <1>3 DEF PastOK, ScheduledOK, EndedOK
  <1>9. triggers \in Nat /\ dunnings \in Nat
    BY DEF TypeOK
  <1>10. CASE triggers' = triggers /\ dunnings' = dunnings
    <2>1. TokenOK'
      BY <1>4, <1>6, <1>10 DEF PastOK, TokenOK
    <2>2. ReportOK'
      BY <1>4, <1>5, <1>6, <1>10 DEF PastOK, ReportOK
    <2>3. OverOK'
      BY <1>3, <1>4, <1>5, <1>6, <1>10 DEF PastOK, OverOK
    <2> QED BY <1>7, <1>8, <2>1, <2>2, <2>3 DEF PastOK
  <1>11. CASE ~(triggers' = triggers /\ dunnings' = dunnings)
    <2>1. Busy(w) /\ triggers' + dunnings' = triggers + dunnings + 1
      BY <1>9, <1>11, EndsMessages
    <2>2. Acting(w)
      <3>1. Leaves(w)
        BY <1>11, EndCases DEF Fails, Pays, Releases, ManualFailed, PaidAtOnce, HookSucceeded,
           ChargeDeclined, ManualEnd, HookFailed, KeepLock, TriggerCredit, DunningCanceled, VoidCommit
      <3>2. ~Crash(w)
        BY DEF Crash
      <3> QED BY <2>1, <3>1, <3>2 DEF Leaves, TriggerRefused, TriggerSkipped, LockRefused,
                 WantsLock, HookRefused, DunningTriggers, Reading, Acting
    <2>3. /\ triggers = 0 /\ dunnings = 0 /\ ~sub.ended
          /\ \A v \in Workers : Busy(v) => v = w
          /\ \A c \in Charges : ~Reported(c)
      BY <2>1, <2>2 DEF PastOK, TokenOK, OverOK, ReportOK
    <2>4. TokenOK'
      BY <1>4, <1>6, <2>1, <2>3 DEF TokenOK
    <2>5. ReportOK' /\ OverOK'
      BY <1>3, <1>5, <2>3 DEF ReportOK, OverOK
    <2> QED BY <1>7, <1>8, <2>4, <2>5 DEF PastOK
  <1> QED BY <1>10, <1>11

LEMMA PastStep ==
  TypeOK /\ HooksOK /\ HoldInv /\ SeenInv /\ SettlingInv /\ PastInv /\ [Next]_vars => PastInv'
  <1> SUFFICES ASSUME TypeOK, HooksOK, HoldInv, SeenInv, SettlingInv, PastInv, [Next]_vars,
                      Punctual', order'.status = "pending"
               PROVE  PastOK'
    BY DEF PastInv
  <1>1. environment' = environment
    BY StepCases, OutsideFields, BeginFields, AcquireFields, ChargeFields, InvalidFields, EndsEnd
  <1>2. Punctual /\ "crash" \notin environment
    BY <1>1 DEF Punctual, Without, Stale
  <1>3. order.status = "pending" /\ PastOK
    BY <1>2, StatusKept DEF PastInv
  <1> QED BY <1>2, <1>3, StepCases, PastOutside, PastBegin, PastAcquire, PastCharge, PastInvalid,
             PastFails, PastEnds

(* A past due subscription whose order is still pending always has a date  *)
(* for the next attempt: no failure, webhook or retry leaves it without a  *)
(* next step (handle_payment_failure and the dunning attempts).            *)
THEOREM PastDueIsScheduledCorrect == Spec => []PastDueIsScheduled
  <1> DEFINE Inv == TypeOK /\ HooksOK /\ HoldInv /\ SeenInv /\ SettlingInv /\ PastInv
  <1>1. Init => Inv
    BY TypeInit, HooksInit, HoldInit, SeenInit, SettlingInit, PastInit
  <1>2. Inv /\ [Next]_vars => Inv'
    BY TypeStep, HooksStep, HoldStep, SeenStep, SettlingStep, PastStep
  <1>3. Inv => PastDueIsScheduled
    BY DEF PastInv, PastOK, Punctual, ScheduledOK, PastDueIsScheduled
  <1> QED BY <1>1, <1>2, <1>3, PTL DEF Spec

-----------------------------------------------------------------------------
(* ChargedOnce.  At most one charge is open: it may still take money, or   *)
(* its webhook is to come.  While it is, the order is settled or locked,   *)
(* its task has not committed, or no task is left that could charge.       *)

Quiet == Without({"crash", "manual", "backlog", "late_hook"})

Token == triggers + dunnings > 0 \/ \E w \in Workers : Busy(w)

Live(c) == charge[c].state \in {"processing", "succeeded"}

Open(c) == Live(c) \/ charge[c].hook = "pending"

(* The payment method of a subscription that has ended was deleted.        *)
Gone == ~sub.method /\ sub.ended

OneOpen == \A c, d \in Charges : Open(c) /\ Open(d) => c = d

OpenOK ==
  \A c \in Charges : Open(c) =>
    \/ order.status # "pending" \/ order.lock
    \/ \E w \in Workers : task[w].step = "charged"
    \/ Gone
    \/ ~Live(c) /\ ~Token

SubOK ==
  /\ sub.status = "canceled" => sub.ended
  /\ (\E c \in Charges : Open(c)) => sub.method \/ sub.ended

(* What a task has read of the payment method is true, or the subscription *)
(* has ended since.                                                        *)
MethodOK ==
  \A w \in Workers : Busy(w) =>
    /\ task[w].kind = "trigger" /\ task[w].seen.sub.method => sub.method \/ sub.ended
    /\ ~task[w].seen.sub.method /\ (\E c \in Charges : Open(c)) => Gone

ChargerOK ==
  \A w \in Workers : task[w].kind = "trigger" =>
    /\ task[w].step = "read" /\ MayCharge(task[w].seen) /\ task[w].seen.sub.method =>
         \A c \in Charges : ~Open(c)
    /\ task[w].step = "locked" => task[w].seen.sub.method /\ \A c \in Charges : ~Open(c)
    /\ task[w].step = "charged" =>
         \A c \in Charges : Open(c) =>
           /\ task[w].charge = c /\ task[w].result # "invalid"
           /\ task[w].result \in Failed => ~Live(c)

NoManual == \A w \in Workers : task[w].kind # "manual"

OnceOK == TokenOK /\ OneOpen /\ OpenOK /\ SubOK /\ MethodOK /\ ChargerOK /\ NoManual

OnceInv == Quiet => OnceOK

LEMMA OnceInit == Init => OnceInv
  <1> SUFFICES ASSUME Init PROVE OnceOK
    BY DEF OnceInv
  <1>1. \A w \in Workers : task[w].step = "idle" /\ task[w].kind = "trigger"
    BY DEF Init, Idle
  <1>2. \A c \in Charges : charge[c].hook = "none" /\ charge[c].state = "unused"
    BY DEF Init
  <1>3. triggers \in {0, 1} /\ dunnings = 0
    BY InitFields DEF Init
  <1>4. \A w \in Workers : ~Busy(w)
    BY <1>1 DEF Busy
  <1>5. \A c \in Charges : ~Open(c)
    BY <1>2 DEF Open, Live
  <1>6. SubOK
    BY <1>5, InitFields DEF SubOK
  <1>7. TokenOK /\ OneOpen /\ OpenOK /\ MethodOK
    BY <1>3, <1>4, <1>5 DEF TokenOK, OneOpen, OpenOK, MethodOK
  <1> QED BY <1>1, <1>6, <1>7 DEF OnceOK, ChargerOK, NoManual

LEMMA TokenStep ==
  ASSUME TypeOK, HoldInv, TokenOK, "backlog" \notin environment, [Next]_vars
  PROVE  TokenOK'
  <1>1. triggers \in Nat /\ dunnings \in Nat
    BY DEF TypeOK
  <1>2. CASE Outside
    <2>1. \A w \in Workers : Busy(w)' = Busy(w)
      BY <1>2, OutsideFields DEF Busy
    <2>2. CASE Cron
      <3>1. /\ triggers = 0 /\ dunnings = 0 /\ triggers' = 0 /\ dunnings' = 1
            /\ \A w \in Workers : ~Busy(w)
        BY <1>1, <2>2 DEF Cron, Drained, Busy
      <3> QED BY <2>1, <3>1 DEF TokenOK
    <2>3. CASE ~Cron
      <3>1. triggers' = triggers /\ dunnings' = dunnings
        BY <1>2, <2>3 DEF Outside, Revoke, RemoveMethod, AddMethod, SetBlocked, Tick, SettleCharge,
           vars
      <3> QED BY <2>1, <3>1 DEF TokenOK
    <2> QED BY <2>2, <2>3
  <1>3. ASSUME NEW w \in Workers, Begins(w) PROVE TokenOK'
    <2>1. Others(w) /\ task[w].step = "idle" /\ task'[w].step = "read"
      BY <1>3, BeginFields
    <2>2. \A v \in Workers : v # w => Busy(v)' = Busy(v)
      BY <2>1 DEF Others, Busy
    <2>3. CASE TriggerBegin(w) \/ DunningBegin(w)
      <3>1. triggers + dunnings >= 1 /\ triggers' = 0 /\ dunnings' = 0
        BY <1>1, <2>3 DEF TriggerBegin, DunningBegin, TokenOK
      <3>2. \A v \in Workers : ~Busy(v)
        BY <1>1, <3>1 DEF TokenOK
      <3> QED BY <2>2, <3>1, <3>2 DEF TokenOK
    <2>4. CASE ~(TriggerBegin(w) \/ DunningBegin(w))
      <3>1. triggers' = triggers /\ dunnings' = dunnings /\ task'[w].kind \in {"manual", "void", "hook"}
        <4>1. ASSUME NEW c \in Charges, HookBegin(w, c) PROVE task'[w].kind = "hook"
          BY <4>1 DEF HookBegin, Begin, TypeOK
        <4> QED BY <1>3, <2>4, <4>1, BeginFields DEF Begins, ManualBegin, VoidBegin, HookBegin
      <3>2. ~Busy(w)'
        BY <3>1 DEF Busy
      <3> QED BY <2>2, <3>1, <3>2 DEF TokenOK
    <2> QED BY <2>3, <2>4
  <1>4. ASSUME NEW w \in Workers, AcquireLock(w) \/ CreateCharge(w) \/ CreateChargeInvalid(w)
        PROVE  TokenOK'
    <2>1. /\ Others(w) /\ task[w].step # "idle" /\ task'[w].step # "idle"
          /\ task'[w].kind = task[w].kind /\ triggers' = triggers /\ dunnings' = dunnings
      <3>1. CASE AcquireLock(w)
        BY <3>1, AcquireFields
      <3>2. CASE CreateCharge(w)
        BY <3>2, ChargeFields
      <3>3. CASE CreateChargeInvalid(w)
        BY <3>3, InvalidFields
      <3> QED BY <1>4, <3>1, <3>2, <3>3
    <2>2. \A v \in Workers : Busy(v)' = Busy(v)
      BY <2>1 DEF Busy, Others
    <2> QED BY <2>1, <2>2 DEF TokenOK
  <1>5. ASSUME NEW w \in Workers, Ends(w) PROVE TokenOK'
    <2>1. Others(w) /\ task'[w].step = "idle"
      BY <1>5, EndsEnd, EndFields
    <2>2. ~Busy(w)' /\ \A v \in Workers : v # w => Busy(v)' = Busy(v)
      BY <2>1 DEF Busy, Others
    <2>3. CASE triggers' = triggers /\ dunnings' = dunnings
      BY <2>2, <2>3 DEF TokenOK
    <2>4. CASE ~(triggers' = triggers /\ dunnings' = dunnings)
      <3>1. Busy(w) /\ triggers' + dunnings' = triggers + dunnings + 1
        BY <1>1, <1>5, <2>4, EndsMessages
      <3>2. triggers = 0 /\ dunnings = 0 /\ \A v \in Workers : Busy(v) => v = w
        BY <3>1 DEF TokenOK
      <3> QED BY <2>2, <3>1, <3>2 DEF TokenOK
    <2> QED BY <2>3, <2>4
  <1> QED BY <1>2, <1>3, <1>4, <1>5, StepCases

(* A task of the two actors takes a message, and leaves at most one.       *)
LEMMA TokenBegin ==
  ASSUME TypeOK, "manual" \notin environment, NEW w \in Workers, Begins(w)
  PROVE  /\ Token' => Token
         /\ task'[w].kind \in {"trigger", "dunning"} => triggers + dunnings > 0
         /\ task'[w].kind # "manual"
  <1>1. Others(w) /\ task'[w].step = "read"
    BY BeginFields
  <1>2. \A v \in Workers : v # w => Busy(v)' = Busy(v)
    BY <1>1 DEF Others, Busy
  <1>3. /\ ~ManualBegin(w)
        /\ task'[w].kind \in {"trigger", "dunning"} => triggers + dunnings > 0
        /\ task'[w].kind # "manual"
    <2>1. ~ManualBegin(w)
      BY DEF ManualBegin
    <2>2. ASSUME NEW c \in Charges, HookBegin(w, c) PROVE task'[w].kind = "hook"
      BY <2>2 DEF HookBegin, Begin, TypeOK
    <2>3. (TriggerBegin(w) \/ DunningBegin(w)) => triggers + dunnings > 0
      BY DEF TriggerBegin, DunningBegin, TypeOK
    <2> QED BY <2>1, <2>2, <2>3, BeginFields DEF Begins
  <1>4. Token' => Token
    <2>1. CASE task'[w].kind \in {"trigger", "dunning"}
      BY <1>3, <2>1 DEF Token
    <2>2. CASE task'[w].kind \notin {"trigger", "dunning"}
      <3>1. triggers' = triggers /\ dunnings' = dunnings
        BY <1>3, <2>2, BeginFields DEF Begins, VoidBegin, HookBegin
      <3>2. ~Busy(w)'
        BY <2>2 DEF Busy
      <3> QED BY <1>2, <3>1, <3>2 DEF Token
    <2> QED BY <2>1, <2>2
  <1> QED BY <1>3, <1>4

LEMMA TokenEnds ==
  ASSUME TypeOK, TokenOK, NEW w \in Workers, Ends(w)
  PROVE  /\ ~Busy(w)' /\ \A v \in Workers : v # w => Busy(v)' = Busy(v)
         /\ Token' => Token
         /\ Busy(w) /\ triggers' = triggers /\ dunnings' = dunnings => ~Token'
  <1>1. Others(w) /\ task'[w].step = "idle"
    BY EndsEnd, EndFields
  <1>2. ~Busy(w)' /\ \A v \in Workers : v # w => Busy(v)' = Busy(v)
    BY <1>1 DEF Busy, Others
  <1>3. Token' => Token
    <2>1. triggers' + dunnings' = triggers + dunnings \/ Busy(w)
      BY EndsMessages
    <2> QED BY <1>2, <2>1 DEF Token
  <1>4. Busy(w) /\ triggers' = triggers /\ dunnings' = dunnings => ~Token'
    <2> SUFFICES ASSUME Busy(w), triggers' = triggers, dunnings' = dunnings PROVE ~Token'
      OBVIOUS
    <2>1. triggers = 0 /\ dunnings = 0 /\ \A v \in Workers : Busy(v) => v = w
      BY DEF TokenOK
    <2> QED BY <1>2, <2>1 DEF Token
  <1> QED BY <1>2, <1>3, <1>4

(* A task that begins while a charge is open has read it off the row.      *)
LEMMA OnceBegin ==
  ASSUME TypeOK, HooksOK, HoldInv, OnceOK, "manual" \notin environment, TokenOK',
         NEW w \in Workers, Begins(w)
  PROVE  OnceOK'
  <1>1. /\ Others(w) /\ task[w].step = "idle" /\ task'[w].step = "read"
        /\ task'[w].seen.order = order /\ task'[w].seen.sub = sub
        /\ order' = order /\ sub' = sub /\ charge' = charge
    BY BeginFields
  <1>2. \A c \in Charges : Open(c)' = Open(c) /\ Live(c)' = Live(c)
    BY <1>1 DEF Open, Live
  <1>3. \A v \in Workers : v # w => Busy(v)' = Busy(v)
    BY <1>1 DEF Others, Busy
  <1>4. Gone' = Gone /\ SubOK' /\ OneOpen'
    BY <1>1, <1>2 DEF Gone, OnceOK, SubOK, OneOpen
  <1>5. /\ Token' => Token
        /\ task'[w].kind \in {"trigger", "dunning"} => triggers + dunnings > 0
        /\ task'[w].kind # "manual"
    BY TokenBegin
  <1>6. NoManual'
    BY <1>1, <1>5 DEF OnceOK, NoManual, Others
  <1>8. OpenOK'
    <2> SUFFICES ASSUME NEW c \in Charges, Open(c)'
                 PROVE  \/ order'.status # "pending" \/ order'.lock
                        \/ \E v \in Workers : task'[v].step = "charged"
                        \/ Gone'
                        \/ ~Live(c)' /\ ~Token'
      BY DEF OpenOK
    <2>1. CASE \E v \in Workers : task[v].step = "charged"
      BY <1>1, <2>1 DEF Others
    <2>2. CASE ~\E v \in Workers : task[v].step = "charged"
      BY <1>1, <1>2, <1>4, <1>5, <2>2 DEF OnceOK, OpenOK
    <2> QED BY <2>1, <2>2
  <1>9. MethodOK'
    <2> SUFFICES ASSUME NEW v \in Workers, Busy(v)'
                 PROVE  /\ task'[v].kind = "trigger" /\ task'[v].seen.sub.method =>
                             sub'.method \/ sub'.ended
                        /\ ~task'[v].seen.sub.method /\ (\E c \in Charges : Open(c)') => Gone'
      BY DEF MethodOK
    <2>1. CASE v = w
      BY <1>1, <1>2, <1>4, <2>1 DEF OnceOK, SubOK, Gone
    <2>2. CASE v # w
      BY <1>1, <1>2, <1>3, <1>4, <2>2 DEF OnceOK, MethodOK, Others
    <2> QED BY <2>1, <2>2
  <1>11. ASSUME NEW c \in Charges, Open(c), task'[w].kind = "trigger",
                MayCharge(task'[w].seen), task'[w].seen.sub.method
         PROVE  FALSE
    <2>1. order.status = "pending" /\ ~order.lock /\ sub.method
      BY <1>1, <1>11 DEF MayCharge
    <2>2. triggers + dunnings > 0 /\ Token
      BY <1>5, <1>11 DEF Token
    <2>3. PICK v \in Workers : task[v].step = "charged"
      BY <1>11, <2>1, <2>2 DEF OnceOK, OpenOK, Gone
    <2>4. Busy(v)
      BY <2>3 DEF HoldInv, OnceOK, NoManual, Busy
    <2> QED BY <2>2, <2>4 DEF OnceOK, TokenOK, TypeOK
  <1>12. ChargerOK'
    <2> SUFFICES ASSUME NEW v \in Workers, task'[v].kind = "trigger"
                 PROVE  /\ task'[v].step = "read" /\ MayCharge(task'[v].seen)
                             /\ task'[v].seen.sub.method => \A c \in Charges : ~Open(c)'
                        /\ task'[v].step = "locked" =>
                             task'[v].seen.sub.method /\ \A c \in Charges : ~Open(c)'
                        /\ task'[v].step = "charged" =>
                             \A c \in Charges : Open(c)' =>
                               /\ task'[v].charge = c /\ task'[v].result # "invalid"
                               /\ task'[v].result \in Failed => ~Live(c)'
      BY DEF ChargerOK, MayCharge
    <2>1. CASE v = w
      BY <1>1, <1>2, <1>11, <2>1
    <2>2. CASE v # w
      <3>1. task'[v] = task[v]
        BY <1>1, <2>2 DEF Others
      <3> QED BY <1>2, <3>1 DEF OnceOK, ChargerOK
    <2> QED BY <2>1, <2>2
  <1> QED BY <1>4, <1>6, <1>8, <1>9, <1>12 DEF OnceOK

LEMMA OnceAcquire ==
  ASSUME TypeOK, OnceOK, TokenOK', NEW w \in Workers, AcquireLock(w)
  PROVE  OnceOK'
  <1>1. /\ Others(w) /\ task[w].step = "read" /\ task'[w].step = "locked"
        /\ task'[w].kind = task[w].kind /\ task[w].kind = "trigger"
        /\ task'[w].charge = task[w].charge /\ task'[w].result = task[w].result
        /\ task'[w].seen.sub = task[w].seen.sub
        /\ order' = order /\ sub' = sub /\ charge' = charge
        /\ triggers' = triggers /\ dunnings' = dunnings
    BY AcquireFields DEF OnceOK, NoManual
  <1>2. \A c \in Charges : Open(c)' = Open(c) /\ Live(c)' = Live(c)
    BY <1>1 DEF Open, Live
  <1>3. \A v \in Workers : Busy(v)' = Busy(v)
    BY <1>1 DEF Others, Busy
  <1>4. Gone' = Gone /\ SubOK' /\ OneOpen' /\ Token' = Token /\ NoManual'
    BY <1>1, <1>2, <1>3 DEF Gone, OnceOK, SubOK, OneOpen, Token, NoManual, Others
  <1>5. task[w].seen.sub.method /\ MayCharge(task[w].seen)
    BY <1>1 DEF AcquireLock, WantsLock, Reading
  <1>6. \A c \in Charges : ~Open(c)
    BY <1>1, <1>5 DEF OnceOK, ChargerOK
  <1>7. OpenOK'
    BY <1>2, <1>6 DEF OpenOK
  <1>8. MethodOK'
    BY <1>1, <1>2, <1>3, <1>4 DEF OnceOK, MethodOK, Others
  <1>9. ChargerOK'
    <2>1. \A c \in Charges : ~Open(c)'
      BY <1>2, <1>6
    <2> QED BY <1>1, <1>5, <2>1 DEF OnceOK, ChargerOK, Others
  <1> QED BY <1>4, <1>7, <1>8, <1>9 DEF OnceOK

LEMMA OnceCharge ==
  ASSUME TypeOK, HooksOK, HoldInv, OnceOK, TokenOK', NEW w \in Workers, CreateCharge(w)
  PROVE  OnceOK'
  <1>1. /\ Others(w) /\ task[w].step = "locked" /\ task'[w].step = "charged"
        /\ task'[w].kind = "trigger" /\ task[w].kind = "trigger"
        /\ task'[w].seen = task[w].seen
        /\ order' = order /\ sub' = sub
    BY ChargeFields DEF HoldInv, OnceOK, NoManual
  <1>2. PICK c \in Charges :
          /\ task'[w].charge = c
          /\ \A d \in Charges : d # c => charge'[d] = charge[d]
          /\ charge'[c].state = task'[w].result
          /\ task'[w].result \in Outcomes(w)
    BY ChargeFields
  <1>3. task'[w].result # "invalid" /\ Busy(w)
    BY <1>1, <1>2 DEF Outcomes, Busy
  <1>4. task[w].seen.sub.method /\ \A d \in Charges : ~Open(d)
    BY <1>1 DEF OnceOK, ChargerOK
  <1>5. \A d \in Charges : Open(d)' => d = c
    BY <1>2, <1>4 DEF Open, Live
  <1>6. /\ \A v \in Workers : Busy(v)' => v = w
        /\ \A v \in Workers : v # w /\ task'[v].kind = "trigger" => task'[v].step = "idle"
    <2>1. \A v \in Workers : v # w => Busy(v)' = Busy(v)
      BY <1>1 DEF Others, Busy
    <2>2. \A v \in Workers : Busy(v)' => v = w
      BY <1>3, <2>1 DEF OnceOK, TokenOK
    <2> QED BY <2>2 DEF Busy
  <1>7. sub.method \/ sub.ended
    BY <1>1, <1>3, <1>4 DEF OnceOK, MethodOK
  <1>8. OneOpen' /\ OpenOK'
    BY <1>1, <1>5 DEF OneOpen, OpenOK
  <1>9. SubOK'
    BY <1>1, <1>7 DEF OnceOK, SubOK
  <1>10. MethodOK'
    BY <1>1, <1>4, <1>6, <1>7 DEF MethodOK
  <1>11. task'[w].result \in Failed => ~Live(c)'
    BY <1>2 DEF Failed, Live
  <1>12. ChargerOK'
    <2> SUFFICES ASSUME NEW v \in Workers, task'[v].kind = "trigger", task'[v].step # "idle"
                 PROVE  /\ task'[v].step = "charged"
                        /\ \A d \in Charges : Open(d)' =>
                             /\ task'[v].charge = d /\ task'[v].result # "invalid"
                             /\ task'[v].result \in Failed => ~Live(d)'
      BY DEF ChargerOK, MayCharge
    <2>1. v = w
      BY <1>6
    <2> QED BY <1>1, <1>2, <1>3, <1>5, <1>11, <2>1
  <1>13. NoManual'
    BY <1>1 DEF OnceOK, NoManual, Others
  <1> QED BY <1>8, <1>9, <1>10, <1>12, <1>13 DEF OnceOK

LEMMA OnceInvalid ==
  ASSUME TypeOK, HoldInv, OnceOK, TokenOK', NEW w \in Workers, CreateChargeInvalid(w)
  PROVE  OnceOK'
  <1>1. /\ Others(w) /\ task[w].step = "locked" /\ task'[w].step = "charged"
        /\ task'[w].kind = "trigger" /\ task[w].kind = "trigger"
        /\ task'[w].seen = task[w].seen
        /\ order' = order /\ sub' = sub /\ charge' = charge
    BY InvalidFields DEF HoldInv, OnceOK, NoManual
  <1>2. \A d \in Charges : ~Open(d) /\ Open(d)' = Open(d)
    BY <1>1 DEF OnceOK, ChargerOK, Open, Live
  <1>3. \A v \in Workers : Busy(v)' = Busy(v)
    BY <1>1 DEF Others, Busy
  <1>4. OneOpen' /\ OpenOK' /\ SubOK'
    BY <1>1, <1>2 DEF OneOpen, OpenOK, OnceOK, SubOK
  <1>5. MethodOK'
    BY <1>1, <1>2, <1>3 DEF OnceOK, MethodOK, Others
  <1>6. ChargerOK'
    BY <1>1, <1>2 DEF OnceOK, ChargerOK, Others
  <1>7. NoManual'
    BY <1>1 DEF OnceOK, NoManual, Others
  <1> QED BY <1>4, <1>5, <1>6, <1>7 DEF OnceOK

(* What happens outside the tasks leaves an open charge where it is.       *)
LEMMA OnceOutside ==
  ASSUME TypeOK, HooksOK, SettlingInv, OnceOK, Quiet, TokenOK', Outside
  PROVE  OnceOK'
  <1>1. task' = task /\ order'.status = order.status /\ order'.lock = order.lock
    BY OutsideFields
  <1>2. \A c \in Charges : (Open(c)' => Open(c)) /\ (Live(c)' => Live(c))
    <2>1. ASSUME NEW c \in Charges, SettleCharge(c)
          PROVE  \A d \in Charges : (Open(d)' => Open(d)) /\ (Live(d)' => Live(d))
      BY <2>1, SettleFields DEF Open, Live
    <2>2. CASE charge' = charge
      BY <2>2 DEF Open, Live
    <2> QED BY <2>1, <2>2 DEF Outside, Cron, Revoke, RemoveMethod, AddMethod, SetBlocked, Tick, vars
  <1>3. /\ sub.ended => sub'.ended
        /\ Gone => Gone'
        /\ sub.method \/ sub.ended => sub'.method \/ sub'.ended
        /\ (sub.status = "canceled" => sub.ended) => (sub'.status = "canceled" => sub'.ended)
    <2>1. sub \in SubRow
      BY DEF TypeOK
    <2>2. CASE Revoke
      BY <2>1, <2>2 DEF Revoke, Revoked, SubRow, Gone
    <2>3. CASE RemoveMethod
      <3>1. sub.ended /\ sub'.ended = sub.ended /\ sub'.method = FALSE
        BY <2>1, <2>3 DEF RemoveMethod, Billable, SubRow, OnceOK, SubOK
      <3>2. sub'.status = sub.status
        BY <2>1, <2>3 DEF RemoveMethod, SubRow
      <3> QED BY <3>1, <3>2 DEF Gone
    <2>4. CASE AddMethod
      BY <2>1, <2>4 DEF AddMethod, SubRow, Gone
    <2>5. CASE Tick
      BY <2>1, <2>5 DEF Tick, SubRow, Gone
    <2>6. CASE sub' = sub
      BY <2>6 DEF Gone
    <2> QED BY <2>2, <2>3, <2>4, <2>5, <2>6 DEF Outside, Cron, SetBlocked, SettleCharge, vars
  <1>4. \A w \in Workers : Busy(w)' = Busy(w)
    BY <1>1 DEF Busy
  <1>5. ASSUME Cron PROVE OpenOK'
    <2>1. /\ charge' = charge /\ \A c \in Charges : charge[c].hook # "pending"
          /\ sub' = sub
      BY <1>5 DEF Cron, Drained, Quiet, Without
    <2>2. \A c \in Charges : Open(c) => Live(c)
      BY <2>1 DEF Open
    <2>3. OpenOK'
      BY <1>1, <1>2, <1>3, <2>2 DEF OnceOK, OpenOK
    <2> QED BY <2>3
  <1>6. OpenOK'
    <2>1. CASE ~Cron
      <3>1. triggers' = triggers /\ dunnings' = dunnings
        BY <1>5, <2>1 DEF Outside, Revoke, RemoveMethod, AddMethod, SetBlocked, Tick, SettleCharge,
           vars
      <3>2. Token' = Token
        BY <1>4, <3>1 DEF Token
      <3> QED BY <1>1, <1>2, <1>3, <3>2 DEF OnceOK, OpenOK
    <2> QED BY <1>5, <2>1
  <1>7. OneOpen'
    BY <1>2 DEF OnceOK, OneOpen
  <1>8. SubOK'
    BY <1>2, <1>3 DEF OnceOK, SubOK
  <1>9. MethodOK'
    BY <1>1, <1>2, <1>3, <1>4 DEF OnceOK, MethodOK
  <1>10. ChargerOK'
    BY <1>1, <1>2 DEF OnceOK, ChargerOK
  <1>11. NoManual'
    BY <1>1 DEF OnceOK, NoManual
  <1> QED BY <1>6, <1>7, <1>8, <1>9, <1>10, <1>11 DEF OnceOK

(* The end of a task closes the charge it reports, settles the order, or   *)
(* leaves what keeps other tasks from charging.                            *)
LEMMA OnceKept ==
  ASSUME TypeOK, HooksOK, HoldInv, SeenInv, OnceOK, "crash" \notin environment,
         NEW w \in Workers, Ends(w), NEW c \in Charges, Open(c)', order'.status = "pending",
         order.lock \/ task[w].step = "charged"
  PROVE  order'.lock \/ Gone' \/ (~Live(c) /\ triggers' = triggers /\ dunnings' = dunnings /\ Busy(w))
  <1>1. Settles(w) /\ task[w].step # "idle"
    BY EndsCharge, EndsEnd
  <1>2. Open(c)
    BY <1>1 DEF Settles, Open, Live
  <1>3. task[w].seen.order.status = "pending"
    BY <1>1, EndsStatus DEF SeenInv
  <1>4. CASE Leaves(w)
    <2>1. order' = order /\ task[w].step = "read"
      BY <1>4, LeaveFields DEF Leaves, TriggerRefused, TriggerSkipped, LockRefused, WantsLock,
         HookRefused, DunningTriggers, Crash, Reading
    <2> QED BY <2>1
  <1>5. ASSUME HookFailed(w) PROVE FALSE
    <2>1. /\ task[w].kind = "hook" /\ task[w].charge \in Charges
          /\ charge[task[w].charge].hook = "pending"
      BY <1>5 DEF HookFailed, Reading, HooksOK
    <2>2. task[w].charge = c
      BY <1>2, <2>1 DEF OnceOK, OneOpen, Open
    <2>3. charge' = [charge EXCEPT ![c].hook = "done"] /\ charge[c].state \in Failed
      BY <1>5, <2>2 DEF HookFailed, HookDone
    <2>4. charge'[c].state \in Failed /\ charge'[c].hook = "done"
      BY <2>3 DEF TypeOK, ChargeRow
    <2> QED BY <2>4 DEF Open, Live, Failed
  <1>6. ASSUME ChargeInvalid(w) PROVE FALSE
    BY <1>2, <1>6 DEF ChargeInvalid, Charged, OnceOK, ChargerOK
  <1>7. CASE TriggerWithoutMethod(w) \/ DunningWithoutMethod(w)
    <2>1. Busy(w) /\ ~task[w].seen.sub.method /\ ~ChargeInvalid(w)
      BY <1>6, <1>7 DEF TriggerWithoutMethod, DunningWithoutMethod, Reading, Busy
    <2>2. Gone
      BY <1>2, <2>1 DEF OnceOK, MethodOK
    <2>3. Fails(w)
      BY <1>7 DEF Fails
    <2> QED BY <2>1, <2>2, <2>3, FailsFields DEF Gone
  <1>8. CASE ChargeDeclined(w)
    <2>1. task[w].step = "charged" /\ task[w].result \in Failed
      BY <1>8 DEF ChargeDeclined, Charged
    <2>2. task[w].kind = "trigger"
      BY <2>1 DEF HoldInv, OnceOK, NoManual
    <2>3. ~Live(c)
      BY <1>2, <2>1, <2>2 DEF OnceOK, ChargerOK
    <2> QED BY <1>8, <2>1, <2>2, <2>3 DEF ChargeDeclined, Busy
  <1>9. ~ManualEnd(w)
    BY DEF ManualEnd, OnceOK, NoManual
  <1>10. CASE KeepLock(w)
    BY <1>10, KeepFields
  <1>11. CASE DunningCanceled(w)
    BY <1>11, CanceledFields DEF DunningCanceled, Reading
  <1>12. ~Pays(w) /\ ~TriggerCredit(w) /\ ~VoidCommit(w)
    BY <1>3, PaysFields, CreditFields, VoidFields
  <1> QED BY <1>4, <1>5, <1>6, <1>7, <1>8, <1>9, <1>10, <1>11, <1>12, EndCases
          DEF Fails, Releases, ManualFailed

(* What the end of a task may do to the subscription.                      *)
LEMMA EndsSub ==
  ASSUME TypeOK, HooksOK, HoldInv, NEW w \in Workers, Ends(w)
  PROVE  /\ sub.ended => sub'.ended
         /\ ~ChargeInvalid(w) => sub'.method = sub.method
         /\ sub'.status = "canceled" => sub.status = "canceled" \/ sub'.ended
  <1>1. CASE Fails(w)
    BY <1>1, FailsFields
  <1>2. CASE Leaves(w)
    BY <1>2, LeaveFields
  <1>3. CASE Pays(w)
    BY <1>3, PaysFields
  <1>4. CASE Releases(w)
    BY <1>4, ReleasesFields
  <1>5. CASE KeepLock(w) \/ TriggerCredit(w) \/ DunningCanceled(w) \/ VoidCommit(w)
    BY <1>5, KeepFields, CreditFields, CanceledFields, VoidFields
  <1> QED BY <1>1, <1>2, <1>3, <1>4, <1>5, EndCases

LEMMA OnceEnds ==
  ASSUME TypeOK, HooksOK, HoldInv, SeenInv, OnceOK, "crash" \notin environment, TokenOK',
         NEW w \in Workers, Ends(w)
  PROVE  OnceOK'
  <1>1. /\ Others(w) /\ task'[w].step = "idle" /\ task'[w].kind = "trigger" /\ Settles(w)
        /\ task[w].step # "idle"
    BY EndsEnd, EndFields, EndsCharge
  <1>2. \A c \in Charges : (Open(c)' => Open(c)) /\ Live(c)' = Live(c)
    BY <1>1 DEF Settles, Open, Live
  <1>3. /\ ~Busy(w)' /\ \A v \in Workers : v # w => Busy(v)' = Busy(v)
        /\ Token' => Token
        /\ Busy(w) /\ triggers' = triggers /\ dunnings' = dunnings => ~Token'
    BY TokenEnds DEF OnceOK
  <1>4. ChargeInvalid(w) =>
          Busy(w) /\ (\A c \in Charges : ~Open(c)) /\ \A v \in Workers : ~Busy(v)'
    <2>1. ChargeInvalid(w) => Busy(w) /\ \A c \in Charges : ~Open(c)
      BY DEF ChargeInvalid, Charged, Busy, OnceOK, ChargerOK
    <2>2. Busy(w) => \A v \in Workers : ~Busy(v)'
      BY <1>3 DEF OnceOK, TokenOK
    <2> QED BY <2>1, <2>2
  <1>5. /\ sub.ended => sub'.ended
        /\ ~ChargeInvalid(w) => sub'.method = sub.method
        /\ sub'.status = "canceled" => sub.status = "canceled" \/ sub'.ended
    BY EndsSub
  <1>8. OpenOK'
    <2> SUFFICES ASSUME NEW c \in Charges, Open(c)', order'.status = "pending"
                 PROVE  \/ order'.lock
                        \/ \E v \in Workers : task'[v].step = "charged"
                        \/ Gone'
                        \/ ~Live(c)' /\ ~Token'
      BY DEF OpenOK
    <2>1. Open(c) /\ order.status = "pending"
      BY <1>2, EndsStatus
    <2>2. CASE order.lock \/ task[w].step = "charged"
      BY <1>2, <1>3, <2>2, OnceKept
    <2>3. CASE \E v \in Workers : v # w /\ task[v].step = "charged"
      BY <1>1, <2>3 DEF Others
    <2>4. CASE Gone
      BY <1>4, <1>5, <2>1, <2>4 DEF Gone
    <2>5. CASE ~Live(c) /\ ~Token
      BY <1>2, <1>3, <2>5
    <2> QED BY <2>1, <2>2, <2>3, <2>4, <2>5 DEF OnceOK, OpenOK
  <1>9. SubOK'
    BY <1>2, <1>4, <1>5 DEF OnceOK, SubOK
  <1>10. MethodOK'
    <2> SUFFICES ASSUME NEW v \in Workers, Busy(v)'
                 PROVE  /\ task'[v].kind = "trigger" /\ task'[v].seen.sub.method =>
                             sub'.method \/ sub'.ended
                        /\ ~task'[v].seen.sub.method /\ (\E c \in Charges : Open(c)') => Gone'
      BY DEF MethodOK
    <2>1. v # w /\ task'[v] = task[v] /\ Busy(v)
      BY <1>1, <1>3 DEF Others
    <2>2. sub'.method = sub.method
      BY <1>4, <1>5
    <2> QED BY <1>2, <1>5, <2>1, <2>2 DEF OnceOK, MethodOK, Gone
  <1>11. ChargerOK'
    <2> SUFFICES ASSUME NEW v \in Workers, task'[v].kind = "trigger"
                 PROVE  /\ task'[v].step = "read" /\ MayCharge(task'[v].seen)
                             /\ task'[v].seen.sub.method => \A c \in Charges : ~Open(c)'
                        /\ task'[v].step = "locked" =>
                             task'[v].seen.sub.method /\ \A c \in Charges : ~Open(c)'
                        /\ task'[v].step = "charged" =>
                             \A c \in Charges : Open(c)' =>
                               /\ task'[v].charge = c /\ task'[v].result # "invalid"
                               /\ task'[v].result \in Failed => ~Live(c)'
      BY DEF ChargerOK, MayCharge
    <2>1. CASE v = w
      BY <1>1, <2>1
    <2>2. CASE v # w
      <3>1. task'[v] = task[v]
        BY <1>1, <2>2 DEF Others
      <3> QED BY <1>2, <3>1 DEF OnceOK, ChargerOK
    <2> QED BY <2>1, <2>2
  <1>12. OneOpen'
    BY <1>2 DEF OnceOK, OneOpen
  <1>13. NoManual'
    BY <1>1 DEF OnceOK, NoManual, Others
  <1> QED BY <1>8, <1>9, <1>10, <1>11, <1>12, <1>13 DEF OnceOK

LEMMA OnceStep ==
  TypeOK /\ HooksOK /\ HoldInv /\ SeenInv /\ SettlingInv /\ OnceInv /\ [Next]_vars => OnceInv'
  <1> SUFFICES ASSUME TypeOK, HooksOK, HoldInv, SeenInv, SettlingInv, OnceInv, [Next]_vars, Quiet'
               PROVE  OnceOK'
    BY DEF OnceInv
  <1>1. environment' = environment
    BY StepCases, OutsideFields, BeginFields, AcquireFields, ChargeFields, InvalidFields, EndsEnd
  <1>2. /\ Quiet /\ "crash" \notin environment /\ "manual" \notin environment
        /\ "backlog" \notin environment
    BY <1>1 DEF Quiet, Without
  <1>3. OnceOK
    BY <1>2 DEF OnceInv
  <1>4. TokenOK'
    BY <1>2, <1>3, TokenStep DEF OnceOK
  <1> QED BY <1>2, <1>3, <1>4, StepCases, OnceOutside, OnceBegin, OnceAcquire, OnceCharge,
             OnceInvalid, OnceEnds

(* Without crashes, manual retries, backlogs and late webhooks a customer  *)
(* is charged at most once for an order, whatever else happens to its      *)
(* subscription, its payment method and the organization (trigger_payment, *)
(* acquire_payment_lock_by_id).                                            *)
THEOREM ChargedOnceCorrect == Spec => []ChargedOnce
  <1> DEFINE Inv == TypeOK /\ HooksOK /\ HoldInv /\ SeenInv /\ SettlingInv /\ OnceInv
  <1>1. Init => Inv
    BY TypeInit, HooksInit, HoldInit, SeenInit, SettlingInit, OnceInit
  <1>2. Inv /\ [Next]_vars => Inv'
    BY TypeStep, HooksStep, HoldStep, SeenStep, SettlingStep, OnceStep
  <1>3. Inv => ChargedOnce
    <2> DEFINE S == {c \in Charges : charge[c].state = "succeeded"}
    <2> SUFFICES ASSUME OnceOK PROVE Cardinality(S) <= 1
      BY DEF OnceInv, Quiet, ChargedOnce
    <2>1. \A c, d \in S : c = d
      BY DEF OnceOK, OneOpen, Open, Live
    <2>2. CASE S = {}
      BY <2>2, FS_EmptySet
    <2>3. CASE S # {}
      <3>1. PICK c : S = {c}
        BY <2>1, <2>3
      <3>2. Cardinality(S) = 1
        BY <3>1, FS_Singleton
      <3> QED BY <3>2
    <2> QED BY <2>2, <2>3
  <1> QED BY <1>1, <1>2, <1>3, PTL DEF Spec

-----------------------------------------------------------------------------
(* PaidKeepsSubscription.  Whoever pays the order holds an open charge, or *)
(* is the only task there is: nobody is left who has read the order unpaid *)
(* and may still fail the payment.                                         *)

Steady == Without(Stale \cup {"manual", "revoke"})

AnyOpen == \E c \in Charges : Open(c)

(* Paystack reports no charge by a webhook.                                *)
DirectInv ==
  Processor = "paystack" =>
    \A c \in Charges : charge[c].hook # "pending" /\ charge[c].state # "processing"

CouldCharge(w) ==
  /\ task[w].kind = "trigger" /\ task[w].seen.sub.method
  /\ \/ task[w].step = "read" /\ MayCharge(task[w].seen)
     \/ task[w].step = "locked"

Unable(w) == Busy(w) /\ task[w].step = "read" /\ ~task[w].seen.sub.method

(* The tasks whose commits may write what they have read of the dates and  *)
(* the subscription, and those of them that may fail the payment.          *)
Works(w) ==
  \/ task[w].kind = "hook" \/ CouldCharge(w) \/ Unable(w)
  \/ Busy(w) /\ task[w].step = "charged"

MayFail(w) ==
  /\ Works(w) /\ task[w].seen.order.status # "paid"
  /\ task[w].step = "charged" => task[w].result = "invalid"
  /\ task[w].kind = "hook" => charge[task[w].charge].state \in Failed

NoNextOK == sub.status = "canceled" => order.next = NoDate

LostOK == ~sub.method /\ AnyOpen => sub.status = "canceled"

SpentOK ==
  sub.status = "canceled" /\ AnyOpen =>
    ~Token \/ \E w \in Workers : task[w].step = "charged"

UnableOK == \A w \in Workers : Unable(w) => ~AnyOpen

AbleOK == \A w \in Workers : CouldCharge(w) => sub.method \/ sub.status = "canceled"

FreshOK ==
  \A w \in Workers : Works(w) /\ sub.status = "canceled" =>
    task[w].seen.sub.status = "canceled" /\ task[w].seen.order.next = NoDate

SettledOK == order.status = "paid" => \A w \in Workers : ~MayFail(w)

KeepOK ==
  NoNextOK /\ LostOK /\ SpentOK /\ UnableOK /\ AbleOK /\ FreshOK /\ SettledOK

KeepInv == Steady => KeepOK

LEMMA KeepInit == Init => KeepInv
  <1> SUFFICES ASSUME Init PROVE KeepOK
    BY DEF KeepInv
  <1>1. \A w \in Workers : task[w].step = "idle" /\ task[w].kind = "trigger"
    BY DEF Init, Idle
  <1>2. \A c \in Charges : charge[c].hook = "none" /\ charge[c].state = "unused"
    BY DEF Init
  <1>3. ~AnyOpen
    BY <1>2 DEF AnyOpen, Open, Live
  <1>4. \A w \in Workers : ~Works(w) /\ ~CouldCharge(w) /\ ~MayFail(w)
    BY <1>1 DEF Works, CouldCharge, Unable, Busy, MayFail
  <1>5. NoNextOK
    BY InitFields DEF NoNextOK
  <1> QED BY <1>3, <1>4, <1>5
          DEF KeepOK, LostOK, SpentOK, UnableOK, AbleOK, FreshOK, SettledOK

LEMMA DirectInit == Init => DirectInv
  BY DEF Init, DirectInv

LEMMA DirectStep == TypeOK /\ HooksOK /\ DirectInv /\ [Next]_vars => DirectInv'
  <1> SUFFICES ASSUME TypeOK, HooksOK, DirectInv, [Next]_vars, Processor' = "paystack"
               PROVE  \A c \in Charges :
                        charge'[c].hook # "pending" /\ charge'[c].state # "processing"
    BY DEF DirectInv
  <1>1. environment' = environment
    BY StepCases, OutsideFields, BeginFields, AcquireFields, ChargeFields, InvalidFields, EndsEnd
  <1>2. Processor = "paystack"
    BY <1>1 DEF Processor
  <1>3. \A c \in Charges : charge[c].hook # "pending" /\ charge[c].state # "processing"
    BY <1>2 DEF DirectInv
  <1>4. CASE Outside
    <2>1. charge' = charge
      BY <1>3, <1>4 DEF Outside, Cron, Revoke, RemoveMethod, AddMethod, SetBlocked, Tick, vars,
         SettleCharge
    <2> QED BY <1>3, <2>1
  <1>5. ASSUME NEW w \in Workers, Begins(w) \/ AcquireLock(w) \/ CreateChargeInvalid(w)
        PROVE  charge' = charge
    BY <1>5, BeginFields, AcquireFields, InvalidFields
  <1>6. ASSUME NEW w \in Workers, CreateCharge(w)
        PROVE  \A c \in Charges :
                 charge'[c].hook # "pending" /\ charge'[c].state # "processing"
    <2>1. "processing" \notin Outcomes(w)
      BY <1>2 DEF Outcomes
    <2> QED BY <1>2, <1>3, <1>6, <2>1, ChargeFields
  <1>7. ASSUME NEW w \in Workers, Ends(w)
        PROVE  \A c \in Charges :
                 charge'[c].hook # "pending" /\ charge'[c].state # "processing"
    BY <1>3, <1>7, EndsCharge DEF Settles
  <1> QED BY <1>3, <1>4, <1>5, <1>6, <1>7, StepCases

LEMMA KeepBegin ==
  ASSUME TypeOK, HooksOK, HoldInv, OnceOK, KeepOK, "manual" \notin environment,
         NEW w \in Workers, Begins(w)
  PROVE  KeepOK'
  <1>1. /\ Others(w) /\ task[w].step = "idle" /\ task'[w].step = "read"
        /\ task'[w].seen.order = order /\ task'[w].seen.sub = sub
        /\ order' = order /\ sub' = sub /\ charge' = charge
    BY BeginFields
  <1>2. AnyOpen' = AnyOpen
    BY <1>1 DEF AnyOpen, Open, Live
  <1>3. /\ Token' => Token
        /\ task'[w].kind \in {"trigger", "dunning"} => triggers + dunnings > 0
    BY TokenBegin
  <1>4. \A v \in Workers : v # w =>
          /\ CouldCharge(v)' = CouldCharge(v) /\ Unable(v)' = Unable(v)
          /\ Works(v)' = Works(v) /\ MayFail(v)' = MayFail(v)
    BY <1>1 DEF Others, CouldCharge, Unable, Works, Busy, MayFail, MayCharge
  <1>5. NoNextOK' /\ LostOK'
    BY <1>1, <1>2 DEF KeepOK, NoNextOK, LostOK
  <1>6. SpentOK'
    BY <1>1, <1>2, <1>3 DEF KeepOK, SpentOK, Others
  <1>7. UnableOK'
    <2>1. ASSUME Unable(w)', AnyOpen PROVE FALSE
      <3>1. sub.status = "canceled"
        BY <1>1, <2>1 DEF Unable, KeepOK, LostOK
      <3>2. triggers + dunnings > 0 /\ Token
        BY <1>3, <2>1 DEF Unable, Busy, Token
      <3>3. PICK v \in Workers : task[v].step = "charged"
        BY <2>1, <3>1, <3>2 DEF KeepOK, SpentOK
      <3>4. Busy(v)
        BY <3>3 DEF HoldInv, OnceOK, NoManual, Busy
      <3> QED BY <3>2, <3>4 DEF OnceOK, TokenOK, TypeOK
    <2> QED BY <1>2, <1>4, <2>1 DEF KeepOK, UnableOK
  <1>8. AbleOK'
    <2>1. CouldCharge(w)' => sub'.method
      BY <1>1 DEF CouldCharge
    <2> QED BY <1>1, <1>4, <2>1 DEF KeepOK, AbleOK
  <1>9. FreshOK'
    <2>1. sub.status = "canceled" => order.next = NoDate
      BY DEF KeepOK, NoNextOK
    <2> QED BY <1>1, <1>4, <2>1 DEF KeepOK, FreshOK, Others
  <1>10. SettledOK'
    <2>1. MayFail(w)' => order.status # "paid"
      BY <1>1 DEF MayFail
    <2> QED BY <1>1, <1>4, <2>1 DEF KeepOK, SettledOK
  <1> QED BY <1>5, <1>6, <1>7, <1>8, <1>9, <1>10 DEF KeepOK

LEMMA KeepAcquire ==
  ASSUME TypeOK, OnceOK, KeepOK, NEW w \in Workers, AcquireLock(w)
  PROVE  KeepOK'
  <1>1. /\ Others(w) /\ task[w].step = "read" /\ task'[w].step = "locked"
        /\ task'[w].kind = task[w].kind /\ task[w].kind = "trigger"
        /\ task'[w].seen.order.status = task[w].seen.order.status
        /\ task'[w].seen.order.next = task[w].seen.order.next
        /\ task'[w].seen.sub = task[w].seen.sub
        /\ order' = order /\ sub' = sub /\ charge' = charge
        /\ triggers' = triggers /\ dunnings' = dunnings
    BY AcquireFields DEF OnceOK, NoManual
  <1>2. CouldCharge(w) /\ CouldCharge(w)'
    BY <1>1 DEF AcquireLock, WantsLock, Reading, CouldCharge
  <1>3. AnyOpen' = AnyOpen
    BY <1>1 DEF AnyOpen, Open, Live
  <1>4. \A v \in Workers : v # w =>
          /\ CouldCharge(v)' = CouldCharge(v) /\ Unable(v)' = Unable(v)
          /\ Works(v)' = Works(v) /\ MayFail(v)' = MayFail(v)
    BY <1>1 DEF Others, CouldCharge, Unable, Works, Busy, MayFail, MayCharge
  <1>5. Works(w) /\ (MayFail(w)' => MayFail(w)) /\ ~Unable(w)'
    BY <1>1, <1>2 DEF Works, MayFail, Unable
  <1>6. Token' = Token
    <2>1. \A v \in Workers : Busy(v)' = Busy(v)
      BY <1>1 DEF Others, Busy
    <2> QED BY <1>1, <2>1 DEF Token
  <1>7. NoNextOK' /\ LostOK' /\ SpentOK'
    BY <1>1, <1>3, <1>6 DEF KeepOK, NoNextOK, LostOK, SpentOK, Others
  <1>8. UnableOK'
    BY <1>3, <1>4, <1>5 DEF KeepOK, UnableOK
  <1>9. AbleOK'
    BY <1>1, <1>2, <1>4 DEF KeepOK, AbleOK
  <1>10. FreshOK'
    BY <1>1, <1>4, <1>5 DEF KeepOK, FreshOK, Others
  <1>11. SettledOK'
    BY <1>1, <1>4, <1>5 DEF KeepOK, SettledOK
  <1> QED BY <1>7, <1>8, <1>9, <1>10, <1>11 DEF KeepOK

LEMMA KeepCharge ==
  ASSUME TypeOK, HooksOK, HoldInv, OnceOK, KeepOK, NEW w \in Workers,
         CreateCharge(w) \/ CreateChargeInvalid(w)
  PROVE  KeepOK'
  <1>1. /\ Others(w) /\ task[w].step = "locked" /\ task'[w].step = "charged"
        /\ task'[w].kind = "trigger" /\ task[w].kind = "trigger"
        /\ task'[w].seen = task[w].seen
        /\ order' = order /\ sub' = sub
        /\ triggers' = triggers /\ dunnings' = dunnings
    BY ChargeFields, InvalidFields DEF HoldInv, OnceOK, NoManual
  <1>2. Busy(w) /\ CouldCharge(w) /\ Works(w)
    BY <1>1 DEF Busy, OnceOK, ChargerOK, CouldCharge, Works
  <1>3. \A v \in Workers : v # w => ~Busy(v)
    BY <1>2 DEF OnceOK, TokenOK
  <1>4. \A v \in Workers : v # w /\ task[v].kind = "hook" =>
          charge'[task[v].charge].state = charge[task[v].charge].state
    <2>1. ASSUME NEW v \in Workers, task[v].kind = "hook"
          PROVE  task[v].charge \in Charges /\ charge[task[v].charge].state # "unused"
      BY <2>1 DEF HooksOK
    <2> QED BY <2>1, ChargeFields, InvalidFields
  <1>5. \A v \in Workers : v # w =>
          /\ ~CouldCharge(v)' /\ ~Unable(v)'
          /\ (Works(v)' => Works(v)) /\ (MayFail(v)' => MayFail(v))
    BY <1>1, <1>3, <1>4 DEF Others, CouldCharge, Unable, Works, Busy, MayFail
  <1>6. ~CouldCharge(w)' /\ ~Unable(w)'
    BY <1>1 DEF CouldCharge, Unable
  <1>7. MayFail(w)' => MayFail(w)
    BY <1>1, <1>2 DEF MayFail
  <1>8. sub.method \/ sub.status = "canceled"
    BY <1>2 DEF KeepOK, AbleOK
  <1>9. NoNextOK' /\ LostOK' /\ SpentOK'
    BY <1>1, <1>8 DEF KeepOK, NoNextOK, LostOK, SpentOK
  <1>10. UnableOK' /\ AbleOK'
    BY <1>5, <1>6 DEF UnableOK, AbleOK
  <1>11. FreshOK'
    BY <1>1, <1>2, <1>5 DEF KeepOK, FreshOK, Others
  <1>12. SettledOK'
    BY <1>1, <1>5, <1>7 DEF KeepOK, SettledOK
  <1> QED BY <1>9, <1>10, <1>11, <1>12 DEF KeepOK

LEMMA KeepOutside ==
  ASSUME TypeOK, HooksOK, SettlingInv, OnceOK, KeepOK, Steady, Outside
  PROVE  KeepOK'
  <1>1. task' = task /\ order'.status = order.status
    BY OutsideFields
  <1>2. AnyOpen' => AnyOpen
    <2>1. ASSUME NEW c \in Charges, SettleCharge(c) PROVE \A d \in Charges : Open(d)' => Open(d)
      BY <2>1, SettleFields DEF Open, Live
    <2>2. CASE charge' = charge
      BY <2>2 DEF Open, Live, AnyOpen
    <2> QED BY <2>1, <2>2 DEF AnyOpen, Outside, Cron, Revoke, RemoveMethod, AddMethod, SetBlocked,
               Tick, vars
  <1>3. \A v \in Workers :
          /\ CouldCharge(v)' = CouldCharge(v) /\ Unable(v)' = Unable(v)
          /\ Works(v)' = Works(v) /\ (MayFail(v)' => MayFail(v))
    <2>1. \A v \in Workers : task[v].kind = "hook" =>
            charge'[task[v].charge].state = charge[task[v].charge].state
      <3>1. \A v \in Workers : task[v].kind = "hook" =>
              task[v].charge \in Charges /\ charge[task[v].charge].hook = "pending"
        BY DEF HooksOK
      <3>2. ASSUME NEW c \in Charges, SettleCharge(c)
            PROVE  charge[c].hook = "none" /\ \A d \in Charges : d # c => charge'[d] = charge[d]
        BY <3>2, SettleFields DEF SettlingInv
      <3> QED BY <3>1, <3>2 DEF Outside, Cron, Revoke, RemoveMethod, AddMethod, SetBlocked, Tick,
                 vars
    <2>2. \A v \in Workers : CouldCharge(v)' = CouldCharge(v) /\ Unable(v)' = Unable(v)
      BY <1>1 DEF CouldCharge, Unable, Busy, MayCharge
    <2>3. \A v \in Workers : Works(v)' = Works(v)
      BY <1>1, <2>2 DEF Works, Busy
    <2> QED BY <1>1, <2>1, <2>2, <2>3 DEF MayFail
  <1>4. "revoke" \notin environment
    BY DEF Steady, Without
  <1>5. /\ sub'.status = sub.status
        /\ sub'.method \/ sub'.method = sub.method \/ sub.status = "canceled"
        /\ sub.status = "canceled" => order'.next = order.next
    <2>1. sub \in SubRow /\ order \in OrderRow
      BY DEF TypeOK
    <2>2. ~Revoke
      BY <1>4 DEF Revoke
    <2>3. CASE RemoveMethod
      BY <2>1, <2>3 DEF RemoveMethod, Billable, SubRow
    <2>4. CASE AddMethod
      BY <2>1, <2>4 DEF AddMethod, SubRow
    <2>5. CASE Tick
      <3>1. sub'.status = sub.status /\ sub'.method = sub.method
        BY <2>1, <2>5 DEF Tick, SubRow
      <3>2. order.next = NoDate => order'.next = order.next
        BY <2>1, <2>5 DEF Tick, OrderRow, NoDate
      <3> QED BY <3>1, <3>2 DEF KeepOK, NoNextOK
    <2>6. CASE sub' = sub /\ order' = order
      BY <2>6
    <2> QED BY <2>2, <2>3, <2>4, <2>5, <2>6 DEF Outside, Cron, SetBlocked, SettleCharge, vars
  <1>6. NoNextOK' /\ LostOK'
    BY <1>2, <1>5 DEF KeepOK, NoNextOK, LostOK
  <1>7. SpentOK'
    <2>1. CASE Cron
      <3>1. sub.status # "canceled"
        BY <2>1 DEF Cron, KeepOK, NoNextOK, NoDate
      <3> QED BY <1>5, <3>1 DEF SpentOK
    <2>2. CASE ~Cron
      <3>1. triggers' = triggers /\ dunnings' = dunnings
        BY <2>2 DEF Outside, Revoke, RemoveMethod, AddMethod, SetBlocked, Tick, SettleCharge, vars
      <3>2. \A v \in Workers : Busy(v)' = Busy(v)
        BY <1>1 DEF Busy
      <3>3. Token' = Token
        BY <3>1, <3>2 DEF Token
      <3> QED BY <1>1, <1>2, <1>5, <3>3 DEF KeepOK, SpentOK
    <2> QED BY <2>1, <2>2
  <1>8. UnableOK'
    BY <1>2, <1>3 DEF KeepOK, UnableOK
  <1>9. AbleOK'
    BY <1>3, <1>5 DEF KeepOK, AbleOK
  <1>10. FreshOK'
    BY <1>1, <1>3, <1>5 DEF KeepOK, FreshOK
  <1>11. SettledOK'
    BY <1>1, <1>3 DEF KeepOK, SettledOK
  <1> QED BY <1>6, <1>7, <1>8, <1>9, <1>10, <1>11 DEF KeepOK

(* A task that fails the payment does so alone: its charge was the only    *)
(* one open, or none was.                                                  *)
LEMMA FailsAlone ==
  ASSUME TypeOK, HooksOK, HoldInv, OnceOK, KeepOK, NEW w \in Workers, Fails(w)
  PROVE  /\ Works(w) /\ (task[w].seen.order.status # "paid" => MayFail(w))
         /\ ~AnyOpen'
         /\ \A v \in Workers : v # w => ~Works(v)
  <1>1. /\ rowLock \in {Nobody, w} /\ \A v \in Workers : v # Nobody
        /\ Settles(w)
    BY FailsCommit, WorkersAssumption, EndsCharge
       DEF Commit, Fails, Ends, TriggerStep, DunningStep, HookStep
  <1>2. \A v \in Workers : v # w => task[v].step \notin {"locked", "charged"}
    BY <1>1 DEF HoldInv
  <1>3. AnyOpen' => AnyOpen
    BY <1>1 DEF AnyOpen, Settles, Open, Live
  <1>4. CASE ~HookFailed(w)
    <2>1. Busy(w) /\ Works(w) /\ (task[w].seen.order.status # "paid" => MayFail(w))
      <3>1. CASE TriggerWithoutMethod(w) \/ DunningWithoutMethod(w)
        <4>1. Unable(w) /\ task[w].kind # "hook"
          BY <3>1 DEF TriggerWithoutMethod, DunningWithoutMethod, Reading, Unable, Busy
        <4> QED BY <4>1 DEF Unable, Works, MayFail
      <3>2. CASE ChargeInvalid(w)
        <4>1. Busy(w) /\ task[w].step = "charged" /\ task[w].result = "invalid"
              /\ task[w].kind # "hook"
          BY <3>2 DEF ChargeInvalid, Charged, Busy
        <4> QED BY <4>1 DEF Works, MayFail
      <3> QED BY <1>4, <3>1, <3>2 DEF Fails
    <2>2. ~AnyOpen
      <3>1. CASE TriggerWithoutMethod(w) \/ DunningWithoutMethod(w)
        <4>1. Unable(w)
          BY <3>1 DEF TriggerWithoutMethod, DunningWithoutMethod, Reading, Unable, Busy
        <4> QED BY <4>1 DEF KeepOK, UnableOK
      <3>2. CASE ChargeInvalid(w)
        BY <3>2 DEF ChargeInvalid, Charged, OnceOK, ChargerOK, AnyOpen
      <3> QED BY <1>4, <3>1, <3>2 DEF Fails
    <2>3. ASSUME NEW v \in Workers, v # w, Works(v) PROVE FALSE
      <3>1. ~Busy(v)
        BY <2>1, <2>3 DEF OnceOK, TokenOK
      <3>2. task[v].kind = "hook"
        BY <2>3, <3>1 DEF Works, CouldCharge, Unable, Busy
      <3>3. task[v].charge \in Charges /\ Open(task[v].charge)
        BY <3>2 DEF HooksOK, Open
      <3> QED BY <2>2, <3>3 DEF AnyOpen
    <2> QED BY <1>3, <2>1, <2>2, <2>3
  <1>5. CASE HookFailed(w)
    <2>1. PICK c \in Charges :
            /\ task[w].kind = "hook" /\ task[w].step = "read" /\ task[w].charge = c
            /\ charge[c].hook = "pending" /\ charge[c].state \in Failed
            /\ charge' = [charge EXCEPT ![c].hook = "done"]
      BY <1>5 DEF HookFailed, Reading, HooksOK, HookDone
    <2>2. Open(c) /\ \A d \in Charges : Open(d) => d = c
      BY <2>1 DEF OnceOK, OneOpen, Open
    <2>3. Works(w) /\ (task[w].seen.order.status # "paid" => MayFail(w))
      BY <2>1 DEF Works, MayFail
    <2>4. ~AnyOpen'
      <3>1. charge'[c].state \in Failed /\ charge'[c].hook = "done"
        BY <2>1 DEF TypeOK, ChargeRow
      <3>2. ~Open(c)'
        BY <3>1 DEF Open, Live, Failed
      <3>3. \A d \in Charges : Open(d)' => Open(d)
        BY <1>1 DEF Settles, Open, Live
      <3> QED BY <2>2, <3>2, <3>3 DEF AnyOpen
    <2>5. ASSUME NEW v \in Workers, v # w, Works(v) PROVE FALSE
      <3>1. ~CouldCharge(v)
        BY <1>2, <2>1, <2>2, <2>5 DEF CouldCharge, OnceOK, ChargerOK
      <3>2. ~Unable(v)
        BY <2>1, <2>2 DEF KeepOK, UnableOK, AnyOpen
      <3>3. task[v].kind # "hook"
        BY <2>1, <2>2, <2>5 DEF HooksOK, Open
      <3> QED BY <1>2, <2>5, <3>1, <3>2, <3>3 DEF Works
    <2> QED BY <2>3, <2>4, <2>5
  <1> QED BY <1>4, <1>5

(* Whoever pays the order leaves nobody who may fail the payment.          *)
LEMMA PaysAlone ==
  ASSUME TypeOK, HooksOK, HoldInv, DirectInv, OnceOK, KeepOK, NEW w \in Workers,
         Pays(w) \/ TriggerCredit(w), NEW v \in Workers, v # w
  PROVE  ~MayFail(v)
  <1>1. CASE PaidAtOnce(w) \/ TriggerCredit(w)
    <2>1. Busy(w)
      <3>1. PaidAtOnce(w) => task[w].step = "charged"
        BY DEF PaidAtOnce, Charged
      <3>2. PaidAtOnce(w) => task[w].kind = "trigger"
        BY <3>1 DEF HoldInv, OnceOK, NoManual
      <3> QED BY <1>1, <3>1, <3>2 DEF TriggerCredit, Reading, Busy
    <2>2. ~Busy(v)
      BY <2>1 DEF OnceOK, TokenOK
    <2>3. task[v].kind = "hook" => \E c \in Charges : charge[c].hook = "pending"
      BY DEF HooksOK
    <2>4. TriggerCredit(w) => \A c \in Charges : charge[c].hook # "pending"
      BY DEF TriggerCredit, Reading, OnceOK, ChargerOK, Open
    <2>5. PaidAtOnce(w) => \A c \in Charges : charge[c].hook # "pending"
      BY DEF PaidAtOnce, DirectInv
    <2> QED BY <1>1, <2>2, <2>3, <2>4, <2>5 DEF MayFail, Works, CouldCharge, Unable, Busy
  <1>2. CASE HookSucceeded(w)
    <2> DEFINE c == task[w].charge
    <2>1. /\ task[w].kind = "hook" /\ c \in Charges /\ charge[c].state = "succeeded"
          /\ rowLock \in {Nobody, w}
      BY <1>2 DEF HookSucceeded, Reading, HooksOK, Commit
    <2>2. Open(c) /\ \A d \in Charges : Open(d) => d = c
      BY <2>1 DEF OnceOK, OneOpen, Open, Live
    <2>3. task[v].step \notin {"locked", "charged"}
      BY <2>1, WorkersAssumption DEF HoldInv
    <2>4. ~CouldCharge(v)
      BY <2>1, <2>2, <2>3 DEF CouldCharge, OnceOK, ChargerOK
    <2>5. ~Unable(v)
      BY <2>1, <2>2 DEF KeepOK, UnableOK, AnyOpen
    <2>6. task[v].kind # "hook"
      BY <2>1, <2>2 DEF HooksOK, Open
    <2> QED BY <2>3, <2>4, <2>5, <2>6 DEF MayFail, Works
  <1> QED BY <1>1, <1>2 DEF Pays

(* Unless it fails the payment of an order it has read unpaid, a task ends *)
(* without canceling the subscription or bringing it back.                 *)
LEMMA EndsKeep ==
  ASSUME TypeOK, HooksOK, HoldInv, OnceOK, KeepOK, NEW w \in Workers, Ends(w)
  PROVE  \/ Fails(w) /\ task[w].seen.order.status # "paid"
         \/ /\ sub'.status = "canceled" <=> sub.status = "canceled"
            /\ order'.next \in {order.next, NoDate}
  <1>1. CASE Fails(w)
    BY <1>1, FailsFields
  <1>2. CASE Leaves(w)
    BY <1>2, LeaveFields
  <1>3. CASE Pays(w)
    <2>1. Works(w)
      <3>1. PaidAtOnce(w) => task[w].step = "charged"
        BY DEF PaidAtOnce, Charged
      <3>2. PaidAtOnce(w) => task[w].kind = "trigger"
        BY <3>1 DEF HoldInv, OnceOK, NoManual
      <3>3. HookSucceeded(w) => task[w].kind = "hook"
        BY DEF HookSucceeded, Reading
      <3> QED BY <1>3, <3>1, <3>2, <3>3 DEF Pays, Works, Busy
    <2>2. sub.status = "canceled" => task[w].seen.sub.status = "canceled"
      BY <2>1 DEF KeepOK, FreshOK
    <2> QED BY <1>3, <2>2, PaysFields
  <1>4. CASE Releases(w)
    BY <1>4, ReleasesFields
  <1>5. CASE KeepLock(w) \/ TriggerCredit(w) \/ DunningCanceled(w) \/ VoidCommit(w)
    BY <1>5, KeepFields, CreditFields, CanceledFields, VoidFields
  <1> QED BY <1>1, <1>2, <1>3, <1>4, <1>5, EndCases

LEMMA KeepEnds ==
  ASSUME TypeOK, HooksOK, HoldInv, SeenInv, DirectInv, OnceOK, KeepOK,
         "crash" \notin environment, NEW w \in Workers, Ends(w)
  PROVE  KeepOK'
  <1> DEFINE seen == task[w].seen
             unpaid == Fails(w) /\ seen.order.status # "paid"
  <1>1. /\ Others(w) /\ task'[w].step = "idle" /\ task'[w].kind = "trigger" /\ Settles(w)
        /\ task[w].step # "idle"
    BY EndsEnd, EndFields, EndsCharge
  <1>2. AnyOpen' => AnyOpen
    BY <1>1 DEF AnyOpen, Settles, Open, Live
  <1>3. /\ Token' => Token
        /\ Busy(w) /\ triggers' = triggers /\ dunnings' = dunnings => ~Token'
    BY TokenEnds DEF OnceOK
  <1>4. /\ ~CouldCharge(w)' /\ ~Unable(w)' /\ ~Works(w)' /\ ~MayFail(w)'
        /\ \A v \in Workers : v # w =>
             /\ CouldCharge(v)' = CouldCharge(v) /\ Unable(v)' = Unable(v)
             /\ Works(v)' = Works(v) /\ (MayFail(v)' => MayFail(v))
    <2>1. ~CouldCharge(w)' /\ ~Unable(w)' /\ ~Works(w)' /\ ~MayFail(w)'
      BY <1>1 DEF CouldCharge, Unable, Works, Busy, MayFail
    <2>2. ASSUME NEW v \in Workers, v # w
          PROVE  /\ CouldCharge(v)' = CouldCharge(v) /\ Unable(v)' = Unable(v)
                 /\ Works(v)' = Works(v) /\ (MayFail(v)' => MayFail(v))
      <3>1. task'[v] = task[v]
        BY <1>1, <2>2 DEF Others
      <3>2. CouldCharge(v)' = CouldCharge(v) /\ Unable(v)' = Unable(v) /\ Busy(v)' = Busy(v)
        BY <3>1 DEF CouldCharge, Unable, Busy, MayCharge
      <3>3. Works(v)' = Works(v)
        BY <3>1, <3>2 DEF Works
      <3>4. task[v].kind = "hook" =>
              charge'[task[v].charge].state = charge[task[v].charge].state
        BY <1>1 DEF HooksOK, Settles
      <3> QED BY <3>1, <3>2, <3>3, <3>4 DEF MayFail
    <2> QED BY <2>1, <2>2
  <1>5. unpaid => ~AnyOpen' /\ Works(w) /\ \A v \in Workers : ~Works(v)'
    BY <1>4, FailsAlone
  <1>6. ~unpaid => /\ sub'.status = "canceled" <=> sub.status = "canceled"
                   /\ order'.next \in {order.next, NoDate}
    BY EndsKeep
  <1>7. /\ ChargeInvalid(w) \/ sub'.method = sub.method
        /\ ChargeInvalid(w) => ~AnyOpen /\ \A v \in Workers : ~CouldCharge(v)'
    <2>1. ChargeInvalid(w) => Busy(w) /\ ~AnyOpen
      BY DEF ChargeInvalid, Charged, Busy, OnceOK, ChargerOK, AnyOpen
    <2>2. Busy(w) => \A v \in Workers : v # w => ~Busy(v)
      BY DEF OnceOK, TokenOK
    <2> QED BY <1>4, <2>1, <2>2, EndsSub DEF CouldCharge, Busy
  <1>8. NoNextOK'
    <2>1. CASE unpaid
      <3>1. sub.status = "canceled" => seen.order.next = NoDate
        BY <1>5, <2>1 DEF KeepOK, FreshOK
      <3> QED BY <2>1, <3>1, FailsFields DEF NoNextOK
    <2>2. CASE ~unpaid
      BY <1>6, <2>2 DEF KeepOK, NoNextOK
    <2> QED BY <2>1, <2>2
  <1> HIDE DEF unpaid
  <1>9. LostOK'
    BY <1>2, <1>5, <1>6, <1>7 DEF KeepOK, LostOK
  <1>10. SpentOK'
    <2> SUFFICES ASSUME sub'.status = "canceled", AnyOpen', Token'
                 PROVE  \E v \in Workers : task'[v].step = "charged"
      BY DEF SpentOK
    <2>1. PICK v \in Workers : task[v].step = "charged"
      BY <1>2, <1>3, <1>5, <1>6 DEF KeepOK, SpentOK
    <2>2. CASE v = w
      <3>1. Busy(w)
        BY <1>1, <2>1, <2>2 DEF Busy, HoldInv, OnceOK, NoManual
      <3>2. triggers' = triggers /\ dunnings' = dunnings
        BY <2>1, <2>2, EndCases DEF Leaves, TriggerRefused, TriggerSkipped, LockRefused, WantsLock,
           HookRefused, DunningTriggers, Crash, Reading, Fails, TriggerWithoutMethod,
           DunningWithoutMethod, ChargeInvalid, HookFailed, Pays, PaidAtOnce, HookSucceeded,
           Releases, ChargeDeclined, ManualEnd, ManualFailed, KeepLock, TriggerCredit,
           DunningCanceled, VoidCommit
      <3> QED BY <1>3, <3>1, <3>2
    <2>3. CASE v # w
      BY <1>1, <2>1, <2>3 DEF Others
    <2> QED BY <2>2, <2>3
  <1>11. UnableOK'
    BY <1>2, <1>4 DEF KeepOK, UnableOK
  <1>12. AbleOK'
    <2> SUFFICES ASSUME NEW v \in Workers, CouldCharge(v)'
                 PROVE  sub'.method \/ sub'.status = "canceled"
      BY DEF AbleOK
    <2>1. v # w /\ CouldCharge(v) /\ Works(v)'
      BY <1>4 DEF Works
    <2>2. sub.method \/ sub.status = "canceled"
      BY <2>1 DEF KeepOK, AbleOK
    <2> QED BY <1>5, <1>6, <1>7, <2>1, <2>2
  <1>13. FreshOK'
    <2> SUFFICES ASSUME NEW v \in Workers, Works(v)', sub'.status = "canceled"
                 PROVE  task'[v].seen.sub.status = "canceled"
                        /\ task'[v].seen.order.next = NoDate
      BY DEF FreshOK
    <2>1. v # w /\ Works(v) /\ task'[v] = task[v]
      BY <1>1, <1>4 DEF Others
    <2>2. sub.status = "canceled"
      BY <1>5, <1>6
    <2> QED BY <2>1, <2>2 DEF KeepOK, FreshOK
  <1>14. SettledOK'
    <2> SUFFICES ASSUME order'.status = "paid", NEW v \in Workers, MayFail(v)' PROVE FALSE
      BY DEF SettledOK
    <2>1. v # w /\ MayFail(v)
      BY <1>4
    <2>2. order.status # "paid"
      BY <2>1 DEF KeepOK, SettledOK
    <2>3. Pays(w) \/ TriggerCredit(w)
      <3>1. ~VoidCommit(w)
        BY <2>2, VoidFields
      <3> QED BY <2>2, <3>1, EndCases, LeaveFields, FailsFields, ReleasesFields, KeepFields,
                 CanceledFields
    <2> QED BY <2>1, <2>3, PaysAlone
  <1> QED BY <1>8, <1>9, <1>10, <1>11, <1>12, <1>13, <1>14 DEF KeepOK

LEMMA KeepStep ==
  TypeOK /\ HooksOK /\ HoldInv /\ SeenInv /\ SettlingInv /\ DirectInv /\ OnceInv /\ KeepInv
  /\ [Next]_vars => KeepInv'
  <1> SUFFICES ASSUME TypeOK, HooksOK, HoldInv, SeenInv, SettlingInv, DirectInv, OnceInv, KeepInv,
                      [Next]_vars, Steady'
               PROVE  KeepOK'
    BY DEF KeepInv
  <1>1. environment' = environment
    BY StepCases, OutsideFields, BeginFields, AcquireFields, ChargeFields, InvalidFields, EndsEnd
  <1>2. /\ Steady /\ Quiet /\ "crash" \notin environment /\ "manual" \notin environment
    BY <1>1 DEF Steady, Quiet, Without, Stale
  <1>3. OnceOK /\ KeepOK
    BY <1>2 DEF OnceInv, KeepInv
  <1> QED BY <1>2, <1>3, StepCases, KeepOutside, KeepBegin, KeepAcquire, KeepCharge, KeepEnds

(* The subscription of a paid order that is active stays active: no task   *)
(* or webhook that has read the order before it was paid fails its payment *)
(* afterwards (handle_payment_failure returns early for a paid order only).*)
THEOREM PaidKeepsSubscriptionCorrect == Spec => PaidKeepsSubscription
  <1> DEFINE Inv == /\ TypeOK /\ HooksOK /\ HoldInv /\ SeenInv /\ SettlingInv /\ DirectInv
                    /\ OnceInv /\ KeepInv
             Keeps == Steady /\ order.status = "paid" /\ sub.status = "active"
                        => sub'.status = "active"
  <1>1. Init => Inv
    BY TypeInit, HooksInit, HoldInit, SeenInit, SettlingInit, DirectInit, OnceInit, KeepInit
  <1>2. Inv /\ [Next]_vars => Inv'
    BY TypeStep, HooksStep, HoldStep, SeenStep, SettlingStep, DirectStep, OnceStep, KeepStep
  <1>3. Inv /\ [Next]_vars => Keeps
    <2> SUFFICES ASSUME Inv, [Next]_vars, Steady, order.status = "paid", sub.status = "active"
                 PROVE  sub'.status = "active"
      OBVIOUS
    <2>1. OnceOK /\ KeepOK /\ "revoke" \notin environment
      BY DEF Steady, Quiet, Without, Stale, OnceInv, KeepInv
    <2>2. CASE Outside
      <3>1. sub \in SubRow
        BY DEF TypeOK
      <3>2. sub' = sub \/ RemoveMethod \/ AddMethod \/ Tick
        BY <2>1, <2>2 DEF Outside, Cron, Revoke, SetBlocked, SettleCharge, vars
      <3> QED BY <3>1, <3>2 DEF RemoveMethod, AddMethod, Tick, SubRow
    <2>3. ASSUME NEW w \in Workers,
                 Begins(w) \/ AcquireLock(w) \/ CreateCharge(w) \/ CreateChargeInvalid(w)
          PROVE  sub' = sub
      BY <2>3, BeginFields, AcquireFields, ChargeFields, InvalidFields
    <2>4. ASSUME NEW w \in Workers, Ends(w) PROVE sub'.status = "active"
      <3>1. CASE Fails(w)
        <4>1. task[w].seen.order.status = "paid"
          BY <2>1, <3>1, FailsAlone DEF KeepOK, SettledOK
        <4> QED BY <3>1, <4>1, FailsFields
      <3>2. CASE ~Fails(w)
        BY <2>4, <3>2, EndCases, LeaveFields, PaysFields, ReleasesFields, KeepFields, CreditFields,
           CanceledFields, VoidFields
      <3> QED BY <3>1, <3>2
    <2> QED BY <2>2, <2>3, <2>4, StepCases
  <1>4. Keeps => [Without(Stale \cup {"manual", "revoke"})
                  /\ order.status = "paid" /\ sub.status = "active" => sub'.status = "active"]_vars
    BY DEF Steady
  <1> QED BY <1>1, <1>2, <1>3, <1>4, PTL DEF Spec, PaidKeepsSubscription

=============================================================================
