------------------------ MODULE BenefitGrants_proofs ------------------------
(***************************************************************************)
(* Theorems about BenefitGrants, for every value of its constants.         *)
(***************************************************************************)
EXTENDS BenefitGrants, FiniteSetTheorems, TLAPS

-----------------------------------------------------------------------------
(* A customer who is entitled keeps the grant: without hasty changes what  *)
(* is on its way for a purchase agrees with what the purchase wants.       *)

Runs(w) == task[w].step # "idle"

Gives(m) == m.kind \in {"grant", "update"}
Takes(m) == m.kind \in {"revoke", "delete"}

Agrees(m, p) ==
  /\ m.kind = "start" => active[p]
  /\ m.kind \in {"stop", "revoke"} => ~Entitled(p)
  /\ m.kind = "delete" => Deleted
  /\ Gives(m) => Entitled(p) \/ May("late_connect")

EntitledInv ==
  Without({"hasty"}) => \A p \in Purchases : \A m \in InFlight(p) : Agrees(m, p)

-----------------------------------------------------------------------------
(* One account of the customer and one task at a time, and nothing fails   *)
(* that is about to be revoked.                                            *)

Calm ==
  /\ Without({"parallel", "switch"})
  /\ Without({"uninstall"}) \/ Without({"hasty", "late_connect"})

(* A grant that is given an account keeps it until it is revoked, and what *)
(* is revoked or granted has had one.                                      *)
RowOK(p) ==
  LET g == grants[p]
  IN /\ g.given # NoAccount =>
          g.account = g.given /\ (g.granted \/ g.revoked \/ May("uninstall"))
     /\ g.granted => g.given # NoAccount /\ ~g.revoked
     /\ g.revoked => g.account # NoAccount

SameAccount ==
  /\ \A p, q \in Purchases :
       grants[p].account # NoAccount /\ grants[q].account # NoAccount
         => grants[p].account = grants[q].account
  /\ \A a \in access : \E p \in Purchases : grants[p].account = a

(* What a task has read is still so when it is written, apart from an      *)
(* account that was connected meanwhile.                                   *)
SeenOK(w) ==
  LET t == task[w]
      g == grants[t.message.purchase]
  IN /\ t.seen.stored = g.stored /\ t.seen.granted = g.granted
     /\ t.seen.revoked = g.revoked /\ t.seen.given = g.given
     /\ t.seen.account # NoAccount => t.seen.account = g.account
     /\ t.seen.given # NoAccount => t.seen.account = t.seen.given
     /\ t.seen.revoked => t.seen.account # NoAccount

(* What a task that is running has read and done.                          *)
StepOK(w) ==
  LET t == task[w]
  IN /\ Gives(t.message) \/ Takes(t.message)
     /\ t.message.kind = "grant" => ~t.seen.granted
     /\ t.message.kind # "grant" => ~t.seen.revoked
     /\ Gives(t.message) /\ t.step = "required" =>
          t.seen.account = NoAccount \/ May("uninstall")
     /\ Gives(t.message) /\ t.step = "done" =>
          t.seen.account # NoAccount /\ t.seen.account \in access
     /\ Takes(t.message) => t.seen.granted
     /\ Takes(t.message) /\ t.step = "done" => t.seen.given \notin access
     /\ Takes(t.message) /\ t.step = "required" =>
          (~t.last /\ t.message.kind = "revoke") \/ May("uninstall")

(* A revocation is the last one if it has counted no other grant.          *)
LastOK(w) ==
  LET t == task[w]
      others == {q \in Purchases \ {t.message.purchase} : grants[q].granted}
  IN t.message.kind = "revoke" => (t.last <=> others = {})

Serial == \A v, w \in Workers : Runs(v) /\ Runs(w) => v = w

RowsOK == \A p \in Purchases : RowOK(p)

TasksOK == \A w \in Workers : Runs(w) => SeenOK(w) /\ StepOK(w) /\ LastOK(w)

(* Nothing is taken away that was not given.                               *)
TakesOK ==
  \A p \in Purchases : \A m \in InFlight(p) :
    Takes(m) => grants[p].granted \/ grants[p].revoked

CalmInv == Serial /\ RowsOK /\ SameAccount /\ TasksOK /\ TakesOK

(* While a benefit is deleted in order, nothing gives it any more and what *)
(* is granted is on its way to be deleted.                                 *)
Orderly == Deleted /\ Without({"hasty", "late_connect"})

InOrder(m) ==
  /\ m.kind = "delete" => deletion = "done"
  /\ Orderly => ~Gives(m)
  /\ Deleted /\ Without({"hasty"}) => m.kind # "grant"

OnlyDeletes == Orderly => \A w \in Workers : Runs(w) => task[w].message.kind = "delete"

WillBeDeleted ==
  Orderly /\ deletion = "done" =>
    \A p \in Purchases : grants[p].granted => \E m \in InFlight(p) : m.kind = "delete"

DeletionInv ==
  /\ \A p \in Purchases : \A m \in InFlight(p) : InOrder(m)
  /\ OnlyDeletes /\ WillBeDeleted

Held(p) ==
  \/ grants[p].given \in access
  \/ ~Deleted /\ \E m \in InFlight(p) : m.kind = "revoke"
  \/ Deleted /\ \E m \in InFlight(p) : m.kind = "delete"
  \/ Deleted /\ ~Orderly

HeldInv == \A p \in Purchases : grants[p].granted => Held(p)

(* What access rests on: a grant, a task that has called and will write    *)
(* it, or, after a crash, a message that will call again.                  *)
Retried == May("crash") /\ (Deleted => Without({"hasty"}))

Recorded(a) ==
  \/ \E p \in Purchases : grants[p].granted /\ grants[p].given = a
  \/ \E w \in Workers : /\ task[w].step = "done" /\ Gives(task[w].message)
                        /\ task[w].seen.account = a
  \/ \E w \in Workers : /\ Retried /\ task[w].step = "call" /\ Gives(task[w].message)
                        /\ task[w].seen.account = a
  \/ \E p \in Purchases, m \in messages :
       /\ Retried /\ m.purchase = p /\ Gives(m)
       /\ grants[p].account = a /\ ~grants[p].granted
       /\ m.kind = "update" => ~grants[p].revoked

Dependable ==
  Without({"uninstall"}) /\ (Deleted => Without({"hasty"}) \/ Without({"crash"}))

AccessInv == Dependable => \A a \in access : Recorded(a)

GrantInv == Calm => CalmInv /\ DeletionInv /\ HeldInv /\ AccessInv

-----------------------------------------------------------------------------
(* The values of the operators.                                            *)

AnyAccount == Accounts \cup {NoAccount}

LEMMA RowFields ==
  ASSUME NEW r \in Row
  PROVE  /\ r.stored \in BOOLEAN /\ r.granted \in BOOLEAN /\ r.revoked \in BOOLEAN
         /\ r.errored \in BOOLEAN
         /\ r.account \in AnyAccount /\ r.given \in AnyAccount
  <1>1. /\ r.stored \in BOOLEAN /\ r.granted \in BOOLEAN /\ r.revoked \in BOOLEAN
        /\ r.errored \in BOOLEAN
    BY DEF Row
  <1>2. r.account \in AnyAccount /\ r.given \in AnyAccount
    BY DEF Row, AnyAccount
  <1> QED BY <1>1, <1>2

LEMMA GrantedRow ==
  ASSUME NEW row \in Row, NEW seen \in Row
  PROVE  /\ Granted(row, seen) \in Row
         /\ Granted(row, seen).stored /\ Granted(row, seen).granted
         /\ Granted(row, seen).revoked <=> ~seen.revoked /\ row.revoked
         /\ Granted(row, seen).account =
              IF seen.account = seen.given THEN row.account ELSE seen.account
         /\ Granted(row, seen).given = seen.account
  <1>1. Granted(row, seen) \in Row
    BY ZenonT(60) DEF Granted, Row
  <1>2. Granted(row, seen).stored /\ Granted(row, seen).granted
    BY DEF Granted, Row
  <1>3. Granted(row, seen).revoked <=> ~seen.revoked /\ row.revoked
    BY DEF Granted, Row
  <1>4. /\ Granted(row, seen).account =
              IF seen.account = seen.given THEN row.account ELSE seen.account
        /\ Granted(row, seen).given = seen.account
    BY DEF Granted, Row
  <1> QED BY <1>1, <1>2, <1>3, <1>4

LEMMA FailedRow ==
  ASSUME NEW row \in Row, NEW seen \in Row
  PROVE  /\ Failed(row, seen) \in Row
         /\ Failed(row, seen).stored /\ Failed(row, seen).errored
         /\ Failed(row, seen).granted <=> ~seen.granted /\ row.granted
         /\ Failed(row, seen).revoked <=> ~seen.revoked /\ row.revoked
         /\ Failed(row, seen).account = row.account /\ Failed(row, seen).given = row.given
  <1>1. Failed(row, seen) \in Row
    BY DEF Failed, Row
  <1>2. Failed(row, seen).stored /\ Failed(row, seen).errored
    BY DEF Failed, Row
  <1>3. Failed(row, seen).granted <=> ~seen.granted /\ row.granted
    BY DEF Failed, Row
  <1>4. Failed(row, seen).revoked <=> ~seen.revoked /\ row.revoked
    BY DEF Failed, Row
  <1>5. Failed(row, seen).account = row.account /\ Failed(row, seen).given = row.given
    BY DEF Failed, Row
  <1> QED BY <1>1, <1>2, <1>3, <1>4, <1>5

Taken(row, seen) == Revoked(row, seen, TRUE)

LEMMA TakenRow ==
  ASSUME NEW row \in Row, NEW seen \in Row
  PROVE  /\ Taken(row, seen) \in Row
         /\ Taken(row, seen).stored /\ Taken(row, seen).revoked
         /\ Taken(row, seen).granted <=> ~seen.granted /\ row.granted
         /\ Taken(row, seen).account = seen.account
         /\ Taken(row, seen).given = NoAccount
  <1>1. Taken(row, seen) \in Row
    BY DEF Taken, Revoked, Row
  <1>2. Taken(row, seen).stored /\ Taken(row, seen).revoked
    BY DEF Taken, Revoked, Row
  <1>3. Taken(row, seen).granted <=> ~seen.granted /\ row.granted
    BY DEF Taken, Revoked, Row
  <1>4. Taken(row, seen).account = seen.account /\ Taken(row, seen).given = NoAccount
    BY DEF Taken, Revoked, Row
  <1> QED BY <1>1, <1>2, <1>3, <1>4

Left(row, seen) == Revoked(row, seen, FALSE)

LEMMA LeftRow ==
  ASSUME NEW row \in Row, NEW seen \in Row
  PROVE  /\ Left(row, seen) \in Row
         /\ Left(row, seen).stored /\ Left(row, seen).revoked
         /\ Left(row, seen).granted <=> ~seen.granted /\ row.granted
         /\ Left(row, seen).account = row.account /\ Left(row, seen).given = row.given
  <1>1. Left(row, seen) \in Row
    BY DEF Left, Revoked, Row
  <1>2. Left(row, seen).stored /\ Left(row, seen).revoked
    BY DEF Left, Revoked, Row
  <1>3. Left(row, seen).granted <=> ~seen.granted /\ row.granted
    BY DEF Left, Revoked, Row
  <1>4. Left(row, seen).account = row.account /\ Left(row, seen).given = row.given
    BY DEF Left, Revoked, Row
  <1> QED BY <1>1, <1>2, <1>3, <1>4

LEMMA NoGrantType == NoGrant \in Row
  BY DEF NoGrant, Row

LEMMA IdleType == Idle \in Task /\ Idle.step = "idle"
  <1>1. Msg("start", CHOOSE p \in Purchases : TRUE) \in Message
    BY PurchasesAssumption DEF Msg, Message, Kinds
  <1> QED BY <1>1, NoGrantType DEF Idle, Task

LEMMA MsgType ==
  ASSUME NEW k \in Kinds, NEW p \in Purchases
  PROVE  Msg(k, p) \in Message /\ Msg(k, p).kind = k /\ Msg(k, p).purchase = p
  BY DEF Msg, Message

LEMMA WriteType ==
  ASSUME NEW t \in Task, NEW row \in Row PROVE Write(t, row) \in Row
  <1>1. t.seen \in Row
    BY DEF Task
  <1>2. Revoked(row, t.seen, t.step = "done") \in Row
    <2>1. CASE t.step = "done"
      BY <1>1, <2>1, TakenRow DEF Taken
    <2>2. CASE t.step # "done"
      BY <1>1, <2>2, LeftRow DEF Left
    <2> QED BY <2>1, <2>2
  <1> QED BY <1>1, <1>2, GrantedRow, FailedRow DEF Write

-----------------------------------------------------------------------------
(* Type correctness, action by action.                                     *)

LEMMA TaskFields ==
  ASSUME TypeOK, NEW w \in Workers
  PROVE  /\ task[w] \in Task /\ task[w].message \in Message /\ task[w].seen \in Row
         /\ task[w].message.purchase \in Purchases
         /\ task[w].step \in {"idle", "call", "required", "done"}
  BY DEF TypeOK, Task, Message

LEMMA AcknowledgeType ==
  ASSUME TypeOK, NEW m \in Message, NEW more \in SUBSET Message, Acknowledge(m, more)
  PROVE  messages' \in SUBSET Message /\ happened' \in Nat
  BY DEF TypeOK, Acknowledge, Happens, Bounded

LEMMA EndType ==
  ASSUME TypeOK, NEW w \in Workers, task' = [task EXCEPT ![w] = Idle]
  PROVE  task' \in [Workers -> Task]
  BY IdleType DEF TypeOK

LEMMA GotoType ==
  ASSUME TypeOK, NEW w \in Workers, NEW step \in {"idle", "call", "required", "done"},
         Goto(w, step)
  PROVE  task' \in [Workers -> Task]
  <1>1. [task[w] EXCEPT !.step = step] \in Task
    BY TaskFields DEF Task
  <1>2. task' = [task EXCEPT ![w] = [task[w] EXCEPT !.step = step]]
    BY DEF Goto
  <1> QED BY <1>1, <1>2 DEF TypeOK

LEMMA ChangeType == ASSUME TypeOK, NEW p \in Purchases, Change(p) PROVE TypeOK'
  <1>1. active' \in [Purchases -> BOOLEAN]
    BY DEF TypeOK, Change
  <1>2. messages' \in SUBSET Message /\ happened' \in Nat
    BY MsgType DEF TypeOK, Change, Kinds, Bounded
  <1>3. UNCHANGED <<environment, deletion, grants, access, task>>
    BY DEF Change
  <1> QED BY <1>1, <1>2, <1>3 DEF TypeOK

LEMMA EnqueueType ==
  ASSUME TypeOK, NEW p \in Purchases, EnqueueStart(p) \/ EnqueueStop(p) PROVE TypeOK'
  <1>1. \E m \in Message, more \in SUBSET Message : Acknowledge(m, more)
    <2>1. {Msg("start", p), Msg("stop", p), Msg("grant", p), Msg("revoke", p)} \subseteq Message
      BY MsgType DEF Kinds
    <2>2. CASE EnqueueStart(p)
      BY <2>1, <2>2 DEF EnqueueStart
    <2>3. CASE EnqueueStop(p)
      BY <2>1, <2>3 DEF EnqueueStop
    <2> QED BY <2>2, <2>3
  <1>2. messages' \in SUBSET Message /\ happened' \in Nat
    BY <1>1, AcknowledgeType
  <1>3. UNCHANGED <<environment, active, deletion, grants, access, task>>
    BY DEF EnqueueStart, EnqueueStop
  <1> QED BY <1>2, <1>3 DEF TypeOK

LEMMA ConnectType ==
  ASSUME TypeOK, NEW p \in Purchases, NEW a \in AnyAccount, Connect(p, a)
  PROVE  TypeOK' /\ grants' = [grants EXCEPT ![p] = [grants[p] EXCEPT !.account = a]]
         /\ [grants[p] EXCEPT !.account = a] \in Row
  <1>1. [grants[p] EXCEPT !.account = a] \in Row
    BY DEF TypeOK, Row, AnyAccount
  <1>2. grants' = [grants EXCEPT ![p] = [grants[p] EXCEPT !.account = a]]
    BY DEF Connect
  <1>3. grants' \in [Purchases -> Row]
    BY <1>1, <1>2 DEF TypeOK
  <1>4. messages' \in SUBSET Message /\ happened' \in Nat
    BY MsgType DEF TypeOK, Connect, Kinds, Happens, Bounded
  <1>5. UNCHANGED <<environment, active, deletion, access, task>>
    BY DEF Connect
  <1>6. TypeOK'
    BY <1>3, <1>4, <1>5 DEF TypeOK
  <1> QED BY <1>1, <1>2, <1>6

LEMMA DeleteType == ASSUME TypeOK, DeleteBenefit \/ EnqueueDeletions PROVE TypeOK'
  <1>1. CASE DeleteBenefit
    BY <1>1 DEF TypeOK, DeleteBenefit, Happens, Bounded
  <1>2. CASE EnqueueDeletions
    <2>1. messages' \in SUBSET Message
      BY <1>2, MsgType DEF TypeOK, EnqueueDeletions, Kinds
    <2> QED BY <1>2, <2>1 DEF TypeOK, EnqueueDeletions
  <1> QED BY <1>1, <1>2

LEMMA SkipType == ASSUME TypeOK, NEW m \in Message, Skip(m) PROVE TypeOK'
  <1>1. messages' \in SUBSET Message /\ happened' \in Nat
    BY AcknowledgeType DEF Skip
  <1> QED BY <1>1 DEF TypeOK, Skip

LEMMA BeginType ==
  ASSUME TypeOK, NEW w \in Workers, NEW m \in Message, Begin(w, m) PROVE TypeOK'
  <1> DEFINE last == m.kind = "revoke" /\ IsLast(m.purchase)
             t == [step |-> "call", message |-> m, seen |-> grants[m.purchase], last |-> last]
  <1>1. last \in BOOLEAN
    OBVIOUS
  <1>2. grants[m.purchase] \in Row
    BY DEF TypeOK, Message
  <1>3. task' = [task EXCEPT ![w] = t]
    BY DEF Begin
  <1> HIDE DEF last
  <1>4. t \in Task
    BY <1>1, <1>2 DEF Task
  <1> HIDE DEF t
  <1>5. task' \in [Workers -> Task]
    BY <1>3, <1>4 DEF TypeOK
  <1> QED BY <1>5 DEF TypeOK, Begin

LEMMA CallType == ASSUME TypeOK, NEW w \in Workers, Call(w) PROVE TypeOK'
  <1>1. task[w].seen.account \in AnyAccount /\ task[w].seen.given \in AnyAccount
    BY TaskFields, RowFields
  <1>2. access' \in SUBSET Accounts
    BY <1>1 DEF TypeOK, Call, CallGrant, CallRevoke, Unable, AnyAccount
  <1>3. Goto(w, "required") \/ Goto(w, "done")
    BY DEF Call, CallGrant, CallRevoke, Unable
  <1>4. task' \in [Workers -> Task]
    BY <1>3, GotoType
  <1>5. UNCHANGED <<environment, active, deletion, grants, messages, happened>>
    BY DEF Call, CallGrant, CallRevoke
  <1> QED BY <1>2, <1>4, <1>5 DEF TypeOK

LEMMA CallFailsType == ASSUME TypeOK, NEW w \in Workers, CallFails(w) PROVE TypeOK'
  <1>1. access' \in SUBSET Accounts /\ messages' \in SUBSET Message /\ happened' \in Nat
    BY TaskFields DEF TypeOK, CallFails, Happens, Bounded
  <1>2. task' \in [Workers -> Task]
    BY EndType DEF CallFails
  <1> QED BY <1>1, <1>2 DEF TypeOK, CallFails

LEMMA CommitType == ASSUME TypeOK, NEW w \in Workers, Commit(w) PROVE TypeOK'
  <1> DEFINE t == task[w]
             p == t.message.purchase
  <1>1. t \in Task /\ t.message \in Message /\ p \in Purchases /\ grants[p] \in Row
    BY TaskFields DEF TypeOK
  <1>2. task' \in [Workers -> Task]
    BY EndType DEF Commit
  <1>3. UNCHANGED <<environment, active, deletion, access>>
    BY DEF Commit
  <1>4. /\ grants' \in [Purchases -> Row]
        /\ messages' \in SUBSET Message /\ happened' \in Nat
    <2>1. CASE messages' = messages \cup {t.message} /\ UNCHANGED <<grants, happened>>
      BY <1>1, <2>1 DEF TypeOK
    <2>2. CASE /\ grants' = [grants EXCEPT ![p] = Write(t, grants[p])]
               /\ \/ UNCHANGED <<messages, happened>>
                  \/ messages' = messages \cup {t.message} /\ Happens("crash")
      <3>1. Write(t, grants[p]) \in Row
        BY <1>1, WriteType
      <3> HIDE DEF t, p
      <3>2. grants' \in [Purchases -> Row]
        BY <1>1, <2>2, <3>1 DEF TypeOK
      <3>3. messages' \in SUBSET Message /\ happened' \in Nat
        BY <1>1, <2>2 DEF TypeOK, Happens, Bounded
      <3> QED BY <3>2, <3>3
    <2> QED BY <2>1, <2>2 DEF Commit
  <1> QED BY <1>2, <1>3, <1>4 DEF TypeOK

LEMMA CrashType == ASSUME TypeOK, NEW w \in Workers, Crash(w) PROVE TypeOK'
  <1>1. messages' \in SUBSET Message /\ happened' \in Nat
    BY TaskFields DEF TypeOK, Crash, Happens, Bounded
  <1>2. task' \in [Workers -> Task]
    BY EndType DEF Crash
  <1> QED BY <1>1, <1>2 DEF TypeOK, Crash

LEMMA TypeInit == Init => TypeOK
  <1> SUFFICES ASSUME Init PROVE TypeOK
    OBVIOUS
  <1>1. environment \in SUBSET AllEvents /\ active \in [Purchases -> BOOLEAN]
    BY EnvironmentsAssumption DEF Init
  <1>2. grants \in [Purchases -> Row] /\ task \in [Workers -> Task]
    BY NoGrantType, IdleType DEF Init
  <1>3. messages \in SUBSET Message
    BY MsgType DEF Init, Kinds
  <1> QED BY <1>1, <1>2, <1>3 DEF Init, TypeOK

LEMMA TypeNext == TypeOK /\ [Next]_vars => TypeOK'
  <1> SUFFICES ASSUME TypeOK, [Next]_vars PROVE TypeOK'
    OBVIOUS
  <1>1. ASSUME NEW p \in Purchases, Change(p) \/ EnqueueStart(p) \/ EnqueueStop(p)
        PROVE  TypeOK'
    BY <1>1, ChangeType, EnqueueType
  <1>2. ASSUME NEW p \in Purchases, NEW a \in Accounts \cup {NoAccount}, Connect(p, a)
        PROVE  TypeOK'
    BY <1>2, ConnectType DEF AnyAccount
  <1>3. CASE DeleteBenefit \/ EnqueueDeletions
    BY <1>3, DeleteType
  <1>4. ASSUME NEW m \in Message, Take(m) PROVE TypeOK'
    BY <1>4, SkipType, BeginType DEF Take
  <1>5. ASSUME NEW w \in Workers, Call(w) \/ CallFails(w) \/ Commit(w) \/ Crash(w)
        PROVE  TypeOK'
    BY <1>5, CallType, CallFailsType, CommitType, CrashType
  <1>6. CASE UNCHANGED vars
    BY <1>6 DEF vars, TypeOK
  <1> QED BY <1>1, <1>2, <1>3, <1>4, <1>5, <1>6 DEF Next

(* Type correctness, for any purchases, accounts and workers: rows,        *)
(* messages, what is executed, what has access.                            *)
THEOREM TypeCorrect == Spec => []TypeOK
  BY TypeInit, TypeNext, PTL DEF Spec

-----------------------------------------------------------------------------
(* What is on its way, before and after a step.                            *)

Running(m) == \E w \in Workers : Runs(w) /\ task[w].message = m

LEMMA Flight ==
  ASSUME NEW p, NEW m
  PROVE  m \in InFlight(p) <=> m.purchase = p /\ (m \in messages \/ Running(m))
  BY DEF InFlight, Executed, Runs, Running

LEMMA FlightAfter ==
  ASSUME NEW p, NEW m
  PROVE  m \in InFlight(p)' <=> m.purchase = p /\ (m \in messages' \/ Running(m)')
  BY DEF InFlight, Executed, Runs, Running

LEMMA FlightType ==
  ASSUME TypeOK, NEW p, NEW m \in InFlight(p)
  PROVE  m \in Message /\ m.purchase = p /\ p \in Purchases
  <1>1. m \in messages \/ Running(m)
    BY Flight
  <1>2. m \in Message
    BY <1>1, TaskFields DEF TypeOK, Running
  <1> QED BY <1>2, Flight DEF Message

LEMMA RunningSame == ASSUME task' = task, NEW m PROVE Running(m)' <=> Running(m)
  BY DEF Running, Runs

LEMMA RunningEnd ==
  ASSUME TypeOK, NEW w \in Workers, Runs(w), task' = [task EXCEPT ![w] = Idle], NEW m
  PROVE  /\ Running(m)' => Running(m)
         /\ Running(m) => Running(m)' \/ m = task[w].message
         /\ Running(task[w].message)
  <1>1. ~Runs(w)' /\ \A v \in Workers : v # w => task'[v] = task[v]
    BY IdleType DEF TypeOK, Runs
  <1> QED BY <1>1 DEF Running, Runs

LEMMA RunningGoto ==
  ASSUME TypeOK, NEW w \in Workers, Runs(w), NEW step \in {"required", "done"},
         Goto(w, step), NEW m
  PROVE  Running(m)' <=> Running(m)
  <1>1. /\ task'[w].step = step /\ task'[w].message = task[w].message
        /\ \A v \in Workers : v # w => task'[v] = task[v]
    BY TaskFields DEF TypeOK, Goto, Task
  <1> QED BY <1>1 DEF Running, Runs

LEMMA RunningBegin ==
  ASSUME TypeOK, NEW w \in Workers, NEW n \in Message, Begin(w, n), NEW m
  PROVE  Running(m)' <=> Running(m) \/ m = n
  <1>1. /\ task'[w].step = "call" /\ task'[w].message = n /\ ~Runs(w)
        /\ \A v \in Workers : v # w => task'[v] = task[v]
    BY DEF TypeOK, Begin, Runs
  <1> QED BY <1>1 DEF Running, Runs

(* The steps that send nothing new: what is on its way after them was.     *)
SendsNothing ==
  \A p \in Purchases : \A m \in InFlight(p)' : m \in InFlight(p)

LEMMA AcknowledgeFlight ==
  ASSUME NEW m, NEW more, Acknowledge(m, more)
  PROVE  /\ messages' \subseteq messages \cup {m} \cup more
         /\ messages \ {m} \subseteq messages' /\ more \subseteq messages'
         /\ m \in messages' => m \in more \/ May("crash")
  BY DEF Acknowledge, Happens

LEMMA QuietSteps ==
  ASSUME TypeOK,
         \/ DeleteBenefit
         \/ \E m \in Message : Skip(m) \/ \E w \in Workers : Begin(w, m)
         \/ \E w \in Workers : Call(w) \/ CallFails(w) \/ Commit(w) \/ Crash(w)
         \/ UNCHANGED vars
  PROVE  SendsNothing /\ active' = active /\ (deletion' = deletion \/ DeleteBenefit)
  <1>1. active' = active /\ (deletion' = deletion \/ DeleteBenefit)
    BY DEF DeleteBenefit, Skip, Begin, Call, CallGrant, CallRevoke, CallFails, Commit,
           Crash, vars, Deleted
  <1>2. SUFFICES ASSUME NEW m, m \in messages' \/ Running(m)'
                 PROVE  m \in messages \/ Running(m)
    BY <1>1, Flight, FlightAfter DEF SendsNothing
  <1>3. CASE UNCHANGED <<messages, task>>
    BY <1>2, <1>3, RunningSame
  <1>4. ASSUME NEW n \in Message, Skip(n) PROVE m \in messages \/ Running(m)
    BY <1>2, <1>4, AcknowledgeFlight, RunningSame DEF Skip
  <1>5. ASSUME NEW n \in Message, NEW w \in Workers, Begin(w, n)
        PROVE  m \in messages \/ Running(m)
    BY <1>2, <1>5, RunningBegin DEF Begin
  <1>6. ASSUME NEW w \in Workers, Call(w) PROVE m \in messages \/ Running(m)
    <2>1. Runs(w) /\ messages' = messages /\ (Goto(w, "required") \/ Goto(w, "done"))
      BY <1>6 DEF Call, CallGrant, CallRevoke, Unable, Runs
    <2> QED BY <1>2, <2>1, RunningGoto
  <1>7. ASSUME NEW w \in Workers, CallFails(w) \/ Commit(w) \/ Crash(w)
        PROVE  m \in messages \/ Running(m)
    <2>1. Runs(w) /\ task' = [task EXCEPT ![w] = Idle]
      BY <1>7 DEF CallFails, Commit, Crash, Runs
    <2>2. messages' \subseteq messages \cup {task[w].message}
      BY <1>7 DEF CallFails, Commit, Crash
    <2> QED BY <1>2, <2>1, <2>2, RunningEnd
  <1> QED BY <1>3, <1>4, <1>5, <1>6, <1>7 DEF DeleteBenefit, vars

-----------------------------------------------------------------------------
(* What is on its way agrees with what the purchase wants.                 *)

LEMMA EntitledNext == TypeOK /\ EntitledInv /\ [Next]_vars => EntitledInv'
  <1> SUFFICES ASSUME TypeOK, EntitledInv, [Next]_vars PROVE EntitledInv'
    OBVIOUS
  <1>1. environment' = environment
    BY DEF Next, Change, EnqueueStart, EnqueueStop, Connect, DeleteBenefit, EnqueueDeletions,
           Take, Skip, Begin, Call, CallGrant, CallRevoke, CallFails, Commit, Crash, vars
  <1> SUFFICES ASSUME Without({"hasty"}), NEW p \in Purchases, NEW m \in InFlight(p)'
               PROVE  Agrees(m, p)'
    BY <1>1 DEF EntitledInv, Without
  <1>2. \A n \in InFlight(p) : Agrees(n, p)
    BY DEF EntitledInv
  <1>11. ASSUME m \in InFlight(p), active'[p] = active[p], deletion' = deletion
         PROVE  Agrees(m, p)'
    BY <1>1, <1>2, <1>11 DEF Agrees, Entitled, Deleted, May
  <1>3. m.purchase = p /\ (m \in messages' \/ Running(m)')
    BY FlightAfter
  <1>4. ASSUME NEW q \in Purchases, Change(q) PROVE Agrees(m, p)'
    <2>1. InFlight(q) = {} /\ deletion' = deletion /\ task' = task
      BY <1>4 DEF Change, Quiet, Without, May
    <2>2. m \in InFlight(p) \/ m = Msg(IF active[q] THEN "stop" ELSE "start", q)
      BY <1>3, <1>4, Flight, RunningSame, <2>1 DEF Change
    <2>3. CASE p # q
      <3>1. m \in InFlight(p)
        BY <1>3, <2>2, <2>3, MsgType DEF Kinds
      <3>2. active'[p] = active[p]
        BY <1>4, <2>3 DEF Change, TypeOK
      <3> QED BY <1>11, <2>1, <3>1, <3>2
    <2>4. CASE p = q
      <3>1. m = Msg(IF active[q] THEN "stop" ELSE "start", q)
        BY <2>1, <2>2, <2>4
      <3>2. m.kind = IF active[q] THEN "stop" ELSE "start"
        BY <3>1 DEF Msg
      <3>3. active'[q] = ~active[q]
        BY <1>4 DEF Change, TypeOK
      <3> QED BY <2>4, <3>2, <3>3 DEF Agrees, Entitled, Gives
    <2> QED BY <2>3, <2>4
  <1>5. ASSUME NEW q \in Purchases, EnqueueStart(q) PROVE Agrees(m, p)'
    <2>1. UNCHANGED <<active, deletion, task>>
      BY <1>5 DEF EnqueueStart
    <2>2. \/ m \in InFlight(p)
          \/ Deleted /\ m = Msg("revoke", q)
          \/ ~Deleted /\ m = Msg("grant", q)
      BY <1>3, <1>5, <2>1, Flight, RunningSame, AcknowledgeFlight DEF EnqueueStart
    <2>3. CASE m \in InFlight(p)
      BY <1>11, <2>1, <2>3
    <2>4. CASE Deleted /\ m = Msg("revoke", q)
      BY <2>1, <2>4 DEF Agrees, Entitled, Deleted, Msg, Gives
    <2>5. CASE ~Deleted /\ m = Msg("grant", q)
      <3>1. p = q /\ m.kind = "grant"
        BY <1>3, <2>5 DEF Msg
      <3>2. Msg("start", q) \in InFlight(q) /\ Msg("start", q).kind = "start"
        BY <1>5, Flight DEF EnqueueStart, Msg
      <3>3. active[q]
        BY <1>2, <3>1, <3>2 DEF Agrees
      <3> QED BY <2>1, <2>5, <3>1, <3>3 DEF Agrees, Entitled, Deleted
    <2> QED BY <2>2, <2>3, <2>4, <2>5
  <1>6. ASSUME NEW q \in Purchases, EnqueueStop(q) PROVE Agrees(m, p)'
    <2>1. UNCHANGED <<active, deletion, task>>
      BY <1>6 DEF EnqueueStop
    <2>2. m \in InFlight(p) \/ m = Msg("revoke", q)
      BY <1>3, <1>6, <2>1, Flight, RunningSame, AcknowledgeFlight DEF EnqueueStop
    <2>3. CASE m \in InFlight(p)
      BY <1>11, <2>1, <2>3
    <2>4. CASE m = Msg("revoke", q)
      <3>1. p = q /\ m.kind = "revoke"
        BY <1>3, <2>4 DEF Msg
      <3>2. Msg("stop", q) \in InFlight(q) /\ Msg("stop", q).kind = "stop"
        BY <1>6, Flight DEF EnqueueStop, Msg
      <3>3. ~Entitled(q)
        BY <1>2, <3>1, <3>2 DEF Agrees
      <3> QED BY <2>1, <3>1, <3>3 DEF Agrees, Entitled, Deleted, Gives
    <2> QED BY <2>2, <2>3, <2>4
  <1>7. ASSUME NEW q \in Purchases, NEW a, Connect(q, a) PROVE Agrees(m, p)'
    <2>1. UNCHANGED <<active, deletion, task>>
      BY <1>7 DEF Connect
    <2>2. m \in InFlight(p) \/ m = Msg("update", q)
      BY <1>3, <1>7, <2>1, Flight, RunningSame DEF Connect
    <2>3. CASE m = Msg("update", q)
      <3>1. p = q /\ m.kind = "update"
        BY <1>3, <2>3 DEF Msg
      <3>2. Entitled(p) \/ May("late_connect")
        BY <1>7, <3>1 DEF Connect
      <3> QED BY <1>1, <2>1, <3>1, <3>2 DEF Agrees, Entitled, Deleted, May
    <2> QED BY <1>11, <2>1, <2>2, <2>3
  <1>8. CASE EnqueueDeletions
    <2>1. UNCHANGED <<active, task>> /\ Deleted /\ Deleted'
      BY <1>8 DEF EnqueueDeletions, Deleted
    <2>2. m \in InFlight(p) \/ \E q \in Purchases : m = Msg("delete", q)
      BY <1>3, <1>8, <2>1, Flight, RunningSame DEF EnqueueDeletions
    <2>3. CASE m \in InFlight(p)
      BY <1>1, <1>2, <2>1, <2>3 DEF Agrees, Entitled, May
    <2>4. ASSUME NEW q \in Purchases, m = Msg("delete", q) PROVE Agrees(m, p)'
      BY <2>1, <2>4 DEF Agrees, Msg, Gives
    <2> QED BY <2>2, <2>3, <2>4
  <1>9. CASE SendsNothing /\ active' = active /\ (deletion' = deletion \/ DeleteBenefit)
    <2>1. CASE DeleteBenefit
      <3>1. InFlight(p) = {}
        BY <2>1 DEF DeleteBenefit, Without, May, Quiet
      <3> QED BY <1>9, <3>1 DEF SendsNothing
    <2>2. CASE deletion' = deletion
      BY <1>9, <1>11, <2>2 DEF SendsNothing
    <2> QED BY <1>9, <2>1, <2>2
  <1>10. CASE \/ DeleteBenefit
              \/ \E n \in Message : Skip(n) \/ \E w \in Workers : Begin(w, n)
              \/ \E w \in Workers : Call(w) \/ CallFails(w) \/ Commit(w) \/ Crash(w)
              \/ UNCHANGED vars
    BY <1>9, <1>10, QuietSteps
  <1> QED BY <1>4, <1>5, <1>6, <1>7, <1>8, <1>10 DEF Next, Take

LEMMA EntitledInit == Init => EntitledInv
  <1> SUFFICES ASSUME Init PROVE EntitledInv
    OBVIOUS
  <1>1. ASSUME NEW p \in Purchases, NEW m \in InFlight(p) PROVE m.kind = "start"
    <2>1. m \in messages \/ Running(m)
      BY Flight
    <2>2. ~Running(m)
      BY IdleType DEF Init, Running, Runs
    <2> QED BY <2>1, <2>2 DEF Init, Msg
  <1> QED BY <1>1 DEF EntitledInv, Agrees, Gives, Init

(* A grant goes only in the commit of a revocation or of a grant that the  *)
(* customer must act for.                                                  *)
LEMMA GrantGoes ==
  ASSUME TypeOK, EntitledInv, [Next]_vars, Without({"hasty"}),
         NEW p \in Purchases, grants[p].granted, ~grants'[p].granted
  PROVE  ~Entitled(p) \/ grants'[p].errored
  <1>1. CASE grants' = grants
    BY <1>1
  <1>2. ASSUME NEW q \in Purchases, NEW a \in AnyAccount, Connect(q, a) PROVE FALSE
    <2>1. grants' = [grants EXCEPT ![q] = [grants[q] EXCEPT !.account = a]]
      BY <1>2, ConnectType
    <2>2. grants \in [Purchases -> Row]
      BY DEF TypeOK
    <2>3. grants'[p].granted = grants[p].granted
      BY <2>1, <2>2 DEF Row
    <2> QED BY <2>3
  <1>3. ASSUME NEW w \in Workers, Commit(w), grants' # grants
        PROVE  ~Entitled(p) \/ grants'[p].errored
    <2> DEFINE t == task[w]
    <2>1. grants' = [grants EXCEPT ![t.message.purchase] =
                       Write(t, grants[t.message.purchase])]
      BY <1>3 DEF Commit
    <2>2. t.message.purchase = p /\ grants'[p] = Write(t, grants[p])
      BY <2>1, TaskFields DEF TypeOK
    <2>3. t \in Task /\ t.seen \in Row /\ grants[p] \in Row /\ Runs(w)
      BY <1>3, TaskFields DEF TypeOK, Commit, Runs
    <2>4. CASE t.message.kind \in {"revoke", "delete"}
      <3>1. t.message \in InFlight(p)
        BY <2>2, <2>3, Flight DEF Running
      <3> QED BY <2>4, <3>1 DEF EntitledInv, Agrees, Entitled
    <2>5. CASE t.message.kind \notin {"revoke", "delete"} /\ t.step = "done"
      <3>1. grants'[p] = Granted(grants[p], t.seen)
        BY <2>2, <2>5 DEF Write
      <3> QED BY <2>3, <3>1, GrantedRow
    <2>6. CASE t.message.kind \notin {"revoke", "delete"} /\ t.step # "done"
      <3>1. grants'[p] = Failed(grants[p], t.seen)
        BY <2>2, <2>6 DEF Write
      <3> QED BY <2>3, <3>1, FailedRow
    <2> QED BY <2>4, <2>5, <2>6
  <1>4. \/ grants' = grants
        \/ \E q \in Purchases, a \in AnyAccount : Connect(q, a)
        \/ \E w \in Workers : Commit(w)
    BY DEF Next, Change, EnqueueStart, EnqueueStop, DeleteBenefit, EnqueueDeletions,
           Take, Skip, Begin, Call, CallGrant, CallRevoke, CallFails, Crash, vars, AnyAccount
  <1> QED BY <1>1, <1>2, <1>3, <1>4

(* A customer who is entitled to the benefit loses its grant only by       *)
(* disconnecting the account, although tasks of both kinds run together:   *)
(* without hasty changes a revocation on its way means that the purchase   *)
(* has ended or the benefit is deleted (enqueue_benefits_grants).          *)
THEOREM EntitledKeepsGrantCorrect == Spec => EntitledKeepsGrant
  <1> DEFINE Keeps == Without({"hasty"}) =>
       \A p \in Purchases :
         grants[p].granted /\ ~grants'[p].granted => ~Entitled(p) \/ grants'[p].errored
  <1>1. TypeOK /\ EntitledInv /\ [Next]_vars => [Keeps]_vars
    BY GrantGoes
  <1>2. EntitledKeepsGrant <=> [][Keeps]_vars
    BY DEF EntitledKeepsGrant
  <1> HIDE DEF Keeps
  <1> QED BY <1>1, <1>2, TypeInit, TypeNext, EntitledInit, EntitledNext, PTL DEF Spec

-----------------------------------------------------------------------------
(* The messages that a step sends and those that it takes.                 *)

LEMMA SentMessages ==
  ASSUME TypeOK, [Next]_vars, NEW p \in Purchases, NEW m \in InFlight(p)'
  PROVE  \/ m \in InFlight(p)
         \/ m.kind \in {"start", "stop"}
         \/ m.kind = "grant" /\ ~Deleted /\ ~Deleted'
         \/ m.kind = "update" /\ (Entitled(p) \/ May("late_connect")) /\ deletion' = deletion
         \/ m.kind = "revoke" /\ grants[p].granted /\ grants' = grants
         \/ m.kind = "delete" /\ grants[p].granted /\ grants' = grants /\ deletion' = "done"
  <1>1. m.purchase = p /\ (m \in messages' \/ Running(m)')
    BY FlightAfter
  <1>2. ASSUME NEW q \in Purchases, Change(q)
        PROVE  m \in InFlight(p) \/ m.kind \in {"start", "stop"}
    BY <1>1, <1>2, Flight, RunningSame DEF Change, Msg
  <1>3. ASSUME NEW q \in Purchases, EnqueueStart(q)
        PROVE  \/ m \in InFlight(p)
               \/ m.kind = "grant" /\ ~Deleted /\ ~Deleted'
               \/ m.kind = "revoke" /\ grants[p].granted /\ grants' = grants
    <2>1. UNCHANGED <<deletion, grants, task>> /\ Msg("start", q) \in messages
      BY <1>3 DEF EnqueueStart
    <2>2. CASE Deleted /\ grants[q].granted /\ Acknowledge(Msg("start", q), {Msg("revoke", q)})
      <3>1. m \in InFlight(p) \/ m = Msg("revoke", q)
        BY <1>1, <2>1, <2>2, AcknowledgeFlight, Flight, RunningSame
      <3> QED BY <1>1, <2>1, <2>2, <3>1 DEF Msg
    <2>3. CASE ~Deleted /\ Acknowledge(Msg("start", q), {Msg("grant", q)})
      <3>1. m \in InFlight(p) \/ m = Msg("grant", q)
        BY <1>1, <2>1, <2>3, AcknowledgeFlight, Flight, RunningSame
      <3> QED BY <2>1, <2>3, <3>1 DEF Msg, Deleted
    <2>4. CASE Acknowledge(Msg("start", q), {})
      BY <1>1, <2>1, <2>4, AcknowledgeFlight, Flight, RunningSame
    <2> QED BY <1>3, <2>2, <2>3, <2>4 DEF EnqueueStart
  <1>4. ASSUME NEW q \in Purchases, EnqueueStop(q)
        PROVE  \/ m \in InFlight(p)
               \/ m.kind = "revoke" /\ grants[p].granted /\ grants' = grants
    <2>1. /\ UNCHANGED <<grants, task>>
          /\ messages' \subseteq messages \cup {Msg("stop", q)}
             \/ /\ grants[q].granted
                /\ messages' \subseteq messages \cup {Msg("stop", q)} \cup {Msg("revoke", q)}
      BY <1>4, AcknowledgeFlight DEF EnqueueStop
    <2>2. Msg("stop", q) \in messages
      BY <1>4 DEF EnqueueStop
    <2>3. m \in InFlight(p) \/ (grants[q].granted /\ m = Msg("revoke", q))
      BY <1>1, <2>1, <2>2, Flight, RunningSame
    <2> QED BY <1>1, <2>1, <2>3 DEF Msg
  <1>5. ASSUME NEW q \in Purchases, NEW a, Connect(q, a)
        PROVE  \/ m \in InFlight(p)
               \/ m.kind = "update" /\ (Entitled(p) \/ May("late_connect"))
                  /\ deletion' = deletion
    <2>1. m \in InFlight(p) \/ m = Msg("update", q)
      BY <1>1, <1>5, Flight, RunningSame DEF Connect
    <2> QED BY <1>1, <1>5, <2>1 DEF Connect, Msg
  <1>6. CASE EnqueueDeletions
    <2>1. m \in InFlight(p) \/ \E q \in Purchases : grants[q].granted /\ m = Msg("delete", q)
      BY <1>1, <1>6, Flight, RunningSame DEF EnqueueDeletions
    <2> QED BY <1>1, <1>6, <2>1 DEF EnqueueDeletions, Msg
  <1>7. CASE \/ DeleteBenefit
             \/ \E n \in Message : Skip(n) \/ \E w \in Workers : Begin(w, n)
             \/ \E w \in Workers : Call(w) \/ CallFails(w) \/ Commit(w) \/ Crash(w)
             \/ UNCHANGED vars
    BY <1>7, QuietSteps DEF SendsNothing
  <1> QED BY <1>2, <1>3, <1>4, <1>5, <1>6, <1>7 DEF Next, Take

LEMMA TakenMessages ==
  ASSUME TypeOK, [Next]_vars, NEW p \in Purchases, NEW m \in InFlight(p)
  PROVE  \/ m \in InFlight(p)'
         \/ m.kind \in {"start", "stop"}
         \/ Unneeded(m) /\ UNCHANGED <<deletion, grants, access, task>>
         \/ \E w \in Workers : Commit(w) /\ task[w].message = m
  <1>1. m.purchase = p /\ (m \in messages \/ Running(m))
    BY Flight
  <1> SUFFICES ASSUME m \in messages => m \in messages',
                      Running(m) => Running(m)' \/ m \in messages'
               PROVE  m \in InFlight(p)'
    <2>1. ASSUME NEW q \in Purchases, EnqueueStart(q) \/ EnqueueStop(q),
                 m.kind \notin {"start", "stop"}
          PROVE  (m \in messages => m \in messages') /\ (Running(m) => Running(m)')
      <3>1. m # Msg("start", q) /\ m # Msg("stop", q)
        BY <2>1 DEF Msg
      <3> QED BY <2>1, <3>1, AcknowledgeFlight, RunningSame DEF EnqueueStart, EnqueueStop
    <2>2. ASSUME NEW q \in Purchases, NEW a, Change(q) \/ Connect(q, a)
          PROVE  (m \in messages => m \in messages') /\ (Running(m) => Running(m)')
      BY <2>2, RunningSame DEF Change, Connect
    <2>3. CASE DeleteBenefit \/ EnqueueDeletions \/ UNCHANGED vars
      BY <2>3, RunningSame DEF DeleteBenefit, EnqueueDeletions, vars
    <2>4. ASSUME NEW n \in Message, Skip(n), m # n
          PROVE  (m \in messages => m \in messages') /\ (Running(m) => Running(m)')
      BY <2>4, AcknowledgeFlight, RunningSame DEF Skip
    <2>5. ASSUME NEW n \in Message, Skip(n)
          PROVE  Unneeded(n) /\ UNCHANGED <<deletion, grants, access, task>>
      BY <2>5 DEF Skip
    <2>6. ASSUME NEW n \in Message, NEW w \in Workers, Begin(w, n)
          PROVE  m \in InFlight(p)'
      BY <1>1, <2>6, RunningBegin, FlightAfter DEF Begin
    <2>7. ASSUME NEW w \in Workers, Call(w)
          PROVE  (m \in messages => m \in messages') /\ (Running(m) => Running(m)')
      <3>1. Runs(w) /\ messages' = messages /\ (Goto(w, "required") \/ Goto(w, "done"))
        BY <2>7 DEF Call, CallGrant, CallRevoke, Unable, Runs
      <3> QED BY <3>1, RunningGoto
    <2>8. ASSUME NEW w \in Workers, CallFails(w) \/ Crash(w) \/ (Commit(w) /\ m # task[w].message)
          PROVE  /\ m \in messages => m \in messages'
                 /\ Running(m) => Running(m)' \/ m \in messages'
      <3>1. Runs(w) /\ task' = [task EXCEPT ![w] = Idle]
        BY <2>8 DEF CallFails, Commit, Crash, Runs
      <3>2. messages \subseteq messages'
        BY <2>8 DEF CallFails, Commit, Crash
      <3>3. m # task[w].message \/ task[w].message \in messages'
        BY <2>8 DEF CallFails, Commit, Crash
      <3> QED BY <3>1, <3>2, <3>3, RunningEnd
    <2> QED BY <2>1, <2>2, <2>3, <2>4, <2>5, <2>6, <2>7, <2>8 DEF Next, Take
  <1> QED BY <1>1, FlightAfter

-----------------------------------------------------------------------------
(* What the steps of a task do when one runs at a time.                    *)

CallGives(w) ==
  LET account == task[w].seen.account
  IN \/ account # NoAccount /\ access' = access \cup {account} /\ Goto(w, "done")
     \/ (account = NoAccount \/ May("uninstall")) /\ access' = access /\ Goto(w, "required")

LEMMA NothingReplaced ==
  ASSUME TypeOK, CalmInv, NEW w \in Workers, Runs(w) PROVE Replaced(w) = {}
  BY DEF CalmInv, TasksOK, SeenOK, Replaced

LEMMA CallGrantEffect ==
  ASSUME TypeOK, CalmInv, NEW w \in Workers, CallGrant(w)
  PROVE  /\ Runs(w) /\ Gives(task[w].message) /\ CallGives(w)
  <1>1. Runs(w) /\ Gives(task[w].message)
    BY DEF CallGrant, Runs, Gives
  <1> QED BY <1>1, NothingReplaced DEF CallGrant, CallGives, Unable

CallTakes(w) ==
  LET called == task[w].last \/ task[w].message.kind = "delete"
  IN \/ called /\ access' = access \ {task[w].seen.given} /\ Goto(w, "done")
     \/ (~called \/ May("uninstall")) /\ access' = access /\ Goto(w, "required")

LEMMA CallRevokeEffect ==
  ASSUME TypeOK, CalmInv, NEW w \in Workers, CallRevoke(w)
  PROVE  /\ Runs(w) /\ Takes(task[w].message) /\ CallTakes(w)
         /\ grants[task[w].message.purchase].granted
         /\ grants[task[w].message.purchase].given = task[w].seen.given
  <1>1. Runs(w) /\ Takes(task[w].message)
    BY DEF CallRevoke, Runs, Takes
  <1>2. SeenOK(w) /\ StepOK(w) /\ RowOK(task[w].message.purchase)
    BY <1>1, TaskFields DEF CalmInv, TasksOK, RowsOK
  <1>3. /\ grants[task[w].message.purchase].granted
        /\ grants[task[w].message.purchase].given = task[w].seen.given
        /\ task[w].seen.given # NoAccount
    BY <1>1, <1>2 DEF SeenOK, StepOK, RowOK
  <1> QED BY <1>1, <1>3 DEF CallRevoke, CallTakes, Unable

(* The row that a task writes.                                             *)
Wrote(w) ==
  LET t == task[w]
      g == grants[t.message.purchase]
      r == grants'[t.message.purchase]
  IN /\ r.stored /\ r.account = g.account
     /\ Takes(t.message) =>
          /\ ~r.granted /\ r.revoked /\ r.account # NoAccount
          /\ r.given # NoAccount => r.account = r.given
     /\ Gives(t.message) /\ t.step = "done" =>
          /\ r.granted /\ ~r.revoked /\ r.account # NoAccount
          /\ r.given = t.seen.account /\ r.given = r.account
     /\ Gives(t.message) /\ t.step = "required" =>
          /\ ~r.granted /\ ~r.revoked /\ r.given = g.given
          /\ May("uninstall") \/ (~g.granted /\ ~g.revoked /\ g.given = NoAccount)

LEMMA CommitEffect ==
  ASSUME TypeOK, CalmInv, NEW w \in Workers, Commit(w)
  PROVE  /\ Runs(w) /\ task' = [task EXCEPT ![w] = Idle]
         /\ UNCHANGED <<environment, active, deletion, access>>
         /\ messages \subseteq messages'
         /\ messages' = messages \/ messages' = messages \cup {task[w].message}
         /\ \A q \in Purchases : q # task[w].message.purchase => grants'[q] = grants[q]
         /\ Wrote(w)
  <1> DEFINE t == task[w]
             p == t.message.purchase
  <1>1. /\ Runs(w) /\ task' = [task EXCEPT ![w] = Idle]
        /\ UNCHANGED <<environment, active, deletion, access>>
        /\ messages \subseteq messages'
        /\ messages' = messages \/ messages' = messages \cup {task[w].message}
    BY DEF Commit, Runs
  <1>2. SeenOK(w) /\ StepOK(w) /\ RowOK(p)
    BY <1>1, TaskFields DEF CalmInv, TasksOK, RowsOK
  <1>3. t \in Task /\ t.seen \in Row /\ grants[p] \in Row /\ p \in Purchases
        /\ t.step \in {"required", "done"}
    BY TaskFields DEF TypeOK, Commit
  <1>4. grants' = [grants EXCEPT ![p] = Write(t, grants[p])]
    BY <1>2 DEF Commit, SeenOK
  <1>5. /\ grants'[p] = Write(t, grants[p])
        /\ \A q \in Purchases : q # p => grants'[q] = grants[q]
    BY <1>3, <1>4 DEF TypeOK
  <1>6. Wrote(w)
    <2>1. CASE Takes(t.message) /\ t.step = "done"
      <3>1. grants'[p] = Taken(grants[p], t.seen)
        BY <1>5, <2>1 DEF Write, Takes, Taken
      <3>2. /\ grants'[p].stored /\ grants'[p].revoked
            /\ grants'[p].granted <=> ~t.seen.granted /\ grants[p].granted
            /\ grants'[p].account = t.seen.account /\ grants'[p].given = NoAccount
        BY <1>3, <3>1, TakenRow
      <3>3. t.seen.account # NoAccount /\ t.seen.account = grants[p].account /\ t.seen.granted
        BY <1>2, <2>1 DEF SeenOK, StepOK, RowOK
      <3> QED BY <2>1, <3>2, <3>3 DEF Wrote, Takes, Gives
    <2>2. CASE Takes(t.message) /\ t.step # "done"
      <3>1. grants'[p] = Left(grants[p], t.seen)
        BY <1>5, <2>2 DEF Write, Takes, Left
      <3>2. /\ grants'[p].stored /\ grants'[p].revoked
            /\ grants'[p].granted <=> ~t.seen.granted /\ grants[p].granted
            /\ grants'[p].account = grants[p].account /\ grants'[p].given = grants[p].given
        BY <1>3, <3>1, LeftRow
      <3>3. grants[p].account # NoAccount /\ grants[p].account = grants[p].given
            /\ t.seen.granted
        BY <1>2, <2>2 DEF SeenOK, StepOK, RowOK
      <3> QED BY <2>2, <3>2, <3>3 DEF Wrote, Takes, Gives
    <2>3. CASE Gives(t.message) /\ t.step = "done"
      <3>1. grants'[p] = Granted(grants[p], t.seen)
        BY <1>5, <2>3 DEF Write, Gives
      <3>2. /\ grants'[p].stored /\ grants'[p].granted
            /\ grants'[p].revoked <=> ~t.seen.revoked /\ grants[p].revoked
            /\ grants'[p].account =
                 IF t.seen.account = t.seen.given THEN grants[p].account ELSE t.seen.account
            /\ grants'[p].given = t.seen.account
        BY <1>3, <3>1, GrantedRow
      <3>3. t.seen.account # NoAccount /\ t.seen.account = grants[p].account
        BY <1>2, <2>3 DEF SeenOK, StepOK
      <3>4. t.seen.revoked = grants[p].revoked
        BY <1>2 DEF SeenOK
      <3>5. ~grants'[p].revoked
        BY <3>2, <3>4
      <3>6. /\ grants'[p].account = grants[p].account /\ grants'[p].account # NoAccount
            /\ grants'[p].given = t.seen.account /\ grants'[p].given = grants'[p].account
        BY <3>2, <3>3
      <3> QED BY <2>3, <3>2, <3>5, <3>6 DEF Wrote, Takes, Gives
    <2>4. CASE Gives(t.message) /\ t.step = "required"
      <3>1. grants'[p] = Failed(grants[p], t.seen)
        BY <1>5, <2>4 DEF Write, Gives
      <3>2. /\ grants'[p].stored
            /\ grants'[p].granted <=> ~t.seen.granted /\ grants[p].granted
            /\ grants'[p].revoked <=> ~t.seen.revoked /\ grants[p].revoked
            /\ grants'[p].account = grants[p].account /\ grants'[p].given = grants[p].given
        BY <1>3, <3>1, FailedRow
      <3>3. /\ t.seen.granted = grants[p].granted /\ t.seen.revoked = grants[p].revoked
            /\ t.seen.given = grants[p].given
        BY <1>2 DEF SeenOK
      <3>4. ~grants'[p].granted /\ ~grants'[p].revoked
        BY <3>2, <3>3
      <3>5. CASE ~May("uninstall")
        <4>1. t.seen.account = NoAccount /\ t.seen.given = NoAccount /\ ~t.seen.revoked
          BY <1>2, <2>4, <3>5 DEF SeenOK, StepOK
        <4>2. grants[p].granted => grants[p].given # NoAccount
          BY <1>2 DEF RowOK
        <4>3. ~grants[p].granted /\ ~grants[p].revoked /\ grants[p].given = NoAccount
          BY <3>3, <4>1, <4>2
        <4> QED BY <2>4, <3>2, <3>4, <4>3 DEF Wrote, Takes, Gives
      <3>6. CASE May("uninstall")
        BY <2>4, <3>2, <3>4, <3>6 DEF Wrote, Takes, Gives
      <3> QED BY <3>5, <3>6
    <2> QED BY <1>2, <1>3, <2>1, <2>2, <2>3, <2>4 DEF StepOK
  <1> QED BY <1>1, <1>5, <1>6

-----------------------------------------------------------------------------
(* CalmInv is kept.                                                        *)

LEMMA LastCounts ==
  ASSUME NEW p \in Purchases, grants[p].granted
  PROVE  IsLast(p) <=> {q \in Purchases \ {p} : grants[q].granted} = {}
  <1> DEFINE G == {q \in Purchases : grants[q].granted}
             others == {q \in Purchases \ {p} : grants[q].granted}
  <1>1. IsFiniteSet(G)
    BY PurchasesAssumption, FS_Subset
  <1>2. others = G \ {p} /\ p \in G
    OBVIOUS
  <1>3. IsLast(p) <=> Cardinality(G) < 2
    BY DEF IsLast
  <1> HIDE DEF G, others
  <1>4. IsFiniteSet(others) /\ Cardinality(others) = Cardinality(G) - 1
    BY <1>1, <1>2, FS_RemoveElement
  <1>5. Cardinality(G) \in Nat /\ (Cardinality(others) = 0 <=> others = {})
    BY <1>1, <1>4, FS_CardinalityType, FS_EmptySet
  <1>6. Cardinality(others) \in Nat
    BY <1>4, FS_CardinalityType
  <1>7. Cardinality(G) < 2 <=> others = {}
    BY <1>4, <1>5, <1>6
  <1> QED BY <1>3, <1>7 DEF others

(* Steps that touch no grant, no access and no task.                       *)
LEMMA CalmSame ==
  ASSUME CalmInv, UNCHANGED <<environment, grants, access, task>>
  PROVE  Serial' /\ RowsOK' /\ SameAccount' /\ TasksOK'
  <1>1. Serial'
    BY DEF CalmInv, Serial, Runs
  <1>2. RowsOK' /\ SameAccount'
    BY DEF CalmInv, RowsOK, RowOK, SameAccount, May
  <1>3. TasksOK'
    BY DEF CalmInv, TasksOK, SeenOK, StepOK, LastOK, Runs, Gives, Takes, May
  <1> QED BY <1>1, <1>2, <1>3

LEMMA TasksEnded ==
  ASSUME TypeOK, CalmInv, NEW w \in Workers, Runs(w), task' = [task EXCEPT ![w] = Idle]
  PROVE  \A v \in Workers : ~Runs(v)'
  <1>1. \A v \in Workers : v # w => ~Runs(v)
    BY DEF CalmInv, Serial
  <1>2. task'[w] = Idle /\ \A v \in Workers : v # w => task'[v] = task[v]
    BY DEF TypeOK
  <1> QED BY <1>1, <1>2, IdleType DEF Runs

LEMMA TaskMoved ==
  ASSUME TypeOK, CalmInv, NEW w \in Workers, Runs(w), NEW step \in {"required", "done"},
         Goto(w, step)
  PROVE  /\ Runs(w)' /\ task'[w].step = step
         /\ task'[w].message = task[w].message
         /\ task'[w].seen = task[w].seen /\ task'[w].last = task[w].last
         /\ \A v \in Workers : v # w => ~Runs(v) /\ ~Runs(v)'
  <1>1. \A v \in Workers : v # w => ~Runs(v)
    BY DEF CalmInv, Serial
  <1>2. /\ task'[w] = [task[w] EXCEPT !.step = step]
        /\ \A v \in Workers : v # w => task'[v] = task[v]
    BY DEF TypeOK, Goto
  <1>3. /\ task'[w].step = step /\ task'[w].message = task[w].message
        /\ task'[w].seen = task[w].seen
    BY <1>2, TaskFields DEF Task
  <1>4. task'[w].last = task[w].last
    BY <1>2, TaskFields DEF Task
  <1> QED BY <1>1, <1>2, <1>3, <1>4 DEF Runs

LEMMA CalmConnect ==
  ASSUME TypeOK, CalmInv, Calm, NEW p \in Purchases, NEW a \in AnyAccount, Connect(p, a)
  PROVE  /\ Serial' /\ RowsOK' /\ SameAccount' /\ TasksOK'
         /\ grants[p].account = NoAccount /\ ~grants[p].granted
         /\ \A q \in Purchases :
              /\ grants'[q].granted = grants[q].granted
              /\ grants'[q].revoked = grants[q].revoked
              /\ grants'[q].given = grants[q].given
              /\ grants[q].account # NoAccount => grants'[q].account = grants[q].account
  <1>1. /\ grants' = [grants EXCEPT ![p] = [grants[p] EXCEPT !.account = a]]
        /\ [grants[p] EXCEPT !.account = a] \in Row /\ grants \in [Purchases -> Row]
        /\ UNCHANGED <<environment, access, task>>
    BY ConnectType DEF TypeOK, Connect
  <1>2. /\ grants[p].account = NoAccount /\ a # NoAccount
        /\ \A q \in Purchases : grants[q].account \in {NoAccount, a}
    BY DEF Connect, Calm, Without, Happens, May
  <1>3. \A q \in Purchases : q # p => grants'[q] = grants[q]
    BY <1>1
  <1>4. /\ grants'[p].account = a /\ grants'[p].stored = grants[p].stored
        /\ grants'[p].granted = grants[p].granted
        /\ grants'[p].revoked = grants[p].revoked /\ grants'[p].given = grants[p].given
    BY <1>1 DEF Row
  <1>5. RowOK(p) /\ ~grants[p].granted /\ grants[p].given = NoAccount
    BY <1>2 DEF CalmInv, RowsOK, RowOK
  <1>6. \A q \in Purchases :
          /\ grants'[q].stored = grants[q].stored
          /\ grants'[q].granted = grants[q].granted
          /\ grants'[q].revoked = grants[q].revoked
          /\ grants'[q].given = grants[q].given
          /\ grants[q].account # NoAccount => grants'[q].account = grants[q].account
    BY <1>2, <1>3, <1>4
  <1>7. Serial'
    BY <1>1 DEF CalmInv, Serial, Runs
  <1>8. RowsOK'
    <2> SUFFICES ASSUME NEW q \in Purchases PROVE RowOK(q)'
      BY DEF RowsOK
    <2>1. CASE q = p
      BY <1>2, <1>4, <1>5, <2>1 DEF RowOK
    <2>2. CASE q # p
      BY <1>1, <1>3, <2>2 DEF CalmInv, RowsOK, RowOK, May
    <2> QED BY <2>1, <2>2
  <1>9. SameAccount'
    <2>1. \A q \in Purchases : grants'[q].account \in {NoAccount, a}
      BY <1>2, <1>3, <1>4
    <2>2. ASSUME NEW b \in access' PROVE \E q \in Purchases : grants'[q].account = b
      <3>1. b \in access /\ b # NoAccount
        BY <1>1, AccountsAssumption DEF TypeOK
      <3>2. PICK q \in Purchases : grants[q].account = b
        BY <3>1 DEF CalmInv, SameAccount
      <3> QED BY <1>6, <3>1, <3>2
    <2> QED BY <2>1, <2>2 DEF SameAccount
  <1>10. TasksOK'
    <2> SUFFICES ASSUME NEW w \in Workers, Runs(w)' PROVE SeenOK(w)' /\ StepOK(w)' /\ LastOK(w)'
      BY DEF TasksOK
    <2>1. Runs(w) /\ SeenOK(w) /\ StepOK(w) /\ LastOK(w) /\ task' = task
      BY <1>1 DEF CalmInv, TasksOK, Runs
    <2>2. task[w].message.purchase \in Purchases
      BY TaskFields
    <2>3. SeenOK(w)'
      BY <1>6, <2>1, <2>2 DEF SeenOK
    <2>4. StepOK(w)'
      BY <1>1, <2>1 DEF StepOK, Gives, Takes, May
    <2>5. LastOK(w)'
      <3>1. {q \in Purchases \ {task[w].message.purchase} : grants'[q].granted}
            = {q \in Purchases \ {task[w].message.purchase} : grants[q].granted}
        BY <1>6
      <3> QED BY <2>1, <3>1 DEF LastOK
    <2> QED BY <2>3, <2>4, <2>5
  <1> QED BY <1>2, <1>5, <1>6, <1>7, <1>8, <1>9, <1>10

LEMMA CalmTakes ==
  ASSUME TypeOK, CalmInv, [Next]_vars,
         \A q \in Purchases : grants[q].granted \/ grants[q].revoked
                                => grants'[q].granted \/ grants'[q].revoked
  PROVE  TakesOK'
  <1> SUFFICES ASSUME NEW p \in Purchases, NEW m \in InFlight(p)', Takes(m)
               PROVE  grants'[p].granted \/ grants'[p].revoked
    BY DEF TakesOK, Takes
  <1>1. m \in InFlight(p) \/ grants[p].granted
    BY SentMessages DEF Takes
  <1> QED BY <1>1 DEF CalmInv, TakesOK

LEMMA CalmBegin ==
  ASSUME TypeOK, CalmInv, Calm, NEW w \in Workers, NEW m \in Message, Begin(w, m)
  PROVE  /\ Serial' /\ RowsOK' /\ SameAccount' /\ TasksOK'
         /\ \A v \in Workers : ~Runs(v) /\ (Runs(v)' => v = w)
         /\ task'[w].message = m /\ task'[w].step = "call"
         /\ task'[w].seen = grants[m.purchase]
  <1> DEFINE p == m.purchase
             g == grants[p]
  <1>1. /\ task'[w].step = "call" /\ task'[w].message = m
        /\ task'[w].seen = g
        /\ task'[w].last = (m.kind = "revoke" /\ IsLast(p))
        /\ \A v \in Workers : v # w => task'[v] = task[v]
    BY DEF TypeOK, Begin
  <1>2. \A v \in Workers : ~Runs(v)
    BY DEF Begin, Calm, Without, May, Runs
  <1>3. \A v \in Workers : Runs(v)' => v = w
    BY <1>1, <1>2 DEF Runs
  <1>4. p \in Purchases /\ g \in Row /\ UNCHANGED <<environment, grants, access>>
    BY DEF TypeOK, Message, Begin
  <1>5. Serial' /\ RowsOK' /\ SameAccount'
    BY <1>3, <1>4 DEF CalmInv, Serial, RowsOK, RowOK, SameAccount, May
  <1>6. RowOK(p)
    BY <1>4 DEF CalmInv, RowsOK
  <1>7. /\ m.kind \in {"grant", "update", "revoke", "delete"}
        /\ m.kind = "grant" => ~g.granted
        /\ m.kind # "grant" => ~g.revoked
    BY DEF Begin, Unneeded
  <1>8. Takes(m) => g.granted
    <2>1. m \in InFlight(p)
      BY Flight DEF Begin
    <2> QED BY <1>4, <1>7, <2>1 DEF CalmInv, TakesOK, Takes
  <1>9. SeenOK(w)'
    BY <1>1, <1>4, <1>6 DEF SeenOK, RowOK
  <1>10. StepOK(w)'
    BY <1>1, <1>7, <1>8 DEF StepOK, Gives, Takes
  <1>11. LastOK(w)'
    <2>1. CASE m.kind # "revoke"
      BY <1>1, <2>1 DEF LastOK
    <2>2. CASE m.kind = "revoke"
      <3>1. IsLast(p) <=> {q \in Purchases \ {p} : grants[q].granted} = {}
        BY <1>4, <1>8, <2>2, LastCounts DEF Takes
      <3> QED BY <1>1, <1>4, <2>2, <3>1 DEF LastOK
    <2> QED BY <2>1, <2>2
  <1> QED BY <1>1, <1>2, <1>3, <1>5, <1>9, <1>10, <1>11 DEF TasksOK

LEMMA CalmCall ==
  ASSUME TypeOK, CalmInv, NEW w \in Workers, Call(w)
  PROVE  Serial' /\ RowsOK' /\ SameAccount' /\ TasksOK'
  <1>1. /\ Runs(w) /\ (Goto(w, "required") \/ Goto(w, "done"))
        /\ UNCHANGED <<environment, grants>>
    BY DEF Call, CallGrant, CallRevoke, Unable, Runs
  <1>2. /\ Runs(w)' /\ Goto(w, task'[w].step) /\ task'[w].step \in {"required", "done"}
        /\ task'[w].message = task[w].message
        /\ task'[w].seen = task[w].seen /\ task'[w].last = task[w].last
        /\ \A v \in Workers : v # w => ~Runs(v)'
    BY <1>1, TaskMoved
  <1>3. SeenOK(w) /\ StepOK(w) /\ LastOK(w) /\ task[w].message.purchase \in Purchases
    BY <1>1, TaskFields DEF CalmInv, TasksOK
  <1>4. Serial' /\ RowsOK' /\ SeenOK(w)' /\ LastOK(w)'
    <2>1. Serial' /\ RowsOK'
      BY <1>1, <1>2 DEF CalmInv, Serial, RowsOK, RowOK, May
    <2>2. SeenOK(w)'
      BY <1>1, <1>2, <1>3 DEF SeenOK
    <2>3. LastOK(w)'
      BY <1>1, <1>2, <1>3 DEF LastOK
    <2> QED BY <2>1, <2>2, <2>3
  <1>5. StepOK(w)' /\ SameAccount'
    <2>1. CASE CallGrant(w)
      <3>1. Gives(task[w].message) /\ ~Takes(task[w].message) /\ CallGives(w)
        BY <2>1, CallGrantEffect DEF Gives, Takes
      <3>2. CASE /\ task[w].seen.account = NoAccount \/ May("uninstall")
                 /\ access' = access /\ Goto(w, "required")
        <4>1. access' = access /\ task'[w].step = "required"
          BY <3>2, <1>1, TaskMoved
        <4> QED BY <1>1, <1>2, <1>3, <3>1, <3>2, <4>1
                DEF StepOK, CalmInv, SameAccount, Gives, Takes, May
      <3>3. CASE /\ task[w].seen.account # NoAccount
                 /\ access' = access \cup {task[w].seen.account} /\ Goto(w, "done")
        <4>1. access' = access \cup {task[w].seen.account} /\ task'[w].step = "done"
          BY <3>3, <1>1, TaskMoved
        <4>2. grants[task[w].message.purchase].account = task[w].seen.account
          BY <1>3, <3>3 DEF SeenOK
        <4>3. SameAccount'
          BY <1>1, <1>3, <4>1, <4>2 DEF CalmInv, SameAccount
        <4>4. StepOK(w)'
          BY <1>2, <1>3, <3>1, <3>3, <4>1 DEF StepOK, Gives, Takes
        <4> QED BY <4>3, <4>4
      <3> QED BY <3>1, <3>2, <3>3 DEF CallGives
    <2>2. CASE CallRevoke(w)
      <3>1. Takes(task[w].message) /\ ~Gives(task[w].message) /\ CallTakes(w)
        BY <2>2, CallRevokeEffect DEF Gives, Takes
      <3>2. access' \subseteq access
        BY <3>1 DEF CallTakes
      <3>3. SameAccount'
        BY <1>1, <3>2 DEF CalmInv, SameAccount
      <3>4. /\ task'[w].step = "done" => task[w].seen.given \notin access'
            /\ task'[w].step = "required" =>
                 (~task[w].last /\ task[w].message.kind = "revoke") \/ May("uninstall")
        BY <1>1, <3>1, TaskMoved DEF CallTakes, Takes
      <3>5. StepOK(w)'
        BY <1>1, <1>2, <1>3, <3>1, <3>4 DEF StepOK, Gives, Takes, May
      <3> QED BY <3>3, <3>5
    <2> QED BY <2>1, <2>2 DEF Call
  <1> QED BY <1>2, <1>4, <1>5 DEF TasksOK

LEMMA CalmEnd ==
  ASSUME TypeOK, CalmInv, NEW w \in Workers, CallFails(w) \/ Crash(w)
  PROVE  /\ Serial' /\ RowsOK' /\ SameAccount' /\ TasksOK'
         /\ Runs(w) /\ messages' = messages \cup {task[w].message}
         /\ UNCHANGED <<environment, active, deletion, grants, access>>
         /\ \A v \in Workers : ~Runs(v)'
         /\ Crash(w) => May("crash")
  <1>1. /\ Runs(w) /\ task' = [task EXCEPT ![w] = Idle]
        /\ messages' = messages \cup {task[w].message}
        /\ UNCHANGED <<environment, active, deletion, grants>>
        /\ Crash(w) => May("crash")
    BY DEF CallFails, Crash, Runs, Happens
  <1>2. access' = access
    <2>1. CASE CallFails(w)
      BY <1>1, <2>1, NothingReplaced DEF CallFails
    <2>2. CASE Crash(w)
      BY <2>2 DEF Crash
    <2> QED BY <2>1, <2>2
  <1>3. \A v \in Workers : ~Runs(v)'
    BY <1>1, TasksEnded
  <1>4. Serial' /\ TasksOK'
    BY <1>3 DEF Serial, TasksOK
  <1>5. RowsOK' /\ SameAccount'
    BY <1>1, <1>2 DEF CalmInv, RowsOK, RowOK, SameAccount, May
  <1> QED BY <1>1, <1>2, <1>3, <1>4, <1>5

LEMMA CalmCommit ==
  ASSUME TypeOK, CalmInv, NEW w \in Workers, Commit(w)
  PROVE  /\ Serial' /\ RowsOK' /\ SameAccount' /\ TasksOK'
         /\ \A q \in Purchases :
              grants[q].granted \/ grants[q].revoked =>
                \/ grants'[q].granted \/ grants'[q].revoked
                \/ /\ May("uninstall") /\ Gives(task[w].message)
                   /\ q = task[w].message.purchase
  <1>p. PICK p \in Purchases : p = task[w].message.purchase
    BY TaskFields
  <1>1. /\ Runs(w) /\ UNCHANGED <<environment, access>> /\ Wrote(w)
        /\ \A q \in Purchases : q # p => grants'[q] = grants[q]
        /\ \A v \in Workers : ~Runs(v)'
    BY <1>p, CommitEffect, TasksEnded
  <1>2. Serial' /\ TasksOK'
    BY <1>1 DEF Serial, TasksOK
  <1>3. StepOK(w) /\ task[w].step \in {"required", "done"} /\ p \in Purchases
    BY <1>1, TaskFields DEF CalmInv, TasksOK, Commit
  <1>4. \A q \in Purchases : grants'[q].account = grants[q].account
    BY <1>p, <1>1, <1>3 DEF Wrote
  <1>5. SameAccount'
    BY <1>1, <1>4 DEF CalmInv, SameAccount
  <1>6. RowOK(p)'
    <2>1. RowOK(p) /\ Wrote(w) /\ (Gives(task[w].message) \/ Takes(task[w].message))
      BY <1>1, <1>3 DEF CalmInv, RowsOK, StepOK
    <2>2. CASE Takes(task[w].message)
      BY <1>p, <1>1, <2>1, <2>2 DEF Wrote, RowOK, May
    <2>3. CASE Gives(task[w].message)
      BY <1>p, <1>1, <1>3, <2>1, <2>3 DEF Wrote, RowOK, May
    <2> QED BY <2>1, <2>2, <2>3
  <1>7. RowsOK'
    <2> SUFFICES ASSUME NEW q \in Purchases, q # p PROVE RowOK(q)'
      BY <1>3, <1>6 DEF RowsOK
    <2> QED BY <1>1 DEF CalmInv, RowsOK, RowOK, May
  <1>8. grants[p].granted \/ grants[p].revoked =>
          \/ grants'[p].granted \/ grants'[p].revoked
          \/ May("uninstall") /\ Gives(task[w].message)
    BY <1>p, <1>1, <1>3 DEF Wrote, StepOK
  <1> QED BY <1>p, <1>1, <1>2, <1>5, <1>7, <1>8

(* A grant that is about to be taken is not written by a task that gives:  *)
(* the two are not on their way together when such a task may fail.        *)
LEMMA CommitTakes ==
  ASSUME TypeOK, EntitledInv, CalmInv, Calm, NEW w \in Workers, Commit(w) PROVE TakesOK'
  <1> SUFFICES ASSUME NEW p \in Purchases, NEW m \in InFlight(p)', Takes(m)
               PROVE  grants'[p].granted \/ grants'[p].revoked
    BY DEF TakesOK, Takes
  <1>1. m \in InFlight(p)
    BY QuietSteps DEF SendsNothing
  <1>2. grants[p].granted \/ grants[p].revoked
    BY <1>1 DEF CalmInv, TakesOK
  <1>3. ASSUME May("uninstall"), Gives(task[w].message), task[w].message.purchase = p
        PROVE  FALSE
    <2>1. Without({"hasty"}) /\ ~May("late_connect")
      BY <1>3 DEF Calm, Without, May
    <2>2. task[w].message \in InFlight(p)
      BY <1>3, Flight DEF Running, Runs, Commit
    <2>3. Entitled(p)
      BY <1>3, <2>1, <2>2 DEF EntitledInv, Agrees
    <2>4. ~Entitled(p)
      BY <1>1, <2>1 DEF EntitledInv, Agrees, Takes, Entitled
    <2> QED BY <2>3, <2>4
  <1> QED BY <1>2, <1>3, CalmCommit

LEMMA CalmNext == TypeOK /\ EntitledInv /\ CalmInv /\ Calm /\ [Next]_vars => CalmInv'
  <1> SUFFICES ASSUME TypeOK, EntitledInv, CalmInv, Calm, [Next]_vars PROVE CalmInv'
    OBVIOUS
  <1>1. CASE UNCHANGED <<environment, grants, access, task>>
    BY <1>1, CalmSame, CalmTakes DEF CalmInv
  <1>2. ASSUME NEW p \in Purchases, NEW a \in AnyAccount, Connect(p, a) PROVE CalmInv'
    BY <1>2, CalmConnect, CalmTakes DEF CalmInv
  <1>3. ASSUME NEW w \in Workers, NEW m \in Message, Begin(w, m) PROVE CalmInv'
    BY <1>3, CalmBegin, CalmTakes DEF CalmInv, Begin
  <1>4. ASSUME NEW w \in Workers, Call(w) PROVE CalmInv'
    <2>1. grants' = grants
      BY <1>4 DEF Call, CallGrant, CallRevoke
    <2> QED BY <1>4, <2>1, CalmCall, CalmTakes DEF CalmInv
  <1>5. ASSUME NEW w \in Workers, CallFails(w) \/ Crash(w) PROVE CalmInv'
    <2>1. grants' = grants
      BY <1>5 DEF CallFails, Crash
    <2> QED BY <1>5, <2>1, CalmEnd, CalmTakes DEF CalmInv
  <1>6. ASSUME NEW w \in Workers, Commit(w) PROVE CalmInv'
    BY <1>6, CalmCommit, CommitTakes DEF CalmInv
  <1>7. \/ UNCHANGED <<environment, grants, access, task>>
        \/ \E p \in Purchases, a \in AnyAccount : Connect(p, a)
        \/ \E w \in Workers, m \in Message : Begin(w, m)
        \/ \E w \in Workers : Call(w) \/ CallFails(w) \/ Commit(w) \/ Crash(w)
    BY DEF Next, Change, EnqueueStart, EnqueueStop, DeleteBenefit, EnqueueDeletions, Take,
           Skip, vars, AnyAccount
  <1> QED BY <1>1, <1>2, <1>3, <1>4, <1>5, <1>6, <1>7

-----------------------------------------------------------------------------
(* DeletionInv is kept.                                                    *)

LEMMA EnvironmentKept ==
  ASSUME [Next]_vars
  PROVE  /\ environment' = environment
         /\ Deleted => Deleted'
         /\ deletion = "done" => deletion' = "done"
  BY DEF Next, Change, EnqueueStart, EnqueueStop, Connect, DeleteBenefit, EnqueueDeletions,
         Take, Skip, Begin, Call, CallGrant, CallRevoke, CallFails, Commit, Crash, vars, Deleted

(* A benefit is deleted when nothing is on its way, or hastily.            *)
LEMMA DeletedNow ==
  ASSUME [Next]_vars, Without({"hasty"}), ~Deleted, Deleted'
  PROVE  /\ DeleteBenefit /\ deletion' = "queued"
         /\ \A p \in Purchases : InFlight(p) = {}
         /\ UNCHANGED <<grants, access, messages, task>>
  <1>1. DeleteBenefit
    BY DEF Next, Change, EnqueueStart, EnqueueStop, Connect, EnqueueDeletions, Take, Skip,
           Begin, Call, CallGrant, CallRevoke, CallFails, Commit, Crash, vars, Deleted
  <1> QED BY <1>1 DEF DeleteBenefit, Without, May, Quiet

LEMMA DeletedInOrder ==
  ASSUME TypeOK, DeletionInv, [Next]_vars, NEW p \in Purchases, NEW m \in InFlight(p)'
  PROVE  InOrder(m)'
  <1>1. environment' = environment /\ (Deleted => Deleted')
        /\ (deletion = "done" => deletion' = "done")
    BY EnvironmentKept
  <1>2. CASE m \in InFlight(p)
    <2>1. InOrder(m)
      BY <1>2 DEF DeletionInv
    <2>2. ~(Without({"hasty"}) /\ ~Deleted /\ Deleted')
      BY <1>2, DeletedNow
    <2> QED BY <1>1, <2>1, <2>2 DEF InOrder, Orderly, Without, Gives
  <1>3. CASE m \notin InFlight(p)
    BY <1>1, <1>3, SentMessages
       DEF InOrder, Orderly, Without, Gives, Entitled, May, Deleted
  <1> QED BY <1>2, <1>3

LEMMA RunsAfter ==
  ASSUME TypeOK, [Next]_vars, NEW v \in Workers, Runs(v)'
  PROVE  \/ Runs(v) /\ task'[v].message = task[v].message
         \/ \E m \in Message : Begin(v, m) /\ task'[v].message = m
  <1>1. CASE task' = task
    BY <1>1 DEF Runs
  <1>2. ASSUME NEW w \in Workers, NEW m \in Message, Begin(w, m)
        PROVE  \/ Runs(v) /\ task'[v].message = task[v].message
               \/ Begin(v, m) /\ task'[v].message = m
    <2>1. task'[w].message = m /\ \A u \in Workers : u # w => task'[u] = task[u]
      BY <1>2 DEF TypeOK, Begin
    <2> QED BY <1>2, <2>1 DEF Runs
  <1>3. ASSUME NEW w \in Workers, Call(w)
        PROVE  Runs(v) /\ task'[v].message = task[v].message
    <2>1. Runs(w) /\ \E step \in {"required", "done"} : Goto(w, step)
      BY <1>3 DEF Call, CallGrant, CallRevoke, Unable, Runs
    <2>2. PICK step \in {"required", "done"} : Goto(w, step)
      BY <2>1
    <2>3. /\ task'[w].message = task[w].message
          /\ \A u \in Workers : u # w => task'[u] = task[u]
      BY <2>2, TaskFields DEF TypeOK, Goto, Task
    <2> QED BY <2>1, <2>3 DEF Runs
  <1>4. ASSUME NEW w \in Workers, CallFails(w) \/ Commit(w) \/ Crash(w)
        PROVE  Runs(v) /\ task'[v].message = task[v].message
    <2>1. task' = [task EXCEPT ![w] = Idle]
      BY <1>4 DEF CallFails, Commit, Crash
    <2>2. task'[w] = Idle /\ \A u \in Workers : u # w => task'[u] = task[u]
      BY <2>1 DEF TypeOK
    <2> QED BY <2>2, IdleType DEF Runs
  <1>5. \/ task' = task
        \/ \E w \in Workers, m \in Message : Begin(w, m)
        \/ \E w \in Workers : Call(w) \/ CallFails(w) \/ Commit(w) \/ Crash(w)
    BY DEF Next, Change, EnqueueStart, EnqueueStop, Connect, DeleteBenefit,
           EnqueueDeletions, Take, Skip, vars
  <1> QED BY <1>1, <1>2, <1>3, <1>4, <1>5

LEMMA DeletesOnly ==
  ASSUME TypeOK, CalmInv, DeletionInv, [Next]_vars PROVE OnlyDeletes'
  <1> SUFFICES ASSUME Orderly', NEW v \in Workers, Runs(v)'
               PROVE  task'[v].message.kind = "delete"
    BY DEF OnlyDeletes
  <1>1. Without({"hasty", "late_connect"}) /\ Without({"hasty"}) /\ Deleted'
    BY EnvironmentKept DEF Orderly, Without
  <1>2. CASE Runs(v) /\ task'[v].message = task[v].message
    <2>1. task[v].message \in InFlight(task[v].message.purchase)
      BY <1>2, Flight DEF Running
    <2>2. Deleted
      BY <1>1, <2>1, DeletedNow, TaskFields
    <2> QED BY <1>1, <1>2, <2>2 DEF DeletionInv, OnlyDeletes, Orderly
  <1>3. ASSUME NEW m \in Message, Begin(v, m), task'[v].message = m
        PROVE  m.kind = "delete"
    <2>1. m \in InFlight(m.purchase) /\ m.purchase \in Purchases
      BY <1>3, Flight DEF Begin, Message
    <2>2. Orderly /\ Deleted
      BY <1>1, <1>3, EnvironmentKept DEF Begin, Deleted, Orderly
    <2>3. ~Gives(m)
      BY <2>1, <2>2 DEF DeletionInv, InOrder
    <2> QED BY <1>3, <2>2, <2>3 DEF Begin, Unneeded, Gives
  <1> QED BY <1>2, <1>3, RunsAfter

(* A grant stays what it is unless a task writes it.                       *)
LEMMA GrantedAfter ==
  ASSUME TypeOK, CalmInv, Calm, [Next]_vars, NEW p \in Purchases
  PROVE  \/ /\ grants'[p].granted = grants[p].granted
            /\ grants'[p].revoked = grants[p].revoked
            /\ grants'[p].given = grants[p].given
            /\ grants[p].account # NoAccount => grants'[p].account = grants[p].account
         \/ \E w \in Workers : Commit(w) /\ task[w].message.purchase = p
  <1>1. CASE grants' = grants
    BY <1>1
  <1>2. ASSUME NEW q \in Purchases, NEW a \in AnyAccount, Connect(q, a)
        PROVE  /\ grants'[p].granted = grants[p].granted
               /\ grants'[p].revoked = grants[p].revoked
               /\ grants'[p].given = grants[p].given
               /\ grants[p].account # NoAccount => grants'[p].account = grants[p].account
    BY <1>2, CalmConnect
  <1>3. ASSUME NEW w \in Workers, Commit(w), task[w].message.purchase # p
        PROVE  grants'[p] = grants[p]
    BY <1>3, CommitEffect
  <1>4. \/ grants' = grants
        \/ \E q \in Purchases, a \in AnyAccount : Connect(q, a)
        \/ \E w \in Workers : Commit(w)
    BY DEF Next, Change, EnqueueStart, EnqueueStop, DeleteBenefit, EnqueueDeletions,
           Take, Skip, Begin, Call, CallGrant, CallRevoke, CallFails, Crash, vars, AnyAccount
  <1> QED BY <1>1, <1>2, <1>3, <1>4

(* What takes a grant away stays on its way until the grant is gone.       *)
LEMMA TakesStays ==
  ASSUME TypeOK, CalmInv, Calm, [Next]_vars, NEW p \in Purchases,
         grants[p].granted, grants'[p].granted,
         NEW m \in InFlight(p), Takes(m), m.kind = "revoke" => ~Deleted
  PROVE  m \in InFlight(p)'
  <1>1. ~grants[p].revoked /\ m.purchase = p
    BY Flight DEF CalmInv, RowsOK, RowOK
  <1>2. ~Unneeded(m)
    BY <1>1 DEF Unneeded, Takes
  <1>3. ASSUME NEW w \in Workers, Commit(w), task[w].message = m PROVE FALSE
    BY <1>1, <1>3, CommitEffect DEF Wrote
  <1> QED BY <1>2, <1>3, TakenMessages DEF Takes

LEMMA DeletedGrants ==
  ASSUME TypeOK, CalmInv, Calm, DeletionInv, [Next]_vars PROVE WillBeDeleted'
  <1> SUFFICES ASSUME Orderly', deletion' = "done", NEW p \in Purchases, grants'[p].granted
               PROVE  \E m \in InFlight(p)' : m.kind = "delete"
    BY DEF WillBeDeleted
  <1>1. Without({"hasty", "late_connect"}) /\ Without({"hasty"}) /\ Deleted'
    BY EnvironmentKept DEF Orderly, Without
  <1>2. CASE EnqueueDeletions
    <2>1. Msg("delete", p) \in messages'
      BY <1>2 DEF EnqueueDeletions
    <2>2. Msg("delete", p) \in InFlight(p)' /\ Msg("delete", p).kind = "delete"
      BY <2>1, FlightAfter DEF Msg
    <2> QED BY <2>2
  <1>3. CASE ~EnqueueDeletions
    <2>1. deletion = "done"
      BY <1>3 DEF Next, Change, EnqueueStart, EnqueueStop, Connect, DeleteBenefit, Take, Skip,
             Begin, Call, CallGrant, CallRevoke, CallFails, Commit, Crash, vars
    <2>2. Orderly
      BY <1>1, <2>1 DEF Orderly, Deleted
    <2>3. ASSUME NEW w \in Workers, Commit(w), task[w].message.purchase = p PROVE FALSE
      <3>1. Runs(w) /\ Takes(task[w].message)
        BY <2>2, <2>3 DEF Commit, Runs, DeletionInv, OnlyDeletes, Takes
      <3> QED BY <2>3, <3>1, CommitEffect DEF Wrote
    <2>4. grants[p].granted
      BY <2>3, GrantedAfter
    <2>5. PICK m \in InFlight(p) : m.kind = "delete"
      BY <2>1, <2>2, <2>4 DEF DeletionInv, WillBeDeleted
    <2>6. m \in InFlight(p)'
      BY <2>4, <2>5, TakesStays DEF Takes
    <2> QED BY <2>5, <2>6
  <1> QED BY <1>2, <1>3

LEMMA DeletionNext ==
  ASSUME TypeOK, CalmInv, Calm, DeletionInv, [Next]_vars PROVE DeletionInv'
  BY DeletedInOrder, DeletesOnly, DeletedGrants DEF DeletionInv

-----------------------------------------------------------------------------
(* HeldInv is kept.                                                        *)

(* Access goes only in the call of a task that takes the grant away.       *)
LEMMA AccessGoes ==
  ASSUME TypeOK, CalmInv, [Next]_vars, NEW a \in access, a \notin access'
  PROVE  \E w \in Workers :
           /\ CallRevoke(w) /\ Runs(w) /\ Takes(task[w].message)
           /\ task[w].last \/ task[w].message.kind = "delete"
           /\ a = task[w].seen.given
           /\ grants[task[w].message.purchase].granted
           /\ grants[task[w].message.purchase].given = a
  <1>1. CASE access' = access
    BY <1>1
  <1>2. ASSUME NEW w \in Workers, CallGrant(w) PROVE FALSE
    BY <1>2, CallGrantEffect DEF CallGives
  <1>3. ASSUME NEW w \in Workers, CallRevoke(w)
        PROVE  /\ CallRevoke(w) /\ Runs(w) /\ Takes(task[w].message)
               /\ task[w].last \/ task[w].message.kind = "delete"
               /\ a = task[w].seen.given
               /\ grants[task[w].message.purchase].granted
               /\ grants[task[w].message.purchase].given = a
    BY <1>3, CallRevokeEffect DEF CallTakes
  <1>4. ASSUME NEW w \in Workers, CallFails(w) PROVE FALSE
    BY <1>4, CalmEnd
  <1>5. \/ access' = access
        \/ \E w \in Workers : CallGrant(w) \/ CallRevoke(w) \/ CallFails(w)
    BY DEF Next, Change, EnqueueStart, EnqueueStop, Connect, DeleteBenefit,
           EnqueueDeletions, Take, Skip, Begin, Call, Commit, Crash, vars
  <1> QED BY <1>1, <1>2, <1>3, <1>4, <1>5

LEMMA HeldWhileKept ==
  ASSUME TypeOK, CalmInv, Calm, DeletionInv, HeldInv, [Next]_vars, ~Deleted',
         NEW p \in Purchases, grants'[p].granted
  PROVE  Held(p)'
  <1>1. ~Deleted
    BY EnvironmentKept
  <1>2. ASSUME NEW w \in Workers, Commit(w), task[w].message.purchase = p
        PROVE  grants'[p].given \in access'
    <2>1. Wrote(w) /\ access' = access /\ Runs(w) /\ task[w].step \in {"required", "done"}
      BY <1>2, CommitEffect DEF Commit
    <2>2. StepOK(w)
      BY <2>1 DEF CalmInv, TasksOK
    <2>3. ~Takes(task[w].message)
      BY <1>2, <2>1 DEF Wrote
    <2>4. Gives(task[w].message) /\ task[w].step = "done"
      BY <1>2, <2>1, <2>2, <2>3 DEF Wrote, StepOK
    <2>5. grants'[p].given = task[w].seen.account
      BY <1>2, <2>1, <2>4 DEF Wrote
    <2>6. task[w].seen.account \in access
      BY <2>2, <2>4 DEF StepOK
    <2> QED BY <2>1, <2>5, <2>6
  <1>3. CASE grants[p].granted /\ grants'[p].given = grants[p].given
    <2>1. ASSUME NEW m \in InFlight(p), m.kind = "revoke" PROVE Held(p)'
      <3>1. m \in InFlight(p)'
        BY <1>1, <1>3, <2>1, TakesStays DEF Takes
      <3> QED BY <2>1, <3>1 DEF Held
    <2>2. CASE grants[p].given \in access'
      BY <1>3, <2>2 DEF Held
    <2>3. CASE grants[p].given \in access /\ grants[p].given \notin access'
      <3>1. PICK w \in Workers :
              /\ CallRevoke(w) /\ Runs(w) /\ Takes(task[w].message)
              /\ task[w].last \/ task[w].message.kind = "delete"
        BY <2>3, AccessGoes
      <3>2. PICK m \in Message : m = task[w].message
        BY TaskFields
      <3>3. m.purchase \in Purchases /\ m \in InFlight(m.purchase)
        BY <3>1, <3>2, Flight DEF Running, Message
      <3>4. m.kind = "revoke"
        BY <1>1, <3>1, <3>2, <3>3 DEF Takes, DeletionInv, InOrder, Deleted
      <3>5. task[w].last /\ LastOK(w)
        BY <3>1, <3>2, <3>4 DEF CalmInv, TasksOK
      <3>6. m.purchase = p
        BY <1>3, <3>2, <3>4, <3>5 DEF LastOK
      <3> QED BY <2>1, <3>3, <3>4, <3>6
    <2> QED BY <1>1, <1>3, <2>1, <2>2, <2>3 DEF HeldInv, Held
  <1> QED BY <1>2, <1>3, GrantedAfter DEF Held

(* Until benefit.delete has been handled no task runs.                     *)
LEMMA HeldWhileQueued ==
  ASSUME TypeOK, CalmInv, Calm, DeletionInv, HeldInv, [Next]_vars,
         Orderly', deletion' # "done", NEW p \in Purchases, grants'[p].granted
  PROVE  Held(p)'
  <1>1. Without({"hasty", "late_connect"}) /\ Without({"hasty"}) /\ Deleted'
    BY EnvironmentKept DEF Orderly, Without
  <1>2. deletion # "done"
    BY EnvironmentKept
  <1>3. \A q \in Purchases : \A m \in InFlight(q) : m.kind # "delete"
    BY <1>2 DEF DeletionInv, InOrder
  <1>4. CASE ~Deleted
    <2>1. InFlight(p) = {} /\ UNCHANGED <<grants, access>>
      BY <1>1, <1>4, DeletedNow
    <2> QED BY <1>4, <2>1 DEF HeldInv, Held
  <1>5. CASE Deleted
    <2>1. \A w \in Workers : ~Runs(w)
      <3> SUFFICES ASSUME NEW w \in Workers, Runs(w) PROVE FALSE
        OBVIOUS
      <3>1. PICK m \in Message : m = task[w].message
        BY TaskFields
      <3>2. m.purchase \in Purchases /\ m \in InFlight(m.purchase)
        BY <3>1, Flight DEF Running, Message
      <3>3. m.kind = "delete"
        BY <1>1, <1>5, <3>1 DEF DeletionInv, OnlyDeletes, Orderly
      <3> QED BY <1>3, <3>2, <3>3
    <2>2. grants[p].granted /\ grants'[p].given = grants[p].given
      BY <2>1, GrantedAfter DEF Commit, Runs
    <2>3. grants[p].given \in access
      BY <1>1, <1>3, <1>5, <2>2 DEF HeldInv, Held, Orderly
    <2>4. grants[p].given \in access'
      BY <2>1, <2>3, AccessGoes
    <2> QED BY <2>2, <2>4 DEF Held
  <1> QED BY <1>4, <1>5

LEMMA HeldNext ==
  ASSUME TypeOK, CalmInv, Calm, DeletionInv, HeldInv, [Next]_vars PROVE HeldInv'
  <1> SUFFICES ASSUME NEW p \in Purchases, grants'[p].granted PROVE Held(p)'
    BY DEF HeldInv
  <1>1. CASE ~Deleted'
    BY <1>1, HeldWhileKept
  <1>2. CASE Deleted' /\ ~Orderly'
    BY <1>2 DEF Held
  <1>3. CASE Orderly' /\ deletion' = "done"
    BY <1>3, DeletionNext DEF DeletionInv, WillBeDeleted, Held, Orderly
  <1>4. CASE Orderly' /\ deletion' # "done"
    BY <1>4, HeldWhileQueued
  <1> QED BY <1>1, <1>2, <1>3, <1>4

-----------------------------------------------------------------------------
(* AccessInv is kept.                                                      *)

(* A task that gives a and ends without a commit has its message queued.   *)
LEMMA RecordedByRetry ==
  ASSUME TypeOK, CalmInv, NEW a \in Accounts, NEW w \in Workers, Runs(w),
         Gives(task[w].message), task[w].seen.account = a,
         Retried', grants' = grants, messages' = messages \cup {task[w].message}
  PROVE  Recorded(a)'
  <1>1. PICK p \in Purchases, m \in Message : m = task[w].message /\ m.purchase = p
    BY TaskFields DEF Message
  <1>2. SeenOK(w) /\ StepOK(w) /\ RowOK(p)
    BY DEF CalmInv, TasksOK, RowsOK
  <1>3. grants[p].account = a
    BY <1>1, <1>2, AccountsAssumption DEF SeenOK
  <1>4. CASE grants[p].granted
    BY <1>2, <1>3, <1>4 DEF RowOK, Recorded
  <1>5. CASE ~grants[p].granted
    <2>1. m.kind = "update" => ~grants[p].revoked
      BY <1>1, <1>2 DEF SeenOK, StepOK
    <2>2. m \in messages' /\ Gives(m)
      BY <1>1
    <2>3. \E q \in Purchases, n \in messages' :
            /\ Retried' /\ n.purchase = q /\ Gives(n)
            /\ grants'[q].account = a /\ ~grants'[q].granted
            /\ n.kind = "update" => ~grants'[q].revoked
      BY <1>1, <1>3, <1>5, <2>1, <2>2
    <2> QED BY <2>3 DEF Recorded, Gives
  <1> QED BY <1>4, <1>5

(* A commit that gives a account records it.                               *)
LEMMA RecordedByCommit ==
  ASSUME TypeOK, CalmInv, NEW a \in Accounts, NEW w \in Workers, Commit(w),
         Gives(task[w].message), task[w].step = "done",
         grants[task[w].message.purchase].account = a
  PROVE  Recorded(a)'
  <1>1. Wrote(w)
    BY CommitEffect
  <1>2. PICK p \in Purchases : p = task[w].message.purchase
    BY TaskFields
  <1>3. grants'[p].granted /\ grants'[p].given = a
    BY <1>1, <1>2 DEF Wrote
  <1> QED BY <1>3 DEF Recorded

(* A grant that gives a.                                                   *)
LEMMA RecordedGrant ==
  ASSUME TypeOK, CalmInv, Calm, Without({"uninstall"}), [Next]_vars,
         NEW a \in Accounts, a \in access, NEW p \in Purchases, grants[p].granted,
         grants[p].given = a
  PROVE  Recorded(a)'
  <1>1. RowOK(p) /\ grants[p].account = a /\ a # NoAccount
    BY AccountsAssumption DEF CalmInv, RowsOK, RowOK
  <1>2. CASE grants'[p].granted /\ grants'[p].given = grants[p].given
    BY <1>2 DEF Recorded
  <1>3. ASSUME NEW w \in Workers, Commit(w), task[w].message.purchase = p
        PROVE  Recorded(a)'
    <2>1. /\ Runs(w) /\ Wrote(w) /\ task[w].step \in {"required", "done"}
          /\ \A q \in Purchases : q # p => grants'[q] = grants[q]
      BY <1>3, CommitEffect DEF Commit
    <2>2. SeenOK(w) /\ StepOK(w) /\ LastOK(w)
      BY <2>1 DEF CalmInv, TasksOK
    <2>3. CASE Gives(task[w].message)
      BY <1>1, <1>3, <2>1, <2>3, RecordedByCommit DEF Wrote, May, Without
    <2>4. CASE Takes(task[w].message)
      <3>1. task[w].step = "required"
        BY <1>3, <2>1, <2>2, <2>4 DEF StepOK, SeenOK
      <3>2. PICK q \in Purchases : q # p /\ grants[q].granted
        BY <1>3, <2>2, <2>4, <3>1 DEF StepOK, LastOK, May, Without
      <3>3. grants[q].given = a
        BY <1>1, <3>2 DEF CalmInv, RowsOK, RowOK, SameAccount
      <3>4. grants'[q].granted /\ grants'[q].given = a
        BY <2>1, <3>2, <3>3
      <3> QED BY <3>4 DEF Recorded
    <2> QED BY <2>2, <2>3, <2>4 DEF StepOK
  <1> QED BY <1>2, <1>3, GrantedAfter

(* A task that gives a.                                                    *)
LEMMA RecordedTask ==
  ASSUME TypeOK, CalmInv, Calm, Without({"uninstall"}), [Next]_vars,
         NEW a \in Accounts, NEW w \in Workers,
         Gives(task[w].message), task[w].seen.account = a,
         task[w].step = "done" \/ (Retried /\ task[w].step = "call"),
         May("crash") => Retried'
  PROVE  Recorded(a)'
  <1>1. Runs(w) /\ \A v \in Workers : Runs(v) => v = w
    BY DEF Runs, CalmInv, Serial
  <1>2. a # NoAccount /\ SeenOK(w)
    BY <1>1, AccountsAssumption DEF CalmInv, TasksOK
  <1>3. CASE task' = task
    BY <1>3 DEF Recorded, Retried, Gives
  <1>4. ASSUME NEW v \in Workers, NEW m \in Message, Begin(v, m) PROVE FALSE
    BY <1>1, <1>4, CalmBegin
  <1>5. ASSUME NEW v \in Workers, Call(v) PROVE Recorded(a)'
    <2>1. CallGrant(w)
      BY <1>1, <1>5 DEF Call, CallGrant, CallRevoke, Unable, Runs, Gives
    <2>2. Goto(w, "done")
      BY <1>2, <2>1, CallGrantEffect DEF CallGives, May, Without
    <2>3. /\ task'[w].step = "done" /\ task'[w].message = task[w].message
          /\ task'[w].seen = task[w].seen
      BY <1>1, <2>2, TaskMoved
    <2> QED BY <2>3 DEF Recorded, Gives
  <1>6. ASSUME NEW v \in Workers, CallFails(v) \/ Crash(v) PROVE Recorded(a)'
    <2>1. v = w /\ (Crash(w) => May("crash")) /\ grants' = grants
          /\ messages' = messages \cup {task[w].message}
      BY <1>1, <1>6, CalmEnd
    <2>2. Retried'
      BY <1>6, <2>1 DEF CallFails, Retried
    <2> QED BY <1>1, <2>1, <2>2, RecordedByRetry
  <1>7. ASSUME NEW v \in Workers, Commit(v) PROVE Recorded(a)'
    <2>1. v = w /\ task[w].step = "done"
      BY <1>1, <1>7, CommitEffect DEF Commit
    <2>2. grants[task[w].message.purchase].account = a
      BY <1>2 DEF SeenOK
    <2> QED BY <1>7, <2>1, <2>2, RecordedByCommit
  <1>8. \/ task' = task
        \/ \E v \in Workers, m \in Message : Begin(v, m)
        \/ \E v \in Workers : Call(v) \/ CallFails(v) \/ Commit(v) \/ Crash(v)
    BY DEF Next, Change, EnqueueStart, EnqueueStop, Connect, DeleteBenefit,
           EnqueueDeletions, Take, Skip, vars
  <1> QED BY <1>3, <1>4, <1>5, <1>6, <1>7, <1>8

LEMMA MessageGoes ==
  ASSUME TypeOK, [Next]_vars, NEW m \in messages, m \notin messages', Gives(m)
  PROVE  Unneeded(m) \/ \E w \in Workers : Begin(w, m)
  <1>1. ASSUME NEW q \in Purchases, EnqueueStart(q) \/ EnqueueStop(q) PROVE FALSE
    <2>1. m # Msg("start", q) /\ m # Msg("stop", q)
      BY DEF Gives, Msg
    <2> QED BY <1>1, <2>1, AcknowledgeFlight DEF EnqueueStart, EnqueueStop
  <1>2. ASSUME NEW n \in Message, Skip(n) PROVE Unneeded(m)
    BY <1>2, AcknowledgeFlight DEF Skip
  <1>3. ASSUME NEW n \in Message, NEW w \in Workers, Begin(w, n) PROVE n = m
    BY <1>3 DEF Begin
  <1>4. \/ messages \subseteq messages'
        \/ \E q \in Purchases : EnqueueStart(q) \/ EnqueueStop(q)
        \/ \E n \in Message : Skip(n) \/ \E w \in Workers : Begin(w, n)
    BY DEF Next, Change, Connect, DeleteBenefit, EnqueueDeletions, Take, Call, CallGrant,
           CallRevoke, CallFails, Commit, Crash, vars
  <1> QED BY <1>1, <1>2, <1>3, <1>4

(* A message whose task will give a once more.                             *)
LEMMA RecordedMessage ==
  ASSUME TypeOK, CalmInv, Calm, DeletionInv, [Next]_vars, NEW a \in Accounts,
         NEW p \in Purchases, NEW m \in messages, m.purchase = p, Gives(m),
         grants[p].account = a, ~grants[p].granted,
         m.kind = "update" => ~grants[p].revoked, Retried, Retried'
  PROVE  Recorded(a)'
  <1>1. a # NoAccount
    BY AccountsAssumption
  <1>2. CASE m \notin messages'
    <2>1. m \in InFlight(p)
      BY Flight
    <2>2. m.kind = "grant" => ~Deleted
      BY <2>1 DEF Retried, DeletionInv, InOrder
    <2>3. ~Unneeded(m)
      BY <2>2 DEF Unneeded, Gives
    <2>4. PICK w \in Workers : Begin(w, m)
      BY <1>2, <2>3, MessageGoes
    <2>5. /\ task'[w].message = m /\ task'[w].step = "call"
          /\ task'[w].seen = grants[p]
      BY <2>4, CalmBegin DEF TypeOK
    <2> QED BY <2>5 DEF Recorded, Gives
  <1>3. ASSUME m \in messages', grants'[p].account = a, ~grants'[p].granted,
               m.kind = "update" => ~grants'[p].revoked
        PROVE  Recorded(a)'
    <2>1. \E q \in Purchases, n \in messages' :
            /\ Retried' /\ n.purchase = q /\ Gives(n)
            /\ grants'[q].account = a /\ ~grants'[q].granted
            /\ n.kind = "update" => ~grants'[q].revoked
      BY <1>3
    <2> QED BY <2>1 DEF Recorded, Gives
  <1>4. ASSUME NEW w \in Workers, Commit(w), task[w].message.purchase = p, m \in messages'
        PROVE  Recorded(a)'
    <2>1. Runs(w) /\ Wrote(w) /\ task[w].step \in {"required", "done"}
      BY <1>4, CommitEffect DEF Commit
    <2>2. SeenOK(w) /\ StepOK(w)
      BY <2>1 DEF CalmInv, TasksOK
    <2>3. Gives(task[w].message)
      BY <1>4, <2>2 DEF SeenOK, StepOK
    <2>4. CASE task[w].step = "done"
      BY <1>4, <2>3, <2>4, RecordedByCommit
    <2>5. CASE task[w].step = "required"
      BY <1>3, <1>4, <2>1, <2>3, <2>5 DEF Wrote
    <2> QED BY <2>1, <2>4, <2>5
  <1> QED BY <1>1, <1>2, <1>3, <1>4, GrantedAfter

LEMMA AccessNext ==
  ASSUME TypeOK, CalmInv, Calm, DeletionInv, AccessInv, [Next]_vars PROVE AccessInv'
  <1> SUFFICES ASSUME Dependable', NEW a \in access' PROVE Recorded(a)'
    BY DEF AccessInv
  <1>1. a \in Accounts
    BY TypeNext DEF TypeOK
  <1>2. environment' = environment /\ (Deleted => Deleted')
    BY EnvironmentKept
  <1>3. May("crash") => Retried'
    BY <1>2 DEF Dependable, Retried, May, Without
  <1>4. CASE a \in access
    <2>1. Recorded(a) /\ Without({"uninstall"})
      BY <1>2, <1>4 DEF AccessInv, Dependable, Without
    <2> QED BY <1>1, <1>3, <1>4, <2>1, RecordedGrant, RecordedTask, RecordedMessage
            DEF Recorded, Retried
  <1>5. CASE a \notin access
    <2>1. PICK w \in Workers : CallGrant(w)
      BY <1>5, CalmEnd
         DEF Next, Change, EnqueueStart, EnqueueStop, Connect, DeleteBenefit, EnqueueDeletions,
             Take, Skip, Begin, Call, CallRevoke, Unable, Commit, Crash, vars
    <2>2. Runs(w) /\ Gives(task[w].message) /\ task[w].seen.account = a /\ Goto(w, "done")
      BY <1>5, <2>1, CallGrantEffect DEF CallGives
    <2>3. /\ task'[w].step = "done" /\ task'[w].message = task[w].message
          /\ task'[w].seen = task[w].seen
      BY <2>2, TaskMoved
    <2> QED BY <2>2, <2>3 DEF Recorded, Gives
  <1> QED BY <1>4, <1>5

-----------------------------------------------------------------------------
(* The theorems about access.                                              *)

LEMMA GrantInit == Init => GrantInv
  <1> SUFFICES ASSUME Init PROVE GrantInv
    OBVIOUS
  <1>1. \A w \in Workers : ~Runs(w)
    BY IdleType DEF Init, Runs
  <1>2. \A p \in Purchases : grants[p] = NoGrant
    BY DEF Init
  <1>3. ASSUME NEW p, NEW m \in InFlight(p) PROVE m.kind = "start"
    BY <1>1, Flight DEF Init, Running, Msg
  <1>4. RowsOK /\ SameAccount
    BY <1>2 DEF Init, RowsOK, RowOK, SameAccount, NoGrant
  <1>5. CalmInv
    BY <1>1, <1>3, <1>4 DEF CalmInv, Serial, TasksOK, TakesOK, Takes
  <1>6. DeletionInv
    BY <1>1, <1>3 DEF Init, DeletionInv, InOrder, OnlyDeletes, WillBeDeleted, Orderly,
                      Deleted, Gives
  <1>7. HeldInv /\ AccessInv
    BY <1>2 DEF Init, HeldInv, AccessInv, NoGrant
  <1> QED BY <1>5, <1>6, <1>7 DEF GrantInv

LEMMA GrantNext == TypeOK /\ EntitledInv /\ GrantInv /\ [Next]_vars => GrantInv'
  <1> SUFFICES ASSUME TypeOK, EntitledInv, GrantInv, [Next]_vars, Calm'
               PROVE  (CalmInv /\ DeletionInv /\ HeldInv /\ AccessInv)'
    BY DEF GrantInv
  <1>1. Calm
    BY EnvironmentKept DEF Calm, Without
  <1>2. CalmInv /\ DeletionInv /\ HeldInv /\ AccessInv
    BY <1>1 DEF GrantInv
  <1>3. CalmInv'
    BY <1>1, <1>2, CalmNext
  <1> QED BY <1>1, <1>2, <1>3, DeletionNext, HeldNext, AccessNext

(* "The benefit remains if other grants exist via other purchases"         *)
(* (strategies/github_repository/service.py): the account of a grant has   *)
(* access as long as it is granted or a task is on its way to take it,     *)
(* for any number of purchases, accounts and workers.                      *)
THEOREM GrantedHasAccessCorrect == Spec => []GrantedHasAccess
  <1>1. TypeOK /\ GrantInv => GrantedHasAccess
    <2> SUFFICES ASSUME GrantInv, Calm, Deleted => Without({"hasty", "late_connect"}),
                        NEW p \in Purchases, grants[p].granted
                 PROVE  grants[p].given \in access \/ Undone(p)
      BY DEF GrantedHasAccess, Calm
    <2>1. Held(p)
      BY DEF GrantInv, HeldInv
    <2> QED BY <2>1 DEF Held, Undone, Orderly
  <1> QED BY <1>1, TypeInit, TypeNext, EntitledInit, EntitledNext, GrantInit,
         GrantNext, PTL DEF Spec

(* No account keeps access that no grant gives and no task is about to     *)
(* record, as long as the App and the account that a revocation needs are  *)
(* there (strategies/github_repository/service.py, grant/service.py).      *)
THEOREM AccessIsGrantedCorrect == Spec => []AccessIsGranted
  <1>1. TypeOK /\ GrantInv => AccessIsGranted
    <2> DEFINE Rests(a) == \E p \in Purchases :
          \/ grants[p].granted /\ grants[p].given = a
          \/ grants[p].account = a
             /\ \E m \in InFlight(p) : m.kind \in {"grant", "update"}
    <2> SUFFICES ASSUME TypeOK, GrantInv, Calm, Dependable, NEW a \in access PROVE Rests(a)
      BY DEF AccessIsGranted, Calm, Dependable, Without
    <2>1. Recorded(a) /\ CalmInv
      BY DEF GrantInv, AccessInv, Dependable
    <2>2. ASSUME NEW w \in Workers, Runs(w), Gives(task[w].message),
                 task[w].seen.account = a
          PROVE  Rests(a)
      <3>1. PICK p \in Purchases, m \in Message : m = task[w].message /\ m.purchase = p
        BY TaskFields DEF Message
      <3>2. m \in InFlight(p) /\ m.kind \in {"grant", "update"}
        BY <2>2, <3>1, Flight DEF Running, Gives
      <3>3. a # NoAccount
        BY AccountsAssumption DEF TypeOK
      <3>4. grants[p].account = a
        BY <2>1, <2>2, <3>1, <3>3 DEF CalmInv, TasksOK, SeenOK
      <3> QED BY <3>2, <3>4
    <2>3. ASSUME NEW p \in Purchases, NEW m \in messages, m.purchase = p, Gives(m),
                 grants[p].account = a
          PROVE  Rests(a)
      <3>1. m \in InFlight(p) /\ m.kind \in {"grant", "update"}
        BY <2>3, Flight DEF Gives
      <3> QED BY <2>3, <3>1
    <2> QED BY <2>1, <2>2, <2>3 DEF Recorded, Runs
  <1> QED BY <1>1, TypeInit, TypeNext, EntitledInit, EntitledNext, GrantInit,
         GrantNext, PTL DEF Spec

=============================================================================
