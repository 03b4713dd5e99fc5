------------------------ MODULE CustomerSeats_proofs ------------------------
(***************************************************************************)
(* Theorems about CustomerSeats, for every value of its constants.         *)
(***************************************************************************)
EXTENDS CustomerSeats, FiniteSetTheorems, SequenceTheorems, TLAPS

-----------------------------------------------------------------------------
(* What tasks are about.                                                   *)

Doing(step) == {w \in Workers : task[w].step = step}

(* Every row was inserted by an assignment, and every assignment that runs *)
(* may insert another one; no subscription is left without seats.          *)
RowsInv ==
  /\ Len(seats) + Cardinality(Doing("assigning")) <= assignments
  /\ \A w \in Workers : task[w].rows \subseteq DOMAIN seats
  /\ \A w \in Workers : task[w].step = "updating" => task[w].number # 0

TypeInv == TypeOK /\ RowsInv

-----------------------------------------------------------------------------
(* How many seats are assigned: a claim that runs may bring a seat back    *)
(* that is revoked meanwhile, so it counts as assigned.                    *)

Claimed == {s \in DOMAIN seats : \E w \in Doing("claiming") : task[w].rows = {s}}

Counted == Assigned \cup Claimed

Single(S) == \A r, s \in S : r = s

CountsOK ==
  /\ pendingUpdate = 0
  /\ \A w \in Doing("claiming") : task[w].rows # {}
  /\ \A w \in Workers : task[w].step \in {"assigning", "claiming"} => Single(task[w].rows)
  /\ \A w \in Doing("updating") : Busy = {w} /\ Cardinality(Assigned) <= task[w].number
  /\ Cardinality(Counted) + Cardinality(Doing("assigning")) <= limit + Cardinality(Workers) - 1

LimitInv == Without({"next_period", "resize"}) => CountsOK

-----------------------------------------------------------------------------
(* Whether a member will have access when the jobs have been executed.     *)

Ordered == Without({"double", "collide", "reorder", "lost_job"})

WillHaveAccess(m) ==
  IF jobs[m] = <<>> THEN m \in access ELSE jobs[m][Len(jobs[m])] = "grant"

(* A member has one seat, and what two tasks do does not meet.             *)
SeatsInv ==
  /\ \A s \in Assigned : seats[s].member # Nobody
  /\ \A r, s \in Assigned : seats[r].member = seats[s].member => r = s

TasksInv ==
  \A v, w \in Busy : v # w =>
    \/ task[v].step = "updating" \/ task[w].step = "updating"
    \/ task[v].step = "claiming" /\ task[w].step = "claiming"
    \/ /\ task[v].step # "ending" /\ task[w].step # "ending"
       /\ task[v].rows \cap task[w].rows = {} /\ task[v].member # task[w].member

TaskInv(w) ==
  LET t == task[w]
  IN /\ t.step = "assigning" =>
          /\ t.member \in Members /\ SeatsOf(t.member) = {}
          /\ t.rows \cap Assigned = {} /\ Single(t.rows)
     /\ t.step \in {"claiming", "revoking"} =>
          \E s \in SeatsOf(t.member) : t.rows = {s}
     /\ t.step = "ending" => t.rows = Assigned
     /\ t.step \in {"revoking", "ending"} =>
          \A s \in t.rows : t.read[s].member = seats[s].member

AccessOK ==
  /\ SeatsInv /\ TasksInv
  /\ \A w \in Workers : TaskInv(w)
  /\ \A m \in Members : WillHaveAccess(m) <=> HasSeat(m)

AccessInv == Ordered => AccessOK

-----------------------------------------------------------------------------
(* The values of the operators.                                            *)

Steps == {"idle", "assigning", "claiming", "revoking", "ending", "updating"}

AnyMember == Members \cup {Nobody}

Tokens == 0 .. MaxAssignments

Reads == UNION {[rows -> Seat] : rows \in SUBSET Rows}

LEMMA SeatFields ==
  ASSUME NEW s \in Seat
  PROVE  /\ s.status \in {"pending", "claimed", "revoked"}
         /\ s.member \in AnyMember /\ s.token \in Tokens
  <1>1. s.status \in {"pending", "claimed", "revoked"}
    BY DEF Seat
  <1>2. s.member \in AnyMember /\ s.token \in Tokens
    BY DEF Seat, AnyMember, Tokens
  <1> QED BY <1>1, <1>2

LEMMA SeatType ==
  ASSUME NEW k \in {"pending", "claimed", "revoked"}, NEW m \in AnyMember, NEW i \in Tokens
  PROVE  [status |-> k, member |-> m, token |-> i] \in Seat
  BY DEF Seat, AnyMember, Tokens

LEMMA IdleType == Idle \in Task /\ Idle.step = "idle" /\ Idle.rows = {}
  <1>1. <<>> \in [{} -> Seat]
    OBVIOUS
  <1>2. Idle.read \in Reads
    BY <1>1 DEF Reads, Idle
  <1>3. Idle.token \in Tokens /\ Idle.number \in 0 .. MaxSeats
    BY BoundsAssumption DEF Idle, NoToken, Tokens
  <1> QED BY <1>2, <1>3 DEF Idle, Task, Reads, Tokens

LEMMA TaskFields ==
  ASSUME TypeOK, NEW w \in Workers
  PROVE  /\ task[w] \in Task /\ task[w].step \in Steps /\ task[w].member \in AnyMember
         /\ task[w].rows \in SUBSET Rows /\ task[w].claimed \in BOOLEAN
         /\ task[w].read \in Reads /\ task[w].token \in Tokens
         /\ task[w].number \in 0 .. MaxSeats
  <1>1. task[w] \in Task
    BY DEF TypeOK
  <1>2. /\ task[w].step \in Steps /\ task[w].member \in AnyMember
        /\ task[w].rows \in SUBSET Rows
    BY <1>1 DEF Task, Steps, AnyMember
  <1>3. task[w].claimed \in BOOLEAN /\ task[w].number \in 0 .. MaxSeats
    BY <1>1 DEF Task
  <1>4. task[w].read \in Reads /\ task[w].token \in Tokens
    BY <1>1 DEF Task, Reads, Tokens
  <1> QED BY <1>1, <1>2, <1>3, <1>4

LEMMA RowFacts ==
  ASSUME seats \in Seq(Seat)
  PROVE  /\ Len(seats) \in Nat /\ DOMAIN seats = 1 .. Len(seats)
         /\ \A s \in DOMAIN seats : seats[s] \in Seat
         /\ Assigned \subseteq DOMAIN seats
         /\ IsFiniteSet(DOMAIN seats) /\ IsFiniteSet(Assigned)
  <1>1. Len(seats) \in Nat /\ DOMAIN seats = 1 .. Len(seats)
    BY LenProperties
  <1>2. \A s \in DOMAIN seats : seats[s] \in Seat
    BY <1>1, ElementOfSeq
  <1>3. Assigned \subseteq DOMAIN seats
    BY DEF Assigned
  <1>4. IsFiniteSet(DOMAIN seats)
    BY <1>1, FS_Interval
  <1>5. IsFiniteSet(Assigned)
    BY <1>3, <1>4, FS_Subset
  <1> QED BY <1>1, <1>2, <1>3, <1>4, <1>5

(* All rows are written, none is inserted.                                 *)
LEMMA Rewritten ==
  ASSUME seats \in Seq(Seat), NEW rows \in [DOMAIN seats -> Seat], seats' = rows
  PROVE  seats' \in Seq(Seat) /\ Len(seats') = Len(seats) /\ DOMAIN seats' = DOMAIN seats
  <1>1. Len(seats) \in Nat /\ DOMAIN seats = 1 .. Len(seats)
    BY LenProperties
  <1>2. rows \in Seq(Seat)
    BY <1>1, SeqDef
  <1>3. DOMAIN rows = 1 .. Len(rows) /\ Len(rows) \in Nat
    BY <1>2, LenProperties
  <1>4. 1 .. Len(rows) = 1 .. Len(seats)
    BY <1>1, <1>3
  <1>5. Len(rows) = Len(seats)
    BY <1>1, <1>3, <1>4
  <1> QED BY <1>2, <1>3, <1>4, <1>5, <1>1

LEMMA EnqueueType ==
  ASSUME TypeOK, NEW S, NEW name \in {"grant", "revoke"}, Enqueue(S, name)
  PROVE  jobs' \in [Members -> Seq({"grant", "revoke"})]
  <1>1. CASE UNCHANGED jobs
    BY <1>1 DEF TypeOK
  <1>2. CASE jobs' = [m \in Members |-> IF m \in S THEN Append(jobs[m], name) ELSE jobs[m]]
    <2>1. \A m \in Members : Append(jobs[m], name) \in Seq({"grant", "revoke"})
      BY AppendProperties DEF TypeOK
    <2> QED BY <1>2, <2>1 DEF TypeOK
  <1> QED BY <1>1, <1>2 DEF Enqueue

LEMMA TaskSet ==
  ASSUME TypeOK, NEW w \in Workers, NEW t \in Task, task' = [task EXCEPT ![w] = t]
  PROVE  /\ task' \in [Workers -> Task] /\ task'[w] = t
         /\ \A v \in Workers : v # w => task'[v] = task[v]
  BY DEF TypeOK

LEMMA DoingFinite == \A step : IsFiniteSet(Doing(step)) /\ Cardinality(Doing(step)) \in Nat
  BY WorkersAssumption, FS_Subset, FS_CardinalityType DEF Doing

LEMMA DoingSet ==
  ASSUME TypeOK, NEW w \in Workers, NEW t \in Task, task' = [task EXCEPT ![w] = t], NEW step
  PROVE  Doing(step)' = IF t.step = step THEN Doing(step) \cup {w} ELSE Doing(step) \ {w}
  BY TaskSet DEF Doing

-----------------------------------------------------------------------------
(* Type correctness, action by action.                                     *)

LEMMA RowsKnown ==
  ASSUME TypeInv
  PROVE  DOMAIN seats \subseteq Rows /\ Len(seats) <= MaxAssignments
  <1>1. Len(seats) \in Nat /\ DOMAIN seats = 1 .. Len(seats)
    BY RowFacts DEF TypeInv, TypeOK
  <1>2. assignments \in 0 .. MaxAssignments /\ Cardinality(Doing("assigning")) \in Nat
    BY DoingFinite DEF TypeInv, TypeOK
  <1>3. Len(seats) <= MaxAssignments
    BY <1>1, <1>2, BoundsAssumption DEF TypeInv, RowsInv
  <1> QED BY <1>1, <1>3, BoundsAssumption DEF Rows

(* A request begins, other than an assignment.                             *)
LEMMA StartType ==
  ASSUME TypeInv, NEW w \in Workers, NEW t \in Task, Starts(w, t), t.step # "assigning",
         t.rows \subseteq DOMAIN seats, t.step = "updating" => t.number # 0,
         UNCHANGED <<environment, active, limit, pendingUpdate, seats, assignments, jobs,
                     access>>
  PROVE  TypeInv'
  <1>1. /\ task' \in [Workers -> Task] /\ task'[w] = t
        /\ \A v \in Workers : v # w => task'[v] = task[v]
        /\ task' = [task EXCEPT ![w] = t] /\ task[w].step = "idle"
    BY TaskSet DEF TypeInv, Starts, Busy
  <1>2. w \notin Doing("assigning")
    BY <1>1 DEF Doing
  <1>3. Doing("assigning")' = Doing("assigning") \ {w}
    BY ZenonT(60), <1>1, DoingSet DEF TypeInv
  <1>4. Doing("assigning")' = Doing("assigning")
    BY <1>2, <1>3
  <1>5. RowsInv'
    BY <1>1, <1>4 DEF TypeInv, RowsInv
  <1>6. TypeOK'
    BY <1>1 DEF TypeInv, TypeOK
  <1> QED BY <1>5, <1>6 DEF TypeInv

(* A request or task ends, other than an assignment.                       *)
LEMMA EndRows ==
  ASSUME TypeInv, NEW w \in Workers, Ends(w), task[w].step # "assigning",
         Len(seats') = Len(seats), DOMAIN seats' = DOMAIN seats, assignments' = assignments
  PROVE  task' \in [Workers -> Task] /\ RowsInv'
  <1>1. /\ task' \in [Workers -> Task] /\ task'[w] = Idle
        /\ \A v \in Workers : v # w => task'[v] = task[v]
        /\ task' = [task EXCEPT ![w] = Idle]
    BY TaskSet, IdleType DEF TypeInv, Ends
  <1>2. w \notin Doing("assigning")
    BY DEF Doing
  <1>3. Doing("assigning")' = Doing("assigning") \ {w}
    BY <1>1, DoingSet, IdleType DEF TypeInv
  <1>4. Doing("assigning")' = Doing("assigning")
    BY <1>2, <1>3
  <1>5. \A v \in Workers : task'[v].rows \subseteq DOMAIN seats'
    BY <1>1, IdleType DEF TypeInv, RowsInv
  <1>6. Len(seats') + Cardinality(Doing("assigning")') <= assignments'
    BY <1>4 DEF TypeInv, RowsInv
  <1>7. \A v \in Workers : task'[v].step = "updating" => task'[v].number # 0
    BY <1>1, IdleType DEF TypeInv, RowsInv
  <1> QED BY <1>1, <1>5, <1>6, <1>7 DEF RowsInv

Assignment(m, rows, claimed, token) ==
  [Idle EXCEPT !.step = "assigning", !.member = m, !.rows = rows, !.claimed = claimed,
               !.token = token]

LEMMA AssignmentType ==
  ASSUME NEW m \in Members, NEW rows \in SUBSET Rows, NEW claimed \in BOOLEAN,
         NEW token \in Tokens
  PROVE  /\ Assignment(m, rows, claimed, token) \in Task
         /\ Assignment(m, rows, claimed, token).step = "assigning"
         /\ Assignment(m, rows, claimed, token).member = m
         /\ Assignment(m, rows, claimed, token).rows = rows
  BY IdleType DEF Assignment, Task, Tokens

LEMMA AssignBeginEffect ==
  ASSUME TypeInv, NEW w \in Workers, NEW m \in Members, NEW rows \in Reusable,
         NEW claimed \in BOOLEAN, AssignBegin(w, m, rows, claimed)
  PROVE  /\ rows \subseteq DOMAIN seats /\ rows \cap Assigned = {}
         /\ \A r, s \in rows : r = s
         /\ assignments' \in Tokens /\ assignments' = assignments + 1
         /\ task[w].step = "idle"
         /\ \E t \in Task : /\ t.step = "assigning" /\ t.member = m /\ t.rows = rows
                            /\ task' = [task EXCEPT ![w] = t]
  <1>1. /\ rows \subseteq DOMAIN seats /\ rows \cap Assigned = {}
        /\ \A r, s \in rows : r = s
    BY DEF Reusable
  <1>2. rows \in SUBSET Rows
    BY <1>1, RowsKnown
  <1>3. assignments' = assignments + 1 /\ assignments' \in Tokens
    BY BoundsAssumption DEF AssignBegin, TypeInv, TypeOK, Tokens
  <1> DEFINE token == IF claimed THEN NoToken ELSE assignments + 1
             t == Assignment(m, rows, claimed, token)
  <1>4. token \in Tokens
    BY <1>3, BoundsAssumption DEF NoToken, Tokens
  <1>5. task[w].step = "idle" /\ task' = [task EXCEPT ![w] = t]
    BY DEF AssignBegin, Starts, Busy, Assignment
  <1> HIDE DEF token
  <1>6. t \in Task /\ t.step = "assigning" /\ t.member = m /\ t.rows = rows
    BY <1>2, <1>4, AssignmentType
  <1> QED BY <1>1, <1>3, <1>5, <1>6

LEMMA AssignBeginType ==
  ASSUME TypeInv, NEW w \in Workers, NEW m \in Members, NEW rows \in Reusable,
         NEW claimed \in BOOLEAN, AssignBegin(w, m, rows, claimed)
  PROVE  TypeInv'
  <1>1. PICK t \in Task : /\ t.step = "assigning" /\ t.rows = rows
                          /\ task' = [task EXCEPT ![w] = t]
    BY AssignBeginEffect
  <1>2. /\ task' \in [Workers -> Task] /\ task'[w] = t
        /\ \A v \in Workers : v # w => task'[v] = task[v]
    BY <1>1, TaskSet DEF TypeInv
  <1>3. task[w].step = "idle" /\ rows \subseteq DOMAIN seats
        /\ assignments' = assignments + 1 /\ assignments' \in Tokens
    BY AssignBeginEffect
  <1>4. UNCHANGED <<environment, active, limit, pendingUpdate, seats, jobs, access>>
    BY DEF AssignBegin
  <1>5. Doing("assigning")' = Doing("assigning") \cup {w} /\ w \notin Doing("assigning")
    BY <1>1, <1>3, DoingSet DEF TypeInv, Doing
  <1>6. Cardinality(Doing("assigning")') = Cardinality(Doing("assigning")) + 1
    BY <1>5, DoingFinite, FS_AddElement
  <1>7. Len(seats') + Cardinality(Doing("assigning")') <= assignments'
    BY <1>3, <1>4, <1>6, RowFacts, DoingFinite DEF TypeInv, TypeOK, RowsInv
  <1>8. RowsInv'
    BY <1>1, <1>2, <1>3, <1>4, <1>7 DEF TypeInv, RowsInv
  <1>9. TypeOK'
    BY <1>2, <1>3, <1>4 DEF TypeInv, TypeOK, Tokens
  <1> QED BY <1>8, <1>9 DEF TypeInv

(* The rows S that an assignment writes: the reused one or a new one.      *)
Assigns(w, seat, S) ==
  /\ seat.status = IF task[w].claimed THEN "claimed" ELSE "pending"
  /\ seat.member = task[w].member
  /\ S # {}
  /\ S = task[w].rows \/ (task[w].rows = {} /\ S = {Len(seats) + 1})
  /\ seats' \in Seq(Seat) /\ DOMAIN seats' = DOMAIN seats \cup S
  /\ \A s \in DOMAIN seats' : seats'[s] = IF s \in S THEN seat ELSE seats[s]
  /\ Len(seats') <= Len(seats) + 1

LEMMA AssignCommitEffect ==
  ASSUME TypeInv, NEW w \in Workers, AssignCommit(w)
  PROVE  \E seat \in Seat, S \in SUBSET Nat : Assigns(w, seat, S)
  <1> DEFINE t == task[w]
             seat == [status |-> IF t.claimed THEN "claimed" ELSE "pending",
                      member |-> t.member, token |-> t.token]
  <1>1. /\ seat \in Seat /\ seat.member = t.member
        /\ seat.status = IF t.claimed THEN "claimed" ELSE "pending"
    BY SeatType, TaskFields DEF TypeInv
  <1>2. /\ Len(seats) \in Nat /\ DOMAIN seats = 1 .. Len(seats)
        /\ \A s \in DOMAIN seats : seats[s] \in Seat
        /\ seats \in Seq(Seat) /\ t.rows \subseteq DOMAIN seats
    BY RowFacts DEF TypeInv, TypeOK, RowsInv
  <1>3. CASE t.rows = {}
    <2>1. seats' = Append(seats, seat)
      BY <1>3 DEF AssignCommit
    <2> DEFINE S == {Len(seats) + 1}
    <2> HIDE DEF t, seat
    <2>2. /\ seats' \in Seq(Seat) /\ Len(seats') = Len(seats) + 1
          /\ DOMAIN seats' = 1 .. Len(seats')
          /\ \A i \in 1 .. Len(seats) : seats'[i] = seats[i]
          /\ seats'[Len(seats) + 1] = seat
      BY <1>1, <1>2, <2>1, AppendProperties, LenProperties
    <2>3. DOMAIN seats' = DOMAIN seats \cup S /\ S \in SUBSET Nat
      BY <1>2, <2>2
    <2>4. \A s \in DOMAIN seats' : seats'[s] = IF s \in S THEN seat ELSE seats[s]
      BY <1>2, <2>2, <2>3
    <2>5. Assigns(w, seat, S)
      BY <1>1, <1>3, <2>2, <2>3, <2>4 DEF Assigns, t
    <2> QED BY <1>1, <2>3, <2>5
  <1>4. CASE t.rows # {}
    <2> DEFINE rows == [s \in DOMAIN seats |-> IF s \in t.rows THEN seat ELSE seats[s]]
    <2>1. seats' = rows
      BY <1>4 DEF AssignCommit
    <2> HIDE DEF t, seat
    <2>2. rows \in [DOMAIN seats -> Seat]
      BY <1>1, <1>2
    <2>3. seats' \in Seq(Seat) /\ Len(seats') = Len(seats) /\ DOMAIN seats' = DOMAIN seats
      BY <1>2, <2>1, <2>2, Rewritten
    <2>4. t.rows \in SUBSET Nat /\ DOMAIN seats' = DOMAIN seats \cup t.rows
      BY <1>2, <2>3
    <2>5. \A s \in DOMAIN seats' : seats'[s] = IF s \in t.rows THEN seat ELSE seats[s]
      BY <2>1, <2>3
    <2>6. Assigns(w, seat, t.rows)
      BY <1>1, <1>2, <1>4, <2>3, <2>4, <2>5 DEF Assigns, t
    <2> QED BY <1>1, <2>4, <2>6
  <1> QED BY <1>3, <1>4

LEMMA AssignCommitType == ASSUME TypeInv, NEW w \in Workers, AssignCommit(w) PROVE TypeInv'
  <1>1. seats' \in Seq(Seat) /\ DOMAIN seats \subseteq DOMAIN seats'
        /\ Len(seats') <= Len(seats) + 1
    BY AssignCommitEffect DEF Assigns
  <1>2. /\ task' = [task EXCEPT ![w] = Idle] /\ task[w].step = "assigning"
        /\ UNCHANGED <<environment, active, limit, pendingUpdate, assignments, access>>
    BY DEF AssignCommit, Ends
  <1>3. /\ task' \in [Workers -> Task] /\ task'[w] = Idle
        /\ \A v \in Workers : v # w => task'[v] = task[v]
    BY <1>2, TaskSet, IdleType DEF TypeInv
  <1>4. Doing("assigning")' = Doing("assigning") \ {w}
    BY <1>2, DoingSet, IdleType DEF TypeInv
  <1>5. Cardinality(Doing("assigning")') = Cardinality(Doing("assigning")) - 1
    <2>1. w \in Doing("assigning")
      BY <1>2 DEF Doing
    <2> QED BY <1>4, <2>1, DoingFinite, FS_RemoveElement
  <1>6. Len(seats) \in Nat /\ Len(seats') \in Nat /\ assignments \in Nat
        /\ Cardinality(Doing("assigning")) \in Nat
    BY <1>1, DoingFinite, LenProperties DEF TypeInv, TypeOK
  <1>7. Len(seats') + Cardinality(Doing("assigning")') <= assignments'
    BY <1>1, <1>2, <1>5, <1>6 DEF TypeInv, RowsInv
  <1>8. RowsInv'
    BY <1>1, <1>3, <1>7, IdleType DEF TypeInv, RowsInv
  <1>9. jobs' \in [Members -> Seq({"grant", "revoke"})]
    BY EnqueueType DEF TypeInv, AssignCommit
  <1> QED BY <1>1, <1>2, <1>3, <1>8, <1>9 DEF TypeInv, TypeOK

LEMMA ClaimCommitEffect ==
  ASSUME TypeInv, NEW w \in Workers, ClaimCommit(w)
  PROVE  /\ seats' \in Seq(Seat) /\ Len(seats') = Len(seats) /\ DOMAIN seats' = DOMAIN seats
         /\ \A s \in DOMAIN seats :
              /\ s \notin task[w].rows => seats'[s] = seats[s]
              /\ s \in task[w].rows =>
                   seats'[s].status = "claimed" /\ seats'[s].member = seats[s].member
  <1> DEFINE new(s) == [seats[s] EXCEPT !.status = "claimed", !.token = NoToken]
             rows == [s \in DOMAIN seats |-> IF s \in task[w].rows THEN new(s) ELSE seats[s]]
  <1>1. seats' = rows
    BY DEF ClaimCommit
  <1>2. seats \in Seq(Seat) /\ \A s \in DOMAIN seats : seats[s] \in Seat
    BY RowFacts DEF TypeInv, TypeOK
  <1>3. \A s \in DOMAIN seats :
          new(s) \in Seat /\ new(s).status = "claimed" /\ new(s).member = seats[s].member
    <2> SUFFICES ASSUME NEW s \in DOMAIN seats
                 PROVE  new(s) \in Seat /\ new(s).status = "claimed"
                        /\ new(s).member = seats[s].member
      OBVIOUS
    <2>1. seats[s] \in Seat /\ NoToken \in 0 .. MaxAssignments
      BY <1>2, BoundsAssumption DEF NoToken
    <2> QED BY <2>1 DEF Seat
  <1> HIDE DEF new
  <1>4. rows \in [DOMAIN seats -> Seat]
    BY <1>2, <1>3
  <1>5. seats' \in Seq(Seat) /\ Len(seats') = Len(seats) /\ DOMAIN seats' = DOMAIN seats
    BY <1>1, <1>2, <1>4, Rewritten
  <1> QED BY <1>1, <1>3, <1>5

LEMMA RevokeCommitEffect ==
  ASSUME TypeInv, NEW w \in Workers, RevokeCommit(w)
  PROVE  /\ seats' \in Seq(Seat) /\ Len(seats') = Len(seats) /\ DOMAIN seats' = DOMAIN seats
         /\ \A s \in DOMAIN seats :
              /\ s \notin task[w].rows => seats'[s] = seats[s]
              /\ s \in task[w].rows => seats'[s].status = "revoked"
  <1> DEFINE t == task[w]
             new(s) ==
               [status |-> "revoked",
                member |-> IF t.read[s].member = Nobody THEN seats[s].member ELSE Nobody,
                token |-> IF t.read[s].token = NoToken THEN seats[s].token ELSE NoToken]
             rows == [s \in DOMAIN seats |-> IF s \in t.rows THEN new(s) ELSE seats[s]]
  <1>1. seats' = rows
    BY DEF RevokeCommit
  <1>2. seats \in Seq(Seat) /\ \A s \in DOMAIN seats : seats[s] \in Seat
    BY RowFacts DEF TypeInv, TypeOK
  <1>3. \A s \in DOMAIN seats : new(s) \in Seat /\ new(s).status = "revoked"
    <2> SUFFICES ASSUME NEW s \in DOMAIN seats PROVE new(s) \in Seat /\ new(s).status = "revoked"
      OBVIOUS
    <2>1. seats[s].member \in AnyMember /\ seats[s].token \in Tokens
      BY <1>2, SeatFields
    <2>2. Nobody \in AnyMember /\ NoToken \in Tokens
      BY BoundsAssumption DEF AnyMember, NoToken, Tokens
    <2> QED BY <2>1, <2>2, SeatType
  <1> HIDE DEF new
  <1>4. rows \in [DOMAIN seats -> Seat]
    BY <1>2, <1>3
  <1>5. seats' \in Seq(Seat) /\ Len(seats') = Len(seats) /\ DOMAIN seats' = DOMAIN seats
    BY <1>1, <1>2, <1>4, Rewritten
  <1> QED BY <1>1, <1>3, <1>5

LEMMA ClaimBeginEffect ==
  ASSUME TypeInv, NEW w \in Workers, NEW s \in DOMAIN seats, ClaimBegin(w, s)
  PROVE  \E t \in Task : /\ Starts(w, t) /\ t.step = "claiming"
                         /\ t.member = seats[s].member /\ t.rows = {s}
  <1> DEFINE t == [Idle EXCEPT !.step = "claiming", !.member = seats[s].member, !.rows = {s}]
  <1>1. seats[s].member \in Members \cup {Nobody} /\ {s} \in SUBSET Rows
    BY RowFacts, RowsKnown, SeatFields DEF TypeInv, TypeOK, AnyMember
  <1>2. t \in Task /\ t.step = "claiming" /\ t.member = seats[s].member /\ t.rows = {s}
    BY <1>1, IdleType DEF Task
  <1>3. Starts(w, t)
    BY DEF ClaimBegin
  <1> QED BY <1>2, <1>3

LEMMA ReadType ==
  ASSUME TypeInv, NEW rows \in SUBSET Assigned
  PROVE  rows \in SUBSET Rows /\ [s \in rows |-> seats[s]] \in Reads
  <1>1. rows \in SUBSET Rows /\ \A s \in rows : seats[s] \in Seat
    BY RowFacts, RowsKnown DEF TypeInv, TypeOK
  <1>2. [s \in rows |-> seats[s]] \in [rows -> Seat]
    BY <1>1
  <1> QED BY <1>1, <1>2 DEF Reads

LEMMA RevokeBeginEffect ==
  ASSUME TypeInv, NEW w \in Workers, NEW rows \in SUBSET Assigned, RevokeBegin(w, rows)
  PROVE  /\ rows # {}
         /\ \E t \in Task : /\ Starts(w, t) /\ t.step = "revoking" /\ t.rows = rows
                            /\ t.read = [s \in rows |-> seats[s]]
                            /\ \E s \in rows : t.member = seats[s].member
  <1> DEFINE first == CHOOSE s \in rows : TRUE
             read == [s \in rows |-> seats[s]]
             t == [Idle EXCEPT !.step = "revoking", !.rows = rows, !.read = read,
                               !.member = seats[first].member]
  <1>1. rows # {} /\ first \in rows
    BY DEF RevokeBegin
  <1>2. seats[first].member \in Members \cup {Nobody}
    BY <1>1, RowFacts, SeatFields DEF TypeInv, TypeOK, AnyMember
  <1>3. rows \in SUBSET Rows /\ read \in Reads
    BY ReadType
  <1>4. Starts(w, t)
    BY DEF RevokeBegin
  <1> HIDE DEF first, read
  <1>5. /\ t \in Task /\ t.step = "revoking" /\ t.member = seats[first].member
        /\ t.rows = rows /\ t.read = read
    BY <1>2, <1>3, IdleType DEF Task, Reads
  <1> QED BY <1>1, <1>4, <1>5 DEF read

LEMMA EndBeginEffect ==
  ASSUME TypeInv, NEW w \in Workers, EndBegin(w)
  PROVE  \E t \in Task : /\ Starts(w, t) /\ t.step = "ending" /\ t.rows = Assigned
                         /\ t.read = [s \in Assigned |-> seats[s]]
  <1> DEFINE read == [s \in Assigned |-> seats[s]]
             t == [Idle EXCEPT !.step = "ending", !.rows = Assigned, !.read = read]
  <1>1. Assigned \in SUBSET Rows /\ read \in Reads
    BY ReadType
  <1>2. Starts(w, t)
    BY DEF EndBegin
  <1> HIDE DEF read
  <1>3. t \in Task /\ t.step = "ending" /\ t.rows = Assigned /\ t.read = read
    BY <1>1, IdleType DEF Task, Reads
  <1> QED BY <1>2, <1>3 DEF read

LEMMA UpdateBeginEffect ==
  ASSUME TypeInv, NEW w \in Workers, NEW number \in 1 .. MaxSeats, UpdateBegin(w, number)
  PROVE  \E t \in Task : /\ Starts(w, t) /\ t.step = "updating" /\ t.number = number
                         /\ t.rows = {}
  <1> DEFINE t == [Idle EXCEPT !.step = "updating", !.number = number]
  <1>1. Starts(w, t) /\ number \in 0 .. MaxSeats
    BY BoundsAssumption DEF UpdateBegin
  <1>2. t \in Task /\ t.step = "updating" /\ t.number = number /\ t.rows = {}
    BY <1>1, IdleType DEF Task
  <1> QED BY <1>1, <1>2

LEMMA BeginType == ASSUME TypeInv, NEW w \in Workers, Begin(w) PROVE TypeInv'
  <1>1. ASSUME NEW m \in Members, NEW rows \in Reusable, NEW claimed \in BOOLEAN,
               AssignBegin(w, m, rows, claimed)
        PROVE  TypeInv'
    BY <1>1, AssignBeginType
  <1>2. ASSUME NEW s \in DOMAIN seats, ClaimBegin(w, s) PROVE TypeInv'
    <2>1. PICK t \in Task : Starts(w, t) /\ t.step = "claiming" /\ t.rows = {s}
      BY <1>2, ClaimBeginEffect
    <2> QED BY <1>2, <2>1, StartType DEF ClaimBegin
  <1>3. ASSUME NEW rows \in SUBSET Assigned, RevokeBegin(w, rows) PROVE TypeInv'
    <2>1. PICK t \in Task : Starts(w, t) /\ t.step = "revoking" /\ t.rows = rows
      BY <1>3, RevokeBeginEffect
    <2> QED BY <1>3, <2>1, StartType, RowFacts DEF RevokeBegin, TypeInv, TypeOK
  <1>4. CASE EndBegin(w)
    <2>1. PICK t \in Task : Starts(w, t) /\ t.step = "ending" /\ t.rows = Assigned
      BY <1>4, EndBeginEffect
    <2> QED BY <1>4, <2>1, StartType, RowFacts DEF EndBegin, TypeInv, TypeOK
  <1>5. ASSUME NEW number \in 1 .. MaxSeats, UpdateBegin(w, number) PROVE TypeInv'
    <2>1. PICK t \in Task : Starts(w, t) /\ t.step = "updating" /\ t.rows = {}
                            /\ t.number = number
      BY <1>5, UpdateBeginEffect
    <2>2. number # 0
      BY BoundsAssumption
    <2> QED BY <1>5, <2>1, <2>2, StartType DEF UpdateBegin
  <1> QED BY <1>1, <1>2, <1>3, <1>4, <1>5 DEF Begin

LEMMA CommitType == ASSUME TypeInv, NEW w \in Workers, Commit(w) PROVE TypeInv'
  <1>1. CASE AssignCommit(w)
    BY <1>1, AssignCommitType
  <1>2. CASE ClaimCommit(w)
    <2>1. seats' \in Seq(Seat) /\ Len(seats') = Len(seats) /\ DOMAIN seats' = DOMAIN seats
      BY <1>2, ClaimCommitEffect
    <2>2. task' \in [Workers -> Task] /\ RowsInv'
      BY <1>2, <2>1, EndRows DEF ClaimCommit
    <2>3. jobs' \in [Members -> Seq({"grant", "revoke"})]
      BY <1>2, EnqueueType DEF TypeInv, ClaimCommit
    <2> QED BY <1>2, <2>1, <2>2, <2>3 DEF ClaimCommit, TypeInv, TypeOK
  <1>3. CASE RevokeCommit(w)
    <2>1. seats' \in Seq(Seat) /\ Len(seats') = Len(seats) /\ DOMAIN seats' = DOMAIN seats
      BY <1>3, RevokeCommitEffect
    <2>2. task' \in [Workers -> Task] /\ RowsInv'
      BY <1>3, <2>1, EndRows DEF RevokeCommit
    <2>3. jobs' \in [Members -> Seq({"grant", "revoke"})]
      BY <1>3, EnqueueType DEF TypeInv, RevokeCommit
    <2>4. active' \in BOOLEAN
      BY <1>3 DEF RevokeCommit
    <2> QED BY <1>3, <2>1, <2>2, <2>3, <2>4 DEF RevokeCommit, TypeInv, TypeOK
  <1>4. CASE UpdateCommit(w)
    <2>1. task' \in [Workers -> Task] /\ RowsInv'
      BY <1>4, EndRows DEF UpdateCommit
    <2>2. task[w].number \in 0 .. MaxSeats /\ task[w].number \in 1 .. MaxSeats
      BY <1>4, TaskFields DEF UpdateCommit, TypeInv, RowsInv
    <2>3. limit' \in 1 .. MaxSeats /\ pendingUpdate' \in 0 .. MaxSeats
      BY <1>4, <2>2, BoundsAssumption DEF UpdateCommit, TypeInv, TypeOK
    <2> QED BY <1>4, <2>1, <2>3 DEF UpdateCommit, TypeInv, TypeOK
  <1> QED BY <1>1, <1>2, <1>3, <1>4 DEF Commit

LEMMA RemoveType ==
  ASSUME NEW S, NEW q \in Seq(S), NEW i \in DOMAIN q
  PROVE  RemoveAt(q, i) \in Seq(S)
  BY SubSeqProperties, ConcatProperties, LenProperties, ElementOfSeq DEF RemoveAt

LEMMA HandleType == ASSUME TypeInv, NEW m \in Members, Handle(m) PROVE TypeInv'
  <1>1. PICK i \in DOMAIN jobs[m] :
          /\ access' = IF jobs[m][i] = "grant" THEN access \cup {m} ELSE access \ {m}
          /\ jobs' = [jobs EXCEPT ![m] = RemoveAt(jobs[m], i)]
          /\ UNCHANGED <<environment, active, limit, pendingUpdate, seats, assignments, task>>
    BY DEF Handle
  <1>2. RemoveAt(jobs[m], i) \in Seq({"grant", "revoke"})
    BY RemoveType DEF TypeInv, TypeOK
  <1>3. jobs' \in [Members -> Seq({"grant", "revoke"})]
    BY <1>1, <1>2 DEF TypeInv, TypeOK
  <1>4. access' \in SUBSET Members
    BY <1>1 DEF TypeInv, TypeOK
  <1>5. RowsInv'
    BY <1>1 DEF TypeInv, RowsInv, Doing
  <1> QED BY <1>1, <1>3, <1>4, <1>5 DEF TypeInv, TypeOK

LEMMA TypeNext == TypeInv /\ [Next]_vars => TypeInv'
  <1> SUFFICES ASSUME TypeInv, [Next]_vars PROVE TypeInv'
    OBVIOUS
  <1>1. CASE NextPeriod
    <2>1. limit' \in 1 .. MaxSeats /\ pendingUpdate' \in 0 .. MaxSeats
      BY <1>1, BoundsAssumption DEF NextPeriod, TypeInv, TypeOK
    <2>2. RowsInv'
      BY <1>1 DEF NextPeriod, TypeInv, RowsInv, Doing
    <2> QED BY <1>1, <2>1, <2>2 DEF NextPeriod, TypeInv, TypeOK
  <1>2. CASE UNCHANGED vars
    BY <1>2 DEF vars, TypeInv, TypeOK, RowsInv, Doing
  <1> QED BY <1>1, <1>2, BeginType, CommitType, HandleType DEF Next

LEMMA TypeInit == Init => TypeInv
  <1> SUFFICES ASSUME Init PROVE TypeInv
    OBVIOUS
  <1>1. environment \in SUBSET AllEvents
    BY EnvironmentsAssumption DEF Init
  <1>2. seats \in Seq(Seat) /\ Len(seats) = 0
    BY EmptySeq DEF Init
  <1>3. jobs \in [Members -> Seq({"grant", "revoke"})]
    BY EmptySeq DEF Init
  <1>4. task \in [Workers -> Task] /\ Doing("assigning") = {}
        /\ \A w \in Workers : task[w].rows = {} /\ task[w].step = "idle"
    BY IdleType DEF Init, Doing
  <1>5. RowsInv
    <2>1. Cardinality(Doing("assigning")) = 0 /\ assignments = 0
      BY <1>4, FS_EmptySet DEF Init
    <2>2. Len(seats) + Cardinality(Doing("assigning")) <= assignments
      BY <1>2, <2>1
    <2> QED BY <1>4, <2>2 DEF RowsInv
  <1> QED BY <1>1, <1>2, <1>3, <1>4, <1>5, BoundsAssumption DEF Init, TypeInv, TypeOK

(* Type correctness, for any members, workers and bounds: rows, requests,  *)
(* jobs; every row was inserted by an assignment of its own.               *)
THEOREM TypeCorrect == Spec => []TypeOK
  <1>1. TypeInv => TypeOK
    BY DEF TypeInv
  <1> QED BY <1>1, TypeInit, TypeNext, PTL DEF Spec

-----------------------------------------------------------------------------
(* The seats assigned are counted.                                         *)

LEMMA CountedFinite ==
  ASSUME TypeInv
  PROVE  /\ IsFiniteSet(Counted) /\ Cardinality(Counted) \in Nat
         /\ IsFiniteSet(Assigned) /\ Cardinality(Assigned) \in Nat
         /\ IsFiniteSet(Claimed) /\ Cardinality(Claimed) \in Nat
         /\ Cardinality(Workers) \in Nat /\ limit \in Nat
  <1>1. IsFiniteSet(DOMAIN seats) /\ Assigned \subseteq DOMAIN seats /\ limit \in Nat
    BY RowFacts DEF TypeInv, TypeOK
  <1>2. Claimed \subseteq DOMAIN seats
    BY DEF Claimed
  <1>3. IsFiniteSet(Counted) /\ IsFiniteSet(Assigned) /\ IsFiniteSet(Claimed)
    BY <1>1, <1>2, FS_Subset DEF Counted
  <1> QED BY <1>1, <1>3, WorkersAssumption, FS_CardinalityType

(* Every row that is claimed has a worker of its own.                      *)
LEMMA ClaimedBound ==
  ASSUME TypeInv PROVE Cardinality(Claimed) <= Cardinality(Doing("claiming"))
  <1> DEFINE f == [s \in Claimed |-> CHOOSE w \in Doing("claiming") : task[w].rows = {s}]
  <1>1. \A s \in Claimed : f[s] \in Doing("claiming") /\ task[f[s]].rows = {s}
    BY DEF Claimed
  <1>2. f \in [Claimed -> Doing("claiming")]
    BY <1>1
  <1>3. \A r, s \in Claimed : f[r] = f[s] => r = s
    <2> SUFFICES ASSUME NEW r \in Claimed, NEW s \in Claimed, f[r] = f[s] PROVE r = s
      OBVIOUS
    <2>1. {r} = {s}
      BY <1>1
    <2> QED BY <2>1
  <1> HIDE DEF f
  <1>4. f \in Injection(Claimed, Doing("claiming"))
    BY <1>2, <1>3 DEF Injection, IsInjective
  <1> QED BY <1>4, DoingFinite, FS_Injection

(* The requests that run at the same time are no more than the workers.    *)
LEMMA WorkersBound ==
  ASSUME NEW w \in Workers, task[w].step = "idle"
  PROVE  Cardinality(Doing("claiming")) + Cardinality(Doing("assigning")) + 1
           <= Cardinality(Workers)
  <1> DEFINE C == Doing("claiming")
             A == Doing("assigning")
  <1>1. C \cap A = {} /\ w \notin C \cup A /\ (C \cup A) \cup {w} \subseteq Workers
    BY DEF Doing
  <1>2. /\ IsFiniteSet(C) /\ IsFiniteSet(A)
        /\ Cardinality(C) \in Nat /\ Cardinality(A) \in Nat
    BY DoingFinite
  <1> HIDE DEF C, A
  <1>3. IsFiniteSet(C \cup A) /\ Cardinality(C \cup A) = Cardinality(C) + Cardinality(A)
    BY <1>1, <1>2, FS_Union, FS_EmptySet
  <1>4. Cardinality((C \cup A) \cup {w}) = Cardinality(C \cup A) + 1
    BY <1>1, <1>3, FS_AddElement
  <1>5. Cardinality((C \cup A) \cup {w}) <= Cardinality(Workers)
    BY <1>1, WorkersAssumption, FS_Subset
  <1> QED BY <1>3, <1>4, <1>5 DEF C, A

(* Nothing else is counted after the step.                                 *)
LEMMA CountKept ==
  ASSUME TypeInv, CountsOK, Counted' \subseteq Counted, limit' = limit,
         Doing("assigning")' = Doing("assigning")
  PROVE  Cardinality(Counted') + Cardinality(Doing("assigning")')
           <= limit' + Cardinality(Workers) - 1
  <1>1. Cardinality(Counted') <= Cardinality(Counted) /\ Cardinality(Counted') \in Nat
    BY CountedFinite, FS_Subset, FS_CardinalityType
  <1> QED BY <1>1, CountedFinite, DoingFinite DEF CountsOK

(* No request begins while the number of seats is changed.                 *)
LEMMA BeginApart ==
  ASSUME TypeInv, Without({"resize"}), NEW w \in Workers, Begin(w)
  PROVE  Doing("updating") = {}
  <1> SUFFICES ASSUME NEW v \in Workers, task[v].step = "updating" PROVE FALSE
    BY DEF Doing
  <1>1. v \in Busy /\ ~May("resize")
    BY DEF Busy, May, Without
  <1>2. ASSUME NEW rows, NEW m, NEW step, Apart(rows, m, step) PROVE FALSE
    BY <1>1, <1>2 DEF Apart
  <1>3. ASSUME NEW rows \in SUBSET Assigned, RevokeBegin(w, rows) PROVE FALSE
    BY <1>2, <1>3, RevokeBeginEffect DEF RevokeBegin
  <1>4. ~EndBegin(w) /\ \A number \in 1 .. MaxSeats : ~UpdateBegin(w, number)
    BY <1>1, <1>2 DEF EndBegin, UpdateBegin
  <1> QED BY <1>2, <1>3, <1>4 DEF Begin, AssignBegin, ClaimBegin

LEMMA BusySet ==
  ASSUME TypeInv, NEW w \in Workers, NEW t \in Task, task' = [task EXCEPT ![w] = t]
  PROVE  Busy' = IF t.step = "idle" THEN Busy \ {w} ELSE Busy \cup {w}
  BY ZenonT(60), TaskSet DEF Busy, TypeInv

(* A request begins, other than an assignment, and touches no row.         *)
LEMMA CountsStart ==
  ASSUME TypeInv, CountsOK, Doing("updating") = {}, NEW w \in Workers, NEW t \in Task,
         Starts(w, t), t.step # "assigning", t.step # "idle",
         t.step = "claiming" => \E s \in Assigned : t.rows = {s},
         t.step = "updating" => Busy = {} /\ Cardinality(Assigned) <= t.number,
         UNCHANGED <<limit, pendingUpdate, seats>>
  PROVE  CountsOK'
  <1>1. /\ task' = [task EXCEPT ![w] = t] /\ task[w].step = "idle"
        /\ task'[w] = t /\ \A v \in Workers : v # w => task'[v] = task[v]
    BY TaskSet DEF TypeInv, Starts, Busy
  <1>2. Doing("assigning")' = Doing("assigning")
    BY <1>1 DEF Doing
  <1>3. Counted' \subseteq Counted
    <2>1. Assigned' = Assigned /\ DOMAIN seats' = DOMAIN seats
      BY DEF Assigned
    <2>2. ASSUME NEW s \in Claimed' PROVE s \in Assigned \cup Claimed
      <3>1. PICK v \in Workers : task'[v].step = "claiming" /\ task'[v].rows = {s}
        BY <2>2 DEF Claimed, Doing
      <3>2. CASE v = w
        BY <1>1, <3>1, <3>2
      <3>3. CASE v # w
        BY <1>1, <2>1, <2>2, <3>1, <3>3 DEF Claimed, Doing
      <3> QED BY <3>2, <3>3
    <2> QED BY <2>1, <2>2 DEF Counted
  <1>4. \A v \in Workers : task'[v].step = "claiming" => task'[v].rows # {}
    BY <1>1 DEF CountsOK, Doing
  <1>5. \A v \in Workers : task'[v].step \in {"assigning", "claiming"} => Single(task'[v].rows)
    BY <1>1 DEF CountsOK, Single
  <1>6. \A v \in Workers : task'[v].step = "updating" =>
          Busy' = {v} /\ Cardinality(Assigned') <= task'[v].number
    <2> SUFFICES ASSUME NEW v \in Workers, task'[v].step = "updating"
                 PROVE  Busy' = {v} /\ Cardinality(Assigned') <= task'[v].number
      OBVIOUS
    <2>1. v = w
      BY <1>1 DEF Doing
    <2>2. Busy = {} /\ Cardinality(Assigned) <= t.number
      BY <1>1, <2>1
    <2>3. Busy' = {w}
      BY <1>1, <2>2, BusySet
    <2> QED BY <1>1, <2>1, <2>2, <2>3 DEF Assigned
  <1>7. Cardinality(Counted') + Cardinality(Doing("assigning")')
          <= limit' + Cardinality(Workers) - 1
    BY <1>2, <1>3, CountKept
  <1> QED BY <1>4, <1>5, <1>6, <1>7 DEF CountsOK, Doing

LEMMA CountsAssign ==
  ASSUME TypeInv, CountsOK, Doing("updating") = {}, NEW w \in Workers, NEW m \in Members,
         NEW rows \in Reusable, NEW claimed \in BOOLEAN, AssignBegin(w, m, rows, claimed)
  PROVE  CountsOK'
  <1>1. PICK t \in Task : /\ t.step = "assigning" /\ t.rows = rows
                          /\ task' = [task EXCEPT ![w] = t]
    BY AssignBeginEffect
  <1>2. /\ task'[w] = t /\ \A v \in Workers : v # w => task'[v] = task[v]
        /\ task[w].step = "idle" /\ Single(rows)
        /\ UNCHANGED <<limit, pendingUpdate, seats>>
    <2>1. task'[w] = t /\ \A v \in Workers : v # w => task'[v] = task[v]
      BY <1>1, TaskSet DEF TypeInv
    <2>2. task[w].step = "idle" /\ Single(rows)
      BY AssignBeginEffect DEF Single
    <2>3. UNCHANGED <<limit, pendingUpdate, seats>>
      BY DEF AssignBegin
    <2> QED BY <2>1, <2>2, <2>3
  <1>3. Doing("assigning")' = Doing("assigning") \cup {w} /\ w \notin Doing("assigning")
    BY <1>1, <1>2 DEF Doing
  <1>4. Cardinality(Doing("assigning")') = Cardinality(Doing("assigning")) + 1
    BY <1>3, DoingFinite, FS_AddElement
  <1>5. Doing("claiming")' = Doing("claiming") /\ Doing("updating")' = {}
    BY <1>1, <1>2 DEF Doing
  <1>6. Counted' = Counted
    <2>1. \A v \in Doing("claiming") : task'[v] = task[v]
      BY <1>2 DEF Doing
    <2> QED BY <1>2, <1>5, <2>1 DEF Counted, Assigned, Claimed
  <1>7. Cardinality(Counted) <= Cardinality(Assigned) + Cardinality(Claimed)
    <2>1. IsFiniteSet(Assigned) /\ IsFiniteSet(Claimed)
      BY CountedFinite
    <2>2. IsFiniteSet(Assigned \cap Claimed)
      BY <2>1, FS_Intersection
    <2>3. Cardinality(Assigned \cap Claimed) \in Nat
      BY <2>2, FS_CardinalityType
    <2>4. Cardinality(Counted) = Cardinality(Assigned) + Cardinality(Claimed)
                                   - Cardinality(Assigned \cap Claimed)
      BY <2>1, FS_Union DEF Counted
    <2> QED BY <2>3, <2>4, CountedFinite
  <1>8. Cardinality(Assigned) <= limit - 1
    BY CountedFinite DEF AssignBegin, Available
  <1>9. Cardinality(Claimed) <= Cardinality(Doing("claiming"))
    BY ClaimedBound
  <1>10. Cardinality(Doing("claiming")) + Cardinality(Doing("assigning")) + 1
           <= Cardinality(Workers)
    BY <1>2, WorkersBound
  <1>11. Cardinality(Counted') + Cardinality(Doing("assigning")')
           <= limit' + Cardinality(Workers) - 1
    BY <1>2, <1>4, <1>6, <1>7, <1>8, <1>9, <1>10, CountedFinite, DoingFinite
  <1>12. \A v \in Workers : task'[v].step \in {"assigning", "claiming"} => Single(task'[v].rows)
    BY <1>1, <1>2 DEF CountsOK
  <1>13. \A v \in Workers : task'[v].step = "claiming" => task'[v].rows # {}
    BY <1>1, <1>2 DEF CountsOK, Doing
  <1> QED BY <1>2, <1>5, <1>11, <1>12, <1>13 DEF CountsOK, Doing

LEMMA CountsBegin ==
  ASSUME TypeInv, CountsOK, Without({"resize"}), NEW w \in Workers, Begin(w)
  PROVE  CountsOK'
  <1>1. Doing("updating") = {}
    BY BeginApart
  <1>2. ASSUME NEW m \in Members, NEW rows \in Reusable, NEW claimed \in BOOLEAN,
               AssignBegin(w, m, rows, claimed)
        PROVE  CountsOK'
    BY <1>1, <1>2, CountsAssign
  <1>3. ASSUME NEW s \in DOMAIN seats, ClaimBegin(w, s) PROVE CountsOK'
    <2>1. PICK t \in Task : Starts(w, t) /\ t.step = "claiming" /\ t.rows = {s}
      BY <1>3, ClaimBeginEffect
    <2>2. s \in Assigned
      BY <1>3 DEF ClaimBegin, Assigned
    <2> QED BY <1>1, <1>3, <2>1, <2>2, CountsStart DEF ClaimBegin
  <1>4. ASSUME NEW rows \in SUBSET Assigned, RevokeBegin(w, rows) PROVE CountsOK'
    <2>1. PICK t \in Task : Starts(w, t) /\ t.step = "revoking"
      BY <1>4, RevokeBeginEffect
    <2> QED BY <1>1, <1>4, <2>1, CountsStart DEF RevokeBegin
  <1>5. CASE EndBegin(w)
    <2>1. PICK t \in Task : Starts(w, t) /\ t.step = "ending"
      BY <1>5, EndBeginEffect
    <2> QED BY <1>1, <1>5, <2>1, CountsStart DEF EndBegin
  <1>6. ASSUME NEW number \in 1 .. MaxSeats, UpdateBegin(w, number) PROVE CountsOK'
    <2>1. PICK t \in Task : Starts(w, t) /\ t.step = "updating" /\ t.number = number
      BY <1>6, UpdateBeginEffect
    <2>2. Busy = {} /\ Cardinality(Assigned) <= number
      BY <1>6, CountedFinite DEF UpdateBegin, May, Without
    <2> QED BY <1>1, <1>6, <2>1, <2>2, CountsStart DEF UpdateBegin
  <1> QED BY <1>2, <1>3, <1>4, <1>5, <1>6 DEF Begin

(* A request that has ended is one less, and the others are as before.     *)
LEMMA Ended ==
  ASSUME TypeInv, NEW w \in Workers, Ends(w)
  PROVE  /\ task'[w].step = "idle" /\ \A v \in Workers : v # w => task'[v] = task[v]
         /\ \A step \in Steps \ {"idle"} : Doing(step)' = Doing(step) \ {w}
         /\ Busy' = Busy \ {w}
  <1>1. task' = [task EXCEPT ![w] = Idle] /\ task \in [Workers -> Task]
    BY DEF Ends, TypeInv, TypeOK
  <1>2. task'[w].step = "idle" /\ \A v \in Workers : v # w => task'[v] = task[v]
    BY <1>1, IdleType
  <1> QED BY <1>2 DEF Doing, Busy, Steps

LEMMA CountsEnd ==
  ASSUME TypeInv, CountsOK, NEW w \in Workers, Ends(w), pendingUpdate' = pendingUpdate,
         task[w].step # "updating", task[w].step # "idle",
         Cardinality(Counted') + Cardinality(Doing("assigning")')
           <= limit' + Cardinality(Workers) - 1
  PROVE  CountsOK'
  <1>1. task'[w].step = "idle" /\ \A v \in Workers : v # w => task'[v] = task[v]
    BY Ended
  <1>2. \A v \in Workers : task'[v].step # "updating"
    <2> SUFFICES ASSUME NEW v \in Workers, task[v].step = "updating" PROVE FALSE
      BY <1>1
    <2>1. w \in Busy /\ v \in Doing("updating")
      BY DEF Busy, Doing
    <2> QED BY <2>1 DEF CountsOK
  <1>3. \A v \in Workers : task'[v].step \in {"assigning", "claiming"} => Single(task'[v].rows)
    BY <1>1 DEF CountsOK
  <1>4. \A v \in Workers : task'[v].step = "claiming" => task'[v].rows # {}
    BY <1>1 DEF CountsOK, Doing
  <1> QED BY <1>2, <1>3, <1>4 DEF CountsOK, Doing

LEMMA CountsAssigned ==
  ASSUME TypeInv, CountsOK, NEW w \in Workers, AssignCommit(w) PROVE CountsOK'
  <1>1. PICK seat \in Seat, S \in SUBSET Nat : Assigns(w, seat, S)
    BY AssignCommitEffect
  <1>2. Ends(w) /\ task[w].step = "assigning" /\ UNCHANGED <<limit, pendingUpdate>>
    BY DEF AssignCommit
  <1>3. Doing("assigning")' = Doing("assigning") \ {w} /\ w \in Doing("assigning")
        /\ Doing("claiming")' = Doing("claiming") \ {w} /\ w \notin Doing("claiming")
    BY <1>2, Ended DEF Doing, Steps
  <1>4. Cardinality(Doing("assigning")') = Cardinality(Doing("assigning")) - 1
    BY <1>3, DoingFinite, FS_RemoveElement
  <1>5. Single(S)
    BY <1>1, <1>2 DEF Assigns, CountsOK, Single
  <1>6. Counted' \subseteq Counted \cup S
    <2>1. DOMAIN seats' = DOMAIN seats \cup S
          /\ \A s \in DOMAIN seats' : s \notin S => seats'[s] = seats[s]
      BY <1>1 DEF Assigns
    <2>2. Assigned' \subseteq Assigned \cup S
      BY <2>1 DEF Assigned
    <2>3. \A v \in Doing("claiming") : v \in Workers /\ task'[v] = task[v]
      BY <1>2, <1>3, Ended DEF Doing
    <2>4. Claimed' \subseteq Claimed \cup S
      BY <1>3, <2>1, <2>3 DEF Claimed
    <2> QED BY <2>2, <2>4 DEF Counted
  <1>7. Cardinality(Counted') <= Cardinality(Counted) + 1 /\ Cardinality(Counted') \in Nat
    <2>1. PICK x : S \subseteq {x}
      BY <1>5 DEF Single
    <2>2. Counted' \subseteq Counted \cup {x}
      BY <1>6, <2>1
    <2>3. /\ IsFiniteSet(Counted \cup {x})
          /\ \/ Cardinality(Counted \cup {x}) = Cardinality(Counted)
             \/ Cardinality(Counted \cup {x}) = Cardinality(Counted) + 1
      BY CountedFinite, FS_AddElement
    <2>4. /\ Cardinality(Counted') <= Cardinality(Counted \cup {x})
          /\ Cardinality(Counted') \in Nat
      BY <2>2, <2>3, FS_Subset, FS_CardinalityType
    <2> QED BY <2>3, <2>4, CountedFinite
  <1>8. Cardinality(Counted') + Cardinality(Doing("assigning")')
          <= limit' + Cardinality(Workers) - 1
    BY <1>2, <1>4, <1>7, CountedFinite, DoingFinite DEF CountsOK
  <1> QED BY <1>2, <1>8, CountsEnd

LEMMA CountsWritten ==
  ASSUME TypeInv, CountsOK, NEW w \in Workers, ClaimCommit(w) \/ RevokeCommit(w)
  PROVE  CountsOK'
  <1>1. /\ Ends(w) /\ task[w].step \in {"claiming", "revoking", "ending"}
        /\ UNCHANGED <<limit, pendingUpdate>>
    BY DEF ClaimCommit, RevokeCommit
  <1>2. w \notin Doing("assigning") /\ Doing("assigning")' = Doing("assigning") \ {w}
        /\ Doing("claiming")' \subseteq Doing("claiming")
        /\ \A v \in Doing("claiming")' : task'[v] = task[v]
    BY <1>1, Ended DEF Doing, Steps
  <1>3. Doing("assigning")' = Doing("assigning")
    BY <1>2
  <1>4. Counted' \subseteq Counted
    <2>1. CASE ClaimCommit(w)
      <3>1. /\ DOMAIN seats' = DOMAIN seats
            /\ \A s \in DOMAIN seats : s \notin task[w].rows => seats'[s] = seats[s]
        BY <2>1, ClaimCommitEffect
      <3>2. task[w].rows \subseteq Claimed
        <4>1. w \in Doing("claiming") /\ task[w].rows \subseteq DOMAIN seats
          BY <2>1 DEF ClaimCommit, Doing, TypeInv, RowsInv
        <4>2. \A s \in task[w].rows : task[w].rows = {s}
          BY ZenonT(60), <2>1 DEF ClaimCommit, CountsOK, Single
        <4> QED BY <4>1, <4>2 DEF Claimed
      <3>3. Assigned' \subseteq Assigned \cup Claimed
        BY <3>1, <3>2 DEF Assigned
      <3>4. Claimed' \subseteq Claimed
        BY <1>2, <3>1 DEF Claimed
      <3> QED BY <3>3, <3>4 DEF Counted
    <2>2. CASE RevokeCommit(w)
      <3>1. /\ DOMAIN seats' = DOMAIN seats
            /\ \A s \in DOMAIN seats : s \notin task[w].rows => seats'[s] = seats[s]
            /\ \A s \in DOMAIN seats : s \in task[w].rows => seats'[s].status = "revoked"
        BY <2>2, RevokeCommitEffect
      <3>2. Assigned' \subseteq Assigned
        BY <3>1 DEF Assigned
      <3>3. Claimed' \subseteq Claimed
        BY <1>2, <3>1 DEF Claimed
      <3> QED BY <3>2, <3>3 DEF Counted
    <2> QED BY <2>1, <2>2
  <1>5. Cardinality(Counted') + Cardinality(Doing("assigning")')
          <= limit' + Cardinality(Workers) - 1
    BY <1>1, <1>3, <1>4, CountKept
  <1> QED BY <1>1, <1>5, CountsEnd

LEMMA CountsUpdated ==
  ASSUME TypeInv, CountsOK, Without({"next_period"}), NEW w \in Workers, UpdateCommit(w)
  PROVE  CountsOK'
  <1>1. /\ limit' = task[w].number /\ pendingUpdate' = 0 /\ Ends(w) /\ seats' = seats
        /\ w \in Doing("updating")
    BY DEF UpdateCommit, May, Without, Doing
  <1>2. Busy = {w} /\ Cardinality(Assigned) <= task[w].number
    BY <1>1 DEF CountsOK
  <1>3. \A v \in Workers : task'[v].step = "idle"
    BY <1>1, <1>2, Ended DEF Busy
  <1>4. Counted' = Assigned
    BY <1>1, <1>3 DEF Counted, Claimed, Assigned, Doing
  <1>5. Doing("assigning")' = {} /\ Cardinality({}) = 0
    BY <1>3, FS_EmptySet DEF Doing
  <1>6. Cardinality(Workers) \in Nat /\ Cardinality(Workers) # 0
    BY WorkersAssumption, FS_CardinalityType, FS_EmptySet
  <1>7. task[w].number \in Nat /\ Cardinality(Assigned) \in Nat
    BY CountedFinite, TaskFields DEF TypeInv
  <1>8. Cardinality(Counted') + Cardinality(Doing("assigning")')
          <= limit' + Cardinality(Workers) - 1
    BY <1>1, <1>2, <1>4, <1>5, <1>6, <1>7
  <1> QED BY <1>1, <1>3, <1>8 DEF CountsOK, Doing

LEMMA LimitNext == TypeInv /\ LimitInv /\ [Next]_vars => LimitInv'
  <1> SUFFICES ASSUME TypeInv, LimitInv, [Next]_vars, Without({"next_period", "resize"})'
               PROVE  CountsOK'
    BY DEF LimitInv
  <1>1. environment' = environment
    BY DEF Next, Begin, AssignBegin, ClaimBegin, RevokeBegin, EndBegin, UpdateBegin, Commit,
           AssignCommit, ClaimCommit, RevokeCommit, UpdateCommit, Handle, NextPeriod, vars
  <1>2. CountsOK /\ Without({"resize"}) /\ Without({"next_period"})
    BY <1>1 DEF LimitInv, Without
  <1>3. ASSUME NEW w \in Workers, Begin(w) PROVE CountsOK'
    BY <1>2, <1>3, CountsBegin
  <1>4. ASSUME NEW w \in Workers, Commit(w) PROVE CountsOK'
    BY <1>2, <1>4, CountsAssigned, CountsWritten, CountsUpdated DEF Commit
  <1>5. CASE UNCHANGED <<limit, pendingUpdate, seats, task>>
    BY <1>2, <1>5 DEF CountsOK, Counted, Claimed, Assigned, Doing, Busy, Single
  <1>6. ~NextPeriod
    BY <1>2 DEF CountsOK, NextPeriod
  <1> QED BY <1>3, <1>4, <1>5, <1>6 DEF Next, Handle, vars

LEMMA LimitInit == Init => LimitInv
  <1> SUFFICES ASSUME Init PROVE CountsOK
    BY DEF LimitInv
  <1>1. \A w \in Workers : task[w].step = "idle"
    BY IdleType DEF Init
  <1>2. Counted = {} /\ Doing("assigning") = {}
    BY <1>1 DEF Init, Counted, Assigned, Claimed, Doing
  <1>3. Cardinality(Counted) = 0 /\ Cardinality(Doing("assigning")) = 0
    BY <1>2, FS_EmptySet
  <1>4. Cardinality(Workers) \in Nat /\ limit >= 1 /\ limit \in Nat
    BY WorkersAssumption, FS_CardinalityType, BoundsAssumption DEF Init
  <1> QED BY <1>1, <1>3, <1>4 DEF Init, CountsOK, Doing

(* Seats are counted before they are assigned and nothing is locked, but   *)
(* no more are assigned beyond those that were sold than there are         *)
(* requests at the same time, less one, however they interleave: the       *)
(* invariant counts the assignments that run, and the claims that bring    *)
(* back a seat revoked meanwhile (get_available_seats_count, assign_seat). *)
THEOREM AssignedWithinLimitCorrect == Spec => []AssignedWithinLimit
  <1>1. TypeInv /\ LimitInv => AssignedWithinLimit
    <2> SUFFICES ASSUME TypeInv, CountsOK
                 PROVE  Cardinality(Assigned) <= limit + Cardinality(Workers) - 1
      BY DEF LimitInv, AssignedWithinLimit
    <2>1. Cardinality(Assigned) <= Cardinality(Counted)
      BY CountedFinite, FS_Subset DEF Counted
    <2> QED BY <2>1, CountedFinite, DoingFinite DEF CountsOK
  <1> QED BY <1>1, TypeInit, TypeNext, LimitInit, LimitNext, PTL DEF Spec

-----------------------------------------------------------------------------
(* Access follows the seats.                                               *)

LEMMA EnqueueAccess ==
  ASSUME TypeInv, Ordered, NEW S, NEW name \in {"grant", "revoke"}, Enqueue(S, name),
         access' = access, NEW m \in Members
  PROVE  /\ m \in S => (WillHaveAccess(m)' <=> name = "grant")
         /\ m \notin S => (WillHaveAccess(m)' <=> WillHaveAccess(m))
  <1>1. jobs'[m] = IF m \in S THEN Append(jobs[m], name) ELSE jobs[m]
    BY DEF Enqueue, Ordered, Without, May
  <1>2. CASE m \in S
    <2>1. jobs[m] \in Seq({"grant", "revoke"})
      BY DEF TypeInv, TypeOK
    <2>2. /\ jobs'[m] # <<>> /\ jobs'[m][Len(jobs'[m])] = name
      BY <1>1, <1>2, <2>1, AppendProperties, LenProperties
    <2> QED BY <1>2, <2>2 DEF WillHaveAccess
  <1>3. CASE m \notin S
    BY <1>1, <1>3 DEF WillHaveAccess
  <1> QED BY <1>2, <1>3

LEMMA RemovedFirst ==
  ASSUME NEW S, NEW q \in Seq(S), q # <<>>
  PROVE  /\ Len(q) = 1 => RemoveAt(q, 1) = <<>>
         /\ Len(q) # 1 =>
              RemoveAt(q, 1) # <<>> /\ RemoveAt(q, 1)[Len(RemoveAt(q, 1))] = q[Len(q)]
  <1>1. Len(q) \in Nat \ {0} /\ \A i \in 1 .. Len(q) : q[i] \in S
    BY EmptySeq, ElementOfSeq
  <1>2. SubSeq(q, 1, 0) = <<>>
    BY SubSeqEmpty
  <1> DEFINE rest == SubSeq(q, 2, Len(q))
  <1>3. /\ rest \in Seq(S) /\ Len(rest) = IF 2 <= Len(q) THEN Len(q) - 1 ELSE 0
        /\ \A i \in 1 .. Len(q) - 1 : rest[i] = q[i + 1]
    BY <1>1, SubSeqProperties
  <1> HIDE DEF rest
  <1>4. RemoveAt(q, 1) = rest
    <2>1. RemoveAt(q, 1) = SubSeq(q, 1, 0) \o SubSeq(q, 2, Len(q))
      BY DEF RemoveAt
    <2>2. RemoveAt(q, 1) = <<>> \o rest
      BY <1>2, <2>1 DEF rest
    <2> QED BY <1>3, <2>2, ConcatEmptySeq
  <1>5. CASE Len(q) = 1
    BY <1>3, <1>4, <1>5, EmptySeq
  <1>6. CASE Len(q) # 1
    <2>1. Len(rest) = Len(q) - 1 /\ Len(rest) \in 1 .. Len(q) - 1
      <3>1. ASSUME NEW n \in Nat \ {0}, n # 1 PROVE 2 <= n
        BY <3>1
      <3>2. Len(rest) = Len(q) - 1
        BY <1>1, <1>3, <1>6, <3>1
      <3>3. \A n \in Nat \ {0} : n # 1 => n - 1 \in 1 .. n - 1
        OBVIOUS
      <3> QED BY <1>1, <1>6, <3>2, <3>3
    <2>2. rest[Len(rest)] = q[Len(q)]
      BY <1>1, <1>3, <2>1
    <2> QED BY <1>4, <1>6, <2>1, <2>2, EmptySeq
  <1> QED BY <1>5, <1>6

LEMMA AccessHandle ==
  ASSUME TypeInv, Ordered, AccessOK, NEW m \in Members, Handle(m) PROVE AccessOK'
  <1>1. /\ jobs[m] \in Seq({"grant", "revoke"}) /\ jobs[m] # <<>>
        /\ access' = IF jobs[m][1] = "grant" THEN access \cup {m} ELSE access \ {m}
        /\ jobs' = [jobs EXCEPT ![m] = RemoveAt(jobs[m], 1)]
        /\ UNCHANGED <<seats, task>>
    <2>1. PICK i \in DOMAIN jobs[m] :
            /\ i = 1 \/ May("reorder")
            /\ access' = IF jobs[m][i] = "grant" THEN access \cup {m} ELSE access \ {m}
            /\ jobs' = [jobs EXCEPT ![m] = RemoveAt(jobs[m], i)]
            /\ UNCHANGED <<seats, task>>
      BY DEF Handle
    <2>2. i = 1
      BY <2>1 DEF Ordered, Without, May
    <2>3. jobs[m] \in Seq({"grant", "revoke"})
      BY DEF TypeInv, TypeOK
    <2>4. jobs[m] # <<>>
      OBVIOUS
    <2> QED BY <2>1, <2>2, <2>3, <2>4
  <1>2. /\ jobs'[m] = RemoveAt(jobs[m], 1)
        /\ \A n \in Members : n # m => jobs'[n] = jobs[n]
    BY <1>1 DEF TypeInv, TypeOK
  <1>3. WillHaveAccess(m)' <=> WillHaveAccess(m)
    <2>1. CASE Len(jobs[m]) = 1
      BY <1>1, <1>2, <2>1, RemovedFirst DEF WillHaveAccess
    <2>2. CASE Len(jobs[m]) # 1
      BY <1>1, <1>2, <2>2, RemovedFirst DEF WillHaveAccess
    <2> QED BY <2>1, <2>2
  <1>4. \A n \in Members : WillHaveAccess(n)' <=> WillHaveAccess(n)
    <2> SUFFICES ASSUME NEW n \in Members, n # m PROVE WillHaveAccess(n)' <=> WillHaveAccess(n)
      BY <1>3
    <2> QED BY <1>1, <1>2 DEF WillHaveAccess
  <1>5. \A n \in Members : HasSeat(n)' <=> HasSeat(n)
    BY <1>1 DEF HasSeat, SeatsOf, Assigned
  <1>6. SeatsInv' /\ TasksInv'
    BY <1>1 DEF AccessOK, SeatsInv, TasksInv, Assigned, Busy
  <1>7. \A w \in Workers : TaskInv(w)'
    BY <1>1 DEF AccessOK, TaskInv, SeatsOf, Assigned
  <1> QED BY <1>4, <1>5, <1>6, <1>7 DEF AccessOK

(* A request begins that meets no other and touches no row.                *)
Meets(v, t) ==
  \/ task[v].step = "updating" \/ t.step = "updating"
  \/ task[v].step = "claiming" /\ t.step = "claiming"
  \/ /\ task[v].step # "ending" /\ t.step # "ending"
     /\ task[v].rows \cap t.rows = {} /\ task[v].member # t.member

LEMMA AccessStart ==
  ASSUME TypeInv, AccessOK, NEW w \in Workers, NEW t \in Task, Starts(w, t),
         UNCHANGED <<seats, jobs, access>>,
         \A v \in Busy : Meets(v, t), TaskInv(w)'
  PROVE  AccessOK'
  <1>1. /\ task'[w] = t /\ w \notin Busy
        /\ \A v \in Workers : v # w => task'[v] = task[v]
    BY TaskSet DEF TypeInv, Starts, Busy
  <1>2. SeatsInv'
    BY DEF AccessOK, SeatsInv, Assigned
  <1>3. TasksInv'
    <2> SUFFICES ASSUME NEW u \in Workers, NEW v \in Workers, u # v,
                        task'[u].step # "idle", task'[v].step # "idle"
                 PROVE  \/ task'[u].step = "updating" \/ task'[v].step = "updating"
                        \/ task'[u].step = "claiming" /\ task'[v].step = "claiming"
                        \/ /\ task'[u].step # "ending" /\ task'[v].step # "ending"
                           /\ task'[u].rows \cap task'[v].rows = {}
                           /\ task'[u].member # task'[v].member
      BY DEF TasksInv, Busy
    <2>1. CASE u = w
      <3>1. v \in Busy /\ Meets(v, t)
        BY <1>1, <2>1 DEF Busy
      <3> QED BY <1>1, <2>1, <3>1 DEF Meets
    <2>2. CASE v = w
      <3>1. u \in Busy /\ Meets(u, t)
        BY <1>1, <2>2 DEF Busy
      <3> QED BY <1>1, <2>2, <3>1 DEF Meets
    <2>3. CASE u # w /\ v # w
      BY <1>1, <2>3 DEF AccessOK, TasksInv, Busy
    <2> QED BY <2>1, <2>2, <2>3
  <1>4. \A v \in Workers : TaskInv(v)'
    <2> SUFFICES ASSUME NEW v \in Workers, v # w PROVE TaskInv(v)'
      OBVIOUS
    <2> QED BY <1>1 DEF AccessOK, TaskInv, SeatsOf, Assigned
  <1>5. \A m \in Members : WillHaveAccess(m)' <=> HasSeat(m)'
    BY DEF AccessOK, WillHaveAccess, HasSeat, SeatsOf, Assigned
  <1> QED BY <1>2, <1>3, <1>4, <1>5 DEF AccessOK

LEMMA ApartMeets ==
  ASSUME Ordered, NEW t, t.step # "ending", Apart(t.rows, t.member, t.step), NEW v \in Busy
  PROVE  Meets(v, t)
  <1>1. ~May("collide") /\ ~May("double")
    BY DEF Ordered, Without, May
  <1> QED BY <1>1 DEF Apart, Meets

LEMMA AccessAssign ==
  ASSUME TypeInv, Ordered, AccessOK, NEW w \in Workers, NEW m \in Members,
         NEW rows \in Reusable, NEW claimed \in BOOLEAN, AssignBegin(w, m, rows, claimed)
  PROVE  AccessOK'
  <1>1. PICK t \in Task : /\ t.step = "assigning" /\ t.member = m /\ t.rows = rows
                          /\ task' = [task EXCEPT ![w] = t]
    BY AssignBeginEffect
  <1>2. Starts(w, t)
    BY <1>1, AssignBeginEffect DEF Starts, Busy
  <1>3. /\ Apart(rows, m, "assigning") /\ SeatsOf(m) = {}
        /\ UNCHANGED <<seats, jobs, access>>
    BY DEF AssignBegin
  <1>4. \A v \in Busy : Meets(v, t)
    BY <1>1, <1>3, ApartMeets
  <1>5. TaskInv(w)'
    <2>1. task'[w] = t
      BY <1>1, TaskSet DEF TypeInv
    <2>2. SeatsOf(m)' = {} /\ rows \cap Assigned' = {} /\ Single(rows)
      BY <1>3, AssignBeginEffect DEF SeatsOf, Assigned, Single
    <2> QED BY <1>1, <2>1, <2>2 DEF TaskInv, SeatsOf
  <1> QED BY <1>2, <1>3, <1>4, <1>5, AccessStart

LEMMA AccessClaim ==
  ASSUME TypeInv, Ordered, AccessOK, NEW w \in Workers, NEW s \in DOMAIN seats,
         ClaimBegin(w, s)
  PROVE  AccessOK'
  <1>1. PICK t \in Task : /\ Starts(w, t) /\ t.step = "claiming"
                          /\ t.member = seats[s].member /\ t.rows = {s}
    BY ClaimBeginEffect
  <1>2. /\ Apart({s}, seats[s].member, "claiming") /\ seats[s].status = "pending"
        /\ UNCHANGED <<seats, jobs, access>>
    BY DEF ClaimBegin
  <1>3. \A v \in Busy : Meets(v, t)
    BY <1>1, <1>2, ApartMeets
  <1>4. TaskInv(w)'
    <2>1. task'[w] = t
      BY <1>1, TaskSet DEF TypeInv, Starts
    <2>2. s \in SeatsOf(t.member)'
      BY <1>1, <1>2 DEF SeatsOf, Assigned
    <2> QED BY <1>1, <2>1, <2>2 DEF TaskInv, SeatsOf
  <1> QED BY <1>1, <1>2, <1>3, <1>4, AccessStart

LEMMA AccessRevoke ==
  ASSUME TypeInv, Ordered, AccessOK, NEW w \in Workers, NEW rows \in SUBSET Assigned,
         RevokeBegin(w, rows)
  PROVE  AccessOK'
  <1>1. PICK t \in Task : /\ Starts(w, t) /\ t.step = "revoking" /\ t.rows = rows
                          /\ t.read = [s \in rows |-> seats[s]]
                          /\ \E s \in rows : t.member = seats[s].member
    BY RevokeBeginEffect
  <1>2. PICK s \in rows : t.member = seats[s].member
    BY <1>1
  <1>3. rows = {s} /\ s \in Assigned
    BY DEF RevokeBegin, AccessOK, SeatsInv, SeatsOf
  <1>4. Apart(rows, seats[s].member, "revoking") /\ UNCHANGED <<seats, jobs, access>>
    BY DEF RevokeBegin
  <1>5. \A v \in Busy : Meets(v, t)
    BY <1>1, <1>2, <1>4, ApartMeets
  <1>6. TaskInv(w)'
    <2>1. task'[w] = t
      BY <1>1, TaskSet DEF TypeInv, Starts
    <2>2. s \in SeatsOf(seats[s].member)'
      BY <1>3, <1>4 DEF SeatsOf, Assigned
    <2>3. \A r \in rows : t.read[r].member = seats'[r].member
      BY <1>1, <1>4
    <2> QED BY <1>1, <1>2, <1>3, <2>1, <2>2, <2>3 DEF TaskInv, SeatsOf
  <1> QED BY <1>1, <1>4, <1>5, <1>6, AccessStart

LEMMA AccessBegin ==
  ASSUME TypeInv, Ordered, AccessOK, NEW w \in Workers, Begin(w) PROVE AccessOK'
  <1>1. CASE EndBegin(w)
    <2>1. PICK t \in Task : /\ Starts(w, t) /\ t.step = "ending" /\ t.rows = Assigned
                            /\ t.read = [s \in Assigned |-> seats[s]]
      BY <1>1, EndBeginEffect
    <2>2. Busy = {} /\ UNCHANGED <<seats, jobs, access>>
      BY <1>1 DEF EndBegin, Ordered, Without, May
    <2>3. TaskInv(w)'
      <3>1. task'[w] = t
        BY <2>1, TaskSet DEF TypeInv, Starts
      <3>2. t.rows = Assigned' /\ \A s \in t.rows : t.read[s].member = seats'[s].member
        BY <2>1, <2>2 DEF Assigned
      <3> QED BY <2>1, <3>1, <3>2 DEF TaskInv
    <2> QED BY <2>1, <2>2, <2>3, AccessStart
  <1>2. ASSUME NEW number \in 1 .. MaxSeats, UpdateBegin(w, number) PROVE AccessOK'
    <2>1. PICK t \in Task : Starts(w, t) /\ t.step = "updating"
      BY <1>2, UpdateBeginEffect
    <2>2. \A v \in Busy : Meets(v, t)
      BY <2>1 DEF Meets
    <2>3. TaskInv(w)'
      BY <2>1, TaskSet DEF TypeInv, Starts, TaskInv
    <2> QED BY <1>2, <2>1, <2>2, <2>3, AccessStart DEF UpdateBegin
  <1> QED BY <1>1, <1>2, AccessAssign, AccessClaim, AccessRevoke DEF Begin

(* A request that has changed the seats ends.                              *)
LEMMA AccessEnd ==
  ASSUME TypeInv, AccessOK, NEW w \in Workers, Ends(w), SeatsInv',
         \A v \in Workers : v # w => TaskInv(v)',
         \A m \in Members : WillHaveAccess(m)' <=> HasSeat(m)'
  PROVE  AccessOK'
  <1>1. /\ task'[w].step = "idle" /\ \A v \in Workers : v # w => task'[v] = task[v]
        /\ Busy' = Busy \ {w}
    BY Ended
  <1>2. TasksInv'
    BY <1>1 DEF AccessOK, TasksInv, Busy
  <1>3. TaskInv(w)'
    BY <1>1 DEF TaskInv
  <1> QED BY <1>2, <1>3 DEF AccessOK

(* A task other than that of w, when the rows of w are written.            *)
LEMMA OtherTask ==
  ASSUME TypeInv, AccessOK, NEW w \in Workers, NEW v \in Workers, v # w,
         task[w].step \notin {"idle", "updating"}
  PROVE  \/ task[v].step \in {"idle", "updating"}
         \/ task[v].step = "claiming" /\ task[w].step = "claiming"
         \/ /\ task[v].step # "ending" /\ task[w].step # "ending"
            /\ task[v].rows \cap task[w].rows = {} /\ task[v].member # task[w].member
  BY DEF AccessOK, TasksInv, Busy

(* What a task relies on when another one has written its rows.            *)
LEMMA TaskKept ==
  ASSUME TypeInv, NEW v \in Workers, TaskInv(v), task'[v] = task[v],
         NEW n, n = task[v].member,
         task[v].step = "assigning" =>
           SeatsOf(n)' \subseteq SeatsOf(n) /\ task[v].rows \cap Assigned' = {},
         task[v].step \in {"claiming", "revoking"} =>
           \A s \in SeatsOf(n) : s \in task[v].rows => s \in SeatsOf(n)',
         task[v].step = "ending" => Assigned' = Assigned,
         task[v].step \in {"revoking", "ending"} =>
           \A s \in task[v].rows : seats'[s].member = seats[s].member
  PROVE  TaskInv(v)'
  <1> DEFINE t == task[v]
  <1>1. /\ t.step = "assigning" =>
             t.member \in Members /\ SeatsOf(n) = {} /\ Single(t.rows)
        /\ t.step \in {"claiming", "revoking"} => \E s \in SeatsOf(n) : t.rows = {s}
        /\ t.step = "ending" => t.rows = Assigned
        /\ t.step \in {"revoking", "ending"} =>
             \A s \in t.rows : t.read[s].member = seats[s].member
    BY DEF TaskInv
  <1>2. t.step = "assigning" => SeatsOf(n)' = {} /\ t.rows \cap Assigned' = {}
    BY <1>1
  <1>3. t.step \in {"claiming", "revoking"} => \E s \in SeatsOf(n)' : t.rows = {s}
    BY <1>1
  <1>4. t.step = "ending" => t.rows = Assigned'
    BY <1>1
  <1>5. t.step \in {"revoking", "ending"} =>
          \A s \in t.rows : t.read[s].member = seats'[s].member
    BY <1>1
  <1>6. SeatsOf(task[v].member)' = SeatsOf(n)'
    BY DEF SeatsOf
  <1> QED BY <1>1, <1>2, <1>3, <1>4, <1>5, <1>6 DEF TaskInv

LEMMA AccessAssigned ==
  ASSUME TypeInv, Ordered, AccessOK, NEW w \in Workers, AssignCommit(w) PROVE AccessOK'
  <1>1. PICK seat \in Seat, S \in SUBSET Nat : Assigns(w, seat, S)
    BY AssignCommitEffect
  <1>2. Ends(w) /\ task[w].step = "assigning" /\ access' = access
    BY DEF AssignCommit
  <1>3. PICK m \in Members : m = task[w].member
    BY <1>2 DEF AccessOK, TaskInv
  <1>4. SeatsOf(m) = {} /\ task[w].rows \cap Assigned = {} /\ Single(task[w].rows)
    BY <1>2, <1>3 DEF AccessOK, TaskInv
  <1>5. /\ \A s \in Assigned : s \in DOMAIN seats
        /\ \A v \in Workers : task[v].rows \subseteq DOMAIN seats
        /\ Len(seats) + 1 \notin DOMAIN seats
    BY RowFacts DEF TypeInv, TypeOK, RowsInv
  <1>6. PICK x : S = {x}
    BY <1>1, <1>4 DEF Assigns, Single
  <1>7. /\ x \notin Assigned /\ x \in DOMAIN seats' /\ seats'[x] = seat
        /\ DOMAIN seats' = DOMAIN seats \cup {x}
        /\ \A s \in DOMAIN seats : s # x => seats'[s] = seats[s]
    BY <1>1, <1>4, <1>5, <1>6 DEF Assigns
  <1>8. seat.member = m /\ seat.status = IF task[w].claimed THEN "claimed" ELSE "pending"
    BY <1>1, <1>3 DEF Assigns
  <1>9. Assigned' = Assigned \cup {x} /\ \A s \in Assigned : seats'[s] = seats[s]
    BY <1>5, <1>7, <1>8 DEF Assigned
  <1>10. SeatsOf(m)' = {x} /\ \A n : n # m => SeatsOf(n)' = SeatsOf(n)
    BY <1>4, <1>7, <1>8, <1>9 DEF SeatsOf
  <1>11. SeatsInv'
    <2>1. m # Nobody
      BY MembersAssumption
    <2>2. \A s \in Assigned : seats[s].member # m
      BY <1>4 DEF SeatsOf
    <2>3. \A s \in Assigned' : seats'[s].member # Nobody
      BY <1>7, <1>8, <1>9, <2>1 DEF AccessOK, SeatsInv
    <2>4. \A r, s \in Assigned' : seats'[r].member = seats'[s].member => r = s
      BY <1>7, <1>8, <1>9, <2>2 DEF AccessOK, SeatsInv
    <2> QED BY <2>3, <2>4 DEF SeatsInv
  <1>12. ASSUME NEW v \in Workers, v # w PROVE TaskInv(v)'
    <2>1. task'[v] = task[v]
      BY <1>2, <1>12, Ended
    <2>2. \/ task[v].step \in {"idle", "updating"}
          \/ /\ task[v].step # "ending" /\ task[v].rows \cap task[w].rows = {}
             /\ task[v].member # m
      BY <1>2, <1>3, <1>12, OtherTask
    <2>3. CASE task[v].step \in {"idle", "updating"}
      BY <2>1, <2>3 DEF TaskInv
    <2>4. CASE /\ task[v].step # "ending" /\ task[v].rows \cap task[w].rows = {}
               /\ task[v].member # m
      <3>1. x \notin task[v].rows
        BY <1>1, <1>5, <1>6, <2>4 DEF Assigns
      <3>2. PICK n : n = task[v].member
        OBVIOUS
      <3>3. SeatsOf(n)' = SeatsOf(n) /\ TaskInv(v)
        BY <1>10, <2>4, <3>2 DEF AccessOK
      <3>4. \A s \in task[v].rows : seats'[s] = seats[s]
        BY <1>5, <1>7, <3>1
      <3>5. task[v].rows \cap Assigned = {} => task[v].rows \cap Assigned' = {}
        BY <1>9, <3>1
      <3>6. task[v].step = "assigning" => task[v].rows \cap Assigned = {}
        BY <3>3 DEF TaskInv
      <3> QED BY <2>1, <2>4, <3>2, <3>3, <3>4, <3>5, <3>6, TaskKept
    <2> QED BY <2>2, <2>3, <2>4
  <1>13. \A n \in Members : n # m => (HasSeat(n)' <=> HasSeat(n))
    BY <1>9, <1>10 DEF HasSeat, SeatsOf
  <1>14. ~HasSeat(m) /\ (HasSeat(m)' <=> task[w].claimed)
    <2>1. HasSeat(m)' <=> seat.status = "claimed"
      BY <1>7, <1>10 DEF HasSeat
    <2>2. task[w].claimed \in BOOLEAN
      BY TaskFields DEF TypeInv
    <2> QED BY <1>4, <1>8, <2>1, <2>2 DEF HasSeat
  <1>15. \A n \in Members : WillHaveAccess(n)' <=> HasSeat(n)'
    <2>1. Enqueue(IF task[w].claimed THEN {m} ELSE {}, "grant")
      BY <1>3 DEF AssignCommit
    <2>2. CASE task[w].claimed
      <3>1. Enqueue({m}, "grant")
        BY <2>1, <2>2
      <3> QED BY <1>2, <1>13, <1>14, <2>2, <3>1, EnqueueAccess DEF AccessOK
    <2>3. CASE ~task[w].claimed
      <3>1. Enqueue({}, "grant")
        BY <2>1, <2>3
      <3> QED BY <1>2, <1>13, <1>14, <2>3, <3>1, EnqueueAccess DEF AccessOK
    <2> QED BY <2>2, <2>3
  <1> QED BY <1>2, <1>11, <1>12, <1>15, AccessEnd

LEMMA AccessClaimed ==
  ASSUME TypeInv, Ordered, AccessOK, NEW w \in Workers, ClaimCommit(w) PROVE AccessOK'
  <1>1. /\ DOMAIN seats' = DOMAIN seats
        /\ \A s \in DOMAIN seats :
             /\ s \notin task[w].rows => seats'[s] = seats[s]
             /\ s \in task[w].rows =>
                  seats'[s].status = "claimed" /\ seats'[s].member = seats[s].member
    BY ClaimCommitEffect
  <1>2. Ends(w) /\ task[w].step = "claiming" /\ access' = access
    BY DEF ClaimCommit
  <1>3. PICK s \in SeatsOf(task[w].member) : task[w].rows = {s}
    BY <1>2 DEF AccessOK, TaskInv
  <1>4. PICK m \in Members : m = task[w].member
    <2>1. s \in Assigned /\ seats[s].member = task[w].member
      BY <1>3 DEF SeatsOf
    <2>2. task[w].member # Nobody
      BY <2>1 DEF AccessOK, SeatsInv
    <2> QED BY <2>2, TaskFields DEF TypeInv, AnyMember
  <1>5. s \in Assigned /\ seats[s].member = m /\ Assigned \subseteq DOMAIN seats
    BY <1>3, <1>4 DEF SeatsOf, Assigned
  <1>6. Assigned' = Assigned /\ \A r \in DOMAIN seats : seats'[r].member = seats[r].member
    BY <1>1, <1>3, <1>5 DEF Assigned
  <1>7. \A n : SeatsOf(n)' = SeatsOf(n)
    BY <1>5, <1>6 DEF SeatsOf
  <1>8. SeatsInv'
    BY <1>5, <1>6 DEF AccessOK, SeatsInv
  <1>9. ASSUME NEW v \in Workers, v # w PROVE TaskInv(v)'
    <2>1. task'[v] = task[v] /\ TaskInv(v)
      BY <1>2, <1>9, Ended DEF AccessOK
    <2>2. PICK n : n = task[v].member
      OBVIOUS
    <2>3. \A r \in task[v].rows : seats'[r].member = seats[r].member
      BY <1>6 DEF TypeInv, RowsInv
    <2>4. task[v].step = "assigning" => task[v].rows \cap Assigned = {}
      BY <2>1 DEF TaskInv
    <2> QED BY <1>6, <1>7, <2>1, <2>2, <2>3, <2>4, TaskKept
  <1>10. HasSeat(m)' /\ \A n \in Members : n # m => (HasSeat(n)' <=> HasSeat(n))
    <2>1. HasSeat(m)'
      <3>1. s \in SeatsOf(m)'
        BY <1>3, <1>4, <1>7
      <3>2. seats'[s].status = "claimed"
        BY <1>1, <1>3, <1>5
      <3> QED BY <3>1, <3>2 DEF HasSeat
    <2>2. ASSUME NEW n \in Members, n # m PROVE HasSeat(n)' <=> HasSeat(n)
      <3>1. \A r \in SeatsOf(n) : seats'[r] = seats[r]
        BY <1>1, <1>3, <1>5, <2>2 DEF SeatsOf
      <3> QED BY <1>7, <3>1 DEF HasSeat
    <2> QED BY <2>1, <2>2
  <1>11. \A n \in Members : WillHaveAccess(n)' <=> HasSeat(n)'
    <2>1. Enqueue({m}, "grant")
      BY <1>4 DEF ClaimCommit
    <2> QED BY <1>2, <1>10, <2>1, EnqueueAccess DEF AccessOK
  <1> QED BY <1>2, <1>8, <1>9, <1>11, AccessEnd

LEMMA AccessRevoked ==
  ASSUME TypeInv, Ordered, AccessOK, NEW w \in Workers, RevokeCommit(w) PROVE AccessOK'
  <1> DEFINE rows == task[w].rows
             members == {task[w].read[s].member : s \in rows}
  <1>1. /\ DOMAIN seats' = DOMAIN seats
        /\ \A s \in DOMAIN seats : s \notin rows => seats'[s] = seats[s]
        /\ \A s \in DOMAIN seats : s \in rows => seats'[s].status = "revoked"
    BY RevokeCommitEffect
  <1>2. /\ Ends(w) /\ task[w].step \in {"revoking", "ending"} /\ access' = access
        /\ Enqueue(members, "revoke")
    BY DEF RevokeCommit
  <1>3. rows \subseteq Assigned /\ \A s \in rows : task[w].read[s].member = seats[s].member
    <2>1. TaskInv(w)
      BY DEF AccessOK
    <2>2. \A s \in rows : task[w].read[s].member = seats[s].member
      BY <1>2, <2>1 DEF TaskInv
    <2>3. CASE task[w].step = "revoking"
      BY <2>1, <2>2, <2>3 DEF TaskInv, SeatsOf
    <2>4. CASE task[w].step = "ending"
      BY <2>1, <2>2, <2>4 DEF TaskInv
    <2> QED BY <1>2, <2>3, <2>4
  <1>4. members = {seats[s].member : s \in rows}
    BY <1>3
  <1>5. Assigned' = Assigned \ rows /\ Assigned \subseteq DOMAIN seats
    BY <1>1 DEF Assigned
  <1> HIDE DEF rows, members
  <1>6. \A n : SeatsOf(n)' = SeatsOf(n) \ rows
    BY <1>1, <1>5 DEF SeatsOf
  <1>7. SeatsInv'
    BY <1>1, <1>5 DEF AccessOK, SeatsInv
  <1>8. ASSUME NEW v \in Workers, v # w PROVE TaskInv(v)'
    <2>1. task'[v] = task[v] /\ TaskInv(v)
      BY <1>2, <1>8, Ended DEF AccessOK
    <2>2. \/ task[v].step \in {"idle", "updating"}
          \/ task[v].step # "ending" /\ task[v].rows \cap rows = {}
      BY <1>2, <1>8, OtherTask DEF rows
    <2>3. CASE task[v].step \in {"idle", "updating"}
      BY <2>1, <2>3 DEF TaskInv
    <2>4. CASE task[v].step # "ending" /\ task[v].rows \cap rows = {}
      <3>1. PICK n : n = task[v].member
        OBVIOUS
      <3>2. task[v].step = "assigning" => task[v].rows \cap Assigned = {}
        BY <2>1 DEF TaskInv
      <3>3. \A s \in task[v].rows : seats'[s] = seats[s]
        BY <1>1, <2>4 DEF TypeInv, RowsInv
      <3> QED BY <1>5, <1>6, <2>1, <2>4, <3>1, <3>2, <3>3, TaskKept
    <2> QED BY <2>2, <2>3, <2>4
  <1>9. \A n \in Members : WillHaveAccess(n)' <=> HasSeat(n)'
    <2>1. ASSUME NEW n \in Members, n \in members PROVE WillHaveAccess(n)' <=> HasSeat(n)'
      <3>1. PICK s \in rows : seats[s].member = n
        BY <1>4, <2>1
      <3>2. SeatsOf(n) = {s}
        BY <1>3, <3>1 DEF SeatsOf, AccessOK, SeatsInv
      <3>3. ~HasSeat(n)'
        BY <1>6, <3>1, <3>2 DEF HasSeat
      <3> QED BY <1>2, <2>1, <3>3, EnqueueAccess
    <2>2. ASSUME NEW n \in Members, n \notin members PROVE WillHaveAccess(n)' <=> HasSeat(n)'
      <3>1. \A s \in SeatsOf(n) : s \notin rows /\ s \in DOMAIN seats
        BY <1>4, <1>5, <2>2 DEF SeatsOf
      <3>2. SeatsOf(n)' = SeatsOf(n) /\ \A s \in SeatsOf(n) : seats'[s] = seats[s]
        BY <1>1, <1>6, <3>1
      <3>3. HasSeat(n)' <=> HasSeat(n)
        BY <3>2 DEF HasSeat
      <3> QED BY <1>2, <2>2, <3>3, EnqueueAccess DEF AccessOK
    <2> QED BY <2>1, <2>2
  <1> QED BY <1>2, <1>7, <1>8, <1>9, AccessEnd

LEMMA AccessUpdated ==
  ASSUME TypeInv, AccessOK, NEW w \in Workers, UpdateCommit(w) PROVE AccessOK'
  <1>1. Ends(w) /\ UNCHANGED <<seats, jobs, access>>
    BY DEF UpdateCommit
  <1>2. SeatsInv' /\ \A m \in Members : WillHaveAccess(m)' <=> HasSeat(m)'
    BY <1>1 DEF AccessOK, SeatsInv, WillHaveAccess, HasSeat, SeatsOf, Assigned
  <1>3. ASSUME NEW v \in Workers, v # w PROVE TaskInv(v)'
    <2>1. task'[v] = task[v]
      BY <1>1, <1>3, Ended
    <2> QED BY <1>1, <2>1 DEF AccessOK, TaskInv, SeatsOf, Assigned
  <1> QED BY <1>1, <1>2, <1>3, AccessEnd

LEMMA AccessNext == TypeInv /\ AccessInv /\ [Next]_vars => AccessInv'
  <1> SUFFICES ASSUME TypeInv, AccessInv, [Next]_vars, Ordered' PROVE AccessOK'
    BY DEF AccessInv
  <1>1. environment' = environment
    BY DEF Next, Begin, AssignBegin, ClaimBegin, RevokeBegin, EndBegin, UpdateBegin, Commit,
           AssignCommit, ClaimCommit, RevokeCommit, UpdateCommit, Handle, NextPeriod, vars
  <1>2. Ordered /\ AccessOK
    BY <1>1 DEF AccessInv, Ordered, Without
  <1>3. ASSUME NEW w \in Workers, Begin(w) PROVE AccessOK'
    BY <1>2, <1>3, AccessBegin
  <1>4. ASSUME NEW w \in Workers, Commit(w) PROVE AccessOK'
    BY <1>2, <1>4, AccessAssigned, AccessClaimed, AccessRevoked, AccessUpdated DEF Commit
  <1>5. ASSUME NEW m \in Members, Handle(m) PROVE AccessOK'
    BY <1>2, <1>5, AccessHandle
  <1>6. CASE UNCHANGED <<seats, jobs, access, task>>
    <2>1. SeatsInv' /\ TasksInv'
      BY <1>2, <1>6 DEF AccessOK, SeatsInv, TasksInv, Assigned, Busy
    <2>2. \A w \in Workers : TaskInv(w)'
      BY <1>2, <1>6 DEF AccessOK, TaskInv, SeatsOf, Assigned
    <2>3. \A m \in Members : WillHaveAccess(m)' <=> HasSeat(m)'
      BY <1>2, <1>6 DEF AccessOK, WillHaveAccess, HasSeat, SeatsOf, Assigned
    <2> QED BY <2>1, <2>2, <2>3 DEF AccessOK
  <1> QED BY <1>3, <1>4, <1>5, <1>6 DEF Next, NextPeriod, vars

LEMMA AccessInit == Init => AccessInv
  <1> SUFFICES ASSUME Init PROVE AccessOK
    BY DEF AccessInv
  <1>1. Assigned = {}
    BY DEF Init, Assigned
  <1>2. \A w \in Workers : task[w].step = "idle"
    BY IdleType DEF Init
  <1>3. SeatsInv /\ TasksInv /\ \A w \in Workers : TaskInv(w)
    BY <1>1, <1>2 DEF SeatsInv, TasksInv, TaskInv, Busy
  <1>4. \A m \in Members : ~WillHaveAccess(m) /\ ~HasSeat(m)
    BY <1>1 DEF Init, WillHaveAccess, HasSeat, SeatsOf
  <1> QED BY <1>3, <1>4 DEF AccessOK

(* Who has access to the benefits and no job left has a seat that is       *)
(* claimed, whatever the requests, unless they are about one seat or one   *)
(* member at the same time: the last job of a member always says what its  *)
(* seat says (revoke_seat, revoke_all_seats_for_subscription).             *)
THEOREM AccessHasSeatCorrect == Spec => []AccessHasSeat
  <1>1. TypeInv /\ AccessInv => AccessHasSeat
    BY DEF TypeInv, TypeOK, AccessInv, AccessOK, AccessHasSeat, Ordered, WillHaveAccess
  <1> QED BY <1>1, TypeInit, TypeNext, AccessInit, AccessNext, PTL DEF Spec

(* Who has a seat and no job left has access, also when the seat has been  *)
(* revoked, assigned again and claimed again before the jobs were executed *)
(* (claim_seat, assign_seat): from the same invariant.                     *)
THEOREM SeatHasAccessCorrect == Spec => []SeatHasAccess
  <1>1. AccessInv => SeatHasAccess
    BY DEF AccessInv, AccessOK, SeatHasAccess, Ordered, WillHaveAccess
  <1> QED BY <1>1, TypeInit, TypeNext, AccessInit, AccessNext, PTL DEF Spec

=============================================================================
