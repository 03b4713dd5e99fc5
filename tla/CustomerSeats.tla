---------------------------- MODULE CustomerSeats ---------------------------
(***************************************************************************)
(* The seats of one seat-based subscription: they are assigned to members, *)
(* claimed with an invitation, revoked, reused and revoked together when   *)
(* the subscription ends; jobs give members access to its benefits and     *)
(* take it away (server/polar/customer_seat/service.py, tasks.py,          *)
(* repository.py, subscription/service.py).                                *)
(***************************************************************************)
EXTENDS Naturals, Sequences, FiniteSets, SequencesExt

CONSTANTS
  Members,        \* the people seats are assigned to
  Workers,        \* requests and tasks at the same time
  MaxSeats,       \* bound on the seats of the subscription
  MaxAssignments, \* bound on the assignments
  Environments    \* the sets of events that may happen together

AllEvents == {"double", "collide", "resize", "next_period", "after_end", "reorder", "lost_job"}

Nobody == "nobody"

ASSUME MembersAssumption == Nobody \notin Members
ASSUME WorkersAssumption == IsFiniteSet(Workers)
ASSUME BoundsAssumption == MaxSeats \in Nat \ {0} /\ MaxAssignments \in Nat
ASSUME EnvironmentsAssumption == Environments \subseteq SUBSET AllEvents

VARIABLES
  environment,   \* the events that may happen in this behavior; it never changes
  active,        \* the subscription has not ended
  limit,         \* its number of seats
  pendingUpdate, \* the number of seats it will have in the next period, or 0
  seats,         \* the rows of the subscription's seats
  assignments,   \* the number of assignments so far
  jobs,          \* the messages benefit.enqueue_benefits_grants of each member
  access,        \* the members who have the benefits
  task           \* what each worker is executing

vars == <<environment, active, limit, pendingUpdate, seats, assignments, jobs, access,
          task>>

-----------------------------------------------------------------------------
(* Rows and requests.                                                      *)

(* member: customer_id, member_id and email, token: of the invitation.     *)
Seat == [status: {"pending", "claimed", "revoked"}, member: Members \cup {Nobody},
         token: 0 .. MaxAssignments]

NoToken == 0

Rows == 1 .. MaxAssignments

(* rows: the seats it is about, none when a new one is assigned, read: the *)
(* rows to be revoked as they were read, token: of the new invitation,     *)
(* number: the new number of seats.                                        *)
Task == [step: {"idle", "assigning", "claiming", "revoking", "ending", "updating"},
         member: Members \cup {Nobody}, rows: SUBSET Rows, claimed: BOOLEAN,
         read: UNION {[rows -> Seat] : rows \in SUBSET Rows},
         token: 0 .. MaxAssignments, number: 0 .. MaxSeats]

Idle == [step |-> "idle", member |-> Nobody, rows |-> {}, claimed |-> FALSE,
         read |-> <<>>, token |-> NoToken, number |-> 0]

TypeOK ==
  /\ environment \in SUBSET AllEvents
  /\ active \in BOOLEAN
  /\ limit \in 1 .. MaxSeats /\ pendingUpdate \in 0 .. MaxSeats
  /\ seats \in Seq(Seat)
  /\ assignments \in 0 .. MaxAssignments
  /\ jobs \in [Members -> Seq({"grant", "revoke"})]
  /\ access \in SUBSET Members
  /\ task \in [Workers -> Task]

-----------------------------------------------------------------------------
May(event) == event \in environment

Assigned == {s \in DOMAIN seats : seats[s].status # "revoked"}

SeatsOf(m) == {s \in Assigned : seats[s].member = m}

(* Slip: seats that wait to be claimed are not counted.                    *)
AvailableUnclaimed == limit > Cardinality({s \in DOMAIN seats : seats[s].status = "claimed"})

(* get_available_seats_count is positive.                                  *)
Available == limit > Cardinality(Assigned)

(* get_revoked_seat_by_container: any of them, or a new row.               *)
Reusable ==
  LET revoked == DOMAIN seats \ Assigned
  IN IF revoked = {} THEN {{}} ELSE {{s} : s \in revoked}

Busy == {w \in Workers : task[w].step # "idle"}

Starts(w, t) == w \notin Busy /\ task' = [task EXCEPT ![w] = t]

Ends(w) == task' = [task EXCEPT ![w] = Idle]

(* Unless they collide, the requests executed at the same time are about   *)
(* other seats and other members, or claim the same invitation; the end of *)
(* the subscription is about all seats, and so is a change of their number *)
(* unless it meets assignments as well.                                    *)
Apart(rows, m, step) ==
  \A w \in Busy :
    /\ task[w].step = "updating" => May("resize")
    /\ \/ May("collide") /\ "revoking" \in {step, task[w].step}
       \/ May("collide") /\ "ending" \in {step, task[w].step}
       \/ task[w].step = step /\ step = "claiming"
       \/ task[w].step = step /\ step = "assigning" /\ May("double")
       \/ task[w].step # "ending" /\ task[w].rows \cap rows = {} /\ task[w].member # m

(* The jobs of a request are enqueued when it has been committed.          *)
Enqueue(S, name) ==
  \/ jobs' = [m \in Members |-> IF m \in S THEN Append(jobs[m], name) ELSE jobs[m]]
  \/ May("lost_job") /\ UNCHANGED jobs

-----------------------------------------------------------------------------
(* Assignment (assign_seat): a seat is available, the member has none, and *)
(* a revoked one is reused; nothing asks whether the subscription has      *)
(* ended.                                                                  *)

AssignBegin(w, m, rows, claimed) ==
  /\ active \/ May("after_end")
  /\ assignments < MaxAssignments
  /\ Available
  /\ SeatsOf(m) = {}
  /\ rows \in Reusable
  /\ Apart(rows, m, "assigning")
  /\ Starts(w, [Idle EXCEPT !.step = "assigning", !.member = m, !.rows = rows,
                            !.claimed = claimed,
                            !.token = IF claimed THEN NoToken ELSE assignments + 1])
  /\ assignments' = assignments + 1
  /\ UNCHANGED <<environment, active, limit, pendingUpdate, seats, jobs, access>>

(* Every column of a reused row is written: the last assignment wins.      *)
AssignCommit(w) ==
  LET t == task[w]
      seat == [status |-> IF t.claimed THEN "claimed" ELSE "pending",
               member |-> t.member, token |-> t.token]
  IN /\ t.step = "assigning"
     /\ seats' = IF t.rows = {} THEN Append(seats, seat)
                 ELSE [s \in DOMAIN seats |-> IF s \in t.rows THEN seat ELSE seats[s]]
     /\ Enqueue(IF t.claimed THEN {t.member} ELSE {}, "grant")
     /\ Ends(w)
     /\ UNCHANGED <<environment, active, limit, pendingUpdate, assignments, access>>

-----------------------------------------------------------------------------
(* The claim of an invitation (claim_seat): it is sent to the member of a  *)
(* pending seat, and may be claimed twice at the same time.                *)
ClaimBegin(w, s) ==
  /\ s \in DOMAIN seats
  /\ seats[s].status = "pending" /\ seats[s].token # NoToken
  /\ Apart({s}, seats[s].member, "claiming")
  /\ Starts(w, [Idle EXCEPT !.step = "claiming", !.member = seats[s].member, !.rows = {s}])
  /\ UNCHANGED <<environment, active, limit, pendingUpdate, seats, assignments, jobs,
                 access>>

(* Slip: another word for the status of a seat that is taken.              *)
ClaimCommitMisnamed(w) ==
  LET t == task[w]
  IN /\ t.step = "claiming"
     /\ seats' = [s \in DOMAIN seats |->
                    IF s \in t.rows
                    THEN [seats[s] EXCEPT !.status = "active", !.token = NoToken]
                    ELSE seats[s]]
     /\ Enqueue({t.member}, "grant")
     /\ Ends(w)
     /\ UNCHANGED <<environment, active, limit, pendingUpdate, assignments, access>>

(* Slip: no job for a member who has access, although it is about to be    *)
(* taken away.                                                             *)
ClaimCommitUngranted(w) ==
  LET t == task[w]
  IN /\ t.step = "claiming"
     /\ seats' = [s \in DOMAIN seats |->
                    IF s \in t.rows
                    THEN [seats[s] EXCEPT !.status = "claimed", !.token = NoToken]
                    ELSE seats[s]]
     /\ Enqueue(IF t.member \in access THEN {} ELSE {t.member}, "grant")
     /\ Ends(w)
     /\ UNCHANGED <<environment, active, limit, pendingUpdate, assignments, access>>

(* status and invitation_token are written, customer and member are not.   *)
ClaimCommit(w) ==
  LET t == task[w]
  IN /\ t.step = "claiming"
     /\ seats' = [s \in DOMAIN seats |->
                    IF s \in t.rows
                    THEN [seats[s] EXCEPT !.status = "claimed", !.token = NoToken]
                    ELSE seats[s]]
     /\ Enqueue({t.member}, "grant")
     /\ Ends(w)
     /\ UNCHANGED <<environment, active, limit, pendingUpdate, assignments, access>>

-----------------------------------------------------------------------------
(* Revocation of one seat (revoke_seat), of all of a member's              *)
(* (revoke_seats_for_member) and, with the end of the subscription, of all *)
(* seats (revoke_all_seats_for_subscription).  The revocation of a seat    *)
(* that is revoked already changes nothing.                                *)

RevokeBegin(w, rows) ==
  /\ \/ \E s \in Assigned : rows = {s}
     \/ \E m \in Members : rows = SeatsOf(m) /\ rows # {}
  /\ \A s \in rows : Apart(rows, seats[s].member, "revoking")
  /\ Starts(w, [Idle EXCEPT !.step = "revoking", !.rows = rows,
                            !.read = [s \in rows |-> seats[s]],
                            !.member = seats[CHOOSE s \in rows : TRUE].member])
  /\ UNCHANGED <<environment, active, limit, pendingUpdate, seats, assignments, jobs,
                 access>>

EndBegin(w) ==
  /\ active
  /\ Busy = {} \/ (May("collide") /\ Apart({}, Nobody, "ending"))
  /\ Starts(w, [Idle EXCEPT !.step = "ending", !.rows = Assigned,
                            !.read = [s \in Assigned |-> seats[s]]])
  /\ UNCHANGED <<environment, active, limit, pendingUpdate, seats, assignments, jobs,
                 access>>

(* Slip: the customer is cleared before the job is enqueued.               *)
RevokeCommitCleared(w) ==
  LET t == task[w]
  IN /\ t.step \in {"revoking", "ending"}
     /\ seats' = [s \in DOMAIN seats |->
                    IF s \in t.rows
                    THEN [status |-> "revoked", member |-> Nobody, token |-> NoToken]
                    ELSE seats[s]]
     /\ active' = (active /\ t.step # "ending")
     /\ UNCHANGED jobs
     /\ Ends(w)
     /\ UNCHANGED <<environment, limit, pendingUpdate, assignments, access>>

(* Only columns that differ from what was read are written.                *)
RevokeCommit(w) ==
  LET t == task[w]
      Revoked(s) ==
        [status |-> "revoked",
         member |-> IF t.read[s].member = Nobody THEN seats[s].member ELSE Nobody,
         token |-> IF t.read[s].token = NoToken THEN seats[s].token ELSE NoToken]
  IN /\ t.step \in {"revoking", "ending"}
     /\ seats' = [s \in DOMAIN seats |-> IF s \in t.rows THEN Revoked(s) ELSE seats[s]]
     /\ active' = (active /\ t.step # "ending")
     /\ Enqueue({t.read[s].member : s \in t.rows}, "revoke")
     /\ Ends(w)
     /\ UNCHANGED <<environment, limit, pendingUpdate, assignments, access>>

-----------------------------------------------------------------------------
(* The number of seats (update_seats): not below the seats assigned, at    *)
(* once or, depending on the proration, in the next period.                *)

UpdateBegin(w, number) ==
  /\ active
  /\ number # limit /\ number >= Cardinality(Assigned)
  /\ Busy = {} \/ May("resize")
  /\ Starts(w, [Idle EXCEPT !.step = "updating", !.number = number])
  /\ UNCHANGED <<environment, active, limit, pendingUpdate, seats, assignments, jobs,
                 access>>

UpdateCommit(w) ==
  /\ task[w].step = "updating"
  /\ \/ limit' = task[w].number /\ pendingUpdate' = 0
     \/ May("next_period") /\ pendingUpdate' = task[w].number /\ UNCHANGED limit
  /\ Ends(w)
  /\ UNCHANGED <<environment, active, seats, assignments, jobs, access>>

(* The renewal applies the pending update without counting again.          *)
NextPeriod ==
  /\ active /\ pendingUpdate # 0
  /\ limit' = pendingUpdate /\ pendingUpdate' = 0
  /\ UNCHANGED <<environment, active, seats, assignments, jobs, access, task>>

-----------------------------------------------------------------------------
(* A job gives the member access or takes it away.                         *)
Handle(m) ==
  \E i \in DOMAIN jobs[m] :
    /\ i = 1 \/ May("reorder")
    /\ access' = IF jobs[m][i] = "grant" THEN access \cup {m} ELSE access \ {m}
    /\ jobs' = [jobs EXCEPT ![m] = RemoveAt(@, i)]
    /\ UNCHANGED <<environment, active, limit, pendingUpdate, seats, assignments, task>>

-----------------------------------------------------------------------------
Init ==
  /\ environment \in Environments
  /\ active = TRUE
  /\ limit \in 1 .. MaxSeats /\ pendingUpdate = 0
  /\ seats = <<>>
  /\ assignments = 0
  /\ jobs = [m \in Members |-> <<>>]
  /\ access = {}
  /\ task = [w \in Workers |-> Idle]

Begin(w) ==
  \/ \E m \in Members, rows \in Reusable, claimed \in BOOLEAN :
       AssignBegin(w, m, rows, claimed)
  \/ \E s \in DOMAIN seats : ClaimBegin(w, s)
  \/ \E rows \in SUBSET Assigned : RevokeBegin(w, rows)
  \/ EndBegin(w)
  \/ \E number \in 1 .. MaxSeats : UpdateBegin(w, number)

Commit(w) == AssignCommit(w) \/ ClaimCommit(w) \/ RevokeCommit(w) \/ UpdateCommit(w)

Next ==
  \/ \E w \in Workers : Begin(w) \/ Commit(w)
  \/ \E m \in Members : Handle(m)
  \/ NextPeriod

Spec == Init /\ [][Next]_vars

-----------------------------------------------------------------------------
(* What the seats must keep.  A property that some events break names      *)
(* them: it is claimed for the environments without them.                  *)

Without(E) == environment \cap E = {}

(* Seats are counted before they are assigned and nothing is locked, but   *)
(* no more are assigned beyond those that were sold than there are         *)
(* requests at the same time, less one (get_available_seats_count,         *)
(* assign_seat).                                                           *)
AssignedWithinLimit ==
  Without({"next_period", "resize"}) =>
    Cardinality(Assigned) <= limit + Cardinality(Workers) - 1

HasSeat(m) == \E s \in SeatsOf(m) : seats[s].status = "claimed"

(* Who has access to the benefits has a seat: it ends with the seat, also  *)
(* when the seat is given to somebody else or the subscription ends before *)
(* the jobs have been executed (revoke_seat, revoke_all_seats...).         *)
AccessHasSeat ==
  Without({"double", "collide", "reorder", "lost_job"}) =>
    \A m \in access : jobs[m] = <<>> => HasSeat(m)

(* Who has a seat has access, once its jobs have been executed: a seat     *)
(* taken and claimed again is granted again (claim_seat, assign_seat).     *)
SeatHasAccess ==
  Without({"double", "collide", "reorder", "lost_job"}) =>
    \A m \in Members : HasSeat(m) /\ jobs[m] = <<>> => m \in access
=============================================================================
