---------------------------- MODULE BenefitGrants ---------------------------
(***************************************************************************)
(* One benefit of one customer, reached through several purchases: the     *)
(* grant of each, the tasks that grant, update, revoke and delete them and *)
(* the outside service that gives the access (a GitHub repository)         *)
(* (server/polar/benefit/tasks.py, grant/service.py,                       *)
(* strategies/github_repository/service.py, customer_portal).              *)
(***************************************************************************)
EXTENDS Integers, FiniteSets

CONSTANTS
  Purchases,    \* subscriptions whose product has the benefit
  Accounts,     \* accounts of the customer at the outside service
  Workers,      \* concurrent task executions
  MaxEvents,    \* bound on changes, switches, deletions, outages, crashes
  Environments  \* the sets of events that may happen together

AllEvents == {"parallel", "hasty", "switch", "late_connect", "delete", "outage",
              "uninstall", "crash"}

NoAccount == "none"

ASSUME PurchasesAssumption == Purchases # {} /\ IsFiniteSet(Purchases)
ASSUME AccountsAssumption == NoAccount \notin Accounts
ASSUME EventsAssumption == MaxEvents \in Nat
ASSUME EnvironmentsAssumption == Environments \subseteq SUBSET AllEvents

VARIABLES
  environment, \* the events that may happen in this behavior; it never changes
  active,      \* the purchase gives the benefit
  deletion,    \* of the benefit, and the benefit.delete message
  grants,      \* the committed row of each purchase
  access,      \* the accounts with access at the outside service
  messages,    \* queued messages of the benefit tasks
  happened,    \* changes, switches, deletions, outages and crashes so far
  task         \* what each worker is executing

vars == <<environment, active, deletion, grants, access, messages, happened, task>>

-----------------------------------------------------------------------------
(* Rows and messages.                                                      *)

(* granted: granted_at is set, revoked: revoked_at is set, errored: error  *)
(* holds a BenefitActionRequiredError, account and given: account_id and   *)
(* granted_account_id of properties.                                       *)
Row == [stored: BOOLEAN, granted: BOOLEAN, revoked: BOOLEAN, errored: BOOLEAN,
        account: Accounts \cup {NoAccount}, given: Accounts \cup {NoAccount}]

NoGrant == [stored |-> FALSE, granted |-> FALSE, revoked |-> FALSE, errored |-> FALSE,
            account |-> NoAccount, given |-> NoAccount]

(* The first two are benefit.enqueue_benefits_grants.                      *)
Kinds == {"start", "stop", "grant", "update", "revoke", "delete"}
Message == [kind: Kinds, purchase: Purchases]
Msg(k, p) == [kind |-> k, purchase |-> p]

(* message: what is executed, seen: the row read, last: fewer than two     *)
(* grants were counted.                                                    *)
Task == [step: {"idle", "call", "required", "done"}, message: Message,
         seen: Row, last: BOOLEAN]

Idle == [step |-> "idle", message |-> Msg("start", CHOOSE p \in Purchases : TRUE),
         seen |-> NoGrant, last |-> FALSE]

TypeOK ==
  /\ environment \in SUBSET AllEvents
  /\ active \in [Purchases -> BOOLEAN]
  /\ deletion \in {"none", "queued", "done"}
  /\ grants \in [Purchases -> Row]
  /\ access \in SUBSET Accounts
  /\ messages \in SUBSET Message
  /\ happened \in Nat
  /\ task \in [Workers -> Task]

-----------------------------------------------------------------------------
(* What the code reads.                                                    *)

May(event) == event \in environment

Bounded == happened < MaxEvents /\ happened' = happened + 1

Happens(event) == May(event) /\ Bounded

Deleted == deletion # "none"

Entitled(p) == active[p] /\ ~Deleted

Executed == {task[w].message : w \in {v \in Workers : task[v].step # "idle"}}

(* Messages on their way, whether they are queued or executed.             *)
InFlight(p) == {m \in messages \cup Executed : m.purchase = p}

Quiet(p) == InFlight(p) = {}

(* Slip: only the grants of other purchases are counted.                   *)
IsLastExclusive(p) == Cardinality({q \in Purchases \ {p} : grants[q].granted}) < 2

(* list_granted_by_benefit_and_customer: the purchase's own one included.  *)
IsLast(p) == Cardinality({q \in Purchases : grants[q].granted}) < 2

-----------------------------------------------------------------------------
(* Requests that start or stop the benefit and the task that compares them *)
(* with the grants.                                                        *)

(* Slip: a stop is enqueued as a task that does not exist.                 *)
ChangeMisnamed(p) ==
  /\ May("hasty") \/ Quiet(p)
  /\ Bounded
  /\ active' = [active EXCEPT ![p] = ~@]
  /\ messages' = messages \cup {Msg(IF active[p] THEN "remove" ELSE "start", p)}
  /\ UNCHANGED <<environment, deletion, grants, access, task>>

(* enqueue_benefits_grants: the purchase has changed; what it wants is     *)
(* decided here and not when the message is handled.                       *)
Change(p) ==
  /\ May("hasty") \/ Quiet(p)
  /\ Bounded
  /\ active' = [active EXCEPT ![p] = ~@]
  /\ messages' = messages \cup {Msg(IF active[p] THEN "stop" ELSE "start", p)}
  /\ UNCHANGED <<environment, deletion, grants, access, task>>

(* A message is acknowledged when its task has ended; it is delivered      *)
(* again when the worker dies before.                                      *)
Acknowledge(m, more) ==
  \/ messages' = (messages \ {m}) \cup more /\ UNCHANGED happened
  \/ messages' = messages \cup {m} \cup more /\ Happens("crash")

(* Slip: every grant counts as outdated.                                   *)
EnqueueStartOutdated(p) ==
  LET m == Msg("start", p)
  IN /\ m \in messages
     /\ IF grants[p].granted
        THEN Acknowledge(m, {Msg("revoke", p)})
        ELSE Acknowledge(m, IF Deleted \/ grants[p].errored THEN {} ELSE {Msg("grant", p)})
     /\ UNCHANGED <<environment, active, deletion, grants, access, task>>

(* Slip: a purchase that has a grant already is left alone.                *)
EnqueueStartOnce(p) ==
  LET m == Msg("start", p)
  IN /\ m \in messages
     /\ Acknowledge(m, IF Deleted \/ grants[p].stored THEN {} ELSE {Msg("grant", p)})
     /\ UNCHANGED <<environment, active, deletion, grants, access, task>>

(* Grants that wait for the customer are left alone; one that is granted   *)
(* although its product has lost the benefit is revoked.                   *)
EnqueueStart(p) ==
  LET m == Msg("start", p)
      g == grants[p]
  IN /\ m \in messages
     /\ \/ Deleted /\ g.granted /\ Acknowledge(m, {Msg("revoke", p)})
        \/ ~Deleted /\ ~g.granted /\ ~g.errored /\ Acknowledge(m, {Msg("grant", p)})
        \/ ~(Deleted /\ g.granted) /\ (Deleted \/ g.granted \/ g.errored)
           /\ Acknowledge(m, {})
     /\ UNCHANGED <<environment, active, deletion, grants, access, task>>

(* Only what is granted by now is revoked.                                 *)
EnqueueStop(p) ==
  LET m == Msg("stop", p)
  IN /\ m \in messages
     /\ Acknowledge(m, IF grants[p].granted THEN {Msg("revoke", p)} ELSE {})
     /\ UNCHANGED <<environment, active, deletion, grants, access, task>>

-----------------------------------------------------------------------------
(* The customer and the seller.                                            *)

(* The customer connects or picks an account: the portal, or the callback  *)
(* of OAuth, writes it and enqueues benefit.update.  No update of a grant  *)
(* that is revoked is permitted.                                           *)
Connect(p, a) ==
  /\ grants[p].stored /\ ~grants[p].revoked
  /\ grants[p].account # a
  /\ Entitled(p) \/ May("late_connect")
  /\ IF grants[p].account = NoAccount
       /\ \A q \in Purchases : grants[q].account \in {NoAccount, a}
     THEN UNCHANGED happened
     ELSE Happens("switch")
  /\ grants' = [grants EXCEPT ![p].account = a]
  /\ messages' = messages \cup {Msg("update", p)}
  /\ UNCHANGED <<environment, active, deletion, access, task>>

(* The seller deletes the benefit.                                         *)
DeleteBenefit ==
  /\ deletion = "none"
  /\ May("hasty") \/ \A p \in Purchases : Quiet(p)
  /\ Happens("delete")
  /\ deletion' = "queued"
  /\ UNCHANGED <<environment, active, grants, access, messages, task>>

(* benefit.delete.                                                         *)
EnqueueDeletions ==
  /\ deletion = "queued"
  /\ deletion' = "done"
  /\ messages' = messages \cup {Msg("delete", p) : p \in {q \in Purchases : grants[q].granted}}
  /\ UNCHANGED <<environment, active, grants, access, happened, task>>

-----------------------------------------------------------------------------
(* benefit.grant, benefit.update, benefit.revoke and benefit.delete_grant. *)

(* A grant that is granted is not granted again, one that is revoked not   *)
(* revoked again or updated, and the benefit must exist for the first and  *)
(* the third: its message is refused until it is given up.                 *)
Unneeded(m) ==
  LET g == grants[m.purchase]
  IN CASE m.kind = "grant"  -> Deleted \/ g.granted
       [] m.kind = "revoke" -> Deleted \/ g.revoked
       [] OTHER             -> g.revoked

Skip(m) ==
  /\ m.kind \in {"grant", "update", "revoke", "delete"}
  /\ m \in messages
  /\ Unneeded(m)
  /\ Acknowledge(m, {})
  /\ UNCHANGED <<environment, active, deletion, grants, access, task>>

(* The grant is read, and for a revocation the grants are counted.         *)
Begin(w, m) ==
  /\ m.kind \in {"grant", "update", "revoke", "delete"}
  /\ m \in messages
  /\ ~Unneeded(m)
  /\ \A v \in Workers : task[v].step = "idle" \/ (May("parallel") /\ v # w)
  /\ messages' = messages \ {m}
  /\ task' = [task EXCEPT ![w] =
       [step |-> "call", message |-> m, seen |-> grants[m.purchase],
        last |-> m.kind = "revoke" /\ IsLast(m.purchase)]]
  /\ UNCHANGED <<environment, active, deletion, grants, access, happened>>

Goto(w, step) == task' = [task EXCEPT ![w].step = step]

(* An update takes the access of the previous account away first.          *)
Replaced(w) ==
  IF /\ task[w].message.kind = "update"
     /\ task[w].seen.given \notin {NoAccount, task[w].seen.account}
  THEN {task[w].seen.given} ELSE {}

(* The call raises BenefitActionRequiredError before it does anything: the *)
(* installation of the GitHub App cannot be read, or the OAuth account of  *)
(* the customer is gone.                                                   *)
Unable(w) == May("uninstall") /\ UNCHANGED access /\ Goto(w, "required")

(* grant of the strategy: the customer must have connected an account.  An *)
(* account that is gone is noticed after the previous one was taken.       *)
CallGrant(w) ==
  LET account == task[w].seen.account
      kept    == access \ Replaced(w)
  IN /\ task[w].step = "call" /\ task[w].message.kind \in {"grant", "update"}
     /\ \/ account # NoAccount /\ access' = kept \cup {account} /\ Goto(w, "done")
        \/ (account = NoAccount \/ May("uninstall")) /\ access' = kept /\ Goto(w, "required")
        \/ Unable(w)
     /\ UNCHANGED <<environment, active, deletion, grants, messages, happened>>

(* Slip: a deletion leaves the access to the last revocation.              *)
CallRevokeLast(w) ==
  LET t == task[w]
  IN /\ t.step = "call" /\ t.message.kind \in {"revoke", "delete"}
     /\ \/ IF t.last /\ t.seen.given # NoAccount
           THEN access' = access \ {t.seen.given} /\ Goto(w, "done")
           ELSE UNCHANGED access /\ Goto(w, "required")
        \/ Unable(w)
     /\ UNCHANGED <<environment, active, deletion, grants, messages, happened>>

(* revoke of the strategy, but not while another purchase gives access.    *)
(* BenefitActionRequiredError is passed over: the grant will be revoked.   *)
CallRevoke(w) ==
  LET t == task[w]
  IN /\ t.step = "call" /\ t.message.kind \in {"revoke", "delete"}
     /\ \/ IF (t.last \/ t.message.kind = "delete") /\ t.seen.given # NoAccount
           THEN access' = access \ {t.seen.given} /\ Goto(w, "done")
           ELSE UNCHANGED access /\ Goto(w, "required")
        \/ Unable(w)
     /\ UNCHANGED <<environment, active, deletion, grants, messages, happened>>

(* The outside service fails: nothing is committed and the task retried,   *)
(* although an update may have taken access away by then.                  *)
CallFails(w) ==
  /\ task[w].step = "call"
  /\ Happens("outage")
  /\ access' \in {access, access \ Replaced(w)}
  /\ messages' = messages \cup {task[w].message}
  /\ task' = [task EXCEPT ![w] = Idle]
  /\ UNCHANGED <<environment, active, deletion, grants>>

(* Columns are written when they differ from what was read.                *)
Granted(row, seen) ==
  [row EXCEPT !.stored = TRUE, !.granted = TRUE,
              !.revoked = IF seen.revoked THEN FALSE ELSE @,
              !.errored = IF seen.errored THEN FALSE ELSE @,
              !.account = IF seen.account = seen.given THEN @ ELSE seen.account,
              !.given = seen.account]

Failed(row, seen) ==
  [row EXCEPT !.stored = TRUE, !.errored = TRUE,
              !.granted = IF seen.granted THEN FALSE ELSE @,
              !.revoked = IF seen.revoked THEN FALSE ELSE @]

(* Slip: a grant that is revoked keeps granted_at.                         *)
RevokedStillGranted(row, seen, called) ==
  [row EXCEPT !.stored = TRUE, !.revoked = TRUE,
              !.account = IF called THEN seen.account ELSE @,
              !.given = IF called THEN NoAccount ELSE @]

Revoked(row, seen, called) ==
  [row EXCEPT !.stored = TRUE, !.revoked = TRUE,
              !.granted = IF seen.granted THEN FALSE ELSE @,
              !.account = IF called THEN seen.account ELSE @,
              !.given = IF called THEN NoAccount ELSE @]

Write(t, row) ==
  IF t.message.kind \in {"revoke", "delete"} THEN Revoked(row, t.seen, t.step = "done")
  ELSE IF t.step = "done" THEN Granted(row, t.seen) ELSE Failed(row, t.seen)

(* A row that another task has inserted meanwhile cannot be inserted.  The *)
(* message is acknowledged; one like it that was queued meanwhile stays.   *)
Commit(w) ==
  LET t == task[w]
      p == t.message.purchase
  IN /\ t.step \in {"required", "done"}
     /\ IF ~t.seen.stored /\ grants[p].stored
        THEN /\ messages' = messages \cup {t.message}
             /\ UNCHANGED <<grants, happened>>
        ELSE /\ grants' = [grants EXCEPT ![p] = Write(t, @)]
             /\ \/ UNCHANGED <<messages, happened>>
                \/ messages' = messages \cup {t.message} /\ Happens("crash")
     /\ task' = [task EXCEPT ![w] = Idle]
     /\ UNCHANGED <<environment, active, deletion, access>>

Crash(w) ==
  /\ task[w].step # "idle"
  /\ Happens("crash")
  /\ messages' = messages \cup {task[w].message}
  /\ task' = [task EXCEPT ![w] = Idle]
  /\ UNCHANGED <<environment, active, deletion, grants, access>>

-----------------------------------------------------------------------------
(* Every purchase has just been made.                                      *)
Init ==
  /\ environment \in Environments
  /\ active = [p \in Purchases |-> TRUE]
  /\ deletion = "none"
  /\ grants = [p \in Purchases |-> NoGrant]
  /\ access = {}
  /\ messages = {Msg("start", p) : p \in Purchases}
  /\ happened = 0
  /\ task = [w \in Workers |-> Idle]

Take(m) == Skip(m) \/ \E w \in Workers : Begin(w, m)

Call(w) == CallGrant(w) \/ CallRevoke(w)

Next ==
  \/ \E p \in Purchases :
       \/ Change(p) \/ EnqueueStart(p) \/ EnqueueStop(p)
       \/ \E a \in Accounts \cup {NoAccount} : Connect(p, a)
  \/ DeleteBenefit \/ EnqueueDeletions
  \/ \E m \in Message : Take(m)
  \/ \E w \in Workers : Call(w) \/ CallFails(w) \/ Commit(w) \/ Crash(w)

Spec == Init /\ [][Next]_vars

(* Messages are taken as long as there are any, and calls return.          *)
Fairness ==
  /\ WF_vars(EnqueueDeletions \/ \E p \in Purchases : EnqueueStart(p) \/ EnqueueStop(p))
  /\ WF_vars(\E m \in Message : Take(m))
  /\ \A w \in Workers : WF_vars(Call(w) \/ Commit(w))

FairSpec == Spec /\ Fairness

-----------------------------------------------------------------------------
(* What grants must keep.  A property that some events break names them:   *)
(* it is claimed for the environments without them.                        *)

Without(E) == environment \cap E = {}

Undone(p) == \E m \in InFlight(p) : m.kind \in {"revoke", "delete"}

(* "The benefit remains if other grants exist via other purchases": the    *)
(* account of a grant has access as long as it is granted, whatever is     *)
(* revoked, retried or done twice around it.  A benefit that is deleted    *)
(* while it is granted, or connected afterwards, is another matter: the    *)
(* grants that benefit.delete did not find keep no access.  So is a grant  *)
(* that fails while its revocation is on its way: it is not counted, and   *)
(* the only other one is taken for the last.                               *)
GrantedHasAccess ==
  Without({"parallel", "switch"})
  /\ (Deleted \/ ~Without({"uninstall"}) => Without({"hasty", "late_connect"})) =>
    \A p \in Purchases : grants[p].granted => grants[p].given \in access \/ Undone(p)

(* No account has access that no grant gives and no task is about to       *)
(* record, unless the worker dies after the call and the benefit is        *)
(* deleted before the grant is tried again, or the App or the account is   *)
(* missing when the access should be taken: it stays for good.             *)
AccessIsGranted ==
  Without({"parallel", "switch", "uninstall"})
  /\ (Deleted => Without({"hasty"}) \/ Without({"crash"})) =>
    \A a \in access : \E p \in Purchases :
      \/ grants[p].granted /\ grants[p].given = a
      \/ grants[p].account = a /\ \E m \in InFlight(p) : m.kind \in {"grant", "update"}

(* A customer who is entitled to the benefit loses its grant only to an    *)
(* error of an update, such as a disconnected account, although tasks of   *)
(* both kinds run together.                                                *)
EntitledKeepsGrant ==
  [][Without({"hasty"}) =>
       \A p \in Purchases :
         grants[p].granted /\ ~grants'[p].granted => ~Entitled(p) \/ grants'[p].errored]_vars

(* The grant of a purchase that has ended is eventually revoked.           *)
EndedIsRevoked ==
  \A p \in Purchases :
    Without({"hasty", "late_connect"}) /\ ~Entitled(p)
      ~> ~grants[p].granted \/ Entitled(p)

(* A purchase that gives the benefit is eventually granted, or waits for   *)
(* the customer.                                                           *)
EntitledIsSettled ==
  \A p \in Purchases :
    Without({"hasty"}) /\ Entitled(p)
      ~> grants[p].granted \/ grants[p].errored \/ ~Entitled(p)
=============================================================================
