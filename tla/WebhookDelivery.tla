--------------------------- MODULE WebhookDelivery --------------------------
(***************************************************************************)
(* Webhooks sent to one endpoint of a seller: the events, the task that    *)
(* posts them in order and retries, the delivery rows, the disabling of an *)
(* endpoint that fails and the requests that enable it and redeliver       *)
(* (server/polar/webhook/tasks.py, service.py, repository.py).             *)
(***************************************************************************)
EXTENDS Integers, Sequences, FiniteSets

CONSTANTS
  Workers,      \* concurrent task executions
  MaxSent,      \* bound on the events
  MaxAttempts,  \* WEBHOOK_MAX_RETRIES: deliveries before an event has failed
  Threshold,    \* WEBHOOK_FAILURE_THRESHOLD
  MaxEvents,    \* bound on crashes, redeliveries and changes of the endpoint
  Environments  \* the sets of events that may happen together

AllEvents == {"late_commit", "lost_job", "crash", "overlap", "redeliver", "toggle"}

ASSUME SentAssumption == MaxSent \in Nat
ASSUME AttemptsAssumption == MaxAttempts \in Nat \ {0}
ASSUME ThresholdAssumption == Threshold \in Nat \ {0}
ASSUME EventsAssumption == MaxEvents \in Nat
ASSUME EnvironmentsAssumption == Environments \subseteq SUBSET AllEvents

VARIABLES
  environment,  \* the events that may happen in this behavior; it never changes
  enabled,      \* the endpoint is enabled
  sent,         \* the webhook events, in the order of created_at
  messages,     \* the webhook_event.send message of each event
  redeliveries, \* the same message with redeliver, from a request
  failures,     \* events with a webhook_event.failed message
  happened,     \* crashes, redeliveries and changes of the endpoint so far
  task          \* what each worker is executing

vars == <<environment, enabled, sent, messages, redeliveries, failures, happened,
          task>>

-----------------------------------------------------------------------------
(* Rows.                                                                   *)

Sent == 1 .. MaxSent

(* stage: an event is created in a transaction, committed with it, and its *)
(* message flushed after that.  outcome: the column succeeded, old: the    *)
(* event is older than WEBHOOK_FIFO_GUARD_MAX_AGE, archived: its payload   *)
(* is gone, deliveries: how many delivery rows it has.                     *)
Row == [stage: {"created", "committed", "flushed"},
        outcome: {"pending", "succeeded", "failed"},
        skipped: BOOLEAN, old: BOOLEAN, archived: BOOLEAN, deliveries: Nat]

Created == [stage |-> "created", outcome |-> "pending", skipped |-> FALSE,
            old |-> FALSE, archived |-> FALSE, deliveries |-> 0]

Messages == {"none", "queued", "running"}

(* event: 0 when the worker is idle, seen: the row read.                   *)
Task == [event: {0} \cup Sent, redeliver: BOOLEAN, seen: Row]

Idle == [event |-> 0, redeliver |-> FALSE, seen |-> Created]

TypeOK ==
  /\ environment \in SUBSET AllEvents
  /\ enabled \in BOOLEAN
  /\ sent \in Seq(Row) /\ Len(sent) <= MaxSent
  /\ messages \in [Sent -> Messages]
  /\ redeliveries \in [Sent -> Messages]
  /\ failures \in SUBSET Sent
  /\ happened \in Nat
  /\ task \in [Workers -> Task]

-----------------------------------------------------------------------------
(* What the code reads.                                                    *)

May(event) == event \in environment

Happens(event) == May(event) /\ happened < MaxEvents /\ happened' = happened + 1

Stored(i) == i \in DOMAIN sent /\ sent[i].stage # "created"

(* Slip: events that were skipped are not waited for.                      *)
EarlierPendingUnskipped(i) ==
  {k \in DOMAIN sent : k < i /\ Stored(k) /\ sent[k].deliveries = 0
                       /\ ~sent[k].old /\ ~sent[k].skipped}

(* count_earlier_pending: older events of the last minute that have no     *)
(* delivery yet, skipped ones included.                                    *)
EarlierPending(i) ==
  {k \in DOMAIN sent : k < i /\ Stored(k) /\ sent[k].deliveries = 0 /\ ~sent[k].old}

(* Slip: the attempt being made is not counted.                            *)
ExhaustedUncounted(i) == sent[i].deliveries >= MaxAttempts

(* The attempt being made is not committed yet.                            *)
Exhausted(i) == sent[i].deliveries + 1 >= MaxAttempts

(* get_recent_by_endpoint: the last completed events.                      *)
Completed == {i \in DOMAIN sent : Stored(i) /\ sent[i].outcome # "pending"}
Recent == {i \in Completed : Cardinality({k \in Completed : k > i}) < Threshold}

Failing ==
  Cardinality(Recent) >= Threshold /\ \A i \in Recent : sent[i].outcome = "failed"

(* get_pending_by_endpoint.                                                *)
Unfinished(i) == Stored(i) /\ sent[i].outcome = "pending" /\ ~sent[i].skipped

-----------------------------------------------------------------------------
(* Events are sent: by the transaction of the request or task that changed *)
(* what they tell of (send).                                               *)

(* Without late commits an event is committed before the next is created.  *)
Send ==
  /\ enabled
  /\ Len(sent) < MaxSent
  /\ May("late_commit") \/ \A i \in DOMAIN sent : Stored(i)
  /\ sent' = Append(sent, Created)
  /\ UNCHANGED <<environment, enabled, messages, redeliveries, failures,
                 happened, task>>

Commit(i) ==
  /\ i \in DOMAIN sent /\ sent[i].stage = "created"
  /\ sent' = [sent EXCEPT ![i].stage = "committed"]
  /\ UNCHANGED <<environment, enabled, messages, redeliveries, failures,
                 happened, task>>

(* The job is flushed after the commit, or lost with the process.          *)
Flush(i) ==
  /\ i \in DOMAIN sent /\ sent[i].stage = "committed"
  /\ sent' = [sent EXCEPT ![i].stage = "flushed"]
  /\ \/ messages' = [messages EXCEPT ![i] = "queued"]
     \/ May("lost_job") /\ UNCHANGED messages
  /\ UNCHANGED <<environment, enabled, redeliveries, failures, happened, task>>

(* A minute passes since the event was created.                            *)
Age(i) ==
  /\ Stored(i) /\ ~sent[i].old
  /\ \A k \in 1 .. i - 1 : sent[k].old
  /\ sent' = [sent EXCEPT ![i].old = TRUE]
  /\ UNCHANGED <<environment, enabled, messages, redeliveries, failures,
                 happened, task>>

-----------------------------------------------------------------------------
(* webhook_event.send.  A message is acknowledged when its task ends; one  *)
(* that is still running may be delivered to another worker.               *)

Takable(message) == message = "queued" \/ (May("overlap") /\ message = "running")

SetMessage(i, redeliver, m) ==
  IF redeliver
  THEN redeliveries' = [redeliveries EXCEPT ![i] = m] /\ UNCHANGED messages
  ELSE messages' = [messages EXCEPT ![i] = m] /\ UNCHANGED redeliveries

Taken(i, redeliver) ==
  IF redeliver THEN Takable(redeliveries[i]) ELSE Takable(messages[i])

(* Slip: skipped is written as if it were an outcome.                      *)
SendSkippedMisnamed(i, redeliver) ==
  /\ Taken(i, redeliver)
  /\ ~enabled
  /\ sent' = [sent EXCEPT ![i].outcome = "skipped"]
  /\ SetMessage(i, redeliver, "none")
  /\ UNCHANGED <<environment, enabled, failures, happened, task>>

(* The endpoint is disabled.                                               *)
SendSkipped(i, redeliver) ==
  /\ Taken(i, redeliver)
  /\ ~enabled
  /\ sent' = [sent EXCEPT ![i].skipped = TRUE]
  /\ SetMessage(i, redeliver, "none")
  /\ UNCHANGED <<environment, enabled, failures, happened, task>>

(* Archived, or succeeded before this message was delivered again.         *)
NothingToSend(i, redeliver) ==
  sent[i].archived \/ (sent[i].outcome = "succeeded" /\ ~redeliver)

SendNothing(i, redeliver) ==
  /\ Taken(i, redeliver)
  /\ enabled
  /\ NothingToSend(i, redeliver)
  /\ SetMessage(i, redeliver, "none")
  /\ UNCHANGED <<environment, enabled, sent, failures, happened, task>>

(* While earlier events are pending the message is only retried later.     *)
SendBegin(w, i, redeliver) ==
  /\ task[w].event = 0
  /\ Taken(i, redeliver)
  /\ enabled
  /\ ~NothingToSend(i, redeliver)
  /\ EarlierPending(i) = {}
  /\ task' = [task EXCEPT ![w] = [event |-> i, redeliver |-> redeliver, seen |-> sent[i]]]
  /\ SetMessage(i, redeliver, "running")
  /\ UNCHANGED <<environment, enabled, sent, failures, happened>>

(* The row after an attempt: skipped and succeeded are written over the    *)
(* committed row when they differ from what was read.                      *)
Attempted(row, seen, outcome) ==
  [row EXCEPT
    !.deliveries = @ + 1,
    !.skipped = IF seen.skipped THEN FALSE ELSE @,
    !.outcome = IF outcome = seen.outcome THEN @ ELSE outcome]

(* The delivery is committed.  Then jobs are flushed (webhook_event.failed *)
(* of the events in failed) and the message is acknowledged, or the worker *)
(* dies before and the message is delivered again.                         *)
Acknowledge(i, redeliver, m, failed) ==
  \/ /\ SetMessage(i, redeliver, m)
     /\ failures' = failures \cup failed
     /\ UNCHANGED happened
  \/ Happens("crash") /\ SetMessage(i, redeliver, "queued") /\ UNCHANGED failures

SendSucceeded(w) ==
  LET i == task[w].event
  IN /\ i # 0
     /\ sent' = [sent EXCEPT ![i] = Attempted(@, task[w].seen, "succeeded")]
     /\ Acknowledge(i, task[w].redeliver, "none", {})
     /\ task' = [task EXCEPT ![w] = Idle]
     /\ UNCHANGED <<environment, enabled>>

(* Slip: the failure is retried without the delivery row.                  *)
SendFailedUnsaved(w) ==
  LET i == task[w].event
  IN /\ i # 0
     /\ IF Exhausted(i)
        THEN /\ sent' = [sent EXCEPT ![i] = Attempted(@, task[w].seen, "failed")]
             /\ Acknowledge(i, task[w].redeliver, "none", {i})
        ELSE UNCHANGED sent /\ Acknowledge(i, task[w].redeliver, "queued", {})
     /\ task' = [task EXCEPT ![w] = Idle]
     /\ UNCHANGED <<environment, enabled>>

(* Slip: a failure that is not the last one is not retried.                *)
SendFailedUnretried(w) ==
  LET i == task[w].event
  IN /\ i # 0
     /\ sent' = [sent EXCEPT ![i] = Attempted(@, task[w].seen,
                   IF Exhausted(i) THEN "failed" ELSE task[w].seen.outcome)]
     /\ Acknowledge(i, task[w].redeliver, "none", IF Exhausted(i) THEN {i} ELSE {})
     /\ task' = [task EXCEPT ![w] = Idle]
     /\ UNCHANGED <<environment, enabled>>

(* The delivery is committed before the Retry is raised.                   *)
SendFailed(w) ==
  LET i == task[w].event
  IN /\ i # 0
     /\ IF Exhausted(i)
        THEN /\ sent' = [sent EXCEPT ![i] = Attempted(@, task[w].seen, "failed")]
             /\ Acknowledge(i, task[w].redeliver, "none", {i})
        ELSE /\ sent' = [sent EXCEPT ![i] = Attempted(@, task[w].seen, task[w].seen.outcome)]
             /\ Acknowledge(i, task[w].redeliver, "queued", {})
     /\ task' = [task EXCEPT ![w] = Idle]
     /\ UNCHANGED <<environment, enabled>>

(* A worker dies while it posts.                                           *)
Crash(w) ==
  LET i == task[w].event
  IN /\ i # 0
     /\ Happens("crash")
     /\ SetMessage(i, task[w].redeliver, "queued")
     /\ task' = [task EXCEPT ![w] = Idle]
     /\ UNCHANGED <<environment, enabled, sent, failures>>

(* on_event_failed: the endpoint is disabled and pending events skipped.   *)
OnEventFailed(i) ==
  /\ i \in failures
  /\ failures' = failures \ {i}
  /\ IF enabled /\ sent[i].outcome = "failed" /\ Failing
     THEN /\ enabled' = FALSE
          /\ sent' = [k \in DOMAIN sent |->
                        IF Unfinished(k) THEN [sent[k] EXCEPT !.skipped = TRUE] ELSE sent[k]]
     ELSE UNCHANGED <<enabled, sent>>
  /\ UNCHANGED <<environment, messages, redeliveries, happened, task>>

(* webhook_event.archive.                                                  *)
Archive(i) ==
  /\ Stored(i) /\ sent[i].old /\ ~sent[i].archived
  /\ sent' = [sent EXCEPT ![i].archived = TRUE]
  /\ UNCHANGED <<environment, enabled, messages, redeliveries, failures,
                 happened, task>>

-----------------------------------------------------------------------------
(* Requests of the seller.                                                 *)

UpdateEndpoint ==
  /\ Happens("toggle")
  /\ enabled' = ~enabled
  /\ UNCHANGED <<environment, sent, messages, redeliveries, failures, task>>

RedeliverEvent(i) ==
  /\ Stored(i)
  /\ redeliveries[i] = "none"
  /\ Happens("redeliver")
  /\ redeliveries' = [redeliveries EXCEPT ![i] = "queued"]
  /\ UNCHANGED <<environment, enabled, sent, messages, failures, task>>

-----------------------------------------------------------------------------
Init ==
  /\ environment \in Environments
  /\ enabled = TRUE
  /\ sent = <<>>
  /\ messages = [i \in Sent |-> "none"]
  /\ redeliveries = [i \in Sent |-> "none"]
  /\ failures = {}
  /\ happened = 0
  /\ task = [w \in Workers |-> Idle]

Take(i) ==
  \E redeliver \in BOOLEAN :
    \/ SendSkipped(i, redeliver) \/ SendNothing(i, redeliver)
    \/ \E w \in Workers : SendBegin(w, i, redeliver)

Post(w) == SendSucceeded(w) \/ SendFailed(w)

Next ==
  \/ Send
  \/ \E i \in Sent :
       \/ Commit(i) \/ Flush(i) \/ Age(i) \/ Archive(i)
       \/ Take(i) \/ OnEventFailed(i) \/ RedeliverEvent(i)
  \/ \E w \in Workers : Post(w) \/ Crash(w)
  \/ UpdateEndpoint

Spec == Init /\ [][Next]_vars

(* Transactions and posts end, jobs are flushed, time passes, and the      *)
(* queue gives every message its turn.                                     *)
Fairness ==
  /\ \A i \in Sent :
       /\ WF_vars(Commit(i)) /\ WF_vars(Flush(i)) /\ WF_vars(Age(i))
       /\ SF_vars(Take(i))
  /\ \A w \in Workers : WF_vars(Post(w))

FairSpec == Spec /\ Fairness

-----------------------------------------------------------------------------
(* What the delivery of webhooks must keep.  A property that some events   *)
(* break names them: it is claimed for the environments without them.      *)

Without(E) == environment \cap E = {}

(* "Earlier events need to be delivered first": no event of the last       *)
(* minute is overtaken by the first delivery of a later one, whatever is   *)
(* retried, lost, skipped or posted at the same time, unless it was        *)
(* committed after that.                                                   *)
AttemptedInOrder ==
  Without({"late_commit"}) =>
    \A i, k \in DOMAIN sent :
      i < k /\ sent[k].deliveries > 0 => sent[i].deliveries > 0 \/ sent[i].old

(* No event is posted more often than that, unless a seller asks for it or *)
(* a worker that died or was too slow has its message delivered again.     *)
AttemptsBounded ==
  Without({"redeliver", "crash", "overlap"}) =>
    \A i \in DOMAIN sent : sent[i].deliveries <= MaxAttempts

(* A pending event that was not skipped has a message that will deliver    *)
(* it: the endpoint may be disabled and enabled again between two retries. *)
PendingHasMessage ==
  Without({"lost_job"}) =>
    \A i \in DOMAIN sent :
      sent[i].stage = "flushed" /\ Unfinished(i) /\ ~sent[i].archived =>
        messages[i] # "none" \/ redeliveries[i] # "none"

Settled(i) ==
  i \in DOMAIN sent
  /\ (sent[i].outcome # "pending" \/ sent[i].skipped \/ sent[i].archived)

(* A queued event is eventually accepted, failed or skipped: it waits for  *)
(* an earlier event whose message was lost no longer than a minute.        *)
EventSettles == \A i \in Sent : messages[i] = "queued" ~> Settled(i)
=============================================================================
