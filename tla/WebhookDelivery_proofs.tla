----------------------- MODULE WebhookDelivery_proofs -----------------------
(***************************************************************************)
(* Theorems about WebhookDelivery, for every value of its constants.       *)
(***************************************************************************)
EXTENDS WebhookDelivery, TLAPS

-----------------------------------------------------------------------------
(* What the types need in order to be inductive: messages and tasks are of *)
(* events that are committed, and what a task has read of the outcome is   *)
(* not undone.                                                             *)

Flushed(i) == i \in DOMAIN sent /\ sent[i].stage = "flushed"

MessagesOK ==
  /\ \A i \in Sent : messages[i] # "none" => Flushed(i)
  /\ \A i \in Sent : redeliveries[i] # "none" => Stored(i)
  /\ \A i \in failures : Stored(i)

Posts(w) == task[w].event # 0

PostOK(w) ==
  LET t == task[w]
  IN Posts(w) =>
       /\ Stored(t.event)
       /\ ~t.redeliver => Flushed(t.event)
       /\ t.seen.outcome # "pending" => sent[t.event].outcome # "pending"

TypeInv == TypeOK /\ MessagesOK /\ \A w \in Workers : PostOK(w)

-----------------------------------------------------------------------------
(* Without late commits every earlier event is visible to the query that   *)
(* looks for them, and a post that has begun was preceded by a delivery of *)
(* each.                                                                   *)

Preceded(k) ==
  \A i \in DOMAIN sent : i < k => sent[i].deliveries > 0 \/ sent[i].old

OrderInv ==
  ~May("late_commit") =>
    /\ \A i, k \in DOMAIN sent : i < k => Stored(i)
    /\ \A k \in DOMAIN sent : sent[k].deliveries > 0 => Preceded(k)
    /\ \A w \in Workers : Posts(w) => Preceded(task[w].event)

(* Without redeliveries, crashes and overlaps an event has one message,    *)
(* which is gone once the attempts are used up.                            *)

AttemptsInv ==
  Without({"redeliver", "crash", "overlap"}) =>
    /\ \A i \in Sent : redeliveries[i] = "none"
    /\ \A i \in DOMAIN sent :
         /\ sent[i].deliveries <= MaxAttempts
         /\ messages[i] # "none" => sent[i].deliveries < MaxAttempts
         /\ sent[i].stage # "flushed" => sent[i].deliveries = 0
    /\ \A w \in Workers : Posts(w) =>
         /\ ~task[w].redeliver /\ messages[task[w].event] = "running"
         /\ \A v \in Workers : task[v].event = task[w].event => v = w

-----------------------------------------------------------------------------
(* The values of the operators, and how the rows of events grow.           *)


Outcomes == {"pending", "succeeded", "failed"}

LEMMA CreatedType == Created \in Row
  BY DEF Created, Row

LEMMA IdleType == Idle \in Task
  BY CreatedType DEF Idle, Task

Grows(r, s) ==
  /\ s.deliveries >= r.deliveries
  /\ r.old => s.old
  /\ r.archived => s.archived
  /\ r.outcome # "pending" => s.outcome # "pending"
  /\ r.stage # "created" => s.stage # "created"
  /\ r.stage = "flushed" => s.stage = "flushed"

SentGrows == \A i \in DOMAIN sent : i \in DOMAIN sent' /\ Grows(sent[i], sent'[i])

SentOK == sent \in Seq(Row) /\ Len(sent) <= MaxSent

LEMMA SentIndex ==
  ASSUME SentOK
  PROVE  DOMAIN sent = 1 .. Len(sent) /\ DOMAIN sent \subseteq Sent
         /\ \A i \in DOMAIN sent : sent[i] \in Row
  BY SentAssumption DEF SentOK, Sent

LEMMA GrowsSame == ASSUME NEW r \in Row PROVE Grows(r, r)
  BY DEF Row, Grows

LEMMA SentKept == ASSUME SentOK, sent' = sent PROVE SentOK' /\ SentGrows
  <1>1. \A i \in DOMAIN sent : Grows(sent[i], sent'[i])
    BY SentIndex, GrowsSame
  <1> QED BY <1>1 DEF SentOK, SentGrows

LEMMA SentWritten ==
  ASSUME SentOK, NEW i \in DOMAIN sent, NEW r \in Row, Grows(sent[i], r),
         sent' = [sent EXCEPT ![i] = r]
  PROVE  /\ SentOK' /\ SentGrows
         /\ DOMAIN sent' = DOMAIN sent /\ sent'[i] = r
         /\ \A k \in DOMAIN sent : k # i => sent'[k] = sent[k]
  <1>1. SentOK' /\ DOMAIN sent' = DOMAIN sent /\ sent'[i] = r
        /\ \A k \in DOMAIN sent : k # i => sent'[k] = sent[k]
    BY DEF SentOK
  <1>2. \A k \in DOMAIN sent : Grows(sent[k], sent'[k])
    BY <1>1, SentIndex, GrowsSame
  <1> QED BY <1>1, <1>2 DEF SentGrows

With(r, deliveries, skipped, outcome) ==
  [r EXCEPT !.deliveries = deliveries, !.skipped = skipped, !.outcome = outcome]

LEMMA RowWith ==
  ASSUME NEW r \in Row, NEW deliveries \in Nat, NEW skipped \in BOOLEAN,
         NEW outcome \in Outcomes
  PROVE  /\ With(r, deliveries, skipped, outcome) \in Row
         /\ With(r, deliveries, skipped, outcome).deliveries = deliveries
         /\ With(r, deliveries, skipped, outcome).outcome = outcome
         /\ With(r, deliveries, skipped, outcome).stage = r.stage
         /\ With(r, deliveries, skipped, outcome).old = r.old
         /\ With(r, deliveries, skipped, outcome).archived = r.archived
  BY DEF Row, Outcomes, With

LEMMA ColumnRow ==
  ASSUME NEW r \in Row
  PROVE  \A s \in {[r EXCEPT !.old = TRUE], [r EXCEPT !.archived = TRUE],
                   [r EXCEPT !.skipped = TRUE]} :
           /\ s \in Row /\ Grows(r, s)
           /\ s.stage = r.stage /\ s.deliveries = r.deliveries /\ s.outcome = r.outcome
           /\ ~r.skipped \/ s.skipped
  <1>1. /\ [r EXCEPT !.old = TRUE] \in Row
        /\ [r EXCEPT !.archived = TRUE] \in Row
        /\ [r EXCEPT !.skipped = TRUE] \in Row
    BY DEF Row
  <1>2. Grows(r, [r EXCEPT !.old = TRUE])
    BY DEF Row, Grows
  <1>3. Grows(r, [r EXCEPT !.archived = TRUE])
    BY DEF Row, Grows
  <1>4. Grows(r, [r EXCEPT !.skipped = TRUE])
    BY DEF Row, Grows
  <1>5. \A s \in {[r EXCEPT !.old = TRUE], [r EXCEPT !.archived = TRUE],
                  [r EXCEPT !.skipped = TRUE]} :
          s.stage = r.stage /\ s.deliveries = r.deliveries /\ s.outcome = r.outcome
    BY DEF Row
  <1>6. \A s \in {[r EXCEPT !.old = TRUE], [r EXCEPT !.archived = TRUE],
                  [r EXCEPT !.skipped = TRUE]} : ~r.skipped \/ s.skipped
    BY DEF Row
  <1> QED BY <1>1, <1>2, <1>3, <1>4, <1>5, <1>6

LEMMA AttemptedRow ==
  ASSUME NEW r \in Row, NEW seen \in Row, NEW outcome \in Outcomes,
         seen.outcome # "pending" => r.outcome # "pending",
         outcome # seen.outcome => outcome # "pending"
  PROVE  /\ Attempted(r, seen, outcome) \in Row
         /\ Grows(r, Attempted(r, seen, outcome))
         /\ Attempted(r, seen, outcome).deliveries = r.deliveries + 1
         /\ Attempted(r, seen, outcome).stage = r.stage
         /\ outcome # "pending" => Attempted(r, seen, outcome).outcome # "pending"
  <1> DEFINE deliveries == r.deliveries + 1
             skipped == IF seen.skipped THEN FALSE ELSE r.skipped
             written == IF outcome = seen.outcome THEN r.outcome ELSE outcome
  <1>1. deliveries \in Nat /\ skipped \in BOOLEAN /\ written \in Outcomes
    <2>1. skipped \in BOOLEAN
      BY DEF Row
    <2>2. deliveries \in Nat /\ written \in Outcomes
      BY DEF Row, Outcomes
    <2> QED BY <2>1, <2>2
  <1>2. Attempted(r, seen, outcome) = With(r, deliveries, skipped, written)
    BY DEF Attempted, With
  <1>3. /\ r.deliveries \in Nat
        /\ deliveries = r.deliveries + 1
        /\ r.outcome # "pending" => written # "pending"
        /\ outcome # "pending" => written # "pending"
    BY DEF Row
  <1> HIDE DEF deliveries, skipped, written
  <1> DEFINE s == Attempted(r, seen, outcome)
  <1> HIDE DEF s
  <1>4. s = With(r, deliveries, skipped, written)
    BY <1>2 DEF s
  <1>5. /\ s \in Row
        /\ s.deliveries = deliveries /\ s.outcome = written
        /\ s.stage = r.stage /\ s.old = r.old /\ s.archived = r.archived
    BY <1>1, <1>4, RowWith
  <1>6. Grows(r, s)
    BY <1>3, <1>5 DEF Grows
  <1> QED BY <1>3, <1>5, <1>6 DEF s

-----------------------------------------------------------------------------
(* What each step does to the events.                                      *)

LEMMA SendSent ==
  ASSUME TypeInv, Send
  PROVE  /\ SentOK' /\ SentGrows
         /\ DOMAIN sent' = DOMAIN sent \cup {Len(sent) + 1}
         /\ sent'[Len(sent) + 1] = Created /\ Len(sent) + 1 \notin DOMAIN sent
         /\ \A i \in DOMAIN sent : sent'[i] = sent[i] /\ i < Len(sent) + 1
  <1>1. SentOK
    BY DEF TypeInv, TypeOK, SentOK
  <1>2. /\ SentOK' /\ DOMAIN sent' = DOMAIN sent \cup {Len(sent) + 1}
        /\ sent'[Len(sent) + 1] = Created /\ Len(sent) + 1 \notin DOMAIN sent
        /\ \A i \in DOMAIN sent : sent'[i] = sent[i] /\ i < Len(sent) + 1
    BY <1>1, CreatedType, SentAssumption DEF Send, SentOK
  <1>3. \A i \in DOMAIN sent : Grows(sent[i], sent'[i])
    BY <1>1, <1>2, SentIndex, GrowsSame
  <1> QED BY <1>2, <1>3 DEF SentGrows

LEMMA StageSent ==
  ASSUME TypeInv, NEW i \in Sent, Commit(i) \/ Flush(i)
  PROVE  /\ SentOK' /\ SentGrows /\ i \in DOMAIN sent /\ sent[i].stage # "flushed"
         /\ DOMAIN sent' = DOMAIN sent
         /\ sent'[i] = [sent[i] EXCEPT !.stage = IF sent[i].stage = "created"
                                                 THEN "committed" ELSE "flushed"]
         /\ \A k \in DOMAIN sent : k # i => sent'[k] = sent[k]
  <1> DEFINE stage == IF sent[i].stage = "created" THEN "committed" ELSE "flushed"
  <1>1. SentOK /\ i \in DOMAIN sent /\ sent[i].stage # "flushed"
    BY DEF TypeInv, TypeOK, SentOK, Commit, Flush
  <1>2. sent' = [sent EXCEPT ![i] = [sent[i] EXCEPT !.stage = stage]]
    BY <1>1 DEF Commit, Flush
  <1>3. [sent[i] EXCEPT !.stage = stage] \in Row
    BY <1>1, SentIndex DEF Row
  <1>4. Grows(sent[i], [sent[i] EXCEPT !.stage = stage])
    BY <1>1, SentIndex DEF Row, Grows
  <1> QED BY <1>1, <1>2, <1>3, <1>4, SentWritten

(* Age, archive and skip: a column of a stored event.                      *)
LEMMA ColumnSent ==
  ASSUME SentOK, NEW i \in DOMAIN sent,
         \/ sent' = [sent EXCEPT ![i].old = TRUE]
         \/ sent' = [sent EXCEPT ![i].archived = TRUE]
         \/ sent' = [sent EXCEPT ![i].skipped = TRUE]
  PROVE  /\ SentOK' /\ SentGrows
         /\ DOMAIN sent' = DOMAIN sent
         /\ sent'[i].stage = sent[i].stage /\ sent'[i].deliveries = sent[i].deliveries
         /\ ~sent[i].skipped \/ sent'[i].skipped
         /\ \A k \in DOMAIN sent : k # i => sent'[k] = sent[k]
  <1>1. sent[i] \in Row
    BY SentIndex
  <1>2. PICK r \in Row : /\ sent' = [sent EXCEPT ![i] = r] /\ Grows(sent[i], r)
                         /\ r.stage = sent[i].stage /\ r.deliveries = sent[i].deliveries
                         /\ ~sent[i].skipped \/ r.skipped
    <2>1. \E r \in {[sent[i] EXCEPT !.old = TRUE], [sent[i] EXCEPT !.archived = TRUE],
                    [sent[i] EXCEPT !.skipped = TRUE]} : sent' = [sent EXCEPT ![i] = r]
      OBVIOUS
    <2> QED BY <1>1, <2>1, ColumnRow
  <1> QED BY <1>2, SentWritten

LEMMA PostSent ==
  ASSUME TypeInv, NEW w \in Workers, Posts(w), NEW outcome \in Outcomes,
         outcome # task[w].seen.outcome => outcome # "pending",
         NEW i, i = task[w].event,
         sent' = [sent EXCEPT ![i] = Attempted(@, task[w].seen, outcome)]
  PROVE  /\ SentOK' /\ SentGrows /\ i \in DOMAIN sent /\ DOMAIN sent' = DOMAIN sent
         /\ sent'[i].deliveries = sent[i].deliveries + 1
         /\ sent'[i].stage = sent[i].stage
         /\ outcome # "pending" => sent'[i].outcome # "pending"
         /\ \A k \in DOMAIN sent : k # i => sent'[k] = sent[k]
  <1>1. SentOK /\ i \in DOMAIN sent /\ task[w].seen \in Row
        /\ (task[w].seen.outcome # "pending" => sent[i].outcome # "pending")
    BY DEF TypeInv, TypeOK, SentOK, PostOK, Stored, Task
  <1>2. sent[i] \in Row
    BY <1>1, SentIndex
  <1> DEFINE r == Attempted(sent[i], task[w].seen, outcome)
  <1>3. /\ r \in Row /\ Grows(sent[i], r) /\ r.deliveries = sent[i].deliveries + 1
        /\ r.stage = sent[i].stage
        /\ outcome # "pending" => r.outcome # "pending"
    BY <1>1, <1>2, AttemptedRow
  <1>4. sent' = [sent EXCEPT ![i] = r]
    OBVIOUS
  <1> HIDE DEF r
  <1>5. /\ SentOK' /\ SentGrows /\ DOMAIN sent' = DOMAIN sent /\ sent'[i] = r
        /\ \A k \in DOMAIN sent : k # i => sent'[k] = sent[k]
    BY <1>1, <1>3, <1>4, SentWritten
  <1>6. /\ sent'[i].deliveries = sent[i].deliveries + 1
        /\ sent'[i].stage = sent[i].stage
        /\ outcome # "pending" => sent'[i].outcome # "pending"
    BY <1>3, <1>5
  <1> QED BY <1>1, <1>5, <1>6

LEMMA FailedSent ==
  ASSUME TypeInv, NEW i \in Sent, OnEventFailed(i)
  PROVE  /\ SentOK' /\ SentGrows /\ DOMAIN sent' = DOMAIN sent
         /\ \A k \in DOMAIN sent : sent'[k].stage = sent[k].stage
                                   /\ sent'[k].deliveries = sent[k].deliveries
                                   /\ (~sent[k].skipped \/ sent'[k].skipped)
                                   /\ sent'[k].outcome = sent[k].outcome
  <1>1. SentOK
    BY DEF TypeInv, TypeOK, SentOK
  <1>2. CASE sent' = sent
    BY <1>1, <1>2, SentKept
  <1>3. CASE sent' = [k \in DOMAIN sent |->
                        IF Unfinished(k) THEN [sent[k] EXCEPT !.skipped = TRUE] ELSE sent[k]]
    <2>1. ASSUME NEW k \in DOMAIN sent
          PROVE  /\ sent'[k] \in Row /\ Grows(sent[k], sent'[k])
                 /\ sent'[k].stage = sent[k].stage /\ sent'[k].deliveries = sent[k].deliveries
                 /\ (~sent[k].skipped \/ sent'[k].skipped)
                 /\ sent'[k].outcome = sent[k].outcome
      <3>1. sent[k] \in Row
        BY <1>1, SentIndex
      <3>2. sent'[k] = [sent[k] EXCEPT !.skipped = TRUE] \/ sent'[k] = sent[k]
        BY <1>3
      <3>3. Grows(sent[k], sent'[k]) /\ sent'[k] \in Row
        BY <3>1, <3>2, ColumnRow, GrowsSame
      <3>4. CASE sent'[k] = [sent[k] EXCEPT !.skipped = TRUE]
        BY <3>1, <3>3, <3>4 DEF Row
      <3>5. CASE sent'[k] = sent[k]
        BY <3>3, <3>5
      <3> QED BY <3>2, <3>4, <3>5
    <2>2. DOMAIN sent' = 1 .. Len(sent) /\ Len(sent) \in Nat
      BY <1>1, <1>3, SentIndex DEF SentOK
    <2>3. sent' \in [1 .. Len(sent) -> Row]
      BY <1>1, <1>3, <2>1, <2>2, SentIndex
    <2>4. sent' \in Seq(Row) /\ Len(sent') = Len(sent)
      BY <2>2, <2>3
    <2> QED BY <1>1, <1>3, <2>1, <2>2, <2>4, SentIndex DEF SentOK, SentGrows
  <1> QED BY <1>2, <1>3 DEF OnEventFailed

-----------------------------------------------------------------------------
(* Type correctness: the parts of TypeInv, each kept by the steps.         *)

PlainInv == environment \in SUBSET AllEvents /\ enabled \in BOOLEAN /\ happened \in Nat

MessageInv ==
  /\ messages \in [Sent -> Messages] /\ redeliveries \in [Sent -> Messages]
  /\ failures \in SUBSET Sent
  /\ MessagesOK

TaskInv == task \in [Workers -> Task] /\ \A w \in Workers : PostOK(w)

LEMMA TypeParts == TypeInv => PlainInv /\ SentOK /\ MessageInv /\ TaskInv
  BY DEF TypeInv, TypeOK, PlainInv, SentOK, MessageInv, TaskInv

LEMMA TypeWhole ==
  ASSUME PlainInv', SentOK', MessageInv', TaskInv' PROVE TypeInv'
  BY DEF TypeInv, TypeOK, PlainInv, SentOK, MessageInv, TaskInv

LEMMA StoredKept ==
  ASSUME SentGrows, NEW i
  PROVE  /\ Stored(i) => Stored(i)'
         /\ Flushed(i) => Flushed(i)'
         /\ Flushed(i)' => Stored(i)'
         /\ Flushed(i) => Stored(i)
  BY DEF SentGrows, Grows, Stored, Flushed

LEMMA MessagesKept ==
  ASSUME TypeInv, SentGrows, UNCHANGED <<messages, redeliveries>>, failures' \subseteq failures
  PROVE  MessageInv'
  <1>1. /\ messages' \in [Sent -> Messages] /\ redeliveries' \in [Sent -> Messages]
        /\ failures' \in SUBSET Sent
    BY TypeParts DEF MessageInv
  <1>2. MessagesOK'
    BY TypeParts, StoredKept DEF MessageInv, MessagesOK
  <1> QED BY <1>1, <1>2 DEF MessageInv

LEMMA MessagesSet ==
  ASSUME TypeInv, SentGrows, NEW i \in Sent, NEW redeliver \in BOOLEAN, NEW m \in Messages,
         SetMessage(i, redeliver, m), Stored(i)', ~redeliver => Flushed(i)',
         failures' \subseteq failures \cup {i}
  PROVE  MessageInv'
  <1>1. CASE redeliver
    <2>1. redeliveries' = [redeliveries EXCEPT ![i] = m] /\ messages' = messages
      BY <1>1 DEF SetMessage
    <2>2. /\ messages' \in [Sent -> Messages] /\ redeliveries' \in [Sent -> Messages]
          /\ failures' \in SUBSET Sent
      BY <2>1, TypeParts DEF MessageInv
    <2>3. MessagesOK'
      BY <2>1, TypeParts, StoredKept DEF MessageInv, MessagesOK
    <2> QED BY <2>2, <2>3 DEF MessageInv
  <1>2. CASE ~redeliver
    <2>1. messages' = [messages EXCEPT ![i] = m] /\ redeliveries' = redeliveries
      BY <1>2 DEF SetMessage
    <2>2. /\ messages' \in [Sent -> Messages] /\ redeliveries' \in [Sent -> Messages]
          /\ failures' \in SUBSET Sent
      BY <2>1, TypeParts DEF MessageInv
    <2>3. MessagesOK'
      BY <1>2, <2>1, TypeParts, StoredKept DEF MessageInv, MessagesOK
    <2> QED BY <2>2, <2>3 DEF MessageInv
  <1> QED BY <1>1, <1>2

LEMMA PostKept ==
  ASSUME TypeInv, SentGrows, NEW v \in Workers, task'[v] = task[v]
  PROVE  PostOK(v)'
  <1>1. PostOK(v)
    BY TypeParts DEF TaskInv
  <1> QED BY <1>1, StoredKept DEF PostOK, Posts, SentGrows, Grows, Stored, Flushed

LEMMA TasksKept ==
  ASSUME TypeInv, SentGrows, task' = task PROVE TaskInv'
  BY TypeParts, PostKept DEF TaskInv

LEMMA TaskEnded ==
  ASSUME TypeInv, SentGrows, NEW w \in Workers, task' = [task EXCEPT ![w] = Idle]
  PROVE  TaskInv'
  <1>1. task' \in [Workers -> Task]
    BY TypeParts, IdleType DEF TaskInv
  <1>2. ASSUME NEW v \in Workers PROVE PostOK(v)'
    <2>1. CASE v = w
      BY <2>1, TypeParts DEF TaskInv, PostOK, Posts, Idle
    <2>2. CASE v # w
      BY <2>2, TypeParts, PostKept DEF TaskInv
    <2> QED BY <2>1, <2>2
  <1> QED BY <1>1, <1>2 DEF TaskInv

LEMMA HappensType ==
  ASSUME TypeInv, NEW event, Happens(event) PROVE happened' \in Nat
  BY TypeParts DEF Happens, PlainInv

LEMMA TakenStored ==
  ASSUME TypeInv, NEW i \in Sent, NEW redeliver \in BOOLEAN, Taken(i, redeliver)
  PROVE  Stored(i) /\ i \in DOMAIN sent /\ (~redeliver => Flushed(i))
  BY TypeParts DEF MessageInv, MessagesOK, Taken, Takable, Stored, Flushed

LEMMA PostedStored ==
  ASSUME TypeInv, NEW w \in Workers, Posts(w)
  PROVE  /\ task[w].event \in Sent /\ Stored(task[w].event)
         /\ task[w].event \in DOMAIN sent
         /\ task[w].redeliver \in BOOLEAN /\ task[w].seen \in Row
         /\ (~task[w].redeliver => Flushed(task[w].event))
  <1>1. task[w] \in Task /\ PostOK(w)
    BY TypeParts DEF TaskInv
  <1>2. task[w].redeliver \in BOOLEAN
    BY <1>1 DEF Task
  <1>3. task[w].event \in Sent /\ task[w].seen \in Row
    BY <1>1 DEF Task, Posts
  <1> QED BY <1>1, <1>2, <1>3 DEF PostOK, Stored

LEMMA CreateType == ASSUME TypeInv, Send \/ UpdateEndpoint PROVE TypeInv'
  <1>1. CASE Send
    <2>1. PlainInv'
      BY <1>1, TypeParts DEF Send, PlainInv
    <2>2. SentOK' /\ SentGrows
      BY <1>1, SendSent
    <2>3. MessageInv' /\ TaskInv'
      BY <1>1, <2>2, MessagesKept, TasksKept DEF Send
    <2> QED BY <2>1, <2>2, <2>3, TypeWhole
  <1>2. CASE UpdateEndpoint
    <2>1. PlainInv'
      <3>1. happened' \in Nat
        BY <1>2, HappensType DEF UpdateEndpoint
      <3> QED BY <3>1, <1>2, TypeParts DEF UpdateEndpoint, PlainInv
    <2>2. SentOK' /\ SentGrows
      BY <1>2, TypeParts, SentKept DEF UpdateEndpoint
    <2>3. MessageInv' /\ TaskInv'
      BY <1>2, <2>2, MessagesKept, TasksKept DEF UpdateEndpoint
    <2> QED BY <2>1, <2>2, <2>3, TypeWhole
  <1> QED BY <1>1, <1>2

LEMMA StageType ==
  ASSUME TypeInv, NEW i \in Sent, Commit(i) \/ Flush(i) PROVE TypeInv'
  <1>1. PlainInv'
    BY TypeParts DEF Commit, Flush, PlainInv
  <1>2. SentOK' /\ SentGrows
    BY StageSent
  <1>3. MessageInv'
    <2>1. CASE UNCHANGED messages
      BY <1>2, <2>1, MessagesKept DEF Commit, Flush
    <2>2. CASE messages' # messages
      <3>1. Flush(i) /\ SetMessage(i, FALSE, "queued") /\ failures' = failures
        BY <2>2 DEF Commit, Flush, SetMessage
      <3>2. i \in DOMAIN sent /\ sent[i] \in Row /\ sent[i].stage = "committed"
        BY <3>1, TypeParts, SentIndex DEF Flush
      <3>3. sent'[i] = [sent[i] EXCEPT !.stage = "flushed"] /\ i \in DOMAIN sent'
        BY <3>1, <3>2 DEF Flush
      <3>4. Flushed(i)' /\ Stored(i)'
        BY <3>2, <3>3 DEF Flushed, Stored, Row
      <3> QED BY <1>2, <3>1, <3>4, MessagesSet DEF Messages
    <2> QED BY <2>1, <2>2
  <1>4. TaskInv'
    BY <1>2, TasksKept DEF Commit, Flush
  <1> QED BY <1>1, <1>2, <1>3, <1>4, TypeWhole

LEMMA PassType ==
  ASSUME TypeInv, NEW i \in Sent, Age(i) \/ Archive(i) PROVE TypeInv'
  <1>1. PlainInv'
    BY TypeParts DEF Age, Archive, PlainInv
  <1>2. SentOK' /\ SentGrows
    BY TypeParts, ColumnSent DEF Age, Archive, Stored
  <1>3. MessageInv' /\ TaskInv'
    BY <1>2, MessagesKept, TasksKept DEF Age, Archive
  <1> QED BY <1>1, <1>2, <1>3, TypeWhole

LEMMA DropType ==
  ASSUME TypeInv, NEW i \in Sent, NEW redeliver \in BOOLEAN,
         SendSkipped(i, redeliver) \/ SendNothing(i, redeliver)
  PROVE  TypeInv'
  <1>1. PlainInv'
    BY TypeParts DEF SendSkipped, SendNothing, PlainInv
  <1>2. Stored(i) /\ i \in DOMAIN sent /\ (~redeliver => Flushed(i))
    BY TakenStored DEF SendSkipped, SendNothing
  <1>3. SentOK' /\ SentGrows
    <2>1. CASE sent' = sent
      BY <2>1, TypeParts, SentKept
    <2>2. CASE sent' = [sent EXCEPT ![i].skipped = TRUE]
      BY <1>2, <2>2, TypeParts, ColumnSent
    <2> QED BY <2>1, <2>2 DEF SendSkipped, SendNothing
  <1>4. Stored(i)' /\ (~redeliver => Flushed(i)')
    BY <1>2, <1>3, StoredKept
  <1>5. SetMessage(i, redeliver, "none") /\ failures' = failures /\ task' = task
    BY DEF SendSkipped, SendNothing
  <1>6. MessageInv'
    BY <1>3, <1>4, <1>5, MessagesSet DEF Messages
  <1>7. TaskInv'
    BY <1>3, <1>5, TasksKept
  <1> QED BY <1>1, <1>3, <1>6, <1>7, TypeWhole

LEMMA BeginType ==
  ASSUME TypeInv, NEW w \in Workers, NEW i \in Sent, NEW redeliver \in BOOLEAN,
         SendBegin(w, i, redeliver)
  PROVE  TypeInv'
  <1>1. PlainInv'
    BY TypeParts DEF SendBegin, PlainInv
  <1>2. Stored(i) /\ i \in DOMAIN sent /\ (~redeliver => Flushed(i))
    BY TakenStored DEF SendBegin
  <1>3. SentOK' /\ SentGrows /\ sent' = sent
    BY TypeParts, SentKept DEF SendBegin
  <1>4. Stored(i)' /\ (~redeliver => Flushed(i)')
    BY <1>2, <1>3, StoredKept
  <1>5. SetMessage(i, redeliver, "running") /\ failures' = failures
    BY DEF SendBegin
  <1>6. MessageInv'
    BY <1>3, <1>4, <1>5, MessagesSet DEF Messages
  <1>7. TaskInv'
    <2> DEFINE t == [event |-> i, redeliver |-> redeliver, seen |-> sent[i]]
    <2>1. t \in Task
      BY <1>2, TypeParts, SentIndex DEF Task
    <2>2. task' = [task EXCEPT ![w] = t]
      BY DEF SendBegin
    <2>3. t.event = i /\ t.redeliver = redeliver /\ t.seen = sent[i]
      OBVIOUS
    <2> HIDE DEF t
    <2>4. task' \in [Workers -> Task] /\ task'[w] = t
      BY <2>1, <2>2, TypeParts DEF TaskInv
    <2>5. PostOK(w)'
      BY <1>3, <1>4, <2>3, <2>4 DEF PostOK
    <2>6. ASSUME NEW v \in Workers, v # w PROVE PostOK(v)'
      BY <1>3, <2>2, <2>6, TypeParts, PostKept DEF TaskInv
    <2> QED BY <2>4, <2>5, <2>6 DEF TaskInv
  <1> QED BY <1>1, <1>3, <1>6, <1>7, TypeWhole

(* A post whose message goes has an outcome, one whose message is queued   *)
(* again has attempts left or its worker died.                             *)
Answers(i, w, outcome, m) ==
  /\ outcome # task[w].seen.outcome => outcome # "pending"
  /\ sent' = [sent EXCEPT ![i] = Attempted(@, task[w].seen, outcome)]
  /\ SetMessage(i, task[w].redeliver, m)
  /\ m = "none" => outcome # "pending"
  /\ m = "queued" => ~Exhausted(i) \/ May("crash")

LEMMA AcknowledgeEffect ==
  ASSUME TypeInv, NEW i, NEW redeliver, NEW m \in {"none", "queued"}, NEW failed,
         Acknowledge(i, redeliver, m, failed)
  PROVE  /\ happened' \in Nat /\ failures' \subseteq failures \cup failed
         /\ \E n \in {"none", "queued"} : /\ SetMessage(i, redeliver, n)
                                          /\ n = m \/ (n = "queued" /\ May("crash"))
  <1>1. happened \in Nat
    BY TypeParts DEF PlainInv
  <1>2. CASE /\ SetMessage(i, redeliver, m) /\ failures' = failures \cup failed
             /\ UNCHANGED happened
    BY <1>1, <1>2
  <1>3. CASE Happens("crash") /\ SetMessage(i, redeliver, "queued") /\ UNCHANGED failures
    BY <1>1, <1>3 DEF Happens
  <1> QED BY <1>2, <1>3 DEF Acknowledge

LEMMA PostEffect ==
  ASSUME TypeInv, NEW w \in Workers, Post(w), NEW i, i = task[w].event
  PROVE  /\ Posts(w) /\ task' = [task EXCEPT ![w] = Idle]
         /\ UNCHANGED <<environment, enabled>>
         /\ happened' \in Nat /\ failures' \subseteq failures \cup {i}
         /\ \E outcome \in Outcomes, m \in {"none", "queued"} : Answers(i, w, outcome, m)
  <1>1. Posts(w) /\ task' = [task EXCEPT ![w] = Idle] /\ UNCHANGED <<environment, enabled>>
    BY DEF Post, SendSucceeded, SendFailed, Posts
  <1>2. task[w].seen.outcome \in Outcomes
    BY <1>1, PostedStored DEF Row, Outcomes
  <1>3. \E outcome \in Outcomes, m \in {"none", "queued"}, failed \in SUBSET {i} :
          /\ outcome # task[w].seen.outcome => outcome # "pending"
          /\ sent' = [sent EXCEPT ![i] = Attempted(@, task[w].seen, outcome)]
          /\ Acknowledge(i, task[w].redeliver, m, failed)
          /\ m = "none" => outcome # "pending"
          /\ m = "queued" => ~Exhausted(i)
    <2>1. CASE SendSucceeded(w)
      <3>1. /\ sent' = [sent EXCEPT ![i] = Attempted(@, task[w].seen, "succeeded")]
            /\ Acknowledge(i, task[w].redeliver, "none", {})
        BY <2>1 DEF SendSucceeded
      <3> QED BY <3>1 DEF Outcomes
    <2>2. CASE SendFailed(w) /\ Exhausted(i)
      <3>1. /\ sent' = [sent EXCEPT ![i] = Attempted(@, task[w].seen, "failed")]
            /\ Acknowledge(i, task[w].redeliver, "none", {i})
        BY <2>2 DEF SendFailed
      <3> QED BY <3>1 DEF Outcomes
    <2>3. CASE SendFailed(w) /\ ~Exhausted(i)
      <3>1. /\ sent' = [sent EXCEPT ![i] =
                          Attempted(@, task[w].seen, task[w].seen.outcome)]
            /\ Acknowledge(i, task[w].redeliver, "queued", {})
        BY <2>3 DEF SendFailed
      <3> WITNESS task[w].seen.outcome \in Outcomes, "queued" \in {"none", "queued"},
                  {} \in SUBSET {i}
      <3> QED BY <2>3, <3>1
    <2> QED BY <2>1, <2>2, <2>3 DEF Post
  <1>4. PICK outcome \in Outcomes, m \in {"none", "queued"}, failed \in SUBSET {i} :
          /\ outcome # task[w].seen.outcome => outcome # "pending"
          /\ sent' = [sent EXCEPT ![i] = Attempted(@, task[w].seen, outcome)]
          /\ Acknowledge(i, task[w].redeliver, m, failed)
          /\ m = "none" => outcome # "pending"
          /\ m = "queued" => ~Exhausted(i)
    BY <1>3
  <1>5. happened' \in Nat /\ failures' \subseteq failures \cup {i}
    BY ZenonT(60), <1>4, AcknowledgeEffect
  <1>6. PICK n \in {"none", "queued"} :
          /\ SetMessage(i, task[w].redeliver, n)
          /\ n = m \/ (n = "queued" /\ May("crash"))
    BY <1>4, AcknowledgeEffect
  <1>7. Answers(i, w, outcome, n)
    BY <1>4, <1>6 DEF Answers
  <1> QED BY <1>1, <1>5, <1>7

LEMMA PostType == ASSUME TypeInv, NEW w \in Workers, Post(w) PROVE TypeInv'
  <1>0. PICK i \in Sent : i = task[w].event
    BY PostedStored DEF Post, SendSucceeded, SendFailed, Posts
  <1>1. /\ Posts(w) /\ task' = [task EXCEPT ![w] = Idle] /\ UNCHANGED <<environment, enabled>>
        /\ happened' \in Nat /\ failures' \subseteq failures \cup {i}
        /\ \E outcome \in Outcomes, m \in {"none", "queued"} : Answers(i, w, outcome, m)
    BY <1>0, PostEffect
  <1>2. /\ i \in Sent /\ Stored(i) /\ task[w].redeliver \in BOOLEAN
        /\ (~task[w].redeliver => Flushed(i))
    BY <1>0, <1>1, PostedStored
  <1>3. PICK outcome \in Outcomes, m \in {"none", "queued"} : Answers(i, w, outcome, m)
    BY <1>1
  <1>4. SentOK' /\ SentGrows
    BY <1>0, <1>1, <1>3, PostSent DEF Answers
  <1>5. Stored(i)' /\ (~task[w].redeliver => Flushed(i)')
    BY <1>2, <1>4, StoredKept
  <1>6. MessageInv'
    BY <1>1, <1>2, <1>3, <1>4, <1>5, MessagesSet DEF Answers, Messages
  <1>7. TaskInv'
    BY <1>1, <1>4, TaskEnded
  <1>8. PlainInv'
    BY <1>1, TypeParts DEF PlainInv
  <1> QED BY <1>4, <1>6, <1>7, <1>8, TypeWhole

LEMMA CrashType == ASSUME TypeInv, NEW w \in Workers, Crash(w) PROVE TypeInv'
  <1>0. PICK i \in Sent : i = task[w].event
    BY PostedStored DEF Crash, Posts
  <1>1. /\ Posts(w) /\ task' = [task EXCEPT ![w] = Idle]
        /\ UNCHANGED <<environment, enabled, sent, failures>>
        /\ SetMessage(i, task[w].redeliver, "queued")
    BY <1>0 DEF Crash, Posts
  <1>2. happened' \in Nat
    BY HappensType DEF Crash
  <1>3. /\ i \in Sent /\ Stored(i) /\ task[w].redeliver \in BOOLEAN
        /\ (~task[w].redeliver => Flushed(i))
    BY <1>0, <1>1, PostedStored
  <1>4. SentOK' /\ SentGrows
    BY <1>1, TypeParts, SentKept
  <1>5. Stored(i)' /\ (~task[w].redeliver => Flushed(i)')
    BY <1>3, <1>4, StoredKept
  <1>6. MessageInv'
    BY <1>1, <1>3, <1>4, <1>5, MessagesSet DEF Messages
  <1>7. TaskInv'
    BY <1>1, <1>4, TaskEnded
  <1>8. PlainInv'
    BY <1>1, <1>2, TypeParts DEF PlainInv
  <1> QED BY <1>4, <1>6, <1>7, <1>8, TypeWhole

LEMMA FailedType == ASSUME TypeInv, NEW i \in Sent, OnEventFailed(i) PROVE TypeInv'
  <1>1. SentOK' /\ SentGrows
    BY FailedSent
  <1>2. PlainInv'
    BY TypeParts DEF OnEventFailed, PlainInv
  <1>3. MessageInv' /\ TaskInv'
    BY <1>1, MessagesKept, TasksKept DEF OnEventFailed
  <1> QED BY <1>1, <1>2, <1>3, TypeWhole

LEMMA RedeliverType == ASSUME TypeInv, NEW i \in Sent, RedeliverEvent(i) PROVE TypeInv'
  <1>1. /\ SetMessage(i, TRUE, "queued") /\ Stored(i) /\ failures' = failures
        /\ UNCHANGED <<environment, enabled, sent, task>>
    BY DEF RedeliverEvent, SetMessage
  <1>2. happened' \in Nat
    BY HappensType DEF RedeliverEvent
  <1>3. SentOK' /\ SentGrows
    BY <1>1, TypeParts, SentKept
  <1>4. Stored(i)'
    BY <1>1, <1>3, StoredKept
  <1>5. MessageInv'
    BY <1>1, <1>3, <1>4, MessagesSet DEF Messages
  <1>6. TaskInv'
    BY <1>1, <1>3, TasksKept
  <1>7. PlainInv'
    BY <1>1, <1>2, TypeParts DEF PlainInv
  <1> QED BY <1>3, <1>5, <1>6, <1>7, TypeWhole

LEMMA StutterType == ASSUME TypeInv, UNCHANGED vars PROVE TypeInv'
  <1>1. SentOK' /\ SentGrows
    BY TypeParts, SentKept DEF vars
  <1>2. PlainInv'
    BY TypeParts DEF vars, PlainInv
  <1>3. MessageInv' /\ TaskInv'
    BY <1>1, MessagesKept, TasksKept DEF vars
  <1> QED BY <1>1, <1>2, <1>3, TypeWhole

LEMMA TypeInit == Init => TypeInv
  <1> SUFFICES ASSUME Init PROVE TypeInv
    OBVIOUS
  <1>1. environment \in SUBSET AllEvents /\ enabled \in BOOLEAN /\ happened \in Nat
    BY EnvironmentsAssumption DEF Init
  <1>2. sent \in Seq(Row) /\ Len(sent) <= MaxSent /\ failures \in SUBSET Sent
    BY SentAssumption DEF Init
  <1>3. messages \in [Sent -> Messages] /\ redeliveries \in [Sent -> Messages]
    BY DEF Init, Messages
  <1>4. task \in [Workers -> Task]
    BY IdleType DEF Init
  <1>5. MessagesOK /\ \A w \in Workers : PostOK(w)
    BY DEF Init, MessagesOK, PostOK, Posts, Idle
  <1> QED BY <1>1, <1>2, <1>3, <1>4, <1>5 DEF TypeInv, TypeOK

LEMMA TypeNext == TypeInv /\ [Next]_vars => TypeInv'
  <1> SUFFICES ASSUME TypeInv, [Next]_vars PROVE TypeInv'
    OBVIOUS
  <1>1. CASE Send \/ UpdateEndpoint
    BY <1>1, CreateType
  <1>2. ASSUME NEW i \in Sent, Commit(i) \/ Flush(i) PROVE TypeInv'
    BY <1>2, StageType
  <1>3. ASSUME NEW i \in Sent, Age(i) \/ Archive(i) PROVE TypeInv'
    BY <1>3, PassType
  <1>4. ASSUME NEW i \in Sent, Take(i) PROVE TypeInv'
    BY <1>4, DropType, BeginType DEF Take
  <1>5. ASSUME NEW i \in Sent, OnEventFailed(i) \/ RedeliverEvent(i) PROVE TypeInv'
    BY <1>5, FailedType, RedeliverType
  <1>6. ASSUME NEW w \in Workers, Post(w) \/ Crash(w) PROVE TypeInv'
    BY <1>6, PostType, CrashType
  <1>7. CASE UNCHANGED vars
    BY <1>7, StutterType
  <1> QED BY <1>1, <1>2, <1>3, <1>4, <1>5, <1>6, <1>7 DEF Next

(* Type correctness, for any number of events, attempts and workers: rows, *)
(* messages, what the workers execute.                                     *)
THEOREM TypeCorrect == Spec => []TypeOK
  <1>1. TypeInv => TypeOK
    BY DEF TypeInv
  <1> QED BY <1>1, TypeInit, TypeNext, PTL DEF Spec

-----------------------------------------------------------------------------
(* The order of first deliveries.                                          *)

InOrder == ~May("late_commit")

LEMMA PrecededKept ==
  ASSUME SentOK, SentOK', SentGrows, DOMAIN sent' = DOMAIN sent, NEW k, Preceded(k)
  PROVE  \A i \in DOMAIN sent' : i < k => sent'[i].deliveries > 0 \/ sent'[i].old
  <1> SUFFICES ASSUME NEW i \in DOMAIN sent, i < k
               PROVE  sent'[i].deliveries > 0 \/ sent'[i].old
    OBVIOUS
  <1>1. sent[i] \in Row /\ sent'[i] \in Row /\ Grows(sent[i], sent'[i])
    BY SentIndex DEF SentGrows, SentOK
  <1>2. sent[i].deliveries \in Nat /\ sent'[i].deliveries \in Nat
    BY <1>1 DEF Row
  <1>3. CASE sent[i].deliveries > 0
    BY <1>1, <1>2, <1>3 DEF Grows
  <1>4. CASE sent[i].old
    BY <1>1, <1>4 DEF Grows
  <1> QED BY <1>3, <1>4 DEF Preceded

(* A step keeps the order if what it delivers and what it begins to post   *)
(* is preceded.                                                            *)
LEMMA OrderKept ==
  ASSUME TypeInv, OrderInv, SentOK', SentGrows, DOMAIN sent' = DOMAIN sent,
         environment' = environment,
         \A k \in DOMAIN sent :
           sent'[k].deliveries = sent[k].deliveries \/ (InOrder => Preceded(k)),
         \A v \in Workers :
           task'[v] = task[v] \/ task'[v].event = 0 \/ (InOrder => Preceded(task'[v].event))
  PROVE  OrderInv'
  <1> SUFFICES ASSUME InOrder
               PROVE  /\ \A i, k \in DOMAIN sent' : i < k => Stored(i)'
                      /\ \A k \in DOMAIN sent' : sent'[k].deliveries > 0 => Preceded(k)'
                      /\ \A v \in Workers : Posts(v)' => Preceded(task[v].event)'
    BY DEF OrderInv, InOrder, May
  <1>1. \A i, k \in DOMAIN sent' : i < k => Stored(i)'
    BY StoredKept DEF OrderInv, InOrder
  <1>2. ASSUME NEW k \in DOMAIN sent', sent'[k].deliveries > 0 PROVE Preceded(k)'
    <2>1. Preceded(k)
      BY <1>2 DEF OrderInv, InOrder
    <2> QED BY <2>1, TypeParts, PrecededKept DEF Preceded
  <1>3. ASSUME NEW v \in Workers, Posts(v)' PROVE Preceded(task[v].event)'
    <2>1. Preceded(task'[v].event)
      BY <1>3 DEF OrderInv, InOrder, Posts
    <2>2. PICK k : k = task'[v].event
      OBVIOUS
    <2> QED BY <2>1, <2>2, TypeParts, PrecededKept DEF Preceded
  <1> QED BY <1>1, <1>2, <1>3

LEMMA OrderSend == ASSUME TypeInv, OrderInv, Send PROVE OrderInv'
  <1> SUFFICES ASSUME InOrder
               PROVE  /\ \A i, k \in DOMAIN sent' : i < k => Stored(i)'
                      /\ \A k \in DOMAIN sent' : sent'[k].deliveries > 0 => Preceded(k)'
                      /\ \A v \in Workers : Posts(v)' => Preceded(task[v].event)'
    BY DEF OrderInv, InOrder, May, Send
  <1>1. /\ DOMAIN sent' = DOMAIN sent \cup {Len(sent) + 1} /\ SentGrows
        /\ sent'[Len(sent) + 1] = Created /\ Len(sent) + 1 \notin DOMAIN sent
        /\ \A i \in DOMAIN sent : sent'[i] = sent[i] /\ i < Len(sent) + 1
    BY SendSent
  <1>2. DOMAIN sent = 1 .. Len(sent) /\ Len(sent) \in Nat
    BY TypeParts, SentIndex DEF SentOK
  <1>3. ASSUME NEW k \in DOMAIN sent, Preceded(k)
        PROVE  \A i \in DOMAIN sent' : i < k => sent'[i].deliveries > 0 \/ sent'[i].old
    <2> SUFFICES ASSUME NEW i \in DOMAIN sent', i < k
                 PROVE  sent'[i].deliveries > 0 \/ sent'[i].old
      OBVIOUS
    <2>1. i \in DOMAIN sent /\ sent'[i] = sent[i]
      BY <1>1, <1>2
    <2> QED BY <1>3, <2>1 DEF Preceded
  <1>4. \A i, k \in DOMAIN sent' : i < k => Stored(i)'
    <2> SUFFICES ASSUME NEW i \in DOMAIN sent', NEW k \in DOMAIN sent', i < k
                 PROVE  Stored(i)'
      OBVIOUS
    <2>1. i \in DOMAIN sent
      BY <1>1, <1>2
    <2>2. Stored(i)
      BY <2>1 DEF Send, InOrder
    <2> QED BY <1>1, <2>2, StoredKept
  <1>5. ASSUME NEW k \in DOMAIN sent', sent'[k].deliveries > 0 PROVE Preceded(k)'
    <2>1. k \in DOMAIN sent
      BY <1>1, <1>5 DEF Created
    <2>2. Preceded(k)
      BY <1>1, <1>5, <2>1 DEF OrderInv, InOrder
    <2> QED BY <1>3, <2>1, <2>2 DEF Preceded
  <1>6. ASSUME NEW v \in Workers, Posts(v)' PROVE Preceded(task[v].event)'
    <2>1. Posts(v) /\ task' = task
      BY <1>6 DEF Send, Posts
    <2>2. PICK k \in DOMAIN sent : k = task[v].event
      BY <2>1, PostedStored
    <2>3. Preceded(k)
      BY <2>1, <2>2 DEF OrderInv, InOrder
    <2> QED BY <1>3, <2>1, <2>2, <2>3 DEF Preceded
  <1> QED BY <1>4, <1>5, <1>6

LEMMA BeginPreceded ==
  ASSUME TypeInv, OrderInv, InOrder, NEW i \in DOMAIN sent, EarlierPending(i) = {}
  PROVE  Preceded(i)
  <1> SUFFICES ASSUME NEW k \in DOMAIN sent, k < i
               PROVE  sent[k].deliveries > 0 \/ sent[k].old
    BY DEF Preceded
  <1>1. sent[k].deliveries \in Nat
    BY TypeParts, SentIndex DEF Row
  <1>2. Stored(k)
    BY DEF OrderInv, InOrder
  <1>3. sent[k].deliveries # 0 \/ sent[k].old
    BY <1>2 DEF EarlierPending
  <1> QED BY <1>1, <1>3

LEMMA OrderNext == TypeInv /\ OrderInv /\ [Next]_vars => OrderInv'
  <1> SUFFICES ASSUME TypeInv, OrderInv, [Next]_vars PROVE OrderInv'
    OBVIOUS
  <1>0. SentOK
    BY TypeParts
  <1>1. CASE Send
    BY <1>1, OrderSend
  <1>2. CASE UpdateEndpoint \/ UNCHANGED vars
    <2>1. UNCHANGED <<environment, sent, task>>
      BY <1>2 DEF UpdateEndpoint, vars
    <2> QED BY <1>0, <2>1, SentKept, OrderKept
  <1>3. ASSUME NEW i \in Sent, Commit(i) \/ Flush(i) PROVE OrderInv'
    <2>1. /\ SentOK' /\ SentGrows /\ DOMAIN sent' = DOMAIN sent
          /\ i \in DOMAIN sent /\ sent[i] \in Row
          /\ sent'[i] = [sent[i] EXCEPT !.stage = IF sent[i].stage = "created"
                                                  THEN "committed" ELSE "flushed"]
          /\ \A k \in DOMAIN sent : k # i => sent'[k] = sent[k]
      BY <1>0, <1>3, StageSent, SentIndex
    <2>2. sent'[i].deliveries = sent[i].deliveries
      BY <2>1 DEF Row
    <2>3. task' = task /\ environment' = environment
      BY <1>3 DEF Commit, Flush
    <2> QED BY <2>1, <2>2, <2>3, OrderKept
  <1>4. ASSUME NEW i \in Sent, Age(i) \/ Archive(i) PROVE OrderInv'
    <2>1. /\ SentOK' /\ SentGrows /\ DOMAIN sent' = DOMAIN sent
          /\ sent'[i].deliveries = sent[i].deliveries
          /\ \A k \in DOMAIN sent : k # i => sent'[k] = sent[k]
      BY <1>0, <1>4, ColumnSent DEF Age, Archive, Stored
    <2>2. task' = task /\ environment' = environment
      BY <1>4 DEF Age, Archive
    <2> QED BY <2>1, <2>2, OrderKept
  <1>5. ASSUME NEW i \in Sent, NEW redeliver \in BOOLEAN, SendSkipped(i, redeliver)
        PROVE  OrderInv'
    <2>1. i \in DOMAIN sent /\ sent' = [sent EXCEPT ![i].skipped = TRUE]
      BY <1>5, TakenStored DEF SendSkipped
    <2>2. /\ SentOK' /\ SentGrows /\ DOMAIN sent' = DOMAIN sent
          /\ sent'[i].deliveries = sent[i].deliveries
          /\ \A k \in DOMAIN sent : k # i => sent'[k] = sent[k]
      BY <1>0, <2>1, ColumnSent
    <2>3. task' = task /\ environment' = environment
      BY <1>5 DEF SendSkipped
    <2> QED BY <2>2, <2>3, OrderKept
  <1>6. ASSUME NEW i \in Sent, NEW redeliver \in BOOLEAN, SendNothing(i, redeliver)
        PROVE  OrderInv'
    <2>1. UNCHANGED <<environment, sent, task>>
      BY <1>6 DEF SendNothing
    <2> QED BY <1>0, <2>1, SentKept, OrderKept
  <1>7. ASSUME NEW i \in Sent, NEW redeliver \in BOOLEAN, NEW w \in Workers,
               SendBegin(w, i, redeliver)
        PROVE  OrderInv'
    <2>1. SentOK' /\ SentGrows /\ sent' = sent /\ environment' = environment
      BY <1>0, <1>7, SentKept DEF SendBegin
    <2>2. InOrder => Preceded(i)
      BY <1>7, TakenStored, BeginPreceded DEF SendBegin
    <2>3. \A v \in Workers : task'[v] = task[v] \/ task'[v].event = i
      BY <1>7, TypeParts DEF SendBegin, TaskInv
    <2> QED BY <2>1, <2>2, <2>3, OrderKept
  <1>8. ASSUME NEW w \in Workers, Post(w) PROVE OrderInv'
    <2>1. PICK i : i = task[w].event
      OBVIOUS
    <2>2. /\ Posts(w) /\ task' = [task EXCEPT ![w] = Idle] /\ environment' = environment
          /\ \E outcome \in Outcomes, m \in {"none", "queued"} : Answers(i, w, outcome, m)
      BY <1>8, <2>1, PostEffect
    <2>3. /\ SentOK' /\ SentGrows /\ i \in DOMAIN sent /\ DOMAIN sent' = DOMAIN sent
          /\ \A k \in DOMAIN sent : k # i => sent'[k] = sent[k]
      BY <2>1, <2>2, PostSent DEF Answers
    <2>4. InOrder => Preceded(i)
      BY <2>1, <2>2 DEF OrderInv, InOrder
    <2>5. \A v \in Workers : task'[v] = task[v] \/ task'[v].event = 0
      BY <2>2, TypeParts DEF TaskInv, Idle
    <2> QED BY <2>2, <2>3, <2>4, <2>5, OrderKept
  <1>9. ASSUME NEW w \in Workers, Crash(w) PROVE OrderInv'
    <2>1. UNCHANGED <<environment, sent>> /\ task' = [task EXCEPT ![w] = Idle]
      BY <1>9 DEF Crash
    <2>2. \A v \in Workers : task'[v] = task[v] \/ task'[v].event = 0
      BY <2>1, TypeParts DEF TaskInv, Idle
    <2> QED BY <1>0, <2>1, <2>2, SentKept, OrderKept
  <1>10. ASSUME NEW i \in Sent, OnEventFailed(i) PROVE OrderInv'
    <2>1. task' = task /\ environment' = environment
      BY <1>10 DEF OnEventFailed
    <2> QED BY <1>10, <2>1, FailedSent, OrderKept
  <1>11. ASSUME NEW i \in Sent, RedeliverEvent(i) PROVE OrderInv'
    <2>1. UNCHANGED <<environment, sent, task>>
      BY <1>11 DEF RedeliverEvent
    <2> QED BY <1>0, <2>1, SentKept, OrderKept
  <1> QED BY <1>1, <1>2, <1>3, <1>4, <1>5, <1>6, <1>7, <1>8, <1>9, <1>10, <1>11
          DEF Next, Take

(* Earlier events are delivered first, whatever is retried, lost, skipped, *)
(* redelivered or posted at the same time: a post begins only when the     *)
(* query of earlier events without a delivery finds none, and without late *)
(* commits that query sees them all (_webhook_event_send).                 *)
THEOREM AttemptedInOrderCorrect == Spec => []AttemptedInOrder
  <1>1. Init => OrderInv
    BY DEF Init, OrderInv, Posts, Idle
  <1>2. OrderInv => AttemptedInOrder
    BY DEF OrderInv, AttemptedInOrder, Without, May, Preceded
  <1> QED BY <1>1, <1>2, TypeInit, TypeNext, OrderNext, PTL DEF Spec

-----------------------------------------------------------------------------
(* The number of attempts.                                                 *)

Once == Without({"redeliver", "crash", "overlap"})

WithinAttempts(i) ==
  /\ sent[i].deliveries <= MaxAttempts
  /\ messages[i] # "none" => sent[i].deliveries < MaxAttempts
  /\ sent[i].stage # "flushed" => sent[i].deliveries = 0

RunsAlone(w) ==
  /\ ~task[w].redeliver /\ messages[task[w].event] = "running"
  /\ \A v \in Workers : task[v].event = task[w].event => v = w

LEMMA AttemptsParts ==
  AttemptsInv <=>
    (Once => /\ \A i \in Sent : redeliveries[i] = "none"
             /\ \A i \in DOMAIN sent : WithinAttempts(i)
             /\ \A w \in Workers : Posts(w) => RunsAlone(w))
  BY DEF AttemptsInv, Once, WithinAttempts, RunsAlone

(* A step that delivers nothing and touches no message.                    *)
LEMMA AttemptsKept ==
  ASSUME TypeInv, AttemptsInv,
         UNCHANGED <<environment, messages, redeliveries, task>>,
         DOMAIN sent' = DOMAIN sent,
         \A k \in DOMAIN sent : /\ sent'[k].deliveries = sent[k].deliveries
                                /\ sent'[k].stage = "flushed" \/ sent[k].stage # "flushed"
  PROVE  AttemptsInv'
  <1> SUFFICES ASSUME Once
               PROVE  /\ \A i \in Sent : redeliveries'[i] = "none"
                      /\ \A i \in DOMAIN sent' : WithinAttempts(i)'
                      /\ \A w \in Workers : Posts(w)' => RunsAlone(w)'
    BY DEF AttemptsInv, Once, WithinAttempts, RunsAlone, Without
  <1>1. \A i \in DOMAIN sent' : WithinAttempts(i)'
    BY AttemptsParts DEF WithinAttempts
  <1>2. \A w \in Workers : Posts(w)' => RunsAlone(w)'
    BY AttemptsParts DEF RunsAlone, Posts
  <1> QED BY <1>1, <1>2, AttemptsParts

(* A step of one event and its message.                                    *)
LEMMA AttemptsSet ==
  ASSUME TypeInv, AttemptsInv, UNCHANGED <<environment, redeliveries>>,
         DOMAIN sent' = DOMAIN sent,
         NEW i \in DOMAIN sent, NEW m, messages' = [messages EXCEPT ![i] = m],
         \A k \in DOMAIN sent : k # i => sent'[k] = sent[k],
         Once => WithinAttempts(i)',
         \A v \in Workers : Once /\ Posts(v)' =>
           \/ task'[v].event # i /\ task'[v] = task[v]
           \/ /\ task'[v].event = i /\ ~task'[v].redeliver /\ m = "running"
              /\ \A u \in Workers : task'[u].event = i => u = v
  PROVE  AttemptsInv'
  <1> SUFFICES ASSUME Once
               PROVE  /\ \A k \in Sent : redeliveries'[k] = "none"
                      /\ \A k \in DOMAIN sent' : WithinAttempts(k)'
                      /\ \A w \in Workers : Posts(w)' => RunsAlone(w)'
    BY DEF AttemptsInv, Once, WithinAttempts, RunsAlone, Without
  <1>1. messages \in [Sent -> Messages] /\ DOMAIN sent \subseteq Sent
    BY TypeParts, SentIndex DEF MessageInv
  <1>2. ASSUME NEW k \in DOMAIN sent' PROVE WithinAttempts(k)'
    <2>1. CASE k = i
      BY <2>1
    <2>2. CASE k # i
      <3>1. messages'[k] = messages[k] /\ sent'[k] = sent[k]
        BY <1>1, <2>2
      <3>2. WithinAttempts(k)
        BY AttemptsParts
      <3> QED BY <3>1, <3>2 DEF WithinAttempts
    <2> QED BY <2>1, <2>2
  <1>3. ASSUME NEW w \in Workers, Posts(w)' PROVE RunsAlone(w)'
    <2>1. CASE task'[w].event = i
      <3>1. /\ ~task'[w].redeliver /\ m = "running"
            /\ \A u \in Workers : task'[u].event = i => u = w
        BY <1>3, <2>1
      <3>2. messages'[i] = m
        BY <1>1
      <3> QED BY <2>1, <3>1, <3>2 DEF RunsAlone
    <2>2. CASE task'[w].event # i
      <3>1. task'[w] = task[w] /\ Posts(w)
        BY <1>3, <2>2 DEF Posts
      <3>2. RunsAlone(w) /\ task[w].event \in DOMAIN sent
        BY <3>1, AttemptsParts, PostedStored
      <3>3. messages'[task[w].event] = messages[task[w].event]
        BY <1>1, <2>2, <3>1, <3>2
      <3>4. ASSUME NEW u \in Workers, task'[u].event = task'[w].event PROVE u = w
        <4>1. task'[u] = task[u]
          BY <1>3, <2>2, <3>4 DEF Posts
        <4> QED BY <3>1, <3>2, <3>4, <4>1 DEF RunsAlone
      <3> QED BY <3>1, <3>2, <3>3, <3>4 DEF RunsAlone
    <2> QED BY <2>1, <2>2
  <1> QED BY <1>2, <1>3, AttemptsParts

(* A message that is taken once has attempts left and nobody else has it.  *)
LEMMA TakenOnce ==
  ASSUME TypeInv, AttemptsInv, Once, NEW i \in Sent, NEW redeliver \in BOOLEAN,
         Taken(i, redeliver)
  PROVE  /\ ~redeliver /\ messages[i] = "queued" /\ sent[i].deliveries < MaxAttempts
         /\ \A v \in Workers : task[v].event # i
  <1>1. redeliveries[i] = "none" /\ ~May("overlap")
    BY AttemptsParts DEF Once, Without, May
  <1>2. ~redeliver /\ messages[i] = "queued"
    BY <1>1 DEF Taken, Takable
  <1>3. sent[i].deliveries < MaxAttempts
    BY <1>2, TakenStored, AttemptsParts DEF WithinAttempts
  <1>4. ASSUME NEW v \in Workers, task[v].event = i PROVE FALSE
    <2>1. Posts(v)
      BY <1>4, SentAssumption DEF Posts, Sent
    <2> QED BY <1>2, <1>4, <2>1, AttemptsParts DEF RunsAlone
  <1> QED BY <1>2, <1>3, <1>4

LEMMA AttemptsSend == ASSUME TypeInv, AttemptsInv, Send PROVE AttemptsInv'
  <1> SUFFICES ASSUME Once
               PROVE  /\ \A i \in Sent : redeliveries'[i] = "none"
                      /\ \A i \in DOMAIN sent' : WithinAttempts(i)'
                      /\ \A w \in Workers : Posts(w)' => RunsAlone(w)'
    BY DEF AttemptsInv, Once, WithinAttempts, RunsAlone, Without, Send
  <1>1. /\ DOMAIN sent' = DOMAIN sent \cup {Len(sent) + 1}
        /\ sent'[Len(sent) + 1] = Created
        /\ \A i \in DOMAIN sent : sent'[i] = sent[i]
    BY SendSent
  <1>2. UNCHANGED <<messages, redeliveries, task>>
    BY DEF Send
  <1>3. ASSUME NEW i \in DOMAIN sent' PROVE WithinAttempts(i)'
    <2>1. CASE i \in DOMAIN sent
      BY <1>1, <1>2, <2>1, AttemptsParts DEF WithinAttempts
    <2>2. CASE i = Len(sent) + 1
      BY <1>1, <2>2, AttemptsAssumption DEF WithinAttempts, Created
    <2> QED BY <1>1, <2>1, <2>2
  <1>4. \A w \in Workers : Posts(w)' => RunsAlone(w)'
    BY <1>2, AttemptsParts DEF RunsAlone, Posts
  <1> QED BY <1>2, <1>3, <1>4, AttemptsParts

LEMMA AttemptsStage ==
  ASSUME TypeInv, AttemptsInv, NEW i \in Sent, Commit(i) \/ Flush(i) PROVE AttemptsInv'
  <1>1. /\ i \in DOMAIN sent /\ sent[i] \in Row /\ sent[i].stage # "flushed"
        /\ DOMAIN sent' = DOMAIN sent
        /\ sent'[i] = [sent[i] EXCEPT !.stage = IF sent[i].stage = "created"
                                                THEN "committed" ELSE "flushed"]
        /\ \A k \in DOMAIN sent : k # i => sent'[k] = sent[k]
    BY StageSent, TypeParts, SentIndex
  <1>2. sent'[i].deliveries = sent[i].deliveries
    BY <1>1 DEF Row
  <1>3. UNCHANGED <<environment, redeliveries, task>>
    BY DEF Commit, Flush
  <1>4. CASE messages' = messages
    BY <1>1, <1>2, <1>3, <1>4, AttemptsKept
  <1>5. CASE messages' = [messages EXCEPT ![i] = "queued"]
    <2>1. Once => WithinAttempts(i)'
      <3>1. Once => sent[i].deliveries = 0
        BY <1>1, AttemptsParts DEF WithinAttempts
      <3> QED BY <1>1, <1>2, <3>1, AttemptsAssumption DEF WithinAttempts
    <2>2. ASSUME NEW v \in Workers, Once, Posts(v)'
          PROVE  task'[v].event # i /\ task'[v] = task[v]
      <3>1. Posts(v)
        BY <1>3, <2>2 DEF Posts
      <3>2. ~task[v].redeliver
        BY <2>2, <3>1, AttemptsParts DEF RunsAlone
      <3>3. Flushed(task[v].event)
        BY <3>1, <3>2, PostedStored
      <3> QED BY <1>1, <1>3, <3>3 DEF Flushed
    <2> QED BY ZenonT(60), <1>1, <1>3, <1>5, <2>1, <2>2, AttemptsSet
  <1> QED BY <1>4, <1>5 DEF Commit, Flush

LEMMA AttemptsDrop ==
  ASSUME TypeInv, AttemptsInv, NEW i \in Sent, NEW redeliver \in BOOLEAN,
         SendSkipped(i, redeliver) \/ SendNothing(i, redeliver)
  PROVE  AttemptsInv'
  <1>1. Taken(i, redeliver) /\ SetMessage(i, redeliver, "none")
        /\ UNCHANGED <<environment, task>>
    BY DEF SendSkipped, SendNothing
  <1>2. i \in DOMAIN sent
    BY <1>1, TakenStored
  <1>3. /\ DOMAIN sent' = DOMAIN sent
        /\ sent'[i].stage = sent[i].stage /\ sent'[i].deliveries = sent[i].deliveries
        /\ \A k \in DOMAIN sent : k # i => sent'[k] = sent[k]
    <2>1. CASE sent' = sent
      BY <2>1
    <2>2. CASE sent' = [sent EXCEPT ![i].skipped = TRUE]
      BY <1>2, <2>2, TypeParts, ColumnSent
    <2> QED BY <2>1, <2>2 DEF SendSkipped, SendNothing
  <1>4. CASE ~Once
    BY <1>1, <1>4, AttemptsParts DEF Once, Without, AttemptsInv
  <1>5. CASE Once
    <2>1. /\ ~redeliver /\ messages[i] = "queued" /\ sent[i].deliveries < MaxAttempts
          /\ \A v \in Workers : task[v].event # i
      BY <1>1, <1>5, TakenOnce
    <2>2. messages' = [messages EXCEPT ![i] = "none"] /\ redeliveries' = redeliveries
      BY <1>1, <2>1 DEF SetMessage
    <2>3. WithinAttempts(i)'
      <3>1. WithinAttempts(i) /\ messages'[i] = "none"
        BY <1>2, <1>5, <2>2, AttemptsParts, TypeParts DEF MessageInv
      <3> QED BY <1>3, <3>1 DEF WithinAttempts
    <2> QED BY <1>1, <1>2, <1>3, <2>1, <2>2, <2>3, AttemptsSet
  <1> QED BY <1>4, <1>5

LEMMA AttemptsBegin ==
  ASSUME TypeInv, AttemptsInv, NEW w \in Workers, NEW i \in Sent, NEW redeliver \in BOOLEAN,
         SendBegin(w, i, redeliver)
  PROVE  AttemptsInv'
  <1>1. Taken(i, redeliver) /\ SetMessage(i, redeliver, "running")
        /\ UNCHANGED <<environment, sent>>
    BY DEF SendBegin
  <1>2. i \in DOMAIN sent
    BY <1>1, TakenStored
  <1>3. CASE ~Once
    BY <1>1, <1>3, AttemptsParts DEF Once, Without, AttemptsInv
  <1>4. CASE Once
    <2>1. /\ ~redeliver /\ messages[i] = "queued" /\ sent[i].deliveries < MaxAttempts
          /\ \A v \in Workers : task[v].event # i
      BY <1>1, <1>4, TakenOnce
    <2>2. messages' = [messages EXCEPT ![i] = "running"] /\ redeliveries' = redeliveries
      BY <1>1, <2>1 DEF SetMessage
    <2>3. WithinAttempts(i)'
      <3>1. WithinAttempts(i)
        BY <1>2, <1>4, AttemptsParts
      <3> QED BY <1>1, <2>1, <3>1 DEF WithinAttempts
    <2>4. task'[w].event = i /\ task'[w].redeliver = redeliver
          /\ \A v \in Workers : v # w => task'[v] = task[v]
      BY TypeParts DEF SendBegin, TaskInv
    <2>5. \A v \in Workers :
            \/ task'[v].event # i /\ task'[v] = task[v]
            \/ /\ task'[v].event = i /\ ~task'[v].redeliver
               /\ \A u \in Workers : task'[u].event = i => u = v
      BY <2>1, <2>4
    <2> QED BY <1>1, <1>2, <2>2, <2>3, <2>5, AttemptsSet
  <1> QED BY <1>3, <1>4

LEMMA AttemptsPost ==
  ASSUME TypeInv, AttemptsInv, NEW w \in Workers, Post(w) PROVE AttemptsInv'
  <1>0. PICK i \in Sent : i = task[w].event
    BY PostedStored DEF Post, SendSucceeded, SendFailed, Posts
  <1>1. /\ Posts(w) /\ task' = [task EXCEPT ![w] = Idle] /\ environment' = environment
        /\ \E outcome \in Outcomes, m \in {"none", "queued"} : Answers(i, w, outcome, m)
    BY <1>0, PostEffect
  <1>2. CASE ~Once
    BY <1>1, <1>2, AttemptsParts DEF Once, Without, AttemptsInv
  <1>3. CASE Once
    <2>1. PICK outcome \in Outcomes, m \in {"none", "queued"} : Answers(i, w, outcome, m)
      BY <1>1
    <2>2. /\ i \in DOMAIN sent /\ DOMAIN sent' = DOMAIN sent
          /\ sent'[i].deliveries = sent[i].deliveries + 1
          /\ sent'[i].stage = sent[i].stage
          /\ \A k \in DOMAIN sent : k # i => sent'[k] = sent[k]
      BY ZenonT(60), <1>0, <1>1, <2>1, PostSent DEF Answers
    <2>3. RunsAlone(w) /\ WithinAttempts(i) /\ ~task[w].redeliver
      BY <1>1, <1>3, <2>2, AttemptsParts DEF RunsAlone
    <2>4. messages' = [messages EXCEPT ![i] = m] /\ redeliveries' = redeliveries
      BY <2>1, <2>3 DEF Answers, SetMessage
    <2>5. sent[i].deliveries < MaxAttempts /\ sent[i].deliveries \in Nat
      BY <1>0, <2>2, <2>3, TypeParts, SentIndex DEF RunsAlone, WithinAttempts, Row
    <2>6. m # "none" => sent[i].deliveries + 1 < MaxAttempts
      <3>1. m # "none" => ~Exhausted(i)
        BY <1>3, <2>1 DEF Answers, Once, Without, May
      <3> QED BY <2>5, <3>1, AttemptsAssumption DEF Exhausted
    <2>7. sent[i].stage = "flushed"
      BY <1>0, <1>1, <2>3, PostedStored DEF Flushed
    <2>8. WithinAttempts(i)'
      <3>1. messages'[i] = m
        BY <2>4, TypeParts DEF MessageInv
      <3> QED BY <2>2, <2>5, <2>6, <2>7, <3>1, AttemptsAssumption DEF WithinAttempts
    <2>9. ASSUME NEW v \in Workers, Posts(v)'
          PROVE  task'[v].event # i /\ task'[v] = task[v]
      <3>1. v # w /\ task'[v] = task[v]
        BY <1>1, <2>9, TypeParts DEF TaskInv, Posts, Idle
      <3> QED BY <1>0, <2>3, <3>1 DEF RunsAlone
    <2> QED BY <1>1, <2>2, <2>4, <2>8, <2>9, AttemptsSet
  <1> QED BY <1>2, <1>3

LEMMA AttemptsNext == TypeInv /\ AttemptsInv /\ [Next]_vars => AttemptsInv'
  <1> SUFFICES ASSUME TypeInv, AttemptsInv, [Next]_vars PROVE AttemptsInv'
    OBVIOUS
  <1>1. CASE Send
    BY <1>1, AttemptsSend
  <1>2. CASE UpdateEndpoint \/ UNCHANGED vars
    BY <1>2, AttemptsKept DEF UpdateEndpoint, vars
  <1>3. ASSUME NEW i \in Sent, Commit(i) \/ Flush(i) PROVE AttemptsInv'
    BY <1>3, AttemptsStage
  <1>4. ASSUME NEW i \in Sent, Age(i) \/ Archive(i) PROVE AttemptsInv'
    <2>1. /\ DOMAIN sent' = DOMAIN sent
          /\ sent'[i].deliveries = sent[i].deliveries /\ sent'[i].stage = sent[i].stage
          /\ \A k \in DOMAIN sent : k # i => sent'[k] = sent[k]
      BY <1>4, TypeParts, ColumnSent DEF Age, Archive, Stored
    <2>2. UNCHANGED <<environment, messages, redeliveries, task>>
      BY <1>4 DEF Age, Archive
    <2> QED BY <2>1, <2>2, AttemptsKept
  <1>5. ASSUME NEW i \in Sent, Take(i) PROVE AttemptsInv'
    BY <1>5, AttemptsDrop, AttemptsBegin DEF Take
  <1>6. ASSUME NEW i \in Sent, OnEventFailed(i) PROVE AttemptsInv'
    <2>1. UNCHANGED <<environment, messages, redeliveries, task>>
      BY <1>6 DEF OnEventFailed
    <2> QED BY <1>6, <2>1, FailedSent, AttemptsKept
  <1>7. ASSUME NEW i \in Sent, RedeliverEvent(i) PROVE AttemptsInv'
    BY <1>7 DEF RedeliverEvent, Happens, May, AttemptsInv, Without
  <1>8. ASSUME NEW w \in Workers, Post(w) PROVE AttemptsInv'
    BY <1>8, AttemptsPost
  <1>9. ASSUME NEW w \in Workers, Crash(w) PROVE AttemptsInv'
    BY <1>9 DEF Crash, Happens, May, AttemptsInv, Without
  <1> QED BY <1>1, <1>2, <1>3, <1>4, <1>5, <1>6, <1>7, <1>8, <1>9 DEF Next

(* No event is posted more often than WEBHOOK_MAX_RETRIES: it has a single *)
(* message, which one task runs at a time and which is gone once the       *)
(* attempts are used up.                                                   *)
THEOREM AttemptsBoundedCorrect == Spec => []AttemptsBounded
  <1>1. Init => AttemptsInv
    BY DEF Init, AttemptsInv, Posts, Idle
  <1>2. AttemptsInv => AttemptsBounded
    BY DEF AttemptsInv, AttemptsBounded
  <1> QED BY <1>1, <1>2, TypeInit, TypeNext, AttemptsNext, PTL DEF Spec

-----------------------------------------------------------------------------
(* A pending event keeps a message.                                        *)

Pends(i) == sent[i].stage = "flushed" /\ Unfinished(i) /\ ~sent[i].archived

HasMessage(i) == messages[i] # "none" \/ redeliveries[i] # "none"

LEMMA PendingParts ==
  PendingHasMessage <=>
    (Without({"lost_job"}) => \A i \in DOMAIN sent : Pends(i) => HasMessage(i))
  BY DEF PendingHasMessage, Pends, HasMessage

(* A step keeps the messages that are due if an event that it leaves       *)
(* pending was pending and keeps its message, or has one after it.         *)
LEMMA PendingKept ==
  ASSUME PendingHasMessage, environment' = environment,
         Without({"lost_job"}) =>
           \A k \in DOMAIN sent' : Pends(k)' =>
             \/ k \in DOMAIN sent /\ Pends(k) /\ (HasMessage(k) => HasMessage(k)')
             \/ HasMessage(k)'
  PROVE  PendingHasMessage'
  <1> SUFFICES ASSUME Without({"lost_job"}), NEW k \in DOMAIN sent', Pends(k)'
               PROVE  HasMessage(k)'
    BY DEF PendingHasMessage, Pends, HasMessage, Without
  <1> QED BY PendingParts

LEMMA PendsBefore ==
  ASSUME SentGrows, NEW k \in DOMAIN sent, ~sent[k].skipped \/ sent'[k].skipped,
         sent'[k].stage = sent[k].stage, Pends(k)'
  PROVE  Pends(k)
  BY DEF SentGrows, Grows, Pends, Unfinished, Stored

LEMMA MessageAfter ==
  ASSUME TypeInv, NEW i \in Sent, NEW redeliver \in BOOLEAN, NEW m,
         SetMessage(i, redeliver, m)
  PROVE  /\ m # "none" => HasMessage(i)'
         /\ \A k \in Sent : k # i /\ HasMessage(k) => HasMessage(k)'
  BY TypeParts DEF MessageInv, SetMessage, HasMessage

(* A message of one event is replaced.                                     *)
LEMMA PendingSet ==
  ASSUME TypeInv, PendingHasMessage, environment' = environment,
         DOMAIN sent' = DOMAIN sent,
         NEW i \in DOMAIN sent, NEW redeliver \in BOOLEAN, NEW m,
         SetMessage(i, redeliver, m),
         \A k \in DOMAIN sent : k # i => sent'[k] = sent[k],
         m # "none" \/ ~Pends(i)'
  PROVE  PendingHasMessage'
  <1>1. DOMAIN sent \subseteq Sent
    BY TypeParts, SentIndex
  <1>2. ASSUME NEW k \in DOMAIN sent', Pends(k)', k # i
        PROVE  Pends(k) /\ (HasMessage(k) => HasMessage(k)')
    <2>1. Pends(k)
      BY <1>2 DEF Pends, Unfinished, Stored
    <2> QED BY <1>1, <1>2, <2>1, MessageAfter
  <1>3. Pends(i)' => HasMessage(i)'
    BY <1>1, MessageAfter
  <1> QED BY <1>2, <1>3, PendingKept

LEMMA PendingNext == TypeInv /\ PendingHasMessage /\ [Next]_vars => PendingHasMessage'
  <1> SUFFICES ASSUME TypeInv, PendingHasMessage, [Next]_vars PROVE PendingHasMessage'
    OBVIOUS
  <1>0. SentOK /\ DOMAIN sent \subseteq Sent /\ \A i \in DOMAIN sent : sent[i] \in Row
    BY TypeParts, SentIndex
  <1>1. CASE Send
    <2>1. /\ DOMAIN sent' = DOMAIN sent \cup {Len(sent) + 1}
          /\ sent'[Len(sent) + 1] = Created
          /\ \A k \in DOMAIN sent : sent'[k] = sent[k]
      BY <1>1, SendSent
    <2>2. \A k \in DOMAIN sent' : Pends(k)' => k \in DOMAIN sent /\ Pends(k)
      BY <2>1 DEF Pends, Created, Unfinished, Stored
    <2>3. UNCHANGED <<environment, messages, redeliveries>>
      BY <1>1 DEF Send
    <2> QED BY <2>2, <2>3, PendingKept DEF HasMessage
  <1>2. CASE UpdateEndpoint \/ UNCHANGED vars
    <2>1. UNCHANGED <<environment, sent, messages, redeliveries>>
      BY <1>2 DEF UpdateEndpoint, vars
    <2> QED BY <2>1 DEF PendingHasMessage, Without, Unfinished, Stored
  <1>3. ASSUME NEW i \in Sent, Commit(i) \/ Flush(i) PROVE PendingHasMessage'
    <2>1. /\ i \in DOMAIN sent /\ DOMAIN sent' = DOMAIN sent
          /\ sent'[i] = [sent[i] EXCEPT !.stage = IF sent[i].stage = "created"
                                                  THEN "committed" ELSE "flushed"]
          /\ \A k \in DOMAIN sent : k # i => sent'[k] = sent[k]
      BY <1>0, <1>3, StageSent
    <2>2. CASE Commit(i)
      <3>1. sent'[i].stage = "committed"
        BY <1>0, <2>1, <2>2 DEF Commit, Row
      <3>2. \A k \in DOMAIN sent' : Pends(k)' => Pends(k)
        BY <2>1, <3>1 DEF Pends, Unfinished, Stored
      <3>3. UNCHANGED <<environment, messages, redeliveries>>
        BY <2>2 DEF Commit
      <3> QED BY <2>1, <3>2, <3>3, PendingKept DEF HasMessage
    <2>3. CASE Flush(i) /\ May("lost_job")
      BY <2>3 DEF Flush, PendingHasMessage, Without, May
    <2>4. CASE Flush(i) /\ ~May("lost_job")
      <3>1. SetMessage(i, FALSE, "queued") /\ environment' = environment
        BY <2>4 DEF Flush, SetMessage
      <3> QED BY <2>1, <3>1, PendingSet
    <2> QED BY <1>3, <2>2, <2>3, <2>4
  <1>4. ASSUME NEW i \in Sent, Age(i) \/ Archive(i) PROVE PendingHasMessage'
    <2>1. /\ SentGrows /\ DOMAIN sent' = DOMAIN sent
          /\ sent'[i].stage = sent[i].stage
          /\ ~sent[i].skipped \/ sent'[i].skipped
          /\ \A k \in DOMAIN sent : k # i => sent'[k] = sent[k]
      BY <1>0, <1>4, ColumnSent DEF Age, Archive, Stored
    <2>2. \A k \in DOMAIN sent' : Pends(k)' => Pends(k)
      BY <2>1, PendsBefore DEF Pends, Unfinished, Stored
    <2>3. UNCHANGED <<environment, messages, redeliveries>>
      BY <1>4 DEF Age, Archive
    <2> QED BY <2>1, <2>2, <2>3, PendingKept DEF HasMessage
  <1>5. ASSUME NEW i \in Sent, NEW redeliver \in BOOLEAN, SendSkipped(i, redeliver)
        PROVE  PendingHasMessage'
    <2>1. i \in DOMAIN sent /\ sent' = [sent EXCEPT ![i].skipped = TRUE]
      BY <1>5, TakenStored DEF SendSkipped
    <2>2. sent'[i].skipped
      BY <1>0, <2>1 DEF Row
    <2>3. ~Pends(i)'
      BY <2>2 DEF Pends, Unfinished
    <2>4. SetMessage(i, redeliver, "none") /\ environment' = environment
      BY <1>5 DEF SendSkipped
    <2>5. DOMAIN sent' = DOMAIN sent /\ \A k \in DOMAIN sent : k # i => sent'[k] = sent[k]
      BY <2>1
    <2> QED BY <2>1, <2>3, <2>4, <2>5, PendingSet
  <1>6. ASSUME NEW i \in Sent, NEW redeliver \in BOOLEAN, SendNothing(i, redeliver)
        PROVE  PendingHasMessage'
    <2>1. i \in DOMAIN sent /\ sent' = sent /\ environment' = environment
          /\ SetMessage(i, redeliver, "none")
      BY <1>6, TakenStored DEF SendNothing
    <2>2. ~Pends(i)'
      BY <1>6, <2>1 DEF SendNothing, NothingToSend, Pends, Unfinished
    <2> QED BY <2>1, <2>2, PendingSet
  <1>7. ASSUME NEW i \in Sent, NEW redeliver \in BOOLEAN, NEW w \in Workers,
               SendBegin(w, i, redeliver)
        PROVE  PendingHasMessage'
    <2>1. i \in DOMAIN sent /\ sent' = sent /\ environment' = environment
          /\ SetMessage(i, redeliver, "running")
      BY <1>7, TakenStored DEF SendBegin
    <2> QED BY <2>1, PendingSet
  <1>8. ASSUME NEW w \in Workers, Post(w) PROVE PendingHasMessage'
    <2>1. PICK i \in Sent : i = task[w].event
      BY <1>8, PostedStored DEF Post, SendSucceeded, SendFailed, Posts
    <2>2. /\ Posts(w) /\ environment' = environment
          /\ \E outcome \in Outcomes, m \in {"none", "queued"} : Answers(i, w, outcome, m)
      BY <1>8, <2>1, PostEffect
    <2>3. PICK outcome \in Outcomes, m \in {"none", "queued"} : Answers(i, w, outcome, m)
      BY <2>2
    <2>4. /\ i \in DOMAIN sent /\ DOMAIN sent' = DOMAIN sent
          /\ outcome # "pending" => sent'[i].outcome # "pending"
          /\ \A k \in DOMAIN sent : k # i => sent'[k] = sent[k]
      BY ZenonT(60), <2>1, <2>2, <2>3, PostSent DEF Answers
    <2>5. m # "none" \/ ~Pends(i)'
      BY <2>3, <2>4 DEF Answers, Pends, Unfinished
    <2>6. task[w].redeliver \in BOOLEAN /\ SetMessage(i, task[w].redeliver, m)
      BY <2>2, <2>3, PostedStored DEF Answers
    <2> QED BY <2>2, <2>4, <2>5, <2>6, PendingSet
  <1>9. ASSUME NEW w \in Workers, Crash(w) PROVE PendingHasMessage'
    <2>1. PICK i \in DOMAIN sent : i = task[w].event
      BY <1>9, PostedStored DEF Crash, Posts
    <2>2. /\ task[w].redeliver \in BOOLEAN /\ SetMessage(i, task[w].redeliver, "queued")
          /\ sent' = sent /\ environment' = environment
      BY <1>9, <2>1, PostedStored DEF Crash, Posts
    <2> QED BY <2>1, <2>2, PendingSet
  <1>10. ASSUME NEW i \in Sent, OnEventFailed(i) PROVE PendingHasMessage'
    <2>1. \A k \in DOMAIN sent' : Pends(k)' => Pends(k)
      BY <1>10, FailedSent, PendsBefore
    <2>2. UNCHANGED <<environment, messages, redeliveries>> /\ DOMAIN sent' = DOMAIN sent
      BY <1>10, FailedSent DEF OnEventFailed
    <2> QED BY <2>1, <2>2, PendingKept DEF HasMessage
  <1>11. ASSUME NEW i \in Sent, RedeliverEvent(i) PROVE PendingHasMessage'
    <2>1. i \in DOMAIN sent /\ sent' = sent /\ environment' = environment
          /\ SetMessage(i, TRUE, "queued")
      BY <1>11 DEF RedeliverEvent, SetMessage, Stored
    <2> QED BY <2>1, PendingSet
  <1> QED BY <1>1, <1>2, <1>3, <1>4, <1>5, <1>6, <1>7, <1>8, <1>9, <1>10, <1>11
          DEF Next, Take

(* A pending event that was not skipped always has a message that will     *)
(* deliver it, unless jobs are lost: a message goes only with an outcome,  *)
(* for an archived event, or when the event is skipped, and what resets    *)
(* skipped is an attempt, which gives an outcome or is retried.            *)
THEOREM PendingHasMessageCorrect == Spec => []PendingHasMessage
  <1>1. Init => PendingHasMessage
    BY DEF Init, PendingHasMessage
  <1> QED BY <1>1, TypeInit, TypeNext, PendingNext, PTL DEF Spec

=============================================================================
