---------------------------- MODULE Notifications ----------------------------
(***************************************************************************)
(* notification-service: consumers that turn the appointment events of a   *)
(* JetStream durable into rows of email_notifications, and workers that    *)
(* lease due rows and mail them.                                           *)
(*                                                                         *)
(* A message is delivered again when it is not acknowledged in time, even  *)
(* while a consumer still handles it, up to MaxDeliver times; two messages *)
(* may carry the same event.  A worker whose lease ran out does not notice *)
(* and goes on with the rows it claimed.                                   *)
(***************************************************************************)
EXTENDS Integers, FiniteSets

CONSTANTS
  Consumers,
  Workers,
  Messages,     \* what is in the stream
  Events,
  EventOf,      \* the event a message carries
  KindOf,       \* the type of an event
  AppointmentOf,
  Undated,      \* events whose payload gives no start
  Offsets,      \* the tenant's reminder offsets
  MaxDeliver,   \* deliveries of a message (20 in the code)
  MaxAttempts,  \* attempts after which a temporary failure is final (5 in the code)
  Limit,        \* rows per claim (50 in the code)
  MaxClaims,    \* bound on attempt_count
  MaxFaults     \* bound on crashes, lost calls and leases that run out during the work

\* "malformed" cannot be attributed to an event; "outdated" can, but has another
\* envelope version; "unknown" has no template.
Kinds == {"created", "rescheduled", "cancelled", "confirmed", "unknown", "outdated", "malformed"}

\* A notice is what (event_id, notification_type) identifies: the notification of an
\* event, or the reminder that the event and an offset determine.
TheEvent == "event"
Notices == Events \X (Offsets \cup {TheEvent})
Reminder(n) == n[2] # TheEvent

\* Reminders are planned for a booking or a move whose payload gives a start; one that
\* cannot be read counts as one without.
Reminds(e) == KindOf[e] \in {"created", "rescheduled"} /\ e \notin Undated

ASSUME NotificationsAssumption ==
  /\ EventOf \in [Messages -> Events]
  /\ KindOf \in [Events -> Kinds]
  /\ DOMAIN AppointmentOf = Events
  /\ Undated \subseteq Events
  /\ TheEvent \notin Offsets
  /\ MaxDeliver \in Nat \ {0}
  /\ MaxAttempts \in Nat \ {0}
  /\ Limit \in Nat \ {0}
  /\ MaxClaims \in Nat
  /\ MaxFaults \in Nat

VARIABLES
  messages,   \* the durable's view of the stream
  consumers,
  rows,       \* public.email_notifications
  due,        \* reminders whose scheduled_at has passed
  workers,
  mailed,     \* how often a notice was mailed: 0, 1, or 2 for more
  faults

vars == <<messages, consumers, rows, due, workers, mailed, faults>>

-----------------------------------------------------------------------------
Message == [state : {"available", "inflight", "acked", "termed", "exhausted"},
            delivered : 0..MaxDeliver]

\* message and delivery of the one being handled; the reminders still to plan.
Consumer == [pc : {"plan", "cancel", "offsets", "remind", "ack", "terminal", "term"},
             message : Messages, delivery : 1..MaxDeliver, todo : SUBSET Offsets]
Fetching == [pc |-> "fetch"]

\* The claim token is modelled by attempt_count, which every claim increments too.
Row == [status : {"pending", "processing", "sent", "failed", "cancelled"},
        attempts : Nat, lease : {"none", "held", "over"}]
NoRow == [status |-> "none"]
NewRow(status) == [status |-> status, attempts |-> 0, lease |-> "none"]

Item == Notices \X Nat
Outcomes == {"sent", "temporary", "permanent"}
Worker == [pc : {"send"}, batch : SUBSET Item] \cup
          [pc : {"finish"}, batch : SUBSET Item, item : Item, outcome : Outcomes]
Resting == [pc |-> "rest"]

Planned(n) == rows[n] # NoRow
Final == {"sent", "failed", "cancelled"}

Init ==
  /\ messages = [m \in Messages |-> [state |-> "available", delivered |-> 0]]
  /\ consumers = [c \in Consumers |-> Fetching]
  /\ rows = [n \in Notices |-> NoRow]
  /\ due = {}
  /\ workers = [w \in Workers |-> Resting]
  /\ mailed = [n \in Notices |-> 0]
  /\ faults = 0

-----------------------------------------------------------------------------
(* The consumer.                                                           *)

In(c, pc) == consumers[c].pc = pc
Goto(c, pc) == consumers' = [consumers EXCEPT ![c].pc = pc]
EventIn(c) == EventOf[consumers[c].message]
KindIn(c) == KindOf[EventIn(c)]

\* Run: a message is fetched.
Fetch(c) ==
  /\ In(c, "fetch")
  /\ \E m \in Messages :
       /\ messages[m].state = "available"
       /\ LET delivery == messages[m].delivered + 1
          IN  /\ messages' = [messages EXCEPT ![m] = [state |-> "inflight", delivered |-> delivery]]
              /\ consumers' = [consumers EXCEPT ![c] =
                   [pc |-> IF KindOf[EventOf[m]] = "unknown" THEN "ack" ELSE "plan",
                    message |-> m, delivery |-> delivery, todo |-> {}]]
  /\ UNCHANGED <<rows, due, workers, mailed, faults>>

\* Mistake: a conflict starts the row anew.
InsertAgain(n) == rows' = [rows EXCEPT ![n] = NewRow("pending")]

\* Repository.Plan: INSERT ... ON CONFLICT DO NOTHING.
Insert(n) == rows' = IF Planned(n) THEN rows ELSE [rows EXCEPT ![n] = NewRow("pending")]

\* handle, once the recipient is known: the notification of the event.
Plan(c) ==
  /\ In(c, "plan")
  /\ KindIn(c) \notin {"outdated", "malformed"}
  /\ Insert(<<EventIn(c), TheEvent>>)
  /\ Goto(c, CASE KindIn(c) \in {"rescheduled", "cancelled"} -> "cancel"
               [] KindIn(c) = "created" /\ Reminds(EventIn(c)) -> "offsets"
               [] OTHER -> "ack")
  /\ UNCHANGED <<messages, due, workers, mailed, faults>>

\* CancelReminders: the pending reminders of the appointment, whatever their event.
CancelReminders(c) ==
  /\ In(c, "cancel")
  /\ rows' = [n \in Notices |->
               IF /\ Reminder(n)
                  /\ AppointmentOf[n[1]] = AppointmentOf[EventIn(c)]
                  /\ rows[n].status = "pending"
               THEN [rows[n] EXCEPT !.status = "cancelled"]
               ELSE rows[n]]
  /\ Goto(c, IF Reminds(EventIn(c)) THEN "offsets" ELSE "ack")
  /\ UNCHANGED <<messages, due, workers, mailed, faults>>

\* ReminderOffsets answers; an offset whose time has passed is left out.
ReadOffsets(c) ==
  /\ In(c, "offsets")
  /\ consumers' = [consumers EXCEPT ![c].pc = "remind",
                                    ![c].todo = {o \in Offsets : <<EventIn(c), o>> \notin due}]
  /\ UNCHANGED <<messages, rows, due, workers, mailed, faults>>

PlanReminder(c) ==
  /\ In(c, "remind")
  /\ \E o \in consumers[c].todo :
       /\ Insert(<<EventIn(c), o>>)
       /\ consumers' = [consumers EXCEPT ![c].todo = @ \ {o}]
  /\ UNCHANGED <<messages, due, workers, mailed, faults>>

\* Mistake: the message is acknowledged before its reminders are planned.
AckEarly(c) ==
  /\ consumers[c].pc \in {"remind", "ack"}
  /\ LET m == consumers[c].message
     IN  messages' = IF messages[m].state = "termed" THEN messages
                     ELSE [messages EXCEPT ![m].state = "acked"]
  /\ consumers' = [consumers EXCEPT ![c] = Fetching]
  /\ UNCHANGED <<rows, due, workers, mailed, faults>>

\* handle returns nil.  The broker takes a late acknowledgement too.
Ack(c) ==
  /\ In(c, "ack") \/ (In(c, "remind") /\ consumers[c].todo = {})
  /\ LET m == consumers[c].message
     IN  messages' = IF messages[m].state = "termed" THEN messages
                     ELSE [messages EXCEPT ![m].state = "acked"]
  /\ consumers' = [consumers EXCEPT ![c] = Fetching]
  /\ UNCHANGED <<rows, due, workers, mailed, faults>>

\* handle returns an error: the envelope is malformed, or the recipient, the offsets
\* or the database are not to be had.  On the last delivery the message is given up,
\* on an earlier one it is delivered again.
HandleFails(c) ==
  /\ consumers[c].pc \in {"plan", "cancel", "offsets", "remind"}
  /\ In(c, "remind") => consumers[c].todo # {}
  /\ LET m == consumers[c].message
     IN  \/ /\ consumers[c].delivery >= MaxDeliver
            /\ Goto(c, "terminal")
            /\ UNCHANGED messages
         \/ /\ consumers[c].delivery < MaxDeliver
            /\ consumers' = [consumers EXCEPT ![c] = Fetching]
            /\ messages' = IF messages[m].state = "inflight" /\ messages[m].delivered < MaxDeliver
                           THEN [messages EXCEPT ![m].state = "available"]
                           ELSE messages
  /\ UNCHANGED <<rows, due, workers, mailed, faults>>

\* Mistake: the audit row overwrites whatever is there.
FailAlways(n) == rows' = [rows EXCEPT ![n] = NewRow("failed")]

\* Repository.Fail.  The claim of a row that is being processed stays in it.
Fail(n) ==
  rows' = IF ~Planned(n) THEN [rows EXCEPT ![n] = NewRow("failed")]
          ELSE IF rows[n].status \in {"sent", "cancelled"} THEN rows
          ELSE [rows EXCEPT ![n].status = "failed"]

\* markTerminal: an audit row, unless the envelope says nothing or the insert fails.
MarkTerminal(c) ==
  /\ In(c, "terminal")
  /\ \/ KindIn(c) # "malformed" /\ Fail(<<EventIn(c), TheEvent>>)
     \/ UNCHANGED rows
  /\ Goto(c, "term")
  /\ UNCHANGED <<messages, due, workers, mailed, faults>>

\* The message is terminated whether or not it left an audit row.
Term(c) ==
  /\ In(c, "term")
  /\ LET m == consumers[c].message
     IN  messages' = IF messages[m].state = "acked" THEN messages
                     ELSE [messages EXCEPT ![m].state = "termed"]
  /\ consumers' = [consumers EXCEPT ![c] = Fetching]
  /\ UNCHANGED <<rows, due, workers, mailed, faults>>

\* A replica dies, or its acknowledgement is lost.
LoseConsumer(c) ==
  /\ ~In(c, "fetch")
  /\ faults < MaxFaults
  /\ faults' = faults + 1
  /\ consumers' = [consumers EXCEPT ![c] = Fetching]
  /\ UNCHANGED <<messages, rows, due, workers, mailed>>

\* The broker has waited long enough for an acknowledgement.
AckWait(m) ==
  /\ messages[m].state = "inflight"
  /\ messages' = [messages EXCEPT ![m].state =
                    IF messages[m].delivered < MaxDeliver THEN "available" ELSE "exhausted"]
  /\ UNCHANGED <<consumers, rows, due, workers, mailed, faults>>

\* The scheduled_at of a reminder passes.
Pass(n) ==
  /\ Reminder(n)
  /\ n \notin due
  /\ due' = due \cup {n}
  /\ UNCHANGED <<messages, consumers, rows, workers, mailed, faults>>

-----------------------------------------------------------------------------
(* The worker.                                                             *)

\* Mistake: what a lost worker held is not taken over.
ClaimablePending(n) == rows[n].status = "pending" /\ (Reminder(n) => n \in due)

\* The candidates of claim_email_notifications.
Claimable(n) ==
  \/ rows[n].status = "pending" /\ (Reminder(n) => n \in due)
  \/ rows[n].status = "processing" /\ rows[n].lease = "over"

Candidates == {n \in Notices : Claimable(n) /\ rows[n].attempts < MaxClaims}

\* Once: a batch is leased.
Claim(w) ==
  /\ workers[w].pc = "rest"
  /\ \E batch \in SUBSET Candidates :
       /\ batch # {}
       /\ Cardinality(batch) = Limit \/ (Cardinality(batch) < Limit /\ batch = Candidates)
       /\ rows' = [n \in Notices |->
                    IF n \in batch
                    THEN [status |-> "processing", attempts |-> rows[n].attempts + 1, lease |-> "held"]
                    ELSE rows[n]]
       /\ workers' = [workers EXCEPT ![w] =
                       [pc |-> "send", batch |-> {<<n, rows[n].attempts + 1>> : n \in batch}]]
  /\ UNCHANGED <<messages, consumers, due, mailed, faults>>

Mail(n) == mailed' = [mailed EXCEPT ![n] = IF @ = 2 THEN 2 ELSE @ + 1]

\* Send: the server takes the mail; or the attempt fails for now, before or after the
\* server took it; or it fails for good.
Send(w) ==
  /\ workers[w].pc = "send"
  /\ \E item \in workers[w].batch, outcome \in Outcomes :
       /\ workers' = [workers EXCEPT ![w] = [pc |-> "finish", batch |-> @.batch \ {item},
                                             item |-> item, outcome |-> outcome]]
       /\ \/ outcome \in {"sent", "temporary"} /\ Mail(item[1])
          \/ outcome \in {"temporary", "permanent"} /\ UNCHANGED mailed
  /\ UNCHANGED <<messages, consumers, rows, due, faults>>

\* Mistake: the item just finished is kept.
ContinueWithItem(w) == workers' = [workers EXCEPT ![w].pc = "send"]

\* The loop of Once goes on.
Continue(w) ==
  workers' = [workers EXCEPT ![w] = IF @.batch = {} THEN Resting
                                    ELSE [pc |-> "send", batch |-> @.batch]]

\* Mistake: an attempt that failed for now counts as sent.
ResultLenient(item, outcome) == IF outcome = "permanent" THEN "failed" ELSE "sent"

\* The status that finish_email_notification gives a row.
Result(item, outcome) ==
  CASE outcome = "sent" -> "sent"
    [] outcome = "temporary" /\ item[2] < MaxAttempts -> "pending"
    [] OTHER -> "failed"

\* Mistake: the row need not be claimed any more, nor by this worker.
FinishByID(w) ==
  /\ workers[w].pc = "finish"
  /\ LET item == workers[w].item
         n == item[1]
     IN  rows' = IF rows[n].status = "processing"
                 THEN [rows EXCEPT ![n].status = Result(item, workers[w].outcome), ![n].lease = "none"]
                 ELSE rows
  /\ Continue(w)
  /\ UNCHANGED <<messages, consumers, due, mailed, faults>>

\* finish_email_notification: only under the token of the row's last claim.
Finish(w) ==
  /\ workers[w].pc = "finish"
  /\ LET item == workers[w].item
         n == item[1]
     IN  rows' = IF rows[n].status = "processing" /\ rows[n].attempts = item[2]
                 THEN [rows EXCEPT ![n].status = Result(item, workers[w].outcome), ![n].lease = "none"]
                 ELSE rows
  /\ Continue(w)
  /\ UNCHANGED <<messages, consumers, due, mailed, faults>>

\* The call that finishes a row fails, or the replica dies.
LoseWorker(w) ==
  /\ faults < MaxFaults
  /\ faults' = faults + 1
  /\ \/ workers[w].pc = "finish" /\ Continue(w)
     \/ workers[w].pc \in {"send", "finish"} /\ workers' = [workers EXCEPT ![w] = Resting]
  /\ UNCHANGED <<messages, consumers, rows, due, mailed>>

\* Some worker still has the notice to send or to finish under its last claim.
Worked(n) ==
  LET claim == <<n, rows[n].attempts>>
  IN  \E w \in Workers :
        \/ workers[w].pc \in {"send", "finish"} /\ claim \in workers[w].batch
        \/ workers[w].pc = "finish" /\ claim = workers[w].item

\* Two minutes pass since the claim.  A batch that takes longer counts as a fault.
LeaseEnds(n) ==
  /\ rows[n].status = "processing"
  /\ rows[n].lease = "held"
  /\ \/ Worked(n) /\ faults < MaxFaults /\ faults' = faults + 1
     \/ ~Worked(n) /\ UNCHANGED faults
  /\ rows' = [rows EXCEPT ![n].lease = "over"]
  /\ UNCHANGED <<messages, consumers, due, workers, mailed>>

-----------------------------------------------------------------------------
Consume(c) ==
  \/ Fetch(c) \/ Plan(c) \/ CancelReminders(c) \/ ReadOffsets(c) \/ PlanReminder(c) \/ Ack(c)
  \/ HandleFails(c) \/ MarkTerminal(c) \/ Term(c)

Deliver(w) == Claim(w) \/ Send(w) \/ Finish(w)

Next ==
  \/ \E c \in Consumers : Consume(c) \/ LoseConsumer(c)
  \/ \E w \in Workers : Deliver(w) \/ LoseWorker(w)
  \/ \E m \in Messages : AckWait(m)
  \/ \E n \in Notices : Pass(n) \/ LeaseEnds(n)

Spec == Init /\ [][Next]_vars

\* Consumers and workers poll, and time passes.
FairSpec ==
  /\ Spec
  /\ \A c \in Consumers : WF_vars(Consume(c))
  /\ \A w \in Workers : WF_vars(Deliver(w))
  /\ \A m \in Messages : WF_vars(AckWait(m))
  /\ \A n \in Notices : WF_vars(Pass(n)) /\ WF_vars(LeaseEnds(n))

-----------------------------------------------------------------------------
(* Properties.                                                             *)

\* Messages, rows, consumers and workers have their types.
TypeOK ==
  /\ messages \in [Messages -> Message]
  /\ consumers \in [Consumers -> Consumer \cup {Fetching}]
  /\ rows \in [Notices -> Row \cup {NoRow}]
  /\ due \subseteq Notices
  /\ workers \in [Workers -> Worker \cup {Resting}]
  /\ mailed \in [Notices -> 0..2]
  /\ faults \in Nat

\* "A persistence failure must leave the message unacknowledged": an acknowledged
\* message has its notification, and, when it gives a start, a reminder for each offset
\* that was still to come, in the table.
AckedIsPlanned ==
  \A m \in Messages : messages[m].state = "acked" =>
    LET e == EventOf[m]
    IN  /\ KindOf[e] # "unknown" => Planned(<<e, TheEvent>>)
        /\ Reminds(e) =>
             \A o \in Offsets : Planned(<<e, o>>) \/ <<e, o>> \in due

\* A notification that is sent, failed or cancelled stays so: no redelivery, late
\* worker, or audit of a terminated message takes it up again.
FinalStaysFinal ==
  [][\A n \in Notices : rows[n].status \in Final => rows'[n].status = rows[n].status]_vars

\* "It prevents a late worker from finalizing work that was safely reclaimed": the
\* worker that finishes a row is the one that claimed it last.
OnlyTheHolderFinishes ==
  [][\A w \in Workers :
       workers[w].pc = "finish" /\ workers'[w] # workers[w] /\ rows' # rows =>
         LET item == workers[w].item
         IN  rows[item[1]].attempts = item[2]]_vars

\* What is marked as sent has been mailed.
SentWasMailed == \A n \in Notices : rows[n].status = "sent" => mailed[n] > 0

\* A cancelled reminder is left as it is for ever, however often the event that planned it
\* is delivered again, and if no worker had claimed it before, it is never mailed.
CancelledIsNotMailed ==
  [][\A n \in Notices : rows[n].status = "cancelled" =>
       /\ rows'[n] = rows[n]
       /\ rows[n].attempts = 0 => mailed'[n] = 0]_vars

\* The service implements Mailing: whatever is delivered again, crashes or loses its lease,
\* nothing is mailed that no worker claimed, nothing counts as sent that was not mailed,
\* only a waiting reminder is cancelled, and what is final stays so.
statuses == [n \in Notices |-> rows[n].status]
taken == {n \in Notices : Planned(n) /\ rows[n].attempts > 0}
posted == {n \in Notices : mailed[n] > 0}

Mlg == INSTANCE Mailing WITH Reminders <- {n \in Notices : Reminder(n)},
                             status <- statuses, taken <- taken, posted <- posted
ImplementsMailing == Mlg!Spec

\* Every planned notification is sent, failed or cancelled in the end.
EveryNoticeSettles == \A n \in Notices : Planned(n) ~> rows[n].status \in Final

\* What the test of the consumer says of a replay, "must remain one logical
\* notification": an event that is delivered again leaves the reminders it planned as
\* they are, and only another event of the appointment cancels them.
ReplayKeepsReminders ==
  [][\A c \in Consumers : In(c, "cancel") /\ consumers'[c] # consumers[c] =>
       \A o \in Offsets : rows'[<<EventIn(c), o>>] = rows[<<EventIn(c), o>>]]_vars
=============================================================================
