------------------------- MODULE NotificationsProofs -------------------------
(***************************************************************************)
(* Proofs about Notifications, for any sets of consumers, workers,         *)
(* messages, events and offsets and any bounds.                            *)
(***************************************************************************)
EXTENDS Notifications, TLAPS

\* A leaf that names no prover is tried with SMT, then Zenon, then SMT again.
USE SMTT(30), ZenonT(30), SMTT(60), SMTT(90)

-----------------------------------------------------------------------------
(* Rows.                                                                   *)

\* What a step may make of a row: a planned row stays, its attempts never fall, a final
\* status never changes, and nothing of a cancelled row does.
Succeeds(r, s) ==
  \/ s = r
  \/ r = NoRow /\ s \in {NewRow("pending"), NewRow("failed")}
  \/ /\ r \in Row
     /\ s \in Row
     /\ s.attempts >= r.attempts
     /\ r.status \in Final => s.status = r.status
     /\ r.status = "cancelled" => s = r

\* An absent row is told from a row by its status.
LEMMA RowShape ==
  /\ NoRow \notin Row
  /\ \A r \in Row \cup {NoRow} : r.status # "none" => r \in Row
  /\ \A r \in Row : r.status # "none"
  /\ NewRow("pending") \in Row /\ NewRow("failed") \in Row
  BY DEF Row, NoRow, NewRow

\* A row is given another status, ...
LEMMA StatusSet ==
  ASSUME NEW r \in Row, NEW status \in {"pending", "processing", "sent", "failed", "cancelled"}
  PROVE  /\ [r EXCEPT !.status = status] \in Row
         /\ [r EXCEPT !.status = status].status = status
         /\ [r EXCEPT !.status = status].attempts = r.attempts
  BY DEF Row

\* ... or another lease.
LEMMA LeaseSet ==
  ASSUME NEW r \in Row, NEW lease \in {"none", "held", "over"}
  PROVE  /\ [r EXCEPT !.lease = lease] \in Row
         /\ [r EXCEPT !.lease = lease].status = r.status
         /\ [r EXCEPT !.lease = lease].attempts = r.attempts
  BY DEF Row

\* Attempts are counted.
LEMMA Attempts == \A r \in Row : r.attempts \in Nat
  BY DEF Row

\* An INSERT plans an absent row and leaves another alone.
LEMMA Inserts ==
  ASSUME TypeOK, NEW n \in Notices, Insert(n)
  PROVE  /\ rows' \in [Notices -> Row \cup {NoRow}]
         /\ \A k \in Notices : Succeeds(rows[k], rows'[k])
         /\ rows'[n] # NoRow
         /\ \A k \in Notices : rows'[k].status = "sent" => rows[k].status = "sent"
<1>1. CASE Planned(n)
  BY <1>1 DEF Insert, Planned, Succeeds, TypeOK
<1>2. CASE ~Planned(n)
  <2>1. rows' = [rows EXCEPT ![n] = NewRow("pending")] /\ rows[n] = NoRow
    BY <1>2 DEF Insert, Planned
  <2>2. rows \in [Notices -> Row \cup {NoRow}]
    BY DEF TypeOK
  <2>3. NewRow("pending") \in Row /\ NewRow("pending") # NoRow /\ NewRow("pending").status = "pending"
    BY RowShape DEF NewRow
  <2>4. rows'[n] = NewRow("pending") /\ \A k \in Notices \ {n} : rows'[k] = rows[k]
    BY <2>1, <2>2
  <2>5. rows' \in [Notices -> Row \cup {NoRow}]
    BY <2>1, <2>2, <2>3
  <2>6. \A k \in Notices : Succeeds(rows[k], rows'[k])
    BY <2>1, <2>4 DEF Succeeds
  <2>7. \A k \in Notices : rows'[k].status = "sent" => rows[k].status = "sent"
    BY <2>3, <2>4
  <2>8. QED
    BY <2>3, <2>4, <2>5, <2>6, <2>7
<1>3. QED
  BY <1>1, <1>2

\* One row, and no other, is given another value of its own.
LEMMA RowChanges ==
  ASSUME TypeOK, NEW n \in Notices, NEW row \in Row, rows' = [rows EXCEPT ![n] = row],
         Succeeds(rows[n], row), row.status # "sent" \/ rows[n].status = "sent"
  PROVE  /\ rows' \in [Notices -> Row \cup {NoRow}]
         /\ \A k \in Notices : Succeeds(rows[k], rows'[k])
         /\ \A k \in Notices : rows'[k].status = "sent" => rows[k].status = "sent"
<1>1. rows \in [Notices -> Row \cup {NoRow}]
  BY DEF TypeOK
<1>2. rows'[n] = row /\ \A k \in Notices \ {n} : rows'[k] = rows[k]
  BY <1>1
<1>3. \A k \in Notices : Succeeds(rows[k], rows'[k])
  BY <1>2 DEF Succeeds
<1>4. QED
  BY <1>1, <1>2, <1>3
\* Repository.Fail leaves a row that is sent or cancelled alone, and plans an absent one as
\* failed.
LEMMA Fails ==
  ASSUME TypeOK, NEW n \in Notices, Fail(n)
  PROVE  /\ rows' \in [Notices -> Row \cup {NoRow}]
         /\ \A k \in Notices : Succeeds(rows[k], rows'[k])
         /\ \A k \in Notices : rows'[k].status = "sent" => rows[k].status = "sent"
<1>1. rows \in [Notices -> Row \cup {NoRow}]
  BY DEF TypeOK
<1>2. CASE ~Planned(n)
  <2>1. rows' = [rows EXCEPT ![n] = NewRow("failed")] /\ Succeeds(rows[n], NewRow("failed"))
    BY <1>2 DEF Fail, Planned, Succeeds
  <2>2. NewRow("failed") \in Row /\ NewRow("failed").status # "sent"
    BY RowShape DEF NewRow
  <2>3. QED
    BY <2>1, <2>2, RowChanges, ZenonT(60)
<1>3. CASE Planned(n) /\ rows[n].status \in {"sent", "cancelled"}
  BY <1>1, <1>3 DEF Fail, Succeeds
<1>4. CASE Planned(n) /\ rows[n].status \notin {"sent", "cancelled"}
  <2> DEFINE row == [rows[n] EXCEPT !.status = "failed"]
  <2>1. rows[n] \in Row
    BY <1>1, <1>4 DEF Planned
  <2>2. rows' = [rows EXCEPT ![n] = row]
    BY <1>1, <1>4 DEF Fail
  <2>3. row \in Row /\ row.status = "failed" /\ row.attempts = rows[n].attempts
    BY <2>1, StatusSet, ZenonT(60)
  <2> HIDE DEF row
  <2>4. Succeeds(rows[n], row)
    BY <1>4, <2>1, <2>3, Attempts DEF Succeeds, Final
  <2>5. QED
    BY <2>2, <2>3, <2>4, RowChanges, ZenonT(60)
<1>5. QED
  BY <1>2, <1>3, <1>4

\* Reminders are cancelled while they are pending.
LEMMA Cancels ==
  ASSUME TypeOK, NEW c \in Consumers, CancelReminders(c)
  PROVE  /\ rows' \in [Notices -> Row \cup {NoRow}]
         /\ \A k \in Notices : Succeeds(rows[k], rows'[k])
         /\ \A k \in Notices : rows'[k].status = "sent" => rows[k].status = "sent"
<1>1. rows \in [Notices -> Row \cup {NoRow}]
  BY DEF TypeOK
<1>2. rows' = [n \in Notices |-> rows'[n]]
  BY DEF CancelReminders
<1>3. ASSUME NEW k \in Notices
      PROVE  \/ rows'[k] = rows[k]
             \/ rows[k].status = "pending" /\ rows'[k] = [rows[k] EXCEPT !.status = "cancelled"]
  BY DEF CancelReminders
<1>4. ASSUME NEW k \in Notices, rows[k].status = "pending", rows'[k] = [rows[k] EXCEPT !.status = "cancelled"]
      PROVE  rows[k] \in Row /\ rows'[k] \in Row /\ rows'[k].status = "cancelled"
             /\ rows'[k].attempts = rows[k].attempts
  <2>1. rows[k] \in Row
    BY <1>1, <1>4, RowShape
  <2>2. QED
    BY <1>4, <2>1 DEF Row
<1>5. ASSUME NEW k \in Notices
      PROVE  /\ rows'[k] \in Row \cup {NoRow}
             /\ Succeeds(rows[k], rows'[k])
             /\ rows'[k].status = "sent" => rows[k].status = "sent"
  <2>1. CASE rows'[k] = rows[k]
    BY <1>1, <2>1 DEF Succeeds
  <2>2. CASE rows[k].status = "pending" /\ rows'[k] = [rows[k] EXCEPT !.status = "cancelled"]
    BY <1>4, <2>2, Attempts DEF Succeeds, Final
  <2>3. QED
    BY <1>3, <2>1, <2>2
<1>6. QED
  BY <1>2, <1>5

\* A batch is claimed: each of its rows counts one attempt more.
LEMMA Claims ==
  ASSUME TypeOK, NEW batch \in SUBSET Candidates,
         rows' = [n \in Notices |->
                   IF n \in batch
                   THEN [status |-> "processing", attempts |-> rows[n].attempts + 1, lease |-> "held"]
                   ELSE rows[n]]
  PROVE  /\ rows' \in [Notices -> Row \cup {NoRow}]
         /\ \A k \in Notices : Succeeds(rows[k], rows'[k])
         /\ \A k \in Notices : rows'[k].status = "sent" => rows[k].status = "sent"
         /\ \A k \in batch : /\ k \in Notices /\ rows'[k] # NoRow
                             /\ rows[k].attempts \in Nat /\ rows'[k].attempts = rows[k].attempts + 1
<1>1. rows \in [Notices -> Row \cup {NoRow}]
  BY DEF TypeOK
<1>2. ASSUME NEW k \in batch
      PROVE  /\ k \in Notices /\ rows[k] \in Row /\ rows'[k] \in Row
             /\ rows'[k].attempts = rows[k].attempts + 1 /\ rows'[k].status = "processing"
             /\ rows[k].status \notin Final
  <2>1. k \in Notices /\ rows[k].status \in {"pending", "processing"}
    BY DEF Candidates, Claimable
  <2>2. rows[k] \in Row
    BY <1>1, <2>1, RowShape
  <2>3. rows'[k] = [status |-> "processing", attempts |-> rows[k].attempts + 1, lease |-> "held"]
    BY <2>1
  <2>4. rows'[k] \in Row
    BY <2>2, <2>3 DEF Row
  <2>5. QED
    BY <2>1, <2>2, <2>3, <2>4 DEF Final
<1>3. \A k \in Notices \ batch : rows'[k] = rows[k]
  OBVIOUS
<1>4. ASSUME NEW k \in Notices
      PROVE  /\ rows'[k] \in Row \cup {NoRow}
             /\ Succeeds(rows[k], rows'[k])
             /\ rows'[k].status = "sent" => rows[k].status = "sent"
  <2>1. CASE k \in batch
    BY <1>2, <2>1, Attempts DEF Succeeds, Final
  <2>2. CASE k \notin batch
    BY <1>1, <1>3, <2>2 DEF Succeeds
  <2>3. QED
    BY <2>1, <2>2
<1>5. \A k \in batch : k \in Notices /\ rows'[k] # NoRow /\ rows[k].attempts \in Nat
                       /\ rows'[k].attempts = rows[k].attempts + 1
  BY <1>2, RowShape, Attempts, ZenonT(60)
<1>6. rows' \in [Notices -> Row \cup {NoRow}]
  BY <1>4
<1>7. QED
  BY <1>4, <1>5, <1>6

\* A lease runs out.
LEMMA LeasesEnd ==
  ASSUME TypeOK, NEW n \in Notices, LeaseEnds(n)
  PROVE  /\ rows' \in [Notices -> Row \cup {NoRow}]
         /\ \A k \in Notices : Succeeds(rows[k], rows'[k])
         /\ \A k \in Notices : rows'[k].status = "sent" => rows[k].status = "sent"
<1> DEFINE row == [rows[n] EXCEPT !.lease = "over"]
<1>1. rows \in [Notices -> Row \cup {NoRow}]
  BY DEF TypeOK
<1>2. rows[n] \in Row /\ rows[n].status = "processing"
  BY <1>1, RowShape DEF LeaseEnds
<1>3. rows' = [rows EXCEPT ![n] = row]
  BY <1>1 DEF LeaseEnds
<1>4. row \in Row /\ row.status = rows[n].status /\ row.attempts = rows[n].attempts
  BY <1>2, LeaseSet, ZenonT(60)
<1> HIDE DEF row
<1>5. Succeeds(rows[n], row)
  BY <1>2, <1>4, Attempts DEF Succeeds
<1>6. QED
  BY <1>2, <1>3, <1>4, <1>5, RowChanges, ZenonT(60)
\* A row is finished under the claim of the worker; only a send that succeeded marks it sent.
LEMMA Finishes ==
  ASSUME TypeOK, NEW w \in Workers, Finish(w)
  PROVE  /\ rows' \in [Notices -> Row \cup {NoRow}]
         /\ \A k \in Notices : Succeeds(rows[k], rows'[k])
         /\ \A k \in Notices : rows'[k].status = "sent" =>
              rows[k].status = "sent" \/ (workers[w].outcome = "sent" /\ k = workers[w].item[1])
         /\ rows' # rows => rows[workers[w].item[1]].attempts = workers[w].item[2]
<1> DEFINE item == workers[w].item
           status == Result(item, workers[w].outcome)
           row == [rows[item[1]] EXCEPT !.status = status, !.lease = "none"]
<1>1. rows \in [Notices -> Row \cup {NoRow}]
  BY DEF TypeOK
<1>2. item \in Item /\ workers[w].outcome \in Outcomes /\ item[1] \in Notices
  <2>1. workers[w] \in [pc : {"finish"}, batch : SUBSET Item, item : Item, outcome : Outcomes]
    BY DEF TypeOK, Worker, Resting, Finish
  <2>2. QED
    BY <2>1 DEF Item
<1>3. CASE rows' = rows
  BY <1>1, <1>3 DEF Succeeds
<1>4. CASE rows' # rows
  <2>1. /\ rows[item[1]].status = "processing"
        /\ rows[item[1]].attempts = item[2]
        /\ rows' = [rows EXCEPT ![item[1]].status = status, ![item[1]].lease = "none"]
    BY <1>4 DEF Finish
  <2>2. rows[item[1]] \in Row
    BY <1>1, <1>2, <2>1, RowShape
  <2>3. rows' = [rows EXCEPT ![item[1]] = row]
    BY <1>1, <1>2, <2>1, <2>2, ZenonT(60)
  <2>4. status \in {"pending", "sent", "failed"} /\ (status = "sent" => workers[w].outcome = "sent")
    BY <1>2 DEF Result
  <2> HIDE DEF item, status
  <2>5. row \in Row /\ row.status = status /\ row.attempts = rows[item[1]].attempts
    BY <2>2, <2>4, ZenonT(60) DEF Row
  <2> HIDE DEF row
  <2>6. rows'[item[1]] = row /\ \A k \in Notices \ {item[1]} : rows'[k] = rows[k]
    BY <1>1, <1>2, <2>3
  <2>7. Succeeds(rows[item[1]], row)
    BY <2>1, <2>2, <2>5, Attempts DEF Succeeds, Final
  <2>8. \A k \in Notices : Succeeds(rows[k], rows'[k])
    BY <2>6, <2>7 DEF Succeeds
  <2>9. \A k \in Notices : rows'[k].status = "sent" =>
          rows[k].status = "sent" \/ (workers[w].outcome = "sent" /\ k = item[1])
    BY <2>4, <2>5, <2>6
  <2>10. rows' \in [Notices -> Row \cup {NoRow}]
    BY <1>1, <2>3, <2>5, ZenonT(60)
  <2>11. QED
    BY <2>1, <2>8, <2>9, <2>10, ZenonT(60) DEF item
<1>5. QED
  BY <1>3, <1>4
-----------------------------------------------------------------------------
(* The inductive invariant.                                                *)

\* What a consumer x has planned when it is at its step, given the rows rs and the passed
\* reminders d; only events without reminders go to their acknowledgement directly.
ConsumerOK(x, rs, d) ==
  LET e == EventOf[x.message]
  IN  /\ x.pc = "plan" => KindOf[e] # "unknown"
      /\ x.pc \in {"cancel", "offsets", "remind"} => rs[<<e, TheEvent>>] # NoRow
      /\ x.pc = "remind" => \A o \in Offsets \ x.todo : rs[<<e, o>>] # NoRow \/ <<e, o>> \in d
      /\ x.pc = "ack" => /\ ~Reminds(e)
                         /\ KindOf[e] # "unknown" => rs[<<e, TheEvent>>] # NoRow
      /\ x.pc = "cancel" => KindOf[e] # "created"

\* What a worker x holds was claimed, and what it is about to mark as sent was mailed.
Claimed(item, rs) == rs[item[1]] # NoRow /\ item[2] > 0 /\ item[2] <= rs[item[1]].attempts
WorkerOK(x, rs, ml) ==
  /\ x.pc \in {"send", "finish"} => \A item \in x.batch : Claimed(item, rs)
  /\ x.pc = "finish" => /\ Claimed(x.item, rs)
                        /\ x.outcome = "sent" => ml[x.item[1]] > 0

\* Nothing is mailed before it is claimed.
MailedWasClaimed ==
  \A n \in Notices : rows[n] = NoRow \/ rows[n].attempts = 0 => mailed[n] = 0

\* A message that is to be delivered again has a delivery left.
DeliveryLeft == \A m \in Messages : messages[m].state = "available" => messages[m].delivered < MaxDeliver

IInv ==
  /\ TypeOK
  /\ DeliveryLeft
  /\ AckedIsPlanned
  /\ SentWasMailed
  /\ MailedWasClaimed
  /\ \A c \in Consumers : ConsumerOK(consumers[c], rows, due)
  /\ \A w \in Workers : WorkerOK(workers[w], rows, mailed)

\* A worker at work holds a batch and, when it finishes, an item and its outcome.
LEMMA WorkerShape ==
  ASSUME TypeOK, NEW w \in Workers, workers[w].pc # "rest"
  PROVE  /\ workers[w].pc \in {"send", "finish"} /\ workers[w].batch \subseteq Item
         /\ workers[w].pc = "finish" => workers[w].item \in Item /\ workers[w].outcome \in Outcomes
<1>1. workers[w] \in Worker \cup {Resting}
  BY ZenonT(60) DEF TypeOK
<1>2. QED
  BY <1>1 DEF Worker, Resting

\* What is planned stays planned.
LEMMA StaysPlanned ==
  ASSUME NEW r \in Row \cup {NoRow}, NEW s, Succeeds(r, s), r # NoRow
  PROVE  r \in Row /\ s \in Row /\ s # NoRow /\ s.attempts >= r.attempts
  BY RowShape, Attempts DEF Succeeds

\* What a consumer has planned is there after any step.
LEMMA ConsumerKept ==
  ASSUME TypeOK, \A n \in Notices : Succeeds(rows[n], rows'[n]), due \subseteq due',
         NEW x \in Consumer \cup {Fetching}, ConsumerOK(x, rows, due)
  PROVE  ConsumerOK(x, rows', due')
<1>1. CASE x = Fetching
  BY <1>1 DEF ConsumerOK, Fetching
<1>2. CASE x \in Consumer
  <2> DEFINE e == EventOf[x.message]
  <2>1. e \in Events /\ <<e, TheEvent>> \in Notices /\ \A o \in Offsets : <<e, o>> \in Notices
    BY <1>2, NotificationsAssumption DEF Consumer, Notices
  <2>2. \A n \in Notices : rows[n] # NoRow => rows'[n] # NoRow
    BY StaysPlanned DEF TypeOK
  <2> HIDE DEF e
  <2>3. QED
    BY <2>1, <2>2 DEF ConsumerOK, e
<1>3. QED
  BY <1>1, <1>2

\* What was claimed has been claimed ever after, ...
LEMMA ClaimedKept ==
  ASSUME TypeOK, \A n \in Notices : Succeeds(rows[n], rows'[n]), NEW item \in Item, Claimed(item, rows)
  PROVE  Claimed(item, rows')
<1>1. item[1] \in Notices /\ item[2] \in Nat
  BY DEF Item
<1>2. rows[item[1]] \in Row /\ rows'[item[1]] \in Row /\ rows'[item[1]] # NoRow
      /\ rows'[item[1]].attempts >= rows[item[1]].attempts
  BY <1>1, StaysPlanned DEF TypeOK, Claimed
<1>3. rows[item[1]].attempts \in Nat /\ rows'[item[1]].attempts \in Nat
  BY <1>2, Attempts
<1>4. QED
  BY <1>1, <1>2, <1>3 DEF Claimed

\* ... so a worker may rely on what it holds after any step.
LEMMA WorkerKept ==
  ASSUME TypeOK, \A n \in Notices : Succeeds(rows[n], rows'[n]),
         mailed' \in [Notices -> 0..2], \A n \in Notices : mailed'[n] >= mailed[n],
         NEW x \in Worker \cup {Resting}, WorkerOK(x, rows, mailed)
  PROVE  WorkerOK(x, rows', mailed')
<1>1. CASE x.pc = "rest"
  BY <1>1 DEF WorkerOK
<1>2. CASE x.pc # "rest"
  <2>1. /\ x.pc \in {"send", "finish"} /\ x.batch \subseteq Item
        /\ x.pc = "finish" => x.item \in Item
    BY <1>2 DEF Worker, Resting
  <2>2. \A item \in x.batch : Claimed(item, rows')
    BY <2>1, ClaimedKept DEF WorkerOK
  <2>3. x.pc = "finish" => Claimed(x.item, rows')
    BY <2>1, ClaimedKept DEF WorkerOK
  <2>4. x.pc = "finish" /\ x.outcome = "sent" => mailed'[x.item[1]] > 0
    <3>1. x.pc = "finish" => x.item[1] \in Notices
      BY <2>1 DEF Item
    <3>2. \A n \in Notices : mailed[n] > 0 => mailed'[n] > 0
      BY DEF TypeOK
    <3>3. QED
      BY <3>1, <3>2 DEF WorkerOK
  <2>5. QED
    BY <2>2, <2>3, <2>4 DEF WorkerOK
<1>3. QED
  BY <1>1, <1>2

-----------------------------------------------------------------------------
(* Consumers.                                                              *)

\* What AckedIsPlanned asks of an acknowledged message m, given the rows rs and the passed
\* reminders d.
PlannedFor(m, rs, d) ==
  LET e == EventOf[m]
  IN  /\ KindOf[e] # "unknown" => rs[<<e, TheEvent>>] # NoRow
      /\ Reminds(e) =>
           \A o \in Offsets : rs[<<e, o>>] # NoRow \/ <<e, o>> \in d

\* What a step of consumer c does to the messages and the consumers.
Handled(c) ==
  /\ messages' \in [Messages -> Message]
  /\ DeliveryLeft'
  /\ consumers' \in [Consumers -> Consumer \cup {Fetching}]
  /\ \A q \in Consumers \ {c} : consumers'[q] = consumers[q]
  /\ ConsumerOK(consumers'[c], rows', due')
  /\ \A m \in Messages : messages'[m].state = "acked" =>
       messages[m].state = "acked" \/ PlannedFor(m, rows', due')

\* A consumer that is not fetching handles a message, and the notices of its event exist.
LEMMA ConsumerShape ==
  ASSUME TypeOK, NEW c \in Consumers, consumers[c].pc # "fetch"
  PROVE  /\ consumers[c] \in Consumer
         /\ consumers[c].message \in Messages
         /\ EventIn(c) \in Events
         /\ <<EventIn(c), TheEvent>> \in Notices
         /\ \A o \in Offsets : <<EventIn(c), o>> \in Notices
<1>1. consumers[c] \in Consumer
  BY DEF TypeOK, Fetching
<1>2. consumers[c].message \in Messages
  BY <1>1 DEF Consumer
<1>3. EventIn(c) \in Events
  BY <1>2, NotificationsAssumption DEF EventIn
<1>4. QED
  BY <1>1, <1>2, <1>3 DEF Notices

\* A consumer goes to another step, ...
LEMMA Went ==
  ASSUME TypeOK, NEW c \in Consumers, consumers[c] \in Consumer,
         NEW pc \in {"plan", "cancel", "offsets", "remind", "ack", "terminal", "term"}, Goto(c, pc)
  PROVE  /\ consumers' \in [Consumers -> Consumer \cup {Fetching}]
         /\ \A q \in Consumers \ {c} : consumers'[q] = consumers[q]
         /\ consumers'[c].pc = pc
         /\ consumers'[c].message = consumers[c].message
         /\ consumers'[c].todo = consumers[c].todo
<1> DEFINE x == [consumers[c] EXCEPT !.pc = pc]
<1>1. x \in Consumer /\ x.pc = pc /\ x.message = consumers[c].message /\ x.todo = consumers[c].todo
  BY DEF Consumer
<1>2. consumers' = [consumers EXCEPT ![c] = x]
  BY DEF Goto, TypeOK
<1> HIDE DEF x
<1>3. QED
  BY <1>1, <1>2 DEF TypeOK

\* ... or fetches again.
LEMMA Returned ==
  ASSUME TypeOK, NEW c \in Consumers, consumers' = [consumers EXCEPT ![c] = Fetching]
  PROVE  /\ consumers' \in [Consumers -> Consumer \cup {Fetching}]
         /\ \A q \in Consumers \ {c} : consumers'[q] = consumers[q]
         /\ ConsumerOK(consumers'[c], rows', due')
<1>1. consumers'[c] = Fetching
  BY DEF TypeOK
<1>2. QED
  BY <1>1 DEF TypeOK, ConsumerOK, Fetching

\* The broker changes its mind about a message.
LEMMA StateSet ==
  ASSUME TypeOK, DeliveryLeft, NEW m \in Messages,
         NEW state \in {"available", "inflight", "acked", "termed", "exhausted"},
         state = "available" => messages[m].delivered < MaxDeliver,
         messages' = [messages EXCEPT ![m].state = state]
  PROVE  /\ messages' \in [Messages -> Message]
         /\ DeliveryLeft'
         /\ messages'[m].state = state
         /\ \A k \in Messages \ {m} : messages'[k] = messages[k]
<1> DEFINE x == [messages[m] EXCEPT !.state = state]
<1>1. x \in Message /\ x.state = state /\ x.delivered = messages[m].delivered
  BY DEF TypeOK, Message
<1>2. messages' = [messages EXCEPT ![m] = x]
  BY DEF TypeOK
<1> HIDE DEF x
<1>3. /\ messages' \in [Messages -> Message]
      /\ messages'[m] = x
      /\ \A k \in Messages \ {m} : messages'[k] = messages[k]
  BY <1>1, <1>2 DEF TypeOK
<1>4. QED
  BY <1>1, <1>3 DEF DeliveryLeft
\* A message is fetched: an event without a template goes to its acknowledgement.
LEMMA Fetches ==
  ASSUME IInv, NEW c \in Consumers, Fetch(c)
  PROVE  Handled(c)
<1>1. PICK m \in Messages :
        /\ messages[m].state = "available"
        /\ messages' = [messages EXCEPT ![m] = [state |-> "inflight", delivered |-> messages[m].delivered + 1]]
        /\ consumers' = [consumers EXCEPT ![c] =
             [pc |-> IF KindOf[EventOf[m]] = "unknown" THEN "ack" ELSE "plan",
              message |-> m, delivery |-> messages[m].delivered + 1, todo |-> {}]]
  BY ZenonT(60) DEF Fetch
<1> DEFINE delivery == messages[m].delivered + 1
           x == [pc |-> IF KindOf[EventOf[m]] = "unknown" THEN "ack" ELSE "plan",
                 message |-> m, delivery |-> delivery, todo |-> {}]
<1>2. delivery \in 1..MaxDeliver
  <2>1. messages[m].delivered \in 0..MaxDeliver /\ messages[m].delivered < MaxDeliver
    BY <1>1 DEF IInv, TypeOK, Message, DeliveryLeft
  <2>2. QED
    BY <2>1, NotificationsAssumption
<1>3. x \in Consumer
  BY <1>2 DEF Consumer
<1>4. ConsumerOK(x, rows', due')
  BY DEF ConsumerOK, Reminds
<1>5. [state |-> "inflight", delivered |-> delivery] \in Message
  BY <1>2 DEF Message
<1> HIDE DEF x, delivery
<1>6. /\ consumers' \in [Consumers -> Consumer \cup {Fetching}]
      /\ consumers'[c] = x
      /\ \A q \in Consumers \ {c} : consumers'[q] = consumers[q]
  BY <1>1, <1>3 DEF IInv, TypeOK, x, delivery
<1>7. /\ messages' \in [Messages -> Message]
      /\ DeliveryLeft'
      /\ \A k \in Messages : messages'[k].state = "acked" => messages[k].state = "acked"
  BY <1>1, <1>5 DEF IInv, TypeOK, DeliveryLeft, delivery
<1>8. QED
  BY <1>4, <1>6, <1>7 DEF Handled

\* The notification of the event is planned.
LEMMA Plans ==
  ASSUME IInv, NEW c \in Consumers, Plan(c)
  PROVE  Handled(c)
<1> DEFINE e == EventIn(c)
           pc == CASE KindIn(c) \in {"rescheduled", "cancelled"} -> "cancel"
                   [] KindIn(c) = "created" /\ Reminds(EventIn(c)) -> "offsets"
                   [] OTHER -> "ack"
<1>1. TypeOK /\ consumers[c].pc = "plan" /\ messages' = messages
  BY DEF IInv, Plan, In
<1>2. consumers[c] \in Consumer /\ <<e, TheEvent>> \in Notices
  BY <1>1, ConsumerShape
<1>3. rows'[<<e, TheEvent>>] # NoRow
  BY <1>1, <1>2, Inserts DEF Plan
<1>4. KindOf[e] # "unknown"
  BY <1>1, ZenonT(60) DEF IInv, ConsumerOK, EventIn
<1>5. /\ pc \in {"cancel", "offsets", "ack"}
      /\ pc = "ack" => ~Reminds(e)
      /\ pc = "cancel" => KindOf[e] # "created"
  BY DEF KindIn, Reminds
<1>6. Goto(c, pc)
  BY DEF Plan
<1> HIDE DEF pc
<1>7. /\ consumers' \in [Consumers -> Consumer \cup {Fetching}]
      /\ \A q \in Consumers \ {c} : consumers'[q] = consumers[q]
      /\ consumers'[c].pc = pc
      /\ consumers'[c].message = consumers[c].message
  BY <1>1, <1>2, <1>5, <1>6, Went
<1>8. EventOf[consumers'[c].message] = e
  BY <1>7 DEF EventIn
<1> HIDE DEF e
<1>9. ConsumerOK(consumers'[c], rows', due')
  BY <1>3, <1>4, <1>5, <1>7, <1>8 DEF ConsumerOK
<1>10. QED
  BY <1>1, <1>7, <1>9 DEF Handled, IInv, TypeOK, DeliveryLeft

\* Reminders are cancelled, and new ones planned if the appointment was moved.
LEMMA CancelGoesOn ==
  ASSUME IInv, NEW c \in Consumers, CancelReminders(c)
  PROVE  Handled(c)
<1> DEFINE e == EventIn(c)
           pc == IF Reminds(EventIn(c)) THEN "offsets" ELSE "ack"
<1>1. TypeOK /\ consumers[c].pc = "cancel" /\ messages' = messages
  BY DEF IInv, CancelReminders, In
<1>2. consumers[c] \in Consumer /\ <<e, TheEvent>> \in Notices
  BY <1>1, ConsumerShape
<1>3. rows[<<e, TheEvent>>] # NoRow /\ KindOf[e] # "created"
  BY <1>1 DEF IInv, ConsumerOK, EventIn
<1>4. rows'[<<e, TheEvent>>] # NoRow
  BY <1>1, <1>2, <1>3, Cancels, StaysPlanned DEF TypeOK
<1>5. pc \in {"offsets", "ack"} /\ (pc = "ack" => ~Reminds(e))
  OBVIOUS
<1>6. Goto(c, pc)
  BY DEF CancelReminders
<1> HIDE DEF pc
<1>7. /\ consumers' \in [Consumers -> Consumer \cup {Fetching}]
      /\ \A q \in Consumers \ {c} : consumers'[q] = consumers[q]
      /\ consumers'[c].pc = pc
      /\ consumers'[c].message = consumers[c].message
  BY <1>1, <1>2, <1>5, <1>6, Went
<1>8. EventOf[consumers'[c].message] = e
  BY <1>7 DEF EventIn
<1> HIDE DEF e
<1>9. ConsumerOK(consumers'[c], rows', due')
  BY <1>3, <1>4, <1>5, <1>7, <1>8 DEF ConsumerOK
<1>10. QED
  BY <1>1, <1>7, <1>9 DEF Handled, IInv, TypeOK, DeliveryLeft

\* The reminders still to plan are those whose time has not passed.
LEMMA ReadsOffsets ==
  ASSUME IInv, NEW c \in Consumers, ReadOffsets(c)
  PROVE  Handled(c)
<1> DEFINE e == EventIn(c)
           todo == {o \in Offsets : <<e, o>> \notin due}
           x == [consumers[c] EXCEPT !.pc = "remind", !.todo = todo]
<1>1. TypeOK /\ consumers[c].pc = "offsets" /\ messages' = messages /\ rows' = rows /\ due' = due
  BY DEF IInv, ReadOffsets, In
<1>2. consumers[c] \in Consumer
  BY <1>1, ConsumerShape, ZenonT(60)
<1>3. rows[<<e, TheEvent>>] # NoRow
  BY <1>1 DEF IInv, ConsumerOK, EventIn
<1>4. x \in Consumer /\ x.pc = "remind" /\ x.message = consumers[c].message /\ x.todo = todo
  BY <1>2, ZenonT(60) DEF Consumer
<1>5. consumers' = [consumers EXCEPT ![c] = x]
  BY <1>1, ZenonT(60) DEF ReadOffsets, TypeOK
<1> HIDE DEF x
<1>6. /\ consumers' \in [Consumers -> Consumer \cup {Fetching}]
      /\ \A q \in Consumers \ {c} : consumers'[q] = consumers[q]
      /\ consumers'[c] = x
  BY <1>1, <1>4, <1>5 DEF TypeOK
<1>7. EventOf[x.message] = e
  BY <1>4 DEF EventIn
<1> HIDE DEF e
<1>8. ConsumerOK(x, rows', due')
  BY <1>1, <1>3, <1>4, <1>7 DEF ConsumerOK
<1>9. QED
  BY <1>1, <1>6, <1>8 DEF Handled, IInv, TypeOK, DeliveryLeft

\* A reminder is planned.
LEMMA PlansReminders ==
  ASSUME IInv, NEW c \in Consumers, PlanReminder(c)
  PROVE  Handled(c)
<1> DEFINE e == EventIn(c)
<1>1. TypeOK /\ consumers[c].pc = "remind" /\ messages' = messages /\ due' = due
  BY DEF IInv, PlanReminder, In
<1>2. /\ consumers[c] \in Consumer /\ <<e, TheEvent>> \in Notices
      /\ \A o \in Offsets : <<e, o>> \in Notices
  BY <1>1, ConsumerShape
<1>3. PICK o \in consumers[c].todo : Insert(<<e, o>>) /\ consumers' = [consumers EXCEPT ![c].todo = @ \ {o}]
  BY ZenonT(60) DEF PlanReminder
<1>4. o \in Offsets
  BY <1>2, <1>3 DEF Consumer
<1>5. rows'[<<e, o>>] # NoRow /\ \A n \in Notices : Succeeds(rows[n], rows'[n])
  BY <1>1, <1>2, <1>3, <1>4, Inserts
<1>6. \A n \in Notices : rows[n] # NoRow => rows'[n] # NoRow
  BY <1>1, <1>5, StaysPlanned DEF TypeOK
<1> DEFINE x == [consumers[c] EXCEPT !.todo = consumers[c].todo \ {o}]
<1>7. x \in Consumer /\ x.pc = "remind" /\ x.message = consumers[c].message
      /\ x.todo = consumers[c].todo \ {o}
  BY <1>1, <1>2 DEF Consumer
<1>8. consumers' = [consumers EXCEPT ![c] = x]
  BY <1>1, <1>3 DEF TypeOK
<1> HIDE DEF x
<1>9. /\ consumers' \in [Consumers -> Consumer \cup {Fetching}]
      /\ \A q \in Consumers \ {c} : consumers'[q] = consumers[q]
      /\ consumers'[c] = x
  BY <1>1, <1>7, <1>8 DEF TypeOK
<1>10. EventOf[x.message] = e /\ EventOf[consumers[c].message] = e
  BY <1>7 DEF EventIn
<1> HIDE DEF e
<1>11. /\ rows[<<e, TheEvent>>] # NoRow
       /\ \A k \in Offsets \ consumers[c].todo : rows[<<e, k>>] # NoRow \/ <<e, k>> \in due
  BY <1>1, <1>10 DEF IInv, ConsumerOK
<1>12. \A k \in Offsets \ x.todo : rows'[<<e, k>>] # NoRow \/ <<e, k>> \in due'
  BY <1>1, <1>2, <1>5, <1>6, <1>7, <1>11
<1>13. rows'[<<e, TheEvent>>] # NoRow
  BY <1>2, <1>6, <1>11
<1>14. ConsumerOK(x, rows', due')
  BY <1>7, <1>10, <1>12, <1>13 DEF ConsumerOK
<1>15. QED
  BY <1>1, <1>9, <1>14 DEF Handled, IInv, TypeOK, DeliveryLeft

\* A message is acknowledged once all it asks for is planned.
LEMMA Acks ==
  ASSUME IInv, NEW c \in Consumers, Ack(c)
  PROVE  Handled(c)
<1> DEFINE m == consumers[c].message
<1>1. /\ TypeOK /\ DeliveryLeft /\ rows' = rows /\ due' = due
      /\ consumers[c].pc = "ack" \/ (consumers[c].pc = "remind" /\ consumers[c].todo = {})
      /\ consumers' = [consumers EXCEPT ![c] = Fetching]
  BY DEF IInv, Ack, In
<1>2. m \in Messages
  BY <1>1, ConsumerShape, ZenonT(60)
<1>3. PlannedFor(m, rows', due')
  BY <1>1 DEF IInv, ConsumerOK, PlannedFor
<1>4. messages' = messages \/ messages' = [messages EXCEPT ![m].state = "acked"]
  BY DEF Ack
<1> HIDE DEF m
<1>5. /\ messages' \in [Messages -> Message] /\ DeliveryLeft'
      /\ \A k \in Messages \ {m} : messages'[k] = messages[k]
  <2>1. CASE messages' = messages
    BY <1>1, <2>1 DEF TypeOK, DeliveryLeft
  <2>2. CASE messages' = [messages EXCEPT ![m].state = "acked"]
    BY <1>1, <1>2, <2>2, StateSet, ZenonT(60)
  <2>3. QED
    BY <1>4, <2>1, <2>2
<1>6. QED
  BY <1>1, <1>3, <1>5, Returned, ZenonT(60) DEF Handled

\* A message that cannot be handled is delivered again, or given up on its last delivery.
LEMMA HandlingFails ==
  ASSUME IInv, NEW c \in Consumers, HandleFails(c)
  PROVE  Handled(c)
<1> DEFINE m == consumers[c].message
<1>1. TypeOK /\ DeliveryLeft /\ rows' = rows /\ due' = due /\ consumers[c].pc # "fetch"
  BY DEF IInv, HandleFails
<1>2. consumers[c] \in Consumer /\ m \in Messages
  BY <1>1, ConsumerShape, ZenonT(60)
<1>3. CASE Goto(c, "terminal") /\ messages' = messages
  <2>1. /\ consumers' \in [Consumers -> Consumer \cup {Fetching}]
        /\ \A q \in Consumers \ {c} : consumers'[q] = consumers[q]
        /\ consumers'[c].pc = "terminal"
    BY <1>1, <1>2, <1>3, Went
  <2>2. ConsumerOK(consumers'[c], rows', due')
    BY <2>1 DEF ConsumerOK
  <2>3. QED
    BY <1>1, <1>3, <2>1, <2>2 DEF Handled, TypeOK, DeliveryLeft
<1>4. CASE /\ consumers' = [consumers EXCEPT ![c] = Fetching]
           /\ messages' = IF messages[m].state = "inflight" /\ messages[m].delivered < MaxDeliver
                          THEN [messages EXCEPT ![m].state = "available"]
                          ELSE messages
  <2>1. \/ messages' = messages
        \/ messages[m].delivered < MaxDeliver /\ messages' = [messages EXCEPT ![m].state = "available"]
    BY <1>4
  <2> HIDE DEF m
  <2>2. /\ messages' \in [Messages -> Message] /\ DeliveryLeft'
        /\ \A k \in Messages : messages'[k].state = "acked" => messages[k].state = "acked"
    <3>1. CASE messages' = messages
      BY <1>1, <3>1 DEF TypeOK, DeliveryLeft
    <3>2. CASE messages[m].delivered < MaxDeliver /\ messages' = [messages EXCEPT ![m].state = "available"]
      BY <1>1, <1>2, <3>2, StateSet, ZenonT(60)
    <3>3. QED
      BY <2>1, <3>1, <3>2
  <2>3. QED
    BY <1>1, <1>4, <2>2, Returned, ZenonT(60) DEF Handled
<1>5. QED
  BY <1>3, <1>4 DEF HandleFails

\* A message is given up.
LEMMA GivesUp ==
  ASSUME IInv, NEW c \in Consumers, MarkTerminal(c) \/ Term(c) \/ LoseConsumer(c)
  PROVE  Handled(c)
<1> DEFINE m == consumers[c].message
<1>1. TypeOK /\ DeliveryLeft /\ consumers[c].pc # "fetch"
  BY DEF IInv, MarkTerminal, Term, LoseConsumer, In
<1>2. consumers[c] \in Consumer /\ m \in Messages
  BY <1>1, ConsumerShape, ZenonT(60)
<1>3. CASE MarkTerminal(c)
  <2>1. Goto(c, "term") /\ messages' = messages
    BY <1>3 DEF MarkTerminal
  <2>2. /\ consumers' \in [Consumers -> Consumer \cup {Fetching}]
        /\ \A q \in Consumers \ {c} : consumers'[q] = consumers[q]
        /\ consumers'[c].pc = "term"
    BY <1>1, <1>2, <2>1, Went
  <2>3. ConsumerOK(consumers'[c], rows', due')
    BY <2>2 DEF ConsumerOK
  <2>4. QED
    BY <1>1, <2>1, <2>2, <2>3 DEF Handled, TypeOK, DeliveryLeft
<1>4. CASE Term(c)
  <2>1. /\ messages' = messages \/ messages' = [messages EXCEPT ![m].state = "termed"]
        /\ consumers' = [consumers EXCEPT ![c] = Fetching]
    BY <1>4 DEF Term
  <2> HIDE DEF m
  <2>2. /\ messages' \in [Messages -> Message] /\ DeliveryLeft'
        /\ \A k \in Messages : messages'[k].state = "acked" => messages[k].state = "acked"
    <3>1. CASE messages' = messages
      BY <1>1, <3>1 DEF TypeOK, DeliveryLeft
    <3>2. CASE messages' = [messages EXCEPT ![m].state = "termed"]
      BY <1>1, <1>2, <3>2, StateSet, ZenonT(60)
    <3>3. QED
      BY <2>1, <3>1, <3>2
  <2>3. QED
    BY <1>1, <2>1, <2>2, Returned, ZenonT(60) DEF Handled
<1>5. CASE LoseConsumer(c)
  <2>1. messages' = messages /\ consumers' = [consumers EXCEPT ![c] = Fetching]
    BY <1>5 DEF LoseConsumer
  <2>2. QED
    BY <1>1, <2>1, Returned, ZenonT(60) DEF Handled, TypeOK, DeliveryLeft
<1>6. QED
  BY <1>3, <1>4, <1>5
-----------------------------------------------------------------------------
(* Workers.                                                                *)

\* What a step of worker w does to the workers and the mails.
Delivered(w) ==
  /\ workers' \in [Workers -> Worker \cup {Resting}]
  /\ \A v \in Workers \ {w} : workers'[v] = workers[v]
  /\ WorkerOK(workers'[w], rows', mailed')
  /\ mailed' \in [Notices -> 0..2]
  /\ \A n \in Notices : mailed'[n] >= mailed[n]
  /\ \A n \in Notices : mailed'[n] # mailed[n] => rows'[n] # NoRow /\ rows'[n].attempts > 0

\* A worker becomes another.
LEMMA Became ==
  ASSUME TypeOK, NEW w \in Workers, NEW x \in Worker \cup {Resting}, workers' = [workers EXCEPT ![w] = x]
  PROVE  /\ workers' \in [Workers -> Worker \cup {Resting}]
         /\ \A v \in Workers \ {w} : workers'[v] = workers[v]
         /\ workers'[w] = x
  BY DEF TypeOK

\* A batch is claimed.
LEMMA ClaimsBatch ==
  ASSUME IInv, NEW w \in Workers, Claim(w)
  PROVE  Delivered(w)
<1>1. PICK batch \in SUBSET Candidates :
        /\ rows' = [n \in Notices |->
                     IF n \in batch
                     THEN [status |-> "processing", attempts |-> rows[n].attempts + 1, lease |-> "held"]
                     ELSE rows[n]]
        /\ workers' = [workers EXCEPT ![w] =
                        [pc |-> "send", batch |-> {<<n, rows[n].attempts + 1>> : n \in batch}]]
  BY ZenonT(60) DEF Claim
<1> DEFINE items == {<<n, rows[n].attempts + 1>> : n \in batch}
           x == [pc |-> "send", batch |-> items]
<1>2. TypeOK /\ mailed' = mailed
  BY DEF IInv, Claim
<1>3. \A k \in batch : /\ k \in Notices /\ rows'[k] # NoRow
                       /\ rows[k].attempts \in Nat /\ rows'[k].attempts = rows[k].attempts + 1
  BY <1>1, <1>2, Claims, ZenonT(60)
<1>4. \A item \in items : item \in Item /\ Claimed(item, rows')
  BY <1>3 DEF Item, Claimed
<1> HIDE DEF items
<1>5. x \in Worker
  BY <1>4 DEF Worker
<1>6. WorkerOK(x, rows', mailed')
  BY <1>4 DEF WorkerOK
<1>7. workers' = [workers EXCEPT ![w] = x]
  BY <1>1 DEF items
<1> HIDE DEF x
<1>8. QED
  BY <1>2, <1>5, <1>6, <1>7, Became DEF Delivered, TypeOK

\* A mail is counted.
LEMMA Mails ==
  ASSUME TypeOK, NEW n \in Notices, Mail(n)
  PROVE  /\ mailed' \in [Notices -> 0..2]
         /\ mailed'[n] > 0
         /\ \A k \in Notices : mailed'[k] >= mailed[k]
         /\ \A k \in Notices \ {n} : mailed'[k] = mailed[k]
<1>1. mailed \in [Notices -> 0..2] /\ mailed[n] \in {0, 1, 2}
  BY DEF TypeOK
<1>2. mailed' = [mailed EXCEPT ![n] = IF mailed[n] = 2 THEN 2 ELSE mailed[n] + 1]
  BY <1>1 DEF Mail
<1>3. QED
  BY <1>1, <1>2

\* An item of the batch is sent, and counts as sent only if it was mailed.
LEMMA Sends ==
  ASSUME IInv, NEW w \in Workers, Send(w)
  PROVE  Delivered(w)
<1>1. PICK item \in workers[w].batch, outcome \in Outcomes :
        /\ workers' = [workers EXCEPT ![w] = [pc |-> "finish", batch |-> workers[w].batch \ {item},
                                              item |-> item, outcome |-> outcome]]
        /\ \/ outcome \in {"sent", "temporary"} /\ Mail(item[1])
           \/ outcome \in {"temporary", "permanent"} /\ UNCHANGED mailed
  BY ZenonT(60) DEF Send, IInv, TypeOK
<1> DEFINE x == [pc |-> "finish", batch |-> workers[w].batch \ {item}, item |-> item, outcome |-> outcome]
<1>2. TypeOK /\ workers[w].pc = "send" /\ rows' = rows
  BY DEF IInv, Send
<1>3. workers[w].batch \subseteq Item /\ \A i \in workers[w].batch : Claimed(i, rows)
  BY <1>2, WorkerShape DEF IInv, WorkerOK
<1>4. item \in Item /\ item[1] \in Notices
  BY <1>1, <1>3 DEF Item
<1>5. /\ mailed' \in [Notices -> 0..2]
      /\ \A n \in Notices : mailed'[n] >= mailed[n]
      /\ \A n \in Notices \ {item[1]} : mailed'[n] = mailed[n]
      /\ outcome = "sent" => mailed'[item[1]] > 0
  <2>1. CASE outcome \in {"sent", "temporary"} /\ Mail(item[1])
    BY <1>2, <1>4, <2>1, Mails
  <2>2. CASE outcome \in {"temporary", "permanent"} /\ UNCHANGED mailed
    BY <1>2, <2>2 DEF TypeOK
  <2>3. QED
    BY <1>1, <2>1, <2>2
<1>6. x \in Worker
  BY <1>1, <1>3, <1>4 DEF Worker
<1>7. WorkerOK(x, rows', mailed')
  BY <1>1, <1>2, <1>3, <1>5 DEF WorkerOK
<1>8. rows'[item[1]] # NoRow /\ rows'[item[1]].attempts > 0
  <2>1. rows[item[1]] \in Row
    BY <1>1, <1>2, <1>3, <1>4 DEF Claimed, TypeOK
  <2>2. item[2] \in Nat
    BY <1>4 DEF Item
  <2>3. QED
    BY <1>1, <1>2, <1>3, <2>1, <2>2, Attempts DEF Claimed
<1>9. workers' = [workers EXCEPT ![w] = x]
  BY <1>1
<1> HIDE DEF x
<1>10. QED
  BY <1>2, <1>5, <1>6, <1>7, <1>8, <1>9, Became, ZenonT(60) DEF Delivered

\* The loop goes on with what is left of the batch.
LEMMA Continues ==
  ASSUME IInv, NEW w \in Workers, workers[w].pc = "finish", Continue(w), mailed' = mailed,
         \A n \in Notices : Succeeds(rows[n], rows'[n])
  PROVE  Delivered(w)
<1> DEFINE x == IF workers[w].batch = {} THEN Resting ELSE [pc |-> "send", batch |-> workers[w].batch]
<1>1. TypeOK
  BY DEF IInv
<1>2. workers[w].batch \subseteq Item
  BY <1>1, WorkerShape
<1>3. \A i \in workers[w].batch : Claimed(i, rows')
  BY <1>1, <1>2, ClaimedKept DEF IInv, WorkerOK
<1>4. x \in Worker \cup {Resting}
  BY <1>2 DEF Worker
<1>5. WorkerOK(x, rows', mailed')
  BY <1>3 DEF WorkerOK, Resting
<1>6. workers' = [workers EXCEPT ![w] = x]
  BY <1>1 DEF Continue, TypeOK
<1> HIDE DEF x
<1>7. QED
  BY <1>1, <1>4, <1>5, <1>6, Became DEF Delivered, TypeOK

\* A worker is lost.
LEMMA Rests ==
  ASSUME IInv, NEW w \in Workers, workers' = [workers EXCEPT ![w] = Resting], mailed' = mailed
  PROVE  Delivered(w)
<1>1. TypeOK
  BY DEF IInv
<1>2. WorkerOK(Resting, rows', mailed')
  BY DEF WorkerOK, Resting
<1>3. QED
  BY <1>1, <1>2, Became DEF Delivered, TypeOK

-----------------------------------------------------------------------------
(* Steps.                                                                  *)

\* What every step does to the rows.  Only a worker that finishes marks a row as sent.
LEMMA RowsStep ==
  ASSUME TypeOK, [Next]_vars
  PROVE  /\ rows' \in [Notices -> Row \cup {NoRow}]
         /\ \A k \in Notices : Succeeds(rows[k], rows'[k])
         /\ \A k \in Notices : rows'[k].status = "sent" =>
              \/ rows[k].status = "sent"
              \/ \E w \in Workers : Finish(w) /\ workers[w].outcome = "sent" /\ k = workers[w].item[1]
<1> DEFINE Moved == /\ rows' \in [Notices -> Row \cup {NoRow}]
                    /\ \A k \in Notices : Succeeds(rows[k], rows'[k])
                    /\ \A k \in Notices : rows'[k].status = "sent" => rows[k].status = "sent"
<1>1. CASE UNCHANGED rows
  BY <1>1 DEF TypeOK, Succeeds
<1>2. ASSUME NEW c \in Consumers, Plan(c) PROVE Moved
  <2>1. <<EventIn(c), TheEvent>> \in Notices /\ Insert(<<EventIn(c), TheEvent>>)
    BY <1>2, ConsumerShape DEF Plan, In
  <2>2. QED
    BY <2>1, Inserts
<1>3. ASSUME NEW c \in Consumers, PlanReminder(c) PROVE Moved
  <2>1. PICK o \in consumers[c].todo : Insert(<<EventIn(c), o>>)
    BY <1>3 DEF PlanReminder
  <2>2. consumers[c] \in Consumer /\ \A k \in Offsets : <<EventIn(c), k>> \in Notices
    BY <1>3, ConsumerShape, ZenonT(60) DEF PlanReminder, In
  <2>3. <<EventIn(c), o>> \in Notices
    BY <2>1, <2>2 DEF Consumer
  <2>4. QED
    BY <2>1, <2>3, Inserts
<1>4. ASSUME NEW c \in Consumers, CancelReminders(c) PROVE Moved
  BY <1>4, Cancels
<1>5. ASSUME NEW c \in Consumers, MarkTerminal(c) PROVE Moved \/ UNCHANGED rows
  <2>1. <<EventIn(c), TheEvent>> \in Notices
    BY <1>5, ConsumerShape DEF MarkTerminal, In
  <2>2. Fail(<<EventIn(c), TheEvent>>) \/ UNCHANGED rows
    BY <1>5 DEF MarkTerminal
  <2>3. QED
    BY <2>1, <2>2, Fails
<1>6. ASSUME NEW w \in Workers, Claim(w) PROVE Moved
  <2>1. PICK batch \in SUBSET Candidates :
          rows' = [n \in Notices |->
                    IF n \in batch
                    THEN [status |-> "processing", attempts |-> rows[n].attempts + 1, lease |-> "held"]
                    ELSE rows[n]]
    BY <1>6 DEF Claim
  <2>2. QED
    BY <2>1, Claims, ZenonT(60)
<1>7. ASSUME NEW n \in Notices, LeaseEnds(n) PROVE Moved
  BY <1>7, LeasesEnd
<1>8. ASSUME NEW w \in Workers, Finish(w)
      PROVE  /\ rows' \in [Notices -> Row \cup {NoRow}]
             /\ \A k \in Notices : Succeeds(rows[k], rows'[k])
             /\ \A k \in Notices : rows'[k].status = "sent" =>
                  rows[k].status = "sent" \/ (workers[w].outcome = "sent" /\ k = workers[w].item[1])
  BY <1>8, Finishes
<1>9. \/ UNCHANGED rows
      \/ \E c \in Consumers : Plan(c) \/ PlanReminder(c) \/ CancelReminders(c) \/ MarkTerminal(c)
      \/ \E w \in Workers : Claim(w) \/ Finish(w)
      \/ \E n \in Notices : LeaseEnds(n)
  BY ZenonT(60) DEF Next, vars, Consume, Deliver, Fetch, ReadOffsets, Ack, HandleFails, Term, LoseConsumer, Send, LoseWorker,
     AckWait, Pass
<1>10. CASE Moved
  BY <1>10
<1> HIDE DEF Moved
<1>11. CASE \E w \in Workers : Finish(w)
  BY <1>8, <1>11
<1>12. QED
  BY <1>1, <1>2, <1>3, <1>4, <1>5, <1>6, <1>7, <1>9, <1>10, <1>11

\* What every step does to the messages and the consumers, ...
LEMMA MessagesStep ==
  ASSUME IInv, [Next]_vars
  PROVE  /\ messages' \in [Messages -> Message] /\ DeliveryLeft'
         /\ consumers' \in [Consumers -> Consumer \cup {Fetching}]
         /\ \A c \in Consumers : ConsumerOK(consumers'[c], rows', due')
         /\ \A m \in Messages : messages'[m].state = "acked" =>
              messages[m].state = "acked" \/ PlannedFor(m, rows', due')
         /\ due \subseteq due' /\ due' \subseteq Notices
<1>1. TypeOK /\ DeliveryLeft /\ \A n \in Notices : Succeeds(rows[n], rows'[n])
  BY RowsStep DEF IInv
<1>2. due \subseteq due' /\ due' \subseteq Notices
  BY <1>1, ZenonT(60) DEF TypeOK, Next, vars, Consume, Deliver, Fetch, Plan, CancelReminders, ReadOffsets, PlanReminder, Ack,
     HandleFails, MarkTerminal, Term, LoseConsumer, Claim, Send, Finish, LoseWorker, AckWait, Pass, LeaseEnds
<1>3. \A c \in Consumers : consumers[c] \in Consumer \cup {Fetching} /\ ConsumerOK(consumers[c], rows, due)
  BY DEF IInv, TypeOK
<1>4. \A c \in Consumers : ConsumerOK(consumers[c], rows', due')
  BY <1>1, <1>2, <1>3, ConsumerKept
<1>5. ASSUME NEW c \in Consumers, Consume(c) \/ LoseConsumer(c) PROVE Handled(c)
  BY <1>5, Fetches, Plans, CancelGoesOn, ReadsOffsets, PlansReminders, Acks, HandlingFails, GivesUp DEF Consume
<1>6. ASSUME NEW c \in Consumers, Handled(c) PROVE \A q \in Consumers : ConsumerOK(consumers'[q], rows', due')
  BY <1>4, <1>6 DEF Handled
<1>7. CASE \E c \in Consumers : Handled(c)
  BY <1>2, <1>6, <1>7 DEF Handled
<1>8. CASE UNCHANGED <<messages, consumers>>
  <2>1. consumers' \in [Consumers -> Consumer \cup {Fetching}] /\ messages' \in [Messages -> Message]
    BY <1>1, <1>8 DEF TypeOK
  <2>2. QED
    BY <1>1, <1>2, <1>4, <1>8, <2>1 DEF DeliveryLeft
<1>9. ASSUME NEW m \in Messages, AckWait(m)
      PROVE  /\ messages' \in [Messages -> Message] /\ DeliveryLeft' /\ consumers' = consumers
             /\ \A k \in Messages : messages'[k].state = "acked" => messages[k].state = "acked"
  <2> DEFINE state == IF messages[m].delivered < MaxDeliver THEN "available" ELSE "exhausted"
  <2>1. messages' = [messages EXCEPT ![m].state = state] /\ consumers' = consumers
    BY <1>9 DEF AckWait
  <2>2. state \in {"available", "exhausted"} /\ (state = "available" => messages[m].delivered < MaxDeliver)
    OBVIOUS
  <2> HIDE DEF state
  <2>3. /\ messages' \in [Messages -> Message] /\ DeliveryLeft' /\ messages'[m].state = state
        /\ \A k \in Messages \ {m} : messages'[k] = messages[k]
    BY <1>1, <2>1, <2>2, StateSet, ZenonT(60)
  <2>4. QED
    BY <2>1, <2>2, <2>3
<1>10. CASE \E m \in Messages : AckWait(m)
  <2>1. consumers' \in [Consumers -> Consumer \cup {Fetching}]
    BY <1>1, <1>9, <1>10 DEF TypeOK
  <2>2. QED
    BY <1>2, <1>4, <1>9, <1>10, <2>1
<1>11. \/ \E c \in Consumers : Consume(c) \/ LoseConsumer(c)
       \/ \E m \in Messages : AckWait(m)
       \/ UNCHANGED <<messages, consumers>>
  BY ZenonT(60) DEF Next, vars, Deliver, Claim, Send, Finish, LoseWorker, Pass, LeaseEnds
<1>12. QED
  BY <1>5, <1>7, <1>8, <1>10, <1>11

\* ... and to the workers and the mails.
LEMMA WorkersStep ==
  ASSUME IInv, [Next]_vars
  PROVE  /\ workers' \in [Workers -> Worker \cup {Resting}]
         /\ \A w \in Workers : WorkerOK(workers'[w], rows', mailed')
         /\ mailed' \in [Notices -> 0..2]
         /\ \A n \in Notices : mailed'[n] >= mailed[n]
         /\ \A n \in Notices : mailed'[n] # mailed[n] => rows'[n] # NoRow /\ rows'[n].attempts > 0
<1>1. TypeOK /\ \A n \in Notices : Succeeds(rows[n], rows'[n])
  BY RowsStep DEF IInv
<1>2. \A w \in Workers : workers[w] \in Worker \cup {Resting} /\ WorkerOK(workers[w], rows, mailed)
  BY DEF IInv, TypeOK
<1>3. ASSUME NEW w \in Workers, Finish(w) PROVE Delivered(w)
  BY <1>1, <1>3, Continues, ZenonT(60) DEF Finish
<1>4. ASSUME NEW w \in Workers, LoseWorker(w) PROVE Delivered(w)
  BY <1>1, <1>4, Continues, Rests DEF LoseWorker
<1>5. ASSUME NEW w \in Workers, Deliver(w) \/ LoseWorker(w) PROVE Delivered(w)
  BY <1>3, <1>4, <1>5, ClaimsBatch, Sends DEF Deliver
<1>6. ASSUME NEW w \in Workers, Delivered(w) PROVE \A v \in Workers : WorkerOK(workers'[v], rows', mailed')
  <2>1. \A v \in Workers : WorkerOK(workers[v], rows', mailed')
    BY <1>1, <1>2, <1>6, WorkerKept DEF Delivered
  <2>2. QED
    BY <1>6, <2>1 DEF Delivered
<1>7. CASE \E w \in Workers : Delivered(w)
  BY <1>6, <1>7 DEF Delivered
<1>8. CASE UNCHANGED <<workers, mailed>>
  <2>1. /\ mailed' \in [Notices -> 0..2] /\ \A n \in Notices : mailed'[n] >= mailed[n]
        /\ workers' \in [Workers -> Worker \cup {Resting}]
    BY <1>1, <1>8 DEF TypeOK
  <2>2. \A v \in Workers : WorkerOK(workers[v], rows', mailed')
    BY <1>1, <1>2, <2>1, WorkerKept
  <2>3. QED
    BY <1>8, <2>1, <2>2
<1>9. (\E w \in Workers : Deliver(w) \/ LoseWorker(w)) \/ UNCHANGED <<workers, mailed>>
  BY ZenonT(60) DEF Next, vars, Consume, Fetch, Plan, CancelReminders, ReadOffsets, PlanReminder, Ack, HandleFails,
     MarkTerminal, Term, LoseConsumer, AckWait, Pass, LeaseEnds
<1>10. QED
  BY <1>5, <1>7, <1>8, <1>9
\* The invariant holds at first ...
LEMMA InitOK == Init => IInv
<1> SUFFICES ASSUME Init PROVE IInv
  OBVIOUS
<1>1. TypeOK
  BY NotificationsAssumption DEF Init, TypeOK, Message
<1>2. DeliveryLeft
  BY NotificationsAssumption DEF Init, DeliveryLeft
<1>3. AckedIsPlanned
  BY DEF Init, AckedIsPlanned
<1>4. SentWasMailed /\ MailedWasClaimed
  BY DEF Init, SentWasMailed, MailedWasClaimed, NoRow
<1>5. \A c \in Consumers : ConsumerOK(consumers[c], rows, due)
  BY DEF Init, ConsumerOK, Fetching
<1>6. \A w \in Workers : WorkerOK(workers[w], rows, mailed)
  BY DEF Init, WorkerOK, Resting
<1>7. QED
  BY <1>1, <1>2, <1>3, <1>4, <1>5, <1>6 DEF IInv

\* ... and every step keeps it.
LEMMA NextOK ==
  ASSUME IInv, [Next]_vars
  PROVE  IInv'
<1>1. TypeOK /\ rows \in [Notices -> Row \cup {NoRow}] /\ mailed \in [Notices -> 0..2]
  BY DEF IInv, TypeOK
<1>2. rows' \in [Notices -> Row \cup {NoRow}] /\ \A n \in Notices : Succeeds(rows[n], rows'[n])
  BY <1>1, RowsStep
<1>3. /\ workers' \in [Workers -> Worker \cup {Resting}]
      /\ \A w \in Workers : WorkerOK(workers'[w], rows', mailed')
      /\ mailed' \in [Notices -> 0..2]
      /\ \A n \in Notices : mailed'[n] >= mailed[n]
      /\ \A n \in Notices : mailed'[n] # mailed[n] => rows'[n] # NoRow /\ rows'[n].attempts > 0
  BY WorkersStep
<1>4. /\ messages' \in [Messages -> Message] /\ DeliveryLeft'
      /\ consumers' \in [Consumers -> Consumer \cup {Fetching}]
      /\ \A c \in Consumers : ConsumerOK(consumers'[c], rows', due')
      /\ \A m \in Messages : messages'[m].state = "acked" =>
           messages[m].state = "acked" \/ PlannedFor(m, rows', due')
      /\ due \subseteq due' /\ due' \subseteq Notices
  BY MessagesStep
<1>5. faults' \in Nat
  <2>1. faults' \in {faults, faults + 1}
    BY ZenonT(60) DEF Next, vars, Consume, Deliver, Fetch, Plan, CancelReminders, ReadOffsets, PlanReminder, Ack, HandleFails,
       MarkTerminal, Term, LoseConsumer, Claim, Send, Finish, LoseWorker, AckWait, Pass, LeaseEnds
  <2>2. QED
    BY <1>1, <2>1 DEF TypeOK
<1>6. TypeOK'
  BY <1>2, <1>3, <1>4, <1>5 DEF TypeOK
<1>7. \A n \in Notices : rows[n] # NoRow => rows'[n] # NoRow
  BY <1>1, <1>2, StaysPlanned
<1>8. AckedIsPlanned'
  <2>1. ASSUME NEW m \in Messages, messages'[m].state = "acked" PROVE PlannedFor(m, rows', due')
    <3>1. CASE messages[m].state = "acked"
      <4> DEFINE e == EventOf[m]
      <4>1. e \in Events /\ <<e, TheEvent>> \in Notices /\ \A o \in Offsets : <<e, o>> \in Notices
        BY NotificationsAssumption DEF Notices
      <4>2. PlannedFor(m, rows, due)
        BY <3>1 DEF IInv, AckedIsPlanned, PlannedFor, Planned
      <4> HIDE DEF e
      <4>3. QED
        BY <1>4, <1>7, <4>1, <4>2 DEF PlannedFor, e
    <3>2. QED
      BY <1>4, <2>1, <3>1
  <2>2. QED
    BY <2>1 DEF AckedIsPlanned, PlannedFor, Planned
<1>9. SentWasMailed'
  <2>1. ASSUME NEW k \in Notices, rows'[k].status = "sent" PROVE mailed[k] > 0
    <3>1. CASE rows[k].status = "sent"
      BY <3>1 DEF IInv, SentWasMailed
    <3>2. ASSUME NEW w \in Workers, Finish(w), workers[w].outcome = "sent", k = workers[w].item[1]
          PROVE  mailed[k] > 0
      BY <3>2 DEF IInv, WorkerOK, Finish
    <3>3. QED
      BY <1>1, <2>1, <3>1, <3>2, RowsStep
  <2>2. QED
    BY <1>1, <1>3, <2>1 DEF SentWasMailed
<1>10. MailedWasClaimed'
  <2>1. ASSUME NEW n \in Notices, rows'[n] = NoRow \/ rows'[n].attempts = 0 PROVE mailed'[n] = 0
    <3>1. mailed'[n] = mailed[n]
      <4>1. rows'[n] # NoRow => rows'[n].attempts \in Nat
        BY <1>2, Attempts
      <4>2. QED
        BY <1>3, <2>1, <4>1
    <3>2. rows[n] = NoRow \/ rows[n].attempts = 0
      <4>1. CASE rows[n] # NoRow
        <5>1. /\ rows'[n] # NoRow /\ rows'[n].attempts >= rows[n].attempts
              /\ rows[n] \in Row /\ rows'[n] \in Row
          BY <1>1, <1>2, <4>1, StaysPlanned
        <5>2. rows[n].attempts \in Nat /\ rows'[n].attempts \in Nat
          BY <5>1, Attempts
        <5>3. QED
          BY <2>1, <5>1, <5>2
      <4>2. QED
        BY <4>1
    <3>3. QED
      BY <3>1, <3>2 DEF IInv, MailedWasClaimed
  <2>2. QED
    BY <2>1 DEF MailedWasClaimed
<1>11. QED
  BY <1>3, <1>4, <1>6, <1>8, <1>9, <1>10 DEF IInv

-----------------------------------------------------------------------------
(* Theorems.                                                               *)

\* The inductive invariant holds of every behaviour.
THEOREM Inductive == Spec => []IInv
  BY InitOK, NextOK, PTL DEF Spec

\* Messages, rows, consumers and workers keep their types, whatever is lost or repeated.
THEOREM TypeCorrect == Spec => []TypeOK
<1>1. IInv => TypeOK
  BY DEF IInv
<1>2. QED
  BY <1>1, Inductive, PTL

\* An acknowledged message has left its notification and its reminders in the table.
THEOREM AckedIsPlannedHolds == Spec => []AckedIsPlanned
<1>1. IInv => AckedIsPlanned
  BY DEF IInv
<1>2. QED
  BY <1>1, Inductive, PTL

\* What is marked as sent has been mailed.
THEOREM SentWasMailedHolds == Spec => []SentWasMailed
<1>1. IInv => SentWasMailed
  BY DEF IInv
<1>2. QED
  BY <1>1, Inductive, PTL

\* A cancelled reminder is never taken up again, nor mailed unless it was claimed before.
THEOREM CancelledIsNotMailedHolds == Spec => CancelledIsNotMailed
<1> DEFINE Kept == \A n \in Notices : rows[n].status = "cancelled" =>
                     /\ rows'[n] = rows[n]
                     /\ rows[n].attempts = 0 => mailed'[n] = 0
<1>1. ASSUME IInv, [Next]_vars PROVE Kept
  <2>1. SUFFICES ASSUME NEW n \in Notices, rows[n].status = "cancelled"
                 PROVE  rows'[n] = rows[n] /\ (rows[n].attempts = 0 => mailed'[n] = 0)
    OBVIOUS
  <2>2. rows'[n] = rows[n]
    <3>1. Succeeds(rows[n], rows'[n])
      BY <1>1, RowsStep DEF IInv
    <3>2. rows[n] # NoRow
      BY <2>1 DEF NoRow
    <3>3. QED
      BY <2>1, <3>1, <3>2 DEF Succeeds
  <2>3. MailedWasClaimed'
    BY <1>1, NextOK DEF IInv
  <2>4. QED
    BY <2>2, <2>3 DEF MailedWasClaimed
<1>2. IInv /\ [Next]_vars => [Kept]_vars
  BY <1>1
<1>3. Spec => [][Kept]_vars
  BY <1>2, Inductive, PTL DEF Spec
<1>4. QED
  BY <1>3 DEF CancelledIsNotMailed

\* A notification that is sent, failed or cancelled is never taken up again.
THEOREM FinalStaysFinalHolds == Spec => FinalStaysFinal
<1>1. ASSUME TypeOK, [Next]_vars, NEW n \in Notices, rows[n].status \in Final
      PROVE  rows'[n].status = rows[n].status
  <2>1. Succeeds(rows[n], rows'[n])
    BY <1>1, RowsStep
  <2>2. rows[n] # NoRow
    BY <1>1 DEF NoRow, Final
  <2>3. QED
    BY <1>1, <2>1, <2>2 DEF Succeeds
<1>2. TypeOK /\ [Next]_vars => [\A n \in Notices : rows[n].status \in Final => rows'[n].status = rows[n].status]_vars
  BY <1>1
<1>3. QED
  BY <1>2, TypeCorrect, PTL DEF Spec, FinalStaysFinal

\* Only the worker that claimed a row last finishes it.
THEOREM OnlyTheHolderFinishesHolds == Spec => OnlyTheHolderFinishes
<1>1. ASSUME TypeOK, [Next]_vars, NEW w \in Workers, workers[w].pc = "finish", workers'[w] # workers[w], rows' # rows
      PROVE  rows[workers[w].item[1]].attempts = workers[w].item[2]
  <2>1. CASE Finish(w)
    BY <1>1, <2>1, Finishes
  <2>2. ASSUME NEW v \in Workers, v # w, Claim(v) \/ Finish(v) PROVE FALSE
    BY <1>1, <2>2 DEF TypeOK, Claim, Finish, Continue
  <2>3. ~Claim(w)
    BY <1>1 DEF Claim
  <2>4. \E v \in Workers : Claim(v) \/ Finish(v)
    BY <1>1, ZenonT(60) DEF Next, vars, Consume, Deliver, Fetch, Plan, CancelReminders, ReadOffsets, PlanReminder, Ack,
       HandleFails, MarkTerminal, Term, LoseConsumer, Send, LoseWorker, AckWait, Pass, LeaseEnds
  <2>5. QED
    BY <2>1, <2>2, <2>3, <2>4
<1>2. TypeOK /\ [Next]_vars =>
        [\A w \in Workers :
           workers[w].pc = "finish" /\ workers'[w] # workers[w] /\ rows' # rows =>
             LET item == workers[w].item
             IN  rows[item[1]].attempts = item[2]]_vars
  BY <1>1
<1>3. QED
  BY <1>2, TypeCorrect, PTL DEF Spec, OnlyTheHolderFinishes

-----------------------------------------------------------------------------
(* The refinement of Mailing.                                              *)

\* A step of Mailing, or a stutter.
MailingStep == [Mlg!Next]_<<statuses, taken, posted>>

\* What Mailing sees when one row changes and keeps its attempts: one notice turns.
LEMMA OneTurns ==
  ASSUME TypeOK, NEW n \in Notices, NEW row \in Row, rows' = [rows EXCEPT ![n] = row],
         \/ rows[n] = NoRow /\ row.attempts = 0
         \/ rows[n] # NoRow /\ row.attempts = rows[n].attempts
  PROVE  /\ statuses' = [k \in Notices |-> IF k \in {n} THEN row.status ELSE statuses[k]]
         /\ statuses[n] = rows[n].status
         /\ taken' = taken
<1>1. rows \in [Notices -> Row \cup {NoRow}]
  BY DEF TypeOK
<1>2. rows'[n] = row /\ \A k \in Notices \ {n} : rows'[k] = rows[k]
  BY <1>1
<1>3. statuses' = [k \in Notices |-> IF k \in {n} THEN row.status ELSE statuses[k]]
  BY <1>2 DEF statuses
<1>4. taken' = taken
  <2>1. ASSUME NEW k \in Notices
        PROVE  (rows'[k] # NoRow /\ rows'[k].attempts > 0) <=> (rows[k] # NoRow /\ rows[k].attempts > 0)
    <3>1. CASE k = n
      BY <1>2, <3>1, RowShape
    <3>2. CASE k # n
      BY <1>2, <3>2
    <3>3. QED
      BY <3>1, <3>2
  <2>2. QED
    BY <2>1 DEF taken, Planned
<1>5. QED
  BY <1>3, <1>4 DEF statuses

\* Mailing does not see how often a notice was mailed.
LEMMA SamePosted == mailed' = mailed => posted' = posted
  BY DEF posted

\* An INSERT plans an absent notice, and is not seen otherwise.
LEMMA InsertPlans ==
  ASSUME TypeOK, NEW n \in Notices, Insert(n), mailed' = mailed
  PROVE  MailingStep
<1>1. posted' = posted
  BY SamePosted
<1>2. CASE Planned(n)
  <2>1. rows' = rows
    BY <1>2 DEF Insert
  <2>2. QED
    BY <1>1, <2>1 DEF MailingStep, statuses, taken, Planned
<1>3. CASE ~Planned(n)
  <2>1. rows' = [rows EXCEPT ![n] = NewRow("pending")] /\ rows[n] = NoRow
    BY <1>3 DEF Insert, Planned
  <2>2. NewRow("pending") \in Row /\ NewRow("pending").status = "pending" /\ NewRow("pending").attempts = 0
    BY RowShape DEF NewRow
  <2>3. /\ statuses' = [k \in Notices |-> IF k \in {n} THEN NewRow("pending").status ELSE statuses[k]]
        /\ statuses[n] = rows[n].status /\ taken' = taken
    BY <2>1, <2>2, OneTurns, ZenonT(60)
  <2>4. rows[n].status = "none"
    BY <2>1 DEF NoRow
  <2>5. Mlg!Plan(n)
    BY <1>1, <2>2, <2>3, <2>4 DEF Mlg!Plan, Mlg!Turn
  <2>6. QED
    BY <2>5 DEF MailingStep, Mlg!Next
<1>4. QED
  BY <1>2, <1>3

\* The audit of a terminated message gives the notification of an event up, unless it is
\* final already.
LEMMA AuditGivesUp ==
  ASSUME TypeOK, NEW n \in Notices, ~Reminder(n), Fail(n), mailed' = mailed
  PROVE  MailingStep
<1>1. posted' = posted /\ rows \in [Notices -> Row \cup {NoRow}]
  BY SamePosted DEF TypeOK
<1>2. CASE rows' = rows
  BY <1>1, <1>2 DEF MailingStep, statuses, taken, Planned
<1>3. ASSUME NEW row \in Row, rows' = [rows EXCEPT ![n] = row], row.status = "failed",
             \/ rows[n] = NoRow /\ row.attempts = 0
             \/ rows[n] # NoRow /\ row.attempts = rows[n].attempts,
             rows[n].status \in {"none", "pending", "processing", "failed"}
      PROVE  MailingStep
  <2>1. /\ statuses' = [k \in Notices |-> IF k \in {n} THEN row.status ELSE statuses[k]]
        /\ statuses[n] = rows[n].status /\ taken' = taken
    BY <1>3, OneTurns, ZenonT(60)
  <2>2. CASE rows[n].status = "failed"
    <3>1. statuses' = statuses
      BY <1>3, <2>1, <2>2 DEF statuses
    <3>2. QED
      BY <1>1, <2>1, <3>1 DEF MailingStep
  <2>3. CASE rows[n].status \in {"none", "pending", "processing"}
    <3>1. Mlg!GiveUp(n)
      BY <1>1, <1>3, <2>1, <2>3 DEF Mlg!GiveUp, Mlg!Turn
    <3>2. QED
      BY <3>1 DEF MailingStep, Mlg!Next
  <2>4. QED
    BY <1>3, <2>2, <2>3
<1>4. CASE ~Planned(n)
  <2>1. rows' = [rows EXCEPT ![n] = NewRow("failed")] /\ rows[n] = NoRow
    BY <1>4 DEF Fail, Planned
  <2>2. NewRow("failed") \in Row /\ NewRow("failed").status = "failed" /\ NewRow("failed").attempts = 0
    BY RowShape DEF NewRow
  <2>3. rows[n].status = "none"
    BY <2>1 DEF NoRow
  <2>4. QED
    BY <1>3, <2>1, <2>2, <2>3, ZenonT(60)
<1>5. CASE Planned(n) /\ rows[n].status \notin {"sent", "cancelled"}
  <2> DEFINE row == [rows[n] EXCEPT !.status = "failed"]
  <2>1. rows[n] \in Row /\ rows[n].status \in {"pending", "processing", "failed"}
    BY <1>1, <1>5 DEF Planned, Row
  <2>2. rows' = [rows EXCEPT ![n] = row]
    BY <1>1, <1>5 DEF Fail
  <2>3. row \in Row /\ row.status = "failed" /\ row.attempts = rows[n].attempts
    BY <2>1, StatusSet, ZenonT(60)
  <2> HIDE DEF row
  <2>4. QED
    BY <1>3, <1>5, <2>1, <2>2, <2>3, ZenonT(60) DEF Planned
<1>6. CASE Planned(n) /\ rows[n].status \in {"sent", "cancelled"}
  BY <1>2, <1>6 DEF Fail
<1>7. QED
  BY <1>4, <1>5, <1>6

\* Waiting reminders are cancelled together.
LEMMA CancelCancels ==
  ASSUME TypeOK, NEW c \in Consumers, CancelReminders(c)
  PROVE  MailingStep
<1> DEFINE some == {n \in Notices : /\ Reminder(n)
                                    /\ AppointmentOf[n[1]] = AppointmentOf[EventIn(c)]
                                    /\ rows[n].status = "pending"}
<1>1. posted' = posted /\ rows \in [Notices -> Row \cup {NoRow}]
  BY SamePosted DEF TypeOK, CancelReminders
<1>2. /\ some \subseteq {n \in Notices : Reminder(n)}
      /\ \A n \in some : n \in Notices /\ rows[n].status = "pending"
  OBVIOUS
<1>3. \A n \in Notices \ some : rows'[n] = rows[n]
  BY DEF CancelReminders
<1>4. ASSUME NEW n \in some PROVE rows'[n] = [rows[n] EXCEPT !.status = "cancelled"]
  BY DEF CancelReminders
<1> HIDE DEF some
<1>5. ASSUME NEW n \in some
      PROVE  /\ rows[n] # NoRow /\ rows'[n] # NoRow
             /\ rows'[n].status = "cancelled" /\ rows'[n].attempts = rows[n].attempts
  <2>1. rows[n] \in Row
    BY <1>1, <1>2, RowShape
  <2>2. rows'[n] = [rows[n] EXCEPT !.status = "cancelled"]
    BY <1>4
  <2>3. rows'[n] \in Row /\ rows'[n].status = "cancelled" /\ rows'[n].attempts = rows[n].attempts
    BY <2>1, <2>2 DEF Row
  <2>4. QED
    BY <2>1, <2>3, RowShape
<1>6. statuses' = [n \in Notices |-> IF n \in some THEN "cancelled" ELSE statuses[n]]
  BY <1>2, <1>3, <1>5 DEF statuses
<1>7. taken' = taken
  BY <1>2, <1>3, <1>5 DEF taken, Planned
<1>8. \A n \in some : statuses[n] \in {"pending"}
  BY <1>2 DEF statuses
<1>9. Mlg!Cancel(some)
  BY <1>1, <1>2, <1>6, <1>7, <1>8 DEF Mlg!Cancel, Mlg!Turn
<1>10. some \subseteq Notices
  BY <1>2
<1>11. QED
  BY <1>9, <1>10 DEF MailingStep, Mlg!Next

\* A claim takes its batch up.
LEMMA ClaimTakes ==
  ASSUME TypeOK, NEW w \in Workers, Claim(w)
  PROVE  MailingStep
<1>1. PICK batch \in SUBSET Candidates :
        rows' = [n \in Notices |->
                  IF n \in batch
                  THEN [status |-> "processing", attempts |-> rows[n].attempts + 1, lease |-> "held"]
                  ELSE rows[n]]
  BY ZenonT(60) DEF Claim
<1>2. posted' = posted /\ rows \in [Notices -> Row \cup {NoRow}]
  BY SamePosted DEF TypeOK, Claim
<1>3. ASSUME NEW n \in batch
      PROVE  /\ n \in Notices /\ rows[n].status \in {"pending", "processing"}
             /\ rows'[n] # NoRow /\ rows'[n].status = "processing" /\ rows'[n].attempts > 0
  <2>1. n \in Notices /\ rows[n].status \in {"pending", "processing"}
    BY DEF Candidates, Claimable
  <2>2. rows'[n] = [status |-> "processing", attempts |-> rows[n].attempts + 1, lease |-> "held"]
    BY <1>1, <2>1
  <2>3. rows[n].attempts \in Nat
    BY <1>2, <2>1, RowShape, Attempts
  <2>4. QED
    BY <2>1, <2>2, <2>3 DEF NoRow
<1>4. \A n \in Notices \ batch : rows'[n] = rows[n]
  BY <1>1
<1>5. statuses' = [n \in Notices |-> IF n \in batch THEN "processing" ELSE statuses[n]]
  BY <1>3, <1>4 DEF statuses
<1>6. taken' = taken \cup batch
  BY <1>3, <1>4 DEF taken, Planned
<1>7. \A n \in batch : statuses[n] \in {"pending", "processing"}
  BY <1>3 DEF statuses
<1>8. Mlg!Take(batch)
  BY <1>2, <1>5, <1>6, <1>7 DEF Mlg!Take, Mlg!Turn
<1>9. batch \subseteq Notices
  BY <1>3
<1>10. QED
  BY <1>8, <1>9 DEF MailingStep, Mlg!Next

\* A worker mails what it claimed.
LEMMA SendPosts ==
  ASSUME IInv, NEW w \in Workers, Send(w)
  PROVE  MailingStep
<1>1. TypeOK /\ workers[w].pc = "send" /\ rows' = rows
  BY DEF IInv, Send
<1>2. statuses' = statuses /\ taken' = taken
  BY <1>1 DEF statuses, taken, Planned
<1>3. CASE mailed' = mailed
  BY <1>2, <1>3, SamePosted DEF MailingStep
<1>4. CASE mailed' # mailed
  <2>1. PICK item \in workers[w].batch : Mail(item[1])
    BY <1>4 DEF Send
  <2>2. workers[w].batch \subseteq Item /\ Claimed(item, rows)
    <3>1. workers[w].batch \subseteq Item
      BY <1>1, WorkerShape
    <3>2. Claimed(item, rows)
      BY <1>1, <2>1, ZenonT(60) DEF IInv, WorkerOK
    <3>3. QED
      BY <3>1, <3>2
  <2>3. item[1] \in Notices /\ item[2] \in Nat
    BY <2>1, <2>2 DEF Item
  <2> DEFINE n == item[1]
  <2>4. n \in taken
    <3>1. rows[n] \in Row
      BY <1>1, <2>2, <2>3 DEF TypeOK, Claimed
    <3>2. rows[n].attempts \in Nat
      BY <3>1, Attempts
    <3>3. QED
      BY <2>2, <2>3, <3>2 DEF Claimed, taken, Planned
  <2>5. /\ mailed'[n] > 0
        /\ \A k \in Notices \ {n} : mailed'[k] = mailed[k]
    BY <1>1, <2>1, <2>3, Mails
  <2> HIDE DEF n
  <2>6. posted' = posted \cup {n}
    BY <2>3, <2>5 DEF posted, n
  <2>7. Mlg!Post(n)
    BY <1>2, <2>4, <2>6 DEF Mlg!Post
  <2>8. QED
    BY <2>3, <2>7 DEF MailingStep, Mlg!Next, n
<1>5. QED
  BY <1>3, <1>4

\* A row is finished: closed once it was mailed, put back, or given up.
LEMMA FinishEnds ==
  ASSUME IInv, NEW w \in Workers, Finish(w)
  PROVE  MailingStep
<1> DEFINE item == workers[w].item
           n == item[1]
           result == Result(item, workers[w].outcome)
           row == [rows[n] EXCEPT !.status = result, !.lease = "none"]
<1>1. /\ TypeOK /\ posted' = posted /\ rows \in [Notices -> Row \cup {NoRow}]
      /\ workers[w].pc = "finish"
  BY SamePosted DEF IInv, TypeOK, Finish
<1>2. CASE rows' = rows
  BY <1>1, <1>2 DEF MailingStep, statuses, taken, Planned
<1>3. CASE rows' # rows
  <2>1. n \in Notices /\ workers[w].outcome \in Outcomes
    <3>1. workers[w].item \in Item /\ workers[w].outcome \in Outcomes
      BY <1>1, WorkerShape
    <3>2. QED
      BY <3>1 DEF Item
  <2>2. /\ rows[n].status = "processing"
        /\ rows' = [rows EXCEPT ![n].status = result, ![n].lease = "none"]
    BY <1>3 DEF Finish
  <2>3. rows[n] \in Row
    BY <1>1, <2>1, <2>2, RowShape
  <2>4. rows' = [rows EXCEPT ![n] = row]
    BY <1>1, <2>1, <2>2, <2>3, ZenonT(60)
  <2>5. result \in {"pending", "sent", "failed"} /\ (result = "sent" => workers[w].outcome = "sent")
    BY <2>1 DEF Result
  <2>6. result = "sent" => n \in posted
    BY <1>1, <2>1, <2>5 DEF IInv, WorkerOK, posted
  <2> HIDE DEF result, n
  <2>7. row \in Row /\ row.status = result /\ row.attempts = rows[n].attempts
    BY <2>3, <2>5, ZenonT(60) DEF Row
  <2> HIDE DEF row
  <2>8. /\ statuses' = [k \in Notices |-> IF k \in {n} THEN result ELSE statuses[k]]
        /\ statuses[n] = "processing" /\ taken' = taken
    <3>1. rows[n] # NoRow
      BY <2>3, RowShape
    <3>2. /\ statuses' = [k \in Notices |-> IF k \in {n} THEN row.status ELSE statuses[k]]
          /\ statuses[n] = rows[n].status /\ taken' = taken
      BY <1>1, <2>1, <2>4, <2>7, <3>1, OneTurns, ZenonT(60)
    <3>3. QED
      BY <2>2, <2>7, <3>2
  <2>9. CASE result = "sent"
    BY <1>1, <2>1, <2>6, <2>8, <2>9 DEF MailingStep, Mlg!Next, Mlg!Close, Mlg!Turn
  <2>10. CASE result = "pending"
    BY <1>1, <2>1, <2>8, <2>10 DEF MailingStep, Mlg!Next, Mlg!PutBack, Mlg!Turn
  <2>11. CASE result = "failed"
    BY <1>1, <2>1, <2>8, <2>11 DEF MailingStep, Mlg!Next, Mlg!GiveUp, Mlg!Turn
  <2>12. QED
    BY <2>5, <2>9, <2>10, <2>11
<1>4. QED
  BY <1>2, <1>3

\* Mailing does not see leases.
LEMMA LeaseUnseen ==
  ASSUME TypeOK, NEW n \in Notices, LeaseEnds(n)
  PROVE  MailingStep
<1> DEFINE row == [rows[n] EXCEPT !.lease = "over"]
<1>1. rows \in [Notices -> Row \cup {NoRow}] /\ posted' = posted
  BY SamePosted DEF TypeOK, LeaseEnds
<1>2. rows[n] \in Row
  BY <1>1, RowShape DEF LeaseEnds
<1>3. rows' = [rows EXCEPT ![n] = row]
  BY <1>1 DEF LeaseEnds
<1>4. row \in Row /\ row.status = rows[n].status /\ row.attempts = rows[n].attempts
  BY <1>2, LeaseSet, ZenonT(60)
<1> HIDE DEF row
<1>5. rows[n] # NoRow
  BY <1>2, RowShape
<1>6. /\ statuses' = [k \in Notices |-> IF k \in {n} THEN row.status ELSE statuses[k]]
      /\ taken' = taken
  BY <1>3, <1>4, <1>5, OneTurns, ZenonT(60)
<1>7. statuses' = statuses
  BY <1>4, <1>6 DEF statuses
<1>8. QED
  BY <1>1, <1>6, <1>7 DEF MailingStep

\* Every step of a consumer, a worker, the broker or time is a step of Mailing or a stutter,
\* however often messages are delivered again and whoever takes a batch over.
THEOREM MailingImplemented == Spec => ImplementsMailing
<1>1. Init => Mlg!Init
  BY DEF Init, Mlg!Init, statuses, taken, posted, Planned, NoRow
<1>2. IInv /\ [Next]_vars => MailingStep
  <2> SUFFICES ASSUME IInv, [Next]_vars PROVE MailingStep
    OBVIOUS
  <2>1. TypeOK
    BY DEF IInv
  <2>2. CASE UNCHANGED <<rows, mailed>>
    BY <2>2 DEF MailingStep, statuses, taken, posted, Planned
  <2>3. ASSUME NEW c \in Consumers, Plan(c) PROVE MailingStep
    <3>1. <<EventIn(c), TheEvent>> \in Notices
      BY <2>1, <2>3, ConsumerShape DEF Plan, In
    <3>2. QED
      BY <2>1, <2>3, <3>1, InsertPlans DEF Plan
  <2>4. ASSUME NEW c \in Consumers, PlanReminder(c) PROVE MailingStep
    <3>1. PICK o \in consumers[c].todo : Insert(<<EventIn(c), o>>)
      BY <2>4 DEF PlanReminder
    <3>2. /\ consumers[c] \in Consumer
          /\ \A p \in Offsets : <<EventIn(c), p>> \in Notices
      BY <2>1, <2>4, ConsumerShape, ZenonT(60) DEF PlanReminder, In
    <3>3. o \in Offsets
      BY <3>1, <3>2 DEF Consumer
    <3>4. QED
      BY <2>1, <2>4, <3>1, <3>2, <3>3, InsertPlans DEF PlanReminder
  <2>5. ASSUME NEW c \in Consumers, MarkTerminal(c) PROVE MailingStep
    <3> DEFINE n == <<EventIn(c), TheEvent>>
    <3>1. n \in Notices /\ ~Reminder(n)
      BY <2>1, <2>5, ConsumerShape DEF MarkTerminal, In, Reminder
    <3>2. mailed' = mailed /\ (rows' = rows \/ Fail(n))
      BY <2>5 DEF MarkTerminal
    <3> HIDE DEF n
    <3>3. QED
      BY <2>1, <2>2, <3>1, <3>2, AuditGivesUp
  <2>6. \/ UNCHANGED <<rows, mailed>>
        \/ \E c \in Consumers : Plan(c) \/ CancelReminders(c) \/ PlanReminder(c) \/ MarkTerminal(c)
        \/ \E w \in Workers : Claim(w) \/ Send(w) \/ Finish(w)
        \/ \E n \in Notices : LeaseEnds(n)
    BY ZenonT(60) DEF Next, vars, Consume, Deliver, Fetch, ReadOffsets, Ack, HandleFails, Term,
       LoseConsumer, LoseWorker, AckWait, Pass
  <2>7. QED
    BY <2>1, <2>2, <2>3, <2>4, <2>5, <2>6, CancelCancels, ClaimTakes, SendPosts, FinishEnds, LeaseUnseen
<1>3. QED
  BY <1>1, <1>2, Inductive, PTL DEF Spec, MailingStep, ImplementsMailing, Mlg!Spec
=============================================================================
