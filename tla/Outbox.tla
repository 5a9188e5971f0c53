------------------------------- MODULE Outbox -------------------------------
(***************************************************************************)
(* The transactional outbox of appointment-service: rows that booking      *)
(* transactions insert, the publishers (one per running replica) that      *)
(* lease them in batches and publish them to JetStream, the bound on       *)
(* retries, and retention.                                                 *)
(*                                                                         *)
(* A lease is a timestamp, publishing_at: no token ties a row to the       *)
(* publisher that holds it, so a publisher that outlives its lease still   *)
(* marks and releases rows that another one has claimed since.             *)
(***************************************************************************)
EXTENDS Integers, FiniteSets

CONSTANTS
  Publishers,
  Events,       \* outbox ids; a smaller number has an earlier created_at
  Poison,       \* events the broker will not take
  Limit,        \* rows per claim (50 in the code)
  MaxAttempts,  \* failed publishes before a row is terminal (20 in the code)
  MaxFaults     \* bound on crashes and failed database calls

ASSUME OutboxAssumption ==
  /\ Events \subseteq Nat
  /\ Poison \subseteq Events
  /\ Limit \in Nat \ {0}
  /\ MaxAttempts \in Nat \ {0}
  /\ MaxFaults \in Nat

VARIABLES
  rows,           \* public.outbox_events
  publishers,     \* what each publisher is doing
  up,             \* the broker answers
  stream,         \* how often an event is in the stream: 0, 1, or 2 for more
  window,         \* message ids the broker still deduplicates
  faults

vars == <<rows, publishers, up, stream, window, faults>>
broker == <<up, stream, window>>

-----------------------------------------------------------------------------
\* publishing_at: NULL, less than a minute old, or older.
Leases == {"free", "leased", "stale"}
Row == [in : {"table"}, lease : Leases, published : BOOLEAN, attempts : Nat, failed : BOOLEAN]
NoRow == [in |-> "nothing"]
Deleted == [in |-> "retention"]
NewRow == [in |-> "table", lease |-> "free", published |-> FALSE, attempts |-> 0,
           failed |-> FALSE]

NoEvent == -1
\* Where publishOne is: in PublishMsg, its message not yet or already in the stream, or
\* past it.
Awaiting == {"sent", "stored"}
InHand == Awaiting \cup {"acked", "nacked"}
Publisher == [pc : {"idle", "ready", "batch"} \cup InHand, batch : SUBSET Events,
              event : Events \cup {NoEvent}]
Idle == [pc |-> "idle", batch |-> {}, event |-> NoEvent]

Present(e) == rows[e].in = "table"

\* The candidates of claim_outbox_events.
Claimable(e) ==
  /\ Present(e)
  /\ ~rows[e].published
  /\ ~rows[e].failed
  /\ rows[e].lease \in {"free", "stale"}

\* ORDER BY created_at LIMIT: the oldest candidates, as many as the limit admits.
Claims(batch) ==
  LET candidates == {e \in Events : Claimable(e)}
  IN  /\ batch \subseteq candidates
      /\ \A e \in batch, f \in candidates \ batch : e < f
      /\ Cardinality(batch) = Limit \/ (Cardinality(batch) < Limit /\ batch = candidates)

Init ==
  /\ rows = [e \in Events |-> NoRow]
  /\ publishers = [p \in Publishers |-> Idle]
  /\ up = TRUE
  /\ stream = [e \in Events |-> 0]
  /\ window = {}
  /\ faults = 0

At(p, pc) == publishers[p].pc = pc

-----------------------------------------------------------------------------
\* appendEvent: a booking transaction commits.  created_at is the start of the
\* transaction, so rows may appear in another order than the one they are claimed in.
InsertEvent(e) ==
  /\ rows[e] = NoRow
  /\ rows' = [rows EXCEPT ![e] = NewRow]
  /\ UNCHANGED <<publishers, broker, faults>>

\* ensureReady: the broker answers; otherwise the tick ends.
EnsureReady(p) ==
  /\ At(p, "idle")
  /\ up
  /\ publishers' = [publishers EXCEPT ![p].pc = "ready"]
  /\ UNCHANGED <<rows, broker, faults>>

\* publishBatch: ClaimOutbox leases a batch.  UPDATE ... RETURNING gives the rows
\* in no particular order, so the batch is a set.
Claim(p) ==
  /\ At(p, "ready")
  /\ \E batch \in SUBSET Events :
       /\ Claims(batch)
       /\ rows' = [e \in Events |-> IF e \in batch THEN [rows[e] EXCEPT !.lease = "leased"]
                                                   ELSE rows[e]]
       /\ publishers' = [publishers EXCEPT ![p].pc = "batch", ![p].batch = batch]
  /\ UNCHANGED <<broker, faults>>

\* The broker stores a message unless it remembers its Nats-Msg-Id.
Store(e) ==
  /\ stream' = IF e \in window \/ stream[e] = 2 THEN stream
               ELSE [stream EXCEPT ![e] = @ + 1]
  /\ window' = window \cup {e}
  /\ UNCHANGED up

\* publishOne: PublishMsg is called under a context without a deadline, on a connection
\* that reconnects for ever, so it waits until the broker answers, however long that is.
Publish(p) ==
  /\ At(p, "batch")
  /\ \E e \in publishers[p].batch :
       publishers' = [publishers EXCEPT ![p] = [pc |-> "sent", batch |-> @.batch \ {e}, event |-> e]]
  /\ UNCHANGED <<rows, broker, faults>>

\* The message, which the client keeps while it reconnects, reaches the stream.
Arrive(p) ==
  /\ At(p, "sent")
  /\ up
  /\ publishers[p].event \notin Poison
  /\ Store(publishers[p].event)
  /\ publishers' = [publishers EXCEPT ![p] = [@ EXCEPT !.pc = "stored"]]
  /\ UNCHANGED <<rows, faults>>

\* PublishMsg returns with the acknowledgement, unless that is lost.
Acknowledge(p) ==
  /\ At(p, "stored")
  /\ up
  /\ publishers' = [publishers EXCEPT ![p] = [@ EXCEPT !.pc = "acked"]]
  /\ UNCHANGED <<rows, broker, faults>>

\* PublishMsg returns an error: the broker refuses the message, nobody answers for the
\* stream, or the client can keep no more.
Refuse(p) ==
  /\ At(p, "sent")
  /\ ~up \/ publishers[p].event \in Poison
  /\ publishers' = [publishers EXCEPT ![p] = [@ EXCEPT !.pc = "nacked"]]
  /\ UNCHANGED <<rows, broker, faults>>

\* Mistake: the event in hand is not put down.
ResumeWithEvent(p) ==
  publishers' = [publishers EXCEPT ![p] = [@ EXCEPT !.pc = "batch"]]

\* publishOne returns, and the loop of publishBatch goes on.
Resume(p) ==
  publishers' = [publishers EXCEPT ![p] = [@ EXCEPT !.pc = "batch", !.event = NoEvent]]

\* mark_outbox_event_published.
Mark(p) ==
  /\ At(p, "acked")
  /\ LET e == publishers[p].event
     IN  rows' = IF Present(e) /\ ~rows[e].published
                 THEN [rows EXCEPT ![e].published = TRUE, ![e].lease = "free"]
                 ELSE rows
  /\ Resume(p)
  /\ UNCHANGED <<broker, faults>>

\* Mistake: the bound is never reached.
ReleaseForEver(p) ==
  /\ At(p, "nacked")
  /\ LET e == publishers[p].event
     IN  rows' = IF Present(e) /\ ~rows[e].published
                 THEN [rows EXCEPT ![e].lease = "free"]
                 ELSE rows
  /\ Resume(p)
  /\ UNCHANGED <<broker, faults>>

\* Mistake: the bound is compared with the attempts before this one.
ReleaseOneMore(p) ==
  /\ At(p, "nacked")
  /\ LET e == publishers[p].event
     IN  rows' = IF Present(e) /\ ~rows[e].published
                 THEN [rows EXCEPT ![e].lease = "free", ![e].attempts = @ + 1,
                                   ![e].failed = rows[e].failed \/ rows[e].attempts >= MaxAttempts]
                 ELSE rows
  /\ Resume(p)
  /\ UNCHANGED <<broker, faults>>

\* release_outbox_event.
Release(p) ==
  /\ At(p, "nacked")
  /\ LET e == publishers[p].event
         attempts == rows[e].attempts + 1
     IN  rows' = IF Present(e) /\ ~rows[e].published
                 THEN [rows EXCEPT ![e].lease = "free", ![e].attempts = attempts,
                                   ![e].failed = rows[e].failed \/ attempts >= MaxAttempts]
                 ELSE rows
  /\ Resume(p)
  /\ UNCHANGED <<broker, faults>>

\* The call that claims the batch, or that marks or releases a row, fails and is not
\* repeated.
CallFails(p) ==
  /\ publishers[p].pc \in {"ready", "acked", "nacked"}
  /\ faults < MaxFaults
  /\ faults' = faults + 1
  /\ Resume(p)
  /\ UNCHANGED <<rows, broker>>

\* Mistake: retention deletes by age alone.
EndBatchByAge(p) ==
  /\ At(p, "batch")
  /\ publishers[p].batch = {}
  /\ \E old \in SUBSET {e \in Events : Present(e)} :
       rows' = [e \in Events |-> IF e \in old THEN Deleted ELSE rows[e]]
  /\ publishers' = [publishers EXCEPT ![p] = Idle]
  /\ UNCHANGED <<broker, faults>>

\* After the batch, cleanupRetention: rows published more than 30 days ago, if it is
\* an hour since the last time and there are any.
EndBatch(p) ==
  /\ At(p, "batch")
  /\ publishers[p].batch = {}
  /\ \E old \in SUBSET {e \in Events : Present(e) /\ rows[e].published} :
       rows' = [e \in Events |-> IF e \in old THEN Deleted ELSE rows[e]]
  /\ publishers' = [publishers EXCEPT ![p] = Idle]
  /\ UNCHANGED <<broker, faults>>

-----------------------------------------------------------------------------
\* A replica dies, or is told to stop, between any two calls or while it waits for the
\* broker: Close cancels the context, and with it the database call that would follow.
Crash(p) ==
  /\ ~At(p, "idle")
  /\ faults < MaxFaults
  /\ faults' = faults + 1
  /\ publishers' = [publishers EXCEPT ![p] = Idle]
  /\ UNCHANGED <<rows, broker>>

\* A minute passes since publishing_at, whether the publisher is done or not.
LeaseEnds(e) ==
  /\ Present(e)
  /\ rows[e].lease = "leased"
  /\ rows' = [rows EXCEPT ![e].lease = "stale"]
  /\ UNCHANGED <<publishers, broker, faults>>

\* The broker forgets a message id.
WindowEnds(e) ==
  /\ e \in window
  /\ window' = window \ {e}
  /\ UNCHANGED <<rows, publishers, up, stream, faults>>

GoDown ==
  /\ up
  /\ up' = FALSE
  /\ UNCHANGED <<rows, publishers, stream, window, faults>>

ComeUp ==
  /\ ~up
  /\ up' = TRUE
  /\ UNCHANGED <<rows, publishers, stream, window, faults>>

Run(p) ==
  EnsureReady(p) \/ Claim(p) \/ Publish(p) \/ Mark(p) \/ Release(p) \/ EndBatch(p)

Next ==
  \/ \E p \in Publishers : Run(p) \/ CallFails(p) \/ Crash(p)
  \/ \E p \in Publishers : Arrive(p) \/ Acknowledge(p) \/ Refuse(p)
  \/ \E e \in Events : InsertEvent(e) \/ LeaseEnds(e) \/ WindowEnds(e)
  \/ GoDown
  \/ ComeUp

Spec == Init /\ [][Next]_vars

\* Publishers tick, time passes, and an outage ends.  Nothing says that PublishMsg ever
\* returns.
FairSpec ==
  /\ Spec
  /\ \A p \in Publishers : WF_vars(Run(p)) /\ SF_vars(EnsureReady(p))
  /\ \A e \in Events : WF_vars(LeaseEnds(e))
  /\ WF_vars(ComeUp)

-----------------------------------------------------------------------------
(* Properties.                                                             *)

\* Rows, publishers and the stream have their types, and a publisher has an event in
\* hand exactly from its publish to the database call that follows.
TypeOK ==
  /\ rows \in [Events -> Row \cup {NoRow, Deleted}]
  /\ publishers \in [Publishers -> Publisher]
  /\ \A p \in Publishers : publishers[p].event \in Events <=> publishers[p].pc \in InHand
  /\ up \in BOOLEAN
  /\ stream \in [Events -> 0..2]
  /\ window \subseteq Events
  /\ faults \in Nat

\* No event is lost: a row that counts as published, or that retention has deleted,
\* is in the stream, whatever publishers crash, outlive their leases, or lose
\* acknowledgements and database calls.
NothingIsLost ==
  \A e \in Events :
    rows[e] = Deleted \/ (Present(e) /\ rows[e].published) => stream[e] > 0

\* A row is given up exactly when its failed publishes reach the bound, late
\* releases by publishers that lost their lease included.
TerminalAtTheBound ==
  \A e \in Events : Present(e) => (rows[e].failed <=> rows[e].attempts >= MaxAttempts)

\* A publisher claims no row that is settled or that another publisher holds within
\* its lease: only a lease that ran out is taken over.
ClaimsRespectLeases ==
  [][\A p \in Publishers, e \in Events :
       e \in publishers'[p].batch \ publishers[p].batch =>
         ~rows[e].published /\ ~rows[e].failed /\ rows[e].lease # "leased"]_vars

\* The publishes of some replica always return.
SomePublisherReturns ==
  \E p \in Publishers : []<>(publishers[p].pc \notin Awaiting)

\* Every event of a committed booking is published or given up, as long as not every
\* replica ends up waiting for an acknowledgement for ever: no row is left behind by a
\* crash, an outage, a lost call, or a replica that waits for ever with its batch.
EveryEventSettles ==
  SomePublisherReturns =>
    \A e \in Events :
      Present(e) ~> rows[e] = Deleted \/ (Present(e) /\ (rows[e].published \/ rows[e].failed))

\* The outbox implements Relay: whatever publishers crash, outlive their leases, or lose
\* acknowledgements and calls, no event is in the stream before its row is committed, none
\* counts as published or is deleted that is not in the stream, and none is given up
\* before its failures reach the bound.
RecordOf(row) ==
  IF row = NoRow THEN [state |-> "unrecorded"]
  ELSE IF row = Deleted THEN [state |-> "forgotten"]
  ELSE [state |-> IF row.published THEN "published" ELSE IF row.failed THEN "abandoned" ELSE "owed",
        failures |-> row.attempts]
record == [e \in Events |-> RecordOf(rows[e])]
delivered == {e \in Events : stream[e] > 0}

Rel == INSTANCE Relay WITH record <- record, delivered <- delivered
ImplementsRelay == Rel!Spec

\* What migration 000005 says of terminal rows: they are "never deleted by
\* cleanup_published_outbox_events" and "remain queryable ... indefinitely".
TerminalRowsAreKept ==
  [][\A e \in Events : Present(e) /\ rows[e].failed => rows'[e] # Deleted]_vars
=============================================================================
