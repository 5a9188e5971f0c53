---------------------------- MODULE OutboxProofs ----------------------------
(***************************************************************************)
(* Theorems about Outbox, for any number of replicas and events, and any   *)
(* bounds.                                                                 *)
(***************************************************************************)
EXTENDS Outbox, TLAPS

\* A leaf that names no prover is tried with SMT, then Zenon, then SMT again.
USE SMTT(30), ZenonT(30), SMTT(60), SMTT(90)

\* What a publisher whose message has arrived holds is in the stream, until the database
\* call.
Holding ==
  \A p \in Publishers : publishers[p].pc \in {"stored", "acked"} => stream[publishers[p].event] > 0

\* The broker remembers only ids of messages it has stored.
Remembered == \A e \in window : stream[e] > 0

\* What a publisher has claimed, or has in hand, was recorded.
Recorded ==
  \A p \in Publishers : \A e \in Events :
    e \in publishers[p].batch \/ e = publishers[p].event => rows[e] # NoRow

IInv == TypeOK /\ Holding /\ Remembered /\ Recorded /\ NothingIsLost /\ TerminalAtTheBound

-----------------------------------------------------------------------------
\* A row that is in the table is a Row.
LEMMA PresentIsRow ==
  ASSUME TypeOK, NEW e \in Events
  PROVE  /\ Present(e) => rows[e] \in Row
         /\ rows[e] = NoRow => ~Present(e)
         /\ rows[e] = Deleted => ~Present(e)
BY DEF TypeOK, Present, Row, NoRow, Deleted

\* What a step does to one row: nothing, or one of the six updates of the code.
RowStep(e) ==
  \/ rows'[e] = rows[e]
  \/ rows[e] = NoRow /\ rows'[e] = NewRow
  \/ Present(e) /\ rows[e].published /\ rows'[e] = Deleted
  \/ Claimable(e) /\ rows'[e] = [rows[e] EXCEPT !.lease = "leased"]
  \/ Present(e) /\ rows'[e] = [rows[e] EXCEPT !.lease = "stale"]
  \/ /\ Present(e)
     /\ stream[e] > 0
     /\ rows'[e] = [rows[e] EXCEPT !.published = TRUE, !.lease = "free"]
  \/ /\ Present(e)
     /\ ~rows[e].published
     /\ rows'[e] = [rows[e] EXCEPT !.lease = "free", !.attempts = rows[e].attempts + 1,
                      !.failed = rows[e].failed \/ rows[e].attempts + 1 >= MaxAttempts]

\* Every step leaves each row as it is or makes one of the updates of RowStep.
LEMMA RowSteps ==
  ASSUME IInv, [Next]_vars, NEW e \in Events
  PROVE  RowStep(e) /\ rows' = [f \in Events |-> rows'[f]]
<1> USE DEF IInv, TypeOK, RowStep
<1>1. CASE \E p \in Publishers : \/ EnsureReady(p) \/ Publish(p) \/ CallFails(p) \/ Crash(p)
                               \/ Arrive(p) \/ Acknowledge(p) \/ Refuse(p)
  BY <1>1 DEF EnsureReady, Publish, CallFails, Crash, Arrive, Acknowledge, Refuse
<1>2. ASSUME NEW p \in Publishers, Claim(p) PROVE RowStep(e) /\ rows' = [f \in Events |-> rows'[f]]
  BY <1>2 DEF Claim, Claims
<1>3. ASSUME NEW p \in Publishers, Mark(p) PROVE RowStep(e) /\ rows' = [f \in Events |-> rows'[f]]
  BY <1>3, ZenonT(60) DEF Mark, At, Holding
<1>4. ASSUME NEW p \in Publishers, Release(p) PROVE RowStep(e) /\ rows' = [f \in Events |-> rows'[f]]
  BY <1>4, ZenonT(60) DEF Release, At, Holding
<1>5. ASSUME NEW p \in Publishers, EndBatch(p) PROVE RowStep(e) /\ rows' = [f \in Events |-> rows'[f]]
  BY <1>5 DEF EndBatch
<1>6. ASSUME NEW f \in Events, InsertEvent(f) \/ LeaseEnds(f) \/ WindowEnds(f)
      PROVE  RowStep(e) /\ rows' = [g \in Events |-> rows'[g]]
  BY <1>6 DEF InsertEvent, LeaseEnds, WindowEnds
<1>7. CASE GoDown \/ ComeUp \/ UNCHANGED vars
  BY <1>7 DEF GoDown, ComeUp, vars
<1> QED
  BY <1>1, <1>2, <1>3, <1>4, <1>5, <1>6, <1>7 DEF Next, Run

\* A failure is counted in the row, and is the last one at the bound.
LEMMA CountedRow ==
  ASSUME OutboxAssumption, TypeOK, TerminalAtTheBound, NEW e \in Events, Present(e),
         NEW failed \in BOOLEAN, failed <=> rows[e].failed \/ rows[e].attempts + 1 >= MaxAttempts,
         rows'[e] = [rows[e] EXCEPT !.lease = "free", !.attempts = rows[e].attempts + 1, !.failed = failed]
  PROVE  /\ rows[e] \in Row /\ rows'[e] \in Row
         /\ rows'[e].published = rows[e].published
         /\ rows'[e].attempts = rows[e].attempts + 1
         /\ rows'[e].failed <=> rows'[e].attempts >= MaxAttempts
<1>1. rows[e] \in Row /\ rows[e].attempts \in Nat /\ rows[e].failed \in BOOLEAN
  BY PresentIsRow DEF Row
<1>2. rows[e].failed <=> rows[e].attempts >= MaxAttempts
  BY DEF TerminalAtTheBound
<1>3. rows'[e] = [in |-> rows[e].in, lease |-> "free", published |-> rows[e].published,
                  attempts |-> rows[e].attempts + 1, failed |-> failed]
  BY <1>1, ZenonT(60) DEF Row
<1>4. rows[e].in = "table" /\ rows[e].published \in BOOLEAN
  BY <1>1 DEF Row
<1>5. /\ rows'[e] \in Row /\ rows'[e].published = rows[e].published
      /\ rows'[e].attempts = rows[e].attempts + 1 /\ rows'[e].failed = failed
  BY <1>1, <1>3, <1>4 DEF Row, Leases
<1>6. rows[e].attempts >= MaxAttempts => rows[e].attempts + 1 >= MaxAttempts
  BY <1>1 DEF OutboxAssumption
<1>7. rows'[e].failed <=> rows'[e].attempts >= MaxAttempts
  BY <1>2, <1>5, <1>6
<1>8. QED
  BY <1>1, <1>5, <1>7

\* The update of a row keeps its type, and the bound on its attempts.
LEMMA RowStepKeeps ==
  ASSUME OutboxAssumption, TypeOK, TerminalAtTheBound, NEW e \in Events, RowStep(e)
  PROVE  /\ rows'[e] \in Row \cup {NoRow, Deleted}
         /\ Present(e)' => (rows'[e].failed <=> rows'[e].attempts >= MaxAttempts)
<1>1. Present(e) => rows[e] \in Row
  BY PresentIsRow
<1>2. rows[e] \in Row \cup {NoRow, Deleted}
  BY DEF TypeOK
<1>3. Present(e) => (rows[e].failed <=> rows[e].attempts >= MaxAttempts)
  BY DEF TerminalAtTheBound
<1>4. CASE rows'[e] = rows[e]
  BY <1>2, <1>3, <1>4 DEF Present
<1>5. CASE rows'[e] = NewRow
  BY <1>5 DEF Row, NewRow, Leases, OutboxAssumption
<1>6. CASE rows'[e] = Deleted
  BY <1>6 DEF Deleted, Present
<1>7. CASE Present(e) /\ \E l \in Leases : rows'[e] = [rows[e] EXCEPT !.lease = l]
  BY <1>1, <1>3, <1>7 DEF Row
<1>8. CASE Present(e) /\ rows'[e] = [rows[e] EXCEPT !.published = TRUE, !.lease = "free"]
  BY <1>1, <1>3, <1>8, ZenonT(60) DEF Row, Leases
<1>9. CASE /\ Present(e)
           /\ rows'[e] = [rows[e] EXCEPT !.lease = "free", !.attempts = rows[e].attempts + 1,
                            !.failed = rows[e].failed \/ rows[e].attempts + 1 >= MaxAttempts]
  <2>1. PICK failed \in BOOLEAN : failed = (rows[e].failed \/ rows[e].attempts + 1 >= MaxAttempts)
    BY ZenonT(60)
  <2>2. rows'[e] = [rows[e] EXCEPT !.lease = "free", !.attempts = rows[e].attempts + 1, !.failed = failed]
    BY <2>1, <1>9, ZenonT(60)
  <2> QED
    BY <2>1, <2>2, <1>9, CountedRow, ZenonT(60)
<1> QED
  BY <1>4, <1>5, <1>6, <1>7, <1>8, <1>9 DEF RowStep, Claimable, Leases

\* The stream only grows.
LEMMA StreamGrows ==
  ASSUME TypeOK, [Next]_vars
  PROVE  /\ stream' \in [Events -> 0..2]
         /\ \A e \in Events : stream[e] > 0 => stream'[e] > 0
<1>1. CASE \E e \in Events : Store(e)
  BY <1>1 DEF TypeOK, Store
<1>2. CASE UNCHANGED stream
  BY <1>2 DEF TypeOK
<1>3. ASSUME NEW p \in Publishers, Arrive(p) PROVE \E e \in Events : Store(e)
  BY <1>3 DEF Arrive, At, TypeOK, InHand, Awaiting
<1> QED
  BY <1>1, <1>2, <1>3, ZenonT(60) DEF Next, Run, vars, broker, EnsureReady, Claim, Publish, Acknowledge, Refuse,
     Mark, Release, EndBatch, CallFails, Crash, InsertEvent, LeaseEnds, WindowEnds, GoDown, ComeUp

\* What a step does to one publisher.
PublisherStep(p) ==
  \/ publishers'[p] = publishers[p]
  \/ publishers'[p] = Idle
  \/ publishers[p].pc = "idle" /\ publishers'[p] = [publishers[p] EXCEPT !.pc = "ready"]
  \/ /\ publishers[p].pc = "ready"
     /\ \E batch \in SUBSET Events :
          /\ \A e \in batch : Claimable(e)
          /\ publishers'[p] = [publishers[p] EXCEPT !.pc = "batch", !.batch = batch]
  \/ \E e \in publishers[p].batch :
       publishers'[p] = [pc |-> "sent", batch |-> publishers[p].batch \ {e}, event |-> e]
  \/ /\ publishers[p].pc \in Awaiting
     /\ \E pc \in InHand :
          /\ pc = "stored" => Store(publishers[p].event)
          /\ pc = "acked" => publishers[p].pc = "stored"
          /\ publishers'[p] = [publishers[p] EXCEPT !.pc = pc]
  \/ publishers'[p] = [publishers[p] EXCEPT !.pc = "batch", !.event = NoEvent]

\* Every step leaves each publisher as it is or makes a step of PublisherStep.
LEMMA PublisherSteps ==
  ASSUME TypeOK, [Next]_vars, NEW p \in Publishers
  PROVE  PublisherStep(p) /\ publishers' = [q \in Publishers |-> publishers'[q]]
<1> DEFINE Goal == PublisherStep(p) /\ publishers' = [q \in Publishers |-> publishers'[q]]
<1> USE DEF TypeOK, PublisherStep
<1>1. ASSUME NEW q \in Publishers, EnsureReady(q) PROVE Goal
  BY <1>1, ZenonT(60) DEF EnsureReady, At
<1>2. ASSUME NEW q \in Publishers, Claim(q) PROVE Goal
  <2>1. PICK batch \in SUBSET Events :
          /\ \A e \in batch : Claimable(e)
          /\ publishers' = [publishers EXCEPT ![q].pc = "batch", ![q].batch = batch]
    BY <1>2, ZenonT(60) DEF Claim, Claims
  <2> QED
    BY <1>2, <2>1, ZenonT(60) DEF Claim, At
<1>3. ASSUME NEW q \in Publishers, Publish(q) PROVE Goal
  BY <1>3, ZenonT(60) DEF Publish
<1>7. ASSUME NEW q \in Publishers, Arrive(q) \/ Acknowledge(q) \/ Refuse(q) PROVE Goal
  <2>1. PICK pc \in InHand :
          /\ publishers[q].pc \in Awaiting
          /\ pc = "stored" => Store(publishers[q].event)
          /\ pc = "acked" => publishers[q].pc = "stored"
          /\ publishers' = [publishers EXCEPT ![q] = [publishers[q] EXCEPT !.pc = pc]]
    BY <1>7 DEF Arrive, Acknowledge, Refuse, At, InHand, Awaiting
  <2> QED
    BY <2>1, ZenonT(60)
<1>4. ASSUME NEW q \in Publishers, Mark(q) \/ Release(q) \/ CallFails(q) PROVE Goal
  BY <1>4, ZenonT(60) DEF Mark, Release, CallFails, Resume
<1>5. ASSUME NEW q \in Publishers, EndBatch(q) \/ Crash(q) PROVE Goal
  BY <1>5, ZenonT(60) DEF EndBatch, Crash
<1>6. CASE UNCHANGED publishers
  BY <1>6
<1> QED
  BY <1>1, <1>2, <1>3, <1>7, <1>4, <1>5, <1>6, ZenonT(60) DEF Next, Run, vars, InsertEvent, LeaseEnds, WindowEnds,
     GoDown, ComeUp

\* What comes into a batch could be claimed.
LEMMA NewlyClaimed ==
  ASSUME TypeOK, [Next]_vars, NEW p \in Publishers, NEW e \in Events,
         e \in publishers'[p].batch, e \notin publishers[p].batch
  PROVE  Claimable(e)
<1>1. PublisherStep(p)
  BY PublisherSteps
<1>2. publishers[p] \in Publisher
  BY DEF TypeOK
<1>3. ASSUME NEW batch \in SUBSET Events, \A f \in batch : Claimable(f),
             publishers'[p] = [publishers[p] EXCEPT !.pc = "batch", !.batch = batch]
      PROVE  Claimable(e)
  BY <1>2, <1>3 DEF Publisher
<1>4. CASE publishers'[p] = publishers[p] \/ publishers'[p] = Idle
  BY <1>4 DEF Idle
<1>5. CASE publishers'[p] = [publishers[p] EXCEPT !.pc = "ready"]
  BY <1>2, <1>5 DEF Publisher
<1>6. ASSUME NEW f, NEW pc,
             publishers'[p] = [pc |-> pc, batch |-> publishers[p].batch \ {f}, event |-> f]
      PROVE  FALSE
  <2>1. publishers'[p].batch = publishers[p].batch \ {f}
    BY <1>6
  <2> QED
    BY <2>1
<1>7. CASE publishers'[p] = [publishers[p] EXCEPT !.pc = "batch", !.event = NoEvent]
  BY <1>2, <1>7 DEF Publisher
<1>8. ASSUME NEW pc, publishers'[p] = [publishers[p] EXCEPT !.pc = pc] PROVE FALSE
  BY <1>2, <1>8 DEF Publisher
<1> QED
  BY <1>1, <1>3, <1>4, <1>5, <1>6, <1>7, <1>8, ZenonT(60) DEF PublisherStep

\* What comes into a publisher's hand was in its batch.
LEMMA NewlyInHand ==
  ASSUME OutboxAssumption, TypeOK, [Next]_vars, NEW p \in Publishers, NEW e \in Events,
         e = publishers'[p].event, e # publishers[p].event
  PROVE  e \in publishers[p].batch
<1>1. PublisherStep(p) /\ e # NoEvent
  BY PublisherSteps DEF OutboxAssumption, NoEvent
<1>2. publishers[p] \in Publisher
  BY DEF TypeOK
<1>3. CASE publishers'[p] = publishers[p] \/ publishers'[p] = Idle
  BY <1>1, <1>3 DEF Idle
<1>4. ASSUME NEW pc, NEW batch,
             \/ publishers'[p] = [publishers[p] EXCEPT !.pc = pc]
             \/ publishers'[p] = [publishers[p] EXCEPT !.pc = pc, !.batch = batch]
      PROVE  FALSE
  BY <1>2, <1>4, ZenonT(60) DEF Publisher
<1>5. ASSUME NEW f \in publishers[p].batch,
             publishers'[p] = [pc |-> "sent", batch |-> publishers[p].batch \ {f}, event |-> f]
      PROVE  e \in publishers[p].batch
  BY <1>5
<1>6. CASE publishers'[p] = [publishers[p] EXCEPT !.pc = "batch", !.event = NoEvent]
  BY <1>1, <1>2, <1>6 DEF Publisher
<1> QED
  BY <1>1, <1>3, <1>4, <1>5, <1>6, ZenonT(60) DEF PublisherStep

\* A row that was recorded never counts as unrecorded again.
LEMMA StaysRecorded ==
  ASSUME TypeOK, NEW e \in Events, RowStep(e), rows[e] # NoRow
  PROVE  rows'[e] # NoRow
<1>1. Present(e) => rows[e] \in Row
  BY PresentIsRow
<1>2. NoRow \notin Row /\ Deleted # NoRow
  BY DEF Row, NoRow, Deleted
<1>3. CASE rows[e] \in Row
  BY <1>2, <1>3, ZenonT(60) DEF RowStep, Row, NoRow
<1>4. QED
  BY <1>1, <1>2, <1>3 DEF RowStep, Claimable

\* The step of a publisher keeps its type and what it knows of its event.
LEMMA PublisherStepKeeps ==
  ASSUME OutboxAssumption, TypeOK, Holding, Remembered, [Next]_vars, NEW p \in Publishers
  PROVE  /\ publishers'[p] \in Publisher
         /\ publishers'[p].event \in Events <=> publishers'[p].pc \in InHand
         /\ publishers'[p].pc \in {"stored", "acked"} => stream'[publishers'[p].event] > 0
<1>1. PublisherStep(p)
  BY PublisherSteps
<1>2. /\ publishers[p] \in Publisher
      /\ publishers[p].event \in Events <=> publishers[p].pc \in InHand
      /\ NoEvent \notin Events
  BY DEF TypeOK, OutboxAssumption, NoEvent
<1>3. \A e \in Events : stream[e] > 0 => stream'[e] > 0
  BY StreamGrows
<1>4. \A e \in Events : Store(e) => stream'[e] > 0
  <2>1. stream \in [Events -> 0..2]
    BY DEF TypeOK
  <2>2. stream' \in [Events -> 0..2]
    BY StreamGrows
  <2> QED
    BY <2>1, <2>2 DEF Store, Remembered
<1>5. CASE publishers'[p] = publishers[p]
  <2>1. publishers[p].pc \in {"stored", "acked"} => publishers[p].event \in Events
    BY <1>2 DEF InHand, Awaiting
  <2> QED
    BY <1>2, <1>3, <1>5, <2>1, ZenonT(60) DEF Holding
<1>6. CASE publishers'[p] = Idle
  BY <1>2, <1>6 DEF Idle, Publisher, InHand, Awaiting
<1>7. CASE publishers[p].pc = "idle" /\ publishers'[p] = [publishers[p] EXCEPT !.pc = "ready"]
  BY <1>2, <1>7 DEF Publisher, InHand, Awaiting
<1>8. CASE publishers[p].pc = "ready" /\ \E batch \in SUBSET Events :
             publishers'[p] = [publishers[p] EXCEPT !.pc = "batch", !.batch = batch]
  BY <1>2, <1>8, ZenonT(60) DEF Publisher, InHand, Awaiting
<1>9. CASE \E e \in publishers[p].batch :
             publishers'[p] = [pc |-> "sent", batch |-> publishers[p].batch \ {e}, event |-> e]
  BY <1>2, <1>9 DEF Publisher, InHand, Awaiting
<1>10. CASE publishers'[p] = [publishers[p] EXCEPT !.pc = "batch", !.event = NoEvent]
  BY <1>2, <1>10, ZenonT(60) DEF Publisher, InHand, Awaiting
<1>11. ASSUME publishers[p].pc \in Awaiting, NEW pc \in InHand,
              pc = "stored" => Store(publishers[p].event),
              pc = "acked" => publishers[p].pc = "stored",
              publishers'[p] = [publishers[p] EXCEPT !.pc = pc]
       PROVE  /\ publishers'[p] \in Publisher
              /\ publishers'[p].event \in Events <=> publishers'[p].pc \in InHand
              /\ publishers'[p].pc \in {"stored", "acked"} => stream'[publishers'[p].event] > 0
  <2>1. publishers[p].event \in Events
    BY <1>2, <1>11 DEF InHand
  <2>2. /\ publishers'[p] \in Publisher /\ publishers'[p].pc = pc
        /\ publishers'[p].event = publishers[p].event
    BY <1>2, <1>11 DEF Publisher
  <2>3. pc \in {"stored", "acked"} => stream'[publishers[p].event] > 0
    BY <1>3, <1>4, <1>11, <2>1 DEF Holding
  <2> QED
    BY <2>1, <2>2, <2>3
<1> QED
  BY <1>1, <1>5, <1>6, <1>7, <1>8, <1>9, <1>10, <1>11, ZenonT(60) DEF PublisherStep

\* The counters keep their types.
LEMMA CountersStep ==
  ASSUME TypeOK, [Next]_vars
  PROVE  up' \in BOOLEAN /\ window' \subseteq Events /\ faults' \in Nat
<1>1. ASSUME NEW p \in Publishers, Arrive(p)
      PROVE  up' \in BOOLEAN /\ window' \subseteq Events /\ faults' \in Nat
  BY <1>1 DEF TypeOK, Arrive, At, Store, InHand, Awaiting
<1>2. ASSUME NEW p \in Publishers, Release(p)
      PROVE  up' \in BOOLEAN /\ window' \subseteq Events /\ faults' \in Nat
  BY <1>2 DEF TypeOK, Release, broker
<1>3. ASSUME up' \in BOOLEAN, window' \subseteq window,  faults' = faults \/ faults' = faults + 1
      PROVE  up' \in BOOLEAN /\ window' \subseteq Events /\ faults' \in Nat
  BY <1>3 DEF TypeOK
<1>4. CASE \E p \in Publishers : \/ EnsureReady(p) \/ Claim(p) \/ Mark(p) \/ EndBatch(p)
                               \/ Publish(p) \/ Acknowledge(p) \/ Refuse(p)
  BY <1>3, <1>4 DEF TypeOK, broker, EnsureReady, Claim, Mark, EndBatch, Publish, Acknowledge, Refuse
<1>5. CASE \E p \in Publishers : CallFails(p) \/ Crash(p)
  BY <1>3, <1>5 DEF TypeOK, broker, CallFails, Crash
<1>6. CASE \E e \in Events : InsertEvent(e) \/ LeaseEnds(e) \/ WindowEnds(e)
  BY <1>3, <1>6 DEF TypeOK, broker, InsertEvent, LeaseEnds, WindowEnds
<1>7. CASE GoDown \/ ComeUp \/ UNCHANGED vars
  BY <1>3, <1>7, ZenonT(60) DEF TypeOK, GoDown, ComeUp, vars
<1> QED
  BY <1>1, <1>2, <1>4, <1>5, <1>6, <1>7 DEF Next, Run

-----------------------------------------------------------------------------
\* IInv is inductive: it holds initially and every step of a publisher, the broker
\* or time keeps it.
THEOREM Invariance == Spec => []IInv
<1>1. Init => IInv
  BY OutboxAssumption DEF Init, IInv, TypeOK, Holding, Remembered, Recorded, NothingIsLost, TerminalAtTheBound,
     Present, NoRow, Deleted, Idle, Publisher, InHand, Awaiting, NoEvent
<1>2. IInv /\ [Next]_vars => IInv'
  <2> SUFFICES ASSUME IInv, [Next]_vars PROVE IInv'
    OBVIOUS
  <2>0. TypeOK /\ Holding /\ Remembered /\ Recorded /\ NothingIsLost /\ TerminalAtTheBound
    BY DEF IInv
  <2>1. \A e \in Events : RowStep(e)
    BY RowSteps
  <2>2. \A e \in Events :
          /\ rows'[e] \in Row \cup {NoRow, Deleted}
          /\ Present(e)' => (rows'[e].failed <=> rows'[e].attempts >= MaxAttempts)
    BY <2>0, <2>1, RowStepKeeps, OutboxAssumption, ZenonT(60)
  <2>3. rows' \in [Events -> Row \cup {NoRow, Deleted}]
    <3>1. CASE Events = {}
      BY <3>1, <2>0, ZenonT(60) DEF TypeOK, vars, broker, Next, Run, EnsureReady, Claim, Publish, Mark, Release,
         EndBatch, CallFails, Crash, InsertEvent, LeaseEnds, WindowEnds, GoDown, ComeUp, Publisher,
         Arrive, Acknowledge, Refuse, Present, Holding, At
    <3>2. CASE Events # {}
      BY <3>2, <2>2, RowSteps
    <3> QED
      BY <3>1, <3>2
  <2>4. /\ publishers' \in [Publishers -> Publisher]
        /\ \A p \in Publishers :
             publishers'[p].event \in Events <=> publishers'[p].pc \in InHand
        /\ Holding'
    <3>1. CASE Publishers = {}
      BY <3>1, <2>0, ZenonT(60) DEF TypeOK, Holding, vars, Next, InsertEvent, LeaseEnds, WindowEnds, GoDown, ComeUp
    <3>2. CASE Publishers # {}
      BY <3>2, <2>0, PublisherSteps, PublisherStepKeeps, OutboxAssumption DEF Holding
    <3> QED
      BY <3>1, <3>2
  <2>5. TypeOK'
    BY <2>0, <2>3, <2>4, StreamGrows, CountersStep DEF TypeOK
  <2>6. TerminalAtTheBound'
    BY <2>2 DEF TerminalAtTheBound
  <2>7. NothingIsLost'
    <3> SUFFICES ASSUME NEW e \in Events, rows'[e] = Deleted \/ (Present(e)' /\ rows'[e].published)
                 PROVE  stream[e] > 0
      BY <2>0, StreamGrows DEF NothingIsLost
    <3>1. Present(e) => rows[e] \in Row
      BY <2>0, PresentIsRow
    <3>2. CASE rows'[e] = rows[e] \/ stream[e] > 0
      BY <3>2, <2>0 DEF NothingIsLost, Present
    <3>3. CASE rows'[e] = NewRow
      BY <3>3 DEF NewRow, Deleted, Present
    <3>4. CASE Present(e) /\ rows[e].published
      BY <3>4, <2>0 DEF NothingIsLost
    <3>5. CASE Present(e) /\ rows'[e].in = "table" /\ rows'[e].published = rows[e].published
      BY <3>5, <2>0 DEF NothingIsLost, Deleted
    <3>6. CASE Present(e) /\ \E l \in Leases : rows'[e] = [rows[e] EXCEPT !.lease = l]
      BY <3>1, <3>5, <3>6 DEF Row
    <3>7. CASE Present(e) /\ rows'[e] =
                 [rows[e] EXCEPT !.lease = "free", !.attempts = rows[e].attempts + 1,
                    !.failed = rows[e].failed \/ rows[e].attempts + 1 >= MaxAttempts]
      <4>1. rows'[e].in = rows[e].in /\ rows'[e].published = rows[e].published
        BY <3>1, <3>7 DEF Row
      <4> QED
        BY <3>5, <3>7, <4>1 DEF Present
    <3> QED
      BY <2>1, <3>2, <3>3, <3>4, <3>6, <3>7, ZenonT(60) DEF RowStep, Claimable, Leases
  <2>8. Remembered'
    <3>1. window' \subseteq window \/ \E e \in Events : Store(e)
      <4>1. ASSUME NEW p \in Publishers, Arrive(p) PROVE \E e \in Events : Store(e)
        BY <4>1, <2>0 DEF Arrive, At, TypeOK, InHand, Awaiting
      <4> QED
        BY <4>1, ZenonT(60) DEF Next, Run, vars, broker, EnsureReady, Claim, Publish, Acknowledge, Refuse, Mark,
           Release, EndBatch, CallFails, Crash, InsertEvent, LeaseEnds, WindowEnds, GoDown, ComeUp
    <3>2. window \subseteq Events /\ stream \in [Events -> 0..2] /\ stream' \in [Events -> 0..2]
      BY <2>0, <2>5 DEF TypeOK
    <3> QED
      BY <3>1, <3>2, <2>0, StreamGrows DEF Remembered, Store
  <2>9. Recorded'
    <3> SUFFICES ASSUME NEW p \in Publishers, NEW e \in Events,
                        e \in publishers'[p].batch \/ e = publishers'[p].event
                 PROVE  rows'[e] # NoRow
      BY DEF Recorded
    <3>1. rows[e] # NoRow
      <4>1. CASE e \in publishers[p].batch \/ e = publishers[p].event
        BY <2>0, <4>1 DEF Recorded
      <4>2. CASE e \in publishers'[p].batch /\ e \notin publishers[p].batch
        BY <2>0, <4>2, NewlyClaimed, PresentIsRow DEF Claimable
      <4>3. CASE e = publishers'[p].event /\ e # publishers[p].event
        BY <2>0, <4>1, <4>3, NewlyInHand, OutboxAssumption
      <4> QED
        BY <4>1, <4>2, <4>3
    <3> QED
      BY <2>0, <2>1, <3>1, StaysRecorded
  <2> QED
    BY <2>4, <2>5, <2>6, <2>7, <2>8, <2>9 DEF IInv
<1> QED
  BY <1>1, <1>2, PTL DEF Spec

\* Rows, publishers and the stream always have their types.
THEOREM TypeCorrect == Spec => []TypeOK
BY Invariance, PTL DEF IInv

\* No published or deleted row is missing from the stream, for any number of replicas
\* and whatever faults, outages and lease expiries happen.
THEOREM NothingIsLostHolds == Spec => []NothingIsLost
BY Invariance, PTL DEF IInv

\* A row is terminal exactly when its attempts reach the bound.
THEOREM TerminalAtTheBoundHolds == Spec => []TerminalAtTheBound
BY Invariance, PTL DEF IInv

\* No publisher takes a row that is settled, or that is held within its lease.
THEOREM ClaimsRespectLeasesHolds == Spec => ClaimsRespectLeases
<1> DEFINE Respect ==
      \A p \in Publishers, e \in Events :
        e \in publishers'[p].batch \ publishers[p].batch =>
          ~rows[e].published /\ ~rows[e].failed /\ rows[e].lease # "leased"
<1>1. TypeOK /\ [Next]_vars => [Respect]_vars
  BY NewlyClaimed DEF Claimable
<1>2. Spec => [][Respect]_vars
  BY <1>1, TypeCorrect, PTL DEF Spec
<1> QED
  BY <1>2 DEF ClaimsRespectLeases

-----------------------------------------------------------------------------
(* The outbox implements Relay.                                            *)

\* What Relay knows of a row by its columns.
LEMMA RecordOfRow ==
  /\ RecordOf(NoRow) = Rel!Unrecorded
  /\ RecordOf(Deleted) = Rel!Forgotten
  /\ RecordOf(NewRow) = Rel!Known("owed", 0)
  /\ \A r \in Row :
       RecordOf(r) = Rel!Known(IF r.published THEN "published" ELSE IF r.failed THEN "abandoned" ELSE "owed",
                               r.attempts)
<1>1. NoRow # Deleted /\ NewRow \in Row /\ NoRow \notin Row /\ Deleted \notin Row
  BY DEF Row, NoRow, Deleted, NewRow, Leases
<1>2. ~NewRow.published /\ ~NewRow.failed /\ NewRow.attempts = 0
  BY DEF NewRow
<1>3. QED
  BY <1>1, <1>2 DEF RecordOf, Rel!Unrecorded, Rel!Forgotten, Rel!Known

\* Relay's view of a row is unsettled exactly while the row is there and not published.
LEMMA UnsettledRow ==
  ASSUME TypeOK, NEW e \in Events
  PROVE  /\ Rel!Unsettled(e) <=> Present(e) /\ ~rows[e].published
         /\ record[e].state = "published" <=> Present(e) /\ rows[e].published
<1>1. record[e] = RecordOf(rows[e])
  BY DEF record
<1>2. CASE rows[e] \in Row
  <2>1. Present(e)
    BY <1>2 DEF Present, Row
  <2>2. record[e].state = IF rows[e].published THEN "published" ELSE IF rows[e].failed THEN "abandoned" ELSE "owed"
    BY <1>1, <1>2, RecordOfRow DEF Rel!Known
  <2>3. QED
    BY <2>1, <2>2 DEF Rel!Unsettled
<1>3. CASE rows[e] \in {NoRow, Deleted}
  <2>1. ~Present(e)
    BY <1>3 DEF Present, NoRow, Deleted
  <2>2. record[e].state \in {"unrecorded", "forgotten"}
    BY <1>1, <1>3, RecordOfRow DEF Rel!Unrecorded, Rel!Forgotten
  <2>3. QED
    BY <2>1, <2>2 DEF Rel!Unsettled
<1>4. QED
  BY <1>2, <1>3 DEF TypeOK

\* When one row changes, so does what Relay knows of it, and nothing else.
LEMMA OneRecord ==
  ASSUME TypeOK, NEW e \in Events, NEW row, rows' = [rows EXCEPT ![e] = row]
  PROVE  record' = [record EXCEPT ![e] = RecordOf(row)]
<1>1. \A f \in Events : rows'[f] = IF f = e THEN row ELSE rows[f]
  BY DEF TypeOK
<1>2. record = [f \in Events |-> RecordOf(rows[f])] /\ record' = [f \in Events |-> RecordOf(rows'[f])]
  BY DEF record
<1>3. QED
  BY <1>1, <1>2

\* Without a publish the stream stays as it is.
LEMMA SameDelivered ==
  ASSUME UNCHANGED stream
  PROVE  UNCHANGED delivered
  BY DEF delivered

\* A message that arrives delivers an event that is unsettled, or one that was delivered
\* before.
LEMMA ArriveRelays ==
  ASSUME IInv, NEW p \in Publishers, Arrive(p)
  PROVE  [Rel!Next]_<<record, delivered>>
<1>1. TypeOK /\ UNCHANGED rows /\ stream \in [Events -> 0..2]
  BY DEF IInv, TypeOK, Arrive
<1>2. UNCHANGED record
  BY <1>1 DEF record
<1>3. PICK e \in Events : e = publishers[p].event /\ Store(e)
  BY <1>1 DEF Arrive, At, TypeOK, InHand, Awaiting
<1>4. e \in Events /\ rows[e] # NoRow
  BY <1>1, <1>3 DEF IInv, Recorded
<1>5. CASE delivered' = delivered
  BY <1>2, <1>5
<1>6. CASE delivered' # delivered
  <2>1. Store(e) /\ stream' # stream
    BY <1>3, <1>6, SameDelivered DEF delivered
  <2>2. stream' = [stream EXCEPT ![e] = stream[e] + 1]
    BY <1>1, <1>4, <2>1 DEF Store
  <2>3. \A f \in Events : stream'[f] > 0 <=> stream[f] > 0 \/ f = e
    BY <1>1, <1>4, <2>2
  <2>4. delivered' = delivered \cup {e}
    BY <1>4, <2>3 DEF delivered
  <2>5. ~(stream[e] > 0)
    BY <1>4, <1>6, <2>4 DEF delivered
  <2>6. Present(e) /\ ~rows[e].published
    <3>1. rows[e] # Deleted /\ ~(Present(e) /\ rows[e].published)
      BY <1>4, <2>5 DEF IInv, NothingIsLost
    <3>2. rows[e] \in Row
      BY <1>1, <1>4, <3>1 DEF TypeOK
    <3>3. QED
      BY <3>1, <3>2 DEF Present, Row
  <2>7. Rel!Deliver(e)
    BY <1>1, <1>2, <1>4, <2>4, <2>6, UnsettledRow DEF Rel!Deliver
  <2>8. QED
    BY <1>4, <2>7 DEF Rel!Next
<1>7. QED
  BY <1>5, <1>6

\* A mark settles an event that is in the stream.
LEMMA MarkRelays ==
  ASSUME IInv, NEW p \in Publishers, Mark(p)
  PROVE  [Rel!Next]_<<record, delivered>>
<1> DEFINE e == publishers[p].event
           row == [rows[e] EXCEPT !.published = TRUE, !.lease = "free"]
<1>1. TypeOK /\ UNCHANGED delivered /\ publishers[p].pc = "acked"
  BY SameDelivered DEF IInv, Mark, At, broker
<1>2. e \in Events /\ e \in delivered
  BY <1>1 DEF IInv, TypeOK, Holding, delivered, InHand
<1>3. CASE UNCHANGED rows
  BY <1>1, <1>3 DEF record
<1>4. CASE Present(e) /\ ~rows[e].published /\ rows' # rows
  <2>1. rows' = [rows EXCEPT ![e] = row]
    BY <1>1, <1>2, <1>4, ZenonT(60) DEF Mark, TypeOK
  <2>2. rows[e] \in Row
    BY <1>1, <1>2, <1>4, PresentIsRow
  <2>3. row \in Row /\ row.published /\ row.attempts = rows[e].attempts
    BY <2>2, ZenonT(60) DEF Row, Leases
  <2>4. record[e].failures = rows[e].attempts
    BY <1>2, <2>2, RecordOfRow DEF record, Rel!Known
  <2> HIDE DEF row
  <2>5. RecordOf(row) = Rel!Known("published", record[e].failures)
    BY <2>3, <2>4, RecordOfRow
  <2> HIDE DEF e
  <2>6. record' = [record EXCEPT ![e] = RecordOf(row)]
    BY <1>1, <1>2, <2>1, OneRecord, ZenonT(60)
  <2>7. Rel!Settle(e)
    BY <1>1, <1>2, <1>4, <2>5, <2>6, UnsettledRow DEF Rel!Settle, Rel!Becomes
  <2>8. QED
    BY <1>2, <2>7 DEF Rel!Next
<1>5. QED
  BY <1>3, <1>4 DEF Mark

\* A release counts a failure, and gives the event up at the bound.
LEMMA ReleaseRelays ==
  ASSUME IInv, NEW p \in Publishers, Release(p)
  PROVE  [Rel!Next]_<<record, delivered>>
<1> DEFINE e == publishers[p].event
<1>1. TypeOK /\ UNCHANGED delivered /\ publishers[p].pc = "nacked"
  BY SameDelivered DEF IInv, Release, At, broker
<1>2. e \in Events
  BY <1>1 DEF TypeOK, InHand
<1>3. CASE UNCHANGED rows
  BY <1>1, <1>3 DEF record
<1>4. CASE Present(e) /\ ~rows[e].published /\ rows' # rows
  <2>0. PICK failed \in BOOLEAN : failed = (rows[e].failed \/ rows[e].attempts + 1 >= MaxAttempts)
    BY ZenonT(60)
  <2>1. rows'[e] = [rows[e] EXCEPT !.lease = "free", !.attempts = rows[e].attempts + 1, !.failed = failed]
    BY <1>1, <1>2, <1>4, <2>0, ZenonT(60) DEF Release, TypeOK
  <2>2. rows' = [rows EXCEPT ![e] = rows'[e]]
    BY <1>1, <1>2, <1>4, ZenonT(60) DEF Release, TypeOK
  <2> HIDE DEF e
  <2>3. /\ rows[e] \in Row /\ rows'[e] \in Row /\ ~rows'[e].published
        /\ rows'[e].attempts = rows[e].attempts + 1
        /\ rows'[e].failed <=> rows'[e].attempts >= MaxAttempts
    BY <1>1, <1>2, <1>4, <2>0, <2>1, CountedRow, OutboxAssumption, ZenonT(60) DEF IInv
  <2>4. record[e].failures = rows[e].attempts
    BY <1>2, <2>3, RecordOfRow DEF record, Rel!Known
  <2>5. RecordOf(rows'[e]) = Rel!Known(IF record[e].failures + 1 >= MaxAttempts THEN "abandoned" ELSE "owed",
                                       record[e].failures + 1)
    BY <2>3, <2>4, RecordOfRow
  <2>6. record' = [record EXCEPT ![e] = RecordOf(rows'[e])]
    BY <1>1, <1>2, <2>2, OneRecord, ZenonT(60)
  <2>7. Rel!Fail(e)
    BY <1>1, <1>2, <1>4, <2>5, <2>6, UnsettledRow DEF Rel!Fail, Rel!Becomes
  <2>8. QED
    BY <1>2, <2>7 DEF Rel!Next
<1>5. QED
  BY <1>3, <1>4 DEF Release

\* Retention forgets events that are published.
LEMMA RetentionRelays ==
  ASSUME IInv, NEW p \in Publishers, EndBatch(p)
  PROVE  [Rel!Next]_<<record, delivered>>
<1>1. TypeOK /\ UNCHANGED delivered
  BY SameDelivered DEF IInv, EndBatch, broker
<1>2. PICK old \in SUBSET {e \in Events : Present(e) /\ rows[e].published} :
        rows' = [e \in Events |-> IF e \in old THEN Deleted ELSE rows[e]]
  BY DEF EndBatch
<1>3. \A e \in old : record[e].state = "published"
  BY <1>1, <1>2, UnsettledRow
<1>4. \A e \in Events : rows'[e] = IF e \in old THEN Deleted ELSE rows[e]
  BY <1>2
<1>5. record = [e \in Events |-> RecordOf(rows[e])] /\ record' = [e \in Events |-> RecordOf(rows'[e])]
  BY DEF record
<1>6. record' = [e \in Events |-> IF e \in old THEN Rel!Forgotten ELSE record[e]]
  BY <1>4, <1>5, RecordOfRow
<1>7. Rel!Forget(old)
  BY <1>1, <1>3, <1>6 DEF Rel!Forget
<1>8. QED
  BY <1>2, <1>7 DEF Rel!Next

\* A booking transaction records its event.
LEMMA InsertRelays ==
  ASSUME IInv, NEW e \in Events, InsertEvent(e)
  PROVE  [Rel!Next]_<<record, delivered>>
<1>1. TypeOK /\ UNCHANGED delivered /\ rows[e] = NoRow /\ rows' = [rows EXCEPT ![e] = NewRow]
  BY SameDelivered DEF IInv, InsertEvent, broker
<1>2. record[e] = Rel!Unrecorded
  BY <1>1, RecordOfRow DEF record
<1>3. record' = [record EXCEPT ![e] = Rel!Known("owed", 0)]
  <2>1. record' = [record EXCEPT ![e] = RecordOf(NewRow)]
    BY <1>1, OneRecord, ZenonT(60)
  <2>2. QED
    BY <2>1, RecordOfRow
<1>4. Rel!Record(e)
  BY <1>1, <1>2, <1>3 DEF Rel!Record, Rel!Becomes
<1>5. QED
  BY <1>4 DEF Rel!Next

\* Relay does not see leases.
LEMMA LeaseUnseen ==
  ASSUME NEW r \in Row, NEW l \in Leases
  PROVE  [r EXCEPT !.lease = l] \in Row /\ RecordOf([r EXCEPT !.lease = l]) = RecordOf(r)
<1> DEFINE s == [r EXCEPT !.lease = l]
<1>1. /\ s \in Row /\ s.published = r.published /\ s.failed = r.failed /\ s.attempts = r.attempts
  BY DEF Row
<1> HIDE DEF s
<1>2. RecordOf(s) = RecordOf(r)
  BY <1>1, RecordOfRow
<1>3. QED
  BY <1>1, <1>2 DEF s

\* Claims and the end of a lease stutter.
LEMMA LeasesRelay ==
  ASSUME IInv, (\E p \in Publishers : Claim(p)) \/ (\E e \in Events : LeaseEnds(e))
  PROVE  UNCHANGED <<record, delivered>>
<1>1. TypeOK /\ UNCHANGED stream
  BY ZenonT(60) DEF IInv, Claim, LeaseEnds, broker
<1>2. ASSUME NEW e \in Events
      PROVE  \/ rows'[e] = rows[e]
             \/ Present(e) /\ \E l \in Leases : rows'[e] = [rows[e] EXCEPT !.lease = l]
  <2>1. ASSUME NEW p \in Publishers, Claim(p)
        PROVE  rows'[e] = rows[e] \/ (Present(e) /\ rows'[e] = [rows[e] EXCEPT !.lease = "leased"])
    BY <2>1, ZenonT(60) DEF Claim, Claims, Claimable
  <2>2. ASSUME NEW f \in Events, LeaseEnds(f)
        PROVE  rows'[e] = rows[e] \/ (Present(e) /\ rows'[e] = [rows[e] EXCEPT !.lease = "stale"])
    BY <1>1, <2>2 DEF LeaseEnds, TypeOK
  <2>3. QED
    BY <2>1, <2>2 DEF Leases
<1>3. \A e \in Events : RecordOf(rows'[e]) = RecordOf(rows[e])
  <2> SUFFICES ASSUME NEW e \in Events PROVE RecordOf(rows'[e]) = RecordOf(rows[e])
    OBVIOUS
  <2>1. Present(e) => rows[e] \in Row
    BY <1>1, PresentIsRow
  <2>2. QED
    BY <1>2, <2>1, LeaseUnseen, ZenonT(60)
<1>4. UNCHANGED record
  BY <1>3 DEF record
<1>5. QED
  BY <1>1, <1>4, SameDelivered

\* Every step of a publisher, the broker or time is a step of Relay or a stutter: the
\* outbox relays every recorded event at least once, and forgets none it has not relayed.
THEOREM RelayImplemented == Spec => ImplementsRelay
<1>1. Init => Rel!Init
  BY RecordOfRow DEF Init, Rel!Init, record, delivered
<1>2. IInv /\ [Next]_vars => [Rel!Next]_<<record, delivered>>
  <2> SUFFICES ASSUME IInv, [Next]_vars PROVE [Rel!Next]_<<record, delivered>>
    OBVIOUS
  <2>1. CASE UNCHANGED <<rows, stream>>
    BY <2>1 DEF record, delivered
  <2>2. \/ UNCHANGED <<rows, stream>>
        \/ \E p \in Publishers : Claim(p) \/ Arrive(p) \/ Mark(p) \/ Release(p) \/ EndBatch(p)
        \/ \E e \in Events : InsertEvent(e) \/ LeaseEnds(e)
    BY ZenonT(60) DEF Next, Run, vars, broker, EnsureReady, Publish, Acknowledge, Refuse, CallFails, Crash, WindowEnds, GoDown, ComeUp
  <2> QED
    BY <2>1, <2>2, ArriveRelays, MarkRelays, ReleaseRelays, RetentionRelays, InsertRelays, LeasesRelay
<1> QED
  BY <1>1, <1>2, Invariance, PTL DEF Spec, ImplementsRelay, Rel!Spec
=============================================================================
