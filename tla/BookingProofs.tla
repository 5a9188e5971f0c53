---------------------------- MODULE BookingProofs ----------------------------
(***************************************************************************)
(* Proofs about Booking, for every set of requests, appointments, barbers, *)
(* principals, keys and start times.                                       *)
(***************************************************************************)
EXTENDS Booking, TLAPS

\* A leaf that names no prover is tried with SMT, then Zenon, then SMT again.
USE SMTT(30), ZenonT(30), SMTT(60), SMTT(90)

-----------------------------------------------------------------------------
(* Types of requests.                                                      *)

CreatePCs == {"received", "fresh", "sized", "checked", "locked"}
MovePCs == {"moving", "moving_sized", "moving_checked"}
CancelPCs == {"cancelling", "cancelling_checked"}

\* The step a request is at tells which record it is.
LEMMA RequestShape ==
  ASSUME TypeOK, NEW r \in Requests
  PROVE  /\ requests[r].pc \in CreatePCs => requests[r] \in Creating
         /\ requests[r].pc \in MovePCs => requests[r] \in Rescheduling
         /\ requests[r].pc \in CancelPCs => requests[r] \in Cancelling
         /\ requests[r].pc = "done" => requests[r] \in Done
<1>1. requests[r] \in RequestStates
  BY DEF TypeOK
<1>2. Idle.pc = "idle"
  BY DEF Idle
<1>3. QED
  BY <1>1, <1>2 DEF RequestStates, Creating, Rescheduling, Cancelling, Done,
     CreatePCs, MovePCs, CancelPCs

\* Moving a create on keeps its type.
LEMMA GotoType ==
  ASSUME TypeOK, NEW r \in Requests, NEW pc,
         \/ requests[r] \in Creating /\ pc \in CreatePCs
         \/ requests[r] \in Rescheduling /\ pc \in MovePCs
         \/ requests[r] \in Cancelling /\ pc \in CancelPCs,
         Goto(r, pc)
  PROVE  requests' \in [Requests -> RequestStates]
<1>1. [requests[r] EXCEPT !.pc = pc] \in RequestStates
  <2>1. CASE requests[r] \in Creating /\ pc \in CreatePCs
    BY <2>1 DEF RequestStates, Creating, CreatePCs
  <2>2. CASE requests[r] \in Rescheduling /\ pc \in MovePCs
    BY <2>2 DEF RequestStates, Rescheduling, MovePCs
  <2>3. CASE requests[r] \in Cancelling /\ pc \in CancelPCs
    BY <2>3 DEF RequestStates, Cancelling, CancelPCs
  <2>4. QED
    BY <2>1, <2>2, <2>3
<1>2. requests \in [Requests -> RequestStates]
  BY DEF TypeOK
<1>3. QED
  BY <1>1, <1>2 DEF Goto

\* Answering a request keeps its type.
LEMMA AnswerType ==
  ASSUME TypeOK, NEW r \in Requests, NEW outcome \in Outcomes,
         NEW id \in AppointmentIDs \cup {"none"},
         requests[r].pc \in CreatePCs \cup MovePCs \cup CancelPCs,
         AnswerWith(r, outcome, id)
  PROVE  requests' \in [Requests -> RequestStates]
<1>1. requests[r].in \in CreateInput \cup RescheduleInput \cup CancelInput
  BY RequestShape DEF Creating, Rescheduling, Cancelling
<1>2. [pc |-> "done", in |-> requests[r].in, outcome |-> outcome, appointment |-> id]
        \in RequestStates
  BY <1>1 DEF RequestStates, Done
<1>3. requests \in [Requests -> RequestStates]
  BY DEF TypeOK
<1>4. QED
  BY <1>2, <1>3 DEF AnswerWith

\* A key row is found under the scope of its request.
LEMMA KeyOfType ==
  ASSUME NEW in \in CreateInput
  PROVE  /\ KeyOf(in) \in Scopes
         /\ fingerprint(in) \in Principals \X Barbers \X Services \X Starts
  BY DEF CreateInput, KeyOf, Scopes, fingerprint

\* What a key lookup does to the type of the request.
LEMMA LookUpType ==
  ASSUME TypeOK, NEW r \in Requests, requests[r].pc \in CreatePCs,
         NEW pc \in CreatePCs, LookUpKey(r, pc)
  PROVE  requests' \in [Requests -> RequestStates]
<1> DEFINE in == requests[r].in
           row == keys[KeyOf(in)]
<1>1. requests[r] \in Creating
  BY RequestShape
<1>2. in \in CreateInput /\ KeyOf(in) \in Scopes
  BY <1>1, KeyOfType DEF Creating
<1>3. row \in KeyRow \cup {NoKey}
  BY <1>2 DEF TypeOK
<1>4. CASE row = NoKey /\ Goto(r, pc)
  BY <1>1, <1>4, GotoType
<1>5. CASE Refuse(r, "idempotency_conflict")
  BY <1>5, AnswerType DEF Refuse, Outcomes
<1>6. CASE row # NoKey /\ AnswerWith(r, "ok", row.appointment)
  <2>1. row.appointment \in AppointmentIDs
    BY <1>3, <1>6 DEF KeyRow
  <2>2. QED
    BY <2>1, <1>6, AnswerType DEF Outcomes
<1>7. QED
  BY <1>4, <1>5, <1>6 DEF LookUpKey

-----------------------------------------------------------------------------
(* Types are preserved.  The steps are grouped by what they write.         *)

\* The type of the database and of the environment.
DatabaseOK ==
  /\ appointments \in [AppointmentIDs -> Row \cup {NoRow}]
  /\ keys \in [Scopes -> KeyRow \cup {NoKey}]
  /\ events \in [AppointmentIDs -> SUBSET Event]
  /\ expired \subseteq AppointmentIDs

EnvironmentOK ==
  /\ catalog \in [Services -> Shapes]
  /\ notice \in Notices
  /\ now \in Int
  /\ load \in Loads

RequestsOK == requests \in [Requests -> RequestStates]

\* The type invariant is made of these three parts, now and after a step.
LEMMA TypeParts ==
  /\ TypeOK => DatabaseOK /\ EnvironmentOK /\ RequestsOK
  /\ DatabaseOK' /\ EnvironmentOK' /\ RequestsOK' => TypeOK'
  BY DEF TypeOK, DatabaseOK, EnvironmentOK, RequestsOK

\* An existing row is a row.
LEMMA RowType ==
  ASSUME TypeOK, NEW i \in AppointmentIDs, Exists(i)
  PROVE  /\ appointments[i] \in Row
         /\ appointments[i].request \in CreateInput
  BY DEF TypeOK, Exists, Row

\* An active row exists.
LEMMA ActiveExists ==
  ASSUME NEW i \in AppointmentIDs, Active(i)
  PROVE  Exists(i)
  BY DEF Active, Exists, NoRow, ActiveStatuses

\* The bounds of a window are times.
LEMMA WindowType ==
  ASSUME NEW start \in Int, NEW shape \in AnyShape
  PROVE  From(start, shape) \in Int /\ To(start, shape) \in Int
  BY DEF From, To, AnyShape

\* Writing a row and its event keeps the types of the database.
LEMMA WriteType ==
  ASSUME TypeOK, NEW i \in AppointmentIDs, NEW row \in Row,
         NEW type \in {"created", "confirmed", "cancelled", "completed", "no_show",
                       "rescheduled"},
         appointments' = [appointments EXCEPT ![i] = row],
         Record(i, type, row)
  PROVE  /\ appointments' \in [AppointmentIDs -> Row \cup {NoRow}]
         /\ events' \in [AppointmentIDs -> SUBSET Event]
<1> DEFINE e == [type |-> type, status |-> row.status, start |-> row.start]
<1>1. e \in Event
  BY DEF Event, Row
<1>2. events[i] \in SUBSET Event
  BY DEF TypeOK
<1>3. events[i] \cup {e} \in SUBSET Event
  BY <1>1, <1>2
<1>4. events' = [events EXCEPT ![i] = events[i] \cup {e}]
  BY DEF Record
<1>5. QED
  BY <1>3, <1>4 DEF TypeOK

\* The statuses of Transition and CancelCustomer.
LEMMA SetStatusType ==
  ASSUME TypeOK, NEW i \in AppointmentIDs, Exists(i), NEW to \in Statuses,
         MayBecome(appointments[i].status, to), SetStatus(i, to)
  PROVE  DatabaseOK'
<1> DEFINE row == [appointments[i] EXCEPT !.status = to]
<1>1. appointments[i] \in Row
  BY RowType
<1>2. row \in Row
  BY <1>1 DEF Row
<1>3. to \in {"confirmed", "cancelled", "completed", "no_show"}
  BY DEF MayBecome, transitions, ActiveStatuses
<1>4. appointments' = [appointments EXCEPT ![i] = row] /\ Record(i, to, row)
      /\ UNCHANGED <<keys, expired>>
  BY DEF SetStatus
<1>5. QED
  BY <1>2, <1>3, <1>4, WriteType, ZenonT(60) DEF DatabaseOK, TypeOK

\* Insert and Reschedule refuse and change nothing, or commit.
LEMMA InsertCases ==
  ASSUME NEW r \in Requests, Insert(r)
  PROVE  \/ /\ \E outcome \in Outcomes \ {"ok"} : Refuse(r, outcome)
            /\ UNCHANGED database
         \/ \E i \in AppointmentIDs : ~Exists(i) /\ CommitCreate(r, i)
  BY DEF Insert, CommitCreate, Outcomes

\* A reschedule is refused and writes nothing, or commits.
LEMMA RescheduleCases ==
  ASSUME NEW r \in Requests, Reschedule(r)
  PROVE  \/ /\ \E outcome \in Outcomes \ {"ok"} : Refuse(r, outcome)
            /\ UNCHANGED database
         \/ CommitReschedule(r)
  BY DEF Reschedule, CommitReschedule, Outcomes

\* A committed create leaves rows, keys and events of their types.
LEMMA InsertType ==
  ASSUME TypeOK, BookingAssumption, NEW r \in Requests, At(r, "locked"),
         NEW i \in AppointmentIDs, CommitCreate(r, i)
  PROVE  DatabaseOK'
<1> DEFINE in == requests[r].in
           shape == requests[r].shape
           row == [request |-> in, start |-> in.start, from |-> From(in.start, shape),
                   to |-> To(in.start, shape), status |-> "pending"]
<1>1. in \in CreateInput /\ shape \in AnyShape
  BY RequestShape DEF At, CreatePCs, Creating
<1>2. in.start \in Int
  BY <1>1, ZenonT(60) DEF CreateInput, BookingAssumption
<1>3. row \in Row
  BY <1>1, <1>2, WindowType DEF Row, Statuses
<1>4. /\ KeyOf(in) \in Scopes
      /\ [fingerprint |-> fingerprint(in), appointment |-> i] \in KeyRow
  BY <1>1, KeyOfType DEF KeyRow
<1>5. /\ appointments' \in [AppointmentIDs -> Row \cup {NoRow}]
      /\ events' \in [AppointmentIDs -> SUBSET Event]
  BY <1>3, WriteType, ZenonT(60) DEF CommitCreate
<1>6. keys' \in [Scopes -> KeyRow \cup {NoKey}]
  BY <1>4 DEF CommitCreate, TypeOK
<1>7. QED
  BY <1>5, <1>6 DEF CommitCreate, DatabaseOK, TypeOK

\* A committed reschedule leaves rows, keys and events of their types.
LEMMA RescheduleType ==
  ASSUME TypeOK, BookingAssumption, NEW r \in Requests, At(r, "moving_checked"),
         CommitReschedule(r)
  PROVE  DatabaseOK'
<1> DEFINE in == requests[r].in
           shape == requests[r].shape
           i == in.target
           row == [appointments[i] EXCEPT !.start = in.start,
                     !.from = From(in.start, shape), !.to = To(in.start, shape)]
<1>1. in \in RescheduleInput /\ shape \in AnyShape
  BY RequestShape DEF At, MovePCs, Rescheduling
<1>2. in.start \in Int /\ i \in AppointmentIDs
  BY <1>1, ZenonT(60) DEF RescheduleInput, BookingAssumption
<1>3. appointments[i] \in Row
  BY <1>2, ActiveExists, RowType DEF CommitReschedule
<1>4. row \in Row
  BY <1>1, <1>2, <1>3, WindowType, ZenonT(60) DEF Row
<1>5. /\ appointments' \in [AppointmentIDs -> Row \cup {NoRow}]
      /\ events' \in [AppointmentIDs -> SUBSET Event]
  BY <1>2, <1>4, WriteType, ZenonT(60) DEF CommitReschedule
<1>6. QED
  BY <1>5 DEF CommitReschedule, DatabaseOK, TypeOK

\* Type correctness is preserved, because the targets of reschedules exist.
LEMMA TypeStep ==
  ASSUME TypeOK, TargetsExist, BookingAssumption, [Next]_vars
  PROVE  TypeOK'
<1> USE DEF At
<1>0. DatabaseOK /\ EnvironmentOK /\ RequestsOK
  BY TypeParts
<1>a. UNCHANGED database => DatabaseOK'
  BY <1>0 DEF DatabaseOK, database
<1>b. UNCHANGED environment => EnvironmentOK'
  BY <1>0 DEF EnvironmentOK, environment
<1>c. UNCHANGED requests => RequestsOK'
  BY <1>0 DEF RequestsOK
<1>d. ASSUME NEW r \in Requests, NEW outcome \in Outcomes, Refuse(r, outcome),
             requests[r].pc \in CreatePCs \cup MovePCs \cup CancelPCs
      PROVE  RequestsOK'
  BY <1>d, AnswerType DEF Refuse, RequestsOK
<1>e. ASSUME NEW r \in Requests, NEW q \in RequestStates,
             requests' = [requests EXCEPT ![r] = q]
      PROVE  RequestsOK'
  BY <1>0, <1>e DEF RequestsOK
<1>f. QED
  <2>1. ASSUME NEW r \in Requests, NEW in \in CreateInput, ReceiveCreate(r, in)
        PROVE  TypeOK'
    <3>1. [pc |-> "received", in |-> in, shape |-> Unread] \in RequestStates
      BY DEF RequestStates, Creating, Unread, AnyShape
    <3>2. QED
      BY <2>1, <3>1, <1>a, <1>b, <1>e, TypeParts, ZenonT(60) DEF ReceiveCreate
  <2>2. ASSUME NEW r \in Requests, NEW in \in RescheduleInput, ReceiveReschedule(r, in)
        PROVE  TypeOK'
    <3>1. [pc |-> "moving", in |-> in, shape |-> Unread] \in RequestStates
      BY DEF RequestStates, Rescheduling, Unread, AnyShape
    <3>2. QED
      BY <2>2, <3>1, <1>a, <1>b, <1>e, TypeParts, ZenonT(60) DEF ReceiveReschedule
  <2>3. ASSUME NEW r \in Requests, NEW in \in CancelInput, ReceiveCancel(r, in)
        PROVE  TypeOK'
    <3>1. in.target \in AppointmentIDs /\ Exists(in.target)
      BY <2>3 DEF ReceiveCancel, CancelInput
    <3>2. appointments[in.target].start \in Int
      BY <3>1, RowType DEF Row
    <3>3. [pc |-> "cancelling", in |-> in, start |-> appointments[in.target].start,
           at |-> now] \in RequestStates
      BY <3>2, <1>0 DEF RequestStates, Cancelling, EnvironmentOK
    <3>4. QED
      BY <2>3, <3>3, <1>a, <1>b, <1>e, TypeParts, ZenonT(60) DEF ReceiveCancel
  <2>4. ASSUME NEW r \in Requests, Replay(r)
        PROVE  TypeOK'
    BY <2>4, <1>a, <1>b, LookUpType, TypeParts DEF Replay, CreatePCs, RequestsOK
  <2>5. ASSUME NEW r \in Requests, ReadService(r)
        PROVE  TypeOK'
    <3>1. requests[r] \in Creating
      BY <2>5, RequestShape DEF ReadService, CreatePCs
    <3>2. catalog[requests[r].in.service] \in AnyShape
      BY <3>1, <1>0 DEF Creating, CreateInput, EnvironmentOK, BookingAssumption, AnyShape
    <3>3. [requests[r] EXCEPT !.pc = "sized", !.shape = catalog[requests[r].in.service]]
            \in RequestStates
      BY <3>1, <3>2, ZenonT(60) DEF RequestStates, Creating
    <3>4. QED
      BY <2>5, <3>3, <1>0, <1>a, <1>b, TypeParts DEF ReadService, RequestsOK
  <2>6. ASSUME NEW r \in Requests, CheckSlot(r)
        PROVE  TypeOK'
    <3>1. requests[r] \in Creating
      BY <2>6, RequestShape DEF CheckSlot, CreatePCs
    <3>2. CASE Goto(r, "checked")
      BY <2>6, <3>1, <3>2, <1>a, <1>b, GotoType, TypeParts DEF CheckSlot, RequestsOK, CreatePCs
    <3>3. CASE Refuse(r, "slot_refused")
      BY <2>6, <3>3, <1>a, <1>b, <1>d, TypeParts DEF CheckSlot, Outcomes, CreatePCs
    <3>4. QED
      BY <2>6, <3>2, <3>3 DEF CheckSlot
  <2>7. ASSUME NEW r \in Requests, Lock(r)
        PROVE  TypeOK'
    BY <2>7, <1>a, <1>b, LookUpType, TypeParts DEF Lock, CreatePCs, RequestsOK
  <2>8. ASSUME NEW r \in Requests, Insert(r)
        PROVE  TypeOK'
    <3>1. At(r, "locked") /\ UNCHANGED environment /\ requests[r].pc \in CreatePCs
      BY <2>8 DEF Insert, CreatePCs
    <3>2. ASSUME NEW outcome \in Outcomes, Refuse(r, outcome), UNCHANGED database
          PROVE  TypeOK'
      BY <3>1, <3>2, <1>a, <1>b, <1>d, TypeParts
    <3>3. ASSUME NEW i \in AppointmentIDs, CommitCreate(r, i)
          PROVE  TypeOK'
      <4>1. DatabaseOK'
        BY <3>1, <3>3, InsertType
      <4>2. RequestsOK'
        BY <3>1, <3>3, AnswerType DEF CommitCreate, RequestsOK, Outcomes
      <4>3. QED
        BY <3>1, <4>1, <4>2, <1>b, TypeParts
    <3>4. QED
      BY <2>8, <3>2, <3>3, InsertCases
  <2>9. ASSUME NEW r \in Requests, ReadServiceToMove(r)
        PROVE  TypeOK'
    <3> DEFINE i == requests[r].in.target
    <3>1. requests[r] \in Rescheduling
      BY <2>9, RequestShape DEF ReadServiceToMove, MovePCs
    <3>2. i \in AppointmentIDs /\ Exists(i)
      BY <2>9, <3>1 DEF ReadServiceToMove, TargetsExist, Rescheduling, RescheduleInput
    <3>3. appointments[i].request.service \in Services
      BY <3>2, RowType DEF CreateInput
    <3>4. catalog[appointments[i].request.service] \in AnyShape
      BY <3>3, <1>0 DEF EnvironmentOK, BookingAssumption, AnyShape
    <3>5. [requests[r] EXCEPT !.pc = "moving_sized",
                              !.shape = catalog[appointments[i].request.service]]
            \in RequestStates
      BY <3>1, <3>4, ZenonT(60) DEF RequestStates, Rescheduling
    <3>6. QED
      BY <2>9, <3>5, <1>0, <1>a, <1>b, TypeParts DEF ReadServiceToMove, RequestsOK
  <2>10. ASSUME NEW r \in Requests, CheckSlotToMove(r)
         PROVE  TypeOK'
    <3>1. requests[r] \in Rescheduling
      BY <2>10, RequestShape DEF CheckSlotToMove, MovePCs
    <3>2. CASE Goto(r, "moving_checked")
      BY <2>10, <3>1, <3>2, <1>a, <1>b, GotoType, TypeParts
         DEF CheckSlotToMove, RequestsOK, MovePCs
    <3>3. CASE Refuse(r, "slot_refused")
      BY <2>10, <3>3, <1>a, <1>b, <1>d, TypeParts DEF CheckSlotToMove, Outcomes, MovePCs
    <3>4. QED
      BY <2>10, <3>2, <3>3 DEF CheckSlotToMove
  <2>11. ASSUME NEW r \in Requests, Reschedule(r)
         PROVE  TypeOK'
    <3>1. At(r, "moving_checked") /\ UNCHANGED environment /\ requests[r].pc \in MovePCs
      BY <2>11 DEF Reschedule, MovePCs
    <3>2. ASSUME NEW outcome \in Outcomes, Refuse(r, outcome), UNCHANGED database
          PROVE  TypeOK'
      BY <3>1, <3>2, <1>a, <1>b, <1>d, TypeParts
    <3>3. CASE CommitReschedule(r)
      <4>1. DatabaseOK'
        BY <3>1, <3>3, RescheduleType
      <4>2. requests[r].in.target \in AppointmentIDs
        BY <3>1, RequestShape DEF Rescheduling, RescheduleInput
      <4>3. RequestsOK'
        BY <3>1, <3>3, <4>2, AnswerType DEF CommitReschedule, RequestsOK, Outcomes
      <4>4. QED
        BY <3>1, <4>1, <4>3, <1>b, TypeParts
    <3>4. QED
      BY <2>11, <3>2, <3>3, RescheduleCases
  <2>12. ASSUME NEW r \in Requests, CheckNotice(r)
         PROVE  TypeOK'
    <3>1. requests[r] \in Cancelling /\ requests[r].pc \in CancelPCs
      BY <2>12, RequestShape DEF CheckNotice, CancelPCs
    <3>2. CASE Goto(r, "cancelling_checked")
      BY <2>12, <3>1, <3>2, <1>a, <1>b, GotoType, TypeParts
         DEF CheckNotice, RequestsOK, CancelPCs
    <3>3. CASE Refuse(r, "unavailable") \/ Refuse(r, "bad_transition")
      BY <2>12, <3>1, <3>3, <1>a, <1>b, <1>d, TypeParts DEF CheckNotice, Outcomes
    <3>4. QED
      BY <2>12, <3>2, <3>3 DEF CheckNotice
  <2>13. ASSUME NEW r \in Requests, CancelCustomer(r)
         PROVE  TypeOK'
    <3> DEFINE i == requests[r].in.target
    <3>1. requests[r] \in Cancelling /\ requests[r].pc \in CancelPCs
      BY <2>13, RequestShape DEF CancelCustomer, CancelPCs
    <3>2. i \in AppointmentIDs /\ Exists(i)
      BY <2>13, <3>1 DEF CancelCustomer, TargetsExist, Cancelling, CancelInput
    <3>3. CASE Refuse(r, "bad_transition") /\ UNCHANGED database
      BY <2>13, <3>1, <3>3, <1>a, <1>b, <1>d, TypeParts DEF CancelCustomer, Outcomes
    <3>4. CASE /\ MayBecome(appointments[i].status, "cancelled")
               /\ SetStatus(i, "cancelled")
               /\ AnswerWith(r, "ok", i)
      <4>1. DatabaseOK'
        BY <3>2, <3>4, SetStatusType DEF Statuses
      <4>2. RequestsOK'
        BY <3>1, <3>2, <3>4, AnswerType DEF RequestsOK, Outcomes
      <4>3. QED
        BY <2>13, <4>1, <4>2, <1>b, TypeParts DEF CancelCustomer
    <3>5. QED
      BY <2>13, <3>3, <3>4 DEF CancelCustomer
  <2>14. ASSUME NEW r \in Requests, CustomerUnknown(r) \/ DependencyFails(r) \/ TransactionFails(r)
         PROVE  TypeOK'
    BY <2>14, <1>a, <1>b, <1>d, TypeParts DEF CustomerUnknown, DependencyFails,
       TransactionFails, Outcomes, CreatePCs, MovePCs, CancelPCs
  <2>15. ASSUME NEW r \in Requests, Crash(r) \/ Finish(r)
         PROVE  TypeOK'
    <3>1. Idle \in RequestStates
      BY DEF RequestStates
    <3>2. QED
      BY <2>15, <3>1, <1>a, <1>b, <1>e, TypeParts DEF Crash, Finish
  <2>16. ASSUME NEW i \in AppointmentIDs, NEW to \in Statuses, Transition(i, to)
         PROVE  TypeOK'
    BY <2>16, <1>b, <1>c, SetStatusType, TypeParts DEF Transition
  <2>17. ASSUME NEW k \in Scopes, ExpireKey(k)
         PROVE  TypeOK'
    <3>1. keys[k].appointment \in AppointmentIDs
      BY <2>17, <1>0 DEF ExpireKey, DatabaseOK, KeyRow
    <3>2. DatabaseOK'
      BY <2>17, <3>1, <1>0 DEF ExpireKey, DatabaseOK
    <3>3. QED
      BY <2>17, <3>2, <1>b, <1>c, TypeParts DEF ExpireKey
  <2>18. ASSUME NEW s \in Services, NEW shape \in Shapes, EditService(s, shape)
         PROVE  TypeOK'
    BY <2>18, <1>0, <1>a, <1>c, TypeParts DEF EditService, EnvironmentOK
  <2>19. ASSUME NEW n \in Notices, EditPolicy(n)
         PROVE  TypeOK'
    BY <2>19, <1>0, <1>a, <1>c, TypeParts DEF EditPolicy, EnvironmentOK
  <2>20. CASE Tick
    BY <2>20, <1>0, <1>a, <1>c, TypeParts DEF Tick, EnvironmentOK
  <2>21. CASE UNCHANGED vars
    BY <2>21, <1>a, <1>b, <1>c, TypeParts DEF vars, database, environment
  <2>22. QED
    BY <2>1, <2>2, <2>3, <2>4, <2>5, <2>6, <2>7, <2>8, <2>9, <2>10, <2>11, <2>12,
       <2>13, <2>14, <2>15, <2>16, <2>17, <2>18, <2>19, <2>20, <2>21 DEF Next, Serve

-----------------------------------------------------------------------------
(* What a step does, seen from the database and from the requests.         *)

\* A step leaves the database alone, or is one of four commits.
DatabaseStep ==
  \/ UNCHANGED database
  \/ \E r \in Requests, i \in AppointmentIDs :
       At(r, "locked") /\ ~Exists(i) /\ CommitCreate(r, i)
  \/ \E r \in Requests : At(r, "moving_checked") /\ CommitReschedule(r)
  \/ \E i \in AppointmentIDs, to \in Statuses :
       Exists(i) /\ MayBecome(appointments[i].status, to) /\ SetStatus(i, to)
  \/ \E k \in Scopes : ExpireKey(k)

\* Every step leaves the tables alone or makes one of the writes of DatabaseStep.
LEMMA DatabaseSteps ==
  ASSUME TypeOK, TargetsExist, [Next]_vars
  PROVE  DatabaseStep
<1>1. ASSUME NEW r \in Requests, Insert(r)
      PROVE  DatabaseStep
  BY <1>1, InsertCases DEF Insert, DatabaseStep
<1>2. ASSUME NEW r \in Requests, Reschedule(r)
      PROVE  DatabaseStep
  BY <1>2, RescheduleCases, ZenonT(60) DEF Reschedule, DatabaseStep
<1>3. ASSUME NEW r \in Requests, CancelCustomer(r)
      PROVE  DatabaseStep
  <2>1. requests[r] \in Cancelling
    BY <1>3, RequestShape DEF CancelCustomer, At, CancelPCs
  <2>2. requests[r].in.target \in AppointmentIDs /\ Exists(requests[r].in.target)
    BY <1>3, <2>1 DEF CancelCustomer, At, TargetsExist, Cancelling, CancelInput
  <2>3. QED
    BY <1>3, <2>2 DEF CancelCustomer, DatabaseStep, Statuses
<1>4. ASSUME NEW i \in AppointmentIDs, NEW to \in Statuses, Transition(i, to)
      PROVE  DatabaseStep
  BY <1>4 DEF Transition, DatabaseStep
<1>5. CASE UNCHANGED vars
  BY <1>5 DEF vars, database, DatabaseStep
<1>6. QED
  BY <1>1, <1>2, <1>3, <1>4, <1>5, ZenonT(60)
     DEF Next, Serve, ReceiveCreate, ReceiveReschedule, ReceiveCancel, Replay, ReadService,
         CheckSlot, Lock, ReadServiceToMove, CheckSlotToMove, CheckNotice, CustomerUnknown,
         DependencyFails, TransactionFails, Crash, Finish, EditService, EditPolicy, Tick,
         DatabaseStep

\* A row is never deleted, and the request that inserted it never changes.
LEMMA RowsPersist ==
  ASSUME TypeOK, DatabaseStep, NEW i \in AppointmentIDs, Exists(i)
  PROVE  Exists(i)' /\ appointments'[i].request = appointments[i].request
<1>0. appointments[i] \in Row /\ appointments \in [AppointmentIDs -> Row \cup {NoRow}]
  BY RowType DEF TypeOK
<1>1. CASE UNCHANGED appointments
  BY <1>1 DEF Exists
<1>2. ASSUME NEW j \in AppointmentIDs, ~Exists(j), NEW row,
             appointments' = [appointments EXCEPT ![j] = row]
      PROVE  appointments'[i] = appointments[i]
  BY <1>0, <1>2
<1>3. ASSUME NEW j \in AppointmentIDs, Exists(j), NEW row \in Row,
             row.request = appointments[j].request,
             appointments' = [appointments EXCEPT ![j] = row]
      PROVE  Exists(i)' /\ appointments'[i].request = appointments[i].request
  <2>1. appointments'[i] \in Row
    BY <1>0, <1>3
  <2>2. Exists(i)'
    BY <2>1 DEF Exists, Row, NoRow, Statuses
  <2>3. QED
    BY <1>0, <1>3, <2>2
<1>4. ASSUME NEW r \in Requests, At(r, "moving_checked"), CommitReschedule(r)
      PROVE  Exists(i)' /\ appointments'[i].request = appointments[i].request
  <2> DEFINE j == requests[r].in.target
             start == requests[r].in.start
             shape == requests[r].shape
             row == [appointments[j] EXCEPT !.start = start, !.from = From(start, shape),
                                            !.to = To(start, shape)]
  <2>1. j \in AppointmentIDs /\ start \in Int /\ shape \in AnyShape
    BY <1>4, RequestShape, BookingAssumption, ZenonT(60)
       DEF At, MovePCs, Rescheduling, RescheduleInput, BookingAssumption
  <2>2. Exists(j) /\ appointments[j] \in Row
    BY <1>4, <2>1, ActiveExists, RowType DEF CommitReschedule
  <2>3. row \in Row /\ row.request = appointments[j].request
    BY <2>1, <2>2, WindowType, ZenonT(60) DEF Row
  <2>4. appointments' = [appointments EXCEPT ![j] = row]
    BY <1>4 DEF CommitReschedule
  <2>5. QED
    BY <2>1, <2>2, <2>3, <2>4, <1>3, ZenonT(60)
<1>5. ASSUME NEW j \in AppointmentIDs, NEW to \in Statuses, Exists(j), SetStatus(j, to)
      PROVE  Exists(i)' /\ appointments'[i].request = appointments[i].request
  <2> DEFINE row == [appointments[j] EXCEPT !.status = to]
  <2>1. row \in Row /\ row.request = appointments[j].request
    BY <1>5, RowType DEF Row
  <2>2. appointments' = [appointments EXCEPT ![j] = row]
    BY <1>5 DEF SetStatus
  <2>3. QED
    BY <1>5, <2>1, <2>2, <1>3, ZenonT(60)
<1>6. ASSUME NEW r \in Requests, NEW j \in AppointmentIDs, ~Exists(j), CommitCreate(r, j)
      PROVE  Exists(i)' /\ appointments'[i].request = appointments[i].request
  BY <1>6, <1>2 DEF CommitCreate, Exists
<1>7. QED
  BY <1>1, <1>4, <1>5, <1>6 DEF DatabaseStep, database, ExpireKey

\* A step replaces the record of at most one request.  The new record q is
Receives(q) ==
  \/ q = Idle
  \/ q.pc = "received" /\ q.in \in CreateInput
  \/ q.pc = "moving" /\ q.in \in RescheduleInput /\ Exists(q.in.target)
  \/ q.pc = "cancelling" /\ q.in \in CancelInput /\ Exists(q.in.target)

Advances(r, q) ==
  /\ q.in = requests[r].in
  /\ \/ requests[r].pc \in CreatePCs /\ q.pc \in CreatePCs \ {"locked"}
     \/ requests[r].pc \in MovePCs /\ q.pc \in MovePCs
     \/ requests[r].pc \in CancelPCs /\ q.pc \in CancelPCs

Locks(r, q) ==
  /\ q.in = requests[r].in
  /\ requests[r].pc \in CreatePCs /\ q.pc = "locked"
  /\ keys[KeyOf(q.in)] = NoKey /\ UNCHANGED keys
  /\ \A s \in Requests : At(s, "locked") => KeyOf(requests[s].in) # KeyOf(q.in)

\* an appointment that a key row or the commit supplies, or a refusal.
AnswersCreate(r, q) ==
  /\ requests[r].pc \in CreatePCs
  /\ \/ /\ q.outcome = "ok"
        /\ keys[KeyOf(q.in)] # NoKey
        /\ keys[KeyOf(q.in)].fingerprint = fingerprint(q.in)
        /\ q.appointment = keys[KeyOf(q.in)].appointment
     \/ /\ q.outcome = "ok"
        /\ \E i \in AppointmentIDs : At(r, "locked") /\ ~Exists(i) /\ CommitCreate(r, i)
                                      /\ q.appointment = i
     \/ q.outcome # "ok" /\ (q.outcome = "duplicate_key" =>
                               At(r, "locked") /\ keys[KeyOf(q.in)] # NoKey)

Answers(r, q) ==
  /\ q.pc = "done" /\ q.in = requests[r].in
  /\ \/ AnswersCreate(r, q)
     \/ requests[r].pc \in MovePCs \cup CancelPCs /\ q.outcome # "duplicate_key"

RequestStep ==
  \/ UNCHANGED requests
  \/ \E r \in Requests, q \in RequestStates :
       /\ requests' = [requests EXCEPT ![r] = q]
       /\ Receives(q) \/ Advances(r, q) \/ Locks(r, q) \/ Answers(r, q)

\* Every step leaves the requests alone or makes one of the moves of RequestStep.
LEMMA RequestSteps ==
  ASSUME TypeOK, TargetsExist, [Next]_vars
  PROVE  RequestStep
<1> USE DEF At
<1>0. requests \in [Requests -> RequestStates] /\ requests' \in [Requests -> RequestStates]
  BY TypeStep, BookingAssumption DEF TypeOK
<1>a. ASSUME NEW r \in Requests, NEW q, requests' = [requests EXCEPT ![r] = q],
             Receives(q) \/ Advances(r, q) \/ Locks(r, q) \/ Answers(r, q)
      PROVE  RequestStep
  <2>1. q = requests'[r] /\ q \in RequestStates
    BY <1>0, <1>a
  <2>2. QED
    BY <1>a, <2>1, ZenonT(60) DEF RequestStep
<1>b. ASSUME NEW r \in Requests, NEW outcome \in Outcomes \ {"ok", "duplicate_key"},
             requests[r].pc \in CreatePCs \cup MovePCs \cup CancelPCs, Refuse(r, outcome)
      PROVE  RequestStep
  <2> DEFINE q == [pc |-> "done", in |-> requests[r].in, outcome |-> outcome,
                   appointment |-> "none"]
  <2>1. Answers(r, q)
    BY <1>b DEF Answers, AnswersCreate
  <2>2. QED
    BY <1>a, <1>b, <2>1, ZenonT(60) DEF Refuse, AnswerWith
<1>c. ASSUME NEW r \in Requests, requests[r].pc \in CreatePCs, NEW pc \in CreatePCs \ {"locked"},
             LookUpKey(r, pc)
      PROVE  RequestStep
  <2> DEFINE q1 == [requests[r] EXCEPT !.pc = pc]
             q2 == [pc |-> "done", in |-> requests[r].in, outcome |-> "ok",
                    appointment |-> keys[KeyOf(requests[r].in)].appointment]
  <2>0. requests[r] \in Creating
    BY <1>c, RequestShape
  <2>1. CASE Goto(r, pc)
    <3>1. Advances(r, q1)
      BY <1>c, <2>0 DEF Advances, Creating
    <3>2. QED
      BY <1>a, <2>1, <3>1, ZenonT(60) DEF Goto
  <2>2. CASE Refuse(r, "idempotency_conflict")
    BY <1>b, <1>c, <2>2 DEF Outcomes
  <2>3. CASE /\ keys[KeyOf(requests[r].in)] # NoKey
             /\ keys[KeyOf(requests[r].in)].fingerprint = fingerprint(requests[r].in)
             /\ AnswerWith(r, "ok", keys[KeyOf(requests[r].in)].appointment)
    <3>1. Answers(r, q2)
      BY <1>c, <2>3, ZenonT(60) DEF Answers, AnswersCreate
    <3>2. QED
      BY <1>a, <2>3, <3>1, ZenonT(60) DEF AnswerWith
  <2>4. QED
    BY <1>c, <2>1, <2>2, <2>3 DEF LookUpKey
<1>1. ASSUME NEW r \in Requests, NEW in \in CreateInput, ReceiveCreate(r, in)
      PROVE  RequestStep
  BY <1>1, <1>a, ZenonT(60) DEF ReceiveCreate, Receives
<1>2. ASSUME NEW r \in Requests, NEW in \in RescheduleInput, ReceiveReschedule(r, in)
      PROVE  RequestStep
  BY <1>2, <1>a, ZenonT(60) DEF ReceiveReschedule, Receives
<1>3. ASSUME NEW r \in Requests, NEW in \in CancelInput, ReceiveCancel(r, in)
      PROVE  RequestStep
  BY <1>3, <1>a, ZenonT(60) DEF ReceiveCancel, Receives
<1>4. ASSUME NEW r \in Requests, Replay(r)
      PROVE  RequestStep
  BY <1>4, <1>c DEF Replay, CreatePCs
<1>5. ASSUME NEW r \in Requests, ReadService(r)
      PROVE  RequestStep
  <2> DEFINE q == [requests[r] EXCEPT !.pc = "sized", !.shape = catalog[requests[r].in.service]]
  <2>1. requests[r] \in Creating
    BY <1>5, RequestShape DEF ReadService, CreatePCs
  <2>2. Advances(r, q)
    BY <1>5, <2>1 DEF ReadService, Advances, Creating, CreatePCs
  <2>3. requests' = [requests EXCEPT ![r] = q]
    BY <1>5, ZenonT(60) DEF ReadService
  <2>4. QED
    BY <1>a, <2>2, <2>3, ZenonT(60)
<1>6. ASSUME NEW r \in Requests, CheckSlot(r)
      PROVE  RequestStep
  <2> DEFINE q == [requests[r] EXCEPT !.pc = "checked"]
  <2>1. requests[r] \in Creating
    BY <1>6, RequestShape DEF CheckSlot, CreatePCs
  <2>2. CASE Goto(r, "checked")
    <3>1. Advances(r, q)
      BY <1>6, <2>1 DEF CheckSlot, Advances, Creating, CreatePCs
    <3>2. QED
      BY <1>a, <2>2, <3>1, ZenonT(60) DEF Goto
  <2>3. CASE Refuse(r, "slot_refused")
    BY <1>6, <1>b, <2>3 DEF CheckSlot, Outcomes, CreatePCs
  <2>4. QED
    BY <1>6, <2>2, <2>3 DEF CheckSlot
<1>7. ASSUME NEW r \in Requests, Lock(r)
      PROVE  RequestStep
  <2> DEFINE in == requests[r].in
             q1 == [requests[r] EXCEPT !.pc = "locked"]
             q2 == [pc |-> "done", in |-> in, outcome |-> "ok",
                    appointment |-> keys[KeyOf(in)].appointment]
  <2>0. requests[r] \in Creating /\ requests[r].pc \in CreatePCs
    BY <1>7, RequestShape DEF Lock, CreatePCs
  <2>1. CASE keys[KeyOf(in)] = NoKey /\ Goto(r, "locked")
    <3>1. UNCHANGED keys
      BY <1>7 DEF Lock, database
    <3>2. Locks(r, q1)
      BY <1>7, <2>0, <2>1, <3>1 DEF Locks, Lock, Creating
    <3>3. QED
      BY <1>a, <2>1, <3>2, ZenonT(60) DEF Goto
  <2>2. CASE Refuse(r, "idempotency_conflict")
    BY <1>b, <2>0, <2>2 DEF Outcomes
  <2>3. CASE /\ keys[KeyOf(in)] # NoKey
             /\ keys[KeyOf(in)].fingerprint = fingerprint(in)
             /\ AnswerWith(r, "ok", keys[KeyOf(in)].appointment)
    <3>1. Answers(r, q2)
      BY <2>0, <2>3 DEF Answers, AnswersCreate
    <3>2. QED
      BY <1>a, <2>3, <3>1, ZenonT(60) DEF AnswerWith
  <2>4. QED
    BY <1>7, <2>1, <2>2, <2>3 DEF Lock, LookUpKey
<1>8. ASSUME NEW r \in Requests, Insert(r)
      PROVE  RequestStep
  <2> DEFINE q(outcome, id) == [pc |-> "done", in |-> requests[r].in, outcome |-> outcome,
                                appointment |-> id]
  <2>0. At(r, "locked") /\ requests[r].pc \in CreatePCs
    BY <1>8 DEF Insert, CreatePCs
  <2>1. CASE Refuse(r, "error") \/ Refuse(r, "overlap")
    BY <1>b, <2>0, <2>1 DEF Outcomes
  <2>2. CASE keys[KeyOf(requests[r].in)] # NoKey /\ Refuse(r, "duplicate_key")
    <3>1. Answers(r, q("duplicate_key", "none"))
      BY <2>0, <2>2 DEF Answers, AnswersCreate
    <3>2. QED
      BY <1>a, <2>2, <3>1, ZenonT(60) DEF Refuse, AnswerWith
  <2>3. ASSUME NEW i \in AppointmentIDs, ~Exists(i), CommitCreate(r, i)
        PROVE  RequestStep
    <3>1. Answers(r, q("ok", i))
      BY <2>0, <2>3 DEF Answers, AnswersCreate
    <3>2. requests' = [requests EXCEPT ![r] = q("ok", i)]
      BY <2>3 DEF CommitCreate, AnswerWith
    <3>3. QED
      BY <1>a, <3>1, <3>2, ZenonT(60)
  <2>4. QED
    BY <1>8, <2>1, <2>2, <2>3, ZenonT(60) DEF Insert
<1>9. ASSUME NEW r \in Requests, ReadServiceToMove(r)
      PROVE  RequestStep
  <2> DEFINE q == [requests[r] EXCEPT !.pc = "moving_sized",
                     !.shape = catalog[appointments[requests[r].in.target].request.service]]
  <2>1. requests[r] \in Rescheduling
    BY <1>9, RequestShape DEF ReadServiceToMove, MovePCs
  <2>2. Advances(r, q)
    BY <1>9, <2>1 DEF ReadServiceToMove, Advances, Rescheduling, MovePCs
  <2>3. requests' = [requests EXCEPT ![r] = q]
    BY <1>9, ZenonT(60) DEF ReadServiceToMove
  <2>4. QED
    BY <1>a, <2>2, <2>3, ZenonT(60)
<1>10. ASSUME NEW r \in Requests, CheckSlotToMove(r)
       PROVE  RequestStep
  <2> DEFINE q == [requests[r] EXCEPT !.pc = "moving_checked"]
  <2>1. requests[r] \in Rescheduling
    BY <1>10, RequestShape DEF CheckSlotToMove, MovePCs
  <2>2. CASE Goto(r, "moving_checked")
    <3>1. Advances(r, q)
      BY <1>10, <2>1 DEF CheckSlotToMove, Advances, Rescheduling, MovePCs
    <3>2. QED
      BY <1>a, <2>2, <3>1, ZenonT(60) DEF Goto
  <2>3. CASE Refuse(r, "slot_refused")
    BY <1>10, <1>b, <2>3 DEF CheckSlotToMove, Outcomes, MovePCs
  <2>4. QED
    BY <1>10, <2>2, <2>3 DEF CheckSlotToMove
<1>11. ASSUME NEW r \in Requests, Reschedule(r)
       PROVE  RequestStep
  <2> DEFINE q == [pc |-> "done", in |-> requests[r].in, outcome |-> "ok",
                   appointment |-> requests[r].in.target]
  <2>0. requests[r].pc \in MovePCs
    BY <1>11 DEF Reschedule, MovePCs
  <2>1. CASE Refuse(r, "bad_transition") \/ Refuse(r, "error") \/ Refuse(r, "overlap")
    BY <1>b, <2>0, <2>1 DEF Outcomes
  <2>2. CASE CommitReschedule(r)
    <3>1. Answers(r, q)
      BY <2>0 DEF Answers
    <3>2. QED
      BY <1>a, <2>2, <3>1, ZenonT(60) DEF CommitReschedule, AnswerWith
  <2>3. QED
    BY <1>11, <2>1, <2>2 DEF Reschedule
<1>12. ASSUME NEW r \in Requests, CheckNotice(r)
       PROVE  RequestStep
  <2> DEFINE q == [requests[r] EXCEPT !.pc = "cancelling_checked"]
  <2>1. requests[r] \in Cancelling /\ requests[r].pc \in CancelPCs
    BY <1>12, RequestShape DEF CheckNotice, CancelPCs
  <2>2. CASE Goto(r, "cancelling_checked")
    <3>1. Advances(r, q)
      BY <2>1 DEF Advances, Cancelling, CancelPCs
    <3>2. QED
      BY <1>a, <2>2, <3>1, ZenonT(60) DEF Goto
  <2>3. CASE Refuse(r, "unavailable") \/ Refuse(r, "bad_transition")
    BY <1>b, <2>1, <2>3 DEF Outcomes
  <2>4. QED
    BY <1>12, <2>2, <2>3 DEF CheckNotice
<1>13. ASSUME NEW r \in Requests, CancelCustomer(r)
       PROVE  RequestStep
  <2> DEFINE q == [pc |-> "done", in |-> requests[r].in, outcome |-> "ok",
                   appointment |-> requests[r].in.target]
  <2>0. requests[r].pc \in CancelPCs
    BY <1>13 DEF CancelCustomer, CancelPCs
  <2>1. CASE Refuse(r, "bad_transition")
    BY <1>b, <2>0, <2>1 DEF Outcomes
  <2>2. CASE AnswerWith(r, "ok", requests[r].in.target)
    <3>1. Answers(r, q)
      BY <2>0 DEF Answers
    <3>2. QED
      BY <1>a, <2>2, <3>1, ZenonT(60) DEF AnswerWith
  <2>3. QED
    BY <1>13, <2>1, <2>2 DEF CancelCustomer
<1>14. ASSUME NEW r \in Requests, CustomerUnknown(r) \/ DependencyFails(r) \/ TransactionFails(r)
       PROVE  RequestStep
  BY <1>14, <1>b DEF CustomerUnknown, DependencyFails, TransactionFails, Outcomes,
     CreatePCs, MovePCs, CancelPCs
<1>15. ASSUME NEW r \in Requests, Crash(r) \/ Finish(r)
       PROVE  RequestStep
  BY <1>15, <1>a DEF Crash, Finish, Receives
<1>16. CASE UNCHANGED requests
  BY <1>16 DEF RequestStep
<1>17. QED
  BY <1>1, <1>2, <1>3, <1>4, <1>5, <1>6, <1>7, <1>8, <1>9, <1>10, <1>11, <1>12, <1>13,
     <1>14, <1>15, <1>16
     DEF Next, Serve, Transition, ExpireKey, EditService, EditPolicy, Tick, vars

-----------------------------------------------------------------------------
(* The conjuncts of the inductive invariant.                               *)

\* No step removes the appointment that a reschedule or a cancellation is about.
LEMMA TargetsStep ==
  ASSUME TypeOK, TargetsExist, [Next]_vars
  PROVE  TargetsExist'
<1> DEFINE Targeting == MovePCs \cup CancelPCs
<1>1. SUFFICES ASSUME NEW r \in Requests, requests'[r].pc \in Targeting
               PROVE  appointments'[requests'[r].in.target] # NoRow
  BY DEF TargetsExist, MovePCs, CancelPCs, Exists
<1>2. requests \in [Requests -> RequestStates] /\ requests' \in [Requests -> RequestStates]
  BY TypeStep, BookingAssumption DEF TypeOK
<1>3. TypeOK'
  BY TypeStep, BookingAssumption
<1>4. requests'[r].in.target \in AppointmentIDs
  BY <1>1, <1>2 DEF RequestStates, Idle, Creating, Rescheduling, RescheduleInput,
     Cancelling, CancelInput, Done, MovePCs, CancelPCs
<1>5. Exists(requests'[r].in.target)
  <2>1. CASE requests'[r] = requests[r]
    BY <1>1, <2>1 DEF TargetsExist, MovePCs, CancelPCs
  <2>2. CASE Receives(requests'[r])
    BY <1>1, <2>2 DEF Receives, Idle, MovePCs, CancelPCs
  <2>3. CASE Advances(r, requests'[r])
    BY <1>1, <2>3 DEF Advances, TargetsExist, CreatePCs, MovePCs, CancelPCs
  <2>4. CASE Locks(r, requests'[r]) \/ Answers(r, requests'[r])
    BY <1>1, <2>4 DEF Locks, Answers, MovePCs, CancelPCs
  <2>5. QED
    BY <1>2, <2>1, <2>2, <2>3, <2>4, RequestSteps DEF RequestStep
<1>6. \A i \in AppointmentIDs : Exists(i) => appointments'[i] # NoRow
  BY DatabaseSteps, RowsPersist DEF Exists
<1>7. QED
  BY <1>4, <1>5, <1>6

\* No step gives the advisory lock of a key to two attempts.
LEMMA LocksStep ==
  ASSUME TypeOK, TargetsExist, LocksAreExclusive, [Next]_vars
  PROVE  LocksAreExclusive'
<1> USE DEF At
<1>0. /\ requests \in [Requests -> RequestStates] /\ requests' \in [Requests -> RequestStates]
      /\ keys \in [Scopes -> KeyRow \cup {NoKey}]
  BY TypeStep, BookingAssumption DEF TypeOK
<1>a. ASSUME NEW r \in Requests, At(r, "locked")
      PROVE  KeyOf(requests[r].in) \in Scopes
  BY <1>a, RequestShape, KeyOfType DEF CreatePCs, Creating
<1>1. ASSUME NEW r \in Requests, NEW i \in AppointmentIDs, At(r, "locked"), CommitCreate(r, i)
      PROVE  LocksAreExclusive'
  <2>1. ASSUME NEW s \in Requests, requests'[s].pc = "locked"
        PROVE  s # r /\ requests'[s] = requests[s]
    BY <1>0, <1>1, <2>1, ZenonT(60) DEF CommitCreate, AnswerWith
  <2>2. ASSUME NEW s \in Requests, requests'[s].pc = "locked"
        PROVE  keys'[KeyOf(requests'[s].in)] = NoKey
    BY <1>0, <1>1, <1>a, <2>1, <2>2 DEF CommitCreate, LocksAreExclusive
  <2>3. QED
    BY <2>1, <2>2 DEF LocksAreExclusive
<1>2. ASSUME \A k \in Scopes : keys'[k] = keys[k] \/ keys'[k] = NoKey
      PROVE  LocksAreExclusive'
  <2>1. ASSUME NEW s \in Requests, requests'[s] = requests[s], At(s, "locked")
        PROVE  keys'[KeyOf(requests'[s].in)] = NoKey
    BY <1>2, <1>a, <2>1 DEF LocksAreExclusive
  <2>2. CASE UNCHANGED requests
    BY <2>1, <2>2 DEF LocksAreExclusive
  <2>3. ASSUME NEW r \in Requests, NEW q \in RequestStates,
               requests' = [requests EXCEPT ![r] = q],
               Receives(q) \/ Advances(r, q) \/ Answers(r, q)
        PROVE  LocksAreExclusive'
    <3>1. q.pc # "locked"
      BY <2>3 DEF Receives, Advances, Answers, Idle, CreatePCs, MovePCs, CancelPCs
    <3>2. QED
      BY <1>0, <2>1, <2>3, <3>1 DEF LocksAreExclusive
  <2>4. ASSUME NEW r \in Requests, NEW q \in RequestStates,
               requests' = [requests EXCEPT ![r] = q], Locks(r, q)
        PROVE  LocksAreExclusive'
    BY <1>0, <2>1, <2>4 DEF LocksAreExclusive, Locks
  <2>5. QED
    BY <2>2, <2>3, <2>4, RequestSteps DEF RequestStep
<1>3. CASE UNCHANGED keys
  BY <1>2, <1>3
<1>4. ASSUME NEW k \in Scopes, ExpireKey(k)
      PROVE  LocksAreExclusive'
  BY <1>0, <1>2, <1>4 DEF ExpireKey
<1>5. QED
  BY <1>1, <1>3, <1>4, DatabaseSteps, ZenonT(60) DEF DatabaseStep, database, CommitReschedule, SetStatus

\* A row of the key table is not its absence.
LEMMA KeyRowIsKey ==
  ASSUME NEW f, NEW i
  PROVE  [fingerprint |-> f, appointment |-> i] # NoKey
<1>1. /\ "fingerprint" \in DOMAIN [fingerprint |-> f, appointment |-> i]
      /\ "fingerprint" \notin DOMAIN [appointment |-> "none"]
  OBVIOUS
<1>2. QED
  BY <1>1 DEF NoKey

\* Every step leaves a key and the appointment it names in agreement.
LEMMA KeysStep ==
  ASSUME TypeOK, TargetsExist, KeysMatchRows, [Next]_vars
  PROVE  KeysMatchRows'
<1>0. /\ appointments \in [AppointmentIDs -> Row \cup {NoRow}]
      /\ keys \in [Scopes -> KeyRow \cup {NoKey}]
      /\ expired \subseteq AppointmentIDs
  BY DEF TypeOK
<1>a. ASSUME NEW k \in Scopes, keys[k] # NoKey
      PROVE  keys[k].appointment \in AppointmentIDs
  BY <1>0, <1>a DEF KeyRow
<1>b. ASSUME NEW i \in AppointmentIDs, Exists(i)
      PROVE  /\ Exists(i)' /\ appointments'[i].request = appointments[i].request
             /\ KeyOf(appointments[i].request) \in Scopes
  BY <1>b, DatabaseSteps, RowsPersist, RowType, KeyOfType
<1>1. ASSUME UNCHANGED <<keys, expired>>, \A i \in AppointmentIDs : Exists(i)' => Exists(i)
      PROVE  KeysMatchRows'
  BY <1>0, <1>1, <1>a, <1>b DEF KeysMatchRows
<1>2. ASSUME NEW r \in Requests, NEW i \in AppointmentIDs, At(r, "locked"), ~Exists(i),
             CommitCreate(r, i)
      PROVE  KeysMatchRows'
  <2> DEFINE in == requests[r].in
  <2>1. in \in CreateInput /\ KeyOf(in) \in Scopes
    BY <1>2, RequestShape, KeyOfType, ZenonT(60) DEF At, CreatePCs, Creating
  <2>2. /\ appointments'[i].request = in
        /\ \A j \in AppointmentIDs \ {i} : appointments'[j] = appointments[j]
    BY <1>0, <1>2 DEF CommitCreate
  <2>3. /\ keys'[KeyOf(in)] = [fingerprint |-> fingerprint(in), appointment |-> i]
        /\ \A k \in Scopes \ {KeyOf(in)} : keys'[k] = keys[k]
        /\ keys[KeyOf(in)] = NoKey
        /\ expired' = expired
    BY <1>0, <1>2, <2>1, ZenonT(60) DEF CommitCreate
  <2>4. Exists(i)'
    BY <1>0, <1>2, ZenonT(60) DEF CommitCreate, Exists, NoRow
  <2>5. i \notin expired
    BY <1>2, ZenonT(60) DEF KeysMatchRows
  <2>6. keys'[KeyOf(in)] # NoKey
    BY <2>3, KeyRowIsKey, ZenonT(60)
  <2>7. ASSUME NEW k \in Scopes, keys'[k] # NoKey
        PROVE  LET j == keys'[k].appointment
               IN  /\ appointments'[j] # NoRow /\ j \notin expired'
                   /\ KeyOf(appointments'[j].request) = k
                   /\ fingerprint(appointments'[j].request) = keys'[k].fingerprint
    <3>1. CASE k = KeyOf(in)
      BY <2>2, <2>3, <2>4, <2>5, <3>1 DEF Exists
    <3>2. CASE k # KeyOf(in)
      BY <1>a, <1>b, <2>3, <2>7, <3>2 DEF KeysMatchRows, Exists
    <3>3. QED
      BY <3>1, <3>2, ZenonT(60)
  <2>8. ASSUME NEW j \in AppointmentIDs, Exists(j)', j \notin expired'
        PROVE  LET k == KeyOf(appointments'[j].request)
               IN  keys'[k] # NoKey /\ keys'[k].appointment = j
    <3>1. CASE j = i
      BY <2>2, <2>3, <2>6, <3>1
    <3>2. CASE j # i
      <4>1. Exists(j) /\ j \notin expired
        BY <2>2, <2>3, <2>8, <3>2, ZenonT(60) DEF Exists
      <4>2. /\ keys[KeyOf(appointments[j].request)] # NoKey
            /\ keys[KeyOf(appointments[j].request)].appointment = j
        BY <4>1 DEF KeysMatchRows
      <4>3. KeyOf(appointments[j].request) # KeyOf(in)
        BY <2>3, <4>2
      <4>4. QED
        BY <1>b, <2>3, <4>1, <4>2, <4>3, ZenonT(60)
    <3>3. QED
      BY <3>1, <3>2
  <2>9. \A j \in expired' : Exists(j)'
    BY <1>0, <1>b, <2>3, ZenonT(60) DEF KeysMatchRows
  <2>10. QED
    BY <2>7, <2>8, <2>9 DEF KeysMatchRows, Exists
<1>3. ASSUME NEW k \in Scopes, ExpireKey(k)
      PROVE  KeysMatchRows'
  <2>1. /\ keys'[k] = NoKey
        /\ \A l \in Scopes \ {k} : keys'[l] = keys[l]
        /\ keys[k] # NoKey
        /\ expired' = expired \cup {keys[k].appointment}
        /\ appointments' = appointments
    BY <1>0, <1>3 DEF ExpireKey
  <2>2. ASSUME NEW l \in Scopes, keys'[l] # NoKey
        PROVE  LET j == keys'[l].appointment
               IN  /\ appointments'[j] # NoRow /\ j \notin expired'
                   /\ KeyOf(appointments'[j].request) = l
                   /\ fingerprint(appointments'[j].request) = keys'[l].fingerprint
    <3>1. l # k /\ keys'[l] = keys[l] /\ keys[l] # NoKey
      BY <2>1, <2>2
    <3>2. keys[l].appointment # keys[k].appointment
      BY <2>1, <3>1 DEF KeysMatchRows
    <3>3. QED
      BY <2>1, <3>1, <3>2 DEF KeysMatchRows, Exists
  <2>3. ASSUME NEW j \in AppointmentIDs, Exists(j)', j \notin expired'
        PROVE  LET l == KeyOf(appointments'[j].request)
               IN  keys'[l] # NoKey /\ keys'[l].appointment = j
    <3>1. Exists(j) /\ j \notin expired /\ j # keys[k].appointment
      BY <2>1, <2>3 DEF Exists
    <3>2. KeyOf(appointments[j].request) \in Scopes \ {k}
      BY <1>b, <3>1 DEF KeysMatchRows
    <3>3. QED
      BY <2>1, <3>1, <3>2 DEF KeysMatchRows
  <2>4. \A j \in expired' : Exists(j)'
    BY <2>1 DEF KeysMatchRows, Exists
  <2>5. QED
    BY <2>2, <2>3, <2>4 DEF KeysMatchRows, Exists
<1>4. CASE UNCHANGED database
  BY <1>1, <1>4 DEF database, Exists
<1>5. ASSUME NEW r \in Requests, At(r, "moving_checked"), CommitReschedule(r)
      PROVE  KeysMatchRows'
  <2>1. requests[r].in.target \in AppointmentIDs
    BY <1>5, RequestShape DEF At, MovePCs, Rescheduling, RescheduleInput
  <2>2. Exists(requests[r].in.target)
    BY <1>5, <2>1, ActiveExists DEF CommitReschedule
  <2>3. \A j \in AppointmentIDs : Exists(j)' => Exists(j)
    BY <1>0, <1>5, <2>1, <2>2 DEF CommitReschedule, Exists
  <2>4. QED
    BY <1>1, <1>5, <2>3 DEF CommitReschedule
<1>6. ASSUME NEW i \in AppointmentIDs, NEW to \in Statuses, Exists(i), SetStatus(i, to)
      PROVE  KeysMatchRows'
  <2>1. \A j \in AppointmentIDs : Exists(j)' => Exists(j)
    BY <1>0, <1>6 DEF SetStatus, Exists
  <2>2. QED
    BY <1>1, <1>6, <2>1 DEF SetStatus
<1>7. QED
  BY <1>2, <1>3, <1>4, <1>5, <1>6, DatabaseSteps DEF DatabaseStep

\* The windows of two rows do not meet.
Apart(p, q) == p.to <= q.from \/ q.to <= p.from

\* Writing an active row that the exclusion constraint admits keeps the windows
\* of a barber apart.
LEMMA WriteKeepsApart ==
  ASSUME TypeOK, NoDoubleBooking, NEW i \in AppointmentIDs, NEW row \in Row,
         appointments' = [appointments EXCEPT ![i] = row],
         ~Excluded(i, row.request.barber, row.from, row.to)
  PROVE  NoDoubleBooking'
<1> DEFINE Live(r) == r.status \in ActiveStatuses
<1>0. appointments \in [AppointmentIDs -> Row \cup {NoRow}]
  BY DEF TypeOK
<1>1. appointments'[i] = row
      /\ \A j \in AppointmentIDs \ {i} : appointments'[j] = appointments[j]
  BY <1>0
<1>2. ASSUME NEW j \in AppointmentIDs \ {i}, Active(j),
             row.request.barber = appointments[j].request.barber
      PROVE  Apart(row, appointments[j]) /\ Apart(appointments[j], row)
  <2>1. appointments[j] \in Row
    BY <1>2, ActiveExists, RowType
  <2>2. ~(appointments[j].from < row.to /\ row.from < appointments[j].to)
    BY <1>2 DEF Excluded
  <2>3. QED
    BY <2>1, <2>2 DEF Row, Apart
<1>3. ASSUME NEW a \in AppointmentIDs, NEW b \in AppointmentIDs, a # b,
             Live(appointments'[a]), Live(appointments'[b]),
             appointments'[a].request.barber = appointments'[b].request.barber
      PROVE  Apart(appointments'[a], appointments'[b])
  <2>1. CASE a = i
    BY <1>1, <1>2, <1>3, <2>1 DEF Active
  <2>2. CASE b = i
    BY <1>1, <1>2, <1>3, <2>2 DEF Active
  <2>3. CASE a # i /\ b # i
    BY <1>1, <1>3, <2>3 DEF NoDoubleBooking, Active, Apart
  <2>4. QED
    BY <2>1, <2>2, <2>3
<1>4. QED
  BY <1>3 DEF NoDoubleBooking, Active, Apart

\* No write the constraints admit books a barber twice at once.
LEMMA DoubleBookingStep ==
  ASSUME TypeOK, TargetsExist, NoDoubleBooking, [Next]_vars
  PROVE  NoDoubleBooking'
<1>0. appointments \in [AppointmentIDs -> Row \cup {NoRow}]
  BY DEF TypeOK
<1>1. CASE UNCHANGED appointments
  BY <1>1 DEF NoDoubleBooking, Active
<1>2. ASSUME NEW r \in Requests, NEW i \in AppointmentIDs, At(r, "locked"), CommitCreate(r, i)
      PROVE  NoDoubleBooking'
  <2> DEFINE in == requests[r].in
             shape == requests[r].shape
             row == [request |-> in, start |-> in.start, from |-> From(in.start, shape),
                     to |-> To(in.start, shape), status |-> "pending"]
  <2>1. in \in CreateInput /\ shape \in AnyShape /\ in.start \in Int
    BY <1>2, RequestShape, BookingAssumption, ZenonT(60)
       DEF At, CreatePCs, Creating, CreateInput, BookingAssumption
  <2>2. row \in Row
    BY <2>1, WindowType DEF Row, Statuses
  <2>3. /\ appointments' = [appointments EXCEPT ![i] = row]
        /\ ~Excluded(i, row.request.barber, row.from, row.to)
    BY <1>2, ZenonT(60) DEF CommitCreate
  <2>4. QED
    BY <2>2, <2>3, WriteKeepsApart, ZenonT(60)
<1>3. ASSUME NEW r \in Requests, At(r, "moving_checked"), CommitReschedule(r)
      PROVE  NoDoubleBooking'
  <2> DEFINE in == requests[r].in
             shape == requests[r].shape
             i == in.target
             row == [appointments[i] EXCEPT !.start = in.start,
                       !.from = From(in.start, shape), !.to = To(in.start, shape)]
  <2>1. i \in AppointmentIDs /\ shape \in AnyShape /\ in.start \in Int
    BY <1>3, RequestShape, BookingAssumption, ZenonT(60)
       DEF At, MovePCs, Rescheduling, RescheduleInput, BookingAssumption
  <2>2. appointments[i] \in Row
    BY <1>3, <2>1, ActiveExists, RowType DEF CommitReschedule
  <2>3. row \in Row
    BY <2>1, <2>2, WindowType, ZenonT(60) DEF Row
  <2>4. /\ appointments' = [appointments EXCEPT ![i] = row]
        /\ ~Excluded(i, row.request.barber, row.from, row.to)
    BY <1>3 DEF CommitReschedule
  <2>5. QED
    BY <2>1, <2>3, <2>4, WriteKeepsApart, ZenonT(60)
<1>4. ASSUME NEW i \in AppointmentIDs, NEW to \in Statuses, Exists(i),
             MayBecome(appointments[i].status, to), SetStatus(i, to)
      PROVE  NoDoubleBooking'
  <2>1. appointments[i] \in Row /\ Active(i)
    BY <1>4, RowType DEF MayBecome, Active
  <2>2. appointments' = [appointments EXCEPT ![i] = [appointments[i] EXCEPT !.status = to]]
    BY <1>4 DEF SetStatus
  <2>3. /\ appointments'[i].request = appointments[i].request
        /\ appointments'[i].from = appointments[i].from
        /\ appointments'[i].to = appointments[i].to
        /\ \A j \in AppointmentIDs \ {i} : appointments'[j] = appointments[j]
    BY <1>0, <2>1, <2>2 DEF Row
  <2>4. ASSUME NEW j \in AppointmentIDs, Active(j)'
        PROVE  /\ Active(j) /\ appointments'[j].request = appointments[j].request
               /\ appointments'[j].from = appointments[j].from
               /\ appointments'[j].to = appointments[j].to
    BY <2>1, <2>3, <2>4 DEF Active
  <2>5. QED
    BY <2>4 DEF NoDoubleBooking
<1>5. QED
  BY <1>1, <1>2, <1>3, <1>4, DatabaseSteps DEF DatabaseStep, database, ExpireKey

\* The scope of its key and its fingerprint determine a create request.
LEMMA SameInput ==
  ASSUME NEW p \in CreateInput, NEW q \in CreateInput,
         p.principal = q.principal, p.key = q.key,
         p.barber = q.barber, p.service = q.service, p.start = q.start
  PROVE  p = q
<1>1. p = [op |-> "create", principal |-> p.principal, key |-> p.key, barber |-> p.barber,
           service |-> p.service, start |-> p.start]
  BY DEF CreateInput
<1>2. q = [op |-> "create", principal |-> q.principal, key |-> q.key, barber |-> q.barber,
           service |-> q.service, start |-> q.start]
  BY DEF CreateInput
<1>3. QED
  BY <1>1, <1>2

\* A step that answers a create gives it its own appointment and no unique-key error.
LEMMA AnswersStep ==
  ASSUME TypeOK, TargetsExist, LocksAreExclusive, KeysMatchRows, AnswerIsOwnBooking,
         NoUniqueKeyRace, [Next]_vars
  PROVE  AnswerIsOwnBooking' /\ NoUniqueKeyRace'
<1>0. /\ requests \in [Requests -> RequestStates] /\ requests' \in [Requests -> RequestStates]
      /\ keys \in [Scopes -> KeyRow \cup {NoKey}]
      /\ appointments \in [AppointmentIDs -> Row \cup {NoRow}]
  BY TypeStep, BookingAssumption DEF TypeOK
<1>1. SUFFICES ASSUME NEW r \in Requests, requests'[r].pc = "done"
               PROVE  /\ requests'[r].outcome # "duplicate_key"
                      /\ requests'[r].in.op = "create" /\ requests'[r].outcome = "ok" =>
                           /\ requests'[r].appointment \in AppointmentIDs
                           /\ appointments'[requests'[r].appointment] # NoRow
                           /\ appointments'[requests'[r].appointment].request = requests'[r].in
  BY DEF AnswerIsOwnBooking, NoUniqueKeyRace, At, Exists
<1>2. requests'[r] \in Done
  BY <1>0, <1>1 DEF RequestStates, Idle, Creating, Rescheduling, Cancelling
<1>a. ASSUME NEW i \in AppointmentIDs, Exists(i)
      PROVE  appointments'[i] # NoRow /\ appointments'[i].request = appointments[i].request
  BY <1>a, DatabaseSteps, RowsPersist DEF Exists
<1>3. CASE requests'[r] = requests[r]
  <2>1. requests[r].outcome # "duplicate_key"
    BY <1>1, <1>3 DEF NoUniqueKeyRace, At
  <2>2. ASSUME requests[r].in.op = "create", requests[r].outcome = "ok"
        PROVE  /\ requests[r].appointment \in AppointmentIDs
               /\ Exists(requests[r].appointment)
               /\ appointments[requests[r].appointment].request = requests[r].in
    BY <1>1, <1>3, <2>2 DEF AnswerIsOwnBooking, At
  <2>3. QED
    BY <1>3, <1>a, <2>1, <2>2
<1>4. CASE Answers(r, requests'[r])
  <2> DEFINE q == requests'[r]
  <2>1. CASE requests[r].pc \in MovePCs \cup CancelPCs /\ q.outcome # "duplicate_key"
    <3>1. requests[r].in.op # "create"
      BY <2>1, RequestShape DEF Rescheduling, RescheduleInput, Cancelling, CancelInput
    <3>2. QED
      BY <1>4, <2>1, <3>1 DEF Answers
  <2>2. CASE AnswersCreate(r, q)
    <3>1. q.in = requests[r].in /\ q.in \in CreateInput /\ KeyOf(q.in) \in Scopes
      BY <1>4, <2>2, RequestShape, KeyOfType, ZenonT(60) DEF Answers, AnswersCreate, Creating
    <3>2. CASE /\ q.outcome = "ok"
               /\ keys[KeyOf(q.in)] # NoKey
               /\ keys[KeyOf(q.in)].fingerprint = fingerprint(q.in)
               /\ q.appointment = keys[KeyOf(q.in)].appointment
      <4> DEFINE i == keys[KeyOf(q.in)].appointment
      <4>1. i \in AppointmentIDs
        BY <1>0, <3>1, <3>2 DEF KeyRow
      <4>2. /\ Exists(i) /\ KeyOf(appointments[i].request) = KeyOf(q.in)
            /\ fingerprint(appointments[i].request) = fingerprint(q.in)
        BY <3>1, <3>2 DEF KeysMatchRows
      <4>3. appointments[i].request \in CreateInput
        BY <4>1, <4>2, RowType
      <4>4. appointments[i].request = q.in
        <5> DEFINE p == appointments[i].request
        <5>1. p.principal = q.in.principal /\ p.key = q.in.key
          BY <4>2, ZenonT(60) DEF KeyOf
        <5>2. p.barber = q.in.barber /\ p.service = q.in.service /\ p.start = q.in.start
          BY <4>2, ZenonT(60) DEF fingerprint
        <5>3. QED
          BY <3>1, <4>3, <5>1, <5>2, SameInput, ZenonT(60)
      <4>5. QED
        BY <1>a, <3>2, <4>1, <4>2, <4>4
    <3>3. ASSUME q.outcome = "ok", NEW i \in AppointmentIDs, CommitCreate(r, i),
                 q.appointment = i
          PROVE  /\ q.outcome # "duplicate_key"
                 /\ appointments'[i] # NoRow /\ appointments'[i].request = q.in
      BY <1>0, <3>1, <3>3, ZenonT(60) DEF CommitCreate, NoRow
    <3>4. CASE q.outcome # "ok" /\ (q.outcome = "duplicate_key" =>
                                     At(r, "locked") /\ keys[KeyOf(q.in)] # NoKey)
      BY <3>1, <3>4, ZenonT(60) DEF LocksAreExclusive
    <3>5. QED
      BY <2>2, <3>2, <3>3, <3>4, ZenonT(60) DEF AnswersCreate
  <2>3. QED
    BY <1>4, <2>1, <2>2 DEF Answers
<1>5. CASE Receives(requests'[r]) \/ Advances(r, requests'[r]) \/ Locks(r, requests'[r])
  BY <1>1, <1>5 DEF Receives, Advances, Locks, Idle, CreatePCs, MovePCs, CancelPCs
<1>6. QED
  BY <1>0, <1>3, <1>4, <1>5, RequestSteps, ZenonT(60) DEF RequestStep

\* A row is written with an event that, with those before it, tells the row.
LEMMA WriteTells ==
  ASSUME TypeOK, EventsTellTheRow, NEW i \in AppointmentIDs, NEW row \in Row, NEW type,
         appointments' = [appointments EXCEPT ![i] = row],
         Record(i, type, row),
         Tells(events[i] \cup {[type |-> type, status |-> row.status, start |-> row.start]}, row)
  PROVE  EventsTellTheRow'
<1> DEFINE log == events[i] \cup {[type |-> type, status |-> row.status, start |-> row.start]}
<1>0. /\ appointments \in [AppointmentIDs -> Row \cup {NoRow}]
      /\ events \in [AppointmentIDs -> SUBSET Event]
  BY DEF TypeOK
<1>1. events'[i] = log /\ \A j \in AppointmentIDs \ {i} : events'[j] = events[j]
  BY <1>0 DEF Record
<1>2. /\ appointments'[i] = row
      /\ \A j \in AppointmentIDs \ {i} : appointments'[j] = appointments[j]
  BY <1>0
<1>3. row # NoRow
  BY DEF Row, NoRow, Statuses
<1>4. Tells(log, row)
  OBVIOUS
<1> HIDE DEF log
<1>5. ASSUME NEW j \in AppointmentIDs
      PROVE  IF appointments'[j] # NoRow THEN Tells(events'[j], appointments'[j]) ELSE events'[j] = {}
  <2>1. CASE j = i
    BY <1>1, <1>2, <1>3, <1>4, <2>1
  <2>2. CASE j # i
    BY <1>1, <1>2, <2>2 DEF EventsTellTheRow, Exists
  <2>3. QED
    BY <2>1, <2>2
<1>6. QED
  BY <1>5 DEF EventsTellTheRow, Exists

\* The first event of a row tells it.
LEMMA CreatedTells ==
  ASSUME NEW row \in Row, row.status = "pending"
  PROVE  Tells({} \cup {[type |-> "created", status |-> row.status, start |-> row.start]}, row)
  BY DEF Tells, Finishes, ActiveStatuses

\* A move of an active row is told by its event, ...
LEMMA MovedTells ==
  ASSUME NEW log, NEW row, row.status \in ActiveStatuses, NEW new, new.status = row.status,
         Tells(log, row)
  PROVE  Tells(log \cup {[type |-> "rescheduled", status |-> new.status, start |-> new.start]}, new)
<1> DEFINE e == [type |-> "rescheduled", status |-> new.status, start |-> new.start]
<1>1. ~Finishes(e) /\ e.start = new.start /\ e.type # "confirmed"
  BY DEF Finishes
<1> HIDE DEF e
<1>2. \A f \in log : ~Finishes(f)
  BY DEF Tells
<1>3. Tells(log \cup {e}, new)
  BY <1>1, <1>2 DEF Tells, ActiveStatuses
<1>4. QED
  BY <1>3 DEF e

\* ... and so is a change of its status.
LEMMA ChangedTells ==
  ASSUME NEW log, NEW row, NEW to, MayBecome(row.status, to), NEW new,
         new.status = to, new.start = row.start, Tells(log, row)
  PROVE  Tells(log \cup {[type |-> to, status |-> new.status, start |-> new.start]}, new)
<1>1. /\ row.status \in ActiveStatuses
      /\ to \in {"confirmed", "cancelled", "completed", "no_show"}
  BY DEF MayBecome, transitions, ActiveStatuses
<1> DEFINE e == [type |-> to, status |-> new.status, start |-> new.start]
<1>2. /\ e = [type |-> new.status, status |-> new.status, start |-> new.start]
      /\ e.type = to /\ e.start = new.start /\ (Finishes(e) <=> to # "confirmed")
  BY <1>1 DEF Finishes
<1> HIDE DEF e
<1>3. \A f \in log : ~Finishes(f)
  BY <1>1 DEF Tells
<1>4. Tells(log \cup {e}, new)
  BY <1>1, <1>2, <1>3 DEF Tells, ActiveStatuses
<1>5. QED
  BY <1>4 DEF e

\* A write to an appointment appends the event that tells it.
LEMMA EventsStep ==
  ASSUME TypeOK, TargetsExist, EventsTellTheRow, [Next]_vars
  PROVE  EventsTellTheRow'
<1>1. CASE UNCHANGED <<appointments, events>>
  BY <1>1 DEF EventsTellTheRow, Exists
<1>2. ASSUME NEW r \in Requests, NEW i \in AppointmentIDs, At(r, "locked"), ~Exists(i), CommitCreate(r, i)
      PROVE  EventsTellTheRow'
  <2> DEFINE in == requests[r].in
             shape == requests[r].shape
             row == [request |-> in, start |-> in.start, from |-> From(in.start, shape),
                     to |-> To(in.start, shape), status |-> "pending"]
  <2>1. in \in CreateInput /\ shape \in AnyShape /\ in.start \in Int
    BY <1>2, RequestShape, BookingAssumption, ZenonT(60)
       DEF At, CreatePCs, Creating, CreateInput, BookingAssumption
  <2>2. row \in Row
    BY <2>1, WindowType DEF Row, Statuses
  <2>3. appointments' = [appointments EXCEPT ![i] = row] /\ Record(i, "created", row)
    BY <1>2, ZenonT(60) DEF CommitCreate
  <2>4. row.status = "pending" /\ events[i] = {}
    BY <1>2 DEF EventsTellTheRow
  <2> HIDE DEF row
  <2>5. Tells(events[i] \cup {[type |-> "created", status |-> row.status, start |-> row.start]}, row)
    BY <2>2, <2>4, CreatedTells
  <2>6. QED
    BY <2>2, <2>3, <2>5, WriteTells, ZenonT(60)
<1>3. ASSUME NEW r \in Requests, At(r, "moving_checked"), CommitReschedule(r)
      PROVE  EventsTellTheRow'
  <2> DEFINE in == requests[r].in
             shape == requests[r].shape
             i == in.target
             row == [appointments[i] EXCEPT !.start = in.start,
                       !.from = From(in.start, shape), !.to = To(in.start, shape)]
  <2>1. i \in AppointmentIDs /\ shape \in AnyShape /\ in.start \in Int
    BY <1>3, RequestShape, BookingAssumption, ZenonT(60)
       DEF At, MovePCs, Rescheduling, RescheduleInput, BookingAssumption
  <2>2. appointments[i] \in Row
    BY <1>3, <2>1, ActiveExists, RowType DEF CommitReschedule
  <2>3. row \in Row
    BY <2>1, <2>2, WindowType, ZenonT(60) DEF Row
  <2>4. appointments' = [appointments EXCEPT ![i] = row] /\ Record(i, "rescheduled", row)
    BY <1>3 DEF CommitReschedule
  <2>5. /\ Tells(events[i], appointments[i]) /\ appointments[i].status \in ActiveStatuses
        /\ row.status = appointments[i].status
    BY <1>3, <2>1, <2>2, ActiveExists DEF CommitReschedule, EventsTellTheRow, Active, Row
  <2> HIDE DEF row
  <2>6. Tells(events[i] \cup {[type |-> "rescheduled", status |-> row.status, start |-> row.start]}, row)
    BY <2>5, MovedTells
  <2>7. QED
    BY <2>1, <2>3, <2>4, <2>6, WriteTells, ZenonT(60)
<1>4. ASSUME NEW i \in AppointmentIDs, NEW to \in Statuses, Exists(i),
             MayBecome(appointments[i].status, to), SetStatus(i, to)
      PROVE  EventsTellTheRow'
  <2> DEFINE row == [appointments[i] EXCEPT !.status = to]
  <2>1. row \in Row
    BY <1>4, RowType DEF Row
  <2>2. appointments' = [appointments EXCEPT ![i] = row] /\ Record(i, to, row)
    BY <1>4 DEF SetStatus
  <2>3. /\ Tells(events[i], appointments[i]) /\ row.status = to
        /\ row.start = appointments[i].start
    BY <1>4, RowType DEF EventsTellTheRow, Row
  <2> HIDE DEF row
  <2>4. Tells(events[i] \cup {[type |-> to, status |-> row.status, start |-> row.start]}, row)
    BY <1>4, <2>3, ChangedTells
  <2>5. QED
    BY <2>1, <2>2, <2>4, WriteTells, ZenonT(60)
<1>5. QED
  BY <1>1, <1>2, <1>3, <1>4, DatabaseSteps DEF DatabaseStep, database, ExpireKey

\* A commit writes a row that did not exist or is active.
LEMMA FinishedStep ==
  ASSUME TypeOK, DatabaseStep, NEW i \in AppointmentIDs, Exists(i), ~Active(i)
  PROVE  UNCHANGED <<appointments[i], events[i]>>
<1>0. /\ appointments \in [AppointmentIDs -> Row \cup {NoRow}]
      /\ events \in [AppointmentIDs -> SUBSET Event]
  BY DEF TypeOK
<1>1. ASSUME NEW j \in AppointmentIDs, j # i, NEW row, NEW type,
             appointments' = [appointments EXCEPT ![j] = row], Record(j, type, row)
      PROVE  UNCHANGED <<appointments[i], events[i]>>
  BY <1>0, <1>1 DEF Record
<1>2. ASSUME NEW r \in Requests, NEW j \in AppointmentIDs, ~Exists(j), CommitCreate(r, j)
      PROVE  UNCHANGED <<appointments[i], events[i]>>
  BY <1>1, <1>2, ZenonT(60) DEF CommitCreate
<1>3. ASSUME NEW r \in Requests, At(r, "moving_checked"), CommitReschedule(r)
      PROVE  UNCHANGED <<appointments[i], events[i]>>
  <2>1. requests[r].in.target \in AppointmentIDs
    BY <1>3, RequestShape, ZenonT(60) DEF At, MovePCs, Rescheduling, RescheduleInput
  <2>2. QED
    BY <1>1, <1>3, <2>1, ZenonT(60) DEF CommitReschedule
<1>4. ASSUME NEW j \in AppointmentIDs, NEW to \in Statuses,
             MayBecome(appointments[j].status, to), SetStatus(j, to)
      PROVE  UNCHANGED <<appointments[i], events[i]>>
  <2>1. j # i
    BY <1>4 DEF MayBecome, Active
  <2>2. QED
    BY <1>1, <1>4, <2>1, ZenonT(60) DEF SetStatus
<1>5. QED
  BY <1>2, <1>3, <1>4, ZenonT(60) DEF DatabaseStep, database, ExpireKey

-----------------------------------------------------------------------------
(* The theorems.                                                           *)

\* The inductive invariant: types need TargetsExist, the keys need the locks.
IInv ==
  /\ TypeOK
  /\ TargetsExist
  /\ NoDoubleBooking
  /\ LocksAreExclusive
  /\ KeysMatchRows
  /\ AnswerIsOwnBooking
  /\ NoUniqueKeyRace
  /\ EventsTellTheRow

\* No interleaving of requests, edits, expiry and crashes leaves the invariant.
THEOREM Invariance == Spec => []IInv
<1>1. Init => IInv
  <2> SUFFICES ASSUME Init PROVE IInv
    OBVIOUS
  <2>1. TypeOK
    <3>1. load \in Loads /\ load.shapes \subseteq Shapes /\ load.notices \subseteq Notices
      BY BookingAssumption DEF Init, Load
    <3>2. catalog \in [Services -> Shapes] /\ notice \in Notices
      BY <3>1 DEF Init
    <3>3. QED
      BY <3>1, <3>2 DEF Init, TypeOK, RequestStates
  <2>2. \A r \in Requests : requests[r].pc = "idle"
    BY DEF Init, Idle
  <2>3. TargetsExist /\ LocksAreExclusive /\ AnswerIsOwnBooking /\ NoUniqueKeyRace
    BY <2>2 DEF TargetsExist, LocksAreExclusive, AnswerIsOwnBooking, NoUniqueKeyRace, At
  <2>4. NoDoubleBooking
    BY DEF Init, NoDoubleBooking, Active, NoRow, ActiveStatuses
  <2>5. KeysMatchRows
    BY DEF Init, KeysMatchRows, Exists
  <2>6. EventsTellTheRow
    BY DEF Init, EventsTellTheRow, Exists
  <2>7. QED
    BY <2>1, <2>3, <2>4, <2>5, <2>6 DEF IInv
<1>2. IInv /\ [Next]_vars => IInv'
  BY BookingAssumption, TypeStep, TargetsStep, DoubleBookingStep, LocksStep, KeysStep,
     AnswersStep, EventsStep DEF IInv
<1>3. QED
  BY <1>1, <1>2, PTL DEF Spec

\* Rows, keys, events and requests always have the shape of the schema.
THEOREM TypeCorrect == Spec => []TypeOK
  BY Invariance, PTL DEF IInv

\* For any number of requests, barbers and appointments, no barber is ever booked
\* twice at once.
THEOREM NoDoubleBookingHolds == Spec => []NoDoubleBooking
  BY Invariance, PTL DEF IInv

\* A retained idempotency key stands for one appointment, whatever is retried.
THEOREM OneBookingPerKeyHolds == Spec => []OneBookingPerKey
<1>1. IInv => OneBookingPerKey
  BY DEF IInv, KeysMatchRows, OneBookingPerKey
<1>2. QED
  BY <1>1, Invariance, PTL

\* A create is answered with an appointment booked for exactly that request.
THEOREM AnswerIsOwnBookingHolds == Spec => []AnswerIsOwnBooking
  BY Invariance, PTL DEF IInv

\* The advisory lock keeps attempts with one key out of the unique constraint.
THEOREM NoUniqueKeyRaceHolds == Spec => []NoUniqueKeyRace
  BY Invariance, PTL DEF IInv

\* The last event of an appointment always tells its status and start.
THEOREM EventsTellTheRowHolds == Spec => []EventsTellTheRow
  BY Invariance, PTL DEF IInv

\* A cancelled, completed or missed appointment is never touched again.
THEOREM FinishedStaysFinishedHolds == Spec => FinishedStaysFinished
<1>1. IInv /\ [Next]_vars =>
        [\A i \in AppointmentIDs :
           Exists(i) /\ ~Active(i) => UNCHANGED <<appointments[i], events[i]>>]_vars
  BY DatabaseSteps, FinishedStep DEF IInv
<1>2. QED
  BY <1>1, Invariance, PTL DEF Spec, FinishedStaysFinished

-----------------------------------------------------------------------------
(* The table implements Calendar.                                          *)

\* What Calendar sees of a row.
Slot(row) ==
  IF row.status \in ActiveStatuses
  THEN [state |-> "held", barber |-> row.request.barber, from |-> row.from, to |-> row.to]
  ELSE IF row # NoRow THEN [state |-> "released"] ELSE [state |-> "never"]

\* The refinement mapping reads one row per slot, before and after a step.
LEMMA SlotOfRow ==
  /\ slots = [i \in AppointmentIDs |-> Slot(appointments[i])]
  /\ slots' = [i \in AppointmentIDs |-> Slot(appointments'[i])]
  BY DEF slots, Slot, Active, Exists

\* An appointment that was never booked holds nothing.
LEMMA SlotOfNoRow == Slot(NoRow) = Cal!NeverBooked
<1>1. NoRow.status \notin ActiveStatuses
  BY DEF NoRow, ActiveStatuses
<1>2. QED
  BY <1>1, ZenonT(60) DEF Slot, Cal!NeverBooked

\* Writing an active row that the constraints admit takes its time in Calendar.
LEMMA WriteTakes ==
  ASSUME TypeOK, NEW i \in AppointmentIDs, NEW row \in Row,
         row.status \in ActiveStatuses, row.from < row.to,
         appointments' = [appointments EXCEPT ![i] = row],
         ~Excluded(i, row.request.barber, row.from, row.to)
  PROVE  Cal!Take(i) /\ slots'[i] = Slot(row)
<1>0. appointments \in [AppointmentIDs -> Row \cup {NoRow}]
  BY DEF TypeOK
<1>1. slots'[i] = Slot(row)
  BY <1>0, SlotOfRow
<1>2. Slot(row) = [state |-> "held", barber |-> row.request.barber, from |-> row.from,
                   to |-> row.to]
  BY DEF Slot
<1>3. Slot(row) \in Cal!Held
  BY <1>2 DEF Cal!Held, Row, CreateInput
<1>4. slots' = [slots EXCEPT ![i] = slots'[i]]
  <2>1. \A j \in AppointmentIDs : j # i => slots'[j] = slots[j]
    BY <1>0, SlotOfRow, ZenonT(60)
  <2>2. QED
    BY <2>1, SlotOfRow
<1>5. ASSUME NEW j \in AppointmentIDs \ {i}, slots[j].state = "held"
      PROVE  ~Cal!Overlap(Slot(row), slots[j])
  <2>1. slots[j] = Slot(appointments[j])
    BY SlotOfRow
  <2>2. Active(j)
    BY <1>5, <2>1 DEF Slot, Active
  <2>3. slots[j] = [state |-> "held", barber |-> appointments[j].request.barber,
                    from |-> appointments[j].from, to |-> appointments[j].to]
    BY <2>1, <2>2 DEF Slot, Active
  <2>4. QED
    BY <1>2, <2>2, <2>3 DEF Excluded, Cal!Overlap
<1>6. QED
  BY <1>1, <1>2, <1>3, <1>4, <1>5 DEF Cal!Take, Cal!FreeFor

\* Every step of Booking is a step of Calendar or leaves the slots alone.
LEMMA CalendarStep ==
  ASSUME TypeOK, TargetsExist, [Next]_vars
  PROVE  [Cal!Next]_slots
<1>0. appointments \in [AppointmentIDs -> Row \cup {NoRow}]
  BY DEF TypeOK
<1>1. CASE UNCHANGED appointments
  BY <1>1, SlotOfRow
<1>2. ASSUME NEW r \in Requests, NEW i \in AppointmentIDs, At(r, "locked"), ~Exists(i),
             CommitCreate(r, i)
      PROVE  Cal!Next
  <2> DEFINE in == requests[r].in
             shape == requests[r].shape
             row == [request |-> in, start |-> in.start, from |-> From(in.start, shape),
                     to |-> To(in.start, shape), status |-> "pending"]
  <2>1. in \in CreateInput /\ shape \in AnyShape /\ in.start \in Int
    BY <1>2, RequestShape, BookingAssumption, ZenonT(60)
       DEF At, CreatePCs, Creating, CreateInput, BookingAssumption
  <2>2. row \in Row /\ row.status \in ActiveStatuses
    BY <2>1, WindowType DEF Row, Statuses, ActiveStatuses
  <2>3. /\ appointments' = [appointments EXCEPT ![i] = row] /\ row.from < row.to
        /\ ~Excluded(i, row.request.barber, row.from, row.to)
    BY <1>2, ZenonT(60) DEF CommitCreate, ChecksHold
  <2>4. Cal!Take(i)
    BY <2>2, <2>3, WriteTakes, ZenonT(60)
  <2>5. slots[i] = Cal!NeverBooked
    <3>1. slots[i] = Slot(appointments[i])
      BY SlotOfRow, ZenonT(60)
    <3>2. appointments[i] = NoRow
      BY <1>2 DEF Exists
    <3>3. QED
      BY <3>1, <3>2, SlotOfNoRow, ZenonT(60)
  <2>6. Cal!Book(i)
    BY <2>4, <2>5 DEF Cal!Book
  <2>7. QED
    BY <2>6 DEF Cal!Next
<1>3. ASSUME NEW r \in Requests, At(r, "moving_checked"), CommitReschedule(r)
      PROVE  Cal!Next
  <2> DEFINE in == requests[r].in
             shape == requests[r].shape
             i == in.target
             row == [appointments[i] EXCEPT !.start = in.start,
                       !.from = From(in.start, shape), !.to = To(in.start, shape)]
  <2>1. i \in AppointmentIDs /\ shape \in AnyShape /\ in.start \in Int
    BY <1>3, RequestShape, BookingAssumption, ZenonT(60)
       DEF At, MovePCs, Rescheduling, RescheduleInput, BookingAssumption
  <2>2. Active(i) /\ appointments[i] \in Row
    BY <1>3, <2>1, ActiveExists, RowType DEF CommitReschedule
  <2>3. /\ row \in Row /\ row.status \in ActiveStatuses
        /\ row.request = appointments[i].request
        /\ row.from = From(in.start, shape) /\ row.to = To(in.start, shape)
    BY <2>1, <2>2, WindowType, ZenonT(60) DEF Row, Active
  <2>4. /\ appointments' = [appointments EXCEPT ![i] = row] /\ row.from < row.to
        /\ ~Excluded(i, row.request.barber, row.from, row.to)
    BY <1>3, <2>3 DEF CommitReschedule, ChecksHold
  <2>5. Cal!Take(i) /\ slots'[i] = Slot(row)
    BY <2>1, <2>3, <2>4, WriteTakes, ZenonT(60)
  <2>6. slots[i] = Slot(appointments[i])
    BY <2>1, SlotOfRow
  <2>7. slots[i].state = "held" /\ slots'[i].barber = slots[i].barber
    BY <2>2, <2>3, <2>5, <2>6 DEF Slot, Active
  <2>8. QED
    BY <2>1, <2>5, <2>7 DEF Cal!Next, Cal!Move
<1>4. ASSUME NEW i \in AppointmentIDs, NEW to \in Statuses, Exists(i),
             MayBecome(appointments[i].status, to), SetStatus(i, to)
      PROVE  [Cal!Next]_slots
  <2> DEFINE row == [appointments[i] EXCEPT !.status = to]
  <2>1. appointments[i] \in Row /\ Active(i)
    BY <1>4, RowType DEF MayBecome, Active
  <2>2. /\ appointments' = [appointments EXCEPT ![i] = row]
        /\ row \in Row /\ row.status = to /\ row.request = appointments[i].request
        /\ row.from = appointments[i].from /\ row.to = appointments[i].to
    BY <1>4, <2>1 DEF SetStatus, Row
  <2>3. /\ slots[i] = Slot(appointments[i]) /\ slots'[i] = Slot(row)
        /\ \A j \in AppointmentIDs : j # i => slots'[j] = slots[j]
    BY <1>0, <2>2, SlotOfRow
  <2>4. row # NoRow
    BY <2>2 DEF Row, NoRow, Statuses
  <2>5. CASE to \in ActiveStatuses
    <3>1. Slot(row) = Slot(appointments[i])
      BY <2>1, <2>2, <2>5 DEF Slot, Active
    <3>2. QED
      BY <2>3, <3>1, SlotOfRow
  <2>6. CASE to \notin ActiveStatuses
    <3>1. slots'[i] = Cal!Released /\ slots[i].state = "held"
      BY <2>1, <2>2, <2>3, <2>4, <2>6 DEF Slot, Active, Cal!Released
    <3>2. slots' = [slots EXCEPT ![i] = Cal!Released]
      BY <2>3, <3>1, SlotOfRow
    <3>3. QED
      BY <3>1, <3>2, ZenonT(60) DEF Cal!Next, Cal!Release
  <2>7. QED
    BY <2>5, <2>6
<1>5. QED
  BY <1>1, <1>2, <1>3, <1>4, DatabaseSteps DEF DatabaseStep, database, ExpireKey

\* Seen through slots, every behaviour of the service is a behaviour of Calendar.
THEOREM CalendarImplemented == Spec => ImplementsCalendar
<1>1. Init => Cal!Init
  BY SlotOfRow DEF Init, Cal!Init, Cal!NeverBooked, Slot, NoRow, ActiveStatuses
<1>2. IInv /\ [Next]_vars => [Cal!Next]_slots
  BY CalendarStep DEF IInv
<1>3. QED
  BY <1>1, <1>2, Invariance, PTL DEF Spec, ImplementsCalendar, Cal!Spec
=============================================================================
