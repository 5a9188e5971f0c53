------------------------------- MODULE Booking -------------------------------
(***************************************************************************)
(* Booking, rescheduling and cancelling appointments: appointment-service, *)
(* seen through its HTTP handlers, its PostgreSQL transactions and the     *)
(* answers of the services it asks on the way.                             *)
(*                                                                         *)
(* One tenant is modelled, because every statement of the service carries  *)
(* tenant_id and row-level security confines the transaction to it.  A     *)
(* request is a record that moves through the steps of its handler; steps  *)
(* of different requests interleave, a PostgreSQL transaction commits in   *)
(* one step, and a request may vanish in any step (the process dies, or    *)
(* its answer is lost).                                                    *)
(***************************************************************************)
EXTENDS Integers, FiniteSets

CONSTANTS
  Requests,        \* HTTP requests being served
  AppointmentIDs,  \* ids the database can hand out: bounds the table
  Barbers, Services,
  Customers,       \* signed-in customers
  Guests,          \* guests, told apart by their e-mail address
  Admins,          \* identities with a role that may manage appointments
  Keys,            \* Idempotency-Key values
  Starts,          \* start times a caller may ask for
  Shapes,          \* what the catalog may say of a service
  Notices,         \* cancellation policies a tenant may choose
  SlotCheckApps,   \* app types the slot check answers
  Loads            \* what a behaviour may be about

Principals == Customers \cup Guests \cup Admins

Statuses == {"pending", "confirmed", "cancelled", "completed", "no_show"}
ActiveStatuses == {"pending", "confirmed"}

CreateInput == [op : {"create"}, principal : Principals, key : Keys,
                barber : Barbers, service : Services, start : Starts]
RescheduleInput == [op : {"reschedule"}, target : AppointmentIDs, start : Starts]
CancelInput == [op : {"cancel"}, customer : Customers, target : AppointmentIDs]

\* The requests that arrive, the ids the database hands out, what the catalog and the
\* policy may become, the statuses admins choose, and two bounds: an appointment with
\* so many events is not moved again, and the clock runs so far.
Load == [inputs : SUBSET (CreateInput \cup RescheduleInput \cup CancelInput),
         ids : SUBSET AppointmentIDs, shapes : SUBSET Shapes, notices : SUBSET Notices,
         decisions : SUBSET Statuses, events : Nat, hours : Nat]

ASSUME BookingAssumption ==
  /\ Starts \subseteq Int
  /\ Shapes \subseteq [duration : Nat, before : Nat, after : Nat]
  /\ Notices \subseteq Nat \cup {-1}
  /\ Loads \subseteq Load
  /\ Customers \cap (Guests \cup Admins) = {}
  /\ Guests \cap Admins = {}

VARIABLES
  appointments,  \* public.appointments: id -> row
  keys,          \* public.idempotency_keys: <<principal, key>> -> row
  events,        \* appointment_events / outbox_events: what they tell of each appointment
  catalog,       \* catalog-service: what a service takes
  notice,        \* tenant settings: cancellation notice, -1 for no_cancellation
  now,
  load,          \* what this behaviour is about
  requests,      \* request -> where its handler is
  expired        \* appointments whose key row was cleaned up (history)

vars == <<appointments, keys, events, catalog, notice, now, load, requests, expired>>

-----------------------------------------------------------------------------
(* Rows, requests and what is computed from them.                          *)

\* A row keeps the request that inserted it: its barber, service and customer
\* columns never change, its times and status do.
Row == [request : CreateInput, start : Int, from : Int, to : Int, status : Statuses]
NoRow == [status |-> "none"]

\* UNIQUE(tenant_id, principal_scope, operation, key): the operation follows
\* from the principal, public.create_appointment or admin.create_appointment.
Scopes == Principals \X Keys
KeyOf(in) == <<in.principal, in.key>>
fingerprint(in) == <<in.principal, in.barber, in.service, in.start>>
KeyRow == [fingerprint : Principals \X Barbers \X Services \X Starts,
           appointment : AppointmentIDs]
NoKey == [appointment |-> "none"]

Event == [type : {"created", "confirmed", "cancelled", "completed", "no_show", "rescheduled"},
          status : Statuses, start : Int]

Unread == [duration |-> 0, before |-> 0, after |-> 0]
AnyShape == [duration : Nat, before : Nat, after : Nat]

Idle == [pc |-> "idle"]
Creating == [pc : {"received", "fresh", "sized", "checked", "locked"},
             in : CreateInput, shape : AnyShape]
Rescheduling == [pc : {"moving", "moving_sized", "moving_checked"},
                 in : RescheduleInput, shape : AnyShape]
Cancelling == [pc : {"cancelling", "cancelling_checked"}, in : CancelInput,
               start : Int, at : Int]
Outcomes == {"ok", "slot_refused", "dependency_failed", "overlap", "bad_transition",
             "duplicate_key", "idempotency_conflict", "unauthorized", "unavailable",
             "error"}
Done == [pc : {"done"}, in : CreateInput \cup RescheduleInput \cup CancelInput,
         outcome : Outcomes, appointment : AppointmentIDs \cup {"none"}]
RequestStates == {Idle} \cup Creating \cup Rescheduling \cup Cancelling \cup Done

Active(i) == appointments[i].status \in ActiveStatuses
Exists(i) == appointments[i] # NoRow

From(start, shape) == start - shape.before
To(start, shape) == start + shape.duration + shape.after

\* CHECK (start_at < end_at) and CHECK (occupied_start_at < occupied_end_at).
ChecksHold(start, shape) ==
  /\ start < start + shape.duration
  /\ From(start, shape) < To(start, shape)

\* Mistake: the constraint covers pending rows only.
ExcludedPendingOnly(i, barber, from, to) ==
  \E j \in AppointmentIDs \ {i} :
    /\ appointments[j].status = "pending"
    /\ appointments[j].request.barber = barber
    /\ appointments[j].from < to
    /\ from < appointments[j].to

\* EXCLUDE USING gist (tenant_id, barber_id, [occupied_start_at, occupied_end_at))
\* WHERE status IN ('pending', 'confirmed'): an active row of this barber, other
\* than the row being written, overlaps the window.
Excluded(i, barber, from, to) ==
  \E j \in AppointmentIDs \ {i} :
    /\ Active(j)
    /\ appointments[j].request.barber = barber
    /\ appointments[j].from < to
    /\ from < appointments[j].to

AppType(p) == IF p \in Admins THEN "admin" ELSE "booking"

\* The window of the service, as the catalog has it now, meets one that the
\* occupancy endpoint reports for the barber, the caller's own included.
Occupied(barber, service, start) ==
  \E j \in AppointmentIDs :
    /\ Active(j)
    /\ appointments[j].request.barber = barber
    /\ From(start, catalog[service]) < appointments[j].to
    /\ To(start, catalog[service]) > appointments[j].from

\* Dependencies.Available: scheduling answers callers of some app types, and lists
\* the start when it lies ahead and is not occupied.
Available(app, barber, service, start) ==
  /\ app \in SlotCheckApps
  /\ start > now
  /\ ~Occupied(barber, service, start)

\* The transitions table of the repository.
transitions == [pending   |-> {"confirmed", "cancelled"},
                confirmed |-> {"cancelled", "completed", "no_show"}]
\* Mistake: a cancelled appointment may be confirmed again.
MayReopen(from, to) ==
  \/ from \in ActiveStatuses /\ to \in transitions[from]
  \/ from = "cancelled" /\ to = "confirmed"
MayBecome(from, to) == from \in ActiveStatuses /\ to \in transitions[from]

-----------------------------------------------------------------------------
Init ==
  /\ appointments = [i \in AppointmentIDs |-> NoRow]
  /\ keys = [k \in Scopes |-> NoKey]
  /\ events = [i \in AppointmentIDs |-> {}]
  /\ load \in Loads
  /\ catalog \in [Services -> load.shapes]
  /\ notice \in load.notices
  /\ now = 0
  /\ requests = [r \in Requests |-> Idle]
  /\ expired = {}

At(r, pc) == requests[r].pc = pc
Goto(r, pc) == requests' = [requests EXCEPT ![r].pc = pc]
AnswerWith(r, outcome, id) ==
  requests' = [requests EXCEPT ![r] = [pc |-> "done", in |-> requests[r].in,
                                       outcome |-> outcome, appointment |-> id]]
Refuse(r, outcome) == AnswerWith(r, outcome, "none")

database == <<appointments, keys, events, expired>>
environment == <<catalog, notice, now, load>>

\* An id is left for every create that could still insert one: bounds the table.
Room ==
  Cardinality({r \in Requests : requests[r].pc \in {"received", "fresh", "sized",
                                                    "checked", "locked"}})
    < Cardinality({i \in load.ids : ~Exists(i)})

-----------------------------------------------------------------------------
(* POST appointments: BookingService.Create.                               *)

ReceiveCreate(r, in) ==
  /\ in \in load.inputs
  /\ At(r, "idle")
  /\ Room
  /\ requests' = [requests EXCEPT ![r] = [pc |-> "received", in |-> in, shape |-> Unread]]
  /\ UNCHANGED <<database, environment>>

\* customer-service does not vouch for the customer.
CustomerUnknown(r) ==
  /\ At(r, "received")
  /\ requests[r].in.principal \in Customers
  /\ Refuse(r, "unauthorized")
  /\ UNCHANGED <<database, environment>>

\* Mistake: a stored result is replayed whatever the request says.
LookUpKeyOnly(r, pc) ==
  LET row == keys[KeyOf(requests[r].in)]
  IN  \/ row = NoKey /\ Goto(r, pc)
      \/ row # NoKey /\ AnswerWith(r, "ok", row.appointment)

\* What a key lookup decides: a stored result is replayed, another request under
\* the same key is refused, and a key not seen before goes on to pc.
LookUpKey(r, pc) ==
  LET in == requests[r].in
      row == keys[KeyOf(in)]
  IN  \/ row = NoKey /\ Goto(r, pc)
      \/ /\ row # NoKey
         /\ row.fingerprint # fingerprint(in)
         /\ Refuse(r, "idempotency_conflict")
      \/ /\ row # NoKey
         /\ row.fingerprint = fingerprint(in)
         /\ AnswerWith(r, "ok", row.appointment)

\* Repository.Replay, before anything else is asked.
Replay(r) ==
  /\ At(r, "received")
  /\ LookUpKey(r, "fresh")
  /\ UNCHANGED <<database, environment>>

\* The catalog's answer fixes the window the transaction will store.
ReadService(r) ==
  /\ At(r, "fresh")
  /\ requests' = [requests EXCEPT ![r].pc = "sized",
                                  ![r].shape = catalog[requests[r].in.service]]
  /\ UNCHANGED <<database, environment>>

CheckSlot(r) ==
  /\ At(r, "sized")
  /\ LET in == requests[r].in
     IN  IF Available(AppType(in.principal), in.barber, in.service, in.start)
         THEN Goto(r, "checked")
         ELSE Refuse(r, "slot_refused")
  /\ UNCHANGED <<database, environment>>

\* Branch, barber, catalog, settings or scheduling refuses or cannot be reached.
DependencyFails(r) ==
  /\ requests[r].pc \in {"fresh", "sized", "moving", "moving_sized"}
  /\ Refuse(r, "dependency_failed")
  /\ UNCHANGED <<database, environment>>

\* Mistakes: the lock excludes nobody; a session lock outlives the transaction.
LockNobody(r) ==
  /\ At(r, "checked")
  /\ LookUpKey(r, "locked")
  /\ UNCHANGED <<database, environment>>
LockForTheSession(r) ==
  /\ At(r, "checked")
  /\ ~ \E s \in Requests : /\ requests[s].pc \in {"locked", "done"}
                           /\ KeyOf(requests[s].in) = KeyOf(requests[r].in)
  /\ LookUpKey(r, "locked")
  /\ UNCHANGED <<database, environment>>

\* Repository.Create takes the advisory lock of the key, held until the
\* transaction ends, and looks the key up again.
Lock(r) ==
  /\ At(r, "checked")
  /\ ~ \E s \in Requests : At(s, "locked") /\ KeyOf(requests[s].in) = KeyOf(requests[r].in)
  /\ LookUpKey(r, "locked")
  /\ UNCHANGED <<database, environment>>

\* appendEvent.  Both tables order their rows by created_at, the start of the
\* transaction, which says nothing of the order of commits: the events are a set.
Record(i, type, row) ==
  events' = [events EXCEPT ![i] = @ \cup {[type |-> type, status |-> row.status,
                                           start |-> row.start]}]

\* Mistake: the key row is not inserted.
CommitWithoutKey(r, i) ==
  LET in == requests[r].in
      shape == requests[r].shape
      row == [request |-> in, start |-> in.start, from |-> From(in.start, shape),
              to |-> To(in.start, shape), status |-> "pending"]
  IN  /\ ChecksHold(in.start, shape)
      /\ ~Excluded(i, in.barber, row.from, row.to)
      /\ appointments' = [appointments EXCEPT ![i] = row]
      /\ Record(i, "created", row)
      /\ AnswerWith(r, "ok", i)
      /\ UNCHANGED <<keys, expired>>

\* The row, its key and its event are inserted and committed together.
CommitCreate(r, i) ==
  LET in == requests[r].in
      shape == requests[r].shape
      row == [request |-> in, start |-> in.start, from |-> From(in.start, shape),
              to |-> To(in.start, shape), status |-> "pending"]
  IN  /\ ChecksHold(in.start, shape)
      /\ ~Excluded(i, in.barber, row.from, row.to)
      /\ keys[KeyOf(in)] = NoKey
      /\ appointments' = [appointments EXCEPT ![i] = row]
      /\ keys' = [keys EXCEPT ![KeyOf(in)] =
                    [fingerprint |-> fingerprint(in), appointment |-> i]]
      /\ Record(i, "created", row)
      /\ AnswerWith(r, "ok", i)
      /\ UNCHANGED expired

\* The inserts of Repository.Create, or nothing when a constraint refuses one.
Insert(r) ==
  /\ At(r, "locked")
  /\ LET in == requests[r].in
         shape == requests[r].shape
         excluded(i) == Excluded(i, in.barber, From(in.start, shape), To(in.start, shape))
     IN  \E i \in AppointmentIDs :
           /\ i \in load.ids /\ ~Exists(i)
           /\ \/ /\ ~ChecksHold(in.start, shape)
                 /\ Refuse(r, "error")
                 /\ UNCHANGED database
              \/ /\ ChecksHold(in.start, shape)
                 /\ excluded(i)
                 /\ Refuse(r, "overlap")
                 /\ UNCHANGED database
              \/ /\ ChecksHold(in.start, shape)
                 /\ ~excluded(i)
                 /\ keys[KeyOf(in)] # NoKey
                 /\ Refuse(r, "duplicate_key")
                 /\ UNCHANGED database
              \/ CommitCreate(r, i)
  /\ UNCHANGED environment

\* The transaction fails for a reason of its own (a deadlock of two inserts on the
\* exclusion constraint, a lost connection): rolled back, answered 500.
TransactionFails(r) ==
  /\ requests[r].pc \in {"locked", "moving_checked", "cancelling_checked"}
  /\ Refuse(r, "error")
  /\ UNCHANGED <<database, environment>>

-----------------------------------------------------------------------------
(* PUT reschedule: LifecycleService.Reschedule, for admins.                *)

\* Reads the appointment (its barber and service never change afterwards).
ReceiveReschedule(r, in) ==
  /\ in \in load.inputs
  /\ At(r, "idle")
  /\ Exists(in.target)
  /\ Cardinality(events[in.target]) < load.events
  /\ requests' = [requests EXCEPT ![r] = [pc |-> "moving", in |-> in, shape |-> Unread]]
  /\ UNCHANGED <<database, environment>>

ReadServiceToMove(r) ==
  /\ At(r, "moving")
  /\ requests' = [requests EXCEPT
                    ![r].pc = "moving_sized",
                    ![r].shape = catalog[appointments[requests[r].in.target].request.service]]
  /\ UNCHANGED <<database, environment>>

CheckSlotToMove(r) ==
  /\ At(r, "moving_sized")
  /\ LET in == requests[r].in
         booked == appointments[in.target].request
     IN  IF Available("admin", booked.barber, booked.service, in.start)
         THEN Goto(r, "moving_checked")
         ELSE Refuse(r, "slot_refused")
  /\ UNCHANGED <<database, environment>>

\* Mistake: the event is built from the row as it was.
CommitRescheduleOldEvent(r) ==
  LET in == requests[r].in
      shape == requests[r].shape
      i == in.target
      row == [appointments[i] EXCEPT !.start = in.start, !.from = From(in.start, shape),
                                     !.to = To(in.start, shape)]
  IN  /\ Active(i)
      /\ ChecksHold(in.start, shape)
      /\ ~Excluded(i, row.request.barber, row.from, row.to)
      /\ appointments' = [appointments EXCEPT ![i] = row]
      /\ Record(i, "rescheduled", appointments[i])
      /\ AnswerWith(r, "ok", i)
      /\ UNCHANGED <<keys, expired>>

\* The row moves, with its event, while it is active.
CommitReschedule(r) ==
  LET in == requests[r].in
      shape == requests[r].shape
      i == in.target
      row == [appointments[i] EXCEPT !.start = in.start, !.from = From(in.start, shape),
                                     !.to = To(in.start, shape)]
  IN  /\ Active(i)
      /\ ChecksHold(in.start, shape)
      /\ ~Excluded(i, row.request.barber, row.from, row.to)
      /\ appointments' = [appointments EXCEPT ![i] = row]
      /\ Record(i, "rescheduled", row)
      /\ AnswerWith(r, "ok", i)
      /\ UNCHANGED <<keys, expired>>

\* Repository.Reschedule: the status is read again under the row lock.
Reschedule(r) ==
  /\ At(r, "moving_checked")
  /\ LET in == requests[r].in
         shape == requests[r].shape
         i == in.target
     IN  \/ /\ ~Active(i)
            /\ Refuse(r, "bad_transition")
            /\ UNCHANGED database
         \/ /\ Active(i)
            /\ ~ChecksHold(in.start, shape)
            /\ Refuse(r, "error")
            /\ UNCHANGED database
         \/ /\ Active(i)
            /\ ChecksHold(in.start, shape)
            /\ Excluded(i, appointments[i].request.barber,
                        From(in.start, shape), To(in.start, shape))
            /\ Refuse(r, "overlap")
            /\ UNCHANGED database
         \/ CommitReschedule(r)
  /\ UNCHANGED environment

-----------------------------------------------------------------------------
(* Status changes.                                                         *)

\* Repository.Transition, one transaction under the row lock.
SetStatus(i, to) ==
  LET row == [appointments[i] EXCEPT !.status = to]
  IN  /\ appointments' = [appointments EXCEPT ![i] = row]
      /\ Record(i, to, row)
      /\ UNCHANGED <<keys, expired>>

\* LifecycleService.Transition for an admin; a refusal changes nothing.
Transition(i, to) ==
  /\ to \in load.decisions
  /\ Exists(i)
  /\ MayBecome(appointments[i].status, to)
  /\ SetStatus(i, to)
  /\ UNCHANGED <<requests, environment>>

\* LifecycleService.CancelCustomer, called with the time the handler started at,
\* reads the customer's own appointment ...
ReceiveCancel(r, in) ==
  /\ in \in load.inputs
  /\ At(r, "idle")
  /\ Exists(in.target)
  /\ appointments[in.target].request.principal = in.customer
  /\ requests' = [requests EXCEPT ![r] = [pc |-> "cancelling", in |-> in,
                                          start |-> appointments[in.target].start,
                                          at |-> now]]
  /\ UNCHANGED <<database, environment>>

\* ... asks for the tenant's settings and decides on the start it has read ...
CheckNotice(r) ==
  /\ At(r, "cancelling")
  /\ \/ Refuse(r, "unavailable")
     \/ /\ notice = -1 \/ requests[r].at >= requests[r].start - notice
        /\ Refuse(r, "bad_transition")
     \/ /\ notice # -1
        /\ requests[r].at < requests[r].start - notice
        /\ Goto(r, "cancelling_checked")
  /\ UNCHANGED <<database, environment>>

\* Mistake: the cancellation trusts the status it read before.
CancelUnchecked(r) ==
  /\ At(r, "cancelling_checked")
  /\ SetStatus(requests[r].in.target, "cancelled")
  /\ AnswerWith(r, "ok", requests[r].in.target)
  /\ UNCHANGED environment

\* ... and cancels in a transaction that reads the status again.
CancelCustomer(r) ==
  /\ At(r, "cancelling_checked")
  /\ LET i == requests[r].in.target
     IN  \/ /\ ~MayBecome(appointments[i].status, "cancelled")
            /\ Refuse(r, "bad_transition")
            /\ UNCHANGED database
         \/ /\ MayBecome(appointments[i].status, "cancelled")
            /\ SetStatus(i, "cancelled")
            /\ AnswerWith(r, "ok", i)
  /\ UNCHANGED environment

-----------------------------------------------------------------------------
(* What happens around the requests.                                       *)

\* The process serving r dies, or the caller never sees the answer: an open
\* transaction rolls back with its lock, a committed one stays.
Crash(r) ==
  /\ requests[r].pc \notin {"idle", "done"}
  /\ requests' = [requests EXCEPT ![r] = Idle]
  /\ UNCHANGED <<database, environment>>

\* Mistake: the next request starts from the record of the last one.
FinishKeepsRecord(r) ==
  /\ At(r, "done")
  /\ Goto(r, "idle")
  /\ UNCHANGED <<database, environment>>

\* The answer has been delivered; the slot serves another request.
Finish(r) ==
  /\ At(r, "done")
  /\ requests' = [requests EXCEPT ![r] = Idle]
  /\ UNCHANGED <<database, environment>>

\* cleanup_expired_idempotency_keys: a key row older than seven days is deleted.
ExpireKey(k) ==
  /\ keys[k] # NoKey
  /\ keys' = [keys EXCEPT ![k] = NoKey]
  /\ expired' = expired \cup {keys[k].appointment}
  /\ UNCHANGED <<appointments, events, requests, environment>>

\* catalog-service: a service is edited.
EditService(s, shape) ==
  /\ shape \in load.shapes
  /\ catalog[s] # shape
  /\ catalog' = [catalog EXCEPT ![s] = shape]
  /\ UNCHANGED <<database, requests, notice, now, load>>

\* tenant-service: the cancellation policy is changed.
EditPolicy(n) ==
  /\ n \in load.notices
  /\ notice # n
  /\ notice' = n
  /\ UNCHANGED <<database, requests, catalog, now, load>>

Tick ==
  /\ now < load.hours
  /\ now' = now + 1
  /\ UNCHANGED <<database, requests, catalog, notice, load>>

-----------------------------------------------------------------------------
\* The steps of a handler that is running.
Serve(r) ==
  \/ Replay(r) \/ ReadService(r) \/ CheckSlot(r) \/ Lock(r) \/ Insert(r)
  \/ ReadServiceToMove(r) \/ CheckSlotToMove(r) \/ Reschedule(r)
  \/ CheckNotice(r) \/ CancelCustomer(r)

Next ==
  \/ \E r \in Requests :
       \/ \E in \in CreateInput : ReceiveCreate(r, in)
       \/ \E in \in RescheduleInput : ReceiveReschedule(r, in)
       \/ \E in \in CancelInput : ReceiveCancel(r, in)
       \/ Serve(r)
       \/ CustomerUnknown(r)
       \/ DependencyFails(r)
       \/ TransactionFails(r)
       \/ Crash(r)
       \/ Finish(r)
  \/ \E i \in AppointmentIDs, to \in Statuses : Transition(i, to)
  \/ \E k \in Scopes : ExpireKey(k)
  \/ \E s \in Services, shape \in Shapes : EditService(s, shape)
  \/ \E n \in Notices : EditPolicy(n)
  \/ Tick

Spec == Init /\ [][Next]_vars

\* A handler that runs is scheduled, and no statement of it waits for ever: the
\* HTTP clients time out, an advisory lock goes with its transaction, and
\* PostgreSQL grants it to its waiters in the order they came.
FairSpec ==
  Spec /\ \A r \in Requests : WF_vars(Serve(r)) /\ SF_vars(Lock(r))

-----------------------------------------------------------------------------
(* Properties.                                                             *)

\* The rows, keys, events and requests have the shape the schema gives them.
TypeOK ==
  /\ appointments \in [AppointmentIDs -> Row \cup {NoRow}]
  /\ keys \in [Scopes -> KeyRow \cup {NoKey}]
  /\ events \in [AppointmentIDs -> SUBSET Event]
  /\ catalog \in [Services -> Shapes]
  /\ notice \in Notices
  /\ now \in Int
  /\ load \in Loads
  /\ requests \in [Requests -> RequestStates]
  /\ expired \subseteq AppointmentIDs

\* A reschedule or a cancellation in flight names an appointment that exists.
TargetsExist ==
  \A r \in Requests :
    requests[r].pc \in {"moving", "moving_sized", "moving_checked",
                       "cancelling", "cancelling_checked"}
      => Exists(requests[r].in.target)

\* No barber is booked twice at once: the windows, buffers included, of two active
\* appointments of one barber never meet, whatever requests, reschedules and
\* catalog edits interleave between the slot check and the commit.
NoDoubleBooking ==
  \A i, j \in AppointmentIDs :
    /\ i # j /\ Active(i) /\ Active(j)
    /\ appointments[i].request.barber = appointments[j].request.barber
    => \/ appointments[i].to <= appointments[j].from
       \/ appointments[j].to <= appointments[i].from

\* However often a create is retried, concurrently or after a crash, its
\* idempotency key stands for one appointment: as long as the key row is retained
\* nobody has booked a second one under it, and the row names that appointment.
OneBookingPerKey ==
  /\ \A i, j \in AppointmentIDs :
       /\ Exists(i) /\ Exists(j)
       /\ i \notin expired /\ j \notin expired
       /\ KeyOf(appointments[i].request) = KeyOf(appointments[j].request)
       => i = j
  /\ \A k \in Scopes : keys[k] # NoKey =>
       /\ Exists(keys[k].appointment)
       /\ KeyOf(appointments[keys[k].appointment].request) = k

\* The requests in the transaction of Repository.Create hold different keys, none
\* of which has a row.
LocksAreExclusive ==
  \A r \in Requests : At(r, "locked") =>
    /\ keys[KeyOf(requests[r].in)] = NoKey
    /\ \A s \in Requests :
         At(s, "locked") /\ KeyOf(requests[s].in) = KeyOf(requests[r].in) => s = r

\* A key row and the appointment it was inserted with belong to each other, in
\* both directions, until the row is cleaned up.
KeysMatchRows ==
  /\ \A k \in Scopes : keys[k] # NoKey =>
       LET i == keys[k].appointment
       IN  /\ Exists(i) /\ i \notin expired
           /\ KeyOf(appointments[i].request) = k
           /\ fingerprint(appointments[i].request) = keys[k].fingerprint
  /\ \A i \in AppointmentIDs : Exists(i) /\ i \notin expired =>
       LET k == KeyOf(appointments[i].request)
       IN  keys[k] # NoKey /\ keys[k].appointment = i
  /\ \A i \in expired : Exists(i)

\* A create answered with an appointment, be it booked just now or replayed, is
\* answered with one that was booked for exactly this request.
AnswerIsOwnBooking ==
  \A r \in Requests :
    At(r, "done") /\ requests[r].in.op = "create" /\ requests[r].outcome = "ok" =>
      /\ requests[r].appointment \in AppointmentIDs
      /\ Exists(requests[r].appointment)
      /\ appointments[requests[r].appointment].request = requests[r].in

\* The advisory lock does what its comment says: two attempts with one key never
\* race into the unique constraint of idempotency_keys.
NoUniqueKeyRace ==
  \A r \in Requests : At(r, "done") => requests[r].outcome # "duplicate_key"

\* The events after which an appointment is not active.
Finishes(e) == e.type \notin {"created", "confirmed", "rescheduled"}

\* What the events of a row tell of it, in whatever order they are read.
Tells(log, row) ==
  /\ \E e \in log : e.type = "created"
  /\ \E e \in log : e.start = row.start
  /\ row.status = "pending" => \A e \in log : e.type # "confirmed"
  /\ row.status = "confirmed" => \E e \in log : e.type = "confirmed"
  /\ row.status \notin ActiveStatuses <=> \E e \in log : Finishes(e)
  /\ \A e \in log : Finishes(e) =>
       e = [type |-> row.status, status |-> row.status, start |-> row.start]

\* Whoever has seen all events of an appointment knows its status, although created_at
\* does not order them as they were committed: it is confirmed when one event says so
\* and finished when one does, which then tells its start too; otherwise its start is
\* one of those told.  So no path changes an appointment without its event, and none
\* leaves the event of a change that was rolled back.
EventsTellTheRow ==
  \A i \in AppointmentIDs :
    IF Exists(i) THEN Tells(events[i], appointments[i]) ELSE events[i] = {}

\* A cancelled, completed or missed appointment is never touched again, not even
\* by a reschedule or a cancellation that read it while it was still active.
FinishedStaysFinished ==
  [][\A i \in AppointmentIDs :
       Exists(i) /\ ~Active(i) => UNCHANGED <<appointments[i], events[i]>>]_vars

\* The table implements Calendar: time is taken only while it is free, moved by its
\* holder only, and a released appointment never comes back.
slots ==
  [i \in AppointmentIDs |->
     IF Active(i) THEN [state |-> "held", barber |-> appointments[i].request.barber,
                        from |-> appointments[i].from, to |-> appointments[i].to]
     ELSE IF Exists(i) THEN [state |-> "released"] ELSE [state |-> "never"]]

Cal == INSTANCE Calendar WITH slots <- slots
ImplementsCalendar == Cal!Spec

\* Every request that is received is answered, or its process dies: no
\* interleaving leaves one waiting for another's advisory lock for ever.
EveryRequestEnds ==
  \A r \in Requests : ~At(r, "idle") ~> requests[r].pc \in {"idle", "done"}

\* What the comment in Repository.Create promises of concurrent browser retries:
\* they "return the same appointment".  So no attempt is refused because of the
\* time that its own key, bound to this very request, already holds.
RetryReturnsTheAppointment ==
  [][\A r \in Requests :
       /\ ~At(r, "done") /\ requests'[r].pc = "done"
       /\ requests[r].in.op = "create"
       /\ keys[KeyOf(requests[r].in)] # NoKey
       /\ keys[KeyOf(requests[r].in)].fingerprint = fingerprint(requests[r].in)
       => requests'[r].outcome # "slot_refused"]_vars
=============================================================================
