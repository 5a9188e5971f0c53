----------------------------- MODULE Scheduling ------------------------------
(***************************************************************************)
(* The schedule of one barber in scheduling-service, on top of the shop:   *)
(* weekly hours, overrides of single dates, blocked periods, and the query *)
(* for the free slots of a day.                                            *)
(*                                                                         *)
(* One weekday is modelled, that of the date "today"; hours of other days  *)
(* are independent rows.  PostgreSQL runs at READ COMMITTED, so that each  *)
(* statement sees what is committed when it starts.  The query reads three *)
(* other services and four statements, one after the other.                *)
(***************************************************************************)
EXTENDS Shop, Availability

CONSTANTS
  Intervals,         \* periods working hours and overrides are made of
  Blocks,            \* periods that are blocked
  Appointments,      \* periods that appointments occupy
  BookingInterval,   \* minutes between slots in the tenant's settings, 0 when unset
  FallbackInterval,  \* the service's own
  DayEnd,            \* the next local midnight
  Now                \* the instant at which slots are computed

Dates == {"today", "another day"}
OverrideIDs == {1, 2}
Gone == [row |-> "deleted"]
Closed == {"unavailable", "vacation"}

ASSUME SchedulingAssumption ==
  /\ \A p \in Intervals \cup Blocks \cup Appointments : p \in [start : Nat, end : Nat] /\ p.start < p.end
  /\ \A p \in Intervals : p.end <= DayEnd
  /\ Blocks \cap Appointments = {}
  /\ BookingInterval \in Nat /\ DayEnd \in Nat /\ Now \in Nat
  /\ FallbackInterval \in Nat \ {0}

VARIABLES
  hours,      \* barber_working_hours of the weekday
  overrides,
  blocked,    \* blocked_periods; one row for each period
  occupied,   \* periods of pending and confirmed appointments in appointment-service
  replaced    \* the input of the last replacement of hours, and whether it was raced (ghost)

scheduleVars == <<hours, overrides, blocked, occupied, replaced>>
vars == <<shopVars, reqs, requests, saves, load, scheduleVars>>

Override == [date : Dates, kind : Closed \cup {"custom_hours"}, intervals : SUBSET Intervals]
OneByOne(periods) == \A p, q \in periods : p # q => ~Overlap(p, q)

ScheduleRequest ==
       [pc : {"authorize", "write", "delete"}, actor : Identities \cup {Nobody},
        op : {"hours", "other"}, raced : BOOLEAN]
  \cup [pc : {"lock", "insert"}, actor : Identities \cup {Nobody}, op : {"hours"}, gone : SUBSET Intervals,
        passed : BOOLEAN, raced : BOOLEAN]
  \cup [pc : {"service", "hours", "override", "intervals", "blocks", "occupancy", "slots"},
        service : Services, shape : Shapes \cup {NoRow}, hours : SUBSET Intervals,
        id : OverrideIDs \cup {0}, kind : Closed \cup {"none", "custom_hours"},
        intervals : SUBSET Intervals, busy : SUBSET Blocks, slots : Seq(Nat), found : BOOLEAN,
        failed : BOOLEAN, lasting : SUBSET (Blocks \cup Appointments), raced : BOOLEAN]

-----------------------------------------------------------------------------
(* Changes, by an OWNER or a MANAGER (Nobody in particular) or a BARBER.   *)

ScheduleRequested(r) ==
  /\ Start(r, "schedule")
  /\ \E actor \in Identities \cup {Nobody}, op \in {"hours", "other"} :
       Become(r, [pc |-> "authorize", actor |-> actor, op |-> op, raced |-> FALSE])
  /\ UNCHANGED <<shopVars, saves, load, scheduleVars>>

\* authorize(write): a BARBER has to be linked to the barber, by SchedulingAccess.
MayWrite(actor) == actor = Nobody \/ (Active(Chair) /\ IdentityOf(Chair) = actor)

Authorize(r) ==
  /\ In(r, "authorize")
  /\ IF MayWrite(reqs[r].actor) THEN Goto(r, IF reqs[r].op = "hours" THEN "delete" ELSE "write") ELSE Finish(r)
  /\ UNCHANGED <<shopVars, requests, saves, load, scheduleVars>>

\* ReplaceHours: the DELETE chooses its rows, and waits for the ones another transaction
\* is deleting.
DeleteHours(r) ==
  /\ In(r, "delete")
  /\ Become(r, [pc |-> "lock", actor |-> reqs[r].actor, op |-> "hours", gone |-> hours,
                passed |-> FALSE, raced |-> reqs[r].raced])
  /\ UNCHANGED <<shopVars, requests, saves, load, scheduleVars>>

LockHours(r) ==
  /\ In(r, "lock")
  /\ \A q \in Slots : In(q, "insert") => reqs[q].gone \cap reqs[r].gone = {}
  /\ Goto(r, "insert")
  /\ UNCHANGED <<shopVars, requests, saves, load, scheduleVars>>

\* Days of an input are validated one by one, and a weekday may come twice.
ValidHours(in) == \A d \in DOMAIN in : ValidIntervals(in[d])
HoursInputs ==
  LET Day == {InOrder(S) : S \in SUBSET Intervals}
  IN  {in \in {<<d>> : d \in Day} \cup {<<d, e>> : d, e \in Day \ {<<>>}} : ValidHours(in)}
Periods(in) == UNION {Listed(in[d]) : d \in DOMAIN in}
Repeats(in) == \E d, e \in DOMAIN in : d # e /\ Listed(in[d]) \cap Listed(in[e]) # {}

\* Mistakes: the table has no EXCLUDE constraint; the DELETE is left out.
AnyPeriods(periods) == TRUE
KeepRows(r, in) == hours \cup Periods(in)

\* EXCLUDE USING gist, of the hours of a weekday and of an override's intervals.
Excluded(periods) == OneByOne(periods)

\* The rows after the commit: those that were committed meanwhile are not deleted, nor may
\* one of them be inserted again.
ReplaceHours(r, in) == (hours \ reqs[r].gone) \cup Periods(in)

\* Another replacement on its way has chosen its rows before this one inserted any: a row
\* that is new is not among them, even where its interval is.
Passed(request, new) ==
  IF request.pc \in {"lock", "insert"}
  THEN [request EXCEPT !.gone = @ \ new, !.passed = TRUE, !.raced = TRUE]
  ELSE Raced(request)

CommitHours(r) ==
  /\ In(r, "insert")
  /\ \E in \in HoursInputs :
       /\ ~Repeats(in)
       /\ Excluded(ReplaceHours(r, in))
       /\ Periods(in) \cap (hours \ reqs[r].gone) = {}
       /\ hours' = ReplaceHours(r, in)
       /\ replaced' = [in |-> Periods(in), raced |-> reqs[r].passed]
       /\ reqs' = [q \in Slots |-> IF q = r THEN Idle ELSE Passed(reqs[q], Periods(in))]
  /\ UNCHANGED <<shopVars, requests, saves, load, overrides, blocked, occupied>>

\* Mistake: the intervals of a closed day are not looked at.
AnyOverride(in) == TRUE

\* validOverride
ValidOverride(in) ==
  IF in.kind = "custom_hours" THEN in.intervals # {} /\ ValidIntervals(InOrder(in.intervals))
  ELSE in.intervals = {}

IsOverride(id) == overrides[id] \notin {NoRow, Gone}
OverrideOn(date) == {id \in OverrideIDs : IsOverride(id) /\ overrides[id].date = date}

\* A new row, or new values for one that is there.  The date is unique; and an override
\* cannot change it while it has intervals, which refer to it with its date and are deleted
\* only afterwards.
SaveOverride(r) ==
  /\ In(r, "write")
  /\ \E id \in OverrideIDs, in \in Override :
       /\ ValidOverride(in)
       /\ overrides[id] # Gone
       /\ OverrideOn(in.date) \subseteq {id}
       /\ IsOverride(id) => overrides[id].date = in.date \/ overrides[id].intervals = {}
       /\ Excluded(in.intervals)
       /\ overrides' = [overrides EXCEPT ![id] = in]
  /\ Commit(r)
  /\ UNCHANGED <<shopVars, requests, saves, load, hours, blocked, occupied, replaced>>

DeleteOverride(r) ==
  /\ In(r, "write")
  /\ \E id \in OverrideIDs :
       /\ IsOverride(id)
       /\ overrides' = [overrides EXCEPT ![id] = Gone]
  /\ Commit(r)
  /\ UNCHANGED <<shopVars, requests, saves, load, hours, blocked, occupied, replaced>>

SaveBlock(r) ==
  /\ In(r, "write")
  /\ \E p \in Blocks \ blocked : blocked' = blocked \cup {p}
  /\ Commit(r)
  /\ UNCHANGED <<shopVars, requests, saves, load, hours, overrides, occupied, replaced>>

\* A period ends for those who look; queries on their way may or may not see it (ghost).
Removed(r, p) ==
  reqs' = [q \in Slots |->
             IF q = r THEN Idle
             ELSE IF "lasting" \in DOMAIN reqs[q]
             THEN [reqs[q] EXCEPT !.raced = TRUE, !.lasting = @ \ {p}]
             ELSE Raced(reqs[q])]

DeleteBlock(r) ==
  /\ In(r, "write")
  /\ \E p \in blocked :
       /\ blocked' = blocked \ {p}
       /\ Removed(r, p)
  /\ UNCHANGED <<shopVars, requests, saves, load, hours, overrides, occupied, replaced>>

-----------------------------------------------------------------------------
(* Availability.                                                           *)

\* What appointment-service reports: pending and confirmed appointments.
Book(p) ==
  /\ Save({"schedule"})
  /\ p \notin occupied
  /\ occupied' = occupied \cup {p}
  /\ Disturb
  /\ UNCHANGED <<shopVars, hours, overrides, blocked, replaced>>

Cancel(p) ==
  /\ Save({"schedule"})
  /\ p \in occupied
  /\ occupied' = occupied \ {p}
  /\ Removed(Nobody, p)
  /\ UNCHANGED <<shopVars, hours, overrides, blocked, replaced>>

\* The query begins with SchedulingAccess.  Any error of it, an outage or a timeout as well
\* (failed, a ghost), is answered as if there were no such barber.
QueryAvailability(r) ==
  /\ Start(r, "schedule")
  /\ \E s \in Services, failed \in BOOLEAN :
       Become(r, [pc |-> IF Active(Chair) /\ ~failed THEN "service" ELSE "slots", service |-> s,
                  shape |-> NoRow, hours |-> {}, id |-> 0, kind |-> "none", intervals |-> {}, busy |-> {},
                  slots |-> <<>>, found |-> FALSE, failed |-> failed, lasting |-> blocked \cup occupied,
                  raced |-> FALSE])
  /\ UNCHANGED <<shopVars, saves, load, scheduleVars>>

\* Catalog's availability endpoint, where any error means no such service, and the settings.
ReadService(r) ==
  /\ In(r, "service")
  /\ \/ /\ ActiveAssignedService(Chair, reqs[r].service)
        /\ Become(r, [reqs[r] EXCEPT !.pc = "hours", !.shape = services[reqs[r].service].shape, !.found = TRUE])
     \/ /\ ~ActiveAssignedService(Chair, reqs[r].service)
        /\ Goto(r, "slots")
     \/ Become(r, [reqs[r] EXCEPT !.pc = "slots", !.failed = TRUE])
  /\ UNCHANGED <<shopVars, requests, saves, load, scheduleVars>>

ReadHours(r) ==
  /\ In(r, "hours")
  /\ Become(r, [reqs[r] EXCEPT !.pc = "override", !.hours = hours])
  /\ UNCHANGED <<shopVars, requests, saves, load, scheduleVars>>

\* repository.Day: the override of the date, its intervals, the blocked periods of the day.
ReadOverride(r) ==
  /\ In(r, "override")
  /\ \/ /\ OverrideOn("today") = {}
        /\ Goto(r, "blocks")
     \/ \E id \in OverrideOn("today") :
          Become(r, [reqs[r] EXCEPT !.pc = "intervals", !.id = id, !.kind = overrides[id].kind])
  /\ UNCHANGED <<shopVars, requests, saves, load, scheduleVars>>

ReadIntervals(r) ==
  /\ In(r, "intervals")
  /\ Become(r, [reqs[r] EXCEPT !.pc = "blocks", !.intervals =
                  IF overrides[reqs[r].id] = Gone THEN {} ELSE overrides[reqs[r].id].intervals])
  /\ UNCHANGED <<shopVars, requests, saves, load, scheduleVars>>

BlockedOn == {p \in blocked : p.start < DayEnd /\ p.end > 0}

ReadBlocks(r) ==
  /\ In(r, "blocks")
  /\ Become(r, [reqs[r] EXCEPT !.pc = "occupancy", !.busy = BlockedOn])
  /\ UNCHANGED <<shopVars, requests, saves, load, scheduleVars>>

Step == IF BookingInterval < 1 THEN FallbackInterval ELSE BookingInterval

\* Mistake: no answer about appointments is taken for no appointments.
OccupiedOrNothing(r) == {occupied, {}}

\* appointment-service answers; when it does not, the query fails (Crash).
Occupied(r) == {occupied}

ReadOccupancy(r) ==
  /\ In(r, "occupancy")
  /\ \E busy \in Occupied(r) :
       LET windows == IntervalsForDate(InOrder(reqs[r].hours), reqs[r].kind, InOrder(reqs[r].intervals))
       IN  Become(r, [reqs[r] EXCEPT !.pc = "slots", !.slots =
                        Available(windows, reqs[r].busy \cup busy, reqs[r].shape, Step, Now)])
  /\ UNCHANGED <<shopVars, requests, saves, load, scheduleVars>>

-----------------------------------------------------------------------------
(* Everything together.                                                    *)

\* The answer leaves.
Respond(r) ==
  /\ In(r, "access") \/ In(r, "slots")
  /\ Finish(r)
  /\ UNCHANGED <<shopVars, requests, saves, load, scheduleVars>>

\* A call to another service fails (those that are not "not found"), a transaction is rolled back, a replica is lost.
Crash(r) ==
  /\ ~In(r, "idle") /\ ~In(r, "access") /\ ~In(r, "slots")
  /\ Finish(r)
  /\ UNCHANGED <<shopVars, requests, saves, load, scheduleVars>>

Init ==
  /\ ShopInit
  /\ hours = {}
  /\ overrides = [id \in OverrideIDs |-> NoRow]
  /\ blocked = {}
  /\ occupied \in IF load = "schedule" THEN SUBSET Appointments ELSE {{}}
  /\ replaced = [in |-> hours, raced |-> FALSE]

ScheduleStep(r) ==
  \/ ScheduleRequested(r) \/ Authorize(r)
  \/ DeleteHours(r) \/ LockHours(r) \/ CommitHours(r)
  \/ SaveOverride(r) \/ DeleteOverride(r) \/ SaveBlock(r) \/ DeleteBlock(r)
  \/ QueryAvailability(r) \/ ReadService(r) \/ ReadHours(r) \/ ReadOverride(r) \/ ReadIntervals(r)
  \/ ReadBlocks(r) \/ ReadOccupancy(r) \/ Respond(r) \/ Crash(r)

Next ==
  \/ ShopSave /\ UNCHANGED scheduleVars
  \/ \E p \in Appointments : Book(p) \/ Cancel(p)
  \/ \E r \in Slots : \/ ShopStep(r) /\ UNCHANGED scheduleVars
                      \/ ScheduleStep(r)

Spec == Init /\ [][Next]_vars

-----------------------------------------------------------------------------
(* Properties.                                                             *)

\* Every row and every request has its shape; an override has intervals exactly when it
\* stands for custom hours.
TypeOK ==
  /\ branches \in [Branches -> {"none", "active", "inactive"}]
  /\ barbers \in [Barbers -> Barber \cup {NoRow}]
  /\ assignments \subseteq Barbers \X Branches
  /\ services \in [Services -> Service \cup {NoRow}]
  /\ offers \subseteq Barbers \X Services
  /\ eligible \subseteq wasEligible /\ wasEligible \subseteq Identities
  /\ \A r \in Slots : reqs[r] \in {Idle} \cup ShopRequest \cup ScheduleRequest
  /\ hours \subseteq Intervals /\ blocked \subseteq Blocks /\ occupied \subseteq Appointments
  /\ \A id \in OverrideIDs : IsOverride(id) =>
       overrides[id] \in Override /\ (overrides[id].kind \in Closed <=> overrides[id].intervals = {})

\* An identity is linked to a barber only if it has had a BARBER membership (it may lose it
\* between the check and the link), the barber's last link is gone, and no other barber has
\* it, whatever is saved, linked and unlinked meanwhile ("A link is tenant-scoped and unique").
LinkIsEarned ==
  [][\A b \in Barbers :
       LET linked == barbers'[b].identity
       IN  barbers'[b] # NoRow /\ linked # Nobody => \/ Exists(b) /\ linked = IdentityOf(b)
                                                  \/ /\ Exists(b) /\ IdentityOf(b) = Nobody
                                                     /\ linked \in wasEligible
                                                     /\ \A c \in Barbers \ {b} : Exists(c) => IdentityOf(c) # linked]_vars

\* An answer about booking access that no save has raced is the state of the shop, although
\* branch, barber and assignment are read in three transactions.
AccessIsTheShop ==
  \A r \in Slots : In(r, "access") /\ ~reqs[r].raced =>
    reqs[r].granted = (/\ branches[reqs[r].branch] = "active"
                       /\ Active(reqs[r].barber)
                       /\ <<reqs[r].barber, reqs[r].branch>> \in assignments)

\* The weekly hours are the ones that were saved last; only when two replacements ran at
\* once may hours of the other one be left beside them.
HoursAreOneReplacement ==
  /\ replaced.in \subseteq hours
  /\ ~replaced.raced => hours = replaced.in

\* The starts of an answer are in order, however its reads were raced: the windows of a day
\* never overlap.  Each is listed once, unless the service takes no time: then the end of one
\* window and the start of the next may be the same slot.
SlotsAreInOrder ==
  \A r \in Slots : In(r, "slots") =>
    \A k \in 2..Len(reqs[r].slots) :
      /\ reqs[r].slots[k - 1] <= reqs[r].slots[k]
      /\ TakesTime(reqs[r].shape) => reqs[r].slots[k - 1] < reqs[r].slots[k]

\* The slots of the day as it is.
Offer(s) ==
  LET windows == IF OverrideOn("today") = {} THEN hours
                 ELSE UNION {overrides[id].intervals : id \in OverrideOn("today")}
  IN  {start \in 0..DayEnd :
         IsSlot(windows, blocked \cup occupied, services[s].shape, Step, Now, start)}

\* An answer that nothing has raced offers exactly the slots of the schedule: worked, not
\* busy, in the future, with their buffers.  It is "not found", without a slot, exactly when
\* the barber or the service cannot be booked or one of their services gave no answer: the
\* two are told as the same, but an outage never passes for a day without free slots.
AvailabilityIsTheSchedule ==
  \A r \in Slots : In(r, "slots") /\ ~reqs[r].raced =>
    /\ reqs[r].found <=> /\ Active(Chair) /\ ActiveAssignedService(Chair, reqs[r].service)
                         /\ ~reqs[r].failed
    /\ ~reqs[r].found => reqs[r].slots = <<>>
    /\ reqs[r].found /\ TakesTime(services[reqs[r].service].shape) =>
         Listed(reqs[r].slots) = Offer(reqs[r].service)

\* Whatever else changes during a query, it offers nothing that a block or an appointment
\* covers that was there before it began and is still there.
LastingIsKept ==
  \A r \in Slots : In(r, "slots") =>
    \A k \in DOMAIN reqs[r].slots, p \in reqs[r].lasting :
      ~Overlap([start |-> reqs[r].slots[k] - reqs[r].shape.before,
                end   |-> reqs[r].slots[k] + reqs[r].shape.duration + reqs[r].shape.after], p)
=============================================================================
