---------------------------- MODULE AnswerProofs -----------------------------
(***************************************************************************)
(* The answers of the schedule, for any sets and bounds: every step of a   *)
(* query keeps AInv, so whatever raced it its slots are in order and clear *)
(* of all that lasted, and an answer that nothing raced is the schedule.   *)
(* What the computation of the slots returns is AvailabilityProofs.        *)
(***************************************************************************)
EXTENDS SchedulingProofs, AvailabilityProofs

\* A leaf that names no prover is tried with SMT, then Zenon, then SMT again.
USE SMTT(30), ZenonT(30), SMTT(60), SMTT(90)

-----------------------------------------------------------------------------
(* Queries.                                                                *)

\* The parts of the view.
LEMMA Viewed ==
  /\ View.open <=> Active(Chair)
  /\ View.offered = {s \in Services : ActiveAssignedService(Chair, s)}
  /\ View.services = services /\ View.hours = hours /\ View.overrides = overrides
  /\ View.today = OverrideOn("today") /\ View.blocks = BlockedOn
  /\ \A s \in Services : services[s] # NoRow => View.offer[s] = Offer(s)
  BY DEF View

\* A query goes on.
LEMMA FineQuery ==
  ASSUME IInv, AInv, NEW r \in Slots, NEW y, reqs' = [reqs EXCEPT ![r] = y], UNCHANGED Shelved,
         y.pc \in QueryPCs, Fields(y, There, Ids), ~y.raced => Saw(y, View)
  PROVE  AInv'
<1>1. Fine(y, View, There, Ids)
  BY DEF Fine, QueryPCs, ReplacePCs
<1> QED
  BY <1>1, FineGoesOn, ZenonT(60)

\* A query that is on its way.
LEMMA OnItsWay ==
  ASSUME IInv, AInv, NEW r \in Slots, reqs[r].pc \in QueryPCs
  PROVE  IsQuery(reqs[r]) /\ Fields(reqs[r], There, Ids) /\ (~reqs[r].raced => Saw(reqs[r], View))
<1>1. IsRequest(reqs[r]) /\ Fine(reqs[r], View, There, Ids)
  BY RequestsHold, RequestsAreFine, ZenonT(60) DEF RequestsOK, RequestOK, There
<1> QED
  BY <1>1, Shape DEF Fine

\* A query begins: what is there is what may last.
LEMMA FineBegin ==
  ASSUME IInv, AInv, NEW r \in Slots, QueryAvailability(r)
  PROVE  AInv'
<1>1. UNCHANGED Shelved
  BY DEF QueryAvailability, Shelved, scheduleVars, shopVars
<1>2. PICK s \in Services, failed \in BOOLEAN :
        Become(r, [pc |-> IF Active(Chair) /\ ~failed THEN "service" ELSE "slots", service |-> s,
                   shape |-> NoRow, hours |-> {}, id |-> 0, kind |-> "none", intervals |-> {}, busy |-> {},
                   slots |-> <<>>, found |-> FALSE, failed |-> failed, lasting |-> blocked \cup occupied,
                   raced |-> FALSE])
  BY ZenonT(60) DEF QueryAvailability
<1> DEFINE y == [pc |-> IF Active(Chair) /\ ~failed THEN "service" ELSE "slots", service |-> s,
                 shape |-> NoRow, hours |-> {}, id |-> 0, kind |-> "none", intervals |-> {}, busy |-> {},
                 slots |-> <<>>, found |-> FALSE, failed |-> failed, lasting |-> blocked \cup occupied,
                 raced |-> FALSE]
<1>3. /\ y.pc = IF Active(Chair) /\ ~failed THEN "service" ELSE "slots"
      /\ y.service = s /\ y.shape = NoRow /\ y.hours = {} /\ y.id = 0 /\ y.kind = "none" /\ y.intervals = {}
      /\ y.busy = {} /\ y.slots = <<>> /\ y.found = FALSE /\ y.failed = failed
      /\ y.lasting = There /\ y.raced = FALSE
  BY DEF There
<1>4. reqs' = [reqs EXCEPT ![r] = y]
  BY <1>2 DEF Become
<1> HIDE DEF y
<1>5. y.pc \in {"service", "slots"}
  BY <1>3
<1>6. OneByOne({}) /\ <<>> \in Seq(Nat)
  BY DEF OneByOne
<1>7. Ordered(y) /\ Clear(y)
  BY <1>3 DEF Ordered, Clear
<1>8. Fields(y, There, Ids)
  BY <1>3, <1>5, <1>6, <1>7, ZenonT(60) DEF Fields, FoundPCs
<1>9. Saw(y, View)
  BY <1>3, <1>5, Viewed DEF Saw, FoundPCs
<1> QED
  BY <1>1, <1>4, <1>5, <1>8, <1>9, FineQuery, ZenonT(60) DEF QueryPCs

\* The service is found or not, or there is no answer.
LEMMA FineReadService ==
  ASSUME IInv, AInv, NEW r \in Slots, ReadService(r)
  PROVE  AInv'
<1> DEFINE x == reqs[r]
<1>1. UNCHANGED Shelved
  BY DEF ReadService, Shelved, scheduleVars, shopVars
<1>2. x.pc = "service" /\ x.pc \in QueryPCs
  BY DEF ReadService, In, QueryPCs
<1>3. IsQuery(x) /\ Fields(x, There, Ids) /\ (~x.raced => Saw(x, View))
  BY <1>2, OnItsWay
<1>4. ~x.found /\ ~x.failed /\ x.slots = <<>> /\ x.service \in Services /\ x.lasting \subseteq There
  BY <1>2, <1>3 DEF Fields
<1>5. CASE /\ ActiveAssignedService(Chair, x.service)
           /\ Become(r, [x EXCEPT !.pc = "hours", !.shape = services[x.service].shape, !.found = TRUE])
  <2> DEFINE y == [x EXCEPT !.pc = "hours", !.shape = services[x.service].shape, !.found = TRUE]
  <2>1. reqs' = [reqs EXCEPT ![r] = y]
    BY <1>5 DEF Become
  <2>2. /\ y.pc = "hours" /\ y.shape = services[x.service].shape /\ y.found = TRUE
        /\ y.service = x.service /\ y.hours = x.hours /\ y.id = x.id /\ y.kind = x.kind
        /\ y.intervals = x.intervals /\ y.busy = x.busy /\ y.slots = x.slots
        /\ y.lasting = x.lasting /\ y.raced = x.raced /\ y.failed = x.failed
    BY <1>3 DEF IsQuery
  <2>3. services[x.service].shape \in Shapes
    BY <1>4, <1>5, RowsAreFine DEF ActiveAssignedService, RowsFine, Service
  <2> HIDE DEF y
  <2>4. Fields(y, There, Ids)
    BY <1>2, <1>3, <2>2, <2>3, ZenonT(60) DEF Fields, FoundPCs
  <2>5. ~y.raced => Saw(y, View)
    BY <1>2, <1>3, <1>4, <1>5, <2>2, Viewed DEF Saw, FoundPCs
  <2> QED
    BY <1>1, <2>1, <2>2, <2>4, <2>5, FineQuery, ZenonT(60) DEF QueryPCs
<1>6. CASE ~ActiveAssignedService(Chair, x.service) /\ Goto(r, "slots")
  <2> DEFINE y == [x EXCEPT !.pc = "slots"]
  <2>1. reqs' = [reqs EXCEPT ![r] = y]
    BY <1>6 DEF Goto
  <2>2. Carries(x, y) /\ y.pc = "slots" /\ y.lasting = x.lasting /\ y.raced = x.raced
    BY <1>3, QueryGoes
  <2> HIDE DEF y
  <2>3. Ordered(y) /\ Clear(y)
    BY <1>4, <2>2 DEF Ordered, Clear, Carries
  <2>4. Fields(y, There, Ids)
    BY <1>2, <1>3, <1>4, <2>2, <2>3 DEF Fields, FoundPCs, Carries
  <2>5. ~y.raced => Saw(y, View)
    BY <1>4, <1>6, <2>2, Viewed DEF Saw, FoundPCs, Carries
  <2> QED
    BY <1>1, <2>1, <2>2, <2>4, <2>5, FineQuery, ZenonT(60) DEF QueryPCs
<1>7. CASE Become(r, [x EXCEPT !.pc = "slots", !.failed = TRUE])
  <2> DEFINE y == [x EXCEPT !.pc = "slots", !.failed = TRUE]
  <2>1. reqs' = [reqs EXCEPT ![r] = y]
    BY <1>7 DEF Become
  <2>2. /\ y.pc = "slots" /\ y.failed = TRUE /\ y.shape = x.shape /\ y.found = x.found
        /\ y.service = x.service /\ y.hours = x.hours /\ y.id = x.id /\ y.kind = x.kind
        /\ y.intervals = x.intervals /\ y.busy = x.busy /\ y.slots = x.slots
        /\ y.lasting = x.lasting /\ y.raced = x.raced
    BY <1>3 DEF IsQuery
  <2> HIDE DEF y
  <2>3. Ordered(y) /\ Clear(y)
    BY <1>4, <2>2 DEF Ordered, Clear
  <2>4. Fields(y, There, Ids)
    BY <1>2, <1>3, <1>4, <2>2, <2>3, ZenonT(60) DEF Fields, FoundPCs
  <2>5. Saw(y, View)
    BY <1>4, <2>2 DEF Saw, FoundPCs
  <2> QED
    BY <1>1, <2>1, <2>2, <2>4, <2>5, FineQuery, ZenonT(60) DEF QueryPCs
<1> QED
  BY <1>5, <1>6, <1>7, ZenonT(60) DEF ReadService

\* The hours are read.
LEMMA FineReadHours ==
  ASSUME IInv, AInv, NEW r \in Slots, ReadHours(r)
  PROVE  AInv'
<1> DEFINE x == reqs[r]
           y == [x EXCEPT !.pc = "override", !.hours = hours]
<1>1. UNCHANGED Shelved
  BY DEF ReadHours, Shelved, scheduleVars, shopVars
<1>2. x.pc = "hours" /\ x.pc \in QueryPCs
  BY DEF ReadHours, In, QueryPCs
<1>3. IsQuery(x) /\ Fields(x, There, Ids) /\ (~x.raced => Saw(x, View))
  BY <1>2, OnItsWay
<1>4. reqs' = [reqs EXCEPT ![r] = y]
  BY DEF ReadHours, Become
<1>5. /\ y.pc = "override" /\ y.hours = hours
      /\ y.shape = x.shape /\ y.found = x.found /\ y.service = x.service /\ y.id = x.id /\ y.kind = x.kind
      /\ y.intervals = x.intervals /\ y.busy = x.busy /\ y.slots = x.slots
      /\ y.lasting = x.lasting /\ y.raced = x.raced /\ y.failed = x.failed
  BY <1>3 DEF IsQuery
<1> HIDE DEF y
<1>6. hours \subseteq Intervals /\ OneByOne(hours)
  BY RowsAreFine DEF RowsFine
<1>7. Fields(y, There, Ids)
  BY <1>2, <1>3, <1>5, <1>6 DEF Fields, FoundPCs
<1>8. ~y.raced => Saw(y, View)
  BY <1>2, <1>3, <1>5, Viewed DEF Saw, FoundPCs
<1> QED
  BY <1>1, <1>4, <1>5, <1>7, <1>8, FineQuery, ZenonT(60) DEF QueryPCs

\* The override of the day is read, if there is one.
LEMMA FineReadOverride ==
  ASSUME IInv, AInv, NEW r \in Slots, ReadOverride(r)
  PROVE  AInv'
<1> DEFINE x == reqs[r]
<1>1. UNCHANGED Shelved
  BY ZenonT(60) DEF ReadOverride, Shelved, scheduleVars, shopVars
<1>2. x.pc = "override" /\ x.pc \in QueryPCs
  BY ZenonT(60) DEF ReadOverride, In, QueryPCs
<1>3. IsQuery(x) /\ Fields(x, There, Ids) /\ (~x.raced => Saw(x, View))
  BY <1>2, OnItsWay
<1>4. ASSUME OverrideOn("today") = {}, Goto(r, "blocks") PROVE AInv'
  <2> DEFINE y == [x EXCEPT !.pc = "blocks"]
  <2>1. reqs' = [reqs EXCEPT ![r] = y]
    BY <1>4 DEF Goto
  <2>2. Carries(x, y) /\ y.pc = "blocks" /\ y.lasting = x.lasting /\ y.raced = x.raced
    BY <1>3, QueryGoes
  <2> HIDE DEF y
  <2>3. Fields(y, There, Ids)
    BY <1>2, <1>3, <2>2 DEF Fields, FoundPCs, Carries
  <2>4. x.kind = "none"
    BY <1>2, <1>3 DEF Fields
  <2>5. ~y.raced => Saw(y, View)
    BY <1>2, <1>3, <1>4, <2>2, <2>4, Viewed DEF Saw, FoundPCs, Carries
  <2> QED
    BY <1>1, <2>1, <2>2, <2>3, <2>5, FineQuery, ZenonT(60) DEF QueryPCs
<1>5. ASSUME NEW id \in OverrideOn("today"),
             Become(r, [x EXCEPT !.pc = "intervals", !.id = id, !.kind = overrides[id].kind])
      PROVE  AInv'
  <2> DEFINE y == [x EXCEPT !.pc = "intervals", !.id = id, !.kind = overrides[id].kind]
  <2>1. reqs' = [reqs EXCEPT ![r] = y]
    BY <1>5 DEF Become
  <2>2. /\ y.pc = "intervals" /\ y.id = id /\ y.kind = overrides[id].kind
        /\ y.shape = x.shape /\ y.found = x.found /\ y.service = x.service /\ y.hours = x.hours
        /\ y.intervals = x.intervals /\ y.busy = x.busy /\ y.slots = x.slots
        /\ y.lasting = x.lasting /\ y.raced = x.raced /\ y.failed = x.failed
    BY <1>3 DEF IsQuery
  <2> HIDE DEF y
  <2>3. id \in OverrideIDs /\ overrides[id] \in Override /\ id \in Ids
    BY <1>5, OverridesAreFine DEF OverrideOn, IsOverride, OverridesFine, Ids
  <2>4. overrides[id].kind \in Closed \cup {"custom_hours"}
    BY <2>3 DEF Override
  <2>5. Fields(y, There, Ids)
    BY <1>2, <1>3, <2>2, <2>3, <2>4 DEF Fields, FoundPCs
  <2>6. ~y.raced => Saw(y, View)
    BY <1>2, <1>3, <1>5, <2>2, Viewed DEF Saw, FoundPCs
  <2> QED
    BY <1>1, <2>1, <2>2, <2>5, <2>6, FineQuery, ZenonT(60) DEF QueryPCs
<1> QED
  BY <1>4, <1>5, ZenonT(60) DEF ReadOverride

\* Its intervals are read; it may be gone by then.
LEMMA FineReadIntervals ==
  ASSUME IInv, AInv, NEW r \in Slots, ReadIntervals(r)
  PROVE  AInv'
<1> DEFINE x == reqs[r]
           given == IF overrides[x.id] = Gone THEN {} ELSE overrides[x.id].intervals
           y == [x EXCEPT !.pc = "blocks", !.intervals = given]
<1>1. UNCHANGED Shelved
  BY DEF ReadIntervals, Shelved, scheduleVars, shopVars
<1>2. x.pc = "intervals" /\ x.pc \in QueryPCs
  BY DEF ReadIntervals, In, QueryPCs
<1>3. IsQuery(x) /\ Fields(x, There, Ids) /\ (~x.raced => Saw(x, View))
  BY <1>2, OnItsWay
<1>4. reqs' = [reqs EXCEPT ![r] = y]
  BY DEF ReadIntervals, Become
<1>5. given \subseteq Intervals /\ OneByOne(given)
  <2>1. x.id \in OverrideIDs /\ overrides[x.id] # NoRow
    BY <1>2, <1>3 DEF Fields, Ids
  <2>2. CASE overrides[x.id] = Gone
    BY <2>2 DEF OneByOne
  <2>3. CASE overrides[x.id] # Gone
    <3>1. IsOverride(x.id) /\ overrides[x.id] \in Override
      BY <2>1, <2>3, OverridesAreFine DEF IsOverride, OverridesFine
    <3>2. OverrideFine(x.id)
      BY <2>1, <3>1, OverridesAreFine DEF OverridesFine
    <3> QED
      BY <2>3, <3>1, <3>2 DEF OverrideFine, Override
  <2> QED
    BY <2>2, <2>3
<1>6. ASSUME x.id \in OverrideOn("today") PROVE given = overrides[x.id].intervals
  BY <1>6 DEF OverrideOn, IsOverride
<1> HIDE DEF given
<1>7. /\ y.pc = "blocks" /\ y.intervals = given
      /\ y.shape = x.shape /\ y.found = x.found /\ y.service = x.service /\ y.hours = x.hours
      /\ y.id = x.id /\ y.kind = x.kind /\ y.busy = x.busy /\ y.slots = x.slots
      /\ y.lasting = x.lasting /\ y.raced = x.raced /\ y.failed = x.failed
  BY <1>3 DEF IsQuery
<1> HIDE DEF y
<1>8. Fields(y, There, Ids)
  BY <1>2, <1>3, <1>5, <1>7 DEF Fields, FoundPCs
<1>9. ~y.raced => Saw(y, View)
  BY <1>2, <1>3, <1>6, <1>7, Viewed DEF Saw, FoundPCs
<1> QED
  BY <1>1, <1>4, <1>7, <1>8, <1>9, FineQuery, ZenonT(60) DEF QueryPCs

\* The blocked periods of the day are read: those that last are among them.
LEMMA FineReadBlocks ==
  ASSUME IInv, AInv, NEW r \in Slots, ReadBlocks(r)
  PROVE  AInv'
<1> DEFINE x == reqs[r]
           y == [x EXCEPT !.pc = "occupancy", !.busy = BlockedOn]
<1>1. UNCHANGED Shelved
  BY DEF ReadBlocks, Shelved, scheduleVars, shopVars
<1>2. x.pc = "blocks" /\ x.pc \in QueryPCs
  BY DEF ReadBlocks, In, QueryPCs
<1>3. IsQuery(x) /\ Fields(x, There, Ids) /\ (~x.raced => Saw(x, View))
  BY <1>2, OnItsWay
<1>4. reqs' = [reqs EXCEPT ![r] = y]
  BY DEF ReadBlocks, Become
<1>5. /\ y.pc = "occupancy" /\ y.busy = BlockedOn
      /\ y.shape = x.shape /\ y.found = x.found /\ y.service = x.service /\ y.hours = x.hours
      /\ y.id = x.id /\ y.kind = x.kind /\ y.intervals = x.intervals /\ y.slots = x.slots
      /\ y.lasting = x.lasting /\ y.raced = x.raced /\ y.failed = x.failed
  BY <1>3 DEF IsQuery
<1> HIDE DEF y
<1>6. BlockedOn \subseteq Blocks
  BY RowsAreFine DEF BlockedOn, RowsFine
<1>7. ASSUME NEW p \in x.lasting \cap Blocks, p.start < DayEnd PROVE p \in BlockedOn
  <2>1. p \in blocked
    BY <1>3, SchedulingAssumption, RowsAreFine DEF Fields, There, RowsFine
  <2>2. p.start \in Nat /\ p.end \in Nat /\ p.start < p.end
    BY SchedulingAssumption
  <2> QED
    BY <1>7, <2>1, <2>2 DEF BlockedOn
<1>8. Fields(y, There, Ids)
  BY <1>2, <1>3, <1>5, <1>6, <1>7 DEF Fields, FoundPCs
<1>9. ~y.raced => Saw(y, View)
  BY <1>2, <1>3, <1>5, Viewed DEF Saw, FoundPCs
<1> QED
  BY <1>1, <1>4, <1>5, <1>8, <1>9, FineQuery, ZenonT(60) DEF QueryPCs

\* The invariant of the answers holds at the start.
LEMMA InitFine == Init => AInv
<1> SUFFICES ASSUME Init PROVE AInv
  OBVIOUS
<1> USE DEF Init, ShopInit
<1>1. services \in [Services -> Service \cup {NoRow}]
  <2>1. CASE load = "schedule"
    <3>1. services \in [Services -> [active : {TRUE}, shape : Shapes]]
      BY <2>1, ZenonT(60)
    <3>2. [active : {TRUE}, shape : Shapes] \subseteq Service
      BY ZenonT(60) DEF Service
    <3> QED
      BY <3>1, <3>2, ZenonT(60)
  <2>2. CASE load # "schedule"
    BY <2>2
  <2> QED
    BY <2>1, <2>2
<1>2. offers \subseteq Barbers \X Services /\ wasEligible \subseteq Identities /\ occupied \subseteq Appointments
  BY ShopAssumption
<1>3. RowsFine
  BY <1>1, <1>2 DEF RowsFine, OneByOne
<1>4. OverridesFine
  BY DEF OverridesFine, IsOverride
<1>5. \A r \in Slots : Fine(reqs[r], View, blocked \cup occupied, Ids)
  BY DEF Fine, Idle, QueryPCs, ReplacePCs
<1> QED
  BY <1>3, <1>4, <1>5 DEF AInv, There

\* A request is over.
LEMMA FineOver ==
  ASSUME IInv, AInv, NEW r \in Slots, Respond(r) \/ Crash(r)
  PROVE  AInv'
<1>1. Finish(r) /\ UNCHANGED Shelved
  BY DEF Respond, Crash, Shelved, shopVars, scheduleVars
<1> QED
  BY <1>1, FineFinish

\* What a request is, given what it has read.
LEMMA Typed ==
  ASSUME NEW x, IsRequest(x), NEW v, NEW i, Fine(x, v, There, i), There \subseteq Blocks \cup Appointments
  PROVE  x \in {Idle} \cup ShopRequest \cup ScheduleRequest
<1>1. CASE x = Idle \/ x \in Reading \/ x \in Granting \/ x \in Linking \/ x \in Offering
  BY <1>1 DEF Reading, Granting, Linking, Offering, ReadPCs, ShopRequest
<1>2. CASE IsChange(x)
  <2>1. x.pc \in {"authorize", "write", "delete"}
    BY <1>2 DEF IsChange
  <2>2. x.actor \in Identities \cup {Nobody} /\ x.op \in {"hours", "other"}
    BY <2>1 DEF Fine
  <2>3. x \in [pc : {"authorize", "write", "delete"}, actor : Identities \cup {Nobody},
               op : {"hours", "other"}, raced : BOOLEAN]
    BY <1>2, <2>2 DEF IsChange
  <2> QED
    BY <2>3 DEF ScheduleRequest
<1>3. CASE IsReplacement(x)
  <2>1. x.pc \in ReplacePCs
    BY <1>3 DEF IsReplacement
  <2>2. x.actor \in Identities \cup {Nobody} /\ x.op = "hours" /\ x.gone \in SUBSET Intervals
    BY <2>1 DEF Fine
  <2>3. x \in [pc : {"lock", "insert"}, actor : Identities \cup {Nobody}, op : {"hours"}, gone : SUBSET Intervals,
               passed : BOOLEAN, raced : BOOLEAN]
    BY <1>3, <2>2 DEF IsReplacement, ReplacePCs
  <2> QED
    BY <2>3 DEF ScheduleRequest
<1>4. CASE IsQuery(x)
  <2>1. x.pc \in QueryPCs
    BY <1>4 DEF IsQuery
  <2>2. /\ x.service \in Services /\ x.shape \in Shapes \cup {NoRow} /\ x.hours \in SUBSET Intervals
        /\ x.id \in OverrideIDs \cup {0} /\ x.kind \in Closed \cup {"none", "custom_hours"}
        /\ x.intervals \in SUBSET Intervals /\ x.busy \in SUBSET Blocks /\ x.slots \in Seq(Nat)
        /\ x.found \in BOOLEAN /\ x.failed \in BOOLEAN /\ x.lasting \in SUBSET (Blocks \cup Appointments)
    BY <2>1 DEF Fine, Fields
  <2>3. x \in [pc : {"service", "hours", "override", "intervals", "blocks", "occupancy", "slots"},
               service : Services, shape : Shapes \cup {NoRow}, hours : SUBSET Intervals,
               id : OverrideIDs \cup {0}, kind : Closed \cup {"none", "custom_hours"},
               intervals : SUBSET Intervals, busy : SUBSET Blocks, slots : Seq(Nat), found : BOOLEAN,
               failed : BOOLEAN, lasting : SUBSET (Blocks \cup Appointments), raced : BOOLEAN]
    BY <1>4, <2>2 DEF IsQuery, QueryPCs
  <2> QED
    BY <2>3 DEF ScheduleRequest
<1> QED
  BY <1>1, <1>2, <1>3, <1>4, ZenonT(60) DEF IsRequest

\* What the invariants say of the shapes ...
LEMMA TypeOKImplied == IInv /\ AInv => TypeOK
<1> SUFFICES ASSUME IInv, AInv PROVE TypeOK
  OBVIOUS
<1>1. There \subseteq Blocks \cup Appointments
  BY RowsAreFine DEF RowsFine, There
<1>2. ASSUME NEW r \in Slots PROVE reqs[r] \in {Idle} \cup ShopRequest \cup ScheduleRequest
  <2>1. IsRequest(reqs[r]) /\ Fine(reqs[r], View, There, Ids)
    BY RequestsHold, RequestsAreFine, ZenonT(60) DEF RequestsOK, RequestOK, There
  <2> QED
    BY <1>1, <2>1, Typed
<1>3. ASSUME NEW id \in OverrideIDs, IsOverride(id)
      PROVE  overrides[id] \in Override /\ (overrides[id].kind \in Closed <=> overrides[id].intervals = {})
  BY <1>3, OverridesAreFine DEF OverridesFine, OverrideFine, IsOverride
<1> QED
  BY <1>2, <1>3, RowsHold, RowsAreFine DEF RowsOK, RowsFine, TypeOK

\* ... of the order of the slots ...
LEMMA SlotsAreInOrderImplied == IInv /\ AInv => SlotsAreInOrder
<1> SUFFICES ASSUME IInv, AInv, NEW r \in Slots, reqs[r].pc = "slots", NEW k \in 2..Len(reqs[r].slots)
             PROVE  /\ reqs[r].slots[k - 1] <= reqs[r].slots[k]
                    /\ TakesTime(reqs[r].shape) => reqs[r].slots[k - 1] < reqs[r].slots[k]
  BY DEF SlotsAreInOrder, In
<1>1. reqs[r].slots \in Seq(Nat) /\ Ordered(reqs[r])
  BY OnItsWay DEF Fields, QueryPCs
<1>2. k - 1 \in DOMAIN reqs[r].slots /\ k \in DOMAIN reqs[r].slots /\ k - 1 < k
  BY <1>1
<1> QED
  BY <1>1, <1>2 DEF Ordered

\* ... of an answer that nothing has raced ...
LEMMA AvailabilityIsTheScheduleImplied == IInv /\ AInv => AvailabilityIsTheSchedule
<1> SUFFICES ASSUME IInv, AInv, NEW r \in Slots, reqs[r].pc = "slots", ~reqs[r].raced
             PROVE  /\ reqs[r].found <=> /\ Active(Chair) /\ ActiveAssignedService(Chair, reqs[r].service)
                                         /\ ~reqs[r].failed
                    /\ ~reqs[r].found => reqs[r].slots = <<>>
                    /\ reqs[r].found /\ TakesTime(services[reqs[r].service].shape) =>
                         Listed(reqs[r].slots) = Offer(reqs[r].service)
  BY DEF AvailabilityIsTheSchedule, In
<1>1. Fields(reqs[r], There, Ids) /\ Saw(reqs[r], View)
  BY OnItsWay DEF QueryPCs
<1>2. reqs[r].service \in Services /\ (~reqs[r].found => reqs[r].slots = <<>>)
  BY <1>1 DEF Fields
<1>3. /\ reqs[r].found <=> View.open /\ reqs[r].service \in View.offered /\ ~reqs[r].failed
      /\ reqs[r].found /\ TakesTime(View.services[reqs[r].service].shape) =>
           Listed(reqs[r].slots) = View.offer[reqs[r].service]
  BY <1>1, ZenonT(60) DEF Saw
<1>4. reqs[r].found <=> Active(Chair) /\ ActiveAssignedService(Chair, reqs[r].service) /\ ~reqs[r].failed
  BY <1>2, <1>3, Viewed
<1>5. reqs[r].found => services[reqs[r].service] # NoRow
  BY <1>4 DEF ActiveAssignedService
<1> QED
  BY <1>2, <1>3, <1>4, <1>5, Viewed

\* ... and of what lasts.
LEMMA LastingIsKeptImplied == IInv /\ AInv => LastingIsKept
<1> SUFFICES ASSUME IInv, AInv, NEW r \in Slots, reqs[r].pc = "slots" PROVE Clear(reqs[r])
  BY ZenonT(60) DEF LastingIsKept, In, Clear
<1> QED
  BY OnItsWay DEF Fields, QueryPCs

-----------------------------------------------------------------------------
(* The computation of the slots.                                           *)

\* The intervals of a day are finitely many periods.
LEMMA IntervalsFinite ==
  ASSUME NEW S \in SUBSET Intervals
  PROVE  S \in SUBSET Period /\ IsFiniteSet(S) /\ \A p \in S : p.start < p.end /\ p.end <= DayEnd
<1>1. \A p \in S : p \in Period /\ p.start < p.end /\ p.end <= DayEnd
  BY SchedulingAssumption DEF Period
<1>2. DayEnd \in Nat
  BY SchedulingAssumption
<1>3. \A p \in S : p.start <= DayEnd /\ p.end <= DayEnd
  BY <1>1, <1>2 DEF Period
<1>4. IsFiniteSet(S)
  BY <1>1, <1>2, <1>3, DayIsFinite
<1> QED
  BY <1>1, <1>4

\* The periods of an input of hours are intervals.
LEMMA InputPeriods ==
  ASSUME NEW in \in HoursInputs
  PROVE  Periods(in) \subseteq Intervals
<1> DEFINE Day == {InOrder(S) : S \in SUBSET Intervals}
<1>1. ASSUME NEW d \in Day PROVE Listed(d) \subseteq Intervals
  <2>1. PICK S \in SUBSET Intervals : d = InOrder(S)
    BY <1>1
  <2>2. S \in SUBSET Period /\ IsFiniteSet(S)
    BY IntervalsFinite
  <2> QED
    BY <2>1, <2>2, InOrderLists
<1>2. \A d \in DOMAIN in : in[d] \in Day
  <2>1. in \in {<<d>> : d \in Day} \cup {<<d, e>> : d, e \in Day \ {<<>>}}
    BY DEF HoursInputs
  <2> HIDE DEF Day
  <2> QED
    BY <2>1
<1> HIDE DEF Day
<1> QED
  BY <1>1, <1>2 DEF Periods

\* The hours of a weekday do not overlap.
LEMMA FineCommitHours ==
  ASSUME IInv, AInv, NEW r \in Slots, CommitHours(r)
  PROVE  AInv'
<1> USE DEF shopVars
<1>1. PICK in \in HoursInputs :
        /\ Excluded(ReplaceHours(r, in)) /\ hours' = ReplaceHours(r, in)
        /\ reqs' = [q \in Slots |-> IF q = r THEN Idle ELSE Passed(reqs[q], Periods(in))]
  BY ZenonT(60) DEF CommitHours
<1>2. hours' \subseteq Intervals /\ OneByOne(hours')
  BY <1>1, InputPeriods, RowsAreFine DEF ReplaceHours, Excluded, RowsFine
<1>3. RowsFine'
  BY <1>2, RowsAreFine, ZenonT(60) DEF CommitHours, RowsFine
<1>4. OverridesFine' /\ There' = There /\ Ids' = Ids
  BY OverridesAreFine, ZenonT(60) DEF CommitHours, OverridesFine, OverrideFine, IsOverride, OverrideOn, There, Ids
<1>5. ASSUME NEW q \in Slots PROVE Fine(reqs'[q], View', There, Ids)
  <2>1. CASE q = r
    <3>1. reqs'[q] = Idle
      BY <1>1, <2>1, ZenonT(60)
    <3> QED
      BY <3>1 DEF Fine, Idle, QueryPCs, ReplacePCs
  <2>2. CASE q # r
    <3>1. reqs'[q] = Passed(reqs[q], Periods(in))
      BY <1>1, <2>2, ZenonT(60)
    <3>2. Fine(reqs[q], View, There, Ids) /\ IsRequest(reqs[q])
      BY RequestsHold, RequestsAreFine, ZenonT(60) DEF There, RequestsOK, RequestOK
    <3> QED
      BY <3>1, <3>2, PassedFine, ZenonT(60)
  <2> QED
    BY <2>1, <2>2
<1> QED
  BY <1>3, <1>4, <1>5, AllFine DEF There

-----------------------------------------------------------------------------
(* The answer.                                                             *)

\* The windows a query has read.
WindowsOf(x) ==
  CASE x.kind = "none"         -> x.hours
    [] x.kind = "custom_hours" -> x.intervals
    [] OTHER                   -> {}

\* Nothing, in order.
LEMMA EmptyInOrder == InOrder({}) = <<>>
<1>1. {} \in SUBSET Period /\ IsFiniteSet({})
  BY FS_EmptySet
<1>2. InOrder({}) \in Seq({}) /\ Len(InOrder({})) = Cardinality({})
  BY <1>1, InOrderLists
<1>3. Cardinality({}) = 0
  BY FS_EmptySet
<1> QED
  BY <1>2, <1>3

\* The windows in the order of the code.
LEMMA WindowsInOrder ==
  ASSUME NEW x, NEW t, NEW i, Fields(x, t, i)
  PROVE  /\ IntervalsForDate(InOrder(x.hours), x.kind, InOrder(x.intervals)) = InOrder(WindowsOf(x))
         /\ WindowsOf(x) \in SUBSET Intervals /\ OneByOne(WindowsOf(x))
<1>1. /\ x.hours \subseteq Intervals /\ OneByOne(x.hours) /\ x.intervals \subseteq Intervals
      /\ OneByOne(x.intervals) /\ x.kind \in Closed \cup {"none", "custom_hours"}
  BY DEF Fields
<1>2. OneByOne({})
  BY DEF OneByOne
<1>3. CASE x.kind = "none"
  BY <1>1, <1>3 DEF WindowsOf, IntervalsForDate
<1>4. CASE x.kind = "custom_hours"
  BY <1>1, <1>4 DEF WindowsOf, IntervalsForDate
<1>5. CASE x.kind \in Closed
  BY <1>2, <1>5, EmptyInOrder DEF WindowsOf, IntervalsForDate, Closed
<1> QED
  BY <1>1, <1>3, <1>4, <1>5

\* The step of the loop, whatever the branch has saved.
LEMMA StepPositive == Step \in Nat \ {0}
  BY SchedulingAssumption DEF Step

\* What the answer is made of.
LEMMA AnswerInputs ==
  ASSUME RowsFine, NEW x, NEW t, NEW i, Fields(x, t, i), x.pc = "occupancy"
  PROVE  /\ WindowsOf(x) \in SUBSET Period /\ IsFiniteSet(WindowsOf(x))
         /\ \A p \in WindowsOf(x) : p.start < p.end /\ p.end <= DayEnd
         /\ \A p, q \in WindowsOf(x) : p # q => ~Overlap(p, q)
         /\ x.busy \cup occupied \in SUBSET Period
         /\ \A p \in x.busy \cup occupied : p.start < p.end
         /\ x.shape \in ServiceShape /\ Step \in Nat \ {0} /\ Now \in Int
<1>1. WindowsOf(x) \in SUBSET Intervals /\ OneByOne(WindowsOf(x))
  BY WindowsInOrder
<1>2. \A p, q \in WindowsOf(x) : p # q => ~Overlap(p, q)
  BY <1>1 DEF OneByOne
<1>3. x.busy \cup occupied \subseteq Blocks \cup Appointments
  BY DEF Fields, RowsFine
<1>4. x.busy \cup occupied \in SUBSET Period /\ \A p \in x.busy \cup occupied : p.start < p.end
  BY <1>3, SchedulingAssumption DEF Period
<1>5. x.shape \in Shapes
  BY DEF Fields, FoundPCs
<1>6. x.shape \in ServiceShape /\ Now \in Int
  BY <1>5, ShopAssumption, SchedulingAssumption DEF ServiceShape
<1> QED
  BY <1>1, <1>2, <1>4, <1>6, IntervalsFinite, StepPositive

\* Two periods one of which begins where the other has ended.
LEMMA LaterClear ==
  ASSUME NEW a \in Int, NEW b \in Int, NEW p, p.start \in Nat, b <= p.start
  PROVE  ~Overlap([start |-> a, end |-> b], p)
  BY DEF Overlap

Computed(x) == Available(InOrder(WindowsOf(x)), x.busy \cup occupied, x.shape, Step, Now)

\* Raced or not, the answer is in order and keeps clear of what lasts.
LEMMA AnswerKeeps ==
  ASSUME RowsFine, NEW x, NEW i, Fields(x, There, i), x.pc = "occupancy"
  PROVE  /\ Computed(x) \in Seq(Nat) /\ Sorted(Computed(x), TakesTime(x.shape))
         /\ \A k \in DOMAIN Computed(x), p \in x.lasting :
              ~Overlap([start |-> Computed(x)[k] - x.shape.before,
                        end   |-> Computed(x)[k] + x.shape.duration + x.shape.after], p)
<1> DEFINE W == WindowsOf(x)
           B == x.busy \cup occupied
           s == Computed(x)
<1>1. /\ W \in SUBSET Period /\ IsFiniteSet(W) /\ (\A p \in W : p.start < p.end /\ p.end <= DayEnd)
      /\ \A p, q \in W : p # q => ~Overlap(p, q)
      /\ B \in SUBSET Period /\ \A p \in B : p.start < p.end
      /\ x.shape \in ServiceShape /\ Step \in Nat \ {0} /\ Now \in Int
  BY AnswerInputs
<1> HIDE DEF W, B
<1>2. s = Available(InOrder(W), B, x.shape, Step, Now)
  BY DEF Computed, W, B
<1> HIDE DEF s
<1>3. /\ s \in Seq(Nat) /\ Sorted(s, TakesTime(x.shape))
      /\ \A y \in Listed(s) : \E w \in W : SlotOf(w, B, x.shape, Step, Now, y)
  BY <1>1, <1>2, AvailableIsTheReference, ZenonT(60)
<1>4. ASSUME NEW k \in DOMAIN s, NEW p \in x.lasting
      PROVE  ~Overlap([start |-> s[k] - x.shape.before, end |-> s[k] + x.shape.duration + x.shape.after], p)
  <2>1. s[k] \in Listed(s)
    BY <1>4 DEF Listed
  <2>2. PICK w \in W : SlotOf(w, B, x.shape, Step, Now, s[k])
    BY <1>3, <2>1
  <2>3. CASE p \in B
    BY <2>2, <2>3, SlotClear
  <2>4. CASE p \notin B
    <3>1. p \in Blocks /\ p.start >= DayEnd /\ p.start \in Nat
      <4>1. p \in blocked
        BY <2>4 DEF Fields, There, B
      <4>2. p \in Blocks /\ p.start \in Nat /\ DayEnd \in Nat
        BY <4>1, SchedulingAssumption DEF RowsFine
      <4>3. p.start < DayEnd => p \in x.busy
        BY <4>2 DEF Fields
      <4> QED
        BY <2>4, <4>2, <4>3 DEF B
    <3>2. w \in Period /\ w.end <= DayEnd /\ w.end \in Nat /\ DayEnd \in Nat
      BY <1>1, SchedulingAssumption DEF Period
    <3>3. s[k] \in Nat /\ s[k] + x.shape.duration + x.shape.after <= w.end
      BY <1>1, <2>2, <3>2, SlotWithin
    <3>4. x.shape.duration \in Nat /\ x.shape.before \in Nat /\ x.shape.after \in Nat
      BY <1>1 DEF ServiceShape
    <3>5. /\ s[k] - x.shape.before \in Int /\ s[k] + x.shape.duration + x.shape.after \in Int
          /\ s[k] + x.shape.duration + x.shape.after <= p.start
      BY <3>1, <3>2, <3>3, <3>4
    <3> QED
      BY <3>1, <3>5, LaterClear
  <2> QED
    BY <2>3, <2>4
<1> QED
  BY <1>3, <1>4 DEF s

\* Periods that do not touch the day make no difference to its slots.
LEMMA OtherDays ==
  ASSUME NEW W \in SUBSET Period, \A w \in W : w.end <= DayEnd, NEW B, NEW C, B \subseteq C,
         \A p \in C : p \in Period /\ (p \in B \/ p.start >= DayEnd \/ p.end <= 0),
         NEW shape \in ServiceShape, NEW y \in Nat
  PROVE  IsSlot(W, B, shape, Step, Now, y) <=> IsSlot(W, C, shape, Step, Now, y)
<1>1. DayEnd \in Nat
  BY SchedulingAssumption
<1>2. ASSUME NEW w \in W, NEW t \in Int, w.start <= t, t < w.end, NEW p \in C, p \notin B
      PROVE  t < p.start \/ p.end <= t
  <2>1. w.start \in Nat /\ w.end \in Nat /\ w.end <= DayEnd /\ p.start \in Nat /\ p.end \in Nat
    BY <1>2 DEF Period
  <2> QED
    BY <1>1, <1>2, <2>1
<1>3. shape.duration \in Nat /\ shape.before \in Nat /\ shape.after \in Nat
  BY DEF ServiceShape
<1> DEFINE T == (y - shape.before)..(y + shape.duration + shape.after - 1)
<1>4. T \subseteq Int
  BY <1>3
<1>5. IsSlot(W, B, shape, Step, Now, y) <=>
        /\ y > Now
        /\ \E w \in W : /\ \E k \in 0..w.end : y = w.start + k * Step
                        /\ \A t \in T : /\ w.start <= t /\ t < w.end
                                        /\ \A p \in B : t < p.start \/ p.end <= t
  BY ZenonT(60) DEF IsSlot
<1>6. IsSlot(W, C, shape, Step, Now, y) <=>
        /\ y > Now
        /\ \E w \in W : /\ \E k \in 0..w.end : y = w.start + k * Step
                        /\ \A t \in T : /\ w.start <= t /\ t < w.end
                                        /\ \A p \in C : t < p.start \/ p.end <= t
  BY ZenonT(60) DEF IsSlot
<1> HIDE DEF T
<1> QED
  BY <1>2, <1>4, <1>5, <1>6, ZenonT(60)

\* An answer nothing has raced is the offer.
LEMMA AnswerIsTheOffer ==
  ASSUME RowsFine, OverridesFine, NEW x, NEW i, Fields(x, There, i), x.pc = "occupancy",
         Saw(x, View), TakesTime(services[x.service].shape)
  PROVE  Listed(Computed(x)) = Offer(x.service)
<1> DEFINE W == WindowsOf(x)
           B == x.busy \cup occupied
           s == Computed(x)
           V == IF OverrideOn("today") = {} THEN hours
                ELSE UNION {overrides[id].intervals : id \in OverrideOn("today")}
<1>1. /\ x.shape = services[x.service].shape /\ x.hours = hours /\ x.busy = BlockedOn
      /\ \/ OverrideOn("today") = {} /\ x.kind = "none"
         \/ \E id \in OverrideOn("today") : x.kind = overrides[id].kind /\ x.intervals = overrides[id].intervals
  BY Viewed, ZenonT(60) DEF Saw, FoundPCs
<1>2. W = V
  <2>1. CASE OverrideOn("today") = {} /\ x.kind = "none"
    BY <1>1, <2>1 DEF WindowsOf
  <2>2. ASSUME NEW id \in OverrideOn("today"), x.kind = overrides[id].kind, x.intervals = overrides[id].intervals
        PROVE  W = V
    <3>1. id \in OverrideIDs /\ IsOverride(id) /\ overrides[id].date = "today"
      BY <2>2 DEF OverrideOn
    <3>2. OverrideFine(id) /\ overrides[id] \in Override
      BY <3>1 DEF OverridesFine, IsOverride
    <3>3. OverrideOn("today") = {id}
      BY <3>1, <3>2 DEF OverrideFine
    <3>4. V = overrides[id].intervals
      BY <3>3, ZenonT(60)
    <3>5. x.kind \in Closed \cup {"custom_hours"} /\ (x.kind \in Closed <=> overrides[id].intervals = {})
      BY <2>2, <3>2 DEF OverrideFine, Override
    <3> HIDE DEF V
    <3> QED
      BY <2>2, <3>4, <3>5 DEF WindowsOf, Closed
  <2> QED
    BY <1>1, <2>1, <2>2, ZenonT(60)
<1>3. /\ W \in SUBSET Period /\ IsFiniteSet(W) /\ (\A p \in W : p.start < p.end /\ p.end <= DayEnd)
      /\ \A p, q \in W : p # q => ~Overlap(p, q)
      /\ B \in SUBSET Period /\ \A p \in B : p.start < p.end
      /\ x.shape \in ServiceShape /\ Step \in Nat \ {0} /\ Now \in Int
  BY AnswerInputs
<1>4. B \subseteq blocked \cup occupied
  BY <1>1 DEF BlockedOn
<1>5. \A p \in blocked \cup occupied : p \in Period /\ (p \in B \/ p.start >= DayEnd \/ p.end <= 0)
  <2>1. \A p \in blocked \cup occupied : p \in Period
    BY SchedulingAssumption DEF RowsFine, Period
  <2>2. DayEnd \in Nat
    BY SchedulingAssumption
  <2> QED
    BY <1>1, <2>1, <2>2 DEF BlockedOn, Period
<1>6. Offer(x.service) = {y \in 0..DayEnd : IsSlot(V, blocked \cup occupied, x.shape, Step, Now, y)}
  BY <1>1, ZenonT(60) DEF Offer
<1> HIDE DEF W, B, V
<1>7. s = Available(InOrder(W), B, x.shape, Step, Now)
  BY DEF Computed, W, B
<1> HIDE DEF s
<1>8. TakesTime(x.shape)
  BY <1>1
<1>9. /\ s \in Seq(Nat)
      /\ \A y \in Nat : y \in Listed(s) <=> IsSlot(W, B, x.shape, Step, Now, y)
      /\ \A y \in Listed(s) : \E w \in W : SlotOf(w, B, x.shape, Step, Now, y)
  BY <1>3, <1>7, <1>8, AvailableIsTheReference, ZenonT(60)
<1>10. \A y \in Nat : IsSlot(W, B, x.shape, Step, Now, y) <=>
                      IsSlot(W, blocked \cup occupied, x.shape, Step, Now, y)
  BY <1>3, <1>4, <1>5, OtherDays, ZenonT(60)
<1>11. \A y \in Listed(s) : y \in 0..DayEnd
  <2> SUFFICES ASSUME NEW y \in Listed(s) PROVE y \in 0..DayEnd
    OBVIOUS
  <2>1. PICK w \in W : SlotOf(w, B, x.shape, Step, Now, y)
    BY <1>9
  <2>2. w \in Period /\ w.end \in Nat /\ w.end <= DayEnd /\ DayEnd \in Nat
    BY <1>3, SchedulingAssumption DEF Period
  <2>3. y \in Nat /\ y + x.shape.duration + x.shape.after <= w.end
    BY <1>3, <2>1, <2>2, SlotWithin
  <2>4. x.shape.duration \in Nat /\ x.shape.after \in Nat
    BY <1>3 DEF ServiceShape
  <2> QED
    BY <2>2, <2>3, <2>4
<1>12. 0..DayEnd \subseteq Nat
  BY SchedulingAssumption
<1>13. \A y : y \in Listed(s) <=> y \in Offer(x.service)
  BY <1>2, <1>6, <1>9, <1>10, <1>11, <1>12, ZenonT(60)
<1> QED
  BY <1>13 DEF s

\* The slots are computed.
LEMMA FineReadOccupancy ==
  ASSUME IInv, AInv, NEW r \in Slots, ReadOccupancy(r)
  PROVE  AInv'
<1> DEFINE x == reqs[r]
           y == [x EXCEPT !.pc = "slots", !.slots = Computed(x)]
<1>1. UNCHANGED Shelved
  BY DEF ReadOccupancy, Shelved, scheduleVars, shopVars
<1>2. x.pc = "occupancy" /\ x.pc \in QueryPCs
  BY DEF ReadOccupancy, In, QueryPCs
<1>3. IsQuery(x) /\ Fields(x, There, Ids) /\ (~x.raced => Saw(x, View))
  BY <1>2, OnItsWay
<1>4. IntervalsForDate(InOrder(x.hours), x.kind, InOrder(x.intervals)) = InOrder(WindowsOf(x))
  BY <1>3, WindowsInOrder
<1>5. reqs' = [reqs EXCEPT ![r] = y]
  BY <1>4 DEF ReadOccupancy, Become, Occupied, Computed
<1>6. RowsFine /\ OverridesFine
  BY RowsAreFine, OverridesAreFine
<1>7. /\ Computed(x) \in Seq(Nat) /\ Sorted(Computed(x), TakesTime(x.shape))
      /\ \A k \in DOMAIN Computed(x), p \in x.lasting :
           ~Overlap([start |-> Computed(x)[k] - x.shape.before,
                     end   |-> Computed(x)[k] + x.shape.duration + x.shape.after], p)
  BY <1>2, <1>3, <1>6, AnswerKeeps, ZenonT(60)
<1>8. ~x.raced /\ TakesTime(services[x.service].shape) => Listed(Computed(x)) = Offer(x.service)
  BY <1>2, <1>3, <1>6, AnswerIsTheOffer
<1>9. /\ y.pc = "slots" /\ y.slots = Computed(x)
      /\ y.shape = x.shape /\ y.found = x.found /\ y.service = x.service /\ y.hours = x.hours
      /\ y.id = x.id /\ y.kind = x.kind /\ y.intervals = x.intervals /\ y.busy = x.busy
      /\ y.lasting = x.lasting /\ y.raced = x.raced /\ y.failed = x.failed
  BY <1>3 DEF IsQuery
<1> HIDE DEF y
<1>10. Ordered(y) /\ Clear(y)
  <2>1. Ordered(y)
    BY <1>7, <1>9 DEF Ordered, Sorted, Follows
  <2>2. Clear(y)
    BY <1>7, <1>9, ZenonT(60) DEF Clear
  <2> QED
    BY <2>1, <2>2
<1>11. Fields(y, There, Ids)
  BY <1>2, <1>3, <1>7, <1>9, <1>10, ZenonT(60) DEF Fields, FoundPCs
<1>12. ~y.raced => Saw(y, View)
  <2> SUFFICES ASSUME ~y.raced PROVE Saw(y, View)
    OBVIOUS
  <2>1. Saw(x, View) /\ x.found = TRUE /\ ~x.failed /\ x.service \in Services
    BY <1>2, <1>3, <1>9, ZenonT(60) DEF Fields, FoundPCs
  <2>2. View.open /\ x.service \in View.offered
    BY <1>2, <2>1, ZenonT(60) DEF Saw, FoundPCs
  <2>3. services[x.service] # NoRow
    BY <2>2, Viewed DEF ActiveAssignedService
  <2>4. TakesTime(View.services[x.service].shape) => Listed(Computed(x)) = View.offer[x.service]
    BY <1>8, <1>9, <2>1, <2>3, Viewed, ZenonT(60)
  <2> QED
    BY <1>9, <2>1, <2>2, <2>4, ZenonT(60) DEF Saw, FoundPCs
<1> QED
  BY <1>1, <1>5, <1>9, <1>11, <1>12, FineQuery, ZenonT(60) DEF QueryPCs
-----------------------------------------------------------------------------
(* Everything together.                                                    *)
\* A step of a request about the schedule keeps the invariant.
LEMMA FineScheduleStep ==
  ASSUME IInv, AInv, NEW r \in Slots, ScheduleStep(r)
  PROVE  AInv'
<1>1. CASE ScheduleRequested(r) \/ Authorize(r) \/ DeleteHours(r) \/ LockHours(r)
  BY <1>1, FineChange
<1>2. CASE CommitHours(r)
  BY <1>2, FineCommitHours
<1>3. CASE SaveOverride(r)
  BY <1>3, FineSaveOverride
<1>4. CASE DeleteOverride(r) \/ SaveBlock(r) \/ DeleteBlock(r)
  BY <1>4, FineWrite
<1>5. CASE QueryAvailability(r)
  BY <1>5, FineBegin
<1>6. CASE ReadService(r)
  BY <1>6, FineReadService
<1>7. CASE ReadHours(r)
  BY <1>7, FineReadHours
<1>8. CASE ReadOverride(r)
  BY <1>8, FineReadOverride
<1>9. CASE ReadIntervals(r)
  BY <1>9, FineReadIntervals
<1>10. CASE ReadBlocks(r)
  BY <1>10, FineReadBlocks
<1>11. CASE ReadOccupancy(r)
  BY <1>11, FineReadOccupancy
<1>12. CASE Respond(r) \/ Crash(r)
  BY <1>12, FineOver
<1> QED
  BY <1>1, <1>2, <1>3, <1>4, <1>5, <1>6, <1>7, <1>8, <1>9, <1>10, <1>11, <1>12, ZenonT(60) DEF ScheduleStep

\* Every step keeps the invariant.
LEMMA NextFine == IInv /\ AInv /\ [Next]_vars => AInv'
<1> SUFFICES ASSUME IInv, AInv, [Next]_vars PROVE AInv'
  OBVIOUS
<1>1. CASE ShopSave /\ UNCHANGED scheduleVars
  BY <1>1, FineShopSave
<1>2. ASSUME NEW p \in Appointments, Book(p) \/ Cancel(p) PROVE AInv'
  BY <1>2, FineAppointments
<1>3. ASSUME NEW r \in Slots, ShopStep(r) /\ UNCHANGED scheduleVars PROVE AInv'
  BY <1>3, FineShopStep
<1>4. ASSUME NEW r \in Slots, ScheduleStep(r) PROVE AInv'
  BY <1>4, FineScheduleStep
<1>5. CASE UNCHANGED vars
  <2> USE <1>5 DEF vars, shopVars, scheduleVars
  <2>1. View' = View
    BY ZenonT(60) DEF View, Active, Exists, ActiveAssignedService, OverrideOn, IsOverride, BlockedOn, Offer
  <2>2. Ids' = Ids /\ There' = There
    BY DEF Ids, There
  <2>3. RowsFine' /\ OverridesFine'
    BY RowsAreFine, OverridesAreFine, ZenonT(60) DEF RowsFine, OverridesFine, OverrideFine, IsOverride, OverrideOn
  <2> QED
    BY <2>1, <2>2, <2>3, RequestsAreFine, AllFine
<1> QED
  BY <1>1, <1>2, <1>3, <1>4, <1>5, ZenonT(60) DEF Next

-----------------------------------------------------------------------------
(* Theorems.                                                               *)

\* Both invariants hold of every behaviour.
THEOREM AnswersInductive == Spec => [](IInv /\ AInv)
  BY Inductive, InitFine, NextFine, PTL DEF Spec

\* Every row and every request, with everything a query has read, has its shape, and an
\* override has intervals exactly when it stands for custom hours.
THEOREM TypeCorrect == Spec => []TypeOK
  BY AnswersInductive, TypeOKImplied, PTL

\* The slots of every answer are in order; those of a service that takes time differ.
THEOREM SlotsAreInOrderHolds == Spec => []SlotsAreInOrder
  BY AnswersInductive, SlotsAreInOrderImplied, PTL

\* An answer that nothing has raced offers exactly the slots of the schedule, and is "not
\* found" exactly when the barber or the service cannot be booked or could not be asked about.
THEOREM AvailabilityIsTheScheduleHolds == Spec => []AvailabilityIsTheSchedule
  BY AnswersInductive, AvailabilityIsTheScheduleImplied, PTL

\* No answer offers what a block or an appointment covers that was there when the query
\* began and is there still.
THEOREM LastingIsKeptHolds == Spec => []LastingIsKept
  BY AnswersInductive, LastingIsKeptImplied, PTL

=============================================================================
