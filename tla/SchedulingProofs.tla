-------------------------- MODULE SchedulingProofs ---------------------------
(***************************************************************************)
(* Proofs about Scheduling and the shop below it, for any sets of slots,   *)
(* branches, barbers, services, identities and periods and any bounds.     *)
(* First IInv, what the requests that read or change the shop know of it,  *)
(* and the theorems that follow.  Then AInv, what the requests about the   *)
(* schedule have read of it: here the writers keep it, and AnswerProofs    *)
(* shows that the queries do.                                              *)
(***************************************************************************)
EXTENDS Scheduling, TLAPS

\* A leaf that names no prover is tried with SMT, then Zenon, then SMT again.
USE SMTT(30), ZenonT(30), SMTT(60), SMTT(90)

-----------------------------------------------------------------------------
(* Requests, by the step they are at.                                      *)

ReadPCs == {"branch", "barber", "assigned"}
QueryPCs == {"service", "hours", "override", "intervals", "blocks", "occupancy", "slots"}
ReplacePCs == {"lock", "insert"}

Reading == [pc : ReadPCs, branch : Branches, barber : Barbers, raced : BOOLEAN]
Granting == [pc : {"access"}, branch : Branches, barber : Barbers, raced : BOOLEAN, granted : BOOLEAN]
Linking == [pc : {"ensure", "link"}, barber : Barbers, identity : Identities]
Offering == [pc : {"exists", "assign"}, barber : Barbers, service : Services]

\* What the requests about the schedule have read is of no concern here.
IsChange(x) == x \in [pc : {"authorize", "write", "delete"}, actor : {x.actor}, op : {x.op}, raced : BOOLEAN]
IsReplacement(x) ==
  x \in [pc : ReplacePCs, actor : {x.actor}, op : {x.op}, gone : {x.gone}, passed : BOOLEAN, raced : BOOLEAN]
IsQuery(x) ==
  x \in [pc : QueryPCs, service : {x.service}, shape : {x.shape}, hours : {x.hours}, id : {x.id},
         kind : {x.kind}, intervals : {x.intervals}, busy : {x.busy}, slots : {x.slots}, found : {x.found},
         failed : {x.failed}, lasting : {x.lasting}, raced : BOOLEAN]

IsRequest(x) ==
  \/ x = Idle
  \/ x \in Reading
  \/ x \in Granting
  \/ x \in Linking
  \/ x \in Offering
  \/ IsChange(x)
  \/ IsReplacement(x)
  \/ IsQuery(x)

\* A request is known by its step.
LEMMA Shape ==
  ASSUME NEW x, IsRequest(x)
  PROVE  /\ x.pc \in ReadPCs => x \in Reading
         /\ x.pc = "access" => x \in Granting
         /\ x.pc \in {"ensure", "link"} => x \in Linking
         /\ x.pc \in {"exists", "assign"} => x \in Offering
         /\ x.pc \in {"authorize", "write", "delete"} => IsChange(x)
         /\ x.pc \in ReplacePCs => IsReplacement(x)
         /\ x.pc \in QueryPCs => IsQuery(x)
  BY DEF IsRequest, Idle, Reading, Granting, Linking, Offering, IsChange, IsReplacement, IsQuery, ReadPCs,
     ReplacePCs, QueryPCs

\* What remembering a race does to a request that reads, ...
LEMMA RacedReading ==
  ASSUME NEW x \in Reading
  PROVE  Raced(x) \in Reading /\ Raced(x).pc = x.pc /\ Raced(x).raced = TRUE
  BY ZenonT(60) DEF Raced, Reading

\* ... to an answer about access, ...
LEMMA RacedGranting ==
  ASSUME NEW x \in Granting
  PROVE  Raced(x) \in Granting /\ Raced(x).raced = TRUE
  BY ZenonT(60) DEF Raced, Granting

\* ... to requests that do not read, ...
LEMMA RacedOthers ==
  ASSUME NEW x, x = Idle \/ x \in Linking \/ x \in Offering
  PROVE  Raced(x) = x
  BY DEF Raced, Idle, Linking, Offering

\* ... to changes, ...
LEMMA RacedChange ==
  ASSUME NEW x, IsChange(x)
  PROVE  IsChange(Raced(x)) /\ Raced(x).pc = x.pc
  BY ZenonT(60) DEF Raced, IsChange

\* ... to replacements of hours, ...
LEMMA RacedReplacement ==
  ASSUME NEW x, IsReplacement(x)
  PROVE  IsReplacement(Raced(x)) /\ Raced(x).pc = x.pc /\ Raced(x).passed = x.passed /\ Raced(x).gone = x.gone
  BY ZenonT(60) DEF Raced, IsReplacement

\* ... and to queries.
LEMMA RacedQuery ==
  ASSUME NEW x, IsQuery(x)
  PROVE  IsQuery(Raced(x)) /\ Raced(x).pc = x.pc
  BY ZenonT(60) DEF Raced, IsQuery
-----------------------------------------------------------------------------
(* What a request that nothing has raced knows of branches, barbers,       *)
(* assignments, memberships and hours.                                     *)

Open(row) == row # NoRow /\ row.active

\* The branch and the barber it has found open, and the answer it has made of them.
Knows(x, br, ba, as) ==
  /\ x.pc \in {"barber", "assigned"} => br[x.branch] = "active"
  /\ x.pc = "assigned" => Open(ba[x.barber])
  /\ x.pc = "access" =>
       x.granted = (br[x.branch] = "active" /\ Open(ba[x.barber]) /\ <<x.barber, x.branch>> \in as)

RequestOK(x, br, ba, as, was, hs) ==
  /\ IsRequest(x)
  /\ x.pc = "link" => x.identity \in was
  /\ x.pc \in ReplacePCs /\ ~x.passed => x.gone = hs
  /\ x.pc \in {"barber", "assigned", "access"} /\ ~x.raced => Knows(x, br, ba, as)

RequestsOK ==
  /\ reqs = [r \in Slots |-> reqs[r]]
  /\ \A r \in Slots : RequestOK(reqs[r], branches, barbers, assignments, wasEligible, hours)

RowsOK ==
  /\ barbers \in [Barbers -> Barber \cup {NoRow}]
  /\ eligible \subseteq wasEligible

IInv == RowsOK /\ RequestsOK /\ HoursAreOneReplacement

\* What the invariant says of the rows of the shop ...
LEMMA RowsHold == IInv => RowsOK
  BY DEF IInv

\* ... of the requests ...
LEMMA RequestsHold == IInv => RequestsOK
  BY DEF IInv

\* ... and of the weekly hours.
LEMMA HoursHold == IInv => HoursAreOneReplacement
  BY DEF IInv

\* The parts make the invariant of the next state.
LEMMA Holds ==
  ASSUME RowsOK', RequestsOK', HoursAreOneReplacement'
  PROVE  IInv'
  BY DEF IInv

\* A request remembers that it was raced, and keeps its step.
LEMMA RacedRequest ==
  ASSUME NEW x, IsRequest(x)
  PROVE  /\ IsRequest(Raced(x))
         /\ Raced(x).pc = x.pc
         /\ x.pc \in {"barber", "assigned", "access"} => Raced(x).raced = TRUE
         /\ x.pc = "link" => Raced(x) = x
         /\ x.pc \in ReplacePCs => Raced(x).passed = x.passed /\ Raced(x).gone = x.gone
<1>1. CASE x \in Reading
  BY <1>1, RacedReading, ZenonT(60) DEF IsRequest, Reading, ReadPCs, ReplacePCs
<1>2. CASE x \in Granting
  BY <1>2, RacedGranting, ZenonT(60) DEF IsRequest, Granting, ReplacePCs
<1>3. CASE x = Idle \/ x \in Linking \/ x \in Offering
  BY <1>3, RacedOthers DEF Idle, Linking, Offering, ReplacePCs
<1>4. CASE IsChange(x)
  BY <1>4, RacedChange DEF IsRequest, IsChange, ReplacePCs
<1>5. CASE IsReplacement(x)
  BY <1>5, RacedReplacement DEF IsRequest, IsReplacement, ReplacePCs
<1>6. CASE IsQuery(x)
  BY <1>6, RacedQuery DEF IsRequest, IsQuery, QueryPCs, ReplacePCs
<1> QED
  BY <1>1, <1>2, <1>3, <1>4, <1>5, <1>6, ZenonT(60) DEF IsRequest

\* A raced request claims nothing about the shop, and a saved row leaves hours and links of
\* other requests as they are.
LEMMA RacedOK ==
  ASSUME NEW x, NEW br, NEW ba, NEW as, NEW was, NEW hs, RequestOK(x, br, ba, as, was, hs),
         NEW br2, NEW ba2, NEW as2, NEW was2, was \subseteq was2
  PROVE  RequestOK(Raced(x), br2, ba2, as2, was2, hs)
<1>1. IsRequest(x)
  BY DEF RequestOK
<1> DEFINE y == Raced(x)
<1>2. /\ IsRequest(y)
      /\ y.pc = x.pc
      /\ x.pc \in {"barber", "assigned", "access"} => y.raced = TRUE
      /\ x.pc = "link" => y = x
      /\ x.pc \in ReplacePCs => y.passed = x.passed /\ y.gone = x.gone
  BY <1>1, RacedRequest, ZenonT(60)
<1> HIDE DEF y
<1>3. RequestOK(y, br2, ba2, as2, was2, hs)
  BY <1>2 DEF RequestOK
<1> QED
  BY <1>3 DEF y

\* A replacement that another one has passed claims nothing about the hours.
LEMMA PassedOK ==
  ASSUME NEW x, NEW br, NEW ba, NEW as, NEW was, NEW hs, RequestOK(x, br, ba, as, was, hs), NEW hs2,
         NEW new, NEW y, y = Passed(x, new)
  PROVE  RequestOK(y, br, ba, as, was, hs2)
<1>1. IsRequest(x)
  BY DEF RequestOK
<1>2. CASE x.pc \in ReplacePCs
  <2>1. IsReplacement(x)
    BY <1>1, <1>2, Shape
  <2>2. y = [x EXCEPT !.gone = @ \ new, !.passed = TRUE, !.raced = TRUE]
    BY <1>2 DEF Passed, ReplacePCs
  <2>3. IsReplacement(y) /\ y.pc \in ReplacePCs /\ y.passed = TRUE
    BY <2>1, <2>2, ZenonT(60) DEF IsReplacement, ReplacePCs
  <2> QED
    BY <2>3, ZenonT(60) DEF RequestOK, IsRequest, ReplacePCs
<1>3. CASE x.pc \notin ReplacePCs
  <2>1. y = Raced(x)
    BY <1>3 DEF Passed, ReplacePCs
  <2>2. RequestOK(y, br, ba, as, was, hs)
    BY <2>1, RacedOK, ZenonT(60)
  <2>3. y.pc \notin ReplacePCs
    BY <1>1, <1>3, <2>1, RacedRequest, ZenonT(60)
  <2> QED
    BY <2>2, <2>3, ZenonT(60) DEF RequestOK
<1> QED
  BY <1>2, <1>3, ZenonT(60)

\* A query that a removal has raced is a query still; other requests are raced.
LEMMA RemovedOK ==
  ASSUME NEW x, NEW br, NEW ba, NEW as, NEW was, NEW hs, RequestOK(x, br, ba, as, was, hs), NEW p,
         NEW y, y = IF "lasting" \in DOMAIN x THEN [x EXCEPT !.raced = TRUE, !.lasting = @ \ {p}]
                    ELSE Raced(x)
  PROVE  RequestOK(y, br, ba, as, was, hs)
<1>1. IsRequest(x)
  BY DEF RequestOK
<1>2. CASE IsQuery(x)
  <2>1. "lasting" \in DOMAIN x
    BY <1>2 DEF IsQuery
  <2>2. y = [x EXCEPT !.raced = TRUE, !.lasting = @ \ {p}]
    BY <2>1
  <2>3. IsQuery(y) /\ y.pc \in QueryPCs
    BY <1>2, <2>2, ZenonT(60) DEF IsQuery, QueryPCs
  <2> QED
    BY <2>3, ZenonT(60) DEF RequestOK, IsRequest, QueryPCs, ReplacePCs
<1>3. CASE ~IsQuery(x)
  <2>1. "lasting" \notin DOMAIN x
    BY <1>1, <1>3 DEF IsRequest, Idle, Reading, Granting, Linking, Offering, IsChange, IsReplacement
  <2>2. y = Raced(x)
    BY <2>1
  <2> QED
    BY <2>2, RacedOK, ZenonT(60)
<1> QED
  BY <1>2, <1>3, ZenonT(60)

\* A request that is over knows nothing, ...
LEMMA IdleOK ==
  ASSUME NEW br, NEW ba, NEW as, NEW was, NEW hs
  PROVE  RequestOK(Idle, br, ba, as, was, hs)
  BY DEF RequestOK, IsRequest, Idle, ReplacePCs

\* ... a query nothing that matters here, ...
LEMMA QueryOK ==
  ASSUME NEW x, IsQuery(x), NEW br, NEW ba, NEW as, NEW was, NEW hs
  PROVE  RequestOK(x, br, ba, as, was, hs)
  BY ZenonT(60) DEF RequestOK, IsRequest, IsQuery, QueryPCs, ReplacePCs

\* ... and so a change of the schedule.
LEMMA ChangeOK ==
  ASSUME NEW x, IsChange(x), NEW br, NEW ba, NEW as, NEW was, NEW hs
  PROVE  RequestOK(x, br, ba, as, was, hs)
  BY ZenonT(60) DEF RequestOK, IsRequest, IsChange, ReplacePCs
-----------------------------------------------------------------------------
(* The two kinds of steps.                                                 *)

\* A request goes on, and nothing else happens.
LEMMA GoesOn ==
  ASSUME IInv, NEW r \in Slots, NEW y, reqs' = [reqs EXCEPT ![r] = y],
         RequestOK(y, branches, barbers, assignments, wasEligible, hours),
         UNCHANGED <<branches, barbers, assignments, eligible, wasEligible, hours, replaced>>
  PROVE  IInv'
<1>1. reqs' = [q \in Slots |-> reqs'[q]]
  BY RequestsHold, ZenonT(60) DEF RequestsOK
<1>2. ASSUME NEW q \in Slots
      PROVE  RequestOK(reqs'[q], branches, barbers, assignments, wasEligible, hours)
  <2>1. CASE q = r
    <3>1. reqs'[q] = y
      BY <2>1, RequestsHold DEF RequestsOK
    <3> QED
      BY <3>1
  <2>2. CASE q # r
    <3>1. reqs'[q] = reqs[q]
      BY <2>2, RequestsHold DEF RequestsOK
    <3> QED
      BY <3>1, RequestsHold DEF RequestsOK
  <2> QED
    BY <2>1, <2>2
<1>3. RequestsOK'
  BY <1>1, <1>2 DEF RequestsOK
<1> QED
  BY <1>3, RowsHold, HoursHold, Holds DEF RowsOK, HoursAreOneReplacement

\* Something of the shop is saved, and every request is raced or over.
LEMMA IsRaced ==
  ASSUME IInv, reqs' = [q \in Slots |-> reqs'[q]],
         \A q \in Slots : reqs'[q] = Raced(reqs[q]) \/ reqs'[q] = Idle,
         wasEligible \subseteq wasEligible', UNCHANGED <<hours, replaced>>, RowsOK'
  PROVE  IInv'
<1>1. ASSUME NEW q \in Slots
      PROVE  RequestOK(reqs'[q], branches', barbers', assignments', wasEligible', hours)
  <2>1. CASE reqs'[q] = Idle
    BY <2>1, IdleOK
  <2>2. CASE reqs'[q] = Raced(reqs[q])
    <3>1. RequestOK(reqs[q], branches, barbers, assignments, wasEligible, hours)
      BY RequestsHold DEF RequestsOK
    <3>2. RequestOK(Raced(reqs[q]), branches', barbers', assignments', wasEligible', hours)
      BY <3>1, RacedOK
    <3> QED
      BY <2>2, <3>2
  <2> QED
    BY <2>1, <2>2
<1>2. RequestsOK'
  BY <1>1 DEF RequestsOK
<1> QED
  BY <1>2, HoursHold, Holds DEF HoursAreOneReplacement

\* Disturb and Commit race every request.
LEMMA Races ==
  ASSUME NEW r, Disturb \/ Commit(r)
  PROVE  /\ reqs' = [q \in Slots |-> reqs'[q]]
         /\ \A q \in Slots : reqs'[q] = Raced(reqs[q]) \/ reqs'[q] = Idle
  BY DEF Disturb, Commit

\* A save that touches neither barbers nor memberships.
LEMMA PlainSave ==
  ASSUME IInv, NEW r, Disturb \/ Commit(r), UNCHANGED <<barbers, eligible, wasEligible, hours, replaced>>
  PROVE  IInv'
<1>1. RowsOK'
  BY RowsHold DEF RowsOK
<1> QED
  BY <1>1, Races, IsRaced

\* A period is removed.
LEMMA RemovedStep ==
  ASSUME IInv, NEW r, NEW p, Removed(r, p),
         UNCHANGED <<branches, barbers, assignments, eligible, wasEligible, hours, replaced>>
  PROVE  IInv'
<1>1. reqs' = [q \in Slots |-> reqs'[q]]
  BY ZenonT(60) DEF Removed
<1>2. ASSUME NEW q \in Slots
      PROVE  RequestOK(reqs'[q], branches, barbers, assignments, wasEligible, hours)
  <2>1. RequestOK(reqs[q], branches, barbers, assignments, wasEligible, hours)
    BY RequestsHold DEF RequestsOK
  <2>2. CASE q = r
    <3>1. reqs'[q] = Idle
      BY <2>2, ZenonT(60) DEF Removed
    <3> QED
      BY <3>1, IdleOK
  <2>3. CASE q # r
    <3>1. reqs'[q] = IF "lasting" \in DOMAIN reqs[q] THEN [reqs[q] EXCEPT !.raced = TRUE, !.lasting = @ \ {p}]
                     ELSE Raced(reqs[q])
      BY <2>3, ZenonT(60) DEF Removed
    <3> QED
      BY <2>1, <3>1, RemovedOK, ZenonT(60)
  <2> QED
    BY <2>2, <2>3
<1>3. RequestsOK'
  BY <1>1, <1>2 DEF RequestsOK
<1> QED
  BY <1>3, RowsHold, HoursHold, Holds DEF RowsOK, HoursAreOneReplacement

\* A request ends without effect.
LEMMA FinishStep ==
  ASSUME IInv, NEW r \in Slots, Finish(r),
         UNCHANGED <<branches, barbers, assignments, eligible, wasEligible, hours, replaced>>
  PROVE  IInv'
  BY GoesOn, IdleOK, ZenonT(60) DEF Finish, Become

-----------------------------------------------------------------------------
(* Steps of the shop.                                                      *)

\* A saved barber keeps its link, an unlinked one loses it.
LEMMA ShopSaveStep ==
  ASSUME IInv, ShopSave, UNCHANGED scheduleVars
  PROVE  IInv'
<1> USE DEF scheduleVars
<1>1. ASSUME NEW branch \in Branches, SaveBranch(branch) PROVE IInv'
  BY <1>1, PlainSave DEF SaveBranch
<1>2. ASSUME NEW b \in Barbers, SaveBarber(b) PROVE IInv'
  <2>1. PICK active \in BOOLEAN : barbers' = [barbers EXCEPT ![b] = SavedBarber(b, active)]
    BY <1>2, ZenonT(60) DEF SaveBarber
  <2>2. SavedBarber(b, active) \in Barber
    BY RowsHold DEF SavedBarber, Barber, Exists, IdentityOf, RowsOK
  <2>3. RowsOK'
    BY <1>2, <2>1, <2>2, RowsHold DEF SaveBarber, RowsOK
  <2> QED
    BY <1>2, <2>3, Races, IsRaced DEF SaveBarber
<1>3. ASSUME NEW b \in Barbers, UnlinkIdentity(b) PROVE IInv'
  <2>1. barbers[b] \in Barber
    BY <1>3, RowsHold DEF UnlinkIdentity, Exists, RowsOK
  <2>2. [barbers[b] EXCEPT !.identity = Nobody] \in Barber
    BY <2>1 DEF Barber
  <2>3. RowsOK'
    BY <1>3, <2>2, RowsHold DEF UnlinkIdentity, RowsOK
  <2> QED
    BY <1>3, <2>3, Races, IsRaced DEF UnlinkIdentity
<1>4. ASSUME NEW i \in Identities, MembershipChanges(i) PROVE IInv'
  <2>1. RowsOK' /\ wasEligible \subseteq wasEligible'
    BY <1>4, RowsHold DEF MembershipChanges, RowsOK
  <2> QED
    BY <1>4, <2>1, Races, IsRaced DEF MembershipChanges
<1>5. ASSUME NEW s \in Services, SaveService(s) PROVE IInv'
  BY <1>5, PlainSave DEF SaveService
<1>6. ASSUME NEW b, NEW s, Unassign(b, s) PROVE IInv'
  BY <1>6, PlainSave DEF Unassign
<1>7. Followed \subseteq Barbers
  BY ShopAssumption DEF Followed
<1> QED
  BY <1>1, <1>2, <1>3, <1>4, <1>5, <1>6, <1>7 DEF ShopSave
\* Each read of booking access finds what the request then knows.
LEMMA AccessStep ==
  ASSUME IInv, NEW r \in Slots, BookingAccess(r) \/ ReadBranch(r) \/ ReadBarber(r) \/ ReadAssigned(r),
         UNCHANGED scheduleVars
  PROVE  IInv'
<1> USE DEF scheduleVars, shopVars
<1> DEFINE x == reqs[r]
           OK(y) == RequestOK(y, branches, barbers, assignments, wasEligible, hours)
<1>1. OK(x) /\ IsRequest(x)
  BY RequestsHold DEF RequestsOK, RequestOK
<1>2. ASSUME Answer(r, FALSE), x \in Reading, x.raced \/ x.pc \in {"branch", "barber"},
             x.pc = "branch" => branches[x.branch] # "active", x.pc = "barber" => ~Active(x.barber),
             UNCHANGED <<branches, barbers, assignments, eligible, wasEligible, hours, replaced>>
      PROVE  IInv'
  <2> DEFINE y == [pc |-> "access", branch |-> x.branch, barber |-> x.barber, raced |-> x.raced,
                   granted |-> FALSE]
  <2>1. y \in Granting
    BY <1>2 DEF Reading, Granting
  <2>2. ~(branches[x.branch] = "active" /\ Open(barbers[x.barber])) \/ x.raced
    BY <1>2 DEF Open, Active, Exists
  <2>3. ~y.raced => Knows(y, branches, barbers, assignments)
    BY <2>2, ZenonT(60) DEF Knows
  <2>4. OK(y)
    BY <2>1, <2>3 DEF RequestOK, IsRequest, ReplacePCs
  <2> QED
    BY <1>2, <2>4, GoesOn, ZenonT(60) DEF Answer, Become
<1>3. CASE BookingAccess(r)
  <2>1. PICK branch \in Branches, b \in Barbers :
          Become(r, [pc |-> "branch", branch |-> branch, barber |-> b, raced |-> FALSE])
    BY <1>3, ZenonT(60) DEF BookingAccess
  <2> DEFINE y == [pc |-> "branch", branch |-> branch, barber |-> b, raced |-> FALSE]
  <2>2. y \in Reading
    BY DEF Reading, ReadPCs
  <2>3. OK(y)
    BY <2>2 DEF RequestOK, IsRequest, ReplacePCs
  <2> QED
    BY <1>3, <2>1, <2>3, GoesOn, ZenonT(60) DEF BookingAccess, Become
<1>4. CASE ReadBranch(r)
  <2>1. x.pc = "branch" /\ x \in Reading
    BY <1>1, <1>4, Shape DEF ReadBranch, In, ReadPCs
  <2>2. CASE branches[x.branch] = "active"
    <3> DEFINE y == [x EXCEPT !.pc = "barber"]
    <3>1. y \in Reading /\ y.pc = "barber" /\ y.branch = x.branch
      BY <2>1 DEF Reading, ReadPCs
    <3> HIDE DEF y
    <3>2. OK(y)
      BY <2>2, <3>1 DEF RequestOK, IsRequest, ReplacePCs, Knows
    <3>3. reqs' = [reqs EXCEPT ![r] = y]
      BY <1>4, <2>2 DEF ReadBranch, Goto, y
    <3> QED
      BY <1>4, <3>2, <3>3, GoesOn, ZenonT(60) DEF ReadBranch
  <2>3. CASE branches[x.branch] # "active"
    BY <1>2, <1>4, <2>1, <2>3 DEF ReadBranch
  <2> QED
    BY <2>2, <2>3
<1>5. CASE ReadBarber(r)
  <2>1. x.pc = "barber" /\ x \in Reading
    BY <1>1, <1>5, Shape DEF ReadBarber, In, ReadPCs
  <2>2. CASE Active(x.barber)
    <3> DEFINE y == [x EXCEPT !.pc = "assigned"]
    <3>1. y \in Reading /\ y.pc = "assigned" /\ y.branch = x.branch /\ y.barber = x.barber /\ y.raced = x.raced
      BY <2>1 DEF Reading, ReadPCs
    <3> HIDE DEF y
    <3>2. ~x.raced => branches[x.branch] = "active"
      BY <1>1, <2>1 DEF RequestOK, Knows
    <3>3. OK(y)
      BY <2>2, <3>1, <3>2 DEF RequestOK, IsRequest, ReplacePCs, Knows, Open, Active, Exists
    <3>4. reqs' = [reqs EXCEPT ![r] = y]
      BY <1>5, <2>2 DEF ReadBarber, Goto, y
    <3> QED
      BY <1>5, <3>3, <3>4, GoesOn, ZenonT(60) DEF ReadBarber
  <2>3. CASE ~Active(x.barber)
    BY <1>2, <1>5, <2>1, <2>3 DEF ReadBarber
  <2> QED
    BY <2>2, <2>3
<1>6. CASE ReadAssigned(r)
  <2>1. x.pc = "assigned" /\ x \in Reading
    BY <1>1, <1>6, Shape DEF ReadAssigned, In, ReadPCs
  <2> DEFINE g == <<x.barber, x.branch>> \in assignments
             y == [pc |-> "access", branch |-> x.branch, barber |-> x.barber, raced |-> x.raced, granted |-> g]
  <2>2. ~x.raced => branches[x.branch] = "active" /\ Open(barbers[x.barber])
    BY <1>1, <2>1 DEF RequestOK, Knows
  <2>3. y \in Granting
    BY <2>1 DEF Reading, Granting
  <2>4. ~y.raced => Knows(y, branches, barbers, assignments)
    BY <2>2 DEF Knows
  <2>5. OK(y)
    BY <2>3, <2>4, ZenonT(60) DEF RequestOK, IsRequest, ReplacePCs
  <2> QED
    BY <1>6, <2>5, GoesOn, ZenonT(60) DEF ReadAssigned, Answer, Become
<1> QED
  BY <1>3, <1>4, <1>5, <1>6

\* A link is written for an identity that was eligible.
LEMMA LinkStep ==
  ASSUME IInv, NEW r \in Slots, LinkIdentity(r) \/ EnsureBarberMembership(r) \/ CommitLink(r),
         UNCHANGED scheduleVars
  PROVE  IInv'
<1> USE DEF scheduleVars, shopVars
<1> DEFINE x == reqs[r]
           OK(y) == RequestOK(y, branches, barbers, assignments, wasEligible, hours)
<1>1. OK(x) /\ IsRequest(x)
  BY RequestsHold DEF RequestsOK, RequestOK
<1>2. CASE LinkIdentity(r)
  <2>1. PICK b \in Barbers, i \in Identities : Become(r, [pc |-> "ensure", barber |-> b, identity |-> i])
    BY <1>2 DEF LinkIdentity
  <2> DEFINE y == [pc |-> "ensure", barber |-> b, identity |-> i]
  <2>2. y \in Linking
    BY DEF Linking
  <2>3. OK(y)
    BY <2>2 DEF RequestOK, IsRequest, ReplacePCs
  <2> QED
    BY <1>2, <2>1, <2>3, GoesOn, ZenonT(60) DEF LinkIdentity, Become
<1>3. CASE EnsureBarberMembership(r)
  <2>1. x.pc = "ensure" /\ x \in Linking
    BY <1>1, <1>3, Shape DEF EnsureBarberMembership, In
  <2>2. CASE BarberEligible(x.identity)
    <3> DEFINE y == [x EXCEPT !.pc = "link"]
    <3>1. y \in Linking /\ y.pc = "link" /\ y.identity = x.identity
      BY <2>1 DEF Linking
    <3> HIDE DEF y
    <3>2. OK(y)
      BY <2>2, <3>1, RowsHold DEF RequestOK, IsRequest, ReplacePCs, BarberEligible, RowsOK
    <3>3. reqs' = [reqs EXCEPT ![r] = y]
      BY <1>3, <2>2 DEF EnsureBarberMembership, Goto, y
    <3> QED
      BY <1>3, <3>2, <3>3, GoesOn, ZenonT(60) DEF EnsureBarberMembership
  <2>3. CASE ~BarberEligible(x.identity)
    BY <1>3, <2>3, FinishStep DEF EnsureBarberMembership
  <2> QED
    BY <2>2, <2>3
<1>4. CASE CommitLink(r)
  <2>1. x \in Linking
    BY <1>1, <1>4, Shape DEF CommitLink, In
  <2>2. CASE MayLink(x.barber, x.identity)
    <3>1. barbers[x.barber] \in Barber
      BY <2>1, <2>2, RowsHold DEF MayLink, Exists, RowsOK, Linking
    <3>2. [barbers[x.barber] EXCEPT !.identity = x.identity] \in Barber
      BY <2>1, <3>1 DEF Barber, Linking
    <3>3. barbers' = [barbers EXCEPT ![x.barber] = [barbers[x.barber] EXCEPT !.identity = x.identity]]
      BY <1>4, <2>2 DEF CommitLink
    <3>4. RowsOK'
      BY <1>4, <3>2, <3>3, RowsHold, ZenonT(60) DEF CommitLink, RowsOK
    <3> QED
      BY <1>4, <3>4, Races, IsRaced DEF CommitLink
  <2>3. CASE ~MayLink(x.barber, x.identity)
    BY <1>4, <2>3, PlainSave DEF CommitLink
  <2> QED
    BY <2>2, <2>3
<1> QED
  BY <1>2, <1>3, <1>4

\* Who performs a service is of no concern to the other requests.
LEMMA AssignStep ==
  ASSUME IInv, NEW r \in Slots, Assign(r) \/ EnsureBarber(r) \/ CommitAssign(r), UNCHANGED scheduleVars
  PROVE  IInv'
<1> USE DEF scheduleVars, shopVars
<1> DEFINE x == reqs[r]
           OK(y) == RequestOK(y, branches, barbers, assignments, wasEligible, hours)
<1>1. IsRequest(x)
  BY RequestsHold DEF RequestsOK, RequestOK
<1>2. ASSUME NEW y \in Offering PROVE OK(y)
  BY DEF RequestOK, IsRequest, ReplacePCs, Offering
<1>3. CASE Assign(r)
  <2>1. PICK b \in Barbers, s \in Services : Become(r, [pc |-> "exists", barber |-> b, service |-> s])
    BY <1>3 DEF Assign
  <2>2. [pc |-> "exists", barber |-> b, service |-> s] \in Offering
    BY DEF Offering
  <2> QED
    BY <1>2, <1>3, <2>1, <2>2, GoesOn, ZenonT(60) DEF Assign, Become
<1>4. CASE EnsureBarber(r)
  <2>1. x \in Offering
    BY <1>1, <1>4, Shape DEF EnsureBarber, In
  <2>2. [x EXCEPT !.pc = "assign"] \in Offering
    BY <2>1 DEF Offering
  <2>3. CASE Exists(x.barber)
    <3>1. reqs' = [reqs EXCEPT ![r] = [x EXCEPT !.pc = "assign"]]
      BY <1>4, <2>3 DEF EnsureBarber, Goto
    <3> QED
      BY <1>2, <1>4, <2>2, <3>1, GoesOn, ZenonT(60) DEF EnsureBarber
  <2>4. CASE ~Exists(x.barber)
    BY <1>4, <2>4, FinishStep DEF EnsureBarber
  <2> QED
    BY <2>3, <2>4
<1>5. CASE CommitAssign(r)
  BY <1>5, PlainSave DEF CommitAssign
<1> QED
  BY <1>3, <1>4, <1>5
-----------------------------------------------------------------------------
(* Steps of the schedule.                                                  *)

\* A change is authorized, and the DELETE of a replacement chooses the hours there are.
LEMMA ChangeStep ==
  ASSUME IInv, NEW r \in Slots, ScheduleRequested(r) \/ Authorize(r) \/ DeleteHours(r) \/ LockHours(r)
  PROVE  IInv'
<1> USE DEF scheduleVars, shopVars
<1> DEFINE x == reqs[r]
           OK(y) == RequestOK(y, branches, barbers, assignments, wasEligible, hours)
<1>1. OK(x) /\ IsRequest(x)
  BY RequestsHold DEF RequestsOK, RequestOK
<1>2. CASE ScheduleRequested(r)
  <2>1. PICK actor \in Identities \cup {Nobody}, op \in {"hours", "other"} :
          Become(r, [pc |-> "authorize", actor |-> actor, op |-> op, raced |-> FALSE])
    BY <1>2, ZenonT(60) DEF ScheduleRequested
  <2>2. IsChange([pc |-> "authorize", actor |-> actor, op |-> op, raced |-> FALSE])
    BY DEF IsChange
  <2> QED
    BY <1>2, <2>1, <2>2, ChangeOK, GoesOn, ZenonT(60) DEF ScheduleRequested, Become
<1>3. CASE Authorize(r)
  <2>1. IsChange(x)
    BY <1>1, <1>3, Shape DEF Authorize, In
  <2>2. ASSUME NEW pc \in {"write", "delete"}, Goto(r, pc) PROVE IInv'
    <3>1. IsChange([x EXCEPT !.pc = pc])
      BY <2>1 DEF IsChange
    <3>2. reqs' = [reqs EXCEPT ![r] = [x EXCEPT !.pc = pc]]
      BY <2>2 DEF Goto
    <3> QED
      BY <1>3, <3>1, <3>2, ChangeOK, GoesOn, ZenonT(60) DEF Authorize
  <2>3. ASSUME Finish(r) PROVE IInv'
    BY <1>3, <2>3, FinishStep DEF Authorize
  <2> QED
    BY <1>3, <2>2, <2>3 DEF Authorize
<1>4. CASE DeleteHours(r)
  <2>1. IsChange(x)
    BY <1>1, <1>4, Shape DEF DeleteHours, In
  <2> DEFINE y == [pc |-> "lock", actor |-> x.actor, op |-> "hours", gone |-> hours, passed |-> FALSE,
                   raced |-> x.raced]
  <2>2. IsReplacement(y) /\ y.pc = "lock" /\ y.gone = hours
    BY <2>1 DEF IsReplacement, IsChange, ReplacePCs
  <2>3. reqs' = [reqs EXCEPT ![r] = y]
    BY <1>4 DEF DeleteHours, Become
  <2> HIDE DEF y
  <2>4. OK(y)
    BY <2>2 DEF RequestOK, IsRequest
  <2> QED
    BY <1>4, <2>3, <2>4, GoesOn, ZenonT(60) DEF DeleteHours
<1>5. CASE LockHours(r)
  <2>1. IsReplacement(x) /\ x.pc = "lock"
    BY <1>1, <1>5, Shape, ZenonT(60) DEF LockHours, In, ReplacePCs
  <2> DEFINE y == [x EXCEPT !.pc = "insert"]
  <2>2. IsReplacement(y) /\ y.pc = "insert" /\ y.gone = x.gone /\ y.passed = x.passed
    BY <2>1 DEF IsReplacement, ReplacePCs
  <2>3. reqs' = [reqs EXCEPT ![r] = y]
    BY <1>5 DEF LockHours, Goto
  <2> HIDE DEF y
  <2>4. OK(y)
    BY <1>1, <2>1, <2>2 DEF RequestOK, IsRequest, ReplacePCs
  <2> QED
    BY <1>5, <2>3, <2>4, GoesOn, ZenonT(60) DEF LockHours
<1> QED
  BY <1>2, <1>3, <1>4, <1>5

\* A replacement that none has passed leaves its own hours alone.
LEMMA CommitHoursStep ==
  ASSUME IInv, NEW r \in Slots, CommitHours(r)
  PROVE  IInv'
<1> USE DEF shopVars
<1> DEFINE x == reqs[r]
<1>1. RequestOK(x, branches, barbers, assignments, wasEligible, hours) /\ x.pc = "insert"
  BY RequestsHold, ZenonT(60) DEF RequestsOK, CommitHours, In
<1>2. PICK in \in HoursInputs :
        /\ hours' = ReplaceHours(r, in)
        /\ replaced' = [in |-> Periods(in), raced |-> x.passed]
        /\ reqs' = [q \in Slots |-> IF q = r THEN Idle ELSE Passed(reqs[q], Periods(in))]
  BY ZenonT(60) DEF CommitHours
<1>3. ~x.passed => x.gone = hours
  BY <1>1 DEF RequestOK, ReplacePCs
<1>4. HoursAreOneReplacement'
  BY <1>2, <1>3 DEF HoursAreOneReplacement, ReplaceHours
<1>5. reqs' = [q \in Slots |-> reqs'[q]]
  BY <1>2, ZenonT(60)
<1>6. ASSUME NEW q \in Slots
      PROVE  RequestOK(reqs'[q], branches, barbers, assignments, wasEligible, hours')
  <2>1. RequestOK(reqs[q], branches, barbers, assignments, wasEligible, hours)
    BY RequestsHold DEF RequestsOK
  <2>2. CASE q = r
    <3>1. reqs'[q] = Idle
      BY <1>2, <2>2, ZenonT(60)
    <3> QED
      BY <3>1, IdleOK
  <2>3. CASE q # r
    <3>1. reqs'[q] = Passed(reqs[q], Periods(in))
      BY <1>2, <2>3, ZenonT(60)
    <3> QED
      BY <2>1, <3>1, PassedOK, ZenonT(60)
  <2> QED
    BY <2>2, <2>3
<1>7. RequestsOK'
  BY <1>5, <1>6, ZenonT(60) DEF RequestsOK, CommitHours
<1> QED
  BY <1>4, <1>7, RowsHold, Holds, ZenonT(60) DEF RowsOK, CommitHours

\* Overrides, blocked periods and appointments do not touch the hours.
LEMMA WriteStep ==
  ASSUME IInv, NEW r \in Slots, SaveOverride(r) \/ DeleteOverride(r) \/ SaveBlock(r) \/ DeleteBlock(r)
  PROVE  IInv'
<1> USE DEF shopVars
<1>1. CASE SaveOverride(r)
  BY <1>1, PlainSave DEF SaveOverride
<1>2. CASE DeleteOverride(r)
  BY <1>2, PlainSave DEF DeleteOverride
<1>3. CASE SaveBlock(r)
  BY <1>3, PlainSave DEF SaveBlock
<1>4. CASE DeleteBlock(r)
  BY <1>4, RemovedStep DEF DeleteBlock
<1> QED
  BY <1>1, <1>2, <1>3, <1>4

\* A query stays a query.
LEMMA QueryStep ==
  ASSUME IInv, NEW r \in Slots,
         \/ QueryAvailability(r) \/ ReadService(r) \/ ReadHours(r) \/ ReadOverride(r)
         \/ ReadIntervals(r) \/ ReadBlocks(r) \/ ReadOccupancy(r)
  PROVE  IInv'
<1> USE DEF scheduleVars, shopVars
<1> DEFINE x == reqs[r]
<1>1. IsRequest(x)
  BY RequestsHold DEF RequestsOK, RequestOK
<1>2. ASSUME NEW y, reqs' = [reqs EXCEPT ![r] = y], IsQuery(y),
             UNCHANGED <<branches, barbers, assignments, eligible, wasEligible, hours, replaced>>
      PROVE  IInv'
  BY <1>2, QueryOK, GoesOn, ZenonT(60)
<1>3. ASSUME IsQuery(x), NEW pc \in QueryPCs PROVE IsQuery([x EXCEPT !.pc = pc])
  BY <1>3 DEF IsQuery
<1>4. CASE QueryAvailability(r)
  <2>1. PICK s \in Services, failed \in BOOLEAN :
          Become(r, [pc |-> IF Active(Chair) /\ ~failed THEN "service" ELSE "slots", service |-> s,
                     shape |-> NoRow, hours |-> {}, id |-> 0, kind |-> "none", intervals |-> {}, busy |-> {},
                     slots |-> <<>>, found |-> FALSE, failed |-> failed, lasting |-> blocked \cup occupied,
                     raced |-> FALSE])
    BY <1>4, ZenonT(60) DEF QueryAvailability
  <2> DEFINE y == [pc |-> IF Active(Chair) /\ ~failed THEN "service" ELSE "slots", service |-> s,
                   shape |-> NoRow, hours |-> {}, id |-> 0, kind |-> "none", intervals |-> {}, busy |-> {},
                   slots |-> <<>>, found |-> FALSE, failed |-> failed, lasting |-> blocked \cup occupied,
                   raced |-> FALSE]
  <2>2. IsQuery(y)
    BY ZenonT(60) DEF IsQuery, QueryPCs
  <2> QED
    BY <1>2, <1>4, <2>1, <2>2, ZenonT(60) DEF QueryAvailability, Become
<1>5. CASE ReadService(r)
  <2>1. IsQuery(x)
    BY <1>1, <1>5, Shape DEF ReadService, In, QueryPCs
  <2>2. /\ IsQuery([x EXCEPT !.pc = "hours", !.shape = services[x.service].shape, !.found = TRUE])
        /\ IsQuery([x EXCEPT !.pc = "slots", !.failed = TRUE])
    BY <2>1, ZenonT(60) DEF IsQuery, QueryPCs
  <2>3. IsQuery([x EXCEPT !.pc = "slots"])
    BY <1>3, <2>1 DEF QueryPCs
  <2>4. PICK y : IsQuery(y) /\ reqs' = [reqs EXCEPT ![r] = y]
    <3>1. Goto(r, "slots") => reqs' = [reqs EXCEPT ![r] = [x EXCEPT !.pc = "slots"]]
      BY DEF Goto
    <3> QED
      BY <1>5, <2>2, <2>3, <3>1, ZenonT(60) DEF ReadService, Become
  <2> QED
    BY <1>2, <1>5, <2>4, ZenonT(60) DEF ReadService
<1>6. CASE ReadHours(r)
  <2>1. IsQuery(x)
    BY <1>1, <1>6, Shape DEF ReadHours, In, QueryPCs
  <2>2. IsQuery([x EXCEPT !.pc = "override", !.hours = hours])
    BY <2>1, ZenonT(60) DEF IsQuery, QueryPCs
  <2> QED
    BY <1>2, <1>6, <2>2, ZenonT(60) DEF ReadHours, Become
<1>7. CASE ReadOverride(r)
  <2>1. IsQuery(x)
    BY <1>1, <1>7, Shape, ZenonT(60) DEF ReadOverride, In, QueryPCs
  <2>2. CASE Goto(r, "blocks")
    <3>1. IsQuery([x EXCEPT !.pc = "blocks"])
      BY <1>3, <2>1 DEF QueryPCs
    <3>2. reqs' = [reqs EXCEPT ![r] = [x EXCEPT !.pc = "blocks"]]
      BY <2>2 DEF Goto
    <3> QED
      BY <1>2, <1>7, <3>1, <3>2, ZenonT(60) DEF ReadOverride
  <2>3. ASSUME NEW id, Become(r, [reqs[r] EXCEPT !.pc = "intervals", !.id = id, !.kind = overrides[id].kind])
        PROVE  IInv'
    <3>1. IsQuery([x EXCEPT !.pc = "intervals", !.id = id, !.kind = overrides[id].kind])
      BY <2>1, ZenonT(60) DEF IsQuery, QueryPCs
    <3> QED
      BY <1>2, <1>7, <2>3, <3>1, ZenonT(60) DEF ReadOverride, Become
  <2> QED
    BY <1>7, <2>2, <2>3, ZenonT(60) DEF ReadOverride
<1>8. CASE ReadIntervals(r)
  <2>1. IsQuery(x)
    BY <1>1, <1>8, Shape DEF ReadIntervals, In, QueryPCs
  <2> DEFINE given == IF overrides[reqs[r].id] = Gone THEN {} ELSE overrides[reqs[r].id].intervals
  <2>2. reqs' = [reqs EXCEPT ![r] = [x EXCEPT !.pc = "blocks", !.intervals = given]]
    BY <1>8 DEF ReadIntervals, Become
  <2> HIDE DEF given
  <2>3. IsQuery([x EXCEPT !.pc = "blocks", !.intervals = given])
    BY <2>1, ZenonT(60) DEF IsQuery, QueryPCs
  <2> QED
    BY <1>2, <1>8, <2>2, <2>3, ZenonT(60) DEF ReadIntervals
<1>9. CASE ReadBlocks(r)
  <2>1. IsQuery(x)
    BY <1>1, <1>9, Shape DEF ReadBlocks, In, QueryPCs
  <2>2. IsQuery([x EXCEPT !.pc = "occupancy", !.busy = BlockedOn])
    BY <2>1, ZenonT(60) DEF IsQuery, QueryPCs
  <2> QED
    BY <1>2, <1>9, <2>2, ZenonT(60) DEF ReadBlocks, Become
<1>10. CASE ReadOccupancy(r)
  <2>1. IsQuery(x)
    BY <1>1, <1>10, Shape, ZenonT(60) DEF ReadOccupancy, In, QueryPCs
  <2>2. PICK starts : reqs' = [reqs EXCEPT ![r] = [x EXCEPT !.pc = "slots", !.slots = starts]]
    BY <1>10, ZenonT(60) DEF ReadOccupancy, Become
  <2>3. IsQuery([x EXCEPT !.pc = "slots", !.slots = starts])
    BY <2>1, ZenonT(60) DEF IsQuery, QueryPCs
  <2> QED
    BY <1>2, <1>10, <2>2, <2>3, ZenonT(60) DEF ReadOccupancy
<1> QED
  BY <1>4, <1>5, <1>6, <1>7, <1>8, <1>9, <1>10
-----------------------------------------------------------------------------
(* The invariant is inductive.                                             *)

\* In the beginning there are no requests and no hours.
LEMMA InitOK == Init => IInv
<1> SUFFICES ASSUME Init PROVE IInv
  OBVIOUS
<1> USE DEF Init, ShopInit
<1>1. RowsOK
  BY ShopAssumption DEF RowsOK, Barber
<1>2. RequestsOK
  BY IdleOK DEF RequestsOK
<1>3. HoursAreOneReplacement
  BY DEF HoursAreOneReplacement
<1> QED
  BY <1>1, <1>2, <1>3 DEF IInv

\* Every step keeps the invariant.
LEMMA NextOK == IInv /\ [Next]_vars => IInv'
<1> SUFFICES ASSUME IInv, [Next]_vars PROVE IInv'
  OBVIOUS
<1>1. CASE ShopSave /\ UNCHANGED scheduleVars
  BY <1>1, ShopSaveStep
<1>2. ASSUME NEW p \in Appointments, Book(p) PROVE IInv'
  BY <1>2, PlainSave DEF Book, shopVars
<1>3. ASSUME NEW p \in Appointments, Cancel(p) PROVE IInv'
  BY <1>3, RemovedStep DEF Cancel, shopVars
<1>4. ASSUME NEW r \in Slots, ShopStep(r), UNCHANGED scheduleVars PROVE IInv'
  BY <1>4, AccessStep, LinkStep, AssignStep DEF ShopStep
<1>5. ASSUME NEW r \in Slots, Respond(r) \/ Crash(r) PROVE IInv'
  BY <1>5, FinishStep DEF Respond, Crash, shopVars, scheduleVars
<1>6. ASSUME NEW r \in Slots, ScheduleStep(r) PROVE IInv'
  BY <1>5, <1>6, ChangeStep, CommitHoursStep, WriteStep, QueryStep DEF ScheduleStep
<1>7. CASE UNCHANGED vars
  BY <1>7, RowsHold, RequestsHold, HoursHold, Holds DEF vars, shopVars, scheduleVars, RowsOK, RequestsOK,
     HoursAreOneReplacement
<1> QED
  BY <1>1, <1>2, <1>3, <1>4, <1>6, <1>7 DEF Next

-----------------------------------------------------------------------------
(* Theorems.                                                               *)

\* The inductive invariant holds of every behaviour.
THEOREM Inductive == Spec => []IInv
  BY InitOK, NextOK, PTL DEF Spec

\* An answer about booking access that no save has raced is the state of the shop.
THEOREM AccessIsTheShopHolds == Spec => []AccessIsTheShop
<1>1. IInv => AccessIsTheShop
  BY RequestsHold, ZenonT(60) DEF RequestsOK, RequestOK, Knows, Open, AccessIsTheShop, In, Active, Exists
<1>2. QED
  BY <1>1, Inductive, PTL

\* Unless two replacements ran at once, the weekly hours are the ones saved last.
THEOREM HoursAreOneReplacementHolds == Spec => []HoursAreOneReplacement
<1>1. IInv => HoursAreOneReplacement
  BY HoursHold
<1>2. QED
  BY <1>1, Inductive, PTL

\* Barbers are changed by saving, linking and unlinking them only.
LEMMA BarbersChange ==
  ASSUME [Next]_vars, barbers' # barbers
  PROVE  \/ \E b \in Barbers : SaveBarber(b) \/ UnlinkIdentity(b)
         \/ \E r \in Slots : CommitLink(r)
<1>1. CASE ShopSave
  <2>1. Followed \subseteq Barbers
    BY ShopAssumption DEF Followed
  <2> QED
    BY <1>1, <2>1, ZenonT(60) DEF ShopSave, SaveBranch, MembershipChanges, SaveService, Unassign
<1>2. ASSUME NEW p \in Appointments, Book(p) \/ Cancel(p) PROVE FALSE
  BY <1>2 DEF Book, Cancel, shopVars
<1>3. ASSUME NEW r \in Slots, ShopStep(r) PROVE CommitLink(r)
  BY <1>3, ZenonT(60) DEF ShopStep, BookingAccess, ReadBranch, ReadBarber, ReadAssigned, LinkIdentity,
     EnsureBarberMembership, Assign, EnsureBarber, CommitAssign, shopVars
<1>4. ASSUME NEW r \in Slots, ScheduleStep(r) PROVE FALSE
  <2>1. UNCHANGED shopVars
    BY <1>4, ZenonT(60) DEF ScheduleStep, ScheduleRequested, Authorize, DeleteHours, LockHours, CommitHours, SaveOverride,
       DeleteOverride, SaveBlock, DeleteBlock, QueryAvailability, ReadService, ReadHours, ReadOverride,
       ReadIntervals, ReadBlocks, ReadOccupancy, Respond, Crash
  <2> QED
    BY <2>1 DEF shopVars
<1>5. ~UNCHANGED vars
  BY DEF vars, shopVars
<1> QED
  BY <1>1, <1>2, <1>3, <1>4, <1>5 DEF Next

\* A link is new only for an identity that was eligible, for a barber without a link, and
\* when no other barber has it.
THEOREM LinkIsEarnedHolds == Spec => LinkIsEarned
<1> DEFINE Earned(b, i) ==
             \/ Exists(b) /\ i = IdentityOf(b)
             \/ /\ Exists(b) /\ IdentityOf(b) = Nobody
                /\ i \in wasEligible
                /\ \A c \in Barbers \ {b} : Exists(c) => IdentityOf(c) # i
<1>1. ASSUME IInv, [Next]_vars, NEW b \in Barbers, barbers'[b] # NoRow, barbers'[b].identity # Nobody
      PROVE  Earned(b, barbers'[b].identity)
  <2>1. CASE barbers'[b] = barbers[b]
    BY <1>1, <2>1 DEF Exists, IdentityOf
  <2>2. ASSUME NEW c \in Barbers, SaveBarber(c) PROVE Earned(b, barbers'[b].identity)
    <3>1. PICK active \in BOOLEAN : barbers' = [barbers EXCEPT ![c] = SavedBarber(c, active)]
      BY <2>2, ZenonT(60) DEF SaveBarber
    <3>2. CASE b = c
      <4>1. barbers'[b].identity = IF Exists(b) THEN IdentityOf(b) ELSE Nobody
        BY <1>1, <3>1, <3>2, RowsHold DEF SavedBarber, RowsOK
      <4> QED
        BY <1>1, <4>1
    <3>3. CASE b # c
      BY <1>1, <2>1, <3>1, <3>3, RowsHold DEF RowsOK
    <3> QED
      BY <3>2, <3>3
  <2>3. ASSUME NEW c \in Barbers, UnlinkIdentity(c) PROVE Earned(b, barbers'[b].identity)
    <3>1. CASE b = c
      <4>1. barbers[b] \in Barber
        BY <1>1, <2>3, <3>1, RowsHold DEF UnlinkIdentity, Exists, RowsOK
      <4>2. barbers'[b].identity = Nobody
        BY <1>1, <2>3, <3>1, <4>1, RowsHold DEF UnlinkIdentity, RowsOK, Barber
      <4> QED
        BY <1>1, <4>2
    <3>2. CASE b # c
      BY <1>1, <2>1, <2>3, <3>2, RowsHold DEF UnlinkIdentity, RowsOK
    <3> QED
      BY <3>1, <3>2
  <2>4. ASSUME NEW r \in Slots, CommitLink(r), barbers'[b] # barbers[b]
        PROVE  Earned(b, barbers'[b].identity)
    <3> DEFINE x == reqs[r]
    <3>1. RequestOK(x, branches, barbers, assignments, wasEligible, hours) /\ x.pc = "link"
      BY <1>1, <2>4, RequestsHold DEF RequestsOK, CommitLink, In
    <3>2. x.identity \in wasEligible
      BY <3>1 DEF RequestOK
    <3>3. /\ MayLink(x.barber, x.identity)
          /\ barbers' = [barbers EXCEPT ![x.barber] = [barbers[x.barber] EXCEPT !.identity = x.identity]]
      BY <2>4 DEF CommitLink
    <3>4. b = x.barber
      BY <1>1, <2>4, <3>3, RowsHold DEF RowsOK
    <3>5. barbers[b] \in Barber
      BY <1>1, <3>3, <3>4, RowsHold DEF MayLink, Exists, RowsOK
    <3>6. barbers'[b].identity = x.identity
      BY <1>1, <3>3, <3>4, <3>5, RowsHold DEF RowsOK, Barber
    <3> QED
      BY <3>2, <3>3, <3>4, <3>6 DEF MayLink
  <2>5. CASE barbers' = barbers
    BY <2>1, <2>5
  <2> QED
    BY <1>1, <2>1, <2>2, <2>3, <2>4, <2>5, BarbersChange
<1>2. IInv /\ [Next]_vars =>
        [\A b \in Barbers :
           LET linked == barbers'[b].identity
           IN  barbers'[b] # NoRow /\ linked # Nobody => \/ Exists(b) /\ linked = IdentityOf(b)
                                                      \/ /\ Exists(b) /\ IdentityOf(b) = Nobody
                                                         /\ linked \in wasEligible
                                                         /\ \A c \in Barbers \ {b} : Exists(c) => IdentityOf(c) # linked]_vars
  BY <1>1
<1>3. QED
  BY <1>2, Inductive, PTL DEF Spec, LinkIsEarned
-----------------------------------------------------------------------------
(* What queries have read.                                                 *)

\* What there is to read.
View ==
  [open |-> Active(Chair),
   offered |-> {s \in Services : ActiveAssignedService(Chair, s)},
   services |-> services,
   hours |-> hours,
   today |-> OverrideOn("today"),
   overrides |-> overrides,
   blocks |-> BlockedOn,
   offer |-> [s \in {s \in Services : services[s] # NoRow} |-> Offer(s)]]

FoundPCs == {"hours", "override", "intervals", "blocks", "occupancy"}

\* A query that nothing has raced has seen what there is.
Saw(x, v) ==
  /\ x.pc # "slots" => v.open
  /\ x.pc \in FoundPCs => x.service \in v.offered /\ x.shape = v.services[x.service].shape
  /\ x.pc \in FoundPCs \ {"hours"} => x.hours = v.hours
  /\ x.pc = "intervals" => x.id \in v.today /\ x.kind = v.overrides[x.id].kind
  /\ x.pc \in {"blocks", "occupancy"} =>
       \/ v.today = {} /\ x.kind = "none"
       \/ \E id \in v.today : x.kind = v.overrides[id].kind /\ x.intervals = v.overrides[id].intervals
  /\ x.pc = "occupancy" => x.busy = v.blocks
  /\ x.pc = "slots" =>
       /\ x.found <=> v.open /\ x.service \in v.offered /\ ~x.failed
       /\ x.found /\ TakesTime(v.services[x.service].shape) => Listed(x.slots) = v.offer[x.service]

\* The answer is in order, and touches nothing that lasts.
Ordered(x) ==
  \A i, j \in DOMAIN x.slots : i < j =>
    x.slots[i] <= x.slots[j] /\ (TakesTime(x.shape) => x.slots[i] < x.slots[j])

Clear(x) ==
  \A k \in DOMAIN x.slots, p \in x.lasting :
    ~Overlap([start |-> x.slots[k] - x.shape.before,
              end   |-> x.slots[k] + x.shape.duration + x.shape.after], p)

\* Raced or not, a query has read rows as they are saved, and what lasts is among the busy
\* periods it has read.
Fields(x, there, ids) ==
  /\ x.service \in Services /\ x.shape \in Shapes \cup {NoRow} /\ x.found \in BOOLEAN
  /\ x.failed \in BOOLEAN /\ (x.pc # "slots" => ~x.failed)
  /\ x.hours \subseteq Intervals /\ OneByOne(x.hours)
  /\ x.intervals \subseteq Intervals /\ OneByOne(x.intervals)
  /\ x.id \in OverrideIDs \cup {0} /\ x.kind \in Closed \cup {"none", "custom_hours"}
  /\ x.busy \subseteq Blocks /\ x.lasting \subseteq there /\ x.slots \in Seq(Nat)
  /\ x.pc \in {"service", "hours", "override"} => x.kind = "none"
  /\ x.pc = "service" => ~x.found
  /\ x.pc \in FoundPCs => x.found
  /\ x.found => x.shape \in Shapes
  /\ x.pc = "intervals" => x.id \in ids
  /\ x.pc = "occupancy" => \A p \in x.lasting \cap Blocks : p.start < DayEnd => p \in x.busy
  /\ x.pc # "slots" \/ ~x.found => x.slots = <<>>
  /\ x.pc = "slots" => Ordered(x) /\ Clear(x)

\* What a request about the schedule carries.
Fine(x, v, there, ids) ==
  /\ x.pc \in {"authorize", "write", "delete"} => x.actor \in Identities \cup {Nobody} /\ x.op \in {"hours", "other"}
  /\ x.pc \in ReplacePCs => x.actor \in Identities \cup {Nobody} /\ x.op = "hours" /\ x.gone \subseteq Intervals
  /\ x.pc \in QueryPCs => Fields(x, there, ids) /\ (~x.raced => Saw(x, v))

\* The rows of the shop and of the schedule are those their tables allow.
RowsFine ==
  /\ branches \in [Branches -> {"none", "active", "inactive"}]
  /\ assignments \subseteq Barbers \X Branches
  /\ services \in [Services -> Service \cup {NoRow}]
  /\ offers \subseteq Barbers \X Services
  /\ wasEligible \subseteq Identities
  /\ hours \subseteq Intervals /\ OneByOne(hours)
  /\ blocked \subseteq Blocks /\ occupied \subseteq Appointments

\* A stored override is valid, and the only one of its date.
OverrideFine(id) ==
  /\ overrides[id].kind \in Closed <=> overrides[id].intervals = {}
  /\ OneByOne(overrides[id].intervals)
  /\ OverrideOn(overrides[id].date) = {id}

OverridesFine ==
  /\ overrides \in [OverrideIDs -> Override \cup {NoRow, Gone}]
  /\ \A id \in OverrideIDs : IsOverride(id) => OverrideFine(id)

\* Overrides that were ever stored: a query may hold the id of one that is deleted since.
Ids == {id \in OverrideIDs : overrides[id] # NoRow}

\* The periods that nobody else may take.
There == blocked \cup occupied

AInv ==
  /\ RowsFine
  /\ OverridesFine
  /\ \A r \in Slots : Fine(reqs[r], View, There, Ids)

\* What the invariant says of the rows ...
LEMMA RowsAreFine == AInv => RowsFine
  BY DEF AInv

\* ... of the overrides ...
LEMMA OverridesAreFine == AInv => OverridesFine
  BY DEF AInv

\* ... and of the requests.
LEMMA RequestsAreFine == AInv => \A r \in Slots : Fine(reqs[r], View, There, Ids)
  BY DEF AInv

\* The parts make the invariant of the next state.
LEMMA AllFine ==
  ASSUME RowsFine', OverridesFine', \A r \in Slots : Fine(reqs'[r], View', There', Ids')
  PROVE  AInv'
  BY DEF AInv

\* Nothing of a query changes but the step, what lasts and whether it is raced.
Carries(x, y) ==
  /\ y.service = x.service /\ y.shape = x.shape /\ y.hours = x.hours /\ y.id = x.id /\ y.kind = x.kind
  /\ y.intervals = x.intervals /\ y.busy = x.busy /\ y.slots = x.slots /\ y.found = x.found
  /\ y.failed = x.failed

\* A query goes to another step ...
LEMMA QueryGoes ==
  ASSUME NEW x, IsQuery(x), NEW c
  PROVE  LET y == [x EXCEPT !.pc = c]
         IN  Carries(x, y) /\ y.pc = c /\ y.lasting = x.lasting /\ y.raced = x.raced
  BY DEF IsQuery, Carries

\* ... or is raced.
LEMMA QueryRaced ==
  ASSUME NEW x, IsQuery(x)
  PROVE  LET y == Raced(x)
         IN  Carries(x, y) /\ y.pc = x.pc /\ y.lasting = x.lasting /\ y.raced = TRUE
  BY DEF IsQuery, Raced, Carries

\* What a raced change keeps.
LEMMA ChangeRaced ==
  ASSUME NEW x, IsChange(x) \/ IsReplacement(x)
  PROVE  LET y == Raced(x)
         IN  y.pc = x.pc /\ y.actor = x.actor /\ y.op = x.op /\ (IsReplacement(x) => y.gone = x.gone)
  BY DEF IsChange, IsReplacement, Raced

\* What has been read stays read.
LEMMA FieldsKept ==
  ASSUME NEW x, NEW y, NEW t, NEW t2, NEW i, NEW i2, Fields(x, t, i), Carries(x, y), y.pc = x.pc,
         y.lasting \subseteq x.lasting, y.lasting \subseteq t2, i \subseteq i2
  PROVE  Fields(y, t2, i2)
  BY ZenonT(60) DEF Fields, Carries, Ordered, Clear

\* A raced query claims nothing about the schedule.
LEMMA RacedFine ==
  ASSUME NEW x, IsRequest(x), NEW v, NEW v2, NEW t, NEW t2, NEW i, NEW i2, Fine(x, v, t, i),
         t \subseteq t2, i \subseteq i2
  PROVE  Fine(Raced(x), v2, t2, i2)
<1> DEFINE y == Raced(x)
<1>1. y.pc = x.pc
  BY RacedRequest, ZenonT(60)
<1>2. CASE x.pc \in QueryPCs
  <2>1. IsQuery(x)
    BY <1>2, Shape
  <2>2. Carries(x, y) /\ y.pc = x.pc /\ y.lasting = x.lasting /\ y.raced = TRUE
    BY <2>1, QueryRaced, ZenonT(60)
  <2>3. Fields(x, t, i)
    BY <1>2 DEF Fine
  <2>4. x.lasting \subseteq t2
    BY <2>3 DEF Fields
  <2> HIDE DEF y
  <2>5. Fields(y, t2, i2)
    BY <2>2, <2>3, <2>4, FieldsKept
  <2>6. Fine(y, v2, t2, i2)
    BY <1>2, <2>2, <2>5 DEF Fine, QueryPCs, ReplacePCs
  <2> QED
    BY <2>6 DEF y
<1>3. CASE x.pc \in {"authorize", "write", "delete"} \cup ReplacePCs
  <2>1. IsChange(x) \/ IsReplacement(x)
    BY <1>3, Shape
  <2>2. x.pc \in ReplacePCs => IsReplacement(x)
    BY Shape
  <2>3. y.pc = x.pc /\ y.actor = x.actor /\ y.op = x.op /\ (IsReplacement(x) => y.gone = x.gone)
    BY <2>1, ChangeRaced
  <2> HIDE DEF y
  <2>4. Fine(y, v2, t2, i2)
    BY <1>3, <2>2, <2>3 DEF Fine, QueryPCs, ReplacePCs
  <2> QED
    BY <2>4 DEF y
<1>4. CASE x.pc \notin QueryPCs \cup {"authorize", "write", "delete"} \cup ReplacePCs
  <2> HIDE DEF y
  <2>1. Fine(y, v2, t2, i2)
    BY <1>1, <1>4 DEF Fine
  <2> QED
    BY <2>1 DEF y
<1> QED
  BY <1>2, <1>3, <1>4

\* A replacement that another one has passed is to delete no more than before.
LEMMA PassedFine ==
  ASSUME NEW x, IsRequest(x), NEW v, NEW v2, NEW t, NEW i, Fine(x, v, t, i),
         NEW new, NEW y, y = Passed(x, new)
  PROVE  Fine(y, v2, t, i)
<1>1. CASE x.pc \in ReplacePCs
  <2>1. IsReplacement(x)
    BY <1>1, Shape
  <2>2. y = [x EXCEPT !.gone = @ \ new, !.passed = TRUE, !.raced = TRUE]
    BY <1>1 DEF Passed, ReplacePCs
  <2>3. y.pc = x.pc /\ y.actor = x.actor /\ y.op = x.op /\ y.gone = x.gone \ new
    BY <2>1, <2>2, ZenonT(60) DEF IsReplacement
  <2> QED
    BY <1>1, <2>3 DEF Fine, ReplacePCs, QueryPCs
<1>2. CASE x.pc \notin ReplacePCs
  <2>1. y = Raced(x)
    BY <1>2 DEF Passed, ReplacePCs
  <2> QED
    BY <2>1, RacedFine
<1> QED
  BY <1>1, <1>2

\* A query forgets a period that is removed.
LEMMA RemovedFine ==
  ASSUME NEW x, IsRequest(x), NEW v, NEW v2, NEW t, NEW i, NEW p, Fine(x, v, t, i),
         NEW y, y = IF "lasting" \in DOMAIN x THEN [x EXCEPT !.raced = TRUE, !.lasting = @ \ {p}]
                    ELSE Raced(x)
  PROVE  Fine(y, v2, t \ {p}, i)
<1>1. CASE IsQuery(x)
  <2>1. "lasting" \in DOMAIN x /\ x.pc \in QueryPCs
    BY <1>1 DEF IsQuery
  <2>2. y = [x EXCEPT !.raced = TRUE, !.lasting = @ \ {p}]
    BY <2>1
  <2>3. Carries(x, y) /\ y.pc = x.pc /\ y.lasting = x.lasting \ {p} /\ y.raced = TRUE
    BY <1>1, <2>2 DEF IsQuery, Carries
  <2>4. Fields(x, t, i)
    BY <2>1 DEF Fine
  <2>5. y.lasting \subseteq x.lasting /\ y.lasting \subseteq t \ {p}
    BY <2>3, <2>4 DEF Fields
  <2>6. Fields(y, t \ {p}, i)
    BY <2>3, <2>4, <2>5, FieldsKept, ZenonT(60)
  <2> QED
    BY <2>1, <2>3, <2>6 DEF Fine, QueryPCs, ReplacePCs
<1>2. CASE ~IsQuery(x)
  <2>1. "lasting" \notin DOMAIN x
    BY <1>2 DEF IsRequest, Idle, Reading, Granting, Linking, Offering, IsChange, IsReplacement
  <2>2. y = Raced(x) /\ y.pc = x.pc
    BY <2>1, RacedRequest, ZenonT(60)
  <2>3. x.pc \notin QueryPCs
    BY <1>2, Shape
  <2>4. Fine(Raced(x), v2, t, i)
    BY RacedFine, ZenonT(60)
  <2> QED
    BY <2>2, <2>3, <2>4 DEF Fine
<1> QED
  BY <1>1, <1>2
-----------------------------------------------------------------------------
(* The kinds of steps.                                                     *)

Shelved == <<branches, barbers, assignments, services, offers, eligible, wasEligible,
             hours, overrides, blocked, occupied, replaced>>

\* A request goes on, and nothing else happens.
LEMMA FineGoesOn ==
  ASSUME IInv, AInv, NEW r \in Slots, NEW y, reqs' = [reqs EXCEPT ![r] = y],
         Fine(y, View, There, Ids), UNCHANGED Shelved
  PROVE  AInv'
<1> USE DEF Shelved
<1>1. View' = View
  BY ZenonT(60) DEF View, Active, Exists, ActiveAssignedService, OverrideOn, IsOverride, BlockedOn, Offer
<1>2. There' = There /\ Ids' = Ids
  BY DEF There, Ids
<1>3. RowsFine'
  BY RowsAreFine DEF RowsFine
<1>4. OverridesFine'
  BY OverridesAreFine DEF OverridesFine, OverrideFine, IsOverride, OverrideOn
<1>5. ASSUME NEW q \in Slots PROVE Fine(reqs'[q], View', There', Ids')
  <2>1. reqs'[q] = IF q = r THEN y ELSE reqs[q]
    BY RequestsHold DEF RequestsOK
  <2>2. Fine(reqs[q], View, There, Ids)
    BY RequestsAreFine, ZenonT(60) DEF There
  <2> QED
    BY <1>1, <1>2, <2>1, <2>2
<1> QED
  BY <1>3, <1>4, <1>5, AllFine DEF There

\* Something is saved, and every request is raced or over.
LEMMA FineRaced ==
  ASSUME IInv, AInv, NEW r, Disturb \/ Commit(r), RowsFine', OverridesFine',
         There \subseteq There', Ids \subseteq Ids'
  PROVE  AInv'
<1>1. ASSUME NEW q \in Slots PROVE Fine(reqs'[q], View', There', Ids')
  <2>1. CASE reqs'[q] = Idle
    BY <2>1 DEF Fine, Idle, QueryPCs, ReplacePCs
  <2>2. CASE reqs'[q] = Raced(reqs[q])
    <3>1. Fine(reqs[q], View, There, Ids) /\ IsRequest(reqs[q])
      BY RequestsHold, RequestsAreFine, ZenonT(60) DEF There, RequestsOK, RequestOK
    <3>2. Fine(Raced(reqs[q]), View', There', Ids')
      BY <3>1, RacedFine
    <3> QED
      BY <2>2, <3>2
  <2> QED
    BY <2>1, <2>2, Races
<1> QED
  BY <1>1, AllFine DEF There

\* A period is removed.
LEMMA FineRemoved ==
  ASSUME IInv, AInv, NEW r, NEW p, Removed(r, p), RowsFine', UNCHANGED overrides, There' = There \ {p}
  PROVE  AInv'
<1>1. ASSUME NEW q \in Slots PROVE Fine(reqs'[q], View', There', Ids)
  <2>1. CASE q = r
    <3>1. reqs'[q] = Idle
      BY <2>1, ZenonT(60) DEF Removed
    <3> QED
      BY <3>1 DEF Fine, Idle, QueryPCs, ReplacePCs
  <2>2. CASE q # r
    <3>1. reqs'[q] = IF "lasting" \in DOMAIN reqs[q] THEN [reqs[q] EXCEPT !.raced = TRUE, !.lasting = @ \ {p}]
                     ELSE Raced(reqs[q])
      BY <2>2, ZenonT(60) DEF Removed
    <3>2. Fine(reqs[q], View, There, Ids) /\ IsRequest(reqs[q])
      BY RequestsHold, RequestsAreFine DEF There, RequestsOK, RequestOK
    <3>3. Fine(reqs'[q], View', There \ {p}, Ids)
      BY <3>1, <3>2, RemovedFine, ZenonT(60)
    <3> QED
      BY <3>3
  <2> QED
    BY <2>1, <2>2
<1>2. OverridesFine' /\ Ids' = Ids
  BY OverridesAreFine DEF OverridesFine, OverrideFine, IsOverride, OverrideOn, Ids
<1> QED
  BY <1>1, <1>2, AllFine DEF There

\* A request ends without effect.
LEMMA FineFinish ==
  ASSUME IInv, AInv, NEW r \in Slots, Finish(r), UNCHANGED Shelved
  PROVE  AInv'
<1>1. Fine(Idle, View, There, Ids)
  BY DEF Fine, Idle, QueryPCs, ReplacePCs
<1> QED
  BY <1>1, FineGoesOn, ZenonT(60) DEF Finish, Become
-----------------------------------------------------------------------------
(* Steps of the shop.                                                      *)

\* What is saved has its type.
LEMMA FineShopSave ==
  ASSUME IInv, AInv, ShopSave, UNCHANGED scheduleVars
  PROVE  AInv'
<1> USE DEF scheduleVars
<1>1. OverridesFine' /\ There' = There /\ Ids' = Ids
  BY OverridesAreFine DEF OverridesFine, OverrideFine, IsOverride, OverrideOn, There, Ids
<1>2. ASSUME RowsFine', NEW r, Disturb \/ Commit(r) PROVE AInv'
  BY <1>1, <1>2, FineRaced
<1>3. Followed \subseteq Barbers
  BY ShopAssumption DEF Followed
<1>4. ASSUME NEW branch \in Branches, SaveBranch(branch) PROVE AInv'
  <2>1. RowsFine'
    BY <1>4, RowsAreFine DEF SaveBranch, RowsFine
  <2> QED
    BY <1>2, <1>4, <2>1 DEF SaveBranch
<1>5. ASSUME NEW b \in Barbers, SaveBarber(b) PROVE AInv'
  <2>1. assignments' \subseteq Barbers \X Branches
    <3>1. ASSUME NEW given \in SUBSET Branches PROVE Reassigned(b, given) \subseteq Barbers \X Branches
      BY RowsAreFine DEF Reassigned, RowsFine
    <3>2. \/ assignments' = assignments
          \/ \E given \in SUBSET {branch \in Branches : branches[branch] # "none"} :
               assignments' = Reassigned(b, given)
      BY <1>5, ZenonT(60) DEF SaveBarber
    <3> QED
      BY <3>1, <3>2, RowsAreFine DEF RowsFine
  <2>2. RowsFine'
    BY <1>5, <2>1, RowsAreFine DEF SaveBarber, RowsFine
  <2> QED
    BY <1>2, <1>5, <2>2 DEF SaveBarber
<1>6. ASSUME NEW b \in Barbers, UnlinkIdentity(b) PROVE AInv'
  <2>1. RowsFine'
    BY <1>6, RowsAreFine DEF UnlinkIdentity, RowsFine
  <2> QED
    BY <1>2, <1>6, <2>1 DEF UnlinkIdentity
<1>7. ASSUME NEW i \in Identities, MembershipChanges(i) PROVE AInv'
  <2>1. eligible \subseteq Identities
    BY RowsHold, RowsAreFine DEF RowsFine, RowsOK
  <2>2. eligible' \subseteq Identities
    BY <1>7, <2>1 DEF MembershipChanges
  <2>3. RowsFine'
    BY <1>7, <2>2, RowsAreFine DEF MembershipChanges, RowsFine
  <2> QED
    BY <1>2, <1>7, <2>3 DEF MembershipChanges
<1>8. ASSUME NEW s \in Services, SaveService(s) PROVE AInv'
  <2>1. PICK active \in BOOLEAN, shape \in Shapes :
          services' = [services EXCEPT ![s] = [active |-> active, shape |-> shape]]
    BY <1>8, ZenonT(60) DEF SaveService
  <2>2. [active |-> active, shape |-> shape] \in Service
    BY DEF Service
  <2>3. services' \in [Services -> Service \cup {NoRow}]
    BY <2>1, <2>2, RowsAreFine DEF RowsFine
  <2>4. RowsFine'
    BY <1>8, <2>3, RowsAreFine DEF SaveService, RowsFine
  <2> QED
    BY <1>2, <1>8, <2>4 DEF SaveService
<1>9. ASSUME NEW b, NEW s, Unassign(b, s) PROVE AInv'
  <2>1. RowsFine'
    BY <1>9, RowsAreFine DEF Unassign, RowsFine
  <2> QED
    BY <1>2, <1>9, <2>1 DEF Unassign
<1> QED
  BY <1>3, <1>4, <1>5, <1>6, <1>7, <1>8, <1>9 DEF ShopSave

\* Requests of the shop carry nothing that matters here.
LEMMA FineShopStep ==
  ASSUME IInv, AInv, NEW r \in Slots, ShopStep(r), UNCHANGED scheduleVars
  PROVE  AInv'
<1> USE DEF scheduleVars, shopVars
<1> DEFINE x == reqs[r]
<1>1. OverridesFine' /\ There' = There /\ Ids' = Ids
  BY OverridesAreFine DEF OverridesFine, OverrideFine, IsOverride, OverrideOn, There, Ids
<1>2. ASSUME RowsFine', Commit(r) PROVE AInv'
  BY <1>1, <1>2, FineRaced
<1>3. ASSUME NEW y, y.pc \notin QueryPCs \cup {"authorize", "write", "delete"} \cup ReplacePCs
      PROVE  Fine(y, View, There, Ids)
  BY <1>3, ZenonT(60) DEF Fine
<1>4. ASSUME NEW y, Become(r, y), y.pc \in ReadPCs \cup {"access", "ensure", "link", "exists", "assign"},
             UNCHANGED Shelved
      PROVE  AInv'
  <2>1. y.pc \notin QueryPCs \cup {"authorize", "write", "delete"} \cup ReplacePCs
    BY <1>4 DEF QueryPCs, ReplacePCs, ReadPCs
  <2>2. Fine(y, View, There, Ids)
    BY <1>3, <2>1
  <2> QED
    BY <1>4, <2>2, FineGoesOn, ZenonT(60) DEF Become
<1>5. ASSUME NEW c \in ReadPCs \cup {"access", "ensure", "link", "exists", "assign"}, Goto(r, c),
             x \in Reading \cup Linking \cup Offering, UNCHANGED Shelved
      PROVE  AInv'
  <2> DEFINE y == [x EXCEPT !.pc = c]
  <2>1. y.pc = c
    BY <1>5 DEF Reading, Linking, Offering
  <2>2. Become(r, y)
    BY <1>5 DEF Goto, Become
  <2> HIDE DEF y
  <2> QED
    BY <1>4, <1>5, <2>1, <2>2
<1>6. IsRequest(x)
  BY RequestsHold DEF RequestsOK, RequestOK
<1>7. ASSUME BookingAccess(r) PROVE AInv'
  <2>1. PICK branch \in Branches, b \in Barbers :
          Become(r, [pc |-> "branch", branch |-> branch, barber |-> b, raced |-> FALSE])
    BY <1>7, ZenonT(60) DEF BookingAccess
  <2>2. [pc |-> "branch", branch |-> branch, barber |-> b, raced |-> FALSE].pc \in ReadPCs
    BY DEF ReadPCs
  <2>3. UNCHANGED Shelved
    BY <1>7 DEF BookingAccess, Shelved
  <2> QED
    BY <1>4, <2>1, <2>2, <2>3
<1>8. ASSUME NEW g, Answer(r, g), UNCHANGED Shelved PROVE AInv'
  <2>1. [pc |-> "access", branch |-> x.branch, barber |-> x.barber, raced |-> x.raced, granted |-> g].pc = "access"
    OBVIOUS
  <2> QED
    BY <1>4, <1>8, <2>1 DEF Answer
<1>9. ASSUME ReadBranch(r) \/ ReadBarber(r) \/ ReadAssigned(r) PROVE AInv'
  <2>1. x.pc \in ReadPCs /\ UNCHANGED Shelved
    BY <1>9, ZenonT(60) DEF ReadBranch, ReadBarber, ReadAssigned, In, ReadPCs, Shelved
  <2>2. x \in Reading
    BY <1>6, <2>1, Shape
  <2>3. Goto(r, "barber") \/ Goto(r, "assigned") \/ \E g : Answer(r, g)
    BY <1>9, ZenonT(60) DEF ReadBranch, ReadBarber, ReadAssigned
  <2>4. "barber" \in ReadPCs /\ "assigned" \in ReadPCs
    BY DEF ReadPCs
  <2> QED
    BY <1>5, <1>8, <2>1, <2>2, <2>3, <2>4
<1>10. ASSUME LinkIdentity(r) PROVE AInv'
  <2>1. PICK b \in Barbers, i \in Identities : Become(r, [pc |-> "ensure", barber |-> b, identity |-> i])
    BY <1>10, ZenonT(60) DEF LinkIdentity
  <2>2. [pc |-> "ensure", barber |-> b, identity |-> i].pc = "ensure"
    OBVIOUS
  <2>3. UNCHANGED Shelved
    BY <1>10 DEF LinkIdentity, Shelved
  <2> QED
    BY <1>4, <2>1, <2>2, <2>3
<1>11. ASSUME EnsureBarberMembership(r) \/ EnsureBarber(r) PROVE AInv'
  <2>1. x.pc \in {"ensure", "exists"} /\ UNCHANGED Shelved
    BY <1>11, ZenonT(60) DEF EnsureBarberMembership, EnsureBarber, In, Shelved
  <2>2. x \in Linking \cup Offering
    BY <1>6, <2>1, Shape, ZenonT(60)
  <2>3. Goto(r, "link") \/ Goto(r, "assign") \/ Finish(r)
    BY <1>11, ZenonT(60) DEF EnsureBarberMembership, EnsureBarber
  <2> QED
    BY <1>5, <2>1, <2>2, <2>3, FineFinish, ZenonT(60)
<1>12. ASSUME CommitLink(r) PROVE AInv'
  <2>1. RowsFine'
    BY <1>12, RowsAreFine DEF CommitLink, RowsFine
  <2> QED
    BY <1>2, <1>12, <2>1 DEF CommitLink
<1>13. ASSUME Assign(r) PROVE AInv'
  <2>1. PICK b \in Barbers, s \in Services : Become(r, [pc |-> "exists", barber |-> b, service |-> s])
    BY <1>13, ZenonT(60) DEF Assign
  <2>2. [pc |-> "exists", barber |-> b, service |-> s].pc = "exists"
    OBVIOUS
  <2>3. UNCHANGED Shelved
    BY <1>13 DEF Assign, Shelved
  <2> QED
    BY <1>4, <2>1, <2>2, <2>3
<1>14. ASSUME CommitAssign(r) PROVE AInv'
  <2>1. x \in Offering
    BY <1>6, <1>14, Shape, ZenonT(60) DEF CommitAssign, In
  <2>2. <<x.barber, x.service>> \in Barbers \X Services
    BY <2>1 DEF Offering
  <2>3. offers' \subseteq Barbers \X Services
    BY <1>14, <2>2, RowsAreFine, ZenonT(60) DEF CommitAssign, RowsFine
  <2>4. RowsFine'
    BY <1>14, <2>3, RowsAreFine, ZenonT(60) DEF CommitAssign, RowsFine
  <2> QED
    BY <1>2, <1>14, <2>4, ZenonT(60) DEF CommitAssign
<1> QED
  BY <1>7, <1>9, <1>10, <1>11, <1>12, <1>13, <1>14 DEF ShopStep
-----------------------------------------------------------------------------
(* Changes of the schedule.                                                *)

\* A change goes on; a replacement is to delete the hours there are.
LEMMA FineChange ==
  ASSUME IInv, AInv, NEW r \in Slots, ScheduleRequested(r) \/ Authorize(r) \/ DeleteHours(r) \/ LockHours(r)
  PROVE  AInv'
<1> USE DEF scheduleVars, shopVars
<1> DEFINE x == reqs[r]
           People == Identities \cup {Nobody}
<1>1. IsRequest(x) /\ Fine(x, View, There, Ids)
  BY RequestsHold, RequestsAreFine, ZenonT(60) DEF RequestsOK, RequestOK, There
<1>2. UNCHANGED Shelved
  BY ZenonT(60) DEF ScheduleRequested, Authorize, DeleteHours, LockHours, Shelved
<1>3. ASSUME NEW y, reqs' = [reqs EXCEPT ![r] = y], y.actor \in People,
             \/ y.pc \in {"authorize", "write", "delete"} /\ y.op \in {"hours", "other"}
             \/ y.pc \in ReplacePCs /\ y.op = "hours" /\ y.gone \subseteq Intervals
      PROVE  AInv'
  <2>1. Fine(y, View, There, Ids)
    BY <1>3, ZenonT(60) DEF Fine, QueryPCs, ReplacePCs
  <2> QED
    BY <1>2, <1>3, <2>1, FineGoesOn, ZenonT(60)
<1>4. CASE ScheduleRequested(r)
  <2>1. PICK actor \in People, op \in {"hours", "other"} :
          Become(r, [pc |-> "authorize", actor |-> actor, op |-> op, raced |-> FALSE])
    BY <1>4, ZenonT(60) DEF ScheduleRequested
  <2> QED
    BY <1>3, <2>1, ZenonT(60) DEF Become
<1>5. CASE Authorize(r)
  <2>1. IsChange(x) /\ x.actor \in People /\ x.op \in {"hours", "other"}
    BY <1>1, <1>5, Shape, ZenonT(60) DEF Authorize, In, Fine
  <2>2. ASSUME NEW c \in {"write", "delete"}, Goto(r, c) PROVE AInv'
    <3> DEFINE y == [x EXCEPT !.pc = c]
    <3>1. y.pc = c /\ y.actor = x.actor /\ y.op = x.op
      BY <2>1 DEF IsChange
    <3>2. reqs' = [reqs EXCEPT ![r] = y]
      BY <2>2 DEF Goto
    <3> HIDE DEF y
    <3> QED
      BY <1>3, <2>1, <3>1, <3>2, ZenonT(60)
  <2> QED
    BY <1>2, <1>5, <2>2, FineFinish, ZenonT(60) DEF Authorize
<1>6. CASE DeleteHours(r)
  <2>1. x.actor \in People
    BY <1>1, <1>6, ZenonT(60) DEF DeleteHours, In, Fine
  <2> DEFINE y == [pc |-> "lock", actor |-> x.actor, op |-> "hours", gone |-> hours, passed |-> FALSE,
                   raced |-> x.raced]
  <2>2. reqs' = [reqs EXCEPT ![r] = y]
    BY <1>6 DEF DeleteHours, Become
  <2>3. y.pc \in ReplacePCs /\ y.actor \in People /\ y.op = "hours" /\ y.gone \subseteq Intervals
    BY <2>1, RowsAreFine DEF RowsFine, ReplacePCs
  <2> HIDE DEF y
  <2> QED
    BY <1>3, <2>2, <2>3, ZenonT(60)
<1>7. CASE LockHours(r)
  <2>1. x.pc \in ReplacePCs
    BY <1>7 DEF LockHours, In, ReplacePCs
  <2>2. IsReplacement(x) /\ x.actor \in People /\ x.op = "hours" /\ x.gone \subseteq Intervals
    BY <1>1, <2>1, Shape, ZenonT(60) DEF Fine
  <2> DEFINE y == [x EXCEPT !.pc = "insert"]
  <2>3. y.pc \in ReplacePCs /\ y.actor = x.actor /\ y.op = x.op /\ y.gone = x.gone
    BY <2>2 DEF IsReplacement, ReplacePCs
  <2>4. reqs' = [reqs EXCEPT ![r] = y]
    BY <1>7 DEF LockHours, Goto
  <2> HIDE DEF y
  <2> QED
    BY <1>3, <2>2, <2>3, <2>4, ZenonT(60)
<1> QED
  BY <1>4, <1>5, <1>6, <1>7

\* Overrides are one for a date, with intervals that do not overlap.
LEMMA FineSaveOverride ==
  ASSUME IInv, AInv, NEW r \in Slots, SaveOverride(r)
  PROVE  AInv'
<1> USE DEF shopVars
<1>1. PICK id \in OverrideIDs, in \in Override :
        /\ ValidOverride(in)
        /\ overrides[id] # Gone
        /\ OverrideOn(in.date) \subseteq {id}
        /\ Excluded(in.intervals)
        /\ overrides' = [overrides EXCEPT ![id] = in]
  BY ZenonT(60) DEF SaveOverride
<1>2. in # NoRow /\ in # Gone
  BY DEF Override, NoRow, Gone
<1>3. overrides' \in [OverrideIDs -> Override \cup {NoRow, Gone}]
  BY <1>1, OverridesAreFine DEF OverridesFine
<1>4. \A j \in OverrideIDs : overrides'[j] = IF j = id THEN in ELSE overrides[j]
  BY <1>1, OverridesAreFine DEF OverridesFine
<1>5. in.kind \in Closed <=> in.intervals = {}
  BY <1>1 DEF ValidOverride, Closed, Override
<1>6. Ids \subseteq Ids'
  BY <1>2, <1>4 DEF Ids
<1>7. ASSUME NEW j \in OverrideIDs, IsOverride(j)' PROVE OverrideFine(j)'
  <2>1. CASE j = id
    <3>1. overrides'[j] = in
      BY <1>4, <2>1
    <3>2. \A k \in OverrideIDs \ {id} : ~(IsOverride(k)' /\ overrides'[k].date = in.date)
      BY <1>1, <1>4 DEF OverrideOn, IsOverride
    <3>3. OverrideOn(overrides[j].date)' = {j}
      BY <1>2, <2>1, <3>1, <3>2 DEF OverrideOn, IsOverride
    <3> QED
      BY <1>1, <1>5, <3>1, <3>3 DEF Excluded, OverrideFine
  <2>2. CASE j # id
    <3>1. overrides'[j] = overrides[j] /\ IsOverride(j)
      BY <1>4, <1>7, <2>2 DEF IsOverride
    <3>2. OverrideFine(j)
      BY <3>1, OverridesAreFine DEF OverridesFine
    <3>3. in.date # overrides[j].date
      BY <1>1, <2>2, <3>2 DEF OverrideFine
    <3>4. OverrideOn(overrides[j].date)' = {j}
      <4>1. \A k \in OverrideIDs \ {j} : ~(IsOverride(k)' /\ overrides'[k].date = overrides[j].date)
        BY <1>4, <3>2, <3>3 DEF OverrideOn, IsOverride, OverrideFine
      <4> QED
        BY <1>7, <3>1, <4>1 DEF OverrideOn
    <3> QED
      BY <3>1, <3>2, <3>4 DEF OverrideFine
  <2> QED
    BY <2>1, <2>2
<1>8. OverridesFine'
  BY <1>3, <1>7 DEF OverridesFine
<1>9. RowsFine' /\ There' = There /\ Commit(r)
  BY RowsAreFine DEF SaveOverride, RowsFine, There
<1> QED
  BY <1>6, <1>8, <1>9, FineRaced

\* The other changes.
LEMMA FineWrite ==
  ASSUME IInv, AInv, NEW r \in Slots, DeleteOverride(r) \/ SaveBlock(r) \/ DeleteBlock(r)
  PROVE  AInv'
<1> USE DEF shopVars
<1>1. CASE DeleteOverride(r)
  <2>1. PICK id \in OverrideIDs : overrides' = [overrides EXCEPT ![id] = Gone]
    BY <1>1, ZenonT(60) DEF DeleteOverride
  <2>2. overrides' \in [OverrideIDs -> Override \cup {NoRow, Gone}]
    BY <2>1, OverridesAreFine DEF OverridesFine
  <2>3. \A j \in OverrideIDs : overrides'[j] = IF j = id THEN Gone ELSE overrides[j]
    BY <2>1, OverridesAreFine DEF OverridesFine
  <2>4. Gone # NoRow
    BY DEF Gone, NoRow
  <2>5. Ids \subseteq Ids'
    BY <2>3, <2>4 DEF Ids
  <2>6. ASSUME NEW j \in OverrideIDs, IsOverride(j)' PROVE OverrideFine(j)'
    <3>1. overrides'[j] = overrides[j] /\ IsOverride(j)
      BY <2>3, <2>6 DEF IsOverride
    <3>2. OverrideFine(j)
      BY <3>1, OverridesAreFine DEF OverridesFine
    <3>3. OverrideOn(overrides[j].date)' = {j}
      <4>1. \A k \in OverrideIDs \ {j} : ~(IsOverride(k)' /\ overrides'[k].date = overrides[j].date)
        BY <2>3, <3>2 DEF OverrideOn, IsOverride, OverrideFine
      <4> QED
        BY <2>6, <3>1, <4>1 DEF OverrideOn
    <3> QED
      BY <3>1, <3>2, <3>3 DEF OverrideFine
  <2>7. OverridesFine'
    BY <2>2, <2>6 DEF OverridesFine
  <2>8. RowsFine' /\ There' = There /\ Commit(r)
    BY <1>1, RowsAreFine DEF DeleteOverride, RowsFine, There
  <2> QED
    BY <2>5, <2>7, <2>8, FineRaced
<1>2. CASE SaveBlock(r)
  <2>1. RowsFine' /\ There \subseteq There' /\ Commit(r)
    BY <1>2, RowsAreFine DEF SaveBlock, RowsFine, There
  <2>2. OverridesFine' /\ Ids' = Ids
    BY <1>2, OverridesAreFine, ZenonT(60) DEF SaveBlock, OverridesFine, OverrideFine, IsOverride, OverrideOn, Ids
  <2> QED
    BY <2>1, <2>2, FineRaced
<1>3. CASE DeleteBlock(r)
  <2>1. PICK p \in blocked : blocked' = blocked \ {p} /\ Removed(r, p)
    BY <1>3, ZenonT(60) DEF DeleteBlock
  <2>2. p \notin occupied
    BY SchedulingAssumption, RowsAreFine DEF RowsFine
  <2>3. RowsFine' /\ UNCHANGED overrides /\ There' = There \ {p}
    BY <1>3, <2>1, <2>2, RowsAreFine DEF DeleteBlock, RowsFine, There
  <2> QED
    BY <2>1, <2>3, FineRemoved
<1> QED
  BY <1>1, <1>2, <1>3

\* Appointments come and go.
LEMMA FineAppointments ==
  ASSUME IInv, AInv, NEW p \in Appointments, Book(p) \/ Cancel(p)
  PROVE  AInv'
<1> USE DEF shopVars
<1>1. CASE Book(p)
  <2>1. RowsFine' /\ There \subseteq There' /\ Disturb
    BY <1>1, RowsAreFine DEF Book, RowsFine, There
  <2>2. OverridesFine' /\ Ids' = Ids
    BY <1>1, OverridesAreFine DEF Book, OverridesFine, OverrideFine, IsOverride, OverrideOn, Ids
  <2> QED
    BY <2>1, <2>2, FineRaced
<1>2. CASE Cancel(p)
  <2>1. p \notin blocked
    BY SchedulingAssumption, RowsAreFine DEF RowsFine
  <2>2. RowsFine' /\ UNCHANGED overrides /\ There' = There \ {p} /\ Removed(Nobody, p)
    BY <1>2, <2>1, RowsAreFine DEF Cancel, RowsFine, There
  <2> QED
    BY <2>2, FineRemoved
<1> QED
  BY <1>1, <1>2
=============================================================================
