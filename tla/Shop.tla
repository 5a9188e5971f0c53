-------------------------------- MODULE Shop ---------------------------------
(***************************************************************************)
(* What one tenant offers: branches, barbers and their assignments in      *)
(* barber-service, services and who performs them in catalog-service.      *)
(*                                                                         *)
(* A save is one transaction.  An operation that asks another service      *)
(* first, or that reads in several transactions, takes several steps, and  *)
(* saves commit between them.  A request that is refused changes nothing   *)
(* and is left out, as is a read that has no effect.                       *)
(***************************************************************************)
EXTENDS Integers, FiniteSets

CONSTANTS
  Slots,       \* requests in flight
  Branches, Barbers, Services,
  Chair,       \* the barber whose schedule is followed
  Sitter,      \* the identity that barber is linked to
  Identities,  \* staff with BARBER memberships, in the end or at first
  Shapes,      \* durations and buffers a service is saved with
  Loads,       \* what a behaviour is about: "access", "links" or "schedule"
  MaxRequests, \* per load, bound on requests that take several steps
  MaxSaves     \* per load, bound on saves

NoRow == [row |-> "none"]
Nobody == "nobody"

ASSUME ShopAssumption ==
  /\ Nobody \notin Identities
  /\ Chair \in Barbers /\ Sitter \in Identities
  /\ Shapes \subseteq [duration : Nat, before : Nat, after : Nat]
  /\ Loads \subseteq {"access", "links", "schedule"}
  /\ \A about \in Loads : MaxRequests[about] \in Nat /\ MaxSaves[about] \in Nat

VARIABLES
  branches,     \* per branch: "none", or whether it is "active" or "inactive"
  barbers,
  assignments,  \* the active rows of barber_branch_assignments
  services,
  offers,       \* public.barber_services
  eligible,     \* identities with an active BARBER membership in auth-service
  wasEligible,  \* identities that ever had one (ghost)
  reqs, requests, saves, load

shopVars == <<branches, barbers, assignments, services, offers, eligible, wasEligible>>

Barber == [active : BOOLEAN, identity : Identities \cup {Nobody}]
Service == [active : BOOLEAN, shape : Shapes]

Idle == [pc |-> "idle"]
ShopRequest ==
       [pc : {"branch", "barber", "assigned"}, branch : Branches, barber : Barbers, raced : BOOLEAN]
  \cup [pc : {"access"}, branch : Branches, barber : Barbers, raced : BOOLEAN, granted : BOOLEAN]
  \cup [pc : {"ensure", "link"}, barber : Barbers, identity : Identities]
  \cup [pc : {"exists", "assign"}, barber : Barbers, service : Services]

In(r, pc) == reqs[r].pc = pc
Become(r, request) == reqs' = [reqs EXCEPT ![r] = request]
Goto(r, pc) == reqs' = [reqs EXCEPT ![r].pc = pc]
Finish(r) == Become(r, Idle)

Start(r, about) ==
  /\ In(r, "idle")
  /\ load = about
  /\ requests < MaxRequests[load]
  /\ requests' = requests + 1

\* A transaction commits; requests that read remember that they were raced (ghost).
Raced(request) == IF "raced" \in DOMAIN request THEN [request EXCEPT !.raced = TRUE] ELSE request
Disturb == reqs' = [r \in Slots |-> Raced(reqs[r])]
Commit(r) == reqs' = [q \in Slots |-> IF q = r THEN Idle ELSE Raced(reqs[q])]

Save(about) ==
  /\ load \in about
  /\ saves < MaxSaves[load]
  /\ saves' = saves + 1
  /\ UNCHANGED <<requests, load>>

Exists(b) == barbers[b] # NoRow
Active(b) == Exists(b) /\ barbers[b].active
IdentityOf(b) == barbers[b].identity

-----------------------------------------------------------------------------
(* barber-service: saves.                                                  *)

\* repository.SaveBranch: a new row, or new values for the one there is.
SaveBranch(branch) ==
  /\ Save({"access"})
  /\ \E status \in {"active", "inactive"} : branches' = [branches EXCEPT ![branch] = status]
  /\ Disturb
  /\ UNCHANGED <<barbers, assignments, services, offers, eligible, wasEligible>>

\* The row: the link to an identity is not part of the input.
SavedBarber(b, active) ==
  [active |-> active, identity |-> IF Exists(b) THEN IdentityOf(b) ELSE Nobody]

\* The assignments: all of the barber's go, and the given ones come, or come back.
Reassigned(b, given) == {a \in assignments : a[1] # b} \cup ({b} \X given)

\* repository.SaveBarber: without branch ids the assignments stay; an unknown one rolls
\* everything back.
SaveBarber(b) ==
  /\ Save({"access", "schedule"})
  /\ \E active \in BOOLEAN : barbers' = [barbers EXCEPT ![b] = SavedBarber(b, active)]
  /\ \/ assignments' = assignments
     \/ \E given \in SUBSET {branch \in Branches : branches[branch] # "none"} :
          assignments' = Reassigned(b, given)
  /\ Disturb
  /\ UNCHANGED <<branches, services, offers, eligible, wasEligible>>

-----------------------------------------------------------------------------
(* barber-service: booking access, which reads in three transactions.      *)

BookingAccess(r) ==
  /\ Start(r, "access")
  /\ \E branch \in Branches, b \in Barbers :
       Become(r, [pc |-> "branch", branch |-> branch, barber |-> b, raced |-> FALSE])
  /\ UNCHANGED <<shopVars, saves, load>>

Answer(r, granted) ==
  Become(r, [pc |-> "access", branch |-> reqs[r].branch, barber |-> reqs[r].barber,
             raced |-> reqs[r].raced, granted |-> granted])

\* Mistake: a branch that is closed for good is still booked.
ReadAnyBranch(r) ==
  /\ In(r, "branch")
  /\ IF branches[reqs[r].branch] # "none" THEN Goto(r, "barber") ELSE Answer(r, FALSE)
  /\ UNCHANGED <<shopVars, requests, saves, load>>

ReadBranch(r) ==
  /\ In(r, "branch")
  /\ IF branches[reqs[r].branch] = "active" THEN Goto(r, "barber") ELSE Answer(r, FALSE)
  /\ UNCHANGED <<shopVars, requests, saves, load>>

ReadBarber(r) ==
  /\ In(r, "barber")
  /\ IF Active(reqs[r].barber) THEN Goto(r, "assigned") ELSE Answer(r, FALSE)
  /\ UNCHANGED <<shopVars, requests, saves, load>>

\* repository.Assigned
ReadAssigned(r) ==
  /\ In(r, "assigned")
  /\ Answer(r, <<reqs[r].barber, reqs[r].branch>> \in assignments)
  /\ UNCHANGED <<shopVars, requests, saves, load>>

-----------------------------------------------------------------------------
(* barber-service: the link between a barber and a login identity.         *)

\* Mistake: eligibility is left to the caller.
LinkUnchecked(r) ==
  /\ Start(r, "links")
  /\ \E b \in Barbers, i \in Identities : Become(r, [pc |-> "link", barber |-> b, identity |-> i])
  /\ UNCHANGED <<shopVars, saves, load>>

LinkIdentity(r) ==
  /\ Start(r, "links")
  /\ \E b \in Barbers, i \in Identities : Become(r, [pc |-> "ensure", barber |-> b, identity |-> i])
  /\ UNCHANGED <<shopVars, saves, load>>

\* auth-service's BarberEligible.
BarberEligible(i) == i \in eligible

EnsureBarberMembership(r) ==
  /\ In(r, "ensure")
  /\ IF BarberEligible(reqs[r].identity) THEN Goto(r, "link") ELSE Finish(r)
  /\ UNCHANGED <<shopVars, requests, saves, load>>

\* The row is locked and has no link; barbers_tenant_identity_id_unique has the last word.
MayLink(b, i) ==
  /\ Exists(b)
  /\ IdentityOf(b) = Nobody
  /\ \A other \in Barbers \ {b} : Exists(other) => IdentityOf(other) # i

CommitLink(r) ==
  /\ In(r, "link")
  /\ LET b == reqs[r].barber
         i == reqs[r].identity
     IN  barbers' = IF MayLink(b, i) THEN [barbers EXCEPT ![b].identity = i] ELSE barbers
  /\ Commit(r)
  /\ UNCHANGED <<branches, assignments, services, offers, eligible, wasEligible, requests, saves, load>>

UnlinkIdentity(b) ==
  /\ Save({"links", "schedule"})
  /\ Exists(b)
  /\ barbers' = [barbers EXCEPT ![b].identity = Nobody]
  /\ Disturb
  /\ UNCHANGED <<branches, assignments, services, offers, eligible, wasEligible>>

\* auth-service changes a membership's role or status.
MembershipChanges(i) ==
  /\ Save({"links"})
  /\ eligible' = IF i \in eligible THEN eligible \ {i} ELSE eligible \cup {i}
  /\ wasEligible' = wasEligible \cup eligible'
  /\ Disturb
  /\ UNCHANGED <<branches, barbers, assignments, services, offers>>

-----------------------------------------------------------------------------
(* catalog-service.                                                        *)

\* repository.Save: the service and its price, in one transaction.
SaveService(s) ==
  /\ Save({"access", "schedule"})
  /\ \E active \in BOOLEAN, shape \in Shapes :
       services' = [services EXCEPT ![s] = [active |-> active, shape |-> shape]]
  /\ Disturb
  /\ UNCHANGED <<branches, barbers, assignments, offers, eligible, wasEligible>>

Assign(r) ==
  /\ Start(r, "access")
  /\ \E b \in Barbers, s \in Services : Become(r, [pc |-> "exists", barber |-> b, service |-> s])
  /\ UNCHANGED <<shopVars, saves, load>>

\* ensureBarber: barber-service is asked.
EnsureBarber(r) ==
  /\ In(r, "exists")
  /\ IF Exists(reqs[r].barber) THEN Goto(r, "assign") ELSE Finish(r)
  /\ UNCHANGED <<shopVars, requests, saves, load>>

\* repository.Assign
CommitAssign(r) ==
  /\ In(r, "assign")
  /\ offers' = IF services[reqs[r].service] # NoRow
               THEN offers \cup {<<reqs[r].barber, reqs[r].service>>} ELSE offers
  /\ Commit(r)
  /\ UNCHANGED <<branches, barbers, assignments, services, eligible, wasEligible, requests, saves, load>>

Unassign(b, s) ==
  /\ Save({"access", "schedule"})
  /\ Exists(b)
  /\ <<b, s>> \in offers
  /\ offers' = offers \ {<<b, s>>}
  /\ Disturb
  /\ UNCHANGED <<branches, barbers, assignments, services, eligible, wasEligible>>

\* repository.ActiveAssignedService
ActiveAssignedService(b, s) == <<b, s>> \in offers /\ services[s] # NoRow /\ services[s].active

-----------------------------------------------------------------------------
\* Bookings are asked about a shop that is being set up; links and schedules belong to
\* barbers who are there, and assigned to a service.
ShopInit ==
  /\ load \in Loads
  /\ branches = [branch \in Branches |-> "none"]
  /\ barbers = [b \in Barbers |->
                  IF load = "access" THEN NoRow
                  ELSE [active |-> TRUE, identity |-> IF load = "schedule" /\ b = Chair THEN Sitter ELSE Nobody]]
  /\ assignments = {}
  /\ services \in IF load = "schedule" THEN [Services -> [active : {TRUE}, shape : Shapes]]
                  ELSE {[s \in Services |-> NoRow]}
  /\ offers = IF load = "schedule" THEN Barbers \X Services ELSE {}
  /\ eligible = IF load = "schedule" THEN {Sitter} ELSE {}
  /\ wasEligible = eligible
  /\ reqs = [r \in Slots |-> Idle]
  /\ requests = 0
  /\ saves = 0

Followed == IF load = "schedule" THEN {Chair} ELSE Barbers

ShopSave ==
  \/ \E branch \in Branches : SaveBranch(branch)
  \/ \E b \in Followed : SaveBarber(b) \/ UnlinkIdentity(b)
  \/ \E i \in Identities : MembershipChanges(i)
  \/ \E s \in Services : SaveService(s) \/ \E b \in Followed : Unassign(b, s)

ShopStep(r) ==
  \/ BookingAccess(r) \/ ReadBranch(r) \/ ReadBarber(r) \/ ReadAssigned(r)
  \/ LinkIdentity(r) \/ EnsureBarberMembership(r) \/ CommitLink(r)
  \/ Assign(r) \/ EnsureBarber(r) \/ CommitAssign(r)
=============================================================================
