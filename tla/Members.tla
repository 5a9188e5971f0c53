------------------------------- MODULE Members -------------------------------
(***************************************************************************)
(* The memberships of one tenant in auth-service, and the gateway's member *)
(* routes in front of them.                                                *)
(*                                                                         *)
(* A request goes through the closure of its route in the gateway, which   *)
(* puts the id of the URL into a path that all requests of the route       *)
(* share, through the session and role checks of auth-service, a read of   *)
(* its target and an UPDATE in a transaction of its own, with a trigger.   *)
(***************************************************************************)
EXTENDS Naturals, FiniteSets

CONSTANTS
  Slots,        \* requests in flight
  Identities,
  Owners,       \* the identities that are seeded as OWNERs
  Holder,       \* the identity whose credential is followed
  MemberRoutes, \* the routes in use, of "role", "activate" and "deactivate"
  Realms,       \* what a behaviour is about: "members", "staff" or "customer"
  MaxRequests   \* bound on requests

StaffRoles == {"MANAGER", "BARBER", "RECEPTIONIST"}
NoRow == [row |-> "none"]
Template == "/:id/"
Serials == 1..MaxRequests

ASSUME MembersAssumption ==
  /\ Owners \subseteq Identities
  /\ Owners # {}
  /\ Template \notin Identities
  /\ Holder \in Identities \ Owners
  /\ MemberRoutes \subseteq {"role", "activate", "deactivate"}
  /\ Realms \subseteq {"members", "staff", "customer"}
  /\ MaxRequests \in Nat

VARIABLES
  members,  \* public.tenant_memberships
  paths,    \* per route, the path its closure holds in the gateway
  asked,    \* per route, the identities its requests have named (ghost)
  reqs,
  serial,   \* requests so far; a request is known by its number
  realm

memberVars == <<members, paths, asked>>

Member == [role : StaffRoles \cup {"OWNER"}, status : {"active", "inactive"}]
Idle == [pc |-> "idle"]
MemberRequest ==
       [pc : {"write", "forward"}, route : MemberRoutes, actor : Identities, named : Identities,
        seen : Identities \cup {Template}]
  \cup [pc : {"authenticate", "check", "update", "commit"}, route : MemberRoutes, actor : Identities,
        named : Identities, target : Identities]

In(r, pc) == reqs[r].pc = pc
Become(r, request) == reqs' = [reqs EXCEPT ![r] = request]
Goto(r, pc) == reqs' = [reqs EXCEPT ![r].pc = pc]
Finish(r) == Become(r, Idle)

\* A request arrives; its number is serial'.
Start(r, realms) ==
  /\ In(r, "idle")
  /\ realm \in realms
  /\ serial < MaxRequests
  /\ serial' = serial + 1

\* A row of the table, for an identity that is a member with that status.
HasStatus(i, status) == members[i] # NoRow /\ members[i].status = status
IsActive(i) == HasStatus(i, "active")
IsOwner(i) == IsActive(i) /\ members[i].role = "OWNER"

-----------------------------------------------------------------------------
(* The gateway: registerAuthRoutes makes one closure per route.            *)

\* auth(path): the variable that requests of this route read and write.
PathOf(route) == route

\* The path is read, to have its ":id" replaced.
ReadPath(r) ==
  /\ Start(r, {"members", "staff"})
  /\ \E route \in MemberRoutes, actor \in Identities, named \in Identities :
       /\ realm = "staff" => actor \in Owners /\ named = Holder
       /\ asked' = [asked EXCEPT ![route] = @ \cup {named}]
       /\ Become(r, [pc |-> "write", route |-> route, actor |-> actor, named |-> named,
                     seen |-> paths[PathOf(route)]])
  /\ UNCHANGED <<members, paths, realm>>

\* ReplaceAll leaves a path without ":id" as it is.
WritePath(r) ==
  /\ In(r, "write")
  /\ paths' = [paths EXCEPT ![PathOf(reqs[r].route)] =
                 IF reqs[r].seen = Template THEN reqs[r].named ELSE reqs[r].seen]
  /\ Goto(r, "forward")
  /\ UNCHANGED <<members, asked, serial, realm>>

\* The upstream URL is put together from the path as it is now.
Forward(r) ==
  /\ In(r, "forward")
  /\ Become(r, [pc |-> "authenticate", route |-> reqs[r].route, actor |-> reqs[r].actor,
                named |-> reqs[r].named, target |-> paths[PathOf(reqs[r].route)]])
  /\ UNCHANGED <<memberVars, serial, realm>>

-----------------------------------------------------------------------------
(* auth-service.                                                           *)

\* repository.Session: the principal of a session is the member as it is now.
Session(i) == IF IsActive(i) THEN members[i] ELSE NoRow

RequireRoles(principal, role) == principal # NoRow /\ principal.role = role

\* Authenticate, RequireCurrentPassword and RequireRoles(OWNER), before every handler.
Authenticate(r) ==
  /\ In(r, "authenticate")
  /\ IF RequireRoles(Session(reqs[r].actor), "OWNER") THEN Goto(r, "check") ELSE Finish(r)
  /\ UNCHANGED <<memberVars, serial, realm>>

\* repository.Member
FindMember(i) == members[i]

\* Mistake: an OWNER may be the target, and the trigger is all that is left.
StatusOfAnyone(actor, target) == actor # target /\ FindMember(target) # NoRow

\* Service.SetMemberStatus and Service.ChangeMemberRole, up to the repository's transaction.
MayChangeStatus(actor, target) ==
  actor # target /\ FindMember(target) # NoRow /\ FindMember(target).role # "OWNER"
MayChangeRole(actor, target) ==
  actor # target /\ FindMember(target) # NoRow /\ FindMember(target).role # "OWNER"

\* The handlers setMemberStatus and changeMemberRole.
StatusRequest(r) ==
  /\ In(r, "check")
  /\ reqs[r].route # "role"
  /\ IF MayChangeStatus(reqs[r].actor, reqs[r].target) THEN Goto(r, "update") ELSE Finish(r)
  /\ UNCHANGED <<memberVars, serial, realm>>

RoleRequest(r) ==
  /\ In(r, "check")
  /\ reqs[r].route = "role"
  /\ IF MayChangeRole(reqs[r].actor, reqs[r].target) THEN Goto(r, "update") ELSE Finish(r)
  /\ UNCHANGED <<memberVars, serial, realm>>

\* What repository.ChangeMemberRole may write, and repository.SetMemberStatus.
ChangeMemberRole(member) == {[member EXCEPT !.role = role] : role \in StaffRoles}
SetMemberStatus(member, route) ==
  {[member EXCEPT !.status = IF route = "activate" THEN "active" ELSE "inactive"]}
NewRows(r) ==
  LET old == members[reqs[r].target]
  IN  IF reqs[r].route = "role" THEN ChangeMemberRole(old) ELSE SetMemberStatus(old, reqs[r].route)

\* prevent_last_active_owner_change, before the row is updated.  It sees committed rows
\* and locks none of the others.
LastActiveOwner(i) == IsOwner(i) /\ \A other \in Identities \ {i} : ~IsOwner(other)

\* The UPDATE, which waits for another one of the same row.
UpdateMember(r) ==
  /\ In(r, "update")
  /\ \A q \in Slots : In(q, "commit") => reqs[q].target # reqs[r].target
  /\ IF LastActiveOwner(reqs[r].target) /\ reqs[r].route # "activate" THEN Finish(r) ELSE Goto(r, "commit")
  /\ UNCHANGED <<memberVars, serial, realm>>

CommitMember(r) ==
  /\ In(r, "commit")
  /\ \E row \in NewRows(r) : members' = [members EXCEPT ![reqs[r].target] = row]
  /\ Finish(r)
  /\ UNCHANGED <<paths, asked, serial, realm>>

\* The OWNERs are seeded; the Holder of a staff credential is registered.
MembersInit ==
  /\ realm \in Realms
  /\ members = [i \in Identities |->
                  IF i \in Owners THEN [role |-> "OWNER", status |-> "active"]
                  ELSE IF realm = "members" THEN [role |-> "BARBER", status |-> "active"]
                  ELSE NoRow]
  /\ paths = [route \in MemberRoutes |-> Template]
  /\ asked = [route \in MemberRoutes |-> {}]
  /\ reqs = [r \in Slots |-> Idle]
  /\ serial = 0

MemberStep(r) ==
  \/ WritePath(r) \/ Forward(r) \/ Authenticate(r) \/ StatusRequest(r) \/ RoleRequest(r)
  \/ UpdateMember(r) \/ CommitMember(r)
=============================================================================
