------------------------------ MODULE Accounts -------------------------------
(***************************************************************************)
(* Staff and customer accounts: memberships (Members), the staff account   *)
(* (Credentials) and the customer account (Customers) under one            *)
(* specification.  Requests run interleaved and may be lost at any step.   *)
(***************************************************************************)
EXTENDS Customers

vars == <<memberVars, reqs, serial, realm, accountVars>>

\* A replica is lost, or the caller goes away; sessions that were still to be revoked stay.
Crash(r) ==
  /\ ~In(r, "idle")
  /\ sessions' = IF In(r, "revoke") THEN Excused(Live) ELSE sessions
  /\ Finish(r)
  /\ UNCHANGED <<memberVars, account, mailed, chosen, serial, realm>>

Init == MembersInit /\ CredentialsInit

Next ==
  \/ \E r \in Slots :
       \/ (ReadPath(r) \/ MemberStep(r)) /\ UNCHANGED accountVars
       \/ CredentialRequest(r) \/ CredentialStep(r)
       \/ CustomerRequest(r) \/ CustomerStep(r)
       \/ Crash(r)
  \/ RevokeSession \/ Revoke \/ ClaimLapses

Spec == Init /\ [][Next]_vars

-----------------------------------------------------------------------------
(* Properties.                                                             *)

\* Every row and every request has its shape; a delivery is claimed exactly while it is
\* being sent (customers_initial_delivery_claim_state_check).
TypeOK ==
  /\ members \in [Identities -> Member \cup {NoRow}]
  /\ paths \in [MemberRoutes -> Identities \cup {Template}]
  /\ asked \in [MemberRoutes -> SUBSET Identities]
  /\ reqs \in [Slots -> {Idle} \cup MemberRequest \cup AccountRequest]
  /\ serial \in 0..MaxRequests
  /\ realm \in Realms
  /\ account \in Account \cup {NoRow}
  /\ Exists => (account.delivery = "sending" <=> account.claim # 0)
  /\ mailed \subseteq Serials
  /\ chosen \subseteq Serials
  /\ sessions \in [Serials -> SessionRow \cup {NoRow}]

\* The tenant keeps its active OWNERs, whatever member requests race: no request may change
\* an OWNER, so that it does not matter that the trigger behind them misses a concurrent
\* change (two last OWNERs that deactivate each other).
OwnerStays == \E i \in Identities : IsOwner(i)

\* The authority a member request was let in with is still there when it commits, although
\* nothing is read again after Authenticate.
ActorIsStillOwner ==
  \A r \in Slots : reqs[r].pc \in {"update", "commit"} => IsOwner(reqs[r].actor)

\* `/members/:id/role` changes a role and `/members/:id/{activate,deactivate}` a lifecycle: a
\* member request acts on the member whose id its own URL carries.  The code does not keep
\* this: the first id is written into the route's path for good, and every later request of
\* the route goes to the member that was named first.
ActsOnItsOwnMember ==
  \A r \in Slots : reqs[r].pc \in {"authenticate", "check", "update", "commit"} =>
    reqs[r].target = reqs[r].named

\* What is left of it: a path is captured once per route, so that a request never acts on a
\* member that only requests of another route have named (an activation on one that was
\* named for a deactivation).
RoutesDoNotMix ==
  \A r \in Slots : reqs[r].pc \in {"authenticate", "check", "update", "commit"} =>
    reqs[r].target \in asked[reqs[r].route]

\* Once the first password counts as delivered, the stored password is one the user has: it
\* was mailed before it was stored, or the user chose it; and the user must change exactly
\* the passwords they did not choose.
PasswordIsKnown ==
  Exists => /\ account.delivery = "sent" => account.password \in mailed \cup chosen
            /\ account.mustChange <=> account.password \notin chosen

\* A delivery that is done stays done: registrations that found it unfinished, or were late
\* to claim it, neither reopen it nor replace the password.
SentIsFinal ==
  [][Exists /\ account.delivery = "sent" =>
       /\ account'.delivery = "sent"
       /\ account'.password = account.password \/ \E r \in Slots : reqs[r].pc \in {"change", "reset"} /\ reqs'[r] # reqs[r]]_vars

\* A session whose password was replaced is about to be revoked, or is there for a cause:
\* the password was changed in it, its login had compared the password before the change,
\* a repeated registration replaced the password, or the revocation was lost.
SessionEndsWithItsPassword ==
  \A s \in Live : sessions[s].password # account.password =>
    \/ sessions[s].excused
    \/ \E r \in Slots : In(r, "revoke") /\ reqs[r].keep # s
=============================================================================
