---------------------------- MODULE AccountsProofs ---------------------------
(***************************************************************************)
(* Proofs about Accounts, for any sets of slots, identities and owners and *)
(* any number of requests: the inductive invariant, what the steps do to   *)
(* the requests and to the account, and the theorems.                      *)
(***************************************************************************)
EXTENDS Accounts, TLAPS

\* A leaf that names no prover is tried with SMT, then Zenon, then SMT again.
USE SMTT(30), ZenonT(30), SMTT(60), SMTT(90)

-----------------------------------------------------------------------------
(* Requests, by the step they are at.                                      *)

RoutedPCs == {"write", "forward"}
AimedPCs == {"authenticate", "check", "update", "commit"}
MemberPCs == RoutedPCs \cup AimedPCs

PlainPCs == {"create", "find", "reset", "mailReset"}
MailPCs == {"claim", "mail", "markSent", "markFailed", "activate"}
SessionPCs == {"compare", "change"}
AccountPCs == {"join", "open", "revoke"} \cup PlainPCs \cup MailPCs \cup SessionPCs

Deliveries == {"pending", "sending", "sent", "failed"}
Joining == [pc : {"join"}, n : Serials, delivery : Deliveries]
Plain == [pc : PlainPCs, n : Serials]
Mailing == [pc : MailPCs, n : Serials, retried : BOOLEAN]
Opening == [pc : {"open"}, n : Serials, password : Serials]
Changing == [pc : SessionPCs, n : Serials, session : Serials]
Revoking == [pc : {"revoke"}, n : Serials, keep : Serials \cup {0}]

Routed == [pc : RoutedPCs, route : MemberRoutes, actor : Identities, named : Identities,
           seen : Identities \cup {Template}]
Aimed == [pc : AimedPCs, route : MemberRoutes, actor : Identities, named : Identities,
          target : Identities]

Request == {Idle} \cup MemberRequest \cup AccountRequest

\* A request on the account is of one of six kinds.
LEMMA AccountRequestCases ==
  AccountRequest = Joining \cup Plain \cup Mailing \cup Opening \cup Changing \cup Revoking
  BY DEF AccountRequest, Joining, Plain, Mailing, Opening, Changing, Revoking, Deliveries,
     PlainPCs, MailPCs, SessionPCs

\* A request about a member is on its way through the gateway, or aims at a target.
LEMMA MemberRequestCases == MemberRequest = Routed \cup Aimed
  BY DEF MemberRequest, Routed, Aimed, RoutedPCs, AimedPCs

\* The step a request is at tells which record it is.
LEMMA Shape ==
  ASSUME NEW x \in Request
  PROVE  /\ x.pc = "join" => x \in Joining
         /\ x.pc \in PlainPCs => x \in Plain
         /\ x.pc \in MailPCs => x \in Mailing
         /\ x.pc = "open" => x \in Opening
         /\ x.pc \in SessionPCs => x \in Changing
         /\ x.pc = "revoke" => x \in Revoking
         /\ x.pc \in RoutedPCs => x \in Routed
         /\ x.pc \in AimedPCs => x \in Aimed
         /\ x.pc = "idle" => x = Idle
         /\ x.pc \in {"idle"} \cup MemberPCs \cup AccountPCs
<1> USE DEF RoutedPCs, AimedPCs, MemberPCs, PlainPCs, MailPCs, SessionPCs, AccountPCs
<1>1. x = Idle \/ x \in Routed \/ x \in Aimed \/ x \in Joining \/ x \in Plain \/ x \in Mailing
      \/ x \in Opening \/ x \in Changing \/ x \in Revoking
  BY AccountRequestCases, MemberRequestCases DEF Request
<1>2. /\ x = Idle => x.pc = "idle"
      /\ x \in Routed => x.pc \in RoutedPCs
      /\ x \in Aimed => x.pc \in AimedPCs
  BY DEF Idle, Routed, Aimed
<1>3. /\ x \in Joining => x.pc = "join"
      /\ x \in Plain => x.pc \in PlainPCs
      /\ x \in Mailing => x.pc \in MailPCs
      /\ x \in Opening => x.pc = "open"
      /\ x \in Changing => x.pc \in SessionPCs
      /\ x \in Revoking => x.pc = "revoke"
  BY DEF Joining, Plain, Mailing, Opening, Changing, Revoking
<1>4. QED
  BY <1>1, <1>2, <1>3

\* A request of an account has a number.
LEMMA NumberType ==
  ASSUME NEW x \in Request, x.pc \in AccountPCs
  PROVE  x.n \in Serials
  BY Shape DEF AccountPCs, Joining, Plain, Mailing, Opening, Changing, Revoking

\* The absent row is no account, ...
LEMMA NoRowIsNoAccount == NoRow \notin Account
  BY DEF NoRow, Account

\* ... no session ...
LEMMA NoRowIsNoSession == NoRow \notin SessionRow
  BY DEF NoRow, SessionRow

\* ... and no membership.
LEMMA NoRowIsNoMember == NoRow \notin Member
  BY DEF NoRow, Member

\* To go to a step is to become the same request at that step.
LEMMA GotoIsBecome ==
  ASSUME NEW r, NEW pc, Goto(r, pc)
  PROVE  Become(r, [reqs[r] EXCEPT !.pc = pc])
  BY DEF Goto, Become

-----------------------------------------------------------------------------
(* The inductive invariant.                                                *)

\* What a request x knows of the account acc, the mailbox ml, the chosen passwords ch and the
\* number se of requests so far.  Its number is no password the user chose; an account it
\* works on is there; a password it is about to activate or store was mailed; and as long as
\* the delivery of a new account's password is not done, the stored password is that one, or
\* one the user has.
ReqOK(x, acc, ml, ch, se) ==
  /\ x \in Request
  /\ x.pc \in AccountPCs => x.n <= se
  /\ x.pc \in AccountPCs \ {"revoke"} => x.n \notin ch
  /\ x.pc \in AccountPCs \ {"create"} => acc # NoRow
  /\ x.pc \in {"markSent", "activate", "reset"} => x.n \in ml
  /\ x.pc = "markSent" => ~x.retried
  /\ x.pc \in MailPCs \ {"activate"} /\ ~x.retried => acc.password \in ml \cup ch \cup {x.n}

RequestsOK ==
  /\ reqs \in [Slots -> Request]
  /\ \A r \in Slots : ReqOK(reqs[r], account, mailed, chosen, serial)
  /\ \A r, q \in Slots : reqs[r].pc \in AccountPCs /\ reqs[q].pc \in AccountPCs /\ r # q
                           => reqs[r].n # reqs[q].n

AccountOK ==
  /\ account \in Account \cup {NoRow}
  /\ Exists => (account.delivery = "sending" <=> account.claim # 0)
  /\ serial \in 0..MaxRequests
  /\ mailed \subseteq Serials
  /\ chosen \subseteq 1..serial
  /\ PasswordIsKnown

SessionsOK ==
  /\ sessions \in [Serials -> SessionRow \cup {NoRow}]
  /\ Live # {} => Exists
  /\ SessionEndsWithItsPassword

\* The seeded OWNERs keep their rows and nobody becomes an OWNER; a request that has passed
\* its checks was sent by an OWNER and aims at a member who is none.
MembersOK ==
  /\ members \in [Identities -> Member \cup {NoRow}]
  /\ realm \in Realms
  /\ \A i \in Identities : i \in Owners <=> IsOwner(i)
  /\ \A i \in Identities \ Owners : members[i] # NoRow => members[i].role # "OWNER"
  /\ \A r \in Slots : reqs[r].pc \in {"check", "update", "commit"} => reqs[r].actor \in Owners
  /\ \A r \in Slots : reqs[r].pc \in {"update", "commit"} =>
       reqs[r].target \notin Owners /\ members[reqs[r].target] # NoRow

\* A path holds nothing but what its route was asked for, and no template once a request has
\* written it.
PathsOK ==
  /\ paths \in [MemberRoutes -> Identities \cup {Template}]
  /\ asked \in [MemberRoutes -> SUBSET Identities]
  /\ \A route \in MemberRoutes : paths[route] \in asked[route] \cup {Template}
  /\ \A r \in Slots : reqs[r].pc \in RoutedPCs =>
       reqs[r].named \in asked[reqs[r].route] /\ reqs[r].seen \in asked[reqs[r].route] \cup {Template}
  /\ \A r \in Slots : reqs[r].pc = "forward" => paths[reqs[r].route] # Template
  /\ RoutesDoNotMix

IInv == RequestsOK /\ AccountOK /\ SessionsOK /\ MembersOK /\ PathsOK

-----------------------------------------------------------------------------
(* Members and paths.                                                      *)

\* The record of a request of an account, at the step it is at.
LEMMA AtStep ==
  ASSUME IInv, NEW r \in Slots
  PROVE  /\ reqs[r] \in Request
         /\ ReqOK(reqs[r], account, mailed, chosen, serial)
         /\ reqs[r].pc \in AccountPCs => reqs[r].n \in Serials
         /\ reqs[r].pc \in AccountPCs \ {"create"} => Exists /\ account \in Account
<1>1. reqs[r] \in Request /\ ReqOK(reqs[r], account, mailed, chosen, serial)
  BY DEF IInv, RequestsOK
<1>2. account \in Account \cup {NoRow}
  BY DEF IInv, AccountOK
<1>3. QED
  BY <1>1, <1>2, NumberType DEF ReqOK, Exists

\* What a step makes of the requests.
LEMMA Became ==
  ASSUME IInv, NEW r \in Slots, NEW x, Become(r, x)
  PROVE  reqs'[r] = x /\ \A q \in Slots \ {r} : reqs'[q] = reqs[q]
  BY DEF IInv, RequestsOK, Become

\* A request that is done leaves an idle slot.
LEMMA Finished ==
  ASSUME IInv, NEW r \in Slots, Finish(r)
  PROVE  reqs'[r].pc = "idle" /\ \A q \in Slots \ {r} : reqs'[q] = reqs[q]
  BY Became DEF Finish, Idle

\* A request goes to a step, ...
LEMMA Went ==
  ASSUME IInv, NEW r \in Slots, NEW pc, Goto(r, pc)
  PROVE  /\ reqs'[r].pc = pc
         /\ \A q \in Slots \ {r} : reqs'[q] = reqs[q]
<1>1. reqs \in [Slots -> Request]
  BY DEF IInv, RequestsOK
<1>2. reqs[r] = Idle \/ reqs[r] \in Routed \/ reqs[r] \in Aimed \/ reqs[r] \in Joining \/ reqs[r] \in Plain
      \/ reqs[r] \in Mailing \/ reqs[r] \in Opening \/ reqs[r] \in Changing \/ reqs[r] \in Revoking
  BY <1>1, AccountRequestCases, MemberRequestCases DEF Request
<1>3. [reqs[r] EXCEPT !.pc = pc].pc = pc
  BY <1>2 DEF Idle, Routed, Aimed, Joining, Plain, Mailing, Opening, Changing, Revoking
<1>4. reqs'[r] = [reqs[r] EXCEPT !.pc = pc]
  BY <1>1 DEF Goto
<1>5. \A q \in Slots \ {r} : reqs'[q] = reqs[q]
  BY <1>1 DEF Goto
<1>6. QED
  BY <1>3, <1>4, <1>5

\* ... with all else it knows.
LEMMA WentWith ==
  ASSUME IInv, NEW r \in Slots, NEW pc, Goto(r, pc)
  PROVE  reqs'[r] = [reqs[r] EXCEPT !.pc = pc]
  BY DEF IInv, RequestsOK, Goto

\* A step on the account leaves the requests about members alone.
LEMMA AccountFrame ==
  ASSUME IInv, NEW r \in Slots,
         CredentialRequest(r) \/ CredentialStep(r) \/ CustomerRequest(r) \/ CustomerStep(r) \/ Crash(r)
  PROVE  /\ \A q \in Slots : reqs'[q].pc \in MemberPCs => reqs'[q] = reqs[q]
         /\ members' \in {members, Joined}
         /\ UNCHANGED <<paths, asked, realm>>
<1> DEFINE MovesOn == reqs'[r].pc \notin MemberPCs /\ \A q \in Slots \ {r} : reqs'[q] = reqs[q]
<1>1. ASSUME NEW x, x.pc \notin MemberPCs, Become(r, x) PROVE MovesOn
  BY <1>1, Became
<1>2. ASSUME NEW pc, pc \notin MemberPCs, Goto(r, pc) PROVE MovesOn
  BY <1>2, Went
<1>3. Finish(r) => MovesOn
  BY Finished DEF MemberPCs, RoutedPCs, AimedPCs
<1>4. CASE CredentialRequest(r) \/ CustomerRequest(r)
  <2>1. UNCHANGED <<members, paths, asked, realm>>
    BY <1>4, ZenonT(60) DEF CredentialRequest, Register, Login, ChangePassword, ForgotPassword, CustomerRequest,
       CreateCustomer, CustomerLogin, ChangeCustomerPassword, ForgotCustomerPassword, memberVars
  <2>2. \E x : x.pc \notin MemberPCs /\ Become(r, x)
    BY <1>4, ZenonT(60) DEF CredentialRequest, Register, Login, ChangePassword, ForgotPassword, CustomerRequest,
       CreateCustomer, CustomerLogin, ChangeCustomerPassword, ForgotCustomerPassword,
       MemberPCs, RoutedPCs, AimedPCs
  <2>3. QED
    BY <1>1, <2>1, <2>2, ZenonT(60)
<1>5. CASE Crash(r) \/ CredentialStep(r) \/ CustomerStep(r)
  <2>1. members' \in {members, Joined} /\ UNCHANGED <<paths, asked, realm>>
    BY <1>5 DEF Crash, CredentialStep, CustomerStep, JoinTenant, CreateIdentity, FindByEmail,
       ClaimInitialDelivery, MailInitialPassword, RecordDelivery, ActivateCredential, MailReset,
       SendWithRetry, CreateSession, ComparePassword, StorePassword, ResetPassword,
       CreateCustomerSession, UpdatePassword, ResetCustomerPassword, RevokeSessions, memberVars
  <2>2. \/ Finish(r)
        \/ \E x : x.pc \notin MemberPCs /\ Become(r, x)
        \/ \E pc : pc \notin MemberPCs /\ Goto(r, pc)
    BY <1>5 DEF Crash, CredentialStep, CustomerStep, JoinTenant, CreateIdentity, FindByEmail,
       ClaimInitialDelivery, MailInitialPassword, RecordDelivery, ActivateCredential, MailReset,
       SendWithRetry, CreateSession, ComparePassword, StorePassword, ResetPassword,
       CreateCustomerSession, UpdatePassword, ResetCustomerPassword, RevokeSessions,
       MemberPCs, RoutedPCs, AimedPCs
  <2>3. QED
    BY <1>1, <1>2, <1>3, <2>1, <2>2, ZenonT(60)
<1>6. QED
  BY <1>4, <1>5

\* A membership that is made is none of an OWNER.
LEMMA MembersFrame ==
  ASSUME IInv, members' \in {members, Joined}, UNCHANGED realm,
         \A q \in Slots : reqs'[q].pc \in MemberPCs => reqs'[q] = reqs[q]
  PROVE  MembersOK'
<1>1. Holder \in Identities \ Owners
  BY MembersAssumption
<1>2. [role |-> "BARBER", status |-> "active"] \in Member
  BY DEF Member, StaffRoles
<1>3. members \in [Identities -> Member \cup {NoRow}]
  BY DEF IInv, MembersOK
<1>4. members' \in [Identities -> Member \cup {NoRow}]
  BY <1>1, <1>2, <1>3 DEF Joined
<1>5. ASSUME NEW i \in Identities
      PROVE  \/ members'[i] = members[i]
             \/ i = Holder /\ members[i] = NoRow /\ members'[i] = [role |-> "BARBER", status |-> "active"]
  BY <1>1, <1>3 DEF Joined
<1>6. ASSUME NEW i \in Identities
      PROVE  /\ i \in Owners => members'[i] = members[i]
             /\ i \notin Owners /\ members'[i] # NoRow => members'[i].role # "OWNER"
             /\ members[i] # NoRow => members'[i] # NoRow
  BY <1>1, <1>5 DEF IInv, MembersOK
<1>7. ASSUME NEW i \in Identities PROVE i \in Owners <=> IsOwner(i)'
  BY <1>6 DEF IInv, MembersOK, IsOwner, IsActive, HasStatus
<1>8. ASSUME NEW q \in Slots, reqs'[q].pc \in {"check", "update", "commit"}
      PROVE  reqs'[q] = reqs[q] /\ reqs[q] \in Aimed
  <2>1. reqs'[q] = reqs[q]
    BY <1>8 DEF MemberPCs, AimedPCs
  <2>2. reqs[q] \in Request
    BY DEF IInv, RequestsOK
  <2>3. QED
    BY <1>8, <2>1, <2>2, Shape DEF AimedPCs
<1>9. ASSUME NEW q \in Slots, reqs'[q].pc \in {"update", "commit"}
      PROVE  reqs'[q].target \notin Owners /\ members'[reqs'[q].target] # NoRow
  BY <1>6, <1>8, <1>9 DEF IInv, MembersOK, Aimed
<1>10. ASSUME NEW q \in Slots, reqs'[q].pc \in {"check", "update", "commit"}
      PROVE  reqs'[q].actor \in Owners
  BY <1>8, <1>10 DEF IInv, MembersOK
<1>11. realm' \in Realms
  BY DEF IInv, MembersOK
<1>12. QED
  BY <1>4, <1>6, <1>7, <1>9, <1>10, <1>11 DEF MembersOK

\* Steps that leave the paths and the requests about members alone keep both in order.
LEMMA PathsFrame ==
  ASSUME IInv, UNCHANGED <<paths, asked>>,
         \A q \in Slots : reqs'[q].pc \in MemberPCs => reqs'[q] = reqs[q]
  PROVE  PathsOK'
  BY DEF IInv, PathsOK, RoutesDoNotMix, MemberPCs, RoutedPCs, AimedPCs

\* No request changes an OWNER, and the ones that go through were sent by one.
LEMMA MembersStep ==
  ASSUME IInv, NEW r \in Slots, ReadPath(r) \/ MemberStep(r)
  PROVE  MembersOK'
<1> USE DEF MemberPCs, RoutedPCs, AimedPCs
<1>0. reqs[r] \in Request /\ members \in [Identities -> Member \cup {NoRow}] /\ realm' = realm
  BY AtStep, ZenonT(60) DEF IInv, MembersOK, ReadPath, MemberStep, WritePath, Forward, Authenticate, StatusRequest,
     RoleRequest, UpdateMember, CommitMember
<1>1. CASE ReadPath(r) \/ WritePath(r) \/ Forward(r)
  <2>1. reqs'[r].pc \notin {"check", "update", "commit"} /\ members' = members
    <3>1. CASE ReadPath(r)
      BY <3>1, Became DEF ReadPath
    <3>2. CASE WritePath(r)
      BY <3>2, Went DEF WritePath
    <3>3. CASE Forward(r)
      BY <3>3, Became DEF Forward, memberVars
    <3>4. QED
      BY <1>1, <3>1, <3>2, <3>3, ZenonT(60)
  <2>2. \A q \in Slots \ {r} : reqs'[q] = reqs[q]
    BY <1>1, Became, Finished, Went, ZenonT(60) DEF ReadPath, WritePath, Forward
  <2>3. QED
    BY <1>0, <2>1, <2>2, ZenonT(60) DEF IInv, MembersOK, IsOwner, IsActive, HasStatus
<1>2. CASE Authenticate(r) \/ StatusRequest(r) \/ RoleRequest(r) \/ UpdateMember(r)
  <2>1. reqs[r] \in Aimed /\ members' = members
    BY <1>0, <1>2, Shape, ZenonT(60) DEF Authenticate, StatusRequest, RoleRequest, UpdateMember, In, memberVars
  <2>2. \A q \in Slots \ {r} : reqs'[q] = reqs[q]
    BY <1>2, Became, Finished, Went, ZenonT(60) DEF Authenticate, StatusRequest, RoleRequest, UpdateMember
  <2>3. ASSUME NEW pc \in AimedPCs, Goto(r, pc)
        PROVE  reqs'[r].pc = pc /\ reqs'[r].actor = reqs[r].actor /\ reqs'[r].target = reqs[r].target
    <3>1. reqs'[r] = [reqs[r] EXCEPT !.pc = pc] /\ reqs'[r].pc = pc
      BY <2>3, Went, WentWith
    <3>2. QED
      BY <2>1, <3>1 DEF Aimed
  <2>4. reqs'[r].pc \in {"check", "update", "commit"} => reqs'[r].actor \in Owners
    <3>1. CASE Authenticate(r)
      <4>1. RequireRoles(Session(reqs[r].actor), "OWNER") => IsOwner(reqs[r].actor)
        BY DEF RequireRoles, Session, IsOwner
      <4>2. reqs[r].actor \in Identities
        BY <2>1 DEF Aimed
      <4>3. QED
        BY <2>3, <3>1, <4>1, <4>2, Became, Finished, Went, ZenonT(60) DEF Authenticate, IInv, MembersOK
    <3>2. CASE StatusRequest(r) \/ RoleRequest(r) \/ UpdateMember(r)
      BY <2>3, <3>2, Became, Finished, Went, ZenonT(60) DEF StatusRequest, RoleRequest, UpdateMember, In, IInv, MembersOK
    <3>3. QED
      BY <1>2, <3>1, <3>2, ZenonT(60)
  <2>5. reqs'[r].pc \in {"update", "commit"} => reqs'[r].target \notin Owners /\ members[reqs'[r].target] # NoRow
    <3>1. CASE Authenticate(r)
      BY <2>3, <3>1, Became, Finished, Went DEF Authenticate
    <3>2. CASE StatusRequest(r) \/ RoleRequest(r)
      <4>1. reqs[r].target \in Identities
        BY <2>1 DEF Aimed
      <4>2. FindMember(reqs[r].target) # NoRow /\ FindMember(reqs[r].target).role # "OWNER" =>
              reqs[r].target \notin Owners /\ members[reqs[r].target] # NoRow
        BY <4>1 DEF FindMember, IInv, MembersOK, IsOwner
      <4>3. QED
        BY <2>3, <3>2, <4>2, Became, Finished, Went, ZenonT(60) DEF StatusRequest, RoleRequest, MayChangeStatus, MayChangeRole
    <3>3. CASE UpdateMember(r)
      BY <2>3, <3>3, Became, Finished, Went, ZenonT(60) DEF UpdateMember, In, IInv, MembersOK
    <3>4. QED
      BY <1>2, <3>1, <3>2, <3>3, ZenonT(60)
  <2>6. QED
    BY <1>0, <2>1, <2>2, <2>4, <2>5 DEF IInv, MembersOK, IsOwner, IsActive, HasStatus
<1>3. CASE CommitMember(r)
  <2> DEFINE t == reqs[r].target
  <2>1. reqs[r] \in Aimed /\ t \in Identities \ Owners /\ members[t] \in Member /\ members[t].role # "OWNER"
    <3>1. reqs[r] \in Aimed /\ reqs[r].pc = "commit"
      BY <1>0, <1>3, Shape, ZenonT(60) DEF CommitMember, In
    <3>2. t \in Identities
      BY <3>1 DEF Aimed
    <3>3. QED
      BY <3>1, <3>2, ZenonT(60) DEF IInv, MembersOK
  <2>2. PICK row \in NewRows(r) : members' = [members EXCEPT ![t] = row]
    BY <1>3, ZenonT(60) DEF CommitMember
  <2>3. row \in Member /\ row.role # "OWNER"
    BY <2>1 DEF NewRows, ChangeMemberRole, SetMemberStatus, Member, StaffRoles
  <2>4. /\ members' \in [Identities -> Member \cup {NoRow}]
        /\ members'[t] = row
        /\ \A i \in Identities \ {t} : members'[i] = members[i]
    BY <1>0, <2>1, <2>2, <2>3
  <2>5. row # NoRow
    BY <2>3, NoRowIsNoMember
  <2>6. ASSUME NEW i \in Identities
        PROVE  /\ i \in Owners <=> IsOwner(i)'
               /\ i \notin Owners /\ members'[i] # NoRow => members'[i].role # "OWNER"
               /\ members[i] # NoRow => members'[i] # NoRow
    BY <2>1, <2>3, <2>4, <2>5, ZenonT(60) DEF IInv, MembersOK, IsOwner, IsActive, HasStatus
  <2>7. ASSUME NEW q \in Slots, reqs'[q].pc \in {"check", "update", "commit"}
        PROVE  reqs'[q] = reqs[q] /\ reqs[q] \in Aimed
    <3>1. reqs'[q] = reqs[q]
      BY <1>3, <2>7, Became, Finished, Went DEF CommitMember
    <3>2. QED
      BY <2>7, <3>1, AtStep, Shape
  <2>8. QED
    BY <1>0, <2>4, <2>6, <2>7, ZenonT(60) DEF IInv, MembersOK, Aimed
<1>4. QED
  BY <1>1, <1>2, <1>3 DEF MemberStep

\* Paths only ever hold ids that were asked for on their route.
LEMMA PathsStep ==
  ASSUME IInv, NEW r \in Slots, ReadPath(r) \/ MemberStep(r)
  PROVE  PathsOK'
<1> USE DEF MemberPCs, RoutedPCs, AimedPCs
<1>0. reqs[r] \in Request /\ \A q \in Slots \ {r} : reqs'[q] = reqs[q] /\ reqs[q] \in Request
  BY AtStep, Became, Finished, Went, ZenonT(60) DEF ReadPath, MemberStep, WritePath, Forward, Authenticate, StatusRequest,
     RoleRequest, UpdateMember, CommitMember
<1>1. \A q \in Slots : /\ reqs[q].pc \in RoutedPCs => reqs[q] \in Routed
                       /\ reqs[q].pc \in AimedPCs => reqs[q] \in Aimed
  BY AtStep, Shape
<1>2. /\ paths \in [MemberRoutes -> Identities \cup {Template}]
      /\ asked \in [MemberRoutes -> SUBSET Identities]
  BY DEF IInv, PathsOK
<1>3. CASE ReadPath(r)
  <2>1. PICK route \in MemberRoutes, actor \in Identities, named \in Identities :
          /\ asked' = [asked EXCEPT ![route] = @ \cup {named}]
          /\ Become(r, [pc |-> "write", route |-> route, actor |-> actor, named |-> named,
                        seen |-> paths[PathOf(route)]])
    BY <1>3, ZenonT(60) DEF ReadPath
  <2>2. paths' = paths
    BY <1>3 DEF ReadPath
  <2>3. asked' \in [MemberRoutes -> SUBSET Identities] /\ \A o \in MemberRoutes : asked[o] \subseteq asked'[o]
    BY <1>2, <2>1
  <2>4. named \in asked'[route]
    BY <1>2, <2>1
  <2>5. reqs'[r] = [pc |-> "write", route |-> route, actor |-> actor, named |-> named, seen |-> paths[route]]
    BY <2>1, Became, ZenonT(60) DEF PathOf
  <2>6. \A o \in MemberRoutes : paths'[o] \in asked'[o] \cup {Template}
    BY <2>2, <2>3 DEF IInv, PathsOK
  <2>7. ASSUME NEW q \in Slots, reqs'[q].pc \in RoutedPCs
        PROVE  reqs'[q].named \in asked'[reqs'[q].route] /\ reqs'[q].seen \in asked'[reqs'[q].route] \cup {Template}
    <3>1. CASE q = r
      BY <2>2, <2>4, <2>5, <2>6, <3>1
    <3>2. CASE q # r
      BY <1>0, <1>1, <2>3, <2>7, <3>2 DEF IInv, PathsOK, Routed
    <3>3. QED
      BY <3>1, <3>2
  <2>8. ASSUME NEW q \in Slots, reqs'[q].pc = "forward" PROVE paths'[reqs'[q].route] # Template
    <3>1. q # r
      BY <2>5, <2>8
    <3>2. reqs[q].pc = "forward" /\ reqs'[q] = reqs[q]
      BY <1>0, <2>8, <3>1
    <3>3. QED
      BY <2>2, <3>2 DEF IInv, PathsOK
  <2>9. ASSUME NEW q \in Slots, reqs'[q].pc \in AimedPCs PROVE reqs'[q].target \in asked'[reqs'[q].route]
    <3>1. q # r
      BY <2>5, <2>9
    <3>2. reqs[q].pc \in AimedPCs /\ reqs'[q] = reqs[q]
      BY <1>0, <2>9, <3>1
    <3>3. reqs[q].target \in asked[reqs[q].route]
      BY <3>2 DEF IInv, PathsOK, RoutesDoNotMix
    <3>4. reqs[q].route \in MemberRoutes
      BY <1>1, <3>2 DEF Aimed
    <3>5. QED
      BY <2>3, <3>2, <3>3, <3>4
  <2>10. QED
    BY <1>2, <2>2, <2>3, <2>6, <2>7, <2>8, <2>9 DEF PathsOK, RoutesDoNotMix
<1>4. CASE WritePath(r)
  <2> DEFINE route == reqs[r].route
             path == IF reqs[r].seen = Template THEN reqs[r].named ELSE reqs[r].seen
  <2>1. reqs[r] \in Routed /\ asked' = asked /\ paths' = [paths EXCEPT ![route] = path]
    BY <1>1, <1>4, ZenonT(60) DEF WritePath, In, PathOf
  <2>2. route \in MemberRoutes /\ path \in asked[route] /\ path \in Identities /\ path # Template
    <3>1. route \in MemberRoutes /\ reqs[r].named \in asked[route] /\ reqs[r].seen \in asked[route] \cup {Template}
      BY <1>4, <2>1 DEF WritePath, In, IInv, PathsOK, Routed
    <3>2. asked[route] \subseteq Identities
      BY <1>2, <3>1, ZenonT(60)
    <3>3. QED
      BY <3>1, <3>2, MembersAssumption
  <2>3. /\ paths' \in [MemberRoutes -> Identities \cup {Template}]
        /\ paths'[route] = path
        /\ \A o \in MemberRoutes \ {route} : paths'[o] = paths[o]
    BY <1>2, <2>1, <2>2
  <2>4. /\ reqs'[r].pc = "forward" /\ reqs'[r].route = route
        /\ reqs'[r].named = reqs[r].named /\ reqs'[r].seen = reqs[r].seen
    <3>1. reqs'[r] = [reqs[r] EXCEPT !.pc = "forward"]
      BY <1>4, WentWith DEF WritePath
    <3>2. QED
      BY <2>1, <3>1 DEF Routed
  <2>5. \A o \in MemberRoutes : paths'[o] \in asked'[o] \cup {Template}
    BY <2>1, <2>2, <2>3, ZenonT(60) DEF IInv, PathsOK
  <2>6. ASSUME NEW q \in Slots, reqs'[q].pc \in RoutedPCs
        PROVE  reqs'[q].named \in asked'[reqs'[q].route] /\ reqs'[q].seen \in asked'[reqs'[q].route] \cup {Template}
    BY <1>0, <1>4, <2>1, <2>4, <2>6, ZenonT(60) DEF WritePath, In, IInv, PathsOK
  <2>7. ASSUME NEW q \in Slots, reqs'[q].pc = "forward" PROVE paths'[reqs'[q].route] # Template
    <3>1. CASE q = r
      BY <2>2, <2>3, <2>4, <3>1
    <3>2. CASE q # r
      <4>1. reqs[q].pc = "forward" /\ reqs'[q] = reqs[q]
        BY <1>0, <2>7, <3>2
      <4>2. reqs[q].route \in MemberRoutes
        BY <1>1, <4>1 DEF Routed
      <4>3. paths[reqs[q].route] # Template
        BY <4>1 DEF IInv, PathsOK
      <4>4. QED
        BY <2>2, <2>3, <4>1, <4>2, <4>3
    <3>3. QED
      BY <3>1, <3>2, ZenonT(60)
  <2>8. ASSUME NEW q \in Slots, reqs'[q].pc \in AimedPCs PROVE reqs'[q].target \in asked'[reqs'[q].route]
    BY <1>0, <2>1, <2>4, <2>8 DEF IInv, PathsOK, RoutesDoNotMix
  <2>9. QED
    BY <1>2, <2>1, <2>3, <2>5, <2>6, <2>7, <2>8, ZenonT(60) DEF PathsOK, RoutesDoNotMix
<1>5. CASE Forward(r)
  <2>1. reqs[r] \in Routed /\ paths' = paths /\ asked' = asked
    BY <1>1, <1>5, ZenonT(60) DEF Forward, In, memberVars
  <2>2. paths[reqs[r].route] \in asked[reqs[r].route]
    BY <1>5, <2>1 DEF Forward, In, IInv, PathsOK, Routed
  <2>3. reqs'[r].pc = "authenticate" /\ reqs'[r].route = reqs[r].route /\ reqs'[r].target = paths[reqs[r].route]
    <3>1. reqs'[r] = [pc |-> "authenticate", route |-> reqs[r].route, actor |-> reqs[r].actor,
                      named |-> reqs[r].named, target |-> paths[reqs[r].route]]
      BY <1>5, Became, ZenonT(60) DEF Forward, PathOf
    <3>2. QED
      BY <3>1
  <2>4. QED
    BY <1>0, <1>2, <2>1, <2>2, <2>3, ZenonT(60) DEF IInv, PathsOK, RoutesDoNotMix
<1>6. CASE Authenticate(r) \/ StatusRequest(r) \/ RoleRequest(r) \/ UpdateMember(r) \/ CommitMember(r)
  <2>1. reqs[r] \in Aimed /\ reqs[r].pc \in AimedPCs /\ paths' = paths /\ asked' = asked
    BY <1>1, <1>6, ZenonT(60) DEF Authenticate, StatusRequest, RoleRequest, UpdateMember, CommitMember, In, memberVars
  <2>2. \/ reqs'[r].pc = "idle"
        \/ reqs'[r].pc \in AimedPCs /\ reqs'[r].route = reqs[r].route /\ reqs'[r].target = reqs[r].target
    <3>1. Finish(r) \/ \E pc \in AimedPCs : Goto(r, pc)
      BY <1>6, ZenonT(60) DEF Authenticate, StatusRequest, RoleRequest, UpdateMember, CommitMember
    <3>2. CASE Finish(r)
      BY <3>2, Finished, ZenonT(60)
    <3>3. ASSUME NEW pc \in AimedPCs, Goto(r, pc)
          PROVE  reqs'[r].pc \in AimedPCs /\ reqs'[r].route = reqs[r].route /\ reqs'[r].target = reqs[r].target
      <4>1. reqs'[r] = [reqs[r] EXCEPT !.pc = pc] /\ reqs'[r].pc = pc
        BY <3>3, Went, WentWith
      <4>2. QED
        BY <2>1, <4>1 DEF Aimed
    <3>4. QED
      BY <3>1, <3>2, <3>3, ZenonT(60)
  <2>3. reqs[r].target \in asked[reqs[r].route]
    BY <2>1 DEF IInv, PathsOK, RoutesDoNotMix
  <2>4. QED
    BY <1>0, <1>2, <2>1, <2>2, <2>3 DEF IInv, PathsOK, RoutesDoNotMix
<1>7. QED
  BY <1>3, <1>4, <1>5, <1>6 DEF MemberStep

-----------------------------------------------------------------------------
(* Requests.                                                               *)

\* A request that does not move keeps what it knows as things grow.
LEMMA ReqKept ==
  ASSUME NEW x, NEW acc, NEW ml, NEW ch, NEW se \in Nat,
         NEW acc2, NEW ml2, NEW ch2, NEW se2 \in Nat,
         ReqOK(x, acc, ml, ch, se),
         se <= se2, ml \subseteq ml2, ch \subseteq ch2,
         acc # NoRow => acc2 # NoRow /\ acc2.password \in {acc.password} \cup ml2 \cup ch2,
         x.pc \in AccountPCs \ {"revoke"} => x.n \notin ch2
  PROVE  ReqOK(x, acc2, ml2, ch2, se2)
<1>1. x.pc \in AccountPCs => x.n \in Nat
  BY NumberType DEF ReqOK, Serials
<1>2. x.pc \in AccountPCs => x.n <= se2
  BY <1>1 DEF ReqOK
<1>3. x.pc \in MailPCs \ {"activate"} => x.pc \in AccountPCs \ {"create"}
  BY DEF MailPCs, AccountPCs
<1>4. x.pc \in MailPCs \ {"activate"} /\ ~x.retried => acc2.password \in ml2 \cup ch2 \cup {x.n}
  BY <1>3 DEF ReqOK
<1>5. QED
  BY <1>2, <1>4 DEF ReqOK

\* One request moves to x.
LEMMA RequestsKept ==
  ASSUME RequestsOK, AccountOK, NEW r \in Slots, NEW x, Become(r, x),
         ReqOK(x, account', mailed', chosen', serial'),
         \/ serial' = serial
         \/ serial' = serial + 1,
         mailed \subseteq mailed',
         Exists => account' # NoRow /\ account'.password \in {account.password} \cup mailed' \cup chosen',
         \/ chosen' = chosen
         \/ reqs[r].pc \in AccountPCs /\ chosen' = chosen \cup {reqs[r].n},
         x.pc \in AccountPCs => \/ reqs[r].pc \in AccountPCs /\ x.n = reqs[r].n
                                \/ x.n = serial + 1
  PROVE  RequestsOK'
<1>1. serial \in Nat /\ serial' \in Nat /\ serial <= serial'
  BY DEF AccountOK
<1>2. reqs \in [Slots -> Request] /\ reqs' = [reqs EXCEPT ![r] = x]
  BY DEF RequestsOK, Become
<1>3. reqs' \in [Slots -> Request]
  BY <1>2 DEF ReqOK
<1>4. ASSUME NEW q \in Slots
      PROVE  ReqOK(reqs'[q], account', mailed', chosen', serial')
  <2>1. CASE q = r
    BY <1>2, <2>1
  <2>2. CASE q # r
    <3>1. reqs'[q] = reqs[q]
      BY <1>2, <2>2
    <3>2. ReqOK(reqs[q], account, mailed, chosen, serial)
      BY DEF RequestsOK
    <3>3. reqs[q].pc \in AccountPCs \ {"revoke"} => reqs[q].n \notin chosen'
      BY <2>2, <3>2 DEF RequestsOK, ReqOK
    <3>4. QED
      BY <1>1, <3>1, <3>2, <3>3, ReqKept DEF Exists
  <2>3. QED
    BY <2>1, <2>2
<1>5. ASSUME NEW p \in Slots, NEW q \in Slots, reqs'[p].pc \in AccountPCs, reqs'[q].pc \in AccountPCs, p # q
      PROVE  reqs'[p].n # reqs'[q].n
  <2>1. \A y \in Slots : reqs[y].pc \in AccountPCs => reqs[y].n \in Nat /\ reqs[y].n <= serial
    BY NumberType DEF RequestsOK, ReqOK, Serials
  <2>2. CASE p # r /\ q # r
    BY <1>2, <1>5, <2>2 DEF RequestsOK
  <2>3. CASE p = r
    BY <1>1, <1>2, <1>5, <2>1, <2>3 DEF RequestsOK
  <2>4. CASE q = r
    BY <1>1, <1>2, <1>5, <2>1, <2>4 DEF RequestsOK
  <2>5. QED
    BY <2>2, <2>3, <2>4
<1>6. QED
  BY <1>3, <1>4, <1>5 DEF RequestsOK

\* An idle request knows nothing.
LEMMA IdleOK ==
  ASSUME NEW acc, NEW ml, NEW ch, NEW se
  PROVE  ReqOK(Idle, acc, ml, ch, se) /\ Idle.pc \notin AccountPCs
  BY DEF ReqOK, Idle, Request, AccountPCs, MailPCs, PlainPCs, SessionPCs

\* A request ends; the account may have changed, its password to one the user has.
LEMMA FinishKept ==
  ASSUME IInv, NEW r \in Slots, Finish(r), serial' = serial, mailed \subseteq mailed',
         Exists => account' # NoRow /\ account'.password \in {account.password} \cup mailed' \cup chosen',
         \/ chosen' = chosen
         \/ reqs[r].pc \in AccountPCs /\ chosen' = chosen \cup {reqs[r].n}
  PROVE  RequestsOK'
  BY IdleOK, RequestsKept DEF Finish, IInv

\* A request about the account arrives.
LEMMA StartKept ==
  ASSUME IInv, NEW r \in Slots, NEW realms, Start(r, realms), NEW x \in AccountRequest, Become(r, x),
         x.n = serial', x.pc \in {"join", "create", "find", "open", "compare", "mailReset"},
         x.pc # "create" => Exists, UNCHANGED <<account, mailed, chosen>>
  PROVE  RequestsOK'
<1>1. x \in Request /\ x.pc \in AccountPCs /\ x.pc \notin MailPCs
  BY DEF Request, AccountPCs, MailPCs, PlainPCs, SessionPCs
<1>2. serial \in Nat /\ serial' = serial + 1 /\ serial' \notin chosen
  BY DEF IInv, AccountOK, Start
<1>3. ReqOK(x, account', mailed', chosen', serial')
  BY <1>1, <1>2 DEF ReqOK, Exists
<1>4. QED
  BY <1>1, <1>2, <1>3, RequestsKept DEF IInv, Exists

\* A request goes on and leaves the account alone.
LEMMA GoOnKept ==
  ASSUME IInv, NEW r \in Slots, NEW x \in AccountRequest, Become(r, x),
         reqs[r].pc \in AccountPCs \ {"create", "revoke"}, x.n = reqs[r].n, x.pc \in AccountPCs,
         x.pc \in {"markSent", "activate", "reset"} => x.n \in mailed',
         x.pc = "markSent" => ~x.retried,
         x.pc \in MailPCs \ {"activate"} /\ ~x.retried =>
           reqs[r].pc \in MailPCs \ {"activate"} /\ ~reqs[r].retried,
         mailed \subseteq mailed', UNCHANGED <<chosen, serial>>,
         account' # NoRow, account'.password = account.password
  PROVE  RequestsOK'
<1>1. ReqOK(reqs[r], account, mailed, chosen, serial)
  BY DEF IInv, RequestsOK
<1>2. x \in Request /\ Exists
  BY <1>1 DEF Request, ReqOK, Exists
<1>3. x.pc \in MailPCs \ {"activate"} /\ ~x.retried => account'.password \in mailed' \cup chosen' \cup {x.n}
  BY <1>1 DEF ReqOK
<1>4. ReqOK(x, account', mailed', chosen', serial')
  BY <1>1, <1>2, <1>3 DEF ReqOK
<1>5. QED
  BY <1>2, <1>4, RequestsKept DEF IInv, Exists

\* Registration: the number of the request is its password.
LEMMA RegistrationRequests ==
  ASSUME IInv, NEW r \in Slots,
         Register(r) \/ JoinTenant(r) \/ CreateIdentity(r) \/ CreateCustomer(r) \/ FindByEmail(r)
  PROVE  RequestsOK'
<1> USE DEF AccountPCs, PlainPCs, MailPCs, SessionPCs
<1>1. serial \in Nat /\ MaxRequests \in Nat
  BY MembersAssumption DEF IInv, AccountOK
<1>2. CASE Register(r)
  <2> DEFINE x == IF Exists THEN [pc |-> "join", n |-> serial', delivery |-> account.delivery]
                            ELSE [pc |-> "create", n |-> serial']
  <2>1. serial' \in Serials /\ Start(r, {"staff"}) /\ Become(r, x)
    BY <1>1, <1>2 DEF Register, Start, Serials
  <2>2. Exists => account.delivery \in Deliveries
    BY DEF IInv, AccountOK, Exists, Account, Deliveries
  <2>3. x \in Joining \cup Plain
    BY <2>1, <2>2 DEF Joining, Plain
  <2>4. x.n = serial' /\ x.pc \in {"join", "create"} /\ (x.pc # "create" => Exists)
    OBVIOUS
  <2>5. QED
    BY <1>2, <2>1, <2>3, <2>4, StartKept, AccountRequestCases DEF Register, accountVars
<1>3. CASE JoinTenant(r)
  <2>1. CASE Finish(r)
    BY <1>3, <2>1, FinishKept DEF JoinTenant, accountVars, Exists
  <2>2. CASE Become(r, [pc |-> "claim", n |-> reqs[r].n, retried |-> TRUE])
    <3> DEFINE x == [pc |-> "claim", n |-> reqs[r].n, retried |-> TRUE]
    <3>1. x \in Mailing
      BY <1>3, AtStep DEF JoinTenant, In, Mailing
    <3>2. Exists /\ reqs[r].pc = "join"
      BY <1>3, AtStep DEF JoinTenant, In
    <3>3. QED
      BY <1>3, <2>2, <3>1, <3>2, GoOnKept, AccountRequestCases DEF JoinTenant, accountVars, Exists
  <2>3. QED
    BY <1>3, <2>1, <2>2 DEF JoinTenant
<1>4. CASE FindByEmail(r)
  <2>1. CASE Finish(r)
    BY <1>4, <2>1, FinishKept DEF FindByEmail, accountVars, Exists
  <2>2. CASE Become(r, [pc |-> "claim", n |-> reqs[r].n, retried |-> TRUE])
    <3> DEFINE x == [pc |-> "claim", n |-> reqs[r].n, retried |-> TRUE]
    <3>1. x \in Mailing
      BY <1>4, AtStep DEF FindByEmail, In, Mailing
    <3>2. Exists /\ reqs[r].pc = "find"
      BY <1>4, AtStep DEF FindByEmail, In
    <3>3. QED
      BY <1>4, <2>2, <3>1, <3>2, GoOnKept, AccountRequestCases DEF FindByEmail, accountVars, Exists
  <2>3. QED
    BY <1>4, <2>1, <2>2 DEF FindByEmail
<1>5. CASE CreateIdentity(r)
  <2>1. CASE Finish(r) /\ UNCHANGED account
    BY <1>5, <2>1, FinishKept DEF CreateIdentity, Exists
  <2>2. CASE ~Exists /\ account' = New(reqs[r].n) /\ Become(r, [pc |-> "claim", n |-> reqs[r].n, retried |-> FALSE])
    <3> DEFINE x == [pc |-> "claim", n |-> reqs[r].n, retried |-> FALSE]
    <3>1. x \in Mailing /\ reqs[r].pc = "create" /\ ReqOK(reqs[r], account, mailed, chosen, serial)
      BY <1>5, AtStep DEF CreateIdentity, In, Mailing
    <3>2. account' # NoRow /\ account'.password = x.n
      BY <2>2 DEF New, NoRow
    <3>3. UNCHANGED <<mailed, chosen, serial>>
      BY <1>5 DEF CreateIdentity
    <3>4. ReqOK(x, account', mailed', chosen', serial')
      BY <3>1, <3>2, <3>3, AccountRequestCases DEF ReqOK, Request
    <3>5. QED
      BY <2>2, <3>1, <3>3, <3>4, RequestsKept DEF IInv
  <2>3. QED
    BY <1>5, <2>1, <2>2 DEF CreateIdentity
<1>6. CASE CreateCustomer(r)
  <2>1. serial' \in Serials /\ serial' = serial + 1 /\ serial' \notin chosen /\ UNCHANGED <<mailed, chosen>>
    BY <1>1, <1>6 DEF CreateCustomer, Start, Serials, IInv, AccountOK
  <2>2. CASE Exists
    <3>1. [pc |-> "find", n |-> serial'] \in Plain
      BY <2>1 DEF Plain
    <3>2. QED
      BY <1>6, <2>1, <2>2, <3>1, StartKept, AccountRequestCases, ZenonT(60) DEF CreateCustomer
  <2>3. CASE ~Exists
    <3> DEFINE x == [pc |-> "claim", n |-> serial', retried |-> FALSE]
    <3>1. x \in Mailing
      BY <2>1 DEF Mailing
    <3>2. Become(r, x) /\ account' = New(serial')
      BY <1>6, <2>3, ZenonT(60) DEF CreateCustomer
    <3>3. account' # NoRow /\ account'.password = x.n
      BY <3>2 DEF New, NoRow
    <3>4. ReqOK(x, account', mailed', chosen', serial')
      BY <1>1, <2>1, <3>1, <3>3, AccountRequestCases DEF ReqOK, Request
    <3>5. QED
      BY <2>1, <2>3, <3>2, <3>4, RequestsKept, ZenonT(60) DEF IInv
  <2>4. QED
    BY <2>2, <2>3
<1>7. QED
  BY <1>2, <1>3, <1>4, <1>5, <1>6

\* Delivery of a first password: only an activation replaces the stored one.
LEMMA DeliveryRequests ==
  ASSUME IInv, NEW r \in Slots,
         ClaimInitialDelivery(r) \/ MailInitialPassword(r) \/ RecordDelivery(r) \/ ActivateCredential(r)
  PROVE  RequestsOK'
<1> USE DEF AccountPCs, PlainPCs, MailPCs, SessionPCs
<1>0. reqs[r] \in Mailing /\ reqs[r].pc \in MailPCs /\ account \in Account /\ Exists
  BY AtStep, Shape DEF ClaimInitialDelivery, MailInitialPassword, RecordDelivery, ActivateCredential, In
<1>1. ASSUME NEW pc \in MailPCs PROVE [reqs[r] EXCEPT !.pc = pc] \in Mailing
  BY <1>0 DEF Mailing
<1>2. CASE ClaimInitialDelivery(r)
  <2>1. CASE Finish(r) /\ UNCHANGED account
    BY <1>2, <2>1, FinishKept DEF ClaimInitialDelivery, Exists
  <2>2. CASE account' = [account EXCEPT !.delivery = "sending", !.claim = reqs[r].n, !.lapsed = FALSE] /\ Goto(r, "mail")
    <3> DEFINE x == [reqs[r] EXCEPT !.pc = "mail"]
    <3>1. x \in Mailing /\ x.pc = "mail" /\ x.n = reqs[r].n /\ x.retried = reqs[r].retried /\ reqs[r].pc = "claim"
      BY <1>0, <1>1, <1>2 DEF ClaimInitialDelivery, In, Mailing
    <3>2. account' \in Account /\ account'.password = account.password
      BY <1>0, <2>2, ZenonT(60) DEF Account, Mailing
    <3>3. Become(r, x)
      BY <2>2, GotoIsBecome
    <3>4. UNCHANGED <<mailed, chosen, serial>>
      BY <1>2 DEF ClaimInitialDelivery
    <3>5. QED
      BY <3>1, <3>2, <3>3, <3>4, GoOnKept, AccountRequestCases, NoRowIsNoAccount, ZenonT(60)
  <2>3. QED
    BY <1>2, <2>1, <2>2 DEF ClaimInitialDelivery
<1>3. CASE MailInitialPassword(r)
  <2>1. reqs[r].pc = "mail" /\ UNCHANGED <<account, chosen, serial>>
    BY <1>3 DEF MailInitialPassword, SendWithRetry, In
  <2>2. CASE mailed' = mailed \cup {reqs[r].n} /\ Goto(r, IF reqs[r].retried THEN "activate" ELSE "markSent")
    <3> DEFINE x == [reqs[r] EXCEPT !.pc = IF reqs[r].retried THEN "activate" ELSE "markSent"]
    <3>1. x \in Mailing /\ x.n = reqs[r].n /\ x.retried = reqs[r].retried
      BY <1>0, <1>1 DEF Mailing
    <3>2. x.pc = (IF reqs[r].retried THEN "activate" ELSE "markSent")
      BY <1>0 DEF Mailing
    <3>3. Become(r, x)
      BY <2>2, GotoIsBecome
    <3>4. x \in AccountRequest /\ x.pc \in {"markSent", "activate"} /\ (x.pc = "markSent" => ~x.retried)
      BY <3>1, <3>2, AccountRequestCases
    <3>5. x.n \in mailed' /\ mailed \subseteq mailed' /\ account' # NoRow /\ account'.password = account.password
      BY <1>0, <2>1, <2>2, <3>1 DEF Exists
    <3> HIDE DEF x
    <3>6. QED
      BY <2>1, <3>1, <3>3, <3>4, <3>5, GoOnKept
  <2>3. CASE mailed' \in {mailed, mailed \cup {reqs[r].n}} /\ Goto(r, "markFailed")
    <3> DEFINE x == [reqs[r] EXCEPT !.pc = "markFailed"]
    <3>1. x \in Mailing /\ x.pc = "markFailed" /\ x.n = reqs[r].n /\ x.retried = reqs[r].retried
      BY <1>0, <1>1 DEF Mailing
    <3>2. Become(r, x)
      BY <2>3, GotoIsBecome
    <3>3. QED
      BY <1>0, <2>1, <2>3, <3>1, <3>2, GoOnKept, AccountRequestCases, ZenonT(60) DEF Exists
  <2>4. QED
    BY <1>3, <2>2, <2>3 DEF MailInitialPassword, SendWithRetry
<1>4. CASE RecordDelivery(r)
  <2>1. account' # NoRow /\ account'.password = account.password
    BY <1>0, <1>4, NoRowIsNoAccount, ZenonT(60) DEF RecordDelivery, MarkInitialDelivery, Account, NoRow
  <2>2. QED
    BY <1>4, <2>1, FinishKept DEF RecordDelivery
<1>5. CASE ActivateCredential(r)
  <2>1. reqs[r].n \in mailed
    BY <1>5, AtStep DEF ActivateCredential, In, ReqOK
  <2>2. account' # NoRow /\ account'.password \in {account.password} \cup mailed
    BY <1>0, <1>5, <2>1, NoRowIsNoAccount DEF ActivateCredential, ActivateRetriedCredential, Account, NoRow
  <2>3. QED
    BY <1>5, <2>2, FinishKept DEF ActivateCredential
<1>6. QED
  BY <1>2, <1>3, <1>4, <1>5

\* Sessions, changes and resets: a new password was mailed or chosen.
LEMMA PasswordRequests ==
  ASSUME IInv, NEW r \in Slots,
         \/ Login(r) \/ CustomerLogin(r) \/ CreateSession(r) \/ CreateCustomerSession(r)
         \/ ChangePassword(r) \/ ChangeCustomerPassword(r) \/ ComparePassword(r)
         \/ StorePassword(r) \/ UpdatePassword(r)
         \/ ForgotPassword(r) \/ ForgotCustomerPassword(r) \/ MailReset(r)
         \/ ResetPassword(r) \/ ResetCustomerPassword(r) \/ RevokeSessions(r)
  PROVE  RequestsOK'
<1> USE DEF AccountPCs, PlainPCs, MailPCs, SessionPCs
<1>1. serial \in Nat /\ MaxRequests \in Nat
  BY MembersAssumption DEF IInv, AccountOK
<1>2. CASE Login(r) \/ CustomerLogin(r)
  <2> DEFINE x == [pc |-> "open", n |-> serial', password |-> account.password]
  <2>1. serial' \in Serials /\ Exists /\ Become(r, x) /\ UNCHANGED <<account, mailed, chosen>>
    BY <1>1, <1>2 DEF Login, CustomerLogin, Start, Serials, accountVars
  <2>2. account.password \in Serials
    BY <2>1 DEF IInv, AccountOK, Exists, Account
  <2>3. x \in Opening
    BY <2>1, <2>2 DEF Opening
  <2>4. QED
    BY <1>2, <2>1, <2>3, StartKept, AccountRequestCases DEF Login, CustomerLogin
<1>3. CASE CreateSession(r) \/ CreateCustomerSession(r) \/ RevokeSessions(r)
  BY <1>3, FinishKept DEF CreateSession, CreateCustomerSession, RevokeSessions, Exists
<1>4. CASE ChangePassword(r) \/ ChangeCustomerPassword(r)
  <2>1. PICK s \in Live : Become(r, [pc |-> "compare", n |-> serial', session |-> s])
    BY <1>4 DEF ChangePassword, ChangeCustomerPassword
  <2>2. serial' \in Serials /\ Exists /\ s \in Serials /\ UNCHANGED <<account, mailed, chosen>>
    BY <1>1, <1>4, <2>1 DEF ChangePassword, ChangeCustomerPassword, Start, Serials, accountVars, IInv, SessionsOK, Live
  <2>3. [pc |-> "compare", n |-> serial', session |-> s] \in Changing
    BY <2>2 DEF Changing
  <2>4. QED
    BY <1>4, <2>1, <2>2, <2>3, StartKept, AccountRequestCases DEF ChangePassword, ChangeCustomerPassword
<1>5. CASE ComparePassword(r)
  <2>1. CASE Finish(r)
    BY <1>5, <2>1, FinishKept, ZenonT(60) DEF ComparePassword, accountVars, Exists
  <2>2. CASE Goto(r, "change")
    <3> DEFINE x == [reqs[r] EXCEPT !.pc = "change"]
    <3>1. reqs[r] \in Changing /\ Exists /\ reqs[r].pc = "compare"
      BY <1>5, AtStep, Shape, ZenonT(60) DEF ComparePassword, In
    <3>2. x \in Changing /\ x.pc = "change" /\ x.n = reqs[r].n
      BY <3>1 DEF Changing
    <3>3. Become(r, x)
      BY <2>2, GotoIsBecome
    <3>4. QED
      BY <1>5, <3>1, <3>2, <3>3, GoOnKept, AccountRequestCases, ZenonT(60) DEF ComparePassword, accountVars, Exists
  <2>3. QED
    BY <1>5, <2>1, <2>2 DEF ComparePassword
<1>6. CASE StorePassword(r)
  <2>1. reqs[r].pc = "change" /\ account \in Account
    BY <1>6, AtStep DEF StorePassword, In
  <2>2. CASE UNCHANGED <<account, chosen>>
    BY <1>6, <2>2, FinishKept DEF StorePassword, Exists
  <2>3. CASE account' = [account EXCEPT !.password = reqs[r].n, !.mustChange = FALSE] /\ chosen' = chosen \cup {reqs[r].n}
    <3>1. account' # NoRow /\ account'.password = reqs[r].n
      BY <2>1, <2>3, ZenonT(60) DEF Account, NoRow
    <3>2. QED
      BY <1>6, <2>1, <2>3, <3>1, FinishKept DEF StorePassword
  <2>4. QED
    BY <1>6, <2>2, <2>3 DEF StorePassword
<1>7. CASE UpdatePassword(r)
  <2> DEFINE x == [pc |-> "revoke", n |-> reqs[r].n, keep |-> reqs[r].session]
  <2>1. /\ reqs[r].pc = "change" /\ reqs[r] \in Changing /\ account \in Account
        /\ ReqOK(reqs[r], account, mailed, chosen, serial)
    BY <1>7, AtStep, Shape DEF UpdatePassword, In
  <2>2. x \in Revoking
    BY <2>1, ZenonT(60) DEF Changing, Revoking
  <2>3. account' # NoRow /\ account'.password = reqs[r].n /\ chosen' = chosen \cup {reqs[r].n}
    BY <1>7, <2>1, ZenonT(60) DEF UpdatePassword, Account, NoRow
  <2>4. ReqOK(x, account', mailed', chosen', serial')
    BY <1>7, <2>1, <2>2, <2>3, AccountRequestCases DEF ReqOK, Request, UpdatePassword
  <2>5. QED
    BY <1>7, <2>1, <2>3, <2>4, RequestsKept DEF IInv, UpdatePassword
<1>8. CASE ForgotPassword(r) \/ ForgotCustomerPassword(r)
  <2>1. serial' \in Serials
    BY <1>1, <1>8 DEF ForgotPassword, ForgotCustomerPassword, Start, Serials
  <2>2. [pc |-> "mailReset", n |-> serial'] \in Plain
    BY <2>1 DEF Plain
  <2>3. QED
    BY <1>8, <2>2, StartKept, AccountRequestCases DEF ForgotPassword, ForgotCustomerPassword, accountVars
<1>9. CASE MailReset(r)
  <2>1. reqs[r].pc = "mailReset" /\ reqs[r] \in Plain /\ Exists /\ UNCHANGED <<account, chosen, serial>>
    BY <1>9, AtStep, Shape, ZenonT(60) DEF MailReset, SendWithRetry, In
  <2>2. CASE mailed' = mailed \cup {reqs[r].n} /\ Goto(r, "reset")
    <3> DEFINE x == [reqs[r] EXCEPT !.pc = "reset"]
    <3>1. x \in Plain /\ x.n = reqs[r].n /\ x.pc = "reset"
      BY <2>1 DEF Plain
    <3>2. Become(r, x)
      BY <2>2, GotoIsBecome
    <3>3. x \in AccountRequest /\ x.n \in mailed' /\ mailed \subseteq mailed' /\ account' # NoRow
      BY <2>1, <2>2, <3>1, AccountRequestCases DEF Exists
    <3> HIDE DEF x
    <3>4. QED
      BY <2>1, <3>1, <3>2, <3>3, GoOnKept, ZenonT(60)
  <2>3. CASE mailed \subseteq mailed' /\ Finish(r)
    BY <2>1, <2>3, FinishKept, ZenonT(60) DEF Exists
  <2>4. QED
    BY <1>9, <2>2, <2>3 DEF MailReset, SendWithRetry
<1>10. CASE ResetPassword(r)
  <2>1. reqs[r].pc = "reset" /\ account \in Account /\ reqs[r].n \in mailed
    BY <1>10, AtStep DEF ResetPassword, In, ReqOK
  <2>2. account' # NoRow /\ account'.password \in {account.password} \cup mailed
    BY <1>10, <2>1, NoRowIsNoAccount, ZenonT(60) DEF ResetPassword, Account, NoRow
  <2>3. QED
    BY <1>10, <2>2, FinishKept DEF ResetPassword
<1>11. CASE ResetCustomerPassword(r)
  <2> DEFINE x == [pc |-> "revoke", n |-> reqs[r].n, keep |-> 0]
  <2>1. /\ reqs[r].pc = "reset" /\ reqs[r].n \in Serials /\ account \in Account
        /\ ReqOK(reqs[r], account, mailed, chosen, serial)
    BY <1>11, AtStep DEF ResetCustomerPassword, In
  <2>2. x \in Revoking
    BY <2>1, ZenonT(60) DEF Revoking
  <2>3. account' # NoRow /\ account'.password = reqs[r].n /\ reqs[r].n \in mailed
    BY <1>11, <2>1, ZenonT(60) DEF ResetCustomerPassword, Account, NoRow, ReqOK
  <2>4. ReqOK(x, account', mailed', chosen', serial')
    BY <1>11, <2>1, <2>2, <2>3, AccountRequestCases DEF ReqOK, Request, ResetCustomerPassword
  <2>5. QED
    BY <1>11, <2>1, <2>3, <2>4, RequestsKept DEF IInv, ResetCustomerPassword
<1>12. QED
  BY <1>2, <1>3, <1>4, <1>5, <1>6, <1>7, <1>8, <1>9, <1>10, <1>11

\* Requests about members have no number.
LEMMA MemberRequests ==
  ASSUME IInv, NEW r \in Slots, ReadPath(r) \/ MemberStep(r), UNCHANGED accountVars
  PROVE  RequestsOK'
<1> USE DEF RoutedPCs, AimedPCs
<1>1. UNCHANGED <<account, mailed, chosen>> /\ (Exists => account' # NoRow)
  BY DEF accountVars, Exists
<1>2. serial' = serial \/ serial' = serial + 1
  BY ZenonT(60) DEF ReadPath, Start, MemberStep, WritePath, Forward, Authenticate, StatusRequest, RoleRequest,
     UpdateMember, CommitMember
<1>3. ASSUME NEW x \in MemberRequest, Become(r, x) PROVE RequestsOK'
  <2>1. x \in Request /\ x.pc \notin AccountPCs \cup MailPCs
    BY MemberRequestCases DEF Request, Routed, Aimed, AccountPCs, MailPCs, PlainPCs, SessionPCs
  <2>2. x.pc \notin {"markSent", "activate", "reset"}
    BY <2>1 DEF AccountPCs, MailPCs, PlainPCs
  <2>3. ReqOK(x, account', mailed', chosen', serial')
    BY <2>1, <2>2 DEF ReqOK, MailPCs, AccountPCs
  <2>4. QED
    BY <1>1, <1>2, <1>3, <2>1, <2>3, RequestsKept, ZenonT(60) DEF IInv
<1>4. ASSUME Finish(r) PROVE RequestsOK'
  BY <1>1, <1>2, <1>4, IdleOK, RequestsKept DEF IInv, Finish
<1>5. ASSUME NEW pc \in AimedPCs, Goto(r, pc), reqs[r].pc \in AimedPCs PROVE RequestsOK'
  <2>1. reqs[r] \in Aimed
    BY <1>5, AtStep, Shape
  <2>2. [reqs[r] EXCEPT !.pc = pc] \in Aimed
    BY <1>5, <2>1 DEF Aimed
  <2>3. QED
    BY <1>3, <1>5, <2>2, GotoIsBecome, MemberRequestCases
<1>6. CASE ReadPath(r)
  <2>1. PICK route \in MemberRoutes, actor \in Identities, named \in Identities :
          Become(r, [pc |-> "write", route |-> route, actor |-> actor, named |-> named,
                     seen |-> paths[PathOf(route)]])
    BY <1>6 DEF ReadPath
  <2>2. paths[PathOf(route)] \in Identities \cup {Template}
    BY DEF IInv, PathsOK, PathOf
  <2>3. [pc |-> "write", route |-> route, actor |-> actor, named |-> named,
         seen |-> paths[PathOf(route)]] \in Routed
    BY <2>2 DEF Routed
  <2>4. QED
    BY <1>3, <2>1, <2>3, MemberRequestCases
<1>7. CASE WritePath(r)
  <2>1. reqs[r] \in Routed /\ Goto(r, "forward")
    BY <1>7, AtStep, Shape DEF WritePath, In
  <2>2. [reqs[r] EXCEPT !.pc = "forward"] \in Routed
    BY <2>1 DEF Routed
  <2>3. QED
    BY <1>3, <2>1, <2>2, GotoIsBecome, MemberRequestCases
<1>8. CASE Forward(r)
  <2>1. reqs[r] \in Routed /\ reqs[r].pc = "forward"
    BY <1>8, AtStep, Shape DEF Forward, In
  <2>2. paths[reqs[r].route] \in Identities
    BY <2>1 DEF IInv, PathsOK, Routed
  <2>3. [pc |-> "authenticate", route |-> reqs[r].route, actor |-> reqs[r].actor,
         named |-> reqs[r].named, target |-> paths[reqs[r].route]] \in Aimed
    BY <2>1, <2>2 DEF Routed, Aimed
  <2>4. QED
    BY <1>3, <1>8, <2>3, MemberRequestCases DEF Forward, PathOf
<1>9. CASE Authenticate(r)
  BY <1>4, <1>5, <1>9 DEF Authenticate, In
<1>10. CASE StatusRequest(r) \/ RoleRequest(r)
  BY <1>4, <1>5, <1>10 DEF StatusRequest, RoleRequest, In
<1>11. CASE UpdateMember(r)
  BY <1>4, <1>5, <1>11 DEF UpdateMember, In
<1>12. CASE CommitMember(r)
  BY <1>4, <1>12 DEF CommitMember
<1>13. QED
  BY <1>6, <1>7, <1>8, <1>9, <1>10, <1>11, <1>12 DEF MemberStep

\* Time passes, a session ends, a request is lost.
LEMMA OtherRequests ==
  ASSUME IInv, \/ RevokeSession \/ Revoke \/ ClaimLapses \/ UNCHANGED vars
               \/ \E r \in Slots : Crash(r)
  PROVE  RequestsOK'
<1>1. ASSUME NEW r \in Slots, Crash(r) PROVE RequestsOK'
  BY <1>1, FinishKept DEF Crash, Exists
<1>2. CASE RevokeSession \/ Revoke \/ UNCHANGED vars
  <2>1. UNCHANGED <<reqs, account, mailed, chosen, serial>>
    BY <1>2 DEF RevokeSession, Revoke, vars, accountVars
  <2>2. QED
    BY <2>1 DEF IInv, RequestsOK
<1>3. CASE ClaimLapses
  <2>1. account \in Account
    BY <1>3 DEF ClaimLapses, Exists, IInv, AccountOK
  <2>2. account' # NoRow /\ account'.password = account.password
    BY <1>3, <2>1 DEF ClaimLapses, Account, NoRow
  <2>3. UNCHANGED <<reqs, mailed, chosen, serial>> /\ serial \in Nat
    BY <1>3 DEF ClaimLapses, IInv, AccountOK
  <2>4. ASSUME NEW q \in Slots PROVE ReqOK(reqs[q], account', mailed', chosen', serial')
    <3>1. ReqOK(reqs[q], account, mailed, chosen, serial)
      BY DEF IInv, RequestsOK
    <3>2. reqs[q].pc \in AccountPCs \ {"revoke"} => reqs[q].n \notin chosen
      BY <3>1 DEF ReqOK
    <3>3. QED
      BY <2>2, <2>3, <3>1, <3>2, ReqKept
  <2>5. QED
    BY <2>3, <2>4 DEF IInv, RequestsOK
<1>4. QED
  BY <1>1, <1>2, <1>3

-----------------------------------------------------------------------------
(* The account.                                                            *)

\* Nothing is done to the account.
LEMMA AccountUntouched ==
  ASSUME IInv, UNCHANGED <<account, mailed, chosen>>, serial' \in {serial, serial + 1},
         serial' = serial \/ serial < MaxRequests
  PROVE  AccountOK'
<1>1. serial \in 0..MaxRequests /\ MaxRequests \in Nat
  BY MembersAssumption DEF IInv, AccountOK
<1>2. serial' \in 0..MaxRequests /\ chosen' \subseteq 1..serial'
  BY <1>1 DEF IInv, AccountOK
<1>3. QED
  BY <1>2 DEF IInv, AccountOK, Exists, PasswordIsKnown

\* A new account, with a password that is nobody's choice yet.
LEMMA AccountCreated ==
  ASSUME IInv, NEW n \in Serials, n \notin chosen, account' = New(n), UNCHANGED <<mailed, chosen>>,
         serial' \in {serial, serial + 1}, serial' = serial \/ serial < MaxRequests
  PROVE  AccountOK'
<1>1. serial \in 0..MaxRequests /\ MaxRequests \in Nat
  BY MembersAssumption DEF IInv, AccountOK
<1>2. serial' \in 0..MaxRequests /\ chosen' \subseteq 1..serial' /\ mailed' \subseteq Serials
  BY <1>1 DEF IInv, AccountOK
<1>3. account' \in Account
  BY DEF New, Account
<1>4. account'.delivery = "pending" /\ account'.claim = 0 /\ account'.mustChange = TRUE /\ account'.password = n
  BY DEF New
<1>5. QED
  BY <1>2, <1>3, <1>4 DEF AccountOK, Exists, PasswordIsKnown

\* Every other step on an existing account: what it has to leave behind.
LEMMA AccountChanged ==
  ASSUME IInv, account' \in Account, account'.delivery = "sending" <=> account'.claim # 0,
         serial' = serial, mailed' \subseteq Serials, chosen' \subseteq 1..serial,
         account'.delivery = "sent" => account'.password \in mailed' \cup chosen',
         account'.mustChange <=> account'.password \notin chosen'
  PROVE  AccountOK'
  BY DEF IInv, AccountOK, Exists, PasswordIsKnown

\* The delivery of an initial password: claim and status go together, and a password that
\* counts as sent was mailed.
LEMMA DeliveryAccount ==
  ASSUME IInv, NEW r \in Slots,
         ClaimInitialDelivery(r) \/ MailInitialPassword(r) \/ RecordDelivery(r) \/ ActivateCredential(r)
  PROVE  AccountOK'
<1> USE DEF AccountPCs, PlainPCs, MailPCs, SessionPCs
<1>0. reqs[r] \in Mailing /\ reqs[r].n \in Serials /\ reqs[r].n # 0 /\ account \in Account /\ Exists
  BY AtStep, Shape, MembersAssumption DEF ClaimInitialDelivery, MailInitialPassword, RecordDelivery, ActivateCredential, In, Serials
<1>1. /\ account.delivery = "sending" <=> account.claim # 0
      /\ account.delivery = "sent" => account.password \in mailed \cup chosen
      /\ account.mustChange <=> account.password \notin chosen
      /\ mailed \subseteq Serials /\ chosen \subseteq 1..serial
  BY <1>0 DEF IInv, AccountOK, PasswordIsKnown
<1>2. CASE ClaimInitialDelivery(r)
  <2>1. CASE UNCHANGED account
    BY <1>2, <2>1, AccountUntouched DEF ClaimInitialDelivery
  <2>2. CASE account' = [account EXCEPT !.delivery = "sending", !.claim = reqs[r].n, !.lapsed = FALSE]
    <3>1. /\ account' \in Account /\ account'.delivery = "sending" /\ account'.claim = reqs[r].n
          /\ account'.password = account.password /\ account'.mustChange = account.mustChange
      BY <1>0, <2>2, ZenonT(60) DEF Account
    <3>2. QED
      BY <1>0, <1>1, <1>2, <3>1, AccountChanged DEF ClaimInitialDelivery
  <2>3. QED
    BY <1>2, <2>1, <2>2 DEF ClaimInitialDelivery
<1>3. CASE MailInitialPassword(r)
  <2>1. UNCHANGED <<account, chosen, serial>> /\ mailed' \in {mailed, mailed \cup {reqs[r].n}}
    BY <1>3 DEF MailInitialPassword, SendWithRetry
  <2>2. QED
    BY <1>0, <1>1, <2>1, AccountChanged
<1>4. CASE RecordDelivery(r)
  <2>1. UNCHANGED <<mailed, chosen, serial>>
    BY <1>4 DEF RecordDelivery
  <2>2. CASE account' = account
    BY <2>1, <2>2, AccountUntouched
  <2>3. CASE account' = [account EXCEPT !.delivery = "failed", !.claim = 0, !.lapsed = FALSE]
    <3>1. /\ account' \in Account /\ account'.delivery = "failed" /\ account'.claim = 0
          /\ account'.password = account.password /\ account'.mustChange = account.mustChange
      BY <1>0, <2>3, ZenonT(60) DEF Account
    <3>2. QED
      BY <1>1, <2>1, <3>1, AccountChanged
  <2>4. CASE reqs[r].pc = "markSent" /\ account' = [account EXCEPT !.delivery = "sent", !.claim = 0, !.lapsed = FALSE]
    <3>1. /\ account' \in Account /\ account'.delivery = "sent" /\ account'.claim = 0
          /\ account'.password = account.password /\ account'.mustChange = account.mustChange
      BY <1>0, <2>4, ZenonT(60) DEF Account
    <3>2. account.password \in mailed \cup chosen
      BY <2>4, AtStep DEF ReqOK
    <3>3. QED
      BY <1>1, <2>1, <3>1, <3>2, AccountChanged
  <2>5. QED
    BY <1>4, <2>2, <2>3, <2>4 DEF RecordDelivery, MarkInitialDelivery, In
<1>5. CASE ActivateCredential(r)
  <2>1. UNCHANGED <<mailed, chosen, serial>> /\ reqs[r].n \in mailed /\ reqs[r].n \notin chosen
    BY <1>5, AtStep DEF ActivateCredential, In, ReqOK
  <2>2. CASE account' = account
    BY <2>1, <2>2, AccountUntouched
  <2>3. CASE account' = [password |-> reqs[r].n, mustChange |-> TRUE, delivery |-> "sent", claim |-> 0, lapsed |-> FALSE]
    <3>1. /\ account' \in Account /\ account'.delivery = "sent" /\ account'.claim = 0
          /\ account'.password = reqs[r].n /\ account'.mustChange = TRUE
      BY <1>0, <2>3 DEF Account
    <3>2. QED
      BY <1>1, <2>1, <3>1, AccountChanged
  <2>4. QED
    BY <1>5, <2>2, <2>3 DEF ActivateCredential, ActivateRetriedCredential
<1>6. QED
  BY <1>2, <1>3, <1>4, <1>5

\* A password that is chosen need not be changed, one that is mailed must be.
LEMMA PasswordAccount ==
  ASSUME IInv, NEW r \in Slots,
         StorePassword(r) \/ UpdatePassword(r) \/ ResetPassword(r) \/ ResetCustomerPassword(r) \/ MailReset(r)
  PROVE  AccountOK'
<1> USE DEF AccountPCs, PlainPCs, MailPCs, SessionPCs
<1>0. reqs[r].n \in Serials /\ account \in Account /\ Exists /\ serial' = serial
  BY AtStep DEF StorePassword, UpdatePassword, ResetPassword, ResetCustomerPassword, MailReset, SendWithRetry, In
<1>1. /\ account.delivery = "sending" <=> account.claim # 0
      /\ account.delivery = "sent" => account.password \in mailed \cup chosen
      /\ account.mustChange <=> account.password \notin chosen
      /\ mailed \subseteq Serials /\ chosen \subseteq 1..serial
  BY <1>0 DEF IInv, AccountOK, PasswordIsKnown
<1>2. reqs[r].n \in 1..serial /\ reqs[r].n \notin chosen
  <2>1. reqs[r].pc \in {"change", "reset", "mailReset"}
    BY DEF StorePassword, UpdatePassword, ResetPassword, ResetCustomerPassword, MailReset, In
  <2>2. serial \in Nat
    BY DEF IInv, AccountOK
  <2>3. QED
    BY <1>0, <2>1, <2>2, AtStep, MembersAssumption DEF ReqOK, Serials
<1>3. CASE /\ account' = [account EXCEPT !.password = reqs[r].n, !.mustChange = FALSE]
           /\ chosen' = chosen \cup {reqs[r].n}
           /\ UNCHANGED mailed
  <2>1. /\ account' \in Account /\ account'.delivery = account.delivery /\ account'.claim = account.claim
        /\ account'.password = reqs[r].n /\ account'.mustChange = FALSE
    BY <1>0, <1>3, ZenonT(60) DEF Account
  <2>2. QED
    BY <1>0, <1>1, <1>2, <1>3, <2>1, AccountChanged
<1>4. CASE /\ account' = [account EXCEPT !.password = reqs[r].n, !.mustChange = TRUE]
           /\ In(r, "reset")
           /\ UNCHANGED <<mailed, chosen>>
  <2>1. /\ account' \in Account /\ account'.delivery = account.delivery /\ account'.claim = account.claim
        /\ account'.password = reqs[r].n /\ account'.mustChange = TRUE
    BY <1>0, <1>4, ZenonT(60) DEF Account
  <2>2. reqs[r].n \in mailed
    BY <1>4, AtStep DEF In, ReqOK
  <2>3. QED
    BY <1>0, <1>1, <1>2, <1>4, <2>1, <2>2, AccountChanged
<1>5. CASE UNCHANGED <<account, mailed, chosen>>
  BY <1>0, <1>5, AccountUntouched
<1>6. CASE MailReset(r)
  <2>1. UNCHANGED <<account, chosen>> /\ mailed' \in {mailed, mailed \cup {reqs[r].n}}
    BY <1>6 DEF MailReset, SendWithRetry
  <2>2. QED
    BY <1>0, <1>1, <2>1, AccountChanged
<1>7. QED
  BY <1>3, <1>4, <1>5, <1>6 DEF StorePassword, UpdatePassword, ResetPassword, ResetCustomerPassword

\* Every step keeps what is known of the account.
LEMMA AccountStep ==
  ASSUME IInv, [Next]_vars
  PROVE  AccountOK'
<1>1. ASSUME UNCHANGED <<account, mailed, chosen, serial>> PROVE AccountOK'
  BY <1>1, AccountUntouched
<1>2. ASSUME NEW r \in Slots, NEW realms, Start(r, realms), UNCHANGED <<account, mailed, chosen>> PROVE AccountOK'
  BY <1>2, AccountUntouched DEF Start
<1>3. ASSUME NEW r \in Slots, ReadPath(r) \/ MemberStep(r), UNCHANGED accountVars PROVE AccountOK'
  BY <1>1, <1>2, <1>3, ZenonT(60) DEF accountVars, ReadPath, MemberStep, WritePath, Forward, Authenticate,
     StatusRequest, RoleRequest, UpdateMember, CommitMember
<1>4. ASSUME NEW r \in Slots, CredentialRequest(r) PROVE AccountOK'
  BY <1>2, <1>4 DEF CredentialRequest, Register, Login, ChangePassword, ForgotPassword, accountVars
<1>5. ASSUME NEW r \in Slots, CreateIdentity(r) PROVE AccountOK'
  <2>1. CASE UNCHANGED account
    BY <1>1, <1>5, <2>1 DEF CreateIdentity
  <2>2. CASE account' = New(reqs[r].n)
    <3>1. reqs[r].n \in Serials /\ reqs[r].n \notin chosen
      BY <1>5, AtStep DEF CreateIdentity, In, ReqOK, AccountPCs, PlainPCs
    <3>2. QED
      BY <1>5, <2>2, <3>1, AccountCreated DEF CreateIdentity
  <2>3. QED
    BY <1>5, <2>1, <2>2 DEF CreateIdentity
<1>6. ASSUME NEW r \in Slots, CredentialStep(r) PROVE AccountOK'
  BY <1>1, <1>5, <1>6, DeliveryAccount, PasswordAccount, ZenonT(60) DEF CredentialStep, JoinTenant, CreateSession,
     ComparePassword, accountVars
<1>7. ASSUME NEW r \in Slots, CustomerRequest(r) PROVE AccountOK'
  <2>1. CASE CreateCustomer(r) /\ ~Exists
    <3>1. serial' = serial + 1 /\ serial < MaxRequests /\ account' = New(serial') /\ UNCHANGED <<mailed, chosen>>
      BY <2>1 DEF CreateCustomer, Start
    <3>2. serial \in Nat /\ serial' \in Serials /\ serial' \notin chosen
      BY <3>1, MembersAssumption DEF IInv, AccountOK, Serials
    <3>3. QED
      BY <3>1, <3>2, AccountCreated
  <2>2. CASE CreateCustomer(r) /\ Exists
    BY <1>2, <2>2 DEF CreateCustomer
  <2>3. QED
    BY <1>2, <1>7, <2>1, <2>2, ZenonT(60) DEF CustomerRequest, CustomerLogin, ChangeCustomerPassword, ForgotCustomerPassword, accountVars
<1>8. ASSUME NEW r \in Slots, CustomerStep(r) PROVE AccountOK'
  BY <1>1, <1>8, PasswordAccount DEF CustomerStep, FindByEmail, CreateCustomerSession, RevokeSessions, accountVars
<1>9. ASSUME NEW r \in Slots, Crash(r) PROVE AccountOK'
  BY <1>1, <1>9 DEF Crash
<1>10. CASE RevokeSession \/ Revoke \/ UNCHANGED vars
  BY <1>1, <1>10 DEF RevokeSession, Revoke, vars, accountVars
<1>11. CASE ClaimLapses
  <2>1. account \in Account /\ Exists
    BY <1>11 DEF ClaimLapses, Exists, IInv, AccountOK
  <2>2. /\ account' \in Account /\ account'.delivery = account.delivery /\ account'.claim = account.claim
        /\ account'.password = account.password /\ account'.mustChange = account.mustChange
    BY <1>11, <2>1, ZenonT(60) DEF ClaimLapses, Account
  <2>3. QED
    BY <1>11, <2>1, <2>2, AccountChanged DEF ClaimLapses, IInv, AccountOK, PasswordIsKnown
<1>12. QED
  BY <1>3, <1>4, <1>6, <1>7, <1>8, <1>9, <1>10, <1>11 DEF Next



-----------------------------------------------------------------------------
(* Sessions.                                                               *)

\* Sessions and the password stay, and nobody stops revoking.
LEMMA SessionsUntouched ==
  ASSUME IInv, UNCHANGED sessions, Exists => account' # NoRow /\ account'.password = account.password,
         \A r \in Slots : In(r, "revoke") => reqs'[r] = reqs[r]
  PROVE  SessionsOK'
<1>1. Live' = Live
  BY DEF Live
<1>2. ASSUME NEW s \in Live, sessions[s].password # account'.password
      PROVE  sessions[s].excused \/ \E r \in Slots : reqs'[r].pc = "revoke" /\ reqs'[r].keep # s
  <2>1. sessions[s].password # account.password
    BY <1>2 DEF IInv, SessionsOK
  <2>2. sessions[s].excused \/ \E r \in Slots : In(r, "revoke") /\ reqs[r].keep # s
    BY <2>1 DEF IInv, SessionsOK, SessionEndsWithItsPassword
  <2>3. QED
    BY <2>2 DEF In
<1>3. QED
  BY <1>1, <1>2 DEF IInv, SessionsOK, SessionEndsWithItsPassword, Exists, In

\* All sessions that are left were there and are excused.
LEMMA SessionsExcused ==
  ASSUME IInv, NEW T, sessions' = [s \in Serials |-> IF s \in T THEN Excused({s})[s] ELSE NoRow],
         Exists => account' # NoRow
  PROVE  SessionsOK'
<1>1. ASSUME NEW s \in Serials
      PROVE  /\ sessions'[s] \in SessionRow \cup {NoRow}
             /\ sessions'[s] # NoRow => sessions'[s].excused /\ s \in Live
  <2>1. CASE s \in T /\ sessions[s] # NoRow
    <3>1. sessions[s] \in SessionRow
      BY <2>1 DEF IInv, SessionsOK
    <3>2. sessions'[s] = [sessions[s] EXCEPT !.excused = TRUE]
      BY <2>1 DEF Excused
    <3>3. QED
      BY <2>1, <3>1, <3>2, ZenonT(60) DEF SessionRow, Live
  <2>2. CASE ~(s \in T /\ sessions[s] # NoRow)
    BY <2>2 DEF Excused
  <2>3. QED
    BY <2>1, <2>2
<1>2. sessions' \in [Serials -> SessionRow \cup {NoRow}]
  BY <1>1
<1>3. Live' \subseteq Live /\ \A s \in Live' : sessions'[s].excused
  BY <1>1 DEF Live
<1>4. Live' # {} => Exists'
  BY <1>3 DEF IInv, SessionsOK, Exists
<1>5. QED
  BY <1>2, <1>3, <1>4, ZenonT(60) DEF SessionsOK, SessionEndsWithItsPassword

\* When all sessions are excused, each may outlive its password.
LEMMA AllExcused ==
  ASSUME IInv, sessions' = Excused(Live), Exists => account' # NoRow
  PROVE  SessionsOK'
<1>1. ASSUME NEW s \in Serials PROVE Excused(Live)[s] = Excused({s})[s]
  BY DEF Excused, Live
<1>2. sessions' = [s \in Serials |-> IF s \in Serials THEN Excused({s})[s] ELSE NoRow]
  BY <1>1 DEF Excused
<1>3. QED
  BY <1>2, SessionsExcused

\* Sessions end; whoever of the others is revoking goes on.
LEMMA SessionsEnded ==
  ASSUME IInv, NEW T, sessions' = Ended(T), UNCHANGED account,
         \A s \in Live \ T : sessions[s].password # account.password => \/ sessions[s].excused
           \/ \E r \in Slots : reqs'[r].pc = "revoke" /\ reqs'[r].keep # s
  PROVE  SessionsOK'
<1>1. sessions' \in [Serials -> SessionRow \cup {NoRow}]
  BY DEF IInv, SessionsOK, Ended
<1>2. Live' = Live \ T /\ \A s \in Live' : sessions'[s] = sessions[s]
  BY DEF Live, Ended
<1>3. QED
  BY <1>1, <1>2 DEF IInv, SessionsOK, SessionEndsWithItsPassword, Exists, In

\* The new session is excused when its password was replaced since it was compared.
LEMMA SessionOpened ==
  ASSUME IInv, NEW r \in Slots, reqs[r].pc = "open", sessions' = Opened(r), Finish(r), UNCHANGED account
  PROVE  SessionsOK'
<1>1. reqs[r] \in Opening /\ Exists
  BY AtStep, Shape DEF AccountPCs
<1>2. reqs[r].n \in Serials /\ reqs[r].password \in Serials
  BY <1>1 DEF Opening
<1>3. [password |-> reqs[r].password, excused |-> reqs[r].password # account.password] \in SessionRow
  BY <1>2 DEF SessionRow
<1>4. sessions' \in [Serials -> SessionRow \cup {NoRow}]
  BY <1>2, <1>3 DEF Opened, IInv, SessionsOK
<1>5. ASSUME NEW s \in Live', sessions'[s].password # account'.password
      PROVE  sessions'[s].excused \/ \E q \in Slots : reqs'[q].pc = "revoke" /\ reqs'[q].keep # s
  <2>1. CASE s = reqs[r].n
    <3>1. sessions'[s] = [password |-> reqs[r].password, excused |-> reqs[r].password # account.password]
      BY <1>2, <2>1 DEF Opened, IInv, SessionsOK
    <3>2. sessions'[s].password = reqs[r].password
      BY <3>1
    <3>3. reqs[r].password # account.password
      BY <1>5, <3>2
    <3>4. sessions'[s] = [password |-> reqs[r].password, excused |-> TRUE]
      BY <3>1, <3>3, ZenonT(60)
    <3>5. QED
      BY <3>4
  <2>2. CASE s # reqs[r].n
    <3>1. s \in Live /\ sessions'[s] = sessions[s]
      BY <1>2, <1>5, <2>2 DEF Opened, Live, IInv, SessionsOK
    <3>2. sessions[s].excused \/ \E q \in Slots : In(q, "revoke") /\ reqs[q].keep # s
      BY <1>5, <3>1 DEF IInv, SessionsOK, SessionEndsWithItsPassword
    <3>3. \A q \in Slots : In(q, "revoke") => reqs'[q] = reqs[q]
      BY DEF In, Finish, Become, IInv, RequestsOK
    <3>4. QED
      BY <3>1, <3>2, <3>3 DEF In
  <2>3. QED
    BY <2>1, <2>2
<1>6. QED
  BY <1>1, <1>4, <1>5 DEF SessionsOK, SessionEndsWithItsPassword, Exists, In

\* The password changes and the request goes on to revoke all sessions but one, which is
\* excused if it is there.
LEMMA RevocationBegins ==
  ASSUME IInv, NEW r \in Slots, NEW keep, NEW n, reqs[r].pc # "revoke",
         Become(r, [pc |-> "revoke", n |-> n, keep |-> keep]), account' # NoRow,
         sessions' = Excused({keep})
  PROVE  SessionsOK'
<1>1. ASSUME NEW s \in Serials
      PROVE  /\ sessions'[s] \in SessionRow \cup {NoRow}
             /\ s = keep /\ sessions'[s] # NoRow => sessions'[s].excused
  <2>1. CASE s = keep /\ sessions[s] # NoRow
    <3>1. sessions[s] \in SessionRow
      BY <2>1 DEF IInv, SessionsOK
    <3>2. sessions'[s] = [sessions[s] EXCEPT !.excused = TRUE]
      BY <2>1 DEF Excused
    <3>3. QED
      BY <3>1, <3>2, ZenonT(60) DEF SessionRow
  <2>2. CASE ~(s = keep /\ sessions[s] # NoRow)
    BY <2>2 DEF Excused, IInv, SessionsOK
  <2>3. QED
    BY <2>1, <2>2
<1>2. sessions' \in [Serials -> SessionRow \cup {NoRow}]
  BY <1>1 DEF Excused
<1>3. reqs'[r].pc = "revoke" /\ reqs'[r].keep = keep
  BY DEF Become, IInv, RequestsOK
<1>4. \A s \in Live' : sessions'[s].excused \/ reqs'[r].keep # s
  BY <1>1, <1>3, ZenonT(60) DEF Live
<1>5. QED
  BY <1>2, <1>3, <1>4 DEF SessionsOK, SessionEndsWithItsPassword, Exists, In

\* Every step keeps the sessions in order: a password is replaced together with the sessions
\* it opened, or by a request that will revoke them, or with an excuse.
LEMMA SessionsStep ==
  ASSUME IInv, [Next]_vars
  PROVE  SessionsOK'
<1> USE DEF AccountPCs, PlainPCs, MailPCs, SessionPCs
<1>1. ASSUME NEW r \in Slots, ~In(r, "revoke"), NEW x, Become(r, x), UNCHANGED sessions,
             Exists => account' # NoRow /\ account'.password = account.password
      PROVE  SessionsOK'
  <2>1. \A q \in Slots : In(q, "revoke") => reqs'[q] = reqs[q]
    BY <1>1 DEF In, Become, IInv, RequestsOK
  <2>2. QED
    BY <1>1, <2>1, SessionsUntouched
<1>2. ASSUME NEW r \in Slots, ~In(r, "revoke"), Finish(r), UNCHANGED <<sessions, account>>
      PROVE  SessionsOK'
  BY <1>1, <1>2 DEF Finish, Exists
<1>3. ASSUME NEW r \in Slots, ~In(r, "revoke"), NEW pc, Goto(r, pc), UNCHANGED sessions,
             Exists => account' # NoRow /\ account'.password = account.password
      PROVE  SessionsOK'
  BY <1>1, <1>3, GotoIsBecome, ZenonT(60)
<1>4. ASSUME NEW r \in Slots, ReadPath(r) \/ MemberStep(r), UNCHANGED accountVars PROVE SessionsOK'
  BY <1>1, <1>2, <1>3, <1>4, ZenonT(60) DEF accountVars, ReadPath, Start, MemberStep, WritePath, Forward, Authenticate,
     StatusRequest, RoleRequest, UpdateMember, CommitMember, In, Exists
<1>5. ASSUME NEW r \in Slots, CredentialRequest(r) PROVE SessionsOK'
  BY <1>1, <1>5, ZenonT(60) DEF CredentialRequest, Register, Login, ChangePassword, ForgotPassword, accountVars, Start, In, Exists
<1>6. ASSUME NEW r \in Slots, JoinTenant(r) \/ CreateIdentity(r) \/ ComparePassword(r) PROVE SessionsOK'
  BY <1>1, <1>2, <1>3, <1>6, ZenonT(60) DEF JoinTenant, CreateIdentity, ComparePassword, accountVars, In, Exists
<1>7. ASSUME NEW r \in Slots, ClaimInitialDelivery(r) PROVE SessionsOK'
  <2>1. reqs[r].n \in Serials /\ account \in Account /\ Exists
    BY <1>7, AtStep DEF ClaimInitialDelivery, In
  <2>2. account' # NoRow /\ account'.password = account.password
    BY <1>7, <2>1, ZenonT(60) DEF ClaimInitialDelivery, Account, NoRow, Exists
  <2>3. QED
    BY <1>1, <1>3, <1>7, <2>2 DEF ClaimInitialDelivery, In, Finish
<1>8. ASSUME NEW r \in Slots, MailInitialPassword(r) \/ MailReset(r) PROVE SessionsOK'
  BY <1>2, <1>3, <1>8, ZenonT(60) DEF MailInitialPassword, MailReset, SendWithRetry, In, Exists
<1>9. ASSUME NEW r \in Slots, RecordDelivery(r) PROVE SessionsOK'
  <2>1. account \in Account /\ Exists
    BY <1>9, AtStep DEF RecordDelivery, In
  <2>2. account' # NoRow /\ account'.password = account.password
    BY <1>9, <2>1, ZenonT(60) DEF RecordDelivery, MarkInitialDelivery, Account, NoRow, Exists
  <2>3. QED
    BY <1>1, <1>9, <2>2 DEF RecordDelivery, In, Finish
<1>10. ASSUME NEW r \in Slots, ActivateCredential(r) PROVE SessionsOK'
  <2>1. account' # NoRow
    BY <1>10, AtStep, ZenonT(60) DEF ActivateCredential, ActivateRetriedCredential, In, NoRow, Exists
  <2>2. QED
    BY <1>2, <1>10, <2>1, AllExcused DEF ActivateCredential, In
<1>11. ASSUME NEW r \in Slots, CreateSession(r) PROVE SessionsOK'
  BY <1>2, <1>11, SessionOpened DEF CreateSession, In
<1>12. ASSUME NEW r \in Slots, StorePassword(r) PROVE SessionsOK'
  <2>1. CASE UNCHANGED <<account, chosen, sessions>>
    BY <1>2, <1>12, <2>1 DEF StorePassword, In
  <2>2. CASE /\ account' = [account EXCEPT !.password = reqs[r].n, !.mustChange = FALSE]
             /\ sessions' = [s \in Serials |-> IF s = reqs[r].session THEN Excused({s})[s] ELSE NoRow]
    <3>1. account' # NoRow
      BY <1>12, <2>2, AtStep, ZenonT(60) DEF StorePassword, In, Account, NoRow
    <3>2. sessions' = [s \in Serials |-> IF s \in {reqs[r].session} THEN Excused({s})[s] ELSE NoRow]
      BY <2>2
    <3>3. QED
      BY <3>1, <3>2, SessionsExcused, ZenonT(60)
  <2>3. QED
    BY <1>12, <2>1, <2>2 DEF StorePassword
<1>13. ASSUME NEW r \in Slots, ResetPassword(r) PROVE SessionsOK'
  <2>1. CASE UNCHANGED <<account, sessions>>
    BY <1>2, <1>13, <2>1 DEF ResetPassword, In
  <2>2. CASE account' = [account EXCEPT !.password = reqs[r].n, !.mustChange = TRUE] /\ sessions' = Ended(Live)
    <3>1. account' # NoRow
      BY <1>13, <2>2, AtStep, ZenonT(60) DEF ResetPassword, In, Account, NoRow
    <3>2. \A s \in Serials : Ended(Live)[s] = NoRow
      BY DEF Ended, Live
    <3> DEFINE Left == {}
    <3>3. sessions' = [s \in Serials |-> IF s \in Left THEN Excused({s})[s] ELSE NoRow]
      BY <2>2, <3>2 DEF Ended
    <3> HIDE DEF Left
    <3>4. QED
      BY <3>1, <3>3, SessionsExcused
  <2>3. QED
    BY <1>13, <2>1, <2>2 DEF ResetPassword
<1>14. ASSUME NEW r \in Slots, CredentialStep(r) PROVE SessionsOK'
  BY <1>6, <1>7, <1>8, <1>9, <1>10, <1>11, <1>12, <1>13, <1>14 DEF CredentialStep
<1>15. ASSUME NEW r \in Slots, CustomerRequest(r) PROVE SessionsOK'
  BY <1>1, <1>15, ZenonT(60) DEF CustomerRequest, CreateCustomer, CustomerLogin, ChangeCustomerPassword,
     ForgotCustomerPassword, accountVars, Start, In, Exists
<1>16. ASSUME NEW r \in Slots, UpdatePassword(r) PROVE SessionsOK'
  <2>1. account' # NoRow
    BY <1>16, AtStep, ZenonT(60) DEF UpdatePassword, In, Account, NoRow
  <2>2. QED
    BY <1>16, <2>1, RevocationBegins, ZenonT(60) DEF UpdatePassword, In
<1>17. ASSUME NEW r \in Slots, ResetCustomerPassword(r) PROVE SessionsOK'
  <2>1. account' # NoRow
    BY <1>17, AtStep, ZenonT(60) DEF ResetCustomerPassword, In, Account, NoRow
  <2>2. sessions' = Excused({0})
    BY <1>17, MembersAssumption DEF ResetCustomerPassword, Excused, Serials, IInv, SessionsOK
  <2>3. QED
    BY <1>17, <2>1, <2>2, RevocationBegins DEF ResetCustomerPassword, In
<1>18. ASSUME NEW r \in Slots, RevokeSessions(r) PROVE SessionsOK'
  <2>1. CASE sessions' = Excused(Live)
    BY <1>18, <2>1, AllExcused DEF RevokeSessions, Exists
  <2>2. CASE sessions' = Ended(Live \ {reqs[r].keep})
    <3>1. ASSUME NEW s \in Live \ (Live \ {reqs[r].keep}), sessions[s].password # account.password
          PROVE  sessions[s].excused \/ \E q \in Slots : reqs'[q].pc = "revoke" /\ reqs'[q].keep # s
      <4>1. s = reqs[r].keep
        BY <3>1
      <4>2. sessions[s].excused \/ \E q \in Slots : In(q, "revoke") /\ reqs[q].keep # s
        BY <3>1 DEF IInv, SessionsOK, SessionEndsWithItsPassword
      <4>3. \A q \in Slots \ {r} : reqs'[q] = reqs[q]
        BY <1>18 DEF RevokeSessions, Finish, Become, IInv, RequestsOK
      <4>4. QED
        BY <4>1, <4>2, <4>3 DEF In
    <3>2. QED
      BY <1>18, <2>2, <3>1, SessionsEnded DEF RevokeSessions
  <2>3. QED
    BY <1>18, <2>1, <2>2 DEF RevokeSessions
<1>19. ASSUME NEW r \in Slots, CustomerStep(r) PROVE SessionsOK'
  BY <1>1, <1>2, <1>16, <1>17, <1>18, <1>19, SessionOpened, ZenonT(60)
     DEF CustomerStep, FindByEmail, CreateCustomerSession, accountVars, In, Exists
<1>20. ASSUME NEW r \in Slots, Crash(r) PROVE SessionsOK'
  BY <1>2, <1>20, AllExcused DEF Crash, Exists
<1>21. CASE RevokeSession \/ Revoke
  <2>1. PICK s \in Live : sessions' = Ended({s}) /\ UNCHANGED <<account, reqs>>
    BY <1>21, ZenonT(60) DEF RevokeSession, Revoke
  <2>2. QED
    BY <2>1, SessionsEnded, ZenonT(60) DEF IInv, SessionsOK, SessionEndsWithItsPassword, In
<1>22. CASE ClaimLapses
  <2>1. account \in Account
    BY <1>22 DEF ClaimLapses, Exists, IInv, AccountOK
  <2>2. account' # NoRow /\ account'.password = account.password
    BY <1>22, <2>1 DEF ClaimLapses, Account, NoRow
  <2>3. QED
    BY <1>22, <2>2, SessionsUntouched DEF ClaimLapses
<1>23. CASE UNCHANGED vars
  BY <1>23, SessionsUntouched DEF vars, accountVars, Exists
<1>24. QED
  BY <1>4, <1>5, <1>14, <1>15, <1>19, <1>20, <1>21, <1>22, <1>23 DEF Next

-----------------------------------------------------------------------------
(* The invariant holds.                                                    *)

\* Every step leaves every request in order.
LEMMA RequestsStep ==
  ASSUME IInv, [Next]_vars
  PROVE  RequestsOK'
<1>1. ASSUME NEW r \in Slots, CredentialRequest(r) \/ CustomerRequest(r) PROVE RequestsOK'
  BY <1>1, RegistrationRequests, PasswordRequests DEF CredentialRequest, CustomerRequest
<1>2. ASSUME NEW r \in Slots, CredentialStep(r) \/ CustomerStep(r) PROVE RequestsOK'
  BY <1>2, RegistrationRequests, DeliveryRequests, PasswordRequests DEF CredentialStep, CustomerStep
<1>3. ASSUME NEW r \in Slots, ReadPath(r) \/ MemberStep(r), UNCHANGED accountVars PROVE RequestsOK'
  BY <1>3, MemberRequests
<1>4. QED
  BY <1>1, <1>2, <1>3, OtherRequests DEF Next

\* The seeded state satisfies the invariant.
LEMMA InitOK == Init => IInv
<1> SUFFICES ASSUME Init PROVE IInv
  OBVIOUS
<1> USE DEF Init, MembersInit, CredentialsInit
<1>1. serial \in 0..MaxRequests /\ chosen \subseteq 1..serial
  BY MembersAssumption
<1>2. RequestsOK
  <2>1. \A r \in Slots : reqs[r] = Idle
    OBVIOUS
  <2>2. Idle \in Request
    BY DEF Request
  <2>3. ReqOK(Idle, account, mailed, chosen, serial)
    BY IdleOK
  <2>4. \A r \in Slots : reqs[r].pc = "idle"
    BY <2>1 DEF Idle
  <2>5. QED
    BY <2>1, <2>2, <2>3, <2>4 DEF RequestsOK, AccountPCs, PlainPCs, MailPCs, SessionPCs
<1>3. AccountOK
  BY <1>1 DEF AccountOK, PasswordIsKnown, Exists
<1>4. SessionsOK
  BY DEF SessionsOK, SessionEndsWithItsPassword, Live
<1>5. MembersOK
  <2>1. [role |-> "OWNER", status |-> "active"] \in Member /\ [role |-> "BARBER", status |-> "active"] \in Member
    BY DEF Member, StaffRoles
  <2>2. members \in [Identities -> Member \cup {NoRow}]
    BY <2>1
  <2>3. \A i \in Identities : i \in Owners => members[i] = [role |-> "OWNER", status |-> "active"]
    BY <2>2
  <2>4. \A i \in Identities \ Owners : members[i] # NoRow => members[i].role # "OWNER"
    BY <2>2
  <2>5. \A i \in Identities : i \in Owners <=> IsOwner(i)
    BY <2>1, <2>3, <2>4, NoRowIsNoMember DEF IsOwner, IsActive, HasStatus
  <2>6. \A r \in Slots : reqs[r].pc = "idle"
    BY DEF Idle
  <2>7. QED
    BY <2>2, <2>4, <2>5, <2>6, ZenonT(60) DEF MembersOK
<1>6. PathsOK
  <2>1. \A r \in Slots : reqs[r].pc = "idle"
    BY DEF Idle
  <2>2. QED
    BY <2>1 DEF PathsOK, RoutesDoNotMix, RoutedPCs
<1>7. QED
  BY <1>2, <1>3, <1>4, <1>5, <1>6 DEF IInv

\* Every step keeps the invariant.
LEMMA NextOK == IInv /\ [Next]_vars => IInv'
<1> SUFFICES ASSUME IInv, [Next]_vars PROVE IInv'
  OBVIOUS
<1>1. ASSUME NEW r \in Slots, ReadPath(r) \/ MemberStep(r) PROVE MembersOK' /\ PathsOK'
  BY <1>1, MembersStep, PathsStep
<1>2. ASSUME NEW r \in Slots,
             CredentialRequest(r) \/ CredentialStep(r) \/ CustomerRequest(r) \/ CustomerStep(r) \/ Crash(r)
      PROVE  MembersOK' /\ PathsOK'
  BY <1>2, AccountFrame, MembersFrame, PathsFrame
<1>3. ASSUME RevokeSession \/ Revoke \/ ClaimLapses \/ UNCHANGED vars PROVE MembersOK' /\ PathsOK'
  <2>1. UNCHANGED <<reqs, members, paths, asked, realm>>
    BY <1>3 DEF RevokeSession, Revoke, ClaimLapses, vars, memberVars
  <2>2. \A q \in Slots : reqs'[q] = reqs[q]
    BY <2>1
  <2>3. members' \in {members, Joined} /\ UNCHANGED realm /\ UNCHANGED <<paths, asked>>
    BY <2>1
  <2>4. MembersOK'
    BY <2>2, <2>3, MembersFrame
  <2>5. PathsOK'
    BY <2>2, <2>3, PathsFrame
  <2>6. QED
    BY <2>4, <2>5
<1>4. MembersOK' /\ PathsOK'
  <2>1. CASE Next
    BY <1>1, <1>2, <1>3, <2>1 DEF Next
  <2>2. QED
    BY <1>3, <2>1
<1>5. QED
  BY <1>4, RequestsStep, AccountStep, SessionsStep DEF IInv

\* The inductive invariant holds of every behaviour of the accounts.
THEOREM Inductive == Spec => []IInv
  BY InitOK, NextOK, PTL DEF Spec

\* Every row and every request keeps its shape, and a delivery is claimed exactly while it is
\* being sent.
THEOREM TypeCorrect == Spec => []TypeOK
<1>1. IInv => TypeOK
  <2> SUFFICES ASSUME IInv PROVE TypeOK
    OBVIOUS
  <2>1. reqs \in [Slots -> {Idle} \cup MemberRequest \cup AccountRequest]
    BY DEF IInv, RequestsOK, Request
  <2>2. serial \in 0..MaxRequests /\ chosen \subseteq 1..serial
    BY DEF IInv, AccountOK
  <2>3. chosen \subseteq Serials
    BY <2>2, MembersAssumption DEF Serials
  <2>4. QED
    BY <2>1, <2>2, <2>3, ZenonT(60) DEF TypeOK, IInv, AccountOK, SessionsOK, MembersOK, PathsOK
<1>2. QED
  BY <1>1, Inductive, PTL

\* The tenant keeps an active OWNER, whatever requests about its members race.
THEOREM OwnerStaysHolds == Spec => []OwnerStays
<1>1. IInv => OwnerStays
  BY MembersAssumption DEF IInv, MembersOK, OwnerStays
<1>2. QED
  BY <1>1, Inductive, PTL

\* Nobody loses the authority a request about members was let in with before it commits.
THEOREM ActorIsStillOwnerHolds == Spec => []ActorIsStillOwner
<1>1. IInv => ActorIsStillOwner
  BY MembersAssumption DEF IInv, MembersOK, ActorIsStillOwner
<1>2. QED
  BY <1>1, Inductive, PTL

\* A request about a member never acts on one that only requests of another route have named.
THEOREM RoutesDoNotMixHolds == Spec => []RoutesDoNotMix
<1>1. IInv => RoutesDoNotMix
  BY DEF IInv, PathsOK
<1>2. QED
  BY <1>1, Inductive, PTL

\* A stored password that counts as delivered was mailed or chosen, and exactly the passwords
\* that were not chosen must be changed.
THEOREM PasswordIsKnownHolds == Spec => []PasswordIsKnown
<1>1. IInv => PasswordIsKnown
  BY DEF IInv, AccountOK
<1>2. QED
  BY <1>1, Inductive, PTL

\* A session that outlives its password is about to be revoked, or has one of the causes the
\* code leaves.
THEOREM SessionEndsWithItsPasswordHolds == Spec => []SessionEndsWithItsPassword
<1>1. IInv => SessionEndsWithItsPassword
  BY DEF IInv, SessionsOK
<1>2. QED
  BY <1>1, Inductive, PTL

\* An initial delivery that is done is neither reopened nor made to replace the password: the
\* outcome of a claim is written only under the claim, and a done delivery has none.
LEMMA SentStep ==
  ASSUME IInv, [Next]_vars, Exists, account.delivery = "sent"
  PROVE  /\ account'.delivery = "sent"
         /\ \/ account'.password = account.password
            \/ \E r \in Slots : reqs[r].pc \in {"change", "reset"} /\ reqs'[r] # reqs[r]
<1>0. account \in Account /\ account.claim = 0
  BY DEF IInv, AccountOK, Exists
<1>1. ASSUME NEW r \in Slots, reqs[r].pc \in {"change", "reset"},
             UNCHANGED account \/ \E b \in BOOLEAN : account' = [account EXCEPT !.password = reqs[r].n, !.mustChange = b],
             reqs'[r].pc \in {"idle", "revoke"}
      PROVE  account'.delivery = "sent" /\ reqs'[r] # reqs[r]
  BY <1>0, <1>1, ZenonT(60) DEF Account
<1>2. ASSUME NEW r \in Slots, StorePassword(r) \/ ResetPassword(r) \/ UpdatePassword(r) \/ ResetCustomerPassword(r)
      PROVE  account'.delivery = "sent" /\ reqs[r].pc \in {"change", "reset"} /\ reqs'[r] # reqs[r]
  <2>1. reqs[r].pc \in {"change", "reset"}
    BY <1>2 DEF StorePassword, ResetPassword, UpdatePassword, ResetCustomerPassword, In
  <2>2. UNCHANGED account \/ \E b \in BOOLEAN : account' = [account EXCEPT !.password = reqs[r].n, !.mustChange = b]
    BY <1>2, ZenonT(60) DEF StorePassword, ResetPassword, UpdatePassword, ResetCustomerPassword
  <2>3. reqs'[r].pc \in {"idle", "revoke"}
    BY <1>2, Finished, Became DEF StorePassword, ResetPassword, UpdatePassword, ResetCustomerPassword
  <2>4. QED
    BY <1>1, <2>1, <2>2, <2>3, ZenonT(60)
<1>3. ASSUME NEW r \in Slots, RecordDelivery(r) \/ ActivateCredential(r) PROVE account' = account
  <2>1. reqs[r].n \in Serials
    BY <1>3, AtStep, ZenonT(60) DEF RecordDelivery, ActivateCredential, In, AccountPCs, PlainPCs, MailPCs, SessionPCs
  <2>2. account.claim # reqs[r].n
    BY <1>0, <2>1, MembersAssumption DEF Serials
  <2>3. QED
    BY <1>3, <2>2 DEF RecordDelivery, ActivateCredential, MarkInitialDelivery, ActivateRetriedCredential
<1>4. ASSUME NEW r \in Slots, CreateIdentity(r) \/ CreateCustomer(r) \/ ClaimInitialDelivery(r) PROVE account' = account
  BY <1>4 DEF CreateIdentity, CreateCustomer, ClaimInitialDelivery, Claimable
<1>5. ASSUME NEW r \in Slots,
             \/ Register(r) \/ Login(r) \/ ChangePassword(r) \/ ForgotPassword(r)
             \/ CustomerLogin(r) \/ ChangeCustomerPassword(r) \/ ForgotCustomerPassword(r)
             \/ JoinTenant(r) \/ MailInitialPassword(r) \/ CreateSession(r) \/ ComparePassword(r) \/ MailReset(r)
             \/ FindByEmail(r) \/ CreateCustomerSession(r) \/ RevokeSessions(r) \/ Crash(r)
      PROVE  account' = account
  BY <1>5, ZenonT(60) DEF Register, Login, ChangePassword, ForgotPassword, CustomerLogin, ChangeCustomerPassword,
     ForgotCustomerPassword, JoinTenant, MailInitialPassword, CreateSession, ComparePassword, MailReset,
     FindByEmail, CreateCustomerSession, RevokeSessions, Crash, SendWithRetry, accountVars
<1>6. RevokeSession \/ Revoke \/ ClaimLapses \/ UNCHANGED vars \/ UNCHANGED accountVars => account' = account
  BY DEF RevokeSession, Revoke, ClaimLapses, vars, accountVars
<1>7. \/ account' = account
      \/ \E r \in Slots : StorePassword(r) \/ ResetPassword(r) \/ UpdatePassword(r) \/ ResetCustomerPassword(r)
  BY <1>3, <1>4, <1>5, <1>6 DEF Next, CredentialRequest, CredentialStep, CustomerRequest, CustomerStep
<1>8. QED
  BY <1>2, <1>7

\* Registrations that come late leave a delivery that is done, and its password, alone.
THEOREM SentIsFinalHolds == Spec => SentIsFinal
<1>1. IInv /\ [Next]_vars =>
        [Exists /\ account.delivery = "sent" =>
           /\ account'.delivery = "sent"
           /\ account'.password = account.password \/ \E r \in Slots : reqs[r].pc \in {"change", "reset"} /\ reqs'[r] # reqs[r]]_vars
  BY SentStep
<1>2. QED
  BY <1>1, Inductive, PTL DEF Spec, SentIsFinal
=============================================================================
