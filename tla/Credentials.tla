----------------------------- MODULE Credentials -----------------------------
(***************************************************************************)
(* One staff account of auth-service: the Holder's credential, the         *)
(* delivery of its first password by mail, its sessions, and the requests  *)
(* that register it, sign in, change and reset its password.               *)
(*                                                                         *)
(* A password, a claim on the delivery and a session token are the number  *)
(* of the request that made them.                                          *)
(***************************************************************************)
EXTENDS Members

VARIABLES
  account,   \* the row of public.credentials
  mailed,    \* passwords that reached the user's mailbox
  chosen,    \* passwords the user has chosen
  sessions   \* public.sessions

accountVars == <<account, mailed, chosen, sessions>>

Account == [password : Serials, mustChange : BOOLEAN,
            delivery : {"pending", "sending", "sent", "failed"},
            claim : Serials \cup {0}, lapsed : BOOLEAN]
\* The ghost "excused" marks a session that may outlive the password it was opened with.
SessionRow == [password : Serials, excused : BOOLEAN]
AccountRequest ==
       [pc : {"join"}, n : Serials, delivery : {"pending", "sending", "sent", "failed"}]
  \cup [pc : {"create", "find", "reset", "mailReset"}, n : Serials]
  \cup [pc : {"claim", "mail", "markSent", "markFailed", "activate"}, n : Serials, retried : BOOLEAN]
  \cup [pc : {"open"}, n : Serials, password : Serials]
  \cup [pc : {"compare", "change"}, n : Serials, session : Serials]
  \cup [pc : {"revoke"}, n : Serials, keep : Serials \cup {0}]

Exists == account # NoRow
Live == {s \in Serials : sessions[s] # NoRow}
New(password) == [password |-> password, mustChange |-> TRUE, delivery |-> "pending",
                  claim |-> 0, lapsed |-> FALSE]

\* The sessions of T end.
Ended(T) == [s \in Serials |-> IF s \in T THEN NoRow ELSE sessions[s]]

\* The sessions of T are excused (ghost).
Excused(T) == [s \in Serials |-> IF s \in T /\ sessions[s] # NoRow
                                 THEN [sessions[s] EXCEPT !.excused = TRUE] ELSE sessions[s]]

-----------------------------------------------------------------------------
(* Register.                                                               *)

\* CredentialByEmail decides which way the registration goes.
Register(r) ==
  /\ Start(r, {"staff"})
  /\ Become(r, IF Exists THEN [pc |-> "join", n |-> serial', delivery |-> account.delivery]
                         ELSE [pc |-> "create", n |-> serial'])
  /\ UNCHANGED <<memberVars, accountVars, realm>>

\* INSERT INTO tenant_memberships ... ON CONFLICT DO NOTHING.  One role stands for those
\* that may be asked for.
Joined ==
  IF members[Holder] = NoRow
  THEN [members EXCEPT ![Holder] = [role |-> "BARBER", status |-> "active"]]
  ELSE members

\* An existing identity gets a membership, and a password only if none was delivered to it.
JoinTenant(r) ==
  /\ In(r, "join")
  /\ members' = Joined
  /\ IF reqs[r].delivery = "sent" THEN Finish(r)
     ELSE Become(r, [pc |-> "claim", n |-> reqs[r].n, retried |-> TRUE])
  /\ UNCHANGED <<paths, asked, accountVars, serial, realm>>

\* repository.Register with a new password: identity, credential and membership in one
\* transaction.  When another registration made the identity first, its password stays.
CreateIdentity(r) ==
  /\ In(r, "create")
  /\ members' = Joined
  /\ IF Exists THEN Finish(r) /\ UNCHANGED account
     ELSE /\ account' = New(reqs[r].n)
          /\ Become(r, [pc |-> "claim", n |-> reqs[r].n, retried |-> FALSE])
  /\ UNCHANGED <<paths, asked, mailed, chosen, sessions, serial, realm>>

Claimable == account.delivery \in {"pending", "failed"} \/ (account.delivery = "sending" /\ account.lapsed)

ClaimInitialDelivery(r) ==
  /\ In(r, "claim")
  /\ IF Claimable
     THEN /\ account' = [account EXCEPT !.delivery = "sending", !.claim = reqs[r].n, !.lapsed = FALSE]
          /\ Goto(r, "mail")
     ELSE Finish(r) /\ UNCHANGED account
  /\ UNCHANGED <<memberVars, mailed, chosen, sessions, serial, realm>>

\* Two minutes pass.
ClaimLapses ==
  /\ Exists
  /\ account.delivery = "sending"
  /\ ~account.lapsed
  /\ account' = [account EXCEPT !.lapsed = TRUE]
  /\ UNCHANGED <<memberVars, reqs, mailed, chosen, sessions, serial, realm>>

\* SendWithRetry: the mail arrives and the call says so, or the call fails, whether or not
\* the mail arrived.
SendWithRetry(r, delivered, failed) ==
  /\ \/ mailed' = mailed \cup {reqs[r].n} /\ delivered
     \/ mailed' = mailed \cup {reqs[r].n} /\ failed
     \/ mailed' = mailed /\ failed
  /\ UNCHANGED <<memberVars, account, chosen, sessions, serial, realm>>

MailInitialPassword(r) ==
  /\ In(r, "mail")
  /\ SendWithRetry(r, Goto(r, IF reqs[r].retried THEN "activate" ELSE "markSent"), Goto(r, "markFailed"))

\* Mistake: the outcome is written by whoever asks, without its claim.
MarkUnclaimed(r, status) == [account EXCEPT !.delivery = status, !.claim = 0, !.lapsed = FALSE]

\* Mistake: the claim stays on the row.
MarkAndKeep(r, status) ==
  IF account.claim = reqs[r].n THEN [account EXCEPT !.delivery = status] ELSE account

\* UPDATE ... WHERE initial_delivery_claim_token = $2
MarkInitialDelivery(r, status) ==
  IF account.claim = reqs[r].n THEN [account EXCEPT !.delivery = status, !.claim = 0, !.lapsed = FALSE]
  ELSE account

RecordDelivery(r) ==
  /\ \/ In(r, "markSent") /\ account' = MarkInitialDelivery(r, "sent")
     \/ In(r, "markFailed") /\ account' = MarkInitialDelivery(r, "failed")
  /\ Finish(r)
  /\ UNCHANGED <<memberVars, mailed, chosen, sessions, serial, realm>>

\* Mistake: the new password may be kept.
ActivateForGood(r) ==
  IF account.claim = reqs[r].n /\ account.delivery = "sending"
  THEN [password |-> reqs[r].n, mustChange |-> FALSE, delivery |-> "sent", claim |-> 0, lapsed |-> FALSE]
  ELSE account

\* The password that was mailed replaces the stored one; sessions are left alone.
ActivateRetriedCredential(r) ==
  IF account.claim = reqs[r].n /\ account.delivery = "sending"
  THEN [password |-> reqs[r].n, mustChange |-> TRUE, delivery |-> "sent", claim |-> 0, lapsed |-> FALSE]
  ELSE account

ActivateCredential(r) ==
  /\ In(r, "activate")
  /\ account' = ActivateRetriedCredential(r)
  /\ sessions' = IF account' # account THEN Excused(Live) ELSE sessions
  /\ Finish(r)
  /\ UNCHANGED <<memberVars, mailed, chosen, serial, realm>>

-----------------------------------------------------------------------------
(* Sessions.                                                               *)

\* Login: the password given is the stored one.  Any other is refused and changes nothing.
Login(r) ==
  /\ Start(r, {"staff"})
  /\ Exists
  /\ account.password \in mailed \cup chosen
  /\ Become(r, [pc |-> "open", n |-> serial', password |-> account.password])
  /\ UNCHANGED <<memberVars, accountVars, realm>>

\* The row of a session, with a password that may have been replaced since it was compared.
Opened(r) ==
  [sessions EXCEPT ![reqs[r].n] = [password |-> reqs[r].password,
                                   excused |-> reqs[r].password # account.password]]

\* CreateSession asks for an active membership, in a transaction of its own.
CreateSession(r) ==
  /\ In(r, "open")
  /\ realm = "staff"
  /\ sessions' = IF IsActive(Holder) THEN Opened(r) ELSE sessions
  /\ Finish(r)
  /\ UNCHANGED <<memberVars, account, mailed, chosen, serial, realm>>

\* Logout, or the session's time runs out.
RevokeSession ==
  /\ realm = "staff"
  /\ \E s \in Live : sessions' = Ended({s})
  /\ UNCHANGED <<memberVars, reqs, account, mailed, chosen, serial, realm>>

-----------------------------------------------------------------------------
(* ChangePassword and ForgotPassword.                                      *)

\* Authenticate, with a session of an active member.
ChangePassword(r) ==
  /\ Start(r, {"staff"})
  /\ IsActive(Holder)
  /\ \E s \in Live : Become(r, [pc |-> "compare", n |-> serial', session |-> s])
  /\ UNCHANGED <<memberVars, accountVars, realm>>

\* The current password is compared in a read of its own; a wrong one is refused.
ComparePassword(r) ==
  /\ In(r, "compare")
  /\ \/ account.password \in mailed \cup chosen /\ Goto(r, "change")
     \/ Finish(r)
  /\ UNCHANGED <<memberVars, accountVars, serial, realm>>

\* Mistake: the other sessions stay.
ChangeOnly(r) ==
  /\ In(r, "change")
  /\ realm = "staff"
  /\ IF IsActive(Holder)
     THEN /\ account' = [account EXCEPT !.password = reqs[r].n, !.mustChange = FALSE]
          /\ chosen' = chosen \cup {reqs[r].n}
     ELSE UNCHANGED <<account, chosen>>
  /\ Finish(r)
  /\ UNCHANGED <<memberVars, mailed, sessions, serial, realm>>

\* Password and revocation of all other sessions in one transaction.
StorePassword(r) ==
  /\ In(r, "change")
  /\ realm = "staff"
  /\ IF IsActive(Holder)
     THEN /\ account' = [account EXCEPT !.password = reqs[r].n, !.mustChange = FALSE]
          /\ chosen' = chosen \cup {reqs[r].n}
          /\ sessions' = [s \in Serials |-> IF s = reqs[r].session THEN Excused({s})[s] ELSE NoRow]
     ELSE UNCHANGED <<account, chosen, sessions>>
  /\ Finish(r)
  /\ UNCHANGED <<memberVars, mailed, serial, realm>>

\* ForgotPassword: the account exists and is that of an active member.
ForgotPassword(r) ==
  /\ Start(r, {"staff"})
  /\ Exists
  /\ IsActive(Holder)
  /\ Become(r, [pc |-> "mailReset", n |-> serial'])
  /\ UNCHANGED <<memberVars, accountVars, realm>>

\* The password is mailed before it is stored.
MailReset(r) ==
  /\ In(r, "mailReset")
  /\ SendWithRetry(r, Goto(r, "reset"), Finish(r))

ResetPassword(r) ==
  /\ In(r, "reset")
  /\ realm = "staff"
  /\ IF IsActive(Holder)
     THEN /\ account' = [account EXCEPT !.password = reqs[r].n, !.mustChange = TRUE]
          /\ sessions' = Ended(Live)
     ELSE UNCHANGED <<account, sessions>>
  /\ Finish(r)
  /\ UNCHANGED <<memberVars, mailed, chosen, serial, realm>>

CredentialsInit ==
  /\ account = NoRow
  /\ mailed = {}
  /\ chosen = {}
  /\ sessions = [s \in Serials |-> NoRow]

CredentialRequest(r) == Register(r) \/ Login(r) \/ ChangePassword(r) \/ ForgotPassword(r)

CredentialStep(r) ==
  \/ JoinTenant(r) \/ CreateIdentity(r)
  \/ ClaimInitialDelivery(r) \/ MailInitialPassword(r) \/ RecordDelivery(r) \/ ActivateCredential(r)
  \/ CreateSession(r) \/ ComparePassword(r) \/ StorePassword(r) \/ MailReset(r) \/ ResetPassword(r)
=============================================================================
