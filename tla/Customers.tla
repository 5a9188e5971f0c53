------------------------------ MODULE Customers ------------------------------
(***************************************************************************)
(* customer-service: the account of one customer.  It shares the protocol  *)
(* of the first password with auth-service (Credentials), and differs in   *)
(* how an account is created and in that a password and the revocation of  *)
(* the sessions opened with the old one are separate transactions.         *)
(***************************************************************************)
EXTENDS Credentials

\* Register: Create, which UNIQUE (tenant_id, normalized_email) may refuse.
CreateCustomer(r) ==
  /\ Start(r, {"customer"})
  /\ IF Exists
     THEN Become(r, [pc |-> "find", n |-> serial']) /\ UNCHANGED account
     ELSE /\ account' = New(serial')
          /\ Become(r, [pc |-> "claim", n |-> serial', retried |-> FALSE])
  /\ UNCHANGED <<memberVars, mailed, chosen, sessions, realm>>

\* Register: after a refused Create, an account whose password was delivered is a conflict.
FindByEmail(r) ==
  /\ In(r, "find")
  /\ IF account.delivery = "sent" THEN Finish(r)
     ELSE Become(r, [pc |-> "claim", n |-> reqs[r].n, retried |-> TRUE])
  /\ UNCHANGED <<memberVars, accountVars, serial, realm>>

CustomerLogin(r) ==
  /\ Start(r, {"customer"})
  /\ Exists
  /\ account.password \in mailed \cup chosen
  /\ Become(r, [pc |-> "open", n |-> serial', password |-> account.password])
  /\ UNCHANGED <<memberVars, accountVars, realm>>

CreateCustomerSession(r) ==
  /\ In(r, "open")
  /\ realm = "customer"
  /\ sessions' = Opened(r)
  /\ Finish(r)
  /\ UNCHANGED <<memberVars, account, mailed, chosen, serial, realm>>

\* Logout, or the session's time runs out.
Revoke ==
  /\ realm = "customer"
  /\ \E s \in Live : sessions' = Ended({s})
  /\ UNCHANGED <<memberVars, reqs, account, mailed, chosen, serial, realm>>

ChangeCustomerPassword(r) ==
  /\ Start(r, {"customer"})
  /\ \E s \in Live : Become(r, [pc |-> "compare", n |-> serial', session |-> s])
  /\ UNCHANGED <<memberVars, accountVars, realm>>

\* The session the change was made in is kept.
UpdatePassword(r) ==
  /\ In(r, "change")
  /\ realm = "customer"
  /\ account' = [account EXCEPT !.password = reqs[r].n, !.mustChange = FALSE]
  /\ chosen' = chosen \cup {reqs[r].n}
  /\ sessions' = Excused({reqs[r].session})
  /\ Become(r, [pc |-> "revoke", n |-> reqs[r].n, keep |-> reqs[r].session])
  /\ UNCHANGED <<memberVars, mailed, serial, realm>>

ForgotCustomerPassword(r) ==
  /\ Start(r, {"customer"})
  /\ Exists
  /\ Become(r, [pc |-> "mailReset", n |-> serial'])
  /\ UNCHANGED <<memberVars, accountVars, realm>>

ResetCustomerPassword(r) ==
  /\ In(r, "reset")
  /\ realm = "customer"
  /\ account' = [account EXCEPT !.password = reqs[r].n, !.mustChange = TRUE]
  /\ Become(r, [pc |-> "revoke", n |-> reqs[r].n, keep |-> 0])
  /\ UNCHANGED <<memberVars, mailed, chosen, sessions, serial, realm>>

\* RevokeOthers and RevokeAll, whose errors are ignored.
RevokeSessions(r) ==
  /\ In(r, "revoke")
  /\ sessions' \in {Ended(Live \ {reqs[r].keep}), Excused(Live)}
  /\ Finish(r)
  /\ UNCHANGED <<memberVars, account, mailed, chosen, serial, realm>>

CustomerRequest(r) ==
  CreateCustomer(r) \/ CustomerLogin(r) \/ ChangeCustomerPassword(r) \/ ForgotCustomerPassword(r)

CustomerStep(r) ==
  \/ FindByEmail(r) \/ CreateCustomerSession(r) \/ UpdatePassword(r) \/ ResetCustomerPassword(r)
  \/ RevokeSessions(r)
=============================================================================
