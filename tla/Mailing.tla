------------------------------- MODULE Mailing -------------------------------
(***************************************************************************)
(* What notification-service promises of every notice, without messages,   *)
(* consumers, workers, leases and attempts: a notice is planned once, is   *)
(* mailed only after it was taken up, counts as sent only once it was      *)
(* mailed, may be put back and taken up again, and is over when it is      *)
(* sent, failed or cancelled.  Only a reminder that waits is cancelled,    *)
(* and a reminder fails only while somebody has taken it up.               *)
(***************************************************************************)
CONSTANTS Notices, Reminders

VARIABLES
  status,   \* of each notice
  taken,    \* notices that were taken up
  posted    \* notices that were mailed

-----------------------------------------------------------------------------
Init ==
  /\ status = [n \in Notices |-> "none"]
  /\ taken = {}
  /\ posted = {}

\* The notices of some are in one of the states from, and go to another.
Turn(some, from, to) ==
  /\ \A n \in some : status[n] \in from
  /\ status' = [n \in Notices |-> IF n \in some THEN to ELSE status[n]]

Plan(n) == Turn({n}, {"none"}, "pending") /\ UNCHANGED <<taken, posted>>

Take(some) ==
  /\ Turn(some, {"pending", "processing"}, "processing")
  /\ taken' = taken \cup some
  /\ UNCHANGED posted

Post(n) ==
  /\ n \in taken
  /\ posted' = posted \cup {n}
  /\ UNCHANGED <<status, taken>>

Close(n) == n \in posted /\ Turn({n}, {"processing"}, "sent") /\ UNCHANGED <<taken, posted>>

PutBack(n) == Turn({n}, {"processing"}, "pending") /\ UNCHANGED <<taken, posted>>

GiveUp(n) ==
  /\ Turn({n}, IF n \in Reminders THEN {"processing"} ELSE {"none", "pending", "processing"}, "failed")
  /\ UNCHANGED <<taken, posted>>

Cancel(some) ==
  /\ some \subseteq Reminders
  /\ Turn(some, {"pending"}, "cancelled")
  /\ UNCHANGED <<taken, posted>>

Next ==
  \/ \E some \in SUBSET Notices : Take(some) \/ Cancel(some)
  \/ \E n \in Notices : Plan(n) \/ Post(n) \/ Close(n) \/ PutBack(n) \/ GiveUp(n)

Spec == Init /\ [][Next]_<<status, taken, posted>>
=============================================================================
