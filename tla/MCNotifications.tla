--------------------------- MODULE MCNotifications ---------------------------
(***************************************************************************)
(* Instances of Notifications.                                             *)
(***************************************************************************)
EXTENDS Notifications, TLC

CONSTANTS c1, c2, w1, w2, m1, m2, e1, e2, o1, a1

OneConsumer == {c1}
TwoConsumers == {c1, c2}
OneWorker == {w1}
TwoWorkers == {w1, w2}

TwoEvents == {e1, e2}
OneAppointment == [e \in {e1, e2} |-> a1]
TwoMessages == {m1, m2}
OnePerEvent == m1 :> e1 @@ m2 :> e2

\* A booking that is moved and then cancelled.
MovedThenCancelled == e1 :> "rescheduled" @@ e2 :> "cancelled"

\* A booking, and an event of another envelope version.
CreatedAndOutdated == e1 :> "created" @@ e2 :> "outdated"

\* A booking that is moved and then confirmed.
MovedThenConfirmed == e1 :> "rescheduled" @@ e2 :> "confirmed"

FirstIsUndated == {e1}
AllAreDated == {}

OneOffset == {o1}
NoOffset == {}

Alike == Permutations({c1, c2}) \cup Permutations({w1, w2})
=============================================================================
