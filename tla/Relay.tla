-------------------------------- MODULE Relay --------------------------------
(***************************************************************************)
(* What the outbox promises the transactions that record events, without   *)
(* publishers, leases, batches or deduplication: an event reaches the      *)
(* stream only after it is recorded, counts as published only once it is   *)
(* in the stream, is given up only after MaxAttempts failures, which does  *)
(* not rule out that it is published after all, and is forgotten only when *)
(* it is published.                                                        *)
(***************************************************************************)
EXTENDS Integers

CONSTANTS Events, MaxAttempts

VARIABLES
  record,     \* what is known of each event
  delivered   \* events that are in the stream

-----------------------------------------------------------------------------
Unrecorded == [state |-> "unrecorded"]
Forgotten == [state |-> "forgotten"]
Known(state, failures) == [state |-> state, failures |-> failures]
Unsettled(e) == record[e].state \in {"owed", "abandoned"}

Init ==
  /\ record = [e \in Events |-> Unrecorded]
  /\ delivered = {}

Becomes(e, r) == record' = [record EXCEPT ![e] = r]

Record(e) ==
  /\ record[e] = Unrecorded
  /\ Becomes(e, Known("owed", 0))
  /\ UNCHANGED delivered

Deliver(e) ==
  /\ Unsettled(e)
  /\ delivered' = delivered \cup {e}
  /\ UNCHANGED record

Settle(e) ==
  /\ Unsettled(e)
  /\ e \in delivered
  /\ Becomes(e, Known("published", record[e].failures))
  /\ UNCHANGED delivered

Fail(e) ==
  /\ Unsettled(e)
  /\ LET failures == record[e].failures + 1
     IN  Becomes(e, Known(IF failures >= MaxAttempts THEN "abandoned" ELSE "owed", failures))
  /\ UNCHANGED delivered

Forget(old) ==
  /\ \A e \in old : record[e].state = "published"
  /\ record' = [e \in Events |-> IF e \in old THEN Forgotten ELSE record[e]]
  /\ UNCHANGED delivered

Next ==
  \/ \E e \in Events : Record(e) \/ Deliver(e) \/ Settle(e) \/ Fail(e)
  \/ \E old \in SUBSET Events : Forget(old)

Spec == Init /\ [][Next]_<<record, delivered>>
=============================================================================
