------------------------------ MODULE MCOutbox ------------------------------
(***************************************************************************)
(* Instances of Outbox: two replicas, two events one of which the broker   *)
(* may refuse, two attempts.                                               *)
(***************************************************************************)
EXTENDS Outbox, TLC

CONSTANTS p1, p2

TwoPublishers == {p1, p2}
TwoEvents == {1, 2}
SecondIsPoison == {2}
=============================================================================
