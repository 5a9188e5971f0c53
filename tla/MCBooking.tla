------------------------------ MODULE MCBooking ------------------------------
(* Small instances of Booking for TLC.                                      *)
EXTENDS Booking, TLC

CONSTANTS r1, r2, a1, a2, b1, s1, cust, guest, k1

\* A cut of one time unit with a unit of buffer after it, and the service of no
\* duration that the catalog accepts.
Cut == [duration |-> 1, before |-> 0, after |-> 1]
NoTime == [duration |-> 0, before |-> 0, after |-> 1]
BothShapes == {Cut, NoTime}
SomePolicies == {-1, 1}

By(p) == {in \in CreateInput : in.principal = p}

\* Two attempts of a guest at the same or another time, under one key.
Retrying == [inputs |-> By(guest), ids |-> {a1, a2}, shapes |-> BothShapes,
             notices |-> {-1}, decisions |-> Statuses, events |-> 2, hours |-> 0]
\* Two appointments of a guest, moved and cancelled.
Moving == [Retrying EXCEPT !.inputs = By(guest) \cup RescheduleInput,
                           !.shapes = {Cut}, !.decisions = {"cancelled"}]
\* One appointment, moved while its service is edited.
Editing == [Retrying EXCEPT !.inputs = By(guest) \cup {in \in RescheduleInput : in.target = a1},
                            !.ids = {a1}, !.events = 3, !.decisions = {"confirmed", "completed"}]
\* One appointment of a customer, who cancels as it is moved and the policy edited.
Withdrawing == [Retrying EXCEPT !.inputs = By(cust) \cup {in \in RescheduleInput \cup CancelInput : in.target = a1},
                                !.ids = {a1}, !.shapes = {Cut}, !.notices = SomePolicies, !.hours = 1]

AllLoads == {Retrying, Moving, Editing, Withdrawing}
OnlyRetries == {Retrying}
=============================================================================
