------------------------------ MODULE Calendar ------------------------------
(***************************************************************************)
(* What the appointments table promises its users, without requests,       *)
(* idempotency keys or statuses: every appointment holds one stretch of    *)
(* one barber's time from when it is booked until it is released, it never *)
(* comes back once released, and a stretch is taken only while nobody else *)
(* holds any part of it.                                                   *)
(***************************************************************************)
EXTENDS Integers

CONSTANTS AppointmentIDs, Barbers

VARIABLE slots

-----------------------------------------------------------------------------
NeverBooked == [state |-> "never"]
Released == [state |-> "released"]
Held == [state : {"held"}, barber : Barbers, from : Int, to : Int]

Overlap(h, g) == h.barber = g.barber /\ h.from < g.to /\ g.from < h.to

\* h fits beside everything the other appointments hold.
FreeFor(i, h) ==
  \A j \in AppointmentIDs \ {i} : slots[j].state = "held" => ~Overlap(h, slots[j])

Init == slots = [i \in AppointmentIDs |-> NeverBooked]

Take(i) ==
  /\ slots'[i] \in Held
  /\ slots'[i].from < slots'[i].to
  /\ FreeFor(i, slots'[i])
  /\ slots' = [slots EXCEPT ![i] = slots'[i]]

Book(i) == slots[i] = NeverBooked /\ Take(i)

Move(i) == slots[i].state = "held" /\ Take(i) /\ slots'[i].barber = slots[i].barber

Release(i) ==
  /\ slots[i].state = "held"
  /\ slots' = [slots EXCEPT ![i] = Released]

Next == \E i \in AppointmentIDs : Book(i) \/ Move(i) \/ Release(i)

Spec == Init /\ [][Next]_slots
=============================================================================
