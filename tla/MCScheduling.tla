---------------------------- MODULE MCScheduling -----------------------------
(***************************************************************************)
(* Instances of Scheduling.                                                *)
(***************************************************************************)
EXTENDS Scheduling, TLC

CONSTANTS r1, r2, b1, b2, p1, p2, s1, i1, i2

P(start, end) == [start |-> start, end |-> end]
MCIntervals == {P(0, 4), P(1, 5), P(4, 6)}
MCBlocks == {P(1, 2)}
MCAppointments == {P(4, 5)}
MCShapes == {[duration |-> 0, before |-> 0, after |-> 0], [duration |-> 1, before |-> 1, after |-> 1]}
MCMaxRequests == [access |-> 2, links |-> 4, schedule |-> 3]
MCMaxSaves == [access |-> 4, links |-> 4, schedule |-> 1]

\* Slots are interchangeable, and so are branches; barbers and identities are not.
Alike == Permutations({r1, r2}) \cup Permutations({p1, p2})
=============================================================================
