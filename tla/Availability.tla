----------------------------- MODULE Availability ----------------------------
(***************************************************************************)
(* The slots of one day, as scheduling-service computes them: the pure     *)
(* part of its package service.  Instants are counted from local midnight, *)
(* which is what base.Add(wall clock) makes of a wall clock.               *)
(***************************************************************************)
EXTENDS Integers, Sequences, FiniteSets

\* Half-open periods: working intervals, blocked and occupied periods.
Overlap(p, q) == p.start < q.end /\ p.end > q.start

\* ORDER BY start_time, of the weekly hours and of an override's intervals: the k-th period
\* has k - 1 before it.
Earlier(p, q) == p.start < q.start \/ (p.start = q.start /\ p.end < q.end)
InOrder(periods) ==
  [k \in 1..Cardinality(periods) |->
     CHOOSE p \in periods : Cardinality({q \in periods : Earlier(q, p)}) = k - 1]

Listed(s) == {s[k] : k \in DOMAIN s}

\* Each interval has a length and begins no earlier than the one before it ends.
ValidIntervals(in) ==
  /\ \A k \in DOMAIN in : in[k].start < in[k].end
  /\ \A k \in 2..Len(in) : in[k].start >= in[k - 1].end

\* An override stands for the whole day, as closed or with intervals of its own.
IntervalsForDate(hours, kind, intervals) ==
  CASE kind = "none"         -> hours
    [] kind = "custom_hours" -> intervals
    [] OTHER                 -> <<>>

\* A service may take no time at all, and have no buffers.
TakesTime(service) == service.duration + service.before + service.after > 0

\* Mistake: the buffer before a slot may lie outside the window.
FreeAtTheDoor(w, busy, service, now, start) ==
  /\ start > now
  /\ \A p \in busy : ~Overlap([start |-> start - service.before,
                               end   |-> start + service.duration + service.after], p)

\* The slot with its buffers lies in the window and touches nothing busy.
Free(w, busy, service, now, start) ==
  LET occupied == [start |-> start - service.before,
                   end   |-> start + service.duration + service.after]
  IN  /\ occupied.start >= w.start
      /\ start > now
      /\ \A p \in busy : ~Overlap(occupied, p)

\* The loop over the starts of a window: what its rounds append to the slots found so far.
\* A round whose slot ends after the window is the end of the loop, and so would be all
\* later ones.
Rounds(found, w, busy, service, step, now) ==
  LET After[n \in Nat] ==
        IF n = 0 THEN found
        ELSE LET start == w.start + (n - 1) * step
             IN  IF start + service.duration + service.after <= w.end /\ Free(w, busy, service, now, start)
                 THEN Append(After[n - 1], start) ELSE After[n - 1]
  IN  After

Walk(found, w, busy, service, step, now) == Rounds(found, w, busy, service, step, now)[w.end + 1]

\* The loop over the windows.
Available(windows, busy, service, step, now) ==
  LET After[k \in 0..Len(windows)] ==
        IF k = 0 THEN <<>> ELSE Walk(After[k - 1], windows[k], busy, service, step, now)
  IN  After[Len(windows)]

\* The reference, for a service that takes time: every moment of a slot and its buffers is
\* worked and not busy, and the slot starts at a multiple of the step after its window opens.
IsSlot(windows, busy, service, step, now, start) ==
  /\ start > now
  /\ \E w \in windows :
       /\ \E k \in 0..w.end : start = w.start + k * step
       /\ \A t \in (start - service.before)..(start + service.duration + service.after - 1) :
            /\ w.start <= t /\ t < w.end
            /\ \A p \in busy : t < p.start \/ p.end <= t
=============================================================================
