-------------------------- MODULE AvailabilityProofs -------------------------
(***************************************************************************)
(* What the operators of Availability compute, for every input: the order  *)
(* of periods, and the slots of the loops, which are those of the          *)
(* reference.                                                              *)
(***************************************************************************)
EXTENDS Availability, FiniteSetTheorems, TLAPS

\* A leaf that names no prover is tried with SMT, then Zenon, then SMT again.
USE SMTT(30), ZenonT(30), SMTT(60), SMTT(90)

-----------------------------------------------------------------------------
(* Induction, for sets instead of predicates.                              *)

\* A set of natural numbers has a least element.
LEMMA Least ==
  ASSUME NEW T \in SUBSET Nat, T # {}
  PROVE  \E m \in T : \A k \in T : m <= k
<1>1. PICK m \in T : \A k \in T : <<k, m>> \notin OpToRel(<, Nat)
  BY WFMin, NatLessThanWellFounded, ZenonT(60)
<1>2. \A k \in T : ~(k < m)
  BY <1>1, ZenonT(60) DEF OpToRel
<1> QED
  BY <1>2

\* A set that contains 0 and with each number the next one contains them all.
LEMMA AllNat ==
  ASSUME NEW T \in SUBSET Nat, 0 \in T, \A n \in T : n + 1 \in T
  PROVE  T = Nat
<1>1. SUFFICES ASSUME Nat \ T # {} PROVE FALSE
  BY ZenonT(60)
<1>2. PICK m \in Nat \ T : \A k \in Nat \ T : m <= k
  BY <1>1, Least, ZenonT(60)
<1>3. m # 0 /\ m - 1 \in Nat /\ m - 1 \notin Nat \ T
  BY <1>2
<1>4. (m - 1) + 1 \in T
  BY <1>3
<1> QED
  BY <1>2, <1>4

\* A value that changes step by step.
Steps(S) == [Nat -> [S -> S]]
Iterates(f, s, D, S) == f \in [Nat -> S] /\ f[0] = s /\ \A n \in Nat \ {0} : f[n] = D[n][f[n - 1]]

\* What is defined step by step exists.
LEMMA Iteration ==
  ASSUME NEW S, NEW s \in S, NEW D \in Steps(S)
  PROVE  \E f : Iterates(f, s, D, S)
<1> USE DEF Steps
<1> DEFINE Good(g, k) == g \in [0..k -> S] /\ g[0] = s /\ \A n \in 1..k : g[n] = D[n][g[n - 1]]
<1>1. ASSUME NEW k \in Nat PROVE \E g : Good(g, k)
  <2> DEFINE T == {n \in Nat : \E g : Good(g, n)}
  <2>1. 0 \in T
    <3>1. Good([n \in 0..0 |-> s], 0)
      OBVIOUS
    <3> QED
      BY <3>1, ZenonT(60)
  <2>2. ASSUME NEW n \in T PROVE n + 1 \in T
    <3>1. PICK g : Good(g, n)
      BY <2>2
    <3> DEFINE h == [i \in 0..(n + 1) |-> IF i = n + 1 THEN D[n + 1][g[n]] ELSE g[i]]
    <3>2. D[n + 1][g[n]] \in S
      BY <3>1
    <3>3. h \in [0..(n + 1) -> S]
      BY <3>1, <3>2
    <3>4. h[0] = s
      BY <3>1
    <3>5. ASSUME NEW i \in 1..(n + 1) PROVE h[i] = D[i][h[i - 1]]
      BY <3>1
    <3>6. Good(h, n + 1)
      BY <3>3, <3>4, <3>5, ZenonT(60)
    <3> HIDE DEF h, Good
    <3>7. \E i : Good(i, n + 1)
      BY <3>6
    <3>8. n + 1 \in Nat
      OBVIOUS
    <3> QED
      BY <3>7, <3>8
  <2>3. T = Nat
    <3> HIDE DEF T
    <3>1. T \in SUBSET Nat
      BY DEF T
    <3> QED
      BY <2>1, <2>2, <3>1, AllNat
  <2> QED
    BY <2>3
<1>2. ASSUME NEW k \in Nat, NEW g, Good(g, k), NEW l \in Nat, NEW h, Good(h, l), NEW n \in Nat, n <= k, n <= l
      PROVE  g[n] = h[n]
  <2> DEFINE T == {i \in Nat : i <= k /\ i <= l => g[i] = h[i]}
  <2>1. 0 \in T
    BY <1>2
  <2>2. ASSUME NEW i \in T PROVE i + 1 \in T
    BY <1>2, <2>2
  <2>3. T = Nat
    <3> HIDE DEF T
    <3>1. T \in SUBSET Nat
      BY DEF T
    <3> QED
      BY <2>1, <2>2, <3>1, AllNat
  <2> QED
    BY <1>2, <2>3, ZenonT(60)
<1> DEFINE G(k) == CHOOSE g : Good(g, k)
           f == [n \in Nat |-> G(n)[n]]
<1>3. ASSUME NEW k \in Nat PROVE Good(G(k), k)
  BY <1>1, ZenonT(60)
<1> HIDE DEF G
<1>4. f \in [Nat -> S]
  BY <1>3
<1>5. f[0] = s
  BY <1>3
<1>6. ASSUME NEW n \in Nat \ {0} PROVE f[n] = D[n][f[n - 1]]
  <2>1. Good(G(n), n) /\ Good(G(n - 1), n - 1)
    BY <1>3
  <2>2. G(n)[n] = D[n][G(n)[n - 1]]
    BY <2>1
  <2>3. G(n)[n - 1] = G(n - 1)[n - 1]
    <3> HIDE DEF Good
    <3> QED
      BY <1>2, <2>1
  <2> QED
    BY <2>2, <2>3
<1>7. Iterates(f, s, D, S)
  BY <1>4, <1>5, <1>6 DEF Iterates
<1> QED
  BY <1>7

-----------------------------------------------------------------------------
(* The loop over the starts of a window.                                   *)

Period == [start : Nat, end : Nat]
ServiceShape == [duration : Nat, before : Nat, after : Nat]

\* The start of the n-th round, and whether it is offered.
Nth(w, step, n) == w.start + (n - 1) * step
Offered(w, busy, service, step, now, n) ==
  LET start == Nth(w, step, n)
  IN  start + service.duration + service.after <= w.end /\ Free(w, busy, service, now, start)

\* Starts are natural numbers.
LEMMA NthType ==
  ASSUME NEW w \in Period, NEW step \in Nat, NEW n \in Nat \ {0}
  PROVE  Nth(w, step, n) \in Nat /\ Nth(w, step, n) >= w.start
<1>1. n - 1 \in Nat /\ w.start \in Nat
  BY DEF Period
<1>2. ASSUME NEW i \in Nat PROVE i * step \in Nat
  OBVIOUS
<1> QED
  BY <1>1, <1>2 DEF Nth

AreRounds(F, found, w, busy, service, step, now) ==
  /\ F \in [Nat -> Seq(Nat)]
  /\ F[0] = found
  /\ \A n \in Nat \ {0} : F[n] = IF Offered(w, busy, service, step, now, n)
                                 THEN Append(F[n - 1], Nth(w, step, n)) ELSE F[n - 1]

\* Rounds is the function its definition says.
LEMMA RoundsDef ==
  ASSUME NEW found \in Seq(Nat), NEW w \in Period, NEW busy, NEW service, NEW step \in Nat, NEW now
  PROVE  AreRounds(Rounds(found, w, busy, service, step, now), found, w, busy, service, step, now)
<1> DEFINE O(n) == Offered(w, busy, service, step, now, n)
           D == [n \in Nat |-> [s \in Seq(Nat) |-> IF n # 0 /\ O(n) THEN Append(s, Nth(w, step, n)) ELSE s]]
           Is(g) == g = [n \in Nat |-> IF n = 0 THEN found
                                       ELSE LET start == w.start + (n - 1) * step
                                            IN  IF /\ start + service.duration + service.after <= w.end
                                                   /\ Free(w, busy, service, now, start)
                                                THEN Append(g[n - 1], start) ELSE g[n - 1]]
<1>1. D \in [Nat -> [Seq(Nat) -> Seq(Nat)]]
  <2> HIDE DEF O
  <2>1. ASSUME NEW n \in Nat, NEW s \in Seq(Nat)
        PROVE  (IF n # 0 /\ O(n) THEN Append(s, Nth(w, step, n)) ELSE s) \in Seq(Nat)
    <3>1. n # 0 => Nth(w, step, n) \in Nat
      BY NthType
    <3>2. n # 0 => Append(s, Nth(w, step, n)) \in Seq(Nat)
      BY <3>1
    <3> QED
      BY <3>2
  <2> QED
    BY <2>1
<1>2. PICK f \in [Nat -> Seq(Nat)] : f[0] = found /\ \A n \in Nat \ {0} : f[n] = D[n][f[n - 1]]
  <2>1. D \in Steps(Seq(Nat))
    BY <1>1 DEF Steps
  <2>2. \E f : Iterates(f, found, D, Seq(Nat))
    <3> HIDE DEF D
    <3> QED
      BY <2>1, Iteration
  <2> QED
    BY <2>2, ZenonT(60) DEF Iterates
<1>3. ASSUME NEW n \in Nat \ {0}
      PROVE  f[n] = IF O(n) THEN Append(f[n - 1], Nth(w, step, n)) ELSE f[n - 1]
  <2> HIDE DEF O
  <2>1. n - 1 \in Nat /\ f[n - 1] \in Seq(Nat)
    BY <1>2
  <2>2. f[n] = D[n][f[n - 1]]
    BY <1>2, ZenonT(60)
  <2> QED
    BY <2>1, <2>2
<1>4. Is(f)
  <2>1. \A n \in Nat : f[n] = IF n = 0 THEN found
                              ELSE LET start == w.start + (n - 1) * step
                                   IN  IF /\ start + service.duration + service.after <= w.end
                                          /\ Free(w, busy, service, now, start)
                                       THEN Append(f[n - 1], start) ELSE f[n - 1]
    BY <1>2, <1>3 DEF Offered, Nth
  <2> QED
    BY <1>2, <2>1
<1>5. Rounds(found, w, busy, service, step, now) = CHOOSE g : Is(g)
  BY ZenonT(60) DEF Rounds
<1>6. Is(CHOOSE g : Is(g))
  BY <1>4, ZenonT(60)
<1> DEFINE F == Rounds(found, w, busy, service, step, now)
<1>7. Is(F)
  BY <1>5, <1>6, ZenonT(60)
<1> HIDE DEF F
<1>8. F[0] = found /\ \A n \in Nat \ {0} : F[n] = IF O(n) THEN Append(F[n - 1], Nth(w, step, n)) ELSE F[n - 1]
  BY <1>7, ZenonT(60) DEF Offered, Nth
<1> DEFINE T == {n \in Nat : F[n] \in Seq(Nat)}
<1>9. T = Nat
  <2>1. 0 \in T
    BY <1>8
  <2>2. ASSUME NEW n \in T PROVE n + 1 \in T
    <3>1. F[n + 1] = IF O(n + 1) THEN Append(F[n], Nth(w, step, n + 1)) ELSE F[n]
      BY <1>8
    <3> HIDE DEF O
    <3>2. n \in Nat /\ n + 1 \in Nat \ {0} /\ F[n] \in Seq(Nat)
      OBVIOUS
    <3>3. Nth(w, step, n + 1) \in Nat
      BY <3>2, NthType, ZenonT(60)
    <3>4. Append(F[n], Nth(w, step, n + 1)) \in Seq(Nat)
      BY <3>2, <3>3
    <3>5. F[n + 1] \in Seq(Nat)
      BY <3>1, <3>2, <3>4
    <3> QED
      BY <3>2, <3>5
  <2> HIDE DEF T
  <2>3. T \in SUBSET Nat
    BY DEF T
  <2> QED
    BY <2>1, <2>2, <2>3, AllNat, ZenonT(60)
<1>10. F \in [Nat -> Seq(Nat)]
  <2>1. F = [n \in Nat |-> F[n]]
    BY <1>7
  <2> QED
    BY <1>9, <2>1, ZenonT(60)
<1> QED
  BY <1>8, <1>10, ZenonT(60) DEF F, AreRounds

\* Before, or at the latest at the same time.
Follows(x, y, strict) == x <= y /\ (strict => x < y)
Sorted(s, strict) == \A i, j \in DOMAIN s : i < j => Follows(s[i], s[j], strict)

\* What appending does.
LEMMA Appended ==
  ASSUME NEW s \in Seq(Nat), NEW x \in Nat, NEW strict
  PROVE  /\ Listed(Append(s, x)) = Listed(s) \cup {x}
         /\ Sorted(s, strict) /\ (\A y \in Listed(s) : Follows(y, x, strict)) => Sorted(Append(s, x), strict)
<1> DEFINE t == Append(s, x)
<1>1. /\ Len(s) \in Nat
      /\ DOMAIN s = 1..Len(s)
      /\ DOMAIN t = 1..(Len(s) + 1)
      /\ t[Len(s) + 1] = x
      /\ \A i \in 1..Len(s) : t[i] = s[i]
  OBVIOUS
<1> HIDE DEF t
<1>2. Listed(t) = Listed(s) \cup {x}
  BY <1>1 DEF Listed
<1>3. ASSUME Sorted(s, strict), \A y \in Listed(s) : Follows(y, x, strict),
             NEW i \in DOMAIN t, NEW j \in DOMAIN t, i < j
      PROVE  Follows(t[i], t[j], strict)
  <2>1. CASE j = Len(s) + 1
    <3>1. i \in 1..Len(s) /\ t[i] = s[i] /\ s[i] \in Listed(s)
      BY <1>1, <1>3, <2>1 DEF Listed
    <3> QED
      BY <1>1, <1>3, <2>1, <3>1
  <2>2. CASE j # Len(s) + 1
    <3>1. i \in 1..Len(s) /\ j \in 1..Len(s)
      BY <1>1, <1>3, <2>2
    <3> QED
      BY <1>1, <1>3, <3>1 DEF Sorted
  <2> QED
    BY <2>1, <2>2
<1>4. Sorted(s, strict) /\ (\A y \in Listed(s) : Follows(y, x, strict)) => Sorted(t, strict)
  BY <1>3 DEF Sorted
<1> QED
  BY <1>2, <1>4 DEF t

\* A later round starts later.
LEMMA NthGrows ==
  ASSUME NEW w \in Period, NEW step \in Nat \ {0}, NEW i \in Nat \ {0}, NEW j \in Nat \ {0}, i < j
  PROVE  Nth(w, step, i) < Nth(w, step, j)
<1>1. PICK d \in Nat \ {0} : j = i + d
  BY i < j
<1>2. d * step > 0
  BY <1>1
<1>3. (j - 1) * step = (i - 1) * step + d * step
  BY <1>1
<1>4. (i - 1) * step \in Int /\ (j - 1) * step \in Int /\ d * step \in Int /\ w.start \in Int
  BY <1>1 DEF Period
<1> HIDE <1>1
<1> QED
  BY <1>2, <1>3, <1>4 DEF Nth

\* What is found in n rounds, and in which order.
LEMMA RoundsFind ==
  ASSUME NEW found \in Seq(Nat), NEW w \in Period, NEW busy, NEW service, NEW step \in Nat \ {0}, NEW now,
         NEW strict, Sorted(found, strict), NEW n \in Nat,
         \A x \in Listed(found), i \in 1..n :
           Offered(w, busy, service, step, now, i) => Follows(x, Nth(w, step, i), strict)
  PROVE  LET s == Rounds(found, w, busy, service, step, now)[n]
         IN  /\ Listed(s) = Listed(found) \cup
                              {Nth(w, step, i) : i \in {i \in 1..n : Offered(w, busy, service, step, now, i)}}
             /\ Sorted(s, strict)
<1> DEFINE F == Rounds(found, w, busy, service, step, now)
           O(i) == Offered(w, busy, service, step, now, i)
           Of(k) == {i \in 1..k : O(i)}
           Set(k) == {Nth(w, step, i) : i \in Of(k)}
           Good(k) == Listed(F[k]) = Listed(found) \cup Set(k) /\ Sorted(F[k], strict)
           T == {k \in Nat : k <= n => Good(k)}
<1>1. /\ F \in [Nat -> Seq(Nat)]
      /\ F[0] = found
      /\ \A k \in Nat \ {0} : F[k] = IF O(k) THEN Append(F[k - 1], Nth(w, step, k)) ELSE F[k - 1]
  <2>1. AreRounds(F, found, w, busy, service, step, now)
    BY RoundsDef
  <2> HIDE DEF F
  <2> QED
    BY <2>1 DEF AreRounds
<1> HIDE DEF F, O
<1>2. 0 \in T
  <2>1. Of(0) = {}
    OBVIOUS
  <2> QED
    BY <1>1, <2>1
<1>3. ASSUME NEW k \in T PROVE k + 1 \in T
  <2> DEFINE x == Nth(w, step, k + 1)
  <2>1. k \in Nat /\ k + 1 \in Nat \ {0} /\ (k <= n => Good(k)) /\ F[k] \in Seq(Nat)
    <3> HIDE DEF Good
    <3>1. k \in Nat /\ (k <= n => Good(k))
      OBVIOUS
    <3>2. F[k] \in Seq(Nat)
      BY <1>1, <3>1
    <3> QED
      BY <3>1, <3>2
  <2> HIDE DEF T
  <2>2. F[k + 1] = IF O(k + 1) THEN Append(F[k], x) ELSE F[k]
    <3>1. (k + 1) - 1 = k /\ k + 1 \in Nat \ {0}
      BY <2>1
    <3> HIDE DEF Set
    <3> QED
      BY <1>1, <3>1, ZenonT(60)
  <2>3. ASSUME k + 1 <= n, O(k + 1) PROVE Good(k + 1)
    <3>1. x \in Nat /\ k <= n /\ k + 1 \in 1..n
      <4>1. x \in Nat
        BY <2>1, NthType, ZenonT(60)
      <4>2. k <= n /\ k + 1 \in 1..n
        <5> HIDE DEF Good
        <5> QED
          BY <2>1, <2>3
      <4> QED
        BY <4>1, <4>2
    <3>2. Listed(F[k]) = Listed(found) \cup Set(k) /\ Sorted(F[k], strict)
      BY <2>1, <3>1, ZenonT(60)
    <3>3. ASSUME NEW y \in Listed(F[k]) PROVE Follows(y, x, strict)
      <4>1. CASE y \in Listed(found)
        BY <2>3, <3>1, <4>1 DEF O
      <4>2. CASE y \in Set(k)
        <5>1. PICK i \in 1..k : y = Nth(w, step, i)
          BY <4>2
        <5>2. y \in Nat /\ y < x
          BY <2>1, <5>1, NthGrows, NthType
        <5> HIDE DEF x, Set
        <5> QED
          BY <3>1, <5>2 DEF Follows
      <4> QED
        BY <3>2, <3>3, <4>1, <4>2
    <3>4. Listed(F[k + 1]) = Listed(F[k]) \cup {x} /\ Sorted(F[k + 1], strict)
      <4> HIDE DEF x, Set
      <4> QED
        BY <2>1, <2>2, <2>3, <3>1, <3>2, <3>3, Appended
    <3>5. Of(k + 1) = Of(k) \cup {k + 1}
      BY <2>1, <2>3
    <3>6. Set(k + 1) = Set(k) \cup {x}
      <4> HIDE DEF Of
      <4> QED
        BY <3>5
    <3> HIDE DEF Set, x
    <3> QED
      BY <3>2, <3>4, <3>6
  <2>4. ASSUME k + 1 <= n, ~O(k + 1) PROVE Good(k + 1)
    <3>1. k <= n
      BY <2>1, <2>4
    <3>2. Of(k + 1) = Of(k)
      BY <2>1, <2>4
    <3>3. Set(k + 1) = Set(k)
      <4> HIDE DEF Of
      <4> QED
        BY <3>2
    <3> HIDE DEF Set
    <3> QED
      BY <2>1, <2>2, <2>4, <3>1, <3>3
  <2> HIDE DEF Good
  <2> QED
    BY <2>1, <2>3, <2>4 DEF T
<1>4. n \in T
  <2> HIDE DEF T
  <2>1. T \in SUBSET Nat
    BY DEF T
  <2> QED
    BY <1>2, <1>3, <2>1, AllNat, ZenonT(60)
<1>5. Good(n)
  <2> HIDE DEF Good
  <2> QED
    BY <1>4
<1> QED
  BY <1>5, ZenonT(60) DEF F, O

\* A start that the loop over a window appends.
SlotOf(w, busy, service, step, now, start) ==
  /\ \E k \in 0..w.end : start = w.start + k * step
  /\ start + service.duration + service.after <= w.end
  /\ Free(w, busy, service, now, start)

\* The loop over a window appends its slots, in order.
LEMMA WalkFinds ==
  ASSUME NEW found \in Seq(Nat), NEW w \in Period, NEW busy, NEW service, NEW step \in Nat \ {0}, NEW now,
         NEW strict, Sorted(found, strict),
         \A x \in Listed(found) : \A y : SlotOf(w, busy, service, step, now, y) => Follows(x, y, strict)
  PROVE  LET s == Walk(found, w, busy, service, step, now)
         IN  /\ s \in Seq(Nat)
             /\ \A x : x \in Listed(s) <=> x \in Listed(found) \/ SlotOf(w, busy, service, step, now, x)
             /\ Sorted(s, strict)
<1> DEFINE F == Rounds(found, w, busy, service, step, now)
           n == w.end + 1
           O(i) == Offered(w, busy, service, step, now, i)
<1>1. w.end \in Nat /\ n \in Nat
  BY DEF Period
<1>2. AreRounds(F, found, w, busy, service, step, now)
  BY RoundsDef
<1>3. F[n] \in Seq(Nat)
  <2> HIDE DEF F, n
  <2> QED
    BY <1>1, <1>2 DEF AreRounds
<1>4. ASSUME NEW i \in 1..n, O(i) PROVE SlotOf(w, busy, service, step, now, Nth(w, step, i))
  <2>1. i - 1 \in 0..w.end
    BY <1>1
  <2> QED
    BY <1>4, <2>1 DEF SlotOf, Offered, Nth
<1>5. /\ Listed(F[n]) = Listed(found) \cup {Nth(w, step, i) : i \in {i \in 1..n : O(i)}}
      /\ Sorted(F[n], strict)
  <2> HIDE DEF n
  <2>1. \A x \in Listed(found), i \in 1..n : O(i) => Follows(x, Nth(w, step, i), strict)
    <3> HIDE DEF O
    <3> QED
      BY <1>4
  <2> QED
    BY <1>1, <2>1, RoundsFind, ZenonT(60)
<1>6. ASSUME NEW x
      PROVE  x \in {Nth(w, step, i) : i \in {i \in 1..n : O(i)}} <=> SlotOf(w, busy, service, step, now, x)
  <2>1. ASSUME SlotOf(w, busy, service, step, now, x)
        PROVE  \E i \in {i \in 1..n : O(i)} : x = Nth(w, step, i)
    <3>1. PICK k \in 0..w.end : x = w.start + k * step
      BY <2>1 DEF SlotOf
    <3>2. k + 1 \in 1..n /\ (k + 1) - 1 = k
      BY <1>1
    <3>3. x = Nth(w, step, k + 1)
      BY <3>1, <3>2 DEF Nth
    <3>4. O(k + 1)
      BY <2>1, <3>3 DEF SlotOf, Offered
    <3> HIDE DEF O
    <3> QED
      BY <3>2, <3>3, <3>4
  <2> HIDE DEF O
  <2> QED
    BY <1>4, <2>1
<1>7. Walk(found, w, busy, service, step, now) = F[n]
  BY DEF Walk
<1> HIDE DEF F, n, O
<1> QED
  BY <1>3, <1>5, <1>6, <1>7

\* The loop's condition, moment by moment.
LEMMA SlotMoments ==
  ASSUME NEW w \in Period, NEW busy \in SUBSET Period, \A p \in busy : p.start < p.end,
         NEW service \in ServiceShape, TakesTime(service), NEW step \in Nat, NEW now \in Int,
         NEW start \in Nat
  PROVE  SlotOf(w, busy, service, step, now, start) <=>
           /\ start > now
           /\ \E k \in 0..w.end : start = w.start + k * step
           /\ \A t \in (start - service.before)..(start + service.duration + service.after - 1) :
                /\ w.start <= t /\ t < w.end
                /\ \A p \in busy : t < p.start \/ p.end <= t
<1> DEFINE a == start - service.before
           b == start + service.duration + service.after
           On == \E k \in 0..w.end : start = w.start + k * step
           Worked(t) == w.start <= t /\ t < w.end
           Off(t) == \A p \in busy : t < p.start \/ p.end <= t
<1>1. a \in Int /\ b \in Int /\ a < b /\ w.start \in Nat /\ w.end \in Nat
  BY DEF ServiceShape, Period, TakesTime
<1>2. SlotOf(w, busy, service, step, now, start) <=>
        On /\ b <= w.end /\ a >= w.start /\ start > now /\ \A p \in busy : ~(a < p.end /\ b > p.start)
  BY DEF SlotOf, Free, Overlap
<1> HIDE DEF a, b, On
<1>3. b <= w.end /\ a >= w.start <=> \A t \in a..(b - 1) : Worked(t)
  <2>1. a \in a..(b - 1) /\ b - 1 \in a..(b - 1)
    BY <1>1
  <2> QED
    BY <1>1, <2>1
<1>4. ASSUME NEW p \in busy
      PROVE  ~(a < p.end /\ b > p.start) <=> \A t \in a..(b - 1) : t < p.start \/ p.end <= t
  <2>1. p.start \in Nat /\ p.end \in Nat /\ p.start < p.end
    BY DEF Period
  <2>2. ASSUME a < p.end, b > p.start PROVE \E t \in a..(b - 1) : ~(t < p.start \/ p.end <= t)
    <3>1. CASE a < p.start
      <4>1. p.start \in a..(b - 1)
        BY <1>1, <2>1, <2>2, <3>1
      <4> QED
        BY <2>1, <4>1
    <3>2. CASE ~(a < p.start)
      <4>1. a \in a..(b - 1)
        BY <1>1
      <4> QED
        BY <1>1, <2>1, <2>2, <3>2, <4>1
    <3> QED
      BY <3>1, <3>2
  <2>3. ASSUME ~(a < p.end /\ b > p.start), NEW t \in a..(b - 1) PROVE t < p.start \/ p.end <= t
    BY <1>1, <2>1, <2>3
  <2> QED
    BY <2>2, <2>3
<1>5. (\A p \in busy : ~(a < p.end /\ b > p.start)) <=> \A t \in a..(b - 1) : Off(t)
  <2> HIDE <1>1
  <2>1. (\A p \in busy : ~(a < p.end /\ b > p.start))
          <=> \A p \in busy : \A t \in a..(b - 1) : t < p.start \/ p.end <= t
    BY <1>4, ZenonT(60)
  <2> QED
    BY <2>1, ZenonT(60)
<1> HIDE DEF Worked, Off
<1>6. SlotOf(w, busy, service, step, now, start) <=>
        start > now /\ On /\ \A t \in a..(b - 1) : Worked(t) /\ Off(t)
  BY <1>2, <1>3, <1>5, ZenonT(60)
<1> QED
  <2>1. (\A t \in a..(b - 1) : Worked(t) /\ Off(t)) <=>
          \A t \in (start - service.before)..(start + service.duration + service.after - 1) :
            /\ w.start <= t /\ t < w.end
            /\ \A p \in busy : t < p.start \/ p.end <= t
    <3>1. a..(b - 1) = (start - service.before)..(start + service.duration + service.after - 1)
      <4>1. b - 1 = start + service.duration + service.after - 1
        BY DEF b, ServiceShape
      <4> QED
        BY <4>1, ZenonT(60) DEF a
    <3> QED
      BY <3>1, ZenonT(60) DEF Worked, Off
  <2>2. On <=> \E k \in 0..w.end : start = w.start + k * step
    BY ZenonT(60) DEF On
  <2> QED
    BY <1>6, <2>1, <2>2, ZenonT(60)
\* The loop over the windows: what is found after each.
AreWalks(F, windows, busy, service, step, now) ==
  /\ F \in [0..Len(windows) -> Seq(Nat)]
  /\ F[0] = <<>>
  /\ \A k \in 1..Len(windows) : F[k] = Walk(F[k - 1], windows[k], busy, service, step, now)

\* A walk finds a list of starts.
LEMMA WalkType ==
  ASSUME NEW found \in Seq(Nat), NEW w \in Period, NEW busy, NEW service, NEW step \in Nat, NEW now
  PROVE  Walk(found, w, busy, service, step, now) \in Seq(Nat)
<1> DEFINE F == Rounds(found, w, busy, service, step, now)
<1>1. w.end + 1 \in Nat
  BY DEF Period
<1>2. AreRounds(F, found, w, busy, service, step, now)
  BY RoundsDef
<1>3. F[w.end + 1] \in Seq(Nat)
  <2> HIDE DEF F
  <2> QED
    BY <1>1, <1>2 DEF AreRounds
<1> QED
  BY <1>3 DEF Walk

\* Available is the last of the walks its definition says.
LEMMA AvailableDef ==
  ASSUME NEW windows \in Seq(Period), NEW busy, NEW service, NEW step \in Nat, NEW now
  PROVE  \E F : /\ AreWalks(F, windows, busy, service, step, now)
                /\ Available(windows, busy, service, step, now) = F[Len(windows)]
<1> DEFINE L == Len(windows)
           W(s, k) == Walk(s, windows[k], busy, service, step, now)
           D == [k \in Nat |-> [s \in Seq(Nat) |-> IF k \in 1..L THEN W(s, k) ELSE s]]
           Is(g) == g = [k \in 0..L |-> IF k = 0 THEN <<>> ELSE W(g[k - 1], k)]
<1>1. L \in Nat /\ \A k \in 1..L : windows[k] \in Period
  OBVIOUS
<1>2. \A k \in 1..L : \A s \in Seq(Nat) : W(s, k) \in Seq(Nat)
  BY <1>1, WalkType
<1>3. PICK f \in [Nat -> Seq(Nat)] : f[0] = <<>> /\ \A n \in Nat \ {0} : f[n] = D[n][f[n - 1]]
  <2>1. D \in [Nat -> [Seq(Nat) -> Seq(Nat)]]
    <3> HIDE DEF W, L
    <3> QED
      BY <1>2
  <2>2. D \in Steps(Seq(Nat))
    BY <2>1 DEF Steps
  <2>3. <<>> \in Seq(Nat)
    OBVIOUS
  <2>4. \E f : Iterates(f, <<>>, D, Seq(Nat))
    <3> HIDE DEF D
    <3> QED
      BY <2>2, <2>3, Iteration, ZenonT(60)
  <2> QED
    BY <2>4, ZenonT(60) DEF Iterates
<1> DEFINE g == [k \in 0..L |-> f[k]]
<1>4. Is(g)
  <2>1. ASSUME NEW k \in 1..L PROVE f[k] = W(f[k - 1], k)
    <3>1. k \in Nat \ {0} /\ k - 1 \in Nat /\ f[k - 1] \in Seq(Nat)
      BY <1>1, <1>3
    <3>2. f[k] = D[k][f[k - 1]]
      BY <1>3, <3>1, ZenonT(60)
    <3> HIDE DEF W, L
    <3> QED
      BY <3>1, <3>2
  <2>2. ASSUME NEW k \in 0..L PROVE f[k] = IF k = 0 THEN <<>> ELSE W(g[k - 1], k)
    <3>1. CASE k = 0
      BY <1>3, <3>1
    <3>2. CASE k # 0
      <4>1. k \in 1..L /\ k - 1 \in 0..L
        BY <1>1, <3>2
      <4>2. g[k - 1] = f[k - 1]
        BY <4>1
      <4> HIDE DEF W, L, g
      <4> QED
        BY <2>1, <3>2, <4>1, <4>2, ZenonT(60)
    <3> QED
      BY <3>1, <3>2
  <2> HIDE DEF W, L
  <2> QED
    BY <2>2, ZenonT(60)
<1> DEFINE F == CHOOSE h : Is(h)
<1>5. Is(F)
  BY <1>4, ZenonT(60)
<1>6. Available(windows, busy, service, step, now) = F[L]
  BY ZenonT(60) DEF Available
<1> HIDE DEF F, W
<1>7. F[0] = <<>> /\ \A k \in 1..L : F[k] = W(F[k - 1], k)
  <2>1. 0 \in 0..L /\ \A k \in 1..L : k \in 0..L /\ k # 0
    BY <1>1
  <2> HIDE DEF L
  <2> QED
    BY <1>5, <2>1, ZenonT(60)
<1> DEFINE T == {n \in Nat : n <= L => F[n] \in Seq(Nat)}
<1>8. \A n \in Nat : n \in T
  <2>1. 0 \in T
    <3>1. <<>> \in Seq(Nat)
      OBVIOUS
    <3> QED
      BY <1>7, <3>1, ZenonT(60)
  <2>2. ASSUME NEW n \in T PROVE n + 1 \in T
    <3>1. n \in Nat /\ (n <= L => F[n] \in Seq(Nat))
      OBVIOUS
    <3>2. ASSUME n + 1 <= L PROVE F[n + 1] \in Seq(Nat)
      <4>1. n + 1 \in 1..L /\ (n + 1) - 1 = n /\ n <= L
        BY <1>1, <3>1, <3>2
      <4> HIDE DEF L, T
      <4> QED
        BY <1>2, <1>7, <3>1, <4>1, ZenonT(60)
    <3> QED
      BY <3>1, <3>2
  <2> HIDE DEF T
  <2>3. T \in SUBSET Nat
    BY DEF T
  <2> QED
    BY <2>1, <2>2, <2>3, AllNat, ZenonT(60)
<1>9. F \in [0..L -> Seq(Nat)]
  <2>1. F = [k \in 0..L |-> F[k]]
    BY <1>5
  <2>2. \A k \in 0..L : F[k] \in Seq(Nat)
    BY <1>1, <1>8
  <2> HIDE DEF L
  <2> QED
    BY <2>1, <2>2
<1>10. AreWalks(F, windows, busy, service, step, now)
  BY <1>7, <1>9 DEF AreWalks, W
<1> QED
  BY <1>6, <1>10
\* Windows one after the other, as ValidIntervals leaves them.
OneAfterTheOther(windows) ==
  \A i, j \in DOMAIN windows : i < j => windows[i].end <= windows[j].start

\* A slot lies in its window, with its buffers.
LEMMA SlotWithin ==
  ASSUME NEW w \in Period, NEW busy, NEW service \in ServiceShape, NEW step \in Nat, NEW now, NEW x,
         SlotOf(w, busy, service, step, now, x)
  PROVE  /\ x \in Nat
         /\ w.start <= x - service.before
         /\ x + service.duration + service.after <= w.end
<1>1. PICK k \in 0..w.end : x = w.start + k * step
  BY DEF SlotOf
<1>2. w.start \in Nat /\ w.end \in Nat /\ k \in Nat
  BY <1>1 DEF Period
<1>3. k * step \in Nat
  BY <1>2
<1>4. x \in Nat
  BY <1>1, <1>2, <1>3
<1>5. x - service.before >= w.start
  BY DEF SlotOf, Free
<1>6. x + service.duration + service.after <= w.end
  BY DEF SlotOf
<1>7. service.before \in Nat
  BY DEF ServiceShape
<1> QED
  BY <1>2, <1>4, <1>5, <1>6, <1>7

\* The slots of a later window come later; only those that take no time may be at the same.
LEMMA SlotsFollow ==
  ASSUME NEW v \in Period, NEW w \in Period, v.end <= w.start, NEW busy, NEW service \in ServiceShape,
         NEW step \in Nat, NEW now, NEW x, NEW y,
         SlotOf(v, busy, service, step, now, x), SlotOf(w, busy, service, step, now, y)
  PROVE  Follows(x, y, TakesTime(service))
<1>1. x \in Nat /\ x + service.duration + service.after <= v.end
  BY SlotWithin
<1>2. y \in Nat /\ w.start <= y - service.before
  BY SlotWithin
<1>3. /\ service.duration \in Nat /\ service.before \in Nat /\ service.after \in Nat
      /\ v.end \in Nat /\ w.start \in Nat
  BY DEF ServiceShape, Period
<1> QED
  BY <1>1, <1>2, <1>3 DEF Follows, TakesTime

\* The loop over the windows finds the slots of all of them, in order.
LEMMA AvailableFinds ==
  ASSUME NEW windows \in Seq(Period), OneAfterTheOther(windows),
         \A k \in DOMAIN windows : windows[k].start < windows[k].end,
         NEW busy, NEW service \in ServiceShape, NEW step \in Nat \ {0}, NEW now
  PROVE  LET s == Available(windows, busy, service, step, now)
         IN  /\ s \in Seq(Nat)
             /\ Sorted(s, TakesTime(service))
             /\ \A x : x \in Listed(s) <=>
                         \E w \in Listed(windows) : SlotOf(w, busy, service, step, now, x)
<1> DEFINE L == Len(windows)
           P(w, x) == SlotOf(w, busy, service, step, now, x)
<1>1. L \in Nat /\ DOMAIN windows = 1..L /\ \A k \in 1..L : windows[k] \in Period
  OBVIOUS
<1>2. PICK F : AreWalks(F, windows, busy, service, step, now) /\ Available(windows, busy, service, step, now) = F[L]
  BY AvailableDef
<1>3. /\ F \in [0..L -> Seq(Nat)]
      /\ F[0] = <<>>
      /\ \A k \in 1..L : F[k] = Walk(F[k - 1], windows[k], busy, service, step, now)
  BY <1>2 DEF AreWalks
<1> DEFINE Good(n) == /\ Sorted(F[n], TakesTime(service))
                      /\ \A x : x \in Listed(F[n]) <=> \E k \in 1..n : P(windows[k], x)
           T == {n \in Nat : n <= L => Good(n)}
<1> HIDE DEF L
<1>4. 0 \in T
  <2>1. Sorted(<<>>, TakesTime(service)) /\ Listed(<<>>) = {}
    BY DEF Sorted, Listed
  <2>2. 1..0 = {}
    OBVIOUS
  <2> HIDE DEF P
  <2> QED
    BY <1>3, <2>1, <2>2
<1>5. ASSUME NEW n \in T PROVE n + 1 \in T
  <2> DEFINE w == windows[n + 1]
  <2>1. n \in Nat /\ n + 1 \in Nat /\ (n <= L => Good(n))
    <3> HIDE DEF Good
    <3> QED
      OBVIOUS
  <2>2. ASSUME n + 1 <= L PROVE Good(n + 1)
    <3>1. n + 1 \in 1..L /\ (n + 1) - 1 = n /\ n <= L /\ n \in 0..L /\ 1..n \subseteq 1..L
      BY <1>1, <2>1, <2>2
    <3>2. Good(n) /\ F[n] \in Seq(Nat) /\ w \in Period
      <4> HIDE DEF Good, T
      <4> QED
        BY <1>1, <1>3, <2>1, <3>1
    <3>3. F[n + 1] = Walk(F[n], w, busy, service, step, now)
      <4> HIDE DEF Good, T
      <4> QED
        BY <1>3, <3>1
    <3>4. ASSUME NEW x \in Listed(F[n]), NEW y, P(w, y) PROVE Follows(x, y, TakesTime(service))
      <4>1. PICK k \in 1..n : P(windows[k], x)
        <5> HIDE DEF P
        <5> QED
          BY <3>2
      <4>2. windows[k] \in Period /\ k < n + 1 /\ k \in 1..L
        BY <1>1, <2>1, <3>1
      <4>3. windows[k].end <= w.start
        BY <1>1, <3>1, <4>2 DEF OneAfterTheOther
      <4>4. step \in Nat
        OBVIOUS
      <4> HIDE DEF w, Good, T
      <4> QED
        BY <3>2, <3>4, <4>1, <4>2, <4>3, <4>4, SlotsFollow
    <3>5. /\ \A x : x \in Listed(F[n + 1]) <=> x \in Listed(F[n]) \/ P(w, x)
          /\ Sorted(F[n + 1], TakesTime(service))
      <4>1. Sorted(F[n], TakesTime(service))
        BY <3>2, ZenonT(60)
      <4> HIDE DEF w, Good, T
      <4> QED
        BY <3>2, <3>3, <3>4, <4>1, WalkFinds, ZenonT(60)
    <3>6. 1..(n + 1) = 1..n \cup {n + 1}
      BY <2>1
    <3>7. ASSUME NEW x
          PROVE  x \in Listed(F[n + 1]) <=> \E k \in 1..(n + 1) : P(windows[k], x)
      <4> HIDE DEF P
      <4>1. x \in Listed(F[n]) <=> \E k \in 1..n : P(windows[k], x)
        BY <3>2, ZenonT(60)
      <4>2. (\E k \in 1..(n + 1) : P(windows[k], x)) <=> (\E k \in 1..n : P(windows[k], x)) \/ P(windows[n + 1], x)
        BY <3>6
      <4> QED
        BY <3>5, <4>1, <4>2, ZenonT(60)
    <3> QED
      BY <3>5, <3>7, ZenonT(60)
  <2> HIDE DEF Good
  <2> QED
    BY <2>1, <2>2
<1>6. L \in T
  <2> HIDE DEF T
  <2>1. T \in SUBSET Nat
    BY DEF T
  <2> QED
    BY <1>1, <1>4, <1>5, <2>1, AllNat
<1>7. Good(L)
  <2> HIDE DEF Good
  <2> QED
    BY <1>1, <1>6
<1>8. F[L] \in Seq(Nat)
  <2>1. L \in 0..L
    BY <1>1
  <2> QED
    BY <1>3, <2>1
<1>9. ASSUME NEW x
      PROVE  (\E w \in Listed(windows) : P(w, x)) <=> \E k \in 1..L : P(windows[k], x)
  <2> HIDE DEF P
  <2> QED
    BY <1>1 DEF Listed
<1> HIDE DEF P
<1>10. ASSUME NEW x
       PROVE  x \in Listed(F[L]) <=> \E w \in Listed(windows) : P(w, x)
  BY <1>7, <1>9, ZenonT(60)
<1>11. Sorted(F[L], TakesTime(service))
  BY <1>7, ZenonT(60)
<1> QED
  BY <1>2, <1>8, <1>10, <1>11, ZenonT(60) DEF P
-----------------------------------------------------------------------------
(* The order of the windows.                                               *)

\* How many periods of S come before p.
Rank(S, p) == Cardinality({q \in S : Earlier(q, p)})

\* A period is known by its bounds, and two periods are ordered.
LEMMA EarlierTotal ==
  ASSUME NEW p \in Period, NEW q \in Period
  PROVE  /\ ~Earlier(p, p)
         /\ p = q \/ Earlier(p, q) \/ Earlier(q, p)
         /\ ~(Earlier(p, q) /\ Earlier(q, p))
         /\ \A r \in Period : Earlier(p, q) /\ Earlier(q, r) => Earlier(p, r)
BY DEF Period, Earlier

\* The rank of a period of S is below the number of periods, and grows with the order.
LEMMA RankGrows ==
  ASSUME NEW S \in SUBSET Period, IsFiniteSet(S), NEW p \in S
  PROVE  /\ Rank(S, p) \in 0..(Cardinality(S) - 1)
         /\ \A q \in S : Earlier(p, q) => Rank(S, p) < Rank(S, q)
<1> DEFINE B(x) == {y \in S : Earlier(y, x)}
<1>1. ASSUME NEW x \in S PROVE IsFiniteSet(B(x)) /\ Cardinality(B(x)) \in Nat
  <2>1. B(x) \in SUBSET S
    OBVIOUS
  <2> HIDE DEF B
  <2> QED
    BY <2>1, FS_Subset, FS_CardinalityType
<1>2. Rank(S, p) \in 0..(Cardinality(S) - 1)
  <2>1. B(p) \in SUBSET S /\ B(p) # S
    BY EarlierTotal
  <2> HIDE DEF B
  <2>2. Cardinality(B(p)) <= Cardinality(S) /\ Cardinality(B(p)) # Cardinality(S) /\ Cardinality(S) \in Nat
    BY <2>1, FS_Subset, FS_CardinalityType
  <2>3. Cardinality(B(p)) \in 0..(Cardinality(S) - 1)
    BY <1>1, <2>2
  <2> QED
    BY <2>3 DEF Rank, B
<1>3. ASSUME NEW q \in S, Earlier(p, q) PROVE Rank(S, p) < Rank(S, q)
  <2>1. B(p) \in SUBSET B(q) /\ B(p) # B(q)
    BY <1>3, EarlierTotal
  <2> HIDE DEF B
  <2>2. Cardinality(B(p)) <= Cardinality(B(q)) /\ Cardinality(B(p)) # Cardinality(B(q))
    BY <1>1, <2>1, FS_Subset
  <2>3. Cardinality(B(p)) < Cardinality(B(q))
    BY <1>1, <2>2
  <2> QED
    BY <2>3 DEF Rank, B
<1> QED
  BY <1>2, <1>3

\* InOrder lists the periods, each once, the earlier ones first.
LEMMA InOrderLists ==
  ASSUME NEW S \in SUBSET Period, IsFiniteSet(S)
  PROVE  LET s == InOrder(S)
         IN  /\ s \in Seq(S)
             /\ Len(s) = Cardinality(S)
             /\ Listed(s) = S
             /\ \A i, j \in DOMAIN s : i < j => Earlier(s[i], s[j])
<1> DEFINE n == Cardinality(S)
           s == InOrder(S)
           f == [p \in S |-> Rank(S, p) + 1]
<1>1. n \in Nat
  BY FS_CardinalityType
<1>2. IsFiniteSet(1..n) /\ Cardinality(1..n) = n
  <2> HIDE DEF n
  <2>1. IsFiniteSet(1..n) /\ Cardinality(1..n) = IF 1 > n THEN 0 ELSE n - 1 + 1
    BY <1>1, FS_Interval
  <2> QED
    BY <1>1, <2>1
<1>3. ASSUME NEW p \in S, NEW q \in S, Rank(S, p) = Rank(S, q) PROVE p = q
  <2>1. p \in Period /\ q \in Period /\ Rank(S, p) \in Int
    BY RankGrows
  <2> QED
    BY <1>3, <2>1, EarlierTotal, RankGrows
<1>4. f \in Injection(S, 1..n)
  <2> HIDE DEF n
  <2>1. ASSUME NEW p \in S PROVE Rank(S, p) \in Int /\ Rank(S, p) + 1 \in 1..n
    BY <1>1, RankGrows DEF n
  <2>2. f \in [S -> 1..n]
    BY <2>1
  <2>3. ASSUME NEW p \in S, NEW q \in S, f[p] = f[q] PROVE p = q
    BY <1>3, <2>1, <2>3
  <2> HIDE DEF f
  <2> QED
    BY <2>2, <2>3 DEF Injection, IsInjective
<1>5. f \in Surjection(S, 1..n)
  <2> HIDE DEF f, n
  <2> QED
    BY <1>2, <1>4, FS_Injection DEF n
<1>6. ASSUME NEW k \in 1..n PROVE s[k] \in S /\ Rank(S, s[k]) = k - 1
  <2>1. \E p \in S : f[p] = k
    <3> HIDE DEF f, n
    <3> QED
      BY <1>5 DEF Surjection
  <2>2. PICK p \in S : Rank(S, p) + 1 = k
    BY <2>1
  <2>3. Rank(S, p) = k - 1
    BY <1>1, <2>2, RankGrows
  <2>4. s[k] = CHOOSE x \in S : Rank(S, x) = k - 1
    BY ZenonT(60) DEF InOrder, Rank
  <2> HIDE DEF s
  <2> QED
    BY <2>3, <2>4
<1>7. s \in [1..n -> S]
  <2> DEFINE C(k) == CHOOSE p \in S : Cardinality({q \in S : Earlier(q, p)}) = k - 1
  <2>1. s = [k \in 1..n |-> C(k)]
    BY ZenonT(60) DEF InOrder
  <2> HIDE DEF s, n, C
  <2> QED
    BY <1>6, <2>1
<1> HIDE DEF s, n
<1>8. s \in Seq(S) /\ Len(s) = n /\ DOMAIN s = 1..n
  BY <1>1, <1>7
<1>9. ASSUME NEW p \in S PROVE p \in Listed(s)
  <2>1. Rank(S, p) + 1 \in 1..n /\ Rank(S, p) \in Int
    BY <1>1, RankGrows DEF n
  <2>2. s[Rank(S, p) + 1] \in S /\ Rank(S, s[Rank(S, p) + 1]) = Rank(S, p)
    BY <1>6, <2>1
  <2>3. s[Rank(S, p) + 1] = p
    BY <1>3, <2>2
  <2> QED
    BY <1>8, <2>1, <2>3 DEF Listed
<1>10. Listed(s) = S
  BY <1>6, <1>8, <1>9 DEF Listed
<1>11. ASSUME NEW i \in 1..n, NEW j \in 1..n, i < j PROVE Earlier(s[i], s[j])
  <2>1. s[i] \in S /\ s[j] \in S /\ Rank(S, s[i]) = i - 1 /\ Rank(S, s[j]) = j - 1
    BY <1>6
  <2>2. s[i] # s[j] /\ s[i] \in Period /\ s[j] \in Period
    BY <1>1, <1>11, <2>1
  <2>3. ~Earlier(s[j], s[i])
    <3>1. ~(Rank(S, s[j]) < Rank(S, s[i]))
      BY <1>1, <1>11, <2>1
    <3> QED
      BY <2>1, <3>1, RankGrows
  <2> QED
    BY <2>2, <2>3, EarlierTotal
<1> QED
  BY <1>8, <1>10, <1>11 DEF s, n

\* The periods of a day are finitely many.
LEMMA DayIsFinite ==
  ASSUME NEW m \in Nat, NEW S \in SUBSET Period, \A p \in S : p.end <= m /\ p.start <= m
  PROVE  IsFiniteSet(S)
<1> DEFINE f == [p \in S |-> <<p.start, p.end>>]
           D == (0..m) \X (0..m)
<1>1. IsFiniteSet(D)
  <2>1. IsFiniteSet(0..m)
    BY FS_Interval
  <2> QED
    BY <2>1, FS_Product
<1>2. f \in Injection(S, D)
  <2>1. f \in [S -> D]
    BY DEF Period
  <2>2. ASSUME NEW p \in S, NEW q \in S, f[p] = f[q] PROVE p = q
    <3>1. p.start = q.start /\ p.end = q.end
      BY <2>2
    <3> QED
      BY <3>1 DEF Period
  <2> HIDE DEF f, D
  <2> QED
    BY <2>1, <2>2 DEF Injection, IsInjective
<1> HIDE DEF f, D
<1> QED
  BY <1>1, <1>2, FS_Injection
-----------------------------------------------------------------------------
(* The slots of a day.                                                     *)

\* Periods that do not overlap come one after the other when they are in order.
LEMMA InOrderOneAfterTheOther ==
  ASSUME NEW S \in SUBSET Period, IsFiniteSet(S), \A p \in S : p.start < p.end,
         \A p, q \in S : p # q => ~Overlap(p, q)
  PROVE  LET s == InOrder(S)
         IN  /\ s \in Seq(Period)
             /\ Listed(s) = S
             /\ OneAfterTheOther(s)
             /\ \A k \in DOMAIN s : s[k].start < s[k].end
<1> DEFINE s == InOrder(S)
<1>1. s \in Seq(S) /\ Listed(s) = S /\ \A i, j \in DOMAIN s : i < j => Earlier(s[i], s[j])
  BY InOrderLists
<1> HIDE DEF s
<1>2. \A k \in DOMAIN s : s[k] \in S
  BY <1>1
<1>3. s \in Seq(Period)
  BY <1>1
<1>4. ASSUME NEW i \in DOMAIN s, NEW j \in DOMAIN s, i < j PROVE s[i].end <= s[j].start
  <2>1. s[i] \in S /\ s[j] \in S /\ s[i] \in Period /\ s[j] \in Period /\ Earlier(s[i], s[j])
    BY <1>1, <1>2, <1>4
  <2>2. s[i] # s[j]
    BY <2>1, EarlierTotal
  <2>3. ~Overlap(s[i], s[j]) /\ s[j].start < s[j].end
    BY <2>1, <2>2
  <2> HIDE <1>2
  <2> QED
    BY <2>1, <2>3 DEF Overlap, Earlier, Period
<1> QED
  BY <1>1, <1>2, <1>3, <1>4 DEF OneAfterTheOther, s

\* What Available computes for every day: starts in order, each in a window and clear of what
\* is busy; for a service that takes time, each once, and exactly those the reference allows.
THEOREM AvailableIsTheReference ==
  ASSUME NEW S \in SUBSET Period, IsFiniteSet(S), \A p \in S : p.start < p.end,
         \A p, q \in S : p # q => ~Overlap(p, q),
         NEW busy \in SUBSET Period, \A p \in busy : p.start < p.end,
         NEW service \in ServiceShape, NEW step \in Nat \ {0}, NEW now \in Int
  PROVE  LET s == Available(InOrder(S), busy, service, step, now)
         IN  /\ s \in Seq(Nat)
             /\ Sorted(s, TakesTime(service))
             /\ TakesTime(service) =>
                  \A x \in Nat : x \in Listed(s) <=> IsSlot(S, busy, service, step, now, x)
             /\ \A x \in Listed(s) : \E w \in S : SlotOf(w, busy, service, step, now, x)
<1> DEFINE win == InOrder(S)
           s == Available(win, busy, service, step, now)
           Moments(w, x) == /\ x > now
                            /\ \E k \in 0..w.end : x = w.start + k * step
                            /\ \A t \in (x - service.before)..(x + service.duration + service.after - 1) :
                                 /\ w.start <= t /\ t < w.end
                                 /\ \A p \in busy : t < p.start \/ p.end <= t
<1>1. /\ win \in Seq(Period) /\ Listed(win) = S /\ OneAfterTheOther(win)
      /\ \A k \in DOMAIN win : win[k].start < win[k].end
  BY InOrderOneAfterTheOther
<1> HIDE DEF win
<1>2. /\ s \in Seq(Nat)
      /\ Sorted(s, TakesTime(service))
      /\ \A x : x \in Listed(s) <=> \E w \in Listed(win) : SlotOf(w, busy, service, step, now, x)
  BY <1>1, AvailableFinds
<1> HIDE DEF s
<1>3. ASSUME TakesTime(service), NEW x \in Nat, NEW w \in S
      PROVE  SlotOf(w, busy, service, step, now, x) <=> Moments(w, x)
  BY <1>3, SlotMoments, ZenonT(60)
<1>4. ASSUME NEW x \in Nat
      PROVE  IsSlot(S, busy, service, step, now, x) <=> \E w \in S : Moments(w, x)
  BY ZenonT(60) DEF IsSlot
<1> HIDE DEF Moments
<1>5. ASSUME TakesTime(service), NEW x \in Nat
      PROVE  x \in Listed(s) <=> IsSlot(S, busy, service, step, now, x)
  BY <1>1, <1>2, <1>3, <1>4, <1>5, ZenonT(60)
<1> QED
  BY <1>1, <1>2, <1>5, ZenonT(60) DEF s, win

\* A slot that is offered keeps clear of what is busy.
LEMMA SlotClear ==
  ASSUME NEW w, NEW busy, NEW service, NEW step, NEW now, NEW x, NEW p \in busy,
         SlotOf(w, busy, service, step, now, x)
  PROVE  ~Overlap([start |-> x - service.before, end |-> x + service.duration + service.after], p)
BY DEF SlotOf, Free

=============================================================================
