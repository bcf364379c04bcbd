----------------------------- MODULE RingWindow -----------------------------
(***************************************************************************)
(* A ring of D barriers serves the steps of a row in turn: step s uses     *)
(* barrier s % D.  `up' is the set of steps signalled and not yet observed *)
(* by the ring's waiter.  While it stays within D consecutive steps, each  *)
(* barrier's lag says whether one of its steps is in `up'.  These facts    *)
(* hold of any such ring, whichever kernel it belongs to.                  *)
(***************************************************************************)
EXTENDS Integers, TLAPS

\* lag[i], the phases of barrier i ahead of its waiter, tells the steps in up.
Encodes(lag, D, up) ==
  \A i \in 0 .. D - 1 : lag[i] = IF \E s \in up : s % D = i THEN 1 ELSE 0

LEMMA SlotRange ==
  ASSUME NEW D \in Nat \ {0}, NEW s \in Nat
  PROVE  /\ s = D * (s \div D) + (s % D)
         /\ s \div D \in Int /\ s % D \in 0 .. D - 1
BY SMT

\* Two steps less than D apart use different slots.
LEMMA SlotsDiffer ==
  ASSUME NEW D \in Nat \ {0}, NEW s \in Nat, NEW t \in Nat, s < t, t < s + D
  PROVE  s % D # t % D
<1> DEFINE a == s \div D  b == t \div D
<1>1. s = D * a + (s % D) /\ a \in Int /\ s % D \in 0 .. D - 1
  BY SlotRange
<1>2. t = D * b + (t % D) /\ b \in Int /\ t % D \in 0 .. D - 1
  BY SlotRange
<1> SUFFICES ASSUME s % D = t % D PROVE FALSE
  OBVIOUS
<1> HIDE DEF a, b
<1>3. t - s = D * (b - a)
  BY <1>1, <1>2
<1>4. CASE b - a >= 1
  <2>1. D * (b - a) >= D
    BY <1>4, <1>1, <1>2
  <2> QED
    BY <2>1, <1>3
<1>5. CASE b - a <= 0
  <2>1. D * (b - a) <= 0
    BY <1>5, <1>1, <1>2
  <2> QED
    BY <2>1, <1>3
<1> QED
  BY <1>4, <1>5, <1>1, <1>2

\* A step uses the slot of the step D before it.
LEMMA SlotBefore ==
  ASSUME NEW D \in Nat \ {0}, NEW s \in Nat, s >= D
  PROVE  (s - D) % D = s % D
<1> DEFINE t == s - D
           a == s \div D  b == t \div D
<1>0. t \in Nat
  BY SMT
<1>1. s = D * a + (s % D) /\ a \in Int /\ s % D \in 0 .. D - 1
  BY SlotRange
<1>2. t = D * b + (t % D) /\ b \in Int /\ t % D \in 0 .. D - 1
  BY <1>0, SlotRange
<1>3. s = t + D
  BY SMT
<1> SUFFICES t % D = s % D
  OBVIOUS
<1> HIDE DEF a, b, t
<1>4. (s % D) - (t % D) = D * (b + 1 - a)
  <2>1. s % D = s - D * a /\ t % D = t - D * b
    BY <1>0, <1>1, <1>2
  <2>2. D * (b + 1 - a) = D * b + D - D * a
    BY <1>1, <1>2
  <2>3. D * a \in Int /\ D * b \in Int
    BY <1>1, <1>2
  <2> QED
    BY <1>0, <1>3, <2>1, <2>2, <2>3
<1>5. CASE b + 1 - a >= 1
  <2>1. D * (b + 1 - a) >= D
    BY <1>5, <1>1, <1>2
  <2> QED
    BY <2>1, <1>4, <1>1, <1>2
<1>6. CASE b + 1 - a <= -1
  <2>1. D * (b + 1 - a) <= -D
    BY <1>6, <1>1, <1>2
  <2> QED
    BY <2>1, <1>4, <1>1, <1>2
<1>7. CASE b + 1 - a = 0
  <2>1. D * (b + 1 - a) = 0
    BY <1>7
  <2>2. s % D \in Int /\ t % D \in Int
    BY <1>1, <1>2
  <2>3. (s % D) - (t % D) = 0
    BY <2>1, <1>4
  <2> QED
    BY <2>2, <2>3
<1> QED
  BY <1>5, <1>6, <1>7, <1>1, <1>2

\* Steps of a window no longer than the ring share no slot.
LEMMA WindowSlots ==
  ASSUME NEW D \in Nat \ {0}, NEW lo \in Nat, NEW hi \in Nat, hi <= lo + D,
         NEW s \in lo .. hi - 1, NEW t \in lo .. hi - 1, s % D = t % D
  PROVE  s = t
<1>1. s \in Nat /\ t \in Nat /\ s < t + D /\ t < s + D
  OBVIOUS
<1>2. ~(s < t) /\ ~(t < s)
  BY <1>1, SlotsDiffer
<1> QED
  BY <1>1, <1>2

\* A signal for a step of the window adds it to the steps that are up.
LEMMA Signalled ==
  ASSUME NEW D \in Nat \ {0}, NEW lo \in Nat, NEW hi \in Nat, hi <= lo + D,
         NEW up \in SUBSET (lo .. hi - 1), NEW s \in lo .. hi - 1, s \notin up,
         NEW lag, lag = [i \in 0 .. D - 1 |-> lag[i]], Encodes(lag, D, up)
  PROVE  Encodes([lag EXCEPT ![s % D] = @ + 1], D, up \cup {s})
<1> DEFINE lag2 == [lag EXCEPT ![s % D] = @ + 1]
<1>0. s \in Nat /\ s % D \in 0 .. D - 1
  BY SlotRange
<1>1. ASSUME NEW t \in up, t % D = s % D PROVE FALSE
  BY <1>1, WindowSlots
<1>2. lag[s % D] = 0
  BY <1>0, <1>1 DEF Encodes
<1> SUFFICES ASSUME NEW i \in 0 .. D - 1
             PROVE  lag2[i] = IF \E t \in up \cup {s} : t % D = i THEN 1 ELSE 0
  BY DEF Encodes
<1>3. CASE i = s % D
  <2>1. lag2[i] = 1
    BY <1>0, <1>2, <1>3
  <2> QED
    BY <2>1, <1>3
<1>4. CASE i # s % D
  <2>1. lag2[i] = lag[i]
    BY <1>0, <1>4
  <2> QED
    BY <2>1, <1>4 DEF Encodes
<1> QED
  BY <1>3, <1>4

\* A waiter that passes the barrier of its next step observes that step, and
\* no other.
LEMMA Observed ==
  ASSUME NEW D \in Nat \ {0}, NEW lo \in Nat, NEW hi \in Nat, hi <= lo + D,
         NEW up \in SUBSET (lo .. hi - 1),
         NEW lag, lag = [i \in 0 .. D - 1 |-> lag[i]], Encodes(lag, D, up),
         lag[lo % D] # 0
  PROVE  /\ lo \in up
         /\ Encodes([lag EXCEPT ![lo % D] = @ - 1], D, up \ {lo})
<1> DEFINE lag2 == [lag EXCEPT ![lo % D] = @ - 1]
<1>0. lo % D \in 0 .. D - 1
  BY SlotRange
<1>1. PICK t \in up : t % D = lo % D
  BY <1>0 DEF Encodes
<1>2. lo < hi /\ lo \in lo .. hi - 1
  BY <1>1
<1>3. t = lo
  BY <1>1, <1>2, WindowSlots
<1>4. ASSUME NEW s \in up, s % D = lo % D PROVE s = lo
  BY <1>2, <1>4, WindowSlots
<1>5. Encodes(lag2, D, up \ {lo})
  <2> SUFFICES ASSUME NEW i \in 0 .. D - 1
               PROVE  lag2[i] = IF \E s \in up \ {lo} : s % D = i THEN 1 ELSE 0
    BY DEF Encodes
  <2>1. CASE i = lo % D
    <3>1. lag[i] = 1
      BY <1>1, <2>1 DEF Encodes
    <3>2. lag2[i] = 0
      BY <1>0, <2>1, <3>1
    <3> QED
      BY <1>4, <2>1, <3>2
  <2>2. CASE i # lo % D
    <3>1. lag2[i] = lag[i]
      BY <1>0, <2>2
    <3> QED
      BY <3>1, <2>2 DEF Encodes
  <2> QED
    BY <2>1, <2>2
<1> QED
  BY <1>1, <1>3, <1>5

=============================================================================
