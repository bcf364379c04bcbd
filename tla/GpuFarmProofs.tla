--------------------------- MODULE GpuFarmProofs ---------------------------
(***************************************************************************)
(* Theorems about the farm of GpuFarm.tla, for every number of GPUs, jobs, *)
(* priorities and stops.                                                   *)
(***************************************************************************)
EXTENDS GpuFarm, TLAPS, SequenceTheorems, WellFoundedInduction

\* Sequences without repetitions: what is left when one element goes, and what
\* becomes of one that gets another element.
LEMMA TailInjective ==
  ASSUME NEW S, NEW s \in Seq(S), s # <<>>, IsInjective(s)
  PROVE  /\ Head(s) \in S /\ Head(s) \in ToSet(s) /\ Tail(s) \in Seq(S)
         /\ IsInjective(Tail(s)) /\ ToSet(Tail(s)) = ToSet(s) \ {Head(s)}
<1>1. /\ Head(s) = s[1] /\ Tail(s) \in Seq(S) /\ Len(s) \in Nat \ {0}
      /\ Len(Tail(s)) = Len(s) - 1 /\ \A i \in 1 .. Len(s) - 1 : Tail(s)[i] = s[i + 1]
  BY HeadTailProperties, LenProperties, EmptySeq
<1>2. DOMAIN s = 1 .. Len(s) /\ DOMAIN Tail(s) = 1 .. Len(s) - 1
  BY <1>1, LenProperties
<1>3. IsInjective(Tail(s))
  BY <1>1, <1>2 DEF IsInjective
<1>4. ASSUME NEW x \in ToSet(s), x # s[1] PROVE x \in ToSet(Tail(s))
  <2>1. PICK i \in 1 .. Len(s) : x = s[i]
    BY <1>2, <1>4 DEF ToSet
  <2>2. i - 1 \in DOMAIN Tail(s) /\ Tail(s)[i - 1] = x
    BY <1>1, <1>2, <1>4, <2>1
  <2> QED
    BY <2>2 DEF ToSet
<1>5. ASSUME NEW x \in ToSet(Tail(s)) PROVE x \in ToSet(s) \ {s[1]}
  <2>1. PICK i \in 1 .. Len(s) - 1 : x = s[i + 1]
    BY <1>1, <1>2, <1>5 DEF ToSet
  <2>2. i + 1 \in DOMAIN s /\ i + 1 # 1 /\ 1 \in DOMAIN s
    BY <1>1, <1>2
  <2> QED
    BY <2>1, <2>2 DEF ToSet, IsInjective
<1>6. s[1] \in S /\ s[1] \in ToSet(s)
  BY <1>1, <1>2, ElementOfSeq DEF ToSet
<1> QED
  BY <1>1, <1>3, <1>4, <1>5, <1>6

LEMMA AppendInjectiveSeq ==
  ASSUME NEW S, NEW s \in Seq(S), NEW x \in S, x \notin ToSet(s), IsInjective(s)
  PROVE  /\ Append(s, x) \in Seq(S) /\ IsInjective(Append(s, x))
         /\ ToSet(Append(s, x)) = ToSet(s) \cup {x}
<1> DEFINE a == Append(s, x)
<1>1. /\ a \in Seq(S) /\ Len(s) \in Nat /\ Len(a) = Len(s) + 1
      /\ \A i \in 1 .. Len(s) : a[i] = s[i]
      /\ a[Len(s) + 1] = x
  BY AppendProperties, LenProperties
<1>2. DOMAIN s = 1 .. Len(s) /\ DOMAIN a = 1 .. Len(s) + 1
  BY <1>1, LenProperties
<1> HIDE DEF a
<1>3. IsInjective(a)
  BY <1>1, <1>2 DEF IsInjective, ToSet
<1>4. ToSet(a) = ToSet(s) \cup {x}
  BY <1>1, <1>2 DEF ToSet
<1> QED
  BY <1>1, <1>3, <1>4 DEF a

LEMMA RemoveAtInjective ==
  ASSUME NEW S, NEW s \in Seq(S), NEW i \in DOMAIN s, IsInjective(s)
  PROVE  /\ RemoveAt(s, i) \in Seq(S) /\ IsInjective(RemoveAt(s, i))
         /\ ToSet(RemoveAt(s, i)) = ToSet(s) \ {s[i]}
<1> DEFINE r == RemoveAt(s, i)
<1>0. Len(s) \in Nat /\ DOMAIN s = 1 .. Len(s) /\ i \in 1 .. Len(s)
  BY LenProperties
<1>1. /\ SubSeq(s, 1, i - 1) \in Seq(S) /\ Len(SubSeq(s, 1, i - 1)) = i - 1
      /\ \A k \in 1 .. i - 1 : SubSeq(s, 1, i - 1)[k] = s[k]
  BY <1>0, SubSeqProperties
<1>2. /\ SubSeq(s, i + 1, Len(s)) \in Seq(S)
      /\ Len(SubSeq(s, i + 1, Len(s))) = Len(s) - i
      /\ \A k \in 1 .. Len(s) - i : SubSeq(s, i + 1, Len(s))[k] = s[i + k]
  BY <1>0, SubSeqProperties
<1> DEFINE left == SubSeq(s, 1, i - 1)  right == SubSeq(s, i + 1, Len(s))
<1>3. /\ r = left \o right /\ left \in Seq(S) /\ right \in Seq(S)
      /\ Len(left) = i - 1 /\ Len(right) = Len(s) - i
      /\ \A k \in 1 .. i - 1 : left[k] = s[k]
      /\ \A k \in 1 .. Len(s) - i : right[k] = s[i + k]
  BY <1>1, <1>2 DEF RemoveAt
<1> HIDE DEF r, left, right
<1>4. /\ r \in Seq(S) /\ Len(r) = Len(s) - 1
      /\ \A k \in 1 .. Len(r) : r[k] = IF k <= i - 1 THEN left[k] ELSE right[k - (i - 1)]
  <2>1. /\ Len(left \o right) = Len(left) + Len(right) /\ left \o right \in Seq(S)
        /\ \A k \in 1 .. Len(left) + Len(right) : (left \o right)[k] =
             IF k <= Len(left) THEN left[k] ELSE right[k - Len(left)]
    BY <1>3, ConcatProperties
  <2>2. Len(left) + Len(right) = Len(s) - 1
    BY <1>0, <1>3
  <2> QED
    BY <1>3, <2>1, <2>2
<1>7. DOMAIN r = 1 .. Len(s) - 1
  BY <1>4, LenProperties
<1>8. \A k \in 1 .. Len(s) - 1 : r[k] = IF k < i THEN s[k] ELSE s[k + 1]
  <2> SUFFICES ASSUME NEW k \in 1 .. Len(s) - 1
               PROVE  r[k] = IF k < i THEN s[k] ELSE s[k + 1]
    OBVIOUS
  <2>1. CASE k < i
    <3>1. k \in 1 .. i - 1 /\ k <= i - 1 /\ k \in 1 .. Len(r)
      BY <1>0, <1>4, <2>1
    <3> QED
      BY <1>3, <1>4, <2>1, <3>1
  <2>2. CASE k >= i
    <3>1. /\ k - (i - 1) \in 1 .. Len(s) - i /\ ~(k <= i - 1) /\ k \in 1 .. Len(r)
          /\ i + (k - (i - 1)) = k + 1
      BY <1>0, <1>4, <2>2
    <3>2. r[k] = right[k - (i - 1)]
      BY <1>4, <3>1
    <3>3. right[k - (i - 1)] = s[i + (k - (i - 1))]
      BY <1>3, <3>1
    <3> QED
      BY <1>0, <2>2, <3>1, <3>2, <3>3
  <2> QED
    BY <1>0, <2>1, <2>2
<1>9. IsInjective(r)
  <2> SUFFICES ASSUME NEW a \in 1 .. Len(s) - 1, NEW b \in 1 .. Len(s) - 1, r[a] = r[b]
               PROVE  a = b
    BY <1>7 DEF IsInjective
  <2>1. ASSUME NEW x \in DOMAIN s, NEW y \in DOMAIN s, s[x] = s[y] PROVE x = y
    BY <2>1 DEF IsInjective
  <2>2. /\ r[a] = s[IF a < i THEN a ELSE a + 1] /\ (IF a < i THEN a ELSE a + 1) \in DOMAIN s
        /\ r[b] = s[IF b < i THEN b ELSE b + 1] /\ (IF b < i THEN b ELSE b + 1) \in DOMAIN s
    BY <1>0, <1>8
  <2>3. (IF a < i THEN a ELSE a + 1) = (IF b < i THEN b ELSE b + 1)
    BY <2>1, <2>2
  <2> QED
    BY <1>0, <2>3
<1>5. ASSUME NEW x \in ToSet(s), x # s[i] PROVE x \in ToSet(r)
  <2>1. PICK k \in 1 .. Len(s) : x = s[k]
    BY <1>0, <1>5 DEF ToSet
  <2>2. \/ k \in DOMAIN r /\ r[k] = x
        \/ k - 1 \in DOMAIN r /\ r[k - 1] = x
    BY <1>0, <1>5, <1>7, <1>8, <2>1
  <2> QED
    BY <2>2 DEF ToSet
<1>6. ASSUME NEW x \in ToSet(r) PROVE x \in ToSet(s) \ {s[i]}
  <2>1. PICK k \in 1 .. Len(s) - 1 : x = IF k < i THEN s[k] ELSE s[k + 1]
    BY <1>6, <1>7, <1>8 DEF ToSet
  <2>2. PICK m \in DOMAIN s : m # i /\ x = s[m]
    BY <1>0, <2>1
  <2> QED
    BY <2>2 DEF ToSet, IsInjective
<1> QED
  BY <1>4, <1>5, <1>6, <1>9 DEF r

\* The largest of some numbers is one of them.
LEMMA MaxIn ==
  ASSUME NEW n \in Nat, NEW S \in SUBSET (1 .. n), S # {}
  PROVE  Max(S) \in S
<1> DEFINE T == {n - x : x \in S}
<1>1. T \subseteq Nat /\ T # {}
  <2>1. \A x \in S : n - x \in Nat
    OBVIOUS
  <2> QED
    BY <2>1
<1>2. PICK m \in T : \A k \in T : ~ (<<k, m>> \in OpToRel(<, Nat))
  BY <1>1, NatLessThanWellFounded, WFMin
<1>3. \A k \in T : ~(k < m)
  BY <1>1, <1>2 DEF OpToRel
<1>4. PICK x \in S : m = n - x
  OBVIOUS
<1>5. ASSUME NEW y \in S PROVE x >= y
  <2>1. n - y \in T /\ x \in 1 .. n /\ y \in 1 .. n
    OBVIOUS
  <2>2. ~(n - y < n - x)
    BY <1>3, <1>4, <2>1
  <2> QED
    BY <2>1, <2>2
<1> QED
  BY <1>5 DEF Max
-----------------------------------------------------------------------------
LEMMA Typed ==
  ASSUME TypeOK
  PROVE  /\ Len(prio) \in Nat /\ DOMAIN prio = 1 .. Len(prio)
         /\ Submitted \subseteq 1 .. Len(prio)
         /\ Filler \notin Submitted /\ NoJob \notin Submitted /\ Filler # NoJob
<1>1. /\ Len(prio) \in Nat /\ DOMAIN prio = 1 .. Len(prio)
      /\ Submitted \subseteq 1 .. Len(prio)
  BY LenProperties DEF TypeOK, Submitted
<1> QED
  BY <1>1 DEF Filler, NoJob

\* File names sort as the pairs of priority and submission do, for priorities
\* of up to three digits.
LEMMA Digits ==
  ASSUME NEW p \in 0 .. 999
  PROVE  /\ p = 100 * ((p \div 100) % 10) + 10 * ((p \div 10) % 10) + (p % 10)
         /\ (p \div 100) % 10 \in 0 .. 9 /\ (p \div 10) % 10 \in 0 .. 9 /\ p % 10 \in 0 .. 9
<1> DEFINE q == p \div 10  r == p \div 100
<1>1. q \in 0 .. 99 /\ p = 10 * q + (p % 10) /\ p % 10 \in 0 .. 9
  OBVIOUS
<1>2. r \in 0 .. 9 /\ r = q \div 10
  OBVIOUS
<1> HIDE DEF q, r
<1>3. q = 10 * r + (q % 10) /\ q % 10 \in 0 .. 9
  BY <1>1, <1>2
<1>4. r % 10 = r
  BY <1>2
<1>5. p = 100 * r + 10 * (q % 10) + (p % 10)
  BY <1>1, <1>2, <1>3
<1> QED
  BY <1>1, <1>2, <1>3, <1>4, <1>5 DEF q, r

LEMMA KeyOf ==
  ASSUME NEW j, prio[j] \in 0 .. 999
  PROVE  /\ DOMAIN NameKey(j) = 1 .. 4 /\ NameKey(j)[4] = -1
         /\ prio[j] = 100 * NameKey(j)[1] + 10 * NameKey(j)[2] + NameKey(j)[3]
         /\ \A k \in 1 .. 3 : NameKey(j)[k] \in 0 .. 9
<1> DEFINE p == prio[j]
           d1 == (p \div 100) % 10  d2 == (p \div 10) % 10  d3 == p % 10
<1>0. p \in Int /\ ~(p < 0) /\ p < 1000
  OBVIOUS
<1>1. NameKey(j) = <<d1, d2, d3>> \o <<Dash>>
  BY <1>0, Zenon DEF NameKey
<1>2. /\ p = 100 * d1 + 10 * d2 + d3
      /\ d1 \in 0 .. 9 /\ d2 \in 0 .. 9 /\ d3 \in 0 .. 9
  BY Digits
<1> HIDE DEF d1, d2, d3
<1>3. /\ DOMAIN NameKey(j) = 1 .. 4 /\ NameKey(j)[1] = d1 /\ NameKey(j)[2] = d2
      /\ NameKey(j)[3] = d3 /\ NameKey(j)[4] = Dash
  BY <1>1
<1>4. \A k \in 1 .. 3 : NameKey(j)[k] \in 0 .. 9
  <2>1. \A k \in 1 .. 3 : k = 1 \/ k = 2 \/ k = 3
    OBVIOUS
  <2> QED
    BY <1>2, <1>3, <2>1
<1> QED
  BY <1>2, <1>3, <1>4 DEF Dash

LEMMA Lexicographic ==
  ASSUME NEW a1 \in 0 .. 9, NEW a2 \in 0 .. 9, NEW a3 \in 0 .. 9,
         NEW b1 \in 0 .. 9, NEW b2 \in 0 .. 9, NEW b3 \in 0 .. 9,
         a1 < b1 \/ (a1 = b1 /\ (a2 < b2 \/ (a2 = b2 /\ a3 < b3)))
  PROVE  100 * a1 + 10 * a2 + a3 < 100 * b1 + 10 * b2 + b3
OBVIOUS

LEMMA NameOrder ==
  ASSUME NEW i, NEW j, prio[i] \in 0 .. 999, prio[j] \in 0 .. 999, NameLess(i, j)
  PROVE  prio[i] < prio[j] \/ (prio[i] = prio[j] /\ i < j)
<1> DEFINE a == NameKey(i)  b == NameKey(j)
<1>1. /\ DOMAIN a = 1 .. 4 /\ a[4] = -1
      /\ prio[i] = 100 * a[1] + 10 * a[2] + a[3]
      /\ a[1] \in 0 .. 9 /\ a[2] \in 0 .. 9 /\ a[3] \in 0 .. 9
  BY KeyOf
<1>2. /\ DOMAIN b = 1 .. 4 /\ b[4] = -1
      /\ prio[j] = 100 * b[1] + 10 * b[2] + b[3]
      /\ b[1] \in 0 .. 9 /\ b[2] \in 0 .. 9 /\ b[3] \in 0 .. 9
  BY KeyOf
<1>3. \/ a = b /\ i < j
      \/ \E k \in DOMAIN a \cap DOMAIN b : a[k] < b[k] /\ \A l \in 1 .. k - 1 : a[l] = b[l]
  BY DEF NameLess
<1> HIDE DEF a, b
<1>4. CASE a = b /\ i < j
  BY <1>1, <1>2, <1>4
<1>5. CASE \E k \in DOMAIN a \cap DOMAIN b : a[k] < b[k] /\ \A l \in 1 .. k - 1 : a[l] = b[l]
  <2>1. PICK k \in 1 .. 4 : a[k] < b[k] /\ \A l \in 1 .. k - 1 : a[l] = b[l]
    BY <1>1, <1>5
  <2>2. k = 1 \/ k = 2 \/ k = 3 \/ k = 4
    OBVIOUS
  <2>3. k # 4
    BY <1>1, <1>2, <2>1
  <2>4. /\ k = 2 => a[1] = b[1]
        /\ k = 3 => a[1] = b[1] /\ a[2] = b[2]
    BY <2>1
  <2>5. a[1] < b[1] \/ (a[1] = b[1] /\ (a[2] < b[2] \/ (a[2] = b[2] /\ a[3] < b[3])))
    BY <2>1, <2>2, <2>3, <2>4
  <2>6. /\ a[1] \in 0 .. 9 /\ a[2] \in 0 .. 9 /\ a[3] \in 0 .. 9
        /\ b[1] \in 0 .. 9 /\ b[2] \in 0 .. 9 /\ b[3] \in 0 .. 9
    BY <1>1, <1>2
  <2>7. PICK a1 \in 0 .. 9, a2 \in 0 .. 9, a3 \in 0 .. 9,
             b1 \in 0 .. 9, b2 \in 0 .. 9, b3 \in 0 .. 9 :
          a1 = a[1] /\ a2 = a[2] /\ a3 = a[3] /\ b1 = b[1] /\ b2 = b[2] /\ b3 = b[3]
    BY <2>6, Zenon
  <2>8. a1 < b1 \/ (a1 = b1 /\ (a2 < b2 \/ (a2 = b2 /\ a3 < b3)))
    BY <2>5, <2>7
  <2>9. 100 * a1 + 10 * a2 + a3 < 100 * b1 + 10 * b2 + b3
    BY <2>8, Lexicographic
  <2>10. prio[i] = 100 * a1 + 10 * a2 + a3 /\ prio[j] = 100 * b1 + 10 * b2 + b3
    BY <1>1, <1>2, <2>7
  <2> QED
    BY <2>9, <2>10
<1> QED
  BY <1>3, <1>4, <1>5

LEMMA FirstPrecedes ==
  ASSUME NEW i \in Int, NEW j \in Int, NameLess(i, j),
         prio[i] \in 0 .. 999, prio[j] \in 0 .. 999
  PROVE  ~Precedes(j, i)
<1>1. prio[i] < prio[j] \/ (prio[i] = prio[j] /\ i < j)
  BY NameOrder
<1>2. PICK p \in 0 .. 999 : p = prio[i]
  OBVIOUS
<1>3. PICK q \in 0 .. 999 : q = prio[j]
  OBVIOUS
<1>4. p < q \/ (p = q /\ i < j)
  BY <1>1, <1>2, <1>3
<1>5. ~(q < p \/ (q = p /\ j < i))
  BY <1>4
<1> QED
  BY <1>2, <1>3, <1>5 DEF Precedes

LEMMA SmallPriorities ==
  ASSUME Priorities \subseteq 0 .. 999, TypeOK
  PROVE  \A k \in queue : prio[k] \in 0 .. 999
<1>1. prio \in Seq(Priorities) /\ queue \subseteq 1 .. Len(prio)
  BY Typed DEF TypeOK
<1>2. \A k \in 1 .. Len(prio) : prio[k] \in Priorities
  BY <1>1, ElementOfSeq
<1>3. \A k \in queue : prio[k] \in Priorities
  BY <1>1, <1>2
<1> QED
  BY <1>3

-----------------------------------------------------------------------------
USE NumGpusAssumption, MaxJobsAssumption, MaxStopsAssumption, BrokenAssumption DEF jobVars

\* The inductive invariant.  Shape: serve walks the GPUs it lists at most once;
\* it polls only GPUs with a job, and starts jobs on the others, where it has
\* no process.
Shape ==
  /\ IsInjective(scan)
  /\ pc = "requeue" => scan = <<>> /\ order = <<>> /\ \A g \in Gpus : job[g] = NoJob
  /\ pc \in {"reap", "remove"} => ToSet(scan) \subseteq Busy
  /\ pc \in {"remove", "claim", "launch"} => scan # <<>>
  /\ pc \in {"claim", "launch"} => Head(scan) \notin Busy
  /\ \A g \in Busy : job[g] # NoJob
  /\ \A g \in Gpus \ Busy : proc[g] = "none"

\* Between two renames of a job, serve knows where its file is; and nothing is
\* in queue/ that this serve has started.
Jobs ==
  /\ pc = "remove" => job[Head(scan)] \in done \cup {Filler}
  /\ pc = "launch" => job[Head(scan)] \in running
  /\ up => started \cap queue = {} /\ (pc = "requeue" => started = {})
  /\ RunsOncePerServe

\* Nobody but serve takes a file from queue/, so what it listed is still there;
\* and a job overtaken before is among what it listed.
Turns ==
  /\ listed \subseteq queue
  /\ pc = "claim" => overtaken \cap queue \subseteq listed

\* Without stops and broken jobs: no process outlives its serve, and wait has
\* missed no job.
Quiet == MaxStops = 0 /\ Broken = {}
QuietInv ==
  /\ orphans = {} /\ up /\ ~stopping
  /\ pc = "requeue" => running = {}
  /\ waitPc \in {2, 3} /\ ~waitPending => waitKnown \cap queue = {}
  /\ waitPc = 3 /\ ~waitPending => waitKnown \subseteq done
  /\ WaitSound

Inv == TypeOK /\ Shape /\ Jobs /\ Turns /\ NoJobLost /\ (Quiet => QuietInv)

LEMMA BusyGpus ==
  ASSUME TypeOK
  PROVE  Busy \subseteq Gpus
BY ElementOfSeq, LenProperties DEF TypeOK, Busy, ToSet

LEMMA Empty == \A S : /\ <<>> \in Seq(S) /\ IsInjective(<<>>) /\ ToSet(<<>>) = {}
<1>1. DOMAIN <<>> = {}
  OBVIOUS
<1> QED
  BY <1>1, EmptySeq DEF IsInjective, ToSet

THEOREM InitInv == Init => Inv
<1> SUFFICES ASSUME Init PROVE Inv
  OBVIOUS
<1> USE DEF Init
<1>1. prio \in Seq(Priorities) /\ Len(prio) = 0 /\ Submitted = {}
  BY EmptySeq DEF Submitted
<1>2. TypeOK
  <2>1. /\ {queue, running, done, started, waitKnown} \subseteq SUBSET Submitted
        /\ {listed, overtaken} \subseteq SUBSET Submitted /\ writing \subseteq DOMAIN prio
    OBVIOUS
  <2>2. {up, stopping, waitPending} \subseteq BOOLEAN /\ stops \in 0 .. MaxStops
    <3>1. up \in BOOLEAN /\ stopping \in BOOLEAN /\ waitPending \in BOOLEAN
      BY Zenon
    <3>2. stops \in 0 .. MaxStops
      OBVIOUS
    <3> QED
      BY <3>1, <3>2, Zenon
  <2>3. scan \in Seq(Gpus) /\ order \in Seq(Gpus) /\ IsInjective(order)
    BY Empty
  <2>4. /\ job \in [Gpus -> Submitted \cup {Filler, NoJob}]
        /\ proc \in [Gpus -> {"none", "alive", "terminating", "exited"}]
        /\ preempted \subseteq Busy /\ waitPc \in 1 .. Returned
    BY DEF Returned
  <2> QED
    BY <1>1, <2>1, <2>2, <2>3, <2>4 DEF TypeOK
<1>3. Shape
  BY Empty DEF Shape, Busy
<1>4. Jobs /\ Turns /\ NoJobLost
  BY <1>1 DEF Jobs, RunsOncePerServe, Turns, NoJobLost
<1>5. QuietInv
  BY Empty DEF QuietInv, WaitSound, Returned, Busy
<1> QED
  BY <1>2, <1>3, <1>4, <1>5 DEF Inv
-----------------------------------------------------------------------------
\* A stamp is no file yet.
LEMMA StampInv ==
  ASSUME Inv, NEW p \in Priorities, Stamp(p)
  PROVE  Inv'
<1> USE DEF Stamp, dirVars, lifeVars, loopVars, waitVars
<1>0. Len(prio) \in Nat /\ DOMAIN prio = 1 .. Len(prio) /\ writing \subseteq DOMAIN prio
  BY Typed DEF Inv, TypeOK
<1>1. /\ prio' \in Seq(Priorities) /\ Len(prio') = Len(prio) + 1
      /\ DOMAIN prio' = DOMAIN prio \cup {Len(prio) + 1}
  <2>1. prio' \in Seq(Priorities) /\ Len(prio') = Len(prio) + 1
    BY AppendProperties DEF Inv, TypeOK
  <2> QED
    BY <1>0, <2>1, LenProperties
<1>2. Submitted' = Submitted /\ Busy' = Busy
  BY <1>0, <1>1 DEF Submitted, Busy
<1>3. TypeOK'
  BY <1>0, <1>1, <1>2 DEF Inv, TypeOK
<1>4. Shape' /\ Jobs' /\ Turns' /\ NoJobLost'
  BY <1>2 DEF Inv, Shape, Jobs, RunsOncePerServe, Turns, NoJobLost
<1>5. Quiet => QuietInv'
  BY <1>2 DEF Inv, QuietInv, WaitSound
<1> QED
  BY <1>3, <1>4, <1>5 DEF Inv, Quiet

LEMMA SubmitInv ==
  ASSUME Inv, Submit
  PROVE  Inv'
<1> USE DEF Submit, lifeVars, loopVars, waitVars
<1>0. Filler \notin Submitted /\ NoJob \notin Submitted
  BY Typed DEF Inv
<1>1. PICK new \in writing : writing' = writing \ {new} /\ queue' = queue \cup {new}
  OBVIOUS
<1>2. /\ Submitted' = Submitted \cup {new} /\ new \notin Submitted /\ Busy' = Busy
      /\ writing' \subseteq DOMAIN prio'
  BY <1>1 DEF Inv, TypeOK, Submitted, Busy
<1>3. TypeOK'
  <2>1. /\ {queue, running, done, started, waitKnown}' \subseteq SUBSET Submitted'
        /\ {listed, overtaken}' \subseteq SUBSET Submitted'
    BY <1>1, <1>2 DEF Inv, TypeOK
  <2>2. job' \in [Gpus -> (Submitted \cup {Filler, NoJob})']
    BY <1>2 DEF Inv, TypeOK
  <2>3. orphans' \subseteq [gpu : Gpus, job : (Submitted \cup {Filler})']
    BY <1>2 DEF Inv, TypeOK
  <2> QED
    BY <1>2, <2>1, <2>2, <2>3 DEF Inv, TypeOK
<1>4. Shape'
  BY <1>2 DEF Inv, Shape
<1>5. Jobs'
  BY <1>1, <1>2 DEF Inv, Jobs, RunsOncePerServe, TypeOK
<1>6. Turns'
  BY <1>1, <1>2 DEF Inv, Turns, TypeOK
<1>7. NoJobLost'
  BY <1>1, <1>2 DEF Inv, NoJobLost, TypeOK
<1>8. Quiet => QuietInv'
  BY <1>1, <1>2 DEF Inv, QuietInv, WaitSound, TypeOK
<1> QED
  BY <1>3, <1>4, <1>5, <1>6, <1>7, <1>8 DEF Inv, Quiet

LEMMA ProcessEndsInv ==
  ASSUME Inv, ProcessEnds
  PROVE  Inv'
<1> USE DEF ProcessEnds, dirVars, lifeVars, loopVars, waitVars
<1>0. Submitted' = Submitted /\ Busy' = Busy
  BY DEF Submitted, Busy
<1>1. \/ /\ proc' = proc /\ orphans' \subseteq orphans
      \/ /\ orphans' = orphans /\ \E g \in Gpus : proc[g] \in Live
                                   /\ proc' = [proc EXCEPT ![g] = "exited"]
  BY DEF OrphanEnds, Ends
<1>2. TypeOK'
  BY <1>0, <1>1 DEF Inv, TypeOK
<1>3. Shape' /\ Jobs' /\ Turns' /\ NoJobLost'
  BY <1>0, <1>1 DEF Inv, Shape, Jobs, RunsOncePerServe, Turns, NoJobLost, TypeOK, Live
<1>4. Quiet => QuietInv'
  BY <1>0, <1>1 DEF Inv, QuietInv, WaitSound
<1> QED
  BY <1>2, <1>3, <1>4 DEF Inv, Quiet

LEMMA WaitInv ==
  ASSUME Inv, Wait
  PROVE  Inv'
<1> USE DEF Wait, WaitList, dirVars, lifeVars, loopVars
<1>0. Submitted' = Submitted /\ Busy' = Busy
  BY DEF Submitted, Busy
<1>1. TypeOK'
  <2>1. waitPc' \in 1 .. Returned /\ waitKnown' \subseteq Submitted'
    BY <1>0 DEF Inv, TypeOK, Returned
  <2>2. waitPending' \in BOOLEAN
    <3>1. CASE waitPending' = (Listing(waitPc) # {} \/ (waitPc = 2 /\ waitPending))
      BY <3>1
    <3> QED
      BY <3>1 DEF Inv, TypeOK
  <2> QED
    BY <1>0, <2>1, <2>2 DEF Inv, TypeOK
<1>2. Shape' /\ Jobs' /\ Turns' /\ NoJobLost'
  BY <1>0 DEF Inv, Shape, Jobs, RunsOncePerServe, Turns, NoJobLost
<1>3. Quiet => QuietInv'
  <2> SUFFICES ASSUME Quiet PROVE QuietInv'
    OBVIOUS
  <2>0. /\ QuietInv /\ NoJobLost /\ waitKnown \subseteq Submitted
        /\ orphans' = {} /\ up' /\ ~stopping' /\ (pc' = "requeue" => running' = {})
    BY <1>0 DEF Inv, QuietInv, TypeOK
  <2>1. CASE waitPc = 1 /\ waitPc' = 2
    <3>1. /\ waitPending' = (Listing(waitPc) # {} \/ (waitPc = 2 /\ waitPending))
          /\ queue' = queue
      BY <2>1
    <3>2. ~waitPending' => Listing(waitPc) = {}
      BY <3>1, Zenon
    <3>3. ~waitPending' => waitKnown' \cap queue' = {}
      BY <2>1, <3>1, <3>2 DEF Listing
    <3> QED
      BY <2>0, <2>1, <3>3 DEF QuietInv, WaitSound, Returned
  <2>2. CASE waitPc = 2 /\ waitPc' = 3
    <3>1. /\ waitPending' = (Listing(waitPc) # {} \/ (waitPc = 2 /\ waitPending))
          /\ queue' = queue /\ done' = done /\ waitKnown' = waitKnown
      BY <2>2
    <3>3. ~waitPending' => Listing(waitPc) = {} /\ ~waitPending
      BY <2>2, <3>1, Zenon
    <3>4. ~waitPending' => running = {}
      BY <2>2, <3>3 DEF Listing
    <3>2. ~waitPending' => waitKnown' \cap queue' = {} /\ waitKnown' \subseteq done'
      BY <2>0, <2>2, <3>1, <3>3, <3>4 DEF QuietInv, NoJobLost
    <3> QED
      BY <2>0, <2>2, <3>2 DEF QuietInv, WaitSound, Returned
  <2>3. CASE waitPc = 3
    BY <2>0, <2>3 DEF QuietInv, WaitSound, Returned
  <2> QED
    BY <2>1, <2>2, <2>3
<1> QED
  BY <1>1, <1>2, <1>3 DEF Inv, Quiet
-----------------------------------------------------------------------------
\* The steps of serve.  What they have in common:
Frame ==
  /\ up
  /\ started' = IF pc = "launch" THEN started \cup {job[Head(scan)]} ELSE started
  /\ overtaken' \subseteq overtaken \cup queue
  /\ UNCHANGED <<prio, writing, stopping, stops, waitVars>>

LEMMA RequeueInv ==
  ASSUME Inv, Frame, Requeue
  PROVE  Inv'
<1> USE DEF Frame, Requeue, waitVars
<1>0. Submitted' = Submitted /\ Busy' = Busy /\ started' = started
  BY DEF Submitted, Busy
<1>1. \/ /\ pc' = pc
         /\ \E j \in running : queue' = queue \cup {j} /\ running' = running \ {j}
      \/ running = {} /\ pc' = "reap" /\ queue' = queue /\ running' = running
  BY DEF LeftOver
<1>2. TypeOK'
  BY <1>0, <1>1 DEF Inv, TypeOK
<1>3. Shape'
  BY <1>0, <1>1, Empty DEF Inv, Shape
<1>4. Jobs' /\ Turns'
  BY <1>0, <1>1 DEF Inv, Jobs, RunsOncePerServe, Turns, TypeOK
<1>5. NoJobLost'
  BY <1>0, <1>1 DEF Inv, NoJobLost, Shape
<1>6. Quiet => QuietInv'
  BY <1>0, <1>1 DEF Inv, QuietInv, WaitSound
<1> QED
  BY <1>2, <1>3, <1>4, <1>5, <1>6 DEF Inv, Quiet

LEMMA PollInv ==
  ASSUME Inv, Frame, Poll
  PROVE  Inv'
<1> USE DEF Frame, Poll, waitVars
<1> DEFINE g == Head(scan)
<1>0. /\ Submitted' = Submitted /\ Busy' = Busy /\ started' = started
      /\ Filler \notin Submitted /\ NoJob \notin Submitted
  BY Typed DEF Submitted, Busy, Inv
<1>1. /\ scan \in Seq(Gpus) /\ scan # <<>> /\ IsInjective(scan) /\ ToSet(scan) \subseteq Busy
  BY DEF Inv, TypeOK, Shape
<1>2. /\ g \in Gpus /\ g \in Busy /\ Tail(scan) \in Seq(Gpus) /\ IsInjective(Tail(scan))
      /\ ToSet(Tail(scan)) \subseteq Busy
  BY <1>1, TailInjective
<1>3. \/ scan' = Tail(scan) /\ pc' = pc /\ running' = running /\ done' = done
      \/ /\ scan' = scan /\ pc' = "remove" /\ running' = running
         /\ done' = IF job[g] = Filler THEN done ELSE done \cup {job[g]}
  BY DEF ReapStep, WriteResult
<1>4. job[g] \in {Filler} \cup Submitted
  BY <1>2 DEF Inv, TypeOK, Shape
<1>5. TypeOK'
  <2>1. /\ {queue, running, done, started, waitKnown}' \subseteq SUBSET Submitted'
        /\ {listed, overtaken}' \subseteq SUBSET Submitted' /\ writing' \subseteq DOMAIN prio'
    BY <1>0, <1>3, <1>4 DEF Inv, TypeOK
  <2> QED
    BY <1>0, <1>1, <1>2, <1>3, <1>4, <2>1 DEF Inv, TypeOK
<1>6. Shape'
  BY <1>0, <1>1, <1>2, <1>3 DEF Inv, Shape
<1>7. Jobs' /\ Turns'
  BY <1>0, <1>3 DEF Inv, Jobs, RunsOncePerServe, Turns, TypeOK
<1>8. NoJobLost'
  BY <1>0, <1>3, <1>4 DEF Inv, NoJobLost
<1>9. Quiet => QuietInv'
  BY <1>0, <1>3 DEF Inv, QuietInv, WaitSound
<1> QED
  BY <1>5, <1>6, <1>7, <1>8, <1>9 DEF Inv, Quiet

LEMMA ForgetInv ==
  ASSUME Inv, Frame, Forget
  PROVE  Inv'
<1> USE DEF Frame, Forget, waitVars
<1> DEFINE g == Head(scan)
<1>0. /\ Submitted' = Submitted /\ started' = started
      /\ Filler \notin Submitted /\ NoJob \notin Submitted
  BY Typed DEF Submitted, Inv
<1>1. scan \in Seq(Gpus) /\ scan # <<>> /\ IsInjective(scan) /\ ToSet(scan) \subseteq Busy
  BY DEF Inv, TypeOK, Shape
<1>2. /\ g \in Gpus /\ g \in Busy /\ Tail(scan) \in Seq(Gpus) /\ IsInjective(Tail(scan))
      /\ ToSet(Tail(scan)) = ToSet(scan) \ {g}
  BY <1>1, TailInjective
<1>3. order' \in Seq(Gpus) /\ IsInjective(order') /\ Busy' = Busy \ {g}
  <2>1. PICK i \in DOMAIN order : order[i] = g /\ order' = RemoveAt(order, i)
    OBVIOUS
  <2> QED
    BY <2>1, RemoveAtInjective DEF Inv, TypeOK, Busy
<1>4. running' = running \ {job[g]} /\ done' = done /\ queue' = queue
  BY DEF ReapStep, RemoveFile
<1>5. job[g] \in {Filler} \cup done
  BY DEF Inv, Jobs
<1>6. job' \in [Gpus -> Submitted \cup {Filler, NoJob}]
  BY <1>0 DEF Inv, TypeOK
<1>7. TypeOK'
  BY <1>0, <1>2, <1>3, <1>4, <1>6 DEF Inv, TypeOK
<1>8. Shape'
  <2>1. ToSet(scan') \subseteq Busy' /\ \A h \in Busy' : h \in Gpus /\ job'[h] # NoJob
    <3>1. Busy' \subseteq Gpus
      BY <1>3, BusyGpus DEF Inv
    <3> QED
      BY <1>1, <1>2, <1>3, <3>1 DEF Inv, Shape, TypeOK
  <2>2. \A h \in Gpus \ Busy' : proc'[h] = "none"
    BY <1>2, <1>3 DEF Inv, Shape, TypeOK
  <2> QED
    BY <1>2, <2>1, <2>2 DEF Inv, Shape
<1>9. Jobs' /\ Turns'
  BY <1>0, <1>4 DEF Inv, Jobs, RunsOncePerServe, Turns, TypeOK
<1>10. NoJobLost'
  <2>1. \A h \in Gpus : job'[h] \in {Filler, NoJob} \cup running' \cup done'
    BY <1>4, <1>5 DEF Inv, NoJobLost, TypeOK
  <2>2. Submitted' = queue' \cup running' \cup done'
    BY <1>0, <1>4, <1>5 DEF Inv, NoJobLost, TypeOK
  <2> QED
    BY <1>4, <2>1, <2>2 DEF Inv, NoJobLost
<1>11. Quiet => QuietInv'
  BY <1>0, <1>2, <1>3, <1>4 DEF Inv, QuietInv, WaitSound, TypeOK
<1> QED
  BY <1>7, <1>8, <1>9, <1>10, <1>11 DEF Inv, Quiet

\* serve ends, by its own decision or not.
LEMMA AbandonInv ==
  ASSUME Inv, NEW procs \in [Gpus -> {"none", "alive", "terminating", "exited"}],
         \A g \in Gpus : proc[g] = "none" => procs[g] = "none",
         Abandon(procs), UNCHANGED <<prio, writing, dirVars, waitVars>>,
         overtaken' \in SUBSET Submitted, started' \in SUBSET Submitted,
         stops' \in 0 .. MaxStops, stopping' \in BOOLEAN,
         ~Quiet
  PROVE  Inv'
<1> USE DEF Abandon, dirVars, waitVars
<1>0. Submitted' = Submitted /\ Busy' = {} /\ Filler # NoJob
  BY Empty, Typed DEF Submitted, Busy, Inv
<1>1. \A g \in Gpus : procs[g] \in Live => job[g] \in Submitted \cup {Filler}
  BY DEF Inv, TypeOK, Shape, Live
<1>2. orphans' \subseteq [gpu : Gpus, job : Submitted \cup {Filler}]
  BY <1>1 DEF Left, Inv, TypeOK
<1>3. TypeOK'
  <2>1. scan' \in Seq(Gpus) /\ order' \in Seq(Gpus) /\ IsInjective(order')
    BY Empty
  <2>2. /\ {queue, running, done, started, waitKnown}' \subseteq SUBSET Submitted'
        /\ {listed, overtaken}' \subseteq SUBSET Submitted'
    BY <1>0 DEF Inv, TypeOK
  <2>3. /\ up' \in BOOLEAN /\ stopping' \in BOOLEAN /\ waitPending' \in BOOLEAN
    BY Zenon DEF Inv, TypeOK
  <2> QED
    BY <1>0, <1>2, <2>1, <2>2, <2>3 DEF Inv, TypeOK
<1>4. Shape'
  BY <1>0, Empty DEF Shape
<1>5. Jobs' /\ Turns' /\ NoJobLost'
  BY <1>0 DEF Inv, Jobs, RunsOncePerServe, Turns, NoJobLost
<1> QED
  BY <1>3, <1>4, <1>5 DEF Inv, Quiet

LEMMA QuitInv ==
  ASSUME Inv, Frame, Quit
  PROVE  Inv'
<1> USE DEF Frame, Quit
<1>1. /\ [g \in Gpus |-> Terminate(proc[g])]
           \in [Gpus -> {"none", "alive", "terminating", "exited"}]
      /\ \A g \in Gpus : proc[g] = "none" => [h \in Gpus |-> Terminate(proc[h])][g] = "none"
  BY DEF Inv, TypeOK, Terminate
<1>2. ~Quiet
  BY DEF Inv, QuietInv
<1>3. /\ {started', overtaken'} \subseteq SUBSET Submitted
      /\ stops' \in 0 .. MaxStops
  BY DEF Inv, TypeOK
<1>4. stopping' \in BOOLEAN
  BY Zenon DEF Inv, TypeOK
<1> QED
  BY <1>1, <1>2, <1>3, <1>4, AbandonInv

LEMMA StopInv ==
  ASSUME Inv, Stop
  PROVE  Inv'
<1> USE DEF Stop
<1>0. /\ {started', overtaken'} \subseteq SUBSET Submitted
      /\ stops' \in 0 .. MaxStops /\ ~Quiet
  BY DEF Inv, TypeOK, Quiet
<1>1. CASE stopping' = TRUE /\ UNCHANGED <<up, loopVars, proc, orphans>>
  <2> USE <1>1 DEF dirVars, loopVars, waitVars
  <2>0. Submitted' = Submitted /\ Busy' = Busy
    BY DEF Submitted, Busy
  <2>1. TypeOK'
    BY <1>0, <2>0 DEF Inv, TypeOK
  <2>2. Shape' /\ Jobs' /\ Turns' /\ NoJobLost'
    BY <2>0 DEF Inv, Shape, Jobs, RunsOncePerServe, Turns, NoJobLost
  <2> QED
    BY <1>0, <2>1, <2>2 DEF Inv, Quiet
<1>2. CASE Abandon(proc) /\ UNCHANGED stopping
  <2>1. stopping' \in BOOLEAN /\ proc \in [Gpus -> {"none", "alive", "terminating", "exited"}]
    BY <1>2 DEF Inv, TypeOK
  <2> QED
    BY <1>0, <1>2, <2>1, AbandonInv
<1> QED
  BY <1>1, <1>2

LEMMA RestartInv ==
  ASSUME Inv, Restart
  PROVE  Inv'
<1> USE DEF Restart, dirVars, loopVars, waitVars
<1>0. Submitted' = Submitted /\ Busy' = Busy
  BY DEF Submitted, Busy
<1>1. TypeOK'
  BY <1>0 DEF Inv, TypeOK
<1>2. Shape' /\ Jobs' /\ Turns' /\ NoJobLost'
  BY <1>0 DEF Inv, Shape, Jobs, RunsOncePerServe, Turns, NoJobLost
<1>3. ~Quiet
  BY DEF Inv, QuietInv
<1> QED
  BY <1>1, <1>2, <1>3 DEF Inv, Quiet
-----------------------------------------------------------------------------
LEMMA PreemptInv ==
  ASSUME Inv, Frame, Preempt
  PROVE  Inv'
<1> USE DEF Frame, Preempt, dirVars, waitVars
<1>0. Submitted' = Submitted /\ Busy' = Busy /\ started' = started
  BY DEF Submitted, Busy
<1>1. scan' \in Seq(Gpus) /\ IsInjective(scan')
  BY LenProperties DEF GpuList, IsInjective, Gpus
<1>2. /\ preempted' \subseteq Busy'
      /\ proc' \in [Gpus -> {"none", "alive", "terminating", "exited"}]
      /\ \A g \in Gpus \ Busy : proc[g] = "none" => proc'[g] = "none"
  <2>1. CASE MustPreempt
    <3>1. Fillers \subseteq 1 .. Len(order) /\ Fillers # {} /\ Len(order) \in Nat
      BY <2>1, LenProperties DEF MustPreempt, Fillers, Inv, TypeOK
    <3>2. Max(Fillers) \in DOMAIN order
      BY <3>1, MaxIn, LenProperties DEF Fillers, Inv, TypeOK
    <3>3. order[Max(Fillers)] \in Busy
      BY <3>2 DEF Busy, ToSet
    <3> QED
      BY <1>0, <2>1, <3>3 DEF Inv, TypeOK, Terminate
  <2> QED
    BY <1>0, <2>1 DEF Inv, TypeOK
<1>3. TypeOK'
  BY <1>0, <1>1, <1>2 DEF Inv, TypeOK
<1>4. Shape'
  BY <1>0, <1>1, <1>2 DEF Inv, Shape
<1>5. Jobs' /\ Turns' /\ NoJobLost'
  BY <1>0 DEF Inv, Jobs, RunsOncePerServe, Turns, NoJobLost
<1>6. Quiet => QuietInv'
  BY <1>0, <1>2 DEF Inv, QuietInv, WaitSound
<1> QED
  BY <1>3, <1>4, <1>5, <1>6 DEF Inv, Quiet

LEMMA ListInv ==
  ASSUME Inv, Frame, List
  PROVE  Inv'
<1> USE DEF Frame, List, dirVars, waitVars
<1>0. Submitted' = Submitted /\ Busy' = Busy /\ started' = started
  BY DEF Submitted, Busy
<1>1. TypeOK'
  BY <1>0 DEF Inv, TypeOK
<1>2. Shape'
  BY <1>0 DEF Inv, Shape, Idle
<1>3. Jobs' /\ Turns' /\ NoJobLost'
  BY <1>0 DEF Inv, Jobs, RunsOncePerServe, Turns, NoJobLost
<1>4. Quiet => QuietInv'
  BY <1>0 DEF Inv, QuietInv, WaitSound
<1> QED
  BY <1>1, <1>2, <1>3, <1>4 DEF Inv, Quiet

LEMMA ClaimInv ==
  ASSUME Inv, Frame, Claim
  PROVE  Inv'
<1> USE DEF Frame, Claim, waitVars
<1> DEFINE g == Head(scan)
<1>0. /\ Submitted' = Submitted /\ Busy' = Busy /\ started' = started
      /\ Filler \notin Submitted /\ NoJob \notin Submitted
  BY Typed DEF Submitted, Busy, Inv
<1>1. g \in Gpus /\ g \notin Busy
  BY TailInjective DEF Inv, TypeOK, Shape
<1>2. PICK j \in queue : /\ queue' = queue \ {j} /\ running' = running \cup {j}
                         /\ job' = [job EXCEPT ![g] = j] /\ pc' = "launch"
  BY DEF Unclaimed, Inv, Turns
<1>3. job \in [Gpus -> Submitted \cup {Filler, NoJob}] /\ job'[g] = j /\ j \in Submitted
  BY <1>1, <1>2 DEF Inv, TypeOK
<1>4. TypeOK'
  <2>1. /\ {queue, running, done, started, waitKnown}' \subseteq SUBSET Submitted'
        /\ {listed, overtaken}' \subseteq SUBSET Submitted' /\ writing' \subseteq DOMAIN prio'
    BY <1>0, <1>2, <1>3 DEF Inv, TypeOK
  <2> QED
    BY <1>0, <1>2, <1>3, <2>1 DEF Inv, TypeOK
<1>5. Shape'
  BY <1>0, <1>1, <1>2, <1>3, BusyGpus DEF Inv, Shape
<1>6. Jobs' /\ Turns'
  BY <1>0, <1>2, <1>3 DEF Inv, Jobs, RunsOncePerServe, Turns, TypeOK
<1>7. NoJobLost'
  BY <1>0, <1>2, <1>3 DEF Inv, NoJobLost
<1>8. Quiet => QuietInv'
  BY <1>0, <1>2 DEF Inv, QuietInv, WaitSound
<1> QED
  BY <1>4, <1>5, <1>6, <1>7, <1>8 DEF Inv, Quiet

\* A process is started on an idle GPU.
LEMMA RunInv ==
  ASSUME Inv, NEW g \in Gpus, g = Head(scan), g \notin Busy, scan # <<>>,
         NEW j \in Submitted \cup {Filler}, Run(g, j), pc' = "start",
         UNCHANGED <<prio, writing, dirVars, up, listed, preempted>>,
         UNCHANGED <<stopping, stops, waitVars>>,
         overtaken' \in SUBSET Submitted, started' \in SUBSET Submitted,
         started' \cap queue = {},
         j \in {Filler} \cup running
  PROVE  Inv'
<1> USE DEF Run, dirVars, waitVars
<1>0. /\ Submitted' = Submitted /\ Filler \notin Submitted /\ NoJob \notin Submitted
      /\ Filler # NoJob
  BY Typed DEF Submitted, Inv
<1>1. Tail(scan) \in Seq(Gpus) /\ IsInjective(Tail(scan))
  BY TailInjective DEF Inv, TypeOK, Shape
<1>2. order' \in Seq(Gpus) /\ IsInjective(order') /\ Busy' = Busy \cup {g}
  BY AppendInjectiveSeq DEF Inv, TypeOK, Busy
<1>3. proc[g] = "none" /\ orphans' = orphans
  BY DEF Inv, Shape, Left, Live
<1>4. TypeOK'
  BY <1>0, <1>1, <1>2, <1>3 DEF Inv, TypeOK
<1>5. Shape'
  BY <1>0, <1>1, <1>2, BusyGpus DEF Inv, Shape, TypeOK
<1>6. Jobs' /\ Turns'
  BY <1>0 DEF Inv, Jobs, RunsOncePerServe, Turns, TypeOK
<1>7. NoJobLost'
  BY <1>0 DEF Inv, NoJobLost, TypeOK
<1>8. Quiet => QuietInv'
  BY <1>0, <1>3 DEF Inv, QuietInv, WaitSound
<1> QED
  BY <1>4, <1>5, <1>6, <1>7, <1>8 DEF Inv, Quiet

LEMMA LaunchInv ==
  ASSUME Inv, Frame, Launch
  PROVE  Inv'
<1> USE DEF Frame, Launch
<1> DEFINE g == Head(scan)
<1>1. g \in Gpus /\ g \notin Busy /\ scan # <<>>
  BY TailInjective DEF Inv, TypeOK, Shape
<1>2. job[g] \in running /\ job[g] \in Submitted /\ queue \cap running = {}
  BY DEF Inv, Jobs, NoJobLost, TypeOK
<1>3. {started', overtaken'} \subseteq SUBSET Submitted /\ started' \cap queue = {}
  BY <1>2 DEF Inv, Jobs, TypeOK
<1>4. CASE job[g] \notin Broken
  BY <1>1, <1>2, <1>3, <1>4, RunInv DEF dirVars
<1>5. CASE job[g] \in Broken
  <2>1. ~Quiet /\ stops' \in 0 .. MaxStops
    BY <1>5 DEF Quiet, Inv, TypeOK
  <2>2. stopping' \in BOOLEAN
    BY Zenon DEF Inv, TypeOK
  <2>3. proc \in [Gpus -> {"none", "alive", "terminating", "exited"}]
    BY DEF Inv, TypeOK
  <2> QED
    BY <1>3, <1>5, <2>1, <2>2, <2>3, AbandonInv
<1> QED
  BY <1>4, <1>5

LEMMA StartFillerInv ==
  ASSUME Inv, Frame, StartFiller
  PROVE  Inv'
<1> USE DEF Frame, StartFiller
<1>1. Head(scan) \in Gpus /\ Head(scan) \notin Busy /\ scan # <<>>
  BY TailInjective DEF Inv, TypeOK, Shape
<1>2. {started', overtaken'} \subseteq SUBSET Submitted /\ started' \cap queue = {}
  BY DEF Inv, Jobs, TypeOK
<1>3. pc' = "start"
  OBVIOUS
<1> QED
  BY <1>1, <1>2, <1>3, RunInv

LEMMA PassGpuInv ==
  ASSUME Inv, Frame, PassGpu
  PROVE  Inv'
<1> USE DEF Frame, PassGpu, dirVars, waitVars
<1>0. Submitted' = Submitted /\ Busy' = Busy /\ started' = started
  BY DEF Submitted, Busy
<1>1. scan' \in Seq(Gpus) /\ IsInjective(scan')
  BY TailInjective DEF Inv, TypeOK, Shape
<1>2. TypeOK'
  BY <1>0, <1>1 DEF Inv, TypeOK
<1>3. Shape' /\ Jobs' /\ Turns' /\ NoJobLost'
  BY <1>0, <1>1 DEF Inv, Shape, Jobs, RunsOncePerServe, Turns, NoJobLost
<1>4. Quiet => QuietInv'
  BY <1>0 DEF Inv, QuietInv, WaitSound
<1> QED
  BY <1>2, <1>3, <1>4 DEF Inv, Quiet

LEMMA SleepInv ==
  ASSUME Inv, Frame, Sleep
  PROVE  Inv'
<1> USE DEF Frame, Sleep, dirVars, waitVars
<1>0. Submitted' = Submitted /\ Busy' = Busy /\ started' = started /\ ToSet(scan') = Busy
  BY DEF Submitted, Busy
<1>1. scan' \in Seq(Gpus) /\ IsInjective(scan')
  BY DEF Inv, TypeOK
<1>2. TypeOK'
  BY <1>0, <1>1 DEF Inv, TypeOK
<1>3. Shape' /\ Jobs' /\ Turns' /\ NoJobLost'
  BY <1>0, <1>1 DEF Inv, Shape, Jobs, RunsOncePerServe, Turns, NoJobLost
<1>4. Quiet => QuietInv'
  BY <1>0 DEF Inv, QuietInv, WaitSound
<1> QED
  BY <1>2, <1>3, <1>4 DEF Inv, Quiet
-----------------------------------------------------------------------------
\* Every step preserves the invariant.
LEMMA NextInv ==
  ASSUME Inv, [Next]_vars
  PROVE  Inv'
<1>1. CASE (\E p \in Priorities : Stamp(p)) \/ Submit
  BY <1>1, StampInv, SubmitInv
<1>2. CASE ProcessEnds
  BY <1>2, ProcessEndsInv
<1>3. CASE Serve
  <2>0. Frame
    BY <1>3 DEF Serve, Frame, Overtaken
  <2>1. \/ Requeue \/ Poll \/ Forget \/ Quit \/ Preempt \/ List \/ Claim
        \/ Launch \/ StartFiller \/ PassGpu \/ Sleep
    BY <1>3 DEF Serve
  <2> QED
    BY <2>0, <2>1, RequeueInv, PollInv, ForgetInv, QuitInv, PreemptInv, ListInv, ClaimInv,
       LaunchInv, StartFillerInv, PassGpuInv, SleepInv
<1>4. CASE Stop
  BY <1>4, StopInv
<1>5. CASE Restart
  BY <1>5, RestartInv
<1>6. CASE Wait
  BY <1>6, WaitInv
<1>7. CASE UNCHANGED vars
  <2> USE <1>7 DEF vars, dirVars, lifeVars, loopVars, waitVars
  <2>1. Submitted' = Submitted /\ Busy' = Busy
    BY DEF Submitted, Busy
  <2> QED
    BY <2>1 DEF Inv, TypeOK, Shape, Jobs, RunsOncePerServe, Turns, NoJobLost, Quiet,
       QuietInv, WaitSound
<1> QED
  BY <1>1, <1>2, <1>3, <1>4, <1>5, <1>6, <1>7 DEF Next

THEOREM Invariance == Spec => []Inv
<1>1. Inv /\ [Next]_vars => Inv'
  BY NextInv
<1> QED
  BY InitInv, <1>1, PTL DEF Spec

\* Whatever clients submit, and however often serve is stopped, dies or meets a
\* job that it cannot start: every variable of the farm has its type.
THEOREM TypeCorrect == Spec => []TypeOK
<1>1. Inv => TypeOK
  BY DEF Inv
<1> QED
  BY Invariance, <1>1, PTL

\* No submitted job is lost: each has a file in queue/, running/ or done/.
THEOREM JobsKept == Spec => []NoJobLost
<1>1. Inv => NoJobLost
  BY DEF Inv
<1> QED
  BY Invariance, <1>1, PTL

\* No serve starts a job twice.
THEOREM StartedOnce == Spec => []RunsOncePerServe
<1>1. Inv => RunsOncePerServe
  BY DEF Inv, Jobs
<1> QED
  BY Invariance, <1>1, PTL

\* As long as serve is not stopped and every job can be started, a GPU has one
\* live process at most.
THEOREM GpusExclusive ==
  ASSUME MaxStops = 0, Broken = {}
  PROVE  Spec => []OneJobPerGpu
<1>1. Inv => OneJobPerGpu
  BY DEF Inv, Quiet, QuietInv, OneJobPerGpu
<1> QED
  BY Invariance, <1>1, PTL

\* Then wait returns only when what was submitted before its poll is done.
THEOREM WaitReturnsLate ==
  ASSUME MaxStops = 0, Broken = {}
  PROVE  Spec => []WaitSound
<1>1. Inv => WaitSound
  BY DEF Inv, Quiet, QuietInv
<1> QED
  BY Invariance, <1>1, PTL
-----------------------------------------------------------------------------
\* With priorities of up to three digits, and however clients are interleaved
\* with serve, stopped or killed: a job that should come first and is passed over
\* was not in the listing, and was never passed over before.
THEOREM ClaimsInOrder ==
  ASSUME Priorities \subseteq 0 .. 999
  PROVE  Spec => PriorityOrder
<1> DEFINE InOrder == Overtaken \cap (listed \cup overtaken) = {}
<1>1. ASSUME Inv, [Next]_vars PROVE [InOrder]_vars
  <2>1. \A k \in queue : prio[k] \in 0 .. 999
    BY <1>1, SmallPriorities DEF Inv
  <2>2. CASE Claim
    <3>1. /\ pc = "claim" /\ listed \subseteq queue /\ overtaken \cap queue \subseteq listed
      BY <1>1, <2>2 DEF Claim, Inv, Turns
    <3>2. PICK j \in listed : First(j, listed) /\ queue' = queue \ {j}
      BY <2>2 DEF Claim, Unclaimed
    <3>3. ASSUME NEW k \in Overtaken PROVE k \notin listed
      <4>1. k \in queue /\ k # j /\ Precedes(k, j)
        BY <3>1, <3>2 DEF Overtaken
      <4>2. ASSUME k \in listed PROVE FALSE
        <5>1. prio[j] \in 0 .. 999 /\ prio[k] \in 0 .. 999
          BY <2>1, <3>1, <3>2, <4>1
        <5>2. NameLess(j, k)
          BY <3>2, <4>1, <4>2 DEF First
        <5>3. Submitted \subseteq Int /\ queue \subseteq Submitted
          BY <1>1, Typed DEF Inv, TypeOK
        <5>4. j \in Int /\ k \in Int
          BY <3>1, <3>2, <4>1, <5>3
        <5>5. ~Precedes(k, j)
          BY <5>1, <5>2, <5>4, FirstPrecedes
        <5> QED
          BY <4>1, <5>5
      <4> QED
        BY <4>2
    <3> QED
      BY <3>1, <3>3 DEF Overtaken
  <2>3. CASE queue \subseteq queue'
    BY <2>3 DEF Overtaken
  <2>4. Claim \/ queue \subseteq queue'
    <3> USE DEF dirVars
    <3>1. CASE (\E p \in Priorities : Stamp(p)) \/ Submit
      BY <3>1 DEF Stamp, Submit
    <3>2. CASE Serve
      <4>1. CASE Requeue
        BY <4>1 DEF Requeue
      <4>2. CASE Poll \/ Forget
        BY <4>2 DEF Poll, Forget
      <4>3. CASE Quit \/ Preempt \/ List \/ Launch \/ StartFiller \/ PassGpu \/ Sleep
        BY <4>3 DEF Quit, Preempt, List, Launch, StartFiller, PassGpu, Sleep
      <4> QED
        BY <3>2, <4>1, <4>2, <4>3 DEF Serve
    <3>3. CASE ProcessEnds \/ Stop \/ Restart \/ Wait \/ UNCHANGED vars
      BY <3>3 DEF ProcessEnds, Stop, Restart, Wait, vars
    <3> QED
      BY <1>1, <3>1, <3>2, <3>3 DEF Next
  <2> QED
    BY <2>2, <2>3, <2>4
<1> QED
  BY Invariance, <1>1, PTL DEF Spec, PriorityOrder
=============================================================================
