------------------------ MODULE FusedBackwardProofs ------------------------
(***************************************************************************)
(* Theorems about FusedBackward, for every ring of slots, every number of  *)
(* warpgroups, every row and every specialisation.  The inductive          *)
(* invariant is FInv of FusedRings.                                        *)
(***************************************************************************)
EXTENDS FusedRings, FiniteSetTheorems, SequenceTheorems

USE NumStagesAssumption, NumEwAssumption, MaxStepsAssumption

\* What a launch is.
LEMMA CallType ==
  ASSUME call \in Calls
  PROVE  /\ n \in Nat /\ n <= MaxSteps /\ 0 .. n - 1 \subseteq Steps
         /\ call.partial \subseteq 0 .. n - 1
         /\ {call.early, call.split, call.serialize} \subseteq BOOLEAN
BY DEF Calls, n, Steps

\* The threads are distinct waiters.
LEMMA Threads ==
  /\ Tma \in Waiters /\ Mma \in Waiters /\ Dq \in Waiters /\ Ew \subseteq Waiters
  /\ Tma \notin Ew /\ Mma \notin Ew /\ Dq \notin Ew
  /\ Tma # Mma /\ Tma # Dq /\ Mma # Dq /\ 0 \in Ew
BY DEF Tma, Mma, Dq, Ew, Waiters

\* The parts of the invariant, and the counters' types.
LEMMA FInvParts ==
  ASSUME FInv
  PROVE  /\ TypeOK /\ PcFacts /\ Queue /\ Fifo /\ Counts /\ Seen /\ Meetings /\ Singles
         /\ Rings /\ Flights /\ Order
         /\ TmaFacts /\ MmaFacts /\ DqFacts /\ (\A e \in Ew : EwFacts(e))
         /\ call \in Calls /\ n \in Nat
         /\ tmaStep \in 0 .. n /\ mmaStep \in 0 .. n /\ mmaScores \in 0 .. n /\ dqStep \in 0 .. n
         /\ {tmaStep, mmaStep, mmaScores, dqStep} \subseteq Nat
         /\ \A e \in Ew : ewStep[e] \in 0 .. n /\ ewStep[e] \in Nat
<1>1. /\ TypeOK /\ PcFacts /\ Queue /\ Fifo /\ Counts /\ Seen /\ Meetings /\ Singles
      /\ Rings /\ Flights /\ Order
  BY DEF FInv, RingInv
<1>2. TmaFacts /\ MmaFacts /\ DqFacts /\ \A e \in Ew : EwFacts(e)
  BY <1>1 DEF PcFacts
<1>3. /\ call \in Calls /\ tmaStep \in 0 .. n /\ mmaStep \in 0 .. n /\ mmaScores \in 0 .. n
      /\ dqStep \in 0 .. n /\ ewStep \in [Ew -> 0 .. n]
  BY <1>1 DEF TypeOK
<1>4. n \in Nat
  BY <1>3, CallType
<1>5. /\ {tmaStep, mmaStep, mmaScores, dqStep} \subseteq Nat
      /\ \A e \in Ew : ewStep[e] \in 0 .. n /\ ewStep[e] \in Nat
  BY <1>3, <1>4
<1> QED
  BY <1>1, <1>2, <1>3, <1>4, <1>5
-----------------------------------------------------------------------------
\* The tensor-core queue as a set of operations.
LEMMA QueueGrows ==
  ASSUME NEW S, tc \in Seq(S), NEW u \in Seq(S), tc' = tc \o u, UNCHANGED call, Sorted,
         \A i, j \in DOMAIN u : i < j => Key(u[i]) < Key(u[j]),
         \A op \in Ops : \A j \in DOMAIN u : Key(op) < Key(u[j])
  PROVE  Ops' = Ops \cup ToSet(u) /\ Sorted' /\ tc' \in Seq(S)
<1> DEFINE v == tc \o u  m == Len(tc)
<1>1. /\ v \in Seq(S) /\ m \in Nat /\ Len(u) \in Nat /\ DOMAIN tc = 1 .. m
      /\ DOMAIN u = 1 .. Len(u) /\ DOMAIN v = 1 .. m + Len(u)
      /\ \A i \in 1 .. m + Len(u) : v[i] = IF i <= m THEN tc[i] ELSE u[i - m]
  BY ConcatProperties, LenProperties
<1>2. \A op : Key(op)' = Key(op)
  BY DEF Key
<1>3. \A i \in 1 .. m : v[i] = tc[i] /\ i \in DOMAIN v
  BY <1>1
<1>4. \A j \in 1 .. Len(u) : m + j \in DOMAIN v /\ v[m + j] = u[j]
  BY <1>1
<1>5. \A i \in DOMAIN v : i \in 1 .. m \/ (i - m \in 1 .. Len(u) /\ i > m /\ v[i] = u[i - m])
  BY <1>1
<1> HIDE DEF v, m
<1>6. ToSet(v) = Ops \cup ToSet(u)
  BY <1>1, <1>3, <1>4, <1>5 DEF ToSet, Ops
<1>7. ASSUME NEW i \in DOMAIN v, NEW j \in DOMAIN v, i < j
      PROVE  Key(v[i]) < Key(v[j])
  <2>1. CASE j \in 1 .. m
    <3>1. i \in 1 .. m
      BY <1>1, <1>7, <2>1
    <3> QED
      BY <1>1, <1>3, <1>7, <2>1, <3>1 DEF Sorted
  <2>2. CASE j \notin 1 .. m /\ i \in 1 .. m
    <3>1. j - m \in DOMAIN u /\ v[j] = u[j - m] /\ v[i] = tc[i] /\ tc[i] \in Ops
      BY <1>1, <1>3, <1>5, <2>2 DEF Ops, ToSet
    <3> QED
      BY <3>1
  <2>3. CASE j \notin 1 .. m /\ i \notin 1 .. m
    <3>1. /\ j - m \in DOMAIN u /\ v[j] = u[j - m]
          /\ i - m \in DOMAIN u /\ v[i] = u[i - m]
      BY <1>1, <1>5, <2>3
    <3>2. i - m < j - m
      BY <1>1, <1>7
    <3> QED
      BY <3>1, <3>2
  <2> QED
    BY <2>1, <2>2, <2>3
<1>8. Sorted'
  BY <1>2, <1>7 DEF Sorted, v
<1> QED
  BY <1>1, <1>6, <1>8 DEF v, Ops

\* Retiring work leaves the rest of the queue in its order.
LEMMA QueueShrinks ==
  ASSUME NEW S, tc \in Seq(S), NEW i \in DOMAIN tc, tc' = RemoveAt(tc, i), UNCHANGED call,
         Sorted, \A op \in Ops : Key(op) \in Int
  PROVE  /\ tc[i] \in Ops /\ Ops' = Ops \ {tc[i]} /\ Sorted' /\ tc' \in Seq(S)
<1> DEFINE v == RemoveAt(tc, i)  m == Len(tc)
           Old(j) == IF j < i THEN j ELSE j + 1
<1>1. m \in Nat /\ DOMAIN tc = 1 .. m /\ i \in 1 .. m
  BY LenProperties
<1>2. /\ SubSeq(tc, 1, i - 1) \in Seq(S) /\ Len(SubSeq(tc, 1, i - 1)) = i - 1
      /\ \A j \in 1 .. i - 1 : SubSeq(tc, 1, i - 1)[j] = tc[j]
  <2>1. CASE i = 1
    BY <1>1, <2>1, SubSeqProperties
  <2>2. CASE i > 1
    BY <1>1, <2>2, SubSeqProperties
  <2> QED
    BY <1>1, <2>1, <2>2
<1>3. /\ SubSeq(tc, i + 1, m) \in Seq(S) /\ Len(SubSeq(tc, i + 1, m)) = m - i
      /\ \A j \in 1 .. m - i : SubSeq(tc, i + 1, m)[j] = tc[i + j]
  <2>1. CASE i = m
    BY <1>1, <2>1, SubSeqProperties
  <2>2. CASE i < m
    BY <1>1, <2>2, SubSeqProperties
  <2> QED
    BY <1>1, <2>1, <2>2
<1>4. /\ v \in Seq(S) /\ DOMAIN v = 1 .. m - 1
      /\ \A j \in 1 .. m - 1 : v[j] = tc[Old(j)] /\ Old(j) \in 1 .. m /\ Old(j) # i
  <2>1. v = SubSeq(tc, 1, i - 1) \o SubSeq(tc, i + 1, m)
    BY DEF RemoveAt
  <2> HIDE DEF v, m
  <2> DEFINE a == SubSeq(tc, 1, i - 1)  b == SubSeq(tc, i + 1, m)
  <2>2. /\ a \in Seq(S) /\ b \in Seq(S) /\ Len(a) = i - 1 /\ Len(b) = m - i
        /\ \A j \in 1 .. i - 1 : a[j] = tc[j]
        /\ \A k \in 1 .. m - i : b[k] = tc[i + k]
    BY <1>2, <1>3
  <2>3. v = a \o b
    BY <2>1
  <2> HIDE DEF a, b
  <2>4. /\ v \in Seq(S) /\ DOMAIN v = 1 .. m - 1 /\ Len(v) = m - 1
        /\ \A j \in 1 .. m - 1 : v[j] = IF j <= i - 1 THEN a[j] ELSE b[j - (i - 1)]
    <3>1. /\ v \in Seq(S) /\ Len(v) = Len(a) + Len(b)
          /\ \A j \in 1 .. Len(a) + Len(b) :
               v[j] = IF j <= Len(a) THEN a[j] ELSE b[j - Len(a)]
      BY <2>2, <2>3, ConcatProperties
    <3>2. Len(v) = m - 1
      BY <1>1, <2>2, <3>1
    <3>3. DOMAIN v = 1 .. m - 1
      BY <3>1, <3>2, LenProperties
    <3> QED
      BY <1>1, <2>2, <3>1, <3>2, <3>3
  <2>5. ASSUME NEW j \in 1 .. m - 1 PROVE v[j] = tc[Old(j)] /\ Old(j) \in 1 .. m /\ Old(j) # i
    <3>1. CASE j < i
      <4>1. v[j] = a[j] /\ j \in 1 .. i - 1
        BY <1>1, <2>4, <3>1
      <4> QED
        BY <1>1, <2>2, <3>1, <4>1
    <3>2. CASE j >= i
      <4> DEFINE k == j - (i - 1)
      <4>1. v[j] = b[k] /\ k \in 1 .. m - i /\ i + k = j + 1
        BY <1>1, <2>4, <3>2
      <4> HIDE DEF k
      <4>2. b[k] = tc[i + k]
        BY <2>2, <4>1
      <4> QED
        BY <1>1, <3>2, <4>1, <4>2
    <3> QED
      BY <1>1, <3>1, <3>2
  <2> QED
    BY <2>4, <2>5
<1>5. \A k \in 1 .. m : k # i => \E j \in 1 .. m - 1 : Old(j) = k
  <2> TAKE k \in 1 .. m
  <2> HAVE k # i
  <2>1. CASE k < i
    BY <1>1, <2>1
  <2>2. CASE k > i
    <3>1. k - 1 \in 1 .. m - 1 /\ Old(k - 1) = k
      BY <1>1, <2>2
    <3> QED
      BY <3>1
  <2> QED
    BY <1>1, <2>1, <2>2
<1>6. \A j, k \in 1 .. m - 1 : j < k => Old(j) < Old(k)
  BY <1>1
<1> HIDE DEF v, m, Old
<1>7. tc[i] \in Ops /\ \A k \in 1 .. m : k # i => tc[k] # tc[i]
  <2>1. \A k \in 1 .. m : tc[k] \in Ops
    BY <1>1 DEF Ops, ToSet
  <2>2. ASSUME NEW k \in 1 .. m, k # i PROVE tc[k] # tc[i]
    <3>1. k < i \/ i < k
      BY <1>1, <2>2
    <3>2. Key(tc[k]) < Key(tc[i]) \/ Key(tc[i]) < Key(tc[k])
      BY <1>1, <3>1 DEF Sorted
    <3> QED
      BY <1>1, <2>1, <3>2
  <2> QED
    BY <1>1, <2>1, <2>2
<1>8. ToSet(v) = Ops \ {tc[i]}
  <2>1. ASSUME NEW x \in ToSet(v) PROVE x \in Ops \ {tc[i]}
    <3>1. PICK j \in 1 .. m - 1 : x = v[j]
      BY <1>4, <2>1 DEF ToSet
    <3> QED
      BY <1>1, <1>4, <1>7, <3>1 DEF Ops, ToSet
  <2>2. ASSUME NEW x \in Ops \ {tc[i]} PROVE x \in ToSet(v)
    <3>1. PICK k \in 1 .. m : x = tc[k]
      BY <1>1, <2>2 DEF Ops, ToSet
    <3>2. PICK j \in 1 .. m - 1 : Old(j) = k
      BY <1>5, <2>2, <3>1
    <3> QED
      BY <1>4, <3>1, <3>2 DEF ToSet
  <2> QED
    BY <2>1, <2>2
<1>9. \A op : Key(op)' = Key(op)
  BY DEF Key
<1>10. Sorted'
  <2>1. ASSUME NEW j \in DOMAIN v, NEW k \in DOMAIN v, j < k PROVE Key(v[j]) < Key(v[k])
    <3>1. v[j] = tc[Old(j)] /\ v[k] = tc[Old(k)] /\ Old(j) < Old(k)
          /\ Old(j) \in DOMAIN tc /\ Old(k) \in DOMAIN tc
      BY <1>1, <1>4, <1>6, <2>1
    <3> QED
      BY <3>1 DEF Sorted
  <2> QED
    BY <1>9, <2>1 DEF Sorted, v
<1> QED
  BY <1>4, <1>7, <1>8, <1>10 DEF v, Ops
-----------------------------------------------------------------------------
\* What an arrival and a wait do to the barriers.
LEMMA BarrierNames ==
  /\ \A f \in {"q", "mask", "consumed", "aux_consumed"}, s \in Nat : Ring(f, s) \in Barriers
  /\ \A name \in {"kv", "s_ready", "p_ready", "ds_ready", "loaded", "dq_ready", "dq_free",
                  "done", "mma_order"} : Only(name) \in Barriers
  /\ SingleBarriers \subseteq Barriers /\ KV = Only("kv")
<1>1. \A s \in Nat : s % NumStages \in Slots
  BY DEF Slots
<1> QED
  BY <1>1 DEF Ring, Only, Barriers, SingleBarriers, KV

\* What an arrival does to the barriers, and what a wait that passes does.
LEMMA ArriveAt ==
  ASSUME BarTypeOK(Barriers, Waiters), NEW b \in Barriers, ArriveOn(b)
  PROVE  /\ BarTypeOK(Barriers, Waiters)' /\ seen' = seen
         /\ \A c \in Barriers \ {b} : left'[c] = left[c] /\ done'[c] = done[c]
         /\ left[b] = 1 => left'[b] = Arrivals[b] /\ done'[b] = done[b] + 1
         /\ left[b] # 1 => left'[b] = left[b] - 1 /\ done'[b] = done[b]
         /\ done[b] \in Nat /\ left[b] \in Nat \ {0}
<1>1. /\ left' = [left EXCEPT ![b] = IF @ = 1 THEN Arrivals[b] ELSE @ - 1]
      /\ done' = [done EXCEPT ![b] = IF left[b] = 1 THEN @ + 1 ELSE @]
      /\ seen' = seen
  BY DEF ArriveOn, Arrive
<1>2. /\ left \in [Barriers -> Nat \ {0}] /\ done \in [Barriers -> Nat]
      /\ seen \in [Waiters -> [Barriers -> Nat]]
  BY DEF BarTypeOK
<1>3. Arrivals[b] \in Nat \ {0}
  BY DEF Arrivals
<1>4. left' \in [Barriers -> Nat \ {0}] /\ done' \in [Barriers -> Nat]
  BY <1>1, <1>2, <1>3
<1>5. BarTypeOK(Barriers, Waiters)'
  BY <1>1, <1>2, <1>4 DEF BarTypeOK, Barriers, Slots, Waiters
<1> QED
  BY <1>1, <1>2, <1>5

\* A wait that passes counts one more observation of its barrier, which was one
\* phase ahead.
LEMMA AwaitAt ==
  ASSUME BarTypeOK(Barriers, Waiters), NEW b \in Barriers, NEW w \in Waiters, Await(w, b)
  PROVE  /\ BarTypeOK(Barriers, Waiters)' /\ left' = left /\ done' = done
         /\ seen'[w][b] = seen[w][b] + 1
         /\ \A c \in Barriers \ {b} : seen'[w][c] = seen[w][c]
         /\ \A v \in Waiters \ {w} : seen'[v] = seen[v]
         /\ Lag(w, b) \in {0, 1} => Lag(w, b) = 1
         /\ seen[w][b] \in Nat /\ done[b] \in Nat
<1>1. /\ done[b] % 2 # seen[w][b] % 2 /\ seen' = [seen EXCEPT ![w][b] = @ + 1]
      /\ left' = left /\ done' = done
  BY DEF Await
<1>2. /\ left \in [Barriers -> Nat \ {0}] /\ done \in [Barriers -> Nat]
      /\ seen \in [Waiters -> [Barriers -> Nat]]
  BY DEF BarTypeOK
<1>3. seen' \in [Waiters -> [Barriers -> Nat]]
  BY <1>1, <1>2
<1>4. BarTypeOK(Barriers, Waiters)'
  BY <1>1, <1>2, <1>3 DEF BarTypeOK, Barriers, Slots, Waiters
<1>5. done[b] \in Nat /\ seen[w][b] \in Nat
  BY <1>2
<1>6. done[b] # seen[w][b]
  BY <1>1, Zenon
<1>7. Lag(w, b) # 0
  BY <1>5, <1>6 DEF Lag
<1> QED
  BY <1>1, <1>2, <1>4, <1>5, <1>7
-----------------------------------------------------------------------------
\* The order of one thread's own progress.
LEMMA TmaProgress ==
  ASSUME TypeOK, TmaFacts
  PROVE  /\ Requested \in Nat /\ CFree \in Nat /\ AFree \in Nat
         /\ Requested <= n /\ AFree <= CFree /\ CFree <= AFree + 1
         /\ Requested <= AFree + NumStages
<1>1. n \in Nat /\ tmaStep \in 0 .. n
  BY CallType DEF TypeOK
<1>2. CASE tmaPc \in {"kv", "load"}
  BY <1>1, <1>2 DEF Requested, CFree, AFree
<1>3. CASE tmaPc = "consumed"
  BY <1>1, <1>3 DEF Requested, CFree, AFree, TmaFacts
<1>4. CASE tmaPc = "aux"
  BY <1>1, <1>4 DEF Requested, CFree, AFree, TmaFacts
<1>5. CASE tmaPc \in {"drain", "drain_aux"}
  BY <1>1, <1>5 DEF Requested, CFree, AFree, TmaFacts
<1>6. CASE tmaPc = "done"
  BY <1>1, <1>6 DEF Requested, CFree, AFree, TmaFacts
<1> QED
  BY <1>2, <1>3, <1>4, <1>5, <1>6 DEF TypeOK

\* The progress of the MMA warp, of a warpgroup and of the dQ writer: naturals,
\* in the order of the program and at most a step apart.
LEMMA MmaProgress ==
  ASSUME TypeOK, MmaFacts
  PROVE  /\ mmaStep \in Nat /\ mmaScores \in Nat /\ DkIssued \in Nat /\ PSeen \in Nat
         /\ DsSeen \in Nat /\ OrderIssued \in Nat /\ OrderSeen \in Nat /\ DqFreeSeen \in Nat
         /\ mmaStep <= DkIssued /\ DkIssued <= mmaStep + 1
         /\ DkIssued <= PSeen /\ PSeen <= mmaScores
         /\ mmaScores <= DkIssued + 1 /\ mmaScores <= n
         /\ mmaStep <= DqFreeSeen + 1 /\ DqFreeSeen <= mmaStep
         /\ OrderIssued <= OrderSeen + 1
         /\ mmaPc = "kv" => mmaScores = 0
<1>1. n \in Nat /\ mmaStep \in 0 .. n /\ mmaScores \in 0 .. n
  BY CallType DEF TypeOK
<1>2. CASE mmaPc = "kv"
  BY <1>1, <1>2 DEF MmaFacts, PastDk, DkIssued, PSeen, DsSeen, OrderIssued, OrderSeen, DqFreeSeen
<1>3. CASE mmaPc \in {"order", "scores"}
  <2>1. CASE call.early /\ mmaScores > 0
    BY <1>1, <1>3, <2>1
       DEF MmaFacts, PastDk, DkIssued, PSeen, DsSeen, OrderIssued, OrderSeen, DqFreeSeen
  <2>2. CASE ~(call.early /\ mmaScores > 0)
    BY <1>1, <1>3, <2>2
       DEF MmaFacts, PastDk, DkIssued, PSeen, DsSeen, OrderIssued, OrderSeen, DqFreeSeen
  <2> QED
    BY <2>1, <2>2
<1>4. CASE mmaPc \in {"p", "ds"}
  BY <1>1, <1>4 DEF MmaFacts, PastDk, DkIssued, PSeen, DsSeen, OrderIssued, OrderSeen, DqFreeSeen
<1>5. CASE mmaPc \in {"dq_free", "dq"}
  BY <1>1, <1>5 DEF MmaFacts, PastDk, DkIssued, PSeen, DsSeen, OrderIssued, OrderSeen, DqFreeSeen
<1>6. CASE mmaPc \in {"end", "last_free", "last_order", "done"}
  BY <1>1, <1>6 DEF MmaFacts, PastDk, DkIssued, PSeen, DsSeen, OrderIssued, OrderSeen, DqFreeSeen
<1> QED
  BY <1>2, <1>3, <1>4, <1>5, <1>6 DEF TypeOK

\* The progress of a warpgroup.
LEMMA EwProgress ==
  ASSUME TypeOK, NEW e \in Ew, EwFacts(e)
  PROVE  /\ ewStep[e] \in Nat /\ \A pcs : Past(e, pcs) \in {ewStep[e], ewStep[e] + 1}
         /\ AuxArrived[e] \in Nat /\ PArrived[e] \in Nat /\ DsArrived[e] \in Nat
         /\ LoadedBy[e] \in Nat /\ LoadedSeen(e) \in Nat /\ DoneSeen(e) \in {0, 1}
         /\ AuxArrived[e] <= Past(e, AfterMask) /\ Past(e, AfterMask) <= Past(e, AfterS)
         /\ Past(e, AfterS) <= Past(e, AfterQ) /\ Past(e, AfterQ) <= n
         /\ PArrived[e] <= Past(e, AfterS) /\ DsArrived[e] <= PArrived[e]
         /\ LoadedBy[e] <= LoadedSeen(e) + 1
         /\ ewStep[e] <= AuxArrived[e] /\ ewStep[e] <= PArrived[e]
         /\ ewPc[e] = "kv" => Past(e, AfterQ) = 0
<1>1. n \in Nat /\ ewStep[e] \in 0 .. n
  BY CallType DEF TypeOK
<1>2. /\ AuxArrived[e] = Past(e, {"ready"})
      /\ PArrived[e] = IF call.split THEN Past(e, {"store_ds", "ready"}) ELSE ewStep[e]
      /\ DsArrived[e] = (IF call.split THEN ewStep[e] ELSE 0)
      /\ LoadedBy[e] = IF Meet THEN Past(e, AfterLoad) ELSE 0
  BY DEF AuxArrived, PArrived, DsArrived, LoadedBy
<1>3. Past(e, AfterQ) <= n
  BY <1>1 DEF Past, EwFacts, AfterQ
<1>4. /\ Past(e, {"ready"}) <= Past(e, AfterMask) /\ Past(e, AfterMask) <= Past(e, AfterS)
      /\ Past(e, {"store_ds", "ready"}) <= Past(e, AfterS) /\ Past(e, AfterS) <= Past(e, AfterQ)
      /\ Past(e, AfterLoad) <= Past(e, AfterLoaded) + 1
  BY <1>1 DEF Past, AfterQ, AfterS, AfterLoad, AfterLoaded, AfterMask
<1>5. \A pcs : Past(e, pcs) \in {ewStep[e], ewStep[e] + 1}
  BY DEF Past
<1>6. ewPc[e] = "kv" => Past(e, AfterQ) = 0
  BY DEF Past, EwFacts, AfterQ, AfterS, AfterLoad, AfterLoaded, AfterMask
<1> QED
  BY <1>1, <1>2, <1>3, <1>4, <1>5, <1>6 DEF LoadedSeen, DoneSeen

\* The progress of the dQ writer.
LEMMA DqProgress ==
  ASSUME TypeOK, DqFacts
  PROVE  /\ DqSeen \in Nat /\ DqFreed \in Nat /\ DqFreed <= DqSeen /\ DqSeen <= DqFreed + 1
         /\ dqStep <= DqFreed /\ DqSeen <= n /\ dqStep \in Nat
<1>1. n \in Nat /\ dqStep \in 0 .. n
  BY CallType DEF TypeOK
<1> QED
  BY <1>1 DEF DqSeen, DqFreed, DqFacts

\* Who waits on a barrier.
LEMMA WaitersNamed ==
  /\ WaitersOf(KV) = Ew \cup {Mma}
  /\ \A s : WaitersOf(Ring("q", s)) = Ew \cup {Mma} /\ WaitersOf(Ring("mask", s)) = Ew
            /\ WaitersOf(Ring("consumed", s)) = {Tma}
            /\ WaitersOf(Ring("aux_consumed", s)) = {Tma}
  /\ \A name \in {"s_ready", "loaded", "done"} : WaitersOf(Only(name)) = Ew
  /\ \A name \in {"p_ready", "ds_ready", "dq_free", "mma_order"} : WaitersOf(Only(name)) = {Mma}
  /\ WaitersOf(Only("dq_ready")) = {Dq}
BY DEF WaitersOf, KV, Only, Ring

\* No barrier of its own runs more than one phase ahead of a waiter: the waits
\* bring the threads back to each other within a step.
LEMMA SingleLags ==
  ASSUME FInv, NEW b \in SingleBarriers, NEW w \in WaitersOf(b)
  PROVE  Lag(w, b) \in {0, 1}
<1>1. /\ TypeOK /\ MmaFacts /\ DqFacts /\ \A e \in Ew : EwFacts(e)
      /\ Counts /\ Seen /\ Meetings /\ Singles /\ Order
  BY DEF FInv, RingInv, PcFacts
<1>2. seen[w][b] <= done[b]
  BY <1>1 DEF Singles
<1>3. b \in Barriers /\ w \in Waiters
  BY BarrierNames, WaitersNamed, Threads DEF SingleBarriers
<1>4. done[b] \in Nat /\ seen[w][b] \in Nat
  BY <1>1, <1>3 DEF TypeOK, BarTypeOK, Waiters
<1>5. \A name : Queued(name) \in {0, 1}
  BY DEF Queued
<1> SUFFICES done[b] <= seen[w][b] + 1
  BY <1>2, <1>4 DEF Lag
<1>6. /\ \A e \in Ew : /\ PArrived[e] \in Nat /\ PArrived[e] >= done[Only("p_ready")]
                       /\ DsArrived[e] \in Nat /\ DsArrived[e] >= done[Only("ds_ready")]
                       /\ LoadedBy[e] \in Nat /\ LoadedBy[e] >= done[Only("loaded")]
                       /\ Past(e, AfterS) \in Nat /\ PArrived[e] <= Past(e, AfterS)
                       /\ Past(e, AfterS) <= done[Only("s_ready")]
                       /\ DsArrived[e] <= PArrived[e]
      /\ done[Only("s_ready")] \in Nat /\ done[Only("p_ready")] \in Nat
      /\ done[Only("ds_ready")] \in Nat /\ done[Only("loaded")] \in Nat
      /\ done[Only("s_ready")] <= mmaScores
  <2>1. /\ done[Only("s_ready")] \in Nat /\ done[Only("p_ready")] \in Nat
        /\ done[Only("ds_ready")] \in Nat /\ done[Only("loaded")] \in Nat
    BY <1>1, BarrierNames DEF TypeOK, BarTypeOK
  <2>2. done[Only("s_ready")] <= mmaScores
    BY <1>1, <1>5, MmaProgress DEF Counts
  <2> SUFFICES ASSUME NEW e \in Ew
               PROVE  /\ PArrived[e] \in Nat /\ PArrived[e] >= done[Only("p_ready")]
                      /\ DsArrived[e] \in Nat /\ DsArrived[e] >= done[Only("ds_ready")]
                      /\ LoadedBy[e] \in Nat /\ LoadedBy[e] >= done[Only("loaded")]
                      /\ Past(e, AfterS) \in Nat /\ PArrived[e] <= Past(e, AfterS)
                      /\ Past(e, AfterS) <= done[Only("s_ready")]
                      /\ DsArrived[e] <= PArrived[e]
    BY <2>1, <2>2
  <2>3. Past(e, AfterS) = seen[e][Only("s_ready")]
    BY <1>1 DEF Seen
  <2>4. seen[e][Only("s_ready")] <= done[Only("s_ready")]
    BY <1>1, WaitersNamed DEF Singles, SingleBarriers
  <2>5. /\ PArrived[e] \in {done[Only("p_ready")], done[Only("p_ready")] + 1}
        /\ DsArrived[e] \in {done[Only("ds_ready")], done[Only("ds_ready")] + 1}
        /\ LoadedBy[e] \in {done[Only("loaded")], done[Only("loaded")] + 1}
    BY <1>1 DEF Meetings, Met
  <2>6. Past(e, AfterS) \in Nat
    BY <1>1, EwProgress
  <2> QED
    BY <1>1, <2>1, <2>3, <2>4, <2>5, <2>6, EwProgress
<1>7. CASE b = KV
  <2>1. done[b] <= 1
    BY <1>1, <1>7 DEF Counts
  <2> QED
    BY <1>4, <2>1
<1>8. CASE b = Only("s_ready")
  <2>1. w \in Ew
    BY <1>8, WaitersNamed
  <2>2. PSeen <= done[Only("p_ready")]
    BY <1>1, WaitersNamed DEF Singles, SingleBarriers, Seen
  <2>3. PSeen <= PArrived[w] /\ seen[w][b] = Past(w, AfterS)
    BY <1>1, <1>6, <1>8, <2>1, <2>2, MmaProgress DEF Seen
  <2>4. mmaScores <= PSeen + 1 /\ mmaScores \in Nat /\ PSeen \in Nat
    BY <1>1, MmaProgress
  <2> QED
    BY <1>4, <1>6, <1>8, <2>1, <2>3, <2>4
<1>9. CASE b = Only("p_ready")
  <2>1. seen[w][b] = PSeen
    BY <1>1, <1>9, WaitersNamed DEF Seen
  <2>2. mmaScores <= PSeen + 1 /\ mmaScores \in Nat /\ PSeen \in Nat
    BY <1>1, MmaProgress
  <2> QED
    BY <1>6, <1>9, <2>1, <2>2, Threads
<1>10. CASE b = Only("ds_ready")
  <2>1. seen[w][b] = DsSeen
    BY <1>1, <1>10, WaitersNamed DEF Seen
  <2>2. mmaScores <= DkIssued + 1 /\ mmaScores \in Nat /\ DkIssued \in Nat
    BY <1>1, MmaProgress
  <2>3. CASE call.split
    BY <1>6, <1>10, <2>1, <2>2, <2>3, Threads DEF DsSeen
  <2>4. CASE ~call.split
    <3>1. DsArrived[0] = 0 /\ DsSeen = 0
      BY <2>4, Threads DEF DsArrived, DsSeen
    <3> QED
      BY <1>6, <1>10, <2>1, <3>1, Threads
  <2> QED
    BY <2>3, <2>4
<1>11. CASE b = Only("loaded")
  <2>1. w \in Ew /\ seen[w][b] = LoadedSeen(w)
    BY <1>1, <1>11, WaitersNamed DEF Seen
  <2>2. LoadedBy[w] <= LoadedSeen(w) + 1 /\ LoadedSeen(w) \in Nat
    BY <1>1, <2>1, EwProgress
  <2> QED
    BY <1>6, <1>11, <2>1, <2>2
<1>12. CASE b \in {Only("dq_ready"), Only("dq_free")}
  <2>1. /\ done[Only("dq_ready")] = mmaStep - Queued("dq_ready")
        /\ done[Only("dq_free")] = DqFreed
        /\ seen[Mma][Only("dq_free")] = DqFreeSeen /\ seen[Dq][Only("dq_ready")] = DqSeen
    BY <1>1 DEF Counts, Seen
  <2>2. DqFreeSeen <= DqFreed /\ DqSeen <= mmaStep - Queued("dq_ready")
    BY <1>1, <2>1, WaitersNamed DEF Singles, SingleBarriers
  <2>3. /\ DqFreed <= DqSeen /\ mmaStep <= DqFreeSeen + 1
        /\ {DqFreed, DqSeen, mmaStep, DqFreeSeen} \subseteq Nat
    BY <1>1, MmaProgress, DqProgress
  <2>4. (b = Only("dq_ready") /\ w = Dq) \/ (b = Only("dq_free") /\ w = Mma)
    BY <1>12, WaitersNamed
  <2> QED
    BY <1>5, <2>1, <2>2, <2>3, <2>4
<1>13. CASE b = Only("done")
  <2>1. done[b] <= 1
    BY <1>1, <1>5, <1>13 DEF Counts
  <2> QED
    BY <1>4, <2>1
<1>14. CASE b = Only("mma_order")
  <2>1. done[b] = OrderIssued - Queued("mma_order") /\ seen[w][b] = OrderSeen
    BY <1>1, <1>14, WaitersNamed DEF Counts, Seen
  <2> QED
    BY <1>1, <1>5, <2>1, MmaProgress
<1> QED
  BY <1>7, <1>8, <1>9, <1>10, <1>11, <1>12, <1>13, <1>14 DEF SingleBarriers

\* The chain of progress that ties the threads together.
LEMMA Chain ==
  ASSUME FInv
  PROVE  /\ CFree <= mmaStep /\ mmaStep <= mmaScores /\ mmaScores <= Requested
         /\ Requested <= AFree + NumStages /\ AFree <= CFree
         /\ DqSeen <= mmaStep /\ DqFreeSeen <= DqFreed
         /\ \A e \in Ew :
              /\ AFree <= AuxArrived[e] /\ Past(e, AfterQ) <= Requested
              /\ Past(e, AfterS) <= mmaScores
              /\ Past(e, AfterS) <= done[Only("s_ready")]
              /\ mmaScores <= ewStep[e] + 1
              /\ PSeen <= PArrived[e] /\ DkIssued <= ewStep[e]
              /\ \A f \in Ew : LoadedSeen(f) <= LoadedBy[e]
<1>1. /\ TypeOK /\ MmaFacts /\ DqFacts /\ TmaFacts /\ \A e \in Ew : EwFacts(e)
      /\ Counts /\ Seen /\ Meetings /\ Singles /\ Order
  BY DEF FInv, RingInv, PcFacts
<1>2. \A name : Queued(name) \in {0, 1}
  BY DEF Queued
<1>3. /\ done[Only("s_ready")] \in Nat /\ done[Only("p_ready")] \in Nat
      /\ done[Only("ds_ready")] \in Nat /\ done[Only("loaded")] \in Nat
  BY <1>1, BarrierNames DEF TypeOK, BarTypeOK
<1>4. DqSeen <= mmaStep - Queued("dq_ready") /\ DqFreeSeen <= DqFreed
  <2>1. /\ done[Only("dq_ready")] = mmaStep - Queued("dq_ready")
        /\ done[Only("dq_free")] = DqFreed
        /\ seen[Mma][Only("dq_free")] = DqFreeSeen /\ seen[Dq][Only("dq_ready")] = DqSeen
    BY <1>1 DEF Counts, Seen
  <2> QED
    BY <1>1, <2>1, WaitersNamed DEF Singles, SingleBarriers
<1>5. PSeen <= done[Only("p_ready")] /\ DsSeen <= done[Only("ds_ready")]
  BY <1>1, WaitersNamed DEF Singles, SingleBarriers, Seen
<1>6. done[Only("s_ready")] <= mmaScores
  BY <1>1, <1>2, MmaProgress DEF Counts
<1>7. ASSUME NEW e \in Ew
      PROVE  /\ AFree <= AuxArrived[e] /\ Past(e, AfterQ) <= Requested
             /\ Past(e, AfterS) <= mmaScores
             /\ Past(e, AfterS) <= done[Only("s_ready")]
             /\ mmaScores <= ewStep[e] + 1
             /\ PSeen <= PArrived[e] /\ DkIssued <= ewStep[e]
             /\ \A f \in Ew : LoadedSeen(f) <= LoadedBy[e]
  <2>1. /\ PArrived[e] \in {done[Only("p_ready")], done[Only("p_ready")] + 1}
        /\ DsArrived[e] \in {done[Only("ds_ready")], done[Only("ds_ready")] + 1}
        /\ LoadedBy[e] \in {done[Only("loaded")], done[Only("loaded")] + 1}
    BY <1>1 DEF Meetings, Met
  <2>2. /\ Past(e, AfterS) <= done[Only("s_ready")]
        /\ \A f \in Ew : LoadedSeen(f) <= done[Only("loaded")]
    BY <1>1, WaitersNamed DEF Singles, SingleBarriers, Seen
  <2>3. PSeen <= PArrived[e] /\ DsSeen <= DsArrived[e]
    BY <1>1, <1>3, <1>5, <2>1, MmaProgress
  <2>4. DkIssued <= ewStep[e]
    <3>1. CASE call.split
      BY <2>3, <3>1 DEF DsArrived, DsSeen
    <3>2. CASE ~call.split
      <4>1. PArrived[e] = ewStep[e]
        BY <3>2 DEF PArrived
      <4> QED
        BY <1>1, <2>3, <4>1, MmaProgress, EwProgress
    <3> QED
      BY <3>1, <3>2
  <2>5. \A f \in Ew : LoadedSeen(f) \in Nat
    BY <1>1, EwProgress
  <2> QED
    BY <1>1, <1>3, <1>6, <2>1, <2>2, <2>3, <2>4, <2>5, MmaProgress, EwProgress DEF Order
<1> QED
  BY <1>1, <1>2, <1>4, <1>7, TmaProgress, MmaProgress, DqProgress DEF Order
-----------------------------------------------------------------------------
\* What stays as it is.
Families == {"q", "mask", "consumed", "aux_consumed"}
SingleNames == {"kv", "s_ready", "p_ready", "ds_ready", "loaded", "dq_ready", "dq_free",
                "done", "mma_order"}
RingBarriersStill ==
  \A f \in Families : \A s \in Nat :
    /\ left'[Ring(f, s)] = left[Ring(f, s)]
    /\ \A w \in WaitersOf(Ring(f, s)) : Lag(w, Ring(f, s))' = Lag(w, Ring(f, s))
SingleStill(name) ==
  /\ left'[Only(name)] = left[Only(name)] /\ done'[Only(name)] = done[Only(name)]
  /\ \A w \in WaitersOf(Only(name)) : seen'[w][Only(name)] = seen[w][Only(name)]

\* Rings and single barriers do not share a barrier.
LEMMA NamesApart ==
  /\ \A f \in Families, name \in SingleNames : \A s : Ring(f, s) # Only(name)
  /\ \A f, g, s, t : f # g => Ring(f, s) # Ring(g, t) /\ Only(f) # Only(g)
  /\ SingleBarriers = {Only(name) : name \in SingleNames}
BY DEF Families, SingleNames, Ring, Only, SingleBarriers, KV

\* Two steps of the window do not share a slot.
LEMMA RingSlots ==
  ASSUME TypeOK, TmaFacts, NEW s \in Window, NEW t \in Window, s # t, NEW f, NEW g
  PROVE  Ring(f, s) # Ring(g, t)
<1>1. AFree \in Nat
  BY TmaProgress
<1>2. s \in Nat /\ t \in Nat /\ s < t + NumStages /\ t < s + NumStages
  BY <1>1 DEF Window
<1>3. s % NumStages # t % NumStages
  <2>1. CASE s < t
    BY <1>2, <2>1, SlotsDiffer
  <2>2. CASE t < s
    BY <1>2, <2>2, SlotsDiffer
  <2> QED
    BY <1>2, <2>1, <2>2
<1> QED
  BY <1>3 DEF Ring

\* An arrival or a wait on a single barrier leaves the others alone.
LEMMA ArriveSingle ==
  ASSUME BarTypeOK(Barriers, Waiters), NEW name \in SingleNames, ArriveOn(Only(name))
  PROVE  /\ RingBarriersStill /\ \A other \in SingleNames \ {name} : SingleStill(other)
<1>1. Only(name) \in Barriers
  BY BarrierNames DEF SingleNames
<1>2. /\ \A c \in Barriers \ {Only(name)} : left'[c] = left[c] /\ done'[c] = done[c]
      /\ seen' = seen
  BY <1>1, ArriveAt
<1>3. \A other \in SingleNames \ {name} : Only(other) \in Barriers \ {Only(name)}
  BY BarrierNames, NamesApart DEF SingleNames
<1>4. \A f \in Families, s \in Nat : Ring(f, s) \in Barriers \ {Only(name)}
  BY BarrierNames, NamesApart DEF Families
<1> QED
  BY <1>2, <1>3, <1>4 DEF RingBarriersStill, SingleStill, Lag

\* The same for a wait.
LEMMA AwaitSingle ==
  ASSUME BarTypeOK(Barriers, Waiters), NEW name \in SingleNames, NEW w \in Waiters,
         Await(w, Only(name))
  PROVE  /\ RingBarriersStill /\ \A other \in SingleNames \ {name} : SingleStill(other)
<1>1. Only(name) \in Barriers
  BY BarrierNames DEF SingleNames
<1>2. /\ \A v, c : c \in Barriers \ {Only(name)} /\ v \in Waiters => seen'[v][c] = seen[v][c]
      /\ left' = left /\ done' = done
  BY <1>1, AwaitAt
<1>3. \A other \in SingleNames \ {name} :
        Only(other) \in Barriers \ {Only(name)} /\ WaitersOf(Only(other)) \subseteq Waiters
  BY BarrierNames, NamesApart, WaitersNamed, Threads DEF SingleNames
<1>4. \A f \in Families, s \in Nat :
        Ring(f, s) \in Barriers \ {Only(name)} /\ WaitersOf(Ring(f, s)) \subseteq Waiters
  BY BarrierNames, NamesApart, WaitersNamed, Threads DEF Families
<1> QED
  BY <1>2, <1>3, <1>4 DEF RingBarriersStill, SingleStill, Lag

\* A step of the window is signalled or observed: the others of the rings, and
\* the barriers of their own, are not concerned.
LEMMA ArriveInRing ==
  ASSUME TypeOK, TmaFacts, NEW f \in Families, NEW s \in Window, ArriveOn(Ring(f, s))
  PROVE  /\ \A name \in SingleNames : SingleStill(name)
         /\ \A g \in Families, t \in Window : g # f \/ t # s =>
              /\ left'[Ring(g, t)] = left[Ring(g, t)]
              /\ \A w \in WaitersOf(Ring(g, t)) : Lag(w, Ring(g, t))' = Lag(w, Ring(g, t))
         /\ left[Ring(f, s)] = 1 =>
              /\ left'[Ring(f, s)] = Arrivals[Ring(f, s)]
              /\ \A w \in WaitersOf(Ring(f, s)) :
                   Lag(w, Ring(f, s))' = Lag(w, Ring(f, s)) + 1
         /\ left[Ring(f, s)] # 1 =>
              /\ left'[Ring(f, s)] = left[Ring(f, s)] - 1
              /\ \A w \in WaitersOf(Ring(f, s)) : Lag(w, Ring(f, s))' = Lag(w, Ring(f, s))
<1>1. s \in Nat /\ Window \subseteq Nat
  BY TmaProgress DEF Window
<1>2. Ring(f, s) \in Barriers
  BY <1>1, BarrierNames DEF Families
<1>3. /\ \A c \in Barriers \ {Ring(f, s)} : left'[c] = left[c] /\ done'[c] = done[c]
      /\ seen' = seen /\ seen \in [Waiters -> [Barriers -> Nat]]
      /\ left[Ring(f, s)] = 1 => /\ left'[Ring(f, s)] = Arrivals[Ring(f, s)]
                                 /\ done'[Ring(f, s)] = done[Ring(f, s)] + 1
      /\ left[Ring(f, s)] # 1 => /\ left'[Ring(f, s)] = left[Ring(f, s)] - 1
                                 /\ done'[Ring(f, s)] = done[Ring(f, s)]
      /\ done[Ring(f, s)] \in Nat
  BY <1>2, ArriveAt DEF TypeOK, Waiters, BarTypeOK
<1>4. \A name \in SingleNames : Only(name) \in Barriers \ {Ring(f, s)}
  BY BarrierNames, NamesApart DEF SingleNames
<1>5. \A g \in Families, t \in Window : g # f \/ t # s => Ring(g, t) \in Barriers \ {Ring(f, s)}
  BY <1>1, BarrierNames, NamesApart, RingSlots DEF Families
<1>6. WaitersOf(Ring(f, s)) \subseteq Waiters
  BY WaitersNamed, Threads DEF Families
<1>7. \A w \in WaitersOf(Ring(f, s)) : seen[w][Ring(f, s)] \in Nat
  BY <1>2, <1>3, <1>6
<1> QED
  BY <1>3, <1>4, <1>5, <1>7 DEF SingleStill, Lag

\* A wait for a step of a ring moves the lag of its waiter at that step only.
LEMMA AwaitInRing ==
  ASSUME TypeOK, TmaFacts, NEW f \in Families, NEW s \in Window, NEW w \in Waiters,
         Await(w, Ring(f, s))
  PROVE  /\ \A name \in SingleNames : SingleStill(name)
         /\ \A g \in Families, t \in Window :
              /\ left'[Ring(g, t)] = left[Ring(g, t)]
              /\ \A v \in WaitersOf(Ring(g, t)) : g # f \/ t # s \/ v # w =>
                   Lag(v, Ring(g, t))' = Lag(v, Ring(g, t))
         /\ Lag(w, Ring(f, s))' = Lag(w, Ring(f, s)) - 1
         /\ Lag(w, Ring(f, s)) \in {0, 1} => Lag(w, Ring(f, s)) = 1
<1>1. s \in Nat /\ Window \subseteq Nat
  BY TmaProgress DEF Window
<1>2. Ring(f, s) \in Barriers
  BY <1>1, BarrierNames DEF Families
<1>3. /\ left' = left /\ done' = done
      /\ \A v \in Waiters, c \in Barriers : v # w \/ c # Ring(f, s) => seen'[v][c] = seen[v][c]
      /\ seen'[w][Ring(f, s)] = seen[w][Ring(f, s)] + 1
      /\ seen[w][Ring(f, s)] \in Nat /\ done[Ring(f, s)] \in Nat
      /\ Lag(w, Ring(f, s)) \in {0, 1} => Lag(w, Ring(f, s)) = 1
  BY <1>2, AwaitAt DEF TypeOK, Waiters
<1>4. \A name \in SingleNames :
        Only(name) \in Barriers \ {Ring(f, s)} /\ WaitersOf(Only(name)) \subseteq Waiters
  BY BarrierNames, NamesApart, WaitersNamed, Threads DEF SingleNames
<1>5. \A g \in Families, t \in Window :
        /\ Ring(g, t) \in Barriers /\ WaitersOf(Ring(g, t)) \subseteq Waiters
        /\ g # f \/ t # s => Ring(g, t) # Ring(f, s)
  BY <1>1, BarrierNames, NamesApart, RingSlots, WaitersNamed, Threads DEF Families
<1> QED
  BY <1>3, <1>4, <1>5 DEF SingleStill, Lag
-----------------------------------------------------------------------------
\* Types.  What is not a barrier's is kept apart.
OpTypes == ({"scores", "dv", "dk", "dq"} \cup Commits) \X (0 .. n)
Tags == Steps \cup {Undefined}
Unions == [scores : Tags, stored : [Ew -> Tags]]
Sums == [acc : SUBSET Steps, ok : BOOLEAN]
ThreadTypes ==
  /\ tmaStep \in 0 .. n /\ mmaStep \in 0 .. n /\ mmaScores \in 0 .. n
  /\ ewStep \in [Ew -> 0 .. n] /\ dqStep \in 0 .. n
  /\ tmaPc \in {"kv", "consumed", "aux", "load", "drain", "drain_aux", "done"}
  /\ mmaPc \in {"kv", "order", "scores", "p", "ds", "dq_free", "dq", "end",
                "last_free", "last_order", "done"}
  /\ ewPc \in [Ew -> {"kv", "q", "s", "load", "loaded", "mask", "store_p",
                      "store_ds", "ready", "done", "write", "exit"}]
  /\ dqPc \in {"wait", "load", "store", "drain", "exit"}
WorkTypes ==
  /\ copies \subseteq {KV} \cup ({"q_do", "row", "mask"} \X (0 .. n - 1))
  /\ tc \in Seq(OpTypes)
DataTypes ==
  /\ smem \in [Cells -> Steps \cup {0, Undefined}]
  /\ ds \in [{0, 1} -> [Ew -> Tags]] /\ tile \in [Ew -> Tags]
  /\ tmem \in [sp : Unions, dd : Unions, dk : Sums, dv : Sums, dq : Tags]
  /\ gmem \in [dq : Seq(Tags), dk : Seq(Sums), dv : Seq(Sums)]
  /\ dqReg \in Tags /\ stage \in Tags /\ stageBusy \in BOOLEAN

\* TypeOK in the parts that the actors change separately.
LEMMA TypeParts ==
  /\ TypeOK <=> /\ call \in Calls /\ ThreadTypes /\ WorkTypes /\ DataTypes
                /\ BarTypeOK(Barriers, Waiters)
  /\ TypeOK' <=> /\ (call \in Calls)' /\ ThreadTypes' /\ WorkTypes' /\ DataTypes'
                 /\ BarTypeOK(Barriers, Waiters)'
<1>1. TypeOK <=> /\ call \in Calls /\ ThreadTypes /\ WorkTypes /\ DataTypes
                 /\ BarTypeOK(Barriers, Waiters)
  BY DEF TypeOK, ThreadTypes, WorkTypes, DataTypes, Waiters, OpTypes, Tags, Unions, Sums
<1> QED
  BY <1>1, PTL

\* The types that depend on the launch do not change.
LEMMA CallStill ==
  ASSUME call \in Calls, UNCHANGED call
  PROVE  (call \in Calls)' /\ n' = n /\ OpTypes' = OpTypes
BY DEF n, Calls, Steps, OpTypes, Commits

\* Steps of the copy engine keep the types.
LEMMA CopyEngineTypes == FInv /\ CopyEngine => TypeOK'
<1> SUFFICES ASSUME FInv, CopyEngine PROVE TypeOK'
  OBVIOUS
<1>1. /\ call \in Calls /\ ThreadTypes /\ WorkTypes /\ DataTypes
      /\ BarTypeOK(Barriers, Waiters) /\ n \in Nat /\ 0 .. n - 1 \subseteq Steps
  BY TypeParts, CallType DEF FInv
<1>2. (call \in Calls)' /\ n' = n /\ OpTypes' = OpTypes /\ ThreadTypes'
  BY <1>1, CallStill DEF CopyEngine, ThreadTypes, tmaVars, mmaVars, ewVars, dqVars
<1>3. CASE \E c \in copies :
             /\ copies' = copies \ {c} /\ smem' = [smem EXCEPT ![CopyCell(c)] = c[2]]
             /\ ArriveOn(CopyBarrier(c)) /\ UNCHANGED <<stageBusy, gmem>>
  <2>1. PICK c \in copies :
             /\ copies' = copies \ {c} /\ smem' = [smem EXCEPT ![CopyCell(c)] = c[2]]
             /\ ArriveOn(CopyBarrier(c)) /\ UNCHANGED <<stageBusy, gmem>>
    BY <1>3
  <2>2. c[2] \in Steps \cup {0} /\ (c = KV \/ (c[2] \in Nat /\ c[1] \in {"q_do", "row", "mask"}))
    BY <1>1 DEF WorkTypes, KV, Only
  <2>3. CopyBarrier(c) \in Barriers
    BY <2>2, BarrierNames DEF CopyBarrier, CopyCell, KV, Only
  <2>4. BarTypeOK(Barriers, Waiters)'
    BY <1>1, <2>1, <2>3, ArriveAt
  <2>5. WorkTypes'
    BY <1>1, <1>2, <2>1 DEF WorkTypes, CopyEngine
  <2>6. smem' \in [Cells -> Steps \cup {0, Undefined}]
    BY <1>1, <2>1, <2>2 DEF DataTypes
  <2>7. DataTypes'
    BY <1>1, <2>1, <2>6 DEF DataTypes, CopyEngine, ewVars, dqVars, Tags, Unions, Sums, Cells,
       Steps, Ew, Slots
  <2> QED
    BY <1>2, <2>4, <2>5, <2>7, TypeParts
<1>4. CASE /\ stageBusy /\ stageBusy' = FALSE
           /\ gmem' = [gmem EXCEPT !.dq = Append(@, stage)]
           /\ UNCHANGED <<copies, smem, barVars>>
  <2>1. gmem' \in [dq : Seq(Tags), dk : Seq(Sums), dv : Seq(Sums)]
    <3>1. Append(gmem.dq, stage) \in Seq(Tags)
      BY <1>1, AppendProperties DEF DataTypes
    <3> QED
      BY <1>1, <1>4, <3>1 DEF DataTypes
  <2>2. DataTypes'
    BY <1>1, <1>4, <2>1 DEF DataTypes, CopyEngine, ewVars, dqVars, Tags, Unions, Sums, Cells,
       Steps, Ew, Slots
  <2>3. WorkTypes' /\ BarTypeOK(Barriers, Waiters)'
    BY <1>1, <1>2, <1>4 DEF WorkTypes, CopyEngine, BarTypeOK, barVars, Barriers, Slots, Waiters
  <2> QED
    BY <1>2, <2>2, <2>3, TypeParts
<1> QED
  BY <1>3, <1>4 DEF CopyEngine

\* Steps of the tensor core keep the types.
LEMMA TensorCoreTypes == FInv /\ TensorCore => TypeOK'
<1> SUFFICES ASSUME FInv, TensorCore PROVE TypeOK'
  OBVIOUS
<1>1. /\ call \in Calls /\ ThreadTypes /\ WorkTypes /\ DataTypes
      /\ BarTypeOK(Barriers, Waiters) /\ n \in Nat /\ 0 .. n - 1 \subseteq Steps
      /\ \A op \in Ops : Issued(op)
      /\ TypeOK /\ MmaFacts
  BY TypeParts, CallType DEF FInv, RingInv, Queue, PcFacts
<1>2. (call \in Calls)' /\ n' = n /\ OpTypes' = OpTypes /\ ThreadTypes'
  BY <1>1, CallStill DEF TensorCore, ThreadTypes, tmaVars, mmaVars, ewVars, dqVars
<1>3. PICK i \in DOMAIN tc :
        LET op == tc[i][1]  t == tc[i][2] IN
        /\ MayRetire(i) /\ tc' = RemoveAt(tc, i)
        /\ IF op \in Commits
           THEN /\ ArriveOn(IF op = "consumed" THEN Ring(op, t) ELSE Only(op))
                /\ UNCHANGED tmem
           ELSE tmem' = MmaResult(op, t) /\ UNCHANGED barVars
  BY DEF TensorCore
<1> DEFINE op == tc[i][1]  t == tc[i][2]
<1>4. tc[i] \in OpTypes /\ tc[i] \in Ops /\ tc' \in Seq(OpTypes)
  <2>1. tc \in Seq(OpTypes)
    BY <1>1 DEF WorkTypes
  <2>2. tc' \in Seq(OpTypes)
    <3>1. \A o \in OpTypes : o[2] \in Nat
      BY <1>1 DEF OpTypes
    <3>2. \A o \in OpTypes : Key(o) \in Int
      BY <3>1 DEF Key, OpTypes, Commits
    <3>3. Ops \subseteq OpTypes
      BY <2>1, ElementOfSeq, LenProperties DEF Ops, ToSet
    <3>4. Sorted /\ UNCHANGED call
      BY DEF FInv, RingInv, Queue, TensorCore
    <3>5. \A o \in Ops : Key(o) \in Int
      BY <3>2, <3>3
    <3> QED
      BY <1>3, <2>1, <3>4, <3>5, QueueShrinks
  <2> QED
    BY <2>1, <2>2, ElementOfSeq, LenProperties DEF Ops, ToSet
<1>5. op \in {"scores", "dv", "dk", "dq"} \cup Commits /\ t \in 0 .. n
  BY <1>4 DEF OpTypes
<1>6. WorkTypes'
  BY <1>1, <1>2, <1>4 DEF WorkTypes, TensorCore
<1>7. CASE op \in Commits
  <2>1. (IF op = "consumed" THEN Ring(op, t) ELSE Only(op)) \in Barriers
    BY <1>1, <1>5, <1>7, BarrierNames DEF Commits
  <2>2. BarTypeOK(Barriers, Waiters)'
    BY <1>1, <1>3, <1>7, <2>1, ArriveAt
  <2>3. DataTypes'
    BY <1>1, <1>3, <1>7 DEF DataTypes, TensorCore, ewVars, dqVars, Tags, Unions, Sums, Cells,
       Steps, Ew, Slots
  <2> QED
    BY <1>2, <1>6, <2>2, <2>3, TypeParts
<1>8. CASE op \notin Commits
  <2>1. t \in Steps /\ tmem' = MmaResult(op, t)
    <3>1. t \in 0 .. n - 1
      <4>1. op \in {"scores", "dv", "dk", "dq"} /\ Issued(tc[i])
        BY <1>1, <1>4, <1>5, <1>8
      <4>2. /\ mmaStep <= DkIssued /\ DkIssued <= PSeen /\ PSeen <= mmaScores /\ mmaScores <= n
            /\ {mmaStep, DkIssued, PSeen, mmaScores} \subseteq Nat
        BY <1>1, MmaProgress
      <4>3. t \in 0 .. mmaScores - 1 \/ t \in 0 .. PSeen - 1 \/ t \in 0 .. DkIssued - 1
            \/ t \in 0 .. mmaStep - 1
        BY <4>1 DEF Issued
      <4> QED
        BY <1>1, <4>2, <4>3
    <3> QED
      BY <1>1, <1>3, <1>8, <3>1
  <2>2. tmem' \in [sp : Unions, dd : Unions, dk : Sums, dv : Sums, dq : Tags]
    <3>1. \A x \in Sums, b \in BOOLEAN : Accumulated(x, t, b) \in Sums
      BY <2>1 DEF Accumulated, Sums
    <3>2. Blank \in [Ew -> Tags]
      BY DEF Blank, Tags
    <3>3. tmem \in [sp : Unions, dd : Unions, dk : Sums, dv : Sums, dq : Tags]
      BY <1>1 DEF DataTypes
    <3>4. CASE op = "scores"
      <4> DEFINE x == [scores |-> IF smem[Ring("q_do", t)] = t /\ smem[KV] = 0 THEN t
                                  ELSE Undefined, stored |-> Blank]
      <4>1. x \in Unions
        BY <2>1, <3>2 DEF Unions, Tags
      <4>2. tmem' = [tmem EXCEPT !.sp = x, !.dd = x]
        BY <2>1, <3>4 DEF MmaResult
      <4> HIDE DEF x
      <4> QED
        BY <3>3, <4>1, <4>2
    <3>5. CASE op = "dv"
      <4>1. PICK b \in BOOLEAN : tmem' = [tmem EXCEPT !.dv = Accumulated(@, t, b)]
        BY <2>1, <3>5 DEF MmaResult
      <4>2. Accumulated(tmem.dv, t, b) \in Sums
        BY <3>1, <3>3
      <4> QED
        BY <3>3, <4>1, <4>2
    <3>6. CASE op = "dk"
      <4>1. PICK b \in BOOLEAN : tmem' = [tmem EXCEPT !.dk = Accumulated(@, t, b)]
        BY <2>1, <3>6 DEF MmaResult
      <4>2. Accumulated(tmem.dk, t, b) \in Sums
        BY <3>1, <3>3
      <4> QED
        BY <3>3, <4>1, <4>2
    <3>7. CASE op = "dq"
      <4>1. PICK x \in Tags : tmem' = [tmem EXCEPT !.dq = x]
        BY <2>1, <3>7 DEF MmaResult, Tags
      <4> QED
        BY <3>3, <4>1
    <3> QED
      BY <1>5, <1>8, <3>4, <3>5, <3>6, <3>7
  <2>3. DataTypes'
    BY <1>1, <2>2 DEF DataTypes, TensorCore, ewVars, dqVars, Tags, Unions, Sums, Cells,
       Steps, Ew, Slots
  <2>4. BarTypeOK(Barriers, Waiters)'
    BY <1>1, <1>3, <1>8 DEF BarTypeOK, barVars, Barriers, Slots, Waiters
  <2> QED
    BY <1>2, <1>6, <2>3, <2>4, TypeParts
<1> QED
  BY <1>7, <1>8

\* Where the TMA warp goes at the end of its loops.
LEMMA TmaEnds ==
  ASSUME call \in Calls, NEW t \in 0 .. n
  PROVE  /\ TmaDrain(t) => /\ tmaPc' = IF t < n THEN "drain" ELSE "done"
                           /\ tmaStep' = t
         /\ TmaEnter(t) => \/ t = n /\ TmaDrain(DrainStart) /\ DrainStart \in 0 .. n
                           \/ /\ t < n /\ tmaStep' = t
                              /\ tmaPc' = IF t >= NumStages THEN "consumed" ELSE "load"
BY CallType DEF TmaDrain, TmaEnter, DrainStart, LastStep

\* Steps of the TMA warp keep the types.
LEMMA TmaTypes == FInv /\ TmaWarp => TypeOK'
<1> SUFFICES ASSUME FInv, TmaWarp PROVE TypeOK'
  OBVIOUS
<1>1. /\ call \in Calls /\ ThreadTypes /\ WorkTypes /\ DataTypes
      /\ BarTypeOK(Barriers, Waiters) /\ n \in Nat /\ call.partial \subseteq 0 .. n - 1
      /\ TmaFacts
  BY TypeParts, CallType DEF FInv, RingInv, PcFacts
<1>2. (call \in Calls)' /\ n' = n /\ OpTypes' = OpTypes
  BY <1>1, CallStill DEF TmaWarp
<1>3. DataTypes'
  BY <1>1 DEF DataTypes, TmaWarp, ewVars, dqVars, Tags, Unions, Sums, Cells, Steps, Ew, Slots
<1>4. ASSUME tmaStep' \in 0 .. n,
             tmaPc' \in {"kv", "consumed", "aux", "load", "drain", "drain_aux", "done"},
             copies' \subseteq copies \cup {KV} \cup ({"q_do", "row", "mask"} \X (0 .. n - 1)),
             BarTypeOK(Barriers, Waiters)'
      PROVE  TypeOK'
  <2>1. ThreadTypes'
    BY <1>1, <1>2, <1>4 DEF ThreadTypes, TmaWarp, mmaVars, ewVars, dqVars, Ew
  <2>2. WorkTypes'
    BY <1>1, <1>2, <1>4 DEF WorkTypes, TmaWarp, KV, Only
  <2> QED
    BY <1>2, <1>3, <1>4, <2>1, <2>2, TypeParts
<1>5. tmaStep \in 0 .. n
  BY <1>1 DEF ThreadTypes
<1>6. CASE TmaAwait
  <2>1. tmaStep < n
    BY <1>1, <1>6 DEF TmaAwait, TmaFacts
  <2>2. tmaStep' \in 0 .. n /\ tmaPc' \in {"aux", "load", "drain", "drain_aux", "done"}
    BY <1>1, <1>5, <1>6, <2>1, TmaEnds DEF TmaAwait, AfterConsumed
  <2>3. PICK b \in {Ring("consumed", tmaStep), Ring("aux_consumed", tmaStep)} : Await(Tma, b)
    BY <1>6 DEF TmaAwait
  <2>4. BarTypeOK(Barriers, Waiters)'
    BY <1>1, <1>5, <2>3, BarrierNames, Threads, AwaitAt
  <2> QED
    BY <1>4, <1>6, <2>2, <2>4 DEF TmaAwait
<1>7. CASE TmaLoad
  <2>1. BarTypeOK(Barriers, Waiters)'
    BY <1>1, <1>7 DEF TmaLoad, BarTypeOK, barVars, Barriers, Slots, Waiters
  <2>2. CASE tmaPc = "kv"
    <3>1. TmaEnter(0) /\ copies' = {KV}
      BY <1>7, <2>2 DEF TmaLoad
    <3>2. /\ tmaStep' \in 0 .. n
          /\ tmaPc' \in {"consumed", "load", "drain", "done"}
      BY <1>1, <3>1, TmaEnds
    <3> QED
      BY <1>4, <2>1, <3>1, <3>2
  <2>3. CASE tmaPc = "load"
    <3>1. TmaEnter(tmaStep + 1) /\ tmaStep + 1 \in 0 .. n /\ tmaStep \in 0 .. n - 1
      BY <1>1, <1>5, <1>7, <2>3 DEF TmaLoad, TmaFacts
    <3>2. /\ tmaStep' \in 0 .. n
          /\ tmaPc' \in {"consumed", "load", "drain", "done"}
      BY <1>1, <3>1, TmaEnds
    <3>3. copies' = copies \cup {<<"q_do", tmaStep>>, <<"row", tmaStep>>}
             \cup (IF tmaStep \in call.partial THEN {<<"mask", tmaStep>>} ELSE {})
      BY <1>7, <2>3 DEF TmaLoad
    <3> QED
      BY <1>4, <2>1, <3>1, <3>2, <3>3
  <2> QED
    BY <1>7, <2>2, <2>3 DEF TmaLoad
<1> QED
  BY <1>6, <1>7 DEF TmaWarp

\* Where the MMA warp goes at the end of a part of its loop.
LEMMA MmaPcs ==
  ASSUME call \in Calls, NEW t \in 0 .. n
  PROVE  /\ MmaTop(t) \in {"p", "order", "scores", "end", "done"}
         /\ AfterDk(t) \in {"order", "scores", "dq_free", "dq"}
         /\ DqIssuePc(t) \in {"dq_free", "dq"} /\ ScoresPc(t) \in {"order", "scores"}
BY DEF MmaTop, AfterDk, ScoresPc, DqIssuePc

\* Steps of the MMA warp keep the types.
LEMMA MmaTypes == FInv /\ MmaWarp => TypeOK'
<1> SUFFICES ASSUME FInv, MmaWarp PROVE TypeOK'
  OBVIOUS
<1>1. /\ call \in Calls /\ ThreadTypes /\ WorkTypes /\ DataTypes
      /\ BarTypeOK(Barriers, Waiters) /\ n \in Nat /\ MmaFacts
  BY TypeParts, CallType DEF FInv, RingInv, PcFacts
<1>2. (call \in Calls)' /\ n' = n /\ OpTypes' = OpTypes
  BY <1>1, CallStill DEF MmaWarp
<1>3. DataTypes'
  BY <1>1 DEF DataTypes, MmaWarp, ewVars, dqVars, Tags, Unions, Sums, Cells, Steps, Ew, Slots
<1>4. ASSUME mmaStep' \in 0 .. n, mmaScores' \in 0 .. n,
             mmaPc' \in {"kv", "order", "scores", "p", "ds", "dq_free", "dq", "end",
                         "last_free", "last_order", "done"},
             tc' \in Seq(OpTypes), BarTypeOK(Barriers, Waiters)'
      PROVE  TypeOK'
  <2>1. ThreadTypes'
    BY <1>1, <1>2, <1>4 DEF ThreadTypes, MmaWarp, tmaVars, ewVars, dqVars, Ew
  <2>2. WorkTypes'
    BY <1>1, <1>2, <1>4 DEF WorkTypes, MmaWarp, KV, Only
  <2> QED
    BY <1>2, <1>3, <1>4, <2>1, <2>2, TypeParts
<1>5. mmaStep \in 0 .. n /\ mmaScores \in 0 .. n /\ tc \in Seq(OpTypes)
  BY <1>1 DEF ThreadTypes, WorkTypes
<1>6. ASSUME NEW pc, NEW b \in Barriers, NEW next, MmaWait(pc, b, next)
      PROVE  mmaPc = pc /\ mmaPc' = next /\ BarTypeOK(Barriers, Waiters)'
  BY <1>1, <1>6, AwaitAt, Threads DEF MmaWait
<1>7. ASSUME NEW u \in Seq(OpTypes), tc' = tc \o u PROVE tc' \in Seq(OpTypes)
  BY <1>5, <1>7, ConcatProperties
<1>8. \A name \in {"kv", "mma_order", "dq_free", "p_ready", "ds_ready"} : Only(name) \in Barriers
  BY BarrierNames
<1>9. CASE MmaAwait
  <2>1. /\ UNCHANGED <<mmaStep, mmaScores, tc>>
        /\ mmaPc' \in {"scores", "dq", "last_order", "done", MmaTop(0)}
        /\ \E b \in {Only("kv"), Only("mma_order"), Only("dq_free")} : Await(Mma, b)
    BY <1>9 DEF MmaAwait, MmaWait, KV
  <2>2. BarTypeOK(Barriers, Waiters)'
    BY <1>1, <1>8, <2>1, AwaitAt, Threads
  <2> QED
    BY <1>1, <1>4, <1>5, <2>1, <2>2, MmaPcs
<1>10. CASE MmaIssueScores
  <2> DEFINE next == IF call.early /\ mmaScores > 0 THEN DqIssuePc(mmaStep) ELSE "p"
             u == <<<<"scores", mmaScores>>, <<"s_ready", mmaScores>>>>
  <2>1. /\ MmaWait("scores", Ring("q", mmaScores), next)
        /\ tc' = tc \o u /\ mmaScores' = mmaScores + 1 /\ mmaStep' = mmaStep
    BY <1>10 DEF MmaIssueScores
  <2>2. mmaPc = "scores" /\ mmaPc' = next /\ BarTypeOK(Barriers, Waiters)'
    BY <1>5, <1>6, <2>1, BarrierNames
  <2>3. mmaScores < n /\ next \in {"p", "dq_free", "dq"}
    BY <1>1, <1>5, <2>2, MmaPcs DEF MmaFacts
  <2>4. u \in Seq(OpTypes)
    BY <1>5 DEF OpTypes, Commits
  <2> HIDE DEF next, u
  <2>5. tc' \in Seq(OpTypes)
    BY <1>7, <2>1, <2>4
  <2> QED
    BY <1>1, <1>4, <1>5, <2>1, <2>2, <2>3, <2>5
<1>11. CASE MmaIssueDvDk
  <2>1. Dv \in Seq(OpTypes) /\ Dk \in Seq(OpTypes)
    <3>1. /\ <<<<"dv", mmaStep>>>> \in Seq(OpTypes) /\ <<<<"dk", mmaStep>>>> \in Seq(OpTypes)
          /\ <<<<"mma_order", mmaStep>>>> \in Seq(OpTypes) /\ <<>> \in Seq(OpTypes)
      BY <1>5 DEF OpTypes, Commits
    <3> QED
      BY <3>1, ConcatProperties DEF Dv, Dk
  <2>2. tc' \in Seq(OpTypes)
    <3>1. \/ tc' = tc \o Dv \o Dk \/ tc' = tc \o Dv \/ tc' = tc \o Dk
      BY <1>11 DEF MmaIssueDvDk
    <3>2. tc \o Dv \in Seq(OpTypes) /\ tc \o Dk \in Seq(OpTypes)
      BY <1>5, <2>1, ConcatProperties
    <3>3. tc \o Dv \o Dk \in Seq(OpTypes)
      BY <2>1, <3>2, ConcatProperties
    <3> QED
      BY <3>1, <3>2, <3>3
  <2>3. /\ UNCHANGED <<mmaStep, mmaScores>>
        /\ mmaPc' \in {"ds", AfterDk(mmaStep)}
        /\ \E b \in {Only("p_ready"), Only("ds_ready")} : Await(Mma, b)
    BY <1>11 DEF MmaIssueDvDk, MmaWait
  <2>4. BarTypeOK(Barriers, Waiters)'
    BY <1>1, <1>8, <2>3, AwaitAt, Threads
  <2> QED
    BY <1>1, <1>4, <1>5, <2>2, <2>3, <2>4, MmaPcs
<1>12. CASE MmaIssueDq
  <2> DEFINE u == <<<<"dq", mmaStep>>, <<"dq_ready", mmaStep>>, <<"consumed", mmaStep>>>>
  <2>1. mmaStep + 1 \in 0 .. n
    BY <1>1, <1>5, <1>12 DEF MmaIssueDq, MmaFacts
  <2>2. u \in Seq(OpTypes)
    BY <1>5 DEF OpTypes, Commits
  <2>3. tc' = tc \o u /\ mmaPc' = MmaTop(mmaStep + 1) /\ mmaStep' = mmaStep + 1
        /\ mmaScores' = mmaScores /\ UNCHANGED barVars
    BY <1>12 DEF MmaIssueDq
  <2>4. BarTypeOK(Barriers, Waiters)'
    BY <1>1, <2>3 DEF BarTypeOK, barVars, Barriers, Slots, Waiters
  <2> HIDE DEF u
  <2>5. tc' \in Seq(OpTypes)
    BY <1>7, <2>2, <2>3
  <2> QED
    BY <1>1, <1>4, <1>5, <2>1, <2>3, <2>4, <2>5, MmaPcs
<1>13. CASE MmaCommitDone
  <2>1. tc' \in Seq(OpTypes)
    BY <1>5, <1>13, AppendProperties DEF MmaCommitDone, OpTypes, Commits
  <2>2. BarTypeOK(Barriers, Waiters)'
    BY <1>1, <1>13 DEF MmaCommitDone, BarTypeOK, barVars, Barriers, Slots, Waiters
  <2> QED
    BY <1>4, <1>5, <1>13, <2>1, <2>2 DEF MmaCommitDone
<1> QED
  BY <1>9, <1>10, <1>11, <1>12, <1>13 DEF MmaWarp

\* Steps of the dQ writer keep the types.
LEMMA DqTypes == FInv /\ DqWriter => TypeOK'
<1> SUFFICES ASSUME FInv, DqWriter PROVE TypeOK'
  OBVIOUS
<1>1. /\ call \in Calls /\ ThreadTypes /\ WorkTypes /\ DataTypes
      /\ BarTypeOK(Barriers, Waiters) /\ n \in Nat /\ DqFacts
  BY TypeParts, CallType DEF FInv, RingInv, PcFacts
<1>2. (call \in Calls)' /\ n' = n /\ OpTypes' = OpTypes
  BY <1>1, CallStill DEF DqWriter
<1>3. WorkTypes'
  BY <1>1, <1>2 DEF WorkTypes, DqWriter, KV, Only
<1>4. ASSUME dqStep' \in 0 .. n, dqPc' \in {"wait", "load", "store", "drain", "exit"},
             dqReg' \in Tags, stage' \in Tags, stageBusy' \in BOOLEAN,
             BarTypeOK(Barriers, Waiters)'
      PROVE  TypeOK'
  <2>1. ThreadTypes'
    BY <1>1, <1>2, <1>4 DEF ThreadTypes, DqWriter, tmaVars, mmaVars, ewVars, Ew
  <2>2. DataTypes'
    BY <1>1, <1>4 DEF DataTypes, DqWriter, ewVars, Tags, Unions, Sums, Cells, Steps, Ew, Slots
  <2> QED
    BY <1>2, <1>3, <1>4, <2>1, <2>2, TypeParts
<1>5. /\ dqStep \in 0 .. n /\ tmem.dq \in Tags /\ dqReg \in Tags /\ stage \in Tags
      /\ stageBusy \in BOOLEAN
  BY <1>1 DEF ThreadTypes, DataTypes
<1>6. CASE DqLoad
  <2>1. /\ UNCHANGED <<dqStep, stage, stageBusy>> /\ dqPc' \in {"load", "store"}
        /\ dqReg' \in {dqReg, tmem.dq}
    BY <1>6 DEF DqLoad
  <2>2. Await(Dq, Only("dq_ready")) \/ ArriveOn(Only("dq_free"))
    BY <1>6 DEF DqLoad
  <2>3. BarTypeOK(Barriers, Waiters)'
    BY <1>1, <2>2, ArriveAt, AwaitAt, BarrierNames, Threads
  <2> QED
    BY <1>4, <1>5, <2>1, <2>3
<1>7. CASE DqStore \/ DqDrain
  <2>1. BarTypeOK(Barriers, Waiters)'
    BY <1>1, <1>7 DEF DqStore, DqDrain, BarTypeOK, barVars, Barriers, Slots, Waiters
  <2>2. CASE DqStore
    <3>1. dqStep + 1 \in 0 .. n /\ DqTop(dqStep + 1) \in {"wait", "drain"}
      BY <1>1, <1>5, <2>2 DEF DqStore, DqFacts, DqTop
    <3> QED
      BY <1>4, <1>5, <2>1, <2>2, <3>1 DEF DqStore
  <2>3. CASE DqDrain
    BY <1>4, <1>5, <2>1, <2>3 DEF DqDrain
  <2> QED
    BY <1>7, <2>2, <2>3
<1> QED
  BY <1>6, <1>7 DEF DqWriter

\* Where a warpgroup goes at the end of a part of its loop.
LEMMA EwPcs ==
  ASSUME call \in Calls, NEW t
  PROVE  /\ EwTop(t) \in {"q", "done", "write"} /\ StorePc \in {"store_p", "store_ds"}
         /\ MathPc(t) \in {"mask", "store_p", "store_ds"}
BY DEF EwTop, StorePc, MathPc

\* Steps of a warpgroup keep the types.
LEMMA EwTypes == FInv /\ (\E e \in Ew : ElementwiseWg(e)) => TypeOK'
<1> SUFFICES ASSUME FInv, NEW e \in Ew, ElementwiseWg(e) PROVE TypeOK'
  OBVIOUS
<1>1. /\ call \in Calls /\ ThreadTypes /\ WorkTypes /\ DataTypes
      /\ BarTypeOK(Barriers, Waiters) /\ n \in Nat /\ EwFacts(e)
      /\ n <= MaxSteps /\ call.partial \subseteq 0 .. n - 1
  BY TypeParts, CallType DEF FInv, RingInv, PcFacts
<1>2. (call \in Calls)' /\ n' = n /\ OpTypes' = OpTypes
  BY <1>1, CallStill DEF ElementwiseWg
<1>3. WorkTypes'
  BY <1>1, <1>2 DEF WorkTypes, ElementwiseWg, KV, Only
<1> DEFINE Pcs == {"kv", "q", "s", "load", "loaded", "mask", "store_p",
                   "store_ds", "ready", "done", "write", "exit"}
<1>4. ASSUME NEW next \in Pcs, ewPc' = [ewPc EXCEPT ![e] = next],
             ewStep' \in [Ew -> 0 .. n],
             NEW x \in Tags, tile' = [tile EXCEPT ![e] = x],
             smem' \in [Cells -> Steps \cup {0, Undefined}], ds' \in [{0, 1} -> [Ew -> Tags]],
             tmem' \in [sp : Unions, dd : Unions, dk : Sums, dv : Sums, dq : Tags],
             gmem' \in [dq : Seq(Tags), dk : Seq(Sums), dv : Seq(Sums)],
             BarTypeOK(Barriers, Waiters)'
      PROVE  TypeOK'
  <2>1. ewPc' \in [Ew -> Pcs] /\ tile' \in [Ew -> Tags]
    BY <1>1, <1>4 DEF ThreadTypes, DataTypes
  <2>2. ThreadTypes'
    BY <1>1, <1>2, <1>4, <2>1 DEF ThreadTypes, ElementwiseWg, tmaVars, mmaVars, dqVars, Ew
  <2>3. DataTypes'
    BY <1>1, <1>4, <2>1 DEF DataTypes, ElementwiseWg, dqVars, Tags, Unions, Sums, Cells,
       Steps, Ew, Slots
  <2> QED
    BY <1>2, <1>3, <1>4, <2>2, <2>3, TypeParts
<1> DEFINE t == ewStep[e]
<1>5. /\ ewStep \in [Ew -> 0 .. n] /\ t \in 0 .. n /\ tile[e] \in Tags
      /\ smem \in [Cells -> Steps \cup {0, Undefined}] /\ ds \in [{0, 1} -> [Ew -> Tags]]
      /\ tmem \in [sp : Unions, dd : Unions, dk : Sums, dv : Sums, dq : Tags]
      /\ gmem \in [dq : Seq(Tags), dk : Seq(Sums), dv : Seq(Sums)]
  BY <1>1 DEF ThreadTypes, DataTypes
<1>6. /\ \A name \in SingleNames : Only(name) \in Barriers
      /\ \A f \in Families : Ring(f, t) \in Barriers
  BY <1>5, BarrierNames DEF SingleNames, Families
<1>7. \A f \in {"row", "mask"} : Ring(f, t) \in Cells
  <2>1. t % NumStages \in Slots
    BY <1>5 DEF Slots
  <2> QED
    BY <2>1 DEF Ring, Cells
<1>8. CASE EwAwait(e)
  <2>1. UNCHANGED <<ewStep, smem, ds, tmem, gmem>>
    BY <1>8 DEF EwAwait
  <2>3. \E next \in Pcs, x \in Tags, b \in Barriers :
          EwGo(e, ewPc[e], next, x) /\ Await(e, b)
    <3>1. CASE EwGo(e, "kv", EwTop(0), tile[e]) /\ Await(e, KV)
      BY <1>1, <1>5, <1>6, <3>1, EwPcs DEF EwGo, SingleNames, KV
    <3>2. CASE EwGo(e, "q", "s", smem[Ring("row", t)]) /\ Await(e, Ring("q", t))
      <4>1. t < n
        BY <1>1, <3>2 DEF EwFacts, EwGo
      <4>2. 0 \in Steps
        BY <1>1, <1>5, <4>1 DEF Steps
      <4>3. smem[Ring("row", t)] \in Tags
        BY <1>5, <1>7, <4>2 DEF Tags
      <4> QED
        BY <1>6, <3>2, <4>3 DEF EwGo, Families
    <3>3. CASE EwGo(e, "s", "load", tile[e]) /\ Await(e, Only("s_ready"))
      BY <1>5, <1>6, <3>3 DEF EwGo, SingleNames
    <3>4. CASE EwGo(e, "loaded", MathPc(t), tile[e]) /\ Await(e, Only("loaded"))
      BY <1>1, <1>5, <1>6, <3>4, EwPcs DEF EwGo, SingleNames
    <3>5. CASE EwGo(e, "mask", StorePc, Matching(e, Ring("mask", t))) /\ Await(e, Ring("mask", t))
      <4>1. Matching(e, Ring("mask", t)) \in Tags
        BY <1>5 DEF Matching, Tags
      <4> QED
        BY <1>1, <1>6, <3>5, <4>1, EwPcs DEF EwGo, Families
    <3>6. CASE EwGo(e, "done", "write", tile[e]) /\ Await(e, Only("done"))
      BY <1>5, <1>6, <3>6 DEF EwGo, SingleNames
    <3> QED
      BY <1>8, <3>1, <3>2, <3>3, <3>4, <3>5, <3>6 DEF EwAwait
  <2>4. PICK next \in Pcs, x \in Tags, b \in Barriers :
          EwGo(e, ewPc[e], next, x) /\ Await(e, b)
    BY <2>3
  <2>5. BarTypeOK(Barriers, Waiters)'
    BY <1>1, <2>4, AwaitAt, Threads
  <2> QED
    BY <1>4, <1>5, <2>1, <2>4, <2>5 DEF EwGo
<1>9. CASE EwLoad(e)
  <2>1. Loaded(e) \in Tags
    BY <1>5 DEF Loaded, Tags
  <2>2. \E next \in Pcs : EwGo(e, "load", next, Loaded(e))
    BY <1>1, <1>9, EwPcs DEF EwLoad
  <2>3. BarTypeOK(Barriers, Waiters)'
    <3>1. CASE ArriveOn(Only("loaded"))
      BY <1>1, <1>6, <3>1, ArriveAt DEF SingleNames
    <3>2. CASE UNCHANGED barVars
      BY <1>1, <3>2 DEF BarTypeOK, barVars, Barriers, Slots, Waiters
    <3> QED
      BY <1>9, <3>1, <3>2 DEF EwLoad
  <2> QED
    BY <1>4, <1>5, <1>9, <2>1, <2>2, <2>3 DEF EwLoad, EwGo
<1>10. ASSUME NEW union \in Unions PROVE Packed(union, e) \in Unions
  BY <1>5 DEF Packed, Unions, Tags
<1>11. CASE EwStoreP(e)
  <2>1. BarTypeOK(Barriers, Waiters)'
    BY <1>1, <1>6, <1>11, ArriveAt DEF EwStoreP, SingleNames
  <2>2. tmem' \in [sp : Unions, dd : Unions, dk : Sums, dv : Sums, dq : Tags]
    BY <1>5, <1>10, <1>11 DEF EwStoreP
  <2> QED
    BY <1>4, <1>5, <1>11, <2>1, <2>2 DEF EwStoreP, EwGo
<1>12. CASE EwStoreDs(e)
  <2>1. BarTypeOK(Barriers, Waiters)'
    BY <1>1, <1>6, <1>12, ArriveAt DEF EwStoreDs, Families
  <2>2. tmem' \in [sp : Unions, dd : Unions, dk : Sums, dv : Sums, dq : Tags]
    <3>1. PICK sp \in Unions, dd \in Unions : tmem' = [tmem EXCEPT !.sp = sp, !.dd = dd]
      BY <1>5, <1>10, <1>12 DEF EwStoreDs
    <3> QED
      BY <1>5, <3>1
  <2>3. ds' \in [{0, 1} -> [Ew -> Tags]]
    <3>1. DsBuf(t) \in {0, 1}
      BY <1>5 DEF DsBuf
    <3>2. ds' = [ds EXCEPT ![DsBuf(t)][e] = tile[e]]
      BY <1>12 DEF EwStoreDs
    <3> QED
      BY <1>5, <3>1, <3>2
  <2> QED
    BY <1>4, <1>5, <1>12, <2>1, <2>2, <2>3 DEF EwStoreDs, EwGo
<1>13. CASE EwArriveReady(e)
  <2>1. BarTypeOK(Barriers, Waiters)'
    BY <1>1, <1>6, <1>13, ArriveAt DEF EwArriveReady, SingleNames
  <2>2. t < n
    BY <1>1, <1>13 DEF EwArriveReady, EwGo, EwFacts, AfterQ, AfterS, AfterLoad, AfterLoaded,
       AfterMask
  <2>3. ewStep' \in [Ew -> 0 .. n]
    BY <1>1, <1>5, <1>13, <2>2 DEF EwArriveReady
  <2> QED
    BY <1>1, <1>4, <1>5, <1>13, <2>1, <2>3, EwPcs DEF EwArriveReady, EwGo
<1>14. CASE EwWrite(e)
  <2>1. BarTypeOK(Barriers, Waiters)'
    BY <1>1, <1>14 DEF EwWrite, BarTypeOK, barVars, Barriers, Slots, Waiters
  <2>2. smem' \in [Cells -> Steps \cup {0, Undefined}]
    BY <1>5, <1>14 DEF EwWrite
  <2>3. gmem' \in [dq : Seq(Tags), dk : Seq(Sums), dv : Seq(Sums)]
    <3>1. Zeros \in Sums
      BY DEF Zeros, Sums
    <3>2. Output(gmem.dk, tmem.dk) \in Seq(Sums) /\ Output(gmem.dv, tmem.dv) \in Seq(Sums)
      BY <1>5, <3>1, AppendProperties DEF Output
    <3>3. PICK dk \in Seq(Sums), dv \in Seq(Sums) : gmem' = [gmem EXCEPT !.dk = dk, !.dv = dv]
      BY <1>5, <1>14, <3>2 DEF EwWrite
    <3> QED
      BY <1>5, <3>3
  <2> QED
    BY <1>4, <1>5, <1>14, <2>1, <2>2, <2>3 DEF EwWrite, EwGo
<1> QED
  BY <1>8, <1>9, <1>11, <1>12, <1>13, <1>14 DEF ElementwiseWg
-----------------------------------------------------------------------------
\* What a thread that does not move keeps.
LEMMA TmaStill ==
  ASSUME UNCHANGED <<call, tmaVars>>
  PROVE  /\ UNCHANGED <<n, Requested, CFree, AFree, Window>>
         /\ TmaFacts => TmaFacts'
<1>1. n' = n /\ tmaPc' = tmaPc /\ tmaStep' = tmaStep
  BY DEF n, tmaVars
<1>2. Requested' = Requested /\ CFree' = CFree
  BY <1>1 DEF Requested, CFree
<1>3. AFree' = AFree
  BY <1>1, <1>2 DEF AFree
<1> QED
  BY <1>1, <1>2, <1>3 DEF Window, TmaFacts

\* The following lemmas say what a part of RingInv depends on: it is kept when
\* that does not change.
LEMMA MmaStill ==
  ASSUME UNCHANGED <<call, mmaVars>>
  PROVE  /\ UNCHANGED <<n, DkIssued, PSeen, DsSeen, OrderIssued, OrderSeen, DqFreeSeen, Ending>>
         /\ MmaFacts => MmaFacts'
         /\ \A op : Issued(op)' <=> Issued(op)
<1>1. n' = n /\ mmaPc' = mmaPc /\ mmaStep' = mmaStep /\ mmaScores' = mmaScores
  BY DEF n, mmaVars
<1>2. DkIssued' = DkIssued
  BY <1>1 DEF DkIssued, PastDk
<1>3. PSeen' = PSeen /\ DsSeen' = DsSeen /\ OrderIssued' = OrderIssued
  BY <1>1, <1>2 DEF PSeen, DsSeen, OrderIssued
<1>4. OrderSeen' = OrderSeen /\ DqFreeSeen' = DqFreeSeen
  BY <1>1 DEF OrderSeen, DqFreeSeen
<1>5. Ending' = Ending
  BY <1>1 DEF Ending
<1>6. \A op : Issued(op)' <=> Issued(op)
  BY <1>1, <1>2, <1>3, <1>5 DEF Issued
<1> QED
  BY <1>1, <1>2, <1>3, <1>4, <1>5, <1>6 DEF MmaFacts

\* One warpgroup.
LEMMA EwStill ==
  ASSUME UNCHANGED call, NEW e \in Ew, UNCHANGED <<ewPc[e], ewStep[e]>>
  PROVE  /\ \A pcs : Past(e, pcs)' = Past(e, pcs)
         /\ UNCHANGED <<AuxArrived[e], PArrived[e], DsArrived[e], LoadedBy[e], LoadedSeen(e),
                        DoneSeen(e)>>
         /\ EwFacts(e) => EwFacts(e)'
<1>1. \A pcs : Past(e, pcs)' = Past(e, pcs)
  BY DEF Past
<1>2. n' = n /\ Ew' = Ew
  BY DEF n, Ew
<1> QED
  BY <1>1, <1>2 DEF AuxArrived, PArrived, DsArrived, LoadedBy, LoadedSeen, DoneSeen, EwFacts, Meet

\* All warpgroups.
LEMMA EwAllStill ==
  ASSUME UNCHANGED <<call, ewVars>>
  PROVE  /\ \A e \in Ew : /\ \A pcs : Past(e, pcs)' = Past(e, pcs)
                          /\ UNCHANGED <<LoadedSeen(e), DoneSeen(e)>>
                          /\ EwFacts(e) => EwFacts(e)'
         /\ UNCHANGED <<AuxArrived, PArrived, DsArrived, LoadedBy>>
<1>1. \A e : Past(e, {"ready"})' = Past(e, {"ready"})
             /\ Past(e, {"store_ds", "ready"})' = Past(e, {"store_ds", "ready"})
             /\ Past(e, AfterLoad)' = Past(e, AfterLoad)
  BY DEF Past, ewVars, AfterLoad, AfterLoaded, AfterMask
<1>2. UNCHANGED <<AuxArrived, PArrived, DsArrived, LoadedBy>>
  BY <1>1 DEF AuxArrived, PArrived, DsArrived, LoadedBy, ewVars, Ew, Meet
<1> QED
  BY <1>2, EwStill DEF ewVars

\* The dQ writer.
LEMMA DqStill ==
  ASSUME UNCHANGED <<call, dqVars>>
  PROVE  /\ UNCHANGED <<DqSeen, DqFreed>>
         /\ DqFacts => DqFacts'
BY DEF dqVars, DqSeen, DqFreed, DqFacts, n

\* The tensor-core queue.
LEMMA QueueStill ==
  ASSUME UNCHANGED <<call, mmaVars, tc>>
  PROVE  /\ UNCHANGED Ops /\ \A name : UNCHANGED Queued(name)
         /\ (CFree' = CFree /\ Queue) => Queue'
         /\ Fifo => Fifo'
<1>1. Ops' = Ops
  BY DEF Ops, ToSet
<1>2. \A op : Key(op)' = Key(op)
  BY DEF Key
<1>3. \A name : UNCHANGED Queued(name)
  BY <1>1 DEF Queued
<1>4. Fifo => Fifo'
  <2>1. n' = n /\ \A op : Issued(op)' <=> Issued(op)
    BY MmaStill
  <2> QED
    BY <1>1, <1>2, <2>1 DEF Fifo, Commits
<1>5. CFree' = CFree /\ Queue => Queue'
  <2>1. CFree' = CFree => (\A op : Newest(op)' <=> Newest(op))
    BY MmaStill DEF Newest, mmaVars
  <2>2. Sorted => Sorted'
    BY <1>2 DEF Sorted
  <2> QED
    BY <1>1, <2>1, <2>2, MmaStill DEF Queue
<1> QED
  BY <1>1, <1>3, <1>4, <1>5

\* The steps that were signalled.
LEMMA RingFlagsStill ==
  ASSUME UNCHANGED <<call, copies, Requested, Ops, AuxArrived, mmaStep>>
  PROVE  \A s : /\ UNCHANGED <<HalfLoaded(s), AuxLeft(s)>>
                /\ QUp(s)' = QUp(s) /\ MaskUp(s)' = MaskUp(s)
                /\ ConsumedUp(s)' = ConsumedUp(s) /\ AuxUp(s)' = AuxUp(s)
<1>1. \A s : UNCHANGED HalfLoaded(s) /\ QUp(s)' = QUp(s) /\ MaskUp(s)' = MaskUp(s)
             /\ ConsumedUp(s)' = ConsumedUp(s)
  BY DEF HalfLoaded, QUp, MaskUp, ConsumedUp, InFlight
<1>2. \A s : AuxUp(s)' = AuxUp(s) /\ Ahead(s, AuxArrived)' = Ahead(s, AuxArrived)
  BY DEF AuxUp, Ahead, Ew
<1> QED
  BY <1>1, <1>2 DEF AuxLeft

\* The barriers of the rings.
LEMMA RingsStill ==
  ASSUME TypeOK, TmaFacts, Rings, RingBarriersStill,
         UNCHANGED <<call, copies, Requested, Ops, AuxArrived, mmaStep>>,
         UNCHANGED <<Window, CFree, mmaScores>>,
         \A e \in Ew : Past(e, AfterQ)' = Past(e, AfterQ) /\ Past(e, AfterMask)' = Past(e, AfterMask)
  PROVE  Rings'
<1> SUFFICES ASSUME NEW s \in Window
             PROVE  QRing(s)' /\ MaskRing(s)' /\ ConsumedRing(s)' /\ AuxRing(s)'
  BY DEF Rings
<1>1. QRing(s) /\ MaskRing(s) /\ ConsumedRing(s) /\ AuxRing(s)
  BY DEF Rings
<1>2. s \in Nat
  BY TmaProgress DEF Window
<1>3. \A f \in Families :
        /\ left'[Ring(f, s)] = left[Ring(f, s)]
        /\ \A w \in WaitersOf(Ring(f, s)) : Lag(w, Ring(f, s))' = Lag(w, Ring(f, s))
  BY <1>2 DEF RingBarriersStill
<1>4. \A f : Ring(f, s)' = Ring(f, s)
  BY DEF Ring
<1>5. QRing(s)'
  BY <1>1, <1>3, <1>4, RingFlagsStill, WaitersNamed DEF QRing, Families, Flag, Ew
<1>6. MaskRing(s)'
  BY <1>1, <1>3, <1>4, RingFlagsStill, WaitersNamed DEF MaskRing, Families, Flag, Ew
<1>7. ConsumedRing(s)'
  BY <1>1, <1>3, <1>4, RingFlagsStill, WaitersNamed DEF ConsumedRing, Families, Flag
<1>8. AuxRing(s)'
  BY <1>1, <1>3, <1>4, RingFlagsStill, WaitersNamed DEF AuxRing, Families, Flag
<1> QED
  BY <1>5, <1>6, <1>7, <1>8

\* One barrier of all warpgroups.
LEMMA MetStill ==
  ASSUME NEW name \in {"p_ready", "ds_ready", "loaded"}, NEW at, NEW at2, Met(name, at),
         at2 = at, SingleStill(name)
  PROVE  /\ \A e \in Ew : at2[e] \in {done'[Only(name)], done'[Only(name)] + 1}
         /\ left'[Only(name)] = NumEw - Cardinality(Ahead(done'[Only(name)], at2))
BY DEF Met, SingleStill

\* The barriers of all warpgroups.
LEMMA MeetingsStill ==
  ASSUME Meetings, UNCHANGED <<PArrived, DsArrived, LoadedBy>>,
         \A name \in {"p_ready", "ds_ready", "loaded"} : SingleStill(name)
  PROVE  Meetings'
BY MetStill DEF Meetings, Met, Ahead, Ew, Only

\* The copies in flight.
LEMMA FlightsStill ==
  ASSUME Flights, UNCHANGED <<call, copies, Requested, mmaScores>>,
         \A e \in Ew : Past(e, AfterQ)' = Past(e, AfterQ) /\ Past(e, AfterMask)' = Past(e, AfterMask)
  PROVE  Flights'
BY DEF Flights, KV, Only, Ew

\* The order of the threads.
LEMMA OrderStill ==
  ASSUME Order, UNCHANGED <<CFree, AFree, Requested, mmaStep, mmaScores, AuxArrived>>,
         \A e \in Ew : Past(e, AfterQ)' = Past(e, AfterQ)
  PROVE  Order'
BY DEF Order, Ew

\* Singles is kept where the barriers of their own are.
SingleKept(name) ==
  /\ name \in {"kv", "s_ready", "dq_ready", "dq_free", "done", "mma_order"}
       => left[Only(name)] = 1
  /\ \A w \in WaitersOf(Only(name)) : seen[w][Only(name)] <= done[Only(name)]

\* Singles, barrier by barrier.
LEMMA SinglesParts ==
  /\ Singles <=> \A name \in SingleNames : SingleKept(name)
  /\ Singles' <=> \A name \in SingleNames : SingleKept(name)'
<1>1. Singles <=> \A name \in SingleNames : SingleKept(name)
  BY NamesApart DEF Singles, SingleKept, SingleNames
<1>2. Singles' <=> (\A name \in SingleNames : SingleKept(name))'
  BY <1>1, PTL
<1> QED
  BY <1>1, <1>2 DEF SingleNames

\* One single barrier.
LEMMA KeptStill ==
  ASSUME NEW name \in SingleNames, SingleKept(name), SingleStill(name)
  PROVE  SingleKept(name)'
BY DEF SingleKept, SingleStill, WaitersOf, Only, Ew, Dq, Tma, Mma
-----------------------------------------------------------------------------
\* An arrival alone completes a phase of a barrier of its own; a wait finds
\* one phase more than it has observed.
LEMMA SingleArrived ==
  ASSUME FInv, NEW name \in {"kv", "s_ready", "dq_ready", "dq_free", "done", "mma_order"},
         ArriveOn(Only(name))
  PROVE  /\ done'[Only(name)] = done[Only(name)] + 1 /\ seen' = seen
         /\ Singles' /\ RingBarriersStill
         /\ \A other \in SingleNames \ {name} : SingleStill(other)
<1>1. BarTypeOK(Barriers, Waiters) /\ Singles /\ name \in SingleNames
  BY TypeParts DEF FInv, RingInv, SingleNames
<1>2. Only(name) \in Barriers /\ Arrivals[Only(name)] = 1
  BY <1>1, BarrierNames DEF SingleNames, Arrivals, Only
<1>3. left[Only(name)] = 1 /\ SingleKept(name)
  BY <1>1, SinglesParts DEF SingleKept
<1>4. /\ left'[Only(name)] = 1 /\ done'[Only(name)] = done[Only(name)] + 1 /\ seen' = seen
      /\ done[Only(name)] \in Nat
  BY <1>1, <1>2, <1>3, ArriveAt
<1>5. RingBarriersStill /\ \A other \in SingleNames \ {name} : SingleStill(other)
  BY <1>1, ArriveSingle
<1>6. \A w \in WaitersOf(Only(name)) : seen[w][Only(name)] \in Nat
  BY <1>1, <1>2, WaitersNamed, Threads DEF BarTypeOK, SingleNames, KV
<1>7. SingleKept(name)'
  BY <1>3, <1>4, <1>6 DEF SingleKept, WaitersOf, Only, Ew, Dq, Tma, Mma
<1>8. \A other \in SingleNames : SingleKept(other)'
  BY <1>1, <1>5, <1>7, KeptStill, SinglesParts
<1> QED
  BY <1>4, <1>5, <1>8, SinglesParts

\* A wait on a single barrier observes its last phase.
LEMMA SingleAwaited ==
  ASSUME FInv, NEW name \in SingleNames, NEW w \in WaitersOf(Only(name)), Await(w, Only(name))
  PROVE  /\ done[Only(name)] = seen[w][Only(name)] + 1
         /\ seen'[w][Only(name)] = seen[w][Only(name)] + 1
         /\ \A v \in Waiters \ {w} : seen'[v] = seen[v]
         /\ left' = left /\ done' = done
         /\ Singles' /\ RingBarriersStill
         /\ \A other \in SingleNames \ {name} : SingleStill(other)
<1>1. BarTypeOK(Barriers, Waiters) /\ Singles
  BY TypeParts DEF FInv, RingInv
<1>2. Only(name) \in Barriers /\ Only(name) \in SingleBarriers
  BY BarrierNames, NamesApart DEF SingleNames
<1>3. w \in Waiters
  BY WaitersNamed, Threads DEF SingleNames, KV
<1>4. Lag(w, Only(name)) \in {0, 1}
  BY <1>2, SingleLags
<1>5. /\ seen'[w][Only(name)] = seen[w][Only(name)] + 1 /\ Lag(w, Only(name)) = 1
      /\ \A v \in Waiters \ {w} : seen'[v] = seen[v]
      /\ left' = left /\ done' = done
      /\ seen[w][Only(name)] \in Nat /\ done[Only(name)] \in Nat
  BY <1>1, <1>2, <1>3, <1>4, AwaitAt
<1>6. done[Only(name)] = seen[w][Only(name)] + 1
  BY <1>5 DEF Lag
<1>7. RingBarriersStill /\ \A other \in SingleNames \ {name} : SingleStill(other)
  BY <1>1, <1>3, AwaitSingle
<1>8. SingleKept(name)'
  <2>1. SingleKept(name)
    BY <1>1, SinglesParts
  <2>2. \A v \in WaitersOf(Only(name)) : seen'[v][Only(name)] <= done'[Only(name)]
    <3>1. WaitersOf(Only(name)) \subseteq Waiters
      BY WaitersNamed, Threads DEF SingleNames, KV
    <3> QED
      BY <1>5, <1>6, <2>1, <3>1 DEF SingleKept
  <2> QED
    BY <1>5, <2>1, <2>2 DEF SingleKept, WaitersOf, Only, Ew, Dq, Tma, Mma
<1>9. \A other \in SingleNames : SingleKept(other)'
  BY <1>1, <1>7, <1>8, KeptStill, SinglesParts
<1> QED
  BY <1>5, <1>6, <1>7, <1>9, SinglesParts
-----------------------------------------------------------------------------
\* The dQ writer.
LEMMA DqRings == FInv /\ DqWriter => RingInv'
<1> SUFFICES ASSUME FInv, DqWriter PROVE RingInv'
  OBVIOUS
<1>1. /\ TypeOK /\ PcFacts /\ Queue /\ Fifo /\ Counts /\ Seen /\ Meetings /\ Singles /\ Rings
      /\ Flights /\ Order /\ TmaFacts /\ MmaFacts /\ DqFacts /\ \A e \in Ew : EwFacts(e)
  BY DEF FInv, RingInv, PcFacts
<1>2. UNCHANGED <<call, tmaVars, mmaVars, ewVars, copies, tc>>
  BY DEF DqWriter
<1>3. dqStep \in 0 .. n /\ n \in Nat
  BY <1>1, CallType DEF TypeOK
<1>4. UNCHANGED <<tmaPc, mmaPc, mmaStep, mmaScores, ewPc>> /\ n' = n
  BY <1>2 DEF tmaVars, mmaVars, ewVars, n
<1>5. Queue' /\ Fifo' /\ Flights' /\ Order'
  <2>1. UNCHANGED <<Requested, CFree, AFree, Window>>
    BY <1>2, TmaStill
  <2> QED
    BY <1>1, <1>2, <1>4, <2>1, EwAllStill, QueueStill, FlightsStill, OrderStill
<1>6. ASSUME RingBarriersStill, \A name \in {"p_ready", "ds_ready", "loaded"} : SingleStill(name)
      PROVE  Rings' /\ Meetings'
  <2>1. UNCHANGED <<Requested, CFree, AFree, Window>>
    BY <1>2, TmaStill
  <2>2. UNCHANGED Ops
    BY <1>2, QueueStill
  <2>3. Rings'
    BY <1>1, <1>2, <1>4, <1>6, <2>1, <2>2, EwAllStill, RingsStill
  <2> QED
    BY <1>1, <1>2, <1>6, <2>3, EwAllStill, MeetingsStill
<1>7. ASSUME DqFacts' PROVE PcFacts'
  BY <1>1, <1>2, <1>7, TmaStill, MmaStill, EwAllStill DEF PcFacts, Ew
<1>8. ASSUME \A name \in SingleNames \ {"dq_free"} : done'[Only(name)] = done[Only(name)],
             done'[Only("dq_free")] = DqFreed'
      PROVE  Counts'
  <2>1. \A name : UNCHANGED Queued(name)
    BY <1>2, QueueStill
  <2>2. UNCHANGED <<KvLanded, OrderIssued, Ending>>
    BY <1>2, <1>4, MmaStill DEF KvLanded, KV, Only
  <2> QED
    BY <1>1, <1>2, <1>4, <1>8, <2>1, <2>2 DEF Counts, SingleNames, KV, Only
<1>9. ASSUME \A w \in Waiters \ {Dq} : seen'[w] = seen[w],
             seen'[Dq][Only("dq_ready")] = DqSeen'
      PROVE  Seen'
  <2>1. seen'[Mma] = seen[Mma] /\ \A e \in Ew : seen'[e] = seen[e]
    BY <1>9, Threads
  <2>2. UNCHANGED <<PSeen, DsSeen, DqFreeSeen, OrderSeen>>
    BY <1>2, MmaStill
  <2>3. \A e \in Ew : UNCHANGED <<Past(e, AfterS), LoadedSeen(e), DoneSeen(e)>>
    BY <1>2, EwAllStill
  <2> QED
    BY <1>1, <1>4, <1>9, <2>1, <2>2, <2>3 DEF Seen, KV, Only, Ew, Mma, Dq
<1>10. CASE DqLoad /\ dqPc = "wait"
  <2>1. Await(Dq, Only("dq_ready")) /\ dqPc' = "load" /\ dqStep' = dqStep
    BY <1>10 DEF DqLoad
  <2>2. "dq_ready" \in SingleNames /\ Dq \in WaitersOf(Only("dq_ready"))
    BY WaitersNamed DEF SingleNames
  <2>3. DqFreed' = DqFreed /\ DqSeen' = DqSeen + 1 /\ DqFacts'
    BY <1>1, <1>3, <1>4, <1>10, <2>1 DEF DqFreed, DqSeen, DqFacts
  <2>4. /\ seen'[Dq][Only("dq_ready")] = seen[Dq][Only("dq_ready")] + 1
        /\ \A v \in Waiters \ {Dq} : seen'[v] = seen[v]
        /\ done' = done /\ Singles' /\ RingBarriersStill
        /\ \A other \in SingleNames \ {"dq_ready"} : SingleStill(other)
    BY <2>1, <2>2, SingleAwaited
  <2>5. Counts' /\ Seen'
    BY <1>1, <1>8, <1>9, <2>3, <2>4 DEF Counts, Seen
  <2>6. Rings' /\ Meetings'
    BY <1>6, <2>4 DEF SingleNames
  <2> QED
    BY <1>5, <1>7, <2>3, <2>4, <2>5, <2>6 DEF RingInv
<1>11. CASE DqLoad /\ dqPc = "load"
  <2>1. ArriveOn(Only("dq_free")) /\ dqPc' = "store" /\ dqStep' = dqStep
    BY <1>11 DEF DqLoad
  <2>3. DqFreed' = DqFreed + 1 /\ DqSeen' = DqSeen /\ DqFacts'
    BY <1>1, <1>3, <1>4, <1>11, <2>1 DEF DqFreed, DqSeen, DqFacts
  <2>4. /\ done'[Only("dq_free")] = done[Only("dq_free")] + 1 /\ seen' = seen
        /\ Singles' /\ RingBarriersStill
        /\ \A other \in SingleNames \ {"dq_free"} : SingleStill(other)
    BY <2>1, SingleArrived
  <2>5. Counts' /\ Seen'
    BY <1>1, <1>8, <1>9, <2>3, <2>4 DEF Counts, Seen, SingleStill
  <2>6. Rings' /\ Meetings'
    BY <1>6, <2>4 DEF SingleNames
  <2> QED
    BY <1>5, <1>7, <2>3, <2>4, <2>5, <2>6 DEF RingInv
<1>12. CASE DqStore \/ DqDrain
  <2>1. UNCHANGED barVars /\ (dqPc = "store" \/ dqPc = "drain")
    BY <1>12 DEF DqStore, DqDrain
  <2>2. DqFreed' = DqFreed /\ DqSeen' = DqSeen /\ DqFacts'
    <3>1. CASE DqStore
      BY <1>1, <1>3, <1>4, <3>1 DEF DqStore, DqFreed, DqSeen, DqFacts, DqTop
    <3>2. CASE DqDrain
      BY <1>1, <1>3, <1>4, <3>2 DEF DqDrain, DqFreed, DqSeen, DqFacts
    <3> QED
      BY <1>12, <3>1, <3>2
  <2>3. RingBarriersStill /\ \A name : SingleStill(name)
    BY <2>1 DEF barVars, RingBarriersStill, SingleStill, Lag
  <2>4. Singles'
    BY <1>1, <2>3, SinglesParts, KeptStill
  <2>5. Counts' /\ Seen'
    BY <1>1, <1>8, <1>9, <2>1, <2>2 DEF Counts, Seen, barVars
  <2> QED
    BY <1>5, <1>6, <1>7, <2>2, <2>3, <2>4, <2>5 DEF RingInv
<1> QED
  BY <1>10, <1>11, <1>12 DEF DqWriter, DqLoad
-----------------------------------------------------------------------------
\* Every warpgroup arrives on a barrier once per step: one more of them is
\* ahead, and the last one completes the phase.
LEMMA OneMoreAhead ==
  ASSUME NEW at \in [Ew -> Nat], NEW e \in Ew, NEW k \in Nat, at[e] = k,
         NEW at2, at2[e] = k + 1, \A f \in Ew \ {e} : at2[f] = at[f]
  PROVE  /\ Cardinality(Ahead(k, at)) \in 0 .. NumEw - 1
         /\ Cardinality(Ahead(k, at2)) = Cardinality(Ahead(k, at)) + 1
         /\ Cardinality(Ahead(k, at)) = NumEw - 1 <=> \A f \in Ew : at2[f] > k
<1>1. IsFiniteSet(Ew) /\ Cardinality(Ew) = NumEw
  BY FS_Interval DEF Ew
<1>2. /\ Ahead(k, at) \subseteq Ew /\ e \notin Ahead(k, at)
      /\ Ahead(k, at2) = Ahead(k, at) \cup {e}
  BY DEF Ahead
<1>3. IsFiniteSet(Ahead(k, at)) /\ Cardinality(Ahead(k, at)) \in Nat
  BY <1>1, <1>2, FS_Subset, FS_CardinalityType
<1>4. Cardinality(Ahead(k, at2)) = Cardinality(Ahead(k, at)) + 1
  <2>1. Cardinality(Ahead(k, at) \cup {e}) = Cardinality(Ahead(k, at)) + 1
    BY <1>2, <1>3, FS_AddElement, Zenon
  <2> QED
    BY <1>2, <2>1
<1>5. IsFiniteSet(Ew \ {e}) /\ Cardinality(Ew \ {e}) = NumEw - 1
  BY <1>1, FS_RemoveElement
<1>6. Ahead(k, at) \subseteq Ew \ {e}
  BY <1>2
<1>7. Cardinality(Ahead(k, at)) <= NumEw - 1
  BY <1>5, <1>6, FS_Subset
<1>8. ASSUME Cardinality(Ahead(k, at)) = NumEw - 1, NEW f \in Ew PROVE at2[f] > k
  <2>1. Ahead(k, at) = Ew \ {e}
    BY <1>5, <1>6, <1>8, FS_Subset
  <2> QED
    BY <2>1 DEF Ahead
<1>9. ASSUME \A f \in Ew : at2[f] > k PROVE Cardinality(Ahead(k, at)) = NumEw - 1
  <2>1. Ahead(k, at) = Ew \ {e}
    BY <1>2, <1>9 DEF Ahead
  <2> QED
    BY <1>5, <2>1
<1> QED
  BY <1>3, <1>4, <1>7, <1>8, <1>9

\* The arrival of one warpgroup on a barrier of all of them.
LEMMA MetArrived ==
  ASSUME BarTypeOK(Barriers, Waiters), NEW name \in {"p_ready", "ds_ready", "loaded"},
         NEW at \in [Ew -> Nat], Met(name, at), NEW e \in Ew, at[e] <= done[Only(name)],
         NEW at2, at2[e] = at[e] + 1, \A f \in Ew \ {e} : at2[f] = at[f],
         ArriveOn(Only(name))
  PROVE  /\ \A f \in Ew : at2[f] \in {done'[Only(name)], done'[Only(name)] + 1}
         /\ left'[Only(name)] = NumEw - Cardinality(Ahead(done'[Only(name)], at2))
         /\ done'[Only(name)] >= done[Only(name)]
<1>1. Only(name) \in Barriers /\ Arrivals[Only(name)] = NumEw
  BY BarrierNames DEF Arrivals, Only
<1>2. PICK k \in Nat : k = done[Only(name)]
  BY <1>1, ArriveAt
<1>3. /\ left[Only(name)] = 1 => left'[Only(name)] = NumEw /\ done'[Only(name)] = k + 1
      /\ left[Only(name)] # 1 => left'[Only(name)] = left[Only(name)] - 1 /\ done'[Only(name)] = k
  BY <1>1, <1>2, ArriveAt
<1>4. /\ \A f \in Ew : at[f] \in {k, k + 1}
      /\ left[Only(name)] = NumEw - Cardinality(Ahead(k, at))
  BY <1>2 DEF Met
<1>5. at[e] = k
  BY <1>2, <1>4
<1>6. at2[e] = k + 1 /\ \A f \in Ew \ {e} : at2[f] = at[f]
  BY <1>5
<1>7. /\ Cardinality(Ahead(k, at)) \in 0 .. NumEw - 1
      /\ Cardinality(Ahead(k, at2)) = Cardinality(Ahead(k, at)) + 1
      /\ Cardinality(Ahead(k, at)) = NumEw - 1 => \A f \in Ew : at2[f] > k
  <2>1. Cardinality(Ahead(k, at)) \in 0 .. NumEw - 1
    BY <1>5, <1>6, OneMoreAhead
  <2>2. Cardinality(Ahead(k, at2)) = Cardinality(Ahead(k, at)) + 1
    BY <1>5, <1>6, OneMoreAhead
  <2>3. Cardinality(Ahead(k, at)) = NumEw - 1 <=> \A f \in Ew : at2[f] > k
    BY <1>5, <1>6, OneMoreAhead
  <2> QED
    BY <2>1, <2>2, <2>3
<1>8. \A f \in Ew : at2[f] \in {k, k + 1}
  BY <1>4, <1>6
<1>9. CASE left[Only(name)] = 1
  <2>1. \A f \in Ew : at2[f] = k + 1
    <3>1. Cardinality(Ahead(k, at)) = NumEw - 1
      BY <1>4, <1>7, <1>9
    <3> QED
      BY <1>7, <1>8, <3>1
  <2>2. Cardinality(Ahead(k + 1, at2)) = 0
    <3>1. Ahead(k + 1, at2) = {}
      BY <2>1 DEF Ahead
    <3> QED
      BY <3>1, FS_EmptySet
  <2> QED
    BY <1>2, <1>3, <1>9, <2>1, <2>2
<1>10. CASE left[Only(name)] # 1
  BY <1>2, <1>3, <1>4, <1>7, <1>8, <1>10
<1> QED
  BY <1>9, <1>10
-----------------------------------------------------------------------------
\* An elementwise warpgroup.
LEMMA EwAlone ==
  ASSUME NEW e \in Ew, ElementwiseWg(e), TypeOK
  PROVE  /\ \A f \in Ew \ {e} : ewPc'[f] = ewPc[f] /\ ewStep'[f] = ewStep[f]
         /\ UNCHANGED <<call, tmaVars, mmaVars, dqVars, copies, tc>>
         /\ \E next : ewPc' = [ewPc EXCEPT ![e] = next]
         /\ ewPc[e] # "ready" => ewStep' = ewStep
<1>1. \E next : ewPc' = [ewPc EXCEPT ![e] = next]
  BY DEF ElementwiseWg, EwAwait, EwLoad, EwStoreP, EwStoreDs, EwArriveReady, EwWrite, EwGo
<1>2. ewStep' = ewStep \/ (ewPc[e] = "ready" /\ ewStep' = [ewStep EXCEPT ![e] = @ + 1])
  BY DEF ElementwiseWg, EwAwait, EwLoad, EwStoreP, EwStoreDs, EwArriveReady, EwWrite, EwGo
<1>3. DOMAIN ewPc = Ew /\ DOMAIN ewStep = Ew
  BY DEF TypeOK
<1> QED
  BY <1>1, <1>2, <1>3 DEF ElementwiseWg

\* The places of the others stay, and those of all if those of e do.
LEMMA EwOthers ==
  ASSUME NEW e \in Ew, UNCHANGED call,
         \A f \in Ew \ {e} : ewPc'[f] = ewPc[f] /\ ewStep'[f] = ewStep[f]
  PROVE  /\ \A f \in Ew \ {e} :
              /\ \A pcs : Past(f, pcs)' = Past(f, pcs)
              /\ UNCHANGED <<LoadedSeen(f), DoneSeen(f), AuxArrived[f], PArrived[f], DsArrived[f],
                             LoadedBy[f]>>
              /\ EwFacts(f) => EwFacts(f)'
         /\ AuxArrived'[e] = AuxArrived[e] => AuxArrived' = AuxArrived
         /\ PArrived'[e] = PArrived[e] => PArrived' = PArrived
         /\ DsArrived'[e] = DsArrived[e] => DsArrived' = DsArrived
         /\ LoadedBy'[e] = LoadedBy[e] => LoadedBy' = LoadedBy
<1>1. \A f \in Ew \ {e} :
        /\ \A pcs : Past(f, pcs)' = Past(f, pcs)
        /\ UNCHANGED <<LoadedSeen(f), DoneSeen(f), AuxArrived[f], PArrived[f], DsArrived[f],
                       LoadedBy[f]>>
        /\ EwFacts(f) => EwFacts(f)'
  BY EwStill
<1>2. Ew' = Ew
  BY DEF Ew
<1>3. /\ AuxArrived' = [f \in Ew |-> AuxArrived'[f]] /\ AuxArrived = [f \in Ew |-> AuxArrived[f]]
      /\ PArrived' = [f \in Ew |-> PArrived'[f]] /\ PArrived = [f \in Ew |-> PArrived[f]]
      /\ DsArrived' = [f \in Ew |-> DsArrived'[f]] /\ DsArrived = [f \in Ew |-> DsArrived[f]]
      /\ LoadedBy' = [f \in Ew |-> LoadedBy'[f]] /\ LoadedBy = [f \in Ew |-> LoadedBy[f]]
  BY <1>2 DEF AuxArrived, PArrived, DsArrived, LoadedBy
<1>4. AuxArrived'[e] = AuxArrived[e] => AuxArrived' = AuxArrived
  BY <1>1, <1>3
<1>5. PArrived'[e] = PArrived[e] => PArrived' = PArrived
  BY <1>1, <1>3
<1>6. DsArrived'[e] = DsArrived[e] => DsArrived' = DsArrived
  BY <1>1, <1>3
<1>7. LoadedBy'[e] = LoadedBy[e] => LoadedBy' = LoadedBy
  BY <1>1, <1>3
<1> QED
  BY <1>1, <1>4, <1>5, <1>6, <1>7

\* What is left of RingInv to prove for a step of a warpgroup.
LEMMA EwFrame ==
  ASSUME FInv, NEW e \in Ew, ElementwiseWg(e), EwFacts(e)',
         Rings', Flights', Order', Meetings', Singles',
         \A name \in {"kv", "s_ready", "dq_ready", "dq_free", "done", "mma_order"} :
           done'[Only(name)] = done[Only(name)],
         \A w \in Waiters \ {e} : seen'[w] = seen[w],
         /\ seen'[e][KV] = IF ewPc'[e] = "kv" THEN 0 ELSE 1
         /\ seen'[e][Only("s_ready")] = Past(e, AfterS)'
         /\ seen'[e][Only("loaded")] = LoadedSeen(e)'
         /\ seen'[e][Only("done")] = DoneSeen(e)'
  PROVE  RingInv'
<1>1. /\ TypeOK /\ PcFacts /\ Queue /\ Fifo /\ Counts /\ Seen
      /\ TmaFacts /\ MmaFacts /\ DqFacts /\ \A f \in Ew : EwFacts(f)
  BY DEF FInv, RingInv, PcFacts
<1>2. /\ \A f \in Ew \ {e} : ewPc'[f] = ewPc[f] /\ ewStep'[f] = ewStep[f]
      /\ UNCHANGED <<call, tmaVars, mmaVars, dqVars, copies, tc>>
  BY <1>1, EwAlone
<1>3. UNCHANGED <<tmaPc, mmaPc, mmaStep, mmaScores>>
  BY <1>2 DEF tmaVars, mmaVars
<1>4. PcFacts'
  <2>1. \A f \in Ew \ {e} : EwFacts(f)'
    BY <1>1, <1>2, EwOthers
  <2>2. TmaFacts' /\ MmaFacts' /\ DqFacts'
    BY <1>1, <1>2, TmaStill, MmaStill, DqStill
  <2> QED
    BY <2>1, <2>2 DEF PcFacts, Ew
<1>5. Queue' /\ Fifo' /\ \A name : UNCHANGED Queued(name)
  <2>1. UNCHANGED <<call, mmaVars, tc>>
    BY <1>2
  <2>2. Queue'
    BY <1>1, <1>2, <2>1, QueueStill, TmaStill
  <2>3. Fifo'
    BY <1>1, <2>1, QueueStill
  <2>4. \A name : UNCHANGED Queued(name)
    BY <2>1, QueueStill
  <2> QED
    BY <2>2, <2>3, <2>4
<1>6. Counts'
  <2>1. UNCHANGED <<KvLanded, OrderIssued, Ending, DqFreed>>
    BY <1>2, <1>3, MmaStill, DqStill DEF KvLanded, KV, Only
  <2> QED
    BY <1>1, <1>2, <1>3, <1>5, <2>1 DEF Counts, KV, Only
<1>7. Seen'
  <2>1. seen'[Mma] = seen[Mma] /\ seen'[Dq] = seen[Dq] /\ \A f \in Ew \ {e} : seen'[f] = seen[f]
    BY Threads
  <2>2. UNCHANGED <<PSeen, DsSeen, DqFreeSeen, OrderSeen, DqSeen>>
    BY <1>2, MmaStill, DqStill
  <2>3. \A f \in Ew \ {e} : /\ Past(f, AfterS)' = Past(f, AfterS)
                            /\ UNCHANGED <<LoadedSeen(f), DoneSeen(f)>>
    BY <1>2, EwOthers
  <2>4. \A f \in Ew \ {e} :
           /\ seen'[f][KV] = IF ewPc'[f] = "kv" THEN 0 ELSE 1
           /\ seen'[f][Only("s_ready")] = Past(f, AfterS)'
           /\ seen'[f][Only("loaded")] = LoadedSeen(f)'
           /\ seen'[f][Only("done")] = DoneSeen(f)'
    BY <1>1, <1>2, <2>1, <2>3 DEF Seen
  <2>5. /\ seen'[Mma][KV] = IF mmaPc' = "kv" THEN 0 ELSE 1
        /\ seen'[Mma][Only("p_ready")] = PSeen'
        /\ seen'[Mma][Only("ds_ready")] = DsSeen'
        /\ seen'[Mma][Only("dq_free")] = DqFreeSeen'
        /\ seen'[Mma][Only("mma_order")] = OrderSeen'
        /\ seen'[Dq][Only("dq_ready")] = DqSeen'
    BY <1>1, <1>3, <2>1, <2>2 DEF Seen
  <2> QED
    BY <2>4, <2>5 DEF Seen, KV, Only, Ew, Mma, Dq
<1> QED
  BY <1>4, <1>5, <1>6, <1>7 DEF RingInv

\* A warpgroup that passes no ring, or that skips the mask of a step without.
LEMMA EwOffRings ==
  ASSUME FInv, NEW e \in Ew, ElementwiseWg(e), RingBarriersStill,
         AuxArrived'[e] = AuxArrived[e], Past(e, AfterQ)' = Past(e, AfterQ),
         \/ Past(e, AfterMask)' = Past(e, AfterMask)
         \/ /\ Past(e, AfterMask) = ewStep[e] /\ Past(e, AfterMask)' = ewStep[e] + 1
            /\ ewStep[e] \notin call.partial
  PROVE  Rings' /\ Flights' /\ Order'
<1>1. /\ TypeOK /\ TmaFacts /\ Rings /\ Flights /\ Order
  BY DEF FInv, RingInv, PcFacts
<1>2. /\ \A f \in Ew \ {e} : ewPc'[f] = ewPc[f] /\ ewStep'[f] = ewStep[f]
      /\ UNCHANGED <<call, tmaVars, mmaVars, copies, tc>>
  BY <1>1, EwAlone
<1>3. UNCHANGED <<mmaStep, mmaScores, Requested, CFree, AFree, Window, Ops>>
  BY <1>2, TmaStill, QueueStill DEF mmaVars
<1>4. /\ AuxArrived' = AuxArrived
      /\ \A f \in Ew : Past(f, AfterQ)' = Past(f, AfterQ)
      /\ \A f \in Ew \ {e} : Past(f, AfterMask)' = Past(f, AfterMask)
  BY <1>2, EwOthers
<1>5. ewStep[e] \in Nat
  BY <1>1, CallType DEF TypeOK
<1>6. Order'
  BY <1>1, <1>3, <1>4, OrderStill
<1>7. Flights'
  <2> SUFFICES ASSUME NEW c \in copies \ {KV}
               PROVE  /\ c[2] < Requested
                      /\ c[1] \in {"q_do", "row"} =>
                           mmaScores <= c[2] /\ \A f \in Ew : Past(f, AfterQ)' <= c[2]
                      /\ c[1] = "mask" =>
                           c[2] \in call.partial /\ \A f \in Ew : Past(f, AfterMask)' <= c[2]
    BY <1>2, <1>3 DEF Flights, KV, Only, Ew
  <2>1. /\ c[2] < Requested
        /\ c[1] \in {"q_do", "row"} =>
             mmaScores <= c[2] /\ \A f \in Ew : Past(f, AfterQ) <= c[2]
        /\ c[1] = "mask" => c[2] \in call.partial /\ \A f \in Ew : Past(f, AfterMask) <= c[2]
    BY <1>1 DEF Flights
  <2>2. c[2] \in Nat
    BY <1>1 DEF TypeOK
  <2>3. ASSUME c[1] = "mask" PROVE Past(e, AfterMask)' <= c[2]
    BY <1>5, <2>1, <2>2, <2>3
  <2> QED
    BY <1>4, <2>1, <2>3
<1>8. Rings'
  <2> SUFFICES ASSUME NEW s \in Window
               PROVE  QRing(s)' /\ MaskRing(s)' /\ ConsumedRing(s)' /\ AuxRing(s)'
    BY <1>3 DEF Rings
  <2>1. QRing(s) /\ MaskRing(s) /\ ConsumedRing(s) /\ AuxRing(s)
    BY <1>1 DEF Rings
  <2>2. s \in Nat
    BY <1>1, TmaProgress DEF Window
  <2>3. \A f \in Families :
          /\ left'[Ring(f, s)] = left[Ring(f, s)]
          /\ \A w \in WaitersOf(Ring(f, s)) : Lag(w, Ring(f, s))' = Lag(w, Ring(f, s))
    BY <2>2 DEF RingBarriersStill
  <2>4. /\ UNCHANGED <<HalfLoaded(s), AuxLeft(s)>>
        /\ QUp(s)' = QUp(s) /\ MaskUp(s)' = MaskUp(s)
        /\ ConsumedUp(s)' = ConsumedUp(s) /\ AuxUp(s)' = AuxUp(s)
    BY <1>2, <1>3, <1>4, RingFlagsStill
  <2>5. QRing(s)'
    BY <1>3, <1>4, <2>1, <2>3, <2>4, WaitersNamed DEF QRing, Families, Flag, Ew, Ring, Lag, Mma
  <2>6. MaskRing(s)'
    <3>1. ASSUME NEW f \in Ew
          PROVE  Flag(s >= Past(f, AfterMask)' /\ MaskUp(s)) = Flag(s >= Past(f, AfterMask) /\ MaskUp(s))
      <4>1. CASE Past(f, AfterMask)' = Past(f, AfterMask)
        BY <4>1
      <4>2. CASE ~(Past(f, AfterMask)' = Past(f, AfterMask))
        <5>1. f = e /\ Past(f, AfterMask) = ewStep[e] /\ Past(f, AfterMask)' = ewStep[e] + 1
              /\ ewStep[e] \notin call.partial
          BY <1>4, <4>2
        <5>2. MaskUp(s) => s # ewStep[e]
          BY <5>1 DEF MaskUp
        <5> QED
          BY <1>5, <2>2, <5>1, <5>2 DEF Flag
      <4> QED
        BY <4>1, <4>2
    <3> QED
      BY <2>1, <2>3, <2>4, <3>1, WaitersNamed DEF MaskRing, Families, Flag, Ew, Ring, Lag
  <2>7. ConsumedRing(s)'
    BY <1>3, <2>1, <2>3, <2>4, WaitersNamed DEF ConsumedRing, Families, Flag, Ring, Lag, Tma
  <2>8. AuxRing(s)'
    BY <2>1, <2>3, <2>4, WaitersNamed DEF AuxRing, Families, Flag, Ring, Lag, Tma
  <2> QED
    BY <2>5, <2>6, <2>7, <2>8
<1> QED
  BY <1>6, <1>7, <1>8

\* Where an action takes the warpgroup.
LEMMA EwFactsKept ==
  ASSUME FInv, NEW e \in Ew, ElementwiseWg(e)
  PROVE  /\ EwFacts(e)'
         /\ ewPc[e] = "kv" => ewPc'[e] \in {"q", "done", "write"} /\ ewStep[e] = 0
         /\ ewPc[e] = "ready" => ewPc'[e] \in {"q", "done", "write"}
<1>1. /\ TypeOK /\ EwFacts(e) /\ call \in Calls /\ n \in Nat /\ ewStep[e] \in 0 .. n
  BY FInvParts
<1>2. DOMAIN ewPc = Ew /\ DOMAIN ewStep = Ew /\ call' = call /\ n' = n
  BY <1>1, EwAlone DEF TypeOK, n
<1>3. CASE EwAwait(e)
  <2>1. ewStep' = ewStep
    BY <1>3 DEF EwAwait
  <2>2. CASE ewPc[e] = "kv" /\ ewPc'[e] = EwTop(0)
    BY <1>1, <1>2, <2>1, <2>2 DEF EwFacts, EwTop, AfterQ, AfterS, AfterLoad, AfterLoaded, AfterMask
  <2>3. CASE ewPc[e] = "q" /\ ewPc'[e] = "s"
    BY <1>1, <1>2, <2>1, <2>3 DEF EwFacts, AfterQ, AfterS, AfterLoad, AfterLoaded, AfterMask
  <2>4. CASE ewPc[e] = "s" /\ ewPc'[e] = "load"
    BY <1>1, <1>2, <2>1, <2>4 DEF EwFacts, AfterQ, AfterS, AfterLoad, AfterLoaded, AfterMask
  <2>5. CASE ewPc[e] = "loaded" /\ ewPc'[e] = MathPc(ewStep[e])
    BY <1>1, <1>2, <2>1, <2>5
       DEF EwFacts, MathPc, StorePc, AfterQ, AfterS, AfterLoad, AfterLoaded, AfterMask
  <2>6. CASE ewPc[e] = "mask" /\ ewPc'[e] = StorePc
    BY <1>1, <1>2, <2>1, <2>6
       DEF EwFacts, StorePc, AfterQ, AfterS, AfterLoad, AfterLoaded, AfterMask
  <2>7. CASE ewPc[e] = "done" /\ ewPc'[e] = "write"
    BY <1>1, <1>2, <2>1, <2>7 DEF EwFacts, AfterQ, AfterS, AfterLoad, AfterLoaded, AfterMask
  <2> QED
    BY <1>2, <1>3, <2>2, <2>3, <2>4, <2>5, <2>6, <2>7 DEF EwAwait, EwGo
<1>4. CASE EwLoad(e)
  <2>1. ewStep' = ewStep /\ ewPc[e] = "load"
    BY <1>4 DEF EwLoad, EwGo
  <2>2. IF Meet THEN ewPc'[e] = "loaded" ELSE ewPc'[e] = MathPc(ewStep[e])
    BY <1>2, <1>4 DEF EwLoad, EwGo
  <2> QED
    BY <1>1, <1>2, <2>1, <2>2
       DEF EwFacts, MathPc, StorePc, AfterQ, AfterS, AfterLoad, AfterLoaded, AfterMask, Meet
<1>5. CASE EwStoreP(e)
  <2>1. ewStep' = ewStep /\ ewPc[e] = "store_p" /\ ewPc'[e] = "store_ds"
    BY <1>2, <1>5 DEF EwStoreP, EwGo
  <2> QED
    BY <1>1, <1>2, <2>1 DEF EwFacts, AfterQ, AfterS, AfterLoad, AfterLoaded, AfterMask
<1>6. CASE EwStoreDs(e)
  <2>1. ewStep' = ewStep /\ ewPc[e] = "store_ds" /\ ewPc'[e] = "ready"
    BY <1>2, <1>6 DEF EwStoreDs, EwGo
  <2> QED
    BY <1>1, <1>2, <2>1 DEF EwFacts, AfterQ, AfterS, AfterLoad, AfterLoaded, AfterMask
<1>7. CASE EwArriveReady(e)
  <2>1. /\ ewStep'[e] = ewStep[e] + 1 /\ ewPc[e] = "ready" /\ ewPc'[e] = EwTop(ewStep[e] + 1)
    BY <1>2, <1>7 DEF EwArriveReady, EwGo
  <2>2. ewStep[e] < n
    BY <1>1, <2>1 DEF EwFacts, AfterQ, AfterS, AfterLoad, AfterLoaded, AfterMask
  <2> QED
    BY <1>1, <1>2, <2>1, <2>2
       DEF EwFacts, EwTop, AfterQ, AfterS, AfterLoad, AfterLoaded, AfterMask
<1>8. CASE EwWrite(e)
  <2>1. ewStep' = ewStep /\ ewPc[e] = "write" /\ ewPc'[e] = "exit"
    BY <1>2, <1>8 DEF EwWrite, EwGo
  <2> QED
    BY <1>1, <1>2, <2>1 DEF EwFacts, AfterQ, AfterS, AfterLoad, AfterLoaded, AfterMask
<1> QED
  BY <1>3, <1>4, <1>5, <1>6, <1>7, <1>8 DEF ElementwiseWg

\* The waits for barriers of their own.
LEMMA EwAwaitsSingle ==
  ASSUME FInv, NEW e \in Ew, ElementwiseWg(e),
         NEW name \in {"kv", "s_ready", "loaded", "done"}, Await(e, Only(name)),
         UNCHANGED <<AuxArrived[e], PArrived[e], DsArrived[e], LoadedBy[e], Past(e, AfterQ)>>,
         \/ Past(e, AfterMask)' = Past(e, AfterMask)
         \/ /\ Past(e, AfterMask) = ewStep[e] /\ Past(e, AfterMask)' = ewStep[e] + 1
            /\ ewStep[e] \notin call.partial,
         (ewPc[e] = "kv" /\ ewPc'[e] # "kv") <=> name = "kv", ewPc'[e] # "kv",
         Past(e, AfterS)' = Past(e, AfterS) + Flag(name = "s_ready"),
         LoadedSeen(e)' = LoadedSeen(e) + Flag(name = "loaded"),
         DoneSeen(e)' = DoneSeen(e) + Flag(name = "done")
  PROVE  RingInv'
<1>1. /\ TypeOK /\ Seen /\ Meetings /\ EwFacts(e)
  BY DEF FInv, RingInv, PcFacts
<1>2. name \in SingleNames /\ e \in WaitersOf(Only(name)) /\ e \in Waiters
  BY WaitersNamed, Threads DEF SingleNames, KV
<1>3. /\ seen'[e][Only(name)] = seen[e][Only(name)] + 1
      /\ \A v \in Waiters \ {e} : seen'[v] = seen[v]
      /\ done' = done /\ Singles' /\ RingBarriersStill
      /\ \A other \in SingleNames \ {name} : SingleStill(other)
  BY <1>2, SingleAwaited
<1>4. /\ \A f \in Ew \ {e} : ewPc'[f] = ewPc[f] /\ ewStep'[f] = ewStep[f]
      /\ UNCHANGED call
  BY <1>1, EwAlone
<1>5. Rings' /\ Flights' /\ Order'
  BY <1>3, EwOffRings
<1>6. Meetings'
  <2>1. UNCHANGED <<PArrived, DsArrived, LoadedBy>>
    BY <1>4, EwOthers
  <2>2. \A other \in {"p_ready", "ds_ready"} : SingleStill(other)
    BY <1>3 DEF SingleNames
  <2>3. done' = done /\ left' = left
    BY <1>2, SingleAwaited
  <2> QED
    BY <1>1, <2>1, <2>3 DEF Meetings, Met, Ahead, Ew, Only
<1>7. EwFacts(e)'
  BY EwFactsKept
<1>8. \A other \in {"kv", "s_ready", "loaded", "done"} \ {name} :
        seen'[e][Only(other)] = seen[e][Only(other)]
  <2>1. \A other \in {"kv", "s_ready", "loaded", "done"} :
          other \in SingleNames /\ e \in WaitersOf(Only(other))
    BY WaitersNamed DEF SingleNames, KV
  <2> QED
    BY <1>3, <2>1 DEF SingleStill
<1>9. /\ seen[e][KV] = IF ewPc[e] = "kv" THEN 0 ELSE 1
      /\ seen[e][Only("s_ready")] = Past(e, AfterS)
      /\ seen[e][Only("loaded")] = LoadedSeen(e)
      /\ seen[e][Only("done")] = DoneSeen(e)
  BY <1>1 DEF Seen
<1>10. Past(e, AfterS) \in Nat /\ LoadedSeen(e) \in Nat /\ DoneSeen(e) \in Nat
  BY <1>1, EwProgress
<1>11. /\ seen'[e][KV] = IF ewPc'[e] = "kv" THEN 0 ELSE 1
       /\ seen'[e][Only("s_ready")] = Past(e, AfterS)'
       /\ seen'[e][Only("loaded")] = LoadedSeen(e)'
       /\ seen'[e][Only("done")] = DoneSeen(e)'
  <2>1. CASE name = "kv"
    BY <1>3, <1>8, <1>9, <1>10, <2>1 DEF Flag, KV
  <2>2. CASE name = "s_ready"
    BY <1>3, <1>8, <1>9, <1>10, <2>2 DEF Flag, KV
  <2>3. CASE name = "loaded"
    BY <1>3, <1>8, <1>9, <1>10, <2>3 DEF Flag, KV
  <2>4. CASE name = "done"
    BY <1>3, <1>8, <1>9, <1>10, <2>4 DEF Flag, KV
  <2> QED
    BY <2>1, <2>2, <2>3, <2>4
<1> QED
  BY <1>3, <1>5, <1>6, <1>7, <1>11, EwFrame

\* The waits of a warpgroup on single barriers.
LEMMA EwWaits ==
  ASSUME FInv, NEW e \in Ew, ElementwiseWg(e), EwAwait(e), ewPc[e] \notin {"q", "mask"}
  PROVE  RingInv'
<1> DEFINE t == ewStep[e]
<1>1. /\ TypeOK /\ EwFacts(e) /\ t \in Nat /\ n \in Nat
  BY FInvParts
<1>2. /\ ewStep' = ewStep /\ call' = call /\ n' = n /\ DOMAIN ewPc = Ew /\ Ew' = Ew
  BY <1>1, EwAlone DEF EwAwait, TypeOK, n, Ew
<1>3. CASE ewPc[e] = "kv" /\ Await(e, KV)
  <2>1. ewPc'[e] \in {"q", "done", "write"} /\ t = 0 /\ (ewPc'[e] = "write" => n = 0)
    <3>1. ewPc'[e] = EwTop(0)
      BY <1>2, <1>3 DEF EwAwait, EwGo
    <3> QED
      BY <1>1, <1>3, <3>1, EwFactsKept DEF EwTop
  <2>2. UNCHANGED <<AuxArrived[e], PArrived[e], DsArrived[e], LoadedBy[e], LoadedSeen(e)>>
        /\ Past(e, AfterQ)' = Past(e, AfterQ) /\ Past(e, AfterMask)' = Past(e, AfterMask)
        /\ Past(e, AfterS)' = Past(e, AfterS)
    BY <1>2, <1>3, <2>1 DEF AuxArrived, PArrived, DsArrived, LoadedBy, LoadedSeen, Past, Meet,
       AfterQ, AfterS, AfterLoad, AfterLoaded, AfterMask
  <2>3. DoneSeen(e)' = DoneSeen(e)
    BY <1>1, <1>2, <1>3, <2>1 DEF DoneSeen, EwTop
  <2>4. Past(e, AfterS) \in Nat /\ LoadedSeen(e) \in Nat /\ DoneSeen(e) \in Nat
    BY <1>1, EwProgress
  <2>5. /\ Past(e, AfterS)' = Past(e, AfterS) + Flag("kv" = "s_ready")
        /\ LoadedSeen(e)' = LoadedSeen(e) + Flag("kv" = "loaded")
        /\ DoneSeen(e)' = DoneSeen(e) + Flag("kv" = "done")
    BY <2>2, <2>3, <2>4 DEF Flag
  <2>6. Await(e, Only("kv")) /\ (ewPc[e] = "kv" /\ ewPc'[e] # "kv")
    BY <1>3, <2>1 DEF KV
  <2> QED
    BY <2>2, <2>5, <2>6, EwAwaitsSingle
<1>4. CASE ewPc[e] = "s" /\ Await(e, Only("s_ready"))
  <2>1. ewPc'[e] = "load"
    BY <1>2, <1>4 DEF EwAwait, EwGo
  <2>2. UNCHANGED <<AuxArrived[e], PArrived[e], DsArrived[e], LoadedBy[e], LoadedSeen(e), DoneSeen(e)>>
        /\ Past(e, AfterQ)' = Past(e, AfterQ) /\ Past(e, AfterMask)' = Past(e, AfterMask)
        /\ Past(e, AfterS) = t /\ Past(e, AfterS)' = t + 1
    BY <1>2, <1>4, <2>1 DEF AuxArrived, PArrived, DsArrived, LoadedBy, LoadedSeen, DoneSeen, Past, Meet,
       AfterQ, AfterS, AfterLoad, AfterLoaded, AfterMask
  <2>4. LoadedSeen(e) \in Nat /\ DoneSeen(e) \in Nat
    BY <1>1, EwProgress
  <2>5. /\ Past(e, AfterS)' = Past(e, AfterS) + Flag("s_ready" = "s_ready")
        /\ LoadedSeen(e)' = LoadedSeen(e) + Flag("s_ready" = "loaded")
        /\ DoneSeen(e)' = DoneSeen(e) + Flag("s_ready" = "done")
    BY <1>1, <2>2, <2>4 DEF Flag
  <2> QED
    BY <1>4, <2>1, <2>2, <2>5, EwAwaitsSingle
<1>5. CASE ewPc[e] = "loaded" /\ Await(e, Only("loaded"))
  <2>1. ewPc'[e] = MathPc(t) /\ Meet
    BY <1>1, <1>2, <1>5 DEF EwAwait, EwGo, EwFacts
  <2>2. UNCHANGED <<AuxArrived[e], PArrived[e], DsArrived[e], LoadedBy[e], DoneSeen(e)>>
        /\ Past(e, AfterQ)' = Past(e, AfterQ) /\ Past(e, AfterS)' = Past(e, AfterS)
        /\ LoadedSeen(e) = t /\ LoadedSeen(e)' = t + 1
    BY <1>2, <1>5, <2>1 DEF AuxArrived, PArrived, DsArrived, LoadedBy, LoadedSeen, DoneSeen, Past, Meet,
       AfterQ, AfterS, AfterLoad, AfterLoaded, AfterMask, MathPc, StorePc
  <2>3. \/ Past(e, AfterMask)' = Past(e, AfterMask)
        \/ /\ Past(e, AfterMask) = t /\ Past(e, AfterMask)' = t + 1
           /\ t \notin call.partial
    BY <1>2, <1>5, <2>1 DEF Past, AfterMask, MathPc, StorePc
  <2>4. Past(e, AfterS) \in Nat /\ DoneSeen(e) \in Nat
    BY <1>1, EwProgress
  <2>5. /\ Past(e, AfterS)' = Past(e, AfterS) + Flag("loaded" = "s_ready")
        /\ LoadedSeen(e)' = LoadedSeen(e) + Flag("loaded" = "loaded")
        /\ DoneSeen(e)' = DoneSeen(e) + Flag("loaded" = "done")
    BY <1>1, <2>2, <2>4 DEF Flag
  <2>6. ewPc'[e] # "kv"
    BY <2>1 DEF MathPc, StorePc
  <2> QED
    BY <1>5, <2>2, <2>3, <2>5, <2>6, EwAwaitsSingle
<1>6. CASE ewPc[e] = "done" /\ Await(e, Only("done"))
  <2>1. ewPc'[e] = "write" /\ n > 0
    BY <1>1, <1>2, <1>6 DEF EwAwait, EwGo, EwFacts
  <2>2. UNCHANGED <<AuxArrived[e], PArrived[e], DsArrived[e], LoadedBy[e], LoadedSeen(e)>>
        /\ Past(e, AfterQ)' = Past(e, AfterQ) /\ Past(e, AfterMask)' = Past(e, AfterMask)
        /\ Past(e, AfterS)' = Past(e, AfterS)
    BY <1>2, <1>6, <2>1 DEF AuxArrived, PArrived, DsArrived, LoadedBy, LoadedSeen, Past, Meet,
       AfterQ, AfterS, AfterLoad, AfterLoaded, AfterMask
  <2>3. DoneSeen(e)' = 1 /\ DoneSeen(e) = 0
    BY <1>1, <1>2, <1>6, <2>1 DEF DoneSeen
  <2>4. Past(e, AfterS) \in Nat /\ LoadedSeen(e) \in Nat
    BY <1>1, EwProgress
  <2>5. /\ Past(e, AfterS)' = Past(e, AfterS) + Flag("done" = "s_ready")
        /\ LoadedSeen(e)' = LoadedSeen(e) + Flag("done" = "loaded")
        /\ DoneSeen(e)' = DoneSeen(e) + Flag("done" = "done")
    BY <2>2, <2>3, <2>4 DEF Flag
  <2> QED
    BY <1>6, <2>1, <2>2, <2>5, EwAwaitsSingle
<1> QED
  BY <1>3, <1>4, <1>5, <1>6 DEF EwAwait, EwGo

\* A warpgroup arrives on a barrier only in the phase of its own step.
LEMMA EwOnTime ==
  ASSUME FInv, NEW e \in Ew, ewPc[e] \in AfterS
  PROVE  /\ ewStep[e] <= done[Only("p_ready")]
         /\ call.split => ewStep[e] <= done[Only("ds_ready")]
         /\ Meet /\ ewPc[e] = "load" => ewStep[e] <= done[Only("loaded")]
<1>1. /\ TypeOK /\ MmaFacts /\ EwFacts(e) /\ Seen /\ Singles
  BY DEF FInv, RingInv, PcFacts
<1>2. PSeen <= done[Only("p_ready")] /\ DsSeen <= done[Only("ds_ready")]
  BY <1>1, WaitersNamed DEF Singles, SingleBarriers, Seen
<1>3. Past(e, AfterS) = ewStep[e] + 1 /\ Past(e, AfterS) <= mmaScores
  BY Chain DEF Past
<1>4. LoadedSeen(e) <= done[Only("loaded")]
  BY <1>1, WaitersNamed DEF Singles, SingleBarriers, Seen
<1>5. Meet /\ ewPc[e] = "load" => LoadedSeen(e) = ewStep[e]
  BY DEF LoadedSeen, Past, AfterLoaded, AfterMask
<1>6. done[Only("p_ready")] \in Nat /\ done[Only("ds_ready")] \in Nat
  BY <1>1, BarrierNames DEF TypeOK, BarTypeOK
<1>7. ewStep[e] \in Nat
  BY <1>1, EwProgress
<1>8. mmaScores <= DkIssued + 1 /\ DkIssued <= PSeen
      /\ DkIssued \in Nat /\ PSeen \in Nat /\ mmaScores \in Nat
  BY <1>1, MmaProgress
<1>9. call.split => DsSeen = DkIssued
  BY DEF DsSeen
<1> QED
  BY <1>2, <1>3, <1>4, <1>5, <1>6, <1>7, <1>8, <1>9

\* The arrivals on barriers where all warpgroups meet.
LEMMA EwArrives ==
  ASSUME FInv, NEW e \in Ew, ElementwiseWg(e),
         NEW name \in {"p_ready", "ds_ready", "loaded"}, ArriveOn(Only(name)),
         UNCHANGED <<AuxArrived[e], Past(e, AfterQ), Past(e, AfterS), LoadedSeen(e), DoneSeen(e)>>,
         \/ Past(e, AfterMask)' = Past(e, AfterMask)
         \/ /\ Past(e, AfterMask) = ewStep[e] /\ Past(e, AfterMask)' = ewStep[e] + 1
            /\ ewStep[e] \notin call.partial,
         ewPc[e] # "kv", ewPc'[e] # "kv",
         PArrived'[e] = PArrived[e] + Flag(name = "p_ready"),
         DsArrived'[e] = DsArrived[e] + Flag(name = "ds_ready"),
         LoadedBy'[e] = LoadedBy[e] + Flag(name = "loaded"),
         name = "p_ready" => PArrived[e] <= done[Only(name)],
         name = "ds_ready" => DsArrived[e] <= done[Only(name)],
         name = "loaded" => LoadedBy[e] <= done[Only(name)]
  PROVE  RingInv'
<1>1. /\ TypeOK /\ Seen /\ Meetings /\ EwFacts(e) /\ Singles /\ BarTypeOK(Barriers, Waiters)
      /\ \A f \in Ew : EwFacts(f)
  BY TypeParts DEF FInv, RingInv, PcFacts
<1>2. name \in SingleNames /\ Only(name) \in Barriers
  BY BarrierNames DEF SingleNames
<1>3. /\ seen' = seen /\ RingBarriersStill
      /\ \A other \in SingleNames \ {name} : SingleStill(other)
  BY <1>1, <1>2, ArriveAt, ArriveSingle
<1>4. /\ \A f \in Ew \ {e} : ewPc'[f] = ewPc[f] /\ ewStep'[f] = ewStep[f]
      /\ UNCHANGED call
  BY <1>1, EwAlone
<1>5. Rings' /\ Flights' /\ Order'
  BY <1>3, EwOffRings
<1>6. /\ PArrived \in [Ew -> Nat] /\ DsArrived \in [Ew -> Nat] /\ LoadedBy \in [Ew -> Nat]
  <2>1. \A f \in Ew : PArrived[f] \in Nat /\ DsArrived[f] \in Nat /\ LoadedBy[f] \in Nat
    BY <1>1, EwProgress
  <2>2. /\ PArrived = [f \in Ew |-> PArrived[f]] /\ DsArrived = [f \in Ew |-> DsArrived[f]]
        /\ LoadedBy = [f \in Ew |-> LoadedBy[f]]
    BY DEF PArrived, DsArrived, LoadedBy
  <2> HIDE DEF PArrived, DsArrived, LoadedBy
  <2> QED
    BY <2>1, <2>2
<1>7. \A f \in Ew \ {e} : /\ PArrived'[f] = PArrived[f] /\ DsArrived'[f] = DsArrived[f]
                          /\ LoadedBy'[f] = LoadedBy[f]
  BY <1>4, EwOthers
<1>8. /\ name # "p_ready" => PArrived' = PArrived
      /\ name # "ds_ready" => DsArrived' = DsArrived
      /\ name # "loaded" => LoadedBy' = LoadedBy
  <2>1. /\ name # "p_ready" => PArrived'[e] = PArrived[e]
        /\ name # "ds_ready" => DsArrived'[e] = DsArrived[e]
        /\ name # "loaded" => LoadedBy'[e] = LoadedBy[e]
    BY <1>6 DEF Flag
  <2> QED
    BY <1>4, <2>1, EwOthers
<1>9. Met("p_ready", PArrived)' /\ (name = "p_ready" => done'[Only(name)] >= done[Only(name)])
  <2>1. CASE name = "p_ready"
    <3>1. PArrived'[e] = PArrived[e] + 1 /\ Met("p_ready", PArrived)
      BY <1>1, <1>6, <2>1 DEF Flag, Meetings
    <3>2. /\ \A f \in Ew : PArrived'[f] \in {done'[Only(name)], done'[Only(name)] + 1}
          /\ left'[Only(name)] = NumEw - Cardinality(Ahead(done'[Only(name)], PArrived'))
          /\ done'[Only(name)] >= done[Only(name)]
      BY <1>1, <1>6, <1>7, <2>1, <3>1, MetArrived
    <3> QED
      BY <2>1, <3>2 DEF Met, Only, Ew, Ahead
  <2>2. CASE name # "p_ready"
    BY <1>1, <1>3, <1>8, <2>2 DEF Met, Meetings, SingleStill, SingleNames, Only, Ew, Ahead
  <2> QED
    BY <2>1, <2>2
<1>10. Met("ds_ready", DsArrived)' /\ (name = "ds_ready" => done'[Only(name)] >= done[Only(name)])
  <2>1. CASE name = "ds_ready"
    <3>1. DsArrived'[e] = DsArrived[e] + 1 /\ Met("ds_ready", DsArrived)
      BY <1>1, <1>6, <2>1 DEF Flag, Meetings
    <3>2. /\ \A f \in Ew : DsArrived'[f] \in {done'[Only(name)], done'[Only(name)] + 1}
          /\ left'[Only(name)] = NumEw - Cardinality(Ahead(done'[Only(name)], DsArrived'))
          /\ done'[Only(name)] >= done[Only(name)]
      BY <1>1, <1>6, <1>7, <2>1, <3>1, MetArrived
    <3> QED
      BY <2>1, <3>2 DEF Met, Only, Ew, Ahead
  <2>2. CASE name # "ds_ready"
    BY <1>1, <1>3, <1>8, <2>2 DEF Met, Meetings, SingleStill, SingleNames, Only, Ew, Ahead
  <2> QED
    BY <2>1, <2>2
<1>11. Met("loaded", LoadedBy)' /\ (name = "loaded" => done'[Only(name)] >= done[Only(name)])
  <2>1. CASE name = "loaded"
    <3>1. LoadedBy'[e] = LoadedBy[e] + 1 /\ Met("loaded", LoadedBy)
      BY <1>1, <1>6, <2>1 DEF Flag, Meetings
    <3>2. /\ \A f \in Ew : LoadedBy'[f] \in {done'[Only(name)], done'[Only(name)] + 1}
          /\ left'[Only(name)] = NumEw - Cardinality(Ahead(done'[Only(name)], LoadedBy'))
          /\ done'[Only(name)] >= done[Only(name)]
      BY <1>1, <1>6, <1>7, <2>1, <3>1, MetArrived
    <3> QED
      BY <2>1, <3>2 DEF Met, Only, Ew, Ahead
  <2>2. CASE name # "loaded"
    BY <1>1, <1>3, <1>8, <2>2 DEF Met, Meetings, SingleStill, SingleNames, Only, Ew, Ahead
  <2> QED
    BY <2>1, <2>2
<1>12. Singles'
  <2>1. SingleKept(name)'
    <3>1. SingleKept(name)
      BY <1>1, <1>2, SinglesParts
    <3>2. done'[Only(name)] >= done[Only(name)]
      BY <1>9, <1>10, <1>11
    <3>3. WaitersOf(Only(name)) \subseteq Waiters
      BY WaitersNamed, Threads
    <3>4. \A w \in WaitersOf(Only(name)) : seen[w][Only(name)] \in Nat
      BY <1>1, <1>2, <3>3 DEF BarTypeOK
    <3>5. done[Only(name)] \in Nat /\ done'[Only(name)] \in Nat
      <4>1. BarTypeOK(Barriers, Waiters)'
        BY <1>1, <1>2, ArriveAt
      <4>2. Only(name) \in Barriers'
        BY <1>2 DEF Barriers, Slots
      <4> QED
        BY <1>1, <1>2, <4>1, <4>2 DEF BarTypeOK
    <3>6. \A w \in WaitersOf(Only(name)) : seen'[w][Only(name)] <= done'[Only(name)]
      BY <1>3, <3>1, <3>2, <3>4, <3>5 DEF SingleKept
    <3> QED
      BY <3>6 DEF SingleKept, WaitersOf, Only, Ew, Dq, Tma, Mma
  <2> QED
    BY <1>1, <1>3, <2>1, KeptStill, SinglesParts
<1>13. EwFacts(e)'
  BY EwFactsKept
<1>14. Meetings'
  BY <1>9, <1>10, <1>11 DEF Meetings
<1>15. \A other \in {"kv", "s_ready", "dq_ready", "dq_free", "done", "mma_order"} :
         done'[Only(other)] = done[Only(other)]
  BY <1>3 DEF SingleNames, SingleStill
<1>16. /\ seen'[e][KV] = IF ewPc'[e] = "kv" THEN 0 ELSE 1
       /\ seen'[e][Only("s_ready")] = Past(e, AfterS)'
       /\ seen'[e][Only("loaded")] = LoadedSeen(e)'
       /\ seen'[e][Only("done")] = DoneSeen(e)'
  BY <1>1, <1>3 DEF Seen
<1> QED
  BY <1>3, <1>5, <1>12, <1>13, <1>14, <1>15, <1>16, EwFrame

\* The load of the scores.
LEMMA EwLoadRings ==
  ASSUME FInv, NEW e \in Ew, ElementwiseWg(e), EwLoad(e)
  PROVE  RingInv'
<1> DEFINE t == ewStep[e]
<1>1. /\ TypeOK /\ EwFacts(e) /\ t \in Nat /\ Seen /\ Meetings /\ Singles
  BY FInvParts
<1>2. /\ ewStep' = ewStep /\ call' = call /\ DOMAIN ewPc = Ew /\ Ew' = Ew /\ ewPc[e] = "load"
  BY <1>1, EwAlone DEF EwLoad, EwGo, TypeOK, Ew
<1>3. IF Meet THEN ewPc'[e] = "loaded" ELSE ewPc'[e] = MathPc(t)
  BY <1>2 DEF EwLoad, EwGo
<1>4. /\ UNCHANGED <<AuxArrived[e], PArrived[e], DsArrived[e], LoadedSeen(e), DoneSeen(e)>>
      /\ Past(e, AfterQ)' = Past(e, AfterQ) /\ Past(e, AfterS)' = Past(e, AfterS)
      /\ LoadedBy'[e] = LoadedBy[e] + (IF Meet THEN 1 ELSE 0)
      /\ Meet => LoadedBy[e] = t
  BY <1>1, <1>2, <1>3 DEF AuxArrived, PArrived, DsArrived, LoadedBy, LoadedSeen, DoneSeen, Past, Meet,
     AfterQ, AfterS, AfterLoad, AfterLoaded, AfterMask, MathPc, StorePc
<1>5. \/ Past(e, AfterMask)' = Past(e, AfterMask)
      \/ /\ Past(e, AfterMask) = t /\ Past(e, AfterMask)' = t + 1
         /\ t \notin call.partial
  BY <1>2, <1>3 DEF Past, AfterMask, MathPc, StorePc
<1>6. ewPc[e] # "kv" /\ ewPc'[e] # "kv"
  BY <1>2, <1>3 DEF MathPc, StorePc
<1>7. PArrived[e] \in Nat /\ DsArrived[e] \in Nat /\ LoadedBy[e] \in Nat
  BY <1>1, EwProgress
<1>8. CASE Meet
  <2>1. ArriveOn(Only("loaded"))
    BY <1>8 DEF EwLoad
  <2>2. LoadedBy[e] <= done[Only("loaded")]
    BY <1>2, <1>4, <1>8, EwOnTime DEF AfterS
  <2>3. /\ PArrived'[e] = PArrived[e] + Flag("loaded" = "p_ready")
        /\ DsArrived'[e] = DsArrived[e] + Flag("loaded" = "ds_ready")
        /\ LoadedBy'[e] = LoadedBy[e] + Flag("loaded" = "loaded")
    BY <1>4, <1>7, <1>8 DEF Flag
  <2> QED
    BY <1>4, <1>5, <1>6, <2>1, <2>2, <2>3, EwArrives
<1>9. CASE ~Meet
  <2>1. UNCHANGED barVars
    BY <1>9 DEF EwLoad
  <2>2. RingBarriersStill /\ \A name : SingleStill(name)
    BY <2>1 DEF barVars, RingBarriersStill, SingleStill, Lag
  <2>3. Rings' /\ Flights' /\ Order'
    BY <1>4, <1>5, <2>2, EwOffRings
  <2>4. Singles'
    BY <1>1, <2>2, SinglesParts, KeptStill
  <2>5. UNCHANGED <<PArrived, DsArrived, LoadedBy>>
    BY <1>1, <1>4, <1>7, <1>9, EwAlone, EwOthers
  <2>6. Meetings'
    BY <1>1, <2>2, <2>5, MeetingsStill
  <2>7. EwFacts(e)'
    BY EwFactsKept
  <2>8. /\ seen'[e][KV] = IF ewPc'[e] = "kv" THEN 0 ELSE 1
        /\ seen'[e][Only("s_ready")] = Past(e, AfterS)'
        /\ seen'[e][Only("loaded")] = LoadedSeen(e)'
        /\ seen'[e][Only("done")] = DoneSeen(e)'
    BY <1>1, <1>4, <1>6, <2>1 DEF Seen, barVars
  <2>9. /\ \A name \in {"kv", "s_ready", "dq_ready", "dq_free", "done", "mma_order"} :
             done'[Only(name)] = done[Only(name)]
        /\ \A w \in Waiters \ {e} : seen'[w] = seen[w]
    BY <2>1 DEF barVars
  <2> QED
    BY <2>3, <2>4, <2>6, <2>7, <2>8, <2>9, EwFrame
<1> QED
  BY <1>8, <1>9

\* The store of P.
LEMMA EwStorePRings ==
  ASSUME FInv, NEW e \in Ew, ElementwiseWg(e), EwStoreP(e)
  PROVE  RingInv'
<1> DEFINE t == ewStep[e]
<1>1. /\ TypeOK /\ EwFacts(e) /\ t \in Nat
  BY FInvParts
<1>2. /\ ewStep' = ewStep /\ call' = call /\ DOMAIN ewPc = Ew /\ Ew' = Ew
      /\ ewPc[e] = "store_p" /\ ArriveOn(Only("p_ready"))
  BY <1>1, EwAlone DEF EwStoreP, EwGo, TypeOK, Ew
<1>3. ewPc'[e] = "store_ds" /\ call.split
  BY <1>1, <1>2 DEF EwStoreP, EwGo, EwFacts
<1>4. /\ UNCHANGED <<AuxArrived[e], DsArrived[e], LoadedBy[e], LoadedSeen(e), DoneSeen(e)>>
      /\ Past(e, AfterQ)' = Past(e, AfterQ) /\ Past(e, AfterS)' = Past(e, AfterS)
      /\ Past(e, AfterMask)' = Past(e, AfterMask)
      /\ PArrived[e] = t /\ PArrived'[e] = t + 1
  BY <1>1, <1>2, <1>3 DEF AuxArrived, PArrived, DsArrived, LoadedBy, LoadedSeen, DoneSeen, Past, Meet,
     AfterQ, AfterS, AfterLoad, AfterLoaded, AfterMask
<1>5. DsArrived[e] \in Nat /\ LoadedBy[e] \in Nat
  BY <1>1, EwProgress
<1>6. /\ PArrived'[e] = PArrived[e] + Flag("p_ready" = "p_ready")
      /\ DsArrived'[e] = DsArrived[e] + Flag("p_ready" = "ds_ready")
      /\ LoadedBy'[e] = LoadedBy[e] + Flag("p_ready" = "loaded")
  BY <1>1, <1>4, <1>5 DEF Flag
<1>7. PArrived[e] <= done[Only("p_ready")]
  BY <1>2, <1>4, EwOnTime DEF AfterS, AfterLoad, AfterLoaded, AfterMask
<1> QED
  BY <1>2, <1>3, <1>4, <1>6, <1>7, EwArrives

\* The arrival that ends a step.
LEMMA EwReadyRings ==
  ASSUME FInv, NEW e \in Ew, ElementwiseWg(e), EwArriveReady(e)
  PROVE  RingInv'
<1> DEFINE t == ewStep[e]
<1>1. /\ TypeOK /\ EwFacts(e) /\ t \in Nat
  BY FInvParts
<1>2. /\ call' = call /\ DOMAIN ewPc = Ew /\ DOMAIN ewStep = Ew /\ Ew' = Ew
      /\ ewPc[e] = "ready" /\ ArriveOn(Only(IF call.split THEN "ds_ready" ELSE "p_ready"))
  BY <1>1, EwAlone DEF EwArriveReady, EwGo, TypeOK, Ew
<1>3. ewStep'[e] = t + 1 /\ ewPc'[e] \in {"q", "done", "write"}
  BY <1>2, EwFactsKept DEF EwArriveReady
<1>4. /\ UNCHANGED <<AuxArrived[e], LoadedBy[e], LoadedSeen(e)>>
      /\ Past(e, AfterQ)' = Past(e, AfterQ) /\ Past(e, AfterS)' = Past(e, AfterS)
      /\ Past(e, AfterMask)' = Past(e, AfterMask)
      /\ PArrived[e] = (IF call.split THEN t + 1 ELSE t) /\ PArrived'[e] = t + 1
      /\ DsArrived[e] = (IF call.split THEN t ELSE 0)
      /\ DsArrived'[e] = (IF call.split THEN t + 1 ELSE 0)
  BY <1>1, <1>2, <1>3 DEF AuxArrived, PArrived, DsArrived, LoadedBy, LoadedSeen, Past, Meet,
     AfterQ, AfterS, AfterLoad, AfterLoaded, AfterMask
<1>5. DoneSeen(e)' = DoneSeen(e)
  <2>1. ewPc'[e] = EwTop(t + 1) /\ n' = n /\ t < n
    BY <1>1, <1>2 DEF EwArriveReady, EwGo, n, EwFacts, AfterQ, AfterS, AfterLoad, AfterLoaded, AfterMask
  <2>2. n \in Nat
    BY <1>1, CallType DEF TypeOK
  <2> QED
    BY <1>2, <2>1, <2>2 DEF DoneSeen, EwTop
<1>6. LoadedBy[e] \in Nat
  BY <1>1, EwProgress
<1>7. /\ t <= done[Only("p_ready")]
      /\ call.split => t <= done[Only("ds_ready")]
  BY <1>2, EwOnTime DEF AfterS, AfterLoad, AfterLoaded, AfterMask
<1>8. CASE call.split
  <2>1. /\ PArrived'[e] = PArrived[e] + Flag("ds_ready" = "p_ready")
        /\ DsArrived'[e] = DsArrived[e] + Flag("ds_ready" = "ds_ready")
        /\ LoadedBy'[e] = LoadedBy[e] + Flag("ds_ready" = "loaded")
    BY <1>1, <1>4, <1>6, <1>8 DEF Flag
  <2> QED
    BY <1>2, <1>3, <1>4, <1>5, <1>7, <1>8, <2>1, EwArrives
<1>9. CASE ~call.split
  <2>1. /\ PArrived'[e] = PArrived[e] + Flag("p_ready" = "p_ready")
        /\ DsArrived'[e] = DsArrived[e] + Flag("p_ready" = "ds_ready")
        /\ LoadedBy'[e] = LoadedBy[e] + Flag("p_ready" = "loaded")
    BY <1>1, <1>4, <1>6, <1>9 DEF Flag
  <2> QED
    BY <1>2, <1>3, <1>4, <1>5, <1>7, <1>9, <2>1, EwArrives
<1> QED
  BY <1>8, <1>9

\* The output.
LEMMA EwWriteRings ==
  ASSUME FInv, NEW e \in Ew, ElementwiseWg(e), EwWrite(e)
  PROVE  RingInv'
<1> DEFINE t == ewStep[e]
<1>1. /\ TypeOK /\ EwFacts(e) /\ t \in Nat /\ Seen /\ Meetings /\ Singles
  BY FInvParts
<1>2. /\ ewStep' = ewStep /\ call' = call /\ n' = n /\ DOMAIN ewPc = Ew /\ Ew' = Ew
      /\ ewPc[e] = "write" /\ UNCHANGED barVars
  BY <1>1, EwAlone DEF EwWrite, EwGo, TypeOK, Ew, n
<1>3. ewPc'[e] = "exit"
  BY <1>2 DEF EwWrite, EwGo
<1>4. /\ UNCHANGED <<AuxArrived[e], PArrived[e], DsArrived[e], LoadedBy[e], LoadedSeen(e), DoneSeen(e)>>
      /\ Past(e, AfterQ)' = Past(e, AfterQ) /\ Past(e, AfterS)' = Past(e, AfterS)
      /\ Past(e, AfterMask)' = Past(e, AfterMask)
  BY <1>1, <1>2, <1>3 DEF AuxArrived, PArrived, DsArrived, LoadedBy, LoadedSeen, DoneSeen, Past, Meet,
     AfterQ, AfterS, AfterLoad, AfterLoaded, AfterMask
<1>5. RingBarriersStill /\ \A name : SingleStill(name)
  BY <1>2 DEF barVars, RingBarriersStill, SingleStill, Lag
<1>6. Rings' /\ Flights' /\ Order'
  BY <1>4, <1>5, EwOffRings
<1>7. Singles'
  BY <1>1, <1>5, SinglesParts, KeptStill
<1>8. UNCHANGED <<PArrived, DsArrived, LoadedBy>>
  BY <1>1, <1>4, EwAlone, EwOthers
<1>9. Meetings'
  BY <1>1, <1>5, <1>8, MeetingsStill
<1>10. EwFacts(e)'
  BY EwFactsKept
<1>11. /\ seen'[e][KV] = IF ewPc'[e] = "kv" THEN 0 ELSE 1
       /\ seen'[e][Only("s_ready")] = Past(e, AfterS)'
       /\ seen'[e][Only("loaded")] = LoadedSeen(e)'
       /\ seen'[e][Only("done")] = DoneSeen(e)'
  BY <1>1, <1>2, <1>3, <1>4 DEF Seen, barVars
<1>12. /\ \A name \in {"kv", "s_ready", "dq_ready", "dq_free", "done", "mma_order"} :
            done'[Only(name)] = done[Only(name)]
       /\ \A w \in Waiters \ {e} : seen'[w] = seen[w]
  BY <1>2 DEF barVars
<1> QED
  BY <1>6, <1>7, <1>9, <1>10, <1>11, <1>12, EwFrame
-----------------------------------------------------------------------------
\* A wait for the loads of the next step passes only once they are there.
LEMMA QAwaited ==
  ASSUME FInv, NEW w \in Ew \cup {Mma}, NEW t,
         t = IF w = Mma THEN mmaScores ELSE Past(w, AfterQ),
         Await(w, Ring("q", t))
  PROVE  t \in Window /\ QUp(t)
<1>1. /\ TypeOK /\ TmaFacts /\ MmaFacts /\ Rings /\ \A e \in Ew : EwFacts(e)
  BY DEF FInv, RingInv, PcFacts
<1>2. w \in Waiters /\ Mma \notin Ew
  BY Threads
<1>3. /\ AFree \in Nat /\ Requested \in Nat /\ Requested <= AFree + NumStages
      /\ AFree <= CFree /\ CFree \in Nat
  BY <1>1, TmaProgress
<1>4. t \in Nat /\ AFree <= t /\ t <= Requested
  <2>1. CASE w = Mma
    BY <1>1, <1>3, <2>1, Chain, MmaProgress
  <2>2. CASE w \in Ew
    <3>1. t = Past(w, AfterQ)
      BY <1>2, <2>2
    <3>2. /\ AFree <= AuxArrived[w] /\ t <= Requested /\ AuxArrived[w] \in Nat
          /\ AuxArrived[w] <= Past(w, AfterMask) /\ Past(w, AfterMask) <= Past(w, AfterS)
          /\ Past(w, AfterS) <= Past(w, AfterQ)
      BY <1>1, <2>2, <3>1, Chain, EwProgress
    <3>3. ewStep[w] \in Nat /\ \A pcs : Past(w, pcs) \in {ewStep[w], ewStep[w] + 1}
      BY <1>1, <2>2, EwProgress
    <3> QED
      BY <1>3, <3>1, <3>2, <3>3
  <2> QED
    BY <2>1, <2>2
<1>5. AFree \in Window
  BY <1>3 DEF Window
<1>6. \A s \in Window : Lag(w, Ring("q", s)) = Flag(s >= t /\ QUp(s))
  <2>1. CASE w = Mma
    BY <1>1, <2>1 DEF Rings, QRing
  <2>2. CASE w \in Ew
    BY <1>1, <1>2, <2>2 DEF Rings, QRing
  <2> QED
    BY <2>1, <2>2
<1>7. t # AFree + NumStages
  <2> SUFFICES ASSUME t = AFree + NumStages PROVE FALSE
    OBVIOUS
  <2>1. AFree % NumStages = t % NumStages
    <3>1. t >= NumStages /\ t - NumStages = AFree
      BY <1>3
    <3> QED
      BY <1>4, <3>1, SlotBefore
  <2>2. Ring("q", t) = Ring("q", AFree)
    BY <2>1 DEF Ring
  <2>3. Lag(w, Ring("q", t)) = 0
    BY <1>3, <1>5, <1>6, <2>2 DEF Flag
  <2>4. Ring("q", t) \in Barriers
    BY <1>4, BarrierNames
  <2> QED
    BY <1>1, <1>2, <2>3, <2>4, AwaitAt, TypeParts
<1>8. t \in Window
  BY <1>3, <1>4, <1>7 DEF Window
<1>9. Lag(w, Ring("q", t)) \in {0, 1}
  BY <1>6, <1>8 DEF Flag
<1>10. Lag(w, Ring("q", t)) = 1
  BY <1>1, <1>2, <1>8, <1>9, AwaitInRing DEF Families
<1>11. Flag(t >= t /\ QUp(t)) = 1
  BY <1>6, <1>8, <1>10
<1> QED
  BY <1>8, <1>11 DEF Flag

\* All single barriers.
LEMMA SinglesStill ==
  ASSUME Singles, \A name \in SingleNames : SingleStill(name)
  PROVE  Singles'
BY SinglesParts, KeptStill

\* The wait for Q, dO and the row vectors.
LEMMA EwQRings ==
  ASSUME FInv, NEW e \in Ew, ElementwiseWg(e), EwAwait(e), ewPc[e] = "q"
  PROVE  RingInv'
<1> DEFINE t == ewStep[e]
<1>1. /\ TypeOK /\ TmaFacts /\ EwFacts(e) /\ t \in Nat /\ Seen /\ Meetings /\ Singles
      /\ Rings /\ Flights /\ Order
  BY FInvParts
<1>2. /\ ewStep' = ewStep /\ UNCHANGED <<call, tmaVars, mmaVars, copies, tc>>
      /\ n' = n /\ DOMAIN ewPc = Ew /\ Ew' = Ew
      /\ Await(e, Ring("q", t)) /\ ewPc'[e] = "s"
      /\ \A f \in Ew \ {e} : ewPc'[f] = ewPc[f] /\ ewStep'[f] = ewStep[f]
  BY <1>1, EwAlone DEF EwAwait, EwGo, TypeOK, Ew, n
<1>3. UNCHANGED <<mmaStep, mmaScores, Requested, CFree, AFree, Window, Ops>>
  BY <1>2, TmaStill, QueueStill DEF mmaVars
<1>4. /\ UNCHANGED <<AuxArrived[e], PArrived[e], DsArrived[e], LoadedBy[e], LoadedSeen(e), DoneSeen(e)>>
      /\ Past(e, AfterS)' = Past(e, AfterS) /\ Past(e, AfterMask)' = Past(e, AfterMask)
      /\ Past(e, AfterQ) = t /\ Past(e, AfterQ)' = t + 1
  BY <1>1, <1>2 DEF AuxArrived, PArrived, DsArrived, LoadedBy, LoadedSeen, DoneSeen, Past, Meet,
     AfterQ, AfterS, AfterLoad, AfterLoaded, AfterMask
<1>5. /\ UNCHANGED <<AuxArrived, PArrived, DsArrived, LoadedBy>>
      /\ \A f \in Ew \ {e} : Past(f, AfterQ)' = Past(f, AfterQ)
      /\ \A f \in Ew : Past(f, AfterMask)' = Past(f, AfterMask)
  BY <1>2, <1>4, EwOthers
<1>6. t \in Window /\ QUp(t)
  BY <1>2, <1>4, QAwaited, Threads
<1>7. /\ \A name \in SingleNames : SingleStill(name)
      /\ \A g \in Families, s \in Window :
           /\ left'[Ring(g, s)] = left[Ring(g, s)]
           /\ \A v \in WaitersOf(Ring(g, s)) : g # "q" \/ s # t \/ v # e =>
                Lag(v, Ring(g, s))' = Lag(v, Ring(g, s))
      /\ Lag(e, Ring("q", t))' = Lag(e, Ring("q", t)) - 1
  BY <1>1, <1>2, <1>6, AwaitInRing, Threads DEF Families
<1>8. Order'
  <2>1. t + 1 <= Requested
    BY <1>1, <1>6, TmaProgress DEF QUp
  <2> QED
    BY <1>1, <1>3, <1>4, <1>5, <2>1 DEF Order, Ew
<1>9. Flights'
  <2> SUFFICES ASSUME NEW c \in copies \ {KV}
               PROVE  /\ c[2] < Requested
                      /\ c[1] \in {"q_do", "row"} =>
                           mmaScores <= c[2] /\ \A f \in Ew : Past(f, AfterQ)' <= c[2]
                      /\ c[1] = "mask" =>
                           c[2] \in call.partial /\ \A f \in Ew : Past(f, AfterMask)' <= c[2]
    BY <1>2, <1>3 DEF Flights, KV, Only, Ew
  <2>1. /\ c[2] < Requested
        /\ c[1] \in {"q_do", "row"} =>
             mmaScores <= c[2] /\ \A f \in Ew : Past(f, AfterQ) <= c[2]
        /\ c[1] = "mask" => c[2] \in call.partial /\ \A f \in Ew : Past(f, AfterMask) <= c[2]
    BY <1>1 DEF Flights
  <2>2. c[2] \in Nat /\ c = <<c[1], c[2]>>
    BY <1>1 DEF TypeOK
  <2>3. ASSUME c[1] \in {"q_do", "row"} PROVE Past(e, AfterQ)' <= c[2]
    <3>1. c[2] # t
      BY <1>6, <2>2, <2>3 DEF QUp, InFlight
    <3> QED
      BY <1>1, <1>4, <2>1, <2>2, <2>3, <3>1
  <2> QED
    BY <1>5, <2>1, <2>3
<1>10. Rings'
  <2> SUFFICES ASSUME NEW s \in Window
               PROVE  QRing(s)' /\ MaskRing(s)' /\ ConsumedRing(s)' /\ AuxRing(s)'
    BY <1>3 DEF Rings
  <2>1. QRing(s) /\ MaskRing(s) /\ ConsumedRing(s) /\ AuxRing(s)
    BY <1>1 DEF Rings
  <2>2. s \in Nat
    BY <1>1, TmaProgress DEF Window
  <2>4. /\ UNCHANGED <<HalfLoaded(s), AuxLeft(s)>>
        /\ QUp(s)' = QUp(s) /\ MaskUp(s)' = MaskUp(s)
        /\ ConsumedUp(s)' = ConsumedUp(s) /\ AuxUp(s)' = AuxUp(s)
    BY <1>2, <1>3, <1>5, RingFlagsStill
  <2>5. QRing(s)'
    <3>1. ASSUME NEW f \in Ew
          PROVE  Lag(f, Ring("q", s))' = Flag(s >= Past(f, AfterQ)' /\ QUp(s))
      <4>0. Lag(f, Ring("q", s)) = Flag(s >= Past(f, AfterQ) /\ QUp(s))
        BY <2>1 DEF QRing
      <4>1. CASE f # e
        <5>1. Past(f, AfterQ)' = Past(f, AfterQ)
          BY <1>5, <4>1
        <5>2. Lag(f, Ring("q", s))' = Lag(f, Ring("q", s))
          BY <1>7, <4>1, WaitersNamed DEF Families
        <5> QED
          BY <4>0, <5>1, <5>2 DEF Flag
      <4>2. CASE f = e /\ s # t
        <5>1. (s >= Past(e, AfterQ)) = (s >= Past(e, AfterQ)')
          BY <1>1, <1>4, <2>2, <4>2
        <5>2. Lag(e, Ring("q", s))' = Lag(e, Ring("q", s))
          BY <1>7, <4>2, WaitersNamed DEF Families
        <5> QED
          BY <4>0, <4>2, <5>1, <5>2
      <4>3. CASE f = e /\ s = t
        <5>1. Lag(e, Ring("q", t)) = 1
          BY <1>1, <1>4, <1>6, <4>0, <4>3 DEF Flag
        <5> QED
          BY <1>1, <1>2, <1>4, <1>7, <4>3, <5>1 DEF Flag
      <4> QED
        BY <4>1, <4>2, <4>3
    <3>2. Lag(Mma, Ring("q", s))' = Lag(Mma, Ring("q", s))
      BY <1>7, WaitersNamed, Threads DEF Families
    <3> QED
      BY <1>3, <1>7, <2>1, <2>4, <3>1, <3>2 DEF QRing, Families, Ew, Ring, Lag, Mma, Flag
  <2>6. MaskRing(s)'
    BY <1>5, <1>7, <2>1, <2>4, WaitersNamed DEF MaskRing, Families, Flag, Ew, Ring, Lag
  <2>7. ConsumedRing(s)'
    BY <1>3, <1>7, <2>1, <2>4, WaitersNamed DEF ConsumedRing, Families, Flag, Ring, Lag, Tma
  <2>8. AuxRing(s)'
    BY <1>7, <2>1, <2>4, WaitersNamed DEF AuxRing, Families, Flag, Ring, Lag, Tma
  <2> QED
    BY <2>5, <2>6, <2>7, <2>8
<1>11. Singles' /\ Meetings' /\ EwFacts(e)'
  BY <1>1, <1>5, <1>7, SinglesStill, MeetingsStill, EwFactsKept DEF SingleNames
<1>12. \A w \in Waiters \ {e} : seen'[w] = seen[w]
  BY <1>1, <1>2, <1>6, AwaitAt, BarrierNames, Threads, TypeParts, TmaProgress DEF Window
<1>13. \A name \in {"kv", "s_ready", "loaded", "done"} : seen'[e][Only(name)] = seen[e][Only(name)]
  BY <1>7, WaitersNamed DEF SingleStill, SingleNames, KV
<1>14. /\ seen'[e][KV] = IF ewPc'[e] = "kv" THEN 0 ELSE 1
       /\ seen'[e][Only("s_ready")] = Past(e, AfterS)'
       /\ seen'[e][Only("loaded")] = LoadedSeen(e)'
       /\ seen'[e][Only("done")] = DoneSeen(e)'
  BY <1>1, <1>2, <1>4, <1>13 DEF Seen, KV
<1>15. \A name \in {"kv", "s_ready", "dq_ready", "dq_free", "done", "mma_order"} :
         done'[Only(name)] = done[Only(name)]
  BY <1>7 DEF SingleStill, SingleNames
<1> QED
  BY <1>8, <1>9, <1>10, <1>11, <1>12, <1>14, <1>15, EwFrame

\* A step that a warpgroup works on is in the window.
LEMMA EwInWindow ==
  ASSUME FInv, NEW e \in Ew, ewPc[e] \in AfterQ, ewPc[e] # "ready"
  PROVE  ewStep[e] \in Window
<1>1. /\ TypeOK /\ TmaFacts /\ EwFacts(e) /\ Order /\ ewStep[e] \in Nat
  BY FInvParts
<1>2. AFree <= AuxArrived[e] /\ Past(e, AfterQ) <= Requested
  BY <1>1 DEF Order
<1>3. AuxArrived[e] = ewStep[e] /\ Past(e, AfterQ) = ewStep[e] + 1
  BY DEF AuxArrived, Past
<1> QED
  BY <1>1, <1>2, <1>3, TmaProgress DEF Window

\* The wait for a mask block.
LEMMA EwMaskRings ==
  ASSUME FInv, NEW e \in Ew, ElementwiseWg(e), EwAwait(e), ewPc[e] = "mask"
  PROVE  RingInv'
<1> DEFINE t == ewStep[e]
<1>1. /\ TypeOK /\ TmaFacts /\ EwFacts(e) /\ t \in Nat /\ Seen /\ Meetings /\ Singles
      /\ Rings /\ Flights /\ Order
  BY FInvParts
<1>2. /\ ewStep' = ewStep /\ UNCHANGED <<call, tmaVars, mmaVars, copies, tc>>
      /\ n' = n /\ DOMAIN ewPc = Ew /\ Ew' = Ew
      /\ Await(e, Ring("mask", t)) /\ ewPc'[e] = StorePc
      /\ \A f \in Ew \ {e} : ewPc'[f] = ewPc[f] /\ ewStep'[f] = ewStep[f]
  BY <1>1, EwAlone DEF EwAwait, EwGo, TypeOK, Ew, n
<1>3. UNCHANGED <<mmaStep, mmaScores, Requested, CFree, AFree, Window, Ops>>
  BY <1>2, TmaStill, QueueStill DEF mmaVars
<1>4. /\ UNCHANGED <<AuxArrived[e], PArrived[e], DsArrived[e], LoadedBy[e], LoadedSeen(e), DoneSeen(e)>>
      /\ Past(e, AfterS)' = Past(e, AfterS) /\ Past(e, AfterQ)' = Past(e, AfterQ)
      /\ Past(e, AfterMask) = t /\ Past(e, AfterMask)' = t + 1
  BY <1>1, <1>2 DEF AuxArrived, PArrived, DsArrived, LoadedBy, LoadedSeen, DoneSeen, Past, Meet,
     StorePc, AfterQ, AfterS, AfterLoad, AfterLoaded, AfterMask
<1>5. /\ UNCHANGED <<AuxArrived, PArrived, DsArrived, LoadedBy>>
      /\ \A f \in Ew \ {e} : Past(f, AfterMask)' = Past(f, AfterMask)
      /\ \A f \in Ew : Past(f, AfterQ)' = Past(f, AfterQ)
  BY <1>2, <1>4, EwOthers
<1>6. t \in Window
  BY EwInWindow DEF AfterQ, AfterS, AfterLoad, AfterLoaded
<1>7. /\ \A name \in SingleNames : SingleStill(name)
      /\ \A g \in Families, s \in Window :
           /\ left'[Ring(g, s)] = left[Ring(g, s)]
           /\ \A v \in WaitersOf(Ring(g, s)) : g # "mask" \/ s # t \/ v # e =>
                Lag(v, Ring(g, s))' = Lag(v, Ring(g, s))
      /\ Lag(e, Ring("mask", t))' = Lag(e, Ring("mask", t)) - 1
      /\ Lag(e, Ring("mask", t)) \in {0, 1} => Lag(e, Ring("mask", t)) = 1
  BY <1>1, <1>2, <1>6, AwaitInRing, Threads DEF Families
<1>8. MaskUp(t) /\ Lag(e, Ring("mask", t)) = 1
  <2>1. Lag(e, Ring("mask", t)) = Flag(t >= Past(e, AfterMask) /\ MaskUp(t))
    BY <1>1, <1>6 DEF Rings, MaskRing
  <2>2. Flag(t >= Past(e, AfterMask) /\ MaskUp(t)) = 1
    BY <1>7, <2>1 DEF Flag
  <2> QED
    BY <2>1, <2>2 DEF Flag
<1>9. Order'
  BY <1>1, <1>3, <1>5, OrderStill
<1>10. Flights'
  <2> SUFFICES ASSUME NEW c \in copies \ {KV}
               PROVE  /\ c[2] < Requested
                      /\ c[1] \in {"q_do", "row"} =>
                           mmaScores <= c[2] /\ \A f \in Ew : Past(f, AfterQ)' <= c[2]
                      /\ c[1] = "mask" =>
                           c[2] \in call.partial /\ \A f \in Ew : Past(f, AfterMask)' <= c[2]
    BY <1>2, <1>3 DEF Flights, KV, Only, Ew
  <2>1. /\ c[2] < Requested
        /\ c[1] \in {"q_do", "row"} =>
             mmaScores <= c[2] /\ \A f \in Ew : Past(f, AfterQ) <= c[2]
        /\ c[1] = "mask" => c[2] \in call.partial /\ \A f \in Ew : Past(f, AfterMask) <= c[2]
    BY <1>1 DEF Flights
  <2>2. c[2] \in Nat /\ c = <<c[1], c[2]>>
    BY <1>1 DEF TypeOK
  <2>3. ASSUME c[1] = "mask" PROVE Past(e, AfterMask)' <= c[2]
    <3>1. c[2] # t
      BY <1>8, <2>2, <2>3 DEF MaskUp, InFlight
    <3> QED
      BY <1>1, <1>4, <2>1, <2>2, <2>3, <3>1
  <2> QED
    BY <1>5, <2>1, <2>3
<1>11. Rings'
  <2> SUFFICES ASSUME NEW s \in Window
               PROVE  QRing(s)' /\ MaskRing(s)' /\ ConsumedRing(s)' /\ AuxRing(s)'
    BY <1>3 DEF Rings
  <2>1. QRing(s) /\ MaskRing(s) /\ ConsumedRing(s) /\ AuxRing(s)
    BY <1>1 DEF Rings
  <2>2. s \in Nat
    BY <1>1, TmaProgress DEF Window
  <2>4. /\ UNCHANGED <<HalfLoaded(s), AuxLeft(s)>>
        /\ QUp(s)' = QUp(s) /\ MaskUp(s)' = MaskUp(s)
        /\ ConsumedUp(s)' = ConsumedUp(s) /\ AuxUp(s)' = AuxUp(s)
    BY <1>2, <1>3, <1>5, RingFlagsStill
  <2>5. QRing(s)'
    BY <1>3, <1>5, <1>7, <2>1, <2>4, WaitersNamed, Threads
       DEF QRing, Families, Flag, Ew, Ring, Lag, Mma
  <2>6. MaskRing(s)'
    <3>1. ASSUME NEW f \in Ew
          PROVE  Lag(f, Ring("mask", s))' = Flag(s >= Past(f, AfterMask)' /\ MaskUp(s))
      <4>0. Lag(f, Ring("mask", s)) = Flag(s >= Past(f, AfterMask) /\ MaskUp(s))
        BY <2>1 DEF MaskRing
      <4>1. CASE f # e
        <5>1. Past(f, AfterMask)' = Past(f, AfterMask)
          BY <1>5, <4>1
        <5>2. Lag(f, Ring("mask", s))' = Lag(f, Ring("mask", s))
          BY <1>7, <4>1, WaitersNamed DEF Families
        <5> QED
          BY <4>0, <5>1, <5>2 DEF Flag
      <4>2. CASE f = e /\ s # t
        <5>1. (s >= Past(e, AfterMask)) = (s >= Past(e, AfterMask)')
          BY <1>1, <1>4, <2>2, <4>2
        <5>2. Lag(e, Ring("mask", s))' = Lag(e, Ring("mask", s))
          BY <1>7, <4>2, WaitersNamed DEF Families
        <5> QED
          BY <4>0, <4>2, <5>1, <5>2 DEF Flag
      <4>3. CASE f = e /\ s = t
        BY <1>1, <1>2, <1>4, <1>7, <1>8, <4>3 DEF Flag
      <4> QED
        BY <4>1, <4>2, <4>3
    <3> QED
      BY <1>7, <2>1, <2>4, <3>1 DEF MaskRing, Families, Ew, Ring, Lag, Flag
  <2>7. ConsumedRing(s)'
    BY <1>3, <1>7, <2>1, <2>4, WaitersNamed DEF ConsumedRing, Families, Flag, Ring, Lag, Tma
  <2>8. AuxRing(s)'
    BY <1>7, <2>1, <2>4, WaitersNamed DEF AuxRing, Families, Flag, Ring, Lag, Tma
  <2> QED
    BY <2>5, <2>6, <2>7, <2>8
<1>12. Singles' /\ Meetings' /\ EwFacts(e)'
  BY <1>1, <1>5, <1>7, SinglesStill, MeetingsStill, EwFactsKept DEF SingleNames
<1>13. \A w \in Waiters \ {e} : seen'[w] = seen[w]
  BY <1>1, <1>2, <1>6, AwaitAt, BarrierNames, Threads, TypeParts, TmaProgress DEF Window
<1>14. \A name \in {"kv", "s_ready", "loaded", "done"} : seen'[e][Only(name)] = seen[e][Only(name)]
  BY <1>7, WaitersNamed DEF SingleStill, SingleNames, KV
<1>15. /\ seen'[e][KV] = IF ewPc'[e] = "kv" THEN 0 ELSE 1
       /\ seen'[e][Only("s_ready")] = Past(e, AfterS)'
       /\ seen'[e][Only("loaded")] = LoadedSeen(e)'
       /\ seen'[e][Only("done")] = DoneSeen(e)'
  BY <1>1, <1>2, <1>4, <1>14 DEF Seen, KV, StorePc
<1>16. \A name \in {"kv", "s_ready", "dq_ready", "dq_free", "done", "mma_order"} :
         done'[Only(name)] = done[Only(name)]
  BY <1>7 DEF SingleStill, SingleNames
<1> QED
  BY <1>9, <1>10, <1>11, <1>12, <1>13, <1>15, <1>16, EwFrame

\* The row vectors and the mask of the slot are released.
LEMMA EwStoreDsRings ==
  ASSUME FInv, NEW e \in Ew, ElementwiseWg(e), EwStoreDs(e)
  PROVE  RingInv'
<1> DEFINE t == ewStep[e]
<1>1. /\ TypeOK /\ TmaFacts /\ EwFacts(e) /\ t \in Nat /\ Seen /\ Meetings /\ Singles
      /\ Rings /\ Flights /\ Order /\ \A f \in Ew : EwFacts(f)
  BY FInvParts
<1>2. /\ ewStep' = ewStep /\ UNCHANGED <<call, tmaVars, mmaVars, copies, tc>>
      /\ n' = n /\ DOMAIN ewPc = Ew /\ Ew' = Ew
      /\ ArriveOn(Ring("aux_consumed", t)) /\ ewPc[e] = "store_ds" /\ ewPc'[e] = "ready"
      /\ \A f \in Ew \ {e} : ewPc'[f] = ewPc[f] /\ ewStep'[f] = ewStep[f]
  BY <1>1, EwAlone DEF EwStoreDs, EwGo, TypeOK, Ew, n
<1>3. UNCHANGED <<mmaStep, mmaScores, Requested, CFree, AFree, Window, Ops>>
  BY <1>2, TmaStill, QueueStill DEF mmaVars
<1>4. /\ UNCHANGED <<PArrived[e], DsArrived[e], LoadedBy[e], LoadedSeen(e), DoneSeen(e)>>
      /\ Past(e, AfterS)' = Past(e, AfterS) /\ Past(e, AfterQ)' = Past(e, AfterQ)
      /\ Past(e, AfterMask)' = Past(e, AfterMask)
      /\ AuxArrived[e] = t /\ AuxArrived'[e] = t + 1
  BY <1>1, <1>2 DEF AuxArrived, PArrived, DsArrived, LoadedBy, LoadedSeen, DoneSeen, Past, Meet,
     AfterQ, AfterS, AfterLoad, AfterLoaded, AfterMask
<1>5. /\ UNCHANGED <<PArrived, DsArrived, LoadedBy>>
      /\ \A f \in Ew \ {e} : AuxArrived'[f] = AuxArrived[f]
      /\ \A f \in Ew : Past(f, AfterQ)' = Past(f, AfterQ) /\ Past(f, AfterMask)' = Past(f, AfterMask)
  BY <1>2, <1>4, EwOthers
<1>6. t \in Window
  BY <1>2, EwInWindow DEF AfterQ, AfterS, AfterLoad, AfterLoaded, AfterMask
<1> DEFINE b == Ring("aux_consumed", t)
<1>7. /\ \A name \in SingleNames : SingleStill(name)
      /\ \A g \in Families, s \in Window : g # "aux_consumed" \/ s # t =>
           /\ left'[Ring(g, s)] = left[Ring(g, s)]
           /\ \A v \in WaitersOf(Ring(g, s)) : Lag(v, Ring(g, s))' = Lag(v, Ring(g, s))
      /\ left[b] = 1 => left'[b] = NumEw /\ Lag(Tma, b)' = Lag(Tma, b) + 1
      /\ left[b] # 1 => left'[b] = left[b] - 1 /\ Lag(Tma, b)' = Lag(Tma, b)
      /\ seen' = seen
  <2>1. b \in Barriers /\ Arrivals[b] = NumEw /\ Tma \in WaitersOf(b)
    BY <1>1, BarrierNames, WaitersNamed DEF Arrivals, Ring
  <2>2. seen' = seen
    BY <1>1, <1>2, <2>1, ArriveAt, TypeParts
  <2>3. "aux_consumed" \in Families
    BY DEF Families
  <2>4. \A name \in SingleNames : SingleStill(name)
    BY <1>1, <1>2, <1>6, <2>3, ArriveInRing
  <2>5. \A g \in Families, s \in Window : g # "aux_consumed" \/ s # t =>
           /\ left'[Ring(g, s)] = left[Ring(g, s)]
           /\ \A v \in WaitersOf(Ring(g, s)) : Lag(v, Ring(g, s))' = Lag(v, Ring(g, s))
    BY <1>1, <1>2, <1>6, <2>3, ArriveInRing
  <2>6. left[b] = 1 => left'[b] = NumEw /\ Lag(Tma, b)' = Lag(Tma, b) + 1
    BY <1>1, <1>2, <1>6, <2>1, <2>3, ArriveInRing
  <2>7. left[b] # 1 => left'[b] = left[b] - 1 /\ Lag(Tma, b)' = Lag(Tma, b)
    BY <1>1, <1>2, <1>6, <2>1, <2>3, ArriveInRing
  <2> QED
    BY <2>2, <2>4, <2>5, <2>6, <2>7
<1>8. /\ Cardinality(Ahead(t, AuxArrived)) \in 0 .. NumEw - 1
      /\ Cardinality(Ahead(t, AuxArrived')) = Cardinality(Ahead(t, AuxArrived)) + 1
      /\ Cardinality(Ahead(t, AuxArrived)) = NumEw - 1 <=> \A f \in Ew : AuxArrived'[f] > t
  <2>1. \A f \in Ew : AuxArrived[f] \in Nat
    BY <1>1, EwProgress
  <2>2. AuxArrived = [f \in Ew |-> AuxArrived[f]]
    BY DEF AuxArrived
  <2> HIDE DEF AuxArrived
  <2>3. AuxArrived \in [Ew -> Nat]
    BY <2>1, <2>2
  <2>4. Cardinality(Ahead(t, AuxArrived)) \in 0 .. NumEw - 1
    BY <1>1, <1>4, <1>5, <2>3, OneMoreAhead
  <2>5. Cardinality(Ahead(t, AuxArrived')) = Cardinality(Ahead(t, AuxArrived)) + 1
    BY <1>1, <1>4, <1>5, <2>3, OneMoreAhead
  <2>6. Cardinality(Ahead(t, AuxArrived)) = NumEw - 1 <=> \A f \in Ew : AuxArrived'[f] > t
    BY <1>1, <1>4, <1>5, <2>3, OneMoreAhead
  <2> QED
    BY <2>4, <2>5, <2>6
<1>9. Order'
  BY <1>1, <1>3, <1>4, <1>5, TmaProgress DEF Order, Ew
<1>10. Flights'
  BY <1>1, <1>2, <1>3, <1>5, FlightsStill
<1>11. Rings'
  <2> SUFFICES ASSUME NEW s \in Window
               PROVE  QRing(s)' /\ MaskRing(s)' /\ ConsumedRing(s)' /\ AuxRing(s)'
    BY <1>3 DEF Rings
  <2>1. QRing(s) /\ MaskRing(s) /\ ConsumedRing(s) /\ AuxRing(s)
    BY <1>1 DEF Rings
  <2>2. s \in Nat
    BY <1>1, TmaProgress DEF Window
  <2>4. /\ UNCHANGED HalfLoaded(s) /\ QUp(s)' = QUp(s) /\ MaskUp(s)' = MaskUp(s)
        /\ ConsumedUp(s)' = ConsumedUp(s)
    BY <1>2, <1>3 DEF HalfLoaded, QUp, MaskUp, ConsumedUp, InFlight
  <2>5. QRing(s)'
    BY <1>3, <1>5, <1>7, <2>1, <2>4, WaitersNamed, Threads
       DEF QRing, Families, Flag, Ew, Ring, Lag, Mma
  <2>6. MaskRing(s)'
    BY <1>5, <1>7, <2>1, <2>4, WaitersNamed DEF MaskRing, Families, Flag, Ew, Ring, Lag
  <2>7. ConsumedRing(s)'
    BY <1>3, <1>7, <2>1, <2>4, WaitersNamed DEF ConsumedRing, Families, Flag, Ring, Lag, Tma
  <2>8. AuxRing(s)'
    <3>1. CASE s # t
      <4>1. \A f \in Ew : AuxArrived'[f] > s <=> AuxArrived[f] > s
        BY <1>1, <1>4, <1>5, <2>2, <3>1
      <4>2. AuxUp(s)' = AuxUp(s) /\ Ahead(s, AuxArrived)' = Ahead(s, AuxArrived)
        BY <4>1 DEF AuxUp, Ahead, Ew
      <4>3. AuxLeft(s)' = AuxLeft(s)
        BY <4>2 DEF AuxLeft
      <4> QED
        BY <1>7, <2>1, <3>1, <4>2, <4>3, WaitersNamed DEF AuxRing, Families, Flag, Ring, Lag, Tma
    <3>2. CASE s = t
      <4>1. ~AuxUp(t)
        BY <1>1, <1>4 DEF AuxUp
      <4>2. left[b] = NumEw - Cardinality(Ahead(t, AuxArrived)) /\ Lag(Tma, b) = 0
        BY <2>1, <3>2, <4>1 DEF AuxRing, AuxLeft, Flag
      <4>3. /\ AuxUp(s)' <=> \A f \in Ew : AuxArrived'[f] > t
            /\ Ahead(s, AuxArrived)' = Ahead(t, AuxArrived')
        BY <3>2 DEF AuxUp, Ahead, Ew
      <4>4. left'[b] = AuxLeft(s)' /\ Lag(Tma, b)' = Flag(AuxUp(s)')
        <5>1. CASE left[b] = 1
          <6>1. AuxUp(s)'
            BY <1>8, <4>2, <4>3, <5>1
          <6> QED
            BY <1>7, <4>2, <5>1, <6>1 DEF AuxLeft, Flag
        <5>2. CASE left[b] # 1
          <6>1. ~AuxUp(s)'
            BY <1>8, <4>2, <4>3, <5>2
          <6>2. AuxLeft(s)' = NumEw - Cardinality(Ahead(t, AuxArrived'))
            BY <4>3, <6>1 DEF AuxLeft
          <6>3. left'[b] = NumEw - (Cardinality(Ahead(t, AuxArrived)) + 1)
            BY <1>7, <1>8, <4>2, <5>2
          <6> QED
            BY <1>7, <1>8, <4>2, <5>2, <6>1, <6>2, <6>3 DEF Flag
        <5> QED
          BY <5>1, <5>2
      <4> QED
        BY <1>2, <3>2, <4>4 DEF AuxRing, Ring, Lag, Tma, Flag
    <3> QED
      BY <3>1, <3>2
  <2> QED
    BY <2>5, <2>6, <2>7, <2>8
<1>12. Singles' /\ Meetings' /\ EwFacts(e)'
  BY <1>1, <1>5, <1>7, SinglesStill, MeetingsStill, EwFactsKept DEF SingleNames
<1>13. /\ seen'[e][KV] = IF ewPc'[e] = "kv" THEN 0 ELSE 1
       /\ seen'[e][Only("s_ready")] = Past(e, AfterS)'
       /\ seen'[e][Only("loaded")] = LoadedSeen(e)'
       /\ seen'[e][Only("done")] = DoneSeen(e)'
  BY <1>1, <1>2, <1>4, <1>7 DEF Seen, KV
<1>14. \A name \in {"kv", "s_ready", "dq_ready", "dq_free", "done", "mma_order"} :
         done'[Only(name)] = done[Only(name)]
  BY <1>7 DEF SingleStill, SingleNames
<1>15. \A w \in Waiters \ {e} : seen'[w] = seen[w]
  BY <1>7
<1> QED
  BY <1>9, <1>10, <1>11, <1>12, <1>13, <1>14, <1>15, EwFrame

\* Steps of a warpgroup keep the barrier invariant.
LEMMA EwRings == FInv /\ (\E e \in Ew : ElementwiseWg(e)) => RingInv'
<1> SUFFICES ASSUME FInv, NEW e \in Ew, ElementwiseWg(e) PROVE RingInv'
  OBVIOUS
<1>1. CASE EwAwait(e)
  BY <1>1, EwWaits, EwQRings, EwMaskRings
<1> QED
  BY <1>1, EwLoadRings, EwStorePRings, EwStoreDsRings, EwReadyRings, EwWriteRings
     DEF ElementwiseWg
-----------------------------------------------------------------------------
\* The MMA warp.  Issued operations have smaller keys than the next ones.
LEMMA KeyBounds ==
  ASSUME TypeOK, MmaFacts, NEW op \in OpTypes, Issued(op)
  PROVE  /\ Key(op) \in Int
         /\ op[1] \in {"scores", "s_ready"} => Key(op) <= 12 * mmaScores - 11
         /\ op[1] = "dv" => Key(op) <= 12 * PSeen - 7
         /\ op[1] \in {"dk", "mma_order"} => Key(op) <= 12 * DkIssued - 5
         /\ op[1] \in {"dq", "dq_ready", "consumed"} =>
              Key(op) <= 12 * mmaStep + IF call.early THEN 4 ELSE -2
         /\ op[1] = "done" => Ending
         /\ op[1] \in {"scores", "dv", "dk", "dq", "s_ready", "mma_order", "dq_ready",
                       "consumed", "done"}
<1>1. /\ op[2] \in Nat /\ n \in Nat
      /\ op[1] \in {"scores", "dv", "dk", "dq", "s_ready", "mma_order", "dq_ready",
                    "consumed", "done"}
  BY CallType DEF TypeOK, OpTypes, Commits
<1>2. /\ mmaStep \in Nat /\ mmaScores \in Nat /\ DkIssued \in Nat /\ PSeen \in Nat
      /\ OrderIssued \in Nat /\ OrderIssued <= DkIssued
  BY MmaProgress DEF OrderIssued
<1>3. Key(op) \in Int
  BY <1>1 DEF Key
<1>4. ASSUME op[1] \in {"scores", "s_ready"} PROVE Key(op) <= 12 * mmaScores - 11
  <2>1. op[2] <= mmaScores - 1
    <3>1. CASE op[1] = "scores"
      BY <1>1, <1>2, <3>1 DEF Issued
    <3>2. CASE op[1] = "s_ready"
      BY <1>1, <1>2, <3>2 DEF Issued
    <3> QED
      BY <1>4, <3>1, <3>2
  <2>2. Key(op) <= 12 * op[2] + 1
    BY <1>1, <1>4 DEF Key
  <2> QED
    BY <1>1, <1>2, <1>3, <2>1, <2>2
<1>5. ASSUME op[1] = "dv" PROVE Key(op) <= 12 * PSeen - 7
  BY <1>1, <1>2, <1>5 DEF Key, Issued
<1>6. ASSUME op[1] \in {"dk", "mma_order"} PROVE Key(op) <= 12 * DkIssued - 5
  <2>1. op[2] <= DkIssued - 1
    <3>1. CASE op[1] = "dk"
      BY <1>1, <1>2, <3>1 DEF Issued
    <3>2. CASE op[1] = "mma_order"
      BY <1>1, <1>2, <3>2 DEF Issued
    <3> QED
      BY <1>6, <3>1, <3>2
  <2>2. Key(op) <= 12 * op[2] + 7
    BY <1>1, <1>6 DEF Key
  <2> QED
    BY <1>1, <1>2, <1>3, <2>1, <2>2
<1>7. ASSUME op[1] \in {"dq", "dq_ready", "consumed"}
      PROVE  Key(op) <= 12 * mmaStep + IF call.early THEN 4 ELSE -2
  <2>1. op[2] <= mmaStep - 1
    <3>1. CASE op[1] = "dq"
      BY <1>1, <1>2, <3>1 DEF Issued
    <3>2. CASE op[1] = "dq_ready"
      BY <1>1, <1>2, <3>2 DEF Issued
    <3>3. CASE op[1] = "consumed"
      BY <1>1, <1>2, <3>3 DEF Issued
    <3> QED
      BY <1>7, <3>1, <3>2, <3>3
  <2>2. Key(op) <= 12 * op[2] + IF call.early THEN 16 ELSE 10
    BY <1>1, <1>7 DEF Key
  <2> QED
    BY <1>1, <1>2, <1>3, <2>1, <2>2
<1>8. ASSUME op[1] = "done" PROVE Ending
  BY <1>8 DEF Issued
<1> QED
  BY <1>1, <1>3, <1>4, <1>5, <1>6, <1>7, <1>8

\* The sequences that the MMA warp appends.
LEMMA Tuples ==
  ASSUME NEW S
  PROVE  /\ \A a \in S : <<a>> \in Seq(S) /\ DOMAIN <<a>> = 1 .. 1 /\ ToSet(<<a>>) = {a}
         /\ \A a, b \in S : /\ <<a, b>> \in Seq(S) /\ DOMAIN <<a, b>> = 1 .. 2
                             /\ ToSet(<<a, b>>) = {a, b}
         /\ \A a, b, c \in S : /\ <<a, b, c>> \in Seq(S) /\ DOMAIN <<a, b, c>> = 1 .. 3
                                /\ ToSet(<<a, b, c>>) = {a, b, c}
<1>1. ASSUME NEW a \in S PROVE <<a>> \in Seq(S) /\ DOMAIN <<a>> = 1 .. 1 /\ ToSet(<<a>>) = {a}
  <2>1. <<a>> \in Seq(S) /\ DOMAIN <<a>> = 1 .. 1 /\ <<a>>[1] = a
    OBVIOUS
  <2> QED
    BY <2>1 DEF ToSet
<1>2. ASSUME NEW a \in S, NEW b \in S
      PROVE  /\ <<a, b>> \in Seq(S) /\ DOMAIN <<a, b>> = 1 .. 2
             /\ ToSet(<<a, b>>) = {a, b}
  <2> DEFINE u == <<a, b>>
  <2>1. u \in Seq(S) /\ DOMAIN u = 1 .. 2 /\ u[1] = a /\ u[2] = b
    OBVIOUS
  <2> HIDE DEF u
  <2>2. ToSet(u) = {a, b}
    BY <2>1 DEF ToSet
  <2> QED
    BY <2>1, <2>2 DEF u
<1>3. ASSUME NEW a \in S, NEW b \in S, NEW c \in S
      PROVE  /\ <<a, b, c>> \in Seq(S) /\ DOMAIN <<a, b, c>> = 1 .. 3
             /\ ToSet(<<a, b, c>>) = {a, b, c}
  <2> DEFINE u == <<a, b, c>>
  <2>1. u \in Seq(S) /\ DOMAIN u = 1 .. 3 /\ u[1] = a /\ u[2] = b /\ u[3] = c
    OBVIOUS
  <2> HIDE DEF u
  <2>2. ToSet(u) = {a, b, c}
    BY <2>1 DEF ToSet
  <2> QED
    BY <2>1, <2>2 DEF u
<1> QED
  BY <1>1, <1>2, <1>3

\* More work is issued.
LEMMA MmaIssues ==
  ASSUME FInv, UNCHANGED call, NEW u \in Seq(OpTypes), tc' = tc \o u,
         \A i, j \in DOMAIN u : i < j => Key(u[i]) < Key(u[j]),
         \A op \in OpTypes : Issued(op) => \A j \in DOMAIN u : Key(op) < Key(u[j]),
         \A op \in OpTypes : Issued(op) => Issued(op)',
         \A op \in ToSet(u) : Issued(op)',
         \A c \in Commits \X (0 .. n) : Issued(c)' => Issued(c) \/ c \in ToSet(u),
         \A op \in Ops \cup ToSet(u) : Newest(op)'
  PROVE  Queue' /\ Fifo' /\ Ops' = Ops \cup ToSet(u)
<1>1. /\ TypeOK /\ MmaFacts /\ Queue /\ Fifo /\ tc \in Seq(OpTypes)
  BY TypeParts DEF FInv, RingInv, PcFacts, WorkTypes
<1>2. Ops \subseteq OpTypes
  BY <1>1 DEF Ops, ToSet
<1>3. ToSet(u) \subseteq OpTypes
  BY DEF ToSet
<1>4. \A op \in Ops : Issued(op) /\ \A j \in DOMAIN u : Key(op) < Key(u[j])
  BY <1>1, <1>2 DEF Queue
<1>5. Ops' = Ops \cup ToSet(u) /\ Sorted'
  BY <1>1, <1>4, QueueGrows DEF Queue
<1>6. Queue'
  BY <1>2, <1>3, <1>4, <1>5 DEF Queue
<1>7. Fifo'
  <2> SUFFICES ASSUME NEW op \in Ops', op[1] \notin Commits, NEW c \in Commits \X (0 .. n),
                      Issued(c)', c \notin Ops'
               PROVE  Key(c) < Key(op)
    <3>1. n' = n /\ \A op : Key(op)' = Key(op)
      BY DEF n, Key
    <3> QED
      BY <3>1 DEF Fifo, Commits
  <2>1. Issued(c) /\ c \notin Ops
    BY <1>5
  <2>2. CASE op \in Ops
    BY <1>1, <2>1, <2>2 DEF Fifo
  <2>3. CASE op \in ToSet(u)
    <3>1. PICK j \in DOMAIN u : op = u[j]
      BY <2>3 DEF ToSet
    <3>2. c \in OpTypes
      BY DEF OpTypes
    <3> QED
      BY <2>1, <3>1, <3>2
  <2> QED
    BY <1>5, <2>2, <2>3
<1> QED
  BY <1>5, <1>6, <1>7

\* What is left of RingInv to prove for a step of the MMA warp.
LEMMA MmaFrame ==
  ASSUME FInv, MmaWarp, MmaFacts', Queue', Fifo', Singles', Rings', Flights', Order',
         left' = left, done' = done, \A w \in Waiters \ {Mma} : seen'[w] = seen[w],
         /\ mmaScores' - Queued("s_ready")' = mmaScores - Queued("s_ready")
         /\ OrderIssued' - Queued("mma_order")' = OrderIssued - Queued("mma_order")
         /\ mmaStep' - Queued("dq_ready")' = mmaStep - Queued("dq_ready")
         /\ (IF Ending THEN 1 - Queued("done") ELSE 0)' = IF Ending THEN 1 - Queued("done") ELSE 0,
         /\ seen'[Mma][KV] = IF mmaPc' = "kv" THEN 0 ELSE 1
         /\ seen'[Mma][Only("p_ready")] = PSeen'
         /\ seen'[Mma][Only("ds_ready")] = DsSeen'
         /\ seen'[Mma][Only("dq_free")] = DqFreeSeen'
         /\ seen'[Mma][Only("mma_order")] = OrderSeen'
  PROVE  RingInv'
<1>1. /\ TypeOK /\ PcFacts /\ Counts /\ Seen /\ Meetings
      /\ TmaFacts /\ MmaFacts /\ DqFacts /\ \A e \in Ew : EwFacts(e)
  BY DEF FInv, RingInv, PcFacts
<1>2. UNCHANGED <<call, tmaVars, ewVars, dqVars, copies>>
  BY DEF MmaWarp
<1>3. tmaPc' = tmaPc /\ ewPc' = ewPc
  BY <1>2 DEF tmaVars, ewVars
<1>4. PcFacts'
  <2>1. TmaFacts' /\ DqFacts'
    BY <1>1, <1>2, TmaStill, DqStill
  <2>2. \A e \in Ew : EwFacts(e)'
    BY <1>1, <1>2, EwAllStill
  <2> QED
    BY <2>1, <2>2 DEF PcFacts, Ew
<1>5. Counts'
  <2>1. UNCHANGED <<KvLanded, DqFreed>>
    BY <1>2, <1>3, DqStill DEF KvLanded, KV, Only
  <2> QED
    BY <1>1, <1>2, <1>3, <2>1 DEF Counts, KV, Only
<1>6. Seen'
  <2>1. seen'[Dq] = seen[Dq] /\ \A e \in Ew : seen'[e] = seen[e]
    BY Threads
  <2>2. UNCHANGED DqSeen /\ \A e \in Ew : /\ Past(e, AfterS)' = Past(e, AfterS)
                                          /\ UNCHANGED <<LoadedSeen(e), DoneSeen(e)>>
    BY <1>2, DqStill, EwAllStill
  <2>3. /\ seen'[Dq][Only("dq_ready")] = DqSeen'
        /\ \A e \in Ew :
             /\ seen'[e][KV] = IF ewPc'[e] = "kv" THEN 0 ELSE 1
             /\ seen'[e][Only("s_ready")] = Past(e, AfterS)'
             /\ seen'[e][Only("loaded")] = LoadedSeen(e)'
             /\ seen'[e][Only("done")] = DoneSeen(e)'
    BY <1>1, <1>3, <2>1, <2>2 DEF Seen
  <2> QED
    BY <2>3 DEF Seen, KV, Only, Ew, Mma, Dq
<1>7. Meetings'
  <2>1. UNCHANGED <<PArrived, DsArrived, LoadedBy>>
    BY <1>2, EwAllStill
  <2> QED
    BY <1>1, <2>1 DEF Meetings, Met, Ahead, Ew, Only
<1> QED
  BY <1>4, <1>5, <1>6, <1>7 DEF RingInv

\* The MMA warp off the rings: the slots it is to release are still taken.
LEMMA MmaOffRings ==
  ASSUME FInv, MmaWarp, RingBarriersStill, mmaScores' = mmaScores, mmaStep' >= mmaStep,
         mmaStep' \in Nat, \A s \in Nat : ConsumedUp(s)' = ConsumedUp(s)
  PROVE  Rings' /\ Flights' /\ Order'
<1>1. /\ TypeOK /\ TmaFacts /\ MmaFacts /\ Rings /\ Flights /\ Order
  BY DEF FInv, RingInv, PcFacts
<1>2. UNCHANGED <<call, tmaVars, ewVars, copies>>
  BY DEF MmaWarp
<1>3. UNCHANGED <<Requested, CFree, AFree, Window>>
  BY <1>2, TmaStill
<1>4. /\ AuxArrived' = AuxArrived
      /\ \A f \in Ew : Past(f, AfterQ)' = Past(f, AfterQ) /\ Past(f, AfterMask)' = Past(f, AfterMask)
  BY <1>2, EwAllStill
<1>5. Flights'
  BY <1>1, <1>2, <1>3, <1>4, FlightsStill
<1>6. Order'
  BY <1>1, <1>3, <1>4, TmaProgress, MmaProgress DEF Order, Ew
<1>7. Rings'
  <2> SUFFICES ASSUME NEW s \in Window
               PROVE  QRing(s)' /\ MaskRing(s)' /\ ConsumedRing(s)' /\ AuxRing(s)'
    BY <1>3 DEF Rings
  <2>1. QRing(s) /\ MaskRing(s) /\ ConsumedRing(s) /\ AuxRing(s)
    BY <1>1 DEF Rings
  <2>2. s \in Nat
    BY <1>1, TmaProgress DEF Window
  <2>3. \A f \in Families :
          /\ left'[Ring(f, s)] = left[Ring(f, s)]
          /\ \A w \in WaitersOf(Ring(f, s)) : Lag(w, Ring(f, s))' = Lag(w, Ring(f, s))
    BY <2>2 DEF RingBarriersStill
  <2>4. /\ UNCHANGED HalfLoaded(s) /\ QUp(s)' = QUp(s) /\ MaskUp(s)' = MaskUp(s)
        /\ ConsumedUp(s)' = ConsumedUp(s)
    BY <1>2, <1>3, <2>2 DEF HalfLoaded, QUp, MaskUp, InFlight
  <2>5. AuxUp(s)' = AuxUp(s) /\ UNCHANGED AuxLeft(s)
    BY <1>4 DEF AuxUp, AuxLeft, Ahead, Ew
  <2>6. QRing(s)'
    BY <1>4, <2>1, <2>3, <2>4, WaitersNamed DEF QRing, Families, Flag, Ew, Ring, Lag, Mma
  <2>7. MaskRing(s)'
    BY <1>4, <2>1, <2>3, <2>4, WaitersNamed DEF MaskRing, Families, Flag, Ew, Ring, Lag
  <2>8. ConsumedRing(s)'
    BY <1>3, <2>1, <2>3, <2>4, WaitersNamed DEF ConsumedRing, Families, Flag, Ring, Lag, Tma
  <2>9. AuxRing(s)'
    BY <2>1, <2>3, <2>5, WaitersNamed DEF AuxRing, Families, Flag, Ring, Lag, Tma
  <2> QED
    BY <2>6, <2>7, <2>8, <2>9
<1> QED
  BY <1>5, <1>6, <1>7

\* The waits that issue nothing.
LEMMA MmaWaitsSingle ==
  ASSUME FInv, MmaWarp, NEW name \in {"kv", "mma_order", "dq_free"}, Await(Mma, Only(name)),
         UNCHANGED <<mmaStep, mmaScores, tc>>, MmaFacts',
         UNCHANGED <<DkIssued, PSeen, DsSeen, OrderIssued>>, Ending' = Ending,
         (mmaPc = "kv") <=> name = "kv", mmaPc' # "kv",
         DqFreeSeen' = DqFreeSeen + Flag(name = "dq_free"),
         OrderSeen' = OrderSeen + Flag(name = "mma_order")
  PROVE  RingInv'
<1>1. /\ TypeOK /\ TmaFacts /\ MmaFacts /\ Queue /\ Fifo /\ Seen
  BY DEF FInv, RingInv, PcFacts
<1>2. UNCHANGED <<call, tmaVars, copies>> /\ n' = n
  BY DEF MmaWarp, n
<1>3. name \in SingleNames /\ Mma \in WaitersOf(Only(name)) /\ Mma \in Waiters
  BY WaitersNamed, Threads DEF SingleNames, KV
<1>4. /\ seen'[Mma][Only(name)] = seen[Mma][Only(name)] + 1
      /\ \A v \in Waiters \ {Mma} : seen'[v] = seen[v]
      /\ done' = done /\ left' = left /\ Singles' /\ RingBarriersStill
      /\ \A other \in SingleNames \ {name} : SingleStill(other)
  BY <1>3, SingleAwaited
<1>5. Ops' = Ops /\ \A op : (Key(op)' = Key(op)) /\ (Issued(op)' <=> Issued(op))
  BY <1>2 DEF Ops, ToSet, Key, Issued
<1>6. \A other : UNCHANGED Queued(other)
  BY <1>5 DEF Queued
<1>7. CFree' = CFree
  BY <1>2, TmaStill
<1>8. Queue' /\ Fifo'
  <2>1. \A op : Newest(op)' <=> Newest(op)
    BY <1>7 DEF Newest
  <2>2. Sorted'
    BY <1>1, <1>5 DEF Queue, Sorted
  <2>3. Queue'
    BY <1>1, <1>5, <2>1, <2>2 DEF Queue
  <2>4. Fifo'
    BY <1>1, <1>2, <1>5 DEF Fifo, Commits
  <2> QED
    BY <2>3, <2>4
<1>9. mmaStep \in Nat
  BY <1>1, MmaProgress
<1>10. \A s \in Nat : ConsumedUp(s)' = ConsumedUp(s)
  BY <1>5 DEF ConsumedUp
<1>11. Rings' /\ Flights' /\ Order'
  BY <1>4, <1>9, <1>10, MmaOffRings
<1>12. \A other \in {"kv", "p_ready", "ds_ready", "dq_free", "mma_order"} \ {name} :
         seen'[Mma][Only(other)] = seen[Mma][Only(other)]
  <2>1. \A other \in {"kv", "p_ready", "ds_ready", "dq_free", "mma_order"} :
          other \in SingleNames /\ Mma \in WaitersOf(Only(other))
    BY WaitersNamed DEF SingleNames, KV
  <2> QED
    BY <1>4, <2>1 DEF SingleStill
<1>13. /\ seen[Mma][KV] = IF mmaPc = "kv" THEN 0 ELSE 1
       /\ seen[Mma][Only("p_ready")] = PSeen
       /\ seen[Mma][Only("ds_ready")] = DsSeen
       /\ seen[Mma][Only("dq_free")] = DqFreeSeen
       /\ seen[Mma][Only("mma_order")] = OrderSeen
  BY <1>1 DEF Seen
<1>14. DqFreeSeen \in Nat /\ OrderSeen \in Nat
  BY <1>1, MmaProgress
<1>15. /\ seen'[Mma][KV] = IF mmaPc' = "kv" THEN 0 ELSE 1
       /\ seen'[Mma][Only("p_ready")] = PSeen'
       /\ seen'[Mma][Only("ds_ready")] = DsSeen'
       /\ seen'[Mma][Only("dq_free")] = DqFreeSeen'
       /\ seen'[Mma][Only("mma_order")] = OrderSeen'
  <2>1. CASE name = "kv"
    BY <1>4, <1>12, <1>13, <1>14, <2>1 DEF Flag, KV
  <2>2. CASE name = "mma_order"
    BY <1>4, <1>12, <1>13, <1>14, <2>2 DEF Flag, KV
  <2>3. CASE name = "dq_free"
    BY <1>4, <1>12, <1>13, <1>14, <2>3 DEF Flag, KV
  <2> QED
    BY <2>1, <2>2, <2>3
<1> QED
  BY <1>4, <1>6, <1>8, <1>11, <1>15, MmaFrame

\* The waits of the MMA warp that issue nothing.
LEMMA MmaAwaitRings == FInv /\ MmaWarp /\ MmaAwait => RingInv'
<1> SUFFICES ASSUME FInv, MmaWarp, MmaAwait PROVE RingInv'
  OBVIOUS
<1>1. TypeOK /\ MmaFacts /\ n \in Nat /\ mmaStep \in 0 .. n /\ mmaScores \in 0 .. n
  BY FInvParts
<1>2. UNCHANGED <<mmaStep, mmaScores, tc, call>> /\ n' = n
  BY DEF MmaWarp, MmaAwait, n
<1>3. CASE MmaWait("kv", KV, IF call.early /\ n > 0 THEN "scores" ELSE MmaTop(0))
  <2>1. /\ mmaPc = "kv" /\ Await(Mma, Only("kv")) /\ mmaStep = 0 /\ mmaScores = 0
        /\ mmaPc' = IF n = 0 THEN "done" ELSE "scores"
    BY <1>1, <1>3 DEF MmaWait, MmaFacts, MmaTop, ScoresPc, KV
  <2>2. MmaFacts'
    BY <1>1, <1>2, <2>1 DEF MmaFacts
  <2>3. UNCHANGED <<DkIssued, PSeen, DsSeen, OrderIssued, DqFreeSeen, OrderSeen>> /\ Ending' = Ending
    BY <1>1, <1>2, <2>1 DEF DkIssued, PSeen, DsSeen, OrderIssued, DqFreeSeen, OrderSeen, Ending, PastDk
  <2>4. DqFreeSeen \in Nat /\ OrderSeen \in Nat
    BY <1>1, MmaProgress
  <2> QED
    BY <1>2, <2>1, <2>2, <2>3, <2>4, MmaWaitsSingle DEF Flag
<1>4. CASE MmaWait("order", Only("mma_order"), "scores")
  <2>1. mmaPc = "order" /\ Await(Mma, Only("mma_order")) /\ mmaPc' = "scores"
    BY <1>4 DEF MmaWait
  <2>2. MmaFacts'
    BY <1>1, <1>2, <2>1 DEF MmaFacts
  <2>3. UNCHANGED <<DkIssued, PSeen, DsSeen, OrderIssued, DqFreeSeen>> /\ Ending' = Ending
        /\ OrderSeen' = OrderSeen + 1
    BY <1>1, <1>2, <2>1
       DEF DkIssued, PSeen, DsSeen, OrderIssued, DqFreeSeen, OrderSeen, Ending, PastDk, MmaFacts
  <2>4. DqFreeSeen \in Nat /\ OrderSeen \in Nat
    BY <1>1, MmaProgress
  <2> QED
    BY <1>2, <2>1, <2>2, <2>3, <2>4, MmaWaitsSingle DEF Flag
<1>5. CASE MmaWait("dq_free", Only("dq_free"), "dq")
  <2>1. mmaPc = "dq_free" /\ Await(Mma, Only("dq_free")) /\ mmaPc' = "dq"
    BY <1>5 DEF MmaWait
  <2>2. MmaFacts'
    BY <1>1, <1>2, <2>1 DEF MmaFacts
  <2>3. UNCHANGED <<DkIssued, PSeen, DsSeen, OrderIssued, OrderSeen>> /\ Ending' = Ending
        /\ DqFreeSeen' = DqFreeSeen + 1
    BY <1>1, <1>2, <2>1
       DEF DkIssued, PSeen, DsSeen, OrderIssued, DqFreeSeen, OrderSeen, Ending, PastDk, MmaFacts
  <2>4. DqFreeSeen \in Nat /\ OrderSeen \in Nat
    BY <1>1, MmaProgress
  <2> QED
    BY <1>2, <2>1, <2>2, <2>3, <2>4, MmaWaitsSingle DEF Flag
<1>6. CASE MmaWait("last_free", Only("dq_free"), IF call.serialize THEN "last_order" ELSE "done")
  <2>1. /\ mmaPc = "last_free" /\ Await(Mma, Only("dq_free"))
        /\ mmaPc' = IF call.serialize THEN "last_order" ELSE "done"
    BY <1>6 DEF MmaWait
  <2>2. MmaFacts'
    BY <1>1, <1>2, <2>1 DEF MmaFacts
  <2>3. UNCHANGED <<DkIssued, PSeen, DsSeen, OrderIssued, OrderSeen>> /\ Ending' = Ending
        /\ DqFreeSeen' = DqFreeSeen + 1
    BY <1>1, <1>2, <2>1
       DEF DkIssued, PSeen, DsSeen, OrderIssued, DqFreeSeen, OrderSeen, Ending, PastDk, MmaFacts
  <2>4. DqFreeSeen \in Nat /\ OrderSeen \in Nat
    BY <1>1, MmaProgress
  <2> QED
    BY <1>2, <2>1, <2>2, <2>3, <2>4, MmaWaitsSingle DEF Flag
<1>7. CASE MmaWait("last_order", Only("mma_order"), "done")
  <2>1. mmaPc = "last_order" /\ Await(Mma, Only("mma_order")) /\ mmaPc' = "done"
    BY <1>7 DEF MmaWait
  <2>2. MmaFacts'
    BY <1>1, <1>2, <2>1 DEF MmaFacts
  <2>3. UNCHANGED <<DkIssued, PSeen, DsSeen, OrderIssued, DqFreeSeen>> /\ Ending' = Ending
        /\ OrderSeen' = OrderSeen + 1
    BY <1>1, <1>2, <2>1
       DEF DkIssued, PSeen, DsSeen, OrderIssued, DqFreeSeen, OrderSeen, Ending, PastDk, MmaFacts
  <2>4. DqFreeSeen \in Nat /\ OrderSeen \in Nat
    BY <1>1, MmaProgress
  <2> QED
    BY <1>2, <2>1, <2>2, <2>3, <2>4, MmaWaitsSingle DEF Flag
<1> QED
  BY <1>3, <1>4, <1>5, <1>6, <1>7 DEF MmaAwait

\* What issuing the operations u does to the counts of what was issued.
Issues(u) ==
  /\ tc' = tc \o u
  /\ \A i, j \in DOMAIN u : i < j => Key(u[i]) < Key(u[j])
  /\ \A op \in ToSet(u) :
       /\ Issued(op)' /\ Newest(op)'
       /\ op[1] = "s_ready" => op[2] = mmaScores
       /\ op[1] = "mma_order" => op[2] = OrderIssued
       /\ op[1] \in {"dq_ready", "consumed"} => op[2] = mmaStep
       /\ op[1] = "done" => ~Ending
  /\ mmaScores' # mmaScores =>
       /\ mmaScores' = mmaScores + 1 /\ Queued("s_ready") = 0
       /\ <<"s_ready", mmaScores>> \in ToSet(u)
  /\ OrderIssued' # OrderIssued =>
       /\ OrderIssued' = OrderIssued + 1 /\ Queued("mma_order") = 0
       /\ <<"mma_order", OrderIssued>> \in ToSet(u)
  /\ mmaStep' # mmaStep =>
       /\ mmaStep' = mmaStep + 1 /\ Queued("dq_ready") = 0
       /\ {<<"dq_ready", mmaStep>>, <<"consumed", mmaStep>>} \subseteq ToSet(u)
  /\ PSeen' >= PSeen /\ DkIssued' >= DkIssued
  /\ Ending => Ending'
  /\ ~Ending /\ Ending' => Queued("done") = 0 /\ <<"done", n>> \in ToSet(u)

\* Issued, by the name of the work.
LEMMA IssuedWhen ==
  ASSUME NEW op \in OpTypes, n \in Nat,
         mmaScores \in Nat, PSeen \in Nat, DkIssued \in Nat, OrderIssued \in Nat, mmaStep \in Nat
  PROVE  /\ op[1] \in {"scores", "s_ready"} => (Issued(op) <=> op[2] < mmaScores)
         /\ op[1] = "dv" => (Issued(op) <=> op[2] < PSeen)
         /\ op[1] = "dk" => (Issued(op) <=> op[2] < DkIssued)
         /\ op[1] = "mma_order" => (Issued(op) <=> op[2] < OrderIssued)
         /\ op[1] \in {"dq", "dq_ready", "consumed"} => (Issued(op) <=> op[2] < mmaStep)
         /\ op[1] = "done" => (Issued(op) <=> Ending /\ op[2] = n)
         /\ op[1] \in {"scores", "s_ready", "dv", "dk", "mma_order", "dq", "dq_ready", "consumed",
                       "done"}
<1>1. op[2] \in Nat /\ op[1] \in {"scores", "s_ready", "dv", "dk", "mma_order", "dq", "dq_ready",
                                  "consumed", "done"}
  BY DEF OpTypes, Commits
<1>2. op[1] = "scores" => (Issued(op) <=> op[2] < mmaScores)
  BY <1>1 DEF Issued
<1>3. op[1] = "s_ready" => (Issued(op) <=> op[2] < mmaScores)
  BY <1>1 DEF Issued
<1>4. op[1] = "dv" => (Issued(op) <=> op[2] < PSeen)
  BY <1>1 DEF Issued
<1>5. op[1] = "dk" => (Issued(op) <=> op[2] < DkIssued)
  BY <1>1 DEF Issued
<1>6. op[1] = "mma_order" => (Issued(op) <=> op[2] < OrderIssued)
  BY <1>1 DEF Issued
<1>7. op[1] = "dq" => (Issued(op) <=> op[2] < mmaStep)
  BY <1>1 DEF Issued
<1>8. op[1] = "dq_ready" => (Issued(op) <=> op[2] < mmaStep)
  BY <1>1 DEF Issued
<1>9. op[1] = "consumed" => (Issued(op) <=> op[2] < mmaStep)
  BY <1>1 DEF Issued
<1>10. op[1] = "done" => (Issued(op) <=> Ending /\ op[2] = n)
  BY <1>1 DEF Issued
<1> QED
  BY <1>1, <1>2, <1>3, <1>4, <1>5, <1>6, <1>7, <1>8, <1>9, <1>10

\* The same in the next state.
LEMMA IssuedThen ==
  ASSUME NEW op \in OpTypes, n' = n, n \in Nat,
         mmaScores' \in Nat, PSeen' \in Nat, DkIssued' \in Nat, OrderIssued' \in Nat,
         mmaStep' \in Nat
  PROVE  /\ op[1] \in {"scores", "s_ready"} => (Issued(op)' <=> op[2] < mmaScores')
         /\ op[1] = "dv" => (Issued(op)' <=> op[2] < PSeen')
         /\ op[1] = "dk" => (Issued(op)' <=> op[2] < DkIssued')
         /\ op[1] = "mma_order" => (Issued(op)' <=> op[2] < OrderIssued')
         /\ op[1] \in {"dq", "dq_ready", "consumed"} => (Issued(op)' <=> op[2] < mmaStep')
         /\ op[1] = "done" => (Issued(op)' <=> Ending' /\ op[2] = n)
<1>1. op[2] \in Nat /\ op[1] \in {"scores", "s_ready", "dv", "dk", "mma_order", "dq", "dq_ready",
                                  "consumed", "done"}
  BY DEF OpTypes, Commits
<1>2. op[1] = "scores" => (Issued(op)' <=> op[2] < mmaScores')
  BY <1>1 DEF Issued
<1>3. op[1] = "s_ready" => (Issued(op)' <=> op[2] < mmaScores')
  BY <1>1 DEF Issued
<1>4. op[1] = "dv" => (Issued(op)' <=> op[2] < PSeen')
  BY <1>1 DEF Issued
<1>5. op[1] = "dk" => (Issued(op)' <=> op[2] < DkIssued')
  BY <1>1 DEF Issued
<1>6. op[1] = "mma_order" => (Issued(op)' <=> op[2] < OrderIssued')
  BY <1>1 DEF Issued
<1>7. op[1] = "dq" => (Issued(op)' <=> op[2] < mmaStep')
  BY <1>1 DEF Issued
<1>8. op[1] = "dq_ready" => (Issued(op)' <=> op[2] < mmaStep')
  BY <1>1 DEF Issued
<1>9. op[1] = "consumed" => (Issued(op)' <=> op[2] < mmaStep')
  BY <1>1 DEF Issued
<1>10. op[1] = "done" => (Issued(op)' <=> Ending' /\ op[2] = n)
  BY <1>1 DEF Issued
<1> QED
  BY <1>1, <1>2, <1>3, <1>4, <1>5, <1>6, <1>7, <1>8, <1>9, <1>10

\* The counts of issued work are naturals in the next state.
LEMMA CountsThen ==
  ASSUME mmaStep' \in Nat
  PROVE  DkIssued' \in Nat /\ PSeen' \in Nat /\ OrderIssued' \in Nat
<1>1. DkIssued' \in {mmaStep', mmaStep' + 1}
  BY DEF DkIssued
<1>2. PSeen' \in {mmaStep' + 1, DkIssued'}
  BY DEF PSeen
<1>3. OrderIssued' \in {0, DkIssued'}
  BY DEF OrderIssued
<1>4. \A i \in Nat : i + 1 \in Nat
  OBVIOUS
<1>5. mmaStep' + 1 \in Nat
  BY <1>4
<1>6. DkIssued' \in Nat
  BY <1>1, <1>5
<1>7. PSeen' \in Nat
  BY <1>2, <1>5, <1>6
<1>8. OrderIssued' \in Nat
  BY <1>3, <1>6
<1> QED
  BY <1>6, <1>7, <1>8

\* Work with larger keys than what was issued joins the queue.
LEMMA MmaIssuesMore ==
  ASSUME FInv, MmaWarp, MmaFacts', NEW u \in Seq(OpTypes), Issues(u),
         \A op \in OpTypes : Issued(op) => \A j \in DOMAIN u : Key(op) < Key(u[j])
  PROVE  /\ Queue' /\ Fifo' /\ Ops' = Ops \cup ToSet(u)
         /\ mmaScores' - Queued("s_ready")' = mmaScores - Queued("s_ready")
         /\ OrderIssued' - Queued("mma_order")' = OrderIssued - Queued("mma_order")
         /\ mmaStep' - Queued("dq_ready")' = mmaStep - Queued("dq_ready")
         /\ (IF Ending THEN 1 - Queued("done") ELSE 0)' = IF Ending THEN 1 - Queued("done") ELSE 0
<1>1. TypeOK /\ MmaFacts /\ TmaFacts /\ Queue /\ Order /\ n \in Nat
  BY FInvParts
<1>2. UNCHANGED <<call, tmaVars>> /\ n' = n /\ CFree' = CFree /\ CFree \in Nat
  BY <1>1, TmaStill, TmaProgress DEF MmaWarp
<1>3. /\ mmaScores \in Nat /\ PSeen \in Nat /\ DkIssued \in Nat /\ OrderIssued \in Nat
      /\ mmaStep \in Nat
  BY <1>1, MmaProgress
<1>4. TypeOK'
  BY MmaTypes
<1>5. /\ mmaScores' \in Nat /\ mmaStep' \in Nat /\ DkIssued' \in Nat /\ PSeen' \in Nat
      /\ OrderIssued' \in Nat
  <2>1. mmaScores' \in Nat /\ mmaStep' \in Nat
    BY <1>3 DEF Issues
  <2> QED
    BY <2>1, CountsThen
<1>6. /\ mmaScores' >= mmaScores /\ OrderIssued' >= OrderIssued /\ mmaStep' >= mmaStep
      /\ PSeen' >= PSeen /\ DkIssued' >= DkIssued /\ (Ending => Ending')
  BY <1>3 DEF Issues
<1>7. ASSUME NEW op \in OpTypes, Issued(op) PROVE Issued(op)'
  <2>1. op[2] \in Nat
    BY DEF OpTypes
  <2> QED
    BY <1>1, <1>2, <1>3, <1>5, <1>6, <1>7, <2>1, IssuedWhen, IssuedThen
<1>8. ASSUME NEW c \in Commits \X (0 .. n), Issued(c)', ~Issued(c) PROVE c \in ToSet(u)
  <2>1. /\ c \in OpTypes /\ c = <<c[1], c[2]>> /\ c[2] \in Nat
        /\ c[1] \in {"s_ready", "mma_order", "dq_ready", "consumed", "done"}
    BY <1>1 DEF OpTypes, Commits
  <2>2. CASE c[1] = "s_ready"
    <3>1. c[2] < mmaScores' /\ ~(c[2] < mmaScores)
      BY <1>1, <1>2, <1>3, <1>5, <1>8, <2>1, <2>2, IssuedWhen, IssuedThen
    <3>2. mmaScores' = mmaScores + 1 /\ <<"s_ready", mmaScores>> \in ToSet(u)
      BY <3>1 DEF Issues
    <3>3. c[2] = mmaScores
      BY <1>3, <2>1, <3>1, <3>2
    <3> QED
      BY <2>1, <2>2, <3>2, <3>3
  <2>3. CASE c[1] = "mma_order"
    <3>1. c[2] < OrderIssued' /\ ~(c[2] < OrderIssued)
      BY <1>1, <1>2, <1>3, <1>5, <1>8, <2>1, <2>3, IssuedWhen, IssuedThen
    <3>2. OrderIssued' = OrderIssued + 1 /\ <<"mma_order", OrderIssued>> \in ToSet(u)
      BY <3>1 DEF Issues
    <3>3. c[2] = OrderIssued
      BY <1>3, <2>1, <3>1, <3>2
    <3> QED
      BY <2>1, <2>3, <3>2, <3>3
  <2>4. CASE c[1] \in {"dq_ready", "consumed"}
    <3>1. c[2] < mmaStep' /\ ~(c[2] < mmaStep)
      BY <1>1, <1>2, <1>3, <1>5, <1>8, <2>1, <2>4, IssuedWhen, IssuedThen
    <3>2. mmaStep' = mmaStep + 1 /\ <<"dq_ready", mmaStep>> \in ToSet(u)
          /\ <<"consumed", mmaStep>> \in ToSet(u)
      BY <3>1 DEF Issues
    <3>3. c[2] = mmaStep
      BY <1>3, <2>1, <3>1, <3>2
    <3> QED
      BY <2>1, <2>4, <3>2, <3>3
  <2>5. CASE c[1] = "done"
    <3>1. Ending' /\ c[2] = n /\ ~Ending
      BY <1>1, <1>2, <1>3, <1>5, <1>8, <2>1, <2>5, IssuedWhen, IssuedThen
    <3> QED
      BY <2>1, <2>5, <3>1 DEF Issues
  <2> QED
    BY <2>1, <2>2, <2>3, <2>4, <2>5
<1>9. ASSUME NEW op \in Ops \cup ToSet(u) PROVE Newest(op)'
  <2>1. CASE op \in ToSet(u)
    BY <2>1 DEF Issues
  <2>2. CASE op \in Ops
    <3>1. Newest(op) /\ \A name : Queued(name) = 0 => op[1] # name
      BY <1>1, <2>2 DEF Queue, Queued
    <3>2. op[1] = "s_ready" => op[2] = mmaScores' - 1
      BY <3>1 DEF Newest, Issues
    <3>3. op[1] = "mma_order" => op[2] = OrderIssued' - 1
      BY <3>1 DEF Newest, Issues
    <3>4. op[1] = "dq_ready" => op[2] = mmaStep' - 1
      BY <3>1 DEF Newest, Issues
    <3>5. op[1] = "consumed" => op[2] >= CFree'
      BY <1>2, <3>1 DEF Newest
    <3> QED
      BY <3>2, <3>3, <3>4, <3>5 DEF Newest
  <2> QED
    BY <2>1, <2>2
<1>10. Queue' /\ Fifo' /\ Ops' = Ops \cup ToSet(u)
  <2>1. /\ tc' = tc \o u
        /\ \A i, j \in DOMAIN u : i < j => Key(u[i]) < Key(u[j])
        /\ \A op \in ToSet(u) : Issued(op)'
    BY DEF Issues
  <2> QED
    BY <1>2, <1>7, <1>8, <1>9, <2>1, MmaIssues
<1>11. ASSUME NEW name PROVE /\ (\E op \in ToSet(u) : op[1] = name) => Queued(name)' = 1
                             /\ (~\E op \in ToSet(u) : op[1] = name) => Queued(name)' = Queued(name)
  BY <1>10 DEF Queued
<1>12. ASSUME NEW op \in ToSet(u)
       PROVE  /\ op[1] = "s_ready" => mmaScores' # mmaScores
              /\ op[1] = "mma_order" => OrderIssued' # OrderIssued
              /\ op[1] = "dq_ready" => mmaStep' # mmaStep
              /\ op[1] = "done" => ~Ending /\ Ending'
  <2>1. op \in OpTypes /\ op[2] \in Nat
    BY DEF ToSet, OpTypes
  <2>2. /\ Issued(op)'
        /\ op[1] = "s_ready" => op[2] = mmaScores
        /\ op[1] = "mma_order" => op[2] = OrderIssued
        /\ op[1] \in {"dq_ready", "consumed"} => op[2] = mmaStep
        /\ op[1] = "done" => ~Ending
    BY DEF Issues
  <2>3. /\ op[1] = "s_ready" => op[2] < mmaScores'
        /\ op[1] = "mma_order" => op[2] < OrderIssued'
        /\ op[1] = "dq_ready" => op[2] < mmaStep'
        /\ op[1] = "done" => Ending'
    BY <1>1, <1>2, <1>5, <2>1, <2>2, IssuedThen
  <2> QED
    BY <1>3, <2>1, <2>2, <2>3
<1>13. mmaScores' - Queued("s_ready")' = mmaScores - Queued("s_ready")
  <2>1. CASE mmaScores' = mmaScores
    BY <1>11, <1>12, <2>1
  <2>2. CASE mmaScores' # mmaScores
    <3>1. /\ mmaScores' = mmaScores + 1 /\ Queued("s_ready") = 0
          /\ <<"s_ready", mmaScores>> \in ToSet(u)
      BY <2>2 DEF Issues
    <3> QED
      BY <1>3, <1>11, <3>1
  <2> QED
    BY <2>1, <2>2
<1>14. OrderIssued' - Queued("mma_order")' = OrderIssued - Queued("mma_order")
  <2>1. CASE OrderIssued' = OrderIssued
    BY <1>11, <1>12, <2>1
  <2>2. CASE OrderIssued' # OrderIssued
    <3>1. /\ OrderIssued' = OrderIssued + 1 /\ Queued("mma_order") = 0
          /\ <<"mma_order", OrderIssued>> \in ToSet(u)
      BY <2>2 DEF Issues
    <3> QED
      BY <1>3, <1>11, <3>1
  <2> QED
    BY <2>1, <2>2
<1>15. mmaStep' - Queued("dq_ready")' = mmaStep - Queued("dq_ready")
  <2>1. CASE mmaStep' = mmaStep
    BY <1>11, <1>12, <2>1
  <2>2. CASE mmaStep' # mmaStep
    <3>1. /\ mmaStep' = mmaStep + 1 /\ Queued("dq_ready") = 0
          /\ <<"dq_ready", mmaStep>> \in ToSet(u)
      BY <2>2 DEF Issues
    <3> QED
      BY <1>3, <1>11, <3>1
  <2> QED
    BY <2>1, <2>2
<1>16. (IF Ending THEN 1 - Queued("done") ELSE 0)' = IF Ending THEN 1 - Queued("done") ELSE 0
  <2>1. CASE Ending
    BY <1>6, <1>11, <1>12, <2>1
  <2>2. CASE ~Ending /\ ~Ending'
    BY <2>2
  <2>3. CASE ~Ending /\ Ending'
    <3>1. <<"done", n>> \in ToSet(u)
      BY <2>3 DEF Issues
    <3> QED
      BY <1>11, <2>3, <3>1
  <2> QED
    BY <2>1, <2>2, <2>3
<1> QED
  BY <1>10, <1>13, <1>14, <1>15, <1>16

\* dQ, the signal to its writer and the release of the slot are issued.
LEMMA MmaDqRings == FInv /\ MmaWarp /\ MmaIssueDq => RingInv'
<1> SUFFICES ASSUME FInv, MmaWarp, MmaIssueDq PROVE RingInv'
  OBVIOUS
<1>1. /\ TypeOK /\ TmaFacts /\ MmaFacts /\ DqFacts /\ n \in Nat /\ Queue /\ Counts /\ Seen
      /\ Singles /\ Order /\ mmaStep \in 0 .. n /\ mmaScores \in 0 .. n
  BY FInvParts
<1>2. /\ UNCHANGED <<call, tmaVars, copies, mmaScores, barVars>> /\ n' = n /\ mmaPc = "dq"
      /\ mmaStep' = mmaStep + 1 /\ mmaPc' = MmaTop(mmaStep + 1)
      /\ call.early \in BOOLEAN /\ call.serialize \in BOOLEAN
  BY <1>1, CallType DEF MmaWarp, MmaIssueDq, n, TypeOK
<1>3. /\ mmaStep < n
      /\ mmaScores = IF call.early /\ mmaStep + 1 < n THEN mmaStep + 2 ELSE mmaStep + 1
  BY <1>1, <1>2 DEF MmaFacts
<1>4. /\ mmaPc' \in {"end", "p", "order", "scores"}
      /\ mmaPc' = "end" <=> mmaStep + 1 = n
      /\ mmaPc' = "p" => call.early /\ mmaStep + 1 < n
      /\ mmaPc' \in {"order", "scores"} => ~call.early /\ mmaStep + 1 < n
      /\ mmaPc' = "order" => call.serialize
      /\ mmaPc' = "scores" => ~call.serialize
  BY <1>1, <1>2, <1>3 DEF MmaTop, ScoresPc
<1>5. MmaFacts'
  BY <1>1, <1>2, <1>3, <1>4 DEF MmaFacts
<1>6. /\ DkIssued = mmaStep + 1 /\ DkIssued' = mmaStep + 1 /\ PSeen = mmaStep + 1
      /\ PSeen' = mmaStep + 1 /\ UNCHANGED <<DsSeen, OrderIssued>>
      /\ ~Ending /\ ~Ending'
  BY <1>1, <1>2, <1>3, <1>4 DEF DkIssued, PSeen, DsSeen, OrderIssued, Ending, PastDk
<1>7. OrderSeen' = OrderSeen /\ DqFreeSeen' = DqFreeSeen /\ DqFreeSeen = mmaStep
  BY <1>1, <1>2, <1>3, <1>4 DEF OrderSeen, DqFreeSeen
<1> DEFINE a == <<"dq", mmaStep>>
<1> DEFINE b == <<"dq_ready", mmaStep>>
<1> DEFINE c == <<"consumed", mmaStep>>
<1> DEFINE u == <<a, b, c>>
<1>8. /\ {a, b, c} \subseteq OpTypes /\ a[1] = "dq" /\ b[1] = "dq_ready" /\ c[1] = "consumed"
      /\ a[2] = mmaStep /\ b[2] = mmaStep /\ c[2] = mmaStep /\ tc' = tc \o u
  BY <1>1 DEF OpTypes, Commits, MmaIssueDq
<1>9. /\ Key(a) = 12 * mmaStep + (IF call.early THEN 14 ELSE 8)
      /\ Key(b) = Key(a) + 1 /\ Key(c) = Key(a) + 2 /\ Key(a) \in Int
  BY <1>1 DEF Key
<1> HIDE DEF a, b, c
<1>10. /\ u \in Seq(OpTypes) /\ DOMAIN u = 1 .. 3 /\ ToSet(u) = {a, b, c}
       /\ u[1] = a /\ u[2] = b /\ u[3] = c
  BY <1>8, Tuples
<1> HIDE DEF u
<1>11. ASSUME NEW op \in OpTypes, Issued(op) PROVE Key(op) < Key(a) /\ Key(op) \in Int
  <2>1. /\ Key(op) \in Int
        /\ op[1] \in {"scores", "s_ready"} => Key(op) <= 12 * mmaScores - 11
        /\ op[1] = "dv" => Key(op) <= 12 * PSeen - 7
        /\ op[1] \in {"dk", "mma_order"} => Key(op) <= 12 * DkIssued - 5
        /\ op[1] \in {"dq", "dq_ready", "consumed"} =>
             Key(op) <= 12 * mmaStep + IF call.early THEN 4 ELSE -2
        /\ op[1] \in {"scores", "dv", "dk", "dq", "s_ready", "mma_order", "dq_ready", "consumed"}
    BY <1>1, <1>6, <1>11, KeyBounds
  <2>2. CASE call.early
    BY <1>1, <1>3, <1>6, <1>9, <2>1, <2>2
  <2>3. CASE ~call.early
    BY <1>1, <1>3, <1>6, <1>9, <2>1, <2>3
  <2> QED
    BY <2>2, <2>3
<1>12. Queued("dq_ready") = 0
  <2>1. DqSeen <= mmaStep - Queued("dq_ready")
    BY <1>1, WaitersNamed DEF Singles, SingleBarriers, Seen, Counts
  <2>2. mmaStep <= DqSeen /\ DqSeen \in Nat
    BY <1>1, <1>7, Chain, DqProgress
  <2> QED
    BY <1>1, <2>1, <2>2 DEF Queued
<1>13. /\ mmaScores' \in Nat /\ mmaStep' \in Nat /\ DkIssued' \in Nat /\ PSeen' \in Nat
       /\ OrderIssued' \in Nat
  BY <1>1, <1>2, CountsThen
<1>14. CFree' = CFree /\ CFree <= mmaStep
  BY <1>1, <1>2, TmaStill DEF Order
<1>15. ASSUME NEW op \in ToSet(u)
       PROVE  Issued(op)' /\ Newest(op)' /\ op[2] = mmaStep /\ op[1] \in {"dq", "dq_ready", "consumed"}
  <2>1. op \in OpTypes /\ op[2] = mmaStep /\ op[1] \in {"dq", "dq_ready", "consumed"}
    BY <1>8, <1>10
  <2>2. Issued(op)'
    BY <1>1, <1>2, <1>13, <2>1, IssuedThen
  <2>3. Newest(op)'
    BY <1>1, <1>2, <1>14, <2>1 DEF Newest
  <2> QED
    BY <2>1, <2>2, <2>3
<1>16. Issues(u)
  <2>1. \A i, j \in DOMAIN u : i < j => Key(u[i]) < Key(u[j])
    BY <1>9, <1>10
  <2>2. {b, c} \subseteq ToSet(u)
    BY <1>10
  <2> QED
    BY <1>2, <1>6, <1>8, <1>12, <1>15, <2>1, <2>2 DEF Issues, b, c
<1>17. \A op \in OpTypes : Issued(op) => \A j \in DOMAIN u : Key(op) < Key(u[j])
  BY <1>9, <1>10, <1>11
<1>18. /\ Queue' /\ Fifo' /\ Ops' = Ops \cup {a, b, c}
       /\ mmaScores' - Queued("s_ready")' = mmaScores - Queued("s_ready")
       /\ OrderIssued' - Queued("mma_order")' = OrderIssued - Queued("mma_order")
       /\ mmaStep' - Queued("dq_ready")' = mmaStep - Queued("dq_ready")
       /\ (IF Ending THEN 1 - Queued("done") ELSE 0)' = IF Ending THEN 1 - Queued("done") ELSE 0
  BY <1>5, <1>10, <1>16, <1>17, MmaIssuesMore
<1>19. RingBarriersStill /\ \A name : SingleStill(name)
  BY <1>2 DEF barVars, RingBarriersStill, SingleStill, Lag
<1>20. Rings' /\ Flights' /\ Order'
  <2>1. ASSUME NEW s \in Nat PROVE ConsumedUp(s)' = ConsumedUp(s)
    <3>1. <<"consumed", s>> \in Ops' <=> <<"consumed", s>> \in Ops \/ s = mmaStep
      <4>1. <<"consumed", s>> \in {a, b, c} <=> s = mmaStep
        BY DEF a, b, c
      <4> QED
        BY <1>18, <4>1
    <3>2. s < mmaStep' <=> s < mmaStep \/ s = mmaStep
      BY <1>1, <1>2
    <3> QED
      BY <1>1, <3>1, <3>2 DEF ConsumedUp
  <2> QED
    BY <1>1, <1>2, <1>19, <2>1, MmaOffRings
<1>21. Singles'
  BY <1>1, <1>19, SinglesStill
<1>22. seen' = seen /\ left' = left /\ done' = done
  BY <1>2 DEF barVars
<1>23. /\ seen'[Mma][KV] = IF mmaPc' = "kv" THEN 0 ELSE 1
       /\ seen'[Mma][Only("p_ready")] = PSeen'
       /\ seen'[Mma][Only("ds_ready")] = DsSeen'
       /\ seen'[Mma][Only("dq_free")] = DqFreeSeen'
       /\ seen'[Mma][Only("mma_order")] = OrderSeen'
  BY <1>1, <1>2, <1>4, <1>6, <1>7, <1>22 DEF Seen
<1> QED
  BY <1>5, <1>18, <1>20, <1>21, <1>22, <1>23, MmaFrame

\* S^T and dP^T of the next step are issued, once its Q and dO are there.
LEMMA MmaScoresRings == FInv /\ MmaWarp /\ MmaIssueScores => RingInv'
<1> SUFFICES ASSUME FInv, MmaWarp, MmaIssueScores PROVE RingInv'
  OBVIOUS
<1>0. PICK m : m = mmaScores
  OBVIOUS
<1>1. /\ m = mmaScores /\ TypeOK /\ TmaFacts /\ MmaFacts /\ n \in Nat /\ Queue /\ Counts /\ Seen
      /\ Singles /\ Order /\ Rings /\ Flights /\ mmaStep \in 0 .. n /\ m \in 0 .. n
      /\ \A e \in Ew : EwFacts(e)
  BY <1>0, FInvParts
<1>2. /\ UNCHANGED <<call, tmaVars, ewVars, copies, mmaStep>> /\ n' = n /\ mmaPc = "scores"
      /\ mmaScores' = m + 1 /\ Await(Mma, Ring("q", m))
      /\ mmaPc' = IF call.early /\ m > 0 THEN DqIssuePc(mmaStep) ELSE "p"
      /\ call.early \in BOOLEAN /\ call.serialize \in BOOLEAN
  BY <1>1, CallType DEF MmaWarp, MmaIssueScores, MmaWait, n, TypeOK
<1>3. m < n /\ m = IF call.early /\ m > 0 THEN mmaStep + 1 ELSE mmaStep
  BY <1>1, <1>2 DEF MmaFacts
<1>4. /\ call.early /\ m > 0 => mmaPc' = IF mmaStep > 0 THEN "dq_free" ELSE "dq"
      /\ ~(call.early /\ m > 0) => mmaPc' = "p"
  BY <1>2 DEF DqIssuePc
<1>5. MmaFacts'
  BY <1>1, <1>2, <1>3, <1>4 DEF MmaFacts
<1>6. /\ DkIssued = m /\ DkIssued' = m /\ PSeen = m /\ PSeen' = m
      /\ UNCHANGED <<DsSeen, OrderIssued>> /\ ~Ending /\ ~Ending'
  BY <1>1, <1>2, <1>3, <1>4 DEF DkIssued, PSeen, DsSeen, OrderIssued, Ending, PastDk
<1>7. OrderSeen' = OrderSeen /\ DqFreeSeen' = DqFreeSeen
  BY <1>1, <1>2, <1>3, <1>4 DEF OrderSeen, DqFreeSeen
<1> DEFINE a == <<"scores", m>>
<1> DEFINE b == <<"s_ready", m>>
<1> DEFINE u == <<a, b>>
<1>8. /\ {a, b} \subseteq OpTypes /\ a[1] = "scores" /\ b[1] = "s_ready" /\ a[2] = m /\ b[2] = m
      /\ tc' = tc \o u
  BY <1>1 DEF OpTypes, Commits, MmaIssueScores
<1>9. Key(a) = 12 * m /\ Key(b) = Key(a) + 1 /\ Key(a) \in Int
  BY <1>1 DEF Key
<1> HIDE DEF a, b
<1>10. u \in Seq(OpTypes) /\ DOMAIN u = 1 .. 2 /\ ToSet(u) = {a, b} /\ u[1] = a /\ u[2] = b
  BY <1>8, Tuples
<1> HIDE DEF u
<1>11. ASSUME NEW op \in OpTypes, Issued(op) PROVE Key(op) < Key(a) /\ Key(op) \in Int
  <2>1. /\ Key(op) \in Int
        /\ op[1] \in {"scores", "s_ready"} => Key(op) <= 12 * mmaScores - 11
        /\ op[1] = "dv" => Key(op) <= 12 * PSeen - 7
        /\ op[1] \in {"dk", "mma_order"} => Key(op) <= 12 * DkIssued - 5
        /\ op[1] \in {"dq", "dq_ready", "consumed"} =>
             Key(op) <= 12 * mmaStep + IF call.early THEN 4 ELSE -2
        /\ op[1] \in {"scores", "dv", "dk", "dq", "s_ready", "mma_order", "dq_ready", "consumed"}
    BY <1>1, <1>6, <1>11, KeyBounds
  <2>2. CASE op[1] \notin {"dq", "dq_ready", "consumed"}
    BY <1>1, <1>6, <1>9, <2>1, <2>2
  <2>3. CASE op[1] \in {"dq", "dq_ready", "consumed"}
    <3>1. op[2] \in Nat /\ op[2] < mmaStep
      BY <1>1, <1>11, <2>3, IssuedWhen, MmaProgress DEF OpTypes
    <3>2. CASE call.early
      BY <1>1, <1>3, <1>9, <2>1, <2>3, <3>1, <3>2
    <3>3. CASE ~call.early
      BY <1>1, <1>3, <1>9, <2>1, <2>3, <3>1, <3>3
    <3> QED
      BY <3>2, <3>3
  <2> QED
    BY <2>2, <2>3
<1>12. Queued("s_ready") = 0
  <2>1. DkIssued <= ewStep[0] /\ Past(0, AfterS) <= done[Only("s_ready")] /\ 0 \in Ew
    BY Chain, Threads
  <2>2. ewStep[0] \in Nat /\ Past(0, AfterS) \in {ewStep[0], ewStep[0] + 1}
    BY <1>1, <2>1, EwProgress
  <2>3. done[Only("s_ready")] = m - Queued("s_ready")
    BY <1>1 DEF Counts
  <2>4. Queued("s_ready") \in {0, 1}
    BY DEF Queued
  <2> QED
    BY <1>1, <1>6, <2>1, <2>2, <2>3, <2>4
<1>13. /\ mmaScores' \in Nat /\ mmaStep' \in Nat /\ DkIssued' \in Nat /\ PSeen' \in Nat
       /\ OrderIssued' \in Nat
  BY <1>1, <1>2, CountsThen
<1>14. ASSUME NEW op \in ToSet(u)
       PROVE  Issued(op)' /\ Newest(op)' /\ op[2] = m /\ op[1] \in {"scores", "s_ready"}
  <2>1. op \in OpTypes /\ op[2] = m /\ op[1] \in {"scores", "s_ready"}
    BY <1>8, <1>10
  <2>2. Issued(op)'
    BY <1>1, <1>2, <1>13, <2>1, IssuedThen
  <2>3. Newest(op)'
    BY <1>1, <1>2, <2>1 DEF Newest
  <2> QED
    BY <2>1, <2>2, <2>3
<1>15. Issues(u)
  <2>1. \A i, j \in DOMAIN u : i < j => Key(u[i]) < Key(u[j])
    BY <1>9, <1>10
  <2>2. b \in ToSet(u)
    BY <1>10
  <2> QED
    BY <1>1, <1>2, <1>6, <1>8, <1>12, <1>14, <2>1, <2>2 DEF Issues, b
<1>16. \A op \in OpTypes : Issued(op) => \A j \in DOMAIN u : Key(op) < Key(u[j])
  BY <1>9, <1>10, <1>11
<1>17. /\ Queue' /\ Fifo' /\ Ops' = Ops \cup {a, b}
       /\ mmaScores' - Queued("s_ready")' = mmaScores - Queued("s_ready")
       /\ OrderIssued' - Queued("mma_order")' = OrderIssued - Queued("mma_order")
       /\ mmaStep' - Queued("dq_ready")' = mmaStep - Queued("dq_ready")
       /\ (IF Ending THEN 1 - Queued("done") ELSE 0)' = IF Ending THEN 1 - Queued("done") ELSE 0
  BY <1>5, <1>10, <1>15, <1>16, MmaIssuesMore
<1>18. m \in Window /\ QUp(m)
  BY <1>1, <1>2, QAwaited
<1>19. /\ \A name \in SingleNames : SingleStill(name)
       /\ \A g \in Families, s \in Window :
            /\ left'[Ring(g, s)] = left[Ring(g, s)]
            /\ \A v \in WaitersOf(Ring(g, s)) : g # "q" \/ s # m \/ v # Mma =>
                 Lag(v, Ring(g, s))' = Lag(v, Ring(g, s))
       /\ Lag(Mma, Ring("q", m))' = Lag(Mma, Ring("q", m)) - 1
  BY <1>1, <1>2, <1>18, AwaitInRing, Threads DEF Families
<1>20. /\ UNCHANGED <<Requested, CFree, AFree, Window>>
       /\ UNCHANGED AuxArrived
       /\ \A e \in Ew : Past(e, AfterQ)' = Past(e, AfterQ) /\ Past(e, AfterMask)' = Past(e, AfterMask)
  BY <1>2, TmaStill, EwAllStill
<1>21. Order'
  <2>1. m + 1 <= Requested
    BY <1>1, <1>18, TmaProgress DEF QUp
  <2> QED
    BY <1>1, <1>2, <1>20, <2>1 DEF Order, Ew
<1>22. Flights'
  <2> SUFFICES ASSUME NEW c \in copies \ {KV}, c[1] \in {"q_do", "row"} PROVE m + 1 <= c[2]
    BY <1>1, <1>2, <1>20 DEF Flights, KV, Only, Ew
  <2>1. mmaScores <= c[2] /\ c[2] \in Nat /\ c = <<c[1], c[2]>>
    BY <1>1 DEF Flights, TypeOK
  <2>2. c[2] # m
    BY <1>1, <1>18, <2>1 DEF QUp, InFlight
  <2> QED
    BY <1>1, <2>1, <2>2
<1>23. Rings'
  <2> SUFFICES ASSUME NEW s \in Window
               PROVE  QRing(s)' /\ MaskRing(s)' /\ ConsumedRing(s)' /\ AuxRing(s)'
    BY <1>20 DEF Rings
  <2>1. QRing(s) /\ MaskRing(s) /\ ConsumedRing(s) /\ AuxRing(s)
    BY <1>1 DEF Rings
  <2>2. s \in Nat
    BY <1>1, TmaProgress DEF Window
  <2>3. <<"consumed", s>> \in Ops' <=> <<"consumed", s>> \in Ops
    BY <1>17 DEF a, b
  <2>4. /\ UNCHANGED <<HalfLoaded(s), AuxLeft(s)>>
        /\ QUp(s)' = QUp(s) /\ MaskUp(s)' = MaskUp(s)
        /\ ConsumedUp(s)' = ConsumedUp(s) /\ AuxUp(s)' = AuxUp(s)
    BY <1>2, <1>20, <2>3
       DEF HalfLoaded, AuxLeft, QUp, MaskUp, ConsumedUp, AuxUp, InFlight, Ahead, Ew
  <2>5. QRing(s)'
    <3>0. Lag(Mma, Ring("q", s)) = Flag(s >= m /\ QUp(s))
      BY <1>1, <2>1 DEF QRing
    <3>1. Lag(Mma, Ring("q", s))' = Flag(s >= m + 1 /\ QUp(s))
      <4>1. CASE s # m
        <5>1. (s >= m) = (s >= m + 1)
          BY <1>1, <2>2, <4>1
        <5>2. Lag(Mma, Ring("q", s))' = Lag(Mma, Ring("q", s))
          BY <1>19, <4>1, WaitersNamed DEF Families
        <5> QED
          BY <3>0, <5>1, <5>2
      <4>2. CASE s = m
        <5>1. Lag(Mma, Ring("q", m)) = 1
          BY <1>1, <1>18, <3>0, <4>2 DEF Flag
        <5> QED
          BY <1>1, <1>19, <4>2, <5>1 DEF Flag
      <4> QED
        BY <4>1, <4>2
    <3>2. \A f \in Ew : Lag(f, Ring("q", s))' = Lag(f, Ring("q", s))
      BY <1>19, WaitersNamed, Threads DEF Families
    <3> QED
      BY <1>2, <1>1, <1>19, <1>20, <2>1, <2>4, <3>1, <3>2 DEF QRing, Families, Ew, Ring, Lag, Mma, Flag
  <2>6. MaskRing(s)'
    BY <1>19, <1>20, <2>1, <2>4, WaitersNamed DEF MaskRing, Families, Flag, Ew, Ring, Lag
  <2>7. ConsumedRing(s)'
    BY <1>19, <1>20, <2>1, <2>4, WaitersNamed DEF ConsumedRing, Families, Flag, Ring, Lag, Tma
  <2>8. AuxRing(s)'
    BY <1>19, <2>1, <2>4, WaitersNamed DEF AuxRing, Families, Flag, Ring, Lag, Tma
  <2> QED
    BY <2>5, <2>6, <2>7, <2>8
<1>24. Singles'
  BY <1>1, <1>19, SinglesStill
<1>25. left' = left /\ done' = done /\ \A w \in Waiters \ {Mma} : seen'[w] = seen[w]
  BY <1>1, <1>2, AwaitAt, BarrierNames, Threads, TypeParts
<1>26. \A name \in {"kv", "p_ready", "ds_ready", "dq_free", "mma_order"} :
         seen'[Mma][Only(name)] = seen[Mma][Only(name)]
  BY <1>19, WaitersNamed DEF SingleStill, SingleNames, KV
<1>27. /\ seen'[Mma][KV] = IF mmaPc' = "kv" THEN 0 ELSE 1
       /\ seen'[Mma][Only("p_ready")] = PSeen'
       /\ seen'[Mma][Only("ds_ready")] = DsSeen'
       /\ seen'[Mma][Only("dq_free")] = DqFreeSeen'
       /\ seen'[Mma][Only("mma_order")] = OrderSeen'
  BY <1>1, <1>2, <1>4, <1>6, <1>7, <1>26 DEF Seen, KV
<1> QED
  BY <1>5, <1>17, <1>21, <1>22, <1>23, <1>24, <1>25, <1>27, MmaFrame

\* Appending sequences of one and two.
LEMMA Joined ==
  ASSUME NEW S, NEW a \in S, NEW b \in S, NEW c \in S
  PROVE  <<a>> \o <<b>> = <<a, b>> /\ <<a>> \o <<b, c>> = <<a, b, c>>
<1> DEFINE s == <<a>>
<1> DEFINE t == <<b>>
<1> DEFINE u == <<a, b>>
<1> DEFINE v == <<b, c>>
<1> DEFINE w == <<a, b, c>>
<1>1. /\ s \in Seq(S) /\ Len(s) = 1 /\ s[1] = a
      /\ t \in Seq(S) /\ Len(t) = 1 /\ t[1] = b
      /\ u \in Seq(S) /\ Len(u) = 2 /\ u[1] = a /\ u[2] = b
  OBVIOUS
<1>2. /\ v \in Seq(S) /\ Len(v) = 2 /\ v[1] = b /\ v[2] = c
      /\ w \in Seq(S) /\ Len(w) = 3 /\ w[1] = a /\ w[2] = b /\ w[3] = c
  OBVIOUS
<1> HIDE DEF s, t, u, v, w
<1>3. s \o t \in Seq(S) /\ Len(s \o t) = 2 /\ (s \o t)[1] = a /\ (s \o t)[2] = b
  BY <1>1, ConcatProperties
<1>4. /\ s \o v \in Seq(S) /\ Len(s \o v) = 3
      /\ (s \o v)[1] = a /\ (s \o v)[2] = b /\ (s \o v)[3] = c
  <2>1. /\ s \o v \in Seq(S) /\ Len(s \o v) = Len(s) + Len(v)
        /\ \A i \in 1 .. Len(s) + Len(v) : (s \o v)[i] = IF i <= Len(s) THEN s[i] ELSE v[i - Len(s)]
    BY <1>1, <1>2, ConcatProperties
  <2>2. Len(s \o v) = 3 /\ (s \o v)[1] = s[1]
    BY <1>1, <1>2, <2>1
  <2>3. (s \o v)[2] = v[1]
    BY <1>1, <1>2, <2>1
  <2>4. (s \o v)[3] = v[2]
    BY <1>1, <1>2, <2>1
  <2> QED
    BY <1>1, <1>2, <2>1, <2>2, <2>3, <2>4
<1>5. s \o t = u
  BY <1>1, <1>3, SeqEqual
<1>6. s \o v = w
  BY <1>2, <1>4, SeqEqual
<1> QED
  BY <1>5, <1>6 DEF s, t, u, v, w

\* The packed operands of dV and dK are there: the MMAs that read them, and
\* what orders the next scores behind them, are issued.
LEMMA MmaOperandRings ==
  ASSUME FInv, MmaWarp, NEW name \in {"p_ready", "ds_ready"}, Await(Mma, Only(name)),
         UNCHANGED <<mmaStep, mmaScores>>, MmaFacts', mmaPc # "kv", mmaPc' # "kv",
         ~Ending, ~Ending', NEW u \in Seq(OpTypes), tc' = tc \o u,
         \A i, j \in DOMAIN u : i < j => Key(u[i]) < Key(u[j]),
         \A op \in OpTypes : Issued(op) => \A j \in DOMAIN u : Key(op) < Key(u[j]),
         \A op \in ToSet(u) : /\ Issued(op)' /\ op[1] \in {"dv", "dk", "mma_order"}
                              /\ op[1] = "mma_order" => op[2] = OrderIssued,
         PSeen' = PSeen + Flag(name = "p_ready"), DsSeen' = DsSeen + Flag(name = "ds_ready"),
         DkIssued' >= DkIssued,
         OrderIssued' # OrderIssued => /\ OrderIssued' = OrderIssued + 1
                                       /\ OrderSeen >= OrderIssued
                                       /\ <<"mma_order", OrderIssued>> \in ToSet(u),
         UNCHANGED <<DqFreeSeen, OrderSeen>>
  PROVE  RingInv'
<1>1. /\ TypeOK /\ TmaFacts /\ MmaFacts /\ Queue /\ Seen /\ Counts /\ Singles
  BY DEF FInv, RingInv, PcFacts
<1>2. UNCHANGED <<call, tmaVars, copies>> /\ n' = n /\ n \in Nat
  BY <1>1, CallType DEF MmaWarp, n, TypeOK
<1>3. name \in SingleNames /\ Mma \in WaitersOf(Only(name)) /\ Mma \in Waiters
  BY WaitersNamed, Threads DEF SingleNames
<1>4. /\ seen'[Mma][Only(name)] = seen[Mma][Only(name)] + 1
      /\ \A v \in Waiters \ {Mma} : seen'[v] = seen[v]
      /\ done' = done /\ left' = left /\ Singles' /\ RingBarriersStill
      /\ \A other \in SingleNames \ {name} : SingleStill(other)
  BY <1>3, SingleAwaited
<1>5. /\ mmaStep \in Nat /\ mmaScores \in Nat /\ PSeen \in Nat /\ DsSeen \in Nat
      /\ DkIssued \in Nat /\ OrderIssued \in Nat /\ OrderSeen \in Nat
  BY <1>1, MmaProgress
<1>6. /\ mmaScores' \in Nat /\ mmaStep' \in Nat /\ DkIssued' \in Nat /\ PSeen' \in Nat
      /\ OrderIssued' \in Nat
  BY <1>5, CountsThen
<1>7. OrderIssued' # OrderIssued => Queued("mma_order") = 0
  <2>1. OrderSeen <= OrderIssued - Queued("mma_order")
    <3>1. seen[Mma][Only("mma_order")] <= done[Only("mma_order")]
      BY <1>1, WaitersNamed DEF Singles, SingleBarriers
    <3> QED
      BY <1>1, <3>1 DEF Seen, Counts
  <2>2. Queued("mma_order") \in {0, 1}
    BY DEF Queued
  <2> QED
    BY <1>5, <2>1, <2>2
<1>8. ASSUME NEW op \in ToSet(u) PROVE Newest(op)'
  <2>1. /\ Issued(op)' /\ op[1] \in {"dv", "dk", "mma_order"}
        /\ op[1] = "mma_order" => op[2] = OrderIssued
    OBVIOUS
  <2>2. op \in OpTypes
    BY DEF ToSet
  <2>3. op[1] = "mma_order" => op[2] < OrderIssued'
    BY <1>2, <1>6, <2>1, <2>2, IssuedThen
  <2>4. op[1] = "mma_order" => OrderIssued' = OrderIssued + 1
    BY <1>5, <2>1, <2>3
  <2>5. op[1] = "mma_order" => op[2] = OrderIssued' - 1
    BY <1>5, <2>1, <2>4
  <2> QED
    BY <2>1, <2>5 DEF Newest
<1>9. PSeen' >= PSeen
  BY <1>5 DEF Flag
<1>10. Issues(u)
  BY <1>7, <1>8, <1>9 DEF Issues
<1>11. /\ Queue' /\ Fifo' /\ Ops' = Ops \cup ToSet(u)
       /\ mmaScores' - Queued("s_ready")' = mmaScores - Queued("s_ready")
       /\ OrderIssued' - Queued("mma_order")' = OrderIssued - Queued("mma_order")
       /\ mmaStep' - Queued("dq_ready")' = mmaStep - Queued("dq_ready")
       /\ (IF Ending THEN 1 - Queued("done") ELSE 0)' = IF Ending THEN 1 - Queued("done") ELSE 0
  BY <1>10, MmaIssuesMore
<1>12. ASSUME NEW s \in Nat PROVE ConsumedUp(s)' = ConsumedUp(s)
  <2>1. <<"consumed", s>> \notin ToSet(u)
    OBVIOUS
  <2> QED
    BY <1>11, <2>1 DEF ConsumedUp
<1>13. Rings' /\ Flights' /\ Order'
  BY <1>4, <1>5, <1>12, MmaOffRings
<1>14. \A other \in {"kv", "p_ready", "ds_ready", "dq_free", "mma_order"} \ {name} :
         seen'[Mma][Only(other)] = seen[Mma][Only(other)]
  <2>1. \A other \in {"kv", "p_ready", "ds_ready", "dq_free", "mma_order"} :
          other \in SingleNames /\ Mma \in WaitersOf(Only(other))
    BY WaitersNamed DEF SingleNames, KV
  <2> QED
    BY <1>4, <2>1 DEF SingleStill
<1>15. /\ seen[Mma][KV] = IF mmaPc = "kv" THEN 0 ELSE 1
       /\ seen[Mma][Only("p_ready")] = PSeen
       /\ seen[Mma][Only("ds_ready")] = DsSeen
       /\ seen[Mma][Only("dq_free")] = DqFreeSeen
       /\ seen[Mma][Only("mma_order")] = OrderSeen
  BY <1>1 DEF Seen
<1>16. /\ seen'[Mma][KV] = IF mmaPc' = "kv" THEN 0 ELSE 1
       /\ seen'[Mma][Only("p_ready")] = PSeen'
       /\ seen'[Mma][Only("ds_ready")] = DsSeen'
       /\ seen'[Mma][Only("dq_free")] = DqFreeSeen'
       /\ seen'[Mma][Only("mma_order")] = OrderSeen'
  <2>1. CASE name = "p_ready"
    BY <1>4, <1>5, <1>14, <1>15, <2>1 DEF Flag, KV
  <2>2. CASE name = "ds_ready"
    BY <1>4, <1>5, <1>14, <1>15, <2>2 DEF Flag, KV
  <2> QED
    BY <2>1, <2>2
<1> QED
  BY <1>4, <1>11, <1>13, <1>16, MmaFrame

\* dV and dK: together, or, when P^T is handed over first, one by one.
LEMMA MmaDvDkRings == FInv /\ MmaWarp /\ MmaIssueDvDk => RingInv'
<1> SUFFICES ASSUME FInv, MmaWarp, MmaIssueDvDk PROVE RingInv'
  OBVIOUS
<1>0. PICK m : m = mmaStep
  OBVIOUS
<1>1. /\ m = mmaStep /\ TypeOK /\ MmaFacts /\ n \in Nat /\ m \in 0 .. n /\ mmaScores \in 0 .. n
      /\ tc \in Seq(OpTypes)
  BY <1>0, FInvParts, TypeParts DEF WorkTypes
<1>2. /\ UNCHANGED <<call, mmaStep, mmaScores>> /\ n' = n /\ mmaPc \in {"p", "ds"}
      /\ call.early \in BOOLEAN /\ call.serialize \in BOOLEAN /\ call.split \in BOOLEAN
  BY <1>1, CallType DEF MmaWarp, MmaIssueDvDk, MmaWait, n, TypeOK
<1>3. m < n /\ mmaScores = m + 1
  BY <1>1, <1>2 DEF MmaFacts
<1> DEFINE a == <<"dv", m>>
<1> DEFINE b == <<"dk", m>>
<1> DEFINE c == <<"mma_order", m>>
<1>4. /\ {a, b, c} \subseteq OpTypes /\ a[1] = "dv" /\ b[1] = "dk" /\ c[1] = "mma_order"
      /\ a[2] = m /\ b[2] = m /\ c[2] = m
  BY <1>1 DEF OpTypes, Commits
<1>5. /\ Key(a) = 12 * m + 5 /\ Key(b) = 12 * m + 6 /\ Key(c) = 12 * m + 7
  BY <1>1 DEF Key
<1>6. Dv = <<a>> /\ Dk = IF call.serialize THEN <<b, c>> ELSE <<b>>
  <2>1. <<b>> \o <<c>> = <<b, c>> /\ <<b>> \o <<>> = <<b>>
    <3> HIDE DEF b, c
    <3>1. <<b>> \o <<c>> = <<b, c>>
      BY <1>4, Joined
    <3>2. <<b>> \in Seq(OpTypes)
      BY <1>4
    <3> QED
      BY <3>1, <3>2, ConcatEmptySeq
  <2> QED
    BY <1>1, <2>1 DEF Dv, Dk
<1> HIDE DEF a, b, c
<1>7. a \in OpTypes /\ b \in OpTypes /\ c \in OpTypes
  BY <1>4
<1>71. <<a>> \in Seq(OpTypes) /\ DOMAIN <<a>> = 1 .. 1 /\ ToSet(<<a>>) = {a}
  BY <1>7, Tuples
<1>72. <<b>> \in Seq(OpTypes) /\ DOMAIN <<b>> = 1 .. 1 /\ ToSet(<<b>>) = {b}
  BY <1>7, Tuples
<1>73. <<b, c>> \in Seq(OpTypes) /\ DOMAIN <<b, c>> = 1 .. 2 /\ ToSet(<<b, c>>) = {b, c}
  BY <1>7, Tuples
<1>74. <<a, b>> \in Seq(OpTypes) /\ DOMAIN <<a, b>> = 1 .. 2 /\ ToSet(<<a, b>>) = {a, b}
  BY <1>7, Tuples
<1>75. /\ <<a, b, c>> \in Seq(OpTypes) /\ DOMAIN <<a, b, c>> = 1 .. 3
       /\ ToSet(<<a, b, c>>) = {a, b, c}
  BY <1>7, Tuples
<1>8. /\ mmaPc # "kv" /\ ~Ending /\ DkIssued = m /\ PSeen = IF mmaPc = "ds" THEN m + 1 ELSE m
      /\ DsSeen = (IF call.split THEN m ELSE 0) /\ (mmaPc = "ds" => call.split)
      /\ OrderIssued = (IF call.serialize THEN m ELSE 0)
      /\ OrderSeen = (IF call.serialize THEN m ELSE 0)
      /\ DqFreeSeen = IF m > 0 THEN m - 1 ELSE 0
  BY <1>1, <1>2, <1>3 DEF Ending, DkIssued, PSeen, DsSeen, OrderIssued, OrderSeen, DqFreeSeen,
     PastDk, MmaFacts
<1>9. ASSUME NEW op \in OpTypes, Issued(op)
      PROVE  /\ Key(op) \in Int /\ Key(op) < Key(b)
             /\ PSeen = m => Key(op) < Key(a)
  <2>1. /\ Key(op) \in Int
        /\ op[1] \in {"scores", "s_ready"} => Key(op) <= 12 * mmaScores - 11
        /\ op[1] = "dv" => Key(op) <= 12 * PSeen - 7
        /\ op[1] \in {"dk", "mma_order"} => Key(op) <= 12 * DkIssued - 5
        /\ op[1] \in {"dq", "dq_ready", "consumed"} =>
             Key(op) <= 12 * mmaStep + IF call.early THEN 4 ELSE -2
        /\ op[1] \in {"scores", "dv", "dk", "dq", "s_ready", "mma_order", "dq_ready", "consumed"}
    BY <1>1, <1>8, <1>9, KeyBounds
  <2>2. PSeen \in Int /\ PSeen <= m + 1
    BY <1>1, <1>8
  <2>3. CASE op[1] = "dv"
    BY <1>1, <1>5, <2>1, <2>2, <2>3
  <2>4. CASE op[1] # "dv"
    BY <1>1, <1>3, <1>5, <1>8, <2>1, <2>4
  <2> QED
    BY <2>3, <2>4
<1>10. ASSUME mmaPc' = AfterDk(m),
              NEW u \in Seq(OpTypes), tc' = tc \o u, NEW d, NEW name,
              \/ mmaPc = "p" /\ ~call.split /\ d = {a} /\ name = "p_ready"
              \/ mmaPc = "ds" /\ d = {} /\ name = "ds_ready",
              Await(Mma, Only(name)),
              ToSet(u) = d \cup {b} \cup (IF call.serialize THEN {c} ELSE {}),
              \A i, j \in DOMAIN u : i < j => Key(u[i]) < Key(u[j])
       PROVE  RingInv'
  <2>1. /\ mmaPc' \in {"order", "scores", "dq_free", "dq"}
        /\ mmaPc' \in {"order", "scores"} => call.early /\ m + 1 < n
        /\ mmaPc' \in {"dq_free", "dq"} => ~(call.early /\ m + 1 < n)
        /\ mmaPc' = "order" => call.serialize
        /\ mmaPc' = "scores" => ~call.serialize
        /\ mmaPc' = "dq_free" => m > 0
        /\ mmaPc' = "dq" => m = 0
    BY <1>1, <1>2, <1>10 DEF AfterDk, ScoresPc, DqIssuePc
  <2>2. MmaFacts'
    BY <1>1, <1>2, <1>3, <2>1 DEF MmaFacts
  <2>3. ~Ending' /\ mmaPc' # "kv" /\ DkIssued' = m + 1
    BY <1>1, <1>2, <1>3, <2>1 DEF Ending, DkIssued, PastDk
  <2>4. /\ PSeen' = m + 1 /\ DsSeen' = (IF call.split THEN m + 1 ELSE 0)
        /\ OrderIssued' = IF call.serialize THEN m + 1 ELSE 0
    BY <1>2, <2>1, <2>3 DEF PSeen, DsSeen, OrderIssued
  <2>5. UNCHANGED <<DqFreeSeen, OrderSeen>>
    BY <1>1, <1>2, <1>3, <1>8, <2>1 DEF DqFreeSeen, OrderSeen
  <2>6. PSeen' = PSeen + Flag(name = "p_ready") /\ DsSeen' = DsSeen + Flag(name = "ds_ready")
    BY <1>1, <1>2, <1>8, <1>10, <2>4 DEF Flag
  <2>7. \A op \in OpTypes : Issued(op) => \A j \in DOMAIN u : Key(op) < Key(u[j])
    <3> SUFFICES ASSUME NEW op \in OpTypes, Issued(op), NEW j \in DOMAIN u
                 PROVE  Key(op) < Key(u[j])
      OBVIOUS
    <3>1. u[j] \in ToSet(u)
      BY DEF ToSet
    <3>2. u[j] \in {a, b, c} /\ (u[j] = a => PSeen = m)
      BY <1>1, <1>4, <1>8, <1>10, <3>1
    <3> QED
      BY <1>1, <1>5, <1>9, <3>2
  <2>8. /\ mmaScores' \in Nat /\ mmaStep' \in Nat /\ DkIssued' \in Nat /\ PSeen' \in Nat
        /\ OrderIssued' \in Nat
    BY <1>1, <1>2, CountsThen
  <2>9. ASSUME NEW op \in ToSet(u)
        PROVE  /\ Issued(op)' /\ op[1] \in {"dv", "dk", "mma_order"}
               /\ op[1] = "mma_order" => op[2] = OrderIssued
    <3>1. /\ op \in OpTypes /\ op[2] = m /\ op[1] \in {"dv", "dk", "mma_order"}
          /\ op[1] = "mma_order" => call.serialize
      BY <1>4, <1>10
    <3>2. Issued(op)'
      BY <1>1, <1>2, <2>3, <2>4, <2>8, <3>1, IssuedThen
    <3> QED
      BY <1>8, <3>1, <3>2
  <2>10. OrderIssued' # OrderIssued => /\ OrderIssued' = OrderIssued + 1
                                       /\ OrderSeen >= OrderIssued
                                       /\ <<"mma_order", OrderIssued>> \in ToSet(u)
    BY <1>1, <1>8, <1>10, <2>4 DEF c
  <2>11. name \in {"p_ready", "ds_ready"} /\ DkIssued' >= DkIssued
    BY <1>1, <1>8, <1>10, <2>3
  <2> QED
    BY <1>2, <1>8, <1>10, <2>2, <2>3, <2>5, <2>6, <2>7, <2>9, <2>10, <2>11, MmaOperandRings
<1>11. CASE ~call.split /\ mmaPc = "p"
  <2>1. /\ mmaPc' = AfterDk(m) /\ Await(Mma, Only("p_ready")) /\ tc' = tc \o Dv \o Dk
    BY <1>1, <1>11 DEF MmaIssueDvDk, MmaWait
  <2>2. Dv \in Seq(OpTypes) /\ Dk \in Seq(OpTypes)
    BY <1>6, <1>71, <1>72, <1>73
  <2>3. tc' = tc \o (Dv \o Dk)
    BY <1>1, <2>1, <2>2, ConcatAssociative
  <2>4. CASE call.serialize
    <3>1. tc' = tc \o <<a, b, c>>
      BY <1>6, <1>7, <2>3, <2>4, Joined
    <3> DEFINE u == <<a, b, c>>
    <3>2. u[1] = a /\ u[2] = b /\ u[3] = c
      OBVIOUS
    <3>3. u \in Seq(OpTypes) /\ DOMAIN u = 1 .. 3 /\ ToSet(u) = {a, b, c} /\ tc' = tc \o u
      BY <1>75, <3>1
    <3> HIDE DEF u
    <3>4. \A i, j \in DOMAIN u : i < j => Key(u[i]) < Key(u[j])
      BY <1>1, <1>5, <3>2, <3>3
    <3>5. ToSet(u) = {a} \cup {b} \cup (IF call.serialize THEN {c} ELSE {})
      BY <2>4, <3>3
    <3> QED
      BY <1>10, <1>11, <2>1, <3>3, <3>4, <3>5
  <2>5. CASE ~call.serialize
    <3>1. tc' = tc \o <<a, b>>
      BY <1>6, <1>7, <2>3, <2>5, Joined
    <3> DEFINE u == <<a, b>>
    <3>2. u[1] = a /\ u[2] = b
      OBVIOUS
    <3>3. u \in Seq(OpTypes) /\ DOMAIN u = 1 .. 2 /\ ToSet(u) = {a, b} /\ tc' = tc \o u
      BY <1>74, <3>1
    <3> HIDE DEF u
    <3>4. \A i, j \in DOMAIN u : i < j => Key(u[i]) < Key(u[j])
      BY <1>1, <1>5, <3>2, <3>3
    <3>5. ToSet(u) = {a} \cup {b} \cup (IF call.serialize THEN {c} ELSE {})
      BY <2>5, <3>3
    <3> QED
      BY <1>10, <1>11, <2>1, <3>3, <3>4, <3>5
  <2> QED
    BY <1>2, <2>4, <2>5
<1>12. CASE mmaPc = "ds"
  <2>1. /\ mmaPc' = AfterDk(m) /\ Await(Mma, Only("ds_ready")) /\ tc' = tc \o Dk
    BY <1>1, <1>12 DEF MmaIssueDvDk, MmaWait
  <2>4. CASE call.serialize
    <3> DEFINE u == <<b, c>>
    <3>2. u[1] = b /\ u[2] = c
      OBVIOUS
    <3>3. u \in Seq(OpTypes) /\ DOMAIN u = 1 .. 2 /\ ToSet(u) = {b, c} /\ tc' = tc \o u
      BY <1>6, <1>73, <2>1, <2>4
    <3> HIDE DEF u
    <3>4. \A i, j \in DOMAIN u : i < j => Key(u[i]) < Key(u[j])
      BY <1>1, <1>5, <3>2, <3>3
    <3>5. ToSet(u) = {} \cup {b} \cup (IF call.serialize THEN {c} ELSE {})
      BY <2>4, <3>3
    <3> QED
      BY <1>10, <1>12, <2>1, <3>3, <3>4, <3>5
  <2>5. CASE ~call.serialize
    <3> DEFINE u == <<b>>
    <3>3. u \in Seq(OpTypes) /\ DOMAIN u = 1 .. 1 /\ ToSet(u) = {b} /\ tc' = tc \o u
      BY <1>6, <1>72, <2>1, <2>5
    <3> HIDE DEF u
    <3>4. \A i, j \in DOMAIN u : i < j => Key(u[i]) < Key(u[j])
      BY <3>3
    <3>5. ToSet(u) = {} \cup {b} \cup (IF call.serialize THEN {c} ELSE {})
      BY <2>5, <3>3
    <3> QED
      BY <1>10, <1>12, <2>1, <3>3, <3>4, <3>5
  <2> QED
    BY <1>2, <2>4, <2>5
<1>13. CASE call.split /\ mmaPc = "p"
  <2>1. mmaPc' = "ds" /\ Await(Mma, Only("p_ready")) /\ tc' = tc \o <<a>>
    BY <1>1, <1>6, <1>13 DEF MmaIssueDvDk, MmaWait
  <2>2. MmaFacts'
    BY <1>1, <1>2, <1>3, <1>13, <2>1 DEF MmaFacts
  <2>3. ~Ending' /\ mmaPc' # "kv" /\ DkIssued' = m
    BY <1>1, <1>2, <1>3, <2>1 DEF Ending, DkIssued, PastDk
  <2>4. /\ PSeen' = m + 1 /\ DsSeen' = m
        /\ OrderIssued' = IF call.serialize THEN m ELSE 0
    BY <1>1, <1>2, <1>13, <2>1, <2>3 DEF PSeen, DsSeen, OrderIssued
  <2>5. UNCHANGED <<DqFreeSeen, OrderSeen>>
    BY <1>1, <1>2, <1>3, <1>8, <2>1 DEF DqFreeSeen, OrderSeen
  <2>6. PSeen' = PSeen + Flag("p_ready" = "p_ready") /\ DsSeen' = DsSeen + Flag("p_ready" = "ds_ready")
    BY <1>1, <1>2, <1>8, <1>13, <2>4 DEF Flag
  <2> DEFINE u == <<a>>
  <2>7. u \in Seq(OpTypes) /\ DOMAIN u = 1 .. 1 /\ ToSet(u) = {a} /\ u[1] = a /\ tc' = tc \o u
    BY <1>71, <2>1
  <2> HIDE DEF u
  <2>8. \A i, j \in DOMAIN u : i < j => Key(u[i]) < Key(u[j])
    BY <2>7
  <2>9. \A op \in OpTypes : Issued(op) => \A j \in DOMAIN u : Key(op) < Key(u[j])
    BY <1>8, <1>9, <1>13, <2>7
  <2>10. /\ mmaScores' \in Nat /\ mmaStep' \in Nat /\ DkIssued' \in Nat /\ PSeen' \in Nat
         /\ OrderIssued' \in Nat
    BY <1>1, <1>2, CountsThen
  <2>11. Issued(a)'
    BY <1>1, <1>2, <1>4, <1>7, <2>4, <2>10, IssuedThen
  <2>12. \A op \in ToSet(u) : /\ Issued(op)' /\ op[1] \in {"dv", "dk", "mma_order"}
                              /\ op[1] = "mma_order" => op[2] = OrderIssued
    BY <1>4, <2>7, <2>11
  <2>13. OrderIssued' = OrderIssued /\ DkIssued' >= DkIssued
    BY <1>1, <1>8, <2>3, <2>4
  <2> QED
    BY <1>2, <1>8, <2>1, <2>2, <2>3, <2>5, <2>6, <2>7, <2>8, <2>9, <2>12, <2>13, MmaOperandRings
<1> QED
  BY <1>2, <1>11, <1>12, <1>13

\* All is issued: the last commit.
LEMMA MmaDoneRings == FInv /\ MmaWarp /\ MmaCommitDone => RingInv'
<1> SUFFICES ASSUME FInv, MmaWarp, MmaCommitDone PROVE RingInv'
  OBVIOUS
<1>0. PICK k : k = n
  OBVIOUS
<1>1. /\ k = n /\ TypeOK /\ MmaFacts /\ n \in Nat /\ Queue /\ Counts /\ Seen /\ Singles
      /\ tc \in Seq(OpTypes)
  BY <1>0, FInvParts, TypeParts DEF WorkTypes
<1>2. /\ UNCHANGED <<call, mmaStep, mmaScores, barVars>> /\ n' = n /\ mmaPc = "end"
      /\ mmaPc' = "last_free" /\ mmaStep = n /\ mmaScores = n /\ n > 0
      /\ call.early \in BOOLEAN /\ call.serialize \in BOOLEAN
  BY <1>1, CallType DEF MmaWarp, MmaCommitDone, n, TypeOK, MmaFacts
<1>3. MmaFacts'
  BY <1>1, <1>2 DEF MmaFacts
<1>4. /\ DkIssued = n /\ DkIssued' = n /\ PSeen = n /\ PSeen' = n
      /\ UNCHANGED <<DsSeen, OrderIssued>> /\ ~Ending /\ Ending'
  BY <1>1, <1>2 DEF DkIssued, PSeen, DsSeen, OrderIssued, Ending, PastDk
<1>5. OrderSeen' = OrderSeen /\ DqFreeSeen' = DqFreeSeen
  BY <1>1, <1>2 DEF OrderSeen, DqFreeSeen
<1> DEFINE a == <<"done", k>>
<1> DEFINE u == <<a>>
<1>6. a \in OpTypes /\ a[1] = "done" /\ a[2] = n /\ Key(a) = 12 * n + 11
  BY <1>1 DEF OpTypes, Commits, Key
<1>7. tc' = tc \o u
  BY <1>1, <1>2, <1>6, AppendIsConcat DEF MmaCommitDone
<1> HIDE DEF a
<1>8. u \in Seq(OpTypes) /\ DOMAIN u = 1 .. 1 /\ ToSet(u) = {a} /\ u[1] = a
  BY <1>6, Tuples
<1> HIDE DEF u
<1>9. ASSUME NEW op \in OpTypes, Issued(op) PROVE Key(op) < Key(a)
  <2>1. /\ Key(op) \in Int
        /\ op[1] \in {"scores", "s_ready"} => Key(op) <= 12 * mmaScores - 11
        /\ op[1] = "dv" => Key(op) <= 12 * PSeen - 7
        /\ op[1] \in {"dk", "mma_order"} => Key(op) <= 12 * DkIssued - 5
        /\ op[1] \in {"dq", "dq_ready", "consumed"} =>
             Key(op) <= 12 * mmaStep + IF call.early THEN 4 ELSE -2
        /\ op[1] \in {"scores", "dv", "dk", "dq", "s_ready", "mma_order", "dq_ready", "consumed"}
    BY <1>1, <1>4, <1>9, KeyBounds
  <2> QED
    BY <1>1, <1>2, <1>4, <1>6, <2>1
<1>10. Queued("done") = 0
  <2>1. \A op \in Ops : op[1] # "done"
    BY <1>1, <1>4 DEF Queue, Issued
  <2> QED
    BY <2>1 DEF Queued
<1>11. /\ mmaScores' \in Nat /\ mmaStep' \in Nat /\ DkIssued' \in Nat /\ PSeen' \in Nat
       /\ OrderIssued' \in Nat
  BY <1>1, <1>2, CountsThen
<1>12. Issued(a)' /\ Newest(a)'
  <2>1. Issued(a)'
    BY <1>1, <1>2, <1>4, <1>6, <1>11, IssuedThen
  <2> QED
    BY <1>6, <2>1 DEF Newest
<1>13. Issues(u)
  <2>1. \A i, j \in DOMAIN u : i < j => Key(u[i]) < Key(u[j])
    BY <1>8
  <2>2. a \in ToSet(u)
    BY <1>8
  <2>3. \A op \in ToSet(u) : op = a
    BY <1>8
  <2>4. <<"done", n>> \in ToSet(u)
    BY <1>1, <2>2 DEF a
  <2>5. PSeen' >= PSeen /\ DkIssued' >= DkIssued
    BY <1>1, <1>4
  <2>6. \A op \in ToSet(u) : Issued(op)' /\ Newest(op)' /\ op[1] = "done"
    BY <1>6, <1>12, <2>3
  <2>7. mmaScores' = mmaScores /\ mmaStep' = mmaStep
    BY <1>2
  <2> QED
    BY <1>4, <1>7, <1>10, <2>1, <2>4, <2>5, <2>6, <2>7 DEF Issues
<1>14. \A op \in OpTypes : Issued(op) => \A j \in DOMAIN u : Key(op) < Key(u[j])
  BY <1>8, <1>9
<1>15. /\ Queue' /\ Fifo' /\ Ops' = Ops \cup {a}
       /\ mmaScores' - Queued("s_ready")' = mmaScores - Queued("s_ready")
       /\ OrderIssued' - Queued("mma_order")' = OrderIssued - Queued("mma_order")
       /\ mmaStep' - Queued("dq_ready")' = mmaStep - Queued("dq_ready")
       /\ (IF Ending THEN 1 - Queued("done") ELSE 0)' = IF Ending THEN 1 - Queued("done") ELSE 0
  BY <1>3, <1>8, <1>13, <1>14, MmaIssuesMore
<1>16. RingBarriersStill /\ \A name : SingleStill(name)
  BY <1>2 DEF barVars, RingBarriersStill, SingleStill, Lag
<1>17. Rings' /\ Flights' /\ Order'
  <2>1. ASSUME NEW s \in Nat PROVE ConsumedUp(s)' = ConsumedUp(s)
    <3>1. <<"consumed", s>> # a
      BY DEF a
    <3> QED
      BY <1>2, <1>15, <3>1 DEF ConsumedUp
  <2> QED
    BY <1>1, <1>2, <1>16, <2>1, MmaOffRings
<1>18. Singles'
  BY <1>1, <1>16, SinglesStill
<1>19. seen' = seen /\ left' = left /\ done' = done
  BY <1>2 DEF barVars
<1>20. /\ seen'[Mma][KV] = IF mmaPc' = "kv" THEN 0 ELSE 1
       /\ seen'[Mma][Only("p_ready")] = PSeen'
       /\ seen'[Mma][Only("ds_ready")] = DsSeen'
       /\ seen'[Mma][Only("dq_free")] = DqFreeSeen'
       /\ seen'[Mma][Only("mma_order")] = OrderSeen'
  BY <1>1, <1>2, <1>4, <1>5, <1>19 DEF Seen
<1> QED
  BY <1>3, <1>15, <1>17, <1>18, <1>19, <1>20, MmaFrame

\* Steps of the MMA warp keep the barrier invariant.
LEMMA MmaRings == FInv /\ MmaWarp => RingInv'
BY MmaAwaitRings, MmaScoresRings, MmaDvDkRings, MmaDqRings, MmaDoneRings DEF MmaWarp
-----------------------------------------------------------------------------
\* The engines move no thread.
LEMMA EngineFrame ==
  ASSUME FInv, UNCHANGED <<call, tmaVars, mmaVars, ewVars, dqVars>>, seen' = seen,
         Queue', Fifo', Counts', Singles', Rings', Flights',
         \A name \in {"p_ready", "ds_ready", "loaded"} : SingleStill(name)
  PROVE  RingInv'
<1>1. /\ TypeOK /\ PcFacts /\ Seen /\ Meetings /\ Order
      /\ TmaFacts /\ MmaFacts /\ DqFacts /\ \A e \in Ew : EwFacts(e)
  BY DEF FInv, RingInv, PcFacts
<1>2. PcFacts'
  BY <1>1, TmaStill, MmaStill, EwAllStill, DqStill DEF PcFacts, Ew
<1>3. Seen'
  <2>1. UNCHANGED <<PSeen, DsSeen, DqFreeSeen, OrderSeen, DqSeen, mmaPc, ewPc>>
    BY MmaStill, DqStill DEF mmaVars, ewVars
  <2>2. \A e \in Ew : Past(e, AfterS)' = Past(e, AfterS) /\ UNCHANGED <<LoadedSeen(e), DoneSeen(e)>>
    BY EwAllStill
  <2> QED
    BY <1>1, <2>1, <2>2 DEF Seen, KV, Only, Ew, Mma, Dq
<1>4. Meetings' /\ Order'
  BY <1>1, TmaStill, EwAllStill, MeetingsStill, OrderStill DEF mmaVars
<1> QED
  BY <1>2, <1>3, <1>4 DEF RingInv

\* The rings whose flags stay as they are.
LEMMA RingKept ==
  ASSUME NEW s \in Window, UNCHANGED mmaScores,
         QRing(s), MaskRing(s), ConsumedRing(s), AuxRing(s),
         \A e \in Ew : Past(e, AfterQ)' = Past(e, AfterQ) /\ Past(e, AfterMask)' = Past(e, AfterMask)
  PROVE  /\ /\ left'[Ring("q", s)] = left[Ring("q", s)]
            /\ \A w \in Ew \cup {Mma} : Lag(w, Ring("q", s))' = Lag(w, Ring("q", s))
            /\ UNCHANGED HalfLoaded(s) /\ QUp(s)' = QUp(s)
            => QRing(s)'
         /\ /\ left'[Ring("mask", s)] = left[Ring("mask", s)]
            /\ \A w \in Ew : Lag(w, Ring("mask", s))' = Lag(w, Ring("mask", s))
            /\ MaskUp(s)' = MaskUp(s)
            => MaskRing(s)'
         /\ /\ left'[Ring("consumed", s)] = left[Ring("consumed", s)]
            /\ Lag(Tma, Ring("consumed", s))' = Lag(Tma, Ring("consumed", s))
            /\ ConsumedUp(s)' = ConsumedUp(s) /\ UNCHANGED CFree
            => ConsumedRing(s)'
         /\ /\ left'[Ring("aux_consumed", s)] = left[Ring("aux_consumed", s)]
            /\ Lag(Tma, Ring("aux_consumed", s))' = Lag(Tma, Ring("aux_consumed", s))
            /\ AuxUp(s)' = AuxUp(s) /\ UNCHANGED AuxLeft(s)
            => AuxRing(s)'
<1>1. ASSUME left'[Ring("q", s)] = left[Ring("q", s)],
             \A w \in Ew \cup {Mma} : Lag(w, Ring("q", s))' = Lag(w, Ring("q", s)),
             UNCHANGED HalfLoaded(s), QUp(s)' = QUp(s)
      PROVE  QRing(s)'
  BY <1>1 DEF QRing, Flag, Ew, Ring, Lag, Mma
<1>2. ASSUME left'[Ring("mask", s)] = left[Ring("mask", s)],
             \A w \in Ew : Lag(w, Ring("mask", s))' = Lag(w, Ring("mask", s)),
             MaskUp(s)' = MaskUp(s)
      PROVE  MaskRing(s)'
  BY <1>2 DEF MaskRing, Flag, Ew, Ring, Lag
<1>3. ASSUME left'[Ring("consumed", s)] = left[Ring("consumed", s)],
             Lag(Tma, Ring("consumed", s))' = Lag(Tma, Ring("consumed", s)),
             ConsumedUp(s)' = ConsumedUp(s), UNCHANGED CFree
      PROVE  ConsumedRing(s)'
  BY <1>3 DEF ConsumedRing, Flag, Ring, Lag, Tma
<1>4. ASSUME left'[Ring("aux_consumed", s)] = left[Ring("aux_consumed", s)],
             Lag(Tma, Ring("aux_consumed", s))' = Lag(Tma, Ring("aux_consumed", s)),
             AuxUp(s)' = AuxUp(s), UNCHANGED AuxLeft(s)
      PROVE  AuxRing(s)'
  BY <1>4 DEF AuxRing, Flag, Ring, Lag, Tma
<1> QED
  BY <1>1, <1>2, <1>3, <1>4

\* A step that changes nothing the invariant reads.
LEMMA NothingMoves ==
  ASSUME FInv, UNCHANGED <<call, tmaVars, mmaVars, ewVars, dqVars, copies, tc, barVars>>
  PROVE  RingInv'
<1>1. /\ TypeOK /\ TmaFacts /\ Queue /\ Fifo /\ Counts /\ Singles /\ Rings /\ Flights
  BY DEF FInv, RingInv, PcFacts
<1>2. RingBarriersStill /\ (\A name : SingleStill(name)) /\ seen' = seen /\ done' = done
  BY DEF barVars, RingBarriersStill, SingleStill, Lag
<1>3. UNCHANGED <<Requested, CFree, AFree, Window, mmaStep, mmaScores, Ops, tmaPc>>
  BY TmaStill, QueueStill DEF mmaVars, tmaVars
<1>4. Queue' /\ Fifo' /\ \A name : UNCHANGED Queued(name)
  BY <1>1, <1>3, QueueStill
<1>5. Counts'
  <2>1. UNCHANGED <<KvLanded, OrderIssued, Ending, DqFreed>>
    BY <1>3, MmaStill, DqStill DEF KvLanded, KV, Only
  <2> QED
    BY <1>1, <1>2, <1>3, <1>4, <2>1 DEF Counts, KV, Only
<1>6. Singles' /\ Rings' /\ Flights'
  BY <1>1, <1>2, <1>3, EwAllStill, RingsStill, FlightsStill, SinglesStill
<1> QED
  BY <1>2, <1>4, <1>5, <1>6, EngineFrame

\* A load lands.
LEMMA CopyLands ==
  ASSUME FInv, NEW c \in copies, copies' = copies \ {c}, ArriveOn(CopyBarrier(c)),
         UNCHANGED <<call, tmaVars, mmaVars, ewVars, dqVars, tc>>
  PROVE  RingInv'
<1>1. /\ TypeOK /\ TmaFacts /\ MmaFacts /\ Queue /\ Fifo /\ Counts /\ Singles /\ Rings /\ Flights
      /\ \A e \in Ew : EwFacts(e)
  BY DEF FInv, RingInv, PcFacts
<1>2. /\ UNCHANGED <<Requested, CFree, AFree, Window, mmaStep, mmaScores, Ops, tmaPc, AuxArrived>>
      /\ \A e \in Ew : Past(e, AfterQ)' = Past(e, AfterQ) /\ Past(e, AfterMask)' = Past(e, AfterMask)
  BY TmaStill, QueueStill, EwAllStill DEF mmaVars, tmaVars
<1>3. Queue' /\ Fifo' /\ \A name : UNCHANGED Queued(name)
  BY <1>1, <1>2, QueueStill
<1>4. Flights'
  BY <1>1, <1>2 DEF Flights, KV, Only, Ew
<1>5. UNCHANGED <<OrderIssued, Ending, DqFreed>>
  BY MmaStill, DqStill
<1>6. \A f, s : InFlight(f, s)' <=> InFlight(f, s) /\ <<f, s>> # c
  BY DEF InFlight
<1>7. \A s : ConsumedUp(s)' = ConsumedUp(s) /\ AuxUp(s)' = AuxUp(s) /\ UNCHANGED AuxLeft(s)
  BY <1>2 DEF ConsumedUp, AuxUp, AuxLeft, Ahead, Ew
<1>8. /\ \A s : WaitersOf(Ring("q", s)) = Ew \cup {Mma} /\ WaitersOf(Ring("mask", s)) = Ew
                /\ WaitersOf(Ring("consumed", s)) = {Tma}
                /\ WaitersOf(Ring("aux_consumed", s)) = {Tma}
      /\ KV = Only("kv")
  BY WaitersNamed, BarrierNames
<1>9. c = KV \/ (c = <<c[1], c[2]>> /\ c[1] \in {"q_do", "row", "mask"} /\ c[2] \in Nat)
  BY <1>1, CallType DEF TypeOK
<1>10. CASE c = KV
  <2>1. ArriveOn(Only("kv"))
    BY <1>8, <1>10 DEF CopyBarrier, CopyCell, KV, Only
  <2>2. /\ done'[Only("kv")] = done[Only("kv")] + 1 /\ seen' = seen
        /\ Singles' /\ RingBarriersStill
        /\ \A other \in SingleNames \ {"kv"} : SingleStill(other)
    BY <2>1, SingleArrived
  <2>3. Counts'
    <3>1. tmaPc # "kv" /\ done[KV] = 0 /\ KvLanded' /\ KV \notin copies'
      BY <1>1, <1>2, <1>10 DEF Counts, KvLanded, KV, Only
    <3>2. \A name \in SingleNames \ {"kv"} : done'[Only(name)] = done[Only(name)]
      BY <2>2 DEF SingleStill
    <3> QED
      BY <1>1, <1>2, <1>3, <1>5, <1>8, <2>2, <3>1, <3>2 DEF Counts, SingleNames, KV, Only
  <2>4. Rings'
    <3> SUFFICES ASSUME NEW s \in Window
                 PROVE  QRing(s)' /\ MaskRing(s)' /\ ConsumedRing(s)' /\ AuxRing(s)'
      BY <1>2 DEF Rings
    <3>1. QRing(s) /\ MaskRing(s) /\ ConsumedRing(s) /\ AuxRing(s) /\ s \in Nat
      BY <1>1, TmaProgress DEF Rings, Window
    <3>2. \A f \in {"q_do", "row", "mask"} : InFlight(f, s)' <=> InFlight(f, s)
      BY <1>6, <1>10 DEF KV, Only
    <3>3. UNCHANGED HalfLoaded(s) /\ QUp(s)' = QUp(s) /\ MaskUp(s)' = MaskUp(s)
      BY <1>2, <3>2 DEF HalfLoaded, QUp, MaskUp, InFlight
    <3>4. \A f \in Families :
            /\ left'[Ring(f, s)] = left[Ring(f, s)]
            /\ \A w \in WaitersOf(Ring(f, s)) : Lag(w, Ring(f, s))' = Lag(w, Ring(f, s))
      BY <2>2, <3>1 DEF RingBarriersStill
    <3> QED
      BY <1>2, <1>7, <1>8, <3>1, <3>3, <3>4, RingKept DEF Families
  <2> QED
    BY <1>3, <1>4, <2>2, <2>3, <2>4, EngineFrame DEF SingleNames
<1>11. CASE c # KV
  <2>0. PICK t : t = c[2]
    OBVIOUS
  <2>1. /\ c = <<c[1], t>> /\ c[1] \in {"q_do", "row", "mask"} /\ t \in Nat /\ t < Requested
        /\ c[1] \in {"q_do", "row"} =>
             mmaScores <= t /\ \A e \in Ew : Past(e, AfterQ) <= t
        /\ c[1] = "mask" => t \in call.partial /\ \A e \in Ew : Past(e, AfterMask) <= t
    BY <1>1, <1>9, <1>11, <2>0 DEF Flights
  <2>2. t \in Window
    <3>1. /\ 0 \in Ew /\ AFree \in Nat /\ AFree <= mmaScores /\ mmaScores \in Nat
          /\ AFree <= Past(0, AfterMask) /\ Past(0, AfterMask) \in Nat
      <4>1. 0 \in Ew
        BY Threads
      <4>2. /\ AFree <= CFree /\ CFree <= mmaStep /\ mmaStep <= mmaScores
            /\ AFree <= AuxArrived[0]
        BY <4>1, Chain
      <4>3. /\ AFree \in Nat /\ CFree \in Nat /\ mmaStep \in Nat /\ mmaScores \in Nat
        BY <1>1, TmaProgress, MmaProgress
      <4>4. /\ AuxArrived[0] \in Nat /\ AuxArrived[0] <= Past(0, AfterMask)
            /\ ewStep[0] \in Nat /\ Past(0, AfterMask) \in {ewStep[0], ewStep[0] + 1}
        BY <1>1, <4>1, EwProgress
      <4> QED
        BY <4>1, <4>2, <4>3, <4>4
    <3>2. AFree <= t
      BY <2>1, <3>1
    <3>3. Requested <= AFree + NumStages /\ Requested \in Nat
      BY <1>1, TmaProgress
    <3> QED
      BY <2>1, <3>1, <3>2, <3>3 DEF Window
  <2>3. ASSUME NEW f \in {"q", "mask"}, ArriveOn(Ring(f, t)),
               f = "q" => c[1] \in {"q_do", "row"} /\ QRing(t)',
               f = "mask" => c[1] = "mask" /\ MaskRing(t)'
        PROVE  RingInv'
    <3>1. /\ \A name \in SingleNames : SingleStill(name)
          /\ \A g \in Families, s \in Window : g # f \/ s # t =>
               /\ left'[Ring(g, s)] = left[Ring(g, s)]
               /\ \A w \in WaitersOf(Ring(g, s)) : Lag(w, Ring(g, s))' = Lag(w, Ring(g, s))
      BY <1>1, <2>2, <2>3, ArriveInRing DEF Families
    <3>2. seen' = seen
      <4>1. Ring(f, t) \in Barriers /\ BarTypeOK(Barriers, Waiters)
        BY <1>1, <2>1, BarrierNames, TypeParts
      <4> QED
        BY <2>3, <4>1, ArriveAt
    <3>3. Singles'
      BY <1>1, <3>1, SinglesStill
    <3>4. Counts'
      <4>1. \A name \in SingleNames : done'[Only(name)] = done[Only(name)]
        BY <3>1 DEF SingleStill
      <4>2. UNCHANGED KvLanded /\ (KV \in copies' <=> KV \in copies)
        BY <1>2, <1>11 DEF KvLanded, KV, Only
      <4> QED
        BY <1>1, <1>2, <1>3, <1>5, <1>8, <4>1, <4>2 DEF Counts, SingleNames, KV, Only
    <3>5. Rings'
      <4> SUFFICES ASSUME NEW s \in Window
                   PROVE  QRing(s)' /\ MaskRing(s)' /\ ConsumedRing(s)' /\ AuxRing(s)'
        BY <1>2 DEF Rings
      <4>1. QRing(s) /\ MaskRing(s) /\ ConsumedRing(s) /\ AuxRing(s)
        BY <1>1 DEF Rings
      <4>2. ConsumedRing(s)' /\ AuxRing(s)'
        BY <1>2, <1>7, <1>8, <3>1, <4>1, RingKept DEF Families
      <4>3. QRing(s)'
        <5>1. CASE f = "q" /\ s = t
          BY <2>3, <5>1
        <5>2. CASE ~(f = "q" /\ s = t)
          <6>1. \A g \in {"q_do", "row"} : InFlight(g, s)' <=> InFlight(g, s)
            BY <1>6, <2>1, <2>3, <5>2
          <6>2. UNCHANGED HalfLoaded(s) /\ QUp(s)' = QUp(s)
            BY <1>2, <6>1 DEF HalfLoaded, QUp, InFlight
          <6>3. /\ left'[Ring("q", s)] = left[Ring("q", s)]
                /\ \A w \in Ew \cup {Mma} : Lag(w, Ring("q", s))' = Lag(w, Ring("q", s))
            BY <1>8, <3>1, <5>2 DEF Families
          <6> QED
            BY <1>2, <4>1, <6>2, <6>3, RingKept
        <5> QED
          BY <5>1, <5>2
      <4>4. MaskRing(s)'
        <5>1. CASE f = "mask" /\ s = t
          BY <2>3, <5>1
        <5>2. CASE ~(f = "mask" /\ s = t)
          <6>1. InFlight("mask", s)' <=> InFlight("mask", s)
            BY <1>6, <2>1, <2>3, <5>2
          <6>2. MaskUp(s)' = MaskUp(s)
            BY <1>2, <6>1 DEF MaskUp
          <6>3. /\ left'[Ring("mask", s)] = left[Ring("mask", s)]
                /\ \A w \in Ew : Lag(w, Ring("mask", s))' = Lag(w, Ring("mask", s))
            BY <1>8, <3>1, <5>2 DEF Families
          <6> QED
            BY <1>2, <4>1, <6>2, <6>3, RingKept
        <5> QED
          BY <5>1, <5>2
      <4> QED
        BY <4>2, <4>3, <4>4
    <3> QED
      BY <1>3, <1>4, <3>1, <3>2, <3>3, <3>4, <3>5, EngineFrame DEF SingleNames
  <2>4. CASE c[1] \in {"q_do", "row"}
    <3>1. ArriveOn(Ring("q", t)) /\ Arrivals[Ring("q", t)] = 2
      <4>1. Ring("q", t) \in Barriers
        BY <2>1, BarrierNames
      <4> QED
        BY <2>0, <2>4, <4>1 DEF CopyBarrier, Arrivals, Ring
    <3>2. /\ left[Ring("q", t)] = 1 =>
               /\ left'[Ring("q", t)] = 2
               /\ \A w \in WaitersOf(Ring("q", t)) :
                    Lag(w, Ring("q", t))' = Lag(w, Ring("q", t)) + 1
          /\ left[Ring("q", t)] # 1 =>
               /\ left'[Ring("q", t)] = left[Ring("q", t)] - 1
               /\ \A w \in WaitersOf(Ring("q", t)) : Lag(w, Ring("q", t))' = Lag(w, Ring("q", t))
      BY <1>1, <2>2, <3>1, ArriveInRing DEF Families
    <3>3. QRing(t)
      BY <1>1, <2>2 DEF Rings
    <3>4. ~QUp(t) /\ (QUp(t)' <=> HalfLoaded(t)) /\ (HalfLoaded(t)' <=> ~HalfLoaded(t))
      <4>1. CASE c[1] = "q_do"
        BY <1>2, <1>6, <2>1, <4>1 DEF QUp, HalfLoaded, InFlight
      <4>2. CASE c[1] = "row"
        BY <1>2, <1>6, <2>1, <4>2 DEF QUp, HalfLoaded, InFlight
      <4> QED
        BY <2>4, <4>1, <4>2
    <3>5. Lag(Mma, Ring("q", t)) = 0 /\ \A e \in Ew : Lag(e, Ring("q", t)) = 0
      BY <3>3, <3>4 DEF QRing, Flag
    <3>6. mmaScores' <= t /\ \A e \in Ew : Past(e, AfterQ)' <= t
      BY <1>2, <2>1, <2>4
    <3>7. mmaScores \in Nat /\ \A e \in Ew : ewStep[e] \in Nat /\ Past(e, AfterQ) \in {ewStep[e], ewStep[e] + 1}
      BY <1>1, EwProgress, MmaProgress
    <3>8. t >= mmaScores' /\ \A e \in Ew : t >= Past(e, AfterQ)'
      BY <1>2, <2>1, <3>6, <3>7
    <3>9. QRing(t)'
      <4>1. CASE HalfLoaded(t)
        <5>1. left[Ring("q", t)] = 1
          BY <3>3, <4>1 DEF QRing, Flag
        <5>2. /\ left'[Ring("q", t)] = 2 - Flag(HalfLoaded(t)')
              /\ Lag(Mma, Ring("q", t))' = Flag(t >= mmaScores' /\ QUp(t)')
              /\ \A e \in Ew : Lag(e, Ring("q", t))' = Flag(t >= Past(e, AfterQ)' /\ QUp(t)')
          BY <1>8, <3>2, <3>4, <3>5, <3>8, <4>1, <5>1 DEF Flag
        <5> QED
          BY <5>2 DEF QRing, Flag, Ew, Ring, Lag, Mma
      <4>2. CASE ~HalfLoaded(t)
        <5>1. left[Ring("q", t)] = 2
          BY <3>3, <4>2 DEF QRing, Flag
        <5>2. /\ left'[Ring("q", t)] = 2 - Flag(HalfLoaded(t)')
              /\ Lag(Mma, Ring("q", t))' = Flag(t >= mmaScores' /\ QUp(t)')
              /\ \A e \in Ew : Lag(e, Ring("q", t))' = Flag(t >= Past(e, AfterQ)' /\ QUp(t)')
          BY <1>8, <3>2, <3>4, <3>5, <4>2, <5>1 DEF Flag
        <5> QED
          BY <5>2 DEF QRing, Flag, Ew, Ring, Lag, Mma
      <4> QED
        BY <4>1, <4>2
    <3> QED
      BY <2>3, <2>4, <3>1, <3>9
  <2>5. CASE c[1] = "mask"
    <3>1. ArriveOn(Ring("mask", t)) /\ Arrivals[Ring("mask", t)] = 1
      <4>1. Ring("mask", t) \in Barriers
        BY <2>1, BarrierNames
      <4> QED
        BY <1>11, <2>0, <2>5, <4>1 DEF CopyBarrier, CopyCell, Arrivals, Ring
    <3>2. MaskRing(t)
      BY <1>1, <2>2 DEF Rings
    <3>3. left[Ring("mask", t)] = 1
      BY <3>2 DEF MaskRing
    <3>4. /\ left'[Ring("mask", t)] = 1
          /\ \A w \in Ew : Lag(w, Ring("mask", t))' = Lag(w, Ring("mask", t)) + 1
      BY <1>1, <1>8, <2>2, <3>1, <3>3, ArriveInRing DEF Families
    <3>5. ~MaskUp(t) /\ MaskUp(t)'
      BY <1>2, <1>6, <2>1, <2>5 DEF MaskUp, InFlight
    <3>6. \A e \in Ew : ewStep[e] \in Nat /\ Past(e, AfterMask) \in {ewStep[e], ewStep[e] + 1}
      BY <1>1, EwProgress
    <3>7. \A e \in Ew : t >= Past(e, AfterMask)'
      BY <1>2, <2>1, <2>5, <3>6
    <3>8. \A e \in Ew : Lag(e, Ring("mask", t)) = 0
      BY <3>2, <3>5 DEF MaskRing, Flag
    <3>9. \A e \in Ew : Lag(e, Ring("mask", t))' = Flag(t >= Past(e, AfterMask)' /\ MaskUp(t)')
      BY <3>4, <3>5, <3>7, <3>8 DEF Flag
    <3>10. MaskRing(t)'
      BY <3>4, <3>9 DEF MaskRing, Flag, Ew, Ring, Lag
    <3> QED
      BY <2>3, <2>5, <3>1, <3>10
  <2> QED
    BY <2>1, <2>4, <2>5
<1> QED
  BY <1>10, <1>11

\* Steps of the copy engine keep the barrier invariant.
LEMMA CopyEngineRings == FInv /\ CopyEngine => RingInv'
<1> SUFFICES ASSUME FInv, CopyEngine PROVE RingInv'
  OBVIOUS
<1>1. UNCHANGED <<call, tmaVars, mmaVars, ewVars, dqVars, tc>>
  BY DEF CopyEngine
<1>2. CASE \E c \in copies : copies' = copies \ {c} /\ ArriveOn(CopyBarrier(c))
  BY <1>1, <1>2, CopyLands
<1>3. CASE UNCHANGED <<copies, barVars>>
  BY <1>1, <1>3, NothingMoves
<1> QED
  BY <1>2, <1>3 DEF CopyEngine

\* The oldest work completes, or without in-order execution any MMA, and a
\* commit whose MMAs have completed.
LEMMA Retired ==
  ASSUME FInv, UNCHANGED <<call, tmaVars, mmaVars>>, NEW i \in DOMAIN tc, MayRetire(i),
         tc' = RemoveAt(tc, i)
  PROVE  /\ tc[i] \in Ops /\ tc[i] \in OpTypes /\ Ops' = Ops \ {tc[i]} /\ Queue' /\ Fifo'
         /\ Issued(tc[i]) /\ Newest(tc[i])
         /\ \A name \in {"s_ready", "mma_order", "dq_ready", "done"} :
              Queued(name)' = IF tc[i][1] = name THEN Queued(name) - 1 ELSE Queued(name)
<1>1. /\ TypeOK /\ TmaFacts /\ MmaFacts /\ Queue /\ Fifo /\ tc \in Seq(OpTypes)
  BY TypeParts DEF FInv, RingInv, PcFacts, WorkTypes
<1>2. Ops \subseteq OpTypes
  BY <1>1 DEF Ops, ToSet
<1>3. \A op \in Ops : Issued(op) /\ Newest(op) /\ Key(op) \in Int
  BY <1>1, <1>2, KeyBounds DEF Queue
<1>4. tc[i] \in Ops /\ Ops' = Ops \ {tc[i]} /\ Sorted'
  BY <1>1, <1>3, QueueShrinks DEF Queue
<1>5. \A op : (Issued(op)' <=> Issued(op)) /\ (Newest(op)' <=> Newest(op)) /\ Key(op)' = Key(op)
  BY MmaStill, TmaStill DEF Newest, Key, mmaVars
<1>6. Queue'
  BY <1>3, <1>4, <1>5 DEF Queue
<1>7. Fifo'
  <2> SUFFICES ASSUME NEW op \in Ops', op[1] \notin Commits, NEW c \in Commits \X (0 .. n),
                      Issued(c), c \notin Ops'
               PROVE  Key(c) < Key(op)
    BY <1>5, MmaStill DEF Fifo, Commits
  <2>1. CASE c \notin Ops
    BY <1>1, <1>4, <2>1 DEF Fifo
  <2>2. CASE c \in Ops
    <3>1. c = tc[i] /\ tc[i][1] \in Commits
      BY <1>4, <2>2
    <3>2. PICK j \in DOMAIN tc : op = tc[j]
      BY <1>4 DEF Ops, ToSet
    <3>3. i \in Nat /\ j \in Nat /\ j # i /\ 1 <= j
      BY <1>1, <3>1, <3>2
    <3>4. ~(j < i)
      BY <1>1, <3>1, <3>2, <3>3 DEF MayRetire
    <3> QED
      BY <1>1, <3>1, <3>2, <3>3, <3>4 DEF Queue, Sorted
  <2> QED
    BY <2>1, <2>2
<1>8. ASSUME NEW name \in {"s_ready", "mma_order", "dq_ready", "done"}
      PROVE  Queued(name)' = IF tc[i][1] = name THEN Queued(name) - 1 ELSE Queued(name)
  <2>1. CASE tc[i][1] # name
    BY <1>4, <2>1 DEF Queued
  <2>2. CASE tc[i][1] = name
    <3>1. \A op \in Ops : op[1] = name => op = tc[i]
      <4> SUFFICES ASSUME NEW op \in Ops, op[1] = name PROVE op = tc[i]
        OBVIOUS
      <4>1. /\ op = <<op[1], op[2]>> /\ tc[i] = <<tc[i][1], tc[i][2]>>
        BY <1>2, <1>4 DEF OpTypes
      <4>2. op[2] = tc[i][2]
        <5>1. /\ Issued(op) /\ Newest(op) /\ Issued(tc[i]) /\ Newest(tc[i])
          BY <1>3, <1>4
        <5>2. CASE name = "done"
          BY <2>2, <5>1, <5>2 DEF Issued
        <5>3. CASE name # "done"
          BY <2>2, <5>1, <5>3 DEF Newest
        <5> QED
          BY <5>2, <5>3
      <4> QED
        BY <2>2, <4>1, <4>2
    <3> QED
      BY <1>4, <2>2, <3>1 DEF Queued
  <2> QED
    BY <2>1, <2>2
<1> QED
  BY <1>2, <1>3, <1>4, <1>6, <1>7, <1>8

\* Steps of the tensor core keep the barrier invariant.
LEMMA TensorCoreRings == FInv /\ TensorCore => RingInv'
<1> SUFFICES ASSUME FInv, TensorCore PROVE RingInv'
  OBVIOUS
<1>1. /\ TypeOK /\ TmaFacts /\ MmaFacts /\ Queue /\ Counts /\ Singles /\ Rings /\ Flights
      /\ n \in Nat
  BY FInvParts
<1>2. UNCHANGED <<call, tmaVars, mmaVars, ewVars, dqVars, copies>>
  BY DEF TensorCore
<1>3. PICK i \in DOMAIN tc :
        /\ MayRetire(i) /\ tc' = RemoveAt(tc, i)
        /\ tc[i][1] \in Commits =>
             ArriveOn(IF tc[i][1] = "consumed" THEN Ring(tc[i][1], tc[i][2]) ELSE Only(tc[i][1]))
        /\ tc[i][1] \notin Commits => UNCHANGED barVars
  BY DEF TensorCore
<1>4. PICK op : op = tc[i]
  OBVIOUS
<1>5. /\ op \in Ops /\ op \in OpTypes /\ Ops' = Ops \ {op} /\ Queue' /\ Fifo'
      /\ Issued(op) /\ Newest(op)
      /\ \A name \in {"s_ready", "mma_order", "dq_ready", "done"} :
           Queued(name)' = IF op[1] = name THEN Queued(name) - 1 ELSE Queued(name)
  BY <1>2, <1>3, <1>4, Retired
<1>6. /\ UNCHANGED <<Requested, CFree, AFree, Window, mmaStep, mmaScores, tmaPc, AuxArrived>>
      /\ \A e \in Ew : Past(e, AfterQ)' = Past(e, AfterQ) /\ Past(e, AfterMask)' = Past(e, AfterMask)
  BY <1>2, TmaStill, EwAllStill DEF mmaVars, tmaVars
<1>7. Flights'
  BY <1>1, <1>2, <1>6, EwAllStill, FlightsStill
<1>8. UNCHANGED <<OrderIssued, Ending, DqFreed, KvLanded>> /\ mmaScores \in Nat
      /\ OrderIssued \in Nat /\ mmaStep \in Nat
  BY <1>1, <1>2, <1>6, MmaStill, DqStill, MmaProgress DEF KvLanded, KV, Only
<1>9. \A s : /\ UNCHANGED HalfLoaded(s) /\ QUp(s)' = QUp(s) /\ MaskUp(s)' = MaskUp(s)
             /\ AuxUp(s)' = AuxUp(s) /\ UNCHANGED AuxLeft(s)
  BY <1>2, <1>6 DEF HalfLoaded, QUp, MaskUp, InFlight, AuxUp, AuxLeft, Ahead, Ew
<1>10. op = <<op[1], op[2]>> /\ op[2] \in Nat
  BY <1>5 DEF OpTypes
<1>11. ASSUME \A name \in {"p_ready", "ds_ready", "loaded", "kv", "dq_free"} : SingleStill(name),
              \A name \in {"s_ready", "mma_order", "dq_ready", "done"} :
                done'[Only(name)] = IF op[1] = name THEN done[Only(name)] + 1 ELSE done[Only(name)],
              seen' = seen, Singles', Rings'
       PROVE  RingInv'
  <2>1. \A name \in {"s_ready", "mma_order", "dq_ready", "done"} : Queued(name) \in {0, 1}
    BY DEF Queued
  <2>2. \A name \in {"kv", "dq_free"} : done'[Only(name)] = done[Only(name)]
    BY <1>11 DEF SingleStill
  <2>3. op[1] = "done" => Ending
    BY <1>5 DEF Issued
  <2>4. done'[Only("s_ready")] = mmaScores' - Queued("s_ready")'
    BY <1>1, <1>5, <1>6, <1>8, <1>11, <2>1 DEF Counts
  <2>5. done'[Only("mma_order")] = OrderIssued' - Queued("mma_order")'
    BY <1>1, <1>5, <1>6, <1>8, <1>11, <2>1 DEF Counts
  <2>6. done'[Only("dq_ready")] = mmaStep' - Queued("dq_ready")'
    BY <1>1, <1>5, <1>6, <1>8, <1>11, <2>1 DEF Counts
  <2>7. done'[Only("done")] = IF Ending THEN 1 - Queued("done")' ELSE 0
    BY <1>1, <1>5, <1>8, <1>11, <2>1, <2>3 DEF Counts
  <2>8. Counts'
    BY <1>1, <1>2, <1>6, <1>8, <2>2, <2>4, <2>5, <2>6, <2>7 DEF Counts, KV, Only
  <2> QED
    BY <1>2, <1>5, <1>7, <1>11, <2>8, EngineFrame
<1>12. ASSUME RingBarriersStill, op[1] # "consumed" PROVE Rings'
  <2> SUFFICES ASSUME NEW s \in Window
               PROVE  QRing(s)' /\ MaskRing(s)' /\ ConsumedRing(s)' /\ AuxRing(s)'
    BY <1>6 DEF Rings
  <2>1. QRing(s) /\ MaskRing(s) /\ ConsumedRing(s) /\ AuxRing(s) /\ s \in Nat
    BY <1>1, TmaProgress DEF Rings, Window
  <2>2. <<"consumed", s>> # op
    BY <1>12
  <2>3. ConsumedUp(s)' = ConsumedUp(s)
    BY <1>5, <1>6, <2>2 DEF ConsumedUp
  <2>4. \A f \in Families :
          /\ left'[Ring(f, s)] = left[Ring(f, s)]
          /\ \A w \in WaitersOf(Ring(f, s)) : Lag(w, Ring(f, s))' = Lag(w, Ring(f, s))
    BY <1>12, <2>1 DEF RingBarriersStill
  <2> QED
    BY <1>6, <1>9, <2>1, <2>3, <2>4, RingKept, WaitersNamed DEF Families
<1>13. CASE op[1] \notin Commits
  <2>1. UNCHANGED barVars
    BY <1>3, <1>4, <1>13
  <2>2. RingBarriersStill /\ (\A name : SingleStill(name)) /\ seen' = seen /\ done' = done
    BY <2>1 DEF barVars, RingBarriersStill, SingleStill, Lag
  <2>3. Singles' /\ Rings'
    BY <1>1, <1>12, <1>13, <2>2, SinglesStill DEF Commits
  <2> QED
    BY <1>11, <1>13, <2>2, <2>3 DEF Commits
<1>14. CASE op[1] \in Commits /\ op[1] # "consumed"
  <2>1. PICK name \in {"s_ready", "mma_order", "dq_ready", "done"} : name = op[1]
    BY <1>14 DEF Commits
  <2>2. ArriveOn(Only(name))
    BY <1>3, <1>4, <1>14, <2>1
  <2>3. /\ done'[Only(name)] = done[Only(name)] + 1 /\ seen' = seen
        /\ Singles' /\ RingBarriersStill
        /\ \A other \in SingleNames \ {name} : SingleStill(other)
    BY <2>2, SingleArrived
  <2>4. \A other \in SingleNames \ {name} : done'[Only(other)] = done[Only(other)]
    BY <2>3 DEF SingleStill
  <2> QED
    BY <1>11, <1>12, <1>14, <2>1, <2>3, <2>4 DEF SingleNames
<1>15. CASE op[1] = "consumed"
  <2>0. PICK t : t = op[2]
    OBVIOUS
  <2>1. op = <<"consumed", t>> /\ t \in Nat /\ t < mmaStep /\ t >= CFree
    <3>1. t < mmaStep
      BY <1>1, <1>5, <1>15, <2>0, IssuedWhen, MmaProgress
    <3> QED
      BY <1>5, <1>10, <1>15, <2>0, <3>1 DEF Newest
  <2>2. t \in Window
    BY <1>1, <1>8, <2>1, Chain, TmaProgress DEF Window
  <2>3. ArriveOn(Ring("consumed", t)) /\ Arrivals[Ring("consumed", t)] = 1
    <3>1. Ring("consumed", t) \in Barriers
      BY <2>1, BarrierNames
    <3>2. Arrivals[Ring("consumed", t)] = 1
      BY <3>1 DEF Arrivals, Ring
    <3>3. ArriveOn(Ring("consumed", t))
      BY <1>3, <1>4, <1>15, <2>0 DEF Commits
    <3> QED
      BY <3>2, <3>3
  <2>4. QRing(t) /\ MaskRing(t) /\ ConsumedRing(t) /\ AuxRing(t)
    BY <1>1, <2>2 DEF Rings
  <2>5. left[Ring("consumed", t)] = 1 /\ Lag(Tma, Ring("consumed", t)) = 0
    BY <1>5, <2>1, <2>4 DEF ConsumedRing, ConsumedUp, Flag
  <2>6. /\ \A name \in SingleNames : SingleStill(name)
        /\ \A g \in Families, s \in Window : g # "consumed" \/ s # t =>
             /\ left'[Ring(g, s)] = left[Ring(g, s)]
             /\ \A w \in WaitersOf(Ring(g, s)) : Lag(w, Ring(g, s))' = Lag(w, Ring(g, s))
        /\ left'[Ring("consumed", t)] = 1 /\ Lag(Tma, Ring("consumed", t))' = 1
    BY <1>1, <2>2, <2>3, <2>5, ArriveInRing, WaitersNamed DEF Families
  <2>7. ConsumedRing(t)'
    <3>1. ConsumedUp(t)' /\ t >= CFree'
      BY <1>5, <1>6, <2>1 DEF ConsumedUp
    <3> QED
      BY <2>6, <3>1 DEF ConsumedRing, Flag, Ring, Lag, Tma
  <2>8. Rings'
    <3> SUFFICES ASSUME NEW s \in Window
                 PROVE  QRing(s)' /\ MaskRing(s)' /\ ConsumedRing(s)' /\ AuxRing(s)'
      BY <1>6 DEF Rings
    <3>1. QRing(s) /\ MaskRing(s) /\ ConsumedRing(s) /\ AuxRing(s)
      BY <1>1 DEF Rings
    <3>2. QRing(s)' /\ MaskRing(s)' /\ AuxRing(s)'
      BY <1>6, <1>9, <2>6, <3>1, RingKept, WaitersNamed DEF Families
    <3>3. s # t => ConsumedUp(s)' = ConsumedUp(s)
      BY <1>5, <1>6, <2>1 DEF ConsumedUp
    <3>4. ConsumedRing(s)'
      BY <1>6, <2>6, <2>7, <3>1, <3>3, RingKept, WaitersNamed DEF Families
    <3> QED
      BY <3>2, <3>4
  <2>9. seen' = seen
    <3>1. Ring("consumed", t) \in Barriers /\ BarTypeOK(Barriers, Waiters)
      BY <1>1, <2>1, BarrierNames, TypeParts
    <3> QED
      BY <2>3, <3>1, ArriveAt
  <2>10. Singles'
    BY <1>1, <2>6, SinglesStill
  <2>11. \A name \in SingleNames : done'[Only(name)] = done[Only(name)]
    BY <2>6 DEF SingleStill
  <2> QED
    BY <1>11, <1>15, <2>6, <2>8, <2>9, <2>10, <2>11 DEF SingleNames
<1> QED
  BY <1>13, <1>14, <1>15
-----------------------------------------------------------------------------
\* The TMA warp.
LEMMA TmaFrame ==
  ASSUME FInv, TmaWarp, TmaFacts', Rings', Flights', Order',
         \A name \in SingleNames : SingleStill(name),
         \A w \in Waiters \ {Tma} : seen'[w] = seen[w],
         KvLanded' <=> KvLanded, KV \in copies' => tmaPc' # "kv",
         \A op \in Ops : op[1] = "consumed" => op[2] >= CFree'
  PROVE  RingInv'
<1>1. /\ TypeOK /\ PcFacts /\ Queue /\ Fifo /\ Counts /\ Seen /\ Meetings /\ Singles
      /\ MmaFacts /\ DqFacts /\ \A e \in Ew : EwFacts(e)
  BY DEF FInv, RingInv, PcFacts
<1>2. UNCHANGED <<call, mmaVars, ewVars, dqVars, tc>>
  BY DEF TmaWarp
<1>3. /\ UNCHANGED <<mmaPc, mmaStep, mmaScores, ewPc, OrderIssued, Ending, DqFreed, DqSeen>>
      /\ UNCHANGED <<PSeen, DsSeen, DqFreeSeen, OrderSeen>>
  BY <1>2, MmaStill, DqStill DEF mmaVars, ewVars
<1>4. PcFacts'
  BY <1>1, <1>2, MmaStill, EwAllStill, DqStill DEF PcFacts, Ew
<1>5. UNCHANGED Ops /\ Fifo' /\ \A name : UNCHANGED Queued(name)
  BY <1>1, <1>2, QueueStill
<1>6. Queue'
  <2>1. Sorted'
    BY <1>1, <1>2 DEF Queue, Sorted, Key
  <2>2. \A op \in Ops : Issued(op)'
    BY <1>1, <1>2, MmaStill DEF Queue
  <2>3. \A op \in Ops : Newest(op)'
    BY <1>1, <1>3 DEF Queue, Newest
  <2> QED
    BY <1>5, <2>1, <2>2, <2>3 DEF Queue
<1>7. Counts'
  <2>1. \A name \in SingleNames : done'[Only(name)] = done[Only(name)]
    BY DEF SingleStill
  <2>2. KV = Only("kv")
    BY DEF KV
  <2> QED
    BY <1>1, <1>3, <1>5, <2>1, <2>2 DEF Counts, SingleNames, KV, Only
<1>8. Seen'
  <2>1. seen'[Mma] = seen[Mma] /\ seen'[Dq] = seen[Dq] /\ \A e \in Ew : seen'[e] = seen[e]
    BY Threads
  <2>2. \A e \in Ew : Past(e, AfterS)' = Past(e, AfterS) /\ UNCHANGED <<LoadedSeen(e), DoneSeen(e)>>
    BY <1>2, EwAllStill
  <2> QED
    BY <1>1, <1>3, <2>1, <2>2 DEF Seen, KV, Only, Ew, Mma, Dq
<1>9. Meetings' /\ Singles'
  BY <1>1, <1>2, EwAllStill, MeetingsStill, SinglesStill DEF SingleNames
<1> QED
  BY <1>4, <1>5, <1>6, <1>7, <1>8, <1>9 DEF RingInv

\* A slot whose MMAs have completed is observed.
LEMMA TmaTakesConsumed ==
  ASSUME FInv, TmaWarp, NEW k \in Nat, k = AFree, k = CFree, Await(Tma, Ring("consumed", k)),
         CFree' = k + 1, AFree' = k, UNCHANGED <<Requested, copies>>, TmaFacts',
         tmaPc # "kv", tmaPc' # "kv"
  PROVE  RingInv'
<1>1. /\ TypeOK /\ TmaFacts /\ Queue /\ Rings /\ Flights /\ Order
  BY DEF FInv, RingInv, PcFacts
<1>2. UNCHANGED <<call, mmaVars, ewVars, dqVars, tc>>
  BY DEF TmaWarp
<1>3. /\ UNCHANGED <<mmaStep, mmaScores, AuxArrived, Ops>>
      /\ \A e \in Ew : Past(e, AfterQ)' = Past(e, AfterQ) /\ Past(e, AfterMask)' = Past(e, AfterMask)
  BY <1>2, EwAllStill, QueueStill DEF mmaVars
<1>4. Window' = Window /\ k \in Window /\ Window \subseteq Nat
  BY DEF Window
<1>5. QRing(k) /\ ConsumedRing(k)
  BY <1>1, <1>4 DEF Rings
<1>6. Lag(Tma, Ring("consumed", k)) = Flag(k >= CFree /\ ConsumedUp(k))
  BY <1>5 DEF ConsumedRing
<1>7. /\ \A name \in SingleNames : SingleStill(name)
      /\ \A g \in Families, t \in Window :
              /\ left'[Ring(g, t)] = left[Ring(g, t)]
              /\ \A v \in WaitersOf(Ring(g, t)) : g # "consumed" \/ t # k \/ v # Tma =>
                   Lag(v, Ring(g, t))' = Lag(v, Ring(g, t))
      /\ Lag(Tma, Ring("consumed", k))' = Lag(Tma, Ring("consumed", k)) - 1
      /\ Lag(Tma, Ring("consumed", k)) = 1
  BY <1>1, <1>4, <1>6, AwaitInRing, Threads DEF Families, Flag
<1>8. ConsumedUp(k)
  BY <1>6, <1>7 DEF Flag
<1>9. \A w \in Waiters \ {Tma} : seen'[w] = seen[w]
  BY <1>1, AwaitAt, BarrierNames, Threads, TypeParts
<1>10. \A op \in Ops : op[1] = "consumed" => op[2] >= CFree'
  <2> SUFFICES ASSUME NEW op \in Ops, op[1] = "consumed" PROVE op[2] >= k + 1
    OBVIOUS
  <2>1. op[2] >= k /\ op[2] \in Nat /\ op = <<op[1], op[2]>>
    <3>1. op \in OpTypes
      BY <1>1, TypeParts DEF WorkTypes, Ops, ToSet
    <3> QED
      BY <1>1, <3>1 DEF OpTypes, Queue, Newest
  <2>2. op[2] # k
    BY <1>8, <2>1 DEF ConsumedUp
  <2> QED
    BY <2>1, <2>2
<1>11. Order'
  <2>1. k < mmaStep /\ mmaStep \in Nat
    BY <1>1, <1>8, CallType DEF ConsumedUp, TypeOK
  <2>2. CFree' <= mmaStep' /\ mmaScores' <= Requested'
    BY <1>1, <1>3, <2>1 DEF Order
  <2>3. \A e \in Ew : AFree' <= AuxArrived'[e] /\ Past(e, AfterQ)' <= Requested'
    BY <1>1, <1>3 DEF Order
  <2> QED
    BY <2>2, <2>3 DEF Order, Ew
<1>12. Flights'
  BY <1>1, <1>2, <1>3, FlightsStill
<1>13. \A s : /\ UNCHANGED <<HalfLoaded(s), AuxLeft(s)>>
              /\ QUp(s)' = QUp(s) /\ MaskUp(s)' = MaskUp(s)
              /\ ConsumedUp(s)' = ConsumedUp(s) /\ AuxUp(s)' = AuxUp(s)
  BY <1>2, <1>3, RingFlagsStill
<1>14. \A s : WaitersOf(Ring("q", s)) = Ew \cup {Mma} /\ WaitersOf(Ring("mask", s)) = Ew
              /\ WaitersOf(Ring("consumed", s)) = {Tma}
              /\ WaitersOf(Ring("aux_consumed", s)) = {Tma}
  BY WaitersNamed
<1>15. Rings'
  <2> SUFFICES ASSUME NEW s \in Window
               PROVE  QRing(s)' /\ MaskRing(s)' /\ ConsumedRing(s)' /\ AuxRing(s)'
    BY <1>4 DEF Rings
  <2>1. QRing(s) /\ MaskRing(s) /\ ConsumedRing(s) /\ AuxRing(s)
    BY <1>1 DEF Rings
  <2>2. QRing(s)' /\ MaskRing(s)' /\ AuxRing(s)'
    BY <1>3, <1>7, <1>13, <1>14, <2>1, RingKept DEF Families
  <2>3. Lag(Tma, Ring("consumed", s))' = Flag(s >= k + 1 /\ ConsumedUp(s))
    <3>1. CASE s = k
      BY <1>7, <3>1 DEF Flag
    <3>2. CASE s # k
      <4>1. s >= k /\ s >= k + 1 /\ s \in Nat
        BY <1>4, <3>2 DEF Window
      <4> QED
        BY <1>7, <1>14, <2>1, <3>2, <4>1 DEF ConsumedRing, Families, Flag
    <3> QED
      BY <3>1, <3>2
  <2>4. ConsumedRing(s)'
    BY <1>7, <1>13, <2>1, <2>3 DEF ConsumedRing, Families, Flag, Ring, Lag, Tma
  <2> QED
    BY <2>2, <2>4
<1>16. KvLanded' <=> KvLanded
  BY DEF KvLanded, KV, Only
<1> QED
  BY <1>7, <1>9, <1>10, <1>11, <1>12, <1>15, <1>16, TmaFrame

\* A slot that the warpgroups have released is observed: the window moves on.
LEMMA TmaTakesAux ==
  ASSUME FInv, TmaWarp, NEW k \in Nat, k = AFree, CFree = k + 1,
         Await(Tma, Ring("aux_consumed", k)),
         CFree' = k + 1, AFree' = k + 1, UNCHANGED <<Requested, copies>>, TmaFacts',
         tmaPc # "kv", tmaPc' # "kv"
  PROVE  RingInv'
<1>1. /\ TypeOK /\ TmaFacts /\ MmaFacts /\ Queue /\ Rings /\ Flights /\ Order
      /\ \A e \in Ew : EwFacts(e)
  BY DEF FInv, RingInv, PcFacts
<1>2. UNCHANGED <<call, mmaVars, ewVars, dqVars, tc>>
  BY DEF TmaWarp
<1>3. /\ UNCHANGED <<mmaStep, mmaScores, AuxArrived, Ops>>
      /\ \A e \in Ew : Past(e, AfterQ)' = Past(e, AfterQ) /\ Past(e, AfterMask)' = Past(e, AfterMask)
  BY <1>2, EwAllStill, QueueStill DEF mmaVars
<1>4. PICK t : t = k + NumStages
  OBVIOUS
<1>5. /\ t \in Nat /\ k \in Window /\ Window \subseteq Nat
      /\ \A s \in Window' : s \in Nat /\ (s = t \/ (s \in Window /\ s # k))
  BY <1>4 DEF Window
<1>6. QRing(k) /\ MaskRing(k) /\ ConsumedRing(k) /\ AuxRing(k)
  BY <1>1, <1>5 DEF Rings
<1>7. Lag(Tma, Ring("aux_consumed", k)) = Flag(AuxUp(k))
  BY <1>6 DEF AuxRing
<1>8. /\ \A name \in SingleNames : SingleStill(name)
      /\ \A g \in Families, s \in Window :
              /\ left'[Ring(g, s)] = left[Ring(g, s)]
              /\ \A v \in WaitersOf(Ring(g, s)) : g # "aux_consumed" \/ s # k \/ v # Tma =>
                   Lag(v, Ring(g, s))' = Lag(v, Ring(g, s))
      /\ Lag(Tma, Ring("aux_consumed", k))' = Lag(Tma, Ring("aux_consumed", k)) - 1
      /\ Lag(Tma, Ring("aux_consumed", k)) = 1
  BY <1>1, <1>5, <1>7, AwaitInRing, Threads DEF Families, Flag
<1>9. AuxUp(k)
  BY <1>7, <1>8 DEF Flag
<1>10. \A w \in Waiters \ {Tma} : seen'[w] = seen[w]
  BY <1>1, AwaitAt, BarrierNames, Threads, TypeParts
<1>11. /\ k < mmaScores /\ mmaScores <= t /\ mmaScores \in Nat /\ mmaStep <= t /\ mmaStep \in Nat
       /\ Requested <= t /\ Requested \in Nat
  <2>1. /\ CFree <= mmaStep /\ mmaStep <= mmaScores /\ mmaScores <= Requested
        /\ Requested <= AFree + NumStages
    BY Chain
  <2>2. mmaStep \in Nat /\ mmaScores \in Nat /\ Requested \in Nat
    BY <1>1, CallType, TmaProgress DEF TypeOK
  <2> QED
    BY <1>4, <2>1, <2>2
<1>12. \A e \in Ew :
         /\ AuxArrived[e] \in Nat /\ Past(e, AfterQ) \in Nat /\ Past(e, AfterMask) \in Nat
         /\ k < AuxArrived[e] /\ k < Past(e, AfterMask) /\ k < Past(e, AfterQ)
         /\ AuxArrived[e] <= t
  <2> SUFFICES ASSUME NEW e \in Ew
               PROVE  /\ AuxArrived[e] \in Nat /\ Past(e, AfterQ) \in Nat
                      /\ Past(e, AfterMask) \in Nat
                      /\ k < AuxArrived[e] /\ k < Past(e, AfterMask) /\ k < Past(e, AfterQ)
                      /\ AuxArrived[e] <= t
    OBVIOUS
  <2>1. /\ ewStep[e] \in Nat /\ AuxArrived[e] \in Nat
        /\ \A pcs : Past(e, pcs) \in {ewStep[e], ewStep[e] + 1}
    BY <1>1, EwProgress
  <2>2. Past(e, AfterMask) \in Nat /\ Past(e, AfterS) \in Nat /\ Past(e, AfterQ) \in Nat
    BY <2>1
  <2>3. /\ AuxArrived[e] <= Past(e, AfterMask) /\ Past(e, AfterMask) <= Past(e, AfterS)
        /\ Past(e, AfterS) <= Past(e, AfterQ)
    BY <1>1, EwProgress
  <2>4. Past(e, AfterQ) <= Requested /\ k < AuxArrived[e]
    BY <1>1, <1>9 DEF Order, AuxUp
  <2>5. k < Past(e, AfterMask) /\ k < Past(e, AfterQ) /\ AuxArrived[e] <= Past(e, AfterQ)
    BY <2>1, <2>2, <2>3, <2>4
  <2>6. AuxArrived[e] <= t
    BY <1>5, <1>11, <2>1, <2>2, <2>4, <2>5
  <2> QED
    BY <2>1, <2>2, <2>4, <2>5, <2>6
<1>13. \A f \in {"q_do", "row"} : ~InFlight(f, k)
  <2> SUFFICES ASSUME NEW f \in {"q_do", "row"}, InFlight(f, k) PROVE FALSE
    OBVIOUS
  <2>1. <<f, k>> \in copies \ {KV}
    BY DEF InFlight, KV, Only
  <2>2. \A e \in Ew : Past(e, AfterQ) <= k
    BY <1>1, <2>1 DEF Flights
  <2> QED
    BY <1>12, <2>2, Threads
<1>14. \A f \in {"q_do", "row"} : ~InFlight(f, t)
  <2> SUFFICES ASSUME NEW f \in {"q_do", "row"}, InFlight(f, t) PROVE FALSE
    OBVIOUS
  <2>1. <<f, t>> \in copies \ {KV}
    BY DEF InFlight, KV, Only
  <2>2. t < Requested
    BY <1>1, <2>1 DEF Flights
  <2> QED
    BY <1>5, <1>11, <2>2
<1>15. \A f : Ring(f, t) = Ring(f, k)
  <2>1. t % NumStages = k % NumStages
    <3>1. t >= NumStages /\ t - NumStages = k
      BY <1>4
    <3> QED
      BY <1>5, <3>1, SlotBefore
  <2> QED
    BY <2>1 DEF Ring
<1>16. \A s : /\ UNCHANGED <<HalfLoaded(s), AuxLeft(s)>>
              /\ QUp(s)' = QUp(s) /\ MaskUp(s)' = MaskUp(s)
              /\ ConsumedUp(s)' = ConsumedUp(s) /\ AuxUp(s)' = AuxUp(s)
  BY <1>2, <1>3, RingFlagsStill
<1>17. \A s : WaitersOf(Ring("q", s)) = Ew \cup {Mma} /\ WaitersOf(Ring("mask", s)) = Ew
              /\ WaitersOf(Ring("consumed", s)) = {Tma}
              /\ WaitersOf(Ring("aux_consumed", s)) = {Tma}
  BY WaitersNamed
<1>18. ~HalfLoaded(t) /\ ~QUp(t) /\ ~MaskUp(t) /\ ~ConsumedUp(t) /\ ~AuxUp(t) /\ AuxLeft(t) = NumEw
  <2>1. ~HalfLoaded(t)
    BY <1>14 DEF HalfLoaded, InFlight
  <2>2. ~QUp(t) /\ ~MaskUp(t) /\ ~ConsumedUp(t)
    BY <1>5, <1>11 DEF QUp, MaskUp, ConsumedUp
  <2>3. Ahead(t, AuxArrived) = {} /\ ~AuxUp(t)
    BY <1>5, <1>12, Threads DEF Ahead, AuxUp
  <2>4. AuxLeft(t) = NumEw
    BY <2>3, FS_EmptySet DEF AuxLeft
  <2> QED
    BY <2>1, <2>2, <2>3, <2>4
<1>19. QRing(t)'
  <2>1. left[Ring("q", k)] = 2
    BY <1>6, <1>13 DEF QRing, HalfLoaded, InFlight, Flag
  <2>2. Lag(Mma, Ring("q", k)) = 0
    BY <1>6, <1>11 DEF QRing, Flag
  <2>3. \A e \in Ew : Lag(e, Ring("q", k)) = 0
    BY <1>6, <1>12 DEF QRing, Flag
  <2>4. /\ left'[Ring("q", t)] = 2 /\ Lag(Mma, Ring("q", t))' = 0
        /\ \A e \in Ew : Lag(e, Ring("q", t))' = 0
    BY <1>5, <1>8, <1>15, <1>17, <2>1, <2>2, <2>3 DEF Families
  <2>5. HalfLoaded(t)' = FALSE /\ QUp(t)' = FALSE
    BY <1>16, <1>18
  <2> QED
    BY <2>4, <2>5 DEF QRing, Flag, Ew, Ring, Lag, Mma
<1>20. MaskRing(t)'
  <2>1. left[Ring("mask", k)] = 1 /\ \A e \in Ew : Lag(e, Ring("mask", k)) = 0
    BY <1>6, <1>12 DEF MaskRing, Flag
  <2>2. left'[Ring("mask", t)] = 1 /\ \A e \in Ew : Lag(e, Ring("mask", t))' = 0
    BY <1>5, <1>8, <1>15, <1>17, <2>1 DEF Families
  <2> QED
    BY <1>16, <1>18, <2>2 DEF MaskRing, Flag, Ew, Ring, Lag
<1>21. ConsumedRing(t)'
  <2>1. left[Ring("consumed", k)] = 1 /\ Lag(Tma, Ring("consumed", k)) = 0
    BY <1>6 DEF ConsumedRing, Flag
  <2>2. left'[Ring("consumed", t)] = 1 /\ Lag(Tma, Ring("consumed", t))' = 0
    BY <1>5, <1>8, <1>15, <1>17, <2>1 DEF Families
  <2> QED
    BY <1>16, <1>18, <2>2 DEF ConsumedRing, Flag, Ring, Lag, Tma
<1>22. AuxRing(t)'
  <2>1. left[Ring("aux_consumed", k)] = NumEw
    BY <1>6, <1>9 DEF AuxRing, AuxLeft
  <2>2. left'[Ring("aux_consumed", t)] = NumEw /\ Lag(Tma, Ring("aux_consumed", t))' = 0
    BY <1>5, <1>8, <1>15, <2>1 DEF Families
  <2> QED
    BY <1>16, <1>18, <2>2 DEF AuxRing, Flag, Ring, Lag, Tma
<1>23. Rings'
  <2> SUFFICES ASSUME NEW s \in Window'
               PROVE  QRing(s)' /\ MaskRing(s)' /\ ConsumedRing(s)' /\ AuxRing(s)'
    BY DEF Rings
  <2>1. CASE s = t
    BY <1>19, <1>20, <1>21, <1>22, <2>1
  <2>2. CASE s \in Window /\ s # k
    <3>1. QRing(s) /\ MaskRing(s) /\ ConsumedRing(s) /\ AuxRing(s)
      BY <1>1, <2>2 DEF Rings
    <3>2. \A g \in Families :
            /\ left'[Ring(g, s)] = left[Ring(g, s)]
            /\ \A v \in WaitersOf(Ring(g, s)) : Lag(v, Ring(g, s))' = Lag(v, Ring(g, s))
      BY <1>8, <2>2
    <3> QED
      BY <1>3, <1>16, <1>17, <2>2, <3>1, <3>2, RingKept DEF Families
  <2> QED
    BY <1>5, <2>1, <2>2
<1>24. Order'
  <2>1. \A e \in Ew : k + 1 <= AuxArrived[e]
    BY <1>12
  <2> QED
    BY <1>1, <1>3, <2>1 DEF Order, Ew
<1>25. Flights'
  BY <1>1, <1>2, <1>3, FlightsStill
<1>26. KvLanded' <=> KvLanded
  BY DEF KvLanded, KV, Only
<1>27. \A op \in Ops : op[1] = "consumed" => op[2] >= CFree'
  BY <1>1 DEF Queue, Newest
<1> QED
  BY <1>8, <1>10, <1>23, <1>24, <1>25, <1>26, <1>27, TmaFrame

\* Flags that stay as they are, on the loads' side.
LEMMA TmaRequests ==
  ASSUME FInv, TmaWarp, UNCHANGED <<CFree, AFree, barVars>>,
         \A s \in Window : /\ UNCHANGED HalfLoaded(s)
                           /\ QUp(s)' = QUp(s) /\ MaskUp(s)' = MaskUp(s)
  PROVE  Rings'
<1>1. Rings
  BY DEF FInv, RingInv
<1>2. UNCHANGED <<call, mmaVars, ewVars, dqVars, tc>>
  BY DEF TmaWarp
<1>3. /\ UNCHANGED <<mmaStep, mmaScores, AuxArrived, Ops, Window>>
      /\ \A e \in Ew : Past(e, AfterQ)' = Past(e, AfterQ) /\ Past(e, AfterMask)' = Past(e, AfterMask)
  BY <1>2, EwAllStill, QueueStill DEF mmaVars, Window
<1>4. \A b : left'[b] = left[b] /\ \A w : Lag(w, b)' = Lag(w, b)
  BY DEF barVars, Lag
<1>5. \A s : ConsumedUp(s)' = ConsumedUp(s) /\ AuxUp(s)' = AuxUp(s) /\ UNCHANGED AuxLeft(s)
  BY <1>3 DEF ConsumedUp, AuxUp, AuxLeft, Ahead, Ew
<1> SUFFICES ASSUME NEW s \in Window
             PROVE  QRing(s)' /\ MaskRing(s)' /\ ConsumedRing(s)' /\ AuxRing(s)'
  BY <1>3 DEF Rings
<1>6. QRing(s) /\ MaskRing(s) /\ ConsumedRing(s) /\ AuxRing(s)
  BY <1>1 DEF Rings
<1> QED
  BY <1>3, <1>4, <1>5, <1>6, RingKept

\* The load of K and V.
LEMMA TmaLoadsKv ==
  ASSUME FInv, TmaWarp, TmaLoad, tmaPc = "kv"
  PROVE  RingInv'
<1>1. /\ TypeOK /\ TmaFacts /\ Queue /\ Counts /\ Flights /\ Order /\ n \in Nat
  BY FInvParts
<1>2. UNCHANGED <<call, mmaVars, ewVars, dqVars, tc>> /\ n' = n
  BY DEF TmaWarp, n
<1>3. TmaEnter(0) /\ copies' = {KV} /\ UNCHANGED barVars
  BY DEF TmaLoad
<1>4. tmaStep = 0 /\ Requested = 0 /\ CFree = 0 /\ AFree = 0
  BY <1>1 DEF TmaFacts, Requested, CFree, AFree
<1>5. /\ tmaStep' = 0 /\ (IF n = 0 THEN tmaPc' = "done" ELSE tmaPc' = "load")
  BY <1>1, <1>3 DEF TmaEnter, TmaDrain, DrainStart, LastStep
<1>6. Requested' = 0 /\ CFree' = 0
  BY <1>1, <1>2, <1>5 DEF Requested, CFree
<1>7. AFree' = 0
  BY <1>5, <1>6 DEF AFree
<1>8. TmaFacts'
  BY <1>1, <1>2, <1>5 DEF TmaFacts
<1>9. /\ \A s \in Window : s \in Nat
      /\ \A f \in {"q_do", "row"} : \A s : ~InFlight(f, s) /\ ~InFlight(f, s)'
  <2>1. ASSUME NEW f \in {"q_do", "row"}, NEW s PROVE ~InFlight(f, s) /\ ~InFlight(f, s)'
    <3>1. <<f, s>> # KV
      BY <2>1 DEF KV, Only
    <3>2. <<f, s>> \notin copies
      <4> SUFFICES ASSUME <<f, s>> \in copies PROVE FALSE
        OBVIOUS
      <4>1. s < Requested /\ s \in Nat
        BY <1>1, <3>1, CallType DEF Flights, TypeOK
      <4> QED
        BY <1>4, <4>1
    <3> QED
      BY <1>3, <3>1, <3>2 DEF InFlight, KV, Only
  <2> QED
    BY <1>4, <2>1 DEF Window
<1>10. \A s \in Window : /\ UNCHANGED HalfLoaded(s)
                         /\ QUp(s)' = QUp(s) /\ MaskUp(s)' = MaskUp(s)
  <2> SUFFICES ASSUME NEW s \in Window
               PROVE  UNCHANGED HalfLoaded(s) /\ QUp(s)' = QUp(s) /\ MaskUp(s)' = MaskUp(s)
    OBVIOUS
  <2>1. UNCHANGED HalfLoaded(s)
    BY <1>9 DEF HalfLoaded, InFlight
  <2>2. ~(s < Requested) /\ ~(s < Requested')
    BY <1>4, <1>6, <1>9
  <2> QED
    BY <2>1, <2>2 DEF QUp, MaskUp
<1>11. Rings'
  BY <1>3, <1>4, <1>6, <1>7, <1>10, TmaRequests
<1>12. Flights'
  BY <1>3 DEF Flights, KV, Only
<1>13. Order'
  BY <1>1, <1>2, <1>4, <1>6, <1>7, EwAllStill, OrderStill DEF mmaVars
<1>14. /\ \A name \in SingleNames : SingleStill(name)
       /\ \A w \in Waiters \ {Tma} : seen'[w] = seen[w]
  BY <1>3 DEF barVars, SingleStill
<1>15. (KvLanded' <=> KvLanded) /\ tmaPc' # "kv"
  BY <1>1, <1>3, <1>5 DEF KvLanded, KV, Only
<1>16. \A op \in Ops : op[1] = "consumed" => op[2] >= CFree'
  BY <1>1, <1>4, <1>6 DEF Queue, Newest
<1> QED
  BY <1>8, <1>11, <1>12, <1>13, <1>14, <1>15, <1>16, TmaFrame

\* The loads of a step.
LEMMA TmaLoadsStep ==
  ASSUME FInv, TmaWarp, TmaLoad, tmaPc = "load"
  PROVE  RingInv'
<1>0. PICK t : t = tmaStep
  OBVIOUS
<1>1. /\ TypeOK /\ TmaFacts /\ Queue /\ Counts /\ Flights /\ Order /\ n \in Nat /\ t \in Nat /\ t < n
      /\ \A e \in Ew : EwFacts(e)
  BY <1>0, FInvParts DEF TmaFacts
<1>2. UNCHANGED <<call, mmaVars, ewVars, dqVars, tc>> /\ n' = n
  BY DEF TmaWarp, n
<1>3. /\ TmaEnter(t + 1) /\ UNCHANGED barVars
      /\ copies' = copies \cup {<<"q_do", t>>, <<"row", t>>}
             \cup (IF t \in call.partial THEN {<<"mask", t>>} ELSE {})
  BY <1>0 DEF TmaLoad
<1>4. /\ Requested = t /\ CFree = (IF t >= NumStages THEN t - NumStages + 1 ELSE 0)
      /\ AFree = CFree
  BY <1>0 DEF Requested, CFree, AFree
<1>5. /\ TmaFacts' /\ Requested' = t + 1 /\ CFree' = CFree /\ AFree' = AFree
      /\ tmaPc' \in {"drain", "consumed", "load"}
  <2>1. CASE t + 1 = n
    <3>1. /\ tmaPc' = "drain" /\ tmaStep' = IF n > NumStages THEN n - NumStages ELSE 0
      BY <1>1, <1>3, <2>1 DEF TmaEnter, TmaDrain, DrainStart, LastStep
    <3>2. Requested' = t + 1 /\ CFree' = CFree
      BY <1>1, <1>2, <1>4, <2>1, <3>1 DEF Requested, CFree
    <3>3. AFree' = AFree
      BY <1>4, <3>1, <3>2 DEF AFree
    <3>4. TmaFacts'
      BY <1>1, <1>2, <3>1 DEF TmaFacts
    <3> QED
      BY <3>1, <3>2, <3>3, <3>4
  <2>2. CASE t + 1 # n
    <3>1. tmaPc' = (IF t + 1 >= NumStages THEN "consumed" ELSE "load") /\ tmaStep' = t + 1
      BY <1>1, <1>3, <2>2 DEF TmaEnter, LastStep
    <3>2. Requested' = t + 1 /\ CFree' = CFree
      BY <1>1, <1>2, <1>4, <3>1 DEF Requested, CFree
    <3>3. AFree' = AFree
      BY <1>4, <3>1, <3>2 DEF AFree
    <3>4. TmaFacts'
      BY <1>1, <1>2, <2>2, <3>1 DEF TmaFacts
    <3> QED
      BY <3>1, <3>2, <3>3, <3>4
  <2> QED
    BY <2>1, <2>2
<1>6. \A s \in Window : s \in Nat
  BY <1>1, TmaProgress DEF Window
<1>7. \A f \in {"q_do", "row", "mask"} : ~InFlight(f, t)
  <2> SUFFICES ASSUME NEW f \in {"q_do", "row", "mask"}, <<f, t>> \in copies PROVE FALSE
    BY DEF InFlight
  <2>1. t < Requested
    BY <1>1 DEF Flights, KV, Only
  <2> QED
    BY <1>1, <1>4, <2>1
<1>8. \A s \in Window : /\ UNCHANGED HalfLoaded(s)
                        /\ QUp(s)' = QUp(s) /\ MaskUp(s)' = MaskUp(s)
  <2> SUFFICES ASSUME NEW s \in Window
               PROVE  UNCHANGED HalfLoaded(s) /\ QUp(s)' = QUp(s) /\ MaskUp(s)' = MaskUp(s)
    OBVIOUS
  <2>1. CASE s = t
    <3>1. InFlight("q_do", s)' /\ InFlight("row", s)' /\ (t \in call.partial => InFlight("mask", s)')
      BY <1>3, <2>1 DEF InFlight
    <3>2. UNCHANGED HalfLoaded(s)
      BY <1>7, <2>1, <3>1 DEF HalfLoaded, InFlight
    <3>3. ~QUp(s) /\ ~QUp(s)'
      BY <1>1, <1>4, <2>1, <3>1 DEF QUp
    <3>4. ~MaskUp(s) /\ ~MaskUp(s)'
      BY <1>1, <1>2, <1>4, <2>1, <3>1 DEF MaskUp
    <3>5. QUp(s)' = QUp(s)
      BY <3>3 DEF QUp, InFlight
    <3>6. MaskUp(s)' = MaskUp(s)
      BY <3>4 DEF MaskUp, InFlight
    <3> QED
      BY <3>2, <3>5, <3>6
  <2>2. CASE s # t
    <3>1. \A f : InFlight(f, s)' = InFlight(f, s)
      BY <1>3, <2>2 DEF InFlight
    <3>2. (s < Requested') = (s < Requested)
      BY <1>1, <1>4, <1>5, <1>6, <2>2
    <3> QED
      BY <1>2, <3>1, <3>2 DEF HalfLoaded, QUp, MaskUp, InFlight
  <2> QED
    BY <2>1, <2>2
<1>9. Rings'
  BY <1>3, <1>5, <1>8, TmaRequests
<1>10. /\ UNCHANGED <<mmaStep, mmaScores, AuxArrived>> /\ mmaScores \in Nat
       /\ \A e \in Ew : Past(e, AfterQ)' = Past(e, AfterQ) /\ Past(e, AfterMask)' = Past(e, AfterMask)
  BY <1>1, <1>2, EwAllStill DEF mmaVars, TypeOK
<1>11. /\ mmaScores <= t
       /\ \A e \in Ew : /\ Past(e, AfterQ) \in Nat
                        /\ Past(e, AfterQ) <= t /\ Past(e, AfterMask) <= t
  <2>1. mmaScores <= t
    BY <1>1, <1>4 DEF Order
  <2>2. ASSUME NEW e \in Ew
        PROVE  /\ Past(e, AfterQ) \in Nat /\ Past(e, AfterQ) <= t /\ Past(e, AfterMask) <= t
    <3>1. /\ ewStep[e] \in Nat /\ \A pcs : Past(e, pcs) \in {ewStep[e], ewStep[e] + 1}
          /\ Past(e, AfterMask) <= Past(e, AfterS) /\ Past(e, AfterS) <= Past(e, AfterQ)
      BY <1>1, EwProgress
    <3>2. Past(e, AfterQ) <= t
      BY <1>1, <1>4 DEF Order
    <3>3. Past(e, AfterQ) \in Nat /\ Past(e, AfterS) \in Nat /\ Past(e, AfterMask) \in Nat
      BY <3>1
    <3>4. Past(e, AfterMask) <= t
      BY <1>1, <3>1, <3>2, <3>3
    <3> QED
      BY <3>2, <3>3, <3>4
  <2> QED
    BY <2>1, <2>2
<1>12. Flights'
  <2> SUFFICES ASSUME NEW c \in copies' \ {KV}
               PROVE  /\ c[2] < t + 1
                      /\ c[1] \in {"q_do", "row"} =>
                           mmaScores <= c[2] /\ \A e \in Ew : Past(e, AfterQ) <= c[2]
                      /\ c[1] = "mask" =>
                           c[2] \in call.partial /\ \A e \in Ew : Past(e, AfterMask) <= c[2]
    BY <1>2, <1>5, <1>10 DEF Flights, KV, Only, Ew
  <2>1. CASE c \in copies
    <3>1. /\ c[2] < t
          /\ c[1] \in {"q_do", "row"} =>
               mmaScores <= c[2] /\ \A e \in Ew : Past(e, AfterQ) <= c[2]
          /\ c[1] = "mask" =>
               c[2] \in call.partial /\ \A e \in Ew : Past(e, AfterMask) <= c[2]
      BY <1>1, <1>4, <2>1 DEF Flights
    <3>2. c[2] \in Nat
      BY <1>1, <2>1, CallType DEF TypeOK
    <3> QED
      BY <1>1, <3>1, <3>2
  <2>2. CASE c \notin copies
    <3>1. c[2] = t /\ (c[1] = "mask" => t \in call.partial)
      BY <1>3, <2>2
    <3> QED
      BY <1>1, <1>11, <3>1
  <2> QED
    BY <2>1, <2>2
<1>13. Order'
  <2>1. mmaScores <= t + 1 /\ \A e \in Ew : Past(e, AfterQ) <= t + 1
    BY <1>1, <1>10, <1>11
  <2> QED
    BY <1>1, <1>5, <1>10, <2>1 DEF Order, Ew
<1>14. /\ \A name \in SingleNames : SingleStill(name)
       /\ \A w \in Waiters \ {Tma} : seen'[w] = seen[w]
  BY <1>3 DEF barVars, SingleStill
<1>15. (KvLanded' <=> KvLanded) /\ tmaPc' # "kv"
  BY <1>3, <1>5 DEF KvLanded, KV, Only
<1>16. \A op \in Ops : op[1] = "consumed" => op[2] >= CFree'
  BY <1>1, <1>5 DEF Queue, Newest
<1> QED
  BY <1>5, <1>9, <1>12, <1>13, <1>14, <1>15, <1>16, TmaFrame

\* The waits of the TMA warp, in its loop and in the drain.
LEMMA TmaAwaits ==
  ASSUME FInv, TmaWarp, TmaAwait
  PROVE  RingInv'
<1>0. PICK t : t = tmaStep
  OBVIOUS
<1>1. /\ TypeOK /\ TmaFacts /\ n \in Nat /\ t \in Nat /\ t < n /\ n' = n
      /\ UNCHANGED copies
  <2>1. /\ TypeOK /\ TmaFacts /\ n \in Nat /\ t \in Nat
    BY <1>0, FInvParts
  <2>2. tmaPc \in {"consumed", "aux", "drain", "drain_aux"} /\ UNCHANGED copies
    BY DEF TmaAwait
  <2>3. n' = n
    BY DEF TmaWarp, n
  <2>4. t < n
    BY <1>0, <2>1, <2>2 DEF TmaFacts
  <2> QED
    BY <2>1, <2>2, <2>3, <2>4
<1>2. CASE tmaPc \in {"consumed", "aux"}
  <2>0. PICK k : k = t - NumStages
    OBVIOUS
  <2>1. t >= NumStages /\ k \in Nat
    BY <1>0, <1>1, <1>2, <2>0 DEF TmaFacts
  <2>2. \A f : Ring(f, t) = Ring(f, k)
    BY <1>1, <2>0, <2>1, SlotBefore DEF Ring
  <2>3. CASE tmaPc = "consumed"
    <3>1. Await(Tma, Ring("consumed", k)) /\ tmaPc' = "aux" /\ tmaStep' = tmaStep
      BY <1>0, <2>2, <2>3 DEF TmaAwait, AfterConsumed
    <3>2. CFree = k /\ AFree = k /\ Requested = t
      BY <1>0, <2>0, <2>3 DEF CFree, AFree, Requested
    <3>3. CFree' = k + 1 /\ Requested' = t
      BY <1>0, <1>1, <2>0, <2>1, <3>1 DEF CFree, Requested
    <3>4. AFree' = k
      BY <2>1, <3>1, <3>3 DEF AFree
    <3>5. TmaFacts'
      BY <1>0, <1>1, <2>1, <3>1 DEF TmaFacts
    <3> QED
      BY <1>1, <2>1, <2>3, <3>1, <3>2, <3>3, <3>4, <3>5, TmaTakesConsumed
  <2>4. CASE tmaPc = "aux"
    <3>1. Await(Tma, Ring("aux_consumed", k)) /\ tmaPc' = "load" /\ tmaStep' = tmaStep
      BY <1>0, <2>2, <2>4 DEF TmaAwait
    <3>2. CFree = k + 1 /\ Requested = t
      BY <1>0, <1>1, <2>0, <2>1, <2>4 DEF CFree, Requested
    <3>3. AFree = k
      BY <2>1, <2>4, <3>2 DEF AFree
    <3>4. CFree' = k + 1 /\ Requested' = t
      BY <1>0, <1>1, <2>0, <2>1, <3>1 DEF CFree, Requested
    <3>5. AFree' = k + 1
      BY <3>1, <3>4 DEF AFree
    <3>6. TmaFacts'
      BY <1>0, <1>1, <3>1 DEF TmaFacts
    <3> QED
      BY <1>1, <2>1, <2>4, <3>1, <3>2, <3>3, <3>4, <3>5, <3>6, TmaTakesAux
  <2> QED
    BY <1>2, <2>3, <2>4
<1>3. CASE tmaPc = "drain"
  <2>1. Await(Tma, Ring("consumed", t)) /\ tmaPc' = "drain_aux" /\ tmaStep' = tmaStep
    BY <1>0, <1>3 DEF TmaAwait
  <2>2. CFree = t /\ AFree = t /\ Requested = n
    BY <1>0, <1>3 DEF CFree, AFree, Requested
  <2>3. CFree' = t + 1 /\ Requested' = n
    BY <1>0, <1>1, <2>1 DEF CFree, Requested
  <2>4. AFree' = t
    BY <1>1, <2>1, <2>3 DEF AFree
  <2>5. TmaFacts'
    BY <1>0, <1>1, <1>3, <2>1 DEF TmaFacts
  <2> QED
    BY <1>1, <1>3, <2>1, <2>2, <2>3, <2>4, <2>5, TmaTakesConsumed
<1>4. CASE tmaPc = "drain_aux"
  <2>1. /\ Await(Tma, Ring("aux_consumed", t))
        /\ tmaPc' = (IF t + 1 < n THEN "drain" ELSE "done") /\ tmaStep' = t + 1
    BY <1>0, <1>4 DEF TmaAwait, TmaDrain
  <2>2. CFree = t + 1 /\ Requested = n
    BY <1>0, <1>4 DEF CFree, Requested
  <2>3. AFree = t
    BY <1>1, <1>4, <2>2 DEF AFree
  <2>4. CFree' = t + 1 /\ Requested' = n
    BY <1>0, <1>1, <2>1 DEF CFree, Requested
  <2>5. AFree' = t + 1
    BY <2>1, <2>4 DEF AFree
  <2>6. TmaFacts'
    BY <1>0, <1>1, <1>4, <2>1 DEF TmaFacts
  <2> QED
    BY <1>1, <1>4, <2>1, <2>2, <2>3, <2>4, <2>5, <2>6, TmaTakesAux
<1> QED
  BY <1>2, <1>3, <1>4 DEF TmaAwait

\* Steps of the TMA warp keep the barrier invariant.
LEMMA TmaRings == FInv /\ TmaWarp => RingInv'
BY TmaAwaits, TmaLoadsKv, TmaLoadsStep DEF TmaWarp, TmaLoad
-----------------------------------------------------------------------------
\* The invariant.
LEMMA InitTypes == Init => TypeOK
<1> SUFFICES ASSUME Init PROVE TypeOK
  OBVIOUS
<1>1. call \in Calls /\ n \in Nat /\ 0 \in 0 .. n
  BY CallType DEF Init
<1>2. ThreadTypes
  BY <1>1 DEF Init, ThreadTypes, DqTop
<1>3. WorkTypes
  BY <1>1 DEF Init, WorkTypes
<1>4. DataTypes
  <2>1. /\ smem \in [Cells -> Steps \cup {0, Undefined}]
        /\ ds \in [{0, 1} -> [Ew -> Tags]] /\ tile \in [Ew -> Tags]
        /\ dqReg \in Tags /\ stage \in Tags /\ stageBusy \in BOOLEAN
    BY DEF Init, Tags, Blank
  <2>2. [scores |-> Undefined, stored |-> Blank] \in Unions /\ Garbage \in Sums /\ Undefined \in Tags
    BY DEF Unions, Sums, Tags, Blank, Garbage
  <2>3. tmem \in [sp : Unions, dd : Unions, dk : Sums, dv : Sums, dq : Tags]
    BY <2>2 DEF Init
  <2>4. gmem \in [dq : Seq(Tags), dk : Seq(Sums), dv : Seq(Sums)]
    BY DEF Init
  <2> QED
    BY <2>1, <2>3, <2>4 DEF DataTypes
<1>5. BarTypeOK(Barriers, Waiters)
  <2>1. Arrivals \in [Barriers -> Nat \ {0}]
    BY DEF Arrivals
  <2>2. InitBarriers(Arrivals, Waiters) /\ DOMAIN Arrivals = Barriers
    BY DEF Init, Waiters, Arrivals
  <2> QED
    BY <2>1, <2>2 DEF InitBarriers, BarTypeOK
<1> QED
  BY <1>1, <1>2, <1>3, <1>4, <1>5, TypeParts

\* The barrier invariant holds initially.
LEMMA InitRings == Init => RingInv
<1> SUFFICES ASSUME Init PROVE RingInv
  OBVIOUS
<1>1. /\ TypeOK /\ call \in Calls /\ n \in Nat
      /\ tmaPc = "kv" /\ mmaPc = "kv" /\ \A e \in Ew : ewPc[e] = "kv" /\ ewStep[e] = 0
      /\ tmaStep = 0 /\ mmaStep = 0 /\ mmaScores = 0 /\ dqStep = 0 /\ copies = {} /\ tc = <<>>
      /\ dqPc = (IF 0 < n THEN "wait" ELSE "drain")
  BY InitTypes, CallType DEF Init, DqTop
<1>2. /\ left = Arrivals /\ \A b \in Barriers : done[b] = 0
      /\ \A w \in Waiters, b \in Barriers : seen[w][b] = 0
  BY DEF Init, InitBarriers, Waiters, Arrivals
<1>3. /\ \A f \in Families, s \in Nat : Ring(f, s) \in Barriers
      /\ \A name \in SingleNames : Only(name) \in Barriers
  BY BarrierNames DEF Families, SingleNames
<1>4. PcFacts
  <2>1. \A e \in Ew : EwFacts(e)
    BY <1>1 DEF EwFacts, AfterQ, AfterS, AfterLoad, AfterLoaded, AfterMask
  <2> QED
    BY <1>1, <2>1 DEF PcFacts, TmaFacts, MmaFacts, DqFacts
<1>5. /\ Requested = 0 /\ CFree = 0 /\ AFree = 0 /\ DkIssued = 0 /\ PSeen = 0 /\ DsSeen = 0
      /\ OrderIssued = 0 /\ OrderSeen = 0 /\ DqFreeSeen = 0 /\ DqSeen = 0 /\ DqFreed = 0
      /\ ~Ending /\ ~KvLanded
  <2>1. Requested = 0 /\ CFree = 0
    BY <1>1 DEF Requested, CFree
  <2>2. AFree = 0
    BY <1>1, <2>1 DEF AFree
  <2>3. DkIssued = 0
    BY <1>1 DEF DkIssued, PastDk
  <2>4. PSeen = 0 /\ DsSeen = 0 /\ OrderIssued = 0
    BY <1>1, <2>3 DEF PSeen, DsSeen, OrderIssued
  <2>5. OrderSeen = 0 /\ DqFreeSeen = 0
    BY <1>1 DEF OrderSeen, DqFreeSeen
  <2>6. DqSeen = 0 /\ DqFreed = 0
    BY <1>1 DEF DqSeen, DqFreed
  <2>7. ~Ending /\ ~KvLanded
    BY <1>1 DEF Ending, KvLanded
  <2> QED
    BY <2>1, <2>2, <2>3, <2>4, <2>5, <2>6, <2>7
<1>6. /\ Ops = {} /\ \A name : Queued(name) = 0
  <2>1. Ops = {}
    BY <1>1 DEF Ops, ToSet
  <2> QED
    BY <2>1 DEF Queued
<1>7. \A e \in Ew :
        /\ Past(e, AfterQ) = 0 /\ Past(e, AfterS) = 0 /\ Past(e, AfterMask) = 0
        /\ AuxArrived[e] = 0 /\ PArrived[e] = 0 /\ DsArrived[e] = 0
        /\ LoadedBy[e] = 0 /\ LoadedSeen(e) = 0 /\ DoneSeen(e) = 0
  <2> SUFFICES ASSUME NEW e \in Ew
               PROVE  /\ Past(e, AfterQ) = 0 /\ Past(e, AfterS) = 0 /\ Past(e, AfterMask) = 0
                      /\ AuxArrived[e] = 0 /\ PArrived[e] = 0 /\ DsArrived[e] = 0
                      /\ LoadedBy[e] = 0 /\ LoadedSeen(e) = 0 /\ DoneSeen(e) = 0
    OBVIOUS
  <2>1. /\ Past(e, AfterQ) = 0 /\ Past(e, AfterS) = 0 /\ Past(e, AfterMask) = 0
        /\ Past(e, AfterLoad) = 0 /\ Past(e, AfterLoaded) = 0
    BY <1>1 DEF Past, AfterQ, AfterS, AfterLoad, AfterLoaded, AfterMask
  <2>2. Past(e, {"ready"}) = 0 /\ Past(e, {"store_ds", "ready"}) = 0
    BY <1>1 DEF Past
  <2> QED
    BY <1>1, <2>1, <2>2 DEF AuxArrived, PArrived, DsArrived, LoadedBy, LoadedSeen, DoneSeen
<1>8. Queue /\ Fifo /\ Flights
  BY <1>1, <1>6 DEF Queue, Sorted, Fifo, Flights
<1>9. Counts
  <2>1. \A name \in SingleNames : done[Only(name)] = 0
    BY <1>2, <1>3
  <2> QED
    BY <1>1, <1>5, <1>6, <2>1 DEF Counts, SingleNames, KV
<1>10. Seen
  <2>1. \A w \in Waiters : \A name \in SingleNames : seen[w][Only(name)] = 0
    BY <1>2, <1>3
  <2> QED
    BY <1>1, <1>5, <1>7, <2>1, Threads DEF Seen, SingleNames, KV
<1>11. Meetings
  <2>1. \A name \in {"p_ready", "ds_ready", "loaded"} :
           done[Only(name)] = 0 /\ left[Only(name)] = NumEw
    BY <1>2, <1>3 DEF SingleNames, Arrivals, Only
  <2>2. Ahead(0, PArrived) = {} /\ Ahead(0, DsArrived) = {} /\ Ahead(0, LoadedBy) = {}
    BY <1>7 DEF Ahead
  <2> QED
    BY <1>7, <2>1, <2>2, FS_EmptySet DEF Meetings, Met
<1>12. Singles
  <2>1. \A name \in {"kv", "s_ready", "dq_ready", "dq_free", "done", "mma_order"} :
           left[Only(name)] = 1
    BY <1>2, <1>3 DEF SingleNames, Arrivals, Only
  <2>2. \A name \in SingleNames : WaitersOf(Only(name)) \subseteq Waiters
    BY WaitersNamed, Threads DEF SingleNames, KV
  <2>3. \A name \in SingleNames : \A w \in WaitersOf(Only(name)) :
           seen[w][Only(name)] = 0 /\ done[Only(name)] = 0
    BY <1>2, <1>3, <2>2
  <2> QED
    BY <2>1, <2>3, SinglesParts DEF SingleKept
<1>13. Order
  BY <1>1, <1>5, <1>7 DEF Order
<1>14. Rings
  <2> SUFFICES ASSUME NEW s \in Window
               PROVE  QRing(s) /\ MaskRing(s) /\ ConsumedRing(s) /\ AuxRing(s)
    BY DEF Rings
  <2>1. s \in Nat
    BY <1>5 DEF Window
  <2>2. /\ left[Ring("q", s)] = 2 /\ left[Ring("mask", s)] = 1
        /\ left[Ring("consumed", s)] = 1 /\ left[Ring("aux_consumed", s)] = NumEw
    BY <1>2, <1>3, <2>1 DEF Families, Arrivals, Ring
  <2>3. \A f \in Families, w \in Waiters : Lag(w, Ring(f, s)) = 0
    BY <1>2, <1>3, <2>1 DEF Lag
  <2>4. ~HalfLoaded(s) /\ ~QUp(s) /\ ~MaskUp(s) /\ ~ConsumedUp(s)
    BY <1>1, <1>5, <2>1 DEF HalfLoaded, InFlight, QUp, MaskUp, ConsumedUp
  <2>5. ~AuxUp(s) /\ Ahead(s, AuxArrived) = {}
    BY <1>7, <2>1, Threads DEF AuxUp, Ahead
  <2>6. AuxLeft(s) = NumEw
    BY <2>5, FS_EmptySet DEF AuxLeft
  <2> QED
    BY <2>2, <2>3, <2>4, <2>5, <2>6, Threads
       DEF Families, QRing, MaskRing, ConsumedRing, AuxRing, Flag
<1> QED
  BY <1>4, <1>8, <1>9, <1>10, <1>11, <1>12, <1>13, <1>14 DEF RingInv

\* FInv is inductive.
THEOREM SpecRings == Spec => []FInv
<1>1. Init => FInv
  BY InitTypes, InitRings DEF FInv
<1>2. FInv /\ [Next]_vars => FInv'
  <2> SUFFICES ASSUME FInv, [Next]_vars PROVE FInv'
    OBVIOUS
  <2>1. CASE CopyEngine
    BY <2>1, CopyEngineTypes, CopyEngineRings DEF FInv
  <2>2. CASE TensorCore
    BY <2>2, TensorCoreTypes, TensorCoreRings DEF FInv
  <2>3. CASE TmaWarp
    BY <2>3, TmaTypes, TmaRings DEF FInv
  <2>4. CASE MmaWarp
    BY <2>4, MmaTypes, MmaRings DEF FInv
  <2>5. CASE DqWriter
    BY <2>5, DqTypes, DqRings DEF FInv
  <2>6. CASE \E e \in Ew : ElementwiseWg(e)
    BY <2>6, EwTypes, EwRings DEF FInv
  <2>7. CASE UNCHANGED vars
    <3>1. UNCHANGED <<call, tmaVars, mmaVars, ewVars, dqVars, copies, tc, barVars>>
      BY <2>7 DEF vars
    <3>2. RingInv'
      BY <3>1, NothingMoves
    <3>3. /\ (call \in Calls)' /\ ThreadTypes' /\ WorkTypes' /\ DataTypes'
          /\ BarTypeOK(Barriers, Waiters)'
      <4>1. /\ call \in Calls /\ ThreadTypes /\ WorkTypes /\ DataTypes
            /\ BarTypeOK(Barriers, Waiters)
        BY TypeParts DEF FInv
      <4>2. (call \in Calls)' /\ n' = n /\ OpTypes' = OpTypes
        BY <3>1, <4>1, CallStill
      <4>3. ThreadTypes' /\ WorkTypes'
        BY <3>1, <4>1, <4>2 DEF ThreadTypes, WorkTypes, tmaVars, mmaVars, ewVars, dqVars, Ew, KV, Only
      <4>4. DataTypes'
        BY <2>7, <4>1 DEF DataTypes, vars, ewVars, dqVars, Tags, Unions, Sums, Cells, Steps, Ew, Slots
      <4>5. BarTypeOK(Barriers, Waiters)'
        BY <3>1, <4>1 DEF BarTypeOK, barVars, Barriers, Slots, Waiters
      <4> QED
        BY <4>2, <4>3, <4>4, <4>5
    <3> QED
      BY <3>2, <3>3, TypeParts DEF FInv
  <2> QED
    BY <2>1, <2>2, <2>3, <2>4, <2>5, <2>6, <2>7 DEF Next, Exited
<1> QED
  BY <1>1, <1>2, PTL DEF Spec

\* Every variable has its type (TypeOK).
THEOREM TypeCorrect == Spec => []TypeOK
<1>1. FInv => TypeOK
  BY DEF FInv
<1> QED
  BY <1>1, SpecRings, PTL

-----------------------------------------------------------------------------
\* Every slot of a ring serves a step of the window.
LEMMA SlotServed ==
  ASSUME NEW D \in Nat \ {0}, NEW lo \in Nat, NEW i \in 0 .. D - 1
  PROVE  \E s \in lo .. lo + D - 1 : s % D = i
<1> DEFINE q == lo \div D  r == lo % D
<1>1. lo = D * q + r /\ q \in Int /\ r \in 0 .. D - 1
  BY SlotRange
<1> HIDE DEF q, r
<1>2. PICK s : s = IF i >= r THEN lo + (i - r) ELSE lo + (i - r) + D
  OBVIOUS
<1>3. s \in lo .. lo + D - 1 /\ s \in Nat
  BY <1>1, <1>2
<1>4. PICK p : p = IF i >= r THEN q ELSE q + 1
  OBVIOUS
<1>5. p \in Int /\ s = D * p + i
  <2>1. CASE i >= r
    BY <1>1, <1>2, <1>4, <2>1
  <2>2. CASE ~(i >= r)
    <3>1. D * (q + 1) = D * q + D /\ D * q \in Int
      BY <1>1
    <3> QED
      BY <1>1, <1>2, <1>4, <2>2, <3>1
  <2> QED
    BY <2>1, <2>2
<1> DEFINE a == s \div D  b == s % D
<1>6. s = D * a + b /\ a \in Int /\ b \in 0 .. D - 1
  BY <1>3, SlotRange
<1> SUFFICES b = i
  BY <1>3
<1> HIDE DEF a, b
<1>7. b - i = D * (p - a)
  <2>1. D * (p - a) = D * p - D * a /\ D * p \in Int /\ D * a \in Int
    BY <1>5, <1>6
  <2> QED
    BY <1>5, <1>6, <2>1
<1>8. CASE p - a >= 1
  <2>1. D * (p - a) >= D
    BY <1>5, <1>6, <1>8
  <2> QED
    BY <1>6, <1>7, <2>1
<1>9. CASE p - a <= -1
  <2>1. D * (p - a) <= -D
    BY <1>5, <1>6, <1>9
  <2> QED
    BY <1>6, <1>7, <2>1
<1>10. CASE p - a = 0
  <2>1. D * (p - a) = 0
    BY <1>10
  <2> QED
    BY <1>6, <1>7, <2>1
<1> QED
  BY <1>5, <1>6, <1>8, <1>9, <1>10

\* Every barrier is single or serves a step of the window.
LEMMA EveryBarrier ==
  ASSUME FInv, NEW b \in Barriers
  PROVE  b \in SingleBarriers \/ \E f \in Families, s \in Window : b = Ring(f, s)
<1>1. AFree \in Nat
  BY TmaProgress DEF FInv, RingInv, PcFacts
<1>2. CASE b \in Families \X Slots
  <2>1. PICK s \in Window : s % NumStages = b[2]
    BY <1>1, <1>2, SlotServed DEF Slots, Window
  <2>2. b = <<b[1], b[2]>> /\ b[1] \in Families
    BY <1>2
  <2> QED
    BY <2>1, <2>2 DEF Ring
<1>3. CASE b \notin Families \X Slots
  <2>1. b \in SingleNames \X {0}
    BY <1>3 DEF Barriers, Families, SingleNames
  <2>2. b = Only(b[1]) /\ b[1] \in SingleNames
    BY <2>1 DEF Only
  <2> QED
    BY <2>2, NamesApart
<1> QED
  BY <1>2, <1>3

\* No barrier runs more than one phase ahead of a waiter (PhaseLag): a wait
\* that tests a phase's parity cannot take it for an older phase, whatever the
\* interleaving of warps, copies and MMAs.
THEOREM PhasesDistinct == Spec => []PhaseLag
<1>1. FInv => PhaseLag
  <2> SUFFICES ASSUME FInv, NEW b \in Barriers, NEW w \in WaitersOf(b)
               PROVE  Lag(w, b) \in {0, 1}
    BY DEF PhaseLag
  <2>1. CASE b \in SingleBarriers
    BY <2>1, SingleLags
  <2>2. CASE \E f \in Families, s \in Window : b = Ring(f, s)
    <3>1. PICK f \in Families, s \in Window : b = Ring(f, s)
      BY <2>2
    <3>2. QRing(s) /\ MaskRing(s) /\ ConsumedRing(s) /\ AuxRing(s)
      BY DEF FInv, RingInv, Rings
    <3>3. \A p : Flag(p) \in {0, 1}
      BY DEF Flag
    <3>4. CASE f = "q"
      BY <3>1, <3>2, <3>3, <3>4, WaitersNamed DEF QRing
    <3>5. CASE f = "mask"
      BY <3>1, <3>2, <3>3, <3>5, WaitersNamed DEF MaskRing
    <3>6. CASE f = "consumed"
      BY <3>1, <3>2, <3>3, <3>6, WaitersNamed DEF ConsumedRing
    <3>7. CASE f = "aux_consumed"
      BY <3>1, <3>2, <3>3, <3>7, WaitersNamed DEF AuxRing
    <3> QED
      BY <3>4, <3>5, <3>6, <3>7 DEF Families
  <2> QED
    BY <2>1, <2>2, EveryBarrier
<1> QED
  BY <1>1, SpecRings, PTL

\* When the CTA has ended, no phase of a barrier is unobserved or half arrived
\* (CleanExit): the drain loop and the waits that observe the last dQ read-out
\* leave nothing behind.
THEOREM ExitsClean == Spec => []CleanExit
<1>1. ASSUME FInv, Finished, NEW b \in Barriers
      PROVE  left[b] = Arrivals[b] /\ \A w \in WaitersOf(b) : Lag(w, b) = 0
  <2>1. /\ TypeOK /\ MmaFacts /\ DqFacts /\ TmaFacts /\ Counts /\ Seen /\ Meetings /\ Singles
        /\ Rings /\ n \in Nat
    BY <1>1, FInvParts
  <2>2. /\ tmaPc = "done" /\ mmaPc = "done" /\ dqPc = "exit" /\ copies = {} /\ Ops = {}
        /\ \A e \in Ew : ewPc[e] = "exit" /\ ewStep[e] = n
    <3>1. \A e \in Ew : EwFacts(e)
      BY <1>1 DEF FInv, RingInv, PcFacts
    <3>2. Ops = {}
      BY <1>1 DEF Finished, Ops, ToSet
    <3> QED
      BY <1>1, <3>1, <3>2 DEF Finished, EwFacts
  <2>3. /\ mmaStep = n /\ mmaScores = n /\ dqStep = n /\ Requested = n /\ CFree = n /\ AFree = n
        /\ DkIssued = n /\ PSeen = n /\ DsSeen = (IF call.split THEN n ELSE 0)
        /\ OrderIssued = (IF call.serialize THEN n ELSE 0)
        /\ OrderSeen = (IF call.serialize THEN n ELSE 0)
        /\ DqFreeSeen = n /\ DqSeen = n /\ DqFreed = n /\ (Ending <=> n > 0) /\ KvLanded
    <3>1. mmaStep = n /\ mmaScores = n /\ dqStep = n
      BY <2>1, <2>2 DEF MmaFacts, DqFacts
    <3>2. Requested = n /\ CFree = n
      BY <2>2 DEF Requested, CFree
    <3>3. AFree = n
      BY <2>2, <3>2 DEF AFree
    <3>4. DkIssued = n
      BY <2>2, <3>1 DEF DkIssued, PastDk
    <3>5. PSeen = n /\ DsSeen = (IF call.split THEN n ELSE 0)
          /\ OrderIssued = (IF call.serialize THEN n ELSE 0)
      BY <2>2, <3>4 DEF PSeen, DsSeen, OrderIssued
    <3>6. OrderSeen = (IF call.serialize THEN n ELSE 0) /\ DqFreeSeen = n
      BY <2>2, <3>1 DEF OrderSeen, DqFreeSeen
    <3>7. DqSeen = n /\ DqFreed = n
      BY <2>2, <3>1 DEF DqSeen, DqFreed
    <3>8. (Ending <=> n > 0) /\ KvLanded
      BY <2>2 DEF Ending, KvLanded
    <3> QED
      BY <3>1, <3>2, <3>3, <3>4, <3>5, <3>6, <3>7, <3>8
  <2>4. \A e \in Ew :
          /\ \A pcs : "exit" \notin pcs => Past(e, pcs) = n
          /\ Past(e, AfterQ) = n /\ Past(e, AfterS) = n /\ Past(e, AfterMask) = n
          /\ AuxArrived[e] = n /\ PArrived[e] = n /\ DsArrived[e] = (IF call.split THEN n ELSE 0)
          /\ LoadedBy[e] = (IF Meet THEN n ELSE 0) /\ LoadedSeen(e) = (IF Meet THEN n ELSE 0)
          /\ DoneSeen(e) = IF n > 0 THEN 1 ELSE 0
    <3> SUFFICES ASSUME NEW e \in Ew
                 PROVE  /\ \A pcs : "exit" \notin pcs => Past(e, pcs) = n
                        /\ Past(e, AfterQ) = n /\ Past(e, AfterS) = n /\ Past(e, AfterMask) = n
                        /\ AuxArrived[e] = n /\ PArrived[e] = n
                        /\ DsArrived[e] = (IF call.split THEN n ELSE 0)
                        /\ LoadedBy[e] = (IF Meet THEN n ELSE 0)
                        /\ LoadedSeen(e) = (IF Meet THEN n ELSE 0)
                        /\ DoneSeen(e) = IF n > 0 THEN 1 ELSE 0
      OBVIOUS
    <3>1. \A pcs : "exit" \notin pcs => Past(e, pcs) = n
      BY <2>2 DEF Past
    <3>2. /\ "exit" \notin AfterQ /\ "exit" \notin AfterS /\ "exit" \notin AfterLoad
          /\ "exit" \notin AfterLoaded /\ "exit" \notin AfterMask
          /\ "exit" \notin {"ready"} /\ "exit" \notin {"store_ds", "ready"}
      BY DEF AfterQ, AfterS, AfterLoad, AfterLoaded, AfterMask
    <3> QED
      BY <2>2, <3>1, <3>2 DEF AuxArrived, PArrived, DsArrived, LoadedBy, LoadedSeen, DoneSeen
  <2>5. CASE \E f \in Families, s \in Window : b = Ring(f, s)
    <3>1. PICK f \in Families, s \in Window : b = Ring(f, s)
      BY <2>5
    <3>2. QRing(s) /\ MaskRing(s) /\ ConsumedRing(s) /\ AuxRing(s)
      BY <2>1 DEF Rings
    <3>3. s \in Nat /\ s >= n
      BY <2>1, <2>3 DEF Window
    <3>4. ~HalfLoaded(s) /\ ~QUp(s) /\ ~MaskUp(s) /\ ~ConsumedUp(s)
      BY <2>1, <2>2, <2>3, <3>3 DEF HalfLoaded, InFlight, QUp, MaskUp, ConsumedUp
    <3>5. ~AuxUp(s) /\ Ahead(s, AuxArrived) = {}
      BY <2>1, <2>4, <3>3, Threads DEF AuxUp, Ahead
    <3>6. AuxLeft(s) = NumEw
      BY <3>5, FS_EmptySet DEF AuxLeft
    <3>7. Arrivals[b] = CASE f = "q" -> 2 [] f = "aux_consumed" -> NumEw [] OTHER -> 1
      BY <1>1, <3>1 DEF Arrivals, Ring, Families
    <3>8. CASE f = "q"
      BY <3>1, <3>2, <3>4, <3>7, <3>8, WaitersNamed DEF QRing, Flag
    <3>9. CASE f = "mask"
      BY <3>1, <3>2, <3>4, <3>7, <3>9, WaitersNamed DEF MaskRing, Flag
    <3>10. CASE f = "consumed"
      BY <3>1, <3>2, <3>4, <3>7, <3>10, WaitersNamed DEF ConsumedRing, Flag
    <3>11. CASE f = "aux_consumed"
      BY <3>1, <3>2, <3>5, <3>6, <3>7, <3>11, WaitersNamed DEF AuxRing, Flag
    <3> QED
      BY <3>8, <3>9, <3>10, <3>11 DEF Families
  <2>6. CASE b \in SingleBarriers
    <3>1. PICK name \in SingleNames : b = Only(name)
      BY <2>6, NamesApart
    <3>2. \A other : Queued(other) = 0
      BY <2>2 DEF Queued
    <3>3. CASE name \in {"kv", "s_ready", "dq_ready", "dq_free", "done", "mma_order"}
      <4>1. left[b] = 1 /\ Arrivals[b] = 1
        BY <1>1, <2>1, <3>1, <3>3 DEF Singles, Arrivals, Only
      <4>2. \A w \in WaitersOf(b) : Lag(w, b) = 0
        <5>1. CASE name = "kv"
          BY <2>1, <2>2, <2>3, <3>1, <5>1, WaitersNamed DEF Counts, Seen, Lag, KV
        <5>2. CASE name = "s_ready"
          BY <2>1, <2>3, <2>4, <3>1, <3>2, <5>2, WaitersNamed DEF Counts, Seen, Lag
        <5>3. CASE name = "dq_ready"
          BY <2>1, <2>3, <3>1, <3>2, <5>3, WaitersNamed DEF Counts, Seen, Lag
        <5>4. CASE name = "dq_free"
          BY <2>1, <2>3, <3>1, <5>4, WaitersNamed DEF Counts, Seen, Lag
        <5>5. CASE name = "done"
          BY <2>1, <2>3, <2>4, <3>1, <3>2, <5>5, WaitersNamed DEF Counts, Seen, Lag
        <5>6. CASE name = "mma_order"
          BY <2>1, <2>3, <3>1, <3>2, <5>6, WaitersNamed DEF Counts, Seen, Lag
        <5> QED
          BY <3>3, <5>1, <5>2, <5>3, <5>4, <5>5, <5>6
      <4> QED
        BY <4>1, <4>2
    <3>4. ASSUME NEW at, NEW k \in Nat, Met(name, at), \A e \in Ew : at[e] = k,
                 name \in {"p_ready", "ds_ready", "loaded"},
                 \A w \in WaitersOf(b) : seen[w][b] = k
          PROVE  left[b] = NumEw /\ \A w \in WaitersOf(b) : Lag(w, b) = 0
      <4>1. done[b] \in Nat /\ k \in {done[b], done[b] + 1} /\ b = Only(name)
        BY <1>1, <2>1, <3>1, <3>4, Threads DEF Met, TypeOK, BarTypeOK
      <4>2. k <= done[b]
        <5>1. PICK w : w \in WaitersOf(b)
          BY <3>1, <3>4, WaitersNamed, Threads
        <5>2. seen[w][b] <= done[b]
          BY <2>1, <2>6, <5>1 DEF Singles
        <5> QED
          BY <3>4, <5>1, <5>2
      <4>3. done[b] = k
        BY <4>1, <4>2
      <4>4. Ahead(done[b], at) = {}
        BY <3>4, <4>3 DEF Ahead
      <4>5. left[b] = NumEw
        BY <3>1, <3>4, <4>4, FS_EmptySet DEF Met
      <4> QED
        BY <3>4, <4>3, <4>5 DEF Lag
    <3>5. CASE name = "p_ready"
      <4>1. Met(name, PArrived) /\ Arrivals[b] = NumEw
        BY <1>1, <2>1, <3>1, <3>5 DEF Meetings, Arrivals, Only
      <4>2. \A w \in WaitersOf(b) : seen[w][b] = n
        BY <2>1, <2>3, <3>1, <3>5, WaitersNamed DEF Seen
      <4> QED
        BY <2>1, <2>4, <3>4, <3>5, <4>1, <4>2
    <3>6. CASE name = "ds_ready"
      <4>1. Met(name, DsArrived) /\ Arrivals[b] = NumEw
        BY <1>1, <2>1, <3>1, <3>6 DEF Meetings, Arrivals, Only
      <4>2. PICK k \in Nat : k = IF call.split THEN n ELSE 0
        BY <2>1
      <4>3. \A w \in WaitersOf(b) : seen[w][b] = k
        BY <2>1, <2>3, <3>1, <3>6, <4>2, WaitersNamed DEF Seen
      <4>4. \A e \in Ew : DsArrived[e] = k
        BY <2>4, <4>2
      <4> QED
        BY <3>4, <3>6, <4>1, <4>3, <4>4
    <3>7. CASE name = "loaded"
      <4>1. Met(name, LoadedBy) /\ Arrivals[b] = NumEw
        BY <1>1, <2>1, <3>1, <3>7 DEF Meetings, Arrivals, Only
      <4>2. PICK k \in Nat : k = IF Meet THEN n ELSE 0
        BY <2>1
      <4>3. \A w \in WaitersOf(b) : seen[w][b] = k
        BY <2>1, <2>4, <3>1, <3>7, <4>2, WaitersNamed DEF Seen
      <4>4. \A e \in Ew : LoadedBy[e] = k
        BY <2>4, <4>2
      <4> QED
        BY <3>4, <3>7, <4>1, <4>3, <4>4
    <3> QED
      BY <3>3, <3>5, <3>6, <3>7 DEF SingleNames
  <2> QED
    BY <1>1, <2>5, <2>6, EveryBarrier
<1>2. FInv => CleanExit
  BY <1>1 DEF CleanExit
<1> QED
  BY <1>2, SpecRings, PTL

-----------------------------------------------------------------------------
\* What is no longer, or not yet, in the tensor-core queue.
LEMMA Retirement ==
  ASSUME FInv
  PROVE  \A op \in Ops :
           /\ op = <<op[1], op[2]>> /\ op[2] \in 0 .. n /\ Issued(op) /\ Newest(op)
           /\ op[1] \notin Commits => op[1] \in {"scores", "dv", "dk", "dq"}
           /\ op[1] \notin Commits =>
                \A name \in Commits, s \in 0 .. n :
                  Issued(<<name, s>>) /\ <<name, s>> \notin Ops => Key(<<name, s>>) < Key(op)
<1>1. TypeOK /\ Queue /\ Fifo
  BY DEF FInv, RingInv
<1>2. Ops \subseteq OpTypes
  BY <1>1, TypeParts DEF WorkTypes, Ops, ToSet
<1>3. ASSUME NEW op \in Ops
      PROVE  /\ op = <<op[1], op[2]>> /\ op[2] \in 0 .. n
             /\ op[1] \notin Commits => op[1] \in {"scores", "dv", "dk", "dq"}
  BY <1>2, <1>3 DEF OpTypes
<1> QED
  BY <1>1, <1>3 DEF Queue, Fifo

\* An MMA in flight is for a step whose slot the TMA warp has not observed.
LEMMA OpsInWindow ==
  ASSUME FInv, NEW op \in Ops, op[1] \in {"scores", "dv", "dk"}
  PROVE  op[2] \in Window /\ op[2] < mmaScores
<1>1. /\ TypeOK /\ TmaFacts /\ MmaFacts /\ Queue /\ Order
  BY DEF FInv, RingInv, PcFacts
<1> DEFINE u == op[2]
<1>2. /\ u \in 0 .. n /\ op[1] \notin Commits /\ Issued(op) /\ op = <<op[1], u>> /\ n \in Nat
  BY <1>1, Retirement, CallType DEF Commits, TypeOK
<1>3. u < mmaScores
  <2>0. /\ mmaScores \in Nat /\ PSeen \in Nat /\ PSeen <= mmaScores /\ DkIssued \in Nat
        /\ DkIssued <= PSeen
    BY <1>1, MmaProgress
  <2>1. CASE op[1] = "scores"
    BY <1>2, <2>0, <2>1 DEF Issued
  <2>2. CASE op[1] = "dv"
    BY <1>2, <2>0, <2>2 DEF Issued
  <2>3. CASE op[1] = "dk"
    BY <1>2, <2>0, <2>3 DEF Issued
  <2> QED
    BY <2>1, <2>2, <2>3
<1>4. /\ mmaStep \in Nat /\ mmaScores \in Nat /\ mmaStep <= n
  BY <1>1, CallType DEF TypeOK
<1>5. /\ AFree \in Nat /\ CFree \in Nat /\ AFree <= CFree /\ Requested <= AFree + NumStages
      /\ Requested \in Nat
  BY <1>1, TmaProgress
<1>6. u >= CFree
  <2> SUFFICES ASSUME u < CFree PROVE FALSE
    BY <1>2, <1>5
  <2>1. Issued(<<"consumed", u>>)
    BY <1>1, <1>2, <1>4, <1>5 DEF Issued, Order
  <2>2. <<"consumed", u>> \notin Ops
    BY <1>1, <1>2, <1>5 DEF Queue, Newest
  <2>3. Key(<<"consumed", u>>) < Key(op)
    BY <1>2, <2>1, <2>2, Retirement DEF Commits
  <2>4. Key(<<"consumed", u>>) >= 12 * u + 10
    BY <1>2 DEF Key
  <2>5. Key(op) <= 12 * u + 6
    BY <1>2 DEF Key
  <2>6. Key(op) \in Int /\ Key(<<"consumed", u>>) \in Int
    BY <1>2 DEF Key
  <2> QED
    BY <1>2, <2>3, <2>4, <2>5, <2>6
<1>7. mmaScores <= Requested
  BY <1>1 DEF Order
<1>8. AFree <= u /\ u < AFree + NumStages
  BY <1>2, <1>3, <1>4, <1>5, <1>6, <1>7
<1> QED
  BY <1>2, <1>3, <1>5, <1>8 DEF Window

\* While a warpgroup has S^T of a step before it, the scores of that step are
\* the newest and their MMA has completed; what older steps still have in
\* flight was issued after it.
LEMMA ScoresDone ==
  ASSUME FInv, NEW e \in Ew, ewPc[e] \in AfterS, NEW op \in Ops, op[1] \notin Commits
  PROVE  /\ op[1] # "scores"
         /\ op[1] = "dv" => op[2] >= ewStep[e] /\ op[2] < PArrived[e]
         /\ op[1] = "dk" => op[2] >= ewStep[e]
         /\ op[1] = "dq" /\ ewPc[e] # "ready" =>
              call.early /\ op[2] = ewStep[e] - 1
<1> DEFINE u == op[2]  s == ewStep[e]
<1>1. /\ TypeOK /\ MmaFacts /\ EwFacts(e) /\ Queue /\ Counts /\ n \in Nat
  BY FInvParts
<1>2. s \in Nat /\ s < n /\ mmaScores \in Nat /\ mmaScores <= n
  BY <1>1 DEF EwFacts, AfterQ, TypeOK
<1>3. /\ u \in Nat /\ u <= n /\ Issued(op) /\ op = <<op[1], u>>
      /\ op[1] \in {"scores", "dv", "dk", "dq"}
  BY <1>1, Retirement
<1>4. Past(e, AfterS) = s + 1
  BY DEF Past
<1>5. mmaScores = s + 1 /\ Queued("s_ready") = 0
  <2>1. s + 1 <= done[Only("s_ready")] /\ mmaScores <= s + 1
    BY <1>4, Chain
  <2>2. done[Only("s_ready")] = mmaScores - Queued("s_ready") /\ Queued("s_ready") \in {0, 1}
    BY <1>1 DEF Counts, Queued
  <2> QED
    BY <1>2, <2>1, <2>2
<1>6. Issued(<<"s_ready", s>>) /\ <<"s_ready", s>> \notin Ops
  BY <1>2, <1>5 DEF Issued, Queued
<1>7. 12 * s + 1 < Key(op)
  <2>1. Key(<<"s_ready", s>>) < Key(op)
    <3>1. s \in 0 .. n /\ "s_ready" \in Commits
      BY <1>1, <1>2 DEF Commits
    <3> QED
      BY <1>6, <3>1, Retirement
  <2>2. Key(<<"s_ready", s>>) = 12 * s + 1
    BY DEF Key
  <2> QED
    BY <2>1, <2>2
<1>8. op[1] # "scores"
  <2> SUFFICES ASSUME op[1] = "scores" PROVE FALSE
    OBVIOUS
  <2>1. u <= s
    BY <1>2, <1>3, <1>5 DEF Issued
  <2>2. Key(op) = 12 * u
    BY <1>3 DEF Key
  <2> QED
    BY <1>2, <1>3, <1>7, <2>1, <2>2
<1>9. ASSUME op[1] = "dv" PROVE u >= s /\ u < PArrived[e]
  <2>1. Key(op) = 12 * u + 5
    BY <1>9 DEF Key
  <2>2. u < PSeen /\ PSeen <= PArrived[e] /\ PSeen \in Nat
    BY <1>1, <1>3, <1>9, Chain, MmaProgress DEF Issued
  <2>3. PArrived[e] \in Nat
    BY <1>1, EwProgress
  <2> QED
    BY <1>2, <1>3, <1>7, <2>1, <2>2, <2>3
<1>10. ASSUME op[1] = "dk" PROVE u >= s
  <2>1. Key(op) = 12 * u + 6
    BY <1>10 DEF Key
  <2> QED
    BY <1>2, <1>3, <1>7, <2>1
<1>11. ASSUME op[1] = "dq" PROVE call.early /\ u = s - 1
  <2>1. u < mmaStep /\ mmaStep \in Nat
    BY <1>1, <1>3, <1>11, MmaProgress DEF Issued
  <2>2. mmaStep <= s
    <3>1. mmaStep <= DkIssued /\ DkIssued <= s /\ DkIssued \in Nat
      BY <1>1, Chain, MmaProgress
    <3> QED
      BY <1>2, <2>1, <3>1
  <2>3. Key(op) = 12 * u + IF call.early THEN 14 ELSE 8
    BY <1>11 DEF Key
  <2>4. CASE call.early
    BY <1>2, <1>3, <1>7, <2>1, <2>2, <2>3, <2>4
  <2>5. CASE ~call.early
    BY <1>2, <1>3, <1>7, <2>1, <2>2, <2>3, <2>5
  <2> QED
    BY <2>4, <2>5
<1> QED
  BY <1>8, <1>9, <1>10, <1>11

\* A warpgroup that writes its accumulator out has seen all MMAs complete.
LEMMA WriteQuiet ==
  ASSUME FInv, NEW e \in Ew, ewPc[e] = "write", NEW op \in Ops
  PROVE  op[1] \in Commits
<1> SUFFICES ASSUME op[1] \notin Commits PROVE FALSE
  OBVIOUS
<1> DEFINE u == op[2]
<1>1. /\ TypeOK /\ MmaFacts /\ EwFacts(e) /\ Counts /\ Seen /\ Singles /\ n \in Nat
  BY FInvParts
<1>2. /\ u \in Nat /\ u <= n /\ Issued(op) /\ op = <<op[1], u>>
      /\ op[1] \in {"scores", "dv", "dk", "dq"}
  BY <1>1, Retirement
<1>3. /\ mmaScores \in Nat /\ mmaScores <= n /\ mmaStep \in Nat /\ mmaStep <= mmaScores
      /\ PSeen \in Nat /\ PSeen <= mmaScores /\ DkIssued \in Nat /\ DkIssued <= mmaScores
  <2>1. /\ mmaScores \in Nat /\ mmaScores <= n /\ mmaStep \in Nat /\ PSeen \in Nat
        /\ PSeen <= mmaScores /\ DkIssued \in Nat /\ DkIssued <= PSeen /\ mmaStep <= DkIssued
    BY <1>1, MmaProgress
  <2>2. DkIssued <= mmaScores /\ mmaStep <= mmaScores
    BY <2>1
  <2> QED
    BY <2>1, <2>2
<1>4. u < mmaScores
  <2>1. CASE op[1] = "scores"
    BY <1>2, <1>3, <2>1 DEF Issued
  <2>2. CASE op[1] = "dv"
    BY <1>2, <1>3, <2>2 DEF Issued
  <2>3. CASE op[1] = "dk"
    BY <1>2, <1>3, <2>3 DEF Issued
  <2>4. CASE op[1] = "dq"
    BY <1>2, <1>3, <2>4 DEF Issued
  <2> QED
    BY <1>2, <2>1, <2>2, <2>3, <2>4
<1>5. CASE n = 0
  BY <1>2, <1>3, <1>4, <1>5
<1>6. CASE n > 0
  <2>1. seen[e][Only("done")] = 1
    BY <1>1, <1>6 DEF Seen, DoneSeen
  <2>2. done[Only("done")] >= 1
    BY <1>1, <2>1, WaitersNamed DEF Singles, SingleBarriers
  <2>3. Ending /\ Queued("done") = 0
    BY <1>1, <2>2 DEF Counts, Queued
  <2>4. Issued(<<"done", n>>) /\ <<"done", n>> \notin Ops
    BY <2>3 DEF Issued, Queued
  <2>5. Key(<<"done", n>>) < Key(op)
    BY <1>1, <1>2, <2>4, Retirement DEF Commits
  <2>6. Key(<<"done", n>>) = 12 * n + 11
    BY DEF Key
  <2>7. Key(op) <= 12 * u + 14 /\ Key(op) \in Int
    BY <1>2 DEF Key
  <2> QED
    BY <1>1, <1>2, <1>3, <1>4, <2>5, <2>6, <2>7
<1> QED
  BY <1>1, <1>5, <1>6

\* Of the dQ MMAs only the newest may be in flight, and none while the dQ
\* writer loads the accumulator.
LEMMA DqInFlight ==
  ASSUME FInv, NEW op \in Ops, op[1] = "dq"
  PROVE  op[2] = mmaStep - 1 /\ dqPc # "load"
<1> DEFINE u == op[2]
<1>1. /\ TypeOK /\ MmaFacts /\ DqFacts /\ Counts /\ Seen /\ Singles /\ Queue /\ n \in Nat
  BY FInvParts
<1>2. /\ u \in Nat /\ u <= n /\ Issued(op) /\ op = <<"dq", u>> /\ mmaStep \in Nat /\ mmaStep <= n
      /\ op[1] \notin Commits
  BY <1>1, Retirement DEF Commits, TypeOK
<1>3. u < mmaStep
  BY <1>1, <1>2 DEF Issued
<1>4. <<"dq_ready", u>> \in Ops
  <2> SUFFICES ASSUME <<"dq_ready", u>> \notin Ops PROVE FALSE
    OBVIOUS
  <2>1. Issued(<<"dq_ready", u>>)
    BY <1>2, <1>3 DEF Issued
  <2>2. Key(<<"dq_ready", u>>) < Key(op)
    BY <1>2, <2>1, Retirement DEF Commits
  <2>3. Key(<<"dq_ready", u>>) = Key(op) + 1 /\ Key(op) \in Int
    BY <1>2 DEF Key
  <2> QED
    BY <2>2, <2>3
<1>5. u = mmaStep - 1
  BY <1>1, <1>4 DEF Queue, Newest
<1>6. ASSUME dqPc = "load" PROVE FALSE
  <2>1. DqSeen = dqStep + 1 /\ DqFreed = dqStep /\ dqStep \in Nat
    BY <1>1, <1>6, DqProgress DEF DqSeen, DqFreed
  <2>2. Queued("dq_ready") = 1
    BY <1>4 DEF Queued
  <2>3. DqSeen <= mmaStep - 1
    <3>1. done[Only("dq_ready")] = mmaStep - 1 /\ seen[Dq][Only("dq_ready")] = DqSeen
      BY <1>1, <2>2 DEF Counts, Seen
    <3> QED
      BY <1>1, <3>1, WaitersNamed DEF Singles, SingleBarriers
  <2>4. mmaStep <= DqFreeSeen + 1 /\ DqFreeSeen <= DqFreed /\ DqFreeSeen \in Nat
    BY <1>1, MmaProgress, Chain
  <2> QED
    BY <1>2, <2>1, <2>3, <2>4
<1> QED
  BY <1>5, <1>6

\* Without in-order execution the mma_order barrier keeps the scores, dV and dK
\* MMAs of a step apart from those of the steps before.
LEMMA OrderedMmas ==
  ASSUME FInv, call.serialize, NEW op \in Ops, op[1] \in {"scores", "dv", "dk"}
  PROVE  /\ op[2] = mmaScores - 1
         /\ op[1] \in {"dv", "dk"} => \A other \in Ops : other[1] # "scores"
<1> DEFINE u == op[2]
<1>1. /\ TypeOK /\ MmaFacts /\ Counts /\ Seen /\ Singles /\ Queue /\ n \in Nat
  BY FInvParts
<1>2. /\ u \in Nat /\ u <= n /\ Issued(op) /\ op = <<op[1], u>> /\ op[1] \notin Commits
      /\ mmaScores \in Nat /\ mmaScores <= n
  BY <1>1, Retirement DEF Commits, TypeOK
<1>3. u < mmaScores
  BY OpsInWindow
<1>4. /\ OrderIssued = DkIssued /\ OrderIssued \in Nat /\ PSeen \in Nat
      /\ PSeen <= mmaScores /\ DkIssued <= PSeen
  BY <1>1, MmaProgress DEF OrderIssued
<1>5. OrderSeen >= mmaScores - 1 /\ OrderSeen \in Nat
  <2>1. mmaPc = "kv" => mmaScores = 0
    BY <1>1 DEF MmaFacts
  <2>2. mmaPc = "done" => mmaScores = n
    BY <1>1 DEF MmaFacts
  <2>3. OrderSeen \in Nat
    BY <1>1, MmaProgress
  <2> QED
    BY <1>2, <2>1, <2>2, <2>3 DEF OrderSeen
<1>6. /\ OrderSeen <= OrderIssued - Queued("mma_order")
      /\ Queued("mma_order") \in {0, 1}
  <2>1. /\ done[Only("mma_order")] = OrderIssued - Queued("mma_order")
        /\ seen[Mma][Only("mma_order")] = OrderSeen
    BY <1>1 DEF Counts, Seen
  <2> QED
    BY <1>1, <2>1, WaitersNamed DEF Singles, SingleBarriers, Queued
<1>7. u = mmaScores - 1
  <2> SUFFICES ASSUME u < mmaScores - 1 PROVE FALSE
    BY <1>2, <1>3
  <2>1. u < OrderIssued - Queued("mma_order")
    BY <1>2, <1>4, <1>5, <1>6
  <2>2. Issued(<<"mma_order", u>>)
    BY <1>2, <1>4, <1>6, <2>1 DEF Issued
  <2>3. <<"mma_order", u>> \notin Ops
    <3> SUFFICES ASSUME <<"mma_order", u>> \in Ops PROVE FALSE
      OBVIOUS
    <3>1. u = OrderIssued - 1
      BY <1>1 DEF Queue, Newest
    <3>2. Queued("mma_order") = 1
      BY DEF Queued
    <3> QED
      BY <1>4, <2>1, <3>1, <3>2
  <2>4. Key(<<"mma_order", u>>) < Key(op)
    BY <1>2, <2>2, <2>3, Retirement DEF Commits
  <2>5. Key(<<"mma_order", u>>) = 12 * u + 7
    BY DEF Key
  <2>6. Key(op) <= 12 * u + 6 /\ Key(op) \in Int
    BY <1>2 DEF Key
  <2> QED
    BY <1>2, <2>4, <2>5, <2>6
<1>8. ASSUME op[1] \in {"dv", "dk"}, NEW other \in Ops, other[1] = "scores" PROVE FALSE
  <2>1. u < PSeen
    <3>1. CASE op[1] = "dv"
      BY <1>2, <1>4, <3>1 DEF Issued
    <3>2. CASE op[1] = "dk"
      BY <1>2, <1>4, <3>2 DEF Issued
    <3> QED
      BY <1>8, <3>1, <3>2
  <2>2. PSeen = mmaScores
    BY <1>2, <1>4, <1>7, <2>1
  <2>3. PSeen <= PArrived[0] /\ Past(0, AfterS) <= done[Only("s_ready")] /\ 0 \in Ew
    BY Chain, Threads
  <2>4. PArrived[0] <= Past(0, AfterS) /\ PArrived[0] \in Nat /\ Past(0, AfterS) \in Nat
    <3>1. EwFacts(0)
      BY <2>3 DEF FInv, RingInv, PcFacts
    <3>2. /\ PArrived[0] <= Past(0, AfterS) /\ PArrived[0] \in Nat /\ ewStep[0] \in Nat
          /\ Past(0, AfterS) \in {ewStep[0], ewStep[0] + 1}
      BY <1>1, <2>3, <3>1, EwProgress
    <3> QED
      BY <3>2
  <2>5. /\ done[Only("s_ready")] = mmaScores - Queued("s_ready") /\ Queued("s_ready") \in {0, 1}
    BY <1>1 DEF Counts, Queued
  <2>6. Queued("s_ready") = 0
    BY <1>2, <1>4, <2>2, <2>3, <2>4, <2>5
  <2>7. Issued(<<"s_ready", u>>) /\ <<"s_ready", u>> \notin Ops
    BY <1>2, <1>3, <2>6 DEF Issued, Queued
  <2>8. /\ other[2] \in Nat /\ other[2] <= u /\ other[1] \notin Commits
    <3>1. other[2] \in 0 .. n /\ Issued(other)
      BY Retirement
    <3> QED
      BY <1>2, <1>7, <1>8, <3>1 DEF Issued, Commits
  <2>9. Key(<<"s_ready", u>>) < Key(other)
    BY <1>2, <2>7, <2>8, Retirement DEF Commits
  <2>10. Key(<<"s_ready", u>>) = 12 * u + 1
    BY DEF Key
  <2>11. Key(other) = 12 * other[2]
    BY <1>8, <2>8 DEF Key
  <2> QED
    BY <1>2, <2>8, <2>9, <2>10, <2>11
<1> QED
  BY <1>7, <1>8

\* The cells that work in flight and the warpgroups touch.
LEMMA OpCells ==
  ASSUME NEW op
  PROVE  /\ op[1] = "scores" => /\ OpReads(op) = {KV, Ring("q_do", op[2])}
                                /\ OpWrites(op) = {Only("sp"), Only("dd")}
         /\ op[1] = "dv" => /\ OpReads(op) = {Only("sp"), Ring("q_do", op[2])}
                            /\ OpWrites(op) = {Only("dv")}
         /\ op[1] = "dk" => /\ OpReads(op) = {Only("dd"), Ring("q_do", op[2])}
                            /\ OpWrites(op) = {Only("dk")}
         /\ op[1] = "dq" => /\ OpReads(op) = {KV, <<"ds", DsBuf(op[2])>>}
                            /\ OpWrites(op) = {Only("dq")}
         /\ op[1] \in Commits => OpReads(op) = {} /\ OpWrites(op) = {}
<1>1. CASE op[1] = "scores"
  BY <1>1 DEF OpReads, OpWrites, Commits
<1>2. CASE op[1] = "dv"
  BY <1>2 DEF OpReads, OpWrites, Commits
<1>3. CASE op[1] = "dk"
  BY <1>3 DEF OpReads, OpWrites, Commits
<1>4. CASE op[1] = "dq"
  BY <1>4 DEF OpReads, OpWrites, Commits
<1>5. CASE op[1] \in Commits
  BY <1>5 DEF OpReads, OpWrites, Commits
<1>6. CASE op[1] \notin {"scores", "dv", "dk", "dq"} \cup Commits
  BY <1>6
<1> QED
  BY <1>1, <1>2, <1>3, <1>4, <1>5, <1>6

\* What a warpgroup reads and writes, by its place.
LEMMA EwCells ==
  ASSUME NEW e
  PROVE  /\ \A x \in EwReads(e) :
              \/ /\ x = Ring("row", ewStep[e])
                 /\ ewPc[e] \in {"s", "load", "loaded", "mask", "store_p", "store_ds"}
              \/ x \in {Only("sp"), Only("dd")} /\ ewPc[e] = "load"
              \/ x = Ring("mask", ewStep[e]) /\ ewPc[e] \in {"store_p", "store_ds"}
              \/ x \in {Only("dk"), Only("dv")} /\ ewPc[e] = "write"
         /\ \A x \in EwWrites(e) :
              \/ x = Only("sp") /\ ewPc[e] = StorePc
              \/ x \in {Only("dd"), <<"ds", DsBuf(ewStep[e])>>} /\ ewPc[e] = "store_ds"
              \/ x = KV /\ ewPc[e] = "write"
BY DEF EwReads, EwWrites

\* A load in flight is for a step of the window.
LEMMA CopyInWindow ==
  ASSUME FInv, NEW c \in copies, c # KV
  PROVE  /\ c = <<c[1], c[2]>> /\ c[1] \in {"q_do", "row", "mask"}
         /\ c[2] \in Window /\ c[2] \in Nat
<1>1. PICK f \in {"q_do", "row", "mask"}, t \in 0 .. n - 1 : c = <<f, t>>
  BY FInvParts DEF TypeOK
<1>2. /\ t \in Nat /\ t < Requested
      /\ f \in {"q_do", "row"} => mmaScores <= t
      /\ f = "mask" => \A e \in Ew : Past(e, AfterMask) <= t
  BY <1>1, FInvParts DEF Flights
<1>3. /\ AFree \in Nat /\ Requested \in Nat /\ Requested <= AFree + NumStages
      /\ CFree \in Nat /\ AFree <= CFree
  BY FInvParts, TmaProgress
<1>4. /\ AFree <= AuxArrived[0] /\ AuxArrived[0] <= Past(0, AfterMask)
      /\ AuxArrived[0] \in Nat /\ Past(0, AfterMask) \in Nat
  <2>1. 0 \in Ew /\ ewStep[0] \in Nat
    BY Threads, FInvParts
  <2> QED
    BY <2>1, FInvParts, EwProgress DEF Order
<1>5. /\ CFree <= mmaStep /\ mmaStep <= mmaScores /\ mmaStep \in Nat /\ mmaScores \in Nat
  BY Chain, FInvParts
<1>6. AFree <= t
  <2>1. CASE f = "mask"
    BY <1>2, <1>3, <1>4, <2>1, Threads
  <2>2. CASE f \in {"q_do", "row"}
    BY <1>2, <1>3, <1>5, <2>2
  <2> QED
    BY <2>1, <2>2
<1> QED
  BY <1>1, <1>2, <1>3, <1>6 DEF Window

\* A load in flight is for cells that nobody is using.
LEMMA CopiesApart ==
  ASSUME FInv, NEW c \in copies
  PROVE  /\ \A op \in Ops : CopyCell(c) \notin OpReads(op)
         /\ \A e \in Ew : CopyCell(c) \notin EwReads(e) \cup EwWrites(e)
<1>1. CASE c = KV
  <2>1. done[KV] = 0
    BY <1>1, FInvParts DEF Counts, KvLanded
  <2>2. seen[Mma][KV] = 0 /\ \A e \in Ew : seen[e][KV] = 0
    <3>1. \A w \in Ew \cup {Mma} : seen[w][KV] <= 0
      BY <2>1, FInvParts, WaitersNamed DEF Singles, SingleBarriers
    <3> QED
      BY <3>1, FInvParts DEF Seen
  <2>3. mmaPc = "kv" /\ \A e \in Ew : ewPc[e] = "kv"
    BY <2>2, FInvParts DEF Seen
  <2>4. mmaScores = 0 /\ mmaStep = 0
    BY <2>3, FInvParts DEF MmaFacts
  <2>5. ASSUME NEW op \in Ops PROVE op[1] \in Commits
    <3>1. op[2] \in 0 .. n /\ (op[1] \notin Commits => op[1] \in {"scores", "dv", "dk", "dq"})
      BY Retirement
    <3>2. op[1] \in {"scores", "dv", "dk"} => op[2] < 0
      BY <2>4, OpsInWindow
    <3>3. op[1] = "dq" => op[2] = 0 - 1
      BY <2>4, DqInFlight
    <3> QED
      BY <3>1, <3>2, <3>3, FInvParts
  <2>6. \A op \in Ops : OpReads(op) = {}
    BY <2>5, OpCells
  <2>7. \A e \in Ew : EwReads(e) = {} /\ EwWrites(e) = {}
    BY <2>3, EwCells DEF StorePc
  <2> QED
    BY <2>6, <2>7
<1>2. CASE c # KV
  <2>1. PICK f \in {"q_do", "row", "mask"}, t \in 0 .. n - 1 : c = <<f, t>>
    BY <1>2, FInvParts DEF TypeOK
  <2>2. CopyCell(c) = Ring(f, t) /\ t \in Nat
    BY <1>2, <2>1, FInvParts DEF CopyCell
  <2>3. /\ t < Requested
        /\ f \in {"q_do", "row"} => mmaScores <= t /\ \A e \in Ew : Past(e, AfterQ) <= t
        /\ f = "mask" => \A e \in Ew : Past(e, AfterMask) <= t
    BY <1>2, <2>1, FInvParts DEF Flights
  <2>4. /\ AFree \in Nat /\ Requested \in Nat /\ Requested <= AFree + NumStages
        /\ CFree \in Nat /\ AFree <= CFree
    BY FInvParts, TmaProgress
  <2>5. \A e \in Ew :
          /\ ewStep[e] \in Nat /\ \A pcs : Past(e, pcs) \in {ewStep[e], ewStep[e] + 1}
          /\ AuxArrived[e] \in Nat /\ AuxArrived[e] <= Past(e, AfterMask)
          /\ AFree <= AuxArrived[e]
    BY FInvParts, EwProgress DEF Order
  <2>6. t \in Window
    BY <1>2, <2>1, CopyInWindow
  <2>7. ASSUME NEW op \in Ops PROVE CopyCell(c) \notin OpReads(op)
    <3> SUFFICES ASSUME Ring(f, t) \in OpReads(op) PROVE FALSE
      BY <2>2
    <3>1. op[1] \in {"scores", "dv", "dk"} /\ Ring(f, t) = Ring("q_do", op[2])
      <4>1. op[1] \in {"scores", "dv", "dk", "dq"} \cup Commits
        BY Retirement
      <4>2. /\ Ring(f, t) # KV /\ Ring(f, t) # Only("sp") /\ Ring(f, t) # Only("dd")
            /\ Ring(f, t) # <<"ds", DsBuf(op[2])>>
        BY DEF Ring, KV, Only
      <4> QED
        BY <4>1, <4>2, OpCells
    <3>2. op[2] \in Window /\ op[2] < mmaScores
      BY <3>1, OpsInWindow
    <3>3. f = "q_do" /\ op[2] # t
      <4>1. f = "q_do"
        BY <3>1 DEF Ring
      <4>2. mmaScores <= t /\ mmaScores \in Nat /\ op[2] \in 0 .. n
        BY <2>3, <4>1, FInvParts, Retirement
      <4> QED
        BY <2>2, <3>2, <4>1, <4>2, FInvParts
    <3> QED
      BY <2>6, <3>1, <3>2, <3>3, RingSlots, FInvParts
  <2>8. ASSUME NEW e \in Ew PROVE CopyCell(c) \notin EwReads(e) \cup EwWrites(e)
    <3> SUFFICES ASSUME Ring(f, t) \in EwReads(e) \cup EwWrites(e) PROVE FALSE
      BY <2>2
    <3>1. /\ Ring(f, t) # KV /\ Ring(f, t) # <<"ds", DsBuf(ewStep[e])>>
          /\ \A name \in {"sp", "dd", "dk", "dv"} : Ring(f, t) # Only(name)
      BY DEF Ring, KV, Only
    <3>2. \/ /\ Ring(f, t) = Ring("row", ewStep[e])
             /\ ewPc[e] \in {"s", "load", "loaded", "mask", "store_p", "store_ds"}
          \/ Ring(f, t) = Ring("mask", ewStep[e]) /\ ewPc[e] \in {"store_p", "store_ds"}
      BY <3>1, EwCells
    <3>3. /\ ewPc[e] \in AfterQ /\ ewPc[e] # "ready" /\ Past(e, AfterQ) = ewStep[e] + 1
          /\ ewPc[e] \in {"store_p", "store_ds"} => Past(e, AfterMask) = ewStep[e] + 1
      BY <3>2 DEF AfterQ, AfterS, AfterLoad, AfterLoaded, AfterMask, Past
    <3>4. ewStep[e] \in Window
      BY <3>3, EwInWindow
    <3>5. ewStep[e] # t
      <4>1. CASE f = "mask"
        <5>1. ewPc[e] \in {"store_p", "store_ds"}
          BY <3>2, <4>1 DEF Ring
        <5> QED
          BY <2>2, <2>3, <2>5, <3>3, <4>1, <5>1
      <4>2. CASE f \in {"q_do", "row"}
        BY <2>2, <2>3, <2>5, <3>3, <4>2
      <4> QED
        BY <4>1, <4>2
    <3> QED
      BY <2>6, <3>2, <3>4, <3>5, RingSlots, FInvParts
  <2> QED
    BY <2>7, <2>8
<1> QED
  BY <1>1, <1>2

\* An MMA in flight and a warpgroup do not work on the same cells, unless both
\* only read them.
LEMMA MmasApart ==
  ASSUME FInv, NEW op \in Ops, NEW e \in Ew
  PROVE  /\ OpWrites(op) \cap (EwReads(e) \cup EwWrites(e)) = {}
         /\ OpReads(op) \cap EwWrites(e) = {}
<1>1. op[1] \in Commits \/ op[1] \in {"scores", "dv", "dk", "dq"}
  BY Retirement
<1>2. CASE op[1] \in Commits
  BY <1>2, OpCells
<1>3. CASE op[1] \in {"scores", "dv", "dk", "dq"}
  <2>0. op[1] \notin Commits
    BY <1>3 DEF Commits
  <2>1. ewPc[e] # "write"
    BY <2>0, WriteQuiet
  <2>2. \A x \in EwReads(e) : \/ x = Ring("row", ewStep[e]) \/ x = Ring("mask", ewStep[e])
                              \/ x \in {Only("sp"), Only("dd")} /\ ewPc[e] = "load"
    BY <2>1, EwCells
  <2>3. \A x \in EwWrites(e) :
           \/ x = Only("sp") /\ ewPc[e] = StorePc
           \/ x \in {Only("dd"), <<"ds", DsBuf(ewStep[e])>>} /\ ewPc[e] = "store_ds"
    BY <2>1, EwCells
  <2>4. /\ {"load", "store_p", "store_ds"} \subseteq AfterS /\ StorePc \in {"store_p", "store_ds"}
        /\ StorePc = "store_p" => call.split
        /\ StorePc = "store_ds" => ~call.split
    BY DEF AfterS, AfterLoad, AfterLoaded, AfterMask, StorePc
  <2>5. \A name \in {"sp", "dd", "dk", "dv", "dq"} : \A s, b :
          /\ Only(name) # Ring("row", s) /\ Only(name) # Ring("mask", s)
          /\ Only(name) # <<"ds", b>> /\ Only(name) # KV
    BY DEF Only, Ring, KV
  <2>6. CASE op[1] = "scores"
    <3>1. ewPc[e] \notin {"load", "store_p", "store_ds"}
      BY <2>0, <2>4, <2>6, ScoresDone
    <3>2. EwWrites(e) = {} /\ \A x \in EwReads(e) : x = Ring("row", ewStep[e]) \/ x = Ring("mask", ewStep[e])
      BY <2>2, <2>3, <2>4, <3>1
    <3> QED
      BY <2>5, <2>6, <3>2, OpCells
  <2>7. CASE op[1] = "dv"
    <3>1. OpWrites(op) = {Only("dv")} /\ OpReads(op) = {Only("sp"), Ring("q_do", op[2])}
      BY <2>7, OpCells
    <3>2. Only("dv") \notin EwReads(e) \cup EwWrites(e)
      BY <2>2, <2>3, <2>5 DEF Only
    <3>3. Only("sp") \notin EwWrites(e)
      <4> SUFFICES ASSUME ewPc[e] = StorePc PROVE FALSE
        BY <2>3, <2>5 DEF Only
      <4>1. op[2] >= ewStep[e] /\ op[2] < PArrived[e]
        BY <2>0, <2>4, <2>7, ScoresDone
      <4>2. PArrived[e] = ewStep[e]
        BY <2>4 DEF PArrived, Past
      <4>3. op[2] \in 0 .. n /\ ewStep[e] \in Nat /\ n \in Nat
        BY Retirement, FInvParts
      <4> QED
        BY <4>1, <4>2, <4>3
    <3>4. Ring("q_do", op[2]) \notin EwWrites(e)
      BY <2>3 DEF Only, Ring
    <3> QED
      BY <3>1, <3>2, <3>3, <3>4
  <2>8. CASE op[1] = "dk"
    <3>1. OpWrites(op) = {Only("dk")} /\ OpReads(op) = {Only("dd"), Ring("q_do", op[2])}
      BY <2>8, OpCells
    <3>2. Only("dk") \notin EwReads(e) \cup EwWrites(e)
      BY <2>2, <2>3, <2>5 DEF Only
    <3>3. Only("dd") \notin EwWrites(e)
      <4> SUFFICES ASSUME ewPc[e] = "store_ds" PROVE FALSE
        BY <2>3, <2>5 DEF Only
      <4>1. op[2] >= ewStep[e]
        BY <2>0, <2>4, <2>8, ScoresDone
      <4>2. op[2] < DkIssued /\ DkIssued <= ewStep[e] /\ DkIssued \in Nat
        <5>1. Issued(op)
          BY Retirement
        <5> QED
          BY <2>8, <5>1, Chain, MmaProgress, FInvParts DEF Issued
      <4>3. op[2] \in 0 .. n /\ ewStep[e] \in Nat /\ n \in Nat
        BY Retirement, FInvParts
      <4> QED
        BY <4>1, <4>2, <4>3
    <3>4. Ring("q_do", op[2]) \notin EwWrites(e)
      BY <2>3 DEF Only, Ring
    <3> QED
      BY <3>1, <3>2, <3>3, <3>4
  <2>9. CASE op[1] = "dq"
    <3>1. OpWrites(op) = {Only("dq")} /\ OpReads(op) = {KV, <<"ds", DsBuf(op[2])>>}
      BY <2>9, OpCells
    <3>2. Only("dq") \notin EwReads(e) \cup EwWrites(e)
      BY <2>2, <2>3, <2>5 DEF Only
    <3>3. <<"ds", DsBuf(op[2])>> \notin EwWrites(e)
      <4> SUFFICES ASSUME ewPc[e] = "store_ds", DsBuf(op[2]) = DsBuf(ewStep[e]) PROVE FALSE
        BY <2>3 DEF Only
      <4>1. call.early /\ op[2] = ewStep[e] - 1
        BY <2>0, <2>4, <2>9, ScoresDone
      <4>2. op[2] \in 0 .. n /\ ewStep[e] \in Nat /\ n \in Nat
        BY Retirement, FInvParts
      <4>3. op[2] % 2 = ewStep[e] % 2
        BY <4>1 DEF DsBuf
      <4> QED
        BY <4>1, <4>2, <4>3
    <3>4. KV \notin EwWrites(e)
      BY <2>3 DEF Only, KV
    <3> QED
      BY <3>1, <3>2, <3>3, <3>4
  <2> QED
    BY <1>3, <2>6, <2>7, <2>8, <2>9
<1> QED
  BY <1>1, <1>2, <1>3

\* Without in-order execution, no two MMAs in flight conflict.
LEMMA MmasOrdered ==
  ASSUME FInv, call.serialize, NEW a \in Ops, NEW b \in Ops, a # b
  PROVE  OpWrites(a) \cap (OpReads(b) \cup OpWrites(b)) = {}
<1>1. /\ a[1] \in Commits \/ a[1] \in {"scores", "dv", "dk", "dq"}
      /\ b[1] \in Commits \/ b[1] \in {"scores", "dv", "dk", "dq"}
      /\ a = <<a[1], a[2]>> /\ b = <<b[1], b[2]>>
  BY Retirement
<1>2. CASE a[1] \in Commits \/ b[1] \in Commits
  BY <1>2, OpCells
<1>3. CASE a[1] \in {"scores", "dv", "dk", "dq"} /\ b[1] \in {"scores", "dv", "dk", "dq"}
  <2>1. a[1] # b[1]
    <3>1. \A op \in Ops : op[1] \in {"scores", "dv", "dk"} => op[2] = mmaScores - 1
      BY OrderedMmas
    <3>2. \A op \in Ops : op[1] = "dq" => op[2] = mmaStep - 1
      BY DqInFlight
    <3> QED
      BY <1>1, <1>3, <3>1, <3>2
  <2>2. a[1] \in {"dv", "dk"} => b[1] # "scores"
    BY OrderedMmas
  <2>3. b[1] \in {"dv", "dk"} => a[1] # "scores"
    BY OrderedMmas
  <2>4. \A x, y : x # y => Only(x) # Only(y)
    BY DEF Only
  <2>5. \A x \in {"sp", "dd", "dv", "dk", "dq"} : \A s :
          Only(x) # KV /\ Only(x) # Ring("q_do", s) /\ Only(x) # <<"ds", s>>
    BY DEF Only, KV, Ring
  <2>6. CASE a[1] = "scores"
    <3>1. b[1] = "dq"
      BY <1>3, <2>1, <2>3, <2>6
    <3> QED
      BY <2>4, <2>5, <2>6, <3>1, OpCells
  <2>7. CASE a[1] = "dv"
    <3>1. b[1] \in {"dk", "dq"}
      BY <1>3, <2>1, <2>2, <2>7
    <3> QED
      BY <2>4, <2>5, <2>7, <3>1, OpCells
  <2>8. CASE a[1] = "dk"
    <3>1. b[1] \in {"dv", "dq"}
      BY <1>3, <2>1, <2>2, <2>8
    <3> QED
      BY <2>4, <2>5, <2>8, <3>1, OpCells
  <2>9. CASE a[1] = "dq"
    <3>1. b[1] \in {"scores", "dv", "dk"}
      BY <1>3, <2>1, <2>9
    <3> QED
      BY <2>4, <2>5, <2>9, <3>1, OpCells
  <2> QED
    BY <1>3, <2>6, <2>7, <2>8, <2>9
<1> QED
  BY <1>1, <1>2, <1>3

\* The warpgroups meet before one of them stores where another loads.
LEMMA WarpgroupsApart ==
  ASSUME FInv, NEW e \in Ew, NEW f \in Ew, e # f
  PROVE  EwReads(e) \cap EwWrites(f) = {}
<1> SUFFICES ASSUME NEW x \in EwReads(e), x \in EwWrites(f) PROVE FALSE
  OBVIOUS
<1>1. ewPc[e] = "load" /\ ewPc[f] \in {"store_p", "store_ds"}
  <2>1. \/ x \in {Ring("row", ewStep[e]), Ring("mask", ewStep[e]), Only("dk"), Only("dv")}
        \/ x \in {Only("sp"), Only("dd")} /\ ewPc[e] = "load"
    BY EwCells
  <2>2. \/ x = KV \/ x = <<"ds", DsBuf(ewStep[f])>>
        \/ x \in {Only("sp"), Only("dd")} /\ ewPc[f] \in {"store_p", "store_ds"}
    BY EwCells DEF StorePc
  <2> QED
    BY <2>1, <2>2 DEF Ring, Only, KV
<1>2. Meet
  BY DEF Meet, Ew
<1>3. LoadedSeen(f) = ewStep[f] + 1 /\ LoadedBy[e] = ewStep[e]
  BY <1>1, <1>2 DEF LoadedSeen, LoadedBy, Past, AfterLoaded, AfterLoad, AfterMask
<1>4. Past(e, AfterS) = ewStep[e] + 1
  BY <1>1 DEF Past, AfterS
<1>5. /\ LoadedSeen(f) <= LoadedBy[e] /\ Past(e, AfterS) <= mmaScores /\ mmaScores <= ewStep[f] + 1
  BY Chain
<1>6. ewStep[e] \in Nat /\ ewStep[f] \in Nat /\ mmaScores \in Nat
  BY FInvParts
<1> QED
  BY <1>3, <1>4, <1>5, <1>6

\* No load, MMA or store touches what another part of the CTA still uses
\* (NoRace), with any number of slots and warpgroups.
THEOREM RaceFree == Spec => []NoRace
<1>1. ASSUME FInv PROVE NoRace
  <2>1. /\ \A i \in DOMAIN tc : tc[i] \in Ops
        /\ \A i, j \in DOMAIN tc : i # j => tc[i] # tc[j]
    <3>1. \A i \in DOMAIN tc : tc[i] \in Ops /\ i \in Nat
      BY <1>1, FInvParts DEF Ops, ToSet, TypeOK
    <3>2. \A op \in Ops : Key(op) \in Int
      <4>1. \A op \in Ops : op \in OpTypes /\ Issued(op)
        BY <1>1, FInvParts, TypeParts DEF WorkTypes, Ops, ToSet, Queue
      <4> QED
        BY <1>1, <4>1, FInvParts, KeyBounds
    <3>3. ASSUME NEW i \in DOMAIN tc, NEW j \in DOMAIN tc, i < j PROVE tc[i] # tc[j]
      <4>1. Key(tc[i]) < Key(tc[j])
        BY <1>1, <3>3, FInvParts DEF Queue, Sorted
      <4> QED
        BY <3>1, <3>2, <4>1
    <3> QED
      BY <3>1, <3>3
  <2>2. \A c \in copies :
          /\ \A i \in DOMAIN tc : CopyCell(c) \notin OpReads(tc[i])
          /\ \A e \in Ew : CopyCell(c) \notin EwReads(e) \cup EwWrites(e)
    BY <1>1, <2>1, CopiesApart
  <2>3. ASSUME NEW i \in DOMAIN tc
        PROVE  /\ \A e \in Ew :
                    /\ OpWrites(tc[i]) \cap (EwReads(e) \cup EwWrites(e)) = {}
                    /\ OpReads(tc[i]) \cap EwWrites(e) = {}
               /\ OpWrites(tc[i]) \cap DqReads = {}
               /\ call.serialize =>
                    \A j \in DOMAIN tc \ {i} :
                      OpWrites(tc[i]) \cap (OpReads(tc[j]) \cup OpWrites(tc[j])) = {}
    <3>1. OpWrites(tc[i]) \cap DqReads = {}
      <4> SUFFICES ASSUME dqPc = "load", Only("dq") \in OpWrites(tc[i]) PROVE FALSE
        BY DEF DqReads
      <4>1. tc[i][1] = "dq"
        <5>1. tc[i][1] \in {"scores", "dv", "dk", "dq"} \cup Commits
          BY <1>1, <2>1, Retirement
        <5> QED
          BY <5>1, OpCells DEF Only
      <4> QED
        BY <1>1, <2>1, <4>1, DqInFlight
    <3> QED
      BY <1>1, <2>1, <3>1, MmasApart, MmasOrdered
  <2>4. \A e, f \in Ew : e # f => EwReads(e) \cap EwWrites(f) = {}
    BY <1>1, WarpgroupsApart
  <2> QED
    BY <2>2, <2>3, <2>4 DEF NoRace
<1> QED
  BY <1>1, SpecRings, PTL
=============================================================================
