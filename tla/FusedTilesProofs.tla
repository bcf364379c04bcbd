-------------------------- MODULE FusedTilesProofs --------------------------
(***************************************************************************)
(* The gradients of FusedBackward are exact, for every ring of slots,      *)
(* every number of warpgroups, every row and every specialisation.  The    *)
(* inductive invariant is TInv of FusedTiles.                              *)
(***************************************************************************)
EXTENDS FusedTiles, FusedBackwardProofs

USE NumStagesAssumption, NumEwAssumption, MaxStepsAssumption

\* What a warpgroup has stored lies between its step and the next, at or after
\* the steps whose operands the MMA warp has seen.
LEMMA StoredBounds ==
  ASSUME FInv, NEW e \in Ew
  PROVE  /\ PStored[e] \in Nat /\ DsStored[e] \in Nat /\ DsStored[e] <= PStored[e]
         /\ ewStep[e] <= DsStored[e] /\ PStored[e] <= ewStep[e] + 1
         /\ PStored[e] <= Past(e, AfterS) /\ Past(e, AfterS) <= mmaScores
         /\ Past(e, AfterS) \in Nat
         /\ mmaScores <= DsStored[e] + 1 /\ DkIssued <= DsStored[e] /\ PSeen <= PStored[e]
         /\ mmaScores \in Nat /\ PSeen \in Nat /\ DkIssued \in Nat /\ mmaStep \in Nat
         /\ mmaStep <= DkIssued /\ DkIssued <= PSeen /\ PSeen <= mmaScores
         /\ DkIssued <= mmaStep + 1
         /\ ewPc[e] \in AfterS => Past(e, AfterS) = ewStep[e] + 1
<1>1. /\ TypeOK /\ MmaFacts /\ EwFacts(e) /\ ewStep[e] \in Nat /\ mmaScores \in Nat
  BY FInvParts
<1>2. /\ AuxArrived[e] \in Nat /\ PArrived[e] \in Nat /\ AuxArrived[e] <= Past(e, AfterMask)
      /\ Past(e, AfterMask) <= Past(e, AfterS) /\ PArrived[e] <= Past(e, AfterS)
      /\ ewStep[e] <= AuxArrived[e] /\ \A pcs : Past(e, pcs) \in {ewStep[e], ewStep[e] + 1}
  BY <1>1, EwProgress
<1>3. /\ Past(e, AfterS) <= mmaScores /\ mmaScores <= ewStep[e] + 1 /\ PSeen <= PArrived[e]
      /\ DkIssued <= ewStep[e]
  BY Chain
<1>4. /\ PSeen \in Nat /\ DkIssued \in Nat /\ mmaStep \in Nat /\ mmaStep <= DkIssued
      /\ DkIssued <= PSeen /\ PSeen <= mmaScores /\ DkIssued <= mmaStep + 1
  BY <1>1, MmaProgress
<1>5. /\ PStored[e] = IF call.split THEN PArrived[e] ELSE AuxArrived[e]
      /\ DsStored[e] = AuxArrived[e]
  BY DEF PStored, DsStored
<1>6. AuxArrived[e] = Past(e, {"ready"})
  BY DEF AuxArrived
<1>7. call.split => AuxArrived[e] <= PArrived[e]
  <2>1. call.split => PArrived[e] = Past(e, {"store_ds", "ready"})
    BY DEF PArrived
  <2> QED
    BY <1>1, <1>6, <2>1 DEF Past
<1>8. ~call.split => PArrived[e] <= AuxArrived[e]
  BY <1>1, <1>2 DEF PArrived
<1>9. Past(e, AfterS) \in {ewStep[e], ewStep[e] + 1} /\ AuxArrived[e] \in {ewStep[e], ewStep[e] + 1}
  BY <1>2, <1>6
<1>10. PStored[e] <= Past(e, AfterS) /\ DsStored[e] <= PStored[e] /\ PSeen <= PStored[e]
  <2>1. CASE call.split
    BY <1>2, <1>3, <1>4, <1>5, <1>7, <2>1
  <2>2. CASE ~call.split
    BY <1>1, <1>2, <1>3, <1>4, <1>5, <1>8, <1>9, <2>2
  <2> QED
    BY <2>1, <2>2
<1>11. ewPc[e] \in AfterS => Past(e, AfterS) = ewStep[e] + 1
  BY DEF Past
<1>12. PStored[e] \in Nat /\ DsStored[e] \in Nat
  BY <1>2, <1>5
<1> QED
  BY <1>1, <1>2, <1>3, <1>4, <1>5, <1>9, <1>10, <1>11, <1>12

\* The scores of a step that a warpgroup has seen are complete, and what is
\* still in flight was issued after them.
LEMMA ScoresSeen ==
  ASSUME FInv, NEW e \in Ew, NEW s \in Nat, s < Past(e, AfterS)
  PROVE  /\ ScoresUp(s)
         /\ \A op \in Ops : op[1] \notin Commits => 12 * s + 1 < Key(op)
<1>1. /\ TypeOK /\ Queue /\ Counts /\ n \in Nat /\ mmaScores \in 0 .. n
  BY FInvParts
<1>2. s < mmaScores /\ mmaScores \in Nat /\ Past(e, AfterS) <= done[Only("s_ready")]
  BY <1>1, StoredBounds, Chain
<1>3. <<"s_ready", s>> \notin Ops
  <2> SUFFICES ASSUME <<"s_ready", s>> \in Ops PROVE FALSE
    OBVIOUS
  <2>1. s = mmaScores - 1
    BY <1>1 DEF Queue, Newest
  <2>2. done[Only("s_ready")] = mmaScores - 1
    BY <1>1 DEF Counts, Queued
  <2> QED
    BY <1>2, <2>1, <2>2, StoredBounds
<1>4. Issued(<<"s_ready", s>>) /\ s \in 0 .. n
  BY <1>1, <1>2 DEF Issued
<1>5. Key(<<"s_ready", s>>) = 12 * s + 1
  BY DEF Key
<1>6. \A op \in Ops : op[1] \notin Commits => 12 * s + 1 < Key(op)
  BY <1>3, <1>4, <1>5, Retirement DEF Commits
<1>7. <<"scores", s>> \notin Ops
  <2>1. Key(<<"scores", s>>) = 12 * s
    BY DEF Key
  <2> QED
    BY <1>6, <2>1 DEF Commits
<1> QED
  BY <1>2, <1>6, <1>7 DEF ScoresUp

\* Of each MMA only the newest may be in flight.
LEMMA OnlyNewest ==
  ASSUME FInv, NEW op \in Ops
  PROVE  /\ op[1] = "scores" => op[2] = mmaScores - 1
         /\ op[1] = "dv" => op[2] = PSeen - 1
         /\ op[1] = "dk" => op[2] = DkIssued - 1
         /\ op[1] = "dq" => op[2] = mmaStep - 1
<1>1. /\ Issued(op) /\ op = <<op[1], op[2]>> /\ op[2] \in 0 .. n /\ n \in Nat
      /\ Queue /\ mmaScores \in 0 .. n
  BY FInvParts, Retirement
<1>2. 0 \in Ew
  BY Threads
<1>3. /\ PSeen <= PStored[0] /\ PStored[0] <= Past(0, AfterS) /\ DkIssued <= PSeen
      /\ PSeen \in Nat /\ DkIssued \in Nat /\ Past(0, AfterS) \in Nat /\ PStored[0] \in Nat
  BY <1>2, StoredBounds
<1>4. ASSUME op[1] = "scores" PROVE op[2] = mmaScores - 1
  <2>1. op[2] \in 0 .. mmaScores - 1
    BY <1>1, <1>4 DEF Issued
  <2>2. Key(op) = 12 * op[2]
    BY <1>1, <1>4 DEF Key
  <2>3. Issued(<<"s_ready", op[2]>>) /\ Key(<<"s_ready", op[2]>>) = 12 * op[2] + 1
    BY <2>1 DEF Issued, Key
  <2>4. <<"s_ready", op[2]>> \in Ops
    BY <1>1, <1>4, <2>2, <2>3, Retirement DEF Commits
  <2> QED
    BY <1>1, <2>4 DEF Queue, Newest
<1>5. ASSUME op[1] \in {"dv", "dk"}, NEW k \in Nat, k <= PSeen, op[2] < k PROVE op[2] = k - 1
  <2> SUFFICES ASSUME op[2] + 1 < k PROVE FALSE
    BY <1>1, <1>5
  <2>1. op[2] + 1 < Past(0, AfterS)
    BY <1>1, <1>3, <1>5
  <2>2. 12 * (op[2] + 1) + 1 < Key(op)
    BY <1>1, <1>2, <1>5, <2>1, ScoresSeen DEF Commits
  <2>3. Key(op) \in {12 * op[2] + 5, 12 * op[2] + 6}
    BY <1>5 DEF Key
  <2> QED
    BY <1>1, <2>2, <2>3
<1>6. ASSUME op[1] = "dv" PROVE op[2] = PSeen - 1
  <2>1. op[2] < PSeen
    BY <1>1, <1>3, <1>6 DEF Issued
  <2> QED
    BY <1>3, <1>5, <1>6, <2>1
<1>7. ASSUME op[1] = "dk" PROVE op[2] = DkIssued - 1
  <2>1. op[2] < DkIssued
    BY <1>1, <1>3, <1>7 DEF Issued
  <2> QED
    BY <1>3, <1>5, <1>7, <2>1
<1> QED
  BY <1>4, <1>6, <1>7, DqInFlight

\* When an MMA completes, there is no other of its kind in flight.
LEMMA QueuedMmas ==
  ASSUME FInv, NEW op \in Ops, Ops' = Ops \ {op}
  PROVE  \A name \in {"dv", "dk", "dq"} :
           /\ op[1] = name => Queued(name) = 1 /\ Queued(name)' = 0
           /\ op[1] # name => Queued(name)' = Queued(name)
<1> SUFFICES ASSUME NEW name \in {"dv", "dk", "dq"}
             PROVE  /\ op[1] = name => Queued(name) = 1 /\ Queued(name)' = 0
                    /\ op[1] # name => Queued(name)' = Queued(name)
  OBVIOUS
<1>1. \A a \in Ops : a = <<a[1], a[2]>>
  BY Retirement
<1>2. ASSUME op[1] = name PROVE Queued(name) = 1 /\ Queued(name)' = 0
  <2>1. \A a \in Ops : a[1] = name => a[2] = op[2]
    <3>1. CASE name = "dv"
      BY <1>2, <3>1, OnlyNewest
    <3>2. CASE name = "dk"
      BY <1>2, <3>2, OnlyNewest
    <3>3. CASE name = "dq"
      BY <1>2, <3>3, OnlyNewest
    <3> QED
      BY <3>1, <3>2, <3>3
  <2>2. \A a \in Ops' : a[1] # name
    BY <1>1, <1>2, <2>1
  <2> QED
    BY <1>2, <2>2 DEF Queued
<1>3. ASSUME op[1] # name PROVE Queued(name)' = Queued(name)
  <2>1. (\E a \in Ops' : a[1] = name) <=> \E a \in Ops : a[1] = name
    BY <1>3
  <2> QED
    BY <2>1 DEF Queued
<1> QED
  BY <1>2, <1>3

\* TInv, named part by part.
LEMMA TInvParts ==
  ASSUME TInv
  PROVE  /\ FInv /\ SlotTags /\ KvTag /\ TileTags /\ DsTags /\ InOrder /\ SumTags /\ DqTag
         /\ DqOut /\ SumsOut
         /\ HoldsScores(tmem.sp, PStored) /\ HoldsStored(tmem.sp, PStored)
         /\ HoldsScores(tmem.dd, DsStored) /\ HoldsStored(tmem.dd, DsStored)
BY DEF TInv, TileInv, UnionTags

\* K and V, and the rows of a step whose slot's barrier the MMA warp has seen,
\* have landed.
LEMMA RowsLanded ==
  ASSUME FInv, NEW s \in Nat, s < mmaScores
  PROVE  KvLanded /\ Landed("q_do", s)
<1>1. /\ Flights /\ Seen /\ Counts /\ Singles /\ MmaFacts /\ TypeOK /\ mmaScores \in Nat
      /\ tmaStep \in Nat /\ n \in Nat
  BY FInvParts
<1>2. mmaPc # "kv" /\ mmaScores <= Requested
  BY <1>1, Chain DEF MmaFacts
<1>3. done[KV] >= 1
  <2>1. seen[Mma][KV] = 1 /\ Mma \in WaitersOf(KV) /\ KV \in SingleBarriers
    BY <1>1, <1>2, WaitersNamed DEF Seen, SingleBarriers
  <2> QED
    BY <1>1, <2>1 DEF Singles
<1>4. KvLanded
  BY <1>1, <1>3 DEF Counts
<1>5. ~InFlight("q_do", s)
  <2> SUFFICES ASSUME <<"q_do", s>> \in copies PROVE FALSE
    BY DEF InFlight
  <2>1. <<"q_do", s>> # KV
    BY DEF KV, Only
  <2>2. mmaScores <= s
    BY <1>1, <2>1 DEF Flights
  <2> QED
    BY <1>1, <2>2
<1>6. Requested \in Nat
  BY <1>1 DEF Requested
<1> QED
  BY <1>1, <1>2, <1>4, <1>5, <1>6 DEF Landed

\* No warpgroup has written out while an MMA is in flight.
LEMMA NoneOut ==
  ASSUME FInv, NEW op \in Ops, op[1] \notin Commits, NEW e \in Ew
  PROVE  ewPc[e] # "exit"
<1> SUFFICES ASSUME ewPc[e] = "exit" PROVE FALSE
  OBVIOUS
<1> DEFINE u == op[2]
<1>1. /\ MmaFacts /\ EwFacts(e) /\ Counts /\ Seen /\ Singles /\ n \in Nat
  BY FInvParts
<1>2. /\ u \in Nat /\ u <= n /\ Issued(op) /\ op = <<op[1], u>>
      /\ op[1] \in {"scores", "dv", "dk", "dq"}
  BY <1>1, Retirement
<1>3. u < n
  <2>1. /\ mmaScores \in Nat /\ mmaScores <= n /\ mmaStep \in Nat /\ mmaStep <= n
    BY FInvParts
  <2>2. /\ PSeen \in Nat /\ PSeen <= mmaScores /\ DkIssued \in Nat /\ DkIssued <= PSeen
    BY StoredBounds
  <2>3. CASE op[1] = "scores"
    BY <1>1, <1>2, <2>1, <2>3 DEF Issued
  <2>4. CASE op[1] = "dv"
    BY <1>1, <1>2, <2>1, <2>2, <2>4 DEF Issued
  <2>5. CASE op[1] = "dk"
    BY <1>1, <1>2, <2>1, <2>2, <2>5 DEF Issued
  <2>6. CASE op[1] = "dq"
    BY <1>1, <1>2, <2>1, <2>6 DEF Issued
  <2> QED
    BY <1>2, <2>3, <2>4, <2>5, <2>6
<1>4. n > 0
  BY <1>1, <1>2, <1>3
<1>5. seen[e][Only("done")] = 1
  BY <1>1, <1>4 DEF Seen, DoneSeen
<1>6. done[Only("done")] >= 1
  BY <1>1, <1>5, WaitersNamed DEF Singles, SingleBarriers
<1>7. Ending /\ Queued("done") = 0
  BY <1>1, <1>6 DEF Counts, Queued
<1>8. Issued(<<"done", n>>) /\ <<"done", n>> \notin Ops
  BY <1>7 DEF Issued, Queued
<1>9. Key(<<"done", n>>) < Key(op)
  BY <1>1, <1>2, <1>8, Retirement DEF Commits
<1>10. Key(<<"done", n>>) = 12 * n + 11
  BY DEF Key
<1>11. Key(op) <= 12 * u + 14 /\ Key(op) \in Int
  BY <1>2 DEF Key
<1> QED
  BY <1>1, <1>2, <1>3, <1>9, <1>10, <1>11

\* What an MMA reads when it completes: Q, dO, K and V.
LEMMA RowsRead ==
  ASSUME TInv, NEW op \in Ops, op[1] \in {"scores", "dv", "dk"}
  PROVE  smem[Ring("q_do", op[2])] = op[2]
<1>1. FInv /\ SlotTags
  BY TInvParts
<1>2. op[2] \in Window /\ op[2] < mmaScores
  BY <1>1, OpsInWindow
<1>3. op[2] \in Nat
  BY <1>1, Retirement, FInvParts
<1>4. Landed("q_do", op[2])
  BY <1>1, <1>2, <1>3, RowsLanded
<1> QED
  BY <1>1, <1>2, <1>4 DEF SlotTags

LEMMA KvRead ==
  ASSUME TInv, NEW op \in Ops, op[1] \in {"scores", "dq"}
  PROVE  smem[KV] = 0
<1>1. FInv /\ KvTag /\ n \in Nat /\ op[1] \notin Commits
  BY TInvParts, FInvParts DEF Commits
<1>2. \A e \in Ew : ewPc[e] # "exit"
  BY <1>1, NoneOut
<1>3. op[2] \in Nat /\ Issued(op) /\ mmaStep \in Nat /\ mmaScores \in Nat
  BY <1>1, Retirement, FInvParts
<1>4. op[2] < mmaScores
  <2>1. CASE op[1] = "scores"
    BY <1>3, <2>1 DEF Issued
  <2>2. CASE op[1] = "dq"
    <3>1. op[2] < mmaStep
      BY <1>3, <2>2 DEF Issued
    <3>2. mmaStep <= mmaScores
      BY <1>1, Chain
    <3> QED
      BY <1>3, <3>1, <3>2
  <2> QED
    BY <2>1, <2>2
<1>5. KvLanded
  BY <1>1, <1>3, <1>4, RowsLanded
<1> QED
  BY <1>1, <1>2, <1>5 DEF KvTag

\* The scores after those of an MMA that completes are still to come.
LEMMA NextScoresDown ==
  ASSUME TInv, NEW i \in DOMAIN tc, MayRetire(i), tc[i][1] \in {"dv", "dk"}
  PROVE  ~ScoresUp(tc[i][2] + 1)
<1> DEFINE op == tc[i]  t == op[2]
<1>1. FInv /\ InOrder /\ TypeOK /\ mmaScores \in Nat
  BY TInvParts, FInvParts
<1>2. op \in Ops
  BY DEF Ops, ToSet
<1>3. t \in Nat /\ op = <<op[1], t>>
  BY <1>1, <1>2, Retirement, FInvParts
<1> SUFFICES ASSUME ScoresUp(t + 1) PROVE FALSE
  OBVIOUS
<1>4. t + 1 < mmaScores
  BY DEF ScoresUp
<1>5. CASE call.serialize
  <2>1. t = mmaScores - 1
    BY <1>1, <1>2, <1>5, OrderedMmas
  <2> QED
    BY <1>1, <1>4, <2>1
<1>6. CASE ~call.serialize
  <2>1. Key(<<"scores", t + 1>>) < Key(op)
    BY <1>1, <1>2, <1>3, <1>4, <1>6 DEF InOrder
  <2>2. Key(<<"scores", t + 1>>) = 12 * (t + 1)
    BY <1>3 DEF Key
  <2>3. Key(op) \in {12 * t + 5, 12 * t + 6}
    BY <1>3 DEF Key
  <2> QED
    BY <1>3, <2>1, <2>2, <2>3
<1> QED
  BY <1>5, <1>6

\* While dV of a step is in flight no warpgroup has stored P of a later one, and
\* while dK is, none has stored its dS.
LEMMA StoredNow ==
  ASSUME FInv, NEW op \in Ops, NEW e \in Ew
  PROVE  /\ op[1] = "dv" => PStored[e] = op[2] + 1
         /\ op[1] = "dk" => DsStored[e] = op[2] + 1
<1> DEFINE t == op[2]
<1>1. t \in Nat /\ op = <<op[1], t>>
  BY Retirement, FInvParts
<1>2. /\ PStored[e] \in Nat /\ DsStored[e] \in Nat /\ DsStored[e] <= PStored[e]
      /\ PStored[e] <= Past(e, AfterS) /\ PSeen <= PStored[e] /\ DkIssued <= DsStored[e]
      /\ PSeen \in Nat /\ DkIssued \in Nat /\ Past(e, AfterS) \in Nat
  BY StoredBounds
<1>3. op[1] \in {"dv", "dk"} => Past(e, AfterS) <= t + 1
  <2> SUFFICES ASSUME op[1] \in {"dv", "dk"}, t + 1 < Past(e, AfterS) PROVE FALSE
    BY <1>1, <1>2
  <2>1. 12 * (t + 1) + 1 < Key(op)
    BY <1>1, ScoresSeen DEF Commits
  <2>2. Key(op) \in {12 * t + 5, 12 * t + 6}
    BY <1>1 DEF Key
  <2> QED
    BY <1>1, <2>1, <2>2
<1>4. /\ op[1] = "dv" => t = PSeen - 1
      /\ op[1] = "dk" => t = DkIssued - 1
  BY OnlyNewest
<1> QED
  BY <1>1, <1>2, <1>3, <1>4

\* The operands of dV and dK are those of their step.
LEMMA PackedRead ==
  ASSUME TInv, NEW i \in DOMAIN tc, MayRetire(i)
  PROVE  \A e \in Ew :
           /\ tc[i][1] = "dv" => tmem.sp.stored[e] = tc[i][2]
           /\ tc[i][1] = "dk" => tmem.dd.stored[e] = tc[i][2]
<1> DEFINE op == tc[i]  t == op[2]
<1>1. FInv /\ HoldsStored(tmem.sp, PStored) /\ HoldsStored(tmem.dd, DsStored)
  BY TInvParts
<1>2. op \in Ops
  BY DEF Ops, ToSet
<1>3. t \in Nat
  BY <1>1, <1>2, Retirement, FInvParts
<1> SUFFICES ASSUME NEW e \in Ew
             PROVE  /\ op[1] = "dv" => tmem.sp.stored[e] = t
                    /\ op[1] = "dk" => tmem.dd.stored[e] = t
  OBVIOUS
<1>4. /\ op[1] = "dv" => PStored[e] = t + 1
      /\ op[1] = "dk" => DsStored[e] = t + 1
  BY <1>1, <1>2, StoredNow
<1>5. op[1] \in {"dv", "dk"} => ~ScoresUp(t + 1)
  BY NextScoresDown
<1>6. op[1] = "dv" => tmem.sp.stored[e] = (t + 1) - 1
  BY <1>1, <1>3, <1>4, <1>5 DEF HoldsStored
<1>7. op[1] = "dk" => tmem.dd.stored[e] = (t + 1) - 1
  BY <1>1, <1>3, <1>4, <1>5 DEF HoldsStored
<1> QED
  BY <1>3, <1>6, <1>7

\* The dS^T buffer that dQ reads holds its step.
LEMMA DsRead ==
  ASSUME TInv, NEW op \in Ops, op[1] = "dq"
  PROVE  \A e \in Ew : ds[DsBuf(op[2])][e] = op[2]
<1> DEFINE t == op[2]
<1>1. FInv /\ DsTags
  BY TInvParts
<1>2. t \in Nat /\ op = <<op[1], t>>
  BY <1>1, Retirement, FInvParts
<1> SUFFICES ASSUME NEW e \in Ew PROVE ds[DsBuf(t)][e] = t
  OBVIOUS
<1>3. /\ DsStored[e] \in Nat /\ DsStored[e] <= PStored[e] /\ PStored[e] <= Past(e, AfterS)
      /\ DkIssued <= DsStored[e] /\ mmaStep <= DkIssued /\ DkIssued \in Nat /\ mmaStep \in Nat
      /\ Past(e, AfterS) \in Nat /\ PStored[e] \in Nat
  BY <1>1, StoredBounds
<1>4. t = mmaStep - 1
  BY <1>1, OnlyNewest
<1> DEFINE k == IF call.early THEN 2 ELSE 1
<1>5. Past(e, AfterS) <= t + k
  <2> SUFFICES ASSUME t + k < Past(e, AfterS) PROVE FALSE
    BY <1>2, <1>3
  <2>1. 12 * (t + k) + 1 < Key(op)
    BY <1>1, <1>2, ScoresSeen DEF Commits
  <2>2. Key(op) = 12 * t + IF call.early THEN 14 ELSE 8
    BY <1>2 DEF Key
  <2> QED
    BY <1>2, <2>1, <2>2
<1>6. t \in 0 .. DsStored[e] - 1 /\ DsStored[e] <= IF call.early THEN t + 2 ELSE t + 1
  BY <1>2, <1>3, <1>4, <1>5
<1> QED
  BY <1>1, <1>6 DEF DsTags

-----------------------------------------------------------------------------
\* The tensor core.
LEMMA MmaTags ==
  ASSUME TInv, NEW i \in DOMAIN tc, MayRetire(i), tc' = RemoveAt(tc, i), UNCHANGED call,
         tc[i][1] \notin Commits, tmem' = MmaResult(tc[i][1], tc[i][2])
  PROVE  LET t == tc[i][2] IN
         /\ tc[i][1] \in {"scores", "dv", "dk", "dq"} /\ t \in Nat
         /\ tc[i][1] = "scores" =>
              /\ tmem'.sp = [scores |-> t, stored |-> Blank] /\ tmem'.dd = tmem'.sp
              /\ tmem'.dv = tmem.dv /\ tmem'.dk = tmem.dk /\ tmem'.dq = tmem.dq
         /\ tc[i][1] # "scores" => tmem'.sp = tmem.sp /\ tmem'.dd = tmem.dd
         /\ tc[i][1] = "dv" => /\ tmem'.dv = Accumulated(tmem.dv, t, TRUE)
                               /\ tmem'.dk = tmem.dk /\ tmem'.dq = tmem.dq
         /\ tc[i][1] = "dk" => /\ tmem'.dk = Accumulated(tmem.dk, t, TRUE)
                               /\ tmem'.dv = tmem.dv /\ tmem'.dq = tmem.dq
         /\ tc[i][1] = "dq" => /\ tmem'.dq = t
                               /\ tmem'.dv = tmem.dv /\ tmem'.dk = tmem.dk
<1> DEFINE op == tc[i]  t == op[2]
<1>1. FInv /\ TypeOK /\ op \in Ops
  BY TInvParts, FInvParts DEF Ops, ToSet
<1>2. /\ t \in Nat /\ op = <<op[1], t>> /\ op[1] \in {"scores", "dv", "dk", "dq"}
  BY <1>1, Retirement, FInvParts
<1>3. \E a, b, c, d, x : tmem = [sp |-> a, dd |-> b, dk |-> c, dv |-> d, dq |-> x]
  <2>1. tmem = [f \in {"sp", "dd", "dk", "dv", "dq"} |-> tmem[f]]
    BY <1>1 DEF TypeOK
  <2>2. tmem = [sp |-> tmem.sp, dd |-> tmem.dd, dk |-> tmem.dk, dv |-> tmem.dv, dq |-> tmem.dq]
    BY <2>1
  <2> QED
    BY <2>2
<1>4. CASE op[1] = "scores"
  <2>1. smem[Ring("q_do", t)] = t /\ smem[KV] = 0
    BY <1>1, <1>4, RowsRead, KvRead
  <2>2. tmem' = [tmem EXCEPT !.sp = [scores |-> t, stored |-> Blank],
                             !.dd = [scores |-> t, stored |-> Blank]]
    BY <1>4, <2>1 DEF MmaResult
  <2> QED
    BY <1>2, <1>3, <1>4, <2>2
<1>5. CASE op[1] = "dv"
  <2>1. smem[Ring("q_do", t)] = t /\ \A e \in Ew : tmem.sp.stored[e] = t
    BY <1>1, <1>5, RowsRead, PackedRead
  <2>2. tmem' = [tmem EXCEPT !.dv = Accumulated(@, t, TRUE)]
    BY <1>5, <2>1 DEF MmaResult
  <2> QED
    BY <1>2, <1>3, <1>5, <2>2
<1>6. CASE op[1] = "dk"
  <2>1. smem[Ring("q_do", t)] = t /\ \A e \in Ew : tmem.dd.stored[e] = t
    BY <1>1, <1>6, RowsRead, PackedRead
  <2>2. tmem' = [tmem EXCEPT !.dk = Accumulated(@, t, TRUE)]
    BY <1>6, <2>1 DEF MmaResult
  <2> QED
    BY <1>2, <1>3, <1>6, <2>2
<1>7. CASE op[1] = "dq"
  <2>1. smem[KV] = 0 /\ \A e \in Ew : ds[DsBuf(t)][e] = t
    BY <1>1, <1>7, KvRead, DsRead
  <2>2. tmem' = [tmem EXCEPT !.dq = t]
    BY <1>7, <2>1 DEF MmaResult
  <2> QED
    BY <1>2, <1>3, <1>7, <2>2
<1> QED
  BY <1>2, <1>4, <1>5, <1>6, <1>7

\* The following lemmas say what a part of TileInv depends on.
LEMMA SlotTagsStill ==
  ASSUME SlotTags, UNCHANGED <<call, copies, smem, Requested, Window>>
  PROVE  SlotTags'
BY DEF SlotTags, Landed, InFlight, Ring

\* K and V.
LEMMA KvTagStill ==
  ASSUME KvTag, KvLanded' => KvLanded, UNCHANGED smem[KV],
         \A e \in Ew : ewPc[e] = "exit" => ewPc'[e] = "exit"
  PROVE  KvTag'
BY DEF KvTag, KV, Only

\* The registers.
LEMMA TileTagsStill ==
  ASSUME TileTags, UNCHANGED <<ewPc, ewStep, tile>>
  PROVE  TileTags'
BY DEF TileTags, AfterQ, AfterS, AfterLoad, AfterLoaded, AfterMask

\* How many steps a warpgroup has stored.
LEMMA StoredStill ==
  ASSUME UNCHANGED <<call, ewPc, ewStep>>
  PROVE  UNCHANGED <<PStored, DsStored>>
BY DEF PStored, DsStored, PArrived, AuxArrived, Past

\* The unions, as long as no scores complete.
LEMMA UnionsStill ==
  ASSUME UnionTags, UNCHANGED <<mmaScores, PStored, DsStored>>,
         tmem'.sp = tmem.sp, tmem'.dd = tmem.dd,
         \A s : <<"scores", s>> \in Ops' <=> <<"scores", s>> \in Ops
  PROVE  UnionTags'
<1>1. ASSUME NEW s PROVE ScoresUp(s)' <=> ScoresUp(s)
  <2>1. (<<"scores", s>> \in Ops)' <=> <<"scores", s>> \in Ops
    OBVIOUS
  <2> QED
    BY <2>1, Zenon DEF ScoresUp
<1> QED
  BY <1>1 DEF UnionTags, HoldsScores, HoldsStored

\* The dS^T buffers.
LEMMA DsTagsStill ==
  ASSUME DsTags, UNCHANGED <<call, DsStored, ds>>
  PROVE  DsTags'
BY DEF DsTags, DsBuf

\* The order of retirement.
LEMMA InOrderStill ==
  ASSUME InOrder, UNCHANGED <<call, mmaScores>>, Ops' \subseteq Ops,
         \A s : <<"scores", s>> \in Ops' <=> <<"scores", s>> \in Ops
  PROVE  InOrder'
<1>1. ASSUME NEW s PROVE ScoresUp(s)' <=> ScoresUp(s)
  <2>1. (<<"scores", s>> \in Ops)' <=> <<"scores", s>> \in Ops
    OBVIOUS
  <2> QED
    BY <2>1, Zenon DEF ScoresUp
<1>2. \A op : Key(op)' = Key(op)
  BY DEF Key
<1> QED
  BY <1>1, <1>2 DEF InOrder

\* What was accumulated.
LEMMA SumsStill ==
  ASSUME SumTags, DqTag, UNCHANGED <<tmem, DvDone, DkDone, DqDone>>
  PROVE  SumTags' /\ DqTag'
BY DEF SumTags, DqTag, FirstSteps

\* What the dQ writer holds, and the output.
LEMMA OutStill ==
  ASSUME DqOut, SumsOut, UNCHANGED <<call, dqVars, stageBusy, gmem>>,
         \A e \in Ew : ewPc[e] = "exit" <=> ewPc'[e] = "exit"
  PROVE  DqOut' /\ SumsOut'
<1>1. 0 \in Ew /\ NumEw - 1 \in Ew
  BY DEF Ew
<1>2. UNCHANGED Whole
  BY DEF Whole, n
<1>3. SumsOut'
  BY <1>1, <1>2 DEF SumsOut
<1>4. DqOut'
  BY DEF DqOut, dqVars, Flag
<1> QED
  BY <1>3, <1>4

\* Where the threads are decides what was loaded and issued.
LEMMA ProgressStill ==
  ASSUME UNCHANGED <<call, tmaVars, mmaVars, ewVars>>
  PROVE  /\ UNCHANGED <<Requested, Window, PSeen, DkIssued, mmaScores, mmaStep>>
         /\ UNCHANGED <<PStored, DsStored, ewPc, ewStep, tile>>
<1>1. UNCHANGED <<tmaPc, tmaStep, mmaPc, mmaStep, mmaScores, ewPc, ewStep, tile>>
  BY DEF tmaVars, mmaVars, ewVars
<1>2. UNCHANGED <<PStored, DsStored>>
  BY <1>1, StoredStill
<1>3. UNCHANGED <<Requested, Window, PSeen, DkIssued>>
  BY TmaStill, MmaStill
<1> QED
  BY <1>1, <1>2, <1>3

\* One more step is accumulated.
LEMMA OneMoreStep ==
  ASSUME NEW a, NEW b, NEW k \in Nat, FirstSteps(a, k), b = Accumulated(a, k, TRUE)
  PROVE  FirstSteps(b, k + 1)
<1>1. b.acc = {k} \cup IF k = 0 THEN {} ELSE a.acc
  BY DEF Accumulated
<1>2. b.ok = (k = 0 \/ (a.ok /\ k \notin a.acc))
  BY DEF Accumulated
<1>3. a.acc = 0 .. k - 1 /\ (k > 0 => a.ok)
  BY DEF FirstSteps
<1>4. b.acc = 0 .. k
  <2>1. CASE k = 0
    <3>1. b.acc = {0}
      BY <1>1, <2>1
    <3>2. {0} = 0 .. 0
      OBVIOUS
    <3> QED
      BY <2>1, <3>1, <3>2
  <2>2. CASE k # 0
    <3>1. b.acc = {k} \cup 0 .. k - 1
      BY <1>1, <1>3, <2>2
    <3>2. {k} \cup 0 .. k - 1 = 0 .. k
      OBVIOUS
    <3> QED
      BY <3>1, <3>2
  <2> QED
    BY <2>1, <2>2
<1>5. b.ok
  <2>1. k \notin 0 .. k - 1
    OBVIOUS
  <2>2. k \notin a.acc
    BY <1>3, <2>1
  <2>3. k = 0 \/ a.ok
    BY <1>3
  <2> QED
    BY <1>2, <2>2, <2>3, Zenon
<1>6. 0 .. k = 0 .. (k + 1) - 1
  OBVIOUS
<1> QED
  BY <1>4, <1>5, <1>6 DEF FirstSteps

\* What the tensor core cannot disturb, and what it does to the queue.
LEMMA TensorCoreFrame ==
  ASSUME TInv, TensorCore, SumTags', DqTag', UnionTags', InOrder'
  PROVE  TileInv'
<1>1. UNCHANGED <<call, tmaVars, mmaVars, ewVars, dqVars, copies, smem, ds, stageBusy, gmem>>
  BY DEF TensorCore
<1>2. /\ FInv /\ SlotTags /\ KvTag /\ TileTags /\ DsTags /\ DqOut /\ SumsOut
  BY TInvParts
<1>3. /\ UNCHANGED <<Requested, Window, PStored, DsStored, ewPc, ewStep, tile, tmaPc>>
  BY <1>1, ProgressStill DEF tmaVars
<1>4. SlotTags'
  BY <1>1, <1>2, <1>3, SlotTagsStill
<1>5. KvTag'
  <2>1. KvLanded' => KvLanded
    BY <1>1, <1>3 DEF KvLanded, KV, Only
  <2> QED
    BY <1>1, <1>2, <1>3, <2>1, KvTagStill DEF KV, Only
<1>6. TileTags' /\ DsTags'
  BY <1>1, <1>2, <1>3, TileTagsStill, DsTagsStill
<1>7. DqOut' /\ SumsOut'
  BY <1>1, <1>2, <1>3, OutStill
<1> QED
  BY <1>4, <1>5, <1>6, <1>7 DEF TileInv

\* The retirement of an operation that is no scores.
LEMMA RetiresOther ==
  ASSUME TInv, UNCHANGED <<call, mmaScores, PStored, DsStored>>, NEW op \in Ops,
         op[1] # "scores", Ops' = Ops \ {op}, tmem'.sp = tmem.sp, tmem'.dd = tmem.dd
  PROVE  UnionTags' /\ InOrder'
<1>1. \A s : <<"scores", s>> \in Ops' <=> <<"scores", s>> \in Ops
  <2> SUFFICES ASSUME NEW s PROVE <<"scores", s>> # op
    OBVIOUS
  <2> QED
    OBVIOUS
<1>2. UnionTags /\ InOrder
  BY DEF TInv, TileInv
<1> QED
  BY <1>1, <1>2, UnionsStill, InOrderStill

\* The scores of a step complete: all warpgroups have stored what they had of
\* the step before, and none anything of this one.
LEMMA ScoresRetire ==
  ASSUME TInv, UNCHANGED <<call, mmaScores, PStored, DsStored>>, NEW t \in Nat,
         <<"scores", t>> \in Ops, Ops' = Ops \ {<<"scores", t>>},
         tmem'.sp = [scores |-> t, stored |-> Blank], tmem'.dd = tmem'.sp,
         ~call.serialize => \A op \in Ops' : Key(<<"scores", t>>) < Key(op)
  PROVE  UnionTags' /\ InOrder'
<1>1. FInv /\ InOrder /\ mmaScores \in Nat /\ t = mmaScores - 1
  BY TInvParts, FInvParts, OnlyNewest
<1>2. \A s \in Nat : ScoresUp(s)' <=> ScoresUp(s) \/ s = t
  <2> SUFFICES ASSUME NEW s \in Nat PROVE ScoresUp(s)' <=> ScoresUp(s) \/ s = t
    OBVIOUS
  <2>1. s < mmaScores' <=> s < mmaScores
    OBVIOUS
  <2>2. s = t => s < mmaScores
    BY <1>1
  <2>3. (<<"scores", s>> \in Ops)' <=> <<"scores", s>> \in Ops /\ s # t
    OBVIOUS
  <2> QED
    BY <2>1, <2>2, <2>3 DEF ScoresUp
<1>3. ~ScoresUp(t)
  BY DEF ScoresUp
<1>4. ASSUME NEW e \in Ew
      PROVE  /\ PStored[e] \in Nat /\ DsStored[e] \in Nat
             /\ PStored[e] = t /\ DsStored[e] = t
  <2>1. /\ PStored[e] \in Nat /\ DsStored[e] \in Nat /\ DsStored[e] <= PStored[e]
        /\ PStored[e] <= Past(e, AfterS) /\ mmaScores <= DsStored[e] + 1
        /\ Past(e, AfterS) \in Nat
    BY <1>1, StoredBounds
  <2>2. Past(e, AfterS) <= t
    <3> SUFFICES ASSUME t < Past(e, AfterS) PROVE FALSE
      BY <2>1
    <3>1. ScoresUp(t)
      BY <1>1, ScoresSeen
    <3> QED
      BY <1>3, <3>1
  <2> QED
    BY <1>1, <2>1, <2>2
<1>5. UnionTags'
  <2> DEFINE u == [scores |-> t, stored |-> Blank]
  <2>1. u.scores = t
    OBVIOUS
  <2>2. 0 \in Ew
    BY Threads
  <2>3. ASSUME NEW s \in 0 .. mmaScores' - 1,
               (\A e \in Ew : PStored'[e] <= s) \/ (\A e \in Ew : DsStored'[e] <= s)
        PROVE  s = t
    BY <1>1, <1>4, <2>2, <2>3
  <2>4. ASSUME NEW e \in Ew
        PROVE  PStored'[e] = t /\ DsStored'[e] = t /\ ScoresUp(t)'
    BY <1>2, <1>4
  <2>5. /\ HoldsScores(tmem.sp, PStored)'
        /\ HoldsScores(tmem.dd, DsStored)'
    BY <2>1, <2>3 DEF HoldsScores, Ew
  <2>6. \A e \in Ew : ScoresUp(PStored[e])' /\ ScoresUp(DsStored[e])'
    BY <2>4 DEF ScoresUp
  <2>7. /\ HoldsStored(tmem.sp, PStored)'
        /\ HoldsStored(tmem.dd, DsStored)'
    BY <2>6 DEF HoldsStored, Ew
  <2> QED
    BY <2>5, <2>7 DEF UnionTags
<1>6. InOrder'
  <2>1. \A op : Key(op)' = Key(op)
    BY DEF Key
  <2>2. ASSUME ~call.serialize, NEW s \in 0 .. mmaScores - 1, ScoresUp(s)', NEW op \in Ops'
        PROVE  Key(<<"scores", s>>) < Key(op)
    <3>1. CASE s = t
      BY <2>2, <3>1
    <3>2. CASE s # t
      <4>1. ScoresUp(s) /\ op \in Ops
        BY <1>2, <2>2, <3>2
      <4> QED
        BY <1>1, <2>2, <4>1 DEF InOrder
    <3> QED
      BY <3>1, <3>2
  <2> QED
    BY <2>1, <2>2 DEF InOrder
<1> QED
  BY <1>5, <1>6

\* On hardware the oldest operation retires.
LEMMA OldestRetires ==
  ASSUME FInv, NEW i \in DOMAIN tc, MayRetire(i), tc' = RemoveAt(tc, i), UNCHANGED <<call, tmaVars, mmaVars>>
  PROVE  /\ tc[i] \in Ops /\ Ops' = Ops \ {tc[i]}
         /\ ~call.serialize => \A op \in Ops' : Key(tc[i]) < Key(op)
<1>1. /\ tc[i] \in Ops /\ Ops' = Ops \ {tc[i]}
  BY Retired
<1>2. ASSUME ~call.serialize, NEW op \in Ops' PROVE Key(tc[i]) < Key(op)
  <2>1. i = 1
    BY <1>2 DEF MayRetire
  <2>2. PICK j \in DOMAIN tc : tc[j] = op
    BY <1>1, <1>2 DEF Ops, ToSet
  <2>3. j # 1
    BY <1>1, <2>1, <2>2
  <2>4. j \in Nat /\ j >= 1
    <3>1. tc \in Seq(OpTypes)
      BY FInvParts, TypeParts DEF WorkTypes
    <3> QED
      BY <3>1
  <2>5. Sorted
    BY FInvParts DEF Queue
  <2> QED
    BY <2>1, <2>2, <2>3, <2>4, <2>5 DEF Sorted
<1> QED
  BY <1>1, <1>2

\* The tensor core keeps every tile of its step.
LEMMA TensorCoreTiles == TInv /\ TensorCore => TileInv'
<1> SUFFICES ASSUME TInv, TensorCore PROVE SumTags' /\ DqTag' /\ UnionTags' /\ InOrder'
  BY TensorCoreFrame
<1>1. /\ FInv /\ SumTags /\ DqTag
  BY TInvParts
<1>2. UNCHANGED <<call, tmaVars, mmaVars, ewVars, dqVars>>
  BY DEF TensorCore
<1>3. PICK i \in DOMAIN tc :
        /\ MayRetire(i) /\ tc' = RemoveAt(tc, i)
        /\ tc[i][1] \in Commits => UNCHANGED tmem
        /\ tc[i][1] \notin Commits => tmem' = MmaResult(tc[i][1], tc[i][2])
  BY DEF TensorCore
<1> DEFINE op == tc[i]  t == op[2]
<1>4. /\ op \in Ops /\ Ops' = Ops \ {op}
      /\ ~call.serialize => \A o \in Ops' : Key(op) < Key(o)
  BY <1>1, <1>2, <1>3, OldestRetires
<1>5. UNCHANGED <<PSeen, DkIssued, mmaStep, mmaScores, PStored, DsStored>>
  BY <1>2, ProgressStill
<1>6. \A name \in {"dv", "dk", "dq"} :
        /\ op[1] = name => Queued(name) = 1 /\ Queued(name)' = 0
        /\ op[1] # name => Queued(name)' = Queued(name)
  BY <1>1, <1>4, QueuedMmas
<1>7. op[1] \notin Commits =>
        /\ op[1] \in {"scores", "dv", "dk", "dq"} /\ t \in Nat
        /\ op[1] = "scores" =>
             /\ tmem'.sp = [scores |-> t, stored |-> Blank] /\ tmem'.dd = tmem'.sp
             /\ tmem'.dv = tmem.dv /\ tmem'.dk = tmem.dk /\ tmem'.dq = tmem.dq
        /\ op[1] # "scores" => tmem'.sp = tmem.sp /\ tmem'.dd = tmem.dd
        /\ op[1] = "dv" => /\ tmem'.dv = Accumulated(tmem.dv, t, TRUE)
                           /\ tmem'.dk = tmem.dk /\ tmem'.dq = tmem.dq
        /\ op[1] = "dk" => /\ tmem'.dk = Accumulated(tmem.dk, t, TRUE)
                           /\ tmem'.dv = tmem.dv /\ tmem'.dq = tmem.dq
        /\ op[1] = "dq" => /\ tmem'.dq = t
                           /\ tmem'.dv = tmem.dv /\ tmem'.dk = tmem.dk
  BY <1>2, <1>3, MmaTags
<1>8. /\ op[1] = "dv" => t = PSeen - 1
      /\ op[1] = "dk" => t = DkIssued - 1
      /\ op[1] = "dq" => t = mmaStep - 1
  BY <1>1, <1>4, OnlyNewest
<1>9. /\ PSeen \in Nat /\ DkIssued \in Nat /\ mmaStep \in Nat
      /\ op = <<op[1], t>>
  BY <1>1, <1>4, Retirement, StoredBounds, Threads
<1> HIDE DEF op, t
<1>10. UnionTags' /\ InOrder'
  <2>1. CASE op[1] = "scores"
    <3>1. t \in Nat /\ op = <<"scores", t>> /\ op[1] \notin Commits
      BY <1>7, <1>9, <2>1 DEF Commits
    <3>2. ~call.serialize => \A o \in Ops' : Key(<<"scores", t>>) < Key(o)
      BY <1>4, <3>1
    <3> QED
      BY <1>2, <1>4, <1>5, <1>7, <2>1, <3>1, <3>2, ScoresRetire
  <2>2. CASE op[1] # "scores"
    <3>1. tmem'.sp = tmem.sp /\ tmem'.dd = tmem.dd
      BY <1>3, <1>7, <2>2 DEF op, t
    <3> QED
      BY <1>2, <1>4, <1>5, <2>2, <3>1, RetiresOther
  <2> QED
    BY <2>1, <2>2
<1>11. /\ op[1] # "dv" => DvDone' = DvDone
       /\ op[1] # "dk" => DkDone' = DkDone
       /\ op[1] # "dq" => DqDone' = DqDone
       /\ op[1] = "dv" => DvDone = t /\ DvDone' = t + 1 /\ t \in Nat
       /\ op[1] = "dk" => DkDone = t /\ DkDone' = t + 1 /\ t \in Nat
       /\ op[1] = "dq" => DqDone = t /\ DqDone' = t + 1 /\ t \in Nat
  <2>1. op[1] \in {"dv", "dk", "dq"} => t \in Nat
    BY <1>7 DEF Commits
  <2>2. /\ op[1] # "dv" => DvDone' = DvDone
        /\ op[1] = "dv" => DvDone = t /\ DvDone' = t + 1
    <3>1. PSeen' = PSeen
      BY <1>5
    <3>2. /\ op[1] # "dv" => Queued("dv")' = Queued("dv")
          /\ op[1] = "dv" => Queued("dv") = 1 /\ Queued("dv")' = 0
      BY <1>6
    <3>3. op[1] = "dv" => t = PSeen - 1
      BY <1>8
    <3> QED
      BY <1>9, <3>1, <3>2, <3>3 DEF DvDone
  <2>3. /\ op[1] # "dk" => DkDone' = DkDone
        /\ op[1] = "dk" => DkDone = t /\ DkDone' = t + 1
    <3>1. DkIssued' = DkIssued
      BY <1>5
    <3>2. /\ op[1] # "dk" => Queued("dk")' = Queued("dk")
          /\ op[1] = "dk" => Queued("dk") = 1 /\ Queued("dk")' = 0
      BY <1>6
    <3>3. op[1] = "dk" => t = DkIssued - 1
      BY <1>8
    <3> QED
      BY <1>9, <3>1, <3>2, <3>3 DEF DkDone
  <2>4. /\ op[1] # "dq" => DqDone' = DqDone
        /\ op[1] = "dq" => DqDone = t /\ DqDone' = t + 1
    <3>1. mmaStep' = mmaStep
      BY <1>5
    <3>2. /\ op[1] # "dq" => Queued("dq")' = Queued("dq")
          /\ op[1] = "dq" => Queued("dq") = 1 /\ Queued("dq")' = 0
      BY <1>6
    <3>3. op[1] = "dq" => t = mmaStep - 1
      BY <1>8
    <3> QED
      BY <1>9, <3>1, <3>2, <3>3 DEF DqDone
  <2> QED
    BY <2>1, <2>2, <2>3, <2>4
<1>12. FirstSteps(tmem.dv, DvDone)'
  <2>1. CASE op[1] = "dv"
    <3>1. tmem'.dv = Accumulated(tmem.dv, t, TRUE)
      BY <1>7, <2>1 DEF Commits
    <3>2. FirstSteps(tmem'.dv, t + 1)
      BY <1>1, <1>11, <2>1, <3>1, OneMoreStep DEF SumTags
    <3> QED
      BY <1>11, <2>1, <3>2 DEF FirstSteps
  <2>2. CASE op[1] # "dv"
    <3>1. tmem'.dv = tmem.dv
      BY <1>3, <1>7, <2>2 DEF op, t
    <3> QED
      BY <1>1, <1>11, <2>2, <3>1 DEF SumTags, FirstSteps
  <2> QED
    BY <2>1, <2>2
<1>13. FirstSteps(tmem.dk, DkDone)'
  <2>1. CASE op[1] = "dk"
    <3>1. tmem'.dk = Accumulated(tmem.dk, t, TRUE)
      BY <1>7, <2>1 DEF Commits
    <3>2. FirstSteps(tmem'.dk, t + 1)
      BY <1>1, <1>11, <2>1, <3>1, OneMoreStep DEF SumTags
    <3> QED
      BY <1>11, <2>1, <3>2 DEF FirstSteps
  <2>2. CASE op[1] # "dk"
    <3>1. tmem'.dk = tmem.dk
      BY <1>3, <1>7, <2>2 DEF op, t
    <3> QED
      BY <1>1, <1>11, <2>2, <3>1 DEF SumTags, FirstSteps
  <2> QED
    BY <2>1, <2>2
<1>14. DqTag'
  <2>1. CASE op[1] = "dq"
    BY <1>7, <1>11, <2>1 DEF DqTag, Commits
  <2>2. CASE op[1] # "dq"
    <3>1. tmem'.dq = tmem.dq
      BY <1>3, <1>7, <2>2 DEF op, t
    <3> QED
      BY <1>1, <1>11, <2>2, <3>1 DEF DqTag
  <2> QED
    BY <2>1, <2>2
<1> QED
  BY <1>10, <1>12, <1>13, <1>14 DEF SumTags

-----------------------------------------------------------------------------
\* The copy engine.  Ring cells, K and V, and the steps of the window apart.
LEMMA CellsApart ==
  ASSUME FInv, NEW f \in {"q_do", "row", "mask"}, NEW g \in {"q_do", "row", "mask"},
         NEW s \in Window, NEW t \in Window
  PROVE  /\ Ring(f, s) # KV
         /\ f # g \/ s # t => Ring(f, s) # Ring(g, t)
<1>1. TypeOK /\ TmaFacts
  BY FInvParts
<1>2. s # t => Ring(f, s) # Ring(g, t)
  BY <1>1, RingSlots
<1>3. f # g => Ring(f, s) # Ring(g, t)
  BY DEF Ring
<1> QED
  BY <1>2, <1>3 DEF Ring, KV, Only

\* A load lands.
LEMMA LandsTiles ==
  ASSUME TInv, NEW c \in copies, copies' = copies \ {c},
         smem' = [smem EXCEPT ![CopyCell(c)] = c[2]],
         UNCHANGED <<call, tmaVars, mmaVars, ewVars>>
  PROVE  SlotTags' /\ KvTag'
<1>1. FInv /\ SlotTags /\ KvTag /\ KV \in Cells /\ TypeOK
  <2>1. FInv /\ SlotTags /\ KvTag
    BY TInvParts
  <2> QED
    BY <2>1, FInvParts DEF Cells
<1>2. UNCHANGED <<Requested, Window, ewPc, tmaPc>>
  BY ProgressStill DEF tmaVars
<1>3. CASE c = KV
  <2>1. smem' = [smem EXCEPT ![KV] = 0]
    BY <1>3 DEF CopyCell, KV, Only
  <2>2. KvTag'
    BY <1>1, <2>1 DEF KvTag, TypeOK, KV, Only
  <2>4. ASSUME NEW f \in {"q_do", "row", "mask"}, NEW s \in Window, Landed(f, s)'
        PROVE  smem'[Ring(f, s)] = s
    <3>1. <<f, s>> # KV /\ Ring(f, s) # KV
      BY <1>1, CellsApart DEF KV, Only
    <3>2. Landed(f, s)
      BY <1>2, <1>3, <2>4, <3>1 DEF Landed, InFlight
    <3>3. smem[Ring(f, s)] = s
      BY <1>1, <3>2 DEF SlotTags
    <3> QED
      BY <1>1, <2>1, <3>1, <3>3 DEF TypeOK
  <2>5. SlotTags'
    BY <1>2, <2>4 DEF SlotTags, Ring
  <2> QED
    BY <2>2, <2>5
<1>4. CASE c # KV
  <2>1. /\ c = <<c[1], c[2]>> /\ c[1] \in {"q_do", "row", "mask"}
        /\ c[2] \in Window /\ c[2] \in Nat
    BY <1>1, <1>4, CopyInWindow
  <2>2. PICK g \in {"q_do", "row", "mask"}, t \in Window : c = <<g, t>> /\ t \in Nat
    BY <2>1
  <2>3. smem' = [smem EXCEPT ![Ring(g, t)] = t]
    BY <1>4, <2>2 DEF CopyCell
  <2>4. Ring(g, t) \in Cells
    BY <2>2 DEF Cells, Ring, Slots
  <2>5. KvTag'
    <3>1. KvLanded' => KvLanded
      BY <1>2, <1>4 DEF KvLanded, KV, Only
    <3>2. smem'[KV] = smem[KV]
      BY <1>1, <2>2, <2>3, CellsApart DEF TypeOK
    <3> QED
      BY <1>1, <1>2, <3>1, <3>2, KvTagStill DEF KV, Only
  <2>6. ASSUME NEW f \in {"q_do", "row", "mask"}, NEW s \in Window, Landed(f, s)'
        PROVE  smem'[Ring(f, s)] = s
    <3>1. CASE f = g /\ s = t
      BY <1>1, <2>3, <2>4, <3>1 DEF TypeOK
    <3>2. CASE f # g \/ s # t
      <4>1. <<f, s>> # c /\ Ring(f, s) # Ring(g, t)
        BY <1>1, <2>2, <3>2, CellsApart
      <4>2. Landed(f, s)
        BY <1>2, <2>6, <4>1 DEF Landed, InFlight
      <4>3. smem[Ring(f, s)] = s
        BY <1>1, <4>2 DEF SlotTags
      <4> QED
        BY <1>1, <2>3, <4>1, <4>3 DEF TypeOK
    <3> QED
      BY <3>1, <3>2
  <2>7. SlotTags'
    BY <1>2, <2>6 DEF SlotTags, Ring
  <2> QED
    BY <2>5, <2>7
<1> QED
  BY <1>3, <1>4

\* What a step that leaves the queue, the MMA warp and TMEM alone keeps.
LEMMA QueueSideStill ==
  ASSUME TInv, UNCHANGED <<call, mmaVars, tc, tmem>>, UNCHANGED <<PStored, DsStored>>
  PROVE  UnionTags' /\ InOrder' /\ SumTags' /\ DqTag'
<1>1. /\ UnionTags /\ InOrder /\ SumTags /\ DqTag
  BY DEF TInv, TileInv
<1>2. UNCHANGED <<mmaScores, mmaStep, PSeen, DkIssued, Ops>>
  BY MmaStill DEF mmaVars, Ops, ToSet
<1>3. UnionTags' /\ InOrder'
  BY <1>1, <1>2, UnionsStill, InOrderStill
<1>4. UNCHANGED <<DvDone, DkDone, DqDone>>
  BY <1>2 DEF DvDone, DkDone, DqDone, Queued
<1> QED
  BY <1>1, <1>3, <1>4, SumsStill

\* The copy engine keeps every tile of its step.
LEMMA CopyEngineTiles == TInv /\ CopyEngine => TileInv'
<1> SUFFICES ASSUME TInv, CopyEngine PROVE TileInv'
  OBVIOUS
<1>1. UNCHANGED <<call, tmaVars, mmaVars, ewVars, dqVars, tc, ds, tmem>>
  BY DEF CopyEngine
<1>2. FInv /\ SlotTags /\ KvTag /\ TileTags /\ DsTags /\ DqOut /\ SumsOut /\ TypeOK
  BY TInvParts, FInvParts
<1>3. UNCHANGED <<Requested, Window, PStored, DsStored, ewPc, ewStep, tile, tmaPc>>
  BY <1>1, ProgressStill DEF tmaVars
<1>4. TileTags' /\ DsTags'
  BY <1>1, <1>2, <1>3, TileTagsStill, DsTagsStill
<1>5. UnionTags' /\ InOrder' /\ SumTags' /\ DqTag'
  BY <1>1, <1>3, QueueSideStill
<1>6. CASE \E c \in copies :
             /\ copies' = copies \ {c} /\ smem' = [smem EXCEPT ![CopyCell(c)] = c[2]]
             /\ UNCHANGED <<stageBusy, gmem>>
  <2>1. SlotTags' /\ KvTag'
    BY <1>1, <1>6, LandsTiles
  <2>2. DqOut' /\ SumsOut'
    BY <1>1, <1>2, <1>3, <1>6, OutStill
  <2> QED
    BY <1>4, <1>5, <2>1, <2>2 DEF TileInv
<1>7. CASE /\ stageBusy /\ stageBusy' = FALSE
           /\ gmem' = [gmem EXCEPT !.dq = Append(@, stage)]
           /\ UNCHANGED <<copies, smem>>
  <2>1. SlotTags'
    BY <1>1, <1>2, <1>3, <1>7, SlotTagsStill
  <2>2. KvTag'
    <3>1. KvLanded' => KvLanded
      BY <1>3, <1>7 DEF KvLanded, KV, Only
    <3> QED
      BY <1>2, <1>3, <1>7, <3>1, KvTagStill DEF KV, Only
  <2>3. /\ gmem'.dq = Append(gmem.dq, stage) /\ gmem'.dk = gmem.dk /\ gmem'.dv = gmem.dv
        /\ gmem.dq \in Seq(Tags) /\ stage \in Tags
    BY <1>2, <1>7, TypeParts DEF DataTypes
  <2>4. UNCHANGED <<dqPc, dqStep, dqReg, stage>> /\ dqStep \in Nat
    BY <1>1, FInvParts, <1>2 DEF dqVars
  <2>5. DqOut'
    <3>1. /\ stage = dqStep - 1 /\ Len(gmem.dq) = dqStep - 1
          /\ \A i \in DOMAIN gmem.dq : gmem.dq[i] = i - 1
      BY <1>2, <1>7 DEF DqOut, Flag
    <3>2. /\ Len(gmem'.dq) = dqStep
          /\ \A i \in DOMAIN gmem'.dq : gmem'.dq[i] = i - 1
      <4>1. /\ Len(gmem'.dq) = Len(gmem.dq) + 1
            /\ DOMAIN gmem'.dq = 1 .. Len(gmem.dq) + 1
            /\ gmem'.dq[Len(gmem.dq) + 1] = stage
            /\ \A i \in 1 .. Len(gmem.dq) : gmem'.dq[i] = gmem.dq[i]
            /\ DOMAIN gmem.dq = 1 .. Len(gmem.dq) /\ Len(gmem.dq) \in Nat
        BY <2>3, AppendProperties
      <4> QED
        BY <2>4, <3>1, <4>1
    <3> QED
      BY <1>2, <1>7, <2>4, <3>2 DEF DqOut, Flag
  <2>6. SumsOut'
    <3>1. UNCHANGED Whole
      BY <1>1 DEF Whole, n
    <3> QED
      BY <1>2, <1>3, <2>3, <3>1 DEF SumsOut
  <2> QED
    BY <1>4, <1>5, <2>1, <2>2, <2>5, <2>6 DEF TileInv
<1> QED
  BY <1>6, <1>7 DEF CopyEngine
-----------------------------------------------------------------------------
\* The TMA warp.  It moves the window on, or requests K and V or the next step.
TmaMovesOn == /\ AFree <= AFree' /\ UNCHANGED <<Requested, copies>>
TmaRequestsKv == AFree' = AFree /\ Requested = 0 /\ Requested' = 0 /\ copies' = {KV}
TmaRequestsStep ==
  /\ AFree' = AFree /\ Requested' = Requested + 1
  /\ copies \subseteq copies'
  /\ \A f \in {"q_do", "row", "mask"} :
       (f = "mask" => Requested \in call.partial) => <<f, Requested>> \in copies'

\* The three kinds of step.
LEMMA TmaMoves ==
  ASSUME FInv, TmaWarp
  PROVE  /\ AFree \in Nat /\ AFree' \in Nat /\ tmaPc' # "kv"
         /\ Requested \in Nat /\ Requested <= AFree + NumStages
         /\ tmaPc = "kv" => TmaRequestsKv
         /\ tmaPc # "kv" => TmaMovesOn \/ TmaRequestsStep
<1>0. PICK t : t = tmaStep
  OBVIOUS
<1>1. /\ TypeOK /\ TmaFacts /\ n \in Nat /\ t \in Nat /\ n' = n
      /\ AFree \in Nat /\ CFree \in Nat /\ Requested \in Nat /\ Requested <= AFree + NumStages
  <2>1. TypeOK /\ TmaFacts /\ n \in Nat /\ t \in Nat
    BY <1>0, FInvParts
  <2>2. n' = n
    BY DEF TmaWarp, n
  <2> QED
    BY <2>1, <2>2, TmaProgress
<1>2. AFree' \in Nat
  <2>1. TypeOK' /\ RingInv'
    BY TmaTypes, TmaRings
  <2>2. TypeOK' /\ TmaFacts'
    BY <2>1 DEF RingInv, PcFacts
  <2>3. (TypeOK /\ TmaFacts => AFree \in Nat)'
    BY TmaProgress, PTL
  <2> QED
    BY <2>2, <2>3
<1>3. ASSUME TmaAwait PROVE TmaMovesOn /\ tmaPc # "kv" /\ tmaPc' # "kv"
  <2>1. tmaPc \in {"consumed", "aux", "drain", "drain_aux"} /\ UNCHANGED copies
    BY <1>3 DEF TmaAwait
  <2>2. t < n
    BY <1>0, <1>1, <2>1 DEF TmaFacts
  <2>3. CASE tmaPc = "consumed"
    <3>1. tmaPc' = "aux" /\ tmaStep' = t
      BY <1>0, <1>3, <2>3 DEF TmaAwait, AfterConsumed
    <3>2. CFree = t - NumStages /\ CFree' = t - NumStages + 1 /\ Requested = t /\ Requested' = t
      BY <1>0, <2>3, <3>1 DEF CFree, Requested
    <3>3. AFree = t - NumStages /\ AFree' = t - NumStages + 1 - 1
      BY <2>3, <3>1, <3>2 DEF AFree
    <3> QED
      BY <1>1, <2>1, <3>1, <3>2, <3>3 DEF TmaMovesOn
  <2>4. CASE tmaPc = "aux"
    <3>1. tmaPc' = "load" /\ tmaStep' = t /\ t >= NumStages
      BY <1>0, <1>1, <1>3, <2>4 DEF TmaAwait, TmaFacts
    <3>2. CFree = t - NumStages + 1 /\ CFree' = t - NumStages + 1 /\ Requested = t /\ Requested' = t
      BY <1>0, <1>1, <2>4, <3>1 DEF CFree, Requested
    <3>3. AFree = t - NumStages + 1 - 1 /\ AFree' = t - NumStages + 1
      BY <1>1, <2>4, <3>1, <3>2 DEF AFree
    <3> QED
      BY <1>1, <2>1, <3>1, <3>2, <3>3 DEF TmaMovesOn
  <2>5. CASE tmaPc = "drain"
    <3>1. tmaPc' = "drain_aux" /\ tmaStep' = t
      BY <1>0, <1>3, <2>5 DEF TmaAwait
    <3>2. CFree = t /\ CFree' = t + 1 /\ Requested = n /\ Requested' = n
      BY <1>0, <1>1, <2>5, <3>1 DEF CFree, Requested
    <3>3. AFree = t /\ AFree' = t + 1 - 1
      BY <1>1, <2>5, <3>1, <3>2 DEF AFree
    <3> QED
      BY <1>1, <2>1, <2>5, <3>1, <3>2, <3>3 DEF TmaMovesOn
  <2>6. CASE tmaPc = "drain_aux"
    <3>1. tmaPc' = (IF t + 1 < n THEN "drain" ELSE "done") /\ tmaStep' = t + 1
      BY <1>0, <1>3, <2>6 DEF TmaAwait, TmaDrain
    <3>2. CFree = t + 1 /\ CFree' = t + 1 /\ Requested = n /\ Requested' = n
      BY <1>0, <1>1, <2>2, <2>6, <3>1 DEF CFree, Requested
    <3>3. AFree = t + 1 - 1 /\ AFree' = t + 1
      BY <1>1, <2>6, <3>1, <3>2 DEF AFree
    <3> QED
      BY <1>1, <2>1, <2>6, <3>1, <3>2, <3>3 DEF TmaMovesOn
  <2> QED
    BY <2>1, <2>3, <2>4, <2>5, <2>6
<1>4. ASSUME TmaLoad, tmaPc = "kv" PROVE TmaRequestsKv /\ tmaPc' # "kv"
  <2>1. TmaEnter(0) /\ copies' = {KV}
    BY <1>4 DEF TmaLoad
  <2>2. tmaStep = 0 /\ Requested = 0 /\ CFree = 0 /\ AFree = 0
    BY <1>1, <1>4 DEF TmaFacts, Requested, CFree, AFree
  <2>3. /\ tmaStep' = 0 /\ (IF n = 0 THEN tmaPc' = "done" ELSE tmaPc' = "load")
    BY <1>1, <2>1 DEF TmaEnter, TmaDrain, DrainStart, LastStep
  <2>4. Requested' = 0 /\ CFree' = 0
    BY <1>1, <2>3 DEF Requested, CFree
  <2>5. AFree' = 0
    BY <2>3, <2>4 DEF AFree
  <2> QED
    BY <2>1, <2>2, <2>3, <2>4, <2>5 DEF TmaRequestsKv
<1>5. ASSUME TmaLoad, tmaPc # "kv" PROVE TmaRequestsStep /\ tmaPc' # "kv"
  <2>1. /\ TmaEnter(t + 1) /\ tmaPc = "load"
        /\ copies' = copies \cup {<<"q_do", t>>, <<"row", t>>}
             \cup (IF t \in call.partial THEN {<<"mask", t>>} ELSE {})
    BY <1>0, <1>5 DEF TmaLoad
  <2>3. /\ Requested = t /\ CFree = (IF t >= NumStages THEN t - NumStages + 1 ELSE 0)
        /\ AFree = CFree
    BY <1>0, <2>1 DEF Requested, CFree, AFree
  <2>4. Requested' = t + 1 /\ CFree' = CFree /\ AFree' = AFree /\ tmaPc' # "kv"
    <3>1. CASE t + 1 = n
      <4>1. /\ tmaPc' = "drain" /\ tmaStep' = IF n > NumStages THEN n - NumStages ELSE 0
        BY <1>1, <2>1, <3>1 DEF TmaEnter, TmaDrain, DrainStart, LastStep
      <4>2. Requested' = t + 1 /\ CFree' = CFree
        BY <1>1, <2>1, <2>3, <3>1, <4>1 DEF Requested, CFree
      <4> QED
        BY <2>3, <4>1, <4>2 DEF AFree
    <3>2. CASE t + 1 # n
      <4>1. tmaPc' = (IF t + 1 >= NumStages THEN "consumed" ELSE "load") /\ tmaStep' = t + 1
        BY <1>1, <2>1, <3>2 DEF TmaEnter, LastStep
      <4>2. Requested' = t + 1 /\ CFree' = CFree
        BY <1>1, <2>1, <2>3, <4>1 DEF Requested, CFree
      <4> QED
        BY <2>3, <4>1, <4>2 DEF AFree
    <3> QED
      BY <3>1, <3>2
  <2>5. \A f \in {"q_do", "row", "mask"} :
          (f = "mask" => t \in call.partial) => <<f, t>> \in copies'
    BY <2>1
  <2> QED
    BY <2>1, <2>3, <2>4, <2>5 DEF TmaRequestsStep
<1> QED
  BY <1>1, <1>2, <1>3, <1>4, <1>5 DEF TmaWarp

\* What it requests is in flight, so what has landed is as before.
LEMMA TmaTiles == TInv /\ TmaWarp => TileInv'
<1> SUFFICES ASSUME TInv, TmaWarp PROVE TileInv'
  OBVIOUS
<1>1. UNCHANGED <<call, mmaVars, ewVars, dqVars, tc, smem, ds, tmem, stageBusy, gmem>>
  BY DEF TmaWarp
<1>2. /\ FInv /\ SlotTags /\ KvTag /\ TileTags /\ DsTags /\ DqOut /\ SumsOut
      /\ TypeOK /\ Counts /\ Flights
  BY TInvParts, FInvParts
<1>3. UNCHANGED <<ewPc, ewStep, tile, PStored, DsStored>>
  BY <1>1, StoredStill DEF ewVars
<1>4. /\ AFree \in Nat /\ AFree' \in Nat /\ tmaPc' # "kv"
      /\ Requested \in Nat /\ Requested <= AFree + NumStages
      /\ tmaPc = "kv" => TmaRequestsKv
      /\ tmaPc # "kv" => TmaMovesOn \/ TmaRequestsStep
  BY <1>2, TmaMoves
<1>5. TileTags' /\ DsTags' /\ DqOut' /\ SumsOut'
  BY <1>1, <1>2, <1>3, TileTagsStill, DsTagsStill, OutStill
<1>6. UnionTags' /\ InOrder' /\ SumTags' /\ DqTag'
  BY <1>1, <1>3, QueueSideStill
<1>7. KvTag'
  <2>1. KvLanded' => KvLanded
    <3>1. CASE tmaPc = "kv"
      BY <1>4, <3>1 DEF TmaRequestsKv, KvLanded
    <3>2. CASE tmaPc # "kv"
      BY <1>4, <3>2 DEF TmaMovesOn, TmaRequestsStep, KvLanded, KV, Only
    <3> QED
      BY <3>1, <3>2
  <2> QED
    BY <1>1, <1>2, <1>3, <2>1, KvTagStill DEF KV, Only
<1>8. SlotTags'
  <2> SUFFICES ASSUME NEW f \in {"q_do", "row", "mask"}, NEW s \in Window', Landed(f, s)'
               PROVE  smem'[Ring(f, s)] = s
    BY DEF SlotTags, Ring
  <2>1. s \in Nat /\ s < Requested' /\ ~InFlight(f, s)' /\ (f = "mask" => s \in call.partial)
        /\ AFree' <= s
    BY <1>1, <1>4 DEF Landed, Window
  <2>2. s < Requested /\ AFree <= AFree' /\ <<f, s>> \notin copies
    <3>1. CASE tmaPc = "kv"
      BY <1>4, <2>1, <3>1 DEF TmaRequestsKv
    <3>2. CASE TmaMovesOn
      BY <2>1, <3>2 DEF TmaMovesOn, InFlight
    <3>3. CASE TmaRequestsStep
      <4>1. s # Requested
        BY <2>1, <3>3 DEF TmaRequestsStep, InFlight
      <4>2. <<f, s>> \notin copies /\ Requested' = Requested + 1 /\ AFree' = AFree
        BY <2>1, <3>3 DEF TmaRequestsStep, InFlight
      <4> QED
        BY <1>4, <2>1, <4>1, <4>2
    <3> QED
      BY <1>4, <3>1, <3>2, <3>3
  <2>3. s \in Window
    BY <1>4, <2>1, <2>2 DEF Window
  <2>4. Landed(f, s)
    BY <2>1, <2>2 DEF Landed, InFlight
  <2> QED
    BY <1>1, <1>2, <2>3, <2>4 DEF SlotTags
<1> QED
  BY <1>5, <1>6, <1>7, <1>8 DEF TileInv
-----------------------------------------------------------------------------
\* The dQ writer: what it loads is the step it is at.
LEMMA DqLoaded ==
  ASSUME TInv, dqPc = "load"
  PROVE  tmem.dq = dqStep
<1>1. /\ FInv /\ DqTag /\ TypeOK /\ DqFacts /\ MmaFacts /\ dqStep \in Nat
  BY TInvParts, FInvParts
<1>2. DqSeen = dqStep + 1 /\ DqFreed = dqStep
  BY <1>1 DEF DqSeen, DqFreed
<1>3. /\ DqSeen <= mmaStep /\ DqFreeSeen <= DqFreed /\ mmaStep <= DqFreeSeen + 1
      /\ mmaStep \in Nat /\ DqFreeSeen \in Nat
  BY <1>1, Chain, MmaProgress
<1>4. mmaStep = dqStep + 1
  BY <1>1, <1>2, <1>3
<1>5. Queued("dq") = 0
  BY <1>1, DqInFlight DEF Queued
<1> QED
  BY <1>1, <1>4, <1>5 DEF DqTag, DqDone

\* It keeps every tile of its step.
LEMMA DqTiles == TInv /\ DqWriter => TileInv'
<1> SUFFICES ASSUME TInv, DqWriter PROVE TileInv'
  OBVIOUS
<1>1. UNCHANGED <<call, tmaVars, mmaVars, ewVars, copies, tc, smem, ds, tmem, gmem>>
  BY DEF DqWriter
<1>2. /\ FInv /\ SlotTags /\ KvTag /\ TileTags /\ DsTags /\ DqOut /\ SumsOut
      /\ TypeOK /\ dqStep \in Nat
  BY TInvParts, FInvParts
<1>3. UNCHANGED <<ewPc, ewStep, tile, PStored, DsStored, Requested, Window, tmaPc>>
  BY <1>1, ProgressStill DEF tmaVars
<1>4. TileTags' /\ DsTags' /\ SlotTags'
  BY <1>1, <1>2, <1>3, TileTagsStill, DsTagsStill, SlotTagsStill
<1>5. UnionTags' /\ InOrder' /\ SumTags' /\ DqTag'
  BY <1>1, <1>3, QueueSideStill
<1>6. KvTag'
  <2>1. KvLanded' => KvLanded
    BY <1>1, <1>3 DEF KvLanded, KV, Only
  <2> QED
    BY <1>1, <1>2, <1>3, <2>1, KvTagStill DEF KV, Only
<1>7. SumsOut'
  <2>1. UNCHANGED Whole
    BY <1>1 DEF Whole, n
  <2> QED
    BY <1>1, <1>2, <1>3, <2>1 DEF SumsOut
<1>8. DqOut'
  <2>1. CASE DqLoad
    <3>1. /\ UNCHANGED <<dqStep, stage, stageBusy>>
          /\ dqPc' = "store" => dqReg' = dqStep
      BY <2>1, DqLoaded DEF DqLoad
    <3> QED
      BY <1>1, <1>2, <3>1 DEF DqOut, Flag
  <2>2. CASE DqStore
    <3>1. /\ dqReg = dqStep /\ ~stageBusy /\ stage' = dqReg /\ stageBusy'
          /\ dqStep' = dqStep + 1 /\ dqPc' # "store"
      BY <1>2, <2>2 DEF DqStore, StageFree, DqOut, DqTop
    <3>2. Len(gmem.dq) = dqStep - 0 /\ \A i \in DOMAIN gmem.dq : gmem.dq[i] = i - 1
      BY <1>2, <3>1 DEF DqOut, Flag
    <3> QED
      BY <1>1, <1>2, <3>1, <3>2 DEF DqOut, Flag
  <2>3. CASE DqDrain
    BY <1>1, <1>2, <2>3 DEF DqDrain, DqOut, Flag
  <2> QED
    BY <2>1, <2>2, <2>3 DEF DqWriter
<1> QED
  BY <1>4, <1>5, <1>6, <1>7, <1>8 DEF TileInv
-----------------------------------------------------------------------------
\* The MMA warp.  What it issues is in flight: k steps were issued of an MMA,
\* and as many more as there are among the new ones.
Grows(name, new, k, k2) ==
  \/ k2 = k /\ \A op \in new : op[1] # name
  \/ k2 = k + 1 /\ <<name, k>> \in new

\* Of an MMA only the newest is in flight, before and after.
LEMMA IssuedStillDone ==
  ASSUME NEW name, NEW new, Ops' = Ops \cup new, NEW k \in Nat, NEW k2,
         Grows(name, new, k, k2),
         \A op \in Ops : op[1] = name => op[2] = k - 1,
         \A op \in Ops' : op[1] = name => op[2] = k2 - 1
  PROVE  k2 - Queued(name)' = k - Queued(name)
<1>1. CASE k2 = k /\ \A op \in new : op[1] # name
  <2>1. (\E op \in Ops' : op[1] = name) <=> \E op \in Ops : op[1] = name
    BY <1>1
  <2>2. Queued(name)' = Queued(name)
    BY <2>1 DEF Queued
  <2> QED
    BY <1>1, <2>2
<1>2. CASE k2 = k + 1 /\ <<name, k>> \in new
  <2>1. \A op \in Ops : op[1] # name
    BY <1>2
  <2>2. \E op \in Ops' : op[1] = name
    BY <1>2
  <2>3. Queued(name) = 0
    BY <2>1 DEF Queued
  <2>4. Queued(name)' = 1
    BY <2>2 DEF Queued
  <2> QED
    BY <1>2, <2>3, <2>4
<1> QED
  BY <1>1, <1>2 DEF Grows

\* The newest of each MMA, as a statement about a state.
LEMMA OnlyNewestOps ==
  FInv => \A op \in Ops : /\ op[1] = "dv" => op[2] = PSeen - 1
                          /\ op[1] = "dk" => op[2] = DkIssued - 1
                          /\ op[1] = "dq" => op[2] = mmaStep - 1
BY OnlyNewest

\* Work appended to the queue is in flight.
LEMMA OpsGrow ==
  ASSUME NEW S, tc \in Seq(S), NEW u \in Seq(S), tc' = tc \o u
  PROVE  Ops' = Ops \cup ToSet(u)
<1> DEFINE v == tc \o u  m == Len(tc)
<1>1. /\ v \in Seq(S) /\ m \in Nat /\ Len(u) \in Nat /\ DOMAIN tc = 1 .. m
      /\ DOMAIN u = 1 .. Len(u) /\ DOMAIN v = 1 .. m + Len(u)
      /\ \A i \in 1 .. m + Len(u) : v[i] = IF i <= m THEN tc[i] ELSE u[i - m]
  BY ConcatProperties, LenProperties
<1>2. \A i \in 1 .. m : v[i] = tc[i] /\ i \in DOMAIN v
  BY <1>1
<1>3. \A j \in 1 .. Len(u) : m + j \in DOMAIN v /\ v[m + j] = u[j]
  BY <1>1
<1>4. \A i \in DOMAIN v : i \in 1 .. m \/ (i - m \in 1 .. Len(u) /\ i > m /\ v[i] = u[i - m])
  BY <1>1
<1>5. tc' = v
  OBVIOUS
<1> HIDE DEF v, m
<1>6. ToSet(v) = Ops \cup ToSet(u)
  BY <1>1, <1>2, <1>3, <1>4 DEF ToSet, Ops
<1> QED
  BY <1>5, <1>6 DEF Ops

\* What the MMA warp issues leaves the tiles as they are, as long as it is
\* issued after the scores that are complete.
LEMMA MmaIssuesTiles ==
  ASSUME TInv, MmaWarp, NEW new, Ops' = Ops \cup new,
         \/ mmaScores' = mmaScores /\ \A op \in new : op[1] # "scores"
         \/ /\ mmaScores' = mmaScores + 1 /\ <<"scores", mmaScores>> \in new
            /\ \A op \in new : op[1] = "scores" => op = <<"scores", mmaScores>>,
         \A op \in new : \A s \in 0 .. mmaScores - 1 : 12 * s < Key(op),
         Grows("dv", new, PSeen, PSeen'), Grows("dk", new, DkIssued, DkIssued'),
         Grows("dq", new, mmaStep, mmaStep')
  PROVE  TileInv'
<1>1. UNCHANGED <<call, tmaVars, ewVars, dqVars, copies, smem, ds, tmem, stageBusy, gmem>>
  BY DEF MmaWarp
<1>2. /\ FInv /\ SlotTags /\ KvTag /\ TileTags /\ DsTags /\ DqOut /\ SumsOut /\ InOrder
      /\ TypeOK /\ SumTags /\ DqTag /\ mmaScores \in Nat /\ mmaStep \in Nat
      /\ PSeen \in Nat /\ DkIssued \in Nat
  BY TInvParts, FInvParts, MmaProgress
<1>3. UNCHANGED <<ewPc, ewStep, tile, PStored, DsStored, Requested, Window, tmaPc>>
  BY <1>1, StoredStill, TmaStill DEF ewVars, tmaVars
<1>4. TileTags' /\ DsTags' /\ SlotTags' /\ DqOut' /\ SumsOut'
  BY <1>1, <1>2, <1>3, TileTagsStill, DsTagsStill, SlotTagsStill, OutStill
<1>5. KvTag'
  <2>1. KvLanded' => KvLanded
    BY <1>1, <1>3 DEF KvLanded, KV, Only
  <2> QED
    BY <1>1, <1>2, <1>3, <2>1, KvTagStill DEF KV, Only
<1>6. FInv'
  BY <1>2, MmaTypes, MmaRings DEF FInv
<1>7. /\ \A op \in Ops : /\ op[1] = "dv" => op[2] = PSeen - 1
                         /\ op[1] = "dk" => op[2] = DkIssued - 1
                         /\ op[1] = "dq" => op[2] = mmaStep - 1
      /\ \A op \in Ops' : /\ op[1] = "dv" => op[2] = PSeen' - 1
                          /\ op[1] = "dk" => op[2] = DkIssued' - 1
                          /\ op[1] = "dq" => op[2] = mmaStep' - 1
  <2>1. (FInv => \A op \in Ops : /\ op[1] = "dv" => op[2] = PSeen - 1
                                 /\ op[1] = "dk" => op[2] = DkIssued - 1
                                 /\ op[1] = "dq" => op[2] = mmaStep - 1)'
    BY OnlyNewestOps, PTL
  <2> QED
    BY <1>2, <1>6, <2>1, OnlyNewestOps
<1>8. UNCHANGED <<DvDone, DkDone, DqDone>>
  <2>1. PSeen' - Queued("dv")' = PSeen - Queued("dv")
    BY <1>2, <1>7, IssuedStillDone
  <2>2. DkIssued' - Queued("dk")' = DkIssued - Queued("dk")
    BY <1>2, <1>7, IssuedStillDone
  <2>3. mmaStep' - Queued("dq")' = mmaStep - Queued("dq")
    BY <1>2, <1>7, IssuedStillDone
  <2> QED
    BY <2>1, <2>2, <2>3 DEF DvDone, DkDone, DqDone
<1>9. SumTags' /\ DqTag'
  BY <1>1, <1>2, <1>8, SumsStill
<1>10. mmaScores' \in Nat /\ mmaScores <= mmaScores'
  BY <1>2
<1>11. ASSUME NEW s \in Nat PROVE ScoresUp(s)' <=> ScoresUp(s)
  <2>1. ScoresUp(s)' <=> s < mmaScores' /\ <<"scores", s>> \notin Ops'
    BY DEF ScoresUp
  <2>2. ScoresUp(s) <=> s < mmaScores /\ <<"scores", s>> \notin Ops
    BY DEF ScoresUp
  <2>3. <<"scores", s>>[1] = "scores" /\ (s # mmaScores => <<"scores", s>> # <<"scores", mmaScores>>)
    OBVIOUS
  <2>4. CASE mmaScores' = mmaScores /\ \A op \in new : op[1] # "scores"
    BY <2>1, <2>2, <2>3, <2>4
  <2>5. CASE /\ mmaScores' = mmaScores + 1 /\ <<"scores", mmaScores>> \in new
             /\ \A op \in new : op[1] = "scores" => op = <<"scores", mmaScores>>
    <3>1. CASE s = mmaScores
      BY <2>1, <2>2, <2>5, <3>1
    <3>2. CASE s # mmaScores
      <4>1. (s < mmaScores') <=> s < mmaScores
        BY <1>2, <2>5, <3>2
      <4>2. <<"scores", s>> \notin new
        BY <2>3, <2>5, <3>2
      <4> QED
        BY <2>1, <2>2, <4>1, <4>2
    <3> QED
      BY <3>1, <3>2
  <2> QED
    BY <2>4, <2>5
<1>12. UnionTags'
  <2>1. /\ HoldsScores(tmem.sp, PStored) /\ HoldsStored(tmem.sp, PStored)
        /\ HoldsScores(tmem.dd, DsStored) /\ HoldsStored(tmem.dd, DsStored)
    BY TInvParts
  <2>2. \A e \in Ew : PStored[e] \in Nat /\ DsStored[e] \in Nat
    BY <1>2, StoredBounds
  <2>3. \A s \in 0 .. mmaScores' - 1 : ScoresUp(s)' => s \in 0 .. mmaScores - 1 /\ ScoresUp(s)
    BY <1>2, <1>10, <1>11 DEF ScoresUp
  <2>4. HoldsScores(tmem.sp, PStored)' /\ HoldsScores(tmem.dd, DsStored)'
    BY <1>1, <1>3, <2>1, <2>3 DEF HoldsScores
  <2>5. HoldsStored(tmem.sp, PStored)' /\ HoldsStored(tmem.dd, DsStored)'
    BY <1>1, <1>3, <1>11, <2>1, <2>2 DEF HoldsStored
  <2> QED
    BY <2>4, <2>5 DEF UnionTags
<1>13. InOrder'
  <2> SUFFICES ASSUME ~call.serialize, NEW s \in 0 .. mmaScores' - 1, ScoresUp(s)',
                      NEW op \in Ops'
               PROVE  Key(<<"scores", s>>)' < Key(op)'
    BY <1>1 DEF InOrder
  <2>1. \A x : Key(x)' = Key(x)
    BY <1>1 DEF Key
  <2>2. s \in 0 .. mmaScores - 1 /\ ScoresUp(s)
    BY <1>2, <1>10, <1>11 DEF ScoresUp
  <2>3. CASE op \in Ops
    BY <1>2, <2>1, <2>2, <2>3 DEF InOrder
  <2>4. CASE op \in new
    <3>1. Key(<<"scores", s>>) = 12 * s
      BY <2>2 DEF Key
    <3> QED
      BY <2>1, <2>2, <2>4, <3>1
  <2> QED
    BY <2>3, <2>4
<1> QED
  BY <1>4, <1>5, <1>9, <1>12, <1>13 DEF TileInv

\* Its waits issue nothing.
LEMMA MmaAwaitTiles == TInv /\ MmaWarp /\ MmaAwait => TileInv'
<1> SUFFICES ASSUME TInv, MmaWarp, MmaAwait PROVE TileInv'
  OBVIOUS
<1>1. FInv /\ TypeOK /\ MmaFacts /\ n \in Nat /\ mmaStep \in 0 .. n /\ mmaScores \in 0 .. n
  BY TInvParts, FInvParts
<1>2. UNCHANGED <<mmaStep, mmaScores, tc, call>> /\ n' = n
  BY DEF MmaWarp, MmaAwait, n
<1>3. UNCHANGED <<PSeen, DkIssued>>
  <2>1. CASE MmaWait("kv", KV, IF call.early /\ n > 0 THEN "scores" ELSE MmaTop(0))
    <3>1. mmaPc = "kv" /\ mmaScores = 0 /\ mmaPc' = IF n = 0 THEN "done" ELSE "scores"
      BY <1>1, <2>1 DEF MmaWait, MmaFacts, MmaTop, ScoresPc
    <3> QED
      BY <1>1, <1>2, <3>1 DEF PSeen, DkIssued, PastDk
  <2>2. CASE MmaWait("order", Only("mma_order"), "scores")
    BY <1>1, <1>2, <2>2 DEF MmaWait, PSeen, DkIssued, PastDk, MmaFacts
  <2>3. CASE MmaWait("dq_free", Only("dq_free"), "dq")
    BY <1>1, <1>2, <2>3 DEF MmaWait, PSeen, DkIssued, PastDk, MmaFacts
  <2>4. CASE MmaWait("last_free", Only("dq_free"), IF call.serialize THEN "last_order" ELSE "done")
    BY <1>1, <1>2, <2>4 DEF MmaWait, PSeen, DkIssued, PastDk, MmaFacts
  <2>5. CASE MmaWait("last_order", Only("mma_order"), "done")
    BY <1>1, <1>2, <2>5 DEF MmaWait, PSeen, DkIssued, PastDk, MmaFacts
  <2> QED
    BY <2>1, <2>2, <2>3, <2>4, <2>5 DEF MmaAwait
<1>4. Ops' = Ops \cup {}
  BY <1>2 DEF Ops, ToSet
<1>5. /\ Grows("dv", {}, PSeen, PSeen') /\ Grows("dk", {}, DkIssued, DkIssued')
      /\ Grows("dq", {}, mmaStep, mmaStep')
  BY <1>2, <1>3 DEF Grows
<1> QED
  BY <1>2, <1>4, <1>5, MmaIssuesTiles

\* The scores.
LEMMA MmaScoresTiles == TInv /\ MmaWarp /\ MmaIssueScores => TileInv'
<1> SUFFICES ASSUME TInv, MmaWarp, MmaIssueScores PROVE TileInv'
  OBVIOUS
<1>0. PICK m : m = mmaScores
  OBVIOUS
<1>1. /\ m = mmaScores /\ FInv /\ TypeOK /\ MmaFacts /\ n \in Nat /\ mmaStep \in 0 .. n
      /\ m \in 0 .. n /\ tc \in Seq(OpTypes)
  BY <1>0, TInvParts, FInvParts, TypeParts DEF WorkTypes
<1>2. /\ UNCHANGED <<call, mmaStep>> /\ mmaPc = "scores" /\ mmaScores' = m + 1
      /\ mmaPc' = IF call.early /\ m > 0 THEN DqIssuePc(mmaStep) ELSE "p"
  BY <1>1 DEF MmaWarp, MmaIssueScores, MmaWait
<1>3. m < n /\ m = IF call.early /\ m > 0 THEN mmaStep + 1 ELSE mmaStep
  BY <1>1, <1>2 DEF MmaFacts
<1>4. /\ call.early /\ m > 0 => mmaPc' = IF mmaStep > 0 THEN "dq_free" ELSE "dq"
      /\ ~(call.early /\ m > 0) => mmaPc' = "p"
  BY <1>2 DEF DqIssuePc
<1>5. DkIssued = m /\ DkIssued' = m /\ PSeen = m /\ PSeen' = m
  BY <1>1, <1>2, <1>3, <1>4 DEF DkIssued, PSeen, PastDk
<1> DEFINE a == <<"scores", m>>
<1> DEFINE b == <<"s_ready", m>>
<1> DEFINE u == <<a, b>>
<1>6. {a, b} \subseteq OpTypes /\ a[1] = "scores" /\ b[1] = "s_ready" /\ tc' = tc \o u
  BY <1>1 DEF OpTypes, Commits, MmaIssueScores
<1>7. Key(a) = 12 * m /\ Key(b) = 12 * m + 1
  BY <1>1 DEF Key
<1>8. a = <<"scores", m>>
  OBVIOUS
<1> HIDE DEF a, b
<1>9. u \in Seq(OpTypes) /\ ToSet(u) = {a, b}
  BY <1>6, Tuples
<1>10. Ops' = Ops \cup {a, b}
  BY <1>1, <1>6, <1>9, OpsGrow
<1>11. \A op \in {a, b} : \A s \in 0 .. mmaScores - 1 : 12 * s < Key(op)
  BY <1>1, <1>7
<1>12. /\ Grows("dv", {a, b}, PSeen, PSeen') /\ Grows("dk", {a, b}, DkIssued, DkIssued')
       /\ Grows("dq", {a, b}, mmaStep, mmaStep')
  BY <1>2, <1>5, <1>6 DEF Grows
<1>13. /\ mmaScores' = mmaScores + 1 /\ <<"scores", mmaScores>> \in {a, b}
       /\ \A op \in {a, b} : op[1] = "scores" => op = <<"scores", mmaScores>>
  BY <1>1, <1>2, <1>6, <1>8
<1> QED
  BY <1>10, <1>11, <1>12, <1>13, MmaIssuesTiles

\* dQ.
LEMMA MmaDqTiles == TInv /\ MmaWarp /\ MmaIssueDq => TileInv'
<1> SUFFICES ASSUME TInv, MmaWarp, MmaIssueDq PROVE TileInv'
  OBVIOUS
<1>0. PICK m : m = mmaStep
  OBVIOUS
<1>1. /\ m = mmaStep /\ FInv /\ TypeOK /\ MmaFacts /\ n \in Nat /\ m \in 0 .. n
      /\ mmaScores \in 0 .. n /\ tc \in Seq(OpTypes) /\ call.early \in BOOLEAN
  BY <1>0, TInvParts, FInvParts, TypeParts, CallType DEF WorkTypes
<1>2. /\ UNCHANGED <<call, mmaScores>> /\ mmaPc = "dq" /\ mmaStep' = m + 1
      /\ mmaPc' = MmaTop(m + 1)
  BY <1>1 DEF MmaWarp, MmaIssueDq
<1>3. /\ m < n /\ mmaScores = IF call.early /\ m + 1 < n THEN m + 2 ELSE m + 1
  BY <1>1, <1>2 DEF MmaFacts
<1>4. /\ mmaPc' \in {"end", "p", "order", "scores"}
      /\ mmaPc' \in {"order", "scores"} => ~call.early
  BY <1>1, <1>2, <1>3 DEF MmaTop, ScoresPc
<1>5. DkIssued = m + 1 /\ DkIssued' = m + 1 /\ PSeen = m + 1 /\ PSeen' = m + 1
  BY <1>1, <1>2, <1>3, <1>4 DEF DkIssued, PSeen, PastDk
<1> DEFINE a == <<"dq", m>>
<1> DEFINE b == <<"dq_ready", m>>
<1> DEFINE c == <<"consumed", m>>
<1> DEFINE u == <<a, b, c>>
<1>6. /\ {a, b, c} \subseteq OpTypes /\ a[1] = "dq" /\ b[1] = "dq_ready" /\ c[1] = "consumed"
      /\ tc' = tc \o u
  BY <1>1 DEF OpTypes, Commits, MmaIssueDq
<1>7. /\ Key(a) = 12 * m + (IF call.early THEN 14 ELSE 8)
      /\ Key(b) = Key(a) + 1 /\ Key(c) = Key(a) + 2
  BY <1>1 DEF Key
<1>8. a = <<"dq", m>>
  OBVIOUS
<1> HIDE DEF a, b, c
<1>9. u \in Seq(OpTypes) /\ ToSet(u) = {a, b, c}
  BY <1>6, Tuples
<1>10. Ops' = Ops \cup {a, b, c}
  BY <1>1, <1>6, <1>9, OpsGrow
<1>11. ASSUME NEW s \in 0 .. mmaScores - 1
       PROVE  12 * s < Key(a) /\ 12 * s < Key(b) /\ 12 * s < Key(c)
  <2>1. CASE call.early
    BY <1>1, <1>3, <1>7, <2>1
  <2>2. CASE ~call.early
    BY <1>1, <1>3, <1>7, <2>2
  <2> QED
    BY <2>1, <2>2
<1>12. /\ Grows("dv", {a, b, c}, PSeen, PSeen') /\ Grows("dk", {a, b, c}, DkIssued, DkIssued')
       /\ Grows("dq", {a, b, c}, mmaStep, mmaStep')
  BY <1>1, <1>2, <1>5, <1>6, <1>8 DEF Grows
<1>13. \A op \in {a, b, c} : op[1] # "scores"
  BY <1>6
<1>14. \A op \in {a, b, c} : \A s \in 0 .. mmaScores - 1 : 12 * s < Key(op)
  BY <1>11
<1> QED
  BY <1>1, <1>2, <1>10, <1>12, <1>13, <1>14, MmaIssuesTiles

\* The commit of the end.
LEMMA MmaDoneTiles == TInv /\ MmaWarp /\ MmaCommitDone => TileInv'
<1> SUFFICES ASSUME TInv, MmaWarp, MmaCommitDone PROVE TileInv'
  OBVIOUS
<1>0. PICK k : k = n
  OBVIOUS
<1>1. k = n /\ FInv /\ TypeOK /\ MmaFacts /\ n \in Nat /\ tc \in Seq(OpTypes)
  BY <1>0, TInvParts, FInvParts, TypeParts DEF WorkTypes
<1>2. /\ UNCHANGED <<call, mmaStep, mmaScores>> /\ mmaPc = "end" /\ mmaPc' = "last_free"
      /\ mmaStep = n /\ mmaScores = n
  BY <1>1 DEF MmaWarp, MmaCommitDone, MmaFacts
<1>3. DkIssued = n /\ DkIssued' = n /\ PSeen = n /\ PSeen' = n
  BY <1>1, <1>2 DEF DkIssued, PSeen, PastDk
<1> DEFINE a == <<"done", k>>
<1> DEFINE u == <<a>>
<1>4. a \in OpTypes /\ a[1] = "done" /\ Key(a) = 12 * k + 11
  BY <1>1 DEF OpTypes, Commits, Key
<1>5. tc' = tc \o u
  BY <1>1, <1>2, <1>4, AppendIsConcat DEF MmaCommitDone
<1> HIDE DEF a
<1>6. u \in Seq(OpTypes) /\ ToSet(u) = {a}
  BY <1>4, Tuples
<1>7. Ops' = Ops \cup {a}
  BY <1>1, <1>5, <1>6, OpsGrow
<1>8. /\ Grows("dv", {a}, PSeen, PSeen') /\ Grows("dk", {a}, DkIssued, DkIssued')
      /\ Grows("dq", {a}, mmaStep, mmaStep')
  BY <1>2, <1>3, <1>4 DEF Grows
<1>9. /\ \A op \in {a} : op[1] # "scores"
      /\ \A op \in {a} : \A s \in 0 .. mmaScores - 1 : 12 * s < Key(op)
  BY <1>1, <1>2, <1>4
<1> QED
  BY <1>2, <1>7, <1>8, <1>9, MmaIssuesTiles

\* dV, and dK.
LEMMA MmaDvDkTiles == TInv /\ MmaWarp /\ MmaIssueDvDk => TileInv'
<1> SUFFICES ASSUME TInv, MmaWarp, MmaIssueDvDk PROVE TileInv'
  OBVIOUS
<1>0. PICK m : m = mmaStep
  OBVIOUS
<1>1. /\ m = mmaStep /\ FInv /\ TypeOK /\ MmaFacts /\ n \in Nat /\ m \in 0 .. n
      /\ mmaScores \in 0 .. n /\ tc \in Seq(OpTypes)
  BY <1>0, TInvParts, FInvParts, TypeParts DEF WorkTypes
<1>2. UNCHANGED <<call, mmaStep, mmaScores>> /\ n' = n /\ mmaPc \in {"p", "ds"}
  BY DEF MmaWarp, MmaIssueDvDk, MmaWait, n
<1>3. m < n /\ mmaScores = m + 1
  BY <1>1, <1>2 DEF MmaFacts
<1> DEFINE a == <<"dv", m>>
<1> DEFINE b == <<"dk", m>>
<1> DEFINE c == <<"mma_order", m>>
<1>4. {a, b, c} \subseteq OpTypes /\ a[1] = "dv" /\ b[1] = "dk" /\ c[1] = "mma_order"
  BY <1>1 DEF OpTypes, Commits
<1>5. /\ Key(a) = 12 * m + 5 /\ Key(b) = 12 * m + 6 /\ Key(c) = 12 * m + 7
  BY <1>1 DEF Key
<1>6. Dv = <<a>> /\ Dk = IF call.serialize THEN <<b, c>> ELSE <<b>>
  <2>1. <<b>> \o <<c>> = <<b, c>> /\ <<b>> \o <<>> = <<b>>
    <3> HIDE DEF b, c
    <3>1. <<b>> \o <<c>> = <<b, c>>
      BY <1>4, Joined
    <3>2. <<b>> \in Seq(OpTypes)
      BY <1>4
    <3> QED
      BY <3>1, <3>2, ConcatEmptySeq
  <2> QED
    BY <1>1, <2>1 DEF Dv, Dk
<1>7. a = <<"dv", m>> /\ b = <<"dk", m>>
  OBVIOUS
<1> HIDE DEF a, b, c
<1>8. a \in OpTypes /\ b \in OpTypes /\ c \in OpTypes
  BY <1>4
<1> DEFINE dkOps == {b} \cup IF call.serialize THEN {c} ELSE {}
<1>9. Dv \in Seq(OpTypes) /\ ToSet(Dv) = {a} /\ Dk \in Seq(OpTypes) /\ ToSet(Dk) = dkOps
  <2>1. <<a>> \in Seq(OpTypes) /\ ToSet(<<a>>) = {a}
    BY <1>8, Tuples
  <2>2. <<b>> \in Seq(OpTypes) /\ ToSet(<<b>>) = {b}
    BY <1>8, Tuples
  <2>3. <<b, c>> \in Seq(OpTypes) /\ ToSet(<<b, c>>) = {b, c}
    BY <1>8, Tuples
  <2> QED
    BY <1>6, <2>1, <2>2, <2>3
<1>10. /\ DkIssued = m /\ PSeen = IF mmaPc = "ds" THEN m + 1 ELSE m
  BY <1>1, <1>2, <1>3 DEF DkIssued, PSeen, PastDk
<1>11. ASSUME mmaPc' = AfterDk(m) PROVE DkIssued' = m + 1 /\ PSeen' = m + 1
  <2>1. /\ mmaPc' \in {"order", "scores", "dq_free", "dq"}
        /\ mmaPc' \in {"order", "scores"} => call.early
    BY <1>1, <1>11 DEF AfterDk, ScoresPc, DqIssuePc
  <2>2. DkIssued' = m + 1
    BY <1>1, <1>2, <1>3, <2>1 DEF DkIssued, PastDk
  <2> QED
    BY <2>1, <2>2 DEF PSeen
<1>12. ASSUME NEW new, new \subseteq {a, b, c}
       PROVE  /\ \A op \in new : op[1] # "scores"
              /\ \A op \in new : \A s \in 0 .. mmaScores - 1 : 12 * s < Key(op)
              /\ Grows("dq", new, mmaStep, mmaStep')
  <2>1. \A op \in new : op = a \/ op = b \/ op = c
    BY <1>12
  <2>2. \A op \in new : op[1] \in {"dv", "dk", "mma_order"}
    BY <1>4, <2>1
  <2>3. ASSUME NEW op \in new, NEW s \in 0 .. mmaScores - 1 PROVE 12 * s < Key(op)
    BY <1>1, <1>3, <1>5, <2>1
  <2> QED
    BY <1>2, <2>2, <2>3 DEF Grows
<1>13. CASE mmaPc = "p" /\ mmaPc' = AfterDk(m) /\ tc' = tc \o Dv \o Dk
  <2> DEFINE new == {a} \cup dkOps
  <2>1. tc \o Dv \o Dk = tc \o (Dv \o Dk)
    BY <1>1, <1>9, ConcatAssociative
  <2>2. Dv \o Dk \in Seq(OpTypes) /\ ToSet(Dv \o Dk) = new
    <3>1. <<a>> \o <<b>> = <<a, b>> /\ <<a>> \o <<b, c>> = <<a, b, c>>
      BY <1>8, Joined
    <3>2. <<a, b>> \in Seq(OpTypes) /\ ToSet(<<a, b>>) = {a, b}
      BY <1>8, Tuples
    <3>3. <<a, b, c>> \in Seq(OpTypes) /\ ToSet(<<a, b, c>>) = {a, b, c}
      BY <1>8, Tuples
    <3>4. CASE call.serialize
      BY <1>6, <3>1, <3>3, <3>4
    <3>5. CASE ~call.serialize
      BY <1>6, <3>1, <3>2, <3>5
    <3> QED
      BY <3>4, <3>5
  <2>3. Ops' = Ops \cup new
    BY <1>1, <1>13, <2>1, <2>2, OpsGrow
  <2>4. new \subseteq {a, b, c} /\ a \in new /\ b \in new
    OBVIOUS
  <2> HIDE DEF new, dkOps
  <2>5. Grows("dv", new, PSeen, PSeen') /\ Grows("dk", new, DkIssued, DkIssued')
    BY <1>7, <1>10, <1>11, <1>13, <2>4 DEF Grows
  <2>6. mmaScores' = mmaScores
    BY <1>2
  <2> QED
    BY <1>12, <2>3, <2>4, <2>5, <2>6, MmaIssuesTiles
<1>14. CASE mmaPc = "p" /\ mmaPc' = "ds" /\ tc' = tc \o Dv
  <2>1. Ops' = Ops \cup {a}
    BY <1>1, <1>9, <1>14, OpsGrow
  <2>2. DkIssued' = m /\ PSeen' = m + 1
    BY <1>1, <1>2, <1>3, <1>14 DEF DkIssued, PSeen, PastDk
  <2>3. Grows("dv", {a}, PSeen, PSeen') /\ Grows("dk", {a}, DkIssued, DkIssued')
    BY <1>4, <1>7, <1>10, <1>14, <2>2 DEF Grows
  <2>4. mmaScores' = mmaScores /\ {a} \subseteq {a, b, c}
    BY <1>2
  <2> QED
    BY <1>12, <2>1, <2>3, <2>4, MmaIssuesTiles
<1>15. CASE mmaPc = "ds" /\ mmaPc' = AfterDk(m) /\ tc' = tc \o Dk
  <2>1. Ops' = Ops \cup dkOps
    BY <1>1, <1>9, <1>15, OpsGrow
  <2>2. dkOps \subseteq {b, c} /\ b \in dkOps
    OBVIOUS
  <2> HIDE DEF dkOps
  <2>3. \A op \in dkOps : op[1] # "dv"
    BY <1>4, <2>2
  <2>4. Grows("dv", dkOps, PSeen, PSeen') /\ Grows("dk", dkOps, DkIssued, DkIssued')
    BY <1>7, <1>10, <1>11, <1>15, <2>2, <2>3 DEF Grows
  <2>5. mmaScores' = mmaScores /\ dkOps \subseteq {a, b, c}
    BY <1>2, <2>2
  <2> QED
    BY <1>12, <2>1, <2>4, <2>5, MmaIssuesTiles
<1> QED
  BY <1>0, <1>13, <1>14, <1>15 DEF MmaIssueDvDk, MmaWait

\* Every step of the MMA warp.
LEMMA MmaTiles == TInv /\ MmaWarp => TileInv'
BY MmaAwaitTiles, MmaScoresTiles, MmaDvDkTiles, MmaDqTiles, MmaDoneTiles DEF MmaWarp
-----------------------------------------------------------------------------
\* The warpgroups.  What a step of one leaves alone.
LEMMA EwTilesFrame ==
  ASSUME TInv, NEW e \in Ew, ElementwiseWg(e), UNCHANGED <<smem, gmem>>,
         UNCHANGED <<tmem.dv, tmem.dk, tmem.dq>>, UnionTags', DsTags',
         ewPc'[e] # "exit", ewPc'[e] \in AfterQ => tile'[e] = ewStep'[e]
  PROVE  TileInv'
<1>1. UNCHANGED <<call, tmaVars, mmaVars, dqVars, copies, tc, stageBusy>>
  BY DEF ElementwiseWg
<1>2. /\ FInv /\ SlotTags /\ KvTag /\ TileTags /\ DqOut /\ SumsOut /\ InOrder
      /\ TypeOK /\ SumTags /\ DqTag
  BY TInvParts, FInvParts
<1>3. /\ \A f \in Ew \ {e} : ewPc'[f] = ewPc[f] /\ ewStep'[f] = ewStep[f] /\ tile'[f] = tile[f]
      /\ ewPc[e] # "exit"
  <2>1. \E x : tile' = [tile EXCEPT ![e] = x]
    BY DEF ElementwiseWg, EwAwait, EwLoad, EwStoreP, EwStoreDs, EwArriveReady, EwWrite, EwGo
  <2>2. ewPc[e] # "exit"
    BY DEF ElementwiseWg, EwAwait, EwLoad, EwStoreP, EwStoreDs, EwArriveReady, EwWrite, EwGo
  <2>3. DOMAIN tile = Ew
    BY <1>2 DEF TypeOK
  <2> QED
    BY <1>2, <2>1, <2>2, <2>3, EwAlone
<1>4. UNCHANGED <<Requested, Window, tmaPc, mmaScores, mmaStep, PSeen, DkIssued, Ops>>
  BY <1>1, TmaStill, MmaStill DEF tmaVars, mmaVars, Ops, ToSet
<1>5. SlotTags'
  BY <1>1, <1>2, <1>4, SlotTagsStill
<1>6. KvTag'
  <2>1. KvLanded' => KvLanded
    BY <1>1, <1>4 DEF KvLanded, KV, Only
  <2>2. \A f \in Ew : ewPc[f] = "exit" => ewPc'[f] = "exit"
    BY <1>3
  <2> QED
    BY <1>2, <2>1, <2>2, KvTagStill DEF KV, Only
<1>7. TileTags'
  <2> SUFFICES ASSUME NEW f \in Ew, ewPc'[f] \in AfterQ PROVE tile'[f] = ewStep'[f]
    BY DEF TileTags, Ew, AfterQ, AfterS, AfterLoad, AfterLoaded, AfterMask
  <2>1. CASE f = e
    BY <2>1
  <2>2. CASE f # e
    BY <1>2, <1>3, <2>2 DEF TileTags
  <2> QED
    BY <2>1, <2>2
<1>8. InOrder'
  BY <1>1, <1>2, <1>4, InOrderStill
<1>9. SumTags' /\ DqTag'
  <2>1. UNCHANGED <<DvDone, DkDone, DqDone>>
    BY <1>4 DEF DvDone, DkDone, DqDone, Queued
  <2> QED
    BY <1>2, <2>1 DEF SumTags, DqTag, FirstSteps
<1>10. DqOut' /\ SumsOut'
  <2>1. \A f \in Ew : ewPc[f] = "exit" <=> ewPc'[f] = "exit"
    BY <1>3
  <2> QED
    BY <1>1, <1>2, <2>1, OutStill
<1> QED
  BY <1>5, <1>6, <1>7, <1>8, <1>9, <1>10 DEF TileInv

\* A step that stores nothing.
LEMMA EwStoredStill ==
  ASSUME TInv, NEW e \in Ew, ElementwiseWg(e), UNCHANGED <<tmem, ds>>,
         PStored'[e] = PStored[e], DsStored'[e] = DsStored[e]
  PROVE  UnionTags' /\ DsTags'
<1>1. UNCHANGED <<call, mmaVars, tc>>
  BY DEF ElementwiseWg
<1>2. UnionTags /\ DsTags /\ TypeOK
  BY FInvParts DEF TInv, TileInv
<1>3. UNCHANGED <<mmaScores, Ops>>
  BY <1>1 DEF mmaVars, Ops, ToSet
<1>4. \A f \in Ew \ {e} : ewPc'[f] = ewPc[f] /\ ewStep'[f] = ewStep[f]
  BY <1>2, EwAlone
<1>5. \A f \in Ew \ {e} : AuxArrived'[f] = AuxArrived[f] /\ PArrived'[f] = PArrived[f]
  BY <1>1, <1>4, EwOthers
<1>6. \A f \in Ew : PStored'[f] = PStored[f] /\ DsStored'[f] = DsStored[f]
  BY <1>1, <1>5 DEF PStored, DsStored, Ew
<1>7. UNCHANGED <<PStored, DsStored>>
  <2>1. Ew' = Ew
    BY DEF Ew
  <2>2. PStored' = [f \in Ew |-> PStored'[f]] /\ PStored = [f \in Ew |-> PStored[f]]
    BY <2>1 DEF PStored
  <2>3. DsStored' = [f \in Ew |-> DsStored'[f]] /\ DsStored = [f \in Ew |-> DsStored[f]]
    BY <2>1 DEF DsStored, AuxArrived
  <2> QED
    BY <1>6, <2>2, <2>3
<1> QED
  BY <1>1, <1>2, <1>3, <1>7, UnionsStill, DsTagsStill

\* A step between the stores.
LEMMA EwMovesTiles ==
  ASSUME TInv, NEW e \in Ew, ElementwiseWg(e), UNCHANGED <<smem, gmem, tmem, ds>>,
         PStored'[e] = PStored[e], DsStored'[e] = DsStored[e],
         ewPc'[e] # "exit", ewPc'[e] \in AfterQ => tile'[e] = ewStep'[e]
  PROVE  TileInv'
BY EwStoredStill, EwTilesFrame

\* Up to its first store, and after its last, a warpgroup has stored no more.
LEMMA EwNoStore ==
  ASSUME NEW e \in Ew, UNCHANGED call, UNCHANGED ewStep[e],
         ewPc[e] \notin {"store_ds", "ready"}, ewPc'[e] # "ready",
         ewPc'[e] = "store_ds" => ~call.split
  PROVE  PStored'[e] = PStored[e] /\ DsStored'[e] = DsStored[e]
<1>1. Past(e, {"ready"})' = Past(e, {"ready"})
  BY DEF Past
<1>2. AuxArrived'[e] = AuxArrived[e]
  BY <1>1 DEF AuxArrived, Ew
<1>3. call.split => Past(e, {"store_ds", "ready"})' = Past(e, {"store_ds", "ready"})
  BY DEF Past
<1>4. call.split => PArrived'[e] = PArrived[e]
  BY <1>3 DEF PArrived, Ew
<1> QED
  BY <1>2, <1>4 DEF PStored, DsStored, Ew

\* The row vectors of its step have landed when it has waited for them.
LEMMA RowAwaited ==
  ASSUME TInv, NEW e \in Ew, ewPc[e] = "q", Await(e, Ring("q", ewStep[e]))
  PROVE  smem[Ring("row", ewStep[e])] = ewStep[e]
<1>1. FInv /\ SlotTags /\ ewStep[e] \in Nat
  BY TInvParts, FInvParts
<1>2. Past(e, AfterQ) = ewStep[e]
  BY DEF Past, AfterQ, AfterS, AfterLoad, AfterLoaded, AfterMask
<1>3. ewStep[e] \in Window /\ QUp(ewStep[e])
  BY <1>1, <1>2, QAwaited, Threads
<1> QED
  BY <1>1, <1>3 DEF SlotTags, Landed, QUp

\* So has its mask block.
LEMMA MaskAwaited ==
  ASSUME TInv, NEW e \in Ew, ewPc[e] = "mask", Await(e, Ring("mask", ewStep[e]))
  PROVE  smem[Ring("mask", ewStep[e])] = ewStep[e]
<1> DEFINE t == ewStep[e]
<1>1. FInv /\ SlotTags /\ TypeOK /\ TmaFacts /\ EwFacts(e) /\ Rings /\ t \in Nat
  BY TInvParts, FInvParts
<1>2. t \in Window
  BY <1>1, EwInWindow DEF AfterQ, AfterS, AfterLoad, AfterLoaded
<1>3. Lag(e, Ring("mask", t)) = Flag(t >= Past(e, AfterMask) /\ MaskUp(t))
  BY <1>1, <1>2 DEF Rings, MaskRing
<1>4. Lag(e, Ring("mask", t)) \in {0, 1} => Lag(e, Ring("mask", t)) = 1
  BY <1>1, <1>2, AwaitInRing, Threads DEF Families
<1>5. MaskUp(t)
  BY <1>3, <1>4 DEF Flag
<1> QED
  BY <1>1, <1>2, <1>5 DEF SlotTags, Landed, MaskUp

\* The waits.
LEMMA EwAwaitTiles ==
  ASSUME TInv, NEW e \in Ew, ElementwiseWg(e), EwAwait(e)
  PROVE  TileInv'
<1> DEFINE t == ewStep[e]
<1>1. /\ FInv /\ TypeOK /\ EwFacts(e) /\ TileTags /\ call \in Calls
      /\ DOMAIN ewPc = Ew /\ DOMAIN tile = Ew
  BY TInvParts, FInvParts DEF TypeOK
<1>2. UNCHANGED <<call, ewStep, smem, ds, tmem, gmem>>
  BY DEF ElementwiseWg, EwAwait
<1>3. ASSUME ewPc[e] \notin {"store_ds", "ready"}, ewPc'[e] \notin {"ready", "exit"},
             ewPc'[e] = "store_ds" => ~call.split, ewPc'[e] \in AfterQ => tile'[e] = t
      PROVE  TileInv'
  <2>1. PStored'[e] = PStored[e] /\ DsStored'[e] = DsStored[e]
    BY <1>2, <1>3, EwNoStore
  <2> QED
    BY <1>2, <1>3, <2>1, EwMovesTiles
<1>4. ewPc[e] \in AfterQ => tile[e] = t
  BY <1>1 DEF TileTags
<1>5. ASSUME NEW pc, NEW next, NEW x, EwGo(e, pc, next, x)
      PROVE  ewPc[e] = pc /\ ewPc'[e] = next /\ tile'[e] = x
  BY <1>1, <1>5 DEF EwGo
<1>6. /\ "load" \in AfterQ /\ "s" \in AfterQ /\ "loaded" \in AfterQ /\ "mask" \in AfterQ
      /\ "write" \notin AfterQ
      /\ \A next \in {"q", "done", "write"} : next \notin AfterQ /\ next \notin {"ready", "exit", "store_ds"}
  BY DEF AfterQ, AfterS, AfterLoad, AfterLoaded, AfterMask
<1>7. CASE EwGo(e, "kv", EwTop(0), tile[e])
  <2>1. EwTop(0) \in {"q", "done", "write"}
    BY <1>1, EwPcs
  <2>2. ewPc[e] = "kv" /\ ewPc'[e] = EwTop(0)
    BY <1>5, <1>7
  <2> QED
    BY <1>3, <1>6, <2>1, <2>2
<1>8. CASE EwGo(e, "q", "s", smem[Ring("row", t)]) /\ Await(e, Ring("q", t))
  <2>1. ewPc[e] = "q" /\ ewPc'[e] = "s" /\ tile'[e] = smem[Ring("row", t)]
    BY <1>5, <1>8
  <2>2. smem[Ring("row", t)] = t
    BY <1>8, <2>1, RowAwaited
  <2> QED
    BY <1>3, <2>1, <2>2
<1>9. CASE EwGo(e, "s", "load", tile[e])
  <2>1. ewPc[e] = "s" /\ ewPc'[e] = "load" /\ tile'[e] = tile[e]
    BY <1>5, <1>9
  <2> QED
    BY <1>3, <1>4, <1>6, <2>1
<1>10. CASE EwGo(e, "loaded", MathPc(t), tile[e])
  <2>1. MathPc(t) \in {"mask", "store_p", "store_ds"} /\ (MathPc(t) = "store_ds" => ~call.split)
    BY DEF MathPc, StorePc
  <2>2. ewPc[e] = "loaded" /\ ewPc'[e] = MathPc(t) /\ tile'[e] = tile[e]
    BY <1>5, <1>10
  <2> QED
    BY <1>3, <1>4, <1>6, <2>1, <2>2
<1>11. CASE EwGo(e, "mask", StorePc, Matching(e, Ring("mask", t))) /\ Await(e, Ring("mask", t))
  <2>1. ewPc[e] = "mask" /\ ewPc'[e] = StorePc /\ tile'[e] = Matching(e, Ring("mask", t))
    BY <1>5, <1>11
  <2>2. smem[Ring("mask", t)] = t
    BY <1>11, <2>1, MaskAwaited
  <2>3. Matching(e, Ring("mask", t)) = t
    BY <1>4, <1>6, <2>1, <2>2 DEF Matching
  <2>4. StorePc \in {"store_p", "store_ds"} /\ (StorePc = "store_ds" => ~call.split)
    BY DEF StorePc
  <2> QED
    BY <1>3, <2>1, <2>3, <2>4
<1>12. CASE EwGo(e, "done", "write", tile[e])
  <2>1. ewPc[e] = "done" /\ ewPc'[e] = "write"
    BY <1>5, <1>12
  <2> QED
    BY <1>3, <1>6, <2>1
<1> QED
  BY <1>7, <1>8, <1>9, <1>10, <1>11, <1>12 DEF EwAwait

\* A warpgroup loads the scores of its step: no other has stored over them.
LEMMA ScoresRead ==
  ASSUME TInv, NEW e \in Ew, ewPc[e] = "load"
  PROVE  Loaded(e) = ewStep[e]
<1> DEFINE t == ewStep[e]
<1>1. /\ FInv /\ TypeOK /\ TileTags /\ t \in Nat /\ mmaScores \in Nat
      /\ HoldsScores(tmem.sp, PStored) /\ HoldsScores(tmem.dd, DsStored)
      /\ \A f \in Ew : EwFacts(f) /\ ewStep[f] \in Nat
  BY TInvParts, FInvParts
<1>2. tile[e] = t /\ ewPc[e] \in AfterS
  BY <1>1 DEF TileTags, AfterQ, AfterS
<1>3. Past(e, AfterS) = t + 1 /\ Past(e, AfterS) <= mmaScores
  BY <1>1, <1>2, StoredBounds
<1>4. ScoresUp(t) /\ t \in 0 .. mmaScores - 1
  BY <1>1, <1>3, ScoresSeen
<1>5. ASSUME NEW f \in Ew PROVE PStored[f] <= t /\ DsStored[f] <= t
  <2>1. /\ PStored[f] \in Nat /\ DsStored[f] \in Nat /\ DsStored[f] <= PStored[f]
        /\ PStored[f] <= ewStep[f] + 1
    BY <1>1, StoredBounds
  <2>2. CASE f = e
    <3>1. Past(e, {"ready"}) = t /\ Past(e, {"store_ds", "ready"}) = t
      BY DEF Past
    <3>2. PStored[e] = t
      BY <3>1 DEF PStored, PArrived, AuxArrived
    <3> QED
      BY <1>1, <2>1, <2>2, <3>2
  <2>3. CASE f # e
    <3>1. Meet
      BY <2>3 DEF Meet, Ew
    <3>2. LoadedBy[e] = t
      BY <3>1 DEF LoadedBy, Past, AfterLoad, AfterLoaded, AfterMask
    <3>3. LoadedSeen(f) <= t
      BY <1>1, <3>2, Chain
    <3>4. LoadedSeen(f) = Past(f, AfterLoaded)
      BY <3>1 DEF LoadedSeen
    <3>5. PStored[f] <= Past(f, AfterLoaded)
      <4>1. /\ Past(f, {"ready"}) <= Past(f, AfterLoaded)
            /\ Past(f, {"store_ds", "ready"}) <= Past(f, AfterLoaded)
        BY <1>1 DEF Past, AfterLoaded, AfterMask
      <4>2. PStored[f] \in {Past(f, {"ready"}), Past(f, {"store_ds", "ready"})}
        BY DEF PStored, PArrived, AuxArrived
      <4> QED
        BY <4>1, <4>2
    <3>6. Past(f, AfterLoaded) \in Nat
      BY <1>1 DEF Past
    <3> QED
      BY <1>1, <2>1, <3>3, <3>4, <3>5, <3>6
  <2> QED
    BY <2>2, <2>3
<1>6. tmem.sp.scores = t /\ tmem.dd.scores = t
  BY <1>1, <1>4, <1>5 DEF HoldsScores
<1> QED
  BY <1>2, <1>6 DEF Loaded

\* The load.
LEMMA EwLoadTiles ==
  ASSUME TInv, NEW e \in Ew, ElementwiseWg(e), EwLoad(e)
  PROVE  TileInv'
<1> DEFINE t == ewStep[e]
<1>1. FInv /\ TypeOK /\ DOMAIN ewPc = Ew /\ DOMAIN tile = Ew
  BY TInvParts, FInvParts DEF TypeOK
<1>2. UNCHANGED <<call, ewStep, smem, ds, tmem, gmem>>
  BY DEF ElementwiseWg, EwLoad
<1>3. /\ ewPc[e] = "load" /\ ewPc'[e] \in {"loaded", MathPc(t)} /\ tile'[e] = Loaded(e)
  BY <1>1 DEF EwLoad, EwGo
<1>4. MathPc(t) \in {"mask", "store_p", "store_ds"} /\ (MathPc(t) = "store_ds" => ~call.split)
  BY DEF MathPc, StorePc
<1>5. tile'[e] = t
  BY <1>3, ScoresRead
<1>6. PStored'[e] = PStored[e] /\ DsStored'[e] = DsStored[e]
  BY <1>2, <1>3, <1>4, EwNoStore
<1>7. ewPc'[e] # "exit"
  BY <1>3, <1>4
<1> QED
  BY <1>2, <1>5, <1>6, <1>7, EwMovesTiles

\* The arrival that ends a step.
LEMMA EwReadyTiles ==
  ASSUME TInv, NEW e \in Ew, ElementwiseWg(e), EwArriveReady(e)
  PROVE  TileInv'
<1>1. /\ FInv /\ TypeOK /\ DOMAIN ewPc = Ew /\ DOMAIN ewStep = Ew /\ call \in Calls
  BY TInvParts, FInvParts DEF TypeOK
<1>2. UNCHANGED <<call, smem, ds, tmem, gmem>>
  BY DEF ElementwiseWg, EwArriveReady
<1>3. /\ ewPc[e] = "ready" /\ ewPc'[e] = EwTop(ewStep[e] + 1) /\ ewStep'[e] = ewStep[e] + 1
  BY <1>1 DEF EwArriveReady, EwGo
<1>4. EwTop(ewStep[e] + 1) \in {"q", "done", "write"}
  BY <1>1, EwPcs
<1>5. PStored'[e] = PStored[e] /\ DsStored'[e] = DsStored[e]
  <2>1. /\ Past(e, {"ready"})' = Past(e, {"ready"})
        /\ Past(e, {"store_ds", "ready"})' = Past(e, {"store_ds", "ready"})
    BY <1>3, <1>4 DEF Past
  <2> QED
    BY <1>2, <2>1 DEF PStored, DsStored, PArrived, AuxArrived, Ew
<1>6. ewPc'[e] \notin AfterQ /\ ewPc'[e] # "exit"
  BY <1>3, <1>4 DEF AfterQ, AfterS, AfterLoad, AfterLoaded, AfterMask
<1> QED
  BY <1>2, <1>5, <1>6, EwMovesTiles

\* A store of step t over a union whose newest scores are those of t.
LEMMA StoresOver ==
  ASSUME NEW u, NEW v, NEW at, NEW at2, NEW e \in Ew, NEW t \in Nat, HoldsStored(u, at),
         v = [scores |-> Undefined, stored |-> [u.stored EXCEPT ![e] = t]],
         DOMAIN u.stored = Ew, at2[e] = t + 1, \A f \in Ew \ {e} : at2[f] = at[f],
         mmaScores <= t + 1, mmaScores \in Nat
  PROVE  HoldsScores(v, at2) /\ HoldsStored(v, at2)
<1>1. v.stored[e] = t /\ \A f \in Ew \ {e} : v.stored[f] = u.stored[f]
  OBVIOUS
<1>2. HoldsScores(v, at2)
  <2> SUFFICES ASSUME NEW s \in 0 .. mmaScores - 1, \A f \in Ew : at2[f] <= s PROVE FALSE
    BY DEF HoldsScores
  <2> QED
    OBVIOUS
<1>3. HoldsStored(v, at2)
  <2> SUFFICES ASSUME NEW f \in Ew, at2[f] > 0, ~ScoresUp(at2[f])
               PROVE  v.stored[f] = at2[f] - 1
    BY DEF HoldsStored
  <2>1. CASE f = e
    BY <1>1, <2>1
  <2>2. CASE f # e
    BY <1>1, <2>2 DEF HoldsStored
  <2> QED
    BY <2>1, <2>2
<1> QED
  BY <1>2, <1>3

\* What a union holds depends on the scores issued and completed.
LEMMA UnionsThen ==
  ASSUME UNCHANGED <<mmaScores, Ops>>,
         HoldsScores(tmem'.sp, PStored'), HoldsStored(tmem'.sp, PStored'),
         HoldsScores(tmem'.dd, DsStored'), HoldsStored(tmem'.dd, DsStored')
  PROVE  UnionTags'
<1>1. ASSUME NEW s PROVE ScoresUp(s)' <=> ScoresUp(s)
  BY DEF ScoresUp
<1>2. Ew' = Ew
  BY DEF Ew
<1> QED
  BY <1>1, <1>2 DEF UnionTags, HoldsScores, HoldsStored

\* The fields of TMEM.
LEMMA TmemFields ==
  ASSUME TypeOK
  PROVE  /\ tmem = [sp |-> tmem.sp, dd |-> tmem.dd, dk |-> tmem.dk, dv |-> tmem.dv, dq |-> tmem.dq]
         /\ tmem.sp \in Unions /\ tmem.dd \in Unions /\ tmem.dk \in Sums /\ tmem.dv \in Sums
<1>1. tmem \in [sp : Unions, dd : Unions, dk : Sums, dv : Sums, dq : Tags]
  BY TypeParts DEF DataTypes
<1> QED
  BY <1>1

\* The store of P.
LEMMA EwStorePTiles ==
  ASSUME TInv, NEW e \in Ew, ElementwiseWg(e), EwStoreP(e)
  PROVE  TileInv'
<1>0. PICK t : t = ewStep[e]
  OBVIOUS
<1>1. /\ FInv /\ TypeOK /\ DOMAIN ewPc = Ew /\ DOMAIN tile = Ew /\ TileTags /\ DsTags
      /\ t \in Nat /\ EwFacts(e) /\ mmaScores \in Nat
      /\ HoldsStored(tmem.sp, PStored) /\ HoldsScores(tmem.dd, DsStored)
      /\ HoldsStored(tmem.dd, DsStored)
  BY <1>0, TInvParts, FInvParts DEF TypeOK
<1>2. UNCHANGED <<call, ewStep, smem, ds, gmem, mmaVars, tc>>
  BY DEF ElementwiseWg, EwStoreP
<1>3. /\ ewPc[e] = "store_p" /\ ewPc'[e] = "store_ds" /\ tile'[e] = tile[e] /\ call.split
  BY <1>1 DEF EwStoreP, EwGo, EwFacts
<1>4. tile[e] = t
  BY <1>0, <1>1, <1>3 DEF TileTags, AfterQ, AfterS, AfterLoad, AfterLoaded, AfterMask
<1>5. UNCHANGED <<mmaScores, Ops>> /\ Ew' = Ew
  BY <1>2 DEF mmaVars, Ops, ToSet, Ew
<1>6. \A f \in Ew \ {e} : /\ ewPc'[f] = ewPc[f] /\ ewStep'[f] = ewStep[f]
                          /\ PStored'[f] = PStored[f]
  <2>1. \A f \in Ew \ {e} : ewPc'[f] = ewPc[f] /\ ewStep'[f] = ewStep[f]
    BY <1>1, EwAlone
  <2> QED
    BY <1>2, <2>1, EwOthers DEF PStored, Ew
<1>7. PStored'[e] = t + 1 /\ DsStored[e] = t
  <2>1. Past(e, {"store_ds", "ready"})' = t + 1 /\ Past(e, {"ready"}) = t
    BY <1>0, <1>2, <1>3 DEF Past
  <2> QED
    BY <1>2, <1>3, <2>1 DEF PStored, DsStored, PArrived, AuxArrived, Ew
<1>8. DsStored' = DsStored
  <2>1. \A f \in Ew : Past(f, {"ready"})' = Past(f, {"ready"})
    BY <1>2, <1>3, <1>6 DEF Past
  <2> QED
    BY <1>5, <2>1 DEF DsStored, AuxArrived
<1>9. mmaScores <= t + 1
  BY <1>1, <1>7, StoredBounds
<1>10. /\ tmem'.sp = [scores |-> Undefined, stored |-> [tmem.sp.stored EXCEPT ![e] = t]]
       /\ UNCHANGED <<tmem.dd, tmem.dv, tmem.dk, tmem.dq>>
       /\ DOMAIN tmem.sp.stored = Ew
  <2>1. tmem' = [tmem EXCEPT !.sp = Packed(@, e)]
    BY DEF EwStoreP
  <2> QED
    BY <1>1, <1>4, <2>1, TmemFields DEF Packed, Unions
<1>11. HoldsScores(tmem'.sp, PStored') /\ HoldsStored(tmem'.sp, PStored')
  BY <1>1, <1>6, <1>7, <1>9, <1>10, StoresOver
<1>12. UnionTags'
  BY <1>1, <1>5, <1>8, <1>10, <1>11, UnionsThen
<1>13. DsTags'
  BY <1>1, <1>2, <1>8, DsTagsStill
<1> QED
  BY <1>0, <1>2, <1>3, <1>4, <1>10, <1>12, <1>13, EwTilesFrame

\* The store of dS (and of P, unless it was stored before).
LEMMA EwStoreDsTiles ==
  ASSUME TInv, NEW e \in Ew, ElementwiseWg(e), EwStoreDs(e)
  PROVE  TileInv'
<1>0. PICK t : t = ewStep[e]
  OBVIOUS
<1>1. /\ FInv /\ TypeOK /\ DOMAIN ewPc = Ew /\ DOMAIN tile = Ew /\ TileTags /\ DsTags
      /\ t \in Nat /\ mmaScores \in Nat
      /\ HoldsScores(tmem.sp, PStored) /\ HoldsStored(tmem.sp, PStored)
      /\ HoldsStored(tmem.dd, DsStored)
  BY <1>0, TInvParts, FInvParts DEF TypeOK
<1>2. UNCHANGED <<call, ewStep, smem, gmem, mmaVars, tc>>
  BY DEF ElementwiseWg, EwStoreDs
<1>3. /\ ewPc[e] = "store_ds" /\ ewPc'[e] = "ready" /\ tile'[e] = tile[e]
  BY <1>1 DEF EwStoreDs, EwGo
<1>4. tile[e] = t
  BY <1>0, <1>1, <1>3 DEF TileTags, AfterQ, AfterS, AfterLoad, AfterLoaded, AfterMask
<1>5. UNCHANGED <<mmaScores, Ops>> /\ Ew' = Ew
  BY <1>2 DEF mmaVars, Ops, ToSet, Ew
<1>6. \A f \in Ew \ {e} : /\ ewPc'[f] = ewPc[f] /\ ewStep'[f] = ewStep[f]
                          /\ PStored'[f] = PStored[f] /\ DsStored'[f] = DsStored[f]
  <2>1. \A f \in Ew \ {e} : ewPc'[f] = ewPc[f] /\ ewStep'[f] = ewStep[f]
    BY <1>1, EwAlone
  <2> QED
    BY <1>2, <2>1, EwOthers DEF PStored, DsStored, Ew
<1>7. /\ DsStored[e] = t /\ DsStored'[e] = t + 1 /\ PStored'[e] = t + 1
      /\ call.split => PStored[e] = t + 1
  <2>1. /\ Past(e, {"ready"}) = t /\ Past(e, {"ready"})' = t + 1
        /\ Past(e, {"store_ds", "ready"}) = t + 1 /\ Past(e, {"store_ds", "ready"})' = t + 1
    BY <1>0, <1>2, <1>3 DEF Past
  <2> QED
    BY <1>2, <2>1 DEF PStored, DsStored, PArrived, AuxArrived, Ew
<1>8. mmaScores <= t + 1
  BY <1>1, <1>7, StoredBounds
<1>9. /\ tmem'.dd = [scores |-> Undefined, stored |-> [tmem.dd.stored EXCEPT ![e] = t]]
      /\ tmem'.sp = IF call.split THEN tmem.sp
                    ELSE [scores |-> Undefined, stored |-> [tmem.sp.stored EXCEPT ![e] = t]]
      /\ UNCHANGED <<tmem.dv, tmem.dk, tmem.dq>>
      /\ DOMAIN tmem.sp.stored = Ew /\ DOMAIN tmem.dd.stored = Ew
  <2>1. tmem' = [tmem EXCEPT !.sp = IF call.split THEN @ ELSE Packed(@, e), !.dd = Packed(@, e)]
    BY DEF EwStoreDs
  <2>2. /\ tmem'.dd = Packed(tmem.dd, e)
        /\ tmem'.sp = IF call.split THEN tmem.sp ELSE Packed(tmem.sp, e)
        /\ UNCHANGED <<tmem.dv, tmem.dk, tmem.dq>>
    BY <1>1, <2>1, TmemFields
  <2> QED
    BY <1>1, <1>4, <2>2, TmemFields DEF Packed, Unions
<1>10. HoldsScores(tmem'.dd, DsStored') /\ HoldsStored(tmem'.dd, DsStored')
  BY <1>1, <1>6, <1>7, <1>8, <1>9, StoresOver
<1>11. HoldsScores(tmem'.sp, PStored') /\ HoldsStored(tmem'.sp, PStored')
  <2>1. CASE call.split
    <3>1. \A f \in Ew : PStored'[f] = PStored[f]
      BY <1>6, <1>7, <2>1
    <3> QED
      BY <1>1, <1>9, <2>1, <3>1 DEF HoldsScores, HoldsStored
  <2>2. CASE ~call.split
    <3>1. tmem'.sp = [scores |-> Undefined, stored |-> [tmem.sp.stored EXCEPT ![e] = t]]
      BY <1>9, <2>2
    <3>2. /\ DOMAIN tmem.sp.stored = Ew /\ PStored'[e] = t + 1
          /\ \A f \in Ew \ {e} : PStored'[f] = PStored[f]
      BY <1>6, <1>7, <1>9
    <3>3. HoldsStored(tmem.sp, PStored) /\ t \in Nat /\ mmaScores \in Nat
      BY <1>1
    <3> QED
      BY <1>8, <3>1, <3>2, <3>3, StoresOver
  <2> QED
    BY <2>1, <2>2
<1>12. UnionTags'
  BY <1>5, <1>10, <1>11, UnionsThen
<1>13. DsTags'
  <2> SUFFICES ASSUME NEW f \in Ew, NEW s \in 0 .. DsStored'[f] - 1,
                      DsStored'[f] <= IF call.early THEN s + 2 ELSE s + 1
               PROVE  ds'[DsBuf(s)][f] = s
    BY <1>2, <1>5 DEF DsTags, DsBuf
  <2>1. ds' = [ds EXCEPT ![DsBuf(t)][e] = t]
    BY <1>0, <1>4 DEF EwStoreDs
  <2>2. DsBuf(s) \in {0, 1} /\ DsBuf(t) \in {0, 1} /\ s \in Nat
    <3>1. s \in Nat /\ s % 2 \in {0, 1} /\ t % 2 \in {0, 1}
      BY <1>1
    <3> QED
      BY <3>1 DEF DsBuf
  <2>3. /\ ds \in [{0, 1} -> [Ew -> Tags]]
    BY <1>1, TypeParts DEF DataTypes
  <2>4. CASE f = e /\ s = t
    BY <2>1, <2>2, <2>3, <2>4
  <2>5. CASE f = e /\ s # t
    <3>1. call.early /\ s = t - 1 /\ s \in 0 .. DsStored[e] - 1
      BY <1>1, <1>7, <2>2, <2>5
    <3>2. DsBuf(s) # DsBuf(t)
      <4>1. t = s + 1 /\ (s + 1) % 2 # s % 2
        BY <1>1, <2>2, <3>1
      <4> QED
        BY <3>1, <4>1 DEF DsBuf
    <3>3. ds'[DsBuf(s)][e] = ds[DsBuf(s)][e]
      BY <2>1, <2>2, <2>3, <3>2
    <3>4. ds[DsBuf(s)][e] = s
      BY <1>1, <1>7, <2>2, <3>1 DEF DsTags
    <3> QED
      BY <2>5, <3>3, <3>4
  <2>6. CASE f # e
    <3>1. ds'[DsBuf(s)][f] = ds[DsBuf(s)][f]
      BY <2>1, <2>2, <2>3, <2>6
    <3> QED
      BY <1>1, <1>6, <2>6, <3>1 DEF DsTags
  <2> QED
    BY <2>4, <2>5, <2>6
<1> QED
  BY <1>0, <1>2, <1>3, <1>4, <1>9, <1>12, <1>13, EwTilesFrame

\* When a warpgroup writes out, the accumulators hold every step.
LEMMA AllSummed ==
  ASSUME TInv, NEW e \in Ew, ewPc[e] = "write"
  PROVE  Output(<<>>, tmem.dk) = <<Whole>> /\ Output(<<>>, tmem.dv) = <<Whole>>
<1>1. /\ FInv /\ TypeOK /\ MmaFacts /\ EwFacts(e) /\ Counts /\ Seen /\ Singles /\ SumTags
      /\ n \in Nat
  BY TInvParts, FInvParts
<1>2. tmem.dk \in [acc : SUBSET Steps, ok : BOOLEAN] /\ tmem.dv \in [acc : SUBSET Steps, ok : BOOLEAN]
  BY <1>1, TmemFields DEF Sums
<1>3. CASE n = 0
  <2>1. Zeros = Whole
    <3>1. 0 .. n - 1 = {}
      BY <1>3
    <3> QED
      BY <3>1 DEF Zeros, Whole
  <2> QED
    BY <1>3, <2>1 DEF Output
<1>4. CASE n > 0
  <2>1. seen[e][Only("done")] = 1
    BY <1>1, <1>4 DEF Seen, DoneSeen
  <2>2. done[Only("done")] >= 1
    BY <1>1, <2>1, WaitersNamed DEF Singles, SingleBarriers
  <2>3. Ending
    BY <1>1, <2>2 DEF Counts
  <2>4. mmaStep = n /\ DkIssued = n /\ PSeen = n
    BY <1>1, <2>3 DEF Ending, MmaFacts, DkIssued, PSeen, PastDk
  <2>5. Queued("dk") = 0 /\ Queued("dv") = 0
    BY <1>1, WriteQuiet DEF Queued, Commits
  <2>6. DkDone = n /\ DvDone = n
    BY <1>1, <2>4, <2>5 DEF DkDone, DvDone
  <2>7. /\ tmem.dk.acc = 0 .. n - 1 /\ tmem.dk.ok /\ tmem.dv.acc = 0 .. n - 1 /\ tmem.dv.ok
    BY <1>1, <1>4, <2>6 DEF SumTags, FirstSteps
  <2>8. tmem.dk.ok = TRUE /\ tmem.dv.ok = TRUE
    BY <1>2, <2>7
  <2>9. tmem.dk = Whole /\ tmem.dv = Whole
    BY <1>2, <2>7, <2>8 DEF Whole
  <2> QED
    BY <1>4, <2>9 DEF Output
<1> QED
  BY <1>1, <1>3, <1>4

\* The write of dK and dV, over K and V.
LEMMA EwWriteTiles ==
  ASSUME TInv, NEW e \in Ew, ElementwiseWg(e), EwWrite(e)
  PROVE  TileInv'
<1>1. /\ FInv /\ TypeOK /\ DOMAIN ewPc = Ew /\ DOMAIN tile = Ew /\ TileTags /\ SlotTags
      /\ InOrder /\ SumTags /\ DqTag /\ DqOut /\ SumsOut /\ n \in Nat
  BY TInvParts, FInvParts DEF TypeOK
<1>2. /\ UNCHANGED <<call, tmaVars, mmaVars, dqVars, copies, tc, stageBusy, ewStep, ds, tmem>>
      /\ Ew' = Ew
  BY DEF ElementwiseWg, EwWrite, Ew
<1>3. /\ ewPc[e] = "write" /\ ewPc' = [ewPc EXCEPT ![e] = "exit"] /\ ewPc'[e] = "exit"
      /\ tile' = [tile EXCEPT ![e] = tile[e]]
      /\ \A f \in Ew \ {e} : ewPc'[f] = ewPc[f] /\ tile'[f] = tile[f]
  BY <1>1 DEF EwWrite, EwGo
<1>4. UNCHANGED <<Requested, Window, mmaScores, mmaStep, PSeen, DkIssued, Ops, Whole>>
  BY <1>2, TmaStill, MmaStill DEF mmaVars, Ops, ToSet, Whole, n
<1>5. PStored'[e] = PStored[e] /\ DsStored'[e] = DsStored[e]
  BY <1>2, <1>3, EwNoStore
<1>6. UnionTags' /\ DsTags'
  BY <1>2, <1>5, EwStoredStill
<1>7. SlotTags'
  <2> SUFFICES ASSUME NEW f \in {"q_do", "row", "mask"}, NEW s \in Window, Landed(f, s)'
               PROVE  smem'[Ring(f, s)] = s
    BY <1>4 DEF SlotTags, Ring
  <2>1. Landed(f, s)
    BY <1>2, <1>4 DEF Landed, InFlight
  <2>2. smem[Ring(f, s)] = s /\ Ring(f, s) # KV
    BY <1>1, <2>1, CellsApart DEF SlotTags
  <2>3. smem' = [smem EXCEPT ![KV] = Undefined] \/ smem' = smem
    BY DEF EwWrite
  <2>4. DOMAIN smem = Cells
    BY <1>1 DEF TypeOK
  <2>5. Ring(f, s) \in Cells
    <3>1. AFree \in Nat
      BY <1>1, TmaProgress, FInvParts
    <3> QED
      BY <3>1 DEF Window, Cells, Ring, Slots
  <2> QED
    BY <2>2, <2>3, <2>4, <2>5
<1>8. KvTag'
  BY <1>2, <1>3 DEF KvTag
<1>9. TileTags'
  <2> SUFFICES ASSUME NEW f \in Ew, ewPc'[f] \in AfterQ PROVE tile'[f] = ewStep'[f]
    BY <1>2 DEF TileTags, AfterQ, AfterS, AfterLoad, AfterLoaded, AfterMask
  <2>1. f # e
    BY <1>3 DEF AfterQ, AfterS, AfterLoad, AfterLoaded, AfterMask
  <2> QED
    BY <1>1, <1>2, <1>3, <2>1 DEF TileTags
<1>10. InOrder'
  BY <1>1, <1>2, <1>4, InOrderStill
<1>11. SumTags' /\ DqTag'
  <2>1. UNCHANGED <<DvDone, DkDone, DqDone>>
    BY <1>4 DEF DvDone, DkDone, DqDone, Queued
  <2> QED
    BY <1>1, <1>2, <2>1, SumsStill
<1>12. /\ gmem'.dk = (IF e = 0 THEN Output(gmem.dk, tmem.dk) ELSE gmem.dk)
       /\ gmem'.dv = (IF e = NumEw - 1 THEN Output(gmem.dv, tmem.dv) ELSE gmem.dv)
       /\ gmem'.dq = gmem.dq
  <2>1. gmem \in [dq : Seq(Tags), dk : Seq(Sums), dv : Seq(Sums)]
    BY <1>1, TypeParts DEF DataTypes
  <2>2. gmem' = [gmem EXCEPT !.dk = IF e = 0 THEN Output(@, tmem.dk) ELSE @,
                             !.dv = IF e = NumEw - 1 THEN Output(@, tmem.dv) ELSE @]
    BY DEF EwWrite
  <2> QED
    BY <2>1, <2>2
<1>13. DqOut'
  BY <1>1, <1>2, <1>12 DEF DqOut, dqVars, Flag
<1>14. SumsOut'
  <2>1. 0 \in Ew /\ NumEw - 1 \in Ew
    BY DEF Ew
  <2>2. Output(<<>>, tmem.dk) = <<Whole>> /\ Output(<<>>, tmem.dv) = <<Whole>>
    BY <1>3, AllSummed
  <2>3. gmem'.dk = IF ewPc'[0] = "exit" THEN <<Whole>> ELSE <<>>
    <3>1. CASE e = 0
      BY <1>1, <1>3, <1>12, <2>2, <3>1 DEF SumsOut
    <3>2. CASE e # 0
      BY <1>1, <1>3, <1>12, <2>1, <3>2 DEF SumsOut
    <3> QED
      BY <3>1, <3>2
  <2>4. gmem'.dv = IF ewPc'[NumEw - 1] = "exit" THEN <<Whole>> ELSE <<>>
    <3>1. CASE e = NumEw - 1
      BY <1>1, <1>3, <1>12, <2>2, <3>1 DEF SumsOut
    <3>2. CASE e # NumEw - 1
      BY <1>1, <1>3, <1>12, <2>1, <3>2 DEF SumsOut
    <3> QED
      BY <3>1, <3>2
  <2> QED
    BY <1>4, <2>3, <2>4 DEF SumsOut
<1> QED
  BY <1>6, <1>7, <1>8, <1>9, <1>10, <1>11, <1>13, <1>14 DEF TileInv

\* Every step of a warpgroup.
LEMMA EwTiles == TInv /\ (\E e \in Ew : ElementwiseWg(e)) => TileInv'
<1> SUFFICES ASSUME TInv, NEW e \in Ew, ElementwiseWg(e) PROVE TileInv'
  OBVIOUS
<1> QED
  BY EwAwaitTiles, EwLoadTiles, EwStorePTiles, EwStoreDsTiles, EwReadyTiles, EwWriteTiles
     DEF ElementwiseWg

-----------------------------------------------------------------------------
\* Nothing has been loaded, issued, stored or written at the start.
LEMMA InitTiles == Init => TileInv
<1> SUFFICES ASSUME Init PROVE TileInv
  OBVIOUS
<1>1. /\ TypeOK /\ call \in Calls /\ n \in Nat
      /\ tmaPc = "kv" /\ mmaPc = "kv" /\ \A e \in Ew : ewPc[e] = "kv" /\ ewStep[e] = 0
      /\ tmaStep = 0 /\ mmaStep = 0 /\ mmaScores = 0 /\ dqStep = 0 /\ copies = {} /\ tc = <<>>
      /\ dqPc = (IF 0 < n THEN "wait" ELSE "drain") /\ ~stageBusy
      /\ gmem = [dq |-> <<>>, dk |-> <<>>, dv |-> <<>>]
      /\ tmem.dv = Garbage /\ tmem.dk = Garbage
  BY InitTypes, CallType DEF Init, DqTop
<1>2. Requested = 0 /\ DkIssued = 0 /\ PSeen = 0 /\ ~KvLanded
  <2>1. Requested = 0 /\ ~KvLanded
    BY <1>1 DEF Requested, KvLanded
  <2>2. DkIssued = 0
    BY <1>1 DEF DkIssued, PastDk
  <2>3. PSeen = 0
    BY <1>1, <2>2 DEF PSeen
  <2> QED
    BY <2>1, <2>2, <2>3
<1>3. Ops = {} /\ \A name : Queued(name) = 0
  <2>1. Ops = {}
    BY <1>1 DEF Ops, ToSet
  <2> QED
    BY <2>1 DEF Queued
<1>4. \A e \in Ew : PStored[e] = 0 /\ DsStored[e] = 0
  <2> SUFFICES ASSUME NEW e \in Ew PROVE PStored[e] = 0 /\ DsStored[e] = 0
    OBVIOUS
  <2>1. Past(e, {"ready"}) = 0 /\ Past(e, {"store_ds", "ready"}) = 0
    BY <1>1 DEF Past
  <2>2. AuxArrived[e] = 0 /\ PArrived[e] = 0
    BY <1>1, <2>1 DEF AuxArrived, PArrived
  <2> QED
    BY <2>2 DEF PStored, DsStored
<1>5. SlotTags
  <2>1. AFree \in Nat
    BY <1>1, <1>2 DEF AFree, CFree
  <2> QED
    BY <1>2, <2>1 DEF SlotTags, Landed, Window
<1>6. KvTag
  BY <1>2 DEF KvTag
<1>7. TileTags
  BY <1>1 DEF TileTags, AfterQ, AfterS, AfterLoad, AfterLoaded, AfterMask
<1>8. UnionTags
  BY <1>1, <1>4 DEF UnionTags, HoldsScores, HoldsStored, ScoresUp
<1>9. DsTags
  BY <1>4 DEF DsTags
<1>10. InOrder
  BY <1>1 DEF InOrder, ScoresUp
<1>11. SumTags /\ DqTag
  <2>1. DvDone = 0 /\ DkDone = 0 /\ DqDone = 0
    BY <1>1, <1>2, <1>3 DEF DvDone, DkDone, DqDone
  <2>2. {} = 0 .. 0 - 1
    OBVIOUS
  <2>3. tmem.dv.acc = {} /\ tmem.dk.acc = {}
    BY <1>1 DEF Garbage
  <2>4. FirstSteps(tmem.dv, 0) /\ FirstSteps(tmem.dk, 0)
    BY <2>2, <2>3 DEF FirstSteps
  <2> QED
    BY <2>1, <2>4 DEF SumTags, DqTag
<1>12. DqOut
  <2>1. dqPc # "store"
    BY <1>1
  <2>2. gmem.dq = <<>> /\ Len(<<>>) = 0 /\ DOMAIN <<>> = {}
    BY <1>1
  <2>3. Flag(stageBusy) = 0
    BY <1>1 DEF Flag
  <2> QED
    BY <1>1, <2>1, <2>2, <2>3 DEF DqOut
<1>13. SumsOut
  <2>1. 0 \in Ew /\ NumEw - 1 \in Ew
    BY DEF Ew
  <2> QED
    BY <1>1, <2>1 DEF SumsOut
<1> QED
  BY <1>5, <1>6, <1>7, <1>8, <1>9, <1>10, <1>11, <1>12, <1>13 DEF TileInv

\* Nor does any of it change when nothing happens.
LEMMA NothingTiles == TInv /\ UNCHANGED vars => TileInv'
<1> SUFFICES ASSUME TInv, UNCHANGED vars PROVE TileInv'
  OBVIOUS
<1>1. /\ SlotTags /\ KvTag /\ TileTags /\ UnionTags /\ DsTags /\ InOrder
      /\ SumTags /\ DqTag /\ DqOut /\ SumsOut
  BY TInvParts DEF UnionTags
<1>2. UNCHANGED <<call, tmaVars, mmaVars, ewVars, dqVars, copies, tc, smem, ds, tmem,
                  stageBusy, gmem>>
  BY DEF vars
<1>3. /\ UNCHANGED <<Requested, Window, PSeen, DkIssued, mmaScores, mmaStep>>
      /\ UNCHANGED <<PStored, DsStored, ewPc, ewStep, tile>>
  BY <1>2, ProgressStill
<1>4. Ops' = Ops /\ tmaPc' = tmaPc
  BY <1>2 DEF Ops, ToSet, tmaVars
<1>5. UNCHANGED <<DvDone, DkDone, DqDone>>
  BY <1>3, <1>4 DEF DvDone, DkDone, DqDone, Queued
<1>6. KvLanded' => KvLanded
  BY <1>2, <1>4 DEF KvLanded, KV, Only
<1>7. SlotTags' /\ KvTag' /\ TileTags' /\ UnionTags' /\ DsTags' /\ InOrder'
  BY <1>1, <1>2, <1>3, <1>4, <1>6, SlotTagsStill, KvTagStill, TileTagsStill, UnionsStill,
     DsTagsStill, InOrderStill
<1>8. SumTags' /\ DqTag' /\ DqOut' /\ SumsOut'
  BY <1>1, <1>2, <1>3, <1>5, SumsStill, OutStill
<1> QED
  BY <1>7, <1>8 DEF TileInv

\* TInv is inductive.
THEOREM SpecTiles == Spec => []TInv
<1>1. Init => TileInv
  BY InitTiles
<1>2. TInv /\ [Next]_vars => TileInv'
  BY CopyEngineTiles, TensorCoreTiles, TmaTiles, MmaTiles, DqTiles, EwTiles, NothingTiles
     DEF Next, Exited
<1>3. TInv <=> FInv /\ TileInv
  BY DEF TInv
<1> QED
  BY <1>1, <1>2, <1>3, SpecRings, PTL DEF Spec

\* dK and dV accumulate, and dQ receives, each step exactly once, in order and
\* from operands of that step; when the CTA has ended all steps are there, and dK
\* and dV were written once (GradientsExact).
THEOREM GradientsAreExact == Spec => []GradientsExact
<1>1. ASSUME TInv PROVE GradientsExact
  <2>1. /\ SumTags /\ DqOut /\ SumsOut /\ MmaFacts /\ DqFacts /\ n \in Nat /\ Whole = Whole
        /\ TypeOK
    BY <1>1, TInvParts, FInvParts
  <2>2. \A i \in DOMAIN gmem.dq : gmem.dq[i] = i - 1
    BY <2>1 DEF DqOut
  <2>3. /\ tmem.dv.acc # {} => tmem.dv.ok
        /\ tmem.dk.acc # {} => tmem.dk.ok
    <3>1. ASSUME NEW k \in Int, NEW acc, FirstSteps(acc, k), acc.acc # {} PROVE acc.ok
      <4>1. k > 0
        BY <3>1 DEF FirstSteps
      <4> QED
        BY <3>1, <4>1, Zenon DEF FirstSteps
    <3>2. DvDone \in Int /\ DkDone \in Int
      BY <2>1, MmaProgress DEF DvDone, DkDone, Queued
    <3> QED
      BY <2>1, <3>1, <3>2 DEF SumTags
  <2>4. /\ gmem.dk = IF ewPc[0] = "exit" THEN <<Whole>> ELSE <<>>
        /\ gmem.dv = IF ewPc[NumEw - 1] = "exit" THEN <<Whole>> ELSE <<>>
    BY <2>1 DEF SumsOut
  <2>5. {gmem.dk, gmem.dv} \subseteq {<<>>, <<Whole>>}
    BY <2>4
  <2>6. ASSUME Finished PROVE Len(gmem.dq) = n /\ {gmem.dk, gmem.dv} = {<<Whole>>}
    <3>1. 0 \in Ew /\ NumEw - 1 \in Ew
      BY DEF Ew
    <3>2. gmem.dk = <<Whole>> /\ gmem.dv = <<Whole>>
      BY <2>4, <2>6, <3>1 DEF Finished
    <3>3. dqStep = n /\ Flag(stageBusy) = 0
      BY <2>1, <2>6 DEF Finished, DqFacts, Flag
    <3> QED
      BY <2>1, <3>2, <3>3 DEF DqOut
  <2> QED
    BY <2>2, <2>3, <2>5, <2>6 DEF GradientsExact, Whole
<1> QED
  BY <1>1, SpecTiles, PTL
=============================================================================
