----------------------------- MODULE FusedTiles -----------------------------
(***************************************************************************)
(* What the tiles of FusedBackward hold, on top of what FusedRings says of *)
(* its barriers: whatever an MMA, a warpgroup or the dQ writer reads is of *)
(* its own step.  The gradients are exact because of it.                   *)
(***************************************************************************)
EXTENDS FusedRings

\* A slot holds the step loaded into it, from when its copy has landed.
Landed(f, s) ==
  s < Requested /\ ~InFlight(f, s) /\ (f = "mask" => s \in call.partial)
SlotTags ==
  \A f \in {"q_do", "row", "mask"} : \A s \in Window :
    Landed(f, s) => smem[Ring(f, s)] = s
KvTag ==
  KvLanded /\ (\A e \in Ew : ewPc[e] # "exit") => smem[KV] = 0

\* The registers of a warpgroup: its step, from the row vectors on.
TileTags == \A e \in Ew : ewPc[e] \in AfterQ => tile[e] = ewStep[e]

\* A TMEM union holds the scores of a step from when their MMA has completed
\* until a warpgroup stores over them, and then what each warpgroup stored, until
\* the next scores.  PStored and DsStored are the steps that a warpgroup stored.
PStored == [e \in Ew |-> IF call.split THEN PArrived[e] ELSE AuxArrived[e]]
DsStored == AuxArrived
ScoresUp(s) == s < mmaScores /\ <<"scores", s>> \notin Ops
HoldsScores(union, at) ==
  \A s \in 0 .. mmaScores - 1 :
    ScoresUp(s) /\ (\A e \in Ew : at[e] <= s) => union.scores = s
HoldsStored(union, at) ==
  \A e \in Ew : at[e] > 0 /\ ~ScoresUp(at[e]) => union.stored[e] = at[e] - 1
UnionTags == /\ HoldsScores(tmem.sp, PStored) /\ HoldsStored(tmem.sp, PStored)
             /\ HoldsScores(tmem.dd, DsStored) /\ HoldsStored(tmem.dd, DsStored)

\* The dS^T buffers hold the last step stored, or the last two.
DsTags ==
  \A e \in Ew : \A s \in 0 .. DsStored[e] - 1 :
    DsStored[e] <= (IF call.early THEN s + 2 ELSE s + 1) => ds[DsBuf(s)][e] = s

\* On hardware scores complete only after all that was issued before them.
InOrder ==
  ~call.serialize =>
    \A s \in 0 .. mmaScores - 1 : ScoresUp(s) =>
      \A op \in Ops : Key(<<"scores", s>>) < Key(op)

\* The accumulators hold the steps whose MMA has completed: only the last one
\* issued may be in flight.
DvDone == PSeen - Queued("dv")
DkDone == DkIssued - Queued("dk")
DqDone == mmaStep - Queued("dq")
FirstSteps(acc, k) == acc.acc = 0 .. k - 1 /\ (k > 0 => acc.ok)
SumTags == FirstSteps(tmem.dv, DvDone) /\ FirstSteps(tmem.dk, DkDone)
DqTag == DqDone > 0 => tmem.dq = DqDone - 1

\* What the dQ writer has in registers and in dq_stage, and what was written.
DqOut ==
  /\ dqPc = "store" => dqReg = dqStep
  /\ stageBusy => dqStep > 0 /\ stage = dqStep - 1
  /\ Len(gmem.dq) = dqStep - Flag(stageBusy)
  /\ \A i \in DOMAIN gmem.dq : gmem.dq[i] = i - 1
Whole == [acc |-> 0 .. n - 1, ok |-> TRUE]
SumsOut ==
  /\ gmem.dk = IF ewPc[0] = "exit" THEN <<Whole>> ELSE <<>>
  /\ gmem.dv = IF ewPc[NumEw - 1] = "exit" THEN <<Whole>> ELSE <<>>

TileInv == /\ SlotTags /\ KvTag /\ TileTags /\ UnionTags /\ DsTags /\ InOrder
           /\ SumTags /\ DqTag /\ DqOut /\ SumsOut
TInv == FInv /\ TileInv
=============================================================================
