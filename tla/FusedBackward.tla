--------------------------- MODULE FusedBackward ---------------------------
(***************************************************************************)
(* One CTA of the fused backward kernel of backward_fused.py.  It owns a   *)
(* KV block and walks the q steps that attend to it, accumulating dK and   *)
(* dV in TMEM and adding each step's dQ to global memory.                  *)
(*                                                                         *)
(* Threads are numbered like the warpgroups: NumEw elementwise warpgroups, *)
(* the dQ writer, the two warps of the producer warpgroup.  S^T shares its *)
(* TMEM columns with P^T and dP^T with dS^T: storing one destroys the      *)
(* other.  On hardware (~call.serialize) MMAs execute in issue order and   *)
(* the kernel relies on it; the interpreter build (serialize_mma) promises *)
(* no order and adds the mma_order barrier.  Tags are those of             *)
(* ForwardKernel.  Q and dO of a step are one copy, lse, delta and the q   *)
(* segment ids another; S^T and dP^T are one MMA.                          *)
(***************************************************************************)
EXTENDS MBarrier, SequencesExt

CONSTANTS NumStages,     \* num_stages_bwd, the slots of the Q/dO ring
          NumEw,         \* elementwise warpgroups
          MaxSteps       \* bound on the steps of a KV block

ASSUME NumStagesAssumption == NumStages \in Nat \ {0}
ASSUME NumEwAssumption == NumEw \in Nat \ {0}
ASSUME MaxStepsAssumption == MaxSteps \in Nat

VARIABLES
  call,                          \* the kernel's specialisation and its steps
  tmaPc, tmaStep,                \* TMA warp
  mmaPc, mmaStep, mmaScores,     \* MMA warp; scores issued so far
  ewPc, ewStep, tile,            \* elementwise warpgroups, their registers
  dqPc, dqStep, dqReg,           \* dQ writer, its registers
  copies,                        \* TMA loads in flight: <<buffer, step>>
  tc,                            \* tensor-core queue: <<op, step>>
  smem, ds,                      \* SMEM cells; the dS^T buffers
  tmem,                          \* unions sp, dd and accumulators dk, dv, dq
  stage, stageBusy,              \* dq_stage, and whether its store reads it
  gmem                           \* what was written: dq, dk, dv

tmaVars == <<tmaPc, tmaStep>>
mmaVars == <<mmaPc, mmaStep, mmaScores>>
ewVars == <<ewPc, ewStep, tile>>
dqVars == <<dqPc, dqStep, dqReg, stage>>
vars == <<call, tmaVars, mmaVars, ewVars, dqVars, copies, tc, smem, ds, tmem,
          stageBusy, gmem, barVars>>
-----------------------------------------------------------------------------
Slots == 0 .. NumStages - 1
Steps == 0 .. MaxSteps - 1
Undefined == -1
Ew == 0 .. NumEw - 1
Dq == NumEw
Tma == NumEw + 1
Mma == NumEw + 2

\* A ring's cell or barrier for step t; others are <<name, 0>>.
Ring(name, t) == <<name, t % NumStages>>
Only(name) == <<name, 0>>
KV == Only("kv")

Cells == {KV} \cup ({"q_do", "row", "mask"} \X Slots)
Barriers ==
  ({"q", "mask", "consumed", "aux_consumed"} \X Slots) \cup
  ({"kv", "s_ready", "p_ready", "ds_ready", "loaded", "dq_ready", "dq_free",
    "done", "mma_order"} \X {0})
WaitersOf(b) ==
  CASE b[1] \in {"kv", "q"} -> Ew \cup {Mma}
    [] b[1] \in {"mask", "s_ready", "loaded", "done"} -> Ew
    [] b[1] \in {"consumed", "aux_consumed"} -> {Tma}
    [] b[1] \in {"p_ready", "ds_ready", "dq_free", "mma_order"} -> {Mma}
    [] b[1] = "dq_ready" -> {Dq}
Arrivals ==
  [b \in Barriers |->
     CASE b[1] = "q" -> 2
       [] b[1] \in {"aux_consumed", "p_ready", "ds_ready", "loaded"} -> NumEw
       [] OTHER -> 1]
ArriveOn(b) == Arrive(b, Arrivals[b])

\* A launch: the steps over all q heads of the group, those with a mask block,
\* and the choices early_scores, split_p and serialize_mma.
Calls ==
  { c \in [n : 0 .. MaxSteps, partial : SUBSET Steps,
           early : BOOLEAN, split : BOOLEAN, serialize : BOOLEAN] :
      c.partial \subseteq 0 .. c.n - 1 }
n == call.n
DsBuf(t) == IF call.early THEN t % 2 ELSE 0

Blank == [e \in Ew |-> Undefined]
Garbage == [acc |-> {}, ok |-> FALSE]
Zeros == [acc |-> {}, ok |-> TRUE]
DqTop(t) == IF t < n THEN "wait" ELSE "drain"

Init ==
  /\ call \in Calls
  /\ tmaPc = "kv" /\ mmaPc = "kv" /\ ewPc = [e \in Ew |-> "kv"]
  /\ dqPc = DqTop(0)
  /\ tmaStep = 0 /\ mmaStep = 0 /\ mmaScores = 0 /\ dqStep = 0
  /\ ewStep = [e \in Ew |-> 0]
  /\ tile = Blank /\ dqReg = Undefined /\ stage = Undefined
  /\ stageBusy = FALSE /\ copies = {} /\ tc = <<>>
  /\ smem = [c \in Cells |-> Undefined] /\ ds = [j \in {0, 1} |-> Blank]
  /\ LET union == [scores |-> Undefined, stored |-> Blank]
     IN tmem = [sp |-> union, dd |-> union, dk |-> Garbage, dv |-> Garbage,
                dq |-> Undefined]
  /\ gmem = [dq |-> <<>>, dk |-> <<>>, dv |-> <<>>]
  /\ InitBarriers(Arrivals, 0 .. NumEw + 2)
-----------------------------------------------------------------------------
\* The copy engine: a load lands, or the store of dq_stage adds it to dQ.
CopyCell(c) == IF c = KV THEN KV ELSE Ring(c[1], c[2])
CopyBarrier(c) ==
  IF c[1] \in {"q_do", "row"} THEN Ring("q", c[2]) ELSE CopyCell(c)
CopyEngine ==
  /\ \/ \E c \in copies :
          /\ copies' = copies \ {c}
          /\ smem' = [smem EXCEPT ![CopyCell(c)] = c[2]]
          /\ ArriveOn(CopyBarrier(c)) /\ UNCHANGED <<stageBusy, gmem>>
     \/ /\ stageBusy /\ stageBusy' = FALSE
        /\ gmem' = [gmem EXCEPT !.dq = Append(@, stage)]
        /\ UNCHANGED <<copies, smem, barVars>>
  /\ UNCHANGED <<call, tmaVars, mmaVars, ewVars, dqVars, tc, ds, tmem>>

\* Queued work that may complete: the oldest; without in-order execution any
\* MMA, and a commit once every MMA issued before it has completed.
Commits == {"s_ready", "mma_order", "dq_ready", "consumed", "done"}
MayRetire(i) ==
  \/ i = 1
  \/ /\ call.serialize
     /\ tc[i][1] \in Commits => \A j \in 1 .. i - 1 : tc[j][1] \in Commits

\* acc += A B for step t, which overwrites acc in step 0.
Accumulated(acc, t, operands) ==
  [acc |-> {t} \cup IF t = 0 THEN {} ELSE acc.acc,
   ok |-> operands /\ (t = 0 \/ (acc.ok /\ t \notin acc.acc))]

MmaResult(op, t) ==
  LET rows == smem[Ring("q_do", t)] = t
      scores == [scores |-> IF rows /\ smem[KV] = 0 THEN t ELSE Undefined,
                 stored |-> Blank]
      packed(x) == \A e \in Ew : x[e] = t
  IN CASE op = "scores" -> [tmem EXCEPT !.sp = scores, !.dd = scores]
       [] op = "dv" -> [tmem EXCEPT !.dv =
                          Accumulated(@, t, rows /\ packed(tmem.sp.stored))]
       [] op = "dk" -> [tmem EXCEPT !.dk =
                          Accumulated(@, t, rows /\ packed(tmem.dd.stored))]
       [] op = "dq" -> [tmem EXCEPT !.dq =
                          IF smem[KV] = 0 /\ packed(ds[DsBuf(t)])
                          THEN t ELSE Undefined]

TensorCore ==
  /\ \E i \in DOMAIN tc :
       LET op == tc[i][1]  t == tc[i][2] IN
       /\ MayRetire(i) /\ tc' = RemoveAt(tc, i)
       /\ IF op \in Commits
          THEN /\ ArriveOn(IF op = "consumed" THEN Ring(op, t) ELSE Only(op))
               /\ UNCHANGED tmem
          ELSE tmem' = MmaResult(op, t) /\ UNCHANGED barVars
  /\ UNCHANGED <<call, tmaVars, mmaVars, ewVars, dqVars, copies, smem, ds,
                 stageBusy, gmem>>
-----------------------------------------------------------------------------
\* A definition Name_fault is a faulty variant of the definition Name: the
\* checks of a property are tried against such a fault.

\* The TMA warp, in the load loop and, at "drain" and "drain_aux", after it.
DrainStart_short == IF n > NumStages THEN n - NumStages + 1 ELSE 0
DrainStart == IF n > NumStages THEN n - NumStages ELSE 0
TmaDrain(t) == tmaPc' = (IF t < n THEN "drain" ELSE "done") /\ tmaStep' = t
LastStep_plusOne(t) == t > n
LastStep(t) == t = n
TmaEnter(t) ==
  IF LastStep(t) THEN TmaDrain(DrainStart)
  ELSE tmaPc' = (IF t >= NumStages THEN "consumed" ELSE "load") /\ tmaStep' = t

AfterConsumed_skipAux == "load"
AfterConsumed == "aux"
TmaAwait ==
  /\ \/ /\ tmaPc = "consumed" /\ Await(Tma, Ring("consumed", tmaStep))
        /\ tmaPc' = AfterConsumed /\ UNCHANGED tmaStep
     \/ /\ tmaPc = "aux" /\ Await(Tma, Ring("aux_consumed", tmaStep))
        /\ tmaPc' = "load" /\ UNCHANGED tmaStep
     \/ /\ tmaPc = "drain" /\ Await(Tma, Ring("consumed", tmaStep))
        /\ tmaPc' = "drain_aux" /\ UNCHANGED tmaStep
     \/ /\ tmaPc = "drain_aux" /\ Await(Tma, Ring("aux_consumed", tmaStep))
        /\ TmaDrain(tmaStep + 1)
  /\ UNCHANGED copies

TmaLoad ==
  /\ \/ /\ tmaPc = "kv" /\ TmaEnter(0)
        /\ copies' = {KV}
     \/ /\ tmaPc = "load" /\ TmaEnter(tmaStep + 1)
        /\ copies' = copies \cup {<<"q_do", tmaStep>>, <<"row", tmaStep>>}
             \cup (IF tmaStep \in call.partial THEN {<<"mask", tmaStep>>} ELSE {})
  /\ UNCHANGED barVars

TmaWarp ==
  /\ TmaAwait \/ TmaLoad
  /\ UNCHANGED <<call, mmaVars, ewVars, dqVars, tc, smem, ds, tmem,
                 stageBusy, gmem>>
-----------------------------------------------------------------------------
\* The MMA warp.  issue_scores(mmaScores) happens at "order" and "scores", the
\* rest of step mmaStep at "p", "ds", "dq_free" and "dq".
ScoresPc(t) == IF call.serialize /\ t > 0 THEN "order" ELSE "scores"
DqIssuePc(t) == IF t > 0 THEN "dq_free" ELSE "dq"
MmaTop(t) == IF t = n THEN IF n > 0 THEN "end" ELSE "done"
             ELSE IF call.early THEN "p" ELSE ScoresPc(t)
AfterDk_unguarded(t) ==
  IF call.early THEN ScoresPc(t + 1) ELSE DqIssuePc(t)
\* With early scores those of the next step go ahead of dQ.
AfterDk(t) ==
  IF call.early /\ t + 1 < n THEN ScoresPc(t + 1) ELSE DqIssuePc(t)

MmaWait(pc, b, next) ==
  /\ mmaPc = pc /\ Await(Mma, b) /\ mmaPc' = next
MmaAwait ==
  /\ \/ MmaWait("kv", KV, IF call.early /\ n > 0 THEN "scores" ELSE MmaTop(0))
     \/ MmaWait("order", Only("mma_order"), "scores")
     \/ MmaWait("dq_free", Only("dq_free"), "dq")
     \/ MmaWait("last_free", Only("dq_free"),
                IF call.serialize THEN "last_order" ELSE "done")
     \/ MmaWait("last_order", Only("mma_order"), "done")
  /\ UNCHANGED <<mmaStep, mmaScores, tc>>

MmaIssueScores ==
  /\ MmaWait("scores", Ring("q", mmaScores),
             IF call.early /\ mmaScores > 0 THEN DqIssuePc(mmaStep) ELSE "p")
  /\ tc' = tc \o <<<<"scores", mmaScores>>, <<"s_ready", mmaScores>>>>
  /\ mmaScores' = mmaScores + 1 /\ UNCHANGED mmaStep

Dv == <<<<"dv", mmaStep>>>>
Dk == <<<<"dk", mmaStep>>>> \o
        IF call.serialize THEN <<<<"mma_order", mmaStep>>>> ELSE <<>>
MmaIssueDvDk ==
  /\ \/ /\ ~call.split /\ MmaWait("p", Only("p_ready"), AfterDk(mmaStep))
        /\ tc' = tc \o Dv \o Dk
     \/ call.split /\ MmaWait("p", Only("p_ready"), "ds") /\ tc' = tc \o Dv
     \/ /\ MmaWait("ds", Only("ds_ready"), AfterDk(mmaStep)) /\ tc' = tc \o Dk
  /\ UNCHANGED <<mmaStep, mmaScores>>

\* dQ, the signal to its writer, and the release of the slot of Q and dO.
MmaIssueDq ==
  /\ mmaPc = "dq"
  /\ tc' = tc \o <<<<"dq", mmaStep>>, <<"dq_ready", mmaStep>>,
                   <<"consumed", mmaStep>>>>
  /\ mmaPc' = MmaTop(mmaStep + 1) /\ mmaStep' = mmaStep + 1
  /\ UNCHANGED <<mmaScores, barVars>>

MmaCommitDone ==
  /\ mmaPc = "end" /\ mmaPc' = "last_free"
  /\ tc' = Append(tc, <<"done", mmaStep>>)
  /\ UNCHANGED <<mmaStep, mmaScores, barVars>>

MmaWarp ==
  /\ \/ MmaAwait \/ MmaIssueScores \/ MmaIssueDvDk \/ MmaIssueDq
     \/ MmaCommitDone
  /\ UNCHANGED <<call, tmaVars, ewVars, dqVars, copies, smem, ds, tmem,
                 stageBusy, gmem>>
-----------------------------------------------------------------------------
\* The elementwise warpgroup e; EwGo moves it on with x in its registers.
EwTop(t) == IF t < n THEN "q" ELSE IF n > 0 THEN "done" ELSE "write"
StorePc == IF call.split THEN "store_p" ELSE "store_ds"
MathPc(t) == IF t \in call.partial THEN "mask" ELSE StorePc
EwGo(e, pc, next, x) ==
  /\ ewPc[e] = pc /\ ewPc' = [ewPc EXCEPT ![e] = next]
  /\ tile' = [tile EXCEPT ![e] = x]

\* The waits, with the row vectors and the mask block read after them.
Matching(e, b) == IF smem[b] = tile[e] THEN tile[e] ELSE Undefined
EwAwait(e) ==
  LET t == ewStep[e] IN
  /\ \/ EwGo(e, "kv", EwTop(0), tile[e]) /\ Await(e, KV)
     \/ EwGo(e, "q", "s", smem[Ring("row", t)]) /\ Await(e, Ring("q", t))
     \/ EwGo(e, "s", "load", tile[e]) /\ Await(e, Only("s_ready"))
     \/ EwGo(e, "loaded", MathPc(t), tile[e]) /\ Await(e, Only("loaded"))
     \/ /\ EwGo(e, "mask", StorePc, Matching(e, Ring("mask", t)))
        /\ Await(e, Ring("mask", t))
     \/ EwGo(e, "done", "write", tile[e]) /\ Await(e, Only("done"))
  /\ UNCHANGED <<ewStep, smem, ds, tmem, gmem>>

\* The loads of S^T and dP^T are over.  Packed stores of another warpgroup land
\* where this one reads, so all of them meet before any store.
Loaded(e) == IF tmem.sp.scores = tile[e] /\ tmem.dd.scores = tile[e]
             THEN tile[e] ELSE Undefined
Meet_never == FALSE
Meet == NumEw > 1
EwLoad(e) ==
  /\ IF Meet
     THEN EwGo(e, "load", "loaded", Loaded(e)) /\ ArriveOn(Only("loaded"))
     ELSE EwGo(e, "load", MathPc(ewStep[e]), Loaded(e)) /\ UNCHANGED barVars
  /\ UNCHANGED <<ewStep, smem, ds, tmem, gmem>>

\* The columns of e in a TMEM union now hold a packed operand.
Packed(union, e) == [scores |-> Undefined,
                     stored |-> [union.stored EXCEPT ![e] = tile[e]]]
EwStoreP(e) ==
  /\ EwGo(e, "store_p", "store_ds", tile[e])
  /\ tmem' = [tmem EXCEPT !.sp = Packed(@, e)]
  /\ ArriveOn(Only("p_ready"))
  /\ UNCHANGED <<ewStep, smem, ds, gmem>>

\* dS^T goes to TMEM and SMEM (P^T before it, unless it was split off), and
\* the row vectors and the mask of the slot are released.
EwStoreDs(e) ==
  /\ EwGo(e, "store_ds", "ready", tile[e])
  /\ tmem' = [tmem EXCEPT !.sp = IF call.split THEN @ ELSE Packed(@, e),
                          !.dd = Packed(@, e)]
  /\ ds' = [ds EXCEPT ![DsBuf(ewStep[e])][e] = tile[e]]
  /\ ArriveOn(Ring("aux_consumed", ewStep[e]))
  /\ UNCHANGED <<ewStep, smem, gmem>>

EwArriveReady(e) ==
  /\ EwGo(e, "ready", EwTop(ewStep[e] + 1), tile[e])
  /\ ArriveOn(Only(IF call.split THEN "ds_ready" ELSE "p_ready"))
  /\ ewStep' = [ewStep EXCEPT ![e] = @ + 1]
  /\ UNCHANGED <<smem, ds, tmem, gmem>>

\* The first warpgroup writes dK over k_smem, the last one dV over v_smem.
WritesOut(e) == e \in {0, NumEw - 1}
Output(seq, acc) == Append(seq, IF n > 0 THEN acc ELSE Zeros)
EwWrite(e) ==
  /\ EwGo(e, "write", "exit", tile[e])
  /\ smem' = IF WritesOut(e) THEN [smem EXCEPT ![KV] = Undefined] ELSE smem
  /\ gmem' = [gmem EXCEPT
       !.dk = IF e = 0 THEN Output(@, tmem.dk) ELSE @,
       !.dv = IF e = NumEw - 1 THEN Output(@, tmem.dv) ELSE @]
  /\ UNCHANGED <<ewStep, ds, tmem, barVars>>

ElementwiseWg(e) ==
  /\ \/ EwAwait(e) \/ EwLoad(e) \/ EwStoreP(e) \/ EwStoreDs(e)
     \/ EwArriveReady(e) \/ EwWrite(e)
  /\ UNCHANGED <<call, tmaVars, mmaVars, dqVars, copies, tc, stageBusy>>
-----------------------------------------------------------------------------
\* The dQ writer.  Once dQ is in registers the accumulator is free, and once
\* the previous store has read dq_stage it is filled and stored again.
DqLoad ==
  /\ \/ /\ dqPc = "wait" /\ Await(Dq, Only("dq_ready"))
        /\ dqPc' = "load" /\ UNCHANGED dqReg
     \/ /\ dqPc = "load" /\ ArriveOn(Only("dq_free"))
        /\ dqPc' = "store" /\ dqReg' = tmem.dq
  /\ UNCHANGED <<dqStep, stage, stageBusy>>

StageFree_always == TRUE
StageFree == ~stageBusy
DqStore ==
  /\ dqPc = "store" /\ StageFree
  /\ stage' = dqReg /\ stageBusy' = TRUE
  /\ dqPc' = DqTop(dqStep + 1) /\ dqStep' = dqStep + 1
  /\ UNCHANGED <<dqReg, barVars>>

DqDrain == /\ dqPc = "drain" /\ ~stageBusy /\ dqPc' = "exit"
           /\ UNCHANGED <<dqStep, dqReg, stage, stageBusy, barVars>>

DqWriter ==
  /\ DqLoad \/ DqStore \/ DqDrain
  /\ UNCHANGED <<call, tmaVars, mmaVars, ewVars, copies, tc, smem, ds, tmem,
                 gmem>>
-----------------------------------------------------------------------------
Finished == /\ tmaPc = "done" /\ mmaPc = "done" /\ dqPc = "exit"
            /\ \A e \in Ew : ewPc[e] = "exit"
            /\ copies = {} /\ tc = <<>> /\ ~stageBusy
Exited == Finished /\ UNCHANGED vars

Next == \/ CopyEngine \/ TensorCore \/ TmaWarp \/ MmaWarp \/ DqWriter
        \/ (\E e \in Ew : ElementwiseWg(e)) \/ Exited

\* The warps are scheduled independently and the engines make progress.
Fairness == /\ WF_vars(CopyEngine) /\ WF_vars(TensorCore) /\ WF_vars(TmaWarp)
            /\ WF_vars(MmaWarp) /\ WF_vars(DqWriter)
            /\ \A e \in Ew : WF_vars(ElementwiseWg(e))

Spec == Init /\ [][Next]_vars /\ Fairness
-----------------------------------------------------------------------------
\* Every variable has its type.
TypeOK ==
  /\ call \in Calls
  /\ tmaStep \in 0 .. n /\ mmaStep \in 0 .. n /\ mmaScores \in 0 .. n
  /\ ewStep \in [Ew -> 0 .. n] /\ dqStep \in 0 .. n
  /\ tmaPc \in {"kv", "consumed", "aux", "load", "drain", "drain_aux", "done"}
  /\ mmaPc \in {"kv", "order", "scores", "p", "ds", "dq_free", "dq", "end",
                "last_free", "last_order", "done"}
  /\ ewPc \in [Ew -> {"kv", "q", "s", "load", "loaded", "mask", "store_p",
                      "store_ds", "ready", "done", "write", "exit"}]
  /\ dqPc \in {"wait", "load", "store", "drain", "exit"}
  /\ copies \subseteq {KV} \cup ({"q_do", "row", "mask"} \X (0 .. n - 1))
  /\ tc \in Seq(({"scores", "dv", "dk", "dq"} \cup Commits) \X (0 .. n))
  /\ smem \in [Cells -> Steps \cup {0, Undefined}]
  /\ ds \in [{0, 1} -> [Ew -> Steps \cup {Undefined}]]
  /\ tile \in [Ew -> Steps \cup {Undefined}]
  /\ LET tags == Steps \cup {Undefined}
         union == [scores : tags, stored : [Ew -> tags]]
         sums == [acc : SUBSET Steps, ok : BOOLEAN]
     IN /\ tmem \in [sp : union, dd : union, dk : sums, dv : sums, dq : tags]
        /\ gmem \in [dq : Seq(tags), dk : Seq(sums), dv : Seq(sums)]
        /\ {dqReg, stage} \subseteq tags
  /\ stageBusy \in BOOLEAN
  /\ BarTypeOK(Barriers, 0 .. NumEw + 2)

\* Every waiter observes every barrier phase, and no barrier can run more than
\* one phase ahead of a waiter (README, Synchronization).
PhaseLag ==
  \A b \in Barriers : \A w \in WaitersOf(b) : Lag(w, b) \in {0, 1}

\* dK and dV accumulate, and dQ receives, each step exactly once, in order and
\* from operands of that step; all steps are there when the CTA exits, and dK
\* and dV were written once.
GradientsExact ==
  LET whole == [acc |-> 0 .. n - 1, ok |-> TRUE] IN
  /\ \A i \in DOMAIN gmem.dq : gmem.dq[i] = i - 1
  /\ \A acc \in {tmem.dk, tmem.dv} : acc.acc # {} => acc.ok
  /\ {gmem.dk, gmem.dv} \subseteq {<<>>, <<whole>>}
  /\ Finished => Len(gmem.dq) = n /\ {gmem.dk, gmem.dv} = {<<whole>>}

\* What queued tensor-core work and the warpgroups read and write.
OpReads(op) ==
  CASE op[1] = "scores" -> {KV, Ring("q_do", op[2])}
    [] op[1] = "dv" -> {Only("sp"), Ring("q_do", op[2])}
    [] op[1] = "dk" -> {Only("dd"), Ring("q_do", op[2])}
    [] op[1] = "dq" -> {KV, <<"ds", DsBuf(op[2])>>}
    [] OTHER -> {}
OpWrites(op) ==
  CASE op[1] = "scores" -> {Only("sp"), Only("dd")}
    [] op[1] \in {"dv", "dk", "dq"} -> {Only(op[1])} [] OTHER -> {}
EwReads(e) ==
  (IF ewPc[e] \in {"s", "load", "loaded", "mask", "store_p", "store_ds"}
   THEN {Ring("row", ewStep[e])} ELSE {})
  \cup (IF ewPc[e] = "load" THEN {Only("sp"), Only("dd")} ELSE {})
  \cup (IF ewPc[e] \in {"store_p", "store_ds"} /\ ewStep[e] \in call.partial
        THEN {Ring("mask", ewStep[e])} ELSE {})
  \cup (IF ewPc[e] = "write" /\ n > 0 THEN {Only("dk"), Only("dv")} ELSE {})
EwWrites(e) ==
  (IF ewPc[e] = StorePc THEN {Only("sp")} ELSE {})
  \cup (IF ewPc[e] = "store_ds"
        THEN {Only("dd"), <<"ds", DsBuf(ewStep[e])>>} ELSE {})
  \cup (IF ewPc[e] = "write" /\ WritesOut(e) THEN {KV} ELSE {})
DqReads == IF dqPc = "load" THEN {Only("dq")} ELSE {}

\* No copy lands where an MMA or a warpgroup still reads; no MMA overwrites
\* TMEM a warpgroup is loading or storing; no warpgroup stores what an MMA in
\* flight uses or another warpgroup is still loading; and without in-order
\* execution no two conflicting MMAs are in flight.
NoRace ==
  /\ \A c \in copies :
       /\ \A i \in DOMAIN tc : CopyCell(c) \notin OpReads(tc[i])
       /\ \A e \in Ew : CopyCell(c) \notin EwReads(e) \cup EwWrites(e)
  /\ \A i \in DOMAIN tc :
       /\ \A e \in Ew :
            /\ OpWrites(tc[i]) \cap (EwReads(e) \cup EwWrites(e)) = {}
            /\ OpReads(tc[i]) \cap EwWrites(e) = {}
       /\ OpWrites(tc[i]) \cap DqReads = {}
       /\ call.serialize =>
            \A j \in DOMAIN tc \ {i} :
              OpWrites(tc[i]) \cap (OpReads(tc[j]) \cup OpWrites(tc[j])) = {}
  /\ \A e, f \in Ew : e # f => EwReads(e) \cap EwWrites(f) = {}

\* No phase of a barrier is unobserved or half arrived when the CTA exits: the
\* drain loop, and "observe the last dQ^T read-out".
CleanExit ==
  Finished => \A b \in Barriers : /\ left[b] = Arrivals[b]
                                  /\ \A w \in WaitersOf(b) : Lag(w, b) = 0

\* The CTA ends: the threads never all wait on each other.  A ring of one slot
\* is accepted by BlockSizes ("num_stages_bwd must be >= 1").
Termination == <>Finished
=============================================================================
