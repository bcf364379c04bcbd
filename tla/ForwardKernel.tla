--------------------------- MODULE ForwardKernel ---------------------------
(***************************************************************************)
(* One CTA of the forward kernel of kernel.py: the TMA and MMA warps of    *)
(* warpgroup 1 and the softmax warpgroup 0, with the copy engine and the   *)
(* tensor core they feed.  An action is one thread's code up to and        *)
(* including its next barrier operation.  Copies land and MMAs retire in   *)
(* any order (in-order retirement, which the hardware adds, is one order). *)
(*                                                                         *)
(* Tiles are tags: an SMEM slot holds the step whose tile was copied in;   *)
(* an S buffer the step of its scores; P a step and the running-max        *)
(* version of its exponentials; O the set of accumulated steps, their      *)
(* version and whether every operand was right.                            *)
(***************************************************************************)
EXTENDS MBarrier, Sequences

CONSTANTS NumStages,     \* num_stages, the slots of the K/V ring
          MaxSteps       \* bound on the num_steps of a row

ASSUME NumStagesAssumption == NumStages \in Nat /\ NumStages >= 2
ASSUME MaxStepsAssumption == MaxSteps \in Nat

VARIABLES
  call,                    \* the kernel's specialisation, and its row
  tmaPc, tmaStep,          \* TMA warp
  mmaPc, mmaStep,          \* MMA warp
  smxPc, smxStep,          \* softmax warpgroup
  regs,                    \* softmax registers: tile, max version, accumulator
  copies,                  \* TMA copies in flight: <<buffer, step>>
  tc,                      \* tensor-core work in flight: <<op, step>>
  smem, tmem,              \* tags of the SMEM cells and of TMEM's S, P and O
  out                      \* what was written to out_gmem

threadVars == <<tmaPc, tmaStep, mmaPc, mmaStep, smxPc, smxStep>>
vars == <<call, threadVars, regs, copies, tc, smem, tmem, out, barVars>>
-----------------------------------------------------------------------------
Slots == 0 .. NumStages - 1
Steps == 0 .. MaxSteps - 1
Undefined == -1
Threads == {"tma", "mma", "softmax"}

\* A ring's cell or barrier for step s; a cell shares its copies' barrier name.
Ring(name, s) == <<name, s % NumStages>>
SReady(s) == <<"s_ready", s % 2>>
Q == <<"q", 0>>
QSeg == <<"q_seg", 0>>
PReady == <<"p_ready", 0>>
PvDone == <<"pv_done", 0>>

Cells == {Q} \cup ({"k", "v", "seg", "mask"} \X Slots)
Barriers == {Q, PReady, PvDone} \cup ({"s_ready"} \X {0, 1}) \cup
  ({"k", "v", "seg", "mask", "kv_consumed", "aux_consumed"} \X Slots)

\* The threads that wait on a barrier.
WaitersOf(b) ==
  CASE b[1] = "q" -> {"mma", "softmax"}
    [] b[1] \in {"k", "v", "p_ready"} -> {"mma"}
    [] b[1] \in {"seg", "mask", "s_ready", "pv_done"} -> {"softmax"}
    [] b[1] \in {"kv_consumed", "aux_consumed"} -> {"tma"}

\* A launch: the row's num_steps and PARTIAL steps (only a dense mask makes
\* them load anything), segment ids, dense mask, o_smem aliasing q_smem.
Calls ==
  { c \in [n : 0 .. MaxSteps, partial : SUBSET Steps,
           segments : BOOLEAN, dense : BOOLEAN, reuseQ : BOOLEAN] :
      c.partial \subseteq 0 .. c.n - 1 /\ (c.dense \/ c.partial = {}) }
n == call.n
HasAux == call.dense \/ call.segments
HasMask(s) == call.dense /\ s \in call.partial
Arrivals == [b \in Barriers |-> IF b = Q /\ call.segments THEN 2 ELSE 1]
ArriveOn(b) == Arrive(b, Arrivals[b])

Init ==
  /\ call \in Calls
  /\ tmaPc = "q" /\ mmaPc = "q" /\ smxPc = "q"
  /\ tmaStep = 0 /\ mmaStep = 0 /\ smxStep = 0
  /\ copies = {} /\ tc = {} /\ out = <<>>
  /\ smem = [c \in Cells |-> Undefined]
  /\ tmem = [s |-> [j \in {0, 1} |-> Undefined],
             p |-> [step |-> Undefined, ver |-> 0],
             o |-> [acc |-> {}, ver |-> 0, ok |-> FALSE]]
  /\ regs = [tile |-> Undefined, ver |-> 0,
             o |-> [acc |-> {}, ver |-> 0, ok |-> TRUE]]
  /\ InitBarriers(Arrivals, Threads)
-----------------------------------------------------------------------------
\* The copy engine: a copy lands and arrives on its barrier.
CopyCell(c) == IF c[1] \in {"q", "q_seg"} THEN Q ELSE Ring(c[1], c[2])
CopyEngine ==
  \E c \in copies :
    /\ copies' = copies \ {c}
    /\ smem' = IF c = QSeg THEN smem ELSE [smem EXCEPT ![CopyCell(c)] = c[2]]
    /\ ArriveOn(CopyCell(c))
    /\ UNCHANGED <<call, threadVars, regs, tc, tmem, out>>

\* S_s = Q K_s^T.
QkRetires(s) ==
  LET operands == smem[Q] = 0 /\ smem[Ring("k", s)] = s IN
  /\ <<"qk", s>> \in tc /\ tc' = tc \ {<<"qk", s>>}
  /\ tmem' = [tmem EXCEPT !.s[s % 2] = IF operands THEN s ELSE Undefined]
  /\ ArriveOn(SReady(s))

\* O += P_s V_s; step 0 overwrites O.
PvRetires(s) ==
  LET operands == smem[Ring("v", s)] = s /\ tmem.p.step = s
      sum == tmem.o.ok /\ tmem.o.ver = tmem.p.ver /\ s \notin tmem.o.acc IN
  /\ <<"pv", s>> \in tc /\ tc' = tc \ {<<"pv", s>>}
  /\ tmem' = [tmem EXCEPT !.o =
                [acc |-> {s} \cup IF s = 0 THEN {} ELSE tmem.o.acc,
                 ver |-> tmem.p.ver, ok |-> operands /\ (s = 0 \/ sum)]]
  /\ ArriveOn(Ring("kv_consumed", s))

\* tcgen05_commit_arrive(pv_done) waits for the MMAs issued before it: the PV
\* of steps up to s and the QK of steps up to s + 1.
CommitRetires(s) ==
  /\ <<"commit", s>> \in tc /\ tc' = tc \ {<<"commit", s>>}
  /\ tc \cap (({"pv"} \X (0 .. s)) \cup ({"qk"} \X (0 .. s + 1))) = {}
  /\ ArriveOn(PvDone)
  /\ UNCHANGED tmem

TensorCore ==
  /\ \E s \in Steps : QkRetires(s) \/ PvRetires(s) \/ CommitRetires(s)
  /\ UNCHANGED <<call, threadVars, regs, copies, smem, out>>
-----------------------------------------------------------------------------
\* A definition Name_fault is a faulty variant of the definition Name: the
\* checks of a property are tried against such a fault.

\* The TMA warp.  At "kv" and "aux" it waits for the release of the slot of
\* tmaStep, in the drain loop, or of tmaStep - NumStages before a load.
DrainStart_short == IF n > NumStages THEN n - NumStages + 1 ELSE 0
DrainStart == IF n > NumStages THEN n - NumStages ELSE 0
TmaDrain(s) == tmaPc' = (IF s < n THEN "drain" ELSE "done") /\ tmaStep' = s

MustWait_late(s) == s > NumStages
MustWait(s) == s >= NumStages
LastStep_plusOne(s) == s > n
LastStep(s) == s = n
TmaEnter(s) ==
  IF LastStep(s) THEN TmaDrain(DrainStart)
  ELSE tmaPc' = (IF MustWait(s) THEN "kv" ELSE "load") /\ tmaStep' = s

TmaLoadQ ==
  /\ tmaPc = "q"
  /\ copies' = {Q} \cup IF call.segments THEN {QSeg} ELSE {}
  /\ TmaEnter(0) /\ UNCHANGED barVars

AfterKv_skipAux == "load"
AfterKv == IF HasAux THEN "aux" ELSE "load"
TmaAwaitKv ==
  /\ tmaPc = "kv" /\ Await("tma", Ring("kv_consumed", tmaStep))
  /\ tmaPc' = AfterKv /\ UNCHANGED <<tmaStep, copies>>

TmaAwaitAux ==
  /\ tmaPc = "aux" /\ Await("tma", Ring("aux_consumed", tmaStep))
  /\ tmaPc' = "load" /\ UNCHANGED <<tmaStep, copies>>

TmaLoad ==
  /\ tmaPc = "load"
  /\ copies' = copies \cup {<<"k", tmaStep>>, <<"v", tmaStep>>}
                 \cup (IF call.segments THEN {<<"seg", tmaStep>>} ELSE {})
                 \cup (IF HasMask(tmaStep) THEN {<<"mask", tmaStep>>} ELSE {})
  /\ TmaEnter(tmaStep + 1) /\ UNCHANGED barVars

TmaDrainKv ==
  /\ tmaPc = "drain" /\ Await("tma", Ring("kv_consumed", tmaStep))
  /\ IF HasAux THEN tmaPc' = "drain_aux" /\ UNCHANGED tmaStep
               ELSE TmaDrain(tmaStep + 1)
  /\ UNCHANGED copies

TmaDrainAux ==
  /\ tmaPc = "drain_aux" /\ Await("tma", Ring("aux_consumed", tmaStep))
  /\ TmaDrain(tmaStep + 1) /\ UNCHANGED copies

TmaWarp ==
  /\ \/ TmaLoadQ \/ TmaAwaitKv \/ TmaAwaitAux \/ TmaLoad
     \/ TmaDrainKv \/ TmaDrainAux
  /\ UNCHANGED <<call, mmaPc, mmaStep, smxPc, smxStep, regs,
                 tc, smem, tmem, out>>
-----------------------------------------------------------------------------
\* The MMA warp.  It issues QK of step 0 at "qk0", QK of step mmaStep + 1 at
\* "qk", and PV of step mmaStep at "v" and "p".
MmaTop_overrun(s) == IF s = n THEN "done" ELSE "qk"
MmaTop(s) == IF s = n THEN "done" ELSE IF s + 1 < n THEN "qk" ELSE "v"

MmaAwaitQ ==
  /\ mmaPc = "q" /\ Await("mma", Q)
  /\ mmaPc' = IF n > 0 THEN "qk0" ELSE "done"
  /\ UNCHANGED <<mmaStep, tc>>

IssueQk(s) == Await("mma", Ring("k", s)) /\ tc' = tc \cup {<<"qk", s>>}
MmaIssueQk ==
  /\ \/ mmaPc = "qk0" /\ IssueQk(0) /\ mmaPc' = MmaTop(0)
     \/ mmaPc = "qk" /\ IssueQk(mmaStep + 1) /\ mmaPc' = "v"
  /\ UNCHANGED mmaStep

MmaAwaitV ==
  /\ mmaPc = "v" /\ Await("mma", Ring("v", mmaStep))
  /\ mmaPc' = "p" /\ UNCHANGED <<mmaStep, tc>>

MmaIssuePv ==
  /\ mmaPc = "p" /\ Await("mma", PReady)
  /\ tc' = tc \cup {<<"pv", mmaStep>>, <<"commit", mmaStep>>}
  /\ mmaPc' = MmaTop(mmaStep + 1) /\ mmaStep' = mmaStep + 1

MmaWarp ==
  /\ MmaAwaitQ \/ MmaIssueQk \/ MmaAwaitV \/ MmaIssuePv
  /\ UNCHANGED <<call, tmaPc, tmaStep, smxPc, smxStep, regs,
                 copies, smem, tmem, out>>
-----------------------------------------------------------------------------
\* The softmax warpgroup: the stages of step s that follow the load of S.
PvPc_noWait(s) == "store"
PvPc(s) == IF s > 0 THEN "pv" ELSE "store"
AuxPc(s) == IF HasAux THEN "aux" ELSE PvPc(s)
SegPc(s) == IF call.segments THEN "seg" ELSE AuxPc(s)
MaskPc(s) == IF HasMask(s) THEN "mask" ELSE SegPc(s)
SmxTop(s) == IF s < n THEN "s" ELSE IF n > 0 THEN "last_pv" ELSE "output"

SmxAwaitQ ==
  /\ smxPc = "q" /\ Await("softmax", Q) /\ smxPc' = SmxTop(0)
  /\ UNCHANGED <<smxStep, regs, smem, tmem, out>>

\* Wait for scores, a mask block or segment ids and combine them in registers.
Combine(b, tag) ==
  /\ Await("softmax", b)
  /\ regs' = [regs EXCEPT !.tile = tag]
  /\ UNCHANGED <<smxStep, smem, tmem, out>>
Matching(b) == IF smem[b] = regs.tile THEN regs.tile ELSE Undefined
SmxLoad ==
  \/ /\ smxPc = "s" /\ smxPc' = MaskPc(smxStep)
     /\ Combine(SReady(smxStep), tmem.s[smxStep % 2])
  \/ /\ smxPc = "mask" /\ smxPc' = SegPc(smxStep)
     /\ Combine(Ring("mask", smxStep), Matching(Ring("mask", smxStep)))
  \/ /\ smxPc = "seg" /\ smxPc' = AuxPc(smxStep)
     /\ Combine(Ring("seg", smxStep), Matching(Ring("seg", smxStep)))

SmxReleaseAux ==
  /\ smxPc = "aux" /\ ArriveOn(Ring("aux_consumed", smxStep))
  /\ smxPc' = PvPc(smxStep) /\ UNCHANGED <<smxStep, regs, smem, tmem, out>>

SmxAwaitPv ==
  /\ smxPc = "pv" /\ Await("softmax", PvDone)
  /\ smxPc' = "store" /\ UNCHANGED <<smxStep, regs, smem, tmem, out>>

\* Store P; when some row's running max moved, O is rescaled if it holds data.
AfterStore_noRescale(anyRescale) == "p_ready"
AfterStore(anyRescale) ==
  IF smxStep > 0 /\ anyRescale THEN "rescale" ELSE "p_ready"
SmxStoreP ==
  /\ smxPc = "store"
  /\ \E anyRescale \in BOOLEAN :
       LET ver == IF anyRescale THEN regs.ver + 1 ELSE regs.ver IN
       /\ regs' = [regs EXCEPT !.ver = ver]
       /\ tmem' = [tmem EXCEPT !.p = [step |-> regs.tile, ver |-> ver]]
       /\ smxPc' = AfterStore(anyRescale)
  /\ UNCHANGED <<smxStep, smem, out, barVars>>

SmxRescaleO ==
  /\ smxPc = "rescale" /\ tmem' = [tmem EXCEPT !.o.ver = @ + 1]
  /\ smxPc' = "p_ready" /\ UNCHANGED <<smxStep, regs, smem, out, barVars>>

SmxArriveP ==
  /\ smxPc = "p_ready" /\ ArriveOn(PReady)
  /\ smxPc' = SmxTop(smxStep + 1) /\ smxStep' = smxStep + 1
  /\ UNCHANGED <<regs, smem, tmem, out>>

\* Read O back and normalise it by the row sums of the final version.
SmxReadO ==
  /\ smxPc = "last_pv" /\ Await("softmax", PvDone)
  /\ regs' = [regs EXCEPT !.o = [tmem.o EXCEPT !.ok = @ /\ tmem.o.ver = regs.ver]]
  /\ smxPc' = "output" /\ UNCHANGED <<smxStep, smem, tmem, out>>

SmxOutput ==
  /\ smxPc = "output" /\ out' = Append(out, regs.o)
  /\ smem' = IF call.reuseQ THEN [smem EXCEPT ![Q] = Undefined] ELSE smem
  /\ smxPc' = "done" /\ UNCHANGED <<smxStep, regs, tmem, barVars>>

SoftmaxWg ==
  /\ \/ SmxAwaitQ \/ SmxLoad \/ SmxReleaseAux \/ SmxAwaitPv \/ SmxStoreP
     \/ SmxRescaleO \/ SmxArriveP \/ SmxReadO \/ SmxOutput
  /\ UNCHANGED <<call, tmaPc, tmaStep, mmaPc, mmaStep, copies, tc>>
-----------------------------------------------------------------------------
Finished == tmaPc = "done" /\ mmaPc = "done" /\ smxPc = "done"
              /\ copies = {} /\ tc = {}
Exited == Finished /\ UNCHANGED vars

Next == CopyEngine \/ TensorCore \/ TmaWarp \/ MmaWarp \/ SoftmaxWg \/ Exited

\* The warps are scheduled independently and the engines make progress.
Fairness == /\ WF_vars(CopyEngine) /\ WF_vars(TensorCore)
            /\ WF_vars(TmaWarp) /\ WF_vars(MmaWarp) /\ WF_vars(SoftmaxWg)

Spec == Init /\ [][Next]_vars /\ Fairness
-----------------------------------------------------------------------------
\* Every variable has its type.
Accs == [acc : SUBSET Steps, ver : Nat, ok : BOOLEAN]
TypeOK ==
  /\ call \in Calls
  /\ tmaPc \in {"q", "kv", "aux", "load", "drain", "drain_aux", "done"}
  /\ mmaPc \in {"q", "qk0", "qk", "v", "p", "done"}
  /\ smxPc \in {"q", "s", "mask", "seg", "aux", "pv", "store", "rescale",
                "p_ready", "last_pv", "output", "done"}
  /\ tmaStep \in 0 .. n /\ mmaStep \in 0 .. n /\ smxStep \in 0 .. n
  /\ copies \subseteq {Q, QSeg} \cup ({"k", "v", "seg", "mask"} \X (0 .. n - 1))
  /\ tc \subseteq {"qk", "pv", "commit"} \X (0 .. n - 1)
  /\ smem \in [Cells -> Steps \cup {0, Undefined}]
  /\ tmem \in [s : [{0, 1} -> Steps \cup {Undefined}],
               p : [step : Steps \cup {Undefined}, ver : Nat], o : Accs]
  /\ regs \in [tile : Steps \cup {Undefined}, ver : Nat, o : Accs]
  /\ out \in Seq(Accs)
  /\ BarTypeOK(Barriers, Threads)

\* Every waiter observes every barrier phase, and no barrier can run more than
\* one phase ahead of a waiter (README, Synchronization).
PhaseLag ==
  \A b \in Barriers : \A w \in WaitersOf(b) : Lag(w, b) \in {0, 1}

\* The accesses open in a state: those of MMAs in flight, and those softmax
\* makes between two barrier operations.
PBuf == <<"p", 0>>
OAcc == <<"o", 0>>
OpReads(op) ==
  CASE op[1] = "qk" -> {Q, Ring("k", op[2])}
    [] op[1] = "pv" -> {PBuf, Ring("v", op[2])} [] OTHER -> {}
OpWrites(op) ==
  CASE op[1] = "qk" -> {SReady(op[2])} [] op[1] = "pv" -> {OAcc} [] OTHER -> {}
SmxReads ==
  (IF smxPc \in {"mask", "seg", "aux", "pv", "store", "rescale", "p_ready"}
   THEN {SReady(smxStep)} ELSE {})
  \cup (IF smxPc \in {"seg", "aux"} /\ HasMask(smxStep)
        THEN {Ring("mask", smxStep)} ELSE {})
  \cup (IF smxPc = "aux" /\ call.segments THEN {Ring("seg", smxStep)} ELSE {})
  \cup (IF smxPc = "output" /\ n > 0 THEN {OAcc} ELSE {})
SmxWrites ==
  (IF smxPc \in {"store", "rescale", "p_ready"}
   THEN {PBuf} \cup (IF smxStep > 0 THEN {OAcc} ELSE {}) ELSE {})
  \cup (IF smxPc = "output" /\ call.reuseQ THEN {Q} ELSE {})

\* Ring slots, S buffers, P, O and q_smem, reused for the output, are handed
\* over only when their last user is done: no copy, MMA or softmax store in
\* flight writes what another is reading or writing.
NoRace ==
  /\ \A c \in copies \ {QSeg} :
       /\ \A d \in copies \ {c, QSeg} : CopyCell(c) # CopyCell(d)
       /\ \A op \in tc : CopyCell(c) \notin OpReads(op)
       /\ CopyCell(c) \notin SmxReads \cup SmxWrites
  /\ \A op \in tc :
       /\ \A other \in tc \ {op} :
            OpWrites(op) \cap (OpWrites(other) \cup OpReads(other)) = {}
       /\ OpWrites(op) \cap (SmxReads \cup SmxWrites) = {}
       /\ OpReads(op) \cap SmxWrites = {}

\* A slot is refilled only after the step it held was accumulated into O: the
\* release its thread waits for covers the slot's last user.
NoLostTile ==
  [][\A c \in Cells \ {Q} :
       smem'[c] # smem[c] /\ smem[c] # Undefined => smem[c] \in tmem.o.acc]_vars

\* No phase of a barrier is unobserved or half arrived when the CTA exits: "so
\* that every barrier phase is consumed before exit", says the drain loop.
CleanExit ==
  Finished => \A b \in Barriers : /\ left[b] = Arrivals[b]
                                  /\ \A w \in WaitersOf(b) : Lag(w, b) = 0

\* From outside, the CTA accumulates the steps of its row in order, each once
\* and from matching operands, and then writes them all out, once.  A wrong
\* accumulator maps to no abstract value.
Row == INSTANCE AttentionRow WITH
         numSteps <- n,
         acc <- IF tmem.o.acc = {} \/ tmem.o.ok THEN tmem.o.acc ELSE {Undefined},
         written <- [i \in DOMAIN out |->
                       IF out[i].ok THEN out[i].acc ELSE {Undefined}]
ImplementsRow == Row!Spec

\* The CTA ends: the warps never all wait on each other.
Termination == <>Finished
=============================================================================
