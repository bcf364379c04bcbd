--------------------------- MODULE ForwardProofs ---------------------------
(***************************************************************************)
(* Theorems about the forward kernel of ForwardKernel.tla, for every depth *)
(* of the ring, every row and every specialisation of the kernel: its      *)
(* variables have their types, its barriers stay within one phase of their *)
(* waiters, no buffer is written while another user has it, and the CTA    *)
(* exits with every phase observed.  TypeInv /\ RingInv is inductive.      *)
(*                                                                         *)
(* With TileInv they give what its tiles hold: none is overwritten before  *)
(* its step has been accumulated, and seen from outside a CTA walks its    *)
(* row as AttentionRow says.                                               *)
(***************************************************************************)
EXTENDS ForwardTiles, TLAPS

USE NumStagesAssumption, MaxStepsAssumption

LEMMA RingTypes ==
  ASSUME NEW s \in Nat
  PROVE  /\ s % NumStages \in Slots /\ s % 2 \in {0, 1}
         /\ \A name \in {"k", "v", "seg", "mask"} : Ring(name, s) \in Cells \cap Barriers
         /\ \A name \in {"kv_consumed", "aux_consumed"} : Ring(name, s) \in Barriers
         /\ SReady(s) \in Barriers /\ Q \in Cells \cap Barriers
         /\ PReady \in Barriers /\ PvDone \in Barriers
<1>1. s % NumStages \in Slots /\ s % 2 \in {0, 1}
  BY SMT DEF Slots
<1> QED
  BY <1>1, Zenon DEF Ring, SReady, Q, PReady, PvDone, Cells, Barriers

\* What a thread's counter says of its place in the row.
PcSteps ==
  /\ tmaPc = "q" => tmaStep = 0
  /\ tmaPc \in {"kv", "aux", "load", "drain", "drain_aux"} => tmaStep < n
  /\ mmaPc \in {"q", "qk0"} => mmaStep = 0
  /\ mmaPc \in {"qk0", "v", "p"} => mmaStep < n
  /\ mmaPc = "qk" => mmaStep + 1 < n
  /\ smxPc = "q" => smxStep = 0
  /\ smxPc \in {"s", "mask", "seg", "aux", "pv", "store", "rescale", "p_ready"}
       => smxStep < n

TypeInv == TypeOK /\ PcSteps

LEMMA ArriveType ==
  ASSUME BarTypeOK(Barriers, Threads), NEW b \in Barriers, ArriveOn(b)
  PROVE  BarTypeOK(Barriers, Threads)'
BY DEF BarTypeOK, ArriveOn, Arrive, Arrivals

LEMMA AwaitType ==
  ASSUME BarTypeOK(Barriers, Threads), NEW b \in Barriers, NEW w \in Threads,
         Await(w, b)
  PROVE  BarTypeOK(Barriers, Threads)'
BY DEF BarTypeOK, Await

LEMMA CallType ==
  ASSUME call \in Calls
  PROVE  n \in 0 .. MaxSteps /\ 0 .. n - 1 \subseteq Steps
BY DEF Calls, n, Steps

\* The initial state.
LEMMA InitType == Init => TypeInv
<1> SUFFICES ASSUME Init PROVE TypeInv
  OBVIOUS
<1>1. BarTypeOK(Barriers, Threads)
  BY DEF Init, InitBarriers, BarTypeOK, Arrivals
<1>2. n \in 0 .. MaxSteps
  BY CallType DEF Init
<1>3. out \in Seq(Accs)
  BY DEF Init
<1>4. tmem \in [s : [{0, 1} -> Steps \cup {Undefined}],
                p : [step : Steps \cup {Undefined}, ver : Nat], o : Accs]
  BY DEF Init, Accs
<1>5. regs \in [tile : Steps \cup {Undefined}, ver : Nat, o : Accs]
  BY DEF Init, Accs
<1> QED
  BY <1>1, <1>2, <1>3, <1>4, <1>5 DEF Init, TypeInv, TypeOK, PcSteps

\* The engines.
LEMMA CopyEngineType == TypeInv /\ CopyEngine => TypeInv'
<1> SUFFICES ASSUME TypeInv, NEW c \in copies,
                    copies' = copies \ {c},
                    smem' = IF c = QSeg THEN smem
                            ELSE [smem EXCEPT ![CopyCell(c)] = c[2]],
                    ArriveOn(CopyCell(c)),
                    UNCHANGED <<call, threadVars, regs, tc, tmem, out>>
             PROVE  TypeInv'
  BY DEF CopyEngine
<1>1. CopyCell(c) \in Cells \cap Barriers /\ (c = QSeg \/ c[2] \in Steps \cup {0})
  <2>1. CASE c \in {Q, QSeg}
    BY <2>1 DEF CopyCell, Q, QSeg, Cells, Barriers
  <2>2. CASE c \in {"k", "v", "seg", "mask"} \X (0 .. n - 1)
    BY <2>2, RingTypes, CallType DEF CopyCell, TypeInv, TypeOK, Steps
  <2> QED
    BY <2>1, <2>2 DEF TypeInv, TypeOK
<1>2. BarTypeOK(Barriers, Threads)'
  BY <1>1, ArriveType DEF TypeInv, TypeOK
<1>3. smem' \in [Cells -> Steps \cup {0, Undefined}]
  BY <1>1 DEF TypeInv, TypeOK
<1> QED
  BY <1>2, <1>3 DEF TypeInv, TypeOK, PcSteps, threadVars, n

LEMMA TensorCoreType == TypeInv /\ TensorCore => TypeInv'
<1> SUFFICES ASSUME TypeInv, NEW s \in Steps,
                    QkRetires(s) \/ PvRetires(s) \/ CommitRetires(s),
                    UNCHANGED <<call, threadVars, regs, copies, smem, out>>
             PROVE  TypeInv'
  BY DEF TensorCore
<1>1. CASE QkRetires(s)
  <2>1. BarTypeOK(Barriers, Threads)'
    BY <1>1, RingTypes, ArriveType DEF TypeInv, TypeOK, QkRetires, Steps
  <2>2. tmem' \in [s : [{0, 1} -> Steps \cup {Undefined}],
                   p : [step : Steps \cup {Undefined}, ver : Nat], o : Accs]
    BY <1>1 DEF TypeInv, TypeOK, QkRetires
  <2> QED
    BY <1>1, <2>1, <2>2 DEF TypeInv, TypeOK, PcSteps, threadVars, n, QkRetires
<1>2. CASE PvRetires(s)
  <2>1. BarTypeOK(Barriers, Threads)'
    BY <1>2, RingTypes, ArriveType DEF TypeInv, TypeOK, PvRetires, Steps
  <2>2. tmem' \in [s : [{0, 1} -> Steps \cup {Undefined}],
                   p : [step : Steps \cup {Undefined}, ver : Nat], o : Accs]
    BY <1>2 DEF TypeInv, TypeOK, PvRetires, Accs
  <2> QED
    BY <1>2, <2>1, <2>2 DEF TypeInv, TypeOK, PcSteps, threadVars, n, PvRetires
<1>3. CASE CommitRetires(s)
  <2>1. BarTypeOK(Barriers, Threads)'
    BY <1>3, RingTypes, ArriveType DEF TypeInv, TypeOK, CommitRetires, Steps
  <2> QED
    BY <1>3, <2>1 DEF TypeInv, TypeOK, PcSteps, threadVars, n, CommitRetires
<1> QED
  BY <1>1, <1>2, <1>3

\* The threads.
LEMMA TmaWarpType == TypeInv /\ TmaWarp => TypeInv'
<1> SUFFICES ASSUME TypeInv, TmaWarp PROVE TypeInv'
  OBVIOUS
<1> USE DEF TypeInv, TypeOK
<1>0. n \in Nat /\ n' = n /\ tmaStep \in Nat
  BY CallType DEF TmaWarp, n
<1>1. BarTypeOK(Barriers, Threads)'
  BY <1>0, RingTypes, AwaitType DEF TmaWarp, TmaLoadQ, TmaAwaitKv, TmaAwaitAux,
     TmaLoad, TmaDrainKv, TmaDrainAux, Threads, barVars, BarTypeOK
<1>2. ASSUME NEW s \in 0 .. n, TmaDrain(s)
      PROVE  /\ tmaPc' \in {"drain", "done"} /\ tmaStep' \in 0 .. n
             /\ tmaPc' = "drain" => tmaStep' < n
  BY <1>0, <1>2 DEF TmaDrain
<1>3. ASSUME NEW s \in 0 .. n, TmaEnter(s)
      PROVE  /\ tmaPc' \in {"kv", "load", "drain", "done"} /\ tmaStep' \in 0 .. n
             /\ tmaPc' # "done" => tmaStep' < n
  BY <1>0, <1>3 DEF TmaEnter, TmaDrain, DrainStart, LastStep, MustWait
<1>4. /\ tmaPc' \in {"kv", "aux", "load", "drain", "drain_aux", "done"}
      /\ tmaStep' \in 0 .. n
      /\ tmaPc' # "done" => tmaStep' < n
  BY <1>0, <1>2, <1>3 DEF TmaWarp, TmaLoadQ, TmaAwaitKv, TmaAwaitAux, AfterKv,
     TmaLoad, TmaDrainKv, TmaDrainAux, PcSteps
<1>5. copies' \subseteq {Q, QSeg} \cup ({"k", "v", "seg", "mask"} \X (0 .. n - 1))
  BY <1>0 DEF TmaWarp, TmaLoadQ, TmaAwaitKv, TmaAwaitAux,
     TmaLoad, TmaDrainKv, TmaDrainAux, PcSteps
<1> QED
  BY <1>0, <1>1, <1>4, <1>5 DEF TmaWarp, PcSteps

LEMMA MmaWarpType == TypeInv /\ MmaWarp => TypeInv'
<1> SUFFICES ASSUME TypeInv, MmaWarp PROVE TypeInv'
  OBVIOUS
<1> USE DEF TypeInv, TypeOK
<1>0. n \in Nat /\ n' = n /\ mmaStep \in Nat /\ 0 \in Nat /\ mmaStep + 1 \in Nat
  BY CallType DEF MmaWarp, n
<1>1. BarTypeOK(Barriers, Threads)'
  BY <1>0, RingTypes, AwaitType DEF MmaWarp, MmaAwaitQ, MmaIssueQk, IssueQk,
     MmaAwaitV, MmaIssuePv, Threads
<1>2. ASSUME NEW s \in 0 .. n
      PROVE  /\ MmaTop(s) \in {"qk", "v", "done"}
             /\ MmaTop(s) = "qk" => s + 1 < n
             /\ MmaTop(s) = "v" => s < n
  BY <1>0, <1>2 DEF MmaTop
<1>3. /\ mmaPc' \in {"q", "qk0", "qk", "v", "p", "done"}
      /\ mmaStep' \in 0 .. n
      /\ mmaPc' \in {"q", "qk0"} => mmaStep' = 0
      /\ mmaPc' \in {"qk0", "v", "p"} => mmaStep' < n
      /\ mmaPc' = "qk" => mmaStep' + 1 < n
  BY <1>0, <1>2 DEF MmaWarp, MmaAwaitQ, MmaIssueQk, MmaAwaitV, MmaIssuePv, PcSteps
<1>4. tc' \subseteq {"qk", "pv", "commit"} \X (0 .. n - 1)
  BY <1>0 DEF MmaWarp, MmaAwaitQ, MmaIssueQk, IssueQk, MmaAwaitV, MmaIssuePv, PcSteps
<1>5. UNCHANGED <<call, tmaPc, tmaStep, smxPc, smxStep, regs, copies, smem, tmem, out>>
  BY DEF MmaWarp
<1>6. PcSteps'
  BY <1>0, <1>3, <1>5 DEF PcSteps
<1>7. TypeOK'
  BY <1>0, <1>1, <1>3, <1>4, <1>5
<1> QED
  BY <1>6, <1>7

LEMMA SmxPcType ==
  ASSUME n \in Nat, NEW s \in 0 .. n
  PROVE  /\ SmxTop(s) \in {"s", "last_pv", "output"} /\ (SmxTop(s) = "s" => s < n)
         /\ PvPc(s) \in {"pv", "store"}
         /\ AuxPc(s) \in {"aux", "pv", "store"}
         /\ SegPc(s) \in {"seg", "aux", "pv", "store"}
         /\ MaskPc(s) \in {"mask", "seg", "aux", "pv", "store"}
BY DEF SmxTop, PvPc, AuxPc, SegPc, MaskPc

LEMMA SoftmaxWgType == TypeInv /\ SoftmaxWg => TypeInv'
<1> SUFFICES ASSUME TypeInv, SoftmaxWg PROVE TypeInv'
  OBVIOUS
<1> USE DEF TypeInv, TypeOK
<1>0. n \in Nat /\ n' = n /\ smxStep \in Nat /\ smxStep \in 0 .. n
  BY CallType DEF SoftmaxWg, n
<1>1. BarTypeOK(Barriers, Threads)'
  BY <1>0, RingTypes, AwaitType, ArriveType DEF SoftmaxWg, SmxAwaitQ, SmxLoad,
     Combine, SmxReleaseAux, SmxAwaitPv, SmxStoreP, SmxRescaleO, SmxArriveP,
     SmxReadO, SmxOutput, Threads, barVars, BarTypeOK
<1>2. /\ smxPc' \in {"q", "s", "mask", "seg", "aux", "pv", "store", "rescale",
                     "p_ready", "last_pv", "output", "done"}
      /\ smxStep' \in 0 .. n
      /\ smxPc' = "q" => smxStep' = 0
      /\ smxPc' \in {"s", "mask", "seg", "aux", "pv", "store", "rescale", "p_ready"}
           => smxStep' < n
  BY <1>0, SmxPcType DEF SoftmaxWg, SmxAwaitQ, SmxLoad, Combine, SmxReleaseAux,
     SmxAwaitPv, SmxStoreP, AfterStore, SmxRescaleO, SmxArriveP, SmxReadO,
     SmxOutput, PcSteps
<1>3. smem' \in [Cells -> Steps \cup {0, Undefined}]
  BY DEF SoftmaxWg, SmxAwaitQ, SmxLoad, Combine, SmxReleaseAux, SmxAwaitPv,
     SmxStoreP, SmxRescaleO, SmxArriveP, SmxReadO, SmxOutput
<1>4. tmem' \in [s : [{0, 1} -> Steps \cup {Undefined}],
                 p : [step : Steps \cup {Undefined}, ver : Nat], o : Accs]
  <2>1. CASE SmxStoreP
    BY <2>1 DEF SmxStoreP
  <2>2. CASE SmxRescaleO
    <3>1. tmem.o.ver + 1 \in Nat
      BY DEF Accs
    <3> QED
      BY <2>2, <3>1 DEF SmxRescaleO, Accs
  <2> QED
    BY <2>1, <2>2 DEF SoftmaxWg, SmxAwaitQ, SmxLoad, Combine, SmxReleaseAux,
       SmxAwaitPv, SmxArriveP, SmxReadO, SmxOutput
<1>5. regs' \in [tile : Steps \cup {Undefined}, ver : Nat, o : Accs]
  <2>1. CASE SmxLoad
    BY <2>1, <1>0, RingTypes DEF SmxLoad, Combine, Matching
  <2>2. CASE SmxStoreP
    <3>1. PICK ver \in {regs.ver, regs.ver + 1} : regs' = [regs EXCEPT !.ver = ver]
      BY <2>2 DEF SmxStoreP
    <3>2. ver \in Nat
      BY <3>1
    <3> QED
      BY <3>1, <3>2
  <2>3. CASE SmxReadO
    BY <2>3 DEF SmxReadO, Accs
  <2> QED
    BY <2>1, <2>2, <2>3 DEF SoftmaxWg, SmxAwaitQ, SmxReleaseAux,
       SmxAwaitPv, SmxRescaleO, SmxArriveP, SmxOutput
<1>6. out' \in Seq(Accs)
  <2>1. regs.o \in Accs
    OBVIOUS
  <2>2. CASE SmxOutput
    BY <2>1, <2>2 DEF SmxOutput
  <2> QED
    BY <2>2 DEF SoftmaxWg, SmxAwaitQ, SmxLoad, Combine, SmxReleaseAux,
       SmxAwaitPv, SmxStoreP, SmxRescaleO, SmxArriveP, SmxReadO
<1> QED
  BY <1>0, <1>1, <1>2, <1>3, <1>4, <1>5, <1>6 DEF SoftmaxWg, PcSteps

LEMMA NextType == TypeInv /\ [Next]_vars => TypeInv'
<1> SUFFICES ASSUME TypeInv, [Next]_vars PROVE TypeInv'
  OBVIOUS
<1>1. CASE UNCHANGED vars
  BY <1>1 DEF vars, threadVars, barVars, TypeInv, TypeOK, PcSteps, BarTypeOK, n
<1> QED
  BY <1>1, CopyEngineType, TensorCoreType, TmaWarpType, MmaWarpType,
     SoftmaxWgType DEF Next, Exited

\* Type correctness: every thread's place and step, every tag and every
\* barrier's counters keep the type they are declared with.
THEOREM TypeCorrect == Spec => []TypeOK
<1>1. TypeInv => TypeOK
  BY DEF TypeInv
<1> QED
  BY <1>1, InitType, NextType, PTL DEF Spec

-----------------------------------------------------------------------------
RInv == TypeInv /\ RingInv

LEMMA FamilyTypes ==
  ASSUME NEW f \in Families
  PROVE  /\ Depth(f) \in Nat \ {0} /\ WaiterOf(f) \in Threads
         /\ \A i \in 0 .. Depth(f) - 1 : <<f, i>> \in Barriers \ {Q}
         /\ \A s \in Nat : s % Depth(f) \in 0 .. Depth(f) - 1
<1>1. Depth(f) \in Nat \ {0} /\ WaiterOf(f) \in Threads
  BY DEF Families, Depth, WaiterOf, Threads
<1>2. ASSUME NEW i \in 0 .. Depth(f) - 1 PROVE <<f, i>> \in Barriers \ {Q}
  <2>1. CASE f \in {"k", "v", "seg", "mask", "kv_consumed", "aux_consumed"}
    BY <2>1, <1>2 DEF Depth, Barriers, Slots, Q
  <2>2. CASE f \in {"p_ready", "pv_done", "s_ready"}
    <3>1. i = 0 \/ (f = "s_ready" /\ i = 1)
      BY <2>2, <1>2 DEF Depth
    <3> QED
      BY <2>2, <3>1 DEF Barriers, Q, PReady, PvDone
  <2> QED
    BY <2>1, <2>2 DEF Families
<1> QED
  BY <1>1, <1>2, SlotRange

\* The barrier of step s in each family.
LEMMA BarrierOf ==
  ASSUME NEW s \in Nat
  PROVE  /\ \A f \in {"k", "v", "seg", "mask", "kv_consumed", "aux_consumed"} :
              Ring(f, s) = <<f, s % Depth(f)>>
         /\ SReady(s) = <<"s_ready", s % Depth("s_ready")>>
         /\ PReady = <<"p_ready", s % Depth("p_ready")>>
         /\ PvDone = <<"pv_done", s % Depth("pv_done")>>
<1>1. s % 1 = 0
  BY SlotRange
<1> QED
  BY <1>1 DEF Ring, SReady, PReady, PvDone, Depth
-----------------------------------------------------------------------------
LEMMA LagDomain ==
  ASSUME NEW f
  PROVE  /\ RingLag(f) = [i \in 0 .. Depth(f) - 1 |-> RingLag(f)[i]]
         /\ RingLag(f)' = [i \in 0 .. Depth(f) - 1 |-> RingLag(f)'[i]]
BY DEF RingLag

\* Barrier operations as steps of a family's lag.
LEMMA ArriveRing ==
  ASSUME BarTypeOK(Barriers, Threads), Whole, NEW f \in Families,
         NEW j \in 0 .. Depth(f) - 1, ArriveOn(<<f, j>>)
  PROVE  /\ RingLag(f)' = [RingLag(f) EXCEPT ![j] = @ + 1]
         /\ \A g \in Families \ {f} : RingLag(g)' = RingLag(g)
         /\ UNCHANGED <<left, seen, done[Q]>>
<1>1. <<f, j>> \in Barriers \ {Q}
  BY FamilyTypes
<1>2. left[<<f, j>>] = 1 /\ Arrivals[<<f, j>>] = 1
  BY <1>1 DEF Whole, Arrivals
<1>3. /\ done' = [done EXCEPT ![<<f, j>>] = @ + 1]
      /\ UNCHANGED <<left, seen>>
  BY <1>1, <1>2 DEF ArriveOn, Arrive, BarTypeOK
<1>4. UNCHANGED done[Q]
  BY <1>1, <1>3
<1>5. ASSUME NEW g \in Families \ {f} PROVE RingLag(g)' = RingLag(g)
  BY <1>3, FamilyTypes DEF RingLag, Lag
<1>6. \A b \in Barriers : done'[b] = IF b = <<f, j>> THEN done[b] + 1 ELSE done[b]
  BY <1>1, <1>3 DEF BarTypeOK
<1>7. RingLag(f)' = [RingLag(f) EXCEPT ![j] = @ + 1]
  <2>1. ASSUME NEW i \in 0 .. Depth(f) - 1
        PROVE  RingLag(f)'[i] = IF i = j THEN RingLag(f)[i] + 1 ELSE RingLag(f)[i]
    <3> DEFINE b == <<f, i>>
               w == WaiterOf(f)
    <3>1. b \in Barriers /\ done[b] \in Int /\ seen[w][b] \in Int
      BY FamilyTypes DEF BarTypeOK
    <3>2. done'[b] = IF i = j THEN done[b] + 1 ELSE done[b]
      BY <1>6, <3>1
    <3>3. RingLag(f)'[i] = done'[b] - seen[w][b] /\ RingLag(f)[i] = done[b] - seen[w][b]
      BY <1>3 DEF RingLag, Lag
    <3> QED
      BY <3>1, <3>2, <3>3
  <2> QED
    BY <2>1, LagDomain
<1> QED
  BY <1>3, <1>4, <1>5, <1>7

LEMMA AwaitRing ==
  ASSUME BarTypeOK(Barriers, Threads), NEW f \in Families,
         NEW j \in 0 .. Depth(f) - 1, Await(WaiterOf(f), <<f, j>>)
  PROVE  /\ RingLag(f)[j] # 0
         /\ RingLag(f)' = [RingLag(f) EXCEPT ![j] = @ - 1]
         /\ \A g \in Families \ {f} : RingLag(g)' = RingLag(g)
         /\ UNCHANGED <<left, done>>
         /\ \A w \in Threads : UNCHANGED seen[w][Q]
<1> DEFINE w == WaiterOf(f)
<1>1. <<f, j>> \in Barriers \ {Q} /\ w \in Threads
  BY FamilyTypes
<1>2. /\ seen' = [seen EXCEPT ![w] = [seen[w] EXCEPT ![<<f, j>>] = @ + 1]]
      /\ UNCHANGED <<left, done>>
      /\ done[<<f, j>>] # seen[w][<<f, j>>]
  BY DEF Await
<1>3. done[<<f, j>>] \in Int /\ seen[w][<<f, j>>] \in Int
  BY <1>1 DEF BarTypeOK
<1>4. RingLag(f)[j] # 0
  BY <1>2, <1>3 DEF RingLag, Lag
<1>5. \A v \in Threads : \A b \in Barriers :
         seen'[v][b] = IF v = w /\ b = <<f, j>> THEN seen[v][b] + 1 ELSE seen[v][b]
  BY <1>1, <1>2 DEF BarTypeOK
<1>6. ASSUME NEW g \in Families \ {f} PROVE RingLag(g)' = RingLag(g)
  <2>1. \A i \in 0 .. Depth(g) - 1 : seen'[WaiterOf(g)][<<g, i>>] = seen[WaiterOf(g)][<<g, i>>]
    BY <1>5, FamilyTypes
  <2> QED
    BY <2>1, <1>2 DEF RingLag, Lag
<1>7. RingLag(f)' = [RingLag(f) EXCEPT ![j] = @ - 1]
  <2>1. ASSUME NEW i \in 0 .. Depth(f) - 1
        PROVE  RingLag(f)'[i] = IF i = j THEN RingLag(f)[i] - 1 ELSE RingLag(f)[i]
    <3> DEFINE b == <<f, i>>
    <3>1. b \in Barriers /\ done[b] \in Int /\ seen[w][b] \in Int
      BY <1>1, FamilyTypes DEF BarTypeOK
    <3>2. seen'[w][b] = IF i = j THEN seen[w][b] + 1 ELSE seen[w][b]
      BY <1>1, <1>5, <3>1
    <3>3. RingLag(f)'[i] = done[b] - seen'[w][b] /\ RingLag(f)[i] = done[b] - seen[w][b]
      BY <1>2 DEF RingLag, Lag
    <3> QED
      BY <3>1, <3>2, <3>3
  <2> QED
    BY <2>1, LagDomain
<1>8. \A v \in Threads : UNCHANGED seen[v][Q]
  BY <1>1, <1>5 DEF Barriers
<1> QED
  BY <1>2, <1>4, <1>6, <1>7, <1>8

\* Q's barrier is in no family.
LEMMA QRing ==
  ASSUME BarTypeOK(Barriers, Threads), NEW w \in Threads, Await(w, Q) \/ ArriveOn(Q)
  PROVE  /\ \A g \in Families : RingLag(g)' = RingLag(g)
         /\ \A b \in Barriers \ {Q} : UNCHANGED left[b]
<1>1. ASSUME NEW v \in Threads, NEW b \in Barriers \ {Q}
      PROVE  UNCHANGED <<left[b], done[b], seen[v][b]>>
  BY DEF BarTypeOK, Await, ArriveOn, Arrive
<1>2. ASSUME NEW g \in Families PROVE RingLag(g)' = RingLag(g)
  BY <1>1, FamilyTypes DEF RingLag, Lag
<1> QED
  BY <1>1, <1>2 DEF Threads
-----------------------------------------------------------------------------
\* The order of the threads' progress bounds every window by its ring.
LEMMA Progress ==
  ASSUME TypeInv, PcFacts, Order
  PROVE  /\ n \in Nat /\ tmaStep \in Nat /\ mmaStep \in Nat /\ smxStep \in Nat
         /\ KvFree \in Nat /\ AuxFree \in Nat /\ Loaded \in Nat /\ QkIssued \in Nat
         /\ VSeen \in Nat /\ PvSeen \in Nat
         /\ \A pcs : Past(pcs) \in {smxStep, smxStep + 1}
         /\ \A pcs \in {AfterMask, AfterSeg, AfterAux} :
              Past(pcs) <= Past(AfterS)
         /\ AuxFree <= KvFree /\ KvFree <= mmaStep /\ mmaStep <= smxStep
         /\ smxStep <= mmaStep + 1 /\ mmaStep <= VSeen /\ VSeen <= QkIssued
         /\ Past(AfterS) <= QkIssued /\ QkIssued <= Loaded /\ Loaded <= n
         /\ QkIssued <= mmaStep + 2
         /\ PvSeen <= mmaStep /\ smxStep <= PvSeen + 1
         /\ Loaded <= AuxFree + NumStages
<1>1. n \in Nat /\ tmaStep \in 0 .. n /\ mmaStep \in 0 .. n /\ smxStep \in 0 .. n
  BY CallType DEF TypeInv, TypeOK
<1>2. /\ KvFree \in Nat /\ AuxFree \in Nat /\ Loaded \in Nat /\ Loaded <= n
      /\ AuxFree <= KvFree /\ Loaded <= AuxFree + NumStages
  <2>1. CASE tmaPc \in {"q", "load"}
    BY <1>1, <2>1 DEF KvFree, AuxFree, Loaded
  <2>2. CASE tmaPc \in {"kv", "aux"}
    BY <1>1, <2>2 DEF KvFree, AuxFree, Loaded, PcFacts, TypeInv, PcSteps
  <2>3. CASE tmaPc \in {"drain", "drain_aux"}
    BY <1>1, <2>3 DEF KvFree, AuxFree, Loaded, PcFacts, TypeInv, PcSteps
  <2>4. CASE tmaPc = "done"
    BY <1>1, <2>4 DEF KvFree, AuxFree, Loaded
  <2> QED
    BY <2>1, <2>2, <2>3, <2>4 DEF TypeInv, TypeOK
<1>3. /\ QkIssued \in Nat /\ VSeen \in Nat /\ QkIssued <= mmaStep + 2
      /\ mmaStep <= VSeen /\ VSeen <= QkIssued
  <2>1. CASE mmaPc \in {"q", "qk0", "qk"}
    BY <1>1, <2>1 DEF QkIssued, VSeen, TypeInv, PcSteps
  <2>2. CASE mmaPc \in {"v", "p", "done"}
    BY <1>1, <2>2 DEF QkIssued, VSeen, TypeInv, PcSteps
  <2> QED
    BY <2>1, <2>2 DEF TypeInv, TypeOK
<1>4. /\ \A pcs : Past(pcs) \in {smxStep, smxStep + 1}
      /\ \A pcs \in {AfterMask, AfterSeg, AfterAux} : Past(pcs) <= Past(AfterS)
  BY <1>1 DEF Past, AfterS, AfterMask, AfterSeg, AfterAux, AfterPv
<1>5. PvSeen \in Nat /\ smxStep <= PvSeen + 1
  BY <1>1 DEF PvSeen
<1> QED
  BY <1>1, <1>2, <1>3, <1>4, <1>5 DEF Order

LEMMA WindowBounds ==
  ASSUME TypeInv, PcFacts, Order, NEW f \in Families
  PROVE  /\ Lo(f) \in Nat /\ Hi(f) \in Nat /\ Hi(f) <= Lo(f) + Depth(f)
         /\ Hi(f) <= n
         /\ Up(f) \subseteq Lo(f) .. Hi(f) - 1
<1>0. Up(f) \subseteq Lo(f) .. Hi(f) - 1
  BY DEF Up, Window
<1> HIDE DEF Up
<1>1. CASE f \in {"k", "v"}
  BY <1>0, <1>1, Progress DEF Lo, Hi, Depth
<1>2. CASE f = "seg"
  BY <1>0, <1>2, Progress DEF Lo, Hi, Depth
<1>3. CASE f = "mask"
  BY <1>0, <1>3, Progress DEF Lo, Hi, Depth
<1>4. CASE f = "kv_consumed"
  BY <1>0, <1>4, Progress DEF Lo, Hi, Depth
<1>5. CASE f = "aux_consumed"
  BY <1>0, <1>5, Progress DEF Lo, Hi, Depth
<1>6. CASE f \in {"s_ready", "p_ready", "pv_done"}
  BY <1>0, <1>6, Progress DEF Lo, Hi, Depth
<1> QED
  BY <1>0, <1>1, <1>2, <1>3, <1>4, <1>5, <1>6 DEF Families
-----------------------------------------------------------------------------
\* What a step does to the lags, given what it does to the steps that are up.
LEMMA QuietLags ==
  ASSUME Lags, \A g \in Families : RingLag(g)' = RingLag(g) /\ Up(g)' = Up(g)
  PROVE  Lags'
BY DEF Lags

LEMMA SignalLags ==
  ASSUME TypeInv, PcFacts, Order, Lags, Whole,
         NEW f \in Families, NEW hi \in Nat, hi <= Lo(f) + Depth(f), Hi(f) <= hi,
         NEW s \in Lo(f) .. hi - 1, s \notin Up(f),
         ArriveOn(<<f, s % Depth(f)>>),
         Up(f)' = Up(f) \cup {s}, \A g \in Families \ {f} : Up(g)' = Up(g)
  PROVE  Lags' /\ Whole' /\ UNCHANGED <<left, seen, done[Q]>>
<1>1. Lo(f) \in Nat /\ s \in Nat /\ Up(f) \in SUBSET (Lo(f) .. hi - 1)
  BY WindowBounds
<1>2. /\ RingLag(f)' = [RingLag(f) EXCEPT ![s % Depth(f)] = @ + 1]
      /\ \A g \in Families \ {f} : RingLag(g)' = RingLag(g)
      /\ UNCHANGED <<left, seen, done[Q]>>
  BY <1>1, FamilyTypes, ArriveRing DEF TypeInv, TypeOK
<1>3. Encodes(RingLag(f), Depth(f), Up(f))
  BY DEF Lags
<1>4. Encodes([RingLag(f) EXCEPT ![s % Depth(f)] = @ + 1], Depth(f), Up(f) \cup {s})
  BY <1>1, <1>3, FamilyTypes, LagDomain, Signalled
<1> QED
  BY <1>2, <1>4 DEF Lags, Whole

LEMMA ObservedIsUp ==
  ASSUME TypeInv, PcFacts, Order, Lags, NEW f \in Families,
         Await(WaiterOf(f), <<f, Lo(f) % Depth(f)>>)
  PROVE  /\ Lo(f) \in Up(f) /\ Lo(f) < Hi(f)
         /\ Encodes([RingLag(f) EXCEPT ![Lo(f) % Depth(f)] = @ - 1], Depth(f),
                    Up(f) \ {Lo(f)})
<1>1. Lo(f) \in Nat /\ Lo(f) % Depth(f) \in 0 .. Depth(f) - 1
  BY FamilyTypes, WindowBounds
<1>2. RingLag(f)[Lo(f) % Depth(f)] # 0
  BY <1>1, AwaitRing DEF TypeInv, TypeOK
<1>3. Encodes(RingLag(f), Depth(f), Up(f))
  BY DEF Lags
<1>4. /\ Lo(f) \in Up(f)
      /\ Encodes([RingLag(f) EXCEPT ![Lo(f) % Depth(f)] = @ - 1], Depth(f),
                 Up(f) \ {Lo(f)})
  BY <1>1, <1>2, <1>3, FamilyTypes, WindowBounds, LagDomain, Observed
<1> QED
  BY <1>4, WindowBounds

LEMMA ObserveLags ==
  ASSUME TypeInv, PcFacts, Order, Lags, Whole, NEW f \in Families,
         Await(WaiterOf(f), <<f, Lo(f) % Depth(f)>>),
         Up(f)' = Up(f) \ {Lo(f)}, \A g \in Families \ {f} : Up(g)' = Up(g)
  PROVE  /\ Lags' /\ Whole' /\ UNCHANGED <<left, done>>
         /\ \A w \in Threads : UNCHANGED seen[w][Q]
<1>1. Lo(f) \in Nat /\ Lo(f) % Depth(f) \in 0 .. Depth(f) - 1
  BY FamilyTypes, WindowBounds
<1>2. /\ RingLag(f)' = [RingLag(f) EXCEPT ![Lo(f) % Depth(f)] = @ - 1]
      /\ \A g \in Families \ {f} : RingLag(g)' = RingLag(g)
      /\ UNCHANGED <<left, done>>
      /\ \A w \in Threads : UNCHANGED seen[w][Q]
  BY <1>1, AwaitRing DEF TypeInv, TypeOK
<1> QED
  BY <1>2, ObservedIsUp DEF Lags, Whole

\* What a step does to a family's window: nothing, ...
LEMMA SameUp ==
  ASSUME NEW f \in Families, Placed(f), UNCHANGED <<call, Lo(f), Hi(f)>>,
         \A s : InFlight(f, s)' <=> InFlight(f, s)
  PROVE  Up(f)' = Up(f) /\ Placed(f)'
BY DEF Up, Window, Uses, HasMask, HasAux, Placed, n

\* ... its first step, which was up, is observed, ...
LEMMA ObserveUp ==
  ASSUME TypeInv, PcFacts, Order, NEW f \in Families, Placed(f), Lo(f) \in Up(f),
         UNCHANGED <<call, Hi(f)>>, Lo(f)' = Lo(f) + 1,
         \A s : InFlight(f, s)' <=> InFlight(f, s)
  PROVE  Up(f)' = Up(f) \ {Lo(f)} /\ Placed(f)'
<1>1. Lo(f) \in Nat /\ Hi(f) \in Nat
  BY WindowBounds
<1>2. \A s : Uses(f, s)' = Uses(f, s)
  BY DEF Uses, HasMask, HasAux
<1>3. Window(f)' = Window(f) \ {Lo(f)}
  BY <1>1 DEF Window
<1> QED
  BY <1>2, <1>3 DEF Up, Placed, n

\* ... its first step, which has no signal, is passed over, ...
LEMMA SkipUp ==
  ASSUME TypeInv, PcFacts, Order, NEW f \in Families, Placed(f), ~Uses(f, Lo(f)),
         UNCHANGED <<call, Hi(f)>>, Lo(f)' = Lo(f) + 1,
         \A s : InFlight(f, s)' <=> InFlight(f, s)
  PROVE  Up(f)' = Up(f) /\ Placed(f)'
<1>1. Lo(f) \in Nat /\ Hi(f) \in Nat
  BY WindowBounds
<1>2. \A s : Uses(f, s)' = Uses(f, s)
  BY DEF Uses, HasMask, HasAux
<1>3. Window(f)' = Window(f) \ {Lo(f)}
  BY <1>1 DEF Window
<1> QED
  BY <1>2, <1>3 DEF Up, Placed, n

\* ... or a step is added at its end, whose signal is to come, unless it has none.
LEMMA AnnounceUp ==
  ASSUME TypeInv, PcFacts, Order, NEW f \in Families, Placed(f), Lo(f) <= Hi(f),
         UNCHANGED <<call, Lo(f)>>, Hi(f)' = Hi(f) + 1,
         NEW h, h = Hi(f), InFlight(f, h)' <=> Uses(f, h),
         \A s : s # h => (InFlight(f, s)' <=> InFlight(f, s))
  PROVE  Up(f)' = Up(f) /\ Placed(f)'
<1>1. Lo(f) \in Nat /\ Hi(f) \in Nat
  BY WindowBounds
<1>2. \A s : Uses(f, s)' = Uses(f, s)
  BY DEF Uses, HasMask, HasAux
<1>3. Window(f)' = Window(f) \cup {h} /\ h \notin Window(f)
  BY <1>1 DEF Window
<1> QED
  BY <1>2, <1>3 DEF Up, Placed, n

\* Work in flight for a step lands, and the step is up.
LEMMA LandUp ==
  ASSUME TypeInv, PcFacts, Order, NEW f \in Families, Placed(f),
         UNCHANGED <<call, Lo(f), Hi(f)>>,
         NEW s \in 0 .. n - 1, InFlight(f, s), ~InFlight(f, s)',
         \A t : t # s => (InFlight(f, t)' <=> InFlight(f, t))
  PROVE  /\ s \in Window(f) /\ s \notin Up(f)
         /\ Up(f)' = Up(f) \cup {s} /\ Placed(f)'
<1>1. s \in Window(f) /\ Uses(f, s) /\ s \notin Up(f)
  BY DEF Placed, Up
<1>2. \A t : Uses(f, t)' = Uses(f, t)
  BY DEF Uses, HasMask, HasAux
<1>3. Window(f)' = Window(f)
  BY DEF Window
<1> QED
  BY <1>1, <1>2, <1>3 DEF Up, Placed, n

LEMMA FlightOf ==
  ASSUME NEW s
  PROVE  /\ \A f \in {"k", "v", "seg", "mask"} :
              /\ InFlight(f, s) <=> <<f, s>> \in copies
              /\ InFlight(f, s)' <=> <<f, s>> \in copies'
         /\ \A f \in {"s_ready", "kv_consumed", "pv_done"} :
              /\ InFlight(f, s) <=> <<Op(f), s>> \in tc
              /\ InFlight(f, s)' <=> <<Op(f), s>> \in tc'
         /\ \A f \in {"aux_consumed", "p_ready"} : ~InFlight(f, s) /\ ~InFlight(f, s)'
         /\ Op("s_ready") = "qk" /\ Op("kv_consumed") = "pv" /\ Op("pv_done") = "commit"
BY DEF InFlight, Op

\* Windows is kept when the windows are, and the PVs and commits in flight.
LEMMA WindowsKept ==
  ASSUME \A f \in Families : Placed(f)', UNCHANGED n,
         \A s \in 0 .. n - 1 :
           InFlight("kv_consumed", s)' => InFlight("pv_done", s)'
  PROVE  Windows'
BY DEF Windows

\* The threads alone move the windows.
LEMMA ThreadsStill ==
  ASSUME UNCHANGED <<call, threadVars>>
  PROVE  /\ \A f : Lo(f)' = Lo(f) /\ Hi(f)' = Hi(f)
         /\ PcFacts => PcFacts'
         /\ Order => Order'
<1>1. UNCHANGED <<n, KvFree, AuxFree, Loaded, QkIssued, VSeen, PvSeen>>
  BY DEF threadVars, KvFree, AuxFree, Loaded, QkIssued, VSeen, PvSeen, n
<1>2. \A pcs : Past(pcs)' = Past(pcs)
  BY DEF threadVars, Past
<1>3. \A f : Lo(f)' = Lo(f) /\ Hi(f)' = Hi(f)
  BY <1>1, <1>2 DEF threadVars, Lo, Hi
<1>4. PcFacts => PcFacts'
  BY <1>1 DEF threadVars, PcFacts, HasAux, HasMask
<1>5. Order => Order'
  BY <1>1, <1>2 DEF threadVars, Order
<1> QED
  BY <1>3, <1>4, <1>5
-----------------------------------------------------------------------------
\* The initial state: every window is empty.
LEMMA InitRings == Init => RingInv
<1> SUFFICES ASSUME Init PROVE RingInv
  OBVIOUS
<1>0. TypeInv /\ n \in Nat
  BY InitType, CallType DEF TypeInv, TypeOK
<1>1. /\ KvFree = 0 /\ AuxFree = 0 /\ Loaded = 0 /\ QkIssued = 0 /\ VSeen = 0
      /\ PvSeen = 0 /\ Past(AfterS) = 0
  BY DEF Init, KvFree, AuxFree, Loaded, QkIssued, VSeen, PvSeen, Past, AfterS,
     AfterMask, AfterSeg, AfterAux, AfterPv
<1>2. PcFacts /\ Order
  BY <1>0, <1>1 DEF Init, PcFacts, Order
<1>3. ASSUME NEW f \in Families PROVE Lo(f) = 0 /\ Hi(f) = 0
  <2>1. \A pcs \in {AfterMask, AfterSeg, AfterAux} : Past(pcs) = 0
    BY <1>0, <1>1, <1>2, Progress DEF Init
  <2> QED
    BY <1>1, <2>1 DEF Init, Families, Lo, Hi
<1>4. Windows
  BY DEF Init, Windows, Placed, InFlight, Families
<1>5. Lags
  <2> SUFFICES ASSUME NEW f \in Families, NEW i \in 0 .. Depth(f) - 1
               PROVE  RingLag(f)[i] = 0 /\ Up(f) = {}
    BY DEF Lags, Encodes
  <2>1. Up(f) = {}
    BY <1>3 DEF Up, Window
  <2>2. RingLag(f)[i] = 0
    BY FamilyTypes DEF RingLag, Lag, Init, InitBarriers, Arrivals
  <2> QED
    BY <2>1, <2>2
<1>6. QPhase /\ Whole
  BY DEF Init, InitBarriers, QPhase, Whole, QLanded, Arrivals, Barriers, Threads
<1> QED
  BY <1>2, <1>4, <1>5, <1>6 DEF RingInv

\* A copy lands.
LEMMA CopyEngineRings == RInv /\ CopyEngine => RingInv'
<1> SUFFICES ASSUME RInv, NEW c \in copies, copies' = copies \ {c},
                    ArriveOn(CopyCell(c)), UNCHANGED <<call, threadVars, tc>>
             PROVE  RingInv'
  BY DEF CopyEngine
<1> USE DEF RInv
<1>1. PcFacts' /\ Order' /\ \A f : UNCHANGED <<Lo(f), Hi(f)>>
  BY ThreadsStill DEF RingInv
<1>2. CASE c \in {Q, QSeg}
  <2>1. \A f \in Families : \A s : InFlight(f, s)' <=> InFlight(f, s)
    <3>1. \A f \in {"k", "v", "seg", "mask"} : \A s : <<f, s>> # c
      BY <1>2 DEF Q, QSeg
    <3> QED
      BY <3>1, FlightOf DEF Families
  <2>2. \A f \in Families : Up(f)' = Up(f) /\ Placed(f)'
    BY <1>1, <2>1, SameUp DEF RingInv, Windows
  <2>3. ArriveOn(Q)
    BY <1>2 DEF CopyCell, Q, QSeg
  <2>4. Lags' /\ Whole'
    BY <2>2, <2>3, QRing, QuietLags DEF RingInv, Whole, TypeInv, TypeOK, Threads
  <2>5. Windows'
    BY <2>1, <2>2, WindowsKept DEF RingInv, Windows, n, Families
  <2>6. QPhase'
    <3>1. Q # QSeg
      BY DEF Q, QSeg
    <3>2. /\ left'[Q] = IF left[Q] = 1 THEN Arrivals[Q] ELSE left[Q] - 1
          /\ done'[Q] = IF left[Q] = 1 THEN done[Q] + 1 ELSE done[Q]
          /\ seen' = seen
          /\ Arrivals[Q] = IF call.segments THEN 2 ELSE 1
      BY <2>3 DEF ArriveOn, Arrive, Arrivals, TypeInv, TypeOK, BarTypeOK, Barriers
    <3>3. tmaPc # "q" /\ ~QLanded /\ done[Q] = 0 /\ UNCHANGED <<tmaPc, mmaPc, smxPc, call>>
      BY <1>2 DEF RingInv, QPhase, QLanded, threadVars
    <3> QED
      BY <1>2, <3>1, <3>2, <3>3 DEF RingInv, QPhase, QLanded
  <2> QED
    BY <1>1, <2>4, <2>5, <2>6 DEF RingInv
<1>3. CASE c \notin {Q, QSeg}
  <2>1. PICK f \in {"k", "v", "seg", "mask"}, s \in 0 .. n - 1 : c = <<f, s>>
    BY <1>3 DEF TypeInv, TypeOK
  <2>2. f \in Families /\ s \in Nat /\ n \in Nat
    BY CallType DEF Families, TypeInv, TypeOK
  <2>3. InFlight(f, s) /\ ~InFlight(f, s)' /\ \A t : t # s => (InFlight(f, t)' <=> InFlight(f, t))
    BY <2>1, FlightOf DEF Families
  <2>4. \A g \in Families \ {f} : \A t : InFlight(g, t)' <=> InFlight(g, t)
    BY <2>1, FlightOf DEF Families
  <2>5. s \in Window(f) /\ s \notin Up(f) /\ Up(f)' = Up(f) \cup {s} /\ Placed(f)'
    BY <1>1, <2>2, <2>3, LandUp DEF RingInv, Windows
  <2>6. \A g \in Families \ {f} : Up(g)' = Up(g) /\ Placed(g)'
    BY <1>1, <2>4, SameUp DEF RingInv, Windows
  <2>7. ArriveOn(<<f, s % Depth(f)>>)
    BY <2>1, <2>2, BarrierOf DEF CopyCell
  <2>8. Lags' /\ Whole' /\ UNCHANGED <<left, seen, done[Q]>>
    BY <2>2, <2>5, <2>6, <2>7, WindowBounds, SignalLags DEF RingInv, Window
  <2>9. Windows'
    BY <2>1, <2>4, <2>5, <2>6, WindowsKept DEF RingInv, Windows, n, Families
  <2>10. QPhase'
    BY <1>3, <2>8 DEF RingInv, QPhase, QLanded, threadVars
  <2> QED
    BY <1>1, <2>8, <2>9, <2>10 DEF RingInv
<1> QED
  BY <1>2, <1>3

\* Tensor-core work retires.
LEMMA TensorCoreRings == RInv /\ TensorCore => RingInv'
<1> SUFFICES ASSUME RInv, NEW s \in Steps,
                    QkRetires(s) \/ PvRetires(s) \/ CommitRetires(s),
                    UNCHANGED <<call, threadVars, copies>>
             PROVE  RingInv'
  BY DEF TensorCore
<1> USE DEF RInv
<1>1. PcFacts' /\ Order' /\ \A f : UNCHANGED <<Lo(f), Hi(f)>>
  BY ThreadsStill DEF RingInv
<1>2. PICK f \in {"s_ready", "kv_consumed", "pv_done"} :
        /\ <<Op(f), s>> \in tc /\ tc' = tc \ {<<Op(f), s>>}
        /\ ArriveOn(<<f, s % Depth(f)>>)
        /\ f = "pv_done" => ~InFlight("kv_consumed", s)
  <2>0. s \in Nat /\ Ring("kv_consumed", s) = <<"kv_consumed", s % Depth("kv_consumed")>>
    BY BarrierOf DEF Steps
  <2>1. CASE QkRetires(s)
    BY <2>0, <2>1, BarrierOf DEF QkRetires, Op
  <2>2. CASE PvRetires(s)
    BY <2>0, <2>2 DEF PvRetires, Op
  <2>3. CASE CommitRetires(s)
    BY <2>0, <2>3, BarrierOf DEF CommitRetires, Op, InFlight
  <2> QED
    BY <2>1, <2>2, <2>3
<1>3. f \in Families /\ s \in 0 .. n - 1
  BY <1>2 DEF Families, TypeInv, TypeOK
<1>4. InFlight(f, s) /\ ~InFlight(f, s)' /\ \A t : t # s => (InFlight(f, t)' <=> InFlight(f, t))
  BY <1>2, FlightOf
<1>5. \A g \in Families \ {f} : \A t : InFlight(g, t)' <=> InFlight(g, t)
  BY <1>2, FlightOf DEF Families
<1>6. s \in Window(f) /\ s \notin Up(f) /\ Up(f)' = Up(f) \cup {s} /\ Placed(f)'
  BY <1>1, <1>3, <1>4, LandUp DEF RingInv, Windows
<1>7. \A g \in Families \ {f} : Up(g)' = Up(g) /\ Placed(g)'
  BY <1>1, <1>5, SameUp DEF RingInv, Windows
<1>8. Lags' /\ Whole' /\ UNCHANGED <<left, seen, done[Q]>>
  BY <1>2, <1>3, <1>6, <1>7, WindowBounds, SignalLags DEF RingInv, Window
<1>9. Windows'
  <2>1. UNCHANGED n /\ \A t \in 0 .. n - 1 :
          InFlight("kv_consumed", t) => InFlight("pv_done", t)
    BY DEF RingInv, Windows, n
  <2>2. ASSUME NEW t \in 0 .. n - 1, InFlight("kv_consumed", t)'
        PROVE  InFlight("pv_done", t)'
    BY <1>2, <1>4, <1>5, <2>1, <2>2 DEF Families
  <2> QED
    BY <1>6, <1>7, <2>1, <2>2, WindowsKept
<1>10. QPhase'
  BY <1>8 DEF RingInv, QPhase, QLanded, threadVars
<1> QED
  BY <1>1, <1>8, <1>9, <1>10 DEF RingInv
-----------------------------------------------------------------------------
\* The TMA warp moves the starts of the release windows and the ends of the
\* copies' windows.
LEMMA TmaFrame ==
  ASSUME UNCHANGED <<call, mmaPc, mmaStep, smxPc, smxStep>>
  PROVE  /\ UNCHANGED <<n, QkIssued, VSeen, PvSeen>>
         /\ \A pcs : UNCHANGED Past(pcs)
         /\ \A f \in Families \ {"kv_consumed", "aux_consumed"} : UNCHANGED Lo(f)
         /\ \A f \in Families \ {"k", "v", "seg", "mask"} : UNCHANGED Hi(f)
<1>1. UNCHANGED <<n, QkIssued, VSeen, PvSeen>> /\ \A pcs : UNCHANGED Past(pcs)
  BY DEF n, QkIssued, VSeen, PvSeen, Past
<1> QED
  BY <1>1 DEF Families, Lo, Hi

LEMMA TmaEnds ==
  /\ Lo("kv_consumed") = KvFree /\ Lo("kv_consumed")' = KvFree'
  /\ Lo("aux_consumed") = AuxFree /\ Lo("aux_consumed")' = AuxFree'
  /\ \A f \in {"k", "v", "seg", "mask"} : Hi(f) = Loaded /\ Hi(f)' = Loaded'
BY DEF Lo, Hi

LEMMA TmaDrains ==
  ASSUME n \in Nat, UNCHANGED n, NEW s \in 0 .. n, s + NumStages >= n, TmaDrain(s)
  PROVE  /\ Loaded' = n /\ KvFree' = s /\ AuxFree' = s
         /\ tmaPc' \in {"drain", "done"}
         /\ tmaPc' = "drain" => tmaStep' + NumStages >= n
BY DEF TmaDrain, Loaded, KvFree, AuxFree

LEMMA TmaEnters ==
  ASSUME n \in Nat, UNCHANGED n, NEW s \in 0 .. n, TmaEnter(s)
  PROVE  /\ Loaded' = s /\ AuxFree' = KvFree'
         /\ KvFree' = IF s >= NumStages THEN s - NumStages ELSE 0
         /\ tmaPc' \in {"kv", "load", "drain", "done"}
         /\ tmaPc' = "kv" => tmaStep' >= NumStages
         /\ tmaPc' = "drain" => tmaStep' + NumStages >= n
<1>1. CASE s = n
  <2>1. DrainStart \in 0 .. n /\ DrainStart + NumStages >= n /\ TmaDrain(DrainStart)
    BY <1>1 DEF TmaEnter, LastStep, DrainStart
  <2> QED
    BY <1>1, <2>1, TmaDrains DEF DrainStart
<1>2. CASE s # n
  BY <1>2 DEF TmaEnter, LastStep, MustWait, Loaded, KvFree, AuxFree
<1> QED
  BY <1>1, <1>2

LEMMA TmaPcFacts ==
  ASSUME PcFacts, UNCHANGED <<call, n, mmaPc, mmaStep, smxPc, smxStep>>,
         tmaPc' \in {"kv", "aux"} => tmaStep' >= NumStages,
         tmaPc' \in {"drain", "drain_aux"} => tmaStep' + NumStages >= n,
         tmaPc' \in {"aux", "drain_aux"} => HasAux
  PROVE  PcFacts'
BY DEF PcFacts, HasAux, HasMask

LEMMA TmaLoadQRings ==
  ASSUME RInv, TmaLoadQ, UNCHANGED <<call, mmaPc, mmaStep, smxPc, smxStep, tc>>
  PROVE  RingInv'
<1> USE DEF RInv
<1>0. n \in Nat /\ UNCHANGED n /\ 0 \in 0 .. n /\ tmaPc = "q" /\ tmaStep = 0
  BY CallType, TmaFrame DEF TypeInv, TypeOK, PcSteps, TmaLoadQ
<1>1. /\ Loaded' = 0 /\ AuxFree' = KvFree' /\ KvFree' = 0
      /\ tmaPc' \in {"kv", "load", "drain", "done"}
      /\ tmaPc' = "kv" => tmaStep' >= NumStages
      /\ tmaPc' = "drain" => tmaStep' + NumStages >= n
  BY <1>0, TmaEnters DEF TmaLoadQ
<1>2. Loaded = 0 /\ AuxFree = 0 /\ KvFree = 0
  BY <1>0 DEF Loaded, AuxFree, KvFree
<1>3. \A f \in Families : UNCHANGED <<Lo(f), Hi(f)>>
  BY <1>1, <1>2, TmaFrame, TmaEnds
<1>4. copies = {}
  <2>1. ASSUME NEW f \in {"k", "v", "seg", "mask"}, NEW s \in 0 .. n - 1 PROVE <<f, s>> \notin copies
    <3>1. Window(f) = Lo(f) .. -1 /\ Lo(f) \in Nat
      BY <1>2, TmaEnds, WindowBounds DEF Window, Families, RingInv
    <3>2. s \notin Window(f)
      BY <3>1
    <3> QED
      BY <3>2, FlightOf DEF RingInv, Windows, Placed, Families
  <2>2. Q \notin copies /\ QSeg \notin copies
    BY <1>0 DEF RingInv, QPhase
  <2> QED
    BY <2>1, <2>2 DEF TypeInv, TypeOK
<1>5. copies' = {Q} \cup IF call.segments THEN {QSeg} ELSE {}
  BY DEF TmaLoadQ
<1>6. \A f \in Families : \A s : InFlight(f, s)' <=> InFlight(f, s)
  <2>1. \A f \in {"k", "v", "seg", "mask"} : \A s : <<f, s>> \notin copies'
    BY <1>5 DEF Q, QSeg
  <2> QED
    BY <1>4, <2>1, FlightOf DEF Families
<1>7. \A f \in Families : Up(f)' = Up(f) /\ Placed(f)'
  BY <1>3, <1>6, SameUp DEF RingInv, Windows
<1>8. barVars' = barVars
  BY DEF TmaLoadQ
<1>9. Lags' /\ Whole'
  BY <1>7, <1>8, QuietLags DEF RingInv, Whole, RingLag, Lag, barVars
<1>10. Windows'
  BY <1>0, <1>6, <1>7, WindowsKept DEF RingInv, Windows, Families
<1>11. QPhase'
  <2>1. Q # QSeg
    BY DEF Q, QSeg
  <2> QED
    BY <1>0, <1>1, <1>4, <1>5, <1>8, <2>1 DEF RingInv, QPhase, QLanded, barVars
<1>12. PcFacts'
  BY <1>0, <1>1, TmaPcFacts DEF RingInv
<1>13. Order'
  BY <1>1, <1>2, TmaFrame DEF RingInv, Order
<1> QED
  BY <1>9, <1>10, <1>11, <1>12, <1>13 DEF RingInv

LEMMA TmaLoadRings ==
  ASSUME RInv, TmaLoad, UNCHANGED <<call, mmaPc, mmaStep, smxPc, smxStep, tc>>
  PROVE  RingInv'
<1> USE DEF RInv
<1>0. /\ n \in Nat /\ UNCHANGED n /\ tmaPc = "load"
      /\ tmaStep \in 0 .. n - 1 /\ tmaStep + 1 \in 0 .. n
  BY CallType, TmaFrame DEF TypeInv, TypeOK, PcSteps, TmaLoad
<1>1. /\ Loaded' = tmaStep + 1 /\ AuxFree' = KvFree'
      /\ KvFree' = IF tmaStep + 1 >= NumStages THEN tmaStep + 1 - NumStages ELSE 0
      /\ tmaPc' \in {"kv", "load", "drain", "done"}
      /\ tmaPc' = "kv" => tmaStep' >= NumStages
      /\ tmaPc' = "drain" => tmaStep' + NumStages >= n
  BY <1>0, TmaEnters DEF TmaLoad
<1>2. Loaded = tmaStep /\ UNCHANGED <<AuxFree, KvFree>>
  BY <1>0, <1>1 DEF Loaded, AuxFree, KvFree
<1>3. barVars' = barVars
  BY DEF TmaLoad
<1>4. \A f \in {"k", "v", "seg", "mask"} :
        \A s : <<f, s>> \in copies' <=> <<f, s>> \in copies \/ (s = tmaStep /\ Uses(f, s))
  BY DEF TmaLoad, Uses, Families
<1>5. ASSUME NEW f \in {"k", "v", "seg", "mask"}
      PROVE  Up(f)' = Up(f) /\ Placed(f)'
  <2>1. f \in Families /\ Hi(f) = tmaStep /\ Hi(f)' = Hi(f) + 1 /\ UNCHANGED Lo(f)
    BY <1>1, <1>2, TmaEnds, TmaFrame DEF Families
  <2>2. Lo(f) <= Hi(f)
    BY <2>1, <1>2, Progress DEF Lo, RingInv
  <2>3. Placed(f)
    BY <2>1 DEF RingInv, Windows
  <2>4. ~InFlight(f, tmaStep)
    BY <1>0, <2>1, <2>3, WindowBounds DEF Placed, Window, RingInv
  <2>5. PICK h \in 0 .. n - 1 : h = tmaStep
    BY <1>0
  <2>6. InFlight(f, h)' <=> Uses(f, h)
    BY <1>4, <2>4, <2>5, FlightOf
  <2>7. \A s : s # h => (InFlight(f, s)' <=> InFlight(f, s))
    BY <1>4, <2>5, FlightOf
  <2> QED
    BY <2>1, <2>2, <2>3, <2>5, <2>6, <2>7, AnnounceUp DEF RingInv
<1>6. ASSUME NEW f \in Families \ {"k", "v", "seg", "mask"}
      PROVE  Up(f)' = Up(f) /\ Placed(f)' /\ \A s : InFlight(f, s)' <=> InFlight(f, s)
  <2>1. UNCHANGED <<Lo(f), Hi(f)>>
    BY <1>2, TmaEnds, TmaFrame
  <2>2. \A s : InFlight(f, s)' <=> InFlight(f, s)
    BY FlightOf DEF Families
  <2> QED
    BY <2>1, <2>2, SameUp DEF RingInv, Windows
<1>7. Lags' /\ Whole'
  BY <1>3, <1>5, <1>6, QuietLags DEF RingInv, Whole, RingLag, Lag, barVars
<1>8. Windows'
  BY <1>0, <1>5, <1>6, WindowsKept DEF RingInv, Windows, Families
<1>9. QPhase'
  <2>1. Q \in copies' <=> Q \in copies
    BY DEF TmaLoad, Q
  <2>2. QSeg \in copies' <=> QSeg \in copies
    BY DEF TmaLoad, QSeg
  <2> QED
    BY <1>0, <1>1, <1>3, <2>1, <2>2 DEF RingInv, QPhase, QLanded, barVars
<1>10. PcFacts'
  BY <1>0, <1>1, TmaPcFacts DEF RingInv
<1>11. Order'
  BY <1>0, <1>1, <1>2, TmaFrame, Progress DEF RingInv, Order
<1> QED
  BY <1>7, <1>8, <1>9, <1>10, <1>11 DEF RingInv

\* Each wait of the TMA warp observes the first step of a release window.
LEMMA TmaWaits ==
  ASSUME RInv, TmaAwaitKv \/ TmaAwaitAux \/ TmaDrainKv \/ TmaDrainAux,
         UNCHANGED <<call, n>>
  PROVE  /\ Loaded' = Loaded
         /\ \/ /\ Await("tma", <<"kv_consumed", KvFree % NumStages>>)
               /\ KvFree' = KvFree + 1
               /\ AuxFree' = IF HasAux THEN AuxFree ELSE AuxFree + 1
            \/ /\ Await("tma", <<"aux_consumed", AuxFree % NumStages>>)
               /\ KvFree' = KvFree /\ AuxFree' = AuxFree + 1
         /\ tmaPc' \in {"aux", "load", "drain", "drain_aux", "done"}
         /\ tmaPc' = "aux" => tmaStep' >= NumStages
         /\ tmaPc' \in {"drain", "drain_aux"} => tmaStep' + NumStages >= n
         /\ tmaPc' \in {"aux", "drain_aux"} => HasAux
<1> USE DEF RInv, RingInv
<1>0. n \in Nat /\ tmaStep \in Nat
  BY CallType DEF TypeInv, TypeOK
<1>1. CASE TmaAwaitKv
  <2>1. /\ tmaPc = "kv" /\ tmaStep >= NumStages /\ tmaStep' = tmaStep
        /\ tmaPc' = IF HasAux THEN "aux" ELSE "load"
    BY <1>1 DEF TmaAwaitKv, AfterKv, PcFacts
  <2>2. KvFree % NumStages = tmaStep % NumStages
    BY <1>0, <2>1, SlotBefore DEF KvFree
  <2>3. Await("tma", <<"kv_consumed", KvFree % NumStages>>)
    BY <1>1, <2>2 DEF TmaAwaitKv, Ring
  <2>4. /\ Loaded' = Loaded /\ KvFree' = KvFree + 1
        /\ AuxFree' = IF HasAux THEN AuxFree ELSE AuxFree + 1
    BY <1>0, <2>1 DEF Loaded, KvFree, AuxFree
  <2> QED
    BY <2>1, <2>3, <2>4
<1>2. CASE TmaAwaitAux
  <2>1. /\ tmaPc = "aux" /\ tmaStep >= NumStages /\ tmaStep' = tmaStep
        /\ tmaPc' = "load"
    BY <1>2 DEF TmaAwaitAux, PcFacts
  <2>2. AuxFree % NumStages = tmaStep % NumStages
    <3>1. AuxFree = tmaStep - NumStages
      BY <1>0, <2>1 DEF AuxFree, KvFree
    <3>2. NumStages \in Nat \ {0} /\ tmaStep \in Nat /\ tmaStep >= NumStages
      BY <1>0, <2>1
    <3>3. (tmaStep - NumStages) % NumStages = tmaStep % NumStages
      BY <3>2, SlotBefore, Zenon
    <3> QED
      BY <3>1, <3>3
  <2>3. Await("tma", <<"aux_consumed", AuxFree % NumStages>>)
    BY <1>2, <2>2 DEF TmaAwaitAux, Ring
  <2>4. Loaded' = Loaded /\ KvFree' = KvFree /\ AuxFree' = AuxFree + 1
    BY <1>0, <2>1 DEF Loaded, KvFree, AuxFree
  <2> QED
    BY <2>1, <2>3, <2>4
<1>3. CASE TmaDrainKv
  <2>1. /\ tmaPc = "drain" /\ tmaStep + NumStages >= n /\ tmaStep + 1 \in 0 .. n
        /\ Loaded = n /\ KvFree = tmaStep /\ AuxFree = tmaStep
    BY <1>0, <1>3 DEF TmaDrainKv, PcFacts, TypeInv, PcSteps, Loaded, KvFree, AuxFree
  <2>2. Await("tma", <<"kv_consumed", KvFree % NumStages>>)
    BY <1>3, <2>1 DEF TmaDrainKv, Ring
  <2>3. CASE HasAux
    BY <1>0, <1>3, <2>1, <2>2, <2>3 DEF TmaDrainKv, Loaded, KvFree, AuxFree
  <2>4. CASE ~HasAux
    BY <1>0, <1>3, <2>1, <2>2, <2>4, TmaDrains DEF TmaDrainKv
  <2> QED
    BY <2>3, <2>4
<1>4. CASE TmaDrainAux
  <2>1. /\ tmaPc = "drain_aux" /\ tmaStep + NumStages >= n /\ tmaStep + 1 \in 0 .. n
        /\ Loaded = n /\ KvFree = tmaStep + 1 /\ AuxFree = tmaStep
    BY <1>0, <1>4 DEF TmaDrainAux, PcFacts, TypeInv, PcSteps, Loaded, KvFree, AuxFree
  <2>2. Await("tma", <<"aux_consumed", AuxFree % NumStages>>)
    BY <1>4, <2>1 DEF TmaDrainAux, Ring
  <2> QED
    BY <1>0, <1>4, <2>1, <2>2, TmaDrains DEF TmaDrainAux
<1> QED
  BY <1>1, <1>2, <1>3, <1>4

LEMMA TmaWaitRings ==
  ASSUME RInv, TmaAwaitKv \/ TmaAwaitAux \/ TmaDrainKv \/ TmaDrainAux,
         UNCHANGED <<call, mmaPc, mmaStep, smxPc, smxStep, copies, tc>>
  PROVE  RingInv'
<1> USE DEF RInv
<1>0. UNCHANGED n
  BY TmaFrame
<1>1. /\ \A f \in Families : UNCHANGED Hi(f)
      /\ \A f \in Families \ {"kv_consumed", "aux_consumed"} : UNCHANGED Lo(f)
  BY <1>0, TmaWaits, TmaFrame, TmaEnds
<1>2. \A f \in Families : \A s : InFlight(f, s)' <=> InFlight(f, s)
  BY FlightOf DEF Families
<1>3. PICK f \in {"kv_consumed", "aux_consumed"} :
        /\ Await(WaiterOf(f), <<f, Lo(f) % Depth(f)>>)
        /\ Lo(f)' = Lo(f) + 1
        /\ \A g \in {"kv_consumed", "aux_consumed"} \ {f} :
             Lo(g)' = Lo(g) \/ (g = "aux_consumed" /\ Lo(g)' = Lo(g) + 1 /\ ~HasAux)
  BY <1>0, TmaWaits, TmaEnds DEF WaiterOf, Depth
<1>4. f \in Families /\ Lo(f) \in Up(f) /\ Lo(f) < Hi(f)
  BY <1>3, ObservedIsUp DEF RingInv, Families
<1>5. Up(f)' = Up(f) \ {Lo(f)} /\ Placed(f)'
  BY <1>1, <1>2, <1>3, <1>4, ObserveUp DEF RingInv, Windows
<1>6. ASSUME NEW g \in Families \ {f} PROVE Up(g)' = Up(g) /\ Placed(g)'
  <2>1. CASE Lo(g)' = Lo(g)
    BY <1>1, <1>2, <2>1, SameUp DEF RingInv, Windows
  <2>2. CASE g = "aux_consumed" /\ Lo(g)' = Lo(g) + 1 /\ ~HasAux
    BY <1>1, <1>2, <2>2, SkipUp DEF RingInv, Windows, Uses
  <2> QED
    BY <1>1, <1>3, <2>1, <2>2
<1>7. /\ Lags' /\ Whole' /\ UNCHANGED <<left, done>>
      /\ \A w \in Threads : UNCHANGED seen[w][Q]
  BY <1>3, <1>4, <1>5, <1>6, ObserveLags DEF RingInv
<1>8. Windows'
  BY <1>0, <1>2, <1>5, <1>6, WindowsKept DEF RingInv, Windows, Families
<1>9. QPhase'
  <2>1. tmaPc # "q" /\ tmaPc' # "q"
    BY <1>0, TmaWaits DEF TmaAwaitKv, TmaAwaitAux, TmaDrainKv, TmaDrainAux
  <2> QED
    BY <1>7, <2>1 DEF RingInv, QPhase, QLanded, Threads
<1>10. PcFacts'
  BY <1>0, TmaWaits, TmaPcFacts DEF RingInv
<1>11. Order'
  <2>1. KvFree' <= mmaStep
    BY <1>0, <1>4, <1>3, TmaWaits, TmaEnds, Progress DEF RingInv, Hi
  <2> QED
    BY <1>0, <2>1, TmaWaits, TmaFrame DEF RingInv, Order
<1> QED
  BY <1>7, <1>8, <1>9, <1>10, <1>11 DEF RingInv

LEMMA TmaWarpRings == RInv /\ TmaWarp => RingInv'
BY TmaLoadQRings, TmaLoadRings, TmaWaitRings
   DEF TmaWarp, TmaAwaitKv, TmaAwaitAux, TmaDrainKv, TmaDrainAux
-----------------------------------------------------------------------------
\* The MMA warp moves the starts of the windows it waits on, and the ends of
\* the windows of its MMAs.
LEMMA MmaFrame ==
  ASSUME UNCHANGED <<call, tmaPc, tmaStep, smxPc, smxStep>>
  PROVE  /\ UNCHANGED <<n, KvFree, AuxFree, Loaded, PvSeen>>
         /\ \A pcs : UNCHANGED Past(pcs)
         /\ \A f \in Families \ {"k", "v", "p_ready"} : UNCHANGED Lo(f)
         /\ \A f \in Families \ {"s_ready", "kv_consumed", "pv_done"} : UNCHANGED Hi(f)
<1>1. UNCHANGED <<n, KvFree, AuxFree, Loaded, PvSeen>> /\ \A pcs : UNCHANGED Past(pcs)
  BY DEF n, KvFree, AuxFree, Loaded, PvSeen, Past
<1> QED
  BY <1>1 DEF Families, Lo, Hi

LEMMA MmaEnds ==
  /\ Lo("k") = QkIssued /\ Lo("k")' = QkIssued'
  /\ Lo("v") = VSeen /\ Lo("v")' = VSeen'
  /\ Lo("p_ready") = mmaStep /\ Lo("p_ready")' = mmaStep'
  /\ Hi("s_ready") = QkIssued /\ Hi("s_ready")' = QkIssued'
  /\ \A f \in {"kv_consumed", "pv_done"} : Hi(f) = mmaStep /\ Hi(f)' = mmaStep'
BY DEF Lo, Hi

LEMMA MmaPcFacts ==
  ASSUME PcFacts, UNCHANGED <<call, n, tmaPc, tmaStep, smxPc, smxStep>>,
         mmaPc' = "done" => mmaStep' = n
  PROVE  PcFacts'
BY DEF PcFacts, HasAux, HasMask

\* Q's barrier releases a waiter only when Q has landed.
LEMMA QAwaited ==
  ASSUME TypeInv, QPhase, NEW w \in {"mma", "softmax"}, Await(w, Q),
         (IF w = "mma" THEN mmaPc ELSE smxPc) = "q"
  PROVE  /\ QLanded /\ done[Q] = 1 /\ UNCHANGED <<left, done>>
         /\ seen'[w][Q] = 1
         /\ \A v \in Threads \ {w} : UNCHANGED seen[v][Q]
<1>1. w \in Threads /\ Q \in Barriers
  BY DEF Threads, Barriers
<1>2. seen[w][Q] = 0 /\ done[Q] # 0
  BY DEF QPhase, Await
<1> QED
  BY <1>1, <1>2 DEF QPhase, Await, TypeInv, TypeOK, BarTypeOK

LEMMA MmaAwaitQRings ==
  ASSUME RInv, MmaAwaitQ,
         UNCHANGED <<call, tmaPc, tmaStep, smxPc, smxStep, copies, tc>>
  PROVE  RingInv'
<1> USE DEF RInv
<1>0. n \in Nat /\ UNCHANGED n /\ mmaPc = "q" /\ mmaStep = 0 /\ mmaStep' = 0
  BY CallType, MmaFrame DEF TypeInv, TypeOK, PcSteps, MmaAwaitQ
<1>1. Await("mma", Q) /\ mmaPc' = IF n > 0 THEN "qk0" ELSE "done"
  BY DEF MmaAwaitQ
<1>2. QkIssued = 0 /\ VSeen = 0 /\ QkIssued' = 0 /\ VSeen' = 0
  BY <1>0, <1>1 DEF QkIssued, VSeen
<1>3. \A f \in Families : UNCHANGED <<Lo(f), Hi(f)>>
  BY <1>0, <1>2, MmaFrame, MmaEnds
<1>4. \A f \in Families : \A s : InFlight(f, s)' <=> InFlight(f, s)
  BY FlightOf DEF Families
<1>5. \A f \in Families : Up(f)' = Up(f) /\ Placed(f)'
  BY <1>3, <1>4, SameUp DEF RingInv, Windows
<1>6. Lags' /\ Whole'
  BY <1>1, <1>5, QRing, QuietLags DEF RingInv, Whole, TypeInv, TypeOK, Threads
<1>7. Windows'
  BY <1>0, <1>4, <1>5, WindowsKept DEF RingInv, Windows, Families
<1>8. QPhase'
  BY <1>0, <1>1, QAwaited DEF RingInv, QPhase, QLanded, Threads
<1>9. PcFacts'
  BY <1>0, <1>1, MmaPcFacts DEF RingInv
<1>10. Order'
  BY <1>0, <1>2, MmaFrame DEF RingInv, Order
<1> QED
  BY <1>6, <1>7, <1>8, <1>9, <1>10 DEF RingInv

\* A wait of the MMA warp on a ring, the part common to its three kinds.
LEMMA MmaObserves ==
  ASSUME RInv, UNCHANGED <<call, tmaPc, tmaStep, smxPc, smxStep, copies>>,
         mmaPc # "q", mmaPc' # "q",
         NEW f \in {"k", "v", "p_ready"}, Await("mma", <<f, Lo(f) % Depth(f)>>),
         Lo(f)' = Lo(f) + 1, \A g \in {"k", "v", "p_ready"} \ {f} : UNCHANGED Lo(g),
         \A g \in {"s_ready", "kv_consumed", "pv_done"} : Up(g)' = Up(g) /\ Placed(g)',
         \A s \in 0 .. n - 1 :
           InFlight("kv_consumed", s)' => InFlight("pv_done", s)'
  PROVE  /\ Lags' /\ Whole' /\ Windows' /\ QPhase'
<1> USE DEF RInv
<1>1. f \in Families /\ Await(WaiterOf(f), <<f, Lo(f) % Depth(f)>>)
  BY DEF WaiterOf, Families
<1>2. \A g \in Families \ {"s_ready", "kv_consumed", "pv_done"} :
        \A s : InFlight(g, s)' <=> InFlight(g, s)
  BY FlightOf DEF Families
<1>3. Lo(f) \in Up(f)
  BY <1>1, ObservedIsUp DEF RingInv
<1>4. Up(f)' = Up(f) \ {Lo(f)} /\ Placed(f)'
  BY <1>1, <1>2, <1>3, MmaFrame, ObserveUp DEF RingInv, Windows
<1>5. \A g \in Families \ {f} : Up(g)' = Up(g) /\ Placed(g)'
  BY <1>2, MmaFrame, SameUp DEF RingInv, Windows
<1>6. /\ Lags' /\ Whole' /\ UNCHANGED <<left, done>>
      /\ \A w \in Threads : UNCHANGED seen[w][Q]
  BY <1>1, <1>4, <1>5, ObserveLags DEF RingInv
<1>7. Windows'
  BY <1>4, <1>5, MmaFrame, WindowsKept
<1>8. QPhase'
  BY <1>6 DEF RingInv, QPhase, QLanded, Threads
<1> QED
  BY <1>6, <1>7, <1>8

LEMMA MmaIssueQkRings ==
  ASSUME RInv, MmaIssueQk, UNCHANGED <<call, tmaPc, tmaStep, smxPc, smxStep, copies>>
  PROVE  RingInv'
<1> USE DEF RInv
<1>0. n \in Nat /\ UNCHANGED n /\ mmaStep \in Nat /\ mmaStep' = mmaStep
  BY CallType, MmaFrame DEF TypeInv, TypeOK, MmaIssueQk
<1>1. PICK s \in 0 .. n - 1 :
        /\ s = QkIssued /\ QkIssued' = s + 1 /\ IssueQk(s)
        /\ mmaPc \in {"qk0", "qk"} /\ mmaPc' \in {"qk", "v"}
  <2>1. CASE mmaPc = "qk0"
    BY <1>0, <2>1 DEF MmaIssueQk, MmaTop, QkIssued, TypeInv, PcSteps
  <2>2. CASE mmaPc = "qk"
    BY <1>0, <2>2 DEF MmaIssueQk, QkIssued, TypeInv, PcSteps
  <2> QED
    BY <2>1, <2>2 DEF MmaIssueQk
<1>2. UNCHANGED VSeen
  BY <1>0, <1>1 DEF VSeen
<1>3. Await("mma", <<"k", Lo("k") % Depth("k")>>)
  BY <1>1, BarrierOf, MmaEnds DEF IssueQk
<1>4. tc' = tc \cup {<<"qk", s>>}
  BY <1>1 DEF IssueQk
<1>5. Up("s_ready")' = Up("s_ready") /\ Placed("s_ready")'
  <2>1. "s_ready" \in Families /\ Placed("s_ready")
    BY DEF Families, RingInv, Windows
  <2>2. /\ UNCHANGED <<call, Lo("s_ready")>> /\ Hi("s_ready") = s
        /\ Hi("s_ready")' = Hi("s_ready") + 1 /\ Lo("s_ready") <= Hi("s_ready")
    BY <1>1, <2>1, MmaEnds, MmaFrame, Progress DEF Lo, RingInv
  <2>3. InFlight("s_ready", s)' /\ Uses("s_ready", s)
    BY <1>4, FlightOf DEF Uses, Families
  <2>4. \A t : t # s => (InFlight("s_ready", t)' <=> InFlight("s_ready", t))
    BY <1>4, FlightOf
  <2> QED
    BY <2>1, <2>2, <2>3, <2>4, AnnounceUp DEF RingInv
<1>6. \A g \in {"kv_consumed", "pv_done"} : \A t : InFlight(g, t)' <=> InFlight(g, t)
  BY <1>4, FlightOf
<1>7. \A g \in {"kv_consumed", "pv_done"} : Up(g)' = Up(g) /\ Placed(g)'
  BY <1>0, <1>6, MmaFrame, MmaEnds, SameUp DEF RingInv, Windows, Families
<1>8. Lags' /\ Whole' /\ Windows' /\ QPhase'
  <2>1. \A t \in 0 .. n - 1 : InFlight("kv_consumed", t)' => InFlight("pv_done", t)'
    BY <1>6 DEF RingInv, Windows
  <2>2. Lo("k")' = Lo("k") + 1 /\ UNCHANGED <<Lo("v"), Lo("p_ready")>>
    BY <1>0, <1>1, <1>2, MmaEnds
  <2> QED
    BY <1>1, <1>3, <1>5, <1>7, <2>1, <2>2, MmaObserves
<1>9. PcFacts'
  BY <1>0, <1>1, MmaPcFacts DEF RingInv
<1>10. Order'
  <2>1. QkIssued < Loaded
    BY <1>3, ObservedIsUp, MmaEnds DEF RingInv, WaiterOf, Families, Hi
  <2> QED
    BY <1>0, <1>1, <2>1, MmaFrame, Progress DEF RingInv, Order
<1> QED
  BY <1>8, <1>9, <1>10 DEF RingInv

LEMMA MmaAwaitVRings ==
  ASSUME RInv, MmaAwaitV, UNCHANGED <<call, tmaPc, tmaStep, smxPc, smxStep, copies>>
  PROVE  RingInv'
<1> USE DEF RInv
<1>0. /\ n \in Nat /\ UNCHANGED n /\ mmaStep \in Nat /\ mmaStep' = mmaStep
      /\ mmaPc = "v" /\ mmaPc' = "p" /\ tc' = tc
  BY CallType, MmaFrame DEF TypeInv, TypeOK, MmaAwaitV
<1>1. /\ QkIssued' = QkIssued /\ VSeen = mmaStep /\ VSeen' = VSeen + 1
  BY <1>0 DEF QkIssued, VSeen
<1>2. Await("mma", <<"v", Lo("v") % Depth("v")>>)
  BY <1>0, <1>1, BarrierOf, MmaEnds DEF MmaAwaitV
<1>3. \A g \in Families : \A t : InFlight(g, t)' <=> InFlight(g, t)
  BY <1>0, FlightOf DEF Families
<1>4. \A g \in {"s_ready", "kv_consumed", "pv_done"} : Up(g)' = Up(g) /\ Placed(g)'
  BY <1>0, <1>1, <1>3, MmaFrame, MmaEnds, SameUp DEF RingInv, Windows, Families
<1>5. Lags' /\ Whole' /\ Windows' /\ QPhase'
  <2>1. \A t \in 0 .. n - 1 : InFlight("kv_consumed", t)' => InFlight("pv_done", t)'
    BY <1>3 DEF RingInv, Windows, Families
  <2>2. Lo("v")' = Lo("v") + 1 /\ UNCHANGED <<Lo("k"), Lo("p_ready")>>
    BY <1>0, <1>1, MmaEnds
  <2> QED
    BY <1>0, <1>2, <1>4, <2>1, <2>2, MmaObserves
<1>6. PcFacts'
  BY <1>0, MmaPcFacts DEF RingInv
<1>7. Order'
  BY <1>0, <1>1, MmaFrame DEF RingInv, Order
<1> QED
  BY <1>5, <1>6, <1>7 DEF RingInv

LEMMA MmaIssuePvRings ==
  ASSUME RInv, MmaIssuePv, UNCHANGED <<call, tmaPc, tmaStep, smxPc, smxStep, copies>>
  PROVE  RingInv'
<1> USE DEF RInv
<1>0. n \in Nat /\ UNCHANGED n /\ mmaPc = "p"
  BY CallType, MmaFrame DEF TypeInv, TypeOK, MmaIssuePv
<1>1. PICK s \in 0 .. n - 1 :
        /\ s = mmaStep /\ mmaStep' = s + 1 /\ mmaPc' = MmaTop(s + 1)
        /\ tc' = tc \cup {<<"pv", s>>, <<"commit", s>>} /\ Await("mma", PReady)
  BY <1>0 DEF MmaIssuePv, TypeInv, TypeOK, PcSteps
<1>2. /\ mmaPc' \in {"qk", "v", "done"}
      /\ mmaPc' = "done" => mmaStep' = n
      /\ UNCHANGED <<QkIssued, VSeen>>
  BY <1>0, <1>1 DEF MmaTop, QkIssued, VSeen
<1>3. Await("mma", <<"p_ready", Lo("p_ready") % Depth("p_ready")>>)
  BY <1>1, BarrierOf, MmaEnds
<1>4. mmaStep < smxStep
  BY <1>3, ObservedIsUp, MmaEnds DEF RingInv, WaiterOf, Families, Hi
<1>5. ASSUME NEW f \in {"kv_consumed", "pv_done"}
      PROVE  Up(f)' = Up(f) /\ Placed(f)'
  <2>1. f \in Families /\ Placed(f)
    BY DEF Families, RingInv, Windows
  <2>2. /\ UNCHANGED <<call, Lo(f)>> /\ Hi(f) = s /\ Hi(f)' = Hi(f) + 1 /\ Lo(f) <= Hi(f)
    BY <1>1, <2>1, MmaEnds, MmaFrame, Progress DEF Lo, RingInv
  <2>3. InFlight(f, s)' /\ Uses(f, s)
    BY <1>1, FlightOf DEF Uses, Families
  <2>4. \A t : t # s => (InFlight(f, t)' <=> InFlight(f, t))
    BY <1>1, FlightOf
  <2> QED
    BY <2>1, <2>2, <2>3, <2>4, AnnounceUp DEF RingInv
<1>6. \A t : InFlight("s_ready", t)' <=> InFlight("s_ready", t)
  BY <1>1, FlightOf
<1>7. Up("s_ready")' = Up("s_ready") /\ Placed("s_ready")'
  BY <1>2, <1>6, MmaFrame, MmaEnds, SameUp DEF RingInv, Windows, Families
<1>8. Lags' /\ Whole' /\ Windows' /\ QPhase'
  <2>1. ASSUME NEW t \in 0 .. n - 1, InFlight("kv_consumed", t)'
        PROVE  InFlight("pv_done", t)'
    BY <1>1, <2>1, FlightOf DEF RingInv, Windows
  <2>2. Lo("p_ready")' = Lo("p_ready") + 1 /\ UNCHANGED <<Lo("k"), Lo("v")>>
    BY <1>1, <1>2, MmaEnds
  <2> QED
    BY <1>0, <1>2, <1>3, <1>5, <1>7, <2>1, <2>2, MmaObserves
<1>9. PcFacts'
  BY <1>0, <1>2, MmaPcFacts DEF RingInv
<1>10. Order'
  BY <1>0, <1>1, <1>2, <1>4, MmaFrame, Progress DEF RingInv, Order
<1> QED
  BY <1>8, <1>9, <1>10 DEF RingInv

LEMMA MmaWarpRings == RInv /\ MmaWarp => RingInv'
BY MmaAwaitQRings, MmaIssueQkRings, MmaAwaitVRings, MmaIssuePvRings
   DEF MmaWarp, MmaAwaitQ
-----------------------------------------------------------------------------
\* The softmax warpgroup moves the starts of the windows it waits on, and the
\* ends of the windows of its own arrivals.
LEMMA SmxFrame ==
  ASSUME UNCHANGED <<call, tmaPc, tmaStep, mmaPc, mmaStep>>
  PROVE  /\ UNCHANGED <<n, KvFree, AuxFree, Loaded, QkIssued, VSeen>>
         /\ \A f \in Families \ {"seg", "mask", "s_ready", "pv_done"} : UNCHANGED Lo(f)
         /\ \A f \in Families \ {"aux_consumed", "p_ready"} : UNCHANGED Hi(f)
<1>1. UNCHANGED <<n, KvFree, AuxFree, Loaded, QkIssued, VSeen>>
  BY DEF n, KvFree, AuxFree, Loaded, QkIssued, VSeen
<1> QED
  BY <1>1 DEF Families, Lo, Hi

LEMMA SmxEnds ==
  /\ Lo("seg") = Past(AfterSeg) /\ Lo("seg")' = Past(AfterSeg)'
  /\ Lo("mask") = Past(AfterMask) /\ Lo("mask")' = Past(AfterMask)'
  /\ Lo("s_ready") = Past(AfterS) /\ Lo("s_ready")' = Past(AfterS)'
  /\ Lo("pv_done") = PvSeen /\ Lo("pv_done")' = PvSeen'
  /\ Hi("aux_consumed") = Past(AfterAux) /\ Hi("aux_consumed")' = Past(AfterAux)'
  /\ Hi("p_ready") = smxStep /\ Hi("p_ready")' = smxStep'
BY DEF Lo, Hi

LEMMA Pasts ==
  /\ \A pcs : Past(pcs) = IF smxPc \in pcs THEN smxStep + 1 ELSE smxStep
  /\ \A pcs : Past(pcs)' = IF smxPc' \in pcs THEN smxStep' + 1 ELSE smxStep'
  /\ AfterS = {"mask", "seg", "aux", "pv", "store", "rescale", "p_ready"}
  /\ AfterMask = {"seg", "aux", "pv", "store", "rescale", "p_ready"}
  /\ AfterSeg = {"aux", "pv", "store", "rescale", "p_ready"}
  /\ AfterAux = {"pv", "store", "rescale", "p_ready"}
BY DEF Past, AfterS, AfterMask, AfterSeg, AfterAux, AfterPv

\* A window that keeps its ends, or moves one of them past a step without signal.
Still(f) ==
  \/ UNCHANGED <<Lo(f), Hi(f)>>
  \/ f \in {"seg", "mask"} /\ ~Uses(f, Lo(f)) /\ Lo(f)' = Lo(f) + 1 /\ UNCHANGED Hi(f)
  \/ f = "aux_consumed" /\ ~HasAux /\ Hi(f)' = Hi(f) + 1 /\ UNCHANGED Lo(f)

LEMMA StillUp ==
  ASSUME RInv, UNCHANGED <<call, copies, tc>>, NEW f \in Families, Still(f)
  PROVE  Up(f)' = Up(f) /\ Placed(f)' /\ \A s : InFlight(f, s)' <=> InFlight(f, s)
<1> USE DEF RInv, RingInv
<1>1. Placed(f) /\ \A s : InFlight(f, s)' <=> InFlight(f, s)
  BY FlightOf DEF Windows, Families
<1>2. CASE UNCHANGED <<Lo(f), Hi(f)>>
  BY <1>1, <1>2, SameUp
<1>3. CASE f \in {"seg", "mask"} /\ ~Uses(f, Lo(f)) /\ Lo(f)' = Lo(f) + 1 /\ UNCHANGED Hi(f)
  BY <1>1, <1>3, SkipUp
<1>4. CASE f = "aux_consumed" /\ ~HasAux /\ Hi(f)' = Hi(f) + 1 /\ UNCHANGED Lo(f)
  <2>1. PICK h \in Nat : h = Hi(f)
    BY WindowBounds
  <2>2. ~InFlight(f, h)' /\ ~Uses(f, h)
    BY <1>4, FlightOf DEF Uses
  <2>3. Lo(f) <= Hi(f)
    BY <1>4, Progress DEF Lo, Hi
  <2> QED
    BY <1>1, <1>4, <2>1, <2>2, <2>3, AnnounceUp
<1> QED
  BY <1>2, <1>3, <1>4 DEF Still

LEMMA SmxObserves ==
  ASSUME RInv, UNCHANGED <<call, tmaPc, tmaStep, mmaPc, mmaStep, copies, tc>>,
         smxPc # "q", smxPc' # "q",
         NEW f \in {"seg", "mask", "s_ready", "pv_done"},
         Await("softmax", <<f, Lo(f) % Depth(f)>>), Lo(f)' = Lo(f) + 1,
         \A g \in Families \ {f} : Still(g)
  PROVE  Lags' /\ Whole' /\ Windows' /\ QPhase' /\ Lo(f) < Hi(f)
<1> USE DEF RInv, RingInv
<1>1. f \in Families /\ Await(WaiterOf(f), <<f, Lo(f) % Depth(f)>>)
  BY DEF WaiterOf, Families
<1>2. Lo(f) \in Up(f) /\ Lo(f) < Hi(f)
  BY <1>1, ObservedIsUp
<1>3. \A g \in Families : \A s : InFlight(g, s)' <=> InFlight(g, s)
  BY FlightOf DEF Families
<1>4. Up(f)' = Up(f) \ {Lo(f)} /\ Placed(f)'
  BY <1>1, <1>2, <1>3, SmxFrame, ObserveUp DEF Windows
<1>5. \A g \in Families \ {f} : Up(g)' = Up(g) /\ Placed(g)'
  BY StillUp
<1>6. /\ Lags' /\ Whole' /\ UNCHANGED <<left, done>>
      /\ \A w \in Threads : UNCHANGED seen[w][Q]
  BY <1>1, <1>4, <1>5, ObserveLags
<1>7. Windows'
  BY <1>3, <1>4, <1>5, SmxFrame, WindowsKept DEF Windows, Families
<1>8. QPhase'
  BY <1>6 DEF QPhase, QLanded, Threads
<1> QED
  BY <1>2, <1>6, <1>7, <1>8

LEMMA SmxSignals ==
  ASSUME RInv, UNCHANGED <<call, tmaPc, tmaStep, mmaPc, mmaStep, copies, tc>>,
         smxPc # "q", smxPc' # "q",
         NEW f \in {"aux_consumed", "p_ready"}, NEW h \in Nat, h = Hi(f), Uses(f, h),
         Lo(f) <= h, h < Lo(f) + Depth(f),
         ArriveOn(<<f, h % Depth(f)>>), Hi(f)' = h + 1,
         \A g \in Families \ {f} : Still(g)
  PROVE  Lags' /\ Whole' /\ Windows' /\ QPhase'
<1> USE DEF RInv, RingInv
<1>1. f \in Families /\ UNCHANGED Lo(f) /\ Lo(f) \in Nat /\ Depth(f) \in Nat
  BY SmxFrame, WindowBounds, FamilyTypes DEF Families
<1>2. \A g \in Families : \A s : InFlight(g, s)' <=> InFlight(g, s)
  BY FlightOf DEF Families
<1>3. \A s : ~InFlight(f, s) /\ ~InFlight(f, s)' /\ (Uses(f, s)' <=> Uses(f, s))
  BY FlightOf DEF Uses, Families, HasAux
<1>4. Up(f)' = Up(f) \cup {h} /\ h \notin Up(f) /\ Placed(f)'
  BY <1>1, <1>3 DEF Up, Window, Placed
<1>5. \A g \in Families \ {f} : Up(g)' = Up(g) /\ Placed(g)'
  BY StillUp
<1>6. Lags' /\ Whole' /\ UNCHANGED <<left, seen, done[Q]>>
  <2>1. h \in Lo(f) .. (h + 1) - 1 /\ h + 1 \in Nat /\ h + 1 <= Lo(f) + Depth(f)
    BY <1>1
  <2>2. Hi(f) <= h + 1
    OBVIOUS
  <2> QED
    BY <1>1, <1>4, <1>5, <2>1, <2>2, SignalLags
<1>7. Windows'
  BY <1>2, <1>4, <1>5, SmxFrame, WindowsKept DEF Windows, Families
<1>8. QPhase'
  BY <1>6 DEF QPhase, QLanded, Threads
<1> QED
  BY <1>6, <1>7, <1>8

\* The stages that do not touch a barrier of a family.
LEMMA SmxStill ==
  ASSUME RInv, UNCHANGED <<call, tmaPc, tmaStep, mmaPc, mmaStep, copies, tc>>,
         \A g \in Families : UNCHANGED <<Lo(g), Hi(g), RingLag(g)>>,
         \A b \in Barriers \ {Q} : UNCHANGED left[b]
  PROVE  Lags' /\ Whole' /\ Windows'
<1> USE DEF RInv, RingInv
<1>1. \A g \in Families : Up(g)' = Up(g) /\ Placed(g)' /\ \A s : InFlight(g, s)' <=> InFlight(g, s)
  BY StillUp DEF Still
<1>2. Lags' /\ Whole'
  BY <1>1, QuietLags DEF Whole
<1>3. Windows'
  BY <1>1, SmxFrame, WindowsKept DEF Windows, Families
<1> QED
  BY <1>2, <1>3

SmxUnchanged == UNCHANGED <<call, tmaPc, tmaStep, mmaPc, mmaStep, copies, tc>>

LEMMA SmxPcFacts ==
  ASSUME RInv, SmxUnchanged, n \in Nat, smxStep' \in Nat,
         smxPc' \in {"last_pv", "output", "done"} => smxStep' = n,
         smxPc' \in {"pv", "last_pv"} => smxStep' > 0,
         smxPc' = "mask" => HasMask(smxStep'),
         smxPc' = "seg" => call.segments, smxPc' = "aux" => HasAux
  PROVE  PcFacts'
BY SmxFrame DEF RInv, RingInv, PcFacts, HasAux, HasMask, SmxUnchanged

LEMMA SmxAwaitQRings ==
  ASSUME RInv, SmxAwaitQ, SmxUnchanged
  PROVE  RingInv'
<1> USE DEF RInv, SmxUnchanged
<1>0. n \in Nat /\ UNCHANGED n /\ smxPc = "q" /\ smxStep = 0 /\ smxStep' = 0
  BY CallType, SmxFrame DEF TypeInv, TypeOK, PcSteps, SmxAwaitQ
<1>1. Await("softmax", Q) /\ smxPc' = IF n > 0 THEN "s" ELSE "output"
  BY <1>0 DEF SmxAwaitQ, SmxTop
<1>2. \A pcs \in {AfterS, AfterMask, AfterSeg, AfterAux} : UNCHANGED Past(pcs)
  BY <1>0, <1>1, Pasts
<1>3. PvSeen = 0 /\ PvSeen' = 0
  BY <1>0 DEF PvSeen
<1>4. \A f \in Families : UNCHANGED <<Lo(f), Hi(f)>>
  BY <1>0, <1>2, <1>3, SmxFrame, SmxEnds
<1>5. Lags' /\ Whole' /\ Windows'
  BY <1>1, <1>4, QRing, SmxStill DEF TypeInv, TypeOK, Threads
<1>6. QPhase'
  BY <1>0, <1>1, QAwaited DEF RingInv, QPhase, QLanded, Threads
<1>7. PcFacts'
  BY <1>0, <1>1, SmxPcFacts
<1>8. Order'
  BY <1>0, <1>2, <1>3, SmxFrame DEF RingInv, Order
<1> QED
  BY <1>5, <1>6, <1>7, <1>8 DEF RingInv

\* The steps counted at each stage after a load of scores, mask or segment ids.
LEMMA SmxLoadRings ==
  ASSUME RInv, SmxLoad, SmxUnchanged
  PROVE  RingInv'
<1> USE DEF RInv, SmxUnchanged
<1>0. /\ n \in Nat /\ UNCHANGED n /\ smxStep \in 0 .. n - 1 /\ smxStep' = smxStep
      /\ smxPc \in {"s", "mask", "seg"}
  BY CallType, SmxFrame DEF TypeInv, TypeOK, PcSteps, SmxLoad, Combine
<1>1. PICK s \in 0 .. n - 1 : s = smxStep
  BY <1>0
<1>2. /\ HasMask(s) => HasAux
      /\ call.segments => HasAux
      /\ PvPc(s) = IF s > 0 THEN "pv" ELSE "store"
      /\ AuxPc(s) = IF HasAux THEN "aux" ELSE PvPc(s)
      /\ SegPc(s) = IF call.segments THEN "seg" ELSE AuxPc(s)
      /\ MaskPc(s) = IF HasMask(s) THEN "mask" ELSE SegPc(s)
  BY DEF HasMask, HasAux, PvPc, AuxPc, SegPc, MaskPc
<1>3. /\ smxPc' \in {"mask", "seg", "aux", "pv", "store"}
      /\ smxPc' = "mask" => HasMask(s)
      /\ smxPc' = "seg" => call.segments
      /\ smxPc' = "aux" => HasAux
      /\ smxPc' = "pv" => s > 0
      /\ smxPc' = "store" => s = 0
  BY <1>0, <1>1, <1>2 DEF SmxLoad
<1>4. PvSeen' = PvSeen
  BY <1>0, <1>1, <1>3 DEF PvSeen, AfterPv
<1>5. PICK f \in {"s_ready", "mask", "seg"} :
        /\ Await("softmax", <<f, Lo(f) % Depth(f)>>) /\ Lo(f)' = Lo(f) + 1
        /\ \A g \in {"s_ready", "mask", "seg", "aux_consumed"} \ {f} : Still(g)
        /\ Past(AfterS)' = IF f = "s_ready" THEN Past(AfterS) + 1 ELSE Past(AfterS)
  <2> USE <1>0, <1>1
  <2>1. CASE smxPc = "s"
    <3>1. /\ Lo("s_ready") = s /\ Lo("mask") = s /\ Lo("seg") = s
          /\ Hi("aux_consumed") = s
      BY <2>1, SmxEnds, Pasts
    <3>2. /\ Lo("s_ready")' = s + 1
          /\ Lo("mask")' = IF HasMask(s) THEN s ELSE s + 1
          /\ Lo("seg")' = IF HasMask(s) \/ call.segments THEN s ELSE s + 1
          /\ Hi("aux_consumed")' = IF HasAux THEN s ELSE s + 1
      BY <2>1, <1>2, SmxEnds, Pasts DEF SmxLoad
    <3>3. Await("softmax", <<"s_ready", s % Depth("s_ready")>>)
      BY <2>1, BarrierOf DEF SmxLoad, Combine
    <3>4. \A g \in {"mask", "seg", "aux_consumed"} : Still(g)
      BY <3>1, <3>2, SmxFrame DEF Still, Uses, Families
    <3> QED
      BY <3>1, <3>2, <3>3, <3>4, SmxEnds
  <2>2. CASE smxPc = "mask"
    <3>0. HasAux
      BY <2>2, <1>2 DEF RingInv, PcFacts
    <3>1. /\ Lo("s_ready") = s + 1 /\ Lo("mask") = s /\ Lo("seg") = s
          /\ Hi("aux_consumed") = s
      BY <2>2, SmxEnds, Pasts
    <3>2. /\ Lo("s_ready")' = s + 1 /\ Lo("mask")' = s + 1
          /\ Lo("seg")' = IF call.segments THEN s ELSE s + 1
          /\ Hi("aux_consumed")' = s
      BY <2>2, <1>2, <3>0, SmxEnds, Pasts DEF SmxLoad
    <3>3. Await("softmax", <<"mask", s % Depth("mask")>>)
      BY <2>2, BarrierOf DEF SmxLoad, Combine
    <3>4. \A g \in {"s_ready", "seg", "aux_consumed"} : Still(g)
      BY <3>1, <3>2, SmxFrame DEF Still, Uses, Families
    <3> QED
      BY <3>1, <3>2, <3>3, <3>4, SmxEnds
  <2>3. CASE smxPc = "seg"
    <3>0. HasAux
      BY <2>3, <1>2 DEF RingInv, PcFacts
    <3>1. /\ Lo("s_ready") = s + 1 /\ Lo("mask") = s + 1 /\ Lo("seg") = s
          /\ Hi("aux_consumed") = s
      BY <2>3, SmxEnds, Pasts
    <3>2. /\ Lo("s_ready")' = s + 1 /\ Lo("mask")' = s + 1 /\ Lo("seg")' = s + 1
          /\ Hi("aux_consumed")' = s
      BY <2>3, <1>2, <3>0, SmxEnds, Pasts DEF SmxLoad
    <3>3. Await("softmax", <<"seg", s % Depth("seg")>>)
      BY <2>3, BarrierOf DEF SmxLoad, Combine
    <3>4. \A g \in {"s_ready", "mask", "aux_consumed"} : Still(g)
      BY <3>1, <3>2, SmxFrame DEF Still, Families
    <3> QED
      BY <3>1, <3>2, <3>3, <3>4, SmxEnds
  <2> QED
    BY <2>1, <2>2, <2>3
<1>6. \A g \in Families \ {f} : Still(g)
  <2>1. \A g \in Families \ {"s_ready", "mask", "seg", "aux_consumed"} : Still(g)
    BY <1>0, <1>4, SmxFrame, SmxEnds DEF Still
  <2> QED
    BY <1>5, <2>1
<1>7. Lags' /\ Whole' /\ Windows' /\ QPhase' /\ Lo(f) < Hi(f)
  BY <1>0, <1>3, <1>5, <1>6, SmxObserves
<1>8. PcFacts'
  BY <1>0, <1>1, <1>3, SmxPcFacts
<1>9. Order'
  BY <1>0, <1>4, <1>5, <1>7, SmxFrame, SmxEnds, Progress DEF RingInv, Order, Hi
<1> QED
  BY <1>7, <1>8, <1>9 DEF RingInv

LEMMA SmxReleaseAuxRings ==
  ASSUME RInv, SmxReleaseAux, SmxUnchanged
  PROVE  RingInv'
<1> USE DEF RInv, SmxUnchanged
<1>0. /\ n \in Nat /\ UNCHANGED n /\ smxStep \in 0 .. n - 1 /\ smxStep' = smxStep
      /\ smxPc = "aux" /\ HasAux
      /\ smxPc' = IF smxStep > 0 THEN "pv" ELSE "store"
  BY CallType, SmxFrame DEF TypeInv, TypeOK, PcSteps, SmxReleaseAux, PvPc, RingInv, PcFacts
<1>1. PICK s \in 0 .. n - 1 : s = smxStep
  BY <1>0
<1>2. /\ UNCHANGED <<Past(AfterS), Past(AfterMask), Past(AfterSeg), PvSeen>>
      /\ Past(AfterAux) = s /\ Past(AfterAux)' = s + 1
  BY <1>0, <1>1, Pasts DEF PvSeen, AfterPv
<1>3. \A g \in Families \ {"aux_consumed"} : Still(g)
  BY <1>0, <1>2, SmxFrame, SmxEnds DEF Still
<1>4. ArriveOn(<<"aux_consumed", s % Depth("aux_consumed")>>)
  BY <1>1, BarrierOf DEF SmxReleaseAux
<1>5. /\ Lo("aux_consumed") <= s /\ s < Lo("aux_consumed") + Depth("aux_consumed")
      /\ Hi("aux_consumed") = s /\ Uses("aux_consumed", s)
  <2>1. AuxFree <= s /\ s < Loaded
    BY <1>0, <1>1, Progress, Pasts DEF RingInv
  <2> QED
    BY <1>0, <1>1, <1>2, <2>1, Progress, SmxEnds DEF RingInv, Lo, Depth, Uses
<1>6. Lags' /\ Whole' /\ Windows' /\ QPhase'
  BY <1>0, <1>2, <1>3, <1>4, <1>5, SmxEnds, SmxSignals
<1>7. PcFacts'
  BY <1>0, SmxPcFacts
<1>8. Order'
  BY <1>0, <1>2, SmxFrame DEF RingInv, Order
<1> QED
  BY <1>6, <1>7, <1>8 DEF RingInv

\* The two waits for a PV: before the store of P, and before the output.
LEMMA SmxAwaitPvRings ==
  ASSUME RInv, SmxAwaitPv \/ SmxReadO, SmxUnchanged
  PROVE  RingInv'
<1> USE DEF RInv, SmxUnchanged
<1>0. /\ n \in Nat /\ UNCHANGED n /\ smxStep \in 1 .. n /\ smxStep' = smxStep
      /\ \/ smxPc = "pv" /\ smxPc' = "store"
         \/ smxPc = "last_pv" /\ smxPc' = "output" /\ smxStep = n
      /\ Await("softmax", PvDone)
  BY CallType, SmxFrame DEF TypeInv, TypeOK, SmxAwaitPv, SmxReadO, RingInv, PcFacts
<1>1. /\ UNCHANGED <<Past(AfterS), Past(AfterMask), Past(AfterSeg), Past(AfterAux)>>
      /\ PvSeen = smxStep - 1 /\ PvSeen' = PvSeen + 1
  BY <1>0, Pasts DEF PvSeen, AfterPv
<1>2. \A g \in Families \ {"pv_done"} : Still(g)
  BY <1>0, <1>1, SmxFrame, SmxEnds DEF Still
<1>3. Await("softmax", <<"pv_done", Lo("pv_done") % Depth("pv_done")>>)
  BY <1>0, <1>1, BarrierOf, SmxEnds
<1>4. Lags' /\ Whole' /\ Windows' /\ QPhase' /\ Lo("pv_done") < Hi("pv_done")
  BY <1>0, <1>1, <1>2, <1>3, SmxEnds, SmxObserves
<1>5. PcFacts'
  BY <1>0, SmxPcFacts
<1>6. Order'
  <2>1. PvSeen < mmaStep
    BY <1>4, SmxEnds DEF Hi
  <2> QED
    BY <1>0, <1>1, <2>1, SmxFrame, Progress DEF RingInv, Order
<1> QED
  BY <1>4, <1>5, <1>6 DEF RingInv

LEMMA SmxArrivePRings ==
  ASSUME RInv, SmxArriveP, SmxUnchanged
  PROVE  RingInv'
<1> USE DEF RInv, SmxUnchanged
<1>0. /\ n \in Nat /\ UNCHANGED n /\ smxStep \in 0 .. n - 1 /\ smxStep' = smxStep + 1
      /\ smxPc = "p_ready"
      /\ smxPc' = IF smxStep + 1 < n THEN "s" ELSE "last_pv"
      /\ ArriveOn(PReady)
  BY CallType, SmxFrame DEF TypeInv, TypeOK, PcSteps, SmxArriveP, SmxTop
<1>1. PICK s \in 0 .. n - 1 : s = smxStep
  BY <1>0
<1>2. UNCHANGED <<Past(AfterS), Past(AfterMask), Past(AfterSeg), Past(AfterAux), PvSeen>>
  BY <1>0, Pasts DEF PvSeen, AfterPv
<1>3. PvSeen = s
  BY <1>0, <1>1 DEF PvSeen, AfterPv
<1>4. \A g \in Families \ {"p_ready"} : Still(g)
  BY <1>0, <1>2, SmxFrame, SmxEnds DEF Still
<1>5. ArriveOn(<<"p_ready", s % Depth("p_ready")>>)
  BY <1>0, <1>1, BarrierOf
<1>6. /\ Lo("p_ready") <= s /\ s < Lo("p_ready") + Depth("p_ready")
      /\ Hi("p_ready") = s /\ Uses("p_ready", s)
  BY <1>1, <1>3, Progress, SmxEnds DEF RingInv, Lo, Depth, Uses, Families
<1>7. Lags' /\ Whole' /\ Windows' /\ QPhase'
  BY <1>0, <1>1, <1>4, <1>5, <1>6, SmxEnds, SmxSignals
<1>8. PcFacts'
  BY <1>0, SmxPcFacts
<1>9. Order'
  BY <1>0, <1>1, <1>2, <1>3, SmxFrame, Progress DEF RingInv, Order
<1> QED
  BY <1>7, <1>8, <1>9 DEF RingInv

\* The stages between two barrier operations.
LEMMA SmxInnerRings ==
  ASSUME RInv, SmxStoreP \/ SmxRescaleO \/ SmxOutput, SmxUnchanged
  PROVE  RingInv'
<1> USE DEF RInv, SmxUnchanged
<1>0. /\ n \in Nat /\ UNCHANGED n /\ smxStep \in Nat /\ smxStep' = smxStep
      /\ \/ smxPc \in {"store", "rescale"} /\ smxPc' \in {"rescale", "p_ready"}
         \/ smxPc = "output" /\ smxPc' = "done" /\ smxStep = n
      /\ UNCHANGED barVars
  BY CallType, SmxFrame DEF TypeInv, TypeOK, SmxStoreP, AfterStore, SmxRescaleO,
     SmxOutput, RingInv, PcFacts
<1>1. UNCHANGED <<Past(AfterS), Past(AfterMask), Past(AfterSeg), Past(AfterAux), PvSeen>>
  BY <1>0, Pasts DEF PvSeen, AfterPv
<1>2. \A f \in Families : UNCHANGED <<Lo(f), Hi(f), RingLag(f)>>
  BY <1>0, <1>1, SmxFrame, SmxEnds DEF RingLag, Lag, barVars
<1>3. Lags' /\ Whole' /\ Windows'
  BY <1>0, <1>2, SmxStill DEF barVars
<1>4. QPhase'
  BY <1>0 DEF RingInv, QPhase, QLanded, barVars
<1>5. PcFacts'
  BY <1>0, SmxPcFacts
<1>6. Order'
  BY <1>0, <1>1, SmxFrame DEF RingInv, Order
<1> QED
  BY <1>3, <1>4, <1>5, <1>6 DEF RingInv

LEMMA SoftmaxWgRings == RInv /\ SoftmaxWg => RingInv'
BY SmxAwaitQRings, SmxLoadRings, SmxReleaseAuxRings, SmxAwaitPvRings,
   SmxArrivePRings, SmxInnerRings DEF SoftmaxWg, SmxUnchanged

LEMMA NextRings == RInv /\ [Next]_vars => RInv'
<1> SUFFICES ASSUME RInv, [Next]_vars PROVE RingInv'
  BY NextType DEF RInv
<1>1. CASE UNCHANGED vars
  <2>1. PcFacts' /\ Order' /\ \A f : UNCHANGED <<Lo(f), Hi(f)>>
    BY <1>1, ThreadsStill DEF RInv, RingInv, vars
  <2>2. \A f \in Families : UNCHANGED RingLag(f)
    BY <1>1 DEF RingLag, Lag, vars, barVars
  <2>3. Lags' /\ Whole' /\ Windows'
    BY <1>1, <2>1, <2>2, SmxStill DEF vars, barVars, threadVars
  <2>4. QPhase'
    BY <1>1 DEF RInv, RingInv, QPhase, QLanded, vars, barVars, threadVars
  <2> QED
    BY <2>1, <2>3, <2>4 DEF RingInv
<1> QED
  BY <1>1, CopyEngineRings, TensorCoreRings, TmaWarpRings, MmaWarpRings,
     SoftmaxWgRings DEF Next, Exited, RInv

LEMMA SpecRings == Spec => []RInv
<1>1. Init => RInv
  BY InitType, InitRings DEF RInv
<1> QED
  BY <1>1, NextRings, PTL DEF Spec
-----------------------------------------------------------------------------
\* A lag is 0 or 1: the parity that a waiter tests is never that of a phase
\* before the last.
LEMMA LagIsFlag ==
  ASSUME RInv, NEW f \in Families, NEW i \in 0 .. Depth(f) - 1
  PROVE  Lag(WaiterOf(f), <<f, i>>) = IF \E s \in Up(f) : s % Depth(f) = i THEN 1 ELSE 0
BY DEF RInv, RingInv, Lags, Encodes, RingLag

\* Every barrier but Q is one of a family's, with that family's waiter.
LEMMA FamilyOf ==
  ASSUME NEW b \in Barriers \ {Q}
  PROVE  \E f \in Families : \E i \in 0 .. Depth(f) - 1 :
           b = <<f, i>> /\ WaitersOf(b) = {WaiterOf(f)}
<1>1. CASE b \in {"k", "v", "seg", "mask", "kv_consumed", "aux_consumed"} \X Slots
  <2>1. PICK f \in {"k", "v", "seg", "mask", "kv_consumed", "aux_consumed"}, i \in Slots : b = <<f, i>>
    BY <1>1
  <2>2. f \in Families /\ i \in 0 .. Depth(f) - 1
    BY <2>1 DEF Families, Depth, Slots
  <2>3. WaitersOf(b) = {WaiterOf(f)}
    BY <2>1 DEF WaitersOf, WaiterOf
  <2> QED
    BY <2>1, <2>2, <2>3
<1>2. CASE b \in {"s_ready"} \X {0, 1}
  <2>1. PICK i \in {0, 1} : b = <<"s_ready", i>>
    BY <1>2
  <2>2. "s_ready" \in Families /\ i \in 0 .. Depth("s_ready") - 1
    BY DEF Families, Depth
  <2>3. WaitersOf(b) = {WaiterOf("s_ready")}
    BY <2>1 DEF WaitersOf, WaiterOf
  <2> QED
    BY <2>1, <2>2, <2>3
<1>3. CASE b \in {PReady, PvDone}
  <2>1. PICK f \in {"p_ready", "pv_done"} : b = <<f, 0>>
    BY <1>3 DEF PReady, PvDone
  <2>2. f \in Families /\ 0 \in 0 .. Depth(f) - 1
    BY DEF Families, Depth
  <2>3. WaitersOf(b) = {WaiterOf(f)}
    BY <2>1 DEF WaitersOf, WaiterOf
  <2> QED
    BY <2>1, <2>2, <2>3
<1> QED
  BY <1>1, <1>2, <1>3 DEF Barriers

LEMMA QWaiters == WaitersOf(Q) = {"mma", "softmax"}
BY DEF WaitersOf, Q

\* No barrier runs more than one phase ahead of a thread that waits on it, so
\* that no phase is mistaken for another, for rings of any depth.
THEOREM PhasesDistinct == Spec => []PhaseLag
<1>1. RInv => PhaseLag
  <2> SUFFICES ASSUME RInv, NEW b \in Barriers, NEW w \in WaitersOf(b)
               PROVE  Lag(w, b) \in {0, 1}
    BY DEF PhaseLag
  <2>1. CASE b = Q
    BY <2>1, QWaiters DEF RInv, RingInv, QPhase, Lag
  <2>2. CASE b # Q
    BY <2>2, FamilyOf, LagIsFlag
  <2> QED
    BY <2>1, <2>2
<1> QED
  BY <1>1, SpecRings, PTL

\* Once the CTA has finished, every window is empty and every phase observed.
THEOREM ExitsClean == Spec => []CleanExit
<1>1. RInv => CleanExit
  <2> SUFFICES ASSUME RInv, Finished, NEW b \in Barriers, NEW w \in WaitersOf(b)
               PROVE  left[b] = Arrivals[b] /\ Lag(w, b) = 0
    <3>1. \A b \in Barriers : WaitersOf(b) # {}
      BY FamilyOf, QWaiters
    <3> QED
      BY <3>1 DEF CleanExit
  <2> USE DEF RInv, RingInv
  <2>1. CASE b = Q
    <3>1. Arrivals[Q] = IF call.segments THEN 2 ELSE 1
      BY <2>1 DEF Arrivals
    <3> QED
      BY <2>1, <3>1, QWaiters DEF QPhase, QLanded, Finished, Lag
  <2>2. CASE b # Q
    <3>1. left[b] = Arrivals[b]
      BY <2>2 DEF Whole, Arrivals
    <3>2. n \in Nat /\ mmaStep = n /\ smxStep = n
      BY CallType DEF Finished, PcFacts, TypeInv, TypeOK
    <3>3. KvFree = n /\ AuxFree = n /\ Loaded = n /\ VSeen = n /\ QkIssued = n
      BY <3>2 DEF Finished, KvFree, AuxFree, Loaded, VSeen, QkIssued
    <3>4. PvSeen = n /\ \A pcs \in {AfterS, AfterMask, AfterSeg, AfterAux} : Past(pcs) = n
      BY <3>2, Pasts DEF Finished, PvSeen
    <3>5. \A f \in Families : Lo(f) = n /\ Hi(f) = n
      BY <3>2, <3>3, <3>4 DEF Families, Lo, Hi
    <3>6. \A f \in Families : Up(f) = {}
      BY <3>2, <3>5 DEF Up, Window
    <3>7. Lag(w, b) = 0
      BY <2>2, <3>6, FamilyOf, LagIsFlag
    <3> QED
      BY <3>1, <3>7
  <2> QED
    BY <2>1, <2>2
<1> QED
  BY <1>1, SpecRings, PTL

\* Where the work in flight can be.
LEMMA CopyPlaces ==
  ASSUME RInv, NEW c \in copies \ {Q, QSeg}
  PROVE  \E f \in {"k", "v", "seg", "mask"}, t \in Nat :
           /\ c = <<f, t>> /\ CopyCell(c) = Ring(f, t)
           /\ Lo(f) <= t /\ t < Loaded
<1>1. PICK f \in {"k", "v", "seg", "mask"}, t \in 0 .. n - 1 : c = <<f, t>>
  BY DEF RInv, TypeInv, TypeOK
<1>2. CopyCell(c) = Ring(f, t)
  BY <1>1 DEF CopyCell
<1>3. t \in Window(f)
  BY <1>1, FlightOf DEF RInv, RingInv, Windows, Placed, Families
<1>4. Lo(f) <= t /\ t < Loaded /\ t \in Nat
  <2>1. f \in Families /\ Hi(f) = Loaded /\ n \in Nat
    BY CallType, TmaEnds DEF Families, RInv, TypeInv, TypeOK
  <2>2. Lo(f) \in Nat /\ Hi(f) \in Nat
    BY <2>1, WindowBounds DEF RInv, RingInv
  <2> QED
    BY <1>3, <2>1, <2>2 DEF Window
<1> QED
  BY <1>1, <1>2, <1>4

LEMMA OpPlaces ==
  ASSUME RInv, NEW op \in tc
  PROVE  \E s \in Nat :
           \/ /\ op = <<"qk", s>> /\ Past(AfterS) <= s /\ s < QkIssued /\ mmaPc # "q"
              /\ OpReads(op) = {Q, Ring("k", s)} /\ OpWrites(op) = {SReady(s)}
           \/ /\ op = <<"pv", s>> /\ KvFree <= s /\ s < mmaStep /\ PvSeen <= s
              /\ OpReads(op) = {PBuf, Ring("v", s)} /\ OpWrites(op) = {OAcc}
           \/ op = <<"commit", s>> /\ OpReads(op) = {} /\ OpWrites(op) = {}
<1> USE DEF RInv, RingInv
<1>1. PICK o \in {"qk", "pv", "commit"}, s \in 0 .. n - 1 : op = <<o, s>>
  BY DEF TypeInv, TypeOK
<1>2. s \in Nat /\ op[1] = o /\ op[2] = s /\ s < n
  BY <1>1, CallType DEF TypeInv, TypeOK
<1>3. CASE o = "qk"
  <2>1. s \in Window("s_ready")
    BY <1>1, <1>3, FlightOf DEF Windows, Placed, Families
  <2>2. Past(AfterS) <= s /\ s < QkIssued
    BY <2>1, Progress DEF Window, Lo, Hi
  <2>3. mmaPc # "q"
    BY <1>2, <2>2, Progress DEF QkIssued
  <2>4. OpReads(op) = {Q, Ring("k", s)} /\ OpWrites(op) = {SReady(s)}
    BY <1>2, <1>3 DEF OpReads, OpWrites
  <2> QED
    BY <1>1, <1>2, <1>3, <2>2, <2>3, <2>4
<1>4. CASE o = "pv"
  <2>1. s \in Window("kv_consumed") /\ s \in Window("pv_done")
    BY <1>1, <1>4, FlightOf DEF Windows, Placed, Families
  <2>2. KvFree <= s /\ s < mmaStep /\ PvSeen <= s
    BY <2>1, Progress DEF Window, Lo, Hi
  <2>3. OpReads(op) = {PBuf, Ring("v", s)} /\ OpWrites(op) = {OAcc}
    BY <1>2, <1>4 DEF OpReads, OpWrites
  <2> QED
    BY <1>1, <1>2, <1>4, <2>2, <2>3
<1>5. CASE o = "commit"
  BY <1>1, <1>2, <1>5 DEF OpReads, OpWrites
<1> QED
  BY <1>1, <1>3, <1>4, <1>5

\* Two users of a ring less than its depth apart have different slots.
LEMMA RingApart ==
  ASSUME NEW f, NEW s \in Nat, NEW t \in Nat, s < t, t < s + NumStages
  PROVE  Ring(f, s) # Ring(f, t)
<1>1. NumStages \in Nat \ {0}
  OBVIOUS
<1>2. s % NumStages # t % NumStages
  BY <1>1, SlotsDiffer, Zenon
<1> QED
  BY <1>2 DEF Ring

LEMMA SReadyApart ==
  ASSUME NEW s \in Nat, SReady(s) = SReady(s + 1)
  PROVE  FALSE
<1>1. 2 \in Nat \ {0} /\ s + 1 \in Nat /\ s < s + 1 /\ s + 1 < s + 2
  OBVIOUS
<1>2. s % 2 # (s + 1) % 2
  BY <1>1, SlotsDiffer, Zenon
<1> QED
  BY <1>2 DEF SReady

\* What softmax has open, and how far it and the MMAs are then.
LEMMA SmxOpen ==
  ASSUME RInv
  PROVE  /\ smxStep \in Nat /\ n \in Nat
         /\ SReady(smxStep) \in SmxReads => Past(AfterS) = smxStep + 1
         /\ SmxReads \subseteq {SReady(smxStep), Ring("mask", smxStep), Ring("seg", smxStep), OAcc}
         /\ Ring("mask", smxStep) \in SmxReads => Past(AfterMask) = smxStep + 1
         /\ Ring("seg", smxStep) \in SmxReads => Past(AfterSeg) = smxStep + 1
         /\ OAcc \in SmxReads => PvSeen = n
         /\ SmxWrites \subseteq {PBuf, OAcc, Q}
         /\ PBuf \in SmxWrites \/ OAcc \in SmxWrites => PvSeen = smxStep
         /\ Q \in SmxWrites => smxPc = "output" /\ smxStep = n
<1> USE DEF RInv, RingInv
<1>0. smxStep \in Nat /\ n \in Nat
  BY CallType DEF TypeInv, TypeOK
<1>1. /\ SmxReads \subseteq {SReady(smxStep), Ring("mask", smxStep), Ring("seg", smxStep), OAcc}
      /\ SmxWrites \subseteq {PBuf, OAcc, Q}
  BY DEF SmxReads, SmxWrites
<1>2. SReady(smxStep) \in SmxReads => Past(AfterS) = smxStep + 1
  BY Pasts DEF SmxReads, SReady, Ring, OAcc
<1>3. Ring("mask", smxStep) \in SmxReads => Past(AfterMask) = smxStep + 1
  BY Pasts DEF SmxReads, SReady, Ring, OAcc
<1>4. Ring("seg", smxStep) \in SmxReads => Past(AfterSeg) = smxStep + 1
  BY Pasts DEF SmxReads, SReady, Ring, OAcc
<1>5. OAcc \in SmxReads => PvSeen = n
  BY DEF SmxReads, SReady, Ring, OAcc, PvSeen, PcFacts
<1>6. PBuf \in SmxWrites \/ OAcc \in SmxWrites => PvSeen = smxStep
  BY DEF SmxWrites, PBuf, OAcc, Q, PvSeen, AfterPv
<1>7. Q \in SmxWrites => smxPc = "output" /\ smxStep = n
  BY DEF SmxWrites, PBuf, OAcc, Q, PcFacts
<1> QED
  BY <1>0, <1>1, <1>2, <1>3, <1>4, <1>5, <1>6, <1>7

\* No copy, MMA or softmax store in flight writes what another is reading or
\* writing, for rings of any depth: every window is shorter than its ring.
THEOREM RaceFree == Spec => []NoRace
<1>1. RInv => NoRace
  <2> SUFFICES ASSUME RInv PROVE NoRace
    OBVIOUS
  <2>0. /\ n \in Nat /\ KvFree \in Nat /\ mmaStep \in Nat /\ smxStep \in Nat
        /\ QkIssued \in Nat /\ Loaded \in Nat /\ PvSeen \in Nat
        /\ KvFree <= mmaStep /\ mmaStep <= smxStep /\ smxStep <= mmaStep + 1
        /\ PvSeen <= mmaStep /\ Loaded <= KvFree + NumStages /\ QkIssued <= Loaded
        /\ Loaded <= n /\ QkIssued <= mmaStep + 2
        /\ Past(AfterS) \in {smxStep, smxStep + 1}
    BY Progress DEF RInv, RingInv
  <2>1. ASSUME NEW f \in {"k", "v", "seg", "mask"}
        PROVE  Lo(f) \in Nat /\ mmaStep <= Lo(f)
    <3>1. /\ mmaStep <= VSeen /\ VSeen <= QkIssued /\ VSeen \in Nat
          /\ Past(AfterSeg) \in {smxStep, smxStep + 1}
          /\ Past(AfterMask) \in {smxStep, smxStep + 1}
      BY Progress DEF RInv, RingInv
    <3>2. Lo(f) \in {QkIssued, VSeen, Past(AfterSeg), Past(AfterMask)}
      BY DEF Lo
    <3> QED
      BY <2>0, <3>1, <3>2
  <2>2. ASSUME NEW c \in copies \ {QSeg}, NEW d \in copies \ {c, QSeg}
        PROVE  CopyCell(c) # CopyCell(d)
    <3>1. CASE c = Q \/ d = Q
      <4>1. ASSUME NEW e \in copies \ {Q, QSeg} PROVE CopyCell(e) # Q
        BY CopyPlaces DEF Ring, Q
      <4>2. CopyCell(Q) = Q
        BY DEF CopyCell, Q
      <4> QED
        BY <3>1, <4>1, <4>2
    <3>2. CASE c # Q /\ d # Q
      <4>1. PICK f \in {"k", "v", "seg", "mask"}, s \in Nat :
              /\ c = <<f, s>> /\ CopyCell(c) = Ring(f, s) /\ Lo(f) <= s /\ s < Loaded
        BY <3>2, CopyPlaces
      <4>2. PICK g \in {"k", "v", "seg", "mask"}, t \in Nat :
              /\ d = <<g, t>> /\ CopyCell(d) = Ring(g, t) /\ Lo(g) <= t /\ t < Loaded
        BY <3>2, CopyPlaces
      <4>3. CASE f # g
        BY <4>1, <4>2, <4>3 DEF Ring
      <4>4. CASE f = g
        <5>1. s # t /\ s < t + NumStages /\ t < s + NumStages
          BY <2>0, <2>1, <4>1, <4>2, <4>4
        <5>2. Ring(f, s) # Ring(f, t)
          BY <5>1, RingApart
        <5> QED
          BY <4>1, <4>2, <4>4, <5>2
      <4> QED
        BY <4>3, <4>4
    <3> QED
      BY <3>1, <3>2
  <2>3. ASSUME NEW c \in copies \ {QSeg}, NEW op \in tc
        PROVE  CopyCell(c) \notin OpReads(op)
    <3>1. CASE c = Q
      <4>1. CopyCell(c) = Q /\ mmaPc = "q"
        BY <3>1 DEF CopyCell, Q, RInv, RingInv, QPhase, QLanded
      <4>2. OpReads(op) = {} \/ \E s \in Nat : OpReads(op) = {PBuf, Ring("v", s)}
        BY <4>1, OpPlaces
      <4> QED
        BY <4>1, <4>2 DEF PBuf, Ring, Q
    <3>2. CASE c # Q
      <4>1. PICK f \in {"k", "v", "seg", "mask"}, t \in Nat :
              /\ CopyCell(c) = Ring(f, t) /\ Lo(f) <= t /\ t < Loaded
        BY <3>2, CopyPlaces
      <4>2. CASE \E s \in Nat : /\ Past(AfterS) <= s /\ s < QkIssued
                              /\ OpReads(op) = {Q, Ring("k", s)}
        <5>1. PICK s \in Nat : /\ Past(AfterS) <= s /\ s < QkIssued
                               /\ OpReads(op) = {Q, Ring("k", s)}
          BY <4>2
        <5>2. CASE f = "k"
          <6>1. s < t /\ t < s + NumStages
            BY <2>0, <4>1, <5>1, <5>2 DEF Lo
          <6>2. Ring("k", s) # Ring("k", t)
            BY <6>1, RingApart
          <6> QED
            BY <4>1, <5>1, <5>2, <6>2 DEF Ring, Q
        <5> QED
          BY <4>1, <5>1, <5>2 DEF Ring, Q
      <4>3. CASE \E s \in Nat : /\ KvFree <= s /\ s < mmaStep
                              /\ OpReads(op) = {PBuf, Ring("v", s)}
        <5>1. PICK s \in Nat : /\ KvFree <= s /\ s < mmaStep
                               /\ OpReads(op) = {PBuf, Ring("v", s)}
          BY <4>3
        <5>2. CASE f = "v"
          <6>1. s < t /\ t < s + NumStages
            BY <2>0, <2>1, <4>1, <5>1, <5>2
          <6>2. Ring("v", s) # Ring("v", t)
            BY <6>1, RingApart
          <6> QED
            BY <4>1, <5>1, <5>2, <6>2 DEF Ring, PBuf
        <5> QED
          BY <4>1, <5>1, <5>2 DEF Ring, PBuf
      <4> QED
        BY <4>2, <4>3, OpPlaces
    <3> QED
      BY <3>1, <3>2
  <2>4. ASSUME NEW c \in copies \ {QSeg}
        PROVE  CopyCell(c) \notin SmxReads \cup SmxWrites
    <3>1. CASE c = Q
      <4>1. CopyCell(c) = Q /\ smxPc = "q"
        BY <3>1 DEF CopyCell, Q, RInv, RingInv, QPhase, QLanded
      <4>2. Q \notin SmxReads
        BY SmxOpen DEF SReady, Ring, OAcc, Q
      <4> QED
        BY <4>1, <4>2, SmxOpen
    <3>2. CASE c # Q
      <4>1. PICK f \in {"k", "v", "seg", "mask"}, t \in Nat :
              /\ CopyCell(c) = Ring(f, t) /\ Lo(f) <= t /\ t < Loaded
        BY <3>2, CopyPlaces
      <4>2. Ring(f, t) \notin SmxWrites
        BY SmxOpen DEF Ring, PBuf, OAcc, Q
      <4>3. ASSUME Ring(f, t) \in SmxReads PROVE FALSE
        <5>1. f \in {"seg", "mask"} /\ Ring(f, t) = Ring(f, smxStep)
          BY <4>3, SmxOpen DEF Ring, SReady, OAcc
        <5>2. Lo(f) = smxStep + 1
          BY <4>3, <5>1, SmxOpen, SmxEnds
        <5>3. smxStep < t /\ t < smxStep + NumStages
          BY <2>0, <4>1, <5>2
        <5> QED
          BY <2>0, <5>1, <5>3, RingApart
      <4> QED
        BY <4>1, <4>2, <4>3
    <3> QED
      BY <3>1, <3>2
  <2>5. ASSUME NEW op \in tc, NEW other \in tc \ {op}
        PROVE  OpWrites(op) \cap (OpWrites(other) \cup OpReads(other)) = {}
    <3>1. OpWrites(op) \cap OpReads(other) = {}
      <4>1. \A b \in OpWrites(op) : b = OAcc \/ \E s \in Nat : b = SReady(s)
        BY OpPlaces
      <4>2. \A b \in OpReads(other) : b \in {Q, PBuf} \/ \E s \in Nat : b \in {Ring("k", s), Ring("v", s)}
        BY OpPlaces
      <4> QED
        BY <4>1, <4>2 DEF OAcc, SReady, Q, PBuf, Ring
    <3>2. OpWrites(op) \cap OpWrites(other) = {}
      <4>1. PICK s \in Nat :
              \/ /\ op = <<"qk", s>> /\ Past(AfterS) <= s /\ s < QkIssued /\ OpWrites(op) = {SReady(s)}
              \/ op = <<"pv", s>> /\ PvSeen <= s /\ s < mmaStep /\ OpWrites(op) = {OAcc}
              \/ OpWrites(op) = {}
        BY OpPlaces
      <4>2. PICK t \in Nat :
              \/ /\ other = <<"qk", t>> /\ Past(AfterS) <= t /\ t < QkIssued /\ OpWrites(other) = {SReady(t)}
              \/ other = <<"pv", t>> /\ PvSeen <= t /\ t < mmaStep /\ OpWrites(other) = {OAcc}
              \/ OpWrites(other) = {}
        BY OpPlaces
      <4>3. \A i \in Nat : SReady(i) # OAcc
        BY DEF SReady, OAcc
      <4>4. CASE op = <<"qk", s>> /\ other = <<"qk", t>>
        <5>1. s # t
          BY <4>4
        <5>2. ASSUME Past(AfterS) <= s, s < QkIssued, Past(AfterS) <= t, t < QkIssued
              PROVE  SReady(s) # SReady(t)
          <6>1. s = t + 1 \/ t = s + 1
            BY <2>0, <5>1, <5>2
          <6> QED
            BY <6>1, SReadyApart
        <5> QED
          BY <4>1, <4>2, <4>4, <5>2
      <4>5. CASE op = <<"pv", s>> /\ other = <<"pv", t>>
        <5>1. s # t
          BY <4>5
        <5>2. mmaStep <= PvSeen + 1
          BY Progress DEF RInv, RingInv
        <5> QED
          BY <2>0, <4>1, <4>2, <4>5, <5>1, <5>2
      <4> QED
        BY <4>1, <4>2, <4>3, <4>4, <4>5
    <3> QED
      BY <3>1, <3>2
  <2>6. ASSUME NEW op \in tc
        PROVE  /\ OpWrites(op) \cap (SmxReads \cup SmxWrites) = {}
               /\ OpReads(op) \cap SmxWrites = {}
    <3>1. PICK s \in Nat :
            \/ /\ Past(AfterS) <= s /\ s < QkIssued
               /\ OpReads(op) = {Q, Ring("k", s)} /\ OpWrites(op) = {SReady(s)}
            \/ /\ s < mmaStep /\ PvSeen <= s
               /\ OpReads(op) = {PBuf, Ring("v", s)} /\ OpWrites(op) = {OAcc}
            \/ OpReads(op) = {} /\ OpWrites(op) = {}
      BY OpPlaces
    <3>2. CASE /\ Past(AfterS) <= s /\ s < QkIssued
               /\ OpReads(op) = {Q, Ring("k", s)} /\ OpWrites(op) = {SReady(s)}
      <4>1. SReady(s) \notin SmxWrites /\ Ring("k", s) \notin SmxWrites
        BY SmxOpen DEF SReady, Ring, PBuf, OAcc, Q
      <4>2. Q \notin SmxWrites
        BY <2>0, <3>2, SmxOpen
      <4>3. ASSUME SReady(s) \in SmxReads PROVE FALSE
        <5>1. SReady(s) = SReady(smxStep)
          BY <4>3, SmxOpen DEF SReady, Ring, OAcc
        <5>2. s = smxStep + 1
          BY <2>0, <3>2, <4>3, <5>1, SmxOpen
        <5> QED
          BY <2>0, <5>1, <5>2, SReadyApart
      <4> QED
        BY <3>2, <4>1, <4>2, <4>3
    <3>3. CASE /\ s < mmaStep /\ PvSeen <= s
               /\ OpReads(op) = {PBuf, Ring("v", s)} /\ OpWrites(op) = {OAcc}
      <4>1. mmaStep <= n
        BY DEF RInv, TypeInv, TypeOK
      <4>2. OAcc \notin SmxReads /\ OAcc \notin SmxWrites /\ PBuf \notin SmxWrites
        BY <2>0, <3>3, <4>1, SmxOpen
      <4>3. Ring("v", s) \notin SmxWrites
        BY SmxOpen DEF Ring, PBuf, OAcc, Q
      <4> QED
        BY <3>3, <4>2, <4>3
    <3> QED
      BY <3>1, <3>2, <3>3
  <2> QED
    BY <2>2, <2>3, <2>4, <2>5, <2>6 DEF NoRace
<1> QED
  BY <1>1, SpecRings, PTL
-----------------------------------------------------------------------------
TInv == RInv /\ TileInv

\* Where the work in flight is, given how far the threads are.
LEMMA CopyFlight ==
  ASSUME RInv, NEW f \in {"k", "v", "seg", "mask"}, NEW t, <<f, t>> \in copies
  PROVE  /\ t \in 0 .. Loaded - 1 /\ Loaded <= t + NumStages /\ Uses(f, t)
         /\ CopyCell(<<f, t>>) = Ring(f, t) /\ t \in Nat /\ Loaded \in Nat
<1> USE DEF RInv, RingInv
<1>1. t \in 0 .. n - 1
  BY DEF TypeInv, TypeOK, Q, QSeg
<1>2. f \in Families /\ Hi(f) = Loaded /\ Depth(f) = NumStages
  BY TmaEnds DEF Families, Depth
<1>3. t \in Window(f) /\ Uses(f, t)
  BY <1>1, <1>2, FlightOf DEF Windows, Placed
<1>4. Lo(f) \in Nat /\ Loaded \in Nat /\ Loaded <= Lo(f) + NumStages /\ Loaded <= n /\ n \in Nat
  BY <1>2, WindowBounds, Progress
<1>5. CopyCell(<<f, t>>) = Ring(f, t)
  BY DEF CopyCell
<1>6. Window(f) = Lo(f) .. Loaded - 1
  BY <1>2 DEF Window
<1>7. Lo(f) <= t /\ t < Loaded /\ t \in Nat
  BY <1>1, <1>3, <1>4, <1>6
<1> QED
  BY <1>3, <1>4, <1>5, <1>7

LEMMA QkFlight ==
  ASSUME RInv, NEW s, <<"qk", s>> \in tc
  PROVE  s \in Nat /\ Past(AfterS) <= s /\ s < QkIssued /\ s < n /\ QLanded
<1> USE DEF RInv, RingInv
<1>1. s \in 0 .. n - 1
  BY DEF TypeInv, TypeOK
<1>2. s \in Window("s_ready")
  BY <1>1, FlightOf DEF Windows, Placed, Families
<1>3. Past(AfterS) <= s /\ s < QkIssued /\ s \in Nat /\ s < n
  BY <1>1, <1>2, Progress DEF Window, Lo, Hi
<1>4. QLanded
  BY <1>3, Progress DEF QkIssued, QPhase
<1> QED
  BY <1>3, <1>4

LEMMA PvFlight ==
  ASSUME RInv, NEW s, <<"pv", s>> \in tc
  PROVE  /\ s \in Nat /\ s = mmaStep - 1 /\ s = smxStep - 1 /\ KvFree <= s /\ s < n
         /\ PvSeen = s /\ Stored = smxStep /\ smxPc # "rescale"
<1> USE DEF RInv, RingInv
<1>1. s \in 0 .. n - 1
  BY DEF TypeInv, TypeOK
<1>2. s \in Window("kv_consumed") /\ s \in Window("pv_done")
  BY <1>1, FlightOf DEF Windows, Placed, Families
<1>3. KvFree <= s /\ s < mmaStep /\ PvSeen <= s
  BY <1>2, Progress DEF Window, Lo, Hi
<1>4. /\ s \in Nat /\ mmaStep <= smxStep /\ smxStep <= PvSeen + 1
      /\ smxStep \in Nat /\ mmaStep \in Nat /\ PvSeen \in Nat /\ n \in Nat
  BY <1>1, Progress
<1>5. s = mmaStep - 1 /\ s = smxStep - 1 /\ PvSeen = s
  BY <1>3, <1>4
<1>6. smxPc \notin AfterPv
  BY <1>4, <1>5 DEF PvSeen
<1> QED
  BY <1>1, <1>3, <1>4, <1>5, <1>6, Pasts DEF AfterPv, Stored

\* At most one PV is in flight, and every step whose slot was released or
\* whose result softmax has waited for has retired.
LEMMA Retirements ==
  ASSUME RInv
  PROVE  /\ Retired \in Nat /\ Retired <= mmaStep /\ mmaStep <= Retired + 1
         /\ KvFree <= Retired /\ PvSeen <= Retired
         /\ PvSeen = mmaStep => Retired = mmaStep
<1>1. /\ KvFree \in Nat /\ mmaStep \in Nat /\ PvSeen \in Nat
      /\ KvFree <= mmaStep /\ PvSeen <= mmaStep
  BY Progress DEF RInv, RingInv
<1>2. CASE <<"pv", mmaStep - 1>> \in tc
  BY <1>1, <1>2, PvFlight DEF Retired
<1>3. CASE <<"pv", mmaStep - 1>> \notin tc
  BY <1>1, <1>3 DEF Retired
<1> QED
  BY <1>2, <1>3

\* The last steps loaded use different slots.
LEMMA LastLoads ==
  ASSUME NEW m \in Nat, NEW s \in 0 .. m - 1, NEW t \in 0 .. m - 1,
         m <= s + NumStages, m <= t + NumStages, NEW f, s # t
  PROVE  Ring(f, s) # Ring(f, t)
<1>0. s \in Nat /\ t \in Nat /\ s < t + NumStages /\ t < s + NumStages
  OBVIOUS
<1>1. CASE s < t
  BY <1>0, <1>1, RingApart, Zenon
<1>2. CASE t < s
  BY <1>0, <1>2, RingApart, Zenon
<1>3. s < t \/ t < s
  BY <1>0
<1> QED
  BY <1>1, <1>2, <1>3

\* A part of the invariant is kept by a step that changes nothing in it.
LEMMA SlotsStill ==
  ASSUME SlotTags, Loaded \in Nat, UNCHANGED <<call, Loaded, copies>>,
         \A c \in Cells \ {Q} : smem'[c] = smem[c]
  PROVE  SlotTags'
<1>1. \A f \in {"k", "v", "seg", "mask"} : \A j \in Slots : <<f, j>> \in Cells \ {Q}
  BY DEF Cells, Q
<1>2. ASSUME NEW f \in {"k", "v", "seg", "mask"}, NEW s \in 0 .. Loaded - 1
      PROVE  smem'[Ring(f, s)] = smem[Ring(f, s)]
  <2>1. s % NumStages \in Slots
    BY RingTypes
  <2> QED
    BY <1>1, <2>1 DEF Ring
<1>3. \A f, s : Uses(f, s)' <=> Uses(f, s)
  BY DEF Uses, HasMask, HasAux
<1> QED
  BY <1>1, <1>2, <1>3 DEF SlotTags

LEMMA QStill ==
  ASSUME QTag, UNCHANGED <<call, tmaPc, copies>>, UNCHANGED smem[Q],
         smxPc = "done" => smxPc' = "done"
  PROVE  QTag'
BY DEF QTag, QLanded

LEMMA SStill ==
  ASSUME STags, UNCHANGED <<smxPc, smxStep, QkIssued, regs, tmem>>,
         \A s : <<"qk", s>> \in tc <=> <<"qk", s>> \in tc'
  PROVE  STags'
BY DEF STags, Past

LEMMA PStill ==
  ASSUME PTag, UNCHANGED <<smxPc, smxStep, regs, tmem.p>>
  PROVE  PTag'
BY DEF PTag, Stored, Past

LEMMA OStill ==
  ASSUME OTag, UNCHANGED <<smxPc, Retired, regs, tmem.o>>
  PROVE  OTag'
BY DEF OTag

LEMMA OutStill ==
  ASSUME OutTag, UNCHANGED <<call, smxPc, regs, out>>
  PROVE  OutTag'
BY DEF OutTag, n
-----------------------------------------------------------------------------
\* In the first state nothing is loaded.
LEMMA InitTiles == Init => TileInv
<1> SUFFICES ASSUME Init PROVE TileInv
  OBVIOUS
<1>1. n \in Nat
  BY CallType DEF Init
<1>2. Loaded = 0 /\ QkIssued = 0 /\ Retired = 0 /\ Stored = 0 /\ Past(AfterS) = 0
  BY Pasts DEF Init, Loaded, QkIssued, Retired, Stored
<1>3. SlotTags
  BY <1>2 DEF Init, SlotTags, Cells
<1>4. STags
  BY <1>2, Pasts DEF Init, STags
<1>5. PTag /\ OTag /\ OutTag /\ QTag
  BY <1>1, <1>2 DEF Init, PTag, OTag, OutTag, QTag, QLanded
<1> QED
  BY <1>3, <1>4, <1>5 DEF TileInv

\* A copy lands in a slot of its own.
LEMMA CopyEngineTiles == TInv /\ CopyEngine => TileInv'
<1> SUFFICES ASSUME TInv, NEW c \in copies, copies' = copies \ {c},
                    smem' = IF c = QSeg THEN smem
                            ELSE [smem EXCEPT ![CopyCell(c)] = c[2]],
                    UNCHANGED <<call, threadVars, regs, tc, tmem, out>>
             PROVE  TileInv'
  BY DEF CopyEngine
<1> USE DEF TInv, TileInv
<1>1. STags' /\ PTag' /\ OTag' /\ OutTag'
  <2>1. UNCHANGED <<QkIssued, Retired, smxPc, smxStep, regs, tmem, tmem.p, tmem.o, call>>
    BY ThreadsStill DEF threadVars, QkIssued, Retired, n
  <2> QED
    BY <2>1, SStill, PStill, OStill, OutStill
<1>2. UNCHANGED Loaded /\ Loaded \in Nat
  BY Progress DEF Loaded, threadVars, n, RInv, RingInv
<1>3. smem \in [Cells -> Steps \cup {0, Undefined}]
  BY DEF RInv, TypeInv, TypeOK
<1>4. CASE c \in {Q, QSeg}
  <2>1. \A d \in Cells \ {Q} : smem'[d] = smem[d]
    BY <1>3, <1>4 DEF CopyCell, Q, QSeg
  <2>2. \A f \in {"k", "v", "seg", "mask"} : \A s : <<f, s>> \in copies' <=> <<f, s>> \in copies
    BY <1>4 DEF Q, QSeg
  <2>3. SlotTags'
    <3>1. ASSUME NEW f \in {"k", "v", "seg", "mask"}, NEW s \in 0 .. Loaded - 1
          PROVE  smem'[Ring(f, s)] = smem[Ring(f, s)]
      <4>1. s \in Nat
        BY <1>2
      <4> QED
        BY <2>1, <4>1, RingTypes DEF Ring, Q
    <3>2. \A f, s : Uses(f, s)' <=> Uses(f, s)
      BY DEF Uses, HasMask, HasAux
    <3>3. \A f \in {"k", "v", "seg", "mask"} : \A j \in Slots : smem'[<<f, j>>] = smem[<<f, j>>]
      BY <2>1 DEF Cells, Q
    <3> QED
      BY <1>2, <2>2, <3>1, <3>2, <3>3 DEF SlotTags
  <2>4. QTag'
    <3>1. CASE c = Q
      BY <1>3, <3>1 DEF QTag, CopyCell, Q, QSeg, Cells
    <3>2. CASE c = QSeg
      BY <3>2, QStill DEF QTag, Q, QSeg, threadVars
    <3> QED
      BY <1>4, <3>1, <3>2
  <2> QED
    BY <1>1, <2>3, <2>4
<1>5. CASE c \notin {Q, QSeg}
  <2>1. PICK f \in {"k", "v", "seg", "mask"}, t \in 0 .. n - 1 : c = <<f, t>>
    BY <1>5 DEF RInv, TypeInv, TypeOK
  <2>2. /\ t \in 0 .. Loaded - 1 /\ Loaded <= t + NumStages /\ t \in Nat
        /\ CopyCell(c) = Ring(f, t)
    BY <2>1, CopyFlight
  <2>3. smem' = [smem EXCEPT ![Ring(f, t)] = t] /\ Ring(f, t) \in Cells
    BY <1>5, <2>1, <2>2, RingTypes
  <2>4. QTag'
    <3>1. smem'[Q] = smem[Q]
      BY <2>3, <1>3 DEF Ring, Q
    <3>2. Q \in copies <=> Q \in copies'
      BY <1>5
    <3> QED
      BY <3>1, <3>2 DEF QTag, threadVars
  <2>5. ASSUME NEW g \in {"k", "v", "seg", "mask"}, NEW s \in 0 .. Loaded - 1,
               Loaded <= s + NumStages, Uses(g, s), <<g, s>> \notin copies'
        PROVE  smem'[Ring(g, s)] = s
    <3>0. s \in Nat
      BY <1>2
    <3>1. CASE <<g, s>> = c
      BY <2>1, <2>3, <3>1, <1>3
    <3>2. CASE <<g, s>> # c
      <4>1. Ring(g, s) # Ring(f, t)
        <5>1. CASE g = f
          BY <5>1, <3>2, <2>1, <2>2, <2>5, <1>2, LastLoads
        <5>2. CASE g # f
          BY <5>2 DEF Ring
        <5> QED
          BY <5>1, <5>2
      <4>2. smem[Ring(g, s)] = s
        BY <3>2, <2>5 DEF SlotTags
      <4>3. Ring(g, s) \in Cells
        BY <3>0, RingTypes
      <4> QED
        BY <4>1, <4>2, <4>3, <2>3, <1>3
    <3> QED
      BY <3>1, <3>2
  <2>6. ASSUME NEW g \in {"k", "v", "seg", "mask"}, NEW j \in Slots
        PROVE  \/ smem'[<<g, j>>] = Undefined
               \/ smem'[<<g, j>>] \in 0 .. Loaded - 1 /\ smem'[<<g, j>>] % NumStages = j
    <3>0. <<g, j>> \in Cells
      BY DEF Cells
    <3>1. CASE <<g, j>> = Ring(f, t)
      BY <2>2, <2>3, <3>1, <1>3 DEF Ring
    <3>2. CASE <<g, j>> # Ring(f, t)
      BY <2>3, <3>0, <3>2, <1>3 DEF SlotTags
    <3> QED
      BY <3>1, <3>2
  <2>7. SlotTags'
    <3>1. \A g, s : Uses(g, s)' <=> Uses(g, s)
      BY DEF Uses, HasMask, HasAux
    <3> QED
      BY <2>5, <2>6, <3>1, <1>2 DEF SlotTags
  <2> QED
    BY <1>1, <2>4, <2>7
<1> QED
  BY <1>4, <1>5

\* The tensor core: an MMA in flight reads the tiles of its own step.
LEMMA QkTiles ==
  ASSUME TInv, NEW s \in Steps, QkRetires(s),
         UNCHANGED <<call, threadVars, regs, copies, smem, out>>
  PROVE  TileInv'
<1> USE DEF TInv, TileInv
<1>0. <<"qk", s>> \in tc /\ tc' = tc \ {<<"qk", s>>}
  BY DEF QkRetires
<1>1. /\ s \in Nat /\ Past(AfterS) <= s /\ s < QkIssued /\ s < n /\ QLanded
      /\ Past(AfterS) \in Nat /\ QkIssued \in Nat /\ QkIssued <= Past(AfterS) + 2
      /\ KvFree <= s /\ QkIssued <= Loaded /\ Loaded <= KvFree + NumStages /\ smxPc # "done"
      /\ Loaded \in Nat /\ KvFree \in Nat
  <2>1. s \in Nat /\ Past(AfterS) <= s /\ s < QkIssued /\ s < n /\ QLanded
    BY <1>0, QkFlight
  <2>2. /\ Past(AfterS) \in {smxStep, smxStep + 1} /\ smxStep \in Nat /\ QkIssued \in Nat
        /\ mmaStep \in Nat /\ QkIssued <= mmaStep + 2 /\ mmaStep <= smxStep
        /\ KvFree \in Nat /\ AuxFree \in Nat /\ Loaded \in Nat
        /\ KvFree <= mmaStep /\ QkIssued <= Loaded
        /\ AuxFree <= KvFree /\ Loaded <= AuxFree + NumStages
    BY Progress DEF RInv, RingInv
  <2>3. smxPc = "done" => smxStep = n
    BY DEF RInv, RingInv, PcFacts
  <2> QED
    BY <2>1, <2>2, <2>3
<1>2. smem[Q] = 0 /\ smem[Ring("k", s)] = s
  <2>1. smem[Q] = 0
    BY <1>1 DEF QTag, QLanded
  <2>2. <<"k", s>> \notin copies
    \* its barrier was observed before the MMA was issued
    <3>1. ASSUME <<"k", s>> \in copies PROVE FALSE
      <4>1. s \in Window("k")
        <5>1. InFlight("k", s) /\ "k" \in Families
          BY <3>1, FlightOf DEF Families
        <5>2. s \in 0 .. n - 1
          BY <3>1 DEF RInv, TypeInv, TypeOK, Q, QSeg
        <5> QED
          BY <5>1, <5>2 DEF RInv, RingInv, Windows, Placed
      <4> QED
        BY <1>1, <4>1 DEF Window, Lo
    <3> QED
      BY <3>1
  <2>3. Uses("k", s)
    BY DEF Uses, Families
  <2> QED
    BY <1>1, <2>1, <2>2, <2>3 DEF SlotTags
<1>3. tmem' = [tmem EXCEPT !.s[s % 2] = s]
  BY <1>2 DEF QkRetires
<1>4. STags'
  <2>1. UNCHANGED <<Past(AfterS), QkIssued, smxPc, smxStep, regs>>
    BY DEF threadVars, Past, QkIssued, n
  <2>2. ASSUME NEW t \in Past(AfterS) .. QkIssued - 1, <<"qk", t>> \notin tc'
        PROVE  tmem'.s[t % 2] = t
    <3>0. t \in Nat /\ s % 2 \in {0, 1} /\ t % 2 \in {0, 1} /\ tmem.s \in [{0, 1} -> Steps \cup {Undefined}]
      BY <1>1, SMT DEF RInv, TypeInv, TypeOK
    <3>1. CASE t = s
      BY <1>3, <3>0, <3>1 DEF RInv, TypeInv, TypeOK
    <3>2. CASE t # s
      <4>1. t % 2 # s % 2
        <5>1. t \in {s - 1, s + 1}
          BY <1>1, <3>2
        <5> QED
          BY <3>0, <1>1, <5>1, SMT
      <4>2. tmem.s[t % 2] = t
        BY <1>0, <2>2, <3>2 DEF STags
      <4> QED
        BY <1>3, <4>1, <4>2, <3>0 DEF RInv, TypeInv, TypeOK
    <3> QED
      BY <3>1, <3>2
  <2> QED
    BY <2>1, <2>2 DEF STags
<1>5. SlotTags' /\ QTag'
  BY <1>1, SlotsStill, QStill DEF threadVars, Loaded, n
<1>6. UNCHANGED <<smxPc, smxStep, Retired, regs, tmem.p, tmem.o, call, out>>
  BY <1>0, <1>3 DEF threadVars, Retired, RInv, TypeInv, TypeOK
<1>7. PTag' /\ OTag' /\ OutTag'
  BY <1>6, PStill, OStill, OutStill
<1> QED
  BY <1>4, <1>5, <1>7
LEMMA PvTiles ==
  ASSUME TInv, NEW s \in Steps, PvRetires(s),
         UNCHANGED <<call, threadVars, regs, copies, smem, out>>
  PROVE  /\ TileInv'
         /\ s < n /\ tmem.o.acc = 0 .. s - 1 /\ tmem'.o.acc = 0 .. s
         /\ tmem'.o.ok /\ (tmem.o.acc = {} \/ tmem.o.ok)
<1> USE DEF TInv, TileInv
<1>0. <<"pv", s>> \in tc /\ tc' = tc \ {<<"pv", s>>}
  BY DEF PvRetires
<1>1. /\ s \in Nat /\ s = mmaStep - 1 /\ s = smxStep - 1 /\ KvFree <= s /\ s < n
      /\ PvSeen = s /\ Stored = smxStep /\ smxPc # "rescale"
  BY <1>0, PvFlight
<1>2. /\ Loaded \in Nat /\ KvFree \in Nat /\ mmaStep \in Nat /\ s < Loaded
      /\ Loaded <= KvFree + NumStages /\ n \in Nat /\ s < VSeen /\ smxStep \in Nat
  BY <1>1, Progress DEF RInv, RingInv
<1>3. smem[Ring("v", s)] = s
  <2>1. <<"v", s>> \notin copies
    <3>1. ASSUME <<"v", s>> \in copies PROVE FALSE
      <4>1. InFlight("v", s) /\ "v" \in Families
        BY <3>1, FlightOf DEF Families
      <4>2. s \in 0 .. n - 1
        BY <3>1 DEF RInv, TypeInv, TypeOK, Q, QSeg
      <4>3. s \in Window("v")
        BY <4>1, <4>2 DEF RInv, RingInv, Windows, Placed
      <4>4. VSeen \in Nat
        BY Progress DEF RInv, RingInv
      <4> QED
        BY <1>1, <1>2, <4>3, <4>4 DEF Window, Lo
    <3> QED
      BY <3>1
  <2>2. Uses("v", s)
    BY DEF Uses, Families
  <2> QED
    BY <1>1, <1>2, <2>1, <2>2 DEF SlotTags
<1>4. tmem.p = [step |-> s, ver |-> regs.ver]
  BY <1>1, <1>2 DEF PTag
<1>5. Retired = s /\ Retired' = s + 1
  BY <1>0, <1>1, <1>2 DEF Retired, threadVars
<1>6. /\ tmem.o.acc = 0 .. s - 1
      /\ s > 0 => tmem.o.ok /\ tmem.o.ver = regs.ver
  BY <1>1, <1>5 DEF OTag
<1>7. /\ tmem'.o = [acc |-> 0 .. s, ver |-> regs.ver, ok |-> TRUE]
      /\ tmem'.p = tmem.p /\ tmem'.s = tmem.s
  <2>1. tmem' = [tmem EXCEPT !.o =
                  [acc |-> {s} \cup IF s = 0 THEN {} ELSE tmem.o.acc, ver |-> tmem.p.ver,
                   ok |-> /\ smem[Ring("v", s)] = s /\ tmem.p.step = s
                          /\ s = 0 \/ ( tmem.o.ok /\ tmem.o.ver = tmem.p.ver
                                        /\ s \notin tmem.o.acc )]]
    BY DEF PvRetires
  <2>2. {s} \cup (IF s = 0 THEN {} ELSE tmem.o.acc) = 0 .. s
    BY <1>1, <1>6
  <2>3. s > 0 => s \notin tmem.o.acc
    BY <1>1, <1>6
  <2>4. (/\ smem[Ring("v", s)] = s /\ tmem.p.step = s
         /\ s = 0 \/ ( tmem.o.ok /\ tmem.o.ver = tmem.p.ver /\ s \notin tmem.o.acc )) = TRUE
    <3>1. tmem.p.step = s /\ tmem.p.ver = regs.ver
      BY <1>4
    <3>2. s = 0 \/ s > 0
      <4>1. s \in Nat
        BY <1>1
      <4> QED
        BY <4>1
    <3> QED
      BY <1>3, <1>6, <2>3, <3>1, <3>2, Zenon
  <2>5. tmem' = [tmem EXCEPT !.o = [acc |-> 0 .. s, ver |-> tmem.p.ver, ok |-> TRUE]]
    BY <2>1, <2>2, <2>4, Zenon
  <2>6. tmem.p.ver = regs.ver
    BY <1>4
  <2>7. tmem = [s |-> tmem.s, p |-> tmem.p, o |-> tmem.o]
    BY DEF RInv, TypeInv, TypeOK
  <2> QED
    BY <2>5, <2>6, <2>7
<1>8. OTag'
  BY <1>1, <1>2, <1>5, <1>7 DEF OTag, threadVars
<1>9. STags'
  <2>1. UNCHANGED <<Past(AfterS), QkIssued, smxPc, smxStep, regs, tmem.s>>
    BY <1>7 DEF threadVars, Past, QkIssued, n
  <2>2. \A t : <<"qk", t>> \in tc <=> <<"qk", t>> \in tc'
    BY <1>0
  <2> QED
    BY <2>1, <2>2 DEF STags
<1>10. SlotTags' /\ QTag'
  BY <1>2, SlotsStill, QStill DEF threadVars, Loaded, n
<1>11. PTag' /\ OutTag'
  BY <1>7, PStill, OutStill DEF threadVars
<1> QED
  BY <1>1, <1>6, <1>7, <1>8, <1>9, <1>10, <1>11

LEMMA CommitTiles ==
  ASSUME TInv, NEW s \in Steps, CommitRetires(s),
         UNCHANGED <<call, threadVars, regs, copies, smem, out>>
  PROVE  TileInv'
<1> USE DEF TInv, TileInv
<1>1. UNCHANGED <<tmem, tmem.p, tmem.o, Loaded, QkIssued, Retired, smxPc, smxStep, tmaPc>>
  BY DEF CommitRetires, threadVars, Loaded, QkIssued, Retired, n
<1>2. \A t : <<"qk", t>> \in tc <=> <<"qk", t>> \in tc'
  BY DEF CommitRetires
<1>3. Loaded \in Nat
  BY Progress DEF RInv, RingInv
<1> QED
  BY <1>1, <1>2, <1>3, SlotsStill, QStill, SStill, PStill, OStill, OutStill
-----------------------------------------------------------------------------
\* The TMA warp loads into slots whose last step has been accumulated.
LEMMA TmaStill ==
  ASSUME TInv, TmaWarp
  PROVE  STags' /\ PTag' /\ OTag' /\ OutTag'
<1> USE DEF TInv, TileInv
<1>1. UNCHANGED <<tmem, tmem.p, tmem.o, QkIssued, Retired, smxPc, smxStep, call, regs, tc, out>>
  BY DEF TmaWarp, QkIssued, Retired, n
<1> QED
  BY <1>1, SStill, PStill, OStill, OutStill

LEMMA TmaWarpTiles == TInv /\ TmaWarp => TileInv'
<1> SUFFICES ASSUME TInv, TmaWarp PROVE TileInv'
  OBVIOUS
<1> USE DEF TInv, TileInv
<1>1. STags' /\ PTag' /\ OTag' /\ OutTag'
  BY TmaStill
<1>2. UNCHANGED <<call, n, mmaPc, mmaStep, smxPc, smxStep, smem>>
  BY DEF TmaWarp, n
<1>3. Loaded \in Nat /\ n \in Nat /\ tmaStep \in Nat
  BY Progress DEF RInv, RingInv
<1>4. CASE TmaLoadQ
  <2>1. tmaStep = 0 /\ Loaded = 0
    BY <1>4 DEF TmaLoadQ, Loaded, RInv, TypeInv, PcSteps
  <2>2. Loaded' = 0 /\ tmaPc' # "q"
    BY <1>2, <1>3, <1>4, TmaEnters DEF TmaLoadQ
  <2>3. SlotTags'
    BY <1>2, <2>1, <2>2 DEF SlotTags
  <2>4. QTag'
    BY <1>4, <2>2 DEF TmaLoadQ, QTag
  <2> QED
    BY <1>1, <2>3, <2>4
<1>5. CASE TmaLoad
  <2>1. tmaPc = "load" /\ tmaStep < n /\ Loaded = tmaStep
    BY <1>5 DEF TmaLoad, Loaded, RInv, TypeInv, PcSteps
  <2>2. Loaded' = Loaded + 1 /\ tmaPc' # "q"
    <3>1. tmaStep + 1 \in 0 .. n /\ TmaEnter(tmaStep + 1)
      BY <1>3, <1>5, <2>1 DEF TmaLoad
    <3> QED
      BY <1>2, <1>3, <2>1, <3>1, TmaEnters
  <2>3. /\ Q \in copies <=> Q \in copies'
        /\ \A f \in {"k", "v", "seg", "mask"} : Uses(f, Loaded) => <<f, Loaded>> \in copies'
        /\ copies \subseteq copies'
    BY <1>5, <2>1 DEF TmaLoad, Uses, Families, Q
  <2>4. QTag'
    BY <1>2, <2>1, <2>2, <2>3 DEF QTag
  <2>5. \A g, s : Uses(g, s)' <=> Uses(g, s)
    BY <1>2 DEF Uses, HasMask, HasAux
  <2>6. SlotTags'
    <3>1. ASSUME NEW f \in {"k", "v", "seg", "mask"}, NEW s \in 0 .. Loaded,
                 Loaded + 1 <= s + NumStages, Uses(f, s), <<f, s>> \notin copies'
          PROVE  smem[Ring(f, s)] = s
      <4>1. s # Loaded /\ <<f, s>> \notin copies
        BY <2>3, <3>1
      <4>2. s \in 0 .. Loaded - 1 /\ Loaded <= s + NumStages
        BY <1>3, <3>1, <4>1
      <4> QED
        BY <3>1, <4>1, <4>2 DEF SlotTags
    <3>2. ASSUME NEW f \in {"k", "v", "seg", "mask"}, NEW j \in Slots
          PROVE  \/ smem[<<f, j>>] = Undefined
                 \/ smem[<<f, j>>] \in 0 .. Loaded /\ smem[<<f, j>>] % NumStages = j
      <4>1. \/ smem[<<f, j>>] = Undefined
            \/ smem[<<f, j>>] \in 0 .. Loaded - 1 /\ smem[<<f, j>>] % NumStages = j
        BY DEF SlotTags
      <4> QED
        BY <1>3, <4>1
    <3>3. Loaded' - 1 = Loaded
      BY <1>3, <2>2
    <3> QED
      BY <1>2, <2>2, <2>5, <3>1, <3>2, <3>3 DEF SlotTags
  <2> QED
    BY <1>1, <2>4, <2>6
<1>6. CASE TmaAwaitKv \/ TmaAwaitAux \/ TmaDrainKv \/ TmaDrainAux
  <2>1. UNCHANGED Loaded /\ tmaPc # "q" /\ UNCHANGED copies
    BY <1>2, <1>6, TmaWaits DEF TmaAwaitKv, TmaAwaitAux, TmaDrainKv, TmaDrainAux
  <2>2. SlotTags'
    BY <1>2, <1>3, <2>1, SlotsStill
  <2>3. QTag'
    BY <1>2, <2>1 DEF QTag
  <2> QED
    BY <1>1, <2>2, <2>3
<1> QED
  BY <1>4, <1>5, <1>6 DEF TmaWarp
-----------------------------------------------------------------------------
\* The MMA warp announces scores, and issues a PV only when the last retired.
LEMMA QkCounts ==
  ASSUME TInv, MmaIssueQk, UNCHANGED n
  PROVE  /\ QkIssued' = QkIssued + 1
         /\ tc' = tc \cup {<<"qk", QkIssued>>} /\ UNCHANGED mmaStep
<1>1. mmaStep \in Nat /\ n \in Nat
  BY Progress DEF TInv, RInv, RingInv
<1>2. CASE mmaPc = "qk0"
  <2>1. mmaStep = 0 /\ n > 0
    BY <1>1, <1>2 DEF TInv, RInv, TypeInv, PcSteps
  <2>2. mmaPc' = MmaTop(0) /\ tc' = tc \cup {<<"qk", 0>>} /\ UNCHANGED mmaStep
    BY <1>2 DEF MmaIssueQk, IssueQk
  <2> QED
    BY <1>1, <1>2, <2>1, <2>2 DEF MmaTop, QkIssued
<1>3. CASE mmaPc = "qk"
  <2>1. mmaStep + 1 < n
    BY <1>3 DEF TInv, RInv, TypeInv, PcSteps
  <2>2. mmaPc' = "v" /\ tc' = tc \cup {<<"qk", mmaStep + 1>>} /\ UNCHANGED mmaStep
    BY <1>3 DEF MmaIssueQk, IssueQk
  <2> QED
    BY <1>1, <1>3, <2>1, <2>2 DEF QkIssued
<1> QED
  BY <1>2, <1>3 DEF MmaIssueQk

LEMMA MmaWarpTiles == TInv /\ MmaWarp => TileInv'
<1> SUFFICES ASSUME TInv, MmaWarp PROVE TileInv'
  OBVIOUS
<1> USE DEF TInv, TileInv
<1>1. UNCHANGED <<call, n, tmaPc, tmaStep, smxPc, smxStep, regs, copies, smem, tmem, out>>
  BY DEF MmaWarp, n
<1>2. UNCHANGED Loaded /\ Loaded \in Nat /\ mmaStep \in Nat /\ n \in Nat
  BY <1>1, MmaFrame, Progress DEF RInv, RingInv
<1>3. SlotTags' /\ QTag' /\ PTag' /\ OutTag'
  BY <1>1, <1>2, SlotsStill, QStill, PStill, OutStill
<1>4. CASE MmaAwaitQ
  <2>1. UNCHANGED <<mmaStep, tc>> /\ UNCHANGED Retired
    BY <1>4 DEF MmaAwaitQ, Retired
  <2>2. UNCHANGED QkIssued
    BY <1>1, <1>2, <1>4 DEF MmaAwaitQ, QkIssued, RInv, TypeInv, PcSteps
  <2> QED
    BY <1>1, <1>3, <2>1, <2>2, SStill, OStill
<1>5. CASE MmaIssueQk
  <2>1. /\ QkIssued' = QkIssued + 1
        /\ tc' = tc \cup {<<"qk", QkIssued>>} /\ UNCHANGED mmaStep
    BY <1>1, <1>5, QkCounts
  <2>2. UNCHANGED Retired
    BY <2>1 DEF Retired
  <2>3. QkIssued \in Nat /\ Past(AfterS) \in Nat /\ UNCHANGED Past(AfterS)
    BY <1>1, Progress DEF RInv, RingInv, Past
  <2>4. STags'
    <3>1. ASSUME NEW t \in Past(AfterS) .. QkIssued, <<"qk", t>> \notin tc'
          PROVE  tmem.s[t % 2] = t
      <4>1. t # QkIssued /\ <<"qk", t>> \notin tc
        BY <2>1, <3>1
      <4>2. t \in Past(AfterS) .. QkIssued - 1
        BY <2>3, <4>1
      <4> QED
        BY <4>1, <4>2 DEF STags
    <3>2. QkIssued' - 1 = QkIssued
      BY <2>1, <2>3
    <3> QED
      BY <1>1, <2>3, <3>1, <3>2 DEF STags
  <2> QED
    BY <1>1, <1>3, <2>2, <2>4, OStill
<1>6. CASE MmaAwaitV
  <2>1. UNCHANGED <<mmaStep, tc>> /\ UNCHANGED Retired
    BY <1>6 DEF MmaAwaitV, Retired
  <2>2. UNCHANGED QkIssued
    BY <1>1, <1>2, <1>6 DEF MmaAwaitV, QkIssued
  <2> QED
    BY <1>1, <1>3, <2>1, <2>2, SStill, OStill
<1>7. CASE MmaIssuePv
  <2>1. /\ mmaPc = "p" /\ mmaStep < n /\ mmaStep' = mmaStep + 1 /\ mmaPc' = MmaTop(mmaStep + 1)
        /\ tc' = tc \cup {<<"pv", mmaStep>>, <<"commit", mmaStep>>}
    BY <1>7 DEF MmaIssuePv, RInv, TypeInv, PcSteps
  <2>2. UNCHANGED QkIssued
    BY <1>1, <1>2, <2>1 DEF MmaTop, QkIssued
  <2>3. mmaStep < smxStep
    <3>1. "p_ready" \in Families /\ Lo("p_ready") = mmaStep /\ Hi("p_ready") = smxStep
          /\ WaiterOf("p_ready") = "mma"
      BY MmaEnds, SmxEnds DEF Families, WaiterOf
    <3>2. Await("mma", <<"p_ready", mmaStep % Depth("p_ready")>>)
      BY <1>2, <1>7, BarrierOf DEF MmaIssuePv
    <3> QED
      BY <3>1, <3>2, ObservedIsUp DEF RInv, RingInv
  <2>4. Retired = mmaStep
    <3>1. PvSeen = mmaStep
      BY <1>2, <2>3, Progress DEF RInv, RingInv
    <3> QED
      BY <3>1, Retirements
  <2>5. Retired' = mmaStep
    BY <1>2, <2>1 DEF Retired
  <2>6. \A t : <<"qk", t>> \in tc <=> <<"qk", t>> \in tc'
    BY <2>1
  <2> QED
    BY <1>1, <1>3, <2>2, <2>4, <2>5, <2>6, SStill, OStill
<1> QED
  BY <1>4, <1>5, <1>6, <1>7 DEF MmaWarp
-----------------------------------------------------------------------------
\* The softmax warpgroup.
SmxFixed == UNCHANGED <<call, tmaPc, tmaStep, mmaPc, mmaStep, copies, tc>>

LEMMA SmxKeeps ==
  ASSUME TInv, SmxFixed
  PROVE  /\ UNCHANGED <<n, Loaded, QkIssued, Retired>>
         /\ (\A c \in Cells \ {Q} : smem'[c] = smem[c]) => SlotTags'
<1>1. UNCHANGED <<n, Loaded, QkIssued, Retired>>
  BY SmxFrame DEF SmxFixed, Retired
<1>2. Loaded \in Nat
  BY Progress DEF TInv, RInv, RingInv
<1> QED
  BY <1>1, <1>2, SlotsStill DEF TInv, TileInv, SmxFixed

\* A step that moves the program counter between the load of S and the store of
\* P, or that observes Q's barrier, and at most loads registers.
LEMMA SmxMoves ==
  ASSUME TInv, SmxFixed, UNCHANGED <<smxStep, smem, tmem, out>>,
         UNCHANGED <<regs.ver, regs.o>>, UNCHANGED Past(AfterS),
         smxPc \notin {"rescale", "p_ready", "output", "done"},
         \/ smxPc' \in {"s", "mask", "seg", "aux", "pv", "store"}
         \/ smxPc' = "output" /\ n = 0,
         smxPc' \in AfterS => regs'.tile = smxStep
  PROVE  TileInv'
<1> USE DEF TInv, TileInv
<1>1. UNCHANGED <<n, Loaded, QkIssued, Retired>> /\ SlotTags'
  BY SmxKeeps
<1>2. QTag'
  BY QStill DEF SmxFixed
<1>3. STags'
  BY <1>1 DEF STags, SmxFixed
<1>4. Stored = smxStep /\ Stored' = smxStep
  BY Pasts DEF Stored
<1>5. PTag'
  BY <1>4 DEF PTag
<1>6. OTag'
  BY <1>1 DEF OTag
<1>7. OutTag'
  <2>1. n = 0 => 0 .. n - 1 = {}
    OBVIOUS
  <2> QED
    BY <1>1, <2>1 DEF OutTag
<1> QED
  BY <1>1, <1>2, <1>3, <1>5, <1>6, <1>7

\* The stages that follow the load of S.
LEMMA Stages ==
  ASSUME NEW s
  PROVE  /\ PvPc(s) \in {"pv", "store"} /\ AuxPc(s) \in {"aux", "pv", "store"}
         /\ SegPc(s) \in {"seg", "aux", "pv", "store"}
         /\ MaskPc(s) \in {"mask", "seg", "aux", "pv", "store"}
BY DEF PvPc, AuxPc, SegPc, MaskPc

LEMMA SmxAwaitQTiles == ASSUME TInv, SmxAwaitQ, SmxFixed PROVE TileInv'
<1>1. smxStep = 0 /\ n \in Nat /\ smxPc = "q" /\ smxPc' = SmxTop(0)
  BY Progress DEF SmxAwaitQ, TInv, RInv, RingInv, TypeInv, PcSteps
<1>2. smxPc' = "s" \/ (smxPc' = "output" /\ n = 0)
  BY <1>1 DEF SmxTop
<1>3. UNCHANGED Past(AfterS) /\ smxPc' \notin AfterS
  BY <1>1, <1>2, Pasts DEF SmxAwaitQ
<1> QED
  BY <1>1, <1>2, <1>3, SmxMoves DEF SmxAwaitQ

\* The tile softmax has observed is that of its step.
LEMMA SeenTile ==
  ASSUME TInv, NEW f \in {"mask", "seg"}, Lo(f) = smxStep,
         Await("softmax", Ring(f, smxStep))
  PROVE  smem[Ring(f, smxStep)] = smxStep
<1> USE DEF TInv, TileInv, RInv, RingInv
<1>1. /\ smxStep \in Nat /\ Loaded \in Nat /\ AuxFree \in Nat /\ KvFree \in Nat /\ mmaStep \in Nat
      /\ KvFree <= mmaStep /\ mmaStep <= smxStep
      /\ AuxFree <= KvFree /\ Loaded <= AuxFree + NumStages
  BY Progress
<1>2. f \in Families /\ WaiterOf(f) = "softmax" /\ Hi(f) = Loaded
      /\ Ring(f, smxStep) = <<f, smxStep % Depth(f)>>
  BY <1>1, BarrierOf, TmaEnds DEF Families, WaiterOf
<1>3. smxStep \in Up(f) /\ smxStep < Loaded
  BY <1>2, ObservedIsUp
<1>4. Uses(f, smxStep) /\ <<f, smxStep>> \notin copies
  BY <1>3, FlightOf DEF Up
<1> QED
  BY <1>1, <1>3, <1>4 DEF SlotTags

LEMMA SmxLoadTiles == ASSUME TInv, SmxLoad, SmxFixed PROVE TileInv'
<1> USE DEF TInv, TileInv
<1>0. /\ UNCHANGED <<smxStep, smem, tmem, out>> /\ UNCHANGED <<regs.ver, regs.o>>
      /\ \E tag : regs' = [regs EXCEPT !.tile = tag]
      /\ smxStep \in Nat /\ smxStep < n
  BY Progress DEF SmxLoad, Combine, RInv, RingInv, TypeInv, TypeOK, PcSteps
<1>1. CASE smxPc = "s"
  <2>1. /\ smxPc' = MaskPc(smxStep) /\ Await("softmax", SReady(smxStep))
        /\ regs' = [regs EXCEPT !.tile = tmem.s[smxStep % 2]]
    BY <1>1 DEF SmxLoad, Combine
  <2>2. regs'.tile = tmem.s[smxStep % 2]
    BY <2>1 DEF RInv, TypeInv, TypeOK
  <2>3. "s_ready" \in Families /\ Lo("s_ready") = smxStep /\ Past(AfterS) = smxStep
        /\ WaiterOf("s_ready") = "softmax" /\ Hi("s_ready") = QkIssued
    BY <1>1, SmxEnds, MmaEnds, Pasts DEF Families, WaiterOf
  <2>4. smxStep \in Up("s_ready") /\ smxStep < QkIssued
    BY <1>0, <2>1, <2>3, BarrierOf, ObservedIsUp DEF RInv, RingInv
  <2>5. <<"qk", smxStep>> \notin tc
    BY <2>3, <2>4, FlightOf DEF Up
  <2>6. smxStep \in Past(AfterS) .. QkIssued - 1
    BY <2>3, <2>4, Progress DEF RInv, RingInv
  <2>7. regs'.tile = smxStep
    BY <2>2, <2>5, <2>6 DEF STags
  <2>8. smxPc' \in {"mask", "seg", "aux", "pv", "store"}
    BY <2>1, Stages
  <2> QED
    \* the scores leave the window
    <3>1. UNCHANGED <<n, Loaded, QkIssued, Retired>> /\ SlotTags'
      BY <1>0, SmxKeeps
    <3>2. QTag'
      BY <1>0, <1>1, QStill DEF SmxFixed
    <3>3. STags'
      <4>1. Past(AfterS)' = smxStep + 1
        BY <1>0, <2>8, Pasts
      <4>2. ASSUME NEW t \in smxStep + 1 .. QkIssued - 1, <<"qk", t>> \notin tc
            PROVE  tmem.s[t % 2] = t
        <5>1. t \in Past(AfterS) .. QkIssued - 1
          BY <1>0, <2>3, Progress DEF RInv, RingInv
        <5> QED
          BY <4>2, <5>1 DEF STags
      <4> QED
        BY <1>0, <2>7, <3>1, <4>1, <4>2 DEF STags, SmxFixed
    <3>4. Stored = smxStep /\ Stored' = smxStep
      BY <1>0, <1>1, <2>8, Pasts DEF Stored
    <3>5. PTag' /\ OTag'
      BY <1>0, <1>1, <2>8, <3>1, <3>4 DEF PTag, OTag
    <3>6. OutTag'
      BY <1>0, <1>1, <2>8, <3>1 DEF OutTag
    <3> QED
      BY <3>1, <3>2, <3>3, <3>5, <3>6
<1>2. CASE smxPc \in {"mask", "seg"}
  <2>1. regs.tile = smxStep
    BY <1>2, Pasts DEF STags
  <2>2. PICK f \in {"mask", "seg"} :
          /\ smxPc = f /\ Await("softmax", Ring(f, smxStep))
          /\ regs' = [regs EXCEPT !.tile = Matching(Ring(f, smxStep))]
          /\ smxPc' \in {"seg", "aux", "pv", "store"}
    BY <1>2, Stages DEF SmxLoad, Combine
  <2>3. Lo(f) = smxStep
    BY <2>2, SmxEnds, Pasts
  <2>4. smem[Ring(f, smxStep)] = smxStep
    BY <2>2, <2>3, SeenTile
  <2>5. regs'.tile = smxStep
    BY <2>1, <2>2, <2>4 DEF Matching, RInv, TypeInv, TypeOK
  <2>6. UNCHANGED Past(AfterS)
    BY <1>0, <1>2, <2>2, Pasts
  <2> QED
    BY <1>0, <1>2, <2>2, <2>5, <2>6, SmxMoves
<1> QED
  BY <1>1, <1>2 DEF SmxLoad

LEMMA SmxReleaseTiles ==
  ASSUME TInv, SmxReleaseAux \/ SmxAwaitPv, SmxFixed
  PROVE  TileInv'
<1>1. /\ smxPc \in {"aux", "pv"} /\ smxPc' \in {"pv", "store"}
      /\ UNCHANGED <<smxStep, regs, smem, tmem, out>>
  BY Stages DEF SmxReleaseAux, SmxAwaitPv
<1>2. UNCHANGED Past(AfterS) /\ regs.tile = smxStep
  BY <1>1, Pasts DEF TInv, TileInv, STags
<1> QED
  BY <1>1, <1>2, SmxMoves
LEMMA SmxStoreTiles == ASSUME TInv, SmxStoreP, SmxFixed PROVE TileInv'
<1> USE DEF TInv, TileInv
<1>1. PICK any, ver :
        /\ any \in BOOLEAN /\ ver = IF any THEN regs.ver + 1 ELSE regs.ver
        /\ regs' = [regs EXCEPT !.ver = ver]
        /\ tmem' = [tmem EXCEPT !.p = [step |-> regs.tile, ver |-> ver]]
        /\ smxPc' = AfterStore(any)
  BY DEF SmxStoreP
<1>2. smxPc = "store" /\ UNCHANGED <<smxStep, smem, out>> /\ smxPc' \in {"rescale", "p_ready"}
  BY <1>1 DEF SmxStoreP, AfterStore
<1>3. /\ regs'.tile = regs.tile /\ regs'.o = regs.o /\ regs'.ver = ver
      /\ tmem'.s = tmem.s /\ tmem'.o = tmem.o
      /\ tmem'.p = [step |-> regs.tile, ver |-> ver]
  BY <1>1 DEF RInv, TypeInv, TypeOK
<1>4. regs.tile = smxStep /\ smxStep \in Nat
  BY <1>2, Pasts, Progress DEF STags, RInv, RingInv
<1>5. UNCHANGED <<n, QkIssued, Retired>> /\ SlotTags'
  BY <1>2, SmxKeeps
<1>6. QTag'
  BY <1>2, QStill DEF SmxFixed
<1>7. STags'
  <2>1. UNCHANGED Past(AfterS) /\ tc' = tc
    BY <1>2, Pasts DEF SmxFixed
  <2> QED
    BY <1>2, <1>3, <1>4, <1>5, <2>1 DEF STags
<1>8. PTag'
  <2>1. Stored' = smxStep + 1
    BY <1>2, Pasts DEF Stored
  <2> QED
    BY <1>3, <1>4, <2>1 DEF PTag
<1>9. OTag'
  <2>1. CASE smxStep > 0 /\ any
    BY <1>1, <1>2, <1>3, <1>5, <2>1 DEF OTag, AfterStore
  <2>2. CASE ~any
    BY <1>1, <1>2, <1>3, <1>5, <2>2 DEF OTag, AfterStore
  <2>3. CASE smxStep = 0
    <3>1. Retired = 0
      BY <2>3, Retirements, Progress DEF RInv, RingInv
    <3> QED
      BY <1>3, <1>5, <3>1 DEF OTag
  <2> QED
    BY <1>4, <2>1, <2>2, <2>3
<1>10. OutTag'
  BY <1>2, <1>3, <1>5 DEF OutTag
<1> QED
  BY <1>5, <1>6, <1>7, <1>8, <1>9, <1>10

LEMMA SmxRescaleTiles == ASSUME TInv, SmxRescaleO, SmxFixed PROVE TileInv'
<1> USE DEF TInv, TileInv
<1>1. /\ smxPc = "rescale" /\ smxPc' = "p_ready" /\ UNCHANGED <<smxStep, regs, smem, out>>
      /\ tmem' = [tmem EXCEPT !.o.ver = @ + 1]
  BY DEF SmxRescaleO
<1>2. /\ tmem'.s = tmem.s /\ tmem'.p = tmem.p
      /\ tmem'.o.acc = tmem.o.acc /\ tmem'.o.ok = tmem.o.ok
      /\ tmem'.o.ver = tmem.o.ver + 1
  BY <1>1 DEF RInv, TypeInv, TypeOK, Accs
<1>3. UNCHANGED <<n, QkIssued, Retired>> /\ SlotTags'
  BY <1>1, SmxKeeps
<1>4. QTag'
  BY <1>1, QStill DEF SmxFixed
<1>5. UNCHANGED Past(AfterS) /\ UNCHANGED Stored
  BY <1>1, Pasts DEF Stored
<1>6. STags'
  BY <1>1, <1>2, <1>3, <1>5, Pasts DEF STags, SmxFixed
<1>7. PTag' /\ OTag' /\ OutTag'
  BY <1>1, <1>2, <1>3, <1>5 DEF PTag, OTag, OutTag
<1> QED
  BY <1>3, <1>4, <1>6, <1>7

LEMMA SmxArriveTiles == ASSUME TInv, SmxArriveP, SmxFixed PROVE TileInv'
<1> USE DEF TInv, TileInv
<1>1. /\ smxPc = "p_ready" /\ smxPc' = SmxTop(smxStep + 1) /\ smxStep' = smxStep + 1
      /\ UNCHANGED <<regs, smem, tmem, out>> /\ smxStep \in Nat /\ smxStep < n /\ n \in Nat
  BY Progress DEF SmxArriveP, RInv, RingInv, TypeInv, PcSteps
<1>2. smxPc' \in {"s", "last_pv"}
  BY <1>1 DEF SmxTop
<1>3. UNCHANGED <<n, QkIssued, Retired>> /\ SlotTags'
  BY <1>1, SmxKeeps
<1>4. QTag'
  BY <1>1, QStill DEF SmxFixed
<1>5. UNCHANGED Past(AfterS) /\ UNCHANGED Stored
  BY <1>1, <1>2, Pasts DEF Stored
<1>6. STags'
  BY <1>1, <1>2, <1>3, <1>5, Pasts DEF STags, SmxFixed
<1>7. PTag' /\ OTag' /\ OutTag'
  BY <1>1, <1>2, <1>3, <1>5 DEF PTag, OTag, OutTag
<1> QED
  BY <1>3, <1>4, <1>6, <1>7

LEMMA SmxReadOTiles == ASSUME TInv, SmxReadO, SmxFixed PROVE TileInv'
<1> USE DEF TInv, TileInv
<1>1. /\ smxPc = "last_pv" /\ smxPc' = "output" /\ Await("softmax", PvDone)
      /\ regs' = [regs EXCEPT !.o = [tmem.o EXCEPT !.ok = @ /\ tmem.o.ver = regs.ver]]
      /\ UNCHANGED <<smxStep, smem, tmem, out>>
  BY DEF SmxReadO
<1>2. smxStep = n /\ smxStep > 0 /\ n \in Nat /\ mmaStep \in Nat /\ mmaStep <= n
  BY <1>1, Progress DEF RInv, RingInv, PcFacts
<1>3. Retired = n
  <2>1. PvSeen = n - 1
    BY <1>1, <1>2 DEF PvSeen, AfterPv
  <2>2. "pv_done" \in Families /\ Lo("pv_done") = PvSeen /\ Hi("pv_done") = mmaStep
        /\ WaiterOf("pv_done") = "softmax" /\ PvDone = <<"pv_done", PvSeen % Depth("pv_done")>>
    BY <1>2, <2>1, SmxEnds, MmaEnds, BarrierOf DEF Families, WaiterOf
  <2>3. PvSeen \in Up("pv_done") /\ PvSeen < mmaStep
    BY <1>1, <2>2, ObservedIsUp DEF RInv, RingInv
  <2>4. <<"pv", n - 1>> \notin tc
    <3>1. ~InFlight("pv_done", n - 1)
      BY <2>1, <2>3 DEF Up
    <3>2. n - 1 \in 0 .. n - 1
      BY <1>2
    <3> QED
      BY <3>1, <3>2, FlightOf DEF RInv, RingInv, Windows
  <2> QED
    BY <1>2, <2>1, <2>3, <2>4 DEF Retired
<1>4. tmem.o.acc = 0 .. n - 1 /\ tmem.o.ok /\ tmem.o.ver = regs.ver
  BY <1>1, <1>2, <1>3 DEF OTag
<1>5. regs'.tile = regs.tile /\ regs'.ver = regs.ver /\ regs'.o.acc = 0 .. n - 1 /\ regs'.o.ok
  <2>1. regs' = [tile |-> regs.tile, ver |-> regs.ver,
                 o |-> [acc |-> tmem.o.acc, ver |-> tmem.o.ver,
                        ok |-> tmem.o.ok /\ tmem.o.ver = regs.ver]]
    BY <1>1 DEF RInv, TypeInv, TypeOK, Accs
  <2> QED
    BY <1>4, <2>1
<1>6. UNCHANGED <<n, QkIssued, Retired>> /\ SlotTags'
  BY <1>1, SmxKeeps
<1>7. QTag'
  BY <1>1, QStill DEF SmxFixed
<1>8. UNCHANGED Past(AfterS) /\ UNCHANGED Stored
  BY <1>1, Pasts DEF Stored
<1>9. STags'
  BY <1>1, <1>6, <1>8, Pasts DEF STags, SmxFixed
<1>10. PTag' /\ OTag' /\ OutTag'
  BY <1>1, <1>5, <1>6, <1>8 DEF PTag, OTag, OutTag
<1> QED
  BY <1>6, <1>7, <1>9, <1>10

\* The row is written once, from a complete accumulator.
LEMMA SmxOutputTiles ==
  ASSUME TInv, SmxOutput, SmxFixed
  PROVE  TileInv' /\ Retired = n /\ out = <<>> /\ out' = <<regs.o>> /\ regs.o.ok
         /\ regs.o.acc = 0 .. n - 1
<1> USE DEF TInv, TileInv
<1>1. /\ smxPc = "output" /\ smxPc' = "done" /\ UNCHANGED <<smxStep, regs, tmem>>
      /\ out' = Append(out, regs.o)
      /\ smem' = IF call.reuseQ THEN [smem EXCEPT ![Q] = Undefined] ELSE smem
  BY DEF SmxOutput
<1>2. out = <<>> /\ out' = <<regs.o>> /\ regs.o.ok /\ regs.o.acc = 0 .. n - 1
  BY <1>1 DEF OutTag
<1>3. Retired = n
  <2>1. smxStep = n /\ PvSeen = n
    BY <1>1 DEF RInv, RingInv, PcFacts, PvSeen
  <2> QED
    BY <2>1, Retirements, Progress DEF RInv, RingInv
<1>4. UNCHANGED <<n, QkIssued, Retired>> /\ SlotTags'
  BY <1>1, SmxKeeps DEF RInv, TypeInv, TypeOK
<1>5. QTag'
  BY <1>1 DEF QTag, SmxFixed
<1>6. UNCHANGED Past(AfterS) /\ UNCHANGED Stored
  BY <1>1, Pasts DEF Stored
<1>7. STags'
  BY <1>1, <1>4, <1>6, Pasts DEF STags, SmxFixed
<1>8. PTag' /\ OTag' /\ OutTag'
  BY <1>1, <1>2, <1>4, <1>6 DEF PTag, OTag, OutTag
<1> QED
  BY <1>2, <1>3, <1>4, <1>5, <1>7, <1>8

LEMMA NextTiles == TInv /\ [Next]_vars => TileInv'
<1> SUFFICES ASSUME TInv, [Next]_vars PROVE TileInv'
  OBVIOUS
<1>1. CASE CopyEngine
  BY <1>1, CopyEngineTiles
<1>2. CASE TensorCore
  BY <1>2, QkTiles, PvTiles, CommitTiles DEF TensorCore
<1>3. CASE TmaWarp
  BY <1>3, TmaWarpTiles
<1>4. CASE MmaWarp
  BY <1>4, MmaWarpTiles
<1>5. CASE SoftmaxWg
  BY <1>5, SmxAwaitQTiles, SmxLoadTiles, SmxReleaseTiles, SmxStoreTiles, SmxRescaleTiles,
     SmxArriveTiles, SmxReadOTiles, SmxOutputTiles DEF SoftmaxWg, SmxFixed
<1>6. CASE UNCHANGED vars
  <2>1. UNCHANGED <<call, tmaPc, copies, smem, tmem, tmem.p, tmem.o, tc, Loaded, QkIssued,
                    Retired, smxPc, smxStep, regs, out>>
    BY <1>6 DEF vars, threadVars, Loaded, QkIssued, Retired, n
  <2>2. Loaded \in Nat
    BY Progress DEF TInv, RInv, RingInv
  <2> QED
    BY <2>1, <2>2, SlotsStill, QStill, SStill, PStill, OStill, OutStill DEF TInv, TileInv
<1> QED
  BY <1>1, <1>2, <1>3, <1>4, <1>5, <1>6 DEF Next, Exited

LEMMA SpecTiles == Spec => []TInv
<1>1. Init => TInv
  BY InitType, InitRings, InitTiles DEF TInv, RInv
<1>2. TInv /\ [Next]_vars => TInv'
  BY NextType, NextRings, NextTiles DEF TInv, RInv
<1> QED
  BY <1>1, <1>2, PTL DEF Spec
-----------------------------------------------------------------------------
\* A copy overwrites only a step whose slot was released, and a slot is
\* released only when its step has been accumulated: no tile is lost, however
\* deep the ring and whatever is still in flight.
THEOREM NoTileLost == Spec => NoLostTile
<1> DEFINE Kept == \A c \in Cells \ {Q} :
                     smem'[c] # smem[c] /\ smem[c] # Undefined => smem[c] \in tmem.o.acc
<1>1. TInv /\ [Next]_vars => [Kept]_vars
  <2> SUFFICES ASSUME TInv, [Next]_vars, NEW c \in Cells \ {Q},
                      smem'[c] # smem[c], smem[c] # Undefined
               PROVE  smem[c] \in tmem.o.acc
    OBVIOUS
  <2> USE DEF TInv, TileInv
  <2>0. smem \in [Cells -> Steps \cup {0, Undefined}]
    BY DEF RInv, TypeInv, TypeOK
  <2>1. PICK f \in {"k", "v", "seg", "mask"}, j \in Slots : c = <<f, j>>
    BY DEF Cells
  <2>2. PICK d \in copies : smem' = IF d = QSeg THEN smem
                                    ELSE [smem EXCEPT ![CopyCell(d)] = d[2]]
    <3>1. CASE CopyEngine
      BY <3>1 DEF CopyEngine
    <3>2. CASE SoftmaxWg
      <4>1. smem' = smem \/ smem' = [smem EXCEPT ![Q] = Undefined]
        BY <3>2 DEF SoftmaxWg, SmxAwaitQ, SmxLoad, Combine, SmxReleaseAux, SmxAwaitPv,
           SmxStoreP, SmxRescaleO, SmxArriveP, SmxReadO, SmxOutput
      <4> QED
        BY <2>0, <4>1
    <3>3. CASE TensorCore \/ TmaWarp \/ MmaWarp \/ Exited \/ UNCHANGED vars
      BY <3>3 DEF TensorCore, TmaWarp, MmaWarp, Exited, vars
    <3> QED
      BY <3>1, <3>2, <3>3 DEF Next
  <2>3. d # QSeg /\ CopyCell(d) = c /\ smem'[c] = d[2]
    BY <2>0, <2>2
  <2>4. PICK g \in {"k", "v", "seg", "mask"}, t \in 0 .. n - 1 : d = <<g, t>>
    <3>1. d # Q
      BY <2>3 DEF CopyCell, Q
    <3> QED
      BY <2>3, <3>1 DEF RInv, TypeInv, TypeOK
  <2>5. /\ t \in Nat /\ t < Loaded /\ Loaded <= t + NumStages /\ Loaded \in Nat
        /\ CopyCell(d) = Ring(g, t)
    BY <2>4, CopyFlight
  <2>6. t % NumStages = j /\ smem'[c] = t
    BY <2>1, <2>3, <2>4, <2>5 DEF Ring
  <2>7. smem[c] \in 0 .. Loaded - 1 /\ smem[c] % NumStages = j
    BY <2>1 DEF SlotTags
  <2> DEFINE u == smem[c]
  <2>8. u \in Nat /\ u < Loaded /\ u # t /\ u % NumStages = t % NumStages
    BY <2>5, <2>6, <2>7
  <2> HIDE DEF u
  <2>9. u + NumStages <= t
    <3>0. NumStages \in Nat \ {0}
      OBVIOUS
    <3>1. ~(u < t /\ t < u + NumStages)
      BY <2>5, <2>8, <3>0, SlotsDiffer, Zenon
    <3>2. ~(t < u /\ u < t + NumStages)
      BY <2>5, <2>8, <3>0, SlotsDiffer, Zenon
    <3> QED
      BY <2>5, <2>8, <3>1, <3>2
  <2>10. u < Retired /\ Retired \in Nat
    <3>1. /\ KvFree \in Nat /\ AuxFree \in Nat /\ AuxFree <= KvFree
          /\ Loaded <= AuxFree + NumStages
      BY Progress DEF RInv, RingInv
    <3> QED
      BY <2>5, <2>8, <2>9, <3>1, Retirements
  <2> QED
    BY <2>8, <2>10 DEF OTag, u
<1> QED
  BY <1>1, SpecTiles, PTL DEF Spec, NoLostTile
-----------------------------------------------------------------------------
\* The refinement.  AccBar and WrittenBar are what ImplementsRow substitutes for
\* the abstract accumulator and output: the tags are right, so that they are
\* the steps whose PV has retired and, once written, the whole row.
AccBar == IF tmem.o.acc = {} \/ tmem.o.ok THEN tmem.o.acc ELSE {Undefined}
WrittenBar == [i \in DOMAIN out |-> IF out[i].ok THEN out[i].acc ELSE {Undefined}]

LEMMA Mapped ==
  ASSUME TInv
  PROVE  /\ AccBar = 0 .. Retired - 1
         /\ WrittenBar = IF smxPc = "done" THEN <<0 .. n - 1>> ELSE <<>>
<1> USE DEF TInv, TileInv
<1>1. tmem.o.acc = 0 .. Retired - 1 /\ (Retired > 0 => tmem.o.ok) /\ Retired \in Nat
  BY Retirements DEF OTag
<1>2. Retired = 0 => tmem.o.acc = {}
  BY <1>1
<1>3. AccBar = 0 .. Retired - 1
  BY <1>1, <1>2 DEF AccBar
<1>4. CASE smxPc = "done"
  <2>1. out = <<regs.o>> /\ regs.o.ok /\ regs.o.acc = 0 .. n - 1
    BY <1>4 DEF OutTag
  <2> QED
    BY <1>3, <1>4, <2>1 DEF WrittenBar
<1>5. CASE smxPc # "done"
  <2>1. out = <<>>
    BY <1>5 DEF OutTag
  <2> QED
    BY <1>3, <1>5, <2>1 DEF WrittenBar
<1> QED
  BY <1>4, <1>5

LEMMA RowIs ==
  /\ Row!Init <=> n \in 0 .. MaxSteps /\ AccBar = {} /\ WrittenBar = <<>>
  /\ \A s : Row!Accumulate(s) <=>
       /\ s < n /\ AccBar = 0 .. s - 1 /\ AccBar' = 0 .. s
       /\ UNCHANGED <<n, WrittenBar>>
  /\ Row!Write <=>
       /\ AccBar = 0 .. n - 1 /\ WrittenBar = <<>> /\ WrittenBar' = <<AccBar>>
       /\ UNCHANGED <<n, AccBar>>
  /\ Row!rowVars = <<n, AccBar, WrittenBar>>
  /\ Row!rowVars' = <<n, AccBar, WrittenBar>>'
BY DEF Row!Init, Row!Accumulate, Row!Write, Row!rowVars, AccBar, WrittenBar

\* Every step of the CTA is a step of the row or changes nothing of it: the
\* retirement of a PV accumulates its step, the last stage of softmax writes.
LEMMA RowSteps == TInv /\ [Next]_vars => [Row!Next]_Row!rowVars
<1> SUFFICES ASSUME TInv, [Next]_vars PROVE [Row!Next]_Row!rowVars
  OBVIOUS
<1>0. ASSUME UNCHANGED <<call, out>>, UNCHANGED <<tmem.o.acc, tmem.o.ok>>
      PROVE  UNCHANGED Row!rowVars
  BY <1>0, RowIs DEF n, AccBar, WrittenBar
<1>1. CASE CopyEngine \/ TmaWarp \/ MmaWarp \/ Exited \/ UNCHANGED vars
  BY <1>0, <1>1 DEF CopyEngine, TmaWarp, MmaWarp, Exited, vars
<1>2. CASE TensorCore
  <2>1. PICK s \in Steps : QkRetires(s) \/ PvRetires(s) \/ CommitRetires(s)
    BY <1>2 DEF TensorCore
  <2>2. CASE QkRetires(s) \/ CommitRetires(s)
    <3>1. UNCHANGED <<tmem.o.acc, tmem.o.ok>>
      BY <2>2 DEF QkRetires, CommitRetires, TInv, RInv, TypeInv, TypeOK
    <3> QED
      BY <1>0, <1>2, <3>1 DEF TensorCore
  <2>3. CASE PvRetires(s)
    <3>1. UNCHANGED <<call, threadVars, regs, copies, smem, out>>
      BY <1>2 DEF TensorCore
    <3>2. /\ s < n /\ tmem.o.acc = 0 .. s - 1 /\ tmem'.o.acc = 0 .. s
          /\ tmem'.o.ok /\ (tmem.o.acc = {} \/ tmem.o.ok)
      BY <2>3, <3>1, PvTiles
    <3>3. AccBar = 0 .. s - 1 /\ AccBar' = 0 .. s /\ UNCHANGED <<n, WrittenBar>>
      BY <3>1, <3>2 DEF AccBar, WrittenBar, n
    <3>4. Row!Accumulate(s) /\ s \in 0 .. MaxSteps - 1
      BY <3>2, <3>3, RowIs DEF Steps
    <3> QED
      BY <3>4 DEF Row!Next
  <2> QED
    BY <2>1, <2>2, <2>3
<1>3. CASE SoftmaxWg
  <2>0. SmxFixed
    BY <1>3 DEF SoftmaxWg, SmxFixed
  <2>1. CASE SmxOutput
    <3>1. /\ Retired = n /\ out = <<>> /\ out' = <<regs.o>> /\ regs.o.ok
          /\ regs.o.acc = 0 .. n - 1
      BY <2>0, <2>1, SmxOutputTiles
    <3>2. AccBar = 0 .. n - 1 /\ UNCHANGED <<n, AccBar>>
      BY <2>0, <2>1, <3>1, Mapped DEF SmxFixed, SmxOutput, AccBar, n
    <3>3. WrittenBar = <<>> /\ WrittenBar' = <<AccBar>>
      BY <3>1, <3>2 DEF WrittenBar
    <3>4. Row!Write
      BY <3>2, <3>3, RowIs
    <3> QED
      BY <3>4 DEF Row!Next
  <2>2. CASE SmxRescaleO
    <3>1. UNCHANGED <<tmem.o.acc, tmem.o.ok>>
      BY <2>2 DEF SmxRescaleO, TInv, RInv, TypeInv, TypeOK, Accs
    <3> QED
      BY <1>0, <2>0, <2>2, <3>1 DEF SmxRescaleO, SmxFixed
  <2>3. CASE SmxStoreP
    <3>1. UNCHANGED <<tmem.o.acc, tmem.o.ok>>
      BY <2>3 DEF SmxStoreP, TInv, RInv, TypeInv, TypeOK
    <3> QED
      BY <1>0, <2>0, <2>3, <3>1 DEF SmxStoreP, SmxFixed
  <2>4. CASE SmxAwaitQ \/ SmxLoad \/ SmxReleaseAux \/ SmxAwaitPv \/ SmxArriveP \/ SmxReadO
    BY <1>0, <2>0, <2>4 DEF SmxAwaitQ, SmxLoad, Combine, SmxReleaseAux, SmxAwaitPv,
       SmxArriveP, SmxReadO, SmxFixed
  <2> QED
    BY <1>3, <2>1, <2>2, <2>3, <2>4 DEF SoftmaxWg
<1> QED
  BY <1>1, <1>2, <1>3 DEF Next

\* The CTA implements the row of AttentionRow, but for its liveness: whatever
\* the interleaving, the steps are accumulated in the order of the schedule, each
\* once and from its own tiles, and the output is written once, when it holds
\* them all.  ImplementsRow adds that this eventually happens.
THEOREM RowImplemented == Spec => Row!Steps
<1>1. Init => Row!Init
  <2> SUFFICES ASSUME Init PROVE Row!Init
    OBVIOUS
  <2>1. n \in 0 .. MaxSteps
    BY CallType DEF Init
  <2>2. AccBar = {} /\ WrittenBar = <<>>
    BY DEF Init, AccBar, WrittenBar
  <2> QED
    BY <2>1, <2>2, RowIs
<1> QED
  BY <1>1, RowSteps, SpecTiles, PTL DEF Spec, Row!Steps
=============================================================================
