---------------------------- MODULE ForwardRings ----------------------------
(***************************************************************************)
(* The inductive invariant of ForwardKernel that its safety theorems rest  *)
(* on.  Every barrier but Q's belongs to a family that one thread waits on *)
(* step by step, so the steps between the last one observed and the last   *)
(* one announced form a window, never longer than the family's barriers.   *)
(* A barrier is one phase ahead of its waiter exactly when a step of the   *)
(* window that uses it has been signalled.                                 *)
(***************************************************************************)
EXTENDS ForwardKernel, RingWindow

Families == {"k", "v", "seg", "mask", "kv_consumed", "aux_consumed",
             "s_ready", "p_ready", "pv_done"}
WaiterOf(f) ==
  CASE f \in {"k", "v", "p_ready"} -> "mma"
    [] f \in {"seg", "mask", "s_ready", "pv_done"} -> "softmax"
    [] f \in {"kv_consumed", "aux_consumed"} -> "tma"
Depth(f) == CASE f = "s_ready" -> 2
              [] f \in {"p_ready", "pv_done"} -> 1
              [] f \in {"k", "v", "seg", "mask", "kv_consumed", "aux_consumed"} -> NumStages
RingLag(f) == [i \in 0 .. Depth(f) - 1 |-> Lag(WaiterOf(f), <<f, i>>)]
-----------------------------------------------------------------------------
\* How far each thread is, as the number of steps for which it has issued the
\* loads, seen the slot released, issued QK, seen V, and so on.
Loaded == IF tmaPc \in {"drain", "drain_aux", "done"} THEN n ELSE tmaStep
KvFree ==
  CASE tmaPc \in {"q", "load"} ->
         IF tmaStep >= NumStages THEN tmaStep - NumStages + 1 ELSE 0
    [] tmaPc = "kv" -> tmaStep - NumStages
    [] tmaPc = "aux" -> tmaStep - NumStages + 1
    [] tmaPc = "drain" -> tmaStep
    [] tmaPc = "drain_aux" -> tmaStep + 1
    [] tmaPc = "done" -> n
AuxFree == IF tmaPc \in {"aux", "drain_aux"} THEN KvFree - 1 ELSE KvFree
QkIssued == CASE mmaPc \in {"q", "qk0"} -> 0
              [] mmaPc = "qk" -> mmaStep + 1
              [] mmaPc \in {"v", "p", "done"} ->
                   IF mmaStep + 2 <= n THEN mmaStep + 2 ELSE n
VSeen == IF mmaPc = "p" THEN mmaStep + 1 ELSE mmaStep

\* The step of the softmax warpgroup counts as past a stage at the later ones.
Past(pcs) == IF smxPc \in pcs THEN smxStep + 1 ELSE smxStep
AfterPv == {"store", "rescale", "p_ready"}
AfterAux == {"pv"} \cup AfterPv
AfterSeg == {"aux"} \cup AfterAux
AfterMask == {"seg"} \cup AfterSeg
AfterS == {"mask"} \cup AfterMask
PvSeen == IF smxPc \in AfterPv \cup {"output", "done"} \/ smxStep = 0
          THEN smxStep ELSE smxStep - 1

Lo(f) == CASE f = "k" -> QkIssued       [] f = "v" -> VSeen
           [] f = "seg" -> Past(AfterSeg)
           [] f = "mask" -> Past(AfterMask)
           [] f = "kv_consumed" -> KvFree [] f = "aux_consumed" -> AuxFree
           [] f = "s_ready" -> Past(AfterS)
           [] f = "p_ready" -> mmaStep  [] f = "pv_done" -> PvSeen
Hi(f) == CASE f \in {"k", "v", "seg", "mask"} -> Loaded
           [] f = "aux_consumed" -> Past(AfterAux)
           [] f = "s_ready" -> QkIssued
           [] f = "p_ready" -> smxStep
           [] f \in {"kv_consumed", "pv_done"} -> mmaStep
Window(f) == Lo(f) .. Hi(f) - 1

\* Whether a family has a signal for step s at all, and whether its copy or
\* its tensor-core work is still in flight.
Uses(f, s) == CASE f = "seg" -> call.segments
                [] f = "mask" -> HasMask(s)
                [] f = "aux_consumed" -> HasAux
                [] f \in Families \ {"seg", "mask", "aux_consumed"} -> TRUE
Op(f) == CASE f = "s_ready" -> "qk" [] f = "kv_consumed" -> "pv"
           [] f = "pv_done" -> "commit"
InFlight(f, s) ==
  CASE f \in {"k", "v", "seg", "mask"} -> <<f, s>> \in copies
    [] f \in {"s_ready", "kv_consumed", "pv_done"} -> <<Op(f), s>> \in tc
    [] f \in {"aux_consumed", "p_ready"} -> FALSE
Up(f) == {s \in Window(f) : Uses(f, s) /\ ~InFlight(f, s)}
-----------------------------------------------------------------------------
\* What a program counter says of the steps and of the specialisation.
PcFacts ==
  /\ tmaPc \in {"kv", "aux"} => tmaStep >= NumStages
  /\ tmaPc \in {"drain", "drain_aux"} => tmaStep + NumStages >= n
  /\ tmaPc \in {"aux", "drain_aux"} => HasAux
  /\ mmaPc = "done" => mmaStep = n
  /\ smxPc \in {"last_pv", "output", "done"} => smxStep = n
  /\ smxPc \in {"pv", "last_pv"} => smxStep > 0
  /\ smxPc = "mask" => HasMask(smxStep)
  /\ smxPc = "seg" => call.segments
  /\ smxPc = "aux" => HasAux

\* The order of the threads' progress, which bounds every window.
Order == /\ KvFree <= mmaStep /\ mmaStep <= smxStep /\ smxStep <= mmaStep + 1
         /\ Past(AfterS) <= QkIssued /\ QkIssued <= Loaded
         /\ PvSeen <= mmaStep

\* Work in flight is for a step of its window.  A PV retires before its commit.
Placed(f) == \A s \in 0 .. n - 1 : InFlight(f, s) => s \in Window(f) /\ Uses(f, s)
Windows ==
  /\ \A f \in Families : Placed(f)
  /\ \A s \in 0 .. n - 1 : InFlight("kv_consumed", s) => InFlight("pv_done", s)

Lags == \A f \in Families : Encodes(RingLag(f), Depth(f), Up(f))

\* Q's barrier has one phase, of one or two copies, for two waiters.
QLanded == tmaPc # "q" /\ copies \cap {Q, QSeg} = {}
QPhase ==
  /\ QSeg \in copies => call.segments
  /\ tmaPc = "q" => copies \cap {Q, QSeg} = {}
  /\ done[Q] = IF QLanded THEN 1 ELSE 0
  /\ left[Q] = IF call.segments /\ (copies \cap {Q, QSeg} = {} \/ {Q, QSeg} \subseteq copies)
               THEN 2 ELSE 1
  /\ seen["mma"][Q] = IF mmaPc = "q" THEN 0 ELSE 1
  /\ seen["softmax"][Q] = IF smxPc = "q" THEN 0 ELSE 1
  /\ mmaPc # "q" \/ smxPc # "q" => QLanded

Whole == \A b \in Barriers \ {Q} : left[b] = 1

RingInv == PcFacts /\ Order /\ Windows /\ Lags /\ QPhase /\ Whole
=============================================================================
