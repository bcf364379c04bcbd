---------------------------- MODULE BackwardDkv ----------------------------
(***************************************************************************)
(* One CTA of the dK/dV kernel of backward.py.  It owns a KV block and     *)
(* walks the q sub-blocks of all q heads that attend to it.  With two      *)
(* buffers the scores of step t + 1 are issued before the gradients of     *)
(* step t, whose P^T and dS^T live in the other buffer.                    *)
(*                                                                         *)
(* S^T and dP^T of a buffer are TMEM columns in 2 * NumEw parts: two parts *)
(* per warpgroup as f32, one part per warpgroup once P^T and dS^T are      *)
(* stored over them in 16 bits.  So warpgroup 1 stores where warpgroup 0   *)
(* loads.  K and the kv segment ids are one copy here; Q and dO of a step   *)
(* another; lse, delta and the q segment ids a third.                      *)
(***************************************************************************)
EXTENDS BackwardCta
-----------------------------------------------------------------------------
\* A launch: the steps over the group's heads, those with a mask block, a
\* dense mask, the buffers (two need a second slot), and serialize_mma.
Calls ==
  { c \in [n : 0 .. MaxSteps, partial : SUBSET (0 .. MaxSteps - 1),
           dense : BOOLEAN, nbuf : {1, 2}, serialize : BOOLEAN] :
      /\ c.partial \subseteq 0 .. c.n - 1
      /\ c.dense \/ c.partial = {}
      /\ c.nbuf = 2 => NumStages >= 2 }

\* A definition Name_fault is a faulty variant of the definition Name: the
\* checks of a property are tried against such a fault.

KV == Only("kv")
K == Only("k")
V == Only("v")
QDo(t) == Ring("q_do", t)
Row(t) == Ring("row", t)
Parts(union, c, t, parts) ==
  {<<union, 2 * NumEw * (t % c.nbuf) + x>> : x \in parts}
Buf(name, c, t) == <<name, t % c.nbuf>>
F32(e) == {2 * e, 2 * e + 1}
Arrivals(c) ==
  LET ring(name) == {name} \X (0 .. NumStages - 1)
      per(name) == {name} \X (0 .. c.nbuf - 1)
      If(condition, barriers) == IF condition THEN barriers ELSE {}
  IN [b \in {KV, Only("done")} \cup ring("q") \cup ring("consumed")
            \cup ring("aux_consumed") \cup per("s_ready") \cup per("p_ready")
            \cup If(c.dense, ring("mask"))
            \cup If(c.serialize, per("mma_order"))
            \cup If(NumEw > 1, per("loaded")) |->
        CASE b[1] \in {"kv", "q"} -> 2
          [] b[1] \in {"aux_consumed", "p_ready", "loaded"} -> NumEw
          [] OTHER -> 1]
-----------------------------------------------------------------------------
Release(t) == Wait(Ring("consumed", t)) \o Wait(Ring("aux_consumed", t))
TmaWarp(c) ==
  Copy(Cell(K, K), KV) \o Copy(Cell(V, V), KV)
    \o LoadLoop(c.n, Release, LAMBDA t :
         Copy(Cell(QDo(t), <<"q_do", t>>), Ring("q", t))
           \o Copy(Cell(Row(t), <<"row", t>>), Ring("q", t))
           \o When(t \in c.partial, Load("mask", t)))

\* S^T = K Q^T and dP^T = V dO^T into the buffer of step t.
AfterGrads_assumed(c, t) == <<>>
AfterGrads(c, t) == When(c.serialize /\ t >= c.nbuf, Wait(Buf("mma_order", c, t)))
IssueScores(c, t) ==
  LET Operands(x) == Cell(x, x) @@ Cell(QDo(t), <<"q_do", t>>)
      all == 0 .. 2 * NumEw - 1
  IN AfterGrads(c, t) \o Wait(Ring("q", t))
       \o Mma(Operands(K), [x \in Parts("sp", c, t, all) |-> <<"s", t>>])
       \o Mma(Operands(V), [x \in Parts("dd", c, t, all) |-> <<"dp", t>>])
       \o Commit(Buf("s_ready", c, t))

\* dV += P^T dO and dK += dS^T Q.
Grads(c, t) ==
  LET Grad(union, tag, acc) ==
        Mma([x \in Parts(union, c, t, Ew) |-> tag] @@ Cell(QDo(t), <<"q_do", t>>)
              @@ IF t > 0 THEN Cell(acc, <<"acc", t - 1>>) ELSE NoCells,
            Cell(acc, <<"acc", t>>))
  IN Grad("sp", <<"p", t>>, Only("dv")) \o Grad("dd", <<"ds", t>>, Only("dk"))

ScoresAhead(c, t) ==
  IF c.nbuf = 1 THEN IssueScores(c, t)
  ELSE When(t + 1 < c.n, IssueScores(c, t + 1))
MmaStep(c, t) ==
  ScoresAhead(c, t) \o Wait(Buf("p_ready", c, t)) \o Grads(c, t)
    \o Commit(Ring("consumed", t))
    \o When(c.serialize, Commit(Buf("mma_order", c, t)))

LastGrads(c) ==
  Loop(IF c.n > c.nbuf THEN c.n - c.nbuf ELSE 0, c.n,
       LAMBDA t : Wait(Buf("mma_order", c, t)))
MmaWarp(c) ==
  Wait(KV) \o When(c.nbuf = 2 /\ c.n > 0, IssueScores(c, 0))
    \o Loop(0, c.n, LAMBDA t : MmaStep(c, t))
    \o When(c.serialize, LastGrads(c)) \o When(c.n > 0, Commit(Only("done")))
-----------------------------------------------------------------------------
\* Step t of warpgroup e.  Nothing is stored before all have loaded.
Meet_never(c, t) == <<>>
Meet(c, t) == When(NumEw > 1, ArriveAt(Buf("loaded", c, t))
                                \o Wait(Buf("loaded", c, t)))
EwStep(c, e, t) ==
  LET X == <<"x", e>> IN
  Wait(Ring("q", t)) \o Wait(Buf("s_ready", c, t))
    \o Run([x \in Parts("sp", c, t, F32(e)) |-> <<"s", t>>]
             @@ [x \in Parts("dd", c, t, F32(e)) |-> <<"dp", t>>]
             @@ Cell(Row(t), <<"row", t>>), Cell(X, <<"x", t>>))
    \o Meet(c, t) \o When(t \in c.partial, Wait(Ring("mask", t)))
    \o Run(Cell(X, <<"x", t>>)
             @@ IF t \in c.partial THEN Cell(Ring("mask", t), <<"mask", t>>)
                ELSE NoCells,
           [x \in Parts("sp", c, t, {e}) |-> <<"p", t>>]
             @@ [x \in Parts("dd", c, t, {e}) |-> <<"ds", t>>])
    \o ArriveAt(Ring("aux_consumed", t)) \o ArriveAt(Buf("p_ready", c, t))

\* The first warpgroup writes dK through k_smem, the last one dV.
Output(c, acc, staged, out) ==
  Run(IF c.n > 0 THEN Cell(acc, <<"acc", c.n - 1>>) ELSE NoCells,
      Cell(staged, <<"out", c.n>>) @@ Cell(out, <<"out", c.n>>))
ElementwiseWg(c, e) ==
  Wait(KV) \o Loop(0, c.n, LAMBDA t : EwStep(c, e, t)) \o When(c.n > 0, Wait(Only("done")))
    \o When(e = 0, Output(c, Only("dk"), K, Only("dk_gmem")))
    \o When(e = NumEw - 1, Output(c, Only("dv"), V, Only("dv_gmem")))

Kernel(c) ==
  Compiled([w \in Warps |-> CASE w = Tma -> TmaWarp(c) [] w = Mmas -> MmaWarp(c)
                              [] OTHER -> ElementwiseWg(c, w[2])], Arrivals(c),
           <<[acc |-> Only("dk"), out |-> Only("dk_gmem")],
             [acc |-> Only("dv"), out |-> Only("dv_gmem")]>>)
Init == call \in Calls /\ Start(Kernel(call))
Spec == Init /\ [][Next]_vars /\ Progress
=============================================================================
