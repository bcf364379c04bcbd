----------------------------- MODULE BackwardDq -----------------------------
(***************************************************************************)
(* One CTA of the dQ kernel of backward.py.  It owns a q block and walks   *)
(* the KV sub-blocks that it attends to; elementwise warpgroup e turns its *)
(* columns of S and dP into those of dS, which has a TMEM buffer of its    *)
(* own.  The kernel adds no ordering for the interpreter (call.serialize): *)
(* the same code has to be right without in-order MMAs.                    *)
(*                                                                         *)
(* Q and dO are one copy here; lse, delta and the q segment ids another.   *)
(***************************************************************************)
EXTENDS BackwardCta
-----------------------------------------------------------------------------
\* A launch: the sub-blocks of the row, those with a mask block, segment ids,
\* a dense mask, and whether MMAs may run out of order.
Calls ==
  { c \in [n : 0 .. MaxSteps, partial : SUBSET (0 .. MaxSteps - 1),
           segments : BOOLEAN, dense : BOOLEAN, serialize : BOOLEAN] :
      c.partial \subseteq 0 .. c.n - 1 /\ (c.dense \/ c.partial = {}) }
HasAux(c) == c.dense \/ c.segments

\* A definition Name_fault is a faulty variant of the definition Name: the
\* checks of a property are tried against such a fault.

QDo == Only("q_do")
Row == Only("row")
Dq == Only("dq")
Arrivals(c) ==
  LET ring(name) == {name} \X (0 .. NumStages - 1)
      If(condition, barriers) == IF condition THEN barriers ELSE {}
  IN [b \in {QDo, Only("s_ready"), Only("ds_ready"), Only("dq_done")}
            \cup ring("k") \cup ring("v") \cup ring("kv_consumed")
            \cup If(c.segments, ring("seg")) \cup If(c.dense, ring("mask"))
            \cup If(HasAux(c), ring("aux_consumed")) |->
        CASE b = QDo -> 2 [] b[1] = "aux_consumed" -> NumEw
          [] b[1] = "ds_ready" -> NumEw [] OTHER -> 1]
-----------------------------------------------------------------------------
Release(c, t) == Wait(Ring("kv_consumed", t))
                   \o When(HasAux(c), Wait(Ring("aux_consumed", t)))
TmaWarp(c) ==
  Copy(Cell(QDo, QDo), QDo) \o Copy(Cell(Row, Row), QDo)
    \o LoadLoop(c.n, LAMBDA t : Release(c, t),
         LAMBDA t : Load("k", t) \o Load("v", t)
                      \o When(c.segments, Load("seg", t))
                      \o When(t \in c.partial, Load("mask", t)))

\* S = Q K^T and dP = dO V^T; then dQ += dS K, which also releases the slot.
Scores(t) ==
  Mma(Cell(QDo, QDo) @@ Cell(Ring("k", t), <<"k", t>>),
      CellsOf("s", Ew, <<"s", t>>))
    \o Mma(Cell(QDo, QDo) @@ Cell(Ring("v", t), <<"v", t>>),
           CellsOf("dp", Ew, <<"dp", t>>))
    \o Commit(Only("s_ready"))
MmaStep(t) ==
  Wait(Ring("k", t)) \o Wait(Ring("v", t)) \o Scores(t) \o Wait(Only("ds_ready"))
    \o Mma(CellsOf("ds", Ew, <<"ds", t>>) @@ Cell(Ring("k", t), <<"k", t>>)
             @@ IF t > 0 THEN Cell(Dq, <<"acc", t - 1>>) ELSE NoCells,
           Cell(Dq, <<"acc", t>>))
    \o Commit(Ring("kv_consumed", t))
MmaWarp(c) == Wait(QDo) \o Loop(0, c.n, MmaStep)
                \o When(c.n > 0, Commit(Only("dq_done")))

\* Step t of warpgroup e.
AwaitScores_assumed == <<>>
AwaitScores == Wait(Only("s_ready"))
Masks(c, t) ==
  (IF t \in c.partial THEN Cell(Ring("mask", t), <<"mask", t>>) ELSE NoCells)
    @@ IF c.segments THEN Cell(Ring("seg", t), <<"seg", t>>) ELSE NoCells
EwStep(c, e, t) ==
  AwaitScores \o When(t \in c.partial, Wait(Ring("mask", t)))
    \o When(c.segments, Wait(Ring("seg", t)))
    \o Run(Cell(<<"s", e>>, <<"s", t>>) @@ Cell(<<"dp", e>>, <<"dp", t>>)
             @@ Cell(<<"rows", e>>, Row) @@ Masks(c, t),
           Cell(<<"ds", e>>, <<"ds", t>>))
    \o When(HasAux(c), ArriveAt(Ring("aux_consumed", t)))
    \o ArriveAt(Only("ds_ready"))

\* Warpgroup 0 stages dQ in q_smem and writes it out.
Output(c) ==
  When(c.n > 0, Wait(Only("dq_done")))
    \o Run(IF c.n > 0 THEN Cell(Dq, <<"acc", c.n - 1>>) ELSE NoCells,
           Cell(QDo, <<"out", c.n>>) @@ Cell(Only("out"), <<"out", c.n>>))
ElementwiseWg(c, e) ==
  Wait(QDo) \o Run(Cell(Row, Row), Cell(<<"rows", e>>, Row))
    \o Loop(0, c.n, LAMBDA t : EwStep(c, e, t)) \o When(e = 0, Output(c))

Kernel(c) ==
  Compiled([w \in Warps |-> CASE w = Tma -> TmaWarp(c) [] w = Mmas -> MmaWarp(c)
                              [] OTHER -> ElementwiseWg(c, w[2])], Arrivals(c),
           <<[acc |-> Dq, out |-> Only("out")]>>)
Init == call \in Calls /\ Start(Kernel(call))
Spec == Init /\ [][Next]_vars /\ Progress
=============================================================================
