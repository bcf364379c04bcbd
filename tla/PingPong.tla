------------------------------ MODULE PingPong ------------------------------
(***************************************************************************)
(* One CTA of forward_pingpong.py: two q tiles that share one K/V ring.    *)
(* Softmax warpgroup t handles tile t; the producer warpgroup's TMA and    *)
(* MMA warps serve both; the optional correction warpgroup rescales O in   *)
(* their place.  S_t and P_t are one TMEM buffer, sp[t].                   *)
(*                                                                         *)
(* O_t holds <<"acc", s>> when the steps up to s are accumulated and       *)
(* <<"scaled", s>> when it was rescaled for step s; <<"alpha", s>> is the  *)
(* factor that softmax computes in step s.                                 *)
(***************************************************************************)
EXTENDS Cta

-----------------------------------------------------------------------------
Tiles == {0, 1}
Tma == <<"tma", 0>>
Mmas == <<"mma", 0>>
Softmax(t) == <<"softmax", t>>
Correction == <<"correction", 0>>

\* A launch: the row's num_steps and its PARTIAL steps (only a dense mask
\* makes them load anything), segment ids, dense mask, the correction and
\* schedule options, and serialize_pv.
Calls ==
  { c \in [n : 0 .. MaxSteps, partial : SUBSET (0 .. MaxSteps - 1),
           segments : BOOLEAN, dense : BOOLEAN, correction : BOOLEAN,
           schedule : BOOLEAN, serialize : BOOLEAN] :
      /\ c.partial \subseteq 0 .. c.n - 1
      /\ c.dense \/ c.partial = {}
      /\ NumStages >= 2 }
HasAux(c) == c.dense \/ c.segments

Q == Only("q")
QRows(t) == <<"q_rows", t>>
SP(t) == <<"sp", t>>
X(t) == <<"x", t>>         \* registers
O(t) == <<"o", t>>
Alpha(t) == <<"alpha", t>>
\* A barrier exists only in the specialisations that use it.
TurnUsers_first(c) == IF c.schedule THEN {0} ELSE {}
TurnUsers(c) == IF c.schedule THEN Tiles ELSE {}
Arrivals(c) ==
  LET ring(name) == {name} \X (0 .. NumStages - 1)
      per(name) == {name} \X Tiles
      If(condition, barriers) == IF condition THEN barriers ELSE {}
      barriers ==
        {Q, Only("o_done")} \cup ring("k") \cup ring("v") \cup ring("kv_consumed")
          \cup per("s_ready") \cup per("p_ready")
          \cup If(c.segments, ring("seg")) \cup If(c.dense, ring("mask"))
          \cup If(HasAux(c), ring("aux_consumed"))
          \cup If(c.serialize, per("pv_order"))
          \cup If(c.correction, per("alpha_ready") \cup per("alpha_consumed")
                                \cup per("o_free") \cup per("o_corrected"))
          \cup ({"turn"} \X TurnUsers(c))
  IN [b \in barriers |-> CASE b[1] = "q" -> IF c.segments THEN 2 ELSE 1
                           [] b[1] = "aux_consumed" -> 2
                           [] OTHER -> 1]
-----------------------------------------------------------------------------
TmaWarp(c) ==
  LET Release(s) == Wait(Ring("kv_consumed", s))
                      \o When(HasAux(c), Wait(Ring("aux_consumed", s)))
      Loads(s) == Load("k", s) \o Load("v", s)
                    \o When(c.segments, Load("seg", s))
                    \o When(s \in c.partial, Load("mask", s))
  IN Copy(CellsOf("q_rows", Tiles, Q), Q)
       \o When(c.segments, Copy(Cell(Only("q_seg"), Q), Q))
       \o LoadLoop(c.n, Release, Loads)

\* A definition Name_fault is a faulty variant of the definition Name: the
\* checks of a property are tried against such a fault.

\* S_t(s) = Q_t K_s^T overwrites P_t(s - 1).
AfterPv(c, t, s) == When(c.serialize /\ s > 0, Wait(<<"pv_order", t>>))
IssueS(c, t, s) ==
  AfterPv(c, t, s)
    \o Mma(Cell(QRows(t), Q) @@ Cell(Ring("k", s), <<"k", s>>), Cell(SP(t), <<"s", s>>))
    \o Commit(<<"s_ready", t>>)
    \o When(c.correction /\ s > 0, Commit(<<"o_free", t>>))

\* O_t += P_t(s) V_s, from O_t rescaled for step s.
OScaled(c, t, s) == When(c.correction /\ s > 0, Wait(<<"o_corrected", t>>))
IssuePv(c, t, s) ==
  Wait(<<"p_ready", t>>) \o OScaled(c, t, s)
    \o Mma(Cell(SP(t), <<"p", s>>) @@ Cell(Ring("v", s), <<"v", s>>)
             @@ IF s > 0 THEN Cell(O(t), <<"scaled", s>>) ELSE NoCells,
           Cell(O(t), <<"acc", s>>))
    \o When(c.serialize, Commit(<<"pv_order", t>>))

\* Both tiles are done with the slot.
LastPv(c, s) == IssuePv(c, 1, s) \o Commit(Ring("kv_consumed", s))
MmaStep(c, s) ==
  LET hasNext == s + 1 < c.n IN
  Wait(Ring("v", s)) \o IssuePv(c, 0, s)
    \o When(hasNext, Wait(Ring("k", s + 1)) \o IssueS(c, 0, s + 1))
    \o LastPv(c, s)
    \o When(hasNext, IssueS(c, 1, s + 1))
MmaWarp(c) ==
  Wait(Q)
    \o When(c.n > 0, Wait(Ring("k", 0)) \o IssueS(c, 0, 0) \o IssueS(c, 1, 0))
    \o Loop(0, c.n, LAMBDA s : MmaStep(c, s))
    \o When(c.n > 0, Commit(Only("o_done")) \o
         When(c.serialize, Wait(<<"pv_order", 0>>) \o Wait(<<"pv_order", 1>>)))
-----------------------------------------------------------------------------
\* Step s of softmax warpgroup t.  Scores and masks become the logits.
TakeTurn_always(c, t, s) == When(c.schedule, Wait(<<"turn", t>>))
TakeTurn(c, t, s) == When(c.schedule /\ (t = 1 \/ s > 0), Wait(<<"turn", t>>))
AwaitMasks(c, s) == When(s \in c.partial, Wait(Ring("mask", s)))
                      \o When(c.segments, Wait(Ring("seg", s)))
Masks(c, s) ==
  (IF s \in c.partial THEN Cell(Ring("mask", s), <<"mask", s>>) ELSE NoCells)
    @@ IF c.segments THEN Cell(Ring("seg", s), <<"seg", s>>) ELSE NoCells
Logits(c, t, s) ==
  Wait(<<"s_ready", t>>) \o AwaitMasks(c, s)
    \o Run(Cell(SP(t), <<"s", s>>) @@ Masks(c, s), Cell(X(t), <<"x", s>>))
    \o When(HasAux(c), ArriveAt(Ring("aux_consumed", s)))

AlphaRead(t, s) == When(s > 1, Wait(<<"alpha_consumed", t>>))
PublishAlpha(c, t, s) ==
  When(c.correction /\ s > 0,
       AlphaRead(t, s) \o Run(NoCells, Cell(Alpha(t), <<"alpha", s>>))
         \o ArriveAt(<<"alpha_ready", t>>))

\* P_t overwrites S_t; O_t is rescaled in every step but the first.
StoreP(c, t, s) ==
  LET rescale == s > 0 /\ ~c.correction IN
  Run(Cell(X(t), <<"x", s>>)
        @@ IF rescale THEN Cell(O(t), <<"acc", s - 1>>) ELSE NoCells,
      Cell(SP(t), <<"p", s>>)
        @@ IF rescale THEN Cell(O(t), <<"scaled", s>>) ELSE NoCells)
    \o ArriveAt(<<"p_ready", t>>)

SoftmaxStep(c, t, s) ==
  TakeTurn(c, t, s) \o Logits(c, t, s) \o PublishAlpha(c, t, s)
    \o When(c.schedule, ArriveAt(<<"turn", 1 - t>>)) \o StoreP(c, t, s)

\* The output is staged in q_smem: rows of tile t only.
LastTurn_unobserved(c, t) == <<>>
LastTurn(c, t) == When(c.schedule /\ t = 0 /\ c.n > 0, Wait(<<"turn", 0>>))
Output(c, t) ==
  When(c.correction /\ c.n > 1, Wait(<<"alpha_consumed", t>>))
    \o LastTurn(c, t)
    \o When(c.n > 0, Wait(Only("o_done")))
    \o Run(IF c.n > 0 THEN Cell(O(t), <<"acc", c.n - 1>>) ELSE NoCells,
           Cell(QRows(t), <<"out", c.n>>) @@ Cell(<<"out", t>>, <<"out", c.n>>))
SoftmaxWg(c, t) ==
  Wait(Q) \o Loop(0, c.n, LAMBDA s : SoftmaxStep(c, t, s)) \o Output(c, t)

\* The correction warpgroup rescales both tiles' O for step s.
Correct(t, s) ==
  Wait(<<"o_free", t>>) \o Wait(<<"alpha_ready", t>>)
    \o Run(Cell(Alpha(t), <<"alpha", s>>), Cell(Only("alpha_reg"), <<"alpha", s>>))
    \o ArriveAt(<<"alpha_consumed", t>>)
    \o Run(Cell(Only("alpha_reg"), <<"alpha", s>>) @@ Cell(O(t), <<"acc", s - 1>>),
           Cell(O(t), <<"scaled", s>>))
    \o ArriveAt(<<"o_corrected", t>>)
CorrectionWg(c) ==
  When(c.correction, Loop(1, IF c.n > 1 THEN c.n ELSE 1, LAMBDA s : Correct(0, s) \o Correct(1, s)))
-----------------------------------------------------------------------------
Warps == {Tma, Mmas, Softmax(0), Softmax(1), Correction}
Kernel(c) ==
  Compiled([w \in Warps |->
              CASE w = Tma -> TmaWarp(c) [] w = Mmas -> MmaWarp(c)
                [] w = Correction -> CorrectionWg(c)
                [] OTHER -> SoftmaxWg(c, w[2])],
           Arrivals(c), <<[acc |-> O(0), out |-> <<"out", 0>>],
                          [acc |-> O(1), out |-> <<"out", 1>>]>>)

Init == call \in Calls /\ Start(Kernel(call))
Spec == Init /\ [][Next]_vars /\ Progress
=============================================================================
