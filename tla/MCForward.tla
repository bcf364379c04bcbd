----------------------------- MODULE MCForward -----------------------------
(***************************************************************************)
(* Launches of the forward kernel for TLC: every specialisation of the     *)
(* kernel on rows of up to three steps, where a ring of two slots is       *)
(* refilled once, and rows of five steps, where both slots are refilled    *)
(* and one of them twice, so that the parity of its barriers comes round.  *)
(***************************************************************************)
EXTENDS ForwardKernel

ShortRows == {c \in Calls : c.n <= 3 /\ (c.reuseQ \/ c.n = 1)}
LongRows ==
  {c \in Calls : c.n = 5 /\ c.segments /\ c.reuseQ /\ c.partial = {0, 1, 4}}

MCInit == Init /\ call \in ShortRows \cup LongRows
MCSpec == MCInit /\ [][Next]_vars /\ Fairness
=============================================================================
