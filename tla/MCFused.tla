------------------------------ MODULE MCFused ------------------------------
(***************************************************************************)
(* Launches of the fused backward kernel for TLC: every specialisation on  *)
(* up to two steps, the default early_scores with three, where a ring of   *)
(* two slots is refilled, and the default hardware kernel with five, where *)
(* both slots are refilled and the parity of their barriers comes round.   *)
(***************************************************************************)
EXTENDS FusedBackward

MCInit ==
  /\ Init
  /\ \/ call.n <= 2
     \/ call.n = 3 /\ call.early /\ call.partial = {2}
     \/ /\ call.n = 5 /\ call.early /\ call.split /\ ~call.serialize
        /\ call.partial = {0, 3}
MCSpec == MCInit /\ [][Next]_vars /\ Fairness

\* Two steps of the default hardware kernel.
TwoSteps ==
  /\ Init
  /\ call = [n |-> 2, partial |-> {}, early |-> TRUE, split |-> TRUE,
             serialize |-> FALSE]
TwoStepsSpec == TwoSteps /\ [][Next]_vars /\ Fairness
=============================================================================
