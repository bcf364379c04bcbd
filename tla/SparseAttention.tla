-------------------------- MODULE SparseAttention --------------------------
(***************************************************************************)
(* What a grid of CTAs promises: that every visible pair of a query and a  *)
(* key is attended to, once, and no other pair.                            *)
(***************************************************************************)
EXTENDS Integers

VARIABLES
  visible,     \* the pairs that the mask shows
  times        \* times[p]: how often the pair p was attended to

attVars == <<visible, times>>

Init == times = [p \in DOMAIN times |-> 0] /\ visible \subseteq DOMAIN times

Attend == /\ times' \in [DOMAIN times -> 0 .. 1]
          /\ \A p \in DOMAIN times : times'[p] >= times[p]
          /\ \A p \in DOMAIN times \ visible : times'[p] = 0
          /\ UNCHANGED visible

Complete == \A p \in visible : times[p] = 1

Steps == Init /\ [][Attend]_attVars

\* Every visible pair is eventually attended to.
Spec == Steps /\ <>Complete
=============================================================================
