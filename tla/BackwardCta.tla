---------------------------- MODULE BackwardCta ----------------------------
(***************************************************************************)
(* What the CTAs of the dQ and the dK/dV kernel have in common: a warp     *)
(* that loads, one that issues MMAs, and elementwise warpgroups that split *)
(* the columns of a step between them.                                     *)
(***************************************************************************)
EXTENDS Cta

CONSTANT NumEw           \* elementwise warpgroups

ASSUME NumEwAssumption == NumEw \in Nat \ {0}

Ew == 0 .. NumEw - 1
Tma == <<"tma", 0>>
Mmas == <<"mma", 0>>
Warps == {Tma, Mmas} \cup ({"elementwise"} \X Ew)
=============================================================================
