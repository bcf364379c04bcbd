----------------------------- MODULE MCDispatch -----------------------------
(***************************************************************************)
(* Objects and calls for TLC: either the forward settings and the mask     *)
(* vary and the calls run forward only, or the backward settings and the   *)
(* environment vary and every call is differentiated.                      *)
(***************************************************************************)
EXTENDS Dispatch

ForwardObjects ==
  { o \in [sizes : [q : {0, 128, 256}, kv : Sizes, stages : {0, 2, 3, 4},
                    dq : {0}, dkv : {0}, bwdStages : {2}],
           mask : [heads : {1, 2, 3}, stored : {"never", "256", "always"},
                   extra : {"odd", "little", "much"}],
           env : [fused : {TRUE}, fusedD64 : {FALSE}, early : {FALSE},
                  double : {FALSE}, wgs : {4}, correction : BOOLEAN]] :
      o.mask.heads > 1 => ~o.env.correction /\ o.mask.stored # "256" }
BackwardObjects ==
  [sizes : [q : {128}, kv : {64}, stages : {2},
            dq : Sizes, dkv : Sizes, bwdStages : {1, 2, 3}],
   mask : [heads : {1}, stored : {"never", "always"}, extra : {"little"}],
   env : [fused : BOOLEAN, fusedD64 : BOOLEAN, early : BOOLEAN,
          double : BOOLEAN, wgs : {1, 3, 7, 64}, correction : {FALSE}]]

Dims == {<<64, 64>>, <<128, 128>>, <<192, 192>>, <<256, 256>>, <<128, 64>>, <<64, 128>>}
MCCalls ==
  { [d |-> dims[1], dv |-> dims[2], heads |-> 3,
     segments |-> segments, residuals |-> residuals, grad |-> grad] :
      dims \in Dims, segments, residuals, grad \in BOOLEAN }
Differentiated(o) == o.sizes.kv = 64 /\ o.mask.heads = 1 /\ o \in BackwardObjects

MCInit ==
  /\ object \in ForwardObjects \cup BackwardObjects
  /\ object.sizes \in BlockSizes /\ object.mask \in MaskTypes
  /\ Start
MCCall ==
  \E c \in MCCalls \cap Calls : c.grad = Differentiated(object) /\ Call(c)
MCNext == MCCall \/ Forward \/ FusedBackward \/ SplitBackward
MCSpec == MCInit /\ [][MCNext]_vars
=============================================================================
