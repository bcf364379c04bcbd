------------------------------ MODULE Dispatch ------------------------------
(***************************************************************************)
(* The public API: a SplashAttentionKernel holds a processed mask and the  *)
(* requested block sizes; a call chooses what was left open, takes the     *)
(* schedule for these tiles from a cache, and launches the forward kernel; *)
(* a gradient launches the fused or the two split backward kernels.  Each  *)
(* kernel checks its budgets of TMEM columns and SMEM bytes before it      *)
(* allocates, and raises ValueError.                                       *)
(*                                                                         *)
(* Sequence lengths, kv heads and dtypes are those of a valid call, and    *)
(* the elements of q, k and v have two bytes; a size of 0 stands for None. *)
(***************************************************************************)
EXTENDS Integers, FiniteSets

CONSTANTS HeadDims,      \* the head dims of the calls
          Stages         \* the ring depths requested

ASSUME HeadDimsAssumption == HeadDims \subseteq Nat \ {0}
ASSUME StagesAssumption == Stages \subseteq Nat

VARIABLES
  object,      \* the mask, the requested block sizes and the environment
  variants,    \* the cached schedules, by block_q, block_kv and num_stages
  call,        \* the call that runs, or Idle
  launches,    \* the kernels it has launched
  outcome      \* "running", "done", or "rejected" with ValueError

vars == <<object, variants, call, launches, outcome>>
-----------------------------------------------------------------------------
TmemCols == 512
SmemBytes == 227 * 1024 - 4096
Item == 2                \* bytes of an element
Sizes == {0, 64, 128}
Flag(condition) == IF condition THEN 1 ELSE 0

\* BlockSizes.__post_init__.
StagesValid(s) == (s.stages # 0 => s.stages >= 2) /\ s.bwdStages >= 1
BlockSizes ==
  { s \in [q : {0, 128, 256}, kv : Sizes, stages : Stages, dq : Sizes,
           dkv : Sizes, bwdStages : Stages] : StagesValid(s) }

\* What a mask has for the dispatch: its heads; whether it needs stored blocks,
\* which may be so for blocks of 256 rows only; and the work of a schedule of
\* 256 rows relative to one of 128, if q has an even number of blocks.
MaskTypes ==
  { m \in [heads : Nat \ {0}, stored : {"never", "256", "always"},
           extra : {"odd", "little", "much"}] :
      m.extra = "odd" => m.stored # "256" }
Stored(mask, blockQ) == mask.stored = "always" \/ (mask.stored = "256" /\ blockQ = 256)

\* SPLASH_BWD_FUSED, _FUSED_D64, _EARLY_S, _DOUBLE_BUFFER and _WGS, and
\* SPLASH_CORRECTION.
Environments == [fused : BOOLEAN, fusedD64 : BOOLEAN, early : BOOLEAN,
                 double : BOOLEAN, wgs : Nat \ {0}, correction : BOOLEAN]

\* A call; one that is differentiated saves the residuals.
Idle == [d |-> 0]
Calls ==
  { c \in [d : HeadDims, dv : HeadDims, heads : Nat \ {0},
           segments : BOOLEAN, residuals : BOOLEAN, grad : BOOLEAN] :
      c.grad => c.residuals }
-----------------------------------------------------------------------------
\* A definition Name_fault is a faulty variant of the definition Name: the
\* checks of a property are tried against such a fault.

\* The budgets of the forward kernels.  b holds block_q, block_kv, num_stages.
ForwardTmem(c, b) == c.dv + 2 * b.kv + b.kv \div 2
ForwardSmem(c, b, stored) ==
  b.q * c.d * Item + (IF c.d = c.dv THEN 0 ELSE b.q * c.dv * Item)
    + b.stages * b.kv * (c.d + c.dv) * Item
    + (IF stored THEN b.stages * b.q * b.kv ELSE 0)
    + (b.q + b.stages * b.kv) * 4 * Flag(c.segments)
    + b.q * 4 * Flag(c.residuals)
PingPongTmem(c, b) == 2 * (b.kv + c.d)
PingPongSmem(c, b, stored, residuals) ==
  256 * c.d * Item + b.stages * b.kv * 2 * c.d * Item
    + (IF stored THEN b.stages * 256 * b.kv ELSE 0)
    + (256 + b.stages * b.kv) * 4 * Flag(c.segments)
    + 256 * 4 * Flag(residuals) + 2 * 128 * 4

\* auto_forward_tiles and _tiles: what is requested, or the best on average.
Tiles_requested(d, blockQ) ==
  [q |-> blockQ, kv |-> object.sizes.kv, stages |-> object.sizes.stages]
Tiles(d, blockQ) ==
  LET s == object.sizes
      auto == IF d <= 64 /\ blockQ = 128 THEN <<64, 3>> ELSE <<128, 2>>
  IN [q |-> blockQ, kv |-> IF s.kv # 0 THEN s.kv ELSE auto[1],
      stages |-> IF s.stages # 0 THEN s.stages ELSE auto[2]]

\* choose_block_q: 256 for head_dim 128 with little extra work, if it fits.
Fits_maskless(c, b) == PingPongSmem(c, b, FALSE, TRUE) <= SmemBytes
Fits(c, b) == PingPongSmem(c, b, Stored(object.mask, 256), TRUE) <= SmemBytes
ChooseBlockQ(c) ==
  CASE object.sizes.q # 0 -> object.sizes.q
    [] object.sizes.q = 0 /\ c.d = c.dv /\ c.d = 128
         /\ object.mask.extra = "little" /\ Fits(c, Tiles(c.d, 256)) -> 256
    [] OTHER -> 128
Resolved(c) == Tiles(c.d, ChooseBlockQ(c))

\* The checks of the forward kernels.
ForwardAccepts(c, b) ==
  /\ {c.d % 64, c.dv % 64} = {0} /\ c.d <= 256 /\ c.dv <= 256
  /\ ForwardTmem(c, b) <= TmemCols
  /\ ForwardSmem(c, b, Stored(object.mask, b.q)) <= SmemBytes
  /\ object.mask.heads \in {1, c.heads}
PingPongAccepts(c, b) ==
  /\ c.d = c.dv /\ c.d % 64 = 0 /\ c.d <= 128
  /\ object.mask.extra # "odd" /\ b.stages >= 2
  /\ PingPongTmem(c, b) <= TmemCols
  /\ PingPongSmem(c, b, Stored(object.mask, 256), c.residuals) <= SmemBytes
Accepts(c, b) == IF b.q = 256 THEN PingPongAccepts(c, b) ELSE ForwardAccepts(c, b)
-----------------------------------------------------------------------------
\* _check_budgets: before anything of a kernel is launched.
InBudget_tmem(tmem, smem) == tmem <= TmemCols
InBudget(tmem, smem) == tmem <= TmemCols /\ smem <= SmemBytes

\* The budgets of the backward kernels, with sub-blocks of bc.
DqTmem(c, bc) == 2 * bc + bc \div 2 + c.d
DqSmem(c, bc) ==
  LET stages == object.sizes.bwdStages IN
  128 * (c.d + c.dv) * Item + stages * bc * (c.d + c.dv) * Item + 2 * 128 * 4
    + (IF Stored(object.mask, 128) THEN stages * 128 * bc ELSE 0)
    + (128 + stages * bc) * 4 * Flag(c.segments)
NumBuffers(c, bc) ==
  IF object.env.double /\ object.sizes.bwdStages >= 2
       /\ 4 * bc + c.d + c.dv <= TmemCols THEN 2 ELSE 1
DkvTmem(c, bc) == 2 * NumBuffers(c, bc) * bc + c.d + c.dv
DkvSmem(c, bc) ==
  LET stages == object.sizes.bwdStages IN
  128 * (c.d + c.dv) * Item + stages * bc * ((c.d + c.dv) * Item + 8)
    + (IF Stored(object.mask, 128) THEN stages * 128 * bc ELSE 0)
    + (128 + stages * bc) * 4 * Flag(c.segments)
FusedBlock(c) == IF c.d = 128 THEN 64 ELSE 128
FusedTmem(c, bc) == 2 * bc + c.d + c.dv + (IF c.d = 128 THEN bc ELSE c.d)
FusedSmem(c, bc) ==
  LET stages == object.sizes.bwdStages IN
  128 * 2 * c.d * Item + stages * bc * (2 * c.d * Item + 8)
    + (IF Stored(object.mask, 128) THEN stages * 128 * bc ELSE 0)
    + (128 + stages * bc) * 4 * Flag(c.segments)
    + 2 * 128 * bc * Item + c.d * bc * 4

\* _largest_fitting, and _num_elementwise_wgs: halved until each warpgroup has
\* a multiple of 16 columns.
SubBlock_largest(requested, fits) == IF requested # 0 THEN requested ELSE 128
SubBlock(requested, fits) ==
  CASE requested # 0 -> requested
    [] requested = 0 /\ fits -> 128
    [] OTHER -> 64
DqBlock(c) == SubBlock(object.sizes.dq, InBudget(DqTmem(c, 128), DqSmem(c, 128)))
DkvBlock(c) == SubBlock(object.sizes.dkv, InBudget(DkvTmem(c, 128), DkvSmem(c, 128)))
Even_any(bc, ne) == ne * 16 <= bc
Even(bc, ne) == (bc \div ne) % 16 = 0
NumElementwiseWgs(bc) ==
  LET halved[ne \in Nat] == IF ne > 1 /\ ~Even(bc, ne) THEN halved[ne \div 2] ELSE ne
  IN halved[object.env.wgs]

\* _attention_bwd: the fused kernel where it is supported, fits and is wanted.
UseFused(c) ==
  /\ c.d = 128 \/ object.env.fusedD64
  /\ c.d = c.dv /\ c.d \in {64, 128}
  /\ FusedSmem(c, FusedBlock(c)) <= SmemBytes
  /\ object.env.fused
-----------------------------------------------------------------------------
\* A launch: the kernel, the tiles it works on, the blocks of the schedule it
\* is given, and what its scratch_types allocate.
Launch(kernel, tiles, blocks, bc, tmem, smem) ==
  [kernel |-> kernel, tiles |-> tiles, blocks |-> blocks, bc |-> bc,
   ne |-> IF bc = 0 THEN 1 ELSE NumElementwiseWgs(bc), tmem |-> tmem, smem |-> smem]

\* Vectors of a row or column each: lse, delta, segment ids.
Vectors(rows, present) == rows * 4 * Flag(present)
ForwardLaunch(c, b, blocks) ==
  Launch("forward", b, blocks, 0,
    2 * b.kv + b.kv \div 2 + c.dv,
    (b.q * c.d + b.stages * b.kv * c.d + b.stages * b.kv * c.dv
       + (IF c.d = c.dv THEN 0 ELSE b.q * c.dv)) * Item
      + Vectors(b.q, c.residuals) + Vectors(b.q, c.segments)
      + Vectors(b.stages * b.kv, c.segments)
      + b.stages * b.q * b.kv * Flag(Stored(object.mask, b.q)))
PingPongLaunch(c, b, blocks) ==
  Launch("pingpong", b, blocks, 0,
    2 * b.kv + 2 * c.d,
    (256 * c.d + 2 * b.stages * b.kv * c.d) * Item
      + Vectors(256, c.residuals) + Vectors(256, c.segments)
      + Vectors(b.stages * b.kv, c.segments) + Vectors(2 * 128, object.env.correction)
      + b.stages * 256 * b.kv * Flag(Stored(object.mask, 256)))
Backward(kernel, bc, tmem, smem) ==
  Launch(kernel, [q |-> 128, kv |-> 128, stages |-> object.sizes.bwdStages],
         <<128, 128>>, bc, tmem, smem)
StoredMasks(bc) ==
  object.sizes.bwdStages * 128 * bc * Flag(Stored(object.mask, 128))
DqLaunch(c, bc) ==
  LET stages == object.sizes.bwdStages IN
  Backward("dq", bc, bc + bc + bc \div 2 + c.d,
    (128 * c.d + 128 * c.dv + stages * bc * c.d + stages * bc * c.dv) * Item
      + Vectors(128, TRUE) + Vectors(128, TRUE) + Vectors(128, c.segments)
      + Vectors(stages * bc, c.segments) + StoredMasks(bc))
DkvLaunch(c, bc) ==
  LET stages == object.sizes.bwdStages IN
  Backward("dkv", bc, NumBuffers(c, bc) * bc + NumBuffers(c, bc) * bc + c.d + c.dv,
    (128 * c.d + 128 * c.dv + stages * bc * c.d + stages * bc * c.dv) * Item
      + 2 * Vectors(stages * bc, TRUE) + Vectors(128, c.segments)
      + Vectors(stages * bc, c.segments) + StoredMasks(bc))
FusedLaunch(c, bc) ==
  LET stages == object.sizes.bwdStages IN
  Backward("fused", bc, bc + bc + c.d + c.dv + (IF c.d = 128 THEN bc ELSE c.d),
    (128 * c.d + 128 * c.dv + stages * bc * c.d + stages * bc * c.dv
       + (IF object.env.early THEN 2 ELSE 1) * 128 * bc) * Item
      + 2 * Vectors(stages * bc, TRUE) + Vectors(128, c.segments)
      + Vectors(stages * bc, c.segments) + StoredMasks(bc) + c.d * bc * 4)
-----------------------------------------------------------------------------
\* The key of _variants.
Key_tileless(b) == <<b.q, b.stages>>
Key(b) == <<b.q, b.kv, b.stages>>

Start == variants = [k \in {} |-> 0] /\ call = Idle /\ launches = {} /\ outcome = "done"
Init == object \in [sizes : BlockSizes, mask : MaskTypes, env : Environments] /\ Start

\* __call__ chooses the tiles; _variant builds their schedule, or finds it.
Call(c) ==
  /\ outcome # "running"
  /\ LET b == Resolved(c) IN
     variants' = IF Key(b) \in DOMAIN variants THEN variants
                 ELSE [k \in DOMAIN variants \cup {Key(b)} |->
                         IF k = Key(b) THEN [tiles |-> b, blocks |-> <<b.q, b.kv>>]
                         ELSE variants[k]]
  /\ call' = c /\ launches' = {} /\ outcome' = "running"
  /\ UNCHANGED object

Forward ==
  /\ outcome = "running" /\ launches = {}
  /\ LET v == variants[Key(Resolved(call))]
         launch == IF v.tiles.q = 256 THEN PingPongLaunch(call, v.tiles, v.blocks)
                   ELSE ForwardLaunch(call, v.tiles, v.blocks)
     IN \/ /\ Accepts(call, v.tiles)
           /\ launches' = {launch}
           /\ outcome' = IF call.grad THEN "running" ELSE "done"
        \/ ~Accepts(call, v.tiles) /\ outcome' = "rejected" /\ UNCHANGED launches
  /\ UNCHANGED <<object, variants, call>>

FusedBackward ==
  /\ outcome = "running" /\ launches # {} /\ UseFused(call)
  /\ LET bc == FusedBlock(call) IN
     IF InBudget(FusedTmem(call, bc), FusedSmem(call, bc))
     THEN launches' = launches \cup {FusedLaunch(call, bc)} /\ outcome' = "done"
     ELSE outcome' = "rejected" /\ UNCHANGED launches
  /\ UNCHANGED <<object, variants, call>>

\* dQ, then dK and dV.
SplitBackward ==
  /\ outcome = "running" /\ launches # {} /\ ~UseFused(call)
  /\ LET dq == DqBlock(call)
         dkv == DkvBlock(call)
         dqFits == InBudget(DqTmem(call, dq), DqSmem(call, dq))
         dkvFits == InBudget(DkvTmem(call, dkv), DkvSmem(call, dkv))
     IN /\ launches' = launches \cup (IF dqFits THEN {DqLaunch(call, dq)} ELSE {})
                          \cup (IF dqFits /\ dkvFits THEN {DkvLaunch(call, dkv)} ELSE {})
        /\ outcome' = IF dqFits /\ dkvFits THEN "done" ELSE "rejected"
  /\ UNCHANGED <<object, variants, call>>

Next == (\E c \in Calls : Call(c)) \/ Forward \/ FusedBackward \/ SplitBackward
Spec == Init /\ [][Next]_vars
-----------------------------------------------------------------------------
\* Every variable has its type.
TypeOK ==
  /\ object.sizes \in BlockSizes /\ object.mask \in MaskTypes
  /\ object.env \in Environments
  /\ call = Idle \/ call \in Calls
  /\ \A k \in DOMAIN variants :
       variants[k] \in [tiles : [q : {128, 256}, kv : {64, 128}, stages : Nat \ {0, 1}],
                        blocks : {128, 256} \X {64, 128}]
  /\ outcome \in {"running", "done", "rejected"}

\* What a kernel allocates fits in TMEM and shared memory: the budget checks,
\* which are formulas of their own, do not fall short of the scratch types.
AllocationFits ==
  \A l \in launches : l.tmem <= TmemCols /\ l.smem <= SmemBytes

\* After any sequence of calls, a forward kernel works on the tiles chosen for
\* this call and walks a schedule with blocks of that size.
WalksItsTiles ==
  \A l \in launches : l.kernel \in {"forward", "pingpong"} =>
    l.tiles = Resolved(call) /\ l.blocks = <<l.tiles.q, l.tiles.kv>>

\* The automatic choice of block_q costs no call: one that is rejected would
\* have been rejected with 128 rows as well.
AutoNeverWorse ==
  outcome = "rejected" /\ launches = {} /\ object.sizes.q = 0
    => ~Accepts(call, Tiles(call.d, 128))

\* "Backward: up to 128" (README, Features): with the default sizes, a forward
\* pass with head dims up to 128 that is accepted has its gradient.
GradientsAvailable ==
  /\ object.sizes.dq = 0 /\ object.sizes.dkv = 0 /\ object.sizes.bwdStages = 2
  /\ call # Idle /\ launches # {}
  => (call.d <= 128 /\ call.dv <= 128 => outcome # "rejected")

\* The elementwise warpgroups split the columns of a sub-block, and each has a
\* multiple of 16 of them.  More warpgroups than columns pass the test of the
\* loop with no column each: the property is about up to one per column.
WarpgroupsSplit ==
  \A l \in launches :
    l.bc # 0 /\ object.env.wgs <= l.bc =>
      l.bc % l.ne = 0 /\ (l.bc \div l.ne) % 16 = 0
-----------------------------------------------------------------------------
\* "The leading dimension of the schedule arrays is either 1 (all heads share
\* one mask) or num_heads" (mask_info.py): a kernel indexes it with the q head.
MaskHeadsInRange ==
  \A l \in launches : \A h \in 0 .. call.heads - 1 :
    (IF object.mask.heads > 1 THEN h ELSE 0) < object.mask.heads
=============================================================================
