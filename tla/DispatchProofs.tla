--------------------------- MODULE DispatchProofs ---------------------------
(***************************************************************************)
(* Theorems about Dispatch.tla, for all head dims, ring depths, masks,     *)
(* requested sizes and environments.                                       *)
(***************************************************************************)
EXTENDS Dispatch, TLAPS

\* The inductive invariant: a cached schedule is the one its key stands for,
\* and the schedule of the running call is in the cache.
Cached ==
  \A k \in DOMAIN variants :
    LET t == variants[k].tiles IN
    k = Key(t) /\ variants[k].blocks = <<t.q, t.kv>>
Current ==
  /\ outcome = "running" \/ launches # {} => call \in Calls
  /\ outcome = "running" => Key(Resolved(call)) \in DOMAIN variants
Inv == TypeOK /\ Cached /\ Current /\ AllocationFits /\ WalksItsTiles

LEMMA SizesTyped ==
  ASSUME TypeOK
  PROVE  /\ object.sizes.q \in {0, 128, 256} /\ object.sizes.kv \in {0, 64, 128}
         /\ object.sizes.stages \in Nat \ {1} /\ object.sizes.bwdStages \in Nat
         /\ object.sizes.dq \in {0, 64, 128} /\ object.sizes.dkv \in {0, 64, 128}
<1> DEFINE s == object.sizes
<1>1. s \in [q : {0, 128, 256}, kv : Sizes, stages : Stages, dq : Sizes,
             dkv : Sizes, bwdStages : Stages] /\ StagesValid(s)
  BY DEF TypeOK, BlockSizes
<1>2. (s.stages # 0 => s.stages >= 2) /\ s.stages \in Stages /\ s.bwdStages \in Stages
  BY <1>1 DEF StagesValid
<1> HIDE DEF s
<1>3. s.stages \in Nat /\ s.bwdStages \in Nat
  BY <1>2, StagesAssumption
<1>4. s.stages # 1
  BY <1>2, <1>3
<1> QED
  BY <1>1, <1>3, <1>4 DEF Sizes, s

LEMMA CallTyped ==
  ASSUME NEW c \in Calls
  PROVE  /\ c.d \in Nat /\ c.dv \in Nat
         /\ Flag(c.segments) \in {0, 1} /\ Flag(c.residuals) \in {0, 1}
BY HeadDimsAssumption DEF Calls, Flag

LEMMA TilesTyped ==
  ASSUME TypeOK, NEW c
  PROVE  /\ Resolved(c).q \in {128, 256} /\ Resolved(c).kv \in {64, 128}
         /\ Resolved(c).stages \in Nat \ {0, 1}
         /\ Resolved(c) = [q |-> Resolved(c).q, kv |-> Resolved(c).kv,
                           stages |-> Resolved(c).stages]
<1>1. ASSUME NEW q \in {128, 256}
      PROVE  /\ Tiles(c.d, q).q = q /\ Tiles(c.d, q).kv \in {64, 128}
             /\ Tiles(c.d, q).stages \in Nat \ {0, 1}
             /\ Tiles(c.d, q) = [q |-> Tiles(c.d, q).q, kv |-> Tiles(c.d, q).kv,
                                 stages |-> Tiles(c.d, q).stages]
  <2> DEFINE auto == IF c.d <= 64 /\ q = 128 THEN <<64, 3>> ELSE <<128, 2>>
  <2>1. auto = <<64, 3>> \/ auto = <<128, 2>>
    OBVIOUS
  <2>2. Tiles(c.d, q) =
          [q |-> q, kv |-> IF object.sizes.kv # 0 THEN object.sizes.kv ELSE auto[1],
           stages |-> IF object.sizes.stages # 0 THEN object.sizes.stages ELSE auto[2]]
    BY DEF Tiles
  <2> HIDE DEF auto
  <2> QED
    BY <2>1, <2>2, SizesTyped
<1>2. ChooseBlockQ(c) \in {128, 256}
  BY SizesTyped DEF ChooseBlockQ
<1> QED
  BY <1>1, <1>2 DEF Resolved
-----------------------------------------------------------------------------
\* What a kernel allocates is within what its budget check counted.
LEMMA ForwardFits ==
  ASSUME NEW c \in Calls, NEW b, b.q \in Nat, b.kv \in Nat, b.stages \in Nat, NEW blocks,
         ForwardAccepts(c, b)
  PROVE  ForwardLaunch(c, b, blocks).tmem <= TmemCols /\ ForwardLaunch(c, b, blocks).smem <= SmemBytes
<1> DEFINE q == b.q  kv == b.kv  s == b.stages  d == c.d  dv == c.dv
           seg == Flag(c.segments)  res == Flag(c.residuals)
           own == IF d = dv THEN 0 ELSE q * dv
           masks == IF Stored(object.mask, q) THEN s * q * kv ELSE 0
<1>1. /\ q \in Nat /\ kv \in Nat /\ s \in Nat /\ d \in Nat /\ dv \in Nat
      /\ seg \in {0, 1} /\ res \in {0, 1}
  BY CallTyped
<1>2. ForwardLaunch(c, b, blocks).tmem = 2 * kv + kv \div 2 + dv
  BY DEF ForwardLaunch, Launch
<1>3. ForwardTmem(c, b) = dv + 2 * kv + kv \div 2
  BY DEF ForwardTmem
<1>4. s * q * kv * Flag(Stored(object.mask, q)) = masks
  BY <1>1 DEF Flag
<1>5. ForwardLaunch(c, b, blocks).smem =
        (q * d + s * kv * d + s * kv * dv + own) * 2
          + q * 4 * res + q * 4 * seg + s * kv * 4 * seg + masks
  BY <1>4 DEF ForwardLaunch, Launch, Vectors, Item
<1>6. ForwardSmem(c, b, Stored(object.mask, q)) =
        q * d * 2 + (IF d = dv THEN 0 ELSE q * dv * 2) + s * kv * (d + dv) * 2
          + masks + (q + s * kv) * 4 * seg + q * 4 * res
  BY DEF ForwardSmem, Item
<1>7. ForwardTmem(c, b) <= TmemCols /\ ForwardSmem(c, b, Stored(object.mask, q)) <= SmemBytes
  BY DEF ForwardAccepts
<1>8. masks \in Nat /\ kv \div 2 \in Nat
  BY <1>1
<1> HIDE DEF q, kv, s, d, dv, seg, res, masks
<1>9. own * 2 = IF d = dv THEN 0 ELSE q * dv * 2
  BY <1>1
<1>10. own \in Nat
  BY <1>1
<1> HIDE DEF own
<1>11. (q * d + s * kv * d + s * kv * dv + own) * 2
         = q * d * 2 + own * 2 + s * kv * (d + dv) * 2
  BY <1>1, <1>10
<1>12. (q + s * kv) * 4 * seg = q * 4 * seg + s * kv * 4 * seg
  BY <1>1
<1>13. ForwardLaunch(c, b, blocks).smem = ForwardSmem(c, b, Stored(object.mask, b.q))
  BY <1>1, <1>5, <1>6, <1>8, <1>9, <1>10, <1>11, <1>12 DEF q
<1> QED
  BY <1>1, <1>2, <1>3, <1>7, <1>8, <1>13 DEF q

LEMMA PingPongFits ==
  ASSUME NEW c \in Calls, NEW b, b.kv \in Nat, b.stages \in Nat, NEW blocks,
         PingPongAccepts(c, b)
  PROVE  /\ PingPongLaunch(c, b, blocks).tmem <= TmemCols
         /\ PingPongLaunch(c, b, blocks).smem <= SmemBytes
<1> DEFINE kv == b.kv  s == b.stages  d == c.d
           seg == Flag(c.segments)  res == Flag(c.residuals)
           masks == IF Stored(object.mask, 256) THEN s * 256 * kv ELSE 0
           factors == 2 * 128 * 4 * Flag(object.env.correction)
<1>1. /\ kv \in Nat /\ s \in Nat /\ d \in Nat /\ seg \in {0, 1} /\ res \in {0, 1}
      /\ factors \in Nat /\ factors <= 2 * 128 * 4
  BY CallTyped DEF Flag
<1>2. PingPongLaunch(c, b, blocks).tmem = 2 * kv + 2 * d
  BY DEF PingPongLaunch, Launch
<1>3. PingPongTmem(c, b) = 2 * (kv + d)
  BY DEF PingPongTmem
<1>4. s * 256 * kv * Flag(Stored(object.mask, 256)) = masks
  BY <1>1 DEF Flag
<1>5. PingPongLaunch(c, b, blocks).smem =
        (256 * d + 2 * s * kv * d) * 2
          + 256 * 4 * res + 256 * 4 * seg + s * kv * 4 * seg + factors + masks
  BY <1>4 DEF PingPongLaunch, Launch, Vectors, Item
<1>6. PingPongSmem(c, b, Stored(object.mask, 256), c.residuals) =
        256 * d * 2 + s * kv * 2 * d * 2 + masks + (256 + s * kv) * 4 * seg
          + 256 * 4 * res + 2 * 128 * 4
  BY DEF PingPongSmem, Item
<1>7. /\ PingPongTmem(c, b) <= TmemCols
      /\ PingPongSmem(c, b, Stored(object.mask, 256), c.residuals) <= SmemBytes
  BY DEF PingPongAccepts
<1>8. masks \in Nat
  BY <1>1
<1> HIDE DEF kv, s, d, seg, res, masks, factors
<1>9. (256 * d + 2 * s * kv * d) * 2 = 256 * d * 2 + s * kv * 2 * d * 2
  BY <1>1
<1>10. (256 + s * kv) * 4 * seg = 256 * 4 * seg + s * kv * 4 * seg
  BY <1>1
<1>11. /\ 256 * d * 2 + s * kv * 2 * d * 2 \in Nat
       /\ s * kv * 4 * seg \in Nat /\ 256 * 4 * seg \in Nat /\ 256 * 4 * res \in Nat
  BY <1>1
<1>12. /\ PingPongLaunch(c, b, blocks).smem
            <= PingPongSmem(c, b, Stored(object.mask, 256), c.residuals)
       /\ PingPongLaunch(c, b, blocks).smem \in Nat
       /\ PingPongSmem(c, b, Stored(object.mask, 256), c.residuals) \in Nat
  BY <1>1, <1>5, <1>6, <1>8, <1>9, <1>10, <1>11
<1> QED
  BY <1>1, <1>2, <1>3, <1>7, <1>12 DEF SmemBytes

\* The vectors and mask blocks that every backward kernel allocates, as its
\* budget counts them.
CommonBytes(c, bc) ==
  LET s == object.sizes.bwdStages IN
  /\ StoredMasks(bc) = (IF Stored(object.mask, 128) THEN s * 128 * bc ELSE 0)
  /\ StoredMasks(bc) \in Nat
  /\ (128 + s * bc) * 4 * Flag(c.segments)
       = Vectors(128, c.segments) + Vectors(s * bc, c.segments)
  /\ Vectors(128, c.segments) \in Nat /\ Vectors(s * bc, c.segments) \in Nat
  /\ Vectors(s * bc, TRUE) = s * bc * 4 /\ Vectors(128, TRUE) = 128 * 4
LEMMA Common ==
  ASSUME TypeOK, NEW c \in Calls, NEW bc \in {64, 128}
  PROVE  CommonBytes(c, bc)
<1> DEFINE s == object.sizes.bwdStages  seg == Flag(c.segments)
<1>1. s \in Nat /\ seg \in {0, 1}
  BY SizesTyped, CallTyped
<1>2. StoredMasks(bc) = s * 128 * bc * Flag(Stored(object.mask, 128))
  BY DEF StoredMasks
<1>3. /\ Vectors(128, c.segments) = 128 * 4 * seg
      /\ Vectors(s * bc, c.segments) = s * bc * 4 * seg
  BY DEF Vectors
<1>4. Vectors(s * bc, TRUE) = s * bc * 4 /\ Vectors(128, TRUE) = 128 * 4
  BY <1>1 DEF Vectors, Flag
<1> HIDE DEF s, seg
<1>5. StoredMasks(bc) = (IF Stored(object.mask, 128) THEN s * 128 * bc ELSE 0)
  BY <1>1, <1>2 DEF Flag
<1>6. (128 + s * bc) * 4 * seg = 128 * 4 * seg + s * bc * 4 * seg
  BY <1>1
<1>7. 128 * 4 * seg \in Nat /\ s * bc * 4 * seg \in Nat /\ s * 128 * bc \in Nat
  BY <1>1
<1>8. Vectors(128, c.segments) \in Nat /\ Vectors(s * bc, c.segments) \in Nat
  BY <1>3, <1>7
<1>9. StoredMasks(bc) \in Nat
  BY <1>5, <1>7
<1> QED
  BY <1>3, <1>4, <1>5, <1>6, <1>8, <1>9 DEF s, seg, CommonBytes

LEMMA DqFits ==
  ASSUME TypeOK, NEW c \in Calls, NEW bc \in {64, 128}, InBudget(DqTmem(c, bc), DqSmem(c, bc))
  PROVE  DqLaunch(c, bc).tmem <= TmemCols /\ DqLaunch(c, bc).smem <= SmemBytes
<1> DEFINE s == object.sizes.bwdStages  d == c.d  dv == c.dv
           masks == StoredMasks(bc)
           v1 == Vectors(128, c.segments)  v2 == Vectors(s * bc, c.segments)
<1>c. CommonBytes(c, bc)
  BY Common
<1>0. /\ masks = (IF Stored(object.mask, 128) THEN s * 128 * bc ELSE 0) /\ masks \in Nat
      /\ (128 + s * bc) * 4 * Flag(c.segments) = v1 + v2 /\ v1 \in Nat /\ v2 \in Nat
      /\ Vectors(s * bc, TRUE) = s * bc * 4 /\ Vectors(128, TRUE) = 128 * 4
  BY <1>c DEF CommonBytes
<1>1. s \in Nat /\ d \in Nat /\ dv \in Nat /\ masks \in Nat /\ v1 \in Nat /\ v2 \in Nat
  BY <1>0, SizesTyped, CallTyped
<1>2. DqLaunch(c, bc).tmem = bc + bc + bc \div 2 + d
  BY DEF DqLaunch, Backward, Launch
<1>3. DqLaunch(c, bc).smem =
        (128 * d + 128 * dv + s * bc * d + s * bc * dv) * 2
          + 128 * 4 + 128 * 4 + v1 + v2 + masks
  BY <1>0 DEF DqLaunch, Backward, Launch, Item
<1>4. DqTmem(c, bc) = 2 * bc + bc \div 2 + d
  BY DEF DqTmem
<1>5. DqSmem(c, bc) =
        128 * (d + dv) * 2 + s * bc * (d + dv) * 2 + 2 * 128 * 4 + masks + (v1 + v2)
  BY <1>0 DEF DqSmem, Item
<1>6. DqTmem(c, bc) <= TmemCols /\ DqSmem(c, bc) <= SmemBytes
  BY DEF InBudget
<1> HIDE DEF s, d, dv, masks, v1, v2
<1>7. /\ 128 * (d + dv) * 2 + s * bc * (d + dv) * 2
           = (128 * d + 128 * dv + s * bc * d + s * bc * dv) * 2
      /\ 128 * (d + dv) * 2 + s * bc * (d + dv) * 2 \in Nat
  BY <1>1
<1>8. DqLaunch(c, bc).smem = DqSmem(c, bc)
  BY <1>1, <1>3, <1>5, <1>7
<1> QED
  BY <1>1, <1>2, <1>4, <1>6, <1>8

LEMMA DkvFits ==
  ASSUME TypeOK, NEW c \in Calls, NEW bc \in {64, 128}, InBudget(DkvTmem(c, bc), DkvSmem(c, bc))
  PROVE  DkvLaunch(c, bc).tmem <= TmemCols /\ DkvLaunch(c, bc).smem <= SmemBytes
<1> DEFINE s == object.sizes.bwdStages  d == c.d  dv == c.dv  nbuf == NumBuffers(c, bc)
           masks == StoredMasks(bc)
           v1 == Vectors(128, c.segments)  v2 == Vectors(s * bc, c.segments)
<1>c. CommonBytes(c, bc)
  BY Common
<1>0. /\ masks = (IF Stored(object.mask, 128) THEN s * 128 * bc ELSE 0) /\ masks \in Nat
      /\ (128 + s * bc) * 4 * Flag(c.segments) = v1 + v2 /\ v1 \in Nat /\ v2 \in Nat
      /\ Vectors(s * bc, TRUE) = s * bc * 4 /\ Vectors(128, TRUE) = 128 * 4
  BY <1>c DEF CommonBytes
<1>1. /\ s \in Nat /\ d \in Nat /\ dv \in Nat /\ masks \in Nat /\ v1 \in Nat /\ v2 \in Nat
      /\ nbuf \in {1, 2}
  BY <1>0, SizesTyped, CallTyped DEF NumBuffers
<1>2. DkvLaunch(c, bc).tmem = nbuf * bc + nbuf * bc + d + dv
  BY DEF DkvLaunch, Backward, Launch
<1>3. DkvLaunch(c, bc).smem =
        (128 * d + 128 * dv + s * bc * d + s * bc * dv) * 2
          + 2 * (s * bc * 4) + v1 + v2 + masks
  BY <1>0 DEF DkvLaunch, Backward, Launch, Item
<1>4. DkvTmem(c, bc) = 2 * nbuf * bc + d + dv
  BY DEF DkvTmem
<1>5. DkvSmem(c, bc) =
        128 * (d + dv) * 2 + s * bc * ((d + dv) * 2 + 8) + masks + (v1 + v2)
  BY <1>0 DEF DkvSmem, Item
<1>6. DkvTmem(c, bc) <= TmemCols /\ DkvSmem(c, bc) <= SmemBytes
  BY DEF InBudget
<1> HIDE DEF s, d, dv, masks, v1, v2, nbuf
<1>7. /\ 128 * (d + dv) * 2 + s * bc * ((d + dv) * 2 + 8)
           = (128 * d + 128 * dv + s * bc * d + s * bc * dv) * 2 + 2 * (s * bc * 4)
      /\ 128 * (d + dv) * 2 + s * bc * ((d + dv) * 2 + 8) \in Nat
      /\ (128 * d + 128 * dv + s * bc * d + s * bc * dv) * 2 \in Nat
      /\ 2 * (s * bc * 4) \in Nat
  BY <1>1
<1>8. DkvLaunch(c, bc).smem = DkvSmem(c, bc)
  BY <1>1, <1>3, <1>5, <1>7
<1> QED
  BY <1>1, <1>2, <1>4, <1>6, <1>8

LEMMA FusedFits ==
  ASSUME TypeOK, NEW c \in Calls, c.d = c.dv, NEW bc \in {64, 128},
         InBudget(FusedTmem(c, bc), FusedSmem(c, bc))
  PROVE  FusedLaunch(c, bc).tmem <= TmemCols /\ FusedLaunch(c, bc).smem <= SmemBytes
<1> DEFINE s == object.sizes.bwdStages  d == c.d
           masks == StoredMasks(bc)
           v1 == Vectors(128, c.segments)  v2 == Vectors(s * bc, c.segments)
           copies == IF object.env.early THEN 2 ELSE 1
           extra == IF d = 128 THEN bc ELSE d
<1>c. CommonBytes(c, bc)
  BY Common
<1>0. /\ masks = (IF Stored(object.mask, 128) THEN s * 128 * bc ELSE 0) /\ masks \in Nat
      /\ (128 + s * bc) * 4 * Flag(c.segments) = v1 + v2 /\ v1 \in Nat /\ v2 \in Nat
      /\ Vectors(s * bc, TRUE) = s * bc * 4 /\ Vectors(128, TRUE) = 128 * 4
  BY <1>c DEF CommonBytes
<1>1. /\ s \in Nat /\ d \in Nat /\ masks \in Nat /\ v1 \in Nat /\ v2 \in Nat
      /\ copies \in {1, 2} /\ extra \in Nat
  BY <1>0, SizesTyped, CallTyped
<1>2. FusedLaunch(c, bc).tmem = bc + bc + d + d + extra
  BY DEF FusedLaunch, Backward, Launch
<1>3. FusedLaunch(c, bc).smem =
        (128 * d + 128 * d + s * bc * d + s * bc * d + copies * 128 * bc) * 2
          + 2 * (s * bc * 4) + v1 + v2 + masks + d * bc * 4
  BY <1>0 DEF FusedLaunch, Backward, Launch, Item
<1>4. FusedTmem(c, bc) = 2 * bc + d + d + extra
  BY DEF FusedTmem
<1>5. FusedSmem(c, bc) =
        128 * 2 * d * 2 + s * bc * (2 * d * 2 + 8) + masks + (v1 + v2)
          + 2 * 128 * bc * 2 + d * bc * 4
  BY <1>0 DEF FusedSmem, Item
<1>6. FusedTmem(c, bc) <= TmemCols /\ FusedSmem(c, bc) <= SmemBytes
  BY DEF InBudget
<1> HIDE DEF s, d, masks, v1, v2, copies, extra
<1>7. /\ 128 * 2 * d * 2 + s * bc * (2 * d * 2 + 8)
           = (128 * d + 128 * d + s * bc * d + s * bc * d) * 2 + 2 * (s * bc * 4)
      /\ (128 * d + 128 * d + s * bc * d + s * bc * d + copies * 128 * bc) * 2
           = (128 * d + 128 * d + s * bc * d + s * bc * d) * 2 + copies * 128 * bc * 2
      /\ (128 * d + 128 * d + s * bc * d + s * bc * d) * 2 \in Nat
      /\ 2 * (s * bc * 4) \in Nat /\ d * bc * 4 \in Nat
      /\ copies * 128 * bc * 2 \in Nat /\ copies * 128 * bc * 2 <= 2 * 128 * bc * 2
  BY <1>1
<1>8. /\ FusedLaunch(c, bc).smem <= FusedSmem(c, bc)
      /\ FusedLaunch(c, bc).smem \in Nat /\ FusedSmem(c, bc) \in Nat
  BY <1>1, <1>3, <1>5, <1>7
<1> QED
  BY <1>1, <1>2, <1>4, <1>6, <1>8 DEF SmemBytes
-----------------------------------------------------------------------------
THEOREM InitInv == Init => Inv
BY DEF Init, Start, Inv, TypeOK, Cached, Current, AllocationFits, WalksItsTiles

\* What a call resolves to depends on the object only.
LEMMA ResolvedFixed ==
  ASSUME NEW c \in Calls, object' = object
  PROVE  Resolved(c)' = Resolved(c)
BY DEF Resolved, Tiles, ChooseBlockQ, Fits, Stored

\* A call leaves the cached schedules as they are, and its own is there.
LEMMA CallInv ==
  ASSUME Inv, NEW c \in Calls, Call(c)
  PROVE  Inv'
<1> DEFINE b == Resolved(c)
<1>1. /\ b.q \in {128, 256} /\ b.kv \in {64, 128} /\ b.stages \in Nat \ {0, 1}
      /\ b = [q |-> b.q, kv |-> b.kv, stages |-> b.stages]
  BY TilesTyped DEF Inv
<1>2. /\ call' = c /\ launches' = {} /\ outcome' = "running" /\ object' = object
      /\ variants' = IF Key(b) \in DOMAIN variants THEN variants
                     ELSE [k \in DOMAIN variants \cup {Key(b)} |->
                             IF k = Key(b) THEN [tiles |-> b, blocks |-> <<b.q, b.kv>>]
                             ELSE variants[k]]
  BY DEF Call
<1>3. Resolved(c)' = b
  BY <1>2, ResolvedFixed
<1> HIDE DEF b
<1>4. /\ Key(b) \in DOMAIN variants'
      /\ \A k \in DOMAIN variants' :
           \/ k \in DOMAIN variants /\ variants'[k] = variants[k]
           \/ k = Key(b) /\ variants'[k] = [tiles |-> b, blocks |-> <<b.q, b.kv>>]
  BY <1>2
<1>5. /\ b \in [q : {128, 256}, kv : {64, 128}, stages : Nat \ {0, 1}]
      /\ <<b.q, b.kv>> \in {128, 256} \X {64, 128}
  BY <1>1
<1>6. \A k \in DOMAIN variants' :
        variants'[k] \in [tiles : [q : {128, 256}, kv : {64, 128}, stages : Nat \ {0, 1}],
                          blocks : {128, 256} \X {64, 128}]
  BY <1>4, <1>5 DEF Inv, TypeOK
<1>7. TypeOK'
  BY <1>2, <1>6 DEF Inv, TypeOK
<1>8. Cached'
  BY <1>4 DEF Inv, Cached, Key
<1>9. Current'
  BY <1>2, <1>3, <1>4 DEF Current, Key, b
<1>10. AllocationFits' /\ WalksItsTiles'
  BY <1>2 DEF AllocationFits, WalksItsTiles
<1> QED
  BY <1>7, <1>8, <1>9, <1>10 DEF Inv

\* A step that launches kernels or rejects: what is left to show for one.
LEMMA LaunchInv ==
  ASSUME Inv, UNCHANGED <<object, variants, call>>, outcome = "running",
         outcome' \in {"running", "done", "rejected"},
         \A l \in launches' : \/ l \in launches
                              \/ /\ l.tmem <= TmemCols /\ l.smem <= SmemBytes
                                 /\ l.kernel \in {"forward", "pingpong"} =>
                                      /\ l.tiles = Resolved(call)
                                      /\ l.blocks = <<l.tiles.q, l.tiles.kv>>
  PROVE  Inv'
<1>1. Resolved(call)' = Resolved(call)
  BY DEF Resolved, Tiles, ChooseBlockQ, Fits, Stored
<1>2. TypeOK'
  BY DEF Inv, TypeOK
<1>3. Cached' /\ Current'
  BY <1>1 DEF Inv, Cached, Current, Key
<1>4. AllocationFits' /\ WalksItsTiles'
  BY <1>1 DEF Inv, AllocationFits, WalksItsTiles
<1> QED
  BY <1>2, <1>3, <1>4 DEF Inv

LEMMA ForwardInv ==
  ASSUME Inv, Forward
  PROVE  Inv'
<1> DEFINE b == Resolved(call)
           v == variants[Key(b)]
           launch == IF v.tiles.q = 256 THEN PingPongLaunch(call, v.tiles, v.blocks)
                     ELSE ForwardLaunch(call, v.tiles, v.blocks)
<1>1. call \in Calls /\ Key(b) \in DOMAIN variants
  BY DEF Inv, Current, Forward
<1>2. /\ b.q \in {128, 256} /\ b.kv \in {64, 128} /\ b.stages \in Nat \ {0, 1}
      /\ b = [q |-> b.q, kv |-> b.kv, stages |-> b.stages]
  BY TilesTyped DEF Inv
<1>3. /\ v.tiles \in [q : {128, 256}, kv : {64, 128}, stages : Nat \ {0, 1}]
      /\ Key(b) = Key(v.tiles) /\ v.blocks = <<v.tiles.q, v.tiles.kv>>
  BY <1>1 DEF Inv, TypeOK, Cached
<1>4. v.tiles = b
  BY <1>2, <1>3 DEF Key
<1>5. CASE Accepts(call, v.tiles) /\ launches' = {launch}
  <2>1. launch.tmem <= TmemCols /\ launch.smem <= SmemBytes
    BY <1>1, <1>3, <1>5, ForwardFits, PingPongFits DEF Accepts
  <2>2. launch.tiles = b /\ launch.blocks = <<b.q, b.kv>>
    BY <1>3, <1>4 DEF ForwardLaunch, PingPongLaunch, Launch
  <2> HIDE DEF launch, b
  <2>3. \A l \in launches' :
          /\ l.tmem <= TmemCols /\ l.smem <= SmemBytes
          /\ l.tiles = Resolved(call) /\ l.blocks = <<l.tiles.q, l.tiles.kv>>
    BY <1>5, <2>1, <2>2 DEF b
  <2> QED
    BY <2>3, LaunchInv DEF Forward
<1>6. CASE ~Accepts(call, v.tiles)
  BY <1>6, LaunchInv DEF Forward
<1> QED
  BY <1>5, <1>6 DEF Forward

LEMMA FusedInv ==
  ASSUME Inv, FusedBackward
  PROVE  Inv'
<1> DEFINE bc == FusedBlock(call)
<1>1. call \in Calls /\ bc \in {64, 128} /\ call.d = call.dv
  BY DEF Inv, Current, FusedBackward, FusedBlock, UseFused
<1>2. CASE InBudget(FusedTmem(call, bc), FusedSmem(call, bc))
  <2>1. /\ FusedLaunch(call, bc).tmem <= TmemCols /\ FusedLaunch(call, bc).smem <= SmemBytes
    BY <1>1, <1>2, FusedFits DEF Inv
  <2>2. FusedLaunch(call, bc).kernel = "fused"
    BY DEF FusedLaunch, Backward, Launch
  <2> QED
    BY <1>2, <2>1, <2>2, LaunchInv DEF FusedBackward
<1>3. CASE ~InBudget(FusedTmem(call, bc), FusedSmem(call, bc))
  BY <1>3, LaunchInv DEF FusedBackward
<1> QED
  BY <1>2, <1>3

LEMMA SplitInv ==
  ASSUME Inv, SplitBackward
  PROVE  Inv'
<1> DEFINE dq == DqBlock(call)  dkv == DkvBlock(call)
           dqFits == InBudget(DqTmem(call, dq), DqSmem(call, dq))
           dkvFits == InBudget(DkvTmem(call, dkv), DkvSmem(call, dkv))
<1>1. call \in Calls /\ dq \in {64, 128} /\ dkv \in {64, 128}
  BY SizesTyped DEF Inv, Current, SplitBackward, DqBlock, DkvBlock, SubBlock
<1>2. /\ DqLaunch(call, dq).kernel = "dq" /\ DkvLaunch(call, dkv).kernel = "dkv"
      /\ dqFits => DqLaunch(call, dq).tmem <= TmemCols /\ DqLaunch(call, dq).smem <= SmemBytes
      /\ dkvFits => DkvLaunch(call, dkv).tmem <= TmemCols /\ DkvLaunch(call, dkv).smem <= SmemBytes
  <2>1. DqLaunch(call, dq).kernel = "dq" /\ DkvLaunch(call, dkv).kernel = "dkv"
    BY DEF DqLaunch, DkvLaunch, Backward, Launch
  <2> QED
    BY <1>1, <2>1, DqFits, DkvFits DEF Inv
<1>3. /\ launches' = launches \cup (IF dqFits THEN {DqLaunch(call, dq)} ELSE {})
                       \cup (IF dqFits /\ dkvFits THEN {DkvLaunch(call, dkv)} ELSE {})
      /\ outcome' = IF dqFits /\ dkvFits THEN "done" ELSE "rejected"
      /\ UNCHANGED <<object, variants, call>> /\ outcome = "running"
  BY DEF SplitBackward
<1> HIDE DEF dq, dkv, dqFits, dkvFits
<1> QED
  BY <1>2, <1>3, LaunchInv

LEMMA NextInv ==
  ASSUME Inv, [Next]_vars
  PROVE  Inv'
<1>1. CASE UNCHANGED vars
  <2> USE <1>1 DEF vars
  <2>1. Resolved(call)' = Resolved(call)
    BY DEF Resolved, Tiles, ChooseBlockQ, Fits, Stored
  <2> QED
    BY <2>1 DEF Inv, TypeOK, Cached, Current, Key, AllocationFits, WalksItsTiles
<1> QED
  BY <1>1, CallInv, ForwardInv, FusedInv, SplitInv DEF Next

-----------------------------------------------------------------------------
LEMMA TilesFor ==
  ASSUME TypeOK, NEW c \in Calls
  PROVE  \A q \in {128, 256} :
           /\ Tiles(c.d, q).q = q /\ Tiles(c.d, q).kv \in {64, 128}
           /\ Tiles(c.d, q).stages \in Nat \ {0, 1}
<1> TAKE q \in {128, 256}
<1> DEFINE auto == IF c.d <= 64 /\ q = 128 THEN <<64, 3>> ELSE <<128, 2>>
<1>1. auto = <<64, 3>> \/ auto = <<128, 2>>
  OBVIOUS
<1>2. Tiles(c.d, q) =
        [q |-> q, kv |-> IF object.sizes.kv # 0 THEN object.sizes.kv ELSE auto[1],
         stages |-> IF object.sizes.stages # 0 THEN object.sizes.stages ELSE auto[2]]
  BY DEF Tiles
<1> HIDE DEF auto
<1> QED
  BY <1>1, <1>2, SizesTyped

\* Whether the residuals are counted or not, an accepted size stays accepted.
LEMMA ResidualsCost ==
  ASSUME NEW c \in Calls, NEW b, NEW stored, b.stages \in Nat, b.kv \in Nat,
         PingPongSmem(c, b, stored, TRUE) <= SmemBytes
  PROVE  PingPongSmem(c, b, stored, c.residuals) <= SmemBytes
<1> DEFINE kv == b.kv  s == b.stages  d == c.d  seg == Flag(c.segments)
           masks == IF stored THEN s * 256 * kv ELSE 0
           rest == 256 * d * 2 + s * kv * 2 * d * 2 + masks + (256 + s * kv) * 4 * seg
<1>1. kv \in Nat /\ s \in Nat /\ d \in Nat /\ seg \in {0, 1}
  BY CallTyped
<1> DEFINE most == PingPongSmem(c, b, stored, TRUE)
           size == PingPongSmem(c, b, stored, c.residuals)
           res == Flag(c.residuals)
<1>2. most = rest + 256 * 4 * 1 + 2 * 128 * 4 /\ size = rest + 256 * 4 * res + 2 * 128 * 4
  BY DEF PingPongSmem, Item, Flag
<1>3. res \in {0, 1}
  BY DEF Flag
<1>4. masks \in Nat
  BY <1>1
<1> HIDE DEF kv, s, d, seg, masks
<1>5. rest \in Nat
  <2>1. s * kv \in Nat /\ 256 * d * 2 \in Nat /\ s * kv * 2 * d * 2 \in Nat
    BY <1>1
  <2>2. (256 + s * kv) * 4 * seg \in Nat
    BY <1>1, <2>1
  <2> QED
    BY <1>4, <2>1, <2>2
<1> HIDE DEF rest, res, most, size
<1>6. size <= most /\ size \in Nat /\ most \in Nat
  BY <1>2, <1>3, <1>5
<1>7. most <= SmemBytes
  BY DEF most
<1>8. size <= SmemBytes
  BY <1>6, <1>7 DEF SmemBytes
<1> QED
  BY <1>8 DEF size

LEMMA LittleAccepted ==
  ASSUME NEW c \in Calls, NEW b, b.q = 256, b.kv \in {64, 128}, b.stages \in Nat \ {0, 1},
         c.d = 128, c.d = c.dv, object.mask.extra = "little", Fits(c, b)
  PROVE  Accepts(c, b)
<1>1. PingPongTmem(c, b) <= TmemCols
  BY DEF PingPongTmem, TmemCols
<1>2. PingPongSmem(c, b, Stored(object.mask, 256), TRUE) <= SmemBytes
  BY Zenon DEF Fits
<1>3. b.stages \in Nat /\ b.kv \in Nat
  OBVIOUS
<1>4. PingPongSmem(c, b, Stored(object.mask, 256), c.residuals) <= SmemBytes
  BY <1>2, <1>3, ResidualsCost
<1> QED
  BY <1>1, <1>4 DEF Accepts, PingPongAccepts

\* Where the automatic choice takes 256 rows, the kernel accepts them.
LEMMA AutoAccepted ==
  ASSUME TypeOK, NEW c \in Calls, object.sizes.q = 0, ChooseBlockQ(c) = 256
  PROVE  Accepts(c, Resolved(c))
<1>1. /\ Tiles(c.d, 256).q = 256 /\ Tiles(c.d, 256).kv \in {64, 128}
      /\ Tiles(c.d, 256).stages \in Nat \ {0, 1}
  BY TilesFor
<1>2. /\ c.d = 128 /\ c.d = c.dv /\ object.mask.extra = "little"
      /\ Fits(c, Tiles(c.d, 256)) /\ Resolved(c) = Tiles(c.d, 256)
  BY DEF ChooseBlockQ, Resolved
<1> QED
  BY <1>1, <1>2, LittleAccepted

\* What the last two properties need beside Inv: a call that has launched its
\* forward kernel has passed the check of that kernel.
Forwarded == launches # {} => call.d % 64 = 0 /\ call.dv % 64 = 0

\* A kernel is the one its call resolves to, or the call is rejected.
LEMMA ForwardStep ==
  ASSUME Inv, Forward
  PROVE  /\ call \in Calls /\ UNCHANGED <<object, variants, call>>
         /\ \/ /\ Accepts(call, Resolved(call)) /\ outcome' # "rejected" /\ launches' # {}
            \/ /\ ~Accepts(call, Resolved(call)) /\ launches' = {}
<1> DEFINE b == Resolved(call)
           v == variants[Key(b)]
<1>1. call \in Calls /\ Key(b) \in DOMAIN variants
  BY DEF Inv, Current, Forward
<1>2. /\ b.q \in {128, 256} /\ b.kv \in {64, 128} /\ b.stages \in Nat \ {0, 1}
      /\ b = [q |-> b.q, kv |-> b.kv, stages |-> b.stages]
  BY TilesTyped DEF Inv
<1>3. /\ v.tiles \in [q : {128, 256}, kv : {64, 128}, stages : Nat \ {0, 1}]
      /\ Key(b) = Key(v.tiles)
  BY <1>1 DEF Inv, TypeOK, Cached
<1>4. v.tiles = b
  BY <1>2, <1>3 DEF Key
<1>5. \/ Accepts(call, v.tiles) /\ outcome' # "rejected" /\ launches' # {}
      \/ ~Accepts(call, v.tiles) /\ launches' = {}
  BY DEF Forward
<1>6. UNCHANGED <<object, variants, call>>
  BY DEF Forward
<1> QED
  BY <1>1, <1>4, <1>5, <1>6

LEMMA AutoStep ==
  ASSUME Inv, AutoNeverWorse, [Next]_vars
  PROVE  AutoNeverWorse'
<1>1. ASSUME object' = object, call' = call
      PROVE  Accepts(call, Tiles(call.d, 128))' = Accepts(call, Tiles(call.d, 128))
  BY <1>1 DEF Accepts, Tiles, ForwardAccepts, PingPongAccepts, Stored
<1>2. CASE UNCHANGED vars
  BY <1>1, <1>2 DEF vars, AutoNeverWorse
<1>3. ASSUME NEW c \in Calls, Call(c) PROVE AutoNeverWorse'
  BY <1>3 DEF Call, AutoNeverWorse
<1>4. CASE Forward
  <2>1. CASE Accepts(call, Resolved(call))
    BY <1>4, <2>1, ForwardStep DEF AutoNeverWorse
  <2>2. CASE ~Accepts(call, Resolved(call)) /\ object.sizes.q = 0
    <3>1. ChooseBlockQ(call) # 256
      BY <1>4, <2>2, ForwardStep, AutoAccepted DEF Inv
    <3>2. ChooseBlockQ(call) = 128
      BY <2>2, <3>1 DEF ChooseBlockQ
    <3>3. Resolved(call) = Tiles(call.d, 128)
      BY <3>2 DEF Resolved
    <3> QED
      BY <1>1, <1>4, <2>2, <3>3, ForwardStep DEF AutoNeverWorse
  <2>3. CASE object.sizes.q # 0
    BY <1>4, <2>3, ForwardStep DEF AutoNeverWorse
  <2> QED
    BY <2>1, <2>2, <2>3
<1>5. CASE FusedBackward
  BY <1>5 DEF FusedBackward, AutoNeverWorse
<1>6. CASE SplitBackward
  BY <1>6 DEF SplitBackward, AutoNeverWorse
<1> QED
  BY <1>2, <1>3, <1>4, <1>5, <1>6 DEF Next

LEMMA ForwardedStep ==
  ASSUME Inv, Forwarded, [Next]_vars
  PROVE  Forwarded'
<1>1. CASE UNCHANGED vars
  BY <1>1 DEF vars, Forwarded
<1>2. ASSUME NEW c \in Calls, Call(c) PROVE Forwarded'
  BY <1>2 DEF Call, Forwarded
<1>3. CASE Forward
  BY <1>3, ForwardStep DEF Forwarded, Accepts, ForwardAccepts, PingPongAccepts
<1>4. CASE FusedBackward \/ SplitBackward
  BY <1>4 DEF FusedBackward, SplitBackward, Forwarded
<1> QED
  BY <1>1, <1>2, <1>3, <1>4 DEF Next

\* With the default sizes, sub-blocks of 64 fit in every backward kernel.
LEMMA SmallDims ==
  ASSUME NEW d \in Nat \ {0}, d <= 128, d % 64 = 0
  PROVE  d \in {64, 128}
OBVIOUS

LEMMA FusedInBudget ==
  ASSUME NEW c \in Calls, UseFused(c)
  PROVE  InBudget(FusedTmem(c, FusedBlock(c)), FusedSmem(c, FusedBlock(c)))
<1>1. /\ c.d = c.dv /\ c.d \in {64, 128} /\ FusedSmem(c, FusedBlock(c)) <= SmemBytes
  BY DEF UseFused
<1>2. FusedTmem(c, FusedBlock(c)) <= TmemCols
  BY <1>1 DEF FusedTmem, FusedBlock, TmemCols
<1> QED
  BY <1>1, <1>2 DEF InBudget

LEMMA DqInBudget ==
  ASSUME TypeOK, NEW c \in Calls, c.d \in {64, 128}, c.dv \in {64, 128},
         object.sizes.dq = 0, object.sizes.bwdStages = 2
  PROVE  InBudget(DqTmem(c, DqBlock(c)), DqSmem(c, DqBlock(c)))
<1>1. Flag(c.segments) \in {0, 1}
  BY CallTyped
<1>2. DqTmem(c, 64) <= TmemCols
  BY DEF DqTmem, TmemCols
<1>3. DqSmem(c, 64) <= SmemBytes
  BY <1>1 DEF DqSmem, SmemBytes, Item
<1>4. \/ DqBlock(c) = 64
      \/ DqBlock(c) = 128 /\ InBudget(DqTmem(c, 128), DqSmem(c, 128))
  BY DEF DqBlock, SubBlock
<1> QED
  BY <1>2, <1>3, <1>4 DEF InBudget

LEMMA DkvInBudget ==
  ASSUME TypeOK, NEW c \in Calls, c.d \in {64, 128}, c.dv \in {64, 128},
         object.sizes.dkv = 0, object.sizes.bwdStages = 2
  PROVE  InBudget(DkvTmem(c, DkvBlock(c)), DkvSmem(c, DkvBlock(c)))
<1>1. Flag(c.segments) \in {0, 1}
  BY CallTyped
<1>2. DkvTmem(c, 64) <= TmemCols
  <2>1. NumBuffers(c, 64) \in {1, 2}
    BY DEF NumBuffers
  <2> QED
    BY <2>1 DEF DkvTmem, TmemCols
<1>3. DkvSmem(c, 64) <= SmemBytes
  BY <1>1 DEF DkvSmem, SmemBytes, Item
<1>4. \/ DkvBlock(c) = 64
      \/ DkvBlock(c) = 128 /\ InBudget(DkvTmem(c, 128), DkvSmem(c, 128))
  BY DEF DkvBlock, SubBlock
<1> QED
  BY <1>2, <1>3, <1>4 DEF InBudget

LEMMA GradientStep ==
  ASSUME Inv, Forwarded, GradientsAvailable, [Next]_vars
  PROVE  GradientsAvailable'
<1> DEFINE Default == object.sizes.dq = 0 /\ object.sizes.dkv = 0 /\ object.sizes.bwdStages = 2
           Small == call.d <= 128 /\ call.dv <= 128
<1>1. CASE UNCHANGED vars
  BY <1>1 DEF vars, GradientsAvailable
<1>2. ASSUME NEW c \in Calls, Call(c) PROVE GradientsAvailable'
  BY <1>2 DEF Call, GradientsAvailable
<1>3. CASE Forward
  BY <1>3, ForwardStep DEF GradientsAvailable
<1>4. ASSUME outcome = "running", launches # {}, Small
      PROVE  call \in Calls /\ call.d \in {64, 128} /\ call.dv \in {64, 128}
  <2>1. call \in Calls
    BY <1>4 DEF Inv, Current
  <2>2. call.d \in Nat \ {0} /\ call.dv \in Nat \ {0}
    BY <2>1, HeadDimsAssumption DEF Calls
  <2>3. call.d % 64 = 0 /\ call.dv % 64 = 0
    BY <1>4 DEF Forwarded
  <2> QED
    BY <1>4, <2>1, <2>2, <2>3, SmallDims
<1>5. CASE FusedBackward
  <2>1. call \in Calls
    BY <1>5 DEF FusedBackward, Inv, Current
  <2>2. outcome' = "done"
    BY <1>5, <2>1, FusedInBudget DEF FusedBackward
  <2> QED
    BY <2>2 DEF GradientsAvailable
<1>6. CASE SplitBackward
  <2>1. CASE ~(Default /\ Small)
    BY <1>6, <2>1 DEF SplitBackward, GradientsAvailable
  <2>2. CASE Default /\ Small
    <3>1. outcome = "running" /\ launches # {} /\ TypeOK
      BY <1>6 DEF SplitBackward, Inv
    <3>2. call \in Calls /\ call.d \in {64, 128} /\ call.dv \in {64, 128}
      BY <1>4, <2>2, <3>1
    <3>3. /\ InBudget(DqTmem(call, DqBlock(call)), DqSmem(call, DqBlock(call)))
          /\ InBudget(DkvTmem(call, DkvBlock(call)), DkvSmem(call, DkvBlock(call)))
      BY <2>2, <3>1, <3>2, DqInBudget, DkvInBudget
    <3>4. outcome' = "done"
      BY <1>6, <3>3 DEF SplitBackward
    <3> QED
      BY <3>4 DEF GradientsAvailable
  <2> QED
    BY <2>1, <2>2
<1> QED
  BY <1>1, <1>2, <1>3, <1>5, <1>6 DEF Next
-----------------------------------------------------------------------------
\* One step of the halving, with g for the rest of it.
Halve(bc, g) == [n \in Nat |-> IF n > 1 /\ ~Even(bc, n) THEN g[n \div 2] ELSE n]
\* n warpgroups split bc columns into parts of a multiple of 16.
Split(bc, n) == n \in Nat \ {0} /\ bc % n = 0 /\ (bc \div n) % 16 = 0

LEMMA HalfOf ==
  ASSUME NEW n \in Nat, NEW k \in Nat, n < 2 * k
  PROVE  n \div 2 \in Nat /\ n \div 2 < k
OBVIOUS

LEMMA Quotient ==
  ASSUME NEW m \in Nat, NEW n \in Nat \ {0}
  PROVE  /\ m \div n \in Nat /\ n * (m \div n) + (m % n) = m
         /\ m % n \in Nat /\ m % n < n
OBVIOUS

\* A quotient that is a multiple of 16 leaves no remainder.
LEMMA EvenSplits ==
  ASSUME NEW bc \in {64, 128}, NEW n \in 1 .. bc, Even(bc, n)
  PROVE  Split(bc, n)
<1> DEFINE q == bc \div n  r == bc % n
<1>1. q \in Nat /\ r \in Nat /\ r < n /\ n * q + r = bc
  BY Quotient
<1>2. q % 16 = 0
  BY DEF Even
<1> HIDE DEF q, r
<1>3. q <= bc
  BY <1>1
<1>4. q # 0
  BY <1>1
<1>5. q \in {16, 32, 48, 64, 80, 96, 112, 128}
  BY <1>1, <1>2, <1>3, <1>4
<1>6. r = 0
  BY <1>1, <1>5
<1> QED
  BY <1>2, <1>6 DEF Split, q, r

LEMMA MoreIsEven ==
  ASSUME NEW bc \in {64, 128}, NEW n \in Nat, n > bc
  PROVE  Even(bc, n)
<1>1. bc \div n = 0
  OBVIOUS
<1> QED
  BY <1>1 DEF Even

LEMMA HalveAgrees ==
  ASSUME NEW bc, NEW g, NEW h, NEW k \in Nat, \A n \in Nat : n < k => g[n] = h[n]
  PROVE  \A n \in Nat : n < 2 * k => Halve(bc, g)[n] = Halve(bc, h)[n]
<1> TAKE n \in Nat
<1> HAVE n < 2 * k
<1>1. n \div 2 \in Nat /\ n \div 2 < k
  BY HalfOf
<1>2. g[n \div 2] = h[n \div 2]
  BY <1>1
<1> QED
  BY <1>2 DEF Halve

\* The recursion has a solution: halving seven times is enough.
LEMMA Halvable ==
  ASSUME NEW bc \in {64, 128}
  PROVE  \E f : f = Halve(bc, f)
<1> DEFINE h0 == [n \in Nat |-> n]
           h1 == Halve(bc, h0)  h2 == Halve(bc, h1)  h3 == Halve(bc, h2)
           h4 == Halve(bc, h3)  h5 == Halve(bc, h4)  h6 == Halve(bc, h5)
           h7 == Halve(bc, h6)
           Agree(g, h, k) == \A n \in Nat : n < k => g[n] = h[n]
<1>1. Agree(h1, h0, 2)
  BY DEF Halve
<1>2. ASSUME NEW g, NEW h, NEW k \in Nat, Agree(g, h, k)
      PROVE  Agree(Halve(bc, g), Halve(bc, h), 2 * k)
  BY <1>2, HalveAgrees
<1> HIDE DEF h0, Agree
<1>3. Agree(h2, h1, 4)
  BY <1>1, <1>2
<1>4. Agree(h3, h2, 8)
  BY <1>2, <1>3
<1>5. Agree(h4, h3, 16)
  BY <1>2, <1>4
<1>6. Agree(h5, h4, 32)
  BY <1>2, <1>5
<1>7. Agree(h6, h5, 64)
  BY <1>2, <1>6
<1>8. Agree(h7, h6, 128)
  BY <1>2, <1>7
<1> HIDE DEF h1, h2, h3, h4, h5, h6
<1>9. Halve(bc, h7) = h7
  <2>1. ASSUME NEW n \in Nat, n > 1, ~Even(bc, n)
        PROVE  h7[n \div 2] = h6[n \div 2]
    <3>1. n <= bc
      BY <2>1, MoreIsEven
    <3>2. n \div 2 \in Nat /\ n \div 2 < 128
      BY <3>1, HalfOf
    <3> QED
      BY <1>8, <3>2 DEF Agree
  <2>2. \A n \in Nat : (IF n > 1 /\ ~Even(bc, n) THEN h7[n \div 2] ELSE n)
                         = (IF n > 1 /\ ~Even(bc, n) THEN h6[n \div 2] ELSE n)
    BY <2>1
  <2> HIDE DEF h7
  <2>3. Halve(bc, h7) = [n \in Nat |-> IF n > 1 /\ ~Even(bc, n) THEN h7[n \div 2] ELSE n]
    BY Zenon DEF Halve
  <2>4. h7 = [n \in Nat |-> IF n > 1 /\ ~Even(bc, n) THEN h6[n \div 2] ELSE n]
    BY Zenon DEF Halve, h7
  <2> QED
    BY <2>2, <2>3, <2>4
<1> QED
  BY <1>9

\* Every solution of it splits the columns, for as many warpgroups as columns.
LEMMA HalvedSplits ==
  ASSUME NEW bc \in {64, 128}, NEW f, f = Halve(bc, f)
  PROVE  \A n \in 1 .. bc : Split(bc, f[n])
<1> DEFINE Good(k) == \A n \in 1 .. bc : n < k => Split(bc, f[n])
<1>1. \A n \in Nat : f[n] = IF n > 1 /\ ~Even(bc, n) THEN f[n \div 2] ELSE n
  BY DEF Halve
<1>2. Good(2)
  <2>1. Split(bc, 1)
    BY DEF Split
  <2> QED
    BY <1>1, <2>1
<1>3. ASSUME NEW k \in Nat, Good(k)
      PROVE  Good(2 * k)
  <2> SUFFICES ASSUME NEW n \in 1 .. bc, n < 2 * k
               PROVE  Split(bc, f[n])
    OBVIOUS
  <2>1. CASE Even(bc, n)
    BY <1>1, <2>1, EvenSplits
  <2>2. CASE n = 1
    <3>1. Split(bc, 1)
      BY DEF Split
    <3> QED
      BY <1>1, <2>2, <3>1
  <2>3. CASE n > 1 /\ ~Even(bc, n)
    <3>1. n \div 2 < k /\ n \div 2 \in 1 .. bc
      BY <2>3, HalfOf
    <3> QED
      BY <1>1, <1>3, <2>3, <3>1
  <2> QED
    BY <2>1, <2>2, <2>3
<1> HIDE DEF Good
<1>4. Good(4)
  BY <1>2, <1>3
<1>5. Good(8)
  BY <1>3, <1>4
<1>6. Good(16)
  BY <1>3, <1>5
<1>7. Good(32)
  BY <1>3, <1>6
<1>8. Good(64)
  BY <1>3, <1>7
<1>9. Good(128)
  BY <1>3, <1>8
<1>10. Good(256)
  BY <1>3, <1>9
<1> QED
  BY <1>10 DEF Good

LEMMA WgsSplit ==
  ASSUME NEW bc \in {64, 128}, object.env.wgs \in 1 .. bc
  PROVE  Split(bc, NumElementwiseWgs(bc))
<1> DEFINE h == CHOOSE g : g = Halve(bc, g)
<1>1. NumElementwiseWgs(bc) = h[object.env.wgs]
  BY Zenon DEF NumElementwiseWgs, Halve
<1>2. h = Halve(bc, h)
  BY Halvable, Zenon
<1> HIDE DEF h
<1> QED
  BY <1>1, <1>2, HalvedSplits

\* The warpgroups of a backward kernel are those chosen for its sub-block.
ChosenWgs ==
  \A l \in launches : l.bc # 0 => l.bc \in {64, 128} /\ l.ne = NumElementwiseWgs(l.bc)

LEMMA LaunchWgs ==
  ASSUME NEW c, NEW bc \in {64, 128}
  PROVE  /\ FusedLaunch(c, bc).bc = bc /\ FusedLaunch(c, bc).ne = NumElementwiseWgs(bc)
         /\ DqLaunch(c, bc).bc = bc /\ DqLaunch(c, bc).ne = NumElementwiseWgs(bc)
         /\ DkvLaunch(c, bc).bc = bc /\ DkvLaunch(c, bc).ne = NumElementwiseWgs(bc)
<1>1. /\ FusedLaunch(c, bc).bc = bc
      /\ FusedLaunch(c, bc).ne = IF bc = 0 THEN 1 ELSE NumElementwiseWgs(bc)
  BY DEF FusedLaunch, Backward, Launch
<1>2. /\ DqLaunch(c, bc).bc = bc
      /\ DqLaunch(c, bc).ne = IF bc = 0 THEN 1 ELSE NumElementwiseWgs(bc)
  BY DEF DqLaunch, Backward, Launch
<1>3. /\ DkvLaunch(c, bc).bc = bc
      /\ DkvLaunch(c, bc).ne = IF bc = 0 THEN 1 ELSE NumElementwiseWgs(bc)
  BY DEF DkvLaunch, Backward, Launch
<1> QED
  BY <1>1, <1>2, <1>3

LEMMA WgsStep ==
  ASSUME Inv, ChosenWgs, [Next]_vars
  PROVE  ChosenWgs'
<1>1. ASSUME object' = object, NEW bc
      PROVE  NumElementwiseWgs(bc)' = NumElementwiseWgs(bc)
  BY <1>1, Zenon DEF NumElementwiseWgs
<1>2. ASSUME object' = object,
             \A l \in launches' : \/ l \in launches \/ l.bc = 0
                                  \/ l.bc \in {64, 128} /\ l.ne = NumElementwiseWgs(l.bc)
      PROVE  ChosenWgs'
  BY <1>1, <1>2 DEF ChosenWgs
<1>3. CASE UNCHANGED vars
  BY <1>2, <1>3 DEF vars
<1>4. ASSUME NEW c \in Calls, Call(c) PROVE ChosenWgs'
  BY <1>4 DEF Call, ChosenWgs
<1>5. CASE Forward
  <2>1. \A l \in launches' : l.bc = 0
    BY <1>5 DEF Forward, ForwardLaunch, PingPongLaunch, Launch
  <2> QED
    BY <1>2, <1>5, <2>1 DEF Forward
<1>6. CASE FusedBackward
  <2>1. FusedBlock(call) \in {64, 128}
    BY DEF FusedBlock
  <2>2. \A l \in launches' : l \in launches \/ l = FusedLaunch(call, FusedBlock(call))
    BY <1>6 DEF FusedBackward
  <2>3. \A l \in launches' :
          \/ l \in launches
          \/ l.bc \in {64, 128} /\ l.ne = NumElementwiseWgs(l.bc)
    BY <2>1, <2>2, LaunchWgs
  <2> QED
    BY <1>2, <1>6, <2>3 DEF FusedBackward
<1>7. CASE SplitBackward
  <2>1. DqBlock(call) \in {64, 128} /\ DkvBlock(call) \in {64, 128}
    BY SizesTyped DEF DqBlock, DkvBlock, SubBlock, Inv
  <2>2. \A l \in launches' : \/ l \in launches \/ l = DqLaunch(call, DqBlock(call))
                             \/ l = DkvLaunch(call, DkvBlock(call))
    BY <1>7 DEF SplitBackward
  <2>3. \A l \in launches' :
          \/ l \in launches
          \/ l.bc \in {64, 128} /\ l.ne = NumElementwiseWgs(l.bc)
    BY <2>1, <2>2, LaunchWgs
  <2> QED
    BY <1>2, <1>7, <2>3 DEF SplitBackward
<1> QED
  BY <1>3, <1>4, <1>5, <1>6, <1>7 DEF Next

LEMMA ChosenSplits ==
  ASSUME Inv, ChosenWgs
  PROVE  WarpgroupsSplit
<1> SUFFICES ASSUME NEW l \in launches, l.bc # 0, object.env.wgs <= l.bc
             PROVE  l.bc % l.ne = 0 /\ (l.bc \div l.ne) % 16 = 0
  BY DEF WarpgroupsSplit
<1>1. l.bc \in {64, 128} /\ l.ne = NumElementwiseWgs(l.bc)
  BY DEF ChosenWgs
<1>2. object.env.wgs \in 1 .. l.bc
  <2>1. object.env.wgs \in Nat \ {0}
    BY DEF Inv, TypeOK, Environments
  <2> QED
    BY <1>1, <2>1
<1> QED
  BY <1>1, <1>2, WgsSplit DEF Split

-----------------------------------------------------------------------------
\* The whole of the inductive invariant.
WholeInv == Inv /\ AutoNeverWorse /\ Forwarded /\ GradientsAvailable /\ ChosenWgs

THEOREM Invariance == Spec => []WholeInv
<1>1. Init => WholeInv
  BY InitInv
     DEF Init, Start, WholeInv, AutoNeverWorse, Forwarded, GradientsAvailable, ChosenWgs
<1>2. WholeInv /\ [Next]_vars => WholeInv'
  BY NextInv, AutoStep, ForwardedStep, GradientStep, WgsStep DEF WholeInv
<1> QED
  BY <1>1, <1>2, PTL DEF Spec

\* Whatever is requested and called, what a kernel allocates fits.
THEOREM KernelsFit == Spec => []AllocationFits
<1>1. WholeInv => AllocationFits
  BY DEF WholeInv, Inv
<1> QED
  BY Invariance, <1>1, PTL

\* After any sequence of calls, a forward kernel walks the schedule that was
\* made for its tiles.
THEOREM SchedulesMatch == Spec => []WalksItsTiles
<1>1. WholeInv => WalksItsTiles
  BY DEF WholeInv, Inv
<1> QED
  BY Invariance, <1>1, PTL

\* Every variable of the dispatch has its type.
THEOREM TypeCorrect == Spec => []TypeOK
<1>1. WholeInv => TypeOK
  BY DEF WholeInv, Inv
<1> QED
  BY Invariance, <1>1, PTL

\* Of the automatic choice of 256 rows: what it makes the kernel reject would
\* have been rejected with 128 rows.
THEOREM AutoIsNeverWorse == Spec => []AutoNeverWorse
<1>1. WholeInv => AutoNeverWorse
  BY DEF WholeInv
<1> QED
  BY Invariance, <1>1, PTL

\* With the default sizes, head dims up to 128 that have a forward pass have a
\* gradient.
THEOREM GradientsExist == Spec => []GradientsAvailable
<1>1. WholeInv => GradientsAvailable
  BY DEF WholeInv
<1> QED
  BY Invariance, <1>1, PTL

\* However many elementwise warpgroups are asked for, up to one per column,
\* those that run share the columns out in multiples of 16.
THEOREM WarpgroupsShare == Spec => []WarpgroupsSplit
<1>1. WholeInv => WarpgroupsSplit
  BY ChosenSplits DEF WholeInv
<1> QED
  BY Invariance, <1>1, PTL
=============================================================================
