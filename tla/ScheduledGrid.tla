--------------------------- MODULE ScheduledGrid ---------------------------
(***************************************************************************)
(* The CTAs of a kernel's grid walking a schedule of MaskSchedule.  A CTA  *)
(* of the forward and the dQ kernels owns a q block of a head; one of the  *)
(* dK/dV and the fused kernels owns a KV block and walks it for every q    *)
(* head of its group.  A step takes a sub-block of a block.                *)
(*                                                                         *)
(* CTAs share nothing here, so one runs at a time; the CTAs of a head are  *)
(* launched in the order of the grid.  What happens inside a step is the   *)
(* subject of the kernels' modules.                                        *)
(***************************************************************************)
EXTENDS MaskSchedule

CONSTANT Heads           \* q heads

ASSUME HeadsAssumption == Heads \in Nat \ {0}

VARIABLES
  call,        \* the launch
  schedule,    \* its schedule, by process_mask
  launched,    \* launched[x]: the CTAs launched for head x of the grid
  cta,         \* the running CTA: its head, its block, its head g of the
               \* group and its step u there; or Idle
  times        \* times[<<h, q, kv>>]: how often q attended to kv in head h

vars == <<call, schedule, launched, cta, times>>
-----------------------------------------------------------------------------
Idle == [x |-> -1]

\* A launch: the mask of each head, the kernel, the size of a sub-block, the q
\* heads that share a KV head, and whether partial blocks are masked by a
\* function of the positions (only if all heads share the mask) or from the
\* stored blocks.
Masks == [0 .. QBlocks - 1 -> [0 .. KvBlocks - 1 -> SUBSET Cells]]
ByRows(c) == c.kernel = "rows"
BlockRows(c) == IF ByRows(c) THEN BlockKv ELSE BlockQ
Calls ==
  { c \in [mask : [0 .. Heads - 1 -> Masks], kernel : {"rows", "columns"},
           sub : 1 .. BlockQ + BlockKv, group : 1 .. Heads, computed : BOOLEAN] :
      /\ BlockRows(c) % c.sub = 0 /\ Heads % c.group = 0
      /\ c.computed => Cardinality({c.mask[h] : h \in DOMAIN c.mask}) = 1 }

Walked == IF ByRows(call) THEN schedule.rows ELSE schedule.columns
Order == IF ByRows(call) THEN schedule.rowOrder ELSE schedule.columnOrder
GridHeads == IF ByRows(call) THEN 0 .. Heads - 1 ELSE 0 .. Heads \div call.group - 1

\* A definition Name_fault is a faulty variant of the definition Name: the
\* checks of a property are tried against such a fault.

\* The head of the schedule, for a q head.
MaskHead_own(h) == h
MaskHead(h) == IF Cardinality(DOMAIN Walked.numSteps) > 1 THEN h ELSE 0
QHead(x, g) == IF ByRows(call) THEN x ELSE x * call.group + g
LastG == IF ByRows(call) THEN 0 ELSE call.group - 1

Parts == BlockRows(call) \div call.sub
StepsOf_whole(x, block, g) == Walked.numSteps[MaskHead(QHead(x, g))][block]
StepsOf(x, block, g) == Walked.numSteps[MaskHead(QHead(x, g))][block] * Parts
-----------------------------------------------------------------------------
\* The pairs of step u: the position <<q, kv>> of block <<i, j>>, in the
\* columns of its part, unless masked.
Attended(k) ==
  LET h == QHead(k.x, k.g)
      mh == MaskHead(h)
      s == k.u \div Parts
      part == k.u % Parts
      block == Walked.block[mh][k.block][s]
      i == IF ByRows(call) THEN k.block ELSE block
      j == IF ByRows(call) THEN block ELSE k.block
      Along(p) == IF ByRows(call) THEN p[2] ELSE p[1]
      stored == IF ByRows(call) THEN schedule.stored ELSE schedule.storedT
      id == Walked.maskBlock[mh][k.block][s]
      Shown(p) ==
        IF call.computed THEN p \in call.mask[0][i][j]
        ELSE (IF ByRows(call) THEN p ELSE <<p[2], p[1]>>) \in stored[id]
  IN { <<h, i * BlockQ + p[1], j * BlockKv + p[2]>> :
         p \in { p \in Cells :
                   /\ Along(p) \in part * call.sub .. (part + 1) * call.sub - 1
                   /\ Walked.kind[mh][k.block][s] = PARTIAL => Shown(p) } }
-----------------------------------------------------------------------------
Pairs ==
  (0 .. Heads - 1) \X (0 .. QBlocks * BlockQ - 1) \X (0 .. KvBlocks * BlockKv - 1)

Start(c) ==
  /\ schedule = ProcessMask(c.mask)
  /\ launched = [x \in GridHeads |-> 0]
  /\ cta = Idle
  /\ times = [p \in Pairs |-> 0]

\* The CTA at the next place of the grid takes its block from the order, of
\* the first q head of its group.
Launch(x) ==
  /\ cta = Idle
  /\ LET order == Order[MaskHead(QHead(x, 0))] IN
     /\ launched[x] < Len(order)
     /\ cta' = [x |-> x, block |-> order[launched[x] + 1], g |-> 0, u |-> 0]
  /\ launched' = [launched EXCEPT ![x] = @ + 1]
  /\ UNCHANGED <<call, schedule, times>>

Step ==
  /\ cta # Idle
  /\ cta.u < StepsOf(cta.x, cta.block, cta.g)
  /\ times' = [p \in Pairs |-> times[p] + IF p \in Attended(cta) THEN 1 ELSE 0]
  /\ cta' = [cta EXCEPT !.u = @ + 1]
  /\ UNCHANGED <<call, schedule, launched>>

NextHead ==
  /\ cta # Idle
  /\ cta.u = StepsOf(cta.x, cta.block, cta.g)
  /\ cta' = IF cta.g < LastG THEN [cta EXCEPT !.g = @ + 1, !.u = 0] ELSE Idle
  /\ UNCHANGED <<call, schedule, launched, times>>

Done == /\ cta = Idle
        /\ \A x \in GridHeads : launched[x] = Len(Order[MaskHead(QHead(x, 0))])
        /\ UNCHANGED vars

Next == (\E x \in GridHeads : Launch(x)) \/ Step \/ NextHead \/ Done

\* The GPU runs every CTA of the grid.
Init == call \in Calls /\ Start(call)
Spec == Init /\ [][Next]_vars /\ WF_vars(Next)
-----------------------------------------------------------------------------
\* Every variable has its type, and every table of the schedule is indexed
\* where it has an entry.
TypeOK ==
  /\ \A x \in GridHeads, g \in 0 .. LastG :
       MaskHead(QHead(x, g)) \in DOMAIN Walked.numSteps
  /\ \A x \in GridHeads : launched[x] \in 0 .. Len(Order[MaskHead(QHead(x, 0))])
  /\ cta # Idle =>
       /\ cta.x \in GridHeads /\ cta.g \in 0 .. LastG
       /\ cta.block \in DOMAIN Walked.numSteps[MaskHead(QHead(cta.x, cta.g))]
       /\ cta.u \in 0 .. StepsOf(cta.x, cta.block, cta.g)
  /\ times \in [Pairs -> Nat]

\* "Empty blocks are never loaded or computed; full blocks skip masking"
\* (README, Features): a running step is in a block that shows some pair, and
\* masks are applied exactly where a block hides one.
SkipsEmpty ==
  cta # Idle /\ cta.u < StepsOf(cta.x, cta.block, cta.g) =>
    LET h == QHead(cta.x, cta.g)
        s == cta.u \div Parts
        other == Walked.block[MaskHead(h)][cta.block][s]
        pattern == IF ByRows(call) THEN call.mask[h][cta.block][other]
                   ELSE call.mask[h][other][cta.block]
    IN /\ pattern # {}
       /\ (Walked.kind[MaskHead(h)][cta.block][s] = PARTIAL) <=> pattern # Cells

\* Heaviest rows first: a CTA that is still to be launched has no more steps
\* than one launched before it, in the head the order is made for.
HeaviestLaunchedFirst ==
  \A x \in GridHeads :
    LET order == Order[MaskHead(QHead(x, 0))] IN
    \A a \in 1 .. launched[x], b \in launched[x] + 1 .. Len(order) :
      StepsOf(x, order[a], 0) >= StepsOf(x, order[b], 0)

\* The forward and the transposed schedule list the same blocks with the same
\* kinds and masks: the backward pass differentiates what the forward computed.
Listed(tables, h, r) ==
  { <<tables.block[h][r][s], tables.kind[h][r][s], tables.maskBlock[h][r][s]>> :
      s \in 0 .. tables.numSteps[h][r] - 1 }
SchedulesAgree ==
  \A h \in DOMAIN schedule.rows.numSteps, i \in 0 .. QBlocks - 1,
     j \in 0 .. KvBlocks - 1, kind \in {PARTIAL, FULL},
     id \in 0 .. Len(schedule.stored) :
       <<j, kind, id>> \in Listed(schedule.rows, h, i)
         <=> <<i, kind, id>> \in Listed(schedule.columns, h, j)

\* Whatever the kernel and the sizes, the grid attends to every visible pair,
\* once, and to no other.
Visible ==
  UNION { {<<h, i * BlockQ + p[1], j * BlockKv + p[2]>> : p \in call.mask[h][i][j]} :
            h \in 0 .. Heads - 1, i \in 0 .. QBlocks - 1, j \in 0 .. KvBlocks - 1 }
Attention == INSTANCE SparseAttention WITH visible <- Visible
ImplementsAttention == Attention!Spec
=============================================================================
