---------------------------- MODULE MaskSchedule ----------------------------
(***************************************************************************)
(* The sparse schedules of mask_info.py: every row of a block mask is      *)
(* compacted into the list of the blocks to visit, and so is every row of  *)
(* the transposed mask.  A mask gives each block of the scores of a head   *)
(* its pattern: the positions <<q, kv>> in the block that are visible.     *)
(***************************************************************************)
EXTENDS Integers, SequencesExt

CONSTANTS
  QBlocks, KvBlocks,     \* blocks of the scores of a head, along q and along kv
  BlockQ, BlockKv        \* rows of a block, along q and along kv

ASSUME SizesAssumption == {QBlocks, KvBlocks, BlockQ, BlockKv} \subseteq Nat \ {0}

EMPTY == 0
PARTIAL == 1
FULL == 2
-----------------------------------------------------------------------------
\* process_mask of the TPU module: the kind of every block, and for partial
\* blocks the index of their pattern among the stored ones.
Cells == (0 .. BlockQ - 1) \X (0 .. BlockKv - 1)
Kind(pattern) ==
  CASE pattern = {} -> EMPTY [] pattern = Cells -> FULL [] OTHER -> PARTIAL
Stored(mask) ==
  SetToSeq({ mask[h][i][j] : h \in DOMAIN mask, i \in 0 .. QBlocks - 1,
                             j \in 0 .. KvBlocks - 1 } \ {{}, Cells})
BlockMask(mask) ==
  [h \in DOMAIN mask |-> [i \in 0 .. QBlocks - 1 |->
     [j \in 0 .. KvBlocks - 1 |-> Kind(mask[h][i][j])]]]
MaskNext(mask) ==
  LET blocks == Stored(mask) IN
  [h \in DOMAIN mask |-> [i \in 0 .. QBlocks - 1 |->
     [j \in 0 .. KvBlocks - 1 |->
        IF Kind(mask[h][i][j]) = PARTIAL
        THEN CHOOSE x \in DOMAIN blocks : blocks[x] = mask[h][i][j] ELSE 0]]]
-----------------------------------------------------------------------------
\* A definition Name_fault is a faulty variant of the definition Name: the
\* checks of a property are tried against such a fault.

\* The sequence of the elements of a finite set in a strict total order.
InOrder(S, Precedes(_, _)) ==
  CHOOSE s \in [1 .. Cardinality(S) -> S] :
    \A a, b \in 1 .. Cardinality(S) : a < b => Precedes(s[a], s[b])

\* The columns to visit of a row, ascending.
Visited_all(row) == InOrder(DOMAIN row, LAMBDA a, b : a < b)
Visited(row) ==
  InOrder({c \in DOMAIN row : row[c] # EMPTY}, LAMBDA a, b : a < b)

\* The entry of a row at step s; a row of blocks is padded with its last block.
Entry_uncompacted(row, cols, s) == IF s < Len(cols) THEN row[s] ELSE 0
Entry(row, cols, s) == IF s < Len(cols) THEN row[cols[s + 1]] ELSE 0
Padded(s, cols) ==
  CASE s < Len(cols) -> cols[s + 1]
    [] s >= Len(cols) /\ cols # <<>> -> Last(cols)
    [] OTHER -> 0

\* The arrays have as many columns as the longest row has steps, at least one.
CompactRows(blockMask, maskNext) ==
  LET heads == DOMAIN blockMask
      rows == DOMAIN blockMask[0]
      cols == [h \in heads |-> [r \in rows |-> Visited(blockMask[h][r])]]
      numSteps == [h \in heads |-> [r \in rows |-> Len(cols[h][r])]]
      maxSteps == Max({1} \cup {numSteps[h][r] : h \in heads, r \in rows})
      Table(At(_, _, _)) ==
        [h \in heads |-> [r \in rows |->
           [s \in 0 .. maxSteps - 1 |-> At(h, r, s)]]]
      FromMask(values) ==
        Table(LAMBDA h, r, s : Entry(values[h][r], cols[h][r], s))
  IN [numSteps |-> numSteps,
      block |-> Table(LAMBDA h, r, s : Padded(s, cols[h][r])),
      kind |-> FromMask(blockMask), maskBlock |-> FromMask(maskNext)]

\* The launch order of the rows: argsort(-steps), stable.
Before_lightest(steps, a, b) ==
  \/ steps[a] < steps[b]
  \/ steps[a] = steps[b] /\ a < b
Before(steps, a, b) ==
  \/ steps[a] > steps[b]
  \/ steps[a] = steps[b] /\ a < b
HeaviestFirst(numSteps) ==
  [h \in DOMAIN numSteps |->
     InOrder(DOMAIN numSteps[h], LAMBDA a, b : Before(numSteps[h], a, b))]

Transpose(array) ==
  [h \in DOMAIN array |-> [j \in 0 .. KvBlocks - 1 |->
     [i \in 0 .. QBlocks - 1 |-> array[h][i][j]]]]
\* For the transposed schedule the stored blocks are transposed as well.
Transposed(blocks) ==
  [x \in DOMAIN blocks |-> {<<p[2], p[1]>> : p \in blocks[x]}]

\* The masks of the heads, one if they all share it.
OneMask(heads) == IF \A h \in DOMAIN heads : heads[h] = heads[0]
                  THEN [h \in {0} |-> heads[0]] ELSE heads
ProcessMask(heads) ==
  LET mask == OneMask(heads)
      blockMask == BlockMask(mask)
      maskNext == MaskNext(mask)
      rows == CompactRows(blockMask, maskNext)
      columns == CompactRows(Transpose(blockMask), Transpose(maskNext))
  IN [rows |-> rows, rowOrder |-> HeaviestFirst(rows.numSteps),
      stored |-> Stored(mask),
      columns |-> columns, columnOrder |-> HeaviestFirst(columns.numSteps),
      storedT |-> Transposed(Stored(mask))]
=============================================================================
