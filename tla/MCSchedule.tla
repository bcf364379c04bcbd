----------------------------- MODULE MCSchedule -----------------------------
(***************************************************************************)
(* Masks for TLC: every mask of three patterns for the first head, and for *)
(* the second head the same one or one mirrored along kv, with a partial   *)
(* pattern of its own; all kernels, sub-blocks and groups, stored and      *)
(* computed masks.                                                         *)
(***************************************************************************)
EXTENDS ScheduledGrid

Diagonal == {p \in Cells : p[2] <= p[1]}
LastColumn == {p \in Cells : p[2] = BlockKv - 1}
FirstMasks ==
  [0 .. QBlocks - 1 -> [0 .. KvBlocks - 1 -> {{}, Cells, Diagonal}]]
Other(pattern) == IF pattern = Diagonal THEN LastColumn ELSE pattern
Mirrored(m) ==
  [i \in 0 .. QBlocks - 1 |->
     [j \in 0 .. KvBlocks - 1 |-> Other(m[i][KvBlocks - 1 - j])]]

\* Two of the blocks are not full; heads that share a mask are launched with
\* few sub-blocks and masks, and so are small sub-blocks.
Checked(c) ==
  /\ Cells \notin {c.mask[0][0][2], c.mask[0][1][1]}
  /\ c.kernel = "rows" => c.group = 1
  /\ c.mask[0] = c.mask[1] =>
       c.sub = 2 /\ \A j \in 0 .. KvBlocks - 1 : c.mask[0][0][j] # Cells
  /\ c.sub = 1 => c.mask[0][1][0] = Diagonal

MCInit ==
  \E first \in FirstMasks : \E second \in {first, Mirrored(first)} :
  \E kernel \in {"rows", "columns"}, sub, group \in {1, 2}, computed \in BOOLEAN :
    LET c == [mask |-> [h \in 0 .. 1 |-> IF h = 0 THEN first ELSE second],
              kernel |-> kernel, sub |-> sub, group |-> group, computed |-> computed]
    IN c \in Calls /\ Checked(c) /\ call = c /\ Start(c)
MCSpec == MCInit /\ [][Next]_vars /\ WF_vars(Next)
=============================================================================
