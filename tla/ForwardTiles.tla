---------------------------- MODULE ForwardTiles ----------------------------
(***************************************************************************)
(* What the tiles of ForwardKernel hold, on top of what ForwardRings says  *)
(* of its barriers: every tile a copy, an MMA or the softmax warpgroup     *)
(* reads is that of its own step.  The accumulation of the row and the     *)
(* reuse of the ring's slots are correct because of it.                    *)
(***************************************************************************)
EXTENDS ForwardRings

\* The PVs that have retired: only the last one issued may be in flight.
Retired == IF <<"pv", mmaStep - 1>> \in tc THEN mmaStep - 1 ELSE mmaStep

\* A slot holds the last step loaded into it, from when its copy has landed;
\* before that, an earlier step of the slot or nothing.
SlotTags ==
  \A f \in {"k", "v", "seg", "mask"} :
    /\ \A s \in 0 .. Loaded - 1 :
         Loaded <= s + NumStages /\ Uses(f, s) /\ <<f, s>> \notin copies
           => smem[Ring(f, s)] = s
    /\ \A j \in Slots :
         \/ smem[<<f, j>>] = Undefined
         \/ smem[<<f, j>>] \in 0 .. Loaded - 1 /\ smem[<<f, j>>] % NumStages = j

\* q_smem holds the Q tile until softmax reuses it for the output.
QTag ==
  tmaPc # "q" /\ Q \notin copies /\ ~(smxPc = "done" /\ call.reuseQ) => smem[Q] = 0

\* The scores that softmax has not read yet, and those in its registers.
STags ==
  /\ \A s \in Past(AfterS) .. QkIssued - 1 :
       <<"qk", s>> \notin tc => tmem.s[s % 2] = s
  /\ smxPc \in AfterS => regs.tile = smxStep

\* P holds the last step stored, at the running max of the registers.
Stored == Past({"rescale", "p_ready"})
PTag == Stored > 0 => tmem.p = [step |-> Stored - 1, ver |-> regs.ver]

\* O holds the steps whose PV has retired, scaled to that running max unless
\* softmax is about to rescale it.
OTag ==
  /\ tmem.o.acc = 0 .. Retired - 1
  /\ Retired > 0 =>
       /\ tmem.o.ok
       /\ regs.ver = IF smxPc = "rescale" THEN tmem.o.ver + 1 ELSE tmem.o.ver

\* What softmax has read back, and what it has written out.
OutTag ==
  /\ regs.o.ok
  /\ regs.o.acc = IF smxPc \in {"output", "done"} THEN 0 .. n - 1 ELSE {}
  /\ out = IF smxPc = "done" THEN <<regs.o>> ELSE <<>>

TileInv == SlotTags /\ QTag /\ STags /\ PTag /\ OTag /\ OutTag
=============================================================================
