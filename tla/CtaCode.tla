------------------------------ MODULE CtaCode ------------------------------
(***************************************************************************)
(* The code of a CTA: for every thread the straight-line program that its  *)
(* Python builder unrolls to, a sequence of instructions.  This module is  *)
(* the vocabulary; Cta runs such programs.                                 *)
(*                                                                         *)
(* Data are tags <<what, step>>.  An operation names the cells it reads    *)
(* with the tags the sequential algorithm would find there, and the cells  *)
(* it writes with the tags they get; Cta writes Wrong instead when a cell  *)
(* held anything else.                                                     *)
(***************************************************************************)
EXTENDS Integers, SequencesExt

CONSTANTS NumStages,     \* num_stages, the slots of a ring
          MaxSteps       \* bound on the steps of a CTA

ASSUME NumStagesAssumption == NumStages \in Nat \ {0}
ASSUME MaxStepsAssumption == MaxSteps \in Nat

\* The cell or barrier of a ring for step s; others are <<name, 0>>.
Ring(name, s) == <<name, s % NumStages>>
Only(name) == <<name, 0>>
None == Only("none")

\* Functions from cells to tags.
NoCells == [c \in {} |-> None]
Cell(c, tag) == c :> tag
CellsOf(name, indices, tag) == [c \in {name} \X indices |-> tag]

Op(reads, writes) == [reads |-> reads, writes |-> writes]
NoOp == Op(NoCells, NoCells)
-----------------------------------------------------------------------------
\* Instructions.  One awaits a phase of a barrier, or executes an operation
\* and arrives on a barrier; and it issues copies and tensor-core work.
Nothing == [await |-> None, op |-> NoOp, arrive |-> None,
            copies |-> {}, issue |-> <<>>]
Wait(b) == <<[Nothing EXCEPT !.await = b]>>
ArriveAt(b) == <<[Nothing EXCEPT !.arrive = b]>>
Run(reads, writes) == <<[Nothing EXCEPT !.op = Op(reads, writes)]>>

\* copy_gmem_to_smem, which arrives on `b' when the data is there.
Copy(cells, b) ==
  <<[Nothing EXCEPT !.copies = {[op |-> Op(NoCells, cells), bar |-> b]}]>>
Load(name, s) == Copy(Cell(Ring(name, s), <<name, s>>), Ring(name, s))

\* tcgen05_mma, and tcgen05_commit_arrive: an arrival on `b' once the MMAs
\* issued before it are complete.
Mma(reads, writes) ==
  <<[Nothing EXCEPT !.issue = <<[op |-> Op(reads, writes), bar |-> None]>>]>>
Commit(b) == <<[Nothing EXCEPT !.issue = <<[op |-> NoOp, bar |-> b]>>]>>

When(condition, code) == IF condition THEN code ELSE <<>>
Loop(first, end, Body(_)) ==
  FlattenSeq([i \in 1 .. end - first |-> Body(first + i - 1)])
-----------------------------------------------------------------------------
\* A definition Name_fault is a faulty variant of the definition Name: the
\* checks of a property are tried against such a fault.

\* Loads of steps 0 .. n - 1 into a ring.  Release(s) waits until the users of
\* the slot of s are done; the drain loop repeats it for the last steps, so
\* that no phase is left unobserved.
Reused_late(s) == s > NumStages
Reused(s) == s >= NumStages
Drained_short(n) == IF n > NumStages THEN n - NumStages + 1 ELSE 0
Drained(n) == IF n > NumStages THEN n - NumStages ELSE 0
LoadLoop(n, Release(_), Loads(_)) ==
  Loop(0, n, LAMBDA s : When(Reused(s), Release(s)) \o Loads(s))
    \o Loop(Drained(n), n, Release)

\* Others see nothing between a wait and the work issued after it, nor
\* between an operation and the arrival that publishes it: one instruction.
Issues(i) == i.await = None /\ i.op = NoOp /\ i.arrive = None
Joins(i, j) ==
  \/ Issues(j) /\ i.op = NoOp /\ i.arrive = None
  \/ j.arrive # None /\ i.op # NoOp /\ i.arrive = None
Joined(i, j) == [i EXCEPT !.arrive = j.arrive, !.copies = @ \cup j.copies,
                          !.issue = @ \o j.issue]
Fused(code) ==
  LET fused[i \in 0 .. Len(code)] ==
        IF i = 0 THEN <<>>
        ELSE LET done == fused[i - 1] IN
             IF done # <<>> /\ Joins(Last(done), code[i])
             THEN Front(done) \o <<Joined(Last(done), code[i])>>
             ELSE Append(done, code[i])
  IN fused[Len(code)]

\* A compiled CTA: programs, the arrivals a phase of each barrier needs, the
\* barriers each thread waits for, and the cells of each result: the one that
\* accumulates it and the one it is written to.
Compiled(programs, arrivals, results) ==
  [program |-> [w \in DOMAIN programs |-> Fused(programs[w])],
   arrivals |-> arrivals, results |-> results,
   awaits |-> [w \in DOMAIN programs |->
                 {programs[w][i].await : i \in DOMAIN programs[w]} \ {None}]]
=============================================================================
