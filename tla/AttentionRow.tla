---------------------------- MODULE AttentionRow ----------------------------
(***************************************************************************)
(* What a CTA promises that walks a row of the schedule, whatever runs in  *)
(* parallel inside it: the steps are accumulated one at a time and in the  *)
(* order of the schedule, each exactly once, and the output is written     *)
(* once, from an accumulator that holds them all.                          *)
(***************************************************************************)
EXTENDS Integers, Sequences

CONSTANT MaxSteps

VARIABLES
  numSteps,    \* the steps of the row
  acc,         \* the steps accumulated so far
  written      \* what was written to the output, in order

rowVars == <<numSteps, acc, written>>

Init == /\ numSteps \in 0 .. MaxSteps
        /\ acc = {}
        /\ written = <<>>

Accumulate(s) == /\ s < numSteps
                 /\ acc = 0 .. s - 1
                 /\ acc' = 0 .. s
                 /\ UNCHANGED <<numSteps, written>>

Write == /\ acc = 0 .. numSteps - 1
         /\ written = <<>>
         /\ written' = <<acc>>
         /\ UNCHANGED <<numSteps, acc>>

Next == Write \/ \E s \in 0 .. MaxSteps - 1 : Accumulate(s)

Steps == Init /\ [][Next]_rowVars

\* The output is eventually written.
Spec == Steps /\ WF_rowVars(Next)
=============================================================================
