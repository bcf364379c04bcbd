------------------------------ MODULE MBarrier ------------------------------
(***************************************************************************)
(* The mbarriers of the Mosaic GPU runtime, as the kernels use them.       *)
(* Neither the runtime nor the hardware is part of the repository: this    *)
(* module states what src/ relies on.                                      *)
(*                                                                         *)
(* A barrier counts arrivals.  When the last arrival of a phase comes the  *)
(* phase completes and the count starts again.  The hardware remembers     *)
(* only the parity of the phase, and each waiter only the parity of the    *)
(* phase it expects: a wait for the k-th phase passes while an odd number  *)
(* of phases separates the barrier from the waiter.  A barrier that runs   *)
(* two phases ahead of a waiter therefore looks incomplete to it.          *)
(*                                                                         *)
(* `done' counts the completed phases and `seen[w]' the phases that waiter *)
(* w has observed; both are unbounded here and only their parity is        *)
(* tested.  A copy's transaction bytes and the arrival that announces them *)
(* are one arrival, made when the copy has landed.                         *)
(***************************************************************************)
EXTENDS Integers

VARIABLES
  left,     \* left[b]: arrivals that phase done[b] of barrier b still needs
  done,     \* done[b]: completed phases of barrier b
  seen      \* seen[w][b]: phases of barrier b that waiter w has waited for

barVars == <<left, done, seen>>

BarTypeOK(Barriers, Waiters) ==
  /\ left \in [Barriers -> Nat \ {0}]
  /\ done \in [Barriers -> Nat]
  /\ seen \in [Waiters -> [Barriers -> Nat]]

InitBarriers(arrivals, Waiters) ==
  /\ left = arrivals
  /\ done = [b \in DOMAIN arrivals |-> 0]
  /\ seen = [w \in Waiters |-> [b \in DOMAIN arrivals |-> 0]]

\* One arrival on b, a barrier whose phases need `total' arrivals.
Arrive(b, total) ==
  /\ left' = [left EXCEPT ![b] = IF @ = 1 THEN total ELSE @ - 1]
  /\ done' = [done EXCEPT ![b] = IF left[b] = 1 THEN @ + 1 ELSE @]
  /\ UNCHANGED seen

\* Waiter w passes barrier b.
Await(w, b) ==
  /\ done[b] % 2 # seen[w][b] % 2
  /\ seen' = [seen EXCEPT ![w][b] = @ + 1]
  /\ UNCHANGED <<left, done>>

\* Phases of b that are complete and that w has not observed yet.
Lag(w, b) == done[b] - seen[w][b]

=============================================================================
