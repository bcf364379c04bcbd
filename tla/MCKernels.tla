----------------------------- MODULE MCKernels -----------------------------
(***************************************************************************)
(* Launches of the ping-pong, dQ and dK/dV kernels for TLC: every          *)
(* specialisation on short rows; rows of three steps, where a ring of two  *)
(* slots is refilled, and of five, where the parity of every barrier comes *)
(* round, for some.                                                        *)
(***************************************************************************)
EXTENDS BackwardCta, CtaOrder

PingPong == INSTANCE PingPong
Dq == INSTANCE BackwardDq
Dkv == INSTANCE BackwardDkv

Plain(c) == ~c.segments /\ ~c.dense
PingPongLaunch(c) ==
  \/ c.n <= 1
  \/ c.n = 2 /\ Plain(c) /\ c.correction # c.schedule
  \/ c.n = 3 /\ Plain(c) /\ c.correction /\ c.schedule /\ c.serialize
  \/ c.n = 3 /\ c.segments /\ c.partial = {0, 2} /\ ~c.serialize
       /\ ~c.correction /\ ~c.schedule
  \/ c.n = 5 /\ Plain(c) /\ ~c.correction /\ ~c.schedule /\ ~c.serialize
DqLaunch(c) ==
  \/ c.n <= 1
  \/ c.n = 2 /\ ~c.segments /\ (c.dense <=> c.partial # {})
  \/ c.n \in {3, 5} /\ Plain(c)
  \/ c.n = 3 /\ c.segments /\ c.partial = {0, 2} /\ ~c.serialize

\* With two buffers and without in-order MMAs the gradients of the last two
\* steps are not ordered: the kernel is launched so by no test.
DkvLaunch(c) ==
  /\ ~(c.nbuf = 2 /\ c.serialize /\ c.n > 1)
  /\ \/ c.n <= 1
     \/ c.n = 2 /\ (c.dense <=> c.partial # {})
     \/ c.n = 3 /\ c.partial \in {{}, {0, 2}} /\ (c.dense <=> c.partial # {})
     \/ c.n = 5 /\ ~c.dense

MCInit ==
  \/ \E c \in PingPong!Calls : PingPongLaunch(c) /\ call = c /\ Start(PingPong!Kernel(c))
  \/ \E c \in Dq!Calls : DqLaunch(c) /\ call = c /\ Start(Dq!Kernel(c))
  \/ \E c \in Dkv!Calls : DkvLaunch(c) /\ call = c /\ Start(Dkv!Kernel(c))
MCSpec == MCInit /\ [][Next]_vars /\ Progress

\* The barriers and the queue of the tensor core order the work of each launch's
\* code well enough to keep its waits, accesses and results right in every
\* interleaving (CtaProofs).  The code never changes: it is looked at once, before
\* the first step.
CodeOrdered == Start(code) => Ordered(code, call)
=============================================================================
