-------------------------------- MODULE Cta --------------------------------
(***************************************************************************)
(* A CTA running its compiled programs: the threads, the copy engine and   *)
(* the tensor core.  A kernel's module defines the code of its launches.    *)
(*                                                                         *)
(* An operation's accesses are open from the moment its thread, copy or    *)
(* MMA may perform it until it takes effect, so two operations that could  *)
(* overlap in the machine are open together in some state.                 *)
(***************************************************************************)
EXTENDS CtaCode, MBarrier

VARIABLES
  call,        \* the launch: the kernel's specialisation and the CTA's steps
  code,        \* its compiled code
  pc,          \* pc[w]: the next instruction of thread w
  copies,      \* copies in flight
  tc,          \* the tensor core's queue: MMAs and commits
  mem          \* the tag of each cell written so far

vars == <<call, code, pc, copies, tc, mem, barVars>>
-----------------------------------------------------------------------------
Threads == DOMAIN code.program
Barriers == DOMAIN code.arrivals
Program(w) == code.program[w]
Ended(w) == pc[w] > Len(Program(w))
Instruction(w) == Program(w)[pc[w]]
ArriveOn(b) == Arrive(b, code.arrivals[b])

Wrong == <<"wrong", 0>>
Undefined == <<"undefined", 0>>
Tag(c) == IF c \in DOMAIN mem THEN mem[c] ELSE Undefined

\* The memory after operation o.
After(o) ==
  LET right == \A c \in DOMAIN o.reads : Tag(c) = o.reads[c]
  IN [c \in DOMAIN o.writes \cup DOMAIN mem |->
        IF c \notin DOMAIN o.writes THEN mem[c]
        ELSE IF right THEN o.writes[c] ELSE Wrong]

\* The launch of a kernel compiled to k.
Start(k) ==
  /\ code = k
  /\ pc = [w \in Threads |-> 1]
  /\ copies = {} /\ tc = <<>> /\ mem = [c \in {} |-> Undefined]
  /\ InitBarriers(code.arrivals, Threads)
-----------------------------------------------------------------------------
\* A copy lands, in any order.
CopyEngine ==
  \E x \in copies :
    /\ copies' = copies \ {x}
    /\ mem' = After(x.op)
    /\ ArriveOn(x.bar)
    /\ UNCHANGED <<call, code, pc, tc>>

\* The hardware completes MMAs in issue order; the interpreter promises no
\* order, only that a commit comes after the MMAs before it.
MayRetire(i) ==
  \/ i = 1
  \/ call.serialize /\ (tc[i].bar # None => \A j \in 1 .. i - 1 : tc[j].bar # None)

TensorCore ==
  \E i \in DOMAIN tc :
    /\ MayRetire(i) /\ tc' = RemoveAt(tc, i)
    /\ \/ tc[i].bar = None /\ mem' = After(tc[i].op) /\ UNCHANGED barVars
       \/ tc[i].bar # None /\ ArriveOn(tc[i].bar) /\ UNCHANGED mem
    /\ UNCHANGED <<call, code, pc, copies>>

\* A thread's next instruction.
Step(w) ==
  /\ ~Ended(w)
  /\ LET i == Instruction(w) IN
     /\ \/ i.await # None /\ Await(w, i.await)
        \/ i.arrive # None /\ ArriveOn(i.arrive)
        \/ i.await = None /\ i.arrive = None /\ UNCHANGED barVars
     /\ mem' = After(i.op)
     /\ copies' = copies \cup i.copies
     /\ tc' = tc \o i.issue
  /\ pc' = [pc EXCEPT ![w] = @ + 1]
  /\ UNCHANGED <<call, code>>

Finished == (\A w \in Threads : Ended(w)) /\ copies = {} /\ tc = <<>>
Exited == Finished /\ UNCHANGED vars

Next == CopyEngine \/ TensorCore \/ (\E w \in Threads : Step(w)) \/ Exited

\* The machine does not stop while a thread or an engine can make a step.  No
\* thread need be favoured: the programs are finite.
Progress == WF_vars(Next)
-----------------------------------------------------------------------------
\* Every variable has its type, and every barrier that is used was allocated
\* (most exist only in the specialisations that need them).
TypeOK ==
  /\ \A w \in Threads : pc[w] \in 1 .. Len(Program(w)) + 1
  /\ \A w \in Threads : ~Ended(w) =>
       {Instruction(w).await, Instruction(w).arrive} \subseteq Barriers \cup {None}
  /\ \A x \in copies : x.bar \in Barriers
  /\ \A i \in DOMAIN tc : tc[i].bar \in Barriers \cup {None}
  /\ BarTypeOK(Barriers, Threads)
  /\ \A b \in Barriers : left[b] <= code.arrivals[b]

\* Every waiter observes every barrier phase, and no barrier can run more than
\* one phase ahead of a waiter (README, Synchronization).
PhaseLag ==
  \A w \in Threads : \A b \in code.awaits[w] : Lag(w, b) \in {0, 1}

\* The accesses open in a state.  A thread's wait has none.
Reads(o) == DOMAIN o.reads
Writes(o) == DOMAIN o.writes
Conflict(o, p) ==
  Writes(o) \cap (Reads(p) \cup Writes(p)) # {} \/ Reads(o) \cap Writes(p) # {}
ThreadOp(w) == IF Ended(w) THEN NoOp ELSE Instruction(w).op

\* No two accesses that may overlap touch one cell unless both read it: the
\* copies in flight, the operations of different threads, and the queued MMAs
\* (which overlap each other only where no order is promised).
NoRace ==
  /\ \A x \in copies :
       /\ \A y \in copies \ {x} : ~Conflict(x.op, y.op)
       /\ \A i \in DOMAIN tc : ~Conflict(x.op, tc[i].op)
       /\ \A w \in Threads : ~Conflict(x.op, ThreadOp(w))
  /\ \A i \in DOMAIN tc :
       /\ \A w \in Threads : ~Conflict(tc[i].op, ThreadOp(w))
       /\ call.serialize => \A j \in DOMAIN tc \ {i} : ~Conflict(tc[i].op, tc[j].op)
  /\ \A v, w \in Threads : v # w => ~Conflict(ThreadOp(v), ThreadOp(w))

\* Every read found what the sequential algorithm reads there: whatever the
\* order, each tile meets the operands of its own step and every accumulator
\* takes each step once, in order.
Deterministic == \A c \in DOMAIN mem : mem[c] # Wrong

\* No phase of a barrier is unobserved or half arrived when the CTA exits: "so
\* that every barrier phase is consumed before exit", says kernel.py's drain.
CleanExit ==
  Finished => \A b \in Barriers :
                /\ left[b] = code.arrivals[b]
                /\ \A w \in Threads : b \in code.awaits[w] => Lag(w, b) = 0

\* The steps accumulated in cell c, tagged <<"acc", s>> after step s and
\* <<"scaled", s>> once rescaled for step s; and what was written to cell c.
AccumulatedIn(c) ==
  CASE Tag(c) = Wrong -> {-1}
    [] Tag(c)[1] = "acc" -> 0 .. Tag(c)[2]
    [] Tag(c)[1] = "scaled" -> 0 .. Tag(c)[2] - 1
    [] OTHER -> {}
WrittenTo(c) ==
  CASE Tag(c) = Undefined -> <<>>
    [] Tag(c) = <<"out", call.n>> -> <<0 .. call.n - 1>>
    [] OTHER -> <<{-1}>>

\* From outside, each result is a row of the schedule: its steps are accumulated
\* in order, each once and from matching operands, and it is written out, once.
FirstResult ==
  INSTANCE AttentionRow WITH
    numSteps <- call.n, acc <- AccumulatedIn(code.results[1].acc),
    written <- WrittenTo(code.results[1].out)
LastResult ==
  INSTANCE AttentionRow WITH
    numSteps <- call.n, acc <- AccumulatedIn(Last(code.results).acc),
    written <- WrittenTo(Last(code.results).out)
ImplementsRows == FirstResult!Steps /\ LastResult!Steps

\* While work is left, a copy can land, a queued item can retire or a thread can
\* pass its instruction.
MayPass(w) ==
  LET b == Instruction(w).await IN b # None => done[b] % 2 # seen[w][b] % 2
NeverStuck ==
  Finished \/ copies # {} \/ tc # <<>> \/ \E w \in Threads : ~Ended(w) /\ MayPass(w)

\* The CTA ends: the threads never all wait on each other.
Termination == <>Finished
=============================================================================
