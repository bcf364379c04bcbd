------------------------------ MODULE CtaOrder ------------------------------
(***************************************************************************)
(* What orders the work of a CTA, read off its compiled code alone: the    *)
(* program of each thread, the queue of the tensor core, and the barriers. *)
(* Code is ordered if this is enough to keep every barrier within one      *)
(* phase of its waiters, conflicting accesses apart and every read after   *)
(* the write it expects.  CtaProofs shows that ordered code is right       *)
(* whatever the interleaving.                                              *)
(***************************************************************************)
EXTENDS Cta

\* The events of a CTA with code k: instruction i of thread w is executed, a
\* copy x that it issued lands, the j-th item that it queued retires.
Execute(w, i) == <<"execute", w, i, 0>>
Land(w, i, x) == <<"land", w, i, x>>
Retire(w, i, j) == <<"retire", w, i, j>>

Instructions(k) ==
  UNION {{Execute(w, i) : i \in DOMAIN k.program[w]} : w \in DOMAIN k.program}
At(k, e) == k.program[e[2]][e[3]]
Landings(k) ==
  UNION {{Land(e[2], e[3], x) : x \in At(k, e).copies} : e \in Instructions(k)}
Retirals(k) ==
  UNION {{Retire(e[2], e[3], j) : j \in DOMAIN At(k, e).issue} : e \in Instructions(k)}
Events(k) == Instructions(k) \cup Landings(k) \cup Retirals(k)

\* What an event performs, the barrier it arrives on, the one it awaits.
OpOf(k, e) == CASE e[1] = "execute" -> At(k, e).op
                [] e[1] = "land" -> e[4].op
                [] e[1] = "retire" -> At(k, e).issue[e[4]].op
BarOf(k, e) == CASE e[1] = "execute" -> At(k, e).arrive
                 [] e[1] = "land" -> e[4].bar
                 [] e[1] = "retire" -> At(k, e).issue[e[4]].bar
ArrivalsOn(k, b) == {e \in Events(k) : BarOf(k, e) = b}

\* How often thread w awaits b before instruction i: the phase that it awaits
\* there.  Each thread that arrives on a barrier, or whose copies and commits do,
\* makes the same number of the arrivals of a phase.
Awaited(k, w, b, i) == Cardinality({j \in 1 .. i - 1 : k.program[w][j].await = b})
PhaseOf(k, a) ==
  LET all == ArrivalsOn(k, BarOf(k, a))
      before == {e \in all : e[2] = a[2] /\ e[3] < a[3]}
      arrivers == {e[2] : e \in all}
  IN (Cardinality(before) * Cardinality(arrivers)) \div k.arrivals[BarOf(k, a)]
-----------------------------------------------------------------------------
\* The events that e waits for: the instruction before it or the one that issued
\* it; the arrivals of the phase it awaits; in the queue, what the tensor core
\* completes first.
Openers(e) ==
  IF e[1] = "execute" THEN IF e[3] > 1 THEN {Execute(e[2], e[3] - 1)} ELSE {}
                      ELSE {Execute(e[2], e[3])}
QueuedBefore(e, f) == e[3] < f[3] \/ (e[3] = f[3] /\ e[4] < f[4])
Direct(k, serialize, phase, f) ==
  Openers(f) \cup
  CASE f[1] = "execute" ->
         {a \in ArrivalsOn(k, At(k, f).await) :
            At(k, f).await # None
              /\ phase[a] = Awaited(k, f[2], At(k, f).await, f[3])}
    [] f[1] = "land" -> {}
    [] f[1] = "retire" ->
         {e \in Retirals(k) : QueuedBefore(e, f)
            /\ (serialize => BarOf(k, e) = None /\ BarOf(k, f) # None)}

\* before[f]: all that precedes f, directly or not.  No event precedes itself.
Preceded(k, serialize, phase, before) ==
  \A f \in Events(k) :
    /\ before[f] = UNION {{g} \cup before[g] : g \in Direct(k, serialize, phase, f)}
    /\ f \notin before[f]
\* What has happened once f can.
Settled(before, f) == UNION {{g} \cup before[g] : g \in Openers(f)}
-----------------------------------------------------------------------------
\* The code is well formed: it is finite, a wait has no operation or arrival of
\* its own, all barriers exist, one thread feeds the tensor core, and no copy is
\* issued twice.
Straight(k) ==
  /\ \A w \in DOMAIN k.program : k.program[w] \in Seq(ToSet(k.program[w]))
  /\ \A e \in Instructions(k) : At(k, e).issue \in Seq(ToSet(At(k, e).issue))
  /\ IsFiniteSet(Events(k))
BarriersExist(k) ==
  /\ k.arrivals \in [DOMAIN k.arrivals -> Nat \ {0}] /\ None \notin DOMAIN k.arrivals
  /\ \A e \in Events(k) : BarOf(k, e) \in DOMAIN k.arrivals \cup {None}
  /\ \A e \in Landings(k) : BarOf(k, e) # None
  /\ \A w \in DOMAIN k.program : k.awaits[w] \subseteq DOMAIN k.arrivals
  /\ \A e \in Instructions(k) : At(k, e).await # None =>
       /\ At(k, e).await \in k.awaits[e[2]]
       /\ At(k, e).op = NoOp /\ At(k, e).arrive = None
WorkDistinct(k) ==
  /\ \A e, f \in Retirals(k) : e[2] = f[2]
  /\ \A e \in Retirals(k) : BarOf(k, e) # None => OpOf(k, e) = NoOp
  /\ \A e, f \in Landings(k) : e[4] = f[4] => e = f

\* The phases of a barrier are complete, one after the other.
InPhase(k, phase, b, p) == {a \in ArrivalsOn(k, b) : phase[a] = p}
PhasesInOrder(k, phase, before) ==
  \A b \in DOMAIN k.arrivals : \A a \in ArrivalsOn(k, b) :
    /\ phase[a] \in Nat
    /\ Cardinality(InPhase(k, phase, b, phase[a])) = k.arrivals[b]
    /\ \A p \in 0 .. phase[a] - 1 : InPhase(k, phase, b, p) # {}
    /\ \A e \in ArrivalsOn(k, b) : phase[e] < phase[a] => e \in before[a]

\* Each waiter of a barrier awaits all its phases, each before the next one can
\* be complete.
PhasesAwaited(k, phase, before) ==
  \A w \in DOMAIN k.program : \A b \in k.awaits[w] :
    /\ {phase[a] : a \in ArrivalsOn(k, b)} =
         0 .. Awaited(k, w, b, Len(k.program[w]) + 1) - 1
    /\ \A a \in ArrivalsOn(k, b) : phase[a] > 0 =>
         \E e \in InPhase(k, phase, b, phase[a]) :
           \E j \in DOMAIN k.program[w] :
             /\ k.program[w][j].await = b /\ Awaited(k, w, b, j) = phase[a] - 1
             /\ Execute(w, j) \in before[e]

\* Of two accesses to a cell, one of them a write, one is over when the other may
\* begin; the tensor core itself keeps its MMAs apart if it runs them in order.
Apart(k, serialize, before) ==
  \A e, f \in Events(k) : e # f /\ Conflict(OpOf(k, e), OpOf(k, f)) =>
    \/ e \in Settled(before, f) \/ f \in Settled(before, e)
    \/ ~serialize /\ {e, f} \subseteq Retirals(k)

\* Each read comes after the write it expects, and no other write in between.
ReadsRight(k, before) ==
  \A f \in Events(k) :
    /\ \A c \in Writes(OpOf(k, f)) : OpOf(k, f).writes[c] # Wrong
    /\ \A c \in Reads(OpOf(k, f)) :
         \E e \in before[f] \cap Events(k) :
           /\ c \in Writes(OpOf(k, e))
           /\ OpOf(k, e).writes[c] = OpOf(k, f).reads[c]
           /\ \A g \in Events(k) \ {e, f} :
                c \in Writes(OpOf(k, g)) => g \in before[e] \/ f \in before[g]

\* A result of a row of n steps: each of them is accumulated once the one before
\* it is, and the last one before the result is written out.
Extends(k, before, acc, e, s) ==
  LET o == OpOf(k, e) IN
  \/ /\ s = 0 /\ o.writes[acc] = <<"acc", 0>>
     /\ \A g \in Events(k) \ {e} : acc \in Writes(OpOf(k, g)) => e \in before[g]
  \/ /\ s > 0 /\ acc \in Reads(o)
     /\ \/ o.reads[acc] = <<"acc", s - 1>> /\ o.writes[acc] = <<"scaled", s>>
        \/ o.reads[acc] \in {<<"acc", s - 1>>, <<"scaled", s>>} /\ o.writes[acc] = <<"acc", s>>
RowInOrder(k, n, before, r) ==
  \A e \in Events(k) :
    LET o == OpOf(k, e) IN
    /\ r.acc \in Writes(o) =>
         r.out \notin Writes(o) /\ \E s \in 0 .. n - 1 : Extends(k, before, r.acc, e, s)
    /\ r.out \in Writes(o) =>
         /\ o.writes[r.out] = <<"out", n>>
         /\ n > 0 => r.acc \in Reads(o) /\ o.reads[r.acc] = <<"acc", n - 1>>
RowsInOrder(k, n, before) ==
  /\ n \in 0 .. MaxSteps
  /\ k.results \in Seq(ToSet(k.results)) /\ k.results # <<>>
  /\ \A i \in DOMAIN k.results : RowInOrder(k, n, before, k.results[i])

OrderedBy(k, serialize, phase, before) ==
  /\ Straight(k) /\ BarriersExist(k) /\ WorkDistinct(k)
  /\ Preceded(k, serialize, phase, before)
  /\ PhasesInOrder(k, phase, before) /\ PhasesAwaited(k, phase, before)
  /\ Apart(k, serialize, before) /\ ReadsRight(k, before)
-----------------------------------------------------------------------------
\* The phases and the order of code k.  Round by round, the events that directly
\* follow those already ordered are added; as many rounds as instructions reach them
\* all in the code of every kernel, and code in which they do not is not ordered.
Phases(k) == [e \in Events(k) |-> IF BarOf(k, e) = None THEN 0 ELSE PhaseOf(k, e)] @@ NoCells
Order(k, serialize, phase) ==
  LET direct == [e \in Events(k) |-> Direct(k, serialize, phase, e)] @@ NoCells
      round[i \in 0 .. Cardinality(Instructions(k))] ==
        IF i = 0 THEN NoCells
        ELSE LET known == round[i - 1]
                 next == {e \in Events(k) \ DOMAIN known : direct[e] \subseteq DOMAIN known}
             IN IF next = {} THEN known
                ELSE known @@ [e \in next |-> UNION {{g} \cup known[g] : g \in direct[e]}]
  IN round[Cardinality(Instructions(k))]
\* The code k of launch c.
Ordered(k, c) ==
  LET phase == Phases(k)  before == Order(k, c.serialize, phase)
  IN /\ DOMAIN before = Events(k)
     /\ OrderedBy(k, c.serialize, phase, before) /\ RowsInOrder(k, c.n, before)
=============================================================================
