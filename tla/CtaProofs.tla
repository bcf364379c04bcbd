----------------------------- MODULE CtaProofs -----------------------------
(***************************************************************************)
(* Ordered code is right: whatever the interleaving of its threads, copies *)
(* and MMAs, a CTA whose code is ordered (CtaOrder) keeps its barriers     *)
(* within a phase of every waiter, never races, reads what the sequential  *)
(* algorithm reads, never stops early and exits clean.                     *)
(*                                                                         *)
(* The inductive invariant says which events have happened, and that these *)
(* are closed under the order of the code: barriers count their arrivals,  *)
(* the queue holds the retirals to come, and memory what the last write    *)
(* of each cell left.                                                      *)
(***************************************************************************)
EXTENDS CtaOrder, FiniteSetTheorems, WellFoundedInduction, TLAPS

\* The spec of a CTA that runs any ordered code.
OrderedSpec == Ordered(code, call) /\ Start(code) /\ [][Next]_vars
-----------------------------------------------------------------------------
\* The events X have happened, item i of the queue is retiral q[i].
Happened(k, X, q) ==
  /\ X \subseteq Events(k)
  /\ \A e \in Instructions(k) : e \in X <=> e[3] < pc[e[2]]
  /\ \A e \in Landings(k) : e \in X <=> e[3] < pc[e[2]] /\ e[4] \notin copies
  /\ \A e \in Retirals(k) : e \in X <=> e[3] < pc[e[2]] /\ \A i \in DOMAIN tc : q[i] # e
Running(k) ==
  /\ DOMAIN pc = DOMAIN k.program
  /\ \A w \in DOMAIN k.program : pc[w] \in 1 .. Len(k.program[w]) + 1
  /\ \A x \in copies : \E e \in Landings(k) : e[4] = x /\ e[3] < pc[e[2]]
Queued(k, q) ==
  /\ tc \in Seq(Range(tc))
  /\ \A i \in DOMAIN tc : /\ q[i] \in Retirals(k) /\ q[i][3] < pc[q[i][2]]
                          /\ tc[i] = At(k, q[i]).issue[q[i][4]]
  /\ \A i, j \in DOMAIN tc : i < j => QueuedBefore(q[i], q[j])

Closed(before, X) == \A f \in X : before[f] \subseteq X

\* Barriers: the phases that are over, and what the current one still needs.
Arrived(k, phase, b, X) == {a \in ArrivalsOn(k, b) : phase[a] = done[b] /\ a \in X}
Counted(k, phase, X) ==
  /\ BarTypeOK(DOMAIN k.arrivals, DOMAIN k.program)
  /\ \A b \in DOMAIN k.arrivals :
       /\ \A a \in ArrivalsOn(k, b) : /\ phase[a] < done[b] => a \in X
                                      /\ phase[a] > done[b] => a \notin X
       /\ left[b] = k.arrivals[b] - Cardinality(Arrived(k, phase, b, X))
       /\ done[b] > 0 => InPhase(k, phase, b, done[b] - 1) # {}
Noticed(k) ==
  \A w \in DOMAIN k.program : \A b \in k.awaits[w] :
    seen[w][b] = Awaited(k, w, b, pc[w]) /\ seen[w][b] <= done[b]

\* A cell holds what an event wrote there; a write that follows all others to its
\* cell is what the cell holds.
Remembered(k, before, X) ==
  /\ \A c \in DOMAIN mem : \E e \in X :
       c \in Writes(OpOf(k, e)) /\ mem[c] = OpOf(k, e).writes[c]
  /\ \A e \in X : \A c \in Writes(OpOf(k, e)) :
       (\A g \in X \ {e} : c \in Writes(OpOf(k, g)) => g \in before[e])
         => c \in DOMAIN mem /\ mem[c] = OpOf(k, e).writes[c]

\* The invariant.
Consistent(k, serialize, phase, before, X, q) ==
  /\ code = k /\ call.serialize = serialize
  /\ Happened(k, X, q) /\ Running(k) /\ Queued(k, q)
  /\ Closed(before, X) /\ Counted(k, phase, X) /\ Noticed(k)
  /\ Remembered(k, before, X)
OInv == \E k, serialize, n, phase, before, X, q :
          /\ OrderedBy(k, serialize, phase, before) /\ RowsInOrder(k, n, before)
          /\ call.n = n /\ Consistent(k, serialize, phase, before, X, q)
-----------------------------------------------------------------------------
\* The parts of an event.
LEMMA InstructionParts ==
  ASSUME NEW k, Straight(k), NEW e \in Instructions(k)
  PROVE  /\ e[1] = "execute" /\ e[2] \in DOMAIN k.program
         /\ e[3] \in 1 .. Len(k.program[e[2]]) /\ e[3] \in Nat \ {0}
         /\ e = Execute(e[2], e[3]) /\ e \in Events(k)
         /\ At(k, e) = k.program[e[2]][e[3]]
<1>1. PICK w \in DOMAIN k.program : \E i \in DOMAIN k.program[w] : e = Execute(w, i)
  BY DEF Instructions
<1>2. PICK i \in DOMAIN k.program[w] : e = Execute(w, i)
  BY <1>1
<1>3. k.program[w] \in Seq(ToSet(k.program[w]))
  BY DEF Straight
<1>4. i \in 1 .. Len(k.program[w]) /\ i \in Nat \ {0}
  BY <1>2, <1>3
<1> QED BY <1>2, <1>4 DEF Execute, At, Events

LEMMA ExecuteParts ==
  ASSUME NEW k, Straight(k), NEW w \in DOMAIN k.program, NEW i \in 1 .. Len(k.program[w])
  PROVE  /\ Execute(w, i) \in Instructions(k) /\ Execute(w, i) \in Events(k)
         /\ At(k, Execute(w, i)) = k.program[w][i]
         /\ Execute(w, i)[1] = "execute" /\ Execute(w, i)[2] = w /\ Execute(w, i)[3] = i
         /\ i \in DOMAIN k.program[w] /\ i \in Nat \ {0}
<1>1. k.program[w] \in Seq(ToSet(k.program[w]))
  BY DEF Straight
<1>2. i \in DOMAIN k.program[w] /\ i \in Nat \ {0}
  BY <1>1
<1>3. Execute(w, i) \in {Execute(w, j) : j \in DOMAIN k.program[w]}
  BY <1>2
<1>4. Execute(w, i) \in Instructions(k)
  BY <1>3 DEF Instructions
<1> QED BY <1>2, <1>4 DEF Execute, At, Events

LEMMA LandingParts ==
  ASSUME NEW k, Straight(k), NEW e \in Landings(k)
  PROVE  /\ e[1] = "land" /\ e[2] \in DOMAIN k.program
         /\ e[3] \in 1 .. Len(k.program[e[2]]) /\ e[3] \in Nat \ {0}
         /\ e[4] \in k.program[e[2]][e[3]].copies
         /\ e = Land(e[2], e[3], e[4]) /\ e \in Events(k)
<1>1. PICK d \in Instructions(k) : \E x \in At(k, d).copies : e = Land(d[2], d[3], x)
  BY DEF Landings
<1>2. PICK x \in At(k, d).copies : e = Land(d[2], d[3], x)
  BY <1>1
<1>3. /\ d[2] \in DOMAIN k.program /\ d[3] \in 1 .. Len(k.program[d[2]])
      /\ d[3] \in Nat \ {0} /\ At(k, d) = k.program[d[2]][d[3]]
  BY InstructionParts
<1> QED BY <1>2, <1>3 DEF Land, Events

LEMMA LandParts ==
  ASSUME NEW k, Straight(k), NEW w \in DOMAIN k.program, NEW i \in 1 .. Len(k.program[w]),
         NEW x \in k.program[w][i].copies
  PROVE  /\ Land(w, i, x) \in Landings(k) /\ Land(w, i, x)[2] = w
         /\ Land(w, i, x)[3] = i /\ Land(w, i, x)[4] = x
<1> DEFINE d == Execute(w, i)
<1>1. d \in Instructions(k) /\ At(k, d) = k.program[w][i] /\ d[2] = w /\ d[3] = i
  BY ExecuteParts
<1> HIDE DEF d
<1>2. Land(w, i, x) \in {Land(d[2], d[3], y) : y \in At(k, d).copies}
  BY <1>1
<1>3. Land(w, i, x) \in Landings(k)
  BY <1>1, <1>2 DEF Landings
<1> QED BY <1>3 DEF Land

LEMMA RetiralParts ==
  ASSUME NEW k, Straight(k), NEW e \in Retirals(k)
  PROVE  /\ e[1] = "retire" /\ e[2] \in DOMAIN k.program
         /\ e[3] \in 1 .. Len(k.program[e[2]]) /\ e[3] \in Nat \ {0}
         /\ e[4] \in 1 .. Len(k.program[e[2]][e[3]].issue) /\ e[4] \in Nat \ {0}
         /\ At(k, e) = k.program[e[2]][e[3]]
         /\ e = Retire(e[2], e[3], e[4]) /\ e \in Events(k)
<1>1. PICK d \in Instructions(k) : \E j \in DOMAIN At(k, d).issue : e = Retire(d[2], d[3], j)
  BY DEF Retirals
<1>2. PICK j \in DOMAIN At(k, d).issue : e = Retire(d[2], d[3], j)
  BY <1>1
<1>3. /\ d[2] \in DOMAIN k.program /\ d[3] \in 1 .. Len(k.program[d[2]])
      /\ d[3] \in Nat \ {0} /\ At(k, d) = k.program[d[2]][d[3]]
  BY InstructionParts
<1>4. At(k, d).issue \in Seq(ToSet(At(k, d).issue))
  BY DEF Straight
<1>5. j \in 1 .. Len(At(k, d).issue) /\ j \in Nat \ {0}
  BY <1>2, <1>4
<1> QED BY <1>2, <1>3, <1>5 DEF Retire, Events, At

LEMMA RetireParts ==
  ASSUME NEW k, Straight(k), NEW w \in DOMAIN k.program, NEW i \in 1 .. Len(k.program[w]),
         NEW j \in 1 .. Len(k.program[w][i].issue)
  PROVE  /\ Retire(w, i, j) \in Retirals(k) /\ Retire(w, i, j)[2] = w
         /\ Retire(w, i, j)[3] = i /\ Retire(w, i, j)[4] = j
         /\ At(k, Retire(w, i, j)) = k.program[w][i]
<1> DEFINE d == Execute(w, i)
<1>1. d \in Instructions(k) /\ At(k, d) = k.program[w][i] /\ d[2] = w /\ d[3] = i
  BY ExecuteParts
<1> HIDE DEF d
<1>2. At(k, d).issue \in Seq(ToSet(At(k, d).issue))
  BY <1>1 DEF Straight
<1>3. j \in DOMAIN At(k, d).issue
  BY <1>1, <1>2
<1>4. Retire(w, i, j) \in {Retire(d[2], d[3], y) : y \in DOMAIN At(k, d).issue}
  BY <1>1, <1>3
<1>5. Retire(w, i, j) \in Retirals(k)
  BY <1>1, <1>4 DEF Retirals
<1> QED BY <1>5 DEF Retire, At

LEMMA EventKinds ==
  ASSUME NEW k, NEW e \in Events(k)
  PROVE  e \in Instructions(k) \/ e \in Landings(k) \/ e \in Retirals(k)
BY DEF Events
-----------------------------------------------------------------------------
\* How often a barrier was awaited grows with the instructions.
LEMMA AwaitedFirst ==
  ASSUME NEW k, NEW w, NEW b
  PROVE  Awaited(k, w, b, 1) = 0
<1>1. {j \in 1 .. 1 - 1 : k.program[w][j].await = b} = {}
  OBVIOUS
<1> QED BY <1>1, FS_EmptySet DEF Awaited

LEMMA AwaitedNext ==
  ASSUME NEW k, NEW w, NEW b, NEW i \in Nat \ {0}
  PROVE  /\ Awaited(k, w, b, i) \in Nat
         /\ k.program[w][i].await = b => Awaited(k, w, b, i + 1) = Awaited(k, w, b, i) + 1
         /\ k.program[w][i].await # b => Awaited(k, w, b, i + 1) = Awaited(k, w, b, i)
<1> DEFINE S == {j \in 1 .. i - 1 : k.program[w][j].await = b}
           T == {j \in 1 .. (i + 1) - 1 : k.program[w][j].await = b}
<1>1. IsFiniteSet(1 .. i - 1)
  BY FS_Interval
<1>2. S \subseteq 1 .. i - 1 /\ i \notin S
  OBVIOUS
<1>3. IsFiniteSet(S) /\ Cardinality(S) \in Nat
  BY <1>1, <1>2, FS_Subset, FS_CardinalityType
<1>4. CASE k.program[w][i].await = b
  <2>1. T = S \cup {i}
    BY <1>4
  <2>2. Cardinality(S \cup {i}) = Cardinality(S) + 1
    BY <1>2, <1>3, FS_AddElement
  <2> QED BY <1>3, <1>4, <2>1, <2>2 DEF Awaited
<1>5. CASE k.program[w][i].await # b
  <2>1. T = S
    BY <1>5
  <2> QED BY <1>3, <1>5, <2>1 DEF Awaited
<1> QED BY <1>4, <1>5

LEMMA AwaitedLater ==
  ASSUME NEW k, NEW w, NEW b, NEW i \in Nat \ {0}, NEW j \in 1 .. i - 1,
         k.program[w][j].await = b
  PROVE  /\ Awaited(k, w, b, j) \in Nat /\ Awaited(k, w, b, i) \in Nat
         /\ Awaited(k, w, b, i) >= Awaited(k, w, b, j) + 1
<1> DEFINE S == {l \in 1 .. j - 1 : k.program[w][l].await = b}
           T == {l \in 1 .. i - 1 : k.program[w][l].await = b}
<1>1. IsFiniteSet(1 .. i - 1)
  BY FS_Interval
<1>2. T \subseteq 1 .. i - 1 /\ S \cup {j} \subseteq T /\ j \notin S
  OBVIOUS
<1>3. IsFiniteSet(T) /\ Cardinality(T) \in Nat
  BY <1>1, <1>2, FS_Subset, FS_CardinalityType
<1>4. IsFiniteSet(S) /\ Cardinality(S) \in Nat
  <2>1. S \subseteq T
    BY <1>2
  <2> QED BY <1>3, <2>1, FS_Subset, FS_CardinalityType
<1>5. Cardinality(S \cup {j}) <= Cardinality(T)
  BY <1>2, <1>3, FS_Subset
<1>6. Cardinality(S \cup {j}) = Cardinality(S) + 1
  BY <1>2, <1>4, FS_AddElement
<1> QED BY <1>3, <1>4, <1>5, <1>6 DEF Awaited
-----------------------------------------------------------------------------
\* One event more.  What has happened stays closed.
LEMMA ClosedNext ==
  ASSUME NEW k, NEW serialize, NEW phase, NEW before, NEW X, NEW f \in Events(k),
         Preceded(k, serialize, phase, before), Closed(before, X),
         Direct(k, serialize, phase, f) \subseteq X
  PROVE  Closed(before, X \cup {f}) /\ before[f] \subseteq X
<1>1. before[f] = UNION {{g} \cup before[g] : g \in Direct(k, serialize, phase, f)}
  BY DEF Preceded
<1>2. \A g \in Direct(k, serialize, phase, f) : {g} \cup before[g] \subseteq X
  BY DEF Closed
<1>3. before[f] \subseteq X
  BY <1>1, <1>2
<1> QED BY <1>3 DEF Closed

\* The arrivals of a phase.
LEMMA ArrivalsFinite ==
  ASSUME NEW k, Straight(k), NEW b, NEW S \in SUBSET ArrivalsOn(k, b)
  PROVE  IsFiniteSet(S) /\ Cardinality(S) \in Nat
<1>1. S \subseteq Events(k) /\ IsFiniteSet(Events(k))
  BY DEF ArrivalsOn, Straight
<1> QED BY <1>1, FS_Subset, FS_CardinalityType

\* A phase that has arrived in full is over.
LEMMA PhaseIncomplete ==
  ASSUME NEW k, NEW phase, NEW before, NEW X, NEW b \in DOMAIN k.arrivals,
         PhasesInOrder(k, phase, before), Counted(k, phase, X), BarriersExist(k),
         InPhase(k, phase, b, done[b]) # {}
  PROVE  ~(InPhase(k, phase, b, done[b]) \subseteq X)
<1> SUFFICES ASSUME InPhase(k, phase, b, done[b]) \subseteq X PROVE FALSE
  OBVIOUS
<1>1. PICK a \in ArrivalsOn(k, b) : phase[a] = done[b]
  BY DEF InPhase
<1>2. Cardinality(InPhase(k, phase, b, done[b])) = k.arrivals[b]
  BY <1>1 DEF PhasesInOrder
<1>3. Arrived(k, phase, b, X) = InPhase(k, phase, b, done[b])
  BY DEF Arrived, InPhase
<1>4. left[b] = k.arrivals[b] - k.arrivals[b] /\ left[b] \in Nat \ {0}
  BY <1>2, <1>3 DEF Counted, BarTypeOK
<1>5. k.arrivals[b] \in Nat
  BY DEF BarriersExist
<1> QED BY <1>4, <1>5

\* An arrival is of the phase that its barrier is in.
LEMMA ArrivesInPhase ==
  ASSUME NEW k, NEW phase, NEW before, NEW X, NEW b \in DOMAIN k.arrivals,
         NEW f \in ArrivalsOn(k, b), f \notin X, before[f] \subseteq X,
         PhasesInOrder(k, phase, before), Counted(k, phase, X), BarriersExist(k)
  PROVE  phase[f] = done[b]
<1>1. phase[f] \in Nat /\ done[b] \in Nat /\ ~(phase[f] < done[b])
  BY DEF PhasesInOrder, Counted, BarTypeOK
<1>2. ASSUME phase[f] > done[b] PROVE FALSE
  <2>1. done[b] \in 0 .. phase[f] - 1
    BY <1>1, <1>2
  <2>2. InPhase(k, phase, b, done[b]) # {}
    BY <2>1 DEF PhasesInOrder
  <2>3. \A a \in InPhase(k, phase, b, done[b]) : a \in before[f]
    BY <1>1, <1>2 DEF PhasesInOrder, InPhase
  <2>4. InPhase(k, phase, b, done[b]) \subseteq X
    BY <2>3
  <2> QED BY <2>2, <2>4, PhaseIncomplete
<1> QED BY <1>1, <1>2

\* Event f happens: the barriers.
LEMMA CountedNext ==
  ASSUME NEW k, NEW phase, NEW before, NEW X, NEW f \in Events(k),
         f \notin X, before[f] \subseteq X, Straight(k), BarriersExist(k),
         PhasesInOrder(k, phase, before), Counted(k, phase, X), code = k,
         BarTypeOK(DOMAIN k.arrivals, DOMAIN k.program)',
         \/ BarOf(k, f) = None /\ UNCHANGED <<left, done>>
         \/ BarOf(k, f) # None /\ ArriveOn(BarOf(k, f))
  PROVE  Counted(k, phase, X \cup {f})'
<1> DEFINE Y == X \cup {f}
<1> SUFFICES ASSUME NEW b \in DOMAIN k.arrivals
             PROVE  /\ \A a \in ArrivalsOn(k, b) :
                         /\ phase[a] < done'[b] => a \in Y
                         /\ phase[a] > done'[b] => a \notin Y
                    /\ left'[b] = k.arrivals[b] - Cardinality(Arrived(k, phase, b, Y)')
                    /\ done'[b] > 0 => InPhase(k, phase, b, done'[b] - 1) # {}
  BY DEF Counted
<1>0. /\ left \in [DOMAIN k.arrivals -> Nat \ {0}] /\ done \in [DOMAIN k.arrivals -> Nat]
      /\ left[b] \in Nat \ {0} /\ done[b] \in Nat /\ b # None
      /\ k.arrivals[b] \in Nat \ {0}
  BY DEF Counted, BarTypeOK, BarriersExist
<1>1. /\ \A a \in ArrivalsOn(k, b) : /\ phase[a] < done[b] => a \in X
                                     /\ phase[a] > done[b] => a \notin X
                                     /\ phase[a] \in Nat
      /\ left[b] = k.arrivals[b] - Cardinality(Arrived(k, phase, b, X))
      /\ done[b] > 0 => InPhase(k, phase, b, done[b] - 1) # {}
  BY DEF Counted, PhasesInOrder
<1>2. Arrived(k, phase, b, Y)' = {a \in ArrivalsOn(k, b) : phase[a] = done'[b] /\ a \in Y}
  BY DEF Arrived
<1>3. CASE BarOf(k, f) # b
  <2>1. left'[b] = left[b] /\ done'[b] = done[b]
    <3>1. CASE UNCHANGED <<left, done>>
      BY <3>1
    <3>2. CASE ArriveOn(BarOf(k, f))
      BY <1>0, <1>3, <3>2 DEF ArriveOn, Arrive
    <3> QED BY <3>1, <3>2
  <2>2. f \notin ArrivalsOn(k, b)
    BY <1>3 DEF ArrivalsOn
  <2>3. Arrived(k, phase, b, Y)' = Arrived(k, phase, b, X)
    BY <1>2, <2>1, <2>2 DEF Arrived
  <2>4. \A a \in ArrivalsOn(k, b) : a \in Y <=> a \in X
    BY <2>2
  <2> HIDE DEF Y
  <2> QED BY <1>1, <2>1, <2>3, <2>4
<1>4. CASE BarOf(k, f) = b
  <2>1. f \in ArrivalsOn(k, b)
    BY <1>4 DEF ArrivalsOn
  <2>2. phase[f] = done[b]
    BY <2>1, ArrivesInPhase
  <2>3. /\ left'[b] = IF left[b] = 1 THEN k.arrivals[b] ELSE left[b] - 1
        /\ done'[b] = IF left[b] = 1 THEN done[b] + 1 ELSE done[b]
    <3>1. ArriveOn(b)
      BY <1>0, <1>4
    <3> QED BY <1>0, <3>1 DEF ArriveOn, Arrive
  <2>a. ASSUME NEW a \in ArrivalsOn(k, b), phase[a] > done[b] PROVE a \notin Y
    <3>1. a \notin X
      BY <1>1, <2>a
    <3>2. a # f
      BY <1>0, <2>2, <2>a
    <3> QED BY <3>1, <3>2
  <2> DEFINE A == Arrived(k, phase, b, X)
             B == {a \in ArrivalsOn(k, b) : phase[a] = done[b] /\ a \in Y}
  <2>4. B = A \cup {f} /\ f \notin A /\ A \subseteq ArrivalsOn(k, b)
        /\ B \subseteq ArrivalsOn(k, b)
    BY <2>1, <2>2 DEF Arrived
  <2>5. IsFiniteSet(A) /\ Cardinality(A) \in Nat
    BY <2>4, ArrivalsFinite
  <2>6. Cardinality(B) = Cardinality(A) + 1 /\ IsFiniteSet(B)
    BY <2>4, <2>5, FS_AddElement
  <2>7. CASE left[b] = 1
    <3>1. Cardinality(InPhase(k, phase, b, done[b])) = k.arrivals[b]
      BY <2>1, <2>2 DEF PhasesInOrder
    <3>2. B \subseteq InPhase(k, phase, b, done[b])
          /\ InPhase(k, phase, b, done[b]) \subseteq ArrivalsOn(k, b)
      BY DEF InPhase
    <3>3. Cardinality(B) = k.arrivals[b]
      BY <1>0, <1>1, <2>5, <2>6, <2>7
    <3>4. IsFiniteSet(InPhase(k, phase, b, done[b]))
      BY <3>2, ArrivalsFinite
    <3>5. B = InPhase(k, phase, b, done[b])
      BY <3>1, <3>2, <3>3, <3>4, FS_Subset
    <3>6. \A a \in ArrivalsOn(k, b) : phase[a] = done[b] => a \in Y
      BY <3>5 DEF InPhase
    <3>7. done'[b] = done[b] + 1 /\ left'[b] = k.arrivals[b]
      BY <2>3, <2>7
    <3>9. Arrived(k, phase, b, Y)' = {}
      <4>1. \A a \in ArrivalsOn(k, b) : phase[a] = done[b] + 1 => a \notin Y
        BY <1>0, <2>a
      <4> HIDE DEF Y
      <4> QED BY <1>2, <3>7, <4>1
    <3>10. f \in InPhase(k, phase, b, done'[b] - 1)
      BY <1>0, <2>1, <2>2, <3>7 DEF InPhase
    <3>11. \A a \in ArrivalsOn(k, b) : /\ phase[a] < done'[b] => a \in Y
                                       /\ phase[a] > done'[b] => a \notin Y
      <4> HIDE DEF Y
      <4> SUFFICES ASSUME NEW a \in ArrivalsOn(k, b)
                   PROVE  /\ phase[a] < done[b] + 1 => a \in Y
                          /\ phase[a] > done[b] + 1 => a \notin Y
        BY <3>7
      <4>1. phase[a] \in Nat /\ (phase[a] < done[b] => a \in Y)
        BY <1>1 DEF Y
      <4> QED BY <1>0, <2>a, <3>6, <4>1
    <3>12. left'[b] = k.arrivals[b] - Cardinality({})
      BY <1>0, <3>7, FS_EmptySet
    <3> QED BY <3>9, <3>10, <3>11, <3>12
  <2>8. CASE left[b] # 1
    <3>1. done'[b] = done[b] /\ left'[b] = left[b] - 1
      BY <2>3, <2>8
    <3>2. Arrived(k, phase, b, Y)' = B
      BY <1>2, <3>1
    <3>3. left'[b] = k.arrivals[b] - Cardinality(B)
      BY <1>0, <1>1, <2>5, <2>6, <3>1
    <3>4. \A a \in ArrivalsOn(k, b) : /\ phase[a] < done[b] => a \in Y
                                      /\ phase[a] > done[b] => a \notin Y
      BY <1>1, <2>a
    <3> HIDE DEF B
    <3> QED BY <1>1, <3>1, <3>2, <3>3, <3>4
  <2> QED BY <2>7, <2>8
<1> QED BY <1>3, <1>4

\* Event f happens: it reads what it expects, and its writes are done.
LEMMA MemoryNext ==
  ASSUME NEW k, NEW before, NEW X \in SUBSET Events(k), NEW f \in Events(k),
         f \notin X, before[f] \subseteq X, ReadsRight(k, before),
         Closed(before, X), Remembered(k, before, X),
         \/ mem' = After(OpOf(k, f))
         \/ OpOf(k, f) = NoOp /\ mem' = mem
  PROVE  /\ \A c \in Reads(OpOf(k, f)) : Tag(c) = OpOf(k, f).reads[c]
         /\ \A c : /\ c \in DOMAIN mem' <=> c \in DOMAIN mem \/ c \in Writes(OpOf(k, f))
                   /\ c \in Writes(OpOf(k, f)) => mem'[c] = OpOf(k, f).writes[c]
                   /\ c \notin Writes(OpOf(k, f)) /\ c \in DOMAIN mem => mem'[c] = mem[c]
<1> DEFINE o == OpOf(k, f)
<1>1. \A c \in Reads(o) : Tag(c) = o.reads[c]
  <2> SUFFICES ASSUME NEW c \in Reads(o) PROVE Tag(c) = o.reads[c]
    OBVIOUS
  <2>1. PICK e \in before[f] \cap Events(k) :
          /\ c \in Writes(OpOf(k, e)) /\ OpOf(k, e).writes[c] = o.reads[c]
          /\ \A g \in Events(k) \ {e, f} :
               c \in Writes(OpOf(k, g)) => g \in before[e] \/ f \in before[g]
    BY DEF ReadsRight
  <2>2. \A g \in X \ {e} : c \in Writes(OpOf(k, g)) => g \in before[e]
    BY <2>1 DEF Closed
  <2> QED BY <2>1, <2>2 DEF Remembered, Tag
<1>2. \A c : /\ c \in DOMAIN mem' <=> c \in DOMAIN mem \/ c \in Writes(o)
             /\ c \in Writes(o) => mem'[c] = o.writes[c]
             /\ c \notin Writes(o) /\ c \in DOMAIN mem => mem'[c] = mem[c]
  <2>1. CASE mem' = After(o)
    <3>1. mem' = [c \in DOMAIN o.writes \cup DOMAIN mem |->
                    IF c \notin DOMAIN o.writes THEN mem[c] ELSE o.writes[c]]
      BY <1>1, <2>1 DEF After, Reads
    <3> QED BY <3>1 DEF Writes
  <2>2. CASE o = NoOp /\ mem' = mem
    BY <2>2 DEF Writes, NoOp, Op, NoCells
  <2> QED BY <2>1, <2>2
<1> QED BY <1>1, <1>2

LEMMA RememberedNext ==
  ASSUME NEW k, NEW before, NEW X \in SUBSET Events(k), NEW f \in Events(k),
         f \notin X, before[f] \subseteq X, ReadsRight(k, before),
         Closed(before, X), Remembered(k, before, X),
         \/ mem' = After(OpOf(k, f))
         \/ OpOf(k, f) = NoOp /\ mem' = mem
  PROVE  Remembered(k, before, X \cup {f})'
<1> DEFINE o == OpOf(k, f)
<1>1. \A c : /\ c \in DOMAIN mem' <=> c \in DOMAIN mem \/ c \in Writes(o)
             /\ c \in Writes(o) => mem'[c] = o.writes[c]
             /\ c \notin Writes(o) /\ c \in DOMAIN mem => mem'[c] = mem[c]
  BY MemoryNext
<1>2. ASSUME NEW c \in DOMAIN mem'
      PROVE  \E e \in X \cup {f} : c \in Writes(OpOf(k, e)) /\ mem'[c] = OpOf(k, e).writes[c]
  <2>1. CASE c \in Writes(o)
    BY <1>1, <2>1
  <2>2. CASE c \notin Writes(o)
    BY <1>1, <1>2, <2>2 DEF Remembered
  <2> QED BY <2>1, <2>2
<1> HIDE DEF o
<1>3. ASSUME NEW e \in X \cup {f}, NEW c \in Writes(OpOf(k, e)),
             \A g \in (X \cup {f}) \ {e} : c \in Writes(OpOf(k, g)) => g \in before[e]
      PROVE  c \in DOMAIN mem' /\ mem'[c] = OpOf(k, e).writes[c]
  <2>1. CASE e = f
    BY <1>1, <2>1 DEF o
  <2>2. CASE e \in X
    <3>1. c \notin Writes(o)
      BY <1>3, <2>2 DEF Closed, o
    <3>2. \A g \in X \ {e} : c \in Writes(OpOf(k, g)) => g \in before[e]
      BY <1>3
    <3>3. c \in DOMAIN mem /\ mem[c] = OpOf(k, e).writes[c]
      BY <2>2, <3>2 DEF Remembered
    <3> QED BY <1>1, <3>1, <3>3
  <2> QED BY <2>1, <2>2
<1> QED BY <1>2, <1>3 DEF Remembered

LEMMA ArriveType ==
  ASSUME NEW k, NEW W, BarTypeOK(DOMAIN k.arrivals, W), BarriersExist(k), code = k,
         NEW b \in DOMAIN k.arrivals, ArriveOn(b)
  PROVE  /\ BarTypeOK(DOMAIN k.arrivals, W)' /\ UNCHANGED seen
         /\ \A d \in DOMAIN k.arrivals : done'[d] \in Nat /\ done[d] \in Nat /\ done'[d] >= done[d]
<1>1. /\ left \in [DOMAIN k.arrivals -> Nat \ {0}] /\ done \in [DOMAIN k.arrivals -> Nat]
      /\ seen \in [W -> [DOMAIN k.arrivals -> Nat]] /\ k.arrivals[b] \in Nat \ {0}
  BY DEF BarTypeOK, BarriersExist
<1>2. /\ left' = [left EXCEPT ![b] = IF left[b] = 1 THEN k.arrivals[b] ELSE left[b] - 1]
      /\ done' = [done EXCEPT ![b] = IF left[b] = 1 THEN done[b] + 1 ELSE done[b]]
      /\ UNCHANGED seen
  BY DEF ArriveOn, Arrive
<1>3. (IF left[b] = 1 THEN k.arrivals[b] ELSE left[b] - 1) \in Nat \ {0}
  BY <1>1
<1>4. (IF left[b] = 1 THEN done[b] + 1 ELSE done[b]) \in Nat
  BY <1>1
<1>5. left' \in [DOMAIN k.arrivals -> Nat \ {0}] /\ done' \in [DOMAIN k.arrivals -> Nat]
  BY <1>1, <1>2, <1>3, <1>4
<1> QED BY <1>1, <1>2, <1>5 DEF BarTypeOK

LEMMA AwaitType ==
  ASSUME NEW B, NEW W, BarTypeOK(B, W), NEW w \in W, NEW b \in B, Await(w, b)
  PROVE  /\ BarTypeOK(B, W)' /\ UNCHANGED <<left, done>>
         /\ seen'[w][b] = seen[w][b] + 1
         /\ \A v \in W : \A d \in B : (v # w \/ d # b) => seen'[v][d] = seen[v][d]
<1>1. /\ left \in [B -> Nat \ {0}] /\ done \in [B -> Nat] /\ seen \in [W -> [B -> Nat]]
  BY DEF BarTypeOK
<1>2. /\ seen' = [seen EXCEPT ![w] = [seen[w] EXCEPT ![b] = seen[w][b] + 1]]
      /\ UNCHANGED <<left, done>>
  BY <1>1 DEF Await
<1>3. [seen[w] EXCEPT ![b] = seen[w][b] + 1] \in [B -> Nat]
  BY <1>1
<1>4. seen' \in [W -> [B -> Nat]]
  BY <1>1, <1>2, <1>3
<1> QED BY <1>1, <1>2, <1>4 DEF BarTypeOK

\* A barrier is at most one phase ahead of a waiter: the arrivals of the last
\* complete phase come after the wait for the phase before.
LEMMA LagBound ==
  ASSUME NEW k, NEW phase, NEW before, NEW X, NEW q, Straight(k), BarriersExist(k),
         PhasesAwaited(k, phase, before), Happened(k, X, q), Running(k),
         Closed(before, X), Counted(k, phase, X), Noticed(k),
         NEW w \in DOMAIN k.program, NEW b \in k.awaits[w]
  PROVE  Lag(w, b) \in {0, 1}
<1>1. /\ b \in DOMAIN k.arrivals /\ done[b] \in Nat /\ seen[w][b] \in Nat
      /\ seen[w][b] = Awaited(k, w, b, pc[w]) /\ seen[w][b] <= done[b]
  BY DEF BarriersExist, Counted, BarTypeOK, Noticed
<1>2. done[b] - seen[w][b] <= 1
  <2>1. CASE done[b] <= 1
    BY <1>1, <2>1
  <2>2. CASE done[b] > 1
    <3>1. PICK a \in ArrivalsOn(k, b) : phase[a] = done[b] - 1
      BY <1>1, <2>2 DEF Counted, InPhase
    <3>2. phase[a] > 0
      BY <1>1, <2>2, <3>1
    <3>3. PICK e \in InPhase(k, phase, b, phase[a]), j \in DOMAIN k.program[w] :
            /\ k.program[w][j].await = b /\ Awaited(k, w, b, j) = phase[a] - 1
            /\ Execute(w, j) \in before[e]
      BY <3>2 DEF PhasesAwaited
    <3>4. e \in ArrivalsOn(k, b) /\ phase[e] < done[b]
      BY <1>1, <3>1, <3>3 DEF InPhase
    <3>5. Execute(w, j) \in X
      BY <1>1, <3>3, <3>4 DEF Counted, Closed
    <3>6. k.program[w] \in Seq(ToSet(k.program[w]))
      BY DEF Straight
    <3>7. j \in 1 .. Len(k.program[w]) /\ pc[w] \in 1 .. Len(k.program[w]) + 1
      BY <3>6 DEF Running
    <3>8. Execute(w, j) \in Instructions(k) /\ Execute(w, j)[2] = w /\ Execute(w, j)[3] = j
      BY <3>7, ExecuteParts
    <3>9. j < pc[w]
      BY <3>5, <3>8 DEF Happened
    <3>10. Len(k.program[w]) \in Nat
      BY <3>6
    <3>11. j \in 1 .. pc[w] - 1 /\ pc[w] \in Nat \ {0}
      BY <3>7, <3>9, <3>10
    <3>12. Awaited(k, w, b, pc[w]) >= Awaited(k, w, b, j) + 1
      BY <3>3, <3>11, AwaitedLater
    <3> QED BY <1>1, <3>1, <3>3, <3>12
  <2> QED BY <1>1, <2>1, <2>2
<1> QED BY <1>1, <1>2 DEF Lag

\* Event f happens.
LEMMA Happens ==
  ASSUME NEW k, NEW serialize, NEW phase, NEW before, NEW X, NEW q,
         OrderedBy(k, serialize, phase, before),
         Consistent(k, serialize, phase, before, X, q),
         NEW f \in Events(k), f \notin X, Direct(k, serialize, phase, f) \subseteq X,
         \/ mem' = After(OpOf(k, f))
         \/ OpOf(k, f) = NoOp /\ mem' = mem,
         BarTypeOK(DOMAIN k.arrivals, DOMAIN k.program)',
         \/ BarOf(k, f) = None /\ UNCHANGED <<left, done>>
         \/ BarOf(k, f) # None /\ ArriveOn(BarOf(k, f))
  PROVE  /\ Closed(before, X \cup {f}) /\ Counted(k, phase, X \cup {f})'
         /\ Remembered(k, before, X \cup {f})'
<1>1. /\ Straight(k) /\ BarriersExist(k) /\ Preceded(k, serialize, phase, before)
      /\ PhasesInOrder(k, phase, before) /\ ReadsRight(k, before)
  BY DEF OrderedBy
<1>2. /\ code = k /\ X \subseteq Events(k) /\ Closed(before, X) /\ Counted(k, phase, X)
      /\ Remembered(k, before, X)
  BY DEF Consistent, Happened
<1>3. Closed(before, X \cup {f}) /\ before[f] \subseteq X
  BY <1>1, <1>2, ClosedNext
<1>4. Counted(k, phase, X \cup {f})'
  BY <1>1, <1>2, <1>3, CountedNext
<1>5. Remembered(k, before, X \cup {f})'
  BY <1>1, <1>2, <1>3, RememberedNext
<1> QED BY <1>3, <1>4, <1>5

\* Steps that await nothing and execute no instruction.
LEMMA NoticedStays ==
  ASSUME NEW k, BarriersExist(k), Noticed(k), UNCHANGED <<pc, seen>>,
         \A b \in DOMAIN k.arrivals :
           done[b] \in Nat /\ done'[b] \in Nat /\ done'[b] >= done[b],
         BarTypeOK(DOMAIN k.arrivals, DOMAIN k.program)
  PROVE  Noticed(k)'
<1> SUFFICES ASSUME NEW w \in DOMAIN k.program, NEW b \in k.awaits[w]
             PROVE  seen[w][b] = Awaited(k, w, b, pc[w]) /\ seen[w][b] <= done'[b]
  BY DEF Noticed
<1>1. b \in DOMAIN k.arrivals
  BY DEF BarriersExist
<1>2. seen[w][b] \in Nat /\ seen[w][b] = Awaited(k, w, b, pc[w]) /\ seen[w][b] <= done[b]
  BY <1>1 DEF Noticed, BarTypeOK
<1> QED BY <1>1, <1>2

\* A copy lands.
LEMMA LandStep ==
  ASSUME NEW k, NEW serialize, NEW phase, NEW before, NEW X, NEW q,
         OrderedBy(k, serialize, phase, before),
         Consistent(k, serialize, phase, before, X, q), CopyEngine
  PROVE  \E Y : Consistent(k, serialize, phase, before, Y, q)'
<1>1. /\ Straight(k) /\ BarriersExist(k) /\ WorkDistinct(k)
  BY DEF OrderedBy
<1>2. /\ code = k /\ call.serialize = serialize /\ Happened(k, X, q) /\ Running(k)
      /\ Queued(k, q) /\ Noticed(k) /\ Counted(k, phase, X)
  BY DEF Consistent
<1>3. PICK x \in copies : /\ copies' = copies \ {x} /\ mem' = After(x.op)
                          /\ ArriveOn(x.bar) /\ UNCHANGED <<call, code, pc, tc>>
  BY DEF CopyEngine
<1>4. PICK f \in Landings(k) : f[4] = x /\ f[3] < pc[f[2]]
  BY <1>2 DEF Running
<1>5. /\ f[1] = "land" /\ f[2] \in DOMAIN k.program /\ f[3] \in 1 .. Len(k.program[f[2]])
      /\ f \in Events(k)
  BY <1>1, LandingParts
<1>6. f \notin X
  BY <1>2, <1>4 DEF Happened
<1>7. OpOf(k, f) = x.op /\ BarOf(k, f) = x.bar /\ x.bar # None /\ x.bar \in DOMAIN k.arrivals
  <2>1. OpOf(k, f) = x.op /\ BarOf(k, f) = x.bar
    BY <1>4, <1>5 DEF OpOf, BarOf
  <2> QED BY <1>1, <1>5, <2>1 DEF BarriersExist
<1>8. Direct(k, serialize, phase, f) \subseteq X
  <2>1. Direct(k, serialize, phase, f) = {Execute(f[2], f[3])}
    BY <1>5 DEF Direct, Openers
  <2>2. Execute(f[2], f[3]) \in Instructions(k) /\ Execute(f[2], f[3])[2] = f[2]
        /\ Execute(f[2], f[3])[3] = f[3]
    BY <1>1, <1>5, ExecuteParts
  <2>3. Execute(f[2], f[3]) \in X
    BY <1>2, <1>4, <2>2 DEF Happened
  <2> QED BY <2>1, <2>3
<1>9. /\ BarTypeOK(DOMAIN k.arrivals, DOMAIN k.program)' /\ UNCHANGED seen
      /\ \A d \in DOMAIN k.arrivals : done'[d] \in Nat /\ done[d] \in Nat /\ done'[d] >= done[d]
  BY <1>1, <1>2, <1>3, <1>7, ArriveType DEF Counted
<1> DEFINE Y == X \cup {f}
<1>10. Closed(before, Y) /\ Counted(k, phase, Y)' /\ Remembered(k, before, Y)'
  BY <1>3, <1>5, <1>6, <1>7, <1>8, <1>9, Happens
<1>11. Noticed(k)'
  BY <1>1, <1>2, <1>3, <1>9, NoticedStays DEF Counted
<1>12. Happened(k, Y, q)'
  <2>1. Y \subseteq Events(k)
    BY <1>2, <1>5 DEF Happened
  <2>2. \A e \in Instructions(k) : e \in Y <=> e[3] < pc'[e[2]]
    <3>1. \A e \in Instructions(k) : e # f
      BY <1>1, <1>5, InstructionParts
    <3> QED BY <1>2, <1>3, <3>1 DEF Happened
  <2>3. \A e \in Landings(k) : e \in Y <=> e[3] < pc'[e[2]] /\ e[4] \notin copies'
    <3> SUFFICES ASSUME NEW e \in Landings(k)
                 PROVE  e \in Y <=> e[3] < pc[e[2]] /\ e[4] \notin copies \ {x}
      BY <1>3
    <3>1. e[4] = x => e = f
      BY <1>1, <1>4 DEF WorkDistinct
    <3> QED BY <1>2, <1>4, <3>1 DEF Happened
  <2>4. \A e \in Retirals(k) :
          e \in Y <=> e[3] < pc'[e[2]] /\ \A i \in DOMAIN tc' : q[i] # e
    <3>1. \A e \in Retirals(k) : e # f
      BY <1>1, <1>5, RetiralParts
    <3> QED BY <1>2, <1>3, <3>1 DEF Happened
  <2> HIDE DEF Y
  <2> QED BY <2>1, <2>2, <2>3, <2>4 DEF Happened
<1>13. Running(k)'
  BY <1>2, <1>3 DEF Running
<1>14. Queued(k, q)'
  BY <1>2, <1>3 DEF Queued
<1>15. Consistent(k, serialize, phase, before, Y, q)'
  BY <1>2, <1>3, <1>10, <1>11, <1>12, <1>13, <1>14 DEF Consistent
<1> QED BY <1>15

\* An item of a queue is removed.
LEMMA Removed ==
  ASSUME NEW S, NEW t \in Seq(S), NEW i \in DOMAIN t, NEW u, u = RemoveAt(t, i)
  PROVE  /\ u \in Seq(S) /\ Len(u) = Len(t) - 1 /\ Len(t) \in Nat \ {0}
         /\ DOMAIN t = 1 .. Len(t) /\ DOMAIN u = 1 .. Len(t) - 1
         /\ \A j \in DOMAIN u : u[j] = t[IF j < i THEN j ELSE j + 1]
<1>0. i \in 1 .. Len(t) /\ Len(t) \in Nat \ {0}
  OBVIOUS
<1> DEFINE a == SubSeq(t, 1, i - 1)  c == SubSeq(t, i + 1, Len(t))
<1>1. /\ a \in Seq(S) /\ Len(a) = i - 1 /\ \A j \in 1 .. i - 1 : a[j] = t[j]
  BY <1>0
<1>2. /\ c \in Seq(S) /\ Len(c) = Len(t) - i
      /\ \A j \in 1 .. Len(t) - i : c[j] = t[i + j]
  BY <1>0
<1>3. u = a \o c
  BY DEF RemoveAt
<1> HIDE DEF a, c
<1>4. u \in Seq(S) /\ Len(u) = Len(t) - 1
  BY <1>0, <1>1, <1>2, <1>3
<1>5. \A j \in 1 .. Len(u) : u[j] = IF j < i THEN a[j] ELSE c[j - (i - 1)]
  BY <1>0, <1>1, <1>2, <1>3, <1>4
<1>6. \A j \in 1 .. Len(u) : u[j] = t[IF j < i THEN j ELSE j + 1]
  <2> SUFFICES ASSUME NEW j \in 1 .. Len(u) PROVE u[j] = t[IF j < i THEN j ELSE j + 1]
    OBVIOUS
  <2>1. CASE j < i
    BY <1>0, <1>1, <1>4, <1>5, <2>1
  <2>2. CASE ~(j < i)
    <3>1. j - (i - 1) \in 1 .. Len(t) - i /\ i + (j - (i - 1)) = j + 1
      BY <1>0, <1>4, <2>2
    <3> QED BY <1>2, <1>5, <2>2, <3>1
  <2> QED BY <2>1, <2>2
<1>7. DOMAIN t = 1 .. Len(t) /\ DOMAIN u = 1 .. Len(t) - 1
  BY <1>4
<1> QED BY <1>0, <1>4, <1>6, <1>7

LEMMA InItsRange ==
  ASSUME NEW S, NEW u \in Seq(S)
  PROVE  u \in Seq(Range(u))
<1>1. u = [i \in 1 .. Len(u) |-> u[i]] /\ Len(u) \in Nat /\ DOMAIN u = 1 .. Len(u)
  OBVIOUS
<1>2. \A i \in 1 .. Len(u) : u[i] \in Range(u)
  BY <1>1 DEF Range
<1>3. u \in [1 .. Len(u) -> Range(u)]
  BY <1>1, <1>2
<1> QED BY <1>1, <1>3

\* The head of the queue, or an item that the interpreter may take before it, has
\* all behind it that it has to wait for.
LEMMA MayRetireSettled ==
  ASSUME NEW k, NEW serialize, NEW phase, NEW before, NEW X, NEW q,
         OrderedBy(k, serialize, phase, before),
         Consistent(k, serialize, phase, before, X, q),
         NEW i \in DOMAIN tc, MayRetire(i)
  PROVE  /\ q[i] \in Retirals(k) /\ q[i] \notin X
         /\ Direct(k, serialize, phase, q[i]) \subseteq X
         /\ tc[i].op = OpOf(k, q[i]) /\ tc[i].bar = BarOf(k, q[i])
<1>1. Straight(k) /\ WorkDistinct(k)
  BY DEF OrderedBy
<1>2. call.serialize = serialize /\ Happened(k, X, q) /\ Queued(k, q)
  BY DEF Consistent
<1> DEFINE f == q[i]
<1>3. f \in Retirals(k) /\ f[3] < pc[f[2]]
  BY <1>2 DEF Queued
<1>4. /\ f[1] = "retire" /\ f[2] \in DOMAIN k.program /\ f[3] \in 1 .. Len(k.program[f[2]])
      /\ f[3] \in Nat /\ f[4] \in Nat
  BY <1>1, <1>3, RetiralParts
<1>5. f \notin X
  BY <1>2, <1>3 DEF Happened
<1>6. \A j \in DOMAIN tc : /\ q[j] \in Retirals(k) /\ q[j][1] = "retire"
                           /\ q[j][3] \in Nat /\ q[j][4] \in Nat
                           /\ tc[j].op = OpOf(k, q[j]) /\ tc[j].bar = BarOf(k, q[j])
  <2> SUFFICES ASSUME NEW j \in DOMAIN tc
               PROVE  /\ q[j] \in Retirals(k) /\ q[j][1] = "retire"
                      /\ q[j][3] \in Nat /\ q[j][4] \in Nat
                      /\ tc[j].op = OpOf(k, q[j]) /\ tc[j].bar = BarOf(k, q[j])
    OBVIOUS
  <2>1. q[j] \in Retirals(k) /\ tc[j] = At(k, q[j]).issue[q[j][4]]
    BY <1>2 DEF Queued
  <2>2. q[j][1] = "retire" /\ q[j][3] \in Nat /\ q[j][4] \in Nat
    BY <1>1, <2>1, RetiralParts
  <2> QED BY <2>1, <2>2 DEF OpOf, BarOf
<1>7. Execute(f[2], f[3]) \in X
  <2>1. Execute(f[2], f[3]) \in Instructions(k) /\ Execute(f[2], f[3])[2] = f[2]
        /\ Execute(f[2], f[3])[3] = f[3]
    BY <1>1, <1>4, ExecuteParts
  <2> QED BY <1>2, <1>3, <2>1 DEF Happened
<1>8. ASSUME NEW e \in Retirals(k), QueuedBefore(e, f),
             serialize => BarOf(k, e) = None /\ BarOf(k, f) # None
      PROVE  e \in X
  <2>1. e[2] = f[2] /\ e[3] \in Nat /\ e[4] \in Nat
    BY <1>1, <1>3, RetiralParts DEF WorkDistinct
  <2>2. e[3] < pc[e[2]]
    <3>1. e[3] <= f[3]
      BY <1>4, <1>8, <2>1 DEF QueuedBefore
    <3>2. pc[f[2]] \in Nat
      <4>1. k.program[f[2]] \in Seq(ToSet(k.program[f[2]]))
        BY <1>1, <1>4 DEF Straight
      <4>2. pc[f[2]] \in 1 .. Len(k.program[f[2]]) + 1
        BY <1>4 DEF Consistent, Running
      <4> QED BY <4>1, <4>2
    <3> QED BY <1>3, <1>4, <2>1, <3>1, <3>2
  <2> SUFFICES ASSUME NEW j \in DOMAIN tc, q[j] = e PROVE FALSE
    BY <1>2, <2>2 DEF Happened
  <2>3. DOMAIN tc = 1 .. Len(tc) /\ Len(tc) \in Nat
    BY <1>2 DEF Queued
  <2>4. j < i
    <3>1. j # i
      BY <1>4, <1>8, <2>1 DEF QueuedBefore
    <3>2. ~(i < j)
      <4> SUFFICES ASSUME i < j PROVE FALSE
        OBVIOUS
      <4>1. QueuedBefore(f, e)
        BY <1>2 DEF Queued
      <4> QED BY <1>4, <1>8, <2>1, <4>1 DEF QueuedBefore
    <3> QED BY <2>3, <3>1, <3>2
  <2>5. i # 1 /\ j \in 1 .. i - 1
    BY <2>3, <2>4
  <2>6. call.serialize /\ (tc[i].bar # None => \A l \in 1 .. i - 1 : tc[l].bar # None)
    BY <2>5 DEF MayRetire
  <2>7. BarOf(k, e) = None /\ BarOf(k, f) # None
    BY <1>2, <1>8, <2>6
  <2>8. tc[j].bar = BarOf(k, e) /\ tc[i].bar = BarOf(k, f)
    BY <1>6
  <2> QED BY <2>5, <2>6, <2>7, <2>8
<1>9. Direct(k, serialize, phase, f) \subseteq X
  <2>1. Direct(k, serialize, phase, f) =
          {Execute(f[2], f[3])} \cup
          {e \in Retirals(k) : QueuedBefore(e, f)
             /\ (serialize => BarOf(k, e) = None /\ BarOf(k, f) # None)}
    BY <1>4 DEF Direct, Openers
  <2> QED BY <1>7, <1>8, <2>1
<1> QED BY <1>3, <1>5, <1>6, <1>9

\* The queue without its item i.
Without(q, i, n) == [j \in 1 .. n - 1 |-> q[IF j < i THEN j ELSE j + 1]]

LEMMA QueueInjective ==
  ASSUME NEW k, NEW q, Straight(k), Queued(k, q), NEW i \in DOMAIN tc, NEW j \in DOMAIN tc,
         q[i] = q[j]
  PROVE  i = j
<1>1. DOMAIN tc = 1 .. Len(tc) /\ Len(tc) \in Nat
  BY DEF Queued
<1>2. q[i] \in Retirals(k) /\ q[i][3] \in Nat /\ q[i][4] \in Nat
  BY RetiralParts DEF Queued
<1>3. ~QueuedBefore(q[i], q[i])
  BY <1>2 DEF QueuedBefore
<1>4. ~(i < j)
  BY <1>3 DEF Queued
<1>5. ~(j < i)
  BY <1>3 DEF Queued
<1> QED BY <1>1, <1>4, <1>5

\* An item of the tensor core's queue retires.
LEMMA RetireStep ==
  ASSUME NEW k, NEW serialize, NEW phase, NEW before, NEW X, NEW q,
         OrderedBy(k, serialize, phase, before),
         Consistent(k, serialize, phase, before, X, q), TensorCore
  PROVE  \E Y, p : Consistent(k, serialize, phase, before, Y, p)'
<1>1. Straight(k) /\ BarriersExist(k) /\ WorkDistinct(k)
  BY DEF OrderedBy
<1>2. /\ code = k /\ call.serialize = serialize /\ Happened(k, X, q) /\ Running(k)
      /\ Queued(k, q) /\ Noticed(k) /\ Counted(k, phase, X)
      /\ BarTypeOK(DOMAIN k.arrivals, DOMAIN k.program)
  BY DEF Consistent, Counted
<1>3. PICK i \in DOMAIN tc :
        /\ MayRetire(i) /\ tc' = RemoveAt(tc, i)
        /\ \/ tc[i].bar = None /\ mem' = After(tc[i].op) /\ UNCHANGED barVars
           \/ tc[i].bar # None /\ ArriveOn(tc[i].bar) /\ UNCHANGED mem
        /\ UNCHANGED <<call, code, pc, copies>>
  BY DEF TensorCore
<1>0. PICK n : n = Len(tc)
  OBVIOUS
<1> DEFINE f == q[i]  Y == X \cup {f}  p == Without(q, i, n)
<1>4. /\ f \in Retirals(k) /\ f \notin X /\ Direct(k, serialize, phase, f) \subseteq X
      /\ tc[i].op = OpOf(k, f) /\ tc[i].bar = BarOf(k, f)
  BY <1>3, MayRetireSettled
<1>5. f[1] = "retire" /\ f \in Events(k)
  BY <1>1, <1>4, RetiralParts
<1>6. BarOf(k, f) # None => BarOf(k, f) \in DOMAIN k.arrivals /\ OpOf(k, f) = NoOp
  BY <1>1, <1>4, <1>5 DEF BarriersExist, WorkDistinct
<1>7. /\ BarTypeOK(DOMAIN k.arrivals, DOMAIN k.program)' /\ UNCHANGED seen
      /\ \A d \in DOMAIN k.arrivals : done'[d] \in Nat /\ done[d] \in Nat /\ done'[d] >= done[d]
  <2>1. CASE UNCHANGED barVars
    <3>1. UNCHANGED <<left, done, seen>>
      BY <2>1 DEF barVars
    <3>2. \A d \in DOMAIN k.arrivals : done[d] \in Nat
      BY <1>2 DEF BarTypeOK
    <3> QED BY <1>2, <3>1, <3>2 DEF BarTypeOK
  <2>2. CASE tc[i].bar # None /\ ArriveOn(tc[i].bar)
    BY <1>1, <1>2, <1>4, <1>6, <2>2, ArriveType
  <2> QED BY <1>3, <2>1, <2>2
<1>8. \/ mem' = After(OpOf(k, f))
      \/ OpOf(k, f) = NoOp /\ mem' = mem
  BY <1>3, <1>4, <1>6
<1>9. \/ BarOf(k, f) = None /\ UNCHANGED <<left, done>>
      \/ BarOf(k, f) # None /\ ArriveOn(BarOf(k, f))
  BY <1>3, <1>4 DEF barVars
<1>10. /\ Closed(before, X \cup {f}) /\ Counted(k, phase, X \cup {f})'
       /\ Remembered(k, before, X \cup {f})'
  <2> HIDE DEF f
  <2> QED BY <1>4, <1>5, <1>7, <1>8, <1>9, Happens
<1>11. Noticed(k)'
  BY <1>1, <1>2, <1>3, <1>7, NoticedStays
<1>12. /\ tc \in Seq(Range(tc)) /\ n \in Nat \ {0} /\ DOMAIN tc = 1 .. n
       /\ DOMAIN tc' = 1 .. n - 1 /\ tc' \in Seq(Range(tc'))
       /\ \A j \in 1 .. n - 1 : tc'[j] = tc[IF j < i THEN j ELSE j + 1]
  <2>1. tc \in Seq(Range(tc))
    BY <1>2 DEF Queued
  <2>2. /\ tc' \in Seq(Range(tc)) /\ Len(tc') = Len(tc) - 1 /\ Len(tc) \in Nat \ {0}
        /\ DOMAIN tc = 1 .. Len(tc) /\ DOMAIN tc' = 1 .. Len(tc) - 1
        /\ \A j \in DOMAIN tc' : tc'[j] = tc[IF j < i THEN j ELSE j + 1]
    BY <1>3, <2>1, Removed
  <2>3. tc' \in Seq(Range(tc'))
    BY <2>2, InItsRange
  <2> QED BY <1>0, <2>1, <2>2, <2>3
<1>13. /\ \A j \in 1 .. n - 1 : \E m \in 1 .. n :
            m = (IF j < i THEN j ELSE j + 1) /\ m # i /\ p[j] = q[m] /\ tc'[j] = tc[m]
       /\ \A m \in 1 .. n : m # i => \E j \in 1 .. n - 1 : p[j] = q[m]
  <2>0. i \in 1 .. n
    BY <1>12
  <2>1. ASSUME NEW j \in 1 .. n - 1
        PROVE  \E m \in 1 .. n : m = (IF j < i THEN j ELSE j + 1) /\ m # i
                                  /\ p[j] = q[m] /\ tc'[j] = tc[m]
    <3>1. (IF j < i THEN j ELSE j + 1) \in 1 .. n /\ (IF j < i THEN j ELSE j + 1) # i
      BY <1>12, <2>0
    <3> QED BY <1>12, <3>1 DEF Without
  <2>2. ASSUME NEW m \in 1 .. n, m # i PROVE \E j \in 1 .. n - 1 : p[j] = q[m]
    <3>1. CASE m < i
      <4>1. m \in 1 .. n - 1
        BY <1>12, <2>0, <3>1
      <4> QED BY <3>1, <4>1 DEF Without
    <3>2. CASE ~(m < i)
      <4>1. m - 1 \in 1 .. n - 1 /\ ~(m - 1 < i) /\ (m - 1) + 1 = m
        BY <1>12, <2>0, <2>2, <3>2
      <4> QED BY <4>1 DEF Without
    <3> QED BY <3>1, <3>2
  <2> QED BY <2>1, <2>2
<1>14. Happened(k, Y, p)'
  <2>1. Y \subseteq Events(k)
    BY <1>2, <1>5 DEF Happened
  <2>2. \A e \in Instructions(k) : e \in Y <=> e[3] < pc'[e[2]]
    <3>1. \A e \in Instructions(k) : e # f
      BY <1>1, <1>5, InstructionParts
    <3> QED BY <1>2, <1>3, <3>1 DEF Happened
  <2>3. \A e \in Landings(k) : e \in Y <=> e[3] < pc'[e[2]] /\ e[4] \notin copies'
    <3>1. \A e \in Landings(k) : e # f
      BY <1>1, <1>5, LandingParts
    <3> QED BY <1>2, <1>3, <3>1 DEF Happened
  <2>4. \A e \in Retirals(k) :
          e \in Y <=> e[3] < pc'[e[2]] /\ \A j \in DOMAIN tc' : p[j] # e
    <3> SUFFICES ASSUME NEW e \in Retirals(k)
                 PROVE  e \in Y <=> e[3] < pc[e[2]] /\ \A j \in 1 .. n - 1 : p[j] # e
      BY <1>3, <1>12
    <3> HIDE DEF p
    <3>1. e \in X <=> e[3] < pc[e[2]] /\ \A m \in 1 .. n : q[m] # e
      BY <1>2, <1>12 DEF Happened
    <3>2. CASE e = f
      <4>1. \A m \in 1 .. n : q[m] = f => m = i
        BY <1>1, <1>2, <1>12, QueueInjective
      <4>2. \A j \in 1 .. n - 1 : p[j] # f
        BY <1>13, <4>1
      <4>3. f[3] < pc[f[2]]
        BY <1>2 DEF Queued
      <4> QED BY <3>2, <4>2, <4>3
    <3>3. CASE e # f
      <4>1. (\A m \in 1 .. n : q[m] # e) <=> (\A j \in 1 .. n - 1 : p[j] # e)
        BY <1>13, <3>3
      <4> QED BY <3>1, <3>3, <4>1
    <3> QED BY <3>2, <3>3
  <2> HIDE DEF Y, p
  <2> QED BY <2>1, <2>2, <2>3, <2>4 DEF Happened
<1>15. Running(k)'
  BY <1>2, <1>3 DEF Running
<1>16. Queued(k, p)'
  <2> HIDE DEF p
  <2>1. \A j \in DOMAIN tc' : /\ p[j] \in Retirals(k) /\ p[j][3] < pc'[p[j][2]]
                              /\ tc'[j] = At(k, p[j]).issue[p[j][4]]
    <3> SUFFICES ASSUME NEW j \in DOMAIN tc'
                 PROVE  /\ p[j] \in Retirals(k) /\ p[j][3] < pc[p[j][2]]
                        /\ tc'[j] = At(k, p[j]).issue[p[j][4]]
      BY <1>3
    <3>1. PICK m \in 1 .. n : p[j] = q[m] /\ tc'[j] = tc[m]
      BY <1>12, <1>13
    <3> QED BY <1>2, <1>12, <3>1 DEF Queued
  <2>2. ASSUME NEW j \in DOMAIN tc', NEW l \in DOMAIN tc', j < l
        PROVE  QueuedBefore(p[j], p[l])
    <3>1. PICK m \in 1 .. n : m = (IF j < i THEN j ELSE j + 1) /\ p[j] = q[m]
      BY <1>12, <1>13
    <3>2. PICK r \in 1 .. n : r = (IF l < i THEN l ELSE l + 1) /\ p[l] = q[r]
      BY <1>12, <1>13
    <3>3. m < r
      BY <1>12, <2>2, <3>1, <3>2
    <3> QED BY <1>2, <1>12, <3>1, <3>2, <3>3 DEF Queued
  <2> QED BY <1>12, <2>1, <2>2 DEF Queued
<1>17. Consistent(k, serialize, phase, before, Y, p)'
  BY <1>2, <1>3, <1>10, <1>11, <1>14, <1>15, <1>16 DEF Consistent
<1> QED BY <1>17

\* The instruction that thread w executes next.
LEMMA NextInstruction ==
  ASSUME NEW k, Straight(k), Running(k), code = k, NEW w \in Threads, ~Ended(w)
  PROVE  /\ w \in DOMAIN k.program /\ pc[w] \in 1 .. Len(k.program[w]) /\ pc[w] \in Nat \ {0}
         /\ Len(k.program[w]) \in Nat
         /\ Instruction(w) = k.program[w][pc[w]]
<1>1. w \in DOMAIN k.program /\ k.program[w] \in Seq(ToSet(k.program[w]))
  BY DEF Threads, Straight
<1>2. pc[w] \in 1 .. Len(k.program[w]) + 1 /\ Len(k.program[w]) \in Nat
  BY <1>1 DEF Running
<1>3. ~(pc[w] > Len(k.program[w]))
  BY DEF Ended, Program
<1> QED BY <1>1, <1>2, <1>3 DEF Instruction, Program

\* All that precedes the next instruction has happened, the phase it awaits
\* included if it may pass.
LEMMA NextSettled ==
  ASSUME NEW k, NEW serialize, NEW phase, NEW before, NEW X, NEW q,
         OrderedBy(k, serialize, phase, before),
         Consistent(k, serialize, phase, before, X, q),
         NEW w \in Threads, ~Ended(w)
  PROVE  LET f == Execute(w, pc[w]) IN
         /\ f \in Instructions(k) /\ f \in Events(k) /\ f \notin X
         /\ Openers(f) \subseteq X
         /\ OpOf(k, f) = Instruction(w).op /\ BarOf(k, f) = Instruction(w).arrive
         /\ (Instruction(w).await # None =>
               done[Instruction(w).await] % 2 # seen[w][Instruction(w).await] % 2)
              => Direct(k, serialize, phase, f) \subseteq X
<1> DEFINE f == Execute(w, pc[w])  i == Instruction(w)
<1>1. Straight(k) /\ BarriersExist(k) /\ PhasesAwaited(k, phase, before)
  BY DEF OrderedBy
<1>2. /\ code = k /\ Happened(k, X, q) /\ Running(k) /\ Noticed(k) /\ Counted(k, phase, X)
      /\ Closed(before, X)
  BY DEF Consistent
<1>3. /\ w \in DOMAIN k.program /\ pc[w] \in 1 .. Len(k.program[w]) /\ pc[w] \in Nat \ {0}
      /\ Len(k.program[w]) \in Nat
      /\ i = k.program[w][pc[w]]
  BY <1>1, <1>2, NextInstruction
<1>4. /\ f \in Instructions(k) /\ f \in Events(k) /\ At(k, f) = i
      /\ f[1] = "execute" /\ f[2] = w /\ f[3] = pc[w]
  BY <1>1, <1>3, ExecuteParts
<1> HIDE DEF i
<1>5. f \notin X
  BY <1>2, <1>3, <1>4 DEF Happened
<1>6. OpOf(k, f) = i.op /\ BarOf(k, f) = i.arrive
  BY <1>4 DEF OpOf, BarOf
<1> HIDE DEF f
<1>7. Openers(f) \subseteq X
  <2>1. CASE pc[w] > 1
    <3>1. Openers(f) = {Execute(w, pc[w] - 1)}
      BY <1>4, <2>1 DEF Openers
    <3>2. pc[w] - 1 \in 1 .. Len(k.program[w]) /\ pc[w] - 1 < pc[w]
      BY <1>3, <2>1
    <3>3. /\ Execute(w, pc[w] - 1) \in Instructions(k) /\ Execute(w, pc[w] - 1)[2] = w
          /\ Execute(w, pc[w] - 1)[3] = pc[w] - 1
      BY <1>1, <1>3, <3>2, ExecuteParts
    <3>4. Execute(w, pc[w] - 1) \in X
      BY <1>2, <3>2, <3>3 DEF Happened
    <3> QED BY <3>1, <3>4
  <2>2. CASE ~(pc[w] > 1)
    BY <1>4, <2>2 DEF Openers
  <2> QED BY <2>1, <2>2
<1>8. ASSUME i.await # None => done[i.await] % 2 # seen[w][i.await] % 2
      PROVE  Direct(k, serialize, phase, f) \subseteq X
  <2>1. Direct(k, serialize, phase, f) =
          Openers(f) \cup {a \in ArrivalsOn(k, i.await) :
            i.await # None /\ phase[a] = Awaited(k, w, i.await, pc[w])}
    BY <1>4 DEF Direct
  <2>2. ASSUME NEW a \in ArrivalsOn(k, i.await), i.await # None,
               phase[a] = Awaited(k, w, i.await, pc[w])
        PROVE  a \in X
    <3>1. i.await \in k.awaits[w] /\ i.await \in DOMAIN k.arrivals
      BY <1>1, <1>3, <1>4, <2>2 DEF BarriersExist
    <3>2. Lag(w, i.await) \in {0, 1}
      BY <1>1, <1>2, <1>3, <3>1, LagBound
    <3>3. done[i.await] \in Nat /\ seen[w][i.await] \in Nat
      BY <1>2, <1>3, <3>1 DEF Counted, BarTypeOK
    <3>4. done[i.await] > seen[w][i.await]
      BY <1>8, <2>2, <3>2, <3>3 DEF Lag
    <3>5. phase[a] < done[i.await]
      BY <1>2, <1>3, <2>2, <3>1, <3>4 DEF Noticed
    <3> QED BY <1>2, <3>1, <3>5 DEF Counted
  <2> QED BY <1>7, <2>1, <2>2
<1> QED BY <1>4, <1>5, <1>6, <1>7, <1>8 DEF f, i

LEMMA Appended ==
  ASSUME NEW S, NEW T, NEW t \in Seq(S), NEW u \in Seq(T), NEW v, v = t \o u
  PROVE  /\ v \in Seq(Range(v)) /\ Len(t) \in Nat /\ Len(u) \in Nat
         /\ DOMAIN t = 1 .. Len(t) /\ DOMAIN u = 1 .. Len(u)
         /\ DOMAIN v = 1 .. Len(t) + Len(u)
         /\ \A j \in 1 .. Len(t) : v[j] = t[j]
         /\ \A j \in 1 .. Len(u) : v[Len(t) + j] = u[j]
<1>1. t \in Seq(S \cup T) /\ u \in Seq(S \cup T)
  OBVIOUS
<1>2. /\ v \in Seq(S \cup T) /\ Len(v) = Len(t) + Len(u)
      /\ Len(t) \in Nat /\ Len(u) \in Nat
  BY <1>1
<1>3. v \in Seq(Range(v))
  BY <1>2, InItsRange
<1>4. DOMAIN t = 1 .. Len(t) /\ DOMAIN u = 1 .. Len(u) /\ DOMAIN v = 1 .. Len(t) + Len(u)
  BY <1>1, <1>2
<1>5. \A j \in 1 .. Len(t) + Len(u) : v[j] = IF j <= Len(t) THEN t[j] ELSE u[j - Len(t)]
  BY <1>1, <1>2
<1>6. \A j \in 1 .. Len(t) : v[j] = t[j]
  BY <1>2, <1>5
<1>7. ASSUME NEW j \in 1 .. Len(u) PROVE v[Len(t) + j] = u[j]
  <2>1. /\ Len(t) + j \in 1 .. Len(t) + Len(u) /\ ~(Len(t) + j <= Len(t))
        /\ (Len(t) + j) - Len(t) = j
    BY <1>2
  <2> QED BY <1>5, <2>1
<1> QED BY <1>2, <1>3, <1>4, <1>6, <1>7

\* The queue after instruction v of thread w has issued m items.
With(q, n, w, v, m) == [j \in 1 .. n + m |-> IF j <= n THEN q[j] ELSE Retire(w, v, j - n)]

LEMMA WithParts ==
  ASSUME NEW q, NEW n \in Nat, NEW w, NEW v, NEW m \in Nat
  PROVE  /\ \A j \in 1 .. n : With(q, n, w, v, m)[j] = q[j]
         /\ \A j \in 1 .. m : With(q, n, w, v, m)[n + j] = Retire(w, v, j)
         /\ \A j \in 1 .. n + m : j \in 1 .. n \/ (j - n \in 1 .. m /\ j = n + (j - n))
<1>1. \A j \in 1 .. n : j \in 1 .. n + m /\ j <= n
  OBVIOUS
<1>2. \A j \in 1 .. m : n + j \in 1 .. n + m /\ ~(n + j <= n) /\ (n + j) - n = j
  OBVIOUS
<1>3. \A j \in 1 .. n + m : j \in 1 .. n \/ (j - n \in 1 .. m /\ j = n + (j - n))
  OBVIOUS
<1> QED BY <1>1, <1>2, <1>3 DEF With

\* A thread executes an instruction.
LEMMA ExecuteStep ==
  ASSUME NEW k, NEW serialize, NEW phase, NEW before, NEW X, NEW q,
         OrderedBy(k, serialize, phase, before),
         Consistent(k, serialize, phase, before, X, q), NEW w \in Threads, Step(w)
  PROVE  \E Y, p : Consistent(k, serialize, phase, before, Y, p)'
<1>0. PICK n, v, i : n = Len(tc) /\ v = pc[w] /\ i = Instruction(w)
  OBVIOUS
<1>1. Straight(k) /\ BarriersExist(k) /\ WorkDistinct(k)
  BY DEF OrderedBy
<1>2. /\ code = k /\ call.serialize = serialize /\ Happened(k, X, q) /\ Running(k)
      /\ Queued(k, q) /\ Noticed(k) /\ Counted(k, phase, X)
      /\ BarTypeOK(DOMAIN k.arrivals, DOMAIN k.program)
  BY DEF Consistent, Counted
<1>3. /\ ~Ended(w)
      /\ \/ i.await # None /\ Await(w, i.await)
         \/ i.arrive # None /\ ArriveOn(i.arrive)
         \/ i.await = None /\ i.arrive = None /\ UNCHANGED barVars
      /\ mem' = After(i.op) /\ copies' = copies \cup i.copies /\ tc' = tc \o i.issue
      /\ pc' = [pc EXCEPT ![w] = v + 1] /\ UNCHANGED <<call, code>>
  BY <1>0 DEF Step
<1>4. /\ w \in DOMAIN k.program /\ v \in 1 .. Len(k.program[w]) /\ v \in Nat \ {0}
      /\ Len(k.program[w]) \in Nat /\ i = k.program[w][v]
  BY <1>0, <1>1, <1>2, <1>3, NextInstruction
<1> DEFINE f == Execute(w, v)  Y == X \cup {f}
<1>5. /\ f \in Instructions(k) /\ f \in Events(k) /\ f \notin X
      /\ OpOf(k, f) = i.op /\ BarOf(k, f) = i.arrive
      /\ (i.await # None => done[i.await] % 2 # seen[w][i.await] % 2)
           => Direct(k, serialize, phase, f) \subseteq X
  BY <1>0, <1>3, NextSettled
<1>6. At(k, f) = i /\ f[1] = "execute" /\ f[2] = w /\ f[3] = v
  BY <1>1, <1>4, ExecuteParts
<1> HIDE DEF f
<1>7. /\ i.await # None => /\ i.await \in k.awaits[w] /\ i.await \in DOMAIN k.arrivals
                           /\ i.arrive = None
      /\ i.arrive # None => i.arrive \in DOMAIN k.arrivals
      /\ k.awaits[w] \subseteq DOMAIN k.arrivals
      /\ None \notin DOMAIN k.arrivals
  BY <1>1, <1>4, <1>5, <1>6 DEF BarriersExist
<1>8. Direct(k, serialize, phase, f) \subseteq X
  BY <1>3, <1>5, <1>7 DEF Await
\* The barriers and the phases seen.
<1>9. /\ BarTypeOK(DOMAIN k.arrivals, DOMAIN k.program)'
      /\ \/ BarOf(k, f) = None /\ UNCHANGED <<left, done>>
         \/ BarOf(k, f) # None /\ ArriveOn(BarOf(k, f))
      /\ \A d \in DOMAIN k.arrivals : done'[d] \in Nat /\ done[d] \in Nat /\ done'[d] >= done[d]
      /\ \A u \in DOMAIN k.program : \A d \in DOMAIN k.arrivals :
           seen'[u][d] = IF u = w /\ d = i.await THEN seen[u][d] + 1 ELSE seen[u][d]
  <2>0. \A d \in DOMAIN k.arrivals : done[d] \in Nat
    BY <1>2 DEF BarTypeOK
  <2>1. CASE i.await # None /\ Await(w, i.await)
    <3>1. /\ BarTypeOK(DOMAIN k.arrivals, DOMAIN k.program)' /\ UNCHANGED <<left, done>>
          /\ seen'[w][i.await] = seen[w][i.await] + 1
          /\ \A u \in DOMAIN k.program : \A d \in DOMAIN k.arrivals :
               (u # w \/ d # i.await) => seen'[u][d] = seen[u][d]
      BY <1>2, <1>4, <1>7, <2>1, AwaitType
    <3> QED BY <1>5, <1>7, <2>0, <2>1, <3>1
  <2>2. CASE i.arrive # None /\ ArriveOn(i.arrive)
    <3>1. /\ BarTypeOK(DOMAIN k.arrivals, DOMAIN k.program)' /\ UNCHANGED seen
          /\ \A d \in DOMAIN k.arrivals : done'[d] \in Nat /\ done[d] \in Nat /\ done'[d] >= done[d]
      BY <1>1, <1>2, <1>7, <2>2, ArriveType
    <3>2. i.await = None
      BY <1>7, <2>2
    <3> QED BY <1>5, <1>7, <2>2, <3>1, <3>2
  <2>3. CASE i.await = None /\ i.arrive = None /\ UNCHANGED barVars
    <3>1. UNCHANGED <<left, done, seen>>
      BY <2>3 DEF barVars
    <3>2. BarTypeOK(DOMAIN k.arrivals, DOMAIN k.program)'
      BY <1>2, <3>1 DEF BarTypeOK
    <3> QED BY <1>5, <1>7, <2>0, <2>3, <3>1, <3>2
  <2> QED BY <1>3, <2>1, <2>2, <2>3
<1>10. /\ Closed(before, X \cup {f}) /\ Counted(k, phase, X \cup {f})'
       /\ Remembered(k, before, X \cup {f})'
  <2>1. mem' = After(OpOf(k, f))
    BY <1>3, <1>5
  <2> QED BY <1>5, <1>8, <1>9, <2>1, Happens
\* The threads.
<1>11. /\ DOMAIN pc = DOMAIN k.program /\ DOMAIN pc' = DOMAIN k.program
       /\ pc'[w] = v + 1 /\ \A u \in DOMAIN k.program : u # w => pc'[u] = pc[u]
  BY <1>2, <1>3, <1>4 DEF Running
<1>12. Noticed(k)'
  <2> SUFFICES ASSUME NEW u \in DOMAIN k.program, NEW d \in k.awaits[u]
               PROVE  seen'[u][d] = Awaited(k, u, d, pc'[u]) /\ seen'[u][d] <= done'[d]
    BY DEF Noticed
  <2>1. /\ d \in DOMAIN k.arrivals /\ done[d] \in Nat /\ done'[d] \in Nat /\ done'[d] >= done[d]
        /\ seen[u][d] \in Nat /\ seen[u][d] = Awaited(k, u, d, pc[u]) /\ seen[u][d] <= done[d]
    BY <1>1, <1>2, <1>9 DEF BarriersExist, BarTypeOK, Noticed
  <2>2. CASE u = w /\ d = i.await
    <3>1. Awaited(k, u, d, v + 1) = Awaited(k, u, d, v) + 1
      BY <1>4, <2>2, AwaitedNext
    <3>2. seen'[u][d] = seen[u][d] + 1
      BY <1>9, <2>1, <2>2
    <3>3. i.await # None /\ i.arrive = None
      BY <1>7, <2>1, <2>2
    <3>4. done[d] % 2 # seen[u][d] % 2
      BY <1>3, <2>2, <3>3 DEF Await
    <3>5. seen[u][d] # done[d]
      BY <3>4
    <3> QED BY <1>0, <1>11, <2>1, <2>2, <3>1, <3>2, <3>5
  <2>3. CASE ~(u = w /\ d = i.await)
    <3>1. seen'[u][d] = seen[u][d]
      BY <1>9, <2>1, <2>3
    <3>2. Awaited(k, u, d, pc'[u]) = Awaited(k, u, d, pc[u])
      <4>1. CASE u # w
        BY <1>11, <4>1
      <4>2. CASE u = w
        <5>1. k.program[u][v].await # d
          BY <1>4, <2>3, <4>2
        <5>2. Awaited(k, u, d, v + 1) = Awaited(k, u, d, v)
          BY <1>4, <5>1, AwaitedNext
        <5> QED BY <1>0, <1>11, <4>2, <5>2
      <4> QED BY <4>1, <4>2
    <3> QED BY <2>1, <3>1, <3>2
  <2> QED BY <2>2, <2>3
<1>13. \A u \in DOMAIN k.program : pc[u] \in Nat /\ pc'[u] \in Nat /\ pc'[u] >= pc[u]
  <2> SUFFICES ASSUME NEW u \in DOMAIN k.program
               PROVE  pc[u] \in Nat /\ pc'[u] \in Nat /\ pc'[u] >= pc[u]
    OBVIOUS
  <2>1. k.program[u] \in Seq(ToSet(k.program[u]))
    BY <1>1 DEF Straight
  <2>2. pc[u] \in Nat
    BY <1>2, <2>1 DEF Running
  <2> QED BY <1>0, <1>4, <1>11, <2>2
<1>14. Running(k)'
  <2>1. \A u \in DOMAIN k.program : pc'[u] \in 1 .. Len(k.program[u]) + 1
    <3> SUFFICES ASSUME NEW u \in DOMAIN k.program
                 PROVE  pc'[u] \in 1 .. Len(k.program[u]) + 1
      OBVIOUS
    <3>1. CASE u = w
      BY <1>4, <1>11, <3>1
    <3>2. CASE u # w
      BY <1>2, <1>11, <3>2 DEF Running
    <3> QED BY <3>1, <3>2
  <2>2. ASSUME NEW x \in copies' PROVE \E e \in Landings(k) : e[4] = x /\ e[3] < pc'[e[2]]
    <3>1. CASE x \in copies
      <4>1. PICK e \in Landings(k) : e[4] = x /\ e[3] < pc[e[2]]
        BY <1>2, <3>1 DEF Running
      <4>2. e[2] \in DOMAIN k.program /\ e[3] \in Nat
        BY <1>1, <4>1, LandingParts
      <4>3. e[3] < pc'[e[2]]
        BY <1>13, <4>1, <4>2
      <4> QED BY <4>1, <4>3
    <3>2. CASE x \in i.copies
      <4>1. /\ Land(w, v, x) \in Landings(k) /\ Land(w, v, x)[2] = w
            /\ Land(w, v, x)[3] = v /\ Land(w, v, x)[4] = x
        BY <1>1, <1>4, <3>2, LandParts
      <4>2. v < pc'[w]
        BY <1>4, <1>11
      <4> QED BY <4>1, <4>2
    <3> QED BY <1>3, <3>1, <3>2
  <2> QED BY <1>11, <2>1, <2>2 DEF Running
\* The queue.
<1>15. PICK m : m = Len(i.issue)
  OBVIOUS
<1> DEFINE p == With(q, n, w, v, m)
<1>16. /\ tc' \in Seq(Range(tc')) /\ n \in Nat /\ m \in Nat
       /\ DOMAIN tc = 1 .. n /\ DOMAIN i.issue = 1 .. m /\ DOMAIN tc' = 1 .. n + m
       /\ \A j \in 1 .. n : tc'[j] = tc[j]
       /\ \A j \in 1 .. m : tc'[n + j] = i.issue[j]
  <2>1. tc \in Seq(Range(tc)) /\ i.issue \in Seq(ToSet(i.issue))
    BY <1>1, <1>2, <1>5, <1>6 DEF Queued, Straight
  <2>2. /\ tc' \in Seq(Range(tc')) /\ Len(tc) \in Nat /\ Len(i.issue) \in Nat
        /\ DOMAIN tc = 1 .. Len(tc) /\ DOMAIN i.issue = 1 .. Len(i.issue)
        /\ DOMAIN tc' = 1 .. Len(tc) + Len(i.issue)
        /\ \A j \in 1 .. Len(tc) : tc'[j] = tc[j]
        /\ \A j \in 1 .. Len(i.issue) : tc'[Len(tc) + j] = i.issue[j]
    <3>1. tc' = tc \o i.issue
      BY <1>3
    <3> DEFINE S == Range(tc)  T == ToSet(i.issue)
    <3>2. tc \in Seq(S) /\ i.issue \in Seq(T)
      BY <2>1
    <3> HIDE DEF S, T
    <3>3. tc' \in Seq(Range(tc')) /\ Len(tc) \in Nat /\ Len(i.issue) \in Nat
      <4>1. tc' \in Seq(S \cup T)
        BY <3>1, <3>2
      <4>2. tc' \in Seq(Range(tc'))
        BY <4>1, InItsRange
      <4> QED BY <3>2, <4>2
    <3>5. DOMAIN tc = 1 .. Len(tc) /\ DOMAIN i.issue = 1 .. Len(i.issue)
      BY <3>2
    <3>6. DOMAIN tc' = 1 .. Len(tc) + Len(i.issue)
      BY <3>1, <3>2, Appended
    <3>7. \A j \in 1 .. Len(tc) : tc'[j] = tc[j]
      BY <3>1, <3>2, Appended
    <3>4. ASSUME NEW j \in 1 .. Len(i.issue) PROVE tc'[Len(tc) + j] = i.issue[j]
      BY <3>1, <3>2, Appended
    <3> QED BY <3>3, <3>4, <3>5, <3>6, <3>7
  <2> QED BY <1>0, <1>15, <2>2
<1>17. /\ \A j \in 1 .. n : p[j] = q[j]
       /\ \A j \in 1 .. m : p[n + j] = Retire(w, v, j)
       /\ \A j \in 1 .. n + m : j \in 1 .. n \/ (j - n \in 1 .. m /\ j = n + (j - n))
  <2>1. n \in Nat /\ m \in Nat
    BY <1>16
  <2>2. \A j \in 1 .. n : With(q, n, w, v, m)[j] = q[j]
    BY <2>1, WithParts
  <2>3. \A j \in 1 .. m : With(q, n, w, v, m)[n + j] = Retire(w, v, j)
    <3> SUFFICES ASSUME NEW j \in 1 .. m PROVE With(q, n, w, v, m)[n + j] = Retire(w, v, j)
      OBVIOUS
    <3>1. n + j \in 1 .. n + m /\ ~(n + j <= n) /\ (n + j) - n = j
      BY <2>1
    <3> QED BY <3>1 DEF With
  <2>4. \A j \in 1 .. n + m : j \in 1 .. n \/ (j - n \in 1 .. m /\ j = n + (j - n))
    BY <2>1
  <2> QED BY <2>2, <2>3, <2>4 DEF p
<1> HIDE DEF p
<1>18. \A j \in 1 .. m : /\ Retire(w, v, j) \in Retirals(k) /\ Retire(w, v, j)[2] = w
                         /\ Retire(w, v, j)[3] = v /\ Retire(w, v, j)[4] = j
                         /\ At(k, Retire(w, v, j)) = i
  <2>1. i = k.program[w][v] /\ w \in DOMAIN k.program /\ v \in 1 .. Len(k.program[w])
    BY <1>4
  <2> SUFFICES ASSUME NEW j \in 1 .. m
               PROVE  /\ Retire(w, v, j) \in Retirals(k) /\ Retire(w, v, j)[2] = w
                      /\ Retire(w, v, j)[3] = v /\ Retire(w, v, j)[4] = j
                      /\ At(k, Retire(w, v, j)) = i
    OBVIOUS
  <2>2. j \in 1 .. Len(k.program[w][v].issue)
    BY <1>15, <2>1
  <2> QED BY <1>1, <2>1, <2>2, RetireParts
<1>19. ASSUME NEW j \in 1 .. n
       PROVE  q[j] \in Retirals(k) /\ q[j][3] < pc[q[j][2]] /\ q[j][3] \in Nat
              /\ q[j][2] \in DOMAIN k.program /\ tc[j] = At(k, q[j]).issue[q[j][4]]
  <2>1. q[j] \in Retirals(k) /\ q[j][3] < pc[q[j][2]] /\ tc[j] = At(k, q[j]).issue[q[j][4]]
    BY <1>2, <1>16 DEF Queued
  <2> QED BY <1>1, <2>1, RetiralParts
<1>20. Queued(k, p)'
  <2>1. ASSUME NEW j \in 1 .. n + m
        PROVE  /\ p[j] \in Retirals(k) /\ p[j][3] < pc'[p[j][2]]
               /\ tc'[j] = At(k, p[j]).issue[p[j][4]]
    <3>1. CASE j \in 1 .. n
      <4>1. p[j] = q[j] /\ tc'[j] = tc[j]
        BY <1>16, <1>17, <3>1
      <4> QED BY <1>13, <1>19, <3>1, <4>1
    <3>2. CASE j - n \in 1 .. m /\ j = n + (j - n)
      <4>1. p[j] = Retire(w, v, j - n) /\ tc'[j] = i.issue[j - n]
        BY <1>16, <1>17, <3>2
      <4>2. v < pc'[w]
        BY <1>4, <1>11
      <4> QED BY <1>18, <3>2, <4>1, <4>2
    <3> QED BY <1>17, <3>1, <3>2
  <2>2. ASSUME NEW j \in 1 .. n + m, NEW l \in 1 .. n + m, j < l
        PROVE  QueuedBefore(p[j], p[l])
    <3>1. CASE l \in 1 .. n
      <4>1. j \in 1 .. n /\ p[j] = q[j] /\ p[l] = q[l]
        BY <1>16, <1>17, <2>2, <3>1
      <4> QED BY <1>2, <1>16, <2>2, <3>1, <4>1 DEF Queued
    <3>2. CASE l - n \in 1 .. m /\ l = n + (l - n)
      <4>1. p[l] = Retire(w, v, l - n) /\ p[l] \in Retirals(k) /\ p[l][2] = w
            /\ p[l][3] = v /\ p[l][4] = l - n
        BY <1>17, <1>18, <3>2
      <4>2. CASE j \in 1 .. n
        <5>1. p[j] = q[j] /\ q[j][2] = w
          BY <1>1, <1>17, <1>19, <4>1, <4>2 DEF WorkDistinct
        <5>2. q[j][3] < v
          BY <1>0, <1>19, <4>2, <5>1
        <5> QED BY <4>1, <5>1, <5>2 DEF QueuedBefore
      <4>3. CASE j - n \in 1 .. m /\ j = n + (j - n)
        <5>1. p[j][3] = v /\ p[j][4] = j - n
          BY <1>17, <1>18, <4>3
        <5>2. j - n < l - n
          BY <1>16, <2>2
        <5> QED BY <4>1, <5>1, <5>2 DEF QueuedBefore
      <4> QED BY <1>17, <4>2, <4>3
    <3> QED BY <1>17, <3>1, <3>2
  <2> QED BY <1>16, <2>1, <2>2 DEF Queued
\* What has happened.
<1>21. Happened(k, Y, p)'
  <2>1. Y \subseteq Events(k)
    BY <1>2, <1>5 DEF Happened
  <2>2. ASSUME NEW e \in Instructions(k) PROVE e \in Y <=> e[3] < pc'[e[2]]
    <3>1. e[2] \in DOMAIN k.program /\ e[3] \in Nat /\ e = Execute(e[2], e[3])
      BY <1>1, InstructionParts
    <3>2. e \in X <=> e[3] < pc[e[2]]
      BY <1>2 DEF Happened
    <3>3. CASE e[2] # w
      BY <1>6, <1>11, <3>1, <3>2, <3>3
    <3>4. CASE e[2] = w
      <4>1. e = f <=> e[3] = v
        BY <1>6, <3>1, <3>4 DEF f
      <4> QED BY <1>0, <1>4, <1>11, <3>1, <3>2, <3>4, <4>1
    <3> QED BY <3>3, <3>4
  <2>3. ASSUME NEW e \in Landings(k)
        PROVE  e \in Y <=> e[3] < pc'[e[2]] /\ e[4] \notin copies'
    <3>1. /\ e[1] = "land" /\ e[2] \in DOMAIN k.program /\ e[3] \in Nat
          /\ e[4] \in k.program[e[2]][e[3]].copies /\ e = Land(e[2], e[3], e[4])
      BY <1>1, LandingParts
    <3>2. e \in X <=> e[3] < pc[e[2]] /\ e[4] \notin copies
      BY <1>2 DEF Happened
    <3>3. e # f
      BY <1>6, <3>1
    <3>4. CASE e[2] = w /\ e[3] = v
      <4>1. e[4] \in i.copies /\ e \notin X
        BY <1>0, <1>4, <3>1, <3>2, <3>4
      <4> QED BY <1>3, <3>3, <4>1
    <3>5. CASE ~(e[2] = w /\ e[3] = v)
      <4>1. e[4] \notin i.copies
        <5> SUFFICES ASSUME e[4] \in i.copies PROVE FALSE
          OBVIOUS
        <5>1. /\ Land(w, v, e[4]) \in Landings(k) /\ Land(w, v, e[4])[2] = w
              /\ Land(w, v, e[4])[3] = v /\ Land(w, v, e[4])[4] = e[4]
          BY <1>1, <1>4, LandParts
        <5>2. Land(w, v, e[4]) = e
          BY <1>1, <5>1 DEF WorkDistinct
        <5> QED BY <3>5, <5>1, <5>2
      <4>2. e[3] < pc'[e[2]] <=> e[3] < pc[e[2]]
        <5>1. CASE e[2] # w
          BY <1>11, <3>1, <5>1
        <5>2. CASE e[2] = w
          BY <1>0, <1>4, <1>11, <3>1, <3>5, <5>2
        <5> QED BY <5>1, <5>2
      <4> QED BY <1>3, <3>2, <3>3, <4>1, <4>2
    <3> QED BY <3>4, <3>5
  <2>4. ASSUME NEW e \in Retirals(k)
        PROVE  e \in Y <=> e[3] < pc'[e[2]] /\ \A j \in DOMAIN tc' : p[j] # e
    <3>1. /\ e[1] = "retire" /\ e[2] \in DOMAIN k.program /\ e[3] \in Nat
          /\ e[4] \in 1 .. Len(k.program[e[2]][e[3]].issue) /\ e = Retire(e[2], e[3], e[4])
      BY <1>1, RetiralParts
    <3>2. e \in X <=> e[3] < pc[e[2]] /\ \A j \in 1 .. n : q[j] # e
      BY <1>2, <1>16 DEF Happened
    <3>3. e # f
      BY <1>6, <3>1
    <3>4. CASE e[2] = w /\ e[3] = v
      <4>1. e \notin X
        BY <1>0, <1>4, <3>2, <3>4
      <4>2. e[4] \in 1 .. m
        BY <1>4, <1>15, <3>1, <3>4
      <4>3. p[n + e[4]] = e /\ n + e[4] \in 1 .. n + m
        BY <1>16, <1>17, <3>1, <3>4, <4>2
      <4> QED BY <1>16, <3>3, <4>1, <4>3
    <3>5. CASE ~(e[2] = w /\ e[3] = v)
      <4>1. \A j \in 1 .. m : p[n + j] # e
        BY <1>17, <1>18, <3>5
      <4>2. (\A j \in 1 .. n + m : p[j] # e) <=> (\A j \in 1 .. n : q[j] # e)
        <5>1. ASSUME \A j \in 1 .. n : q[j] # e, NEW j \in 1 .. n + m PROVE p[j] # e
          <6>1. CASE j \in 1 .. n
            BY <1>17, <5>1, <6>1
          <6>2. CASE j - n \in 1 .. m /\ j = n + (j - n)
            BY <4>1, <6>2
          <6> QED BY <1>17, <6>1, <6>2
        <5>2. \A j \in 1 .. n : j \in 1 .. n + m /\ p[j] = q[j]
          BY <1>16, <1>17
        <5> QED BY <5>1, <5>2
      <4>3. e[3] < pc'[e[2]] <=> e[3] < pc[e[2]]
        <5>1. CASE e[2] # w
          BY <1>11, <3>1, <5>1
        <5>2. CASE e[2] = w
          BY <1>0, <1>4, <1>11, <3>1, <3>5, <5>2
        <5> QED BY <5>1, <5>2
      <4> QED BY <1>16, <3>2, <3>3, <4>2, <4>3
    <3> QED BY <3>4, <3>5
  <2> HIDE DEF Y
  <2> QED BY <2>1, <2>2, <2>3, <2>4 DEF Happened
<1>22. Consistent(k, serialize, phase, before, Y, p)'
  BY <1>2, <1>3, <1>10, <1>12, <1>14, <1>20, <1>21 DEF Consistent
<1> QED BY <1>22
-----------------------------------------------------------------------------
\* The invariant holds when the CTA starts, and every step keeps it.
LEMMA OInvInit ==
  ASSUME Ordered(code, call), Start(code)
  PROVE  OInv
<1>1. PICK k, serialize, n : k = code /\ serialize = call.serialize /\ n = call.n
  OBVIOUS
<1>2. PICK phase, before : OrderedBy(k, serialize, phase, before) /\ RowsInOrder(k, n, before)
  BY <1>1 DEF Ordered
<1>3. Straight(k) /\ BarriersExist(k) /\ PhasesInOrder(k, phase, before)
  BY <1>2 DEF OrderedBy
<1>4. /\ pc = [w \in DOMAIN k.program |-> 1] /\ copies = {} /\ tc = <<>> /\ DOMAIN mem = {}
      /\ left = k.arrivals /\ done = [b \in DOMAIN k.arrivals |-> 0]
      /\ seen = [w \in DOMAIN k.program |-> [b \in DOMAIN k.arrivals |-> 0]]
  BY <1>1 DEF Start, InitBarriers, Threads
<1>5. Happened(k, {}, tc)
  <2>1. \A e \in Instructions(k) : e[2] \in DOMAIN k.program /\ e[3] \in Nat \ {0}
    BY <1>3, InstructionParts
  <2>2. \A e \in Landings(k) : e[2] \in DOMAIN k.program /\ e[3] \in Nat \ {0}
    BY <1>3, LandingParts
  <2>3. \A e \in Retirals(k) : e[2] \in DOMAIN k.program /\ e[3] \in Nat \ {0}
    BY <1>3, RetiralParts
  <2>4. \A w \in DOMAIN k.program : pc[w] = 1
    BY <1>4
  <2>5. \A m \in Nat \ {0} : ~(m < 1)
    OBVIOUS
  <2> QED BY <2>1, <2>2, <2>3, <2>4, <2>5 DEF Happened
<1>6. Running(k)
  <2>1. ASSUME NEW w \in DOMAIN k.program PROVE pc[w] \in 1 .. Len(k.program[w]) + 1
    <3>1. Len(k.program[w]) \in Nat
      BY <1>3 DEF Straight
    <3> QED BY <1>4, <3>1
  <2> QED BY <1>4, <2>1 DEF Running
<1>7. Queued(k, tc)
  <2>1. tc \in Seq(Range(tc)) /\ DOMAIN tc = {}
    BY <1>4
  <2> QED BY <2>1 DEF Queued
<1>8. Closed(before, {})
  BY DEF Closed
<1>9. Counted(k, phase, {})
  <2>1. BarTypeOK(DOMAIN k.arrivals, DOMAIN k.program)
    BY <1>3, <1>4 DEF BarTypeOK, BarriersExist
  <2>2. ASSUME NEW b \in DOMAIN k.arrivals
        PROVE  /\ \A a \in ArrivalsOn(k, b) : /\ phase[a] < done[b] => a \in {}
                                              /\ phase[a] > done[b] => a \notin {}
               /\ left[b] = k.arrivals[b] - Cardinality(Arrived(k, phase, b, {}))
               /\ done[b] > 0 => InPhase(k, phase, b, done[b] - 1) # {}
    <3>1. done[b] = 0 /\ left[b] = k.arrivals[b] /\ k.arrivals[b] \in Nat
      BY <1>3, <1>4 DEF BarriersExist
    <3>2. Arrived(k, phase, b, {}) = {}
      BY DEF Arrived
    <3>3. Cardinality(Arrived(k, phase, b, {})) = 0
      BY <3>2, FS_EmptySet
    <3>4. \A a \in ArrivalsOn(k, b) : phase[a] \in Nat
      BY <1>3 DEF PhasesInOrder
    <3>5. \A a \in ArrivalsOn(k, b) : ~(phase[a] < 0)
      BY <3>4
    <3> QED BY <3>1, <3>3, <3>5
  <2> QED BY <2>1, <2>2 DEF Counted
<1>10. Noticed(k)
  <2> SUFFICES ASSUME NEW w \in DOMAIN k.program, NEW b \in k.awaits[w]
               PROVE  seen[w][b] = Awaited(k, w, b, pc[w]) /\ seen[w][b] <= done[b]
    BY DEF Noticed
  <2>1. b \in DOMAIN k.arrivals
    BY <1>3 DEF BarriersExist
  <2>2. seen[w][b] = 0 /\ done[b] = 0 /\ pc[w] = 1
    BY <1>4, <2>1
  <2> QED BY <2>2, AwaitedFirst
<1>11. Remembered(k, before, {})
  BY <1>4 DEF Remembered
<1>12. PICK q : q = tc
  OBVIOUS
<1>13. Consistent(k, serialize, phase, before, {}, q)
  BY <1>1, <1>5, <1>6, <1>7, <1>8, <1>9, <1>10, <1>11, <1>12 DEF Consistent
<1> QED BY <1>1, <1>2, <1>13 DEF OInv

LEMMA OInvNext ==
  ASSUME OInv, [Next]_vars
  PROVE  OInv'
<1>1. PICK k, serialize, n, phase, before, X, q :
        /\ OrderedBy(k, serialize, phase, before) /\ RowsInOrder(k, n, before)
        /\ call.n = n /\ Consistent(k, serialize, phase, before, X, q)
  BY DEF OInv
<1>0. call' = call
  BY DEF Next, CopyEngine, TensorCore, Step, Exited, vars
<1> SUFFICES \E Y, p : Consistent(k, serialize, phase, before, Y, p)'
  BY <1>0, <1>1 DEF OInv
<1>2. CASE CopyEngine
  BY <1>1, <1>2, LandStep
<1>3. CASE TensorCore
  BY <1>1, <1>3, RetireStep
<1>4. ASSUME NEW w \in Threads, Step(w)
      PROVE  \E Y, p : Consistent(k, serialize, phase, before, Y, p)'
  BY <1>1, <1>4, ExecuteStep
<1>5. CASE UNCHANGED vars
  <2>1. UNCHANGED <<call, code, pc, copies, tc, mem, left, done, seen>>
    BY <1>5 DEF vars, barVars
  <2>2. /\ code = k /\ call.serialize = serialize
        /\ Happened(k, X, q) /\ Running(k) /\ Queued(k, q)
        /\ Closed(before, X) /\ Counted(k, phase, X) /\ Noticed(k) /\ Remembered(k, before, X)
    BY <1>1 DEF Consistent
  <2>3. Happened(k, X, q)'
    BY <2>1, <2>2 DEF Happened
  <2>4. Running(k)'
    BY <2>1, <2>2 DEF Running
  <2>5. Queued(k, q)'
    BY <2>1, <2>2 DEF Queued
  <2>6. Counted(k, phase, X)'
    <3>1. \A b : Arrived(k, phase, b, X)' = Arrived(k, phase, b, X)
      BY <2>1 DEF Arrived
    <3> QED BY <2>1, <2>2, <3>1 DEF Counted, BarTypeOK
  <2>7. Noticed(k)'
    BY <2>1, <2>2 DEF Noticed
  <2>8. Remembered(k, before, X)'
    BY <2>1, <2>2 DEF Remembered
  <2>9. Consistent(k, serialize, phase, before, X, q)'
    BY <2>1, <2>2, <2>3, <2>4, <2>5, <2>6, <2>7, <2>8 DEF Consistent
  <2> QED BY <2>9
<1> QED BY <1>2, <1>3, <1>4, <1>5 DEF Next, Exited

THEOREM OrderInvariant == OrderedSpec => []OInv
<1>1. Ordered(code, call) /\ Start(code) => OInv
  BY OInvInit
<1>2. OInv /\ [Next]_vars => OInv'
  BY OInvNext
<1> QED BY <1>1, <1>2, PTL DEF OrderedSpec
-----------------------------------------------------------------------------
\* An event that is open: what has to precede it has happened, it has not.
Open(before, X, e) == e \notin X /\ Settled(before, e) \subseteq X

LEMMA OpenSettled ==
  ASSUME NEW before, NEW X, NEW e, Closed(before, X), Openers(e) \subseteq X
  PROVE  Settled(before, e) \subseteq X
BY DEF Closed, Settled

LEMMA OpenThread ==
  ASSUME NEW k, NEW serialize, NEW phase, NEW before, NEW X, NEW q,
         OrderedBy(k, serialize, phase, before),
         Consistent(k, serialize, phase, before, X, q),
         NEW w \in Threads, ~Ended(w)
  PROVE  LET e == Execute(w, pc[w]) IN
         /\ e \in Instructions(k) /\ e \in Events(k) /\ Open(before, X, e)
         /\ OpOf(k, e) = ThreadOp(w) /\ e[1] = "execute" /\ e[2] = w
<1>1. LET e == Execute(w, pc[w]) IN
      /\ e \in Instructions(k) /\ e \in Events(k) /\ e \notin X /\ Openers(e) \subseteq X
      /\ OpOf(k, e) = Instruction(w).op
  BY NextSettled
<1>2. Closed(before, X)
  BY DEF Consistent
<1> QED BY <1>1, <1>2, OpenSettled DEF Open, ThreadOp, Execute

LEMMA OpenCopy ==
  ASSUME NEW k, NEW serialize, NEW phase, NEW before, NEW X, NEW q,
         OrderedBy(k, serialize, phase, before),
         Consistent(k, serialize, phase, before, X, q), NEW x \in copies
  PROVE  \E e \in Landings(k) :
           /\ e \in Events(k) /\ Open(before, X, e) /\ OpOf(k, e) = x.op
           /\ e[4] = x /\ x.bar \in DOMAIN k.arrivals /\ e[1] = "land"
<1>1. Straight(k) /\ BarriersExist(k)
  BY DEF OrderedBy
<1>2. Happened(k, X, q) /\ Running(k) /\ Closed(before, X)
  BY DEF Consistent
<1>3. PICK e \in Landings(k) : e[4] = x /\ e[3] < pc[e[2]]
  BY <1>2 DEF Running
<1>4. /\ e[1] = "land" /\ e[2] \in DOMAIN k.program
      /\ e[3] \in 1 .. Len(k.program[e[2]]) /\ e \in Events(k)
  BY <1>1, LandingParts
<1>5. e \notin X
  BY <1>2, <1>3 DEF Happened
<1>6. Openers(e) \subseteq X
  <2>1. Execute(e[2], e[3]) \in Instructions(k) /\ Execute(e[2], e[3])[2] = e[2]
        /\ Execute(e[2], e[3])[3] = e[3]
    BY <1>1, <1>4, ExecuteParts
  <2>2. Execute(e[2], e[3]) \in X
    BY <1>2, <1>3, <2>1 DEF Happened
  <2> QED BY <1>4, <2>2 DEF Openers
<1>7. OpOf(k, e) = x.op /\ BarOf(k, e) = x.bar
  BY <1>3, <1>4 DEF OpOf, BarOf
<1>8. x.bar \in DOMAIN k.arrivals
  BY <1>1, <1>4, <1>7 DEF BarriersExist
<1>9. Open(before, X, e)
  BY <1>2, <1>5, <1>6, OpenSettled DEF Open
<1> QED BY <1>3, <1>4, <1>7, <1>8, <1>9

LEMMA OpenItem ==
  ASSUME NEW k, NEW serialize, NEW phase, NEW before, NEW X, NEW q,
         OrderedBy(k, serialize, phase, before),
         Consistent(k, serialize, phase, before, X, q), NEW i \in DOMAIN tc
  PROVE  /\ q[i] \in Retirals(k) /\ q[i] \in Events(k) /\ Open(before, X, q[i])
         /\ OpOf(k, q[i]) = tc[i].op /\ q[i][1] = "retire"
         /\ tc[i].bar \in DOMAIN k.arrivals \cup {None}
<1>1. Straight(k) /\ BarriersExist(k)
  BY DEF OrderedBy
<1>2. Happened(k, X, q) /\ Queued(k, q) /\ Closed(before, X)
  BY DEF Consistent
<1> DEFINE e == q[i]
<1>3. e \in Retirals(k) /\ e[3] < pc[e[2]] /\ tc[i] = At(k, e).issue[e[4]]
  BY <1>2 DEF Queued
<1>4. /\ e[1] = "retire" /\ e[2] \in DOMAIN k.program
      /\ e[3] \in 1 .. Len(k.program[e[2]]) /\ e \in Events(k)
  BY <1>1, <1>3, RetiralParts
<1>5. e \notin X
  BY <1>2, <1>3 DEF Happened
<1>6. Openers(e) \subseteq X
  <2>1. Execute(e[2], e[3]) \in Instructions(k) /\ Execute(e[2], e[3])[2] = e[2]
        /\ Execute(e[2], e[3])[3] = e[3]
    BY <1>1, <1>4, ExecuteParts
  <2>2. Execute(e[2], e[3]) \in X
    BY <1>2, <1>3, <2>1 DEF Happened
  <2> QED BY <1>4, <2>2 DEF Openers
<1>7. OpOf(k, e) = tc[i].op /\ BarOf(k, e) = tc[i].bar
  BY <1>3, <1>4 DEF OpOf, BarOf
<1>8. tc[i].bar \in DOMAIN k.arrivals \cup {None}
  BY <1>1, <1>4, <1>7 DEF BarriersExist
<1>9. Open(before, X, e)
  BY <1>2, <1>5, <1>6, OpenSettled DEF Open
<1> QED BY <1>3, <1>4, <1>7, <1>8, <1>9

\* Events that are open together do not conflict, but for MMAs that the tensor
\* core keeps apart.
LEMMA OpenApart ==
  ASSUME NEW k, NEW serialize, NEW before, NEW X, Apart(k, serialize, before),
         NEW e \in Events(k), NEW f \in Events(k), e # f,
         Open(before, X, e), Open(before, X, f),
         ~serialize => ~(e \in Retirals(k) /\ f \in Retirals(k))
  PROVE  ~Conflict(OpOf(k, e), OpOf(k, f))
BY DEF Apart, Open

LEMMA NoOpApart ==
  ASSUME NEW o
  PROVE  ~Conflict(o, NoOp) /\ ~Conflict(NoOp, o)
BY DEF Conflict, Reads, Writes, NoOp, Op, NoCells

LEMMA OInvNoRace == OInv => NoRace
<1> SUFFICES ASSUME OInv PROVE NoRace
  OBVIOUS
<1>1. PICK k, serialize, phase, before, X, q :
        OrderedBy(k, serialize, phase, before)
          /\ Consistent(k, serialize, phase, before, X, q)
  BY DEF OInv
<1>2. /\ Apart(k, serialize, before) /\ Straight(k)
      /\ call.serialize = serialize /\ Queued(k, q)
  BY <1>1 DEF OrderedBy, Consistent
<1>3. ASSUME NEW x \in copies, NEW y \in copies \ {x} PROVE ~Conflict(x.op, y.op)
  <2>1. PICK e \in Landings(k) : /\ e \in Events(k) /\ Open(before, X, e) /\ OpOf(k, e) = x.op
                                 /\ e[4] = x /\ e[1] = "land"
    BY <1>1, OpenCopy
  <2>2. PICK f \in Landings(k) : /\ f \in Events(k) /\ Open(before, X, f) /\ OpOf(k, f) = y.op
                                 /\ f[4] = y /\ f[1] = "land"
    BY <1>1, OpenCopy
  <2>3. e \notin Retirals(k)
    BY <1>2, <2>1, RetiralParts
  <2> QED BY <1>2, <2>1, <2>2, <2>3, OpenApart
<1>4. ASSUME NEW x \in copies, NEW i \in DOMAIN tc PROVE ~Conflict(x.op, tc[i].op)
  <2>1. PICK e \in Landings(k) : /\ e \in Events(k) /\ Open(before, X, e) /\ OpOf(k, e) = x.op
                                 /\ e[1] = "land"
    BY <1>1, OpenCopy
  <2>2. /\ q[i] \in Events(k) /\ Open(before, X, q[i])
        /\ OpOf(k, q[i]) = tc[i].op /\ q[i][1] = "retire"
    BY <1>1, OpenItem
  <2>3. e \notin Retirals(k) /\ e # q[i]
    BY <1>2, <2>1, <2>2, RetiralParts
  <2> QED BY <1>2, <2>1, <2>2, <2>3, OpenApart
<1>5. ASSUME NEW x \in copies, NEW w \in Threads PROVE ~Conflict(x.op, ThreadOp(w))
  <2>1. CASE Ended(w)
    BY <2>1, NoOpApart DEF ThreadOp
  <2>2. CASE ~Ended(w)
    <3>1. PICK e \in Landings(k) : /\ e \in Events(k) /\ Open(before, X, e)
                                   /\ OpOf(k, e) = x.op /\ e[1] = "land"
      BY <1>1, OpenCopy
    <3>2. PICK f : f = Execute(w, pc[w])
      OBVIOUS
    <3>3. /\ f \in Events(k) /\ Open(before, X, f) /\ OpOf(k, f) = ThreadOp(w)
          /\ f[1] = "execute"
      BY <1>1, <2>2, <3>2, OpenThread
    <3>4. e \notin Retirals(k) /\ e # f
      BY <1>2, <3>1, <3>3, RetiralParts
    <3>5. ~Conflict(OpOf(k, e), OpOf(k, f))
      BY <1>2, <3>1, <3>3, <3>4, OpenApart
    <3> QED BY <3>1, <3>3, <3>5
  <2> QED BY <2>1, <2>2
<1>6. ASSUME NEW i \in DOMAIN tc, NEW w \in Threads PROVE ~Conflict(tc[i].op, ThreadOp(w))
  <2>1. CASE Ended(w)
    BY <2>1, NoOpApart DEF ThreadOp
  <2>2. CASE ~Ended(w)
    <3>1. /\ q[i] \in Events(k) /\ Open(before, X, q[i])
          /\ OpOf(k, q[i]) = tc[i].op /\ q[i][1] = "retire"
      BY <1>1, OpenItem
    <3>2. PICK f : f = Execute(w, pc[w])
      OBVIOUS
    <3>3. /\ f \in Events(k) /\ Open(before, X, f) /\ OpOf(k, f) = ThreadOp(w)
          /\ f[1] = "execute"
      BY <1>1, <2>2, <3>2, OpenThread
    <3>4. f \notin Retirals(k) /\ q[i] # f
      BY <1>2, <3>1, <3>3, RetiralParts
    <3>5. ~Conflict(OpOf(k, q[i]), OpOf(k, f))
      BY <1>2, <3>1, <3>3, <3>4, OpenApart
    <3> QED BY <3>1, <3>3, <3>5
  <2> QED BY <2>1, <2>2
<1>7. ASSUME call.serialize, NEW i \in DOMAIN tc, NEW j \in DOMAIN tc \ {i}
      PROVE  ~Conflict(tc[i].op, tc[j].op)
  <2>1. /\ q[i] \in Events(k) /\ Open(before, X, q[i]) /\ OpOf(k, q[i]) = tc[i].op
        /\ q[j] \in Events(k) /\ Open(before, X, q[j]) /\ OpOf(k, q[j]) = tc[j].op
    BY <1>1, OpenItem
  <2>2. q[i] # q[j]
    BY <1>2, QueueInjective
  <2>3. ~Conflict(OpOf(k, q[i]), OpOf(k, q[j]))
    BY <1>2, <1>7, <2>1, <2>2, OpenApart
  <2> QED BY <2>1, <2>3
<1>8. ASSUME NEW v \in Threads, NEW w \in Threads, v # w
      PROVE  ~Conflict(ThreadOp(v), ThreadOp(w))
  <2>1. CASE Ended(v) \/ Ended(w)
    BY <2>1, NoOpApart DEF ThreadOp
  <2>2. CASE ~Ended(v) /\ ~Ended(w)
    <3>1. PICK e, f : e = Execute(v, pc[v]) /\ f = Execute(w, pc[w])
      OBVIOUS
    <3>2. /\ e \in Events(k) /\ Open(before, X, e) /\ OpOf(k, e) = ThreadOp(v)
          /\ e[1] = "execute" /\ e[2] = v
      BY <1>1, <2>2, <3>1, OpenThread
    <3>3. /\ f \in Events(k) /\ Open(before, X, f) /\ OpOf(k, f) = ThreadOp(w) /\ f[2] = w
      BY <1>1, <2>2, <3>1, OpenThread
    <3>4. e \notin Retirals(k) /\ e # f
      BY <1>2, <1>8, <3>2, <3>3, RetiralParts
    <3>5. ~Conflict(OpOf(k, e), OpOf(k, f))
      BY <1>2, <3>2, <3>3, <3>4, OpenApart
    <3> QED BY <3>2, <3>3, <3>5
  <2> QED BY <2>1, <2>2
<1> QED BY <1>3, <1>4, <1>5, <1>6, <1>7, <1>8 DEF NoRace

LEMMA OInvTypeOK == OInv => TypeOK
<1> SUFFICES ASSUME OInv PROVE TypeOK
  OBVIOUS
<1>1. PICK k, serialize, phase, before, X, q :
        OrderedBy(k, serialize, phase, before)
          /\ Consistent(k, serialize, phase, before, X, q)
  BY DEF OInv
<1>2. /\ Straight(k) /\ BarriersExist(k)
      /\ code = k /\ Running(k) /\ Queued(k, q) /\ Counted(k, phase, X)
  BY <1>1 DEF OrderedBy, Consistent
<1>3. Threads = DOMAIN k.program /\ Barriers = DOMAIN k.arrivals
      /\ \A w : Program(w) = k.program[w]
  BY <1>2 DEF Threads, Barriers, Program
<1>4. \A w \in Threads : pc[w] \in 1 .. Len(Program(w)) + 1
  BY <1>2, <1>3 DEF Running
<1>5. ASSUME NEW w \in Threads, ~Ended(w)
      PROVE  {Instruction(w).await, Instruction(w).arrive} \subseteq Barriers \cup {None}
  <2>1. /\ w \in DOMAIN k.program /\ pc[w] \in 1 .. Len(k.program[w])
        /\ Instruction(w) = k.program[w][pc[w]]
    BY <1>2, <1>5, NextInstruction
  <2>2. PICK e : e = Execute(w, pc[w])
    OBVIOUS
  <2>3. /\ e \in Instructions(k) /\ e \in Events(k) /\ At(k, e) = Instruction(w)
        /\ e[1] = "execute" /\ e[2] = w
    BY <1>2, <2>1, <2>2, ExecuteParts
  <2>4. BarOf(k, e) = Instruction(w).arrive
    BY <2>3 DEF BarOf
  <2>5. Instruction(w).arrive \in Barriers \cup {None}
    BY <1>2, <1>3, <2>3, <2>4 DEF BarriersExist
  <2>6. Instruction(w).await # None => Instruction(w).await \in Barriers
    BY <1>2, <1>3, <2>1, <2>3 DEF BarriersExist
  <2> QED BY <2>5, <2>6
<1>6. ASSUME NEW x \in copies PROVE x.bar \in Barriers
  <2>1. \E e \in Landings(k) :
          /\ e \in Events(k) /\ Open(before, X, e) /\ OpOf(k, e) = x.op
          /\ e[4] = x /\ x.bar \in DOMAIN k.arrivals /\ e[1] = "land"
    BY <1>1, OpenCopy
  <2> QED BY <1>3, <2>1
<1>7. ASSUME NEW i \in DOMAIN tc PROVE tc[i].bar \in Barriers \cup {None}
  <2>1. tc[i].bar \in DOMAIN k.arrivals \cup {None}
    BY <1>1, OpenItem
  <2> QED BY <1>3, <2>1
<1>8. BarTypeOK(Barriers, Threads)
  BY <1>2, <1>3 DEF Counted
<1>9. ASSUME NEW b \in Barriers PROVE left[b] <= code.arrivals[b]
  <2>1. left[b] = k.arrivals[b] - Cardinality(Arrived(k, phase, b, X))
    BY <1>2, <1>3 DEF Counted
  <2>2. k.arrivals[b] \in Nat
    BY <1>2, <1>3 DEF BarriersExist
  <2>3. Cardinality(Arrived(k, phase, b, X)) \in Nat
    BY <1>2, ArrivalsFinite DEF Arrived
  <2> QED BY <1>2, <2>1, <2>2, <2>3
<1> QED BY <1>4, <1>5, <1>6, <1>7, <1>8, <1>9 DEF TypeOK

LEMMA OInvPhaseLag == OInv => PhaseLag
<1> SUFFICES ASSUME OInv, NEW w \in Threads, NEW b \in code.awaits[w]
             PROVE  Lag(w, b) \in {0, 1}
  BY DEF PhaseLag
<1>1. PICK k, serialize, phase, before, X, q :
        OrderedBy(k, serialize, phase, before)
          /\ Consistent(k, serialize, phase, before, X, q)
  BY DEF OInv
<1>2. /\ Straight(k) /\ BarriersExist(k) /\ PhasesAwaited(k, phase, before)
      /\ code = k /\ Happened(k, X, q) /\ Running(k) /\ Closed(before, X)
      /\ Counted(k, phase, X) /\ Noticed(k)
  BY <1>1 DEF OrderedBy, Consistent
<1>3. w \in DOMAIN k.program /\ b \in k.awaits[w]
  BY <1>2 DEF Threads
<1> QED BY <1>2, <1>3, LagBound

LEMMA OInvDeterministic == OInv => Deterministic
<1> SUFFICES ASSUME OInv, NEW c \in DOMAIN mem PROVE mem[c] # Wrong
  BY DEF Deterministic
<1>1. PICK k, serialize, phase, before, X, q :
        OrderedBy(k, serialize, phase, before)
          /\ Consistent(k, serialize, phase, before, X, q)
  BY DEF OInv
<1>2. X \subseteq Events(k) /\ Remembered(k, before, X) /\ ReadsRight(k, before)
  BY <1>1 DEF OrderedBy, Consistent, Happened
<1> QED BY <1>2 DEF Remembered, ReadsRight

\* When the CTA has finished every event has happened.
LEMMA AllHappened ==
  ASSUME NEW k, NEW serialize, NEW phase, NEW before, NEW X, NEW q,
         OrderedBy(k, serialize, phase, before),
         Consistent(k, serialize, phase, before, X, q), Finished
  PROVE  /\ X = Events(k)
         /\ \A w \in DOMAIN k.program : pc[w] = Len(k.program[w]) + 1 /\ Len(k.program[w]) \in Nat
<1>1. Straight(k)
  BY DEF OrderedBy
<1>2. code = k /\ Happened(k, X, q) /\ Running(k)
  BY DEF Consistent
<1>3. ASSUME NEW w \in DOMAIN k.program
      PROVE  pc[w] = Len(k.program[w]) + 1 /\ Len(k.program[w]) \in Nat
  <2>1. pc[w] \in 1 .. Len(k.program[w]) + 1 /\ Len(k.program[w]) \in Nat
    BY <1>1, <1>2 DEF Running, Straight
  <2>2. pc[w] > Len(k.program[w])
    BY <1>2 DEF Finished, Threads, Ended, Program
  <2> QED BY <2>1, <2>2
<1>4. copies = {} /\ DOMAIN tc = {}
  BY DEF Finished
<1>5. \A e \in Instructions(k) : e \in X
  <2> SUFFICES ASSUME NEW e \in Instructions(k) PROVE e \in X
    OBVIOUS
  <2>1. e[2] \in DOMAIN k.program /\ e[3] \in 1 .. Len(k.program[e[2]])
    BY <1>1, InstructionParts
  <2>2. e[3] < pc[e[2]]
    BY <1>3, <2>1
  <2> QED BY <1>2, <2>2 DEF Happened
<1>6. \A e \in Landings(k) : e \in X
  <2> SUFFICES ASSUME NEW e \in Landings(k) PROVE e \in X
    OBVIOUS
  <2>1. e[2] \in DOMAIN k.program /\ e[3] \in 1 .. Len(k.program[e[2]])
    BY <1>1, LandingParts
  <2>2. e[3] < pc[e[2]]
    BY <1>3, <2>1
  <2> QED BY <1>2, <1>4, <2>2 DEF Happened
<1>7. \A e \in Retirals(k) : e \in X
  <2> SUFFICES ASSUME NEW e \in Retirals(k) PROVE e \in X
    OBVIOUS
  <2>1. e[2] \in DOMAIN k.program /\ e[3] \in 1 .. Len(k.program[e[2]])
    BY <1>1, RetiralParts
  <2>2. e[3] < pc[e[2]]
    BY <1>3, <2>1
  <2> QED BY <1>2, <1>4, <2>2 DEF Happened
<1>8. X = Events(k)
  BY <1>2, <1>5, <1>6, <1>7 DEF Happened, Events
<1> QED BY <1>3, <1>8

LEMMA OInvCleanExit == OInv => CleanExit
<1> SUFFICES ASSUME OInv, Finished, NEW b \in Barriers
             PROVE  /\ left[b] = code.arrivals[b]
                    /\ \A w \in Threads : b \in code.awaits[w] => Lag(w, b) = 0
  BY DEF CleanExit
<1>1. PICK k, serialize, phase, before, X, q :
        OrderedBy(k, serialize, phase, before)
          /\ Consistent(k, serialize, phase, before, X, q)
  BY DEF OInv
<1>2. /\ Straight(k) /\ BarriersExist(k) /\ PhasesInOrder(k, phase, before)
      /\ PhasesAwaited(k, phase, before) /\ code = k /\ Counted(k, phase, X) /\ Noticed(k)
  BY <1>1 DEF OrderedBy, Consistent
<1>3. /\ X = Events(k)
      /\ \A w \in DOMAIN k.program : pc[w] = Len(k.program[w]) + 1 /\ Len(k.program[w]) \in Nat
  BY <1>1, AllHappened
<1>4. b \in DOMAIN k.arrivals /\ k.arrivals[b] \in Nat \ {0} /\ done[b] \in Nat
  BY <1>2 DEF Barriers, BarriersExist, Counted, BarTypeOK
<1>5. InPhase(k, phase, b, done[b]) = {}
  <2>1. InPhase(k, phase, b, done[b]) \subseteq X
    BY <1>3 DEF InPhase, ArrivalsOn
  <2> QED BY <1>2, <1>4, <2>1, PhaseIncomplete
<1>6. left[b] = code.arrivals[b]
  <2>1. Arrived(k, phase, b, X) = {}
    BY <1>5 DEF Arrived, InPhase
  <2>2. Cardinality(Arrived(k, phase, b, X)) = 0
    BY <2>1, FS_EmptySet
  <2> QED BY <1>2, <1>4, <2>2 DEF Counted
<1>7. ASSUME NEW w \in Threads, b \in code.awaits[w] PROVE Lag(w, b) = 0
  <2>1. w \in DOMAIN k.program /\ b \in k.awaits[w]
    BY <1>2, <1>7 DEF Threads
  <2> DEFINE N == Awaited(k, w, b, Len(k.program[w]) + 1)
  <2>2. seen[w][b] = N
    BY <1>2, <1>3, <2>1 DEF Noticed
  <2>3. seen[w][b] \in Nat /\ seen[w][b] <= done[b]
    BY <1>2, <1>4, <2>1 DEF Noticed, Counted, BarTypeOK
  <2>4. {phase[a] : a \in ArrivalsOn(k, b)} = 0 .. N - 1
    BY <1>2, <2>1 DEF PhasesAwaited
  <2> HIDE DEF N
  <2>5. ~(done[b] < N)
    <3> SUFFICES ASSUME done[b] < N PROVE FALSE
      OBVIOUS
    <3>1. done[b] \in 0 .. N - 1
      BY <1>4, <2>2, <2>3
    <3>2. PICK a \in ArrivalsOn(k, b) : phase[a] = done[b]
      BY <2>4, <3>1
    <3> QED BY <1>5, <3>2 DEF InPhase
  <2>6. ~(done[b] > N)
    BY <2>5, <2>2, <2>3, <1>4, <2>4, <1>2 DEF Counted, InPhase
  <2> QED BY <1>4, <2>2, <2>3, <2>5, <2>6 DEF Lag
<1> QED BY <1>6, <1>7

\* Among the events that have not happened, one waits for none of the others.
LEMMA FirstToHappen ==
  ASSUME NEW k, NEW serialize, NEW phase, NEW before, NEW R, R # {},
         R \subseteq Events(k), Straight(k), Preceded(k, serialize, phase, before)
  PROVE  \E f \in R : Direct(k, serialize, phase, f) \cap R = {}
<1> DEFINE rank(f) == Cardinality(before[f] \cap R)
           T == {rank(f) : f \in R}
<1>1. IsFiniteSet(R)
  BY FS_Subset DEF Straight
<1>2. \A f \in R : IsFiniteSet(before[f] \cap R) /\ rank(f) \in Nat
  <2> SUFFICES ASSUME NEW f \in R PROVE IsFiniteSet(before[f] \cap R) /\ rank(f) \in Nat
    OBVIOUS
  <2>1. before[f] \cap R \subseteq R
    OBVIOUS
  <2> QED BY <1>1, <2>1, FS_Subset, FS_CardinalityType
<1> HIDE DEF rank
<1>3. T \subseteq Nat /\ T # {}
  BY <1>2
<1>4. PICK m \in T : \A l \in T : ~ (<<l, m>> \in OpToRel(<, Nat))
  BY <1>3, NatLessThanWellFounded, WFMin
<1>5. \A l \in T : ~(l < m)
  BY <1>3, <1>4 DEF OpToRel
<1>6. PICK f \in R : m = rank(f)
  BY <1>4
<1>7. ASSUME NEW g \in Direct(k, serialize, phase, f), g \in R PROVE FALSE
  <2>1. /\ before[f] = UNION {{h} \cup before[h] : h \in Direct(k, serialize, phase, f)}
        /\ g \notin before[g]
    BY <1>7 DEF Preceded
  <2>2. {g} \cup before[g] \subseteq before[f]
    BY <2>1
  <2>3. /\ before[g] \cap R \subseteq before[f] \cap R
        /\ before[g] \cap R # before[f] \cap R
    BY <1>7, <2>1, <2>2
  <2>4. rank(g) < rank(f)
    <3>1. /\ Cardinality(before[g] \cap R) <= Cardinality(before[f] \cap R)
          /\ Cardinality(before[g] \cap R) = Cardinality(before[f] \cap R)
               => before[g] \cap R = before[f] \cap R
      BY <1>2, <2>3, FS_Subset
    <3>2. rank(g) \in Nat /\ rank(f) \in Nat
      BY <1>2, <1>7
    <3>3. rank(g) <= rank(f) /\ rank(g) # rank(f)
      BY <2>3, <3>1 DEF rank
    <3> QED BY <3>2, <3>3
  <2> QED BY <1>5, <1>6, <1>7, <2>4
<1> QED BY <1>7

LEMMA OInvNeverStuck == OInv => NeverStuck
<1> SUFFICES ASSUME OInv, ~Finished, copies = {}, tc = <<>>
             PROVE  \E w \in Threads : ~Ended(w) /\ MayPass(w)
  BY DEF NeverStuck
<1>1. PICK k, serialize, phase, before, X, q :
        OrderedBy(k, serialize, phase, before)
          /\ Consistent(k, serialize, phase, before, X, q)
  BY DEF OInv
<1>2. /\ Straight(k) /\ BarriersExist(k) /\ Preceded(k, serialize, phase, before)
      /\ PhasesInOrder(k, phase, before) /\ PhasesAwaited(k, phase, before)
      /\ code = k /\ Happened(k, X, q) /\ Running(k) /\ Queued(k, q)
      /\ Closed(before, X) /\ Counted(k, phase, X) /\ Noticed(k)
  BY <1>1 DEF OrderedBy, Consistent
<1> DEFINE R == Events(k) \ X
<1>3. R # {}
  <2>1. PICK w \in Threads : ~Ended(w)
    BY DEF Finished
  <2>2. PICK e : e = Execute(w, pc[w])
    OBVIOUS
  <2>3. e \in Events(k) /\ Open(before, X, e)
    BY <1>1, <2>1, <2>2, OpenThread
  <2> QED BY <2>3 DEF Open
<1>4. PICK f \in R : Direct(k, serialize, phase, f) \cap R = {}
  BY <1>2, <1>3, FirstToHappen
<1>5. ASSUME NEW w \in DOMAIN k.program, NEW i \in 1 .. Len(k.program[w]),
             Execute(w, i) \notin R
      PROVE  i < pc[w]
  <2>1. Execute(w, i) \in Instructions(k) /\ Execute(w, i) \in Events(k)
        /\ Execute(w, i)[2] = w /\ Execute(w, i)[3] = i
    BY <1>2, ExecuteParts
  <2> QED BY <1>2, <1>5, <2>1 DEF Happened
<1>6. f \notin Landings(k)
  <2> SUFFICES ASSUME f \in Landings(k) PROVE FALSE
    OBVIOUS
  <2>1. f[1] = "land" /\ f[2] \in DOMAIN k.program /\ f[3] \in 1 .. Len(k.program[f[2]])
    BY <1>2, LandingParts
  <2>2. Execute(f[2], f[3]) \in Direct(k, serialize, phase, f)
    BY <2>1 DEF Direct, Openers
  <2>3. f[3] < pc[f[2]]
    BY <1>4, <1>5, <2>1, <2>2
  <2> QED BY <1>2, <2>3 DEF Happened
<1>7. f \notin Retirals(k)
  <2> SUFFICES ASSUME f \in Retirals(k) PROVE FALSE
    OBVIOUS
  <2>1. f[1] = "retire" /\ f[2] \in DOMAIN k.program /\ f[3] \in 1 .. Len(k.program[f[2]])
    BY <1>2, RetiralParts
  <2>2. Execute(f[2], f[3]) \in Direct(k, serialize, phase, f)
    BY <2>1 DEF Direct, Openers
  <2>3. f[3] < pc[f[2]] /\ DOMAIN tc = {}
    BY <1>4, <1>5, <2>1, <2>2
  <2> QED BY <1>2, <2>3 DEF Happened
<1>8. f \in Instructions(k)
  BY <1>6, <1>7, EventKinds
<1>9. PICK w, v : w = f[2] /\ v = f[3]
  OBVIOUS
<1>10. /\ w \in DOMAIN k.program /\ v \in 1 .. Len(k.program[w]) /\ v \in Nat \ {0}
       /\ f = Execute(w, v) /\ f[1] = "execute" /\ At(k, f) = k.program[w][v]
       /\ Len(k.program[w]) \in Nat /\ pc[w] \in 1 .. Len(k.program[w]) + 1
  <2>1. /\ w \in DOMAIN k.program /\ v \in 1 .. Len(k.program[w]) /\ v \in Nat \ {0}
        /\ f = Execute(w, v) /\ f[1] = "execute" /\ At(k, f) = k.program[w][v]
    BY <1>2, <1>8, <1>9, InstructionParts
  <2> QED BY <1>2, <2>1 DEF Straight, Running
<1>11. pc[w] = v
  <2>1. ~(v < pc[w])
    BY <1>2, <1>8, <1>9 DEF Happened
  <2>2. ~(v > pc[w])
    <3> SUFFICES ASSUME v > pc[w] PROVE FALSE
      OBVIOUS
    <3>1. v > 1 /\ v - 1 \in 1 .. Len(k.program[w])
      BY <1>10
    <3>2. Execute(w, v - 1) \in Direct(k, serialize, phase, f)
      BY <1>9, <1>10, <3>1 DEF Direct, Openers
    <3>3. v - 1 < pc[w]
      BY <1>4, <1>5, <1>10, <3>1, <3>2
    <3> QED BY <1>10, <3>3
  <2> QED BY <1>10, <2>1, <2>2
<1>12. w \in Threads /\ ~Ended(w) /\ Instruction(w) = k.program[w][v]
  BY <1>2, <1>10, <1>11 DEF Threads, Ended, Program, Instruction
<1>13. ASSUME NEW b, b = Instruction(w).await, b # None PROVE done[b] % 2 # seen[w][b] % 2
  <2>1. b \in k.awaits[w] /\ b \in DOMAIN k.arrivals
    BY <1>2, <1>8, <1>9, <1>10, <1>12, <1>13 DEF BarriersExist
  <2>2. Lag(w, b) \in {0, 1} /\ done[b] \in Nat /\ seen[w][b] \in Nat
        /\ seen[w][b] = Awaited(k, w, b, v)
    BY <1>2, <1>10, <1>11, <2>1, LagBound DEF Counted, BarTypeOK, Noticed
  <2>3. done[b] # seen[w][b]
    <3> SUFFICES ASSUME done[b] = seen[w][b] PROVE FALSE
      OBVIOUS
    <3>1. InPhase(k, phase, b, done[b]) \subseteq X
      <4>1. \A a \in InPhase(k, phase, b, done[b]) :
              a \in Direct(k, serialize, phase, f) /\ a \in Events(k)
        BY <1>9, <1>10, <1>12, <1>13, <2>2 DEF InPhase, ArrivalsOn, Direct
      <4> QED BY <1>4, <4>1
    <3>2. InPhase(k, phase, b, done[b]) # {}
      <4> DEFINE N == Awaited(k, w, b, Len(k.program[w]) + 1)
      <4>1. v \in 1 .. (Len(k.program[w]) + 1) - 1 /\ Len(k.program[w]) + 1 \in Nat \ {0}
        BY <1>10
      <4>2. N \in Nat /\ N >= Awaited(k, w, b, v) + 1
        BY <1>12, <1>13, <4>1, AwaitedLater
      <4>3. {phase[a] : a \in ArrivalsOn(k, b)} = 0 .. N - 1
        BY <1>2, <1>10, <2>1 DEF PhasesAwaited
      <4> HIDE DEF N
      <4>4. done[b] \in 0 .. N - 1
        BY <2>2, <4>2
      <4>5. PICK a \in ArrivalsOn(k, b) : phase[a] = done[b]
        BY <4>3, <4>4
      <4> QED BY <4>5 DEF InPhase
    <3> QED BY <1>2, <2>1, <3>1, <3>2, PhaseIncomplete
  <2>4. done[b] = seen[w][b] + 1
    BY <2>2, <2>3 DEF Lag
  <2>5. \A m \in Nat : (m + 1) % 2 # m % 2
    OBVIOUS
  <2> QED BY <2>2, <2>4, <2>5
<1>14. MayPass(w)
  BY <1>13 DEF MayPass
<1> QED BY <1>12, <1>14
-----------------------------------------------------------------------------
\* The variables of a CTA that runs ordered code have their types, and every
\* barrier that it uses was allocated.
THEOREM TypeCorrect == OrderedSpec => []TypeOK
BY OrderInvariant, OInvTypeOK, PTL

\* A waiter never finds its barrier two phases ahead: the parity that the hardware
\* tests tells the phases apart (README, Synchronization).
THEOREM PhasesDistinct == OrderedSpec => []PhaseLag
BY OrderInvariant, OInvPhaseLag, PTL

\* Of the accesses that may overlap, in shared memory, tensor memory or registers,
\* no two touch one cell unless both read it.
THEOREM RaceFree == OrderedSpec => []NoRace
BY OrderInvariant, OInvNoRace, PTL

\* Every operation finds the tiles and the partial sums that the sequential
\* algorithm would find, whatever the interleaving.
THEOREM ReadsExpected == OrderedSpec => []Deterministic
BY OrderInvariant, OInvDeterministic, PTL

\* Every phase of every barrier is complete and consumed when the CTA exits.
THEOREM ExitsClean == OrderedSpec => []CleanExit
BY OrderInvariant, OInvCleanExit, PTL

\* The threads never all wait on each other.
THEOREM NoDeadlock == OrderedSpec => []NeverStuck
BY OrderInvariant, OInvNeverStuck, PTL
-----------------------------------------------------------------------------
\* A step performs at most one event, which reads what it expects.
Performed(k, before, X, f) ==
  /\ f \in Events(k) /\ f \notin X /\ before[f] \subseteq X
  /\ \A c \in Reads(OpOf(k, f)) : Tag(c) = OpOf(k, f).reads[c]
  /\ \A c : /\ c \in DOMAIN mem' <=> c \in DOMAIN mem \/ c \in Writes(OpOf(k, f))
            /\ c \in Writes(OpOf(k, f)) => mem'[c] = OpOf(k, f).writes[c]
            /\ c \notin Writes(OpOf(k, f)) /\ c \in DOMAIN mem => mem'[c] = mem[c]

LEMMA PerformedBy ==
  ASSUME NEW k, NEW serialize, NEW phase, NEW before, NEW X, NEW q,
         OrderedBy(k, serialize, phase, before),
         Consistent(k, serialize, phase, before, X, q),
         NEW f \in Events(k), f \notin X, Direct(k, serialize, phase, f) \subseteq X,
         mem' = After(OpOf(k, f))
  PROVE  Performed(k, before, X, f)
<1>1. /\ Preceded(k, serialize, phase, before) /\ ReadsRight(k, before)
      /\ X \in SUBSET Events(k) /\ Closed(before, X) /\ Remembered(k, before, X)
  BY DEF OrderedBy, Consistent, Happened
<1>2. before[f] \subseteq X
  BY <1>1, ClosedNext
<1>3. /\ \A c \in Reads(OpOf(k, f)) : Tag(c) = OpOf(k, f).reads[c]
      /\ \A c : /\ c \in DOMAIN mem' <=> c \in DOMAIN mem \/ c \in Writes(OpOf(k, f))
                /\ c \in Writes(OpOf(k, f)) => mem'[c] = OpOf(k, f).writes[c]
                /\ c \notin Writes(OpOf(k, f)) /\ c \in DOMAIN mem => mem'[c] = mem[c]
  BY <1>1, <1>2, MemoryNext
<1> QED BY <1>2, <1>3 DEF Performed

LEMMA StepPerforms ==
  ASSUME NEW k, NEW serialize, NEW phase, NEW before, NEW X, NEW q,
         OrderedBy(k, serialize, phase, before),
         Consistent(k, serialize, phase, before, X, q), [Next]_vars
  PROVE  /\ UNCHANGED <<call, code>>
         /\ UNCHANGED mem \/ \E f : Performed(k, before, X, f)
<1>1. Straight(k) /\ BarriersExist(k)
  BY DEF OrderedBy
<1>2. CASE CopyEngine
  <2>1. PICK x \in copies : mem' = After(x.op) /\ UNCHANGED <<call, code>>
    BY <1>2 DEF CopyEngine
  <2>2. PICK f \in Landings(k) :
          /\ f \in Events(k) /\ Open(before, X, f) /\ OpOf(k, f) = x.op /\ f[1] = "land"
    BY OpenCopy
  <2>3. Direct(k, serialize, phase, f) \subseteq X
    BY <2>2 DEF Direct, Open, Settled
  <2>4. Performed(k, before, X, f)
    BY <2>1, <2>2, <2>3, PerformedBy DEF Open
  <2> QED BY <2>1, <2>4
<1>3. CASE TensorCore
  <2>1. PICK i \in DOMAIN tc : /\ MayRetire(i) /\ UNCHANGED <<call, code>>
                               /\ mem' = After(tc[i].op) \/ UNCHANGED mem
    BY <1>3 DEF TensorCore
  <2>2. /\ q[i] \in Retirals(k) /\ q[i] \notin X
        /\ Direct(k, serialize, phase, q[i]) \subseteq X /\ tc[i].op = OpOf(k, q[i])
    BY <2>1, MayRetireSettled
  <2>3. q[i] \in Events(k)
    BY <2>2 DEF Events
  <2>4. ASSUME mem' = After(tc[i].op) PROVE Performed(k, before, X, q[i])
    BY <2>2, <2>3, <2>4, PerformedBy
  <2> QED BY <2>1, <2>4
<1>4. ASSUME NEW w \in Threads, Step(w)
      PROVE  UNCHANGED <<call, code>> /\ \E f : Performed(k, before, X, f)
  <2>1. PICK f : f = Execute(w, pc[w])
    OBVIOUS
  <2>2. /\ ~Ended(w) /\ UNCHANGED <<call, code>> /\ mem' = After(Instruction(w).op)
        /\ \/ Await(w, Instruction(w).await) \/ Instruction(w).arrive # None
           \/ Instruction(w).await = None
    BY <1>4 DEF Step
  <2>3. /\ f \in Instructions(k) /\ f \in Events(k) /\ f \notin X
        /\ OpOf(k, f) = Instruction(w).op /\ BarOf(k, f) = Instruction(w).arrive
        /\ (Instruction(w).await # None =>
              done[Instruction(w).await] % 2 # seen[w][Instruction(w).await] % 2)
             => Direct(k, serialize, phase, f) \subseteq X
    BY <2>1, <2>2, NextSettled
  <2>4. Instruction(w).await # None => Instruction(w).arrive = None
    <3>1. code = k /\ Running(k)
      BY DEF Consistent
    <3>2. /\ w \in DOMAIN k.program /\ pc[w] \in 1 .. Len(k.program[w])
          /\ Instruction(w) = k.program[w][pc[w]]
      BY <1>1, <2>2, <3>1, NextInstruction
    <3>3. At(k, f) = Instruction(w)
      BY <1>1, <2>1, <3>2, ExecuteParts
    <3> QED BY <1>1, <2>3, <3>3 DEF BarriersExist
  <2>5. Direct(k, serialize, phase, f) \subseteq X
    BY <2>2, <2>3, <2>4 DEF Await
  <2>6. Performed(k, before, X, f)
    BY <2>2, <2>3, <2>5, PerformedBy
  <2> QED BY <2>2, <2>6
<1>5. CASE UNCHANGED vars
  BY <1>5 DEF vars
<1> QED BY <1>2, <1>3, <1>4, <1>5 DEF Next, Exited

\* What a row has accumulated and written, by the tags of its cells.
Accumulated(t) ==
  CASE t = Wrong -> {-1}
    [] t[1] = "acc" -> 0 .. t[2]
    [] t[1] = "scaled" -> 0 .. t[2] - 1
    [] OTHER -> {}
Written(n, t) ==
  CASE t = Undefined -> <<>>
    [] t = <<"out", n>> -> <<0 .. n - 1>>
    [] OTHER -> <<{-1}>>

LEMMA RowByTags ==
  /\ \A c, t : Tag(c) = t => AccumulatedIn(c) = Accumulated(t)
  /\ \A c, t, n : Tag(c) = t /\ call.n = n => WrittenTo(c) = Written(n, t)
<1>1. ASSUME NEW c, NEW t, Tag(c) = t PROVE AccumulatedIn(c) = Accumulated(t)
  BY <1>1 DEF AccumulatedIn, Accumulated
<1>2. ASSUME NEW c, NEW t, NEW n, Tag(c) = t, call.n = n PROVE WrittenTo(c) = Written(n, t)
  BY <1>2 DEF WrittenTo, Written
<1> QED BY <1>1, <1>2

LEMMA RowByTagsNext ==
  /\ \A c, t : Tag(c)' = t => AccumulatedIn(c)' = Accumulated(t)
  /\ \A c, t, n : Tag(c)' = t /\ call'.n = n => WrittenTo(c)' = Written(n, t)
<1>1. (/\ \A c, t : Tag(c) = t => AccumulatedIn(c) = Accumulated(t)
       /\ \A c, t, n : Tag(c) = t /\ call.n = n => WrittenTo(c) = Written(n, t))'
  BY RowByTags, PTL
<1> QED BY <1>1

LEMMA TagValues ==
  ASSUME NEW s \in Nat, NEW n
  PROVE  /\ Accumulated(Undefined) = {} /\ Accumulated(<<"acc", s>>) = 0 .. s
         /\ Accumulated(<<"scaled", s>>) = 0 .. s - 1
         /\ Written(n, Undefined) = <<>> /\ Written(n, <<"out", n>>) = <<0 .. n - 1>>
<1>1. Undefined # Wrong /\ Undefined[1] = "undefined" /\ <<"out", n>> # Undefined
  BY DEF Undefined, Wrong
<1>2. /\ <<"acc", s>> # Wrong /\ <<"acc", s>>[1] = "acc" /\ <<"acc", s>>[2] = s
      /\ <<"scaled", s>> # Wrong /\ <<"scaled", s>>[1] = "scaled" /\ <<"scaled", s>>[2] = s
  BY DEF Wrong
<1>3. Accumulated(Undefined) = {}
  BY <1>1 DEF Accumulated
<1>4. Accumulated(<<"acc", s>>) = 0 .. s
  BY <1>2 DEF Accumulated
<1>5. Accumulated(<<"scaled", s>>) = 0 .. s - 1
  BY <1>2 DEF Accumulated
<1>6. Written(n, Undefined) = <<>> /\ Written(n, <<"out", n>>) = <<0 .. n - 1>>
  BY <1>1 DEF Written
<1> QED BY <1>3, <1>4, <1>5, <1>6

\* Every step of the CTA is a step of each of its rows, or none.
LEMMA RowTags ==
  ASSUME NEW k, NEW serialize, NEW phase, NEW before, NEW X, NEW q, NEW n, NEW r,
         OrderedBy(k, serialize, phase, before),
         Consistent(k, serialize, phase, before, X, q), [Next]_vars,
         n \in 0 .. MaxSteps, RowInOrder(k, n, before, r),
         NEW t, NEW u, NEW v, NEW y, t = Tag(r.acc), u = Tag(r.out),
         v = Tag(r.acc)', y = Tag(r.out)'
  PROVE  \/ Accumulated(v) = Accumulated(t) /\ y = u
         \/ \E s \in 0 .. n - 1 :
              Accumulated(t) = 0 .. s - 1 /\ Accumulated(v) = 0 .. s /\ y = u
         \/ /\ Accumulated(t) = 0 .. n - 1 /\ u = Undefined /\ y = <<"out", n>>
            /\ v = t
<1>1. /\ t = IF r.acc \in DOMAIN mem THEN mem[r.acc] ELSE Undefined
      /\ u = IF r.out \in DOMAIN mem THEN mem[r.out] ELSE Undefined
      /\ v = IF r.acc \in DOMAIN mem' THEN mem'[r.acc] ELSE Undefined
      /\ y = IF r.out \in DOMAIN mem' THEN mem'[r.out] ELSE Undefined
  BY DEF Tag
<1>2. /\ X \subseteq Events(k) /\ Closed(before, X) /\ n \in Nat
      /\ \A c \in DOMAIN mem : \E e \in X :
           c \in Writes(OpOf(k, e)) /\ mem[c] = OpOf(k, e).writes[c]
  BY DEF Consistent, Happened, Remembered
<1>3. UNCHANGED mem \/ \E f : Performed(k, before, X, f)
  BY StepPerforms
<1>4. CASE UNCHANGED mem
  BY <1>1, <1>4
<1>5. ASSUME NEW f, Performed(k, before, X, f)
      PROVE  \/ Accumulated(v) = Accumulated(t) /\ y = u
             \/ \E s \in 0 .. n - 1 :
                  Accumulated(t) = 0 .. s - 1 /\ Accumulated(v) = 0 .. s /\ y = u
             \/ /\ Accumulated(t) = 0 .. n - 1 /\ u = Undefined /\ y = <<"out", n>>
                /\ v = t
  <2> DEFINE o == OpOf(k, f)
  <2>1. /\ f \in Events(k) /\ f \notin X
        /\ \A c \in Reads(o) : Tag(c) = o.reads[c]
        /\ \A c : /\ c \in DOMAIN mem' <=> c \in DOMAIN mem \/ c \in Writes(o)
                  /\ c \in Writes(o) => mem'[c] = o.writes[c]
                  /\ c \notin Writes(o) /\ c \in DOMAIN mem => mem'[c] = mem[c]
    BY <1>5 DEF Performed
  <2>2. /\ r.acc \in Writes(o) =>
             r.out \notin Writes(o) /\ \E s \in 0 .. n - 1 : Extends(k, before, r.acc, f, s)
        /\ r.out \in Writes(o) =>
             /\ o.writes[r.out] = <<"out", n>>
             /\ n > 0 => r.acc \in Reads(o) /\ o.reads[r.acc] = <<"acc", n - 1>>
    BY <2>1 DEF RowInOrder
  <2>3. /\ r.acc \in Reads(o) => t = o.reads[r.acc]
        /\ r.acc \in Writes(o) => v = o.writes[r.acc]
        /\ r.acc \notin Writes(o) => v = t
        /\ r.out \in Writes(o) => y = o.writes[r.out]
        /\ r.out \notin Writes(o) => y = u
    BY <1>1, <2>1
  <2>4. CASE r.acc \in Writes(o)
    <3>1. y = u
      BY <2>2, <2>3, <2>4
    <3>2. PICK s \in 0 .. n - 1 : Extends(k, before, r.acc, f, s)
      BY <2>2, <2>4
    <3>3. s \in Nat
      OBVIOUS
    <3>4. CASE /\ s = 0 /\ o.writes[r.acc] = <<"acc", 0>>
               /\ \A g \in Events(k) \ {f} : r.acc \in Writes(OpOf(k, g)) => f \in before[g]
      <4>1. r.acc \notin DOMAIN mem
        BY <1>2, <2>1, <3>4 DEF Closed
      <4>2. t = Undefined /\ v = <<"acc", 0>>
        BY <1>1, <2>3, <2>4, <3>4, <4>1
      <4>3. Accumulated(t) = {} /\ Accumulated(v) = 0 .. 0
        BY <4>2, TagValues
      <4>4. Accumulated(t) = 0 .. 0 - 1
        BY <4>3
      <4> QED BY <3>1, <3>4, <4>3, <4>4
    <3>5. CASE /\ s > 0 /\ r.acc \in Reads(o)
               /\ o.reads[r.acc] = <<"acc", s - 1>> /\ o.writes[r.acc] = <<"scaled", s>>
      <4>1. t = <<"acc", s - 1>> /\ v = <<"scaled", s>> /\ s - 1 \in Nat
        BY <2>3, <2>4, <3>3, <3>5
      <4>2. Accumulated(t) = 0 .. s - 1 /\ Accumulated(v) = 0 .. s - 1
        BY <3>3, <4>1, TagValues
      <4> QED BY <3>1, <4>2
    <3>6. CASE /\ s > 0 /\ r.acc \in Reads(o)
               /\ o.reads[r.acc] \in {<<"acc", s - 1>>, <<"scaled", s>>}
               /\ o.writes[r.acc] = <<"acc", s>>
      <4>1. t \in {<<"acc", s - 1>>, <<"scaled", s>>} /\ v = <<"acc", s>> /\ s - 1 \in Nat
        BY <2>3, <2>4, <3>3, <3>6
      <4>2. Accumulated(t) = 0 .. s - 1 /\ Accumulated(v) = 0 .. s
        BY <3>3, <4>1, TagValues
      <4> QED BY <3>1, <3>2, <4>2
    <3> QED BY <3>2, <3>4, <3>5, <3>6 DEF Extends
  <2>5. CASE r.acc \notin Writes(o) /\ r.out \in Writes(o)
    <3>1. v = t /\ y = <<"out", n>>
      BY <2>2, <2>3, <2>5
    <3>2. Accumulated(t) = 0 .. n - 1
      <4>1. CASE n > 0
        <5>1. n - 1 \in Nat
          BY <1>2, <4>1
        <5>2. r.acc \in Reads(o) /\ o.reads[r.acc] = <<"acc", n - 1>>
          BY <2>2, <2>5, <4>1
        <5>3. t = <<"acc", n - 1>>
          BY <2>3, <5>2
        <5> QED BY <5>1, <5>3, TagValues
      <4>2. CASE ~(n > 0)
        <5>1. n = 0 /\ 0 .. n - 1 = {}
          BY <1>2, <4>2
        <5>2. r.acc \notin DOMAIN mem
          BY <1>2, <5>1 DEF RowInOrder
        <5>3. t = Undefined
          BY <1>1, <5>2
        <5> QED BY <5>1, <5>3, TagValues
      <4> QED BY <4>1, <4>2
    <3>3. u = Undefined \/ u = y
      <4>1. CASE r.out \notin DOMAIN mem
        BY <1>1, <4>1
      <4>2. CASE r.out \in DOMAIN mem
        <5>1. PICK e \in X : r.out \in Writes(OpOf(k, e)) /\ mem[r.out] = OpOf(k, e).writes[r.out]
          BY <1>2, <4>2
        <5>2. mem[r.out] = <<"out", n>>
          BY <1>2, <5>1 DEF RowInOrder
        <5> QED BY <1>1, <3>1, <4>2, <5>2
      <4> QED BY <4>1, <4>2
    <3> QED BY <3>1, <3>2, <3>3
  <2>6. CASE r.acc \notin Writes(o) /\ r.out \notin Writes(o)
    BY <2>3, <2>6
  <2> QED BY <2>4, <2>5, <2>6
<1> QED BY <1>3, <1>4, <1>5

LEMMA RowStep ==
  ASSUME NEW k, NEW serialize, NEW phase, NEW before, NEW X, NEW q, NEW n, NEW r,
         OrderedBy(k, serialize, phase, before),
         Consistent(k, serialize, phase, before, X, q), [Next]_vars,
         n \in 0 .. MaxSteps, call.n = n, RowInOrder(k, n, before, r)
  PROVE  \/ AccumulatedIn(r.acc)' = AccumulatedIn(r.acc) /\ WrittenTo(r.out)' = WrittenTo(r.out)
         \/ \E s \in 0 .. n - 1 :
              /\ AccumulatedIn(r.acc) = 0 .. s - 1 /\ AccumulatedIn(r.acc)' = 0 .. s
              /\ WrittenTo(r.out)' = WrittenTo(r.out)
         \/ /\ AccumulatedIn(r.acc) = 0 .. n - 1 /\ WrittenTo(r.out) = <<>>
            /\ WrittenTo(r.out)' = <<0 .. n - 1>>
            /\ AccumulatedIn(r.acc)' = AccumulatedIn(r.acc)
<1>1. PICK t, u, v, y : /\ t = Tag(r.acc) /\ u = Tag(r.out)
                        /\ v = Tag(r.acc)' /\ y = Tag(r.out)'
  OBVIOUS
<1>2. call'.n = n
  BY StepPerforms
<1>3. AccumulatedIn(r.acc) = Accumulated(t) /\ WrittenTo(r.out) = Written(n, u)
  BY <1>1, RowByTags
<1>4. AccumulatedIn(r.acc)' = Accumulated(v) /\ WrittenTo(r.out)' = Written(n, y)
  BY <1>1, <1>2, RowByTagsNext
<1>5. \/ Accumulated(v) = Accumulated(t) /\ y = u
      \/ \E s \in 0 .. n - 1 :
           Accumulated(t) = 0 .. s - 1 /\ Accumulated(v) = 0 .. s /\ y = u
      \/ /\ Accumulated(t) = 0 .. n - 1 /\ u = Undefined /\ y = <<"out", n>>
         /\ v = t
  BY <1>1, RowTags
<1>6. Written(n, Undefined) = <<>> /\ Written(n, <<"out", n>>) = <<0 .. n - 1>>
  BY TagValues
<1> QED BY <1>3, <1>4, <1>5, <1>6

LEMMA RowStart ==
  ASSUME NEW c
  PROVE  Start(code) => AccumulatedIn(c) = {} /\ WrittenTo(c) = <<>>
<1> SUFFICES ASSUME Start(code) PROVE AccumulatedIn(c) = {} /\ WrittenTo(c) = <<>>
  OBVIOUS
<1>1. Tag(c) = Undefined
  BY DEF Start, Tag
<1>2. PICK n : n = call.n
  OBVIOUS
<1>3. AccumulatedIn(c) = Accumulated(Undefined) /\ WrittenTo(c) = Written(n, Undefined)
  BY <1>1, <1>2, RowByTags
<1>4. Accumulated(Undefined) = {} /\ Written(n, Undefined) = <<>>
  BY TagValues
<1> QED BY <1>3, <1>4

\* The rows of the first and of the last result.
Rows(k) == {k.results[1], Last(k.results)}

LEMMA RowsOrdered ==
  ASSUME NEW k, NEW n, NEW before, RowsInOrder(k, n, before), NEW r \in Rows(k)
  PROVE  n \in 0 .. MaxSteps /\ RowInOrder(k, n, before, r)
<1>1. k.results \in Seq(ToSet(k.results)) /\ k.results # <<>>
  BY DEF RowsInOrder
<1>2. DOMAIN k.results = 1 .. Len(k.results) /\ Len(k.results) \in Nat \ {0}
  BY <1>1
<1>3. 1 \in DOMAIN k.results /\ Len(k.results) \in DOMAIN k.results
  BY <1>2
<1>4. Last(k.results) = k.results[Len(k.results)]
  BY DEF Last
<1> QED BY <1>3, <1>4 DEF RowsInOrder, Rows

\* The row that r stands for starts empty, and each step of the CTA is a step of
\* it or changes nothing of it.
RowBegins(n, r) ==
  n \in 0 .. MaxSteps /\ AccumulatedIn(r.acc) = {} /\ WrittenTo(r.out) = <<>>

LEMMA RowsStart ==
  ASSUME Ordered(code, call), Start(code), NEW r \in Rows(code)
  PROVE  RowBegins(call.n, r)
<1>1. PICK before : RowsInOrder(code, call.n, before)
  BY DEF Ordered
<1>2. call.n \in 0 .. MaxSteps
  BY <1>1, RowsOrdered
<1>3. AccumulatedIn(r.acc) = {} /\ WrittenTo(r.out) = <<>>
  BY RowStart
<1> QED BY <1>2, <1>3 DEF RowBegins

\* The state functions that FirstResult and LastResult read, by the row.
LEMMA FirstRow ==
  ASSUME NEW r
  PROVE  code.results[1] = r =>
           /\ AccumulatedIn(code.results[1].acc) = AccumulatedIn(r.acc)
           /\ WrittenTo(code.results[1].out) = WrittenTo(r.out)
OBVIOUS
LEMMA LastRow ==
  ASSUME NEW r
  PROVE  Last(code.results) = r =>
           /\ AccumulatedIn(Last(code.results).acc) = AccumulatedIn(r.acc)
           /\ WrittenTo(Last(code.results).out) = WrittenTo(r.out)
OBVIOUS

LEMMA FirstInit == Ordered(code, call) /\ Start(code) => FirstResult!Init
<1> SUFFICES ASSUME Ordered(code, call), Start(code) PROVE FirstResult!Init
  OBVIOUS
<1>1. RowBegins(call.n, code.results[1])
  BY RowsStart DEF Rows
<1> QED BY <1>1 DEF RowBegins, FirstResult!Init

LEMMA LastInit == Ordered(code, call) /\ Start(code) => LastResult!Init
<1> SUFFICES ASSUME Ordered(code, call), Start(code) PROVE LastResult!Init
  OBVIOUS
<1>1. RowBegins(call.n, Last(code.results))
  BY RowsStart DEF Rows
<1> QED BY <1>1 DEF RowBegins, LastResult!Init

LEMMA FirstSteps == OInv /\ [Next]_vars => [FirstResult!Next]_(FirstResult!rowVars)
<1> SUFFICES ASSUME OInv, [Next]_vars PROVE [FirstResult!Next]_(FirstResult!rowVars)
  OBVIOUS
<1>1. PICK k, serialize, n, phase, before, X, q :
        /\ OrderedBy(k, serialize, phase, before) /\ RowsInOrder(k, n, before)
        /\ call.n = n /\ Consistent(k, serialize, phase, before, X, q)
  BY DEF OInv
<1>2. PICK r : r = k.results[1]
  OBVIOUS
<1>3. code = k /\ UNCHANGED <<call, code>>
  BY <1>1, StepPerforms DEF Consistent
<1>4. n \in 0 .. MaxSteps /\ RowInOrder(k, n, before, r)
  BY <1>1, <1>2, RowsOrdered DEF Rows
<1>5. \/ AccumulatedIn(r.acc)' = AccumulatedIn(r.acc) /\ WrittenTo(r.out)' = WrittenTo(r.out)
      \/ \E s \in 0 .. n - 1 :
           /\ AccumulatedIn(r.acc) = 0 .. s - 1 /\ AccumulatedIn(r.acc)' = 0 .. s
           /\ WrittenTo(r.out)' = WrittenTo(r.out)
      \/ /\ AccumulatedIn(r.acc) = 0 .. n - 1 /\ WrittenTo(r.out) = <<>>
         /\ WrittenTo(r.out)' = <<0 .. n - 1>>
         /\ AccumulatedIn(r.acc)' = AccumulatedIn(r.acc)
  BY <1>1, <1>4, RowStep
<1>6. code.results[1] = r /\ code'.results[1] = r /\ call'.n = n
  BY <1>1, <1>2, <1>3
<1>7. (code.results[1] = r =>
         /\ AccumulatedIn(code.results[1].acc) = AccumulatedIn(r.acc)
         /\ WrittenTo(code.results[1].out) = WrittenTo(r.out))'
  BY FirstRow, PTL
<1>8. /\ AccumulatedIn(code.results[1].acc) = AccumulatedIn(r.acc)
      /\ WrittenTo(code.results[1].out) = WrittenTo(r.out)
      /\ AccumulatedIn(code.results[1].acc)' = AccumulatedIn(r.acc)'
      /\ WrittenTo(code.results[1].out)' = WrittenTo(r.out)'
  BY <1>6, <1>7
<1>9. CASE AccumulatedIn(r.acc)' = AccumulatedIn(r.acc) /\ WrittenTo(r.out)' = WrittenTo(r.out)
  <2>1. UNCHANGED FirstResult!rowVars
    BY <1>1, <1>6, <1>8, <1>9 DEF FirstResult!rowVars
  <2> QED BY <2>1
<1>10. ASSUME NEW s \in 0 .. n - 1, AccumulatedIn(r.acc) = 0 .. s - 1,
              AccumulatedIn(r.acc)' = 0 .. s, WrittenTo(r.out)' = WrittenTo(r.out)
       PROVE  FirstResult!Next
  <2>1. s \in 0 .. MaxSteps - 1 /\ s < n
    BY <1>4, MaxStepsAssumption
  <2>2. FirstResult!Accumulate(s)
    BY <1>1, <1>6, <1>8, <1>10, <2>1 DEF FirstResult!Accumulate
  <2> QED BY <2>1, <2>2 DEF FirstResult!Next
<1>11. CASE /\ AccumulatedIn(r.acc) = 0 .. n - 1 /\ WrittenTo(r.out) = <<>>
            /\ WrittenTo(r.out)' = <<0 .. n - 1>>
            /\ AccumulatedIn(r.acc)' = AccumulatedIn(r.acc)
  <2>1. FirstResult!Write
    BY <1>1, <1>6, <1>8, <1>11 DEF FirstResult!Write
  <2> QED BY <2>1 DEF FirstResult!Next
<1> QED BY <1>5, <1>9, <1>10, <1>11

LEMMA LastSteps == OInv /\ [Next]_vars => [LastResult!Next]_(LastResult!rowVars)
<1> SUFFICES ASSUME OInv, [Next]_vars PROVE [LastResult!Next]_(LastResult!rowVars)
  OBVIOUS
<1>1. PICK k, serialize, n, phase, before, X, q :
        /\ OrderedBy(k, serialize, phase, before) /\ RowsInOrder(k, n, before)
        /\ call.n = n /\ Consistent(k, serialize, phase, before, X, q)
  BY DEF OInv
<1>2. PICK r : r = Last(k.results)
  OBVIOUS
<1>3. code = k /\ UNCHANGED <<call, code>>
  BY <1>1, StepPerforms DEF Consistent
<1>4. n \in 0 .. MaxSteps /\ RowInOrder(k, n, before, r)
  BY <1>1, <1>2, RowsOrdered DEF Rows
<1>5. \/ AccumulatedIn(r.acc)' = AccumulatedIn(r.acc) /\ WrittenTo(r.out)' = WrittenTo(r.out)
      \/ \E s \in 0 .. n - 1 :
           /\ AccumulatedIn(r.acc) = 0 .. s - 1 /\ AccumulatedIn(r.acc)' = 0 .. s
           /\ WrittenTo(r.out)' = WrittenTo(r.out)
      \/ /\ AccumulatedIn(r.acc) = 0 .. n - 1 /\ WrittenTo(r.out) = <<>>
         /\ WrittenTo(r.out)' = <<0 .. n - 1>>
         /\ AccumulatedIn(r.acc)' = AccumulatedIn(r.acc)
  BY <1>1, <1>4, RowStep
<1>6. Last(code.results) = r /\ Last(code'.results) = r /\ call'.n = n
  BY <1>1, <1>2, <1>3
<1>7. (Last(code.results) = r =>
         /\ AccumulatedIn(Last(code.results).acc) = AccumulatedIn(r.acc)
         /\ WrittenTo(Last(code.results).out) = WrittenTo(r.out))'
  BY LastRow, PTL
<1>8. /\ AccumulatedIn(Last(code.results).acc) = AccumulatedIn(r.acc)
      /\ WrittenTo(Last(code.results).out) = WrittenTo(r.out)
      /\ AccumulatedIn(Last(code.results).acc)' = AccumulatedIn(r.acc)'
      /\ WrittenTo(Last(code.results).out)' = WrittenTo(r.out)'
  BY <1>6, <1>7
<1>9. CASE AccumulatedIn(r.acc)' = AccumulatedIn(r.acc) /\ WrittenTo(r.out)' = WrittenTo(r.out)
  <2>1. UNCHANGED LastResult!rowVars
    BY <1>1, <1>6, <1>8, <1>9 DEF LastResult!rowVars
  <2> QED BY <2>1
<1>10. ASSUME NEW s \in 0 .. n - 1, AccumulatedIn(r.acc) = 0 .. s - 1,
              AccumulatedIn(r.acc)' = 0 .. s, WrittenTo(r.out)' = WrittenTo(r.out)
       PROVE  LastResult!Next
  <2>1. s \in 0 .. MaxSteps - 1 /\ s < n
    BY <1>4, MaxStepsAssumption
  <2>2. LastResult!Accumulate(s)
    BY <1>1, <1>6, <1>8, <1>10, <2>1 DEF LastResult!Accumulate
  <2> QED BY <2>1, <2>2 DEF LastResult!Next
<1>11. CASE /\ AccumulatedIn(r.acc) = 0 .. n - 1 /\ WrittenTo(r.out) = <<>>
            /\ WrittenTo(r.out)' = <<0 .. n - 1>>
            /\ AccumulatedIn(r.acc)' = AccumulatedIn(r.acc)
  <2>1. LastResult!Write
    BY <1>1, <1>6, <1>8, <1>11 DEF LastResult!Write
  <2> QED BY <2>1 DEF LastResult!Next
<1> QED BY <1>5, <1>9, <1>10, <1>11

\* The CTA implements the row of AttentionRow for its first and its last result:
\* whatever the interleaving, the steps of the row are accumulated in order, each
\* once and from matching operands, and the result is written out once, when it
\* holds them all.
THEOREM RowsImplemented == OrderedSpec => ImplementsRows
<1> QED
  BY OrderInvariant, FirstInit, LastInit, FirstSteps, LastSteps, PTL
  DEF OrderedSpec, ImplementsRows, FirstResult!Steps, LastResult!Steps
=============================================================================
