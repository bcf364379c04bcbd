--------------------------- MODULE ScheduleProofs ---------------------------
(***************************************************************************)
(* Theorems about the schedules of MaskSchedule and the grids that walk    *)
(* them in ScheduledGrid, for every mask, every number and size of blocks  *)
(* and every launch.                                                       *)
(***************************************************************************)
EXTENDS ScheduledGrid, FiniteSetTheorems, SequenceTheorems, TLAPS

\* A part of a finite set is finite and no larger.
LEMMA SubsetSize ==
  ASSUME NEW S, IsFiniteSet(S), NEW T, T \subseteq S
  PROVE  IsFiniteSet(T) /\ Cardinality(T) \in Nat /\ Cardinality(S) \in Nat
         /\ Cardinality(T) <= Cardinality(S)
BY FS_Subset, FS_CardinalityType

\* A finite set can be listed in any strict total order on it: the place of an
\* element is the number of those before it.
LEMMA OrderExists ==
  ASSUME NEW S, IsFiniteSet(S), NEW R,
         \A a \in S : <<a, a>> \notin R,
         \A a, b \in S : a = b \/ <<a, b>> \in R \/ <<b, a>> \in R,
         \A a, b, c \in S : <<a, b>> \in R /\ <<b, c>> \in R => <<a, c>> \in R
  PROVE  \E s \in [1 .. Cardinality(S) -> S] :
           \A a, b \in 1 .. Cardinality(S) : a < b => <<s[a], s[b]>> \in R
<1> DEFINE m == Cardinality(S)
           Below(x) == {y \in S : <<y, x>> \in R}
           rank == [x \in S |-> Cardinality(Below(x)) + 1]
<1>1. m \in Nat
  BY FS_CardinalityType
<1>2. ASSUME NEW x \in S
      PROVE  IsFiniteSet(Below(x)) /\ Cardinality(Below(x)) \in 0 .. m - 1
  <2>1. Below(x) \in SUBSET (S \ {x})
    OBVIOUS
  <2>2. IsFiniteSet(S \ {x}) /\ Cardinality(S \ {x}) = m - 1
    BY FS_RemoveElement
  <2>3. IsFiniteSet(Below(x)) /\ Cardinality(Below(x)) <= m - 1
    <3> HIDE DEF Below
    <3> QED
      BY <2>1, <2>2, SubsetSize
  <2>4. Cardinality(Below(x)) \in Nat
    BY <2>3, FS_CardinalityType
  <2> QED
    BY <1>1, <2>3, <2>4
<1>3. rank \in [S -> 1 .. m]
  <2>1. \A x \in S : Cardinality(Below(x)) + 1 \in 1 .. m
    <3> HIDE DEF Below
    <3> QED
      BY <1>1, <1>2
  <2> QED
    BY <2>1
<1>4. ASSUME NEW x \in S, NEW y \in S, <<x, y>> \in R PROVE rank[x] < rank[y]
  <2>1. Below(x) \in SUBSET (Below(y) \ {x}) /\ x \in Below(y)
    BY <1>4
  <2>2. IsFiniteSet(Below(y) \ {x})
        /\ Cardinality(Below(y) \ {x}) = Cardinality(Below(y)) - 1
    BY <1>2, <2>1, FS_RemoveElement
  <2>3. Cardinality(Below(x)) <= Cardinality(Below(y)) - 1
    <3> HIDE DEF Below
    <3> QED
      BY <2>1, <2>2, SubsetSize
  <2>4. Cardinality(Below(x)) \in Nat /\ Cardinality(Below(y)) \in Nat
    BY <1>2, FS_CardinalityType
  <2> QED
    BY <2>3, <2>4
<1> HIDE DEF m, rank
<1>5. rank \in Surjection(S, 1 .. m)
  <2>1. rank \in Injection(S, 1 .. m)
    <3>1. ASSUME NEW x \in S, NEW y \in S, rank[x] = rank[y] PROVE x = y
      <4>1. rank[x] \in Int /\ rank[y] \in Int
        BY <1>1, <1>3
      <4>2. ~(rank[x] < rank[y]) /\ ~(rank[y] < rank[x])
        BY <3>1, <4>1
      <4> QED
        BY <1>4, <4>2
    <3> QED
      BY <1>3, <3>1 DEF Injection, IsInjective
  <2>2. IsFiniteSet(1 .. m) /\ Cardinality(1 .. m) = m
    BY <1>1, FS_Interval
  <2> QED
    BY <2>1, <2>2, FS_Injection DEF m
<1>6. \A i \in 1 .. m : \E x \in S : rank[x] = i
  BY <1>5 DEF Surjection
<1> DEFINE s == [i \in 1 .. m |-> CHOOSE x \in S : rank[x] = i]
<1>7. \A i \in 1 .. m : s[i] \in S /\ rank[s[i]] = i
  BY <1>6
<1>8. s \in [1 .. m -> S]
  BY <1>7
<1> HIDE DEF s
<1>9. ASSUME NEW a \in 1 .. m, NEW b \in 1 .. m, a < b
      PROVE  <<s[a], s[b]>> \in R
  <2>1. s[a] # s[b] /\ ~(rank[s[b]] < rank[s[a]])
    BY <1>1, <1>7, <1>9
  <2> QED
    BY <1>4, <1>7, <2>1
<1> QED
  BY <1>8, <1>9 DEF m

\* A list of all the elements of a finite set, each once.
Lists(s, S) ==
  /\ s \in [1 .. Cardinality(S) -> S] /\ Cardinality(S) \in Nat
  /\ \A a, b \in 1 .. Cardinality(S) : s[a] = s[b] => a = b
  /\ \A x \in S : \E a \in 1 .. Cardinality(S) : s[a] = x

\* As many elements as the set has, all different, are all of them.
LEMMA ListsAll ==
  ASSUME NEW S, IsFiniteSet(S), NEW s \in [1 .. Cardinality(S) -> S],
         \A a, b \in 1 .. Cardinality(S) : s[a] = s[b] => a = b
  PROVE  Lists(s, S)
<1> DEFINE m == Cardinality(S)
<1>1. m \in Nat
  BY FS_CardinalityType
<1>2. IsFiniteSet(1 .. m) /\ Cardinality(1 .. m) = m
  BY <1>1, FS_Interval
<1>3. s \in Injection(1 .. m, S)
  BY DEF Injection, IsInjective
<1>4. s \in Surjection(1 .. m, S)
  BY <1>2, <1>3, FS_Injection
<1> QED
  BY <1>1, <1>4 DEF Lists, Surjection

\* InOrder, for the two orders the schedule is built with.
LEMMA Ascending ==
  ASSUME NEW S, S \subseteq Int, IsFiniteSet(S)
  PROVE  /\ Lists(InOrder(S, LAMBDA a, b : a < b), S)
         /\ \A a, b \in 1 .. Cardinality(S) :
              a < b => InOrder(S, LAMBDA x, y : x < y)[a] < InOrder(S, LAMBDA x, y : x < y)[b]
<1> DEFINE R == {p \in S \X S : p[1] < p[2]}
           P(s) == \A a, b \in 1 .. Cardinality(S) : a < b => s[a] < s[b]
           T == [1 .. Cardinality(S) -> S]
<1>1. \A a, b \in S : <<a, b>> \in R <=> a < b
  OBVIOUS
<1>2. \E s \in T : \A a, b \in 1 .. Cardinality(S) : a < b => <<s[a], s[b]>> \in R
  <2>1. \A a \in S : <<a, a>> \notin R
    BY <1>1
  <2>2. ASSUME NEW a \in S, NEW b \in S, a # b PROVE <<a, b>> \in R \/ <<b, a>> \in R
    <3>1. a \in Int /\ b \in Int
      OBVIOUS
    <3>2. a < b \/ b < a
      BY <2>2, <3>1
    <3> QED
      BY <1>1, <3>2
  <2>3. \A a, b, c \in S : <<a, b>> \in R /\ <<b, c>> \in R => <<a, c>> \in R
    BY <1>1
  <2> HIDE DEF R
  <2> QED
    BY <2>1, <2>2, <2>3, OrderExists
<1>3. \E s \in T : P(s)
  BY <1>1, <1>2
<1> DEFINE s == InOrder(S, LAMBDA a, b : a < b)
<1>4. s = CHOOSE f \in T : P(f)
  BY DEF InOrder
<1>5. s \in T /\ P(s)
  <2> HIDE DEF s, P, T
  <2> QED
    BY <1>3, <1>4
<1> HIDE DEF s
<1>6. \A a, b \in 1 .. Cardinality(S) : s[a] = s[b] => a = b
  <2>1. Cardinality(S) \in Nat
    BY FS_CardinalityType
  <2>2. \A a \in 1 .. Cardinality(S) : s[a] \in Int
    BY <1>5
  <2> QED
    BY <1>5, <2>1, <2>2
<1>7. Lists(s, S)
  BY <1>5, <1>6, ListsAll
<1> QED
  BY <1>5, <1>7 DEF s

\* The order of the rows by their steps.
Sorted(S, steps) ==
  CHOOSE s \in [1 .. Cardinality(S) -> S] :
    \A a, b \in 1 .. Cardinality(S) : a < b => Before(steps, s[a], s[b])

\* HeaviestFirst sorts the rows of each head, with Before as its order.
LEMMA SortedRows ==
  ASSUME NEW steps, NEW h \in DOMAIN steps
  PROVE  HeaviestFirst(steps)[h] = Sorted(DOMAIN steps[h], steps[h])
BY DEF HeaviestFirst, InOrder, Sorted

LEMMA Heaviest ==
  ASSUME NEW S, S \subseteq Int, IsFiniteSet(S),
         NEW steps, \A r \in S : steps[r] \in Int
  PROVE  /\ Lists(Sorted(S, steps), S)
         /\ \A a, b \in 1 .. Cardinality(S) :
              a < b => Before(steps, Sorted(S, steps)[a], Sorted(S, steps)[b])
<1> DEFINE R == {p \in S \X S : Before(steps, p[1], p[2])}
           P(s) == \A a, b \in 1 .. Cardinality(S) : a < b => Before(steps, s[a], s[b])
           T == [1 .. Cardinality(S) -> S]
<1>0. \A a \in S : a \in Int /\ steps[a] \in Int
  OBVIOUS
<1>1. \A a, b \in S : <<a, b>> \in R <=> Before(steps, a, b)
  OBVIOUS
<1>2. \E s \in T : \A a, b \in 1 .. Cardinality(S) : a < b => <<s[a], s[b]>> \in R
  <2>1. \A a \in S : <<a, a>> \notin R
    BY <1>0, <1>1 DEF Before
  <2>2. ASSUME NEW a \in S, NEW b \in S, a # b PROVE <<a, b>> \in R \/ <<b, a>> \in R
    <3>1. a \in Int /\ b \in Int /\ steps[a] \in Int /\ steps[b] \in Int
      BY <1>0
    <3>2. Before(steps, a, b) \/ Before(steps, b, a)
      BY <2>2, <3>1 DEF Before
    <3> QED
      BY <1>1, <3>2
  <2>3. \A a, b, c \in S : <<a, b>> \in R /\ <<b, c>> \in R => <<a, c>> \in R
    BY <1>0, <1>1 DEF Before
  <2> HIDE DEF R
  <2> QED
    BY <2>1, <2>2, <2>3, OrderExists
<1>3. \E s \in T : P(s)
  BY <1>1, <1>2
<1> DEFINE s == Sorted(S, steps)
<1>4. s = CHOOSE f \in T : P(f)
  BY DEF Sorted
<1>5. s \in T /\ P(s)
  <2> HIDE DEF s, P, T
  <2> QED
    BY <1>3, <1>4
<1> HIDE DEF s
<1>6. \A a, b \in 1 .. Cardinality(S) : s[a] = s[b] => a = b
  <2>1. Cardinality(S) \in Nat
    BY FS_CardinalityType
  <2>2. \A a \in 1 .. Cardinality(S) : s[a] \in Int /\ steps[s[a]] \in Int
    BY <1>5
  <2> QED
    BY <1>5, <2>1, <2>2 DEF Before
<1>7. Lists(s, S)
  BY <1>5, <1>6, ListsAll
<1> QED
  BY <1>5, <1>7 DEF s

\* SetToSeq lists a set: the stored patterns.
LEMMA ListedOnce ==
  ASSUME NEW S, IsFiniteSet(S)
  PROVE  Lists(SetToSeq(S), S)
<1> DEFINE T == [1 .. Cardinality(S) -> S]
<1>1. \E f \in T : IsInjective(f)
  BY FS_CardinalityType DEF ExistsBijection, Bijection, Injection
<1>2. SetToSeq(S) \in T /\ IsInjective(SetToSeq(S))
  <2>1. SetToSeq(S) = CHOOSE f \in T : IsInjective(f)
    BY DEF SetToSeq
  <2> HIDE DEF T
  <2> QED
    BY <1>1, <2>1
<1>3. \A a, b \in 1 .. Cardinality(S) : SetToSeq(S)[a] = SetToSeq(S)[b] => a = b
  BY <1>2 DEF IsInjective
<1> QED
  BY <1>2, <1>3, ListsAll

\* A list is a sequence.
LEMMA ListLen ==
  ASSUME NEW S, NEW s, Lists(s, S)
  PROVE  /\ s \in Seq(S) /\ Len(s) = Cardinality(S) /\ Len(s) \in Nat
         /\ DOMAIN s = 1 .. Len(s)
         /\ \A a \in 1 .. Len(s) : s[a] \in S
         /\ \A a, b \in 1 .. Len(s) : s[a] = s[b] => a = b
         /\ \A x \in S : \E a \in 1 .. Len(s) : s[a] = x
<1>1. s \in Seq(S)
  BY SeqDef DEF Lists
<1>2. Len(s) = Cardinality(S) /\ DOMAIN s = 1 .. Len(s)
  BY <1>1, LenProperties DEF Lists
<1> QED
  BY <1>1, <1>2 DEF Lists

\* Max of a finite set of integers: the number of columns of the tables.
LEMMA MaxBounds ==
  ASSUME NEW S, S \subseteq Int, IsFiniteSet(S), NEW x \in S
  PROVE  x <= Max(S) /\ Max(S) \in S
<1> DEFINE s == InOrder(S, LAMBDA a, b : a < b)
           m == Cardinality(S)
<1>1. Lists(s, S) /\ \A a, b \in 1 .. m : a < b => s[a] < s[b]
  BY Ascending
<1> HIDE DEF s
<1>2. m \in Nat /\ m # 0
  BY FS_CardinalityType, FS_EmptySet
<1>3. s[m] \in S /\ \A y \in S : s[m] >= y
  <2>1. s[m] \in S
    BY <1>1, <1>2 DEF Lists
  <2>2. ASSUME NEW y \in S PROVE s[m] >= y
    <3>1. PICK a \in 1 .. m : s[a] = y
      BY <1>1 DEF Lists
    <3>2. s[m] \in Int /\ y \in Int /\ a \in Int /\ a <= m
      <4>1. \A z \in S : z \in Int
        OBVIOUS
      <4>2. a \in Int /\ a <= m
        BY <1>2
      <4> QED
        BY <2>1, <4>1, <4>2
    <3>3. CASE a < m
      BY <1>1, <1>2, <3>1, <3>2, <3>3
    <3>4. CASE a = m
      BY <3>1, <3>2, <3>4
    <3> QED
      BY <1>2, <3>2, <3>3, <3>4
  <2> QED
    BY <2>1, <2>2
<1>4. Max(S) \in S /\ \A y \in S : Max(S) >= y
  BY <1>3 DEF Max
<1> QED
  BY <1>4
-----------------------------------------------------------------------------
\* The tables of a schedule: those of CompactRows, for a mask of R rows and K
\* columns per head.
Kept(row) == {c \in DOMAIN row : row[c] # EMPTY}

\* The number of the rows counted from 0.
LEMMA CountRows ==
  ASSUME NEW K \in Nat
  PROVE  IsFiniteSet(0 .. K - 1) /\ Cardinality(0 .. K - 1) = K
BY FS_Interval

\* Visited lists the kept columns of a row.
LEMMA VisitedRow ==
  ASSUME NEW K \in Nat, NEW row, DOMAIN row = 0 .. K - 1
  PROVE  Lists(Visited(row), Kept(row)) /\ Len(Visited(row)) \in 0 .. K
<1>1. IsFiniteSet(0 .. K - 1) /\ Cardinality(0 .. K - 1) = K
  BY FS_Interval
<1>2. Kept(row) \subseteq 0 .. K - 1 /\ Kept(row) \subseteq Int
  BY DEF Kept
<1>3. IsFiniteSet(Kept(row)) /\ Cardinality(Kept(row)) \in 0 .. K
  BY <1>1, <1>2, SubsetSize
<1>4. Lists(Visited(row), Kept(row))
  BY <1>2, <1>3, Ascending DEF Visited, Kept
<1> QED
  BY <1>3, <1>4, ListLen

Shaped(bm, H, R, K) ==
  /\ DOMAIN bm = H /\ \A h \in H : DOMAIN bm[h] = 0 .. R - 1
  /\ \A h \in H, r \in 0 .. R - 1 : DOMAIN bm[h][r] = 0 .. K - 1

Listing(t, bm, mn, H, R) ==
  /\ DOMAIN t.numSteps = H
  /\ \A h \in H : DOMAIN t.numSteps[h] = 0 .. R - 1
  /\ \A h \in H, r \in 0 .. R - 1 :
       /\ t.numSteps[h][r] = Len(Visited(bm[h][r]))
       /\ \A s \in 0 .. t.numSteps[h][r] - 1 :
            /\ t.block[h][r][s] = Visited(bm[h][r])[s + 1]
            /\ t.kind[h][r][s] = bm[h][r][Visited(bm[h][r])[s + 1]]
            /\ t.maskBlock[h][r][s] = mn[h][r][Visited(bm[h][r])[s + 1]]

\* CompactRows lists every row, and its tables reach as far as the row does.
LEMMA Compacted ==
  ASSUME NEW H, 0 \in H, NEW R \in Nat, NEW K \in Nat, NEW bm, Shaped(bm, H, R, K),
         NEW mn, NEW t, t = CompactRows(bm, mn)
  PROVE  Listing(t, bm, mn, H, R)
<1> DEFINE heads == DOMAIN bm
           rows == DOMAIN bm[0]
           cols == [h \in heads |-> [r \in rows |-> Visited(bm[h][r])]]
           len == [h \in heads |-> [r \in rows |-> Len(cols[h][r])]]
           lens == {1} \cup {len[h][r] : h \in heads, r \in rows}
           top == Max(lens)
<1>1. t = [numSteps |-> len,
           block |-> [h \in heads |-> [r \in rows |->
                       [s \in 0 .. top - 1 |-> Padded(s, cols[h][r])]]],
           kind |-> [h \in heads |-> [r \in rows |->
                      [s \in 0 .. top - 1 |-> Entry(bm[h][r], cols[h][r], s)]]],
           maskBlock |-> [h \in heads |-> [r \in rows |->
                           [s \in 0 .. top - 1 |-> Entry(mn[h][r], cols[h][r], s)]]]]
  BY DEF CompactRows
<1>2. heads = H /\ rows = 0 .. R - 1
  BY DEF Shaped
<1>3. \A h \in H, r \in 0 .. R - 1 :
        cols[h][r] = Visited(bm[h][r]) /\ len[h][r] = Len(Visited(bm[h][r]))
  BY <1>2
<1>4. \A h \in H, r \in 0 .. R - 1 : len[h][r] \in 0 .. K
  <2>1. ASSUME NEW h \in H, NEW r \in 0 .. R - 1 PROVE len[h][r] \in 0 .. K
    <3>1. DOMAIN bm[h][r] = 0 .. K - 1
      BY DEF Shaped
    <3>2. Len(Visited(bm[h][r])) \in 0 .. K
      BY <3>1, VisitedRow
    <3> HIDE DEF len
    <3> QED
      BY <1>3, <3>2
  <2> QED
    BY <2>1
<1>5. \A h \in H, r \in 0 .. R - 1 : len[h][r] <= top /\ top \in Nat
  <2>1. lens \subseteq 0 .. (K + 1)
    BY <1>2, <1>4
  <2>2. IsFiniteSet(lens)
    <3>1. IsFiniteSet(0 .. (K + 1))
      BY FS_Interval
    <3> HIDE DEF lens
    <3> QED
      BY <2>1, <3>1, SubsetSize
  <2>3. \A h \in H, r \in 0 .. R - 1 : len[h][r] \in lens
    BY <1>2
  <2>4. \A x \in lens : x \in Int
    BY <2>1
  <2> HIDE DEF lens
  <2>5. \A x \in lens : x <= top /\ top \in lens
    BY <2>2, <2>4, MaxBounds
  <2> HIDE DEF top, len
  <2>6. ASSUME NEW h \in H, NEW r \in 0 .. R - 1
        PROVE  len[h][r] <= top /\ top \in Nat
    <3>1. len[h][r] \in lens
      BY <2>3
    <3>2. len[h][r] <= top /\ top \in lens
      BY <2>5, <3>1
    <3> QED
      BY <2>1, <3>2
  <2> QED
    BY <2>6
<1>6. t.numSteps = len
  BY <1>1
<1> HIDE DEF cols, len, top
<1>7. ASSUME NEW h \in H, NEW r \in 0 .. R - 1, NEW s \in 0 .. len[h][r] - 1
      PROVE  /\ t.block[h][r][s] = Visited(bm[h][r])[s + 1]
             /\ t.kind[h][r][s] = bm[h][r][Visited(bm[h][r])[s + 1]]
             /\ t.maskBlock[h][r][s] = mn[h][r][Visited(bm[h][r])[s + 1]]
  <2>1. s \in 0 .. top - 1 /\ s < Len(cols[h][r]) /\ cols[h][r] = Visited(bm[h][r])
    BY <1>3, <1>4, <1>5
  <2>2. /\ t.block[h][r][s] = Padded(s, cols[h][r])
        /\ t.kind[h][r][s] = Entry(bm[h][r], cols[h][r], s)
        /\ t.maskBlock[h][r][s] = Entry(mn[h][r], cols[h][r], s)
    BY <1>1, <1>2, <2>1
  <2> QED
    BY <2>1, <2>2 DEF Padded, Entry
<1>8. DOMAIN len = H /\ \A h \in H : DOMAIN len[h] = 0 .. R - 1
  BY <1>2 DEF len
<1> QED
  BY <1>3, <1>6, <1>7, <1>8 DEF Listing

\* What a grid needs of the tables of a schedule and of the order of its rows:
\* a row lists each of its blocks that are not empty once, with its kind and
\* its mask, and the order each row of a head once, those with more steps first.
WalkRow(t, bm, mn, h, r, K) ==
  /\ t.numSteps[h][r] \in 0 .. K
  /\ \A s \in 0 .. t.numSteps[h][r] - 1 :
       /\ t.block[h][r][s] \in 0 .. K - 1
       /\ bm[h][r][t.block[h][r][s]] # EMPTY
       /\ t.kind[h][r][s] = bm[h][r][t.block[h][r][s]]
       /\ t.maskBlock[h][r][s] = mn[h][r][t.block[h][r][s]]
  /\ \A s, u \in 0 .. t.numSteps[h][r] - 1 :
       t.block[h][r][s] = t.block[h][r][u] => s = u
  /\ \A c \in 0 .. K - 1 :
       bm[h][r][c] # EMPTY
         => \E s \in 0 .. t.numSteps[h][r] - 1 : t.block[h][r][s] = c
Walk(t, order, bm, mn, H, R, K) ==
  /\ DOMAIN t.numSteps = H
  /\ \A h \in H :
       /\ DOMAIN t.numSteps[h] = 0 .. R - 1
       /\ Lists(order[h], 0 .. R - 1) /\ Len(order[h]) = R
       /\ \A a, b \in 1 .. R :
            a < b => t.numSteps[h][order[h][a]] >= t.numSteps[h][order[h][b]]
  /\ \A h \in H, r \in 0 .. R - 1 : WalkRow(t, bm, mn, h, r, K)

\* The tables of CompactRows and the order of HeaviestFirst are such.
LEMMA Walks ==
  ASSUME NEW H, 0 \in H, NEW R \in Nat, NEW K \in Nat, NEW bm, Shaped(bm, H, R, K),
         NEW mn, NEW t, t = CompactRows(bm, mn)
  PROVE  Walk(t, HeaviestFirst(t.numSteps), bm, mn, H, R, K)
<1> DEFINE order == HeaviestFirst(t.numSteps)
<1>1. Listing(t, bm, mn, H, R)
  BY Compacted
<1>2. ASSUME NEW h \in H, NEW r \in 0 .. R - 1 PROVE WalkRow(t, bm, mn, h, r, K)
  <2> DEFINE v == Visited(bm[h][r])
             n == t.numSteps[h][r]
  <2>1. Lists(v, Kept(bm[h][r])) /\ Len(v) \in 0 .. K
    <3>1. DOMAIN bm[h][r] = 0 .. K - 1
      BY DEF Shaped
    <3> QED
      BY <3>1, VisitedRow
  <2>2. /\ n = Len(v)
        /\ \A s \in 0 .. n - 1 :
             t.block[h][r][s] = v[s + 1] /\ t.kind[h][r][s] = bm[h][r][v[s + 1]]
             /\ t.maskBlock[h][r][s] = mn[h][r][v[s + 1]]
    BY <1>1 DEF Listing
  <2>3. \A c : c \in Kept(bm[h][r]) <=> c \in 0 .. K - 1 /\ bm[h][r][c] # EMPTY
    BY DEF Kept, Shaped
  <2>4. /\ \A a \in 1 .. Len(v) : v[a] \in Kept(bm[h][r])
        /\ \A a, b \in 1 .. Len(v) : v[a] = v[b] => a = b
        /\ \A x \in Kept(bm[h][r]) : \E a \in 1 .. Len(v) : v[a] = x
    BY <2>1, ListLen
  <2> HIDE DEF v, n
  <2>5. \A s \in 0 .. n - 1 : s + 1 \in 1 .. Len(v)
    BY <2>1, <2>2
  <2>6. \A s \in 0 .. n - 1 :
          /\ t.block[h][r][s] \in 0 .. K - 1
          /\ bm[h][r][t.block[h][r][s]] # EMPTY
          /\ t.kind[h][r][s] = bm[h][r][t.block[h][r][s]]
          /\ t.maskBlock[h][r][s] = mn[h][r][t.block[h][r][s]]
    BY <2>2, <2>3, <2>4, <2>5
  <2>7. \A s, u \in 0 .. n - 1 : t.block[h][r][s] = t.block[h][r][u] => s = u
    <3>1. ASSUME NEW s \in 0 .. n - 1, NEW u \in 0 .. n - 1,
                 t.block[h][r][s] = t.block[h][r][u]
          PROVE  s = u
      <4>1. s + 1 = u + 1
        BY <2>2, <2>4, <2>5, <3>1
      <4> QED
        BY <2>1, <2>2, <4>1
    <3> QED
      BY <3>1
  <2>8. ASSUME NEW c \in 0 .. K - 1, bm[h][r][c] # EMPTY
        PROVE  \E s \in 0 .. n - 1 : t.block[h][r][s] = c
    <3>1. PICK a \in 1 .. Len(v) : v[a] = c
      BY <2>3, <2>4, <2>8
    <3>2. a - 1 \in 0 .. n - 1 /\ (a - 1) + 1 = a
      BY <2>1, <2>2, <3>1
    <3> QED
      BY <2>2, <3>1, <3>2
  <2> QED
    BY <2>1, <2>2, <2>6, <2>7, <2>8 DEF n, WalkRow
<1>3. ASSUME NEW h \in H
      PROVE  /\ Lists(order[h], 0 .. R - 1) /\ Len(order[h]) = R
             /\ \A a, b \in 1 .. R :
                  a < b => t.numSteps[h][order[h][a]] >= t.numSteps[h][order[h][b]]
  <2> DEFINE S == 0 .. R - 1
             steps == t.numSteps[h]
             o == order[h]
  <2>1. IsFiniteSet(S) /\ Cardinality(S) = R /\ S \subseteq Int
    <3>1. IsFiniteSet(S) /\ Cardinality(S) = R
      BY CountRows
    <3> QED
      BY <3>1
  <2>2. \A r \in S : steps[r] \in Int
    BY <1>2 DEF WalkRow
  <2>3. o = Sorted(S, steps)
    BY <1>1, SortedRows DEF Listing
  <2> HIDE DEF o, steps, S
  <2>7. Lists(o, S) /\ \A a, b \in 1 .. R : a < b => Before(steps, o[a], o[b])
    BY <2>1, <2>2, <2>3, Heaviest
  <2>8. Len(o) = R /\ \A a \in 1 .. R : o[a] \in S
    BY <2>1, <2>7, ListLen
  <2>9. ASSUME NEW a \in 1 .. R, NEW b \in 1 .. R, a < b
        PROVE  steps[o[a]] >= steps[o[b]]
    <3>1. Before(steps, o[a], o[b])
      BY <2>7, <2>9
    <3>2. o[a] \in S /\ o[b] \in S
      BY <2>8
    <3>3. steps[o[a]] \in Int /\ steps[o[b]] \in Int
      BY <2>2, <3>2
    <3> QED
      BY <3>1, <3>3 DEF Before
  <2> QED
    BY <2>7, <2>8, <2>9 DEF o, steps, S
<1> QED
  BY <1>1, <1>2, <1>3 DEF Walk, Listing
-----------------------------------------------------------------------------
\* The masks of a launch.
LEMMA Sizes ==
  /\ QBlocks \in Nat \ {0} /\ KvBlocks \in Nat \ {0}
  /\ BlockQ \in Nat \ {0} /\ BlockKv \in Nat \ {0} /\ Heads \in Nat \ {0}
BY SizesAssumption, HeadsAssumption

\* The kind of a block says whether none, some or all of it is visible.
LEMMA Kinds ==
  ASSUME NEW pattern
  PROVE  /\ Kind(pattern) \in {EMPTY, PARTIAL, FULL}
         /\ Kind(pattern) = EMPTY <=> pattern = {}
         /\ Kind(pattern) = FULL <=> pattern = Cells
         /\ Kind(pattern) = PARTIAL <=> pattern \notin {{}, Cells}
<1>1. Cells # {}
  <2>1. 0 \in 0 .. BlockQ - 1 /\ 0 \in 0 .. BlockKv - 1
    BY Sizes
  <2>2. <<0, 0>> \in Cells
    BY <2>1 DEF Cells
  <2> QED
    BY <2>2
<1> QED
  BY <1>1 DEF Kind, EMPTY, PARTIAL, FULL

\* Every partial block finds its pattern among the stored ones.
LEMMA StoredAll ==
  ASSUME NEW H, NEW mask \in [H -> Masks],
         NEW h \in H, NEW i \in 0 .. QBlocks - 1, NEW j \in 0 .. KvBlocks - 1,
         Kind(mask[h][i][j]) = PARTIAL
  PROVE  /\ MaskNext(mask)[h][i][j] \in DOMAIN Stored(mask)
         /\ Stored(mask)[MaskNext(mask)[h][i][j]] = mask[h][i][j]
<1> DEFINE S == { mask[g][k][l] : g \in DOMAIN mask, k \in 0 .. QBlocks - 1,
                                  l \in 0 .. KvBlocks - 1 } \ {{}, Cells}
           s == Stored(mask)
           m == mask[h][i][j]
<1>1. IsFiniteSet(S)
  <2>1. IsFiniteSet(0 .. BlockQ - 1) /\ IsFiniteSet(0 .. BlockKv - 1)
    BY Sizes, CountRows
  <2>2. IsFiniteSet(Cells)
    BY <2>1, FS_Product DEF Cells
  <2>3. IsFiniteSet(SUBSET Cells)
    BY <2>2, FS_SUBSET
  <2>4. S \subseteq SUBSET Cells
    <3>1. ASSUME NEW g \in H, NEW k \in 0 .. QBlocks - 1, NEW l \in 0 .. KvBlocks - 1
          PROVE  mask[g][k][l] \in SUBSET Cells
      <4>1. mask[g] \in [0 .. QBlocks - 1 -> [0 .. KvBlocks - 1 -> SUBSET Cells]]
        BY DEF Masks
      <4> QED
        BY <4>1
    <3> QED
      BY <3>1
  <2> HIDE DEF S
  <2> QED
    BY <2>3, <2>4, SubsetSize
<1>2. m \in S
  BY Kinds
<1>3. s = SetToSeq(S)
  BY DEF Stored
<1>4. Lists(s, S)
  <2> HIDE DEF s, S
  <2> QED
    BY <1>1, <1>3, ListedOnce
<1>5. \E x \in DOMAIN s : s[x] = m
  <2> HIDE DEF s, S, m
  <2> QED
    BY <1>2, <1>4, ListLen
<1>6. MaskNext(mask)[h][i][j] = CHOOSE x \in DOMAIN s : s[x] = m
  BY DEF MaskNext
<1> HIDE DEF s, m
<1>7. MaskNext(mask)[h][i][j] \in DOMAIN s /\ s[MaskNext(mask)[h][i][j]] = m
  BY <1>5, <1>6
<1> QED
  BY <1>7 DEF s, m

\* The row of the schedule that head h walks is that of its own mask, however
\* many heads share it.
HeadOf(H, h) == IF Cardinality(H) > 1 THEN h ELSE 0

LEMMA SharedMask ==
  ASSUME NEW heads \in [0 .. Heads - 1 -> Masks], NEW m, m = OneMask(heads),
         NEW H, H = DOMAIN m
  PROVE  /\ 0 \in H /\ m \in [H -> Masks]
         /\ \A h \in 0 .. Heads - 1 :
              HeadOf(H, h) \in H /\ m[HeadOf(H, h)] = heads[h]
<1>1. 0 \in 0 .. Heads - 1
  BY Sizes
<1>2. CASE \A h \in DOMAIN heads : heads[h] = heads[0]
  <2>1. m = [h \in {0} |-> heads[0]]
    BY <1>2 DEF OneMask
  <2>2. H = {0} /\ m[0] = heads[0] /\ heads[0] \in Masks
    BY <1>1, <2>1
  <2>3. Cardinality(H) = 1
    BY <2>2, FS_Singleton
  <2>4. \A h : HeadOf(H, h) = 0
    BY <2>3 DEF HeadOf
  <2> QED
    BY <1>2, <2>1, <2>2, <2>4
<1>3. CASE ~ \A h \in DOMAIN heads : heads[h] = heads[0]
  <2>1. m = heads /\ H = 0 .. Heads - 1
    BY <1>3 DEF OneMask
  <2>2. Cardinality(H) = Heads
    BY <2>1, Sizes, CountRows
  <2>3. Heads # 1
    <3>1. PICK h \in 0 .. Heads - 1 : heads[h] # heads[0]
      BY <1>3
    <3>2. h # 0
      BY <3>1
    <3> QED
      BY <3>2, Sizes
  <2>4. \A h : HeadOf(H, h) = h
    BY <2>2, <2>3, Sizes DEF HeadOf
  <2> QED
    BY <1>1, <2>1, <2>4
<1> QED
  BY <1>2, <1>3
-----------------------------------------------------------------------------
\* The launch: its rows are the q blocks or the KV blocks, and block c of row r
\* of head h has this pattern.
Rows == IF ByRows(call) THEN QBlocks ELSE KvBlocks
Columns == IF ByRows(call) THEN KvBlocks ELSE QBlocks
Pattern(h, r, c) == IF ByRows(call) THEN call.mask[h][r][c] ELSE call.mask[h][c][r]
Blocks == IF ByRows(call) THEN schedule.stored ELSE schedule.storedT

Built == call \in Calls /\ schedule = ProcessMask(call.mask)

\* What a CTA reads in row r of the tables of head h.
TableRow(h, r) ==
  LET mh == MaskHead(h)
      n == Walked.numSteps[mh][r]
      block == Walked.block[mh][r] IN
  /\ n \in 0 .. Columns
  /\ \A s \in 0 .. n - 1 :
       /\ block[s] \in 0 .. Columns - 1 /\ Pattern(h, r, block[s]) # {}
       /\ Walked.kind[mh][r][s] = Kind(Pattern(h, r, block[s]))
       /\ Walked.kind[mh][r][s] = PARTIAL =>
            \A p \in Cells :
              p \in Pattern(h, r, block[s]) <=>
                (IF ByRows(call) THEN p ELSE <<p[2], p[1]>>)
                   \in Blocks[Walked.maskBlock[mh][r][s]]
  /\ \A s, u \in 0 .. n - 1 : block[s] = block[u] => s = u
  /\ \A c \in 0 .. Columns - 1 :
       Pattern(h, r, c) # {} => \E s \in 0 .. n - 1 : block[s] = c

Table(h) ==
  LET mh == MaskHead(h) IN
  /\ mh \in DOMAIN Walked.numSteps
  /\ DOMAIN Walked.numSteps[mh] = 0 .. Rows - 1
  /\ Lists(Order[mh], 0 .. Rows - 1) /\ Len(Order[mh]) = Rows
  /\ \A a, b \in 1 .. Rows :
       a < b => Walked.numSteps[mh][Order[mh][a]] >= Walked.numSteps[mh][Order[mh][b]]
  /\ \A r \in 0 .. Rows - 1 : TableRow(h, r)

\* BlockMask and MaskNext, and their transposes, entry by entry.
LEMMA Schedules ==
  ASSUME NEW mask, NEW H, mask \in [H -> Masks], 0 \in H,
         NEW bm, bm = BlockMask(mask), NEW mn, mn = MaskNext(mask)
  PROVE  /\ Shaped(bm, H, QBlocks, KvBlocks)
         /\ Shaped(Transpose(bm), H, KvBlocks, QBlocks)
         /\ \A h \in H, i \in 0 .. QBlocks - 1, j \in 0 .. KvBlocks - 1 :
              /\ bm[h][i][j] = Kind(mask[h][i][j])
              /\ Transpose(bm)[h][j][i] = Kind(mask[h][i][j])
              /\ Transpose(mn)[h][j][i] = mn[h][i][j]
<1>1. DOMAIN mask = H
  OBVIOUS
<1>2. /\ DOMAIN bm = H /\ DOMAIN mn = H
      /\ \A h \in H : DOMAIN bm[h] = 0 .. QBlocks - 1
      /\ \A h \in H, i \in 0 .. QBlocks - 1 : DOMAIN bm[h][i] = 0 .. KvBlocks - 1
      /\ \A h \in H, i \in 0 .. QBlocks - 1, j \in 0 .. KvBlocks - 1 :
           bm[h][i][j] = Kind(mask[h][i][j])
  BY <1>1 DEF BlockMask, MaskNext
<1>3. \A h \in H, i \in 0 .. QBlocks - 1, j \in 0 .. KvBlocks - 1 :
        Transpose(bm)[h][j][i] = bm[h][i][j] /\ Transpose(mn)[h][j][i] = mn[h][i][j]
  BY <1>2 DEF Transpose
<1>4. Shaped(Transpose(bm), H, KvBlocks, QBlocks)
  BY <1>2 DEF Transpose, Shaped
<1> QED
  BY <1>2, <1>3, <1>4 DEF Shaped

\* A row lists a block that is not empty with its kind and its mask.
LEMMA ListedRow ==
  ASSUME NEW t, NEW bm, NEW mn, NEW h, NEW r, NEW K, WalkRow(t, bm, mn, h, r, K),
         NEW c \in 0 .. K - 1, NEW kind, kind # EMPTY, NEW id
  PROVE  <<c, kind, id>> \in Listed(t, h, r) <=> bm[h][r][c] = kind /\ mn[h][r][c] = id
<1> DEFINE n == t.numSteps[h][r]
<1>1. <<c, kind, id>> \in Listed(t, h, r) <=>
        \E s \in 0 .. n - 1 :
          c = t.block[h][r][s] /\ kind = t.kind[h][r][s] /\ id = t.maskBlock[h][r][s]
  BY DEF Listed
<1>2. /\ \A s \in 0 .. n - 1 : t.kind[h][r][s] = bm[h][r][t.block[h][r][s]]
      /\ \A s \in 0 .. n - 1 : t.maskBlock[h][r][s] = mn[h][r][t.block[h][r][s]]
      /\ bm[h][r][c] # EMPTY => \E s \in 0 .. n - 1 : t.block[h][r][s] = c
  BY DEF WalkRow
<1> DEFINE block == t.block[h][r]
<1>3. ASSUME NEW s \in 0 .. n - 1, c = block[s], kind = t.kind[h][r][s],
             id = t.maskBlock[h][r][s]
      PROVE  bm[h][r][c] = kind /\ mn[h][r][c] = id
  BY <1>2, <1>3
<1>4. ASSUME bm[h][r][c] = kind, mn[h][r][c] = id
      PROVE  \E s \in 0 .. n - 1 :
               c = block[s] /\ kind = t.kind[h][r][s] /\ id = t.maskBlock[h][r][s]
  <2>1. PICK s \in 0 .. n - 1 : block[s] = c
    BY <1>2, <1>4
  <2>2. kind = t.kind[h][r][s] /\ id = t.maskBlock[h][r][s]
    BY <1>2, <1>4, <2>1
  <2> QED
    BY <2>1, <2>2
<1> QED
  BY <1>1, <1>3, <1>4

\* Both schedules of process_mask, by rows and by columns, are walkable.
LEMMA Tables ==
  ASSUME Built
  PROVE  (\A h \in 0 .. Heads - 1 : Table(h)) /\ SchedulesAgree
<1> DEFINE mask == OneMask(call.mask)
           H == DOMAIN mask
           bm == BlockMask(mask)
           mn == MaskNext(mask)
           s == Stored(mask)
<1>1. call.mask \in [0 .. Heads - 1 -> Masks]
  BY DEF Built, Calls
<1>2. 0 \in H /\ mask \in [H -> Masks]
      /\ \A h \in 0 .. Heads - 1 : HeadOf(H, h) \in H /\ mask[HeadOf(H, h)] = call.mask[h]
  <2> HIDE DEF mask
  <2> QED
    BY <1>1, SharedMask DEF mask
<1>3. /\ schedule.rows = CompactRows(bm, mn)
      /\ schedule.columns = CompactRows(Transpose(bm), Transpose(mn))
      /\ schedule.rowOrder = HeaviestFirst(schedule.rows.numSteps)
      /\ schedule.columnOrder = HeaviestFirst(schedule.columns.numSteps)
      /\ schedule.stored = s /\ schedule.storedT = Transposed(s)
  BY DEF Built, ProcessMask
<1> HIDE DEF mask, H, bm, mn, s
<1>4. /\ Shaped(bm, H, QBlocks, KvBlocks)
      /\ Shaped(Transpose(bm), H, KvBlocks, QBlocks)
      /\ \A h \in H, i \in 0 .. QBlocks - 1, j \in 0 .. KvBlocks - 1 :
           /\ bm[h][i][j] = Kind(mask[h][i][j])
           /\ Transpose(bm)[h][j][i] = Kind(mask[h][i][j])
           /\ Transpose(mn)[h][j][i] = mn[h][i][j]
  BY <1>2, Schedules DEF bm, mn
<1>5. /\ Walk(schedule.rows, schedule.rowOrder, bm, mn, H, QBlocks, KvBlocks)
      /\ Walk(schedule.columns, schedule.columnOrder, Transpose(bm), Transpose(mn),
              H, KvBlocks, QBlocks)
  BY <1>2, <1>3, <1>4, Walks, Sizes
<1>6. ASSUME NEW h \in H, NEW i \in 0 .. QBlocks - 1, NEW j \in 0 .. KvBlocks - 1,
             Kind(mask[h][i][j]) = PARTIAL
      PROVE  /\ schedule.stored[mn[h][i][j]] = mask[h][i][j]
             /\ \A p \in Cells : p \in mask[h][i][j]
                  <=> <<p[2], p[1]>> \in schedule.storedT[mn[h][i][j]]
  <2>1. mn[h][i][j] \in DOMAIN s /\ s[mn[h][i][j]] = mask[h][i][j]
    BY <1>2, <1>6, StoredAll DEF mn, s
  <2>2. schedule.storedT[mn[h][i][j]] = {<<p[2], p[1]>> : p \in mask[h][i][j]}
    BY <1>3, <2>1 DEF Transposed
  <2>3. mask[h][i][j] \subseteq Cells
    <3>1. mask[h] \in [0 .. QBlocks - 1 -> [0 .. KvBlocks - 1 -> SUBSET Cells]]
      BY <1>2 DEF Masks
    <3> QED
      BY <3>1
  <2> QED
    BY <1>3, <2>1, <2>2, <2>3 DEF Cells
<1>7. DOMAIN schedule.rows.numSteps = H /\ DOMAIN schedule.columns.numSteps = H
  BY <1>5 DEF Walk
<1>8. ASSUME NEW h \in 0 .. Heads - 1, ByRows(call) PROVE Table(h)
  <2> DEFINE mh == MaskHead(h)
             t == schedule.rows
  <2>1. mh \in H /\ mask[mh] = call.mask[h]
    BY <1>2, <1>7, <1>8 DEF MaskHead, HeadOf, Walked
  <2>2. /\ Walked = t /\ Order = schedule.rowOrder /\ Blocks = schedule.stored
        /\ Rows = QBlocks /\ Columns = KvBlocks
        /\ \A r, c : Pattern(h, r, c) = mask[mh][r][c]
    BY <1>8, <2>1 DEF Walked, Order, Blocks, Rows, Columns, Pattern
  <2> HIDE DEF mh, t
  <2>3. \A r \in 0 .. QBlocks - 1, c \in 0 .. KvBlocks - 1 :
          (bm[mh][r][c] # EMPTY <=> mask[mh][r][c] # {})
    BY <1>4, <2>1, Kinds
  <2>4. ASSUME NEW r \in 0 .. QBlocks - 1 PROVE TableRow(h, r)
    <3> DEFINE n == t.numSteps[mh][r]
               block == t.block[mh][r]
               kind == t.kind[mh][r]
               id == t.maskBlock[mh][r]
    <3>1. WalkRow(t, bm, mn, mh, r, KvBlocks)
      BY <1>5, <2>1 DEF Walk, t
    <3>2. /\ n \in 0 .. KvBlocks
          /\ \A a \in 0 .. n - 1 :
               /\ block[a] \in 0 .. KvBlocks - 1 /\ bm[mh][r][block[a]] # EMPTY
               /\ kind[a] = bm[mh][r][block[a]] /\ id[a] = mn[mh][r][block[a]]
          /\ \A a, u \in 0 .. n - 1 : block[a] = block[u] => a = u
          /\ \A c \in 0 .. KvBlocks - 1 :
               bm[mh][r][c] # EMPTY => \E a \in 0 .. n - 1 : block[a] = c
      BY <3>1 DEF WalkRow
    <3> HIDE DEF n, block, kind, id
    <3>3. ASSUME NEW a \in 0 .. n - 1
          PROVE  /\ block[a] \in 0 .. KvBlocks - 1 /\ mask[mh][r][block[a]] # {}
                 /\ kind[a] = Kind(mask[mh][r][block[a]])
      BY <1>4, <2>1, <2>3, <3>2
    <3>4. ASSUME NEW a \in 0 .. n - 1, kind[a] = PARTIAL, NEW p \in Cells
          PROVE  p \in mask[mh][r][block[a]] <=>
                   p \in schedule.stored[id[a]]
      <4>1. block[a] \in 0 .. KvBlocks - 1 /\ Kind(mask[mh][r][block[a]]) = PARTIAL
        BY <3>3, <3>4
      <4>2. id[a] = mn[mh][r][block[a]]
        BY <1>4, <2>1, <3>2, <4>1
      <4> QED
        BY <1>6, <2>1, <4>1, <4>2
    <3>5. ASSUME NEW c \in 0 .. KvBlocks - 1, mask[mh][r][c] # {}
          PROVE  \E a \in 0 .. n - 1 : block[a] = c
      BY <2>3, <3>2, <3>5
    <3>6. /\ n = Walked.numSteps[MaskHead(h)][r] /\ block = Walked.block[MaskHead(h)][r]
          /\ kind = Walked.kind[MaskHead(h)][r] /\ id = Walked.maskBlock[MaskHead(h)][r]
      BY <2>2 DEF n, block, kind, id, mh
    <3>7. \A c : Pattern(h, r, c) = mask[mh][r][c]
      BY <2>2
    <3> QED
      BY <1>8, <2>2, <3>2, <3>3, <3>4, <3>5, <3>6, <3>7 DEF TableRow
  <2>5. /\ mh \in DOMAIN t.numSteps /\ DOMAIN t.numSteps[mh] = 0 .. QBlocks - 1
        /\ Lists(schedule.rowOrder[mh], 0 .. QBlocks - 1)
        /\ Len(schedule.rowOrder[mh]) = QBlocks
        /\ \A a, b \in 1 .. QBlocks :
             a < b => t.numSteps[mh][schedule.rowOrder[mh][a]]
                        >= t.numSteps[mh][schedule.rowOrder[mh][b]]
    BY <1>5, <2>1 DEF Walk, t
  <2> QED
    BY <1>8, <2>2, <2>4, <2>5 DEF Table, mh
<1>9. ASSUME NEW h \in 0 .. Heads - 1, ~ByRows(call) PROVE Table(h)
  <2> DEFINE mh == MaskHead(h)
             t == schedule.columns
  <2>1. mh \in H /\ mask[mh] = call.mask[h]
    BY <1>2, <1>7, <1>9 DEF MaskHead, HeadOf, Walked
  <2>2. /\ Walked = t /\ Order = schedule.columnOrder /\ Blocks = schedule.storedT
        /\ Rows = KvBlocks /\ Columns = QBlocks
        /\ \A r, c : Pattern(h, r, c) = mask[mh][c][r]
    BY <1>9, <2>1 DEF Walked, Order, Blocks, Rows, Columns, Pattern
  <2> HIDE DEF mh, t
  <2>3. \A r \in 0 .. KvBlocks - 1, c \in 0 .. QBlocks - 1 :
          (Transpose(bm)[mh][r][c] # EMPTY <=> mask[mh][c][r] # {})
    BY <1>4, <2>1, Kinds
  <2>4. ASSUME NEW r \in 0 .. KvBlocks - 1 PROVE TableRow(h, r)
    <3> DEFINE n == t.numSteps[mh][r]
               block == t.block[mh][r]
               kind == t.kind[mh][r]
               id == t.maskBlock[mh][r]
    <3>1. WalkRow(t, Transpose(bm), Transpose(mn), mh, r, QBlocks)
      BY <1>5, <2>1 DEF Walk, t
    <3>2. /\ n \in 0 .. QBlocks
          /\ \A a \in 0 .. n - 1 :
               /\ block[a] \in 0 .. QBlocks - 1 /\ Transpose(bm)[mh][r][block[a]] # EMPTY
               /\ kind[a] = Transpose(bm)[mh][r][block[a]] /\ id[a] = Transpose(mn)[mh][r][block[a]]
          /\ \A a, u \in 0 .. n - 1 : block[a] = block[u] => a = u
          /\ \A c \in 0 .. QBlocks - 1 :
               Transpose(bm)[mh][r][c] # EMPTY => \E a \in 0 .. n - 1 : block[a] = c
      BY <3>1 DEF WalkRow
    <3> HIDE DEF n, block, kind, id
    <3>3. ASSUME NEW a \in 0 .. n - 1
          PROVE  /\ block[a] \in 0 .. QBlocks - 1 /\ mask[mh][block[a]][r] # {}
                 /\ kind[a] = Kind(mask[mh][block[a]][r])
      BY <1>4, <2>1, <2>3, <3>2
    <3>4. ASSUME NEW a \in 0 .. n - 1, kind[a] = PARTIAL, NEW p \in Cells
          PROVE  p \in mask[mh][block[a]][r] <=>
                   <<p[2], p[1]>> \in schedule.storedT[id[a]]
      <4>1. block[a] \in 0 .. QBlocks - 1 /\ Kind(mask[mh][block[a]][r]) = PARTIAL
        BY <3>3, <3>4
      <4>2. id[a] = mn[mh][block[a]][r]
        BY <1>4, <2>1, <3>2, <4>1
      <4> QED
        BY <1>6, <2>1, <4>1, <4>2
    <3>5. ASSUME NEW c \in 0 .. QBlocks - 1, mask[mh][c][r] # {}
          PROVE  \E a \in 0 .. n - 1 : block[a] = c
      BY <2>3, <3>2, <3>5
    <3>6. /\ n = Walked.numSteps[MaskHead(h)][r] /\ block = Walked.block[MaskHead(h)][r]
          /\ kind = Walked.kind[MaskHead(h)][r] /\ id = Walked.maskBlock[MaskHead(h)][r]
      BY <2>2 DEF n, block, kind, id, mh
    <3>7. \A c : Pattern(h, r, c) = mask[mh][c][r]
      BY <2>2
    <3> QED
      BY <1>9, <2>2, <3>2, <3>3, <3>4, <3>5, <3>6, <3>7 DEF TableRow
  <2>5. /\ mh \in DOMAIN t.numSteps /\ DOMAIN t.numSteps[mh] = 0 .. KvBlocks - 1
        /\ Lists(schedule.columnOrder[mh], 0 .. KvBlocks - 1)
        /\ Len(schedule.columnOrder[mh]) = KvBlocks
        /\ \A a, b \in 1 .. KvBlocks :
             a < b => t.numSteps[mh][schedule.columnOrder[mh][a]]
                        >= t.numSteps[mh][schedule.columnOrder[mh][b]]
    BY <1>5, <2>1 DEF Walk, t
  <2> QED
    BY <1>9, <2>2, <2>4, <2>5 DEF Table, mh
<1>10. SchedulesAgree
  <2> SUFFICES ASSUME NEW h \in H, NEW i \in 0 .. QBlocks - 1,
                      NEW j \in 0 .. KvBlocks - 1, NEW kind \in {PARTIAL, FULL}, NEW id
               PROVE  <<j, kind, id>> \in Listed(schedule.rows, h, i)
                        <=> <<i, kind, id>> \in Listed(schedule.columns, h, j)
    BY <1>7 DEF SchedulesAgree
  <2>1. /\ WalkRow(schedule.rows, bm, mn, h, i, KvBlocks)
        /\ WalkRow(schedule.columns, Transpose(bm), Transpose(mn), h, j, QBlocks)
    BY <1>5 DEF Walk
  <2>2. kind # EMPTY
    BY DEF EMPTY, PARTIAL, FULL
  <2>3. <<j, kind, id>> \in Listed(schedule.rows, h, i)
          <=> bm[h][i][j] = kind /\ mn[h][i][j] = id
    BY <2>1, <2>2, ListedRow
  <2>4. <<i, kind, id>> \in Listed(schedule.columns, h, j)
          <=> Transpose(bm)[h][j][i] = kind /\ Transpose(mn)[h][j][i] = id
    BY <2>1, <2>2, ListedRow
  <2> QED
    BY <1>4, <2>3, <2>4
<1> QED
  BY <1>8, <1>9, <1>10
-----------------------------------------------------------------------------
\* Places in blocks, heads in groups and steps in blocks are counted by quotient
\* and remainder.
LEMMA DivMod ==
  ASSUME NEW n \in Nat, NEW d \in Nat \ {0}
  PROVE  /\ n \div d \in Nat /\ (n % d) \in 0 .. d - 1
         /\ n = (n \div d) * d + (n % d)
OBVIOUS

LEMMA DivUnique ==
  ASSUME NEW d \in Nat \ {0}, NEW a \in Nat, NEW b \in Nat,
         NEW r \in 0 .. d - 1, NEW s \in 0 .. d - 1, a * d + r = b * d + s
  PROVE  a = b /\ r = s
<1>1. CASE a < b
  <2>1. a + 1 <= b
    BY <1>1
  <2>2. (a + 1) * d <= b * d
    BY <2>1
  <2> QED
    BY <2>2
<1>2. CASE b < a
  <2>1. b + 1 <= a
    BY <1>2
  <2>2. (b + 1) * d <= a * d
    BY <2>1
  <2> QED
    BY <2>2
<1> QED
  BY <1>1, <1>2

LEMMA Product ==
  ASSUME NEW n \in Nat, NEW d \in Nat \ {0}, NEW a \in 0 .. n - 1, NEW r \in 0 .. d - 1
  PROVE  a * d + r \in 0 .. n * d - 1
<1>1. (a + 1) * d <= n * d
  OBVIOUS
<1> QED
  BY <1>1

\* A block is cut into sub-blocks.
LEMMA SubBlocks ==
  ASSUME call \in Calls
  PROVE  /\ Parts \in Nat \ {0} /\ call.sub \in Nat \ {0} /\ call.group \in Nat \ {0}
         /\ Parts * call.sub = BlockRows(call)
<1>1. /\ call.sub \in 1 .. BlockQ + BlockKv /\ BlockRows(call) % call.sub = 0
      /\ call.group \in 1 .. Heads
  BY DEF Calls
<1>2. BlockRows(call) \in Nat \ {0} /\ call.sub \in Nat \ {0} /\ call.group \in Nat \ {0}
  BY <1>1, Sizes DEF BlockRows
<1>3. /\ BlockRows(call) \div call.sub \in Nat
      /\ BlockRows(call) = (BlockRows(call) \div call.sub) * call.sub
                             + (BlockRows(call) % call.sub)
  BY <1>2, DivMod
<1> HIDE DEF BlockRows
<1>4. Parts \in Nat /\ Parts * call.sub = BlockRows(call)
  <2> DEFINE n == BlockRows(call)
             d == n \div call.sub
  <2>1. n = d * call.sub + 0 /\ d \in Nat /\ n \in Nat /\ call.sub \in Nat
    BY <1>1, <1>2, <1>3
  <2>2. Parts = d
    BY DEF Parts
  <2> HIDE DEF n, d
  <2> QED
    BY <2>1, <2>2 DEF n
<1>5. Parts # 0
  BY <1>2, <1>4
<1> QED
  BY <1>2, <1>4, <1>5

\* Each q head is walked in one place: by one head of the grid, as one head of
\* its group.
LEMMA QHeads ==
  ASSUME call \in Calls
  PROVE  /\ LastG \in Nat
         /\ \A x \in GridHeads, g \in 0 .. LastG :
              x \in Nat /\ QHead(x, g) \in 0 .. Heads - 1
         /\ \A x, y \in GridHeads, g, l \in 0 .. LastG :
              QHead(x, g) = QHead(y, l) => x = y /\ g = l
         /\ \A h \in 0 .. Heads - 1 : \E x \in GridHeads, g \in 0 .. LastG : QHead(x, g) = h
<1>1. CASE ByRows(call)
  <2>1. LastG = 0 /\ GridHeads = 0 .. Heads - 1 /\ \A x, g : QHead(x, g) = x
    BY <1>1 DEF LastG, GridHeads, QHead
  <2> QED
    BY <2>1, Sizes
<1>2. CASE ~ByRows(call)
  <2> DEFINE d == call.group
             n == Heads \div d
  <2>1. d \in Nat \ {0} /\ Heads \in Nat /\ Heads % d = 0
    BY SubBlocks, Sizes DEF Calls
  <2>2. LastG = d - 1 /\ GridHeads = 0 .. n - 1 /\ \A x, g : QHead(x, g) = x * d + g
    BY <1>2 DEF LastG, GridHeads, QHead
  <2>3. n \in Nat /\ Heads = n * d
    <3>1. n \in Nat /\ Heads = n * d + (Heads % d)
      BY <2>1, DivMod
    <3>2. Heads = n * d + 0
      BY <2>1, <3>1
    <3> HIDE DEF n
    <3> QED
      BY <2>1, <3>1, <3>2
  <2> HIDE DEF n, d
  <2>4. \A x \in 0 .. n - 1, g \in 0 .. d - 1 : x * d + g \in 0 .. Heads - 1
    BY <2>1, <2>3, Product
  <2>5. ASSUME NEW x \in 0 .. n - 1, NEW y \in 0 .. n - 1,
               NEW g \in 0 .. d - 1, NEW l \in 0 .. d - 1, x * d + g = y * d + l
        PROVE  x = y /\ g = l
    <3>1. x \in Nat /\ y \in Nat
      BY <2>3
    <3> QED
      BY <2>1, <2>5, <3>1, DivUnique
  <2>6. ASSUME NEW h \in 0 .. Heads - 1
        PROVE  \E x \in 0 .. n - 1, g \in 0 .. d - 1 : x * d + g = h
    <3> DEFINE x == h \div d
               g == h % d
    <3>1. x \in Nat /\ g \in 0 .. d - 1 /\ h = x * d + g
      <4>1. h \in Nat
        BY <2>1
      <4> QED
        BY <2>1, <4>1, DivMod
    <3> HIDE DEF x, g
    <3>2. x < n
      <4> SUFFICES ASSUME n <= x PROVE FALSE
        BY <2>3, <3>1
      <4>1. n * d <= x * d
        BY <2>1, <2>3, <3>1
      <4> QED
        BY <2>1, <2>3, <3>1, <4>1
    <3> QED
      BY <2>3, <3>1, <3>2
  <2>7. LastG \in Nat /\ \A g : g \in 0 .. LastG <=> g \in 0 .. d - 1
    BY <2>1, <2>2
  <2>8. \A x \in GridHeads : x \in Nat /\ x \in 0 .. n - 1
    BY <2>2, <2>3
  <2> QED
    BY <2>2, <2>4, <2>5, <2>6, <2>7, <2>8
<1> QED
  BY <1>1, <1>2
-----------------------------------------------------------------------------
\* A step of the walk, and where a position of a block of it is among the pairs.
Place == [x : Int, block : Int, g : Int, u : Int]
Valid(k) ==
  /\ k.x \in GridHeads /\ k.g \in 0 .. LastG /\ k.block \in 0 .. Rows - 1
  /\ k.u \in 0 .. StepsOf(k.x, k.block, k.g) - 1
Pair(h, r, c, p) ==
  IF ByRows(call) THEN <<h, r * BlockQ + p[1], c * BlockKv + p[2]>>
  ELSE <<h, c * BlockQ + p[1], r * BlockKv + p[2]>>
Across(p) == IF ByRows(call) THEN p[2] ELSE p[1]
Stripe(k, p) ==
  Across(p) \in (k.u % Parts) * call.sub .. ((k.u % Parts) + 1) * call.sub - 1
ColumnOf(k) ==
  Walked.block[MaskHead(QHead(k.x, k.g))][k.block][k.u \div Parts]

\* Step u is of block u div Parts of the row, and its part u mod Parts.
LEMMA StepPlaces ==
  ASSUME Built, NEW k, Valid(k)
  PROVE  /\ QHead(k.x, k.g) \in 0 .. Heads - 1
         /\ k.u \in Nat /\ k.u \div Parts \in Nat /\ (k.u % Parts) \in 0 .. Parts - 1
         /\ k.u = (k.u \div Parts) * Parts + (k.u % Parts)
         /\ k.u \div Parts
              \in 0 .. Walked.numSteps[MaskHead(QHead(k.x, k.g))][k.block] - 1
<1> DEFINE n == Walked.numSteps[MaskHead(QHead(k.x, k.g))][k.block]
           s == k.u \div Parts
<1>1. call \in Calls /\ QHead(k.x, k.g) \in 0 .. Heads - 1
  BY QHeads DEF Valid, Built
<1>2. n \in Nat
  <2>1. n \in 0 .. Columns
    BY <1>1, Tables DEF Table, TableRow, Valid
  <2>2. Columns \in Nat
    BY Sizes DEF Columns
  <2> QED
    BY <2>1, <2>2
<1>3. Parts \in Nat \ {0}
  BY <1>1, SubBlocks
<1>4. k.u \in 0 .. n * Parts - 1 /\ k.u \in Nat
  BY <1>2, <1>3 DEF Valid, StepsOf
<1>5. s \in Nat /\ (k.u % Parts) \in 0 .. Parts - 1 /\ k.u = s * Parts + (k.u % Parts)
  BY <1>3, <1>4, DivMod
<1> HIDE DEF n, s, Parts
<1>6. s < n
  <2> SUFFICES ASSUME n <= s PROVE FALSE
    BY <1>2, <1>5
  <2>1. n * Parts <= s * Parts
    BY <1>2, <1>3, <1>5
  <2> QED
    BY <1>2, <1>3, <1>4, <1>5, <2>1
<1> QED
  BY <1>1, <1>2, <1>4, <1>5, <1>6 DEF n, s

\* A step attends to the visible positions of its part of its block.
LEMMA Shows ==
  ASSUME Built, NEW k, Valid(k)
  PROVE  /\ ColumnOf(k) \in 0 .. Columns - 1
         /\ \A q : q \in Attended(k) <=>
              \E p \in Cells :
                /\ p \in Pattern(QHead(k.x, k.g), k.block, ColumnOf(k)) /\ Stripe(k, p)
                /\ q = Pair(QHead(k.x, k.g), k.block, ColumnOf(k), p)
<1> DEFINE h == QHead(k.x, k.g)
           mh == MaskHead(h)
           s == k.u \div Parts
           c == ColumnOf(k)
           kind == Walked.kind[mh][k.block][s]
           id == Walked.maskBlock[mh][k.block][s]
           Shown(p) ==
             IF call.computed
             THEN p \in call.mask[0][IF ByRows(call) THEN k.block ELSE c]
                                    [IF ByRows(call) THEN c ELSE k.block]
             ELSE (IF ByRows(call) THEN p ELSE <<p[2], p[1]>>) \in Blocks[id]
           M == { p \in Cells : Stripe(k, p) /\ (kind = PARTIAL => Shown(p)) }
<1>1. h \in 0 .. Heads - 1 /\ s \in 0 .. Walked.numSteps[mh][k.block] - 1
  BY StepPlaces
<1>2. TableRow(h, k.block)
  BY <1>1, Tables DEF Table, Valid
<1>3. /\ c \in 0 .. Columns - 1 /\ Pattern(h, k.block, c) # {}
      /\ kind = Kind(Pattern(h, k.block, c))
      /\ kind = PARTIAL => \A p \in Cells :
           p \in Pattern(h, k.block, c)
             <=> (IF ByRows(call) THEN p ELSE <<p[2], p[1]>>) \in Blocks[id]
  BY <1>1, <1>2 DEF TableRow, ColumnOf
<1>4. Attended(k) = {Pair(h, k.block, c, p) : p \in M}
  <2>1. CASE ByRows(call)
    BY <2>1 DEF Attended, Pair, Stripe, Across, Blocks, ColumnOf
  <2>2. CASE ~ByRows(call)
    BY <2>2 DEF Attended, Pair, Stripe, Across, Blocks, ColumnOf
  <2> QED
    BY <2>1, <2>2
<1>5. call.computed => call.mask[0] = call.mask[h]
  <2> SUFFICES ASSUME call.computed PROVE call.mask[0] = call.mask[h]
    OBVIOUS
  <2> DEFINE S == {call.mask[g] : g \in DOMAIN call.mask}
  <2>1. Cardinality(S) = 1 /\ call.mask \in [0 .. Heads - 1 -> Masks]
    BY DEF Built, Calls
  <2>2. call.mask[0] \in S /\ call.mask[h] \in S
    BY <1>1, <2>1, Sizes
  <2>3. IsFiniteSet(S)
    <3>1. IsFiniteSet(0 .. Heads - 1)
      BY Sizes, CountRows
    <3>2. S = {call.mask[g] : g \in 0 .. Heads - 1}
      BY <2>1
    <3>3. call.mask \in Surjection(0 .. Heads - 1, S)
      BY <2>1, <3>2 DEF Surjection
    <3> HIDE DEF S
    <3> QED
      BY <3>1, <3>3, FS_Surjection
  <2> HIDE DEF S
  <2>4. \E m : S = {m}
    BY <2>1, <2>3, FS_Singleton
  <2> QED
    BY <2>2, <2>4
<1>6. ASSUME NEW p \in Cells, kind = PARTIAL
      PROVE  Shown(p) <=> p \in Pattern(h, k.block, c)
  <2>1. CASE call.computed
    BY <1>5, <2>1 DEF Pattern
  <2>2. CASE ~call.computed
    BY <1>3, <1>6, <2>2
  <2> QED
    BY <2>1, <2>2
<1>7. ASSUME kind # PARTIAL PROVE Pattern(h, k.block, c) = Cells
  BY <1>3, <1>7, Kinds
<1> HIDE DEF h, c, kind, Shown
<1>8. \A p \in Cells : p \in M <=> Stripe(k, p) /\ p \in Pattern(h, k.block, c)
  BY <1>6, <1>7
<1> HIDE DEF M
<1>9. \A p \in M : p \in Cells
  BY DEF M
<1> QED
  BY <1>3, <1>4, <1>8, <1>9 DEF h, c

\* Positions in different heads, blocks or cells are different pairs.
LEMMA PairPlaces ==
  ASSUME NEW h \in 0 .. Heads - 1, NEW r \in 0 .. Rows - 1,
         NEW c \in 0 .. Columns - 1, NEW p \in Cells
  PROVE  /\ Pair(h, r, c, p) \in Pairs /\ Pair(h, r, c, p)[1] = h
         /\ \A l \in 0 .. Heads - 1, i \in 0 .. Rows - 1, j \in 0 .. Columns - 1,
               q \in Cells :
              Pair(h, r, c, p) = Pair(l, i, j, q) => h = l /\ r = i /\ c = j /\ p = q
<1>1. ASSUME NEW i \in 0 .. QBlocks - 1, NEW j \in 0 .. KvBlocks - 1, NEW q \in Cells
      PROVE  /\ i \in Nat /\ j \in Nat
             /\ q[1] \in 0 .. BlockQ - 1 /\ q[2] \in 0 .. BlockKv - 1
             /\ q = <<q[1], q[2]>>
             /\ i * BlockQ + q[1] \in 0 .. QBlocks * BlockQ - 1
             /\ j * BlockKv + q[2] \in 0 .. KvBlocks * BlockKv - 1
  <2>1. /\ i \in Nat /\ j \in Nat /\ q = <<q[1], q[2]>>
        /\ q[1] \in 0 .. BlockQ - 1 /\ q[2] \in 0 .. BlockKv - 1
    BY Sizes DEF Cells
  <2> QED
    BY <2>1, Product, Sizes
<1>2. ASSUME NEW i \in 0 .. QBlocks - 1, NEW k \in 0 .. QBlocks - 1,
             NEW j \in 0 .. KvBlocks - 1, NEW l \in 0 .. KvBlocks - 1,
             NEW q \in Cells, NEW s \in Cells,
             i * BlockQ + q[1] = k * BlockQ + s[1],
             j * BlockKv + q[2] = l * BlockKv + s[2]
      PROVE  i = k /\ j = l /\ q = s
  <2> DEFINE a == q[1]
             b == q[2]
             c1 == s[1]
             d == s[2]
  <2>1. /\ i \in Nat /\ j \in Nat /\ k \in Nat /\ l \in Nat
        /\ a \in 0 .. BlockQ - 1 /\ b \in 0 .. BlockKv - 1 /\ q = <<a, b>>
        /\ c1 \in 0 .. BlockQ - 1 /\ d \in 0 .. BlockKv - 1 /\ s = <<c1, d>>
        /\ i * BlockQ + a = k * BlockQ + c1 /\ j * BlockKv + b = l * BlockKv + d
    BY <1>1, <1>2
  <2> HIDE DEF a, b, c1, d
  <2>2. i = k /\ a = c1
    BY <2>1, DivUnique, Sizes
  <2>3. j = l /\ b = d
    BY <2>1, DivUnique, Sizes
  <2> QED
    BY <2>1, <2>2, <2>3
<1>3. CASE ByRows(call)
  <2>1. Rows = QBlocks /\ Columns = KvBlocks
        /\ \A l, i, j, q : Pair(l, i, j, q) = <<l, i * BlockQ + q[1], j * BlockKv + q[2]>>
    BY <1>3 DEF Rows, Columns, Pair
  <2> QED
    BY <1>1, <1>2, <2>1 DEF Pairs
<1>4. CASE ~ByRows(call)
  <2>1. Rows = KvBlocks /\ Columns = QBlocks
        /\ \A l, i, j, q : Pair(l, i, j, q) = <<l, j * BlockQ + q[1], i * BlockKv + q[2]>>
    BY <1>4 DEF Rows, Columns, Pair
  <2> QED
    BY <1>1, <1>2, <2>1 DEF Pairs
<1> QED
  BY <1>3, <1>4

\* The visible pairs, block by block of the walk.
LEMMA VisiblePairs ==
  ASSUME call \in Calls
  PROVE  /\ \A h \in 0 .. Heads - 1, r \in 0 .. Rows - 1, c \in 0 .. Columns - 1 :
              Pattern(h, r, c) \subseteq Cells
         /\ \A q : q \in Visible <=>
              \E h \in 0 .. Heads - 1, r \in 0 .. Rows - 1, c \in 0 .. Columns - 1 :
              \E p \in Pattern(h, r, c) : q = Pair(h, r, c, p)
         /\ Visible \subseteq Pairs
<1>1. ASSUME NEW h \in 0 .. Heads - 1, NEW i \in 0 .. QBlocks - 1,
             NEW j \in 0 .. KvBlocks - 1
      PROVE  call.mask[h][i][j] \subseteq Cells
  <2>1. call.mask \in [0 .. Heads - 1 -> Masks]
    BY DEF Calls
  <2>2. call.mask[h] \in [0 .. QBlocks - 1 -> [0 .. KvBlocks - 1 -> SUBSET Cells]]
    BY <2>1 DEF Masks
  <2> QED
    BY <2>2
<1>2. \A h \in 0 .. Heads - 1, r \in 0 .. Rows - 1, c \in 0 .. Columns - 1 :
        Pattern(h, r, c) \subseteq Cells
  BY <1>1 DEF Pattern, Rows, Columns
<1>3. ASSUME NEW q
      PROVE  q \in Visible <=>
               \E h \in 0 .. Heads - 1, i \in 0 .. QBlocks - 1, j \in 0 .. KvBlocks - 1 :
               \E p \in call.mask[h][i][j] :
                 q = <<h, i * BlockQ + p[1], j * BlockKv + p[2]>>
  <2> DEFINE F(h, i, j) ==
               {<<h, i * BlockQ + p[1], j * BlockKv + p[2]>> : p \in call.mask[h][i][j]}
  <2>1. Visible = UNION {F(h, i, j) : h \in 0 .. Heads - 1, i \in 0 .. QBlocks - 1,
                                      j \in 0 .. KvBlocks - 1}
    BY DEF Visible
  <2>2. \A h, i, j : q \in F(h, i, j) <=>
          \E p \in call.mask[h][i][j] : q = <<h, i * BlockQ + p[1], j * BlockKv + p[2]>>
    OBVIOUS
  <2> HIDE DEF F
  <2>3. q \in Visible <=>
          \E h \in 0 .. Heads - 1, i \in 0 .. QBlocks - 1, j \in 0 .. KvBlocks - 1 :
            q \in F(h, i, j)
    BY <2>1
  <2> QED
    BY <2>2, <2>3
<1>4. ASSUME NEW q
      PROVE  q \in Visible <=>
               \E h \in 0 .. Heads - 1, r \in 0 .. Rows - 1, c \in 0 .. Columns - 1 :
               \E p \in Pattern(h, r, c) : q = Pair(h, r, c, p)
  <2>1. CASE ByRows(call)
    BY <1>3, <2>1 DEF Pattern, Pair, Rows, Columns
  <2>2. CASE ~ByRows(call)
    BY <1>3, <2>2 DEF Pattern, Pair, Rows, Columns
  <2> QED
    BY <2>1, <2>2
<1>5. ASSUME NEW q \in Visible PROVE q \in Pairs
  <2>1. PICK h \in 0 .. Heads - 1, r \in 0 .. Rows - 1, c \in 0 .. Columns - 1 :
          \E p \in Pattern(h, r, c) : q = Pair(h, r, c, p)
    BY <1>4
  <2>2. PICK p \in Cells : q = Pair(h, r, c, p)
    BY <1>2, <2>1
  <2> QED
    BY <2>2, PairPlaces
<1> QED
  BY <1>2, <1>4, <1>5

\* A step attends to visible pairs only.
LEMMA OnlyVisible ==
  ASSUME Built, NEW k, Valid(k)
  PROVE  Attended(k) \subseteq Visible /\ Attended(k) \subseteq Pairs
<1>1. call \in Calls /\ QHead(k.x, k.g) \in 0 .. Heads - 1 /\ k.block \in 0 .. Rows - 1
  BY StepPlaces DEF Built, Valid
<1>2. ColumnOf(k) \in 0 .. Columns - 1
  BY Shows
<1>3. ASSUME NEW q \in Attended(k) PROVE q \in Visible
  <2>1. \E p \in Pattern(QHead(k.x, k.g), k.block, ColumnOf(k)) :
          q = Pair(QHead(k.x, k.g), k.block, ColumnOf(k), p)
    BY Shows
  <2> QED
    BY <1>1, <1>2, <2>1, VisiblePairs
<1> QED
  BY <1>1, <1>3, VisiblePairs

\* No two steps attend to the same pair.
LEMMA Unique ==
  ASSUME Built, NEW k, Valid(k), NEW l, Valid(l),
         NEW q, q \in Attended(k), q \in Attended(l)
  PROVE  k.x = l.x /\ k.block = l.block /\ k.g = l.g /\ k.u = l.u
<1> DEFINE h == QHead(k.x, k.g)
           i == QHead(l.x, l.g)
           s == k.u \div Parts
           t == l.u \div Parts
<1>1. PICK p \in Cells :
        Stripe(k, p) /\ q = Pair(h, k.block, ColumnOf(k), p)
  BY Shows
<1>2. PICK r \in Cells :
        Stripe(l, r) /\ q = Pair(i, l.block, ColumnOf(l), r)
  BY Shows
<1>3. /\ call \in Calls /\ h \in 0 .. Heads - 1 /\ i \in 0 .. Heads - 1
      /\ k.block \in 0 .. Rows - 1 /\ l.block \in 0 .. Rows - 1
      /\ ColumnOf(k) \in 0 .. Columns - 1 /\ ColumnOf(l) \in 0 .. Columns - 1
  BY StepPlaces, Shows DEF Valid, Built
<1>4. h = i /\ k.block = l.block /\ ColumnOf(k) = ColumnOf(l) /\ p = r
  <2> DEFINE a == k.block
             b == l.block
             c == ColumnOf(k)
             d == ColumnOf(l)
  <2>1. /\ h \in 0 .. Heads - 1 /\ i \in 0 .. Heads - 1
        /\ a \in 0 .. Rows - 1 /\ b \in 0 .. Rows - 1
        /\ c \in 0 .. Columns - 1 /\ d \in 0 .. Columns - 1
        /\ Pair(h, a, c, p) = Pair(i, b, d, r)
    BY <1>1, <1>2, <1>3
  <2> HIDE DEF h, i, a, b, c, d
  <2>2. h = i /\ a = b /\ c = d /\ p = r
    BY <2>1, PairPlaces
  <2> QED
    BY <2>2 DEF a, b, c, d
<1>5. k.x = l.x /\ k.g = l.g
  BY <1>3, <1>4, QHeads DEF Valid
<1>6. s = t
  <2>1. TableRow(h, k.block)
    BY <1>3, Tables DEF Table
  <2>2. /\ s \in 0 .. Walked.numSteps[MaskHead(h)][k.block] - 1
        /\ t \in 0 .. Walked.numSteps[MaskHead(h)][k.block] - 1
    BY <1>4, StepPlaces
  <2> DEFINE block == Walked.block[MaskHead(h)][k.block]
  <2>3. block[s] = block[t]
    <3>1. ColumnOf(k) = block[s] /\ ColumnOf(l) = Walked.block[MaskHead(i)][l.block][t]
      BY DEF ColumnOf
    <3> HIDE DEF h, i, s, t
    <3> QED
      BY <1>4, <3>1
  <2> HIDE DEF s, t, h
  <2> QED
    BY <2>1, <2>2, <2>3 DEF TableRow
<1>7. k.u % Parts = l.u % Parts
  <2> DEFINE a == k.u % Parts
             b == l.u % Parts
             y == Across(p)
             d == call.sub
  <2>1. /\ y \in a * d .. (a + 1) * d - 1 /\ y \in b * d .. (b + 1) * d - 1
        /\ a \in Nat /\ b \in Nat /\ d \in Nat \ {0} /\ y \in Nat
    <3>1. a \in 0 .. Parts - 1 /\ b \in 0 .. Parts - 1 /\ d \in Nat \ {0} /\ Parts \in Nat
      BY <1>3, StepPlaces, SubBlocks
    <3>2. y \in Nat
      BY Sizes DEF Across, Cells
    <3>3. y \in a * d .. (a + 1) * d - 1 /\ y \in b * d .. (b + 1) * d - 1
      BY <1>1, <1>2, <1>4 DEF Stripe
    <3> HIDE DEF a, b, d, y, Parts
    <3> QED
      BY <3>1, <3>2, <3>3
  <2> HIDE DEF a, b, d, y
  <2>2. y = a * d + (y - a * d) /\ y - a * d \in 0 .. d - 1
    BY <2>1
  <2>3. y = b * d + (y - b * d) /\ y - b * d \in 0 .. d - 1
    BY <2>1
  <2>4. a = b
    <3> DEFINE e == y - a * d
               f == y - b * d
    <3>1. e \in 0 .. d - 1 /\ f \in 0 .. d - 1 /\ a * d + e = b * d + f
      BY <2>1, <2>2, <2>3
    <3> HIDE DEF e, f
    <3> QED
      BY <2>1, <3>1, DivUnique
  <2> QED
    BY <2>4 DEF a, b
<1>8. k.u = l.u
  <2>1. k.u = s * Parts + (k.u % Parts) /\ l.u = t * Parts + (l.u % Parts)
    BY StepPlaces
  <2> HIDE DEF s, t, Parts
  <2> QED
    BY <1>6, <1>7, <2>1
<1> QED
  BY <1>4, <1>5, <1>8

\* Every visible pair has its step.
LEMMA Covered ==
  ASSUME Built, NEW q \in Visible
  PROVE  \E k \in Place : Valid(k) /\ q \in Attended(k)
<1>1. PICK h \in 0 .. Heads - 1, r \in 0 .. Rows - 1, c \in 0 .. Columns - 1 :
        \E p \in Pattern(h, r, c) : q = Pair(h, r, c, p)
  BY VisiblePairs DEF Built
<1>2. PICK p \in Cells : p \in Pattern(h, r, c) /\ q = Pair(h, r, c, p)
  BY <1>1, VisiblePairs DEF Built
<1>3. PICK x \in GridHeads, g \in 0 .. LastG : QHead(x, g) = h
  BY QHeads DEF Built
<1> DEFINE n == Walked.numSteps[MaskHead(h)][r]
<1>4. PICK s \in 0 .. n - 1 : Walked.block[MaskHead(h)][r][s] = c
  <2>1. TableRow(h, r)
    BY Tables DEF Table
  <2> QED
    BY <1>2, <2>1 DEF TableRow
<1>5. n \in Nat
  <2>1. TableRow(h, r)
    BY Tables DEF Table
  <2>2. n \in 0 .. Columns /\ Columns \in Nat
    BY <2>1, Sizes DEF TableRow, Columns
  <2> QED
    BY <2>2
<1>6. /\ Parts \in Nat \ {0} /\ call.sub \in Nat \ {0}
      /\ Parts * call.sub = BlockRows(call)
  BY SubBlocks DEF Built
<1>7. Across(p) \in 0 .. BlockRows(call) - 1
  BY DEF Across, BlockRows, Cells
<1> DEFINE part == Across(p) \div call.sub
           u == s * Parts + part
<1>8. /\ part \in 0 .. Parts - 1
      /\ Across(p) \in part * call.sub .. (part + 1) * call.sub - 1
  <2> DEFINE y == Across(p)
             d == call.sub
             e == y % d
  <2>0. y \in Nat /\ y < Parts * d
    BY <1>6, <1>7
  <2>1. part \in Nat /\ e \in 0 .. d - 1 /\ y = part * d + e
    BY <1>6, <2>0, DivMod
  <2> HIDE DEF y, d, e, part, Parts
  <2>2. part < Parts
    <3> SUFFICES ASSUME Parts <= part PROVE FALSE
      BY <1>6, <2>1
    <3>1. Parts * d <= part * d
      BY <1>6, <2>1 DEF d
    <3> QED
      BY <1>6, <2>0, <2>1, <3>1 DEF d
  <2>3. y \in part * d .. (part + 1) * d - 1
    BY <1>6, <2>0, <2>1 DEF d
  <2> QED
    BY <1>6, <2>1, <2>2, <2>3 DEF y, d
<1> HIDE DEF part, n
<1>9. u \in 0 .. n * Parts - 1 /\ u \in Nat
  <2> HIDE DEF Parts
  <2>1. s * Parts + part \in 0 .. n * Parts - 1
    BY <1>5, <1>6, <1>8, Product
  <2>2. s * Parts + part \in Nat
    BY <1>4, <1>5, <1>6, <1>8
  <2> QED
    BY <2>1, <2>2
<1>10. u \div Parts = s /\ u % Parts = part
  <2> DEFINE a == u \div Parts
             b == u % Parts
  <2>1. a \in Nat /\ b \in 0 .. Parts - 1 /\ u = a * Parts + b
    BY <1>6, <1>9, DivMod
  <2>2. u = s * Parts + part /\ s \in Nat
    BY <1>4, <1>5
  <2> HIDE DEF a, b, u, Parts
  <2>3. a = s /\ b = part
    BY <1>6, <1>8, <2>1, <2>2, DivUnique
  <2> QED
    BY <2>3 DEF a, b
<1> HIDE DEF u
<1> DEFINE k == [x |-> x, block |-> r, g |-> g, u |-> u]
<1>11. k \in Place
  <2>1. x \in Int /\ g \in Int /\ r \in Int /\ u \in Int
    <3>1. x \in Nat /\ LastG \in Nat
      BY QHeads DEF Built
    <3> QED
      BY <1>9, <3>1
  <2> QED
    BY <2>1 DEF Place
<1>12. Valid(k)
  BY <1>3, <1>9 DEF Valid, StepsOf, n
<1>13. ColumnOf(k) = c
  BY <1>3, <1>4, <1>10 DEF ColumnOf
<1>14. Stripe(k, p)
  BY <1>8, <1>10 DEF Stripe
<1>15. k.block = r /\ QHead(k.x, k.g) = h
  BY <1>3
<1> HIDE DEF k
<1>16. q \in Attended(k)
  BY <1>2, <1>12, <1>13, <1>14, <1>15, Shows
<1> QED
  BY <1>11, <1>12, <1>16
-----------------------------------------------------------------------------
\* The inductive invariant. The running CTA has the block at the last launched
\* place of its head's order; a pair was attended to once if a step that the
\* launched CTAs have done shows it, and else never.
OrderOf(x) == Order[MaskHead(QHead(x, 0))]
DoneStep(k) ==
  /\ Valid(k) /\ \E a \in 1 .. launched[k.x] : OrderOf(k.x)[a] = k.block
  /\ cta # Idle /\ cta.x = k.x /\ cta.block = k.block =>
       k.g < cta.g \/ (k.g = cta.g /\ k.u < cta.u)

Progress ==
  /\ launched \in [GridHeads -> 0 .. Rows]
  /\ cta # Idle =>
       /\ cta \in [x : GridHeads, block : 0 .. Rows - 1, g : 0 .. LastG, u : Nat]
       /\ cta.u <= StepsOf(cta.x, cta.block, cta.g)
       /\ launched[cta.x] > 0 /\ OrderOf(cta.x)[launched[cta.x]] = cta.block

Once ==
  /\ times \in [Pairs -> 0 .. 1]
  /\ \A p \in Pairs :
       times[p] = IF \E k \in Place : DoneStep(k) /\ p \in Attended(k) THEN 1 ELSE 0

GridInv == Built /\ Progress /\ Once

\* The lengths of the walks.
LEMMA Lengths ==
  ASSUME Built, NEW x \in GridHeads, NEW g \in 0 .. LastG
  PROVE  /\ MaskHead(QHead(x, g)) \in DOMAIN Walked.numSteps
         /\ DOMAIN Walked.numSteps[MaskHead(QHead(x, g))] = 0 .. Rows - 1
         /\ \A r \in 0 .. Rows - 1 : StepsOf(x, r, g) \in Nat
         /\ Len(OrderOf(x)) = Rows /\ Rows \in Nat
         /\ \A a \in 1 .. Rows : OrderOf(x)[a] \in 0 .. Rows - 1
         /\ \A a, b \in 1 .. Rows : OrderOf(x)[a] = OrderOf(x)[b] => a = b
         /\ \A r \in 0 .. Rows - 1 : \E a \in 1 .. Rows : OrderOf(x)[a] = r
         /\ \A a, b \in 1 .. Rows :
              a < b => StepsOf(x, OrderOf(x)[a], 0) >= StepsOf(x, OrderOf(x)[b], 0)
<1>1. /\ call \in Calls /\ LastG \in Nat /\ 0 \in 0 .. LastG
      /\ QHead(x, g) \in 0 .. Heads - 1 /\ QHead(x, 0) \in 0 .. Heads - 1
  BY QHeads DEF Built
<1>2. Table(QHead(x, g)) /\ Table(QHead(x, 0))
  BY <1>1, Tables
<1>3. Rows \in Nat /\ Columns \in Nat /\ Parts \in Nat
  BY <1>1, Sizes, SubBlocks DEF Rows, Columns
<1>4. ASSUME NEW l \in {0, g}, NEW r \in 0 .. Rows - 1
      PROVE  /\ Walked.numSteps[MaskHead(QHead(x, l))][r] \in Nat
             /\ StepsOf(x, r, l) \in Nat
             /\ StepsOf(x, r, l) = Walked.numSteps[MaskHead(QHead(x, l))][r] * Parts
  <2> DEFINE n == Walked.numSteps[MaskHead(QHead(x, l))][r]
  <2>1. TableRow(QHead(x, l), r)
    BY <1>2 DEF Table
  <2>2. n \in 0 .. Columns
    BY <2>1 DEF TableRow
  <2>3. StepsOf(x, r, l) = n * Parts
    BY DEF StepsOf
  <2> HIDE DEF n, Parts
  <2>4. n \in Nat /\ n * Parts \in Nat
    BY <1>3, <2>2
  <2> QED
    BY <2>3, <2>4 DEF n
<1>5. Lists(OrderOf(x), 0 .. Rows - 1) /\ Len(OrderOf(x)) = Rows
  BY <1>2 DEF Table, OrderOf
<1>6. /\ \A a \in 1 .. Rows : OrderOf(x)[a] \in 0 .. Rows - 1
      /\ \A a, b \in 1 .. Rows : OrderOf(x)[a] = OrderOf(x)[b] => a = b
      /\ \A r \in 0 .. Rows - 1 : \E a \in 1 .. Rows : OrderOf(x)[a] = r
  <2> DEFINE o == OrderOf(x)
             S == 0 .. Rows - 1
  <2> HIDE DEF o, S
  <2>1. Lists(o, S) /\ Len(o) = Rows
    BY <1>5 DEF o, S
  <2>2. /\ \A a \in 1 .. Rows : o[a] \in S
        /\ \A a, b \in 1 .. Rows : o[a] = o[b] => a = b
        /\ \A r \in S : \E a \in 1 .. Rows : o[a] = r
    BY <2>1, ListLen
  <2> QED
    BY <2>2 DEF o, S
<1>7. ASSUME NEW a \in 1 .. Rows, NEW b \in 1 .. Rows, a < b
      PROVE  StepsOf(x, OrderOf(x)[a], 0) >= StepsOf(x, OrderOf(x)[b], 0)
  <2> DEFINE m == Walked.numSteps[MaskHead(QHead(x, 0))][OrderOf(x)[a]]
             n == Walked.numSteps[MaskHead(QHead(x, 0))][OrderOf(x)[b]]
  <2>1. m >= n
    BY <1>2, <1>7 DEF Table, OrderOf
  <2>2. /\ m \in Nat /\ StepsOf(x, OrderOf(x)[a], 0) = m * Parts
        /\ n \in Nat /\ StepsOf(x, OrderOf(x)[b], 0) = n * Parts
    BY <1>4, <1>6
  <2> HIDE DEF m, n, Parts
  <2>3. m * Parts >= n * Parts
    BY <1>3, <2>1, <2>2
  <2> QED
    BY <2>2, <2>3
<1> QED
  BY <1>2, <1>3, <1>4, <1>5, <1>6, <1>7 DEF Table

\* The running step, as a place of the walk that is not done.
LEMMA Running ==
  ASSUME GridInv, cta # Idle, cta.u < StepsOf(cta.x, cta.block, cta.g)
  PROVE  cta \in Place /\ Valid(cta) /\ ~DoneStep(cta)
<1>1. cta \in [x : GridHeads, block : 0 .. Rows - 1, g : 0 .. LastG, u : Nat]
  BY DEF GridInv, Progress
<1>2. Rows \in Nat /\ LastG \in Nat /\ cta.x \in Nat
  BY <1>1, QHeads, Sizes DEF GridInv, Built, Rows
<1>3. StepsOf(cta.x, cta.block, cta.g) \in Nat
  BY <1>1, Lengths DEF GridInv
<1>4. Valid(cta)
  BY <1>1, <1>3 DEF Valid
<1>5. cta \in Place
  BY <1>1, <1>2 DEF Place
<1>6. ~DoneStep(cta)
  BY <1>1, <1>2 DEF DoneStep
<1> QED
  BY <1>4, <1>5, <1>6

\* The launch and its schedule stay, and with them all that is read from them.
LEMMA Unmoved ==
  ASSUME UNCHANGED <<call, schedule>>
  PROVE  /\ (Built <=> Built') /\ Rows' = Rows /\ GridHeads' = GridHeads /\ LastG' = LastG
         /\ \A x : OrderOf(x)' = OrderOf(x)
         /\ OrderOf(cta.x)' = OrderOf(cta'.x)
         /\ StepsOf(cta.x, cta.block, cta.g)' = StepsOf(cta'.x, cta'.block, cta'.g)
         /\ \A k : Valid(k)' <=> Valid(k)
         /\ \A k : Attended(k)' = Attended(k)
         /\ Visible' = Visible
<1>1. Walked' = Walked /\ Order' = Order /\ GridHeads' = GridHeads /\ LastG' = LastG
      /\ Parts' = Parts /\ Rows' = Rows /\ (Built' <=> Built)
  BY DEF Walked, Order, GridHeads, LastG, Parts, Rows, Built
<1>2. \A x, g : QHead(x, g)' = QHead(x, g)
  BY DEF QHead
<1>3. \A h : MaskHead(h)' = MaskHead(h)
  BY <1>1 DEF MaskHead
<1>4. \A x, r, g : StepsOf(x, r, g)' = StepsOf(x, r, g)
  BY <1>1, <1>2, <1>3 DEF StepsOf
<1>5. \A x : OrderOf(x)' = OrderOf(x)
  BY <1>1, <1>2, <1>3 DEF OrderOf
<1>6. \A k : Valid(k)' <=> Valid(k)
  BY <1>1, <1>4 DEF Valid
<1>9. /\ OrderOf(cta.x)' = OrderOf(cta'.x)
      /\ StepsOf(cta.x, cta.block, cta.g)' = StepsOf(cta'.x, cta'.block, cta'.g)
  BY <1>1 DEF OrderOf, StepsOf, MaskHead, QHead, ByRows
<1>7. ASSUME NEW k PROVE Attended(k)' = Attended(k)
  BY <1>1, <1>2, <1>3 DEF Attended
<1>8. Visible' = Visible
  BY DEF Visible
<1> QED
  BY <1>1, <1>5, <1>6, <1>7, <1>8, <1>9

\* The invariant holds at the launch.
LEMMA GridInit ==
  ASSUME Init
  PROVE  GridInv /\ Attention!Init
<1>1. Built /\ call \in Calls
  BY DEF Init, Start, Built
<1>2. /\ launched = [x \in GridHeads |-> 0] /\ cta = Idle /\ times = [p \in Pairs |-> 0]
  BY DEF Init, Start
<1>3. Rows \in Nat
  BY Sizes DEF Rows
<1>4. Progress
  BY <1>2, <1>3 DEF Progress
<1>5. \A k : ~DoneStep(k)
  BY <1>2 DEF DoneStep, Valid
<1>6. Once
  BY <1>2, <1>5 DEF Once
<1>7. Attention!Init
  BY <1>1, <1>2, VisiblePairs DEF Attention!Init
<1> QED
  BY <1>1, <1>4, <1>6, <1>7 DEF GridInv

\* A CTA that is launched has done no step: its block is not in the order before.
LEMMA LaunchStep ==
  ASSUME GridInv, NEW x \in GridHeads, Launch(x)
  PROVE  Progress' /\ \A k \in Place : DoneStep(k)' <=> DoneStep(k)
<1> DEFINE b == OrderOf(x)[launched[x] + 1]
<1>1. UNCHANGED <<call, schedule>> /\ Built
  BY DEF Launch, GridInv
<1>2. /\ cta = Idle /\ launched[x] < Len(OrderOf(x))
      /\ cta' = [x |-> x, block |-> b, g |-> 0, u |-> 0]
      /\ launched' = [launched EXCEPT ![x] = launched[x] + 1]
  BY DEF Launch, OrderOf
<1>3. /\ launched \in [GridHeads -> 0 .. Rows] /\ LastG \in Nat /\ 0 \in 0 .. LastG
      /\ \A y \in GridHeads : y \in Nat
  BY QHeads DEF GridInv, Progress, Built
<1>4. Rows \in Nat /\ launched[x] \in 0 .. Rows - 1 /\ launched[x] + 1 \in 1 .. Rows
  <2>1. Rows \in Nat /\ Len(OrderOf(x)) = Rows
    BY <1>1, <1>3, Lengths
  <2>2. launched[x] \in 0 .. Rows
    BY <1>3
  <2> QED
    BY <1>2, <2>1, <2>2
<1>5. b \in 0 .. Rows - 1 /\ StepsOf(x, b, 0) \in Nat
  BY <1>1, <1>3, <1>4, Lengths
<1>6. /\ cta'.x = x /\ cta'.block = b /\ cta'.g = 0 /\ cta'.u = 0
      /\ cta' \in [x : GridHeads, block : 0 .. Rows - 1, g : 0 .. LastG, u : Nat]
  BY <1>2, <1>3, <1>5
<1>7. /\ launched' \in [GridHeads -> 0 .. Rows] /\ launched'[x] = launched[x] + 1
      /\ \A y \in GridHeads : y # x => launched'[y] = launched[y]
  BY <1>2, <1>3, <1>4
<1>8. cta' # Idle
  <2>1. Idle.x = -1 /\ x \in Nat
    BY <1>3 DEF Idle
  <2> QED
    BY <1>6, <2>1
<1> HIDE DEF b
<1>9. Progress'
  <2>1. OrderOf(cta.x)' = OrderOf(x) /\ OrderOf(x)[launched[x] + 1] = b
        /\ StepsOf(cta.x, cta.block, cta.g)' = StepsOf(x, b, 0)
    BY <1>1, <1>6, Unmoved DEF b
  <2>2. GridHeads' = GridHeads /\ Rows' = Rows /\ LastG' = LastG
    BY <1>1, Unmoved
  <2>3. launched'[cta'.x] > 0 /\ OrderOf(cta.x)'[launched'[cta'.x]] = cta'.block
    BY <1>3, <1>4, <1>6, <1>7, <2>1
  <2>4. cta'.u <= StepsOf(cta.x, cta.block, cta.g)'
    BY <1>5, <1>6, <2>1
  <2> QED
    BY <1>6, <1>7, <2>2, <2>3, <2>4 DEF Progress
<1>10. ASSUME NEW k \in Place PROVE DoneStep(k)' <=> DoneStep(k)
  <2>1. /\ DoneStep(k)' <=>
             /\ Valid(k) /\ \E a \in 1 .. launched'[k.x] : OrderOf(k.x)[a] = k.block
             /\ k.x = x /\ k.block = b => k.g < 0 \/ (k.g = 0 /\ k.u < 0)
        /\ DoneStep(k) <=>
             Valid(k) /\ \E a \in 1 .. launched[k.x] : OrderOf(k.x)[a] = k.block
    BY <1>1, <1>2, <1>6, <1>8, Unmoved DEF DoneStep
  <2>2. CASE ~Valid(k)
    BY <2>1, <2>2
  <2>3. CASE Valid(k) /\ k.x # x
    BY <1>7, <2>1, <2>3 DEF Valid
  <2>4. CASE Valid(k) /\ k.x = x
    <3>1. ~(k.g < 0) /\ ~(k.u < 0)
      BY <1>3, <2>4 DEF Valid
    <3>2. CASE k.block = b
      <4>1. ASSUME NEW a \in 1 .. launched[x] PROVE OrderOf(x)[a] # b
        <5>1. a \in 1 .. Rows /\ a # launched[x] + 1
          BY <1>4
        <5> QED
          BY <1>1, <1>3, <1>4, <5>1, Lengths DEF b
      <4> QED
        BY <2>1, <2>4, <3>1, <3>2, <4>1
    <3>3. CASE k.block # b
      <4>1. \A a : a \in 1 .. launched'[x] <=> a \in 1 .. launched[x] \/ a = launched[x] + 1
        BY <1>4, <1>7
      <4> QED
        BY <2>1, <2>4, <3>3, <4>1 DEF b
    <3> QED
      BY <3>2, <3>3
  <2> QED
    BY <2>2, <2>3, <2>4
<1> QED
  BY <1>9, <1>10

\* A step of the running CTA is done after it, and no other is.
LEMMA AttendStep ==
  ASSUME GridInv, Step
  PROVE  Progress' /\ \A k \in Place : DoneStep(k)' <=> DoneStep(k) \/ k = cta
<1>1. UNCHANGED <<call, schedule, launched>> /\ Built
  BY DEF Step, GridInv
<1>2. /\ cta # Idle /\ cta.u < StepsOf(cta.x, cta.block, cta.g)
      /\ cta' = [cta EXCEPT !.u = cta.u + 1]
  BY DEF Step
<1>3. /\ cta \in [x : GridHeads, block : 0 .. Rows - 1, g : 0 .. LastG, u : Nat]
      /\ launched \in [GridHeads -> 0 .. Rows]
      /\ launched[cta.x] > 0 /\ OrderOf(cta.x)[launched[cta.x]] = cta.block
  BY <1>2 DEF GridInv, Progress
<1>4. /\ cta'.x = cta.x /\ cta'.block = cta.block /\ cta'.g = cta.g /\ cta'.u = cta.u + 1
      /\ cta' \in [x : GridHeads, block : 0 .. Rows - 1, g : 0 .. LastG, u : Nat]
  BY <1>2, <1>3
<1>5. LastG \in Nat /\ \A y \in GridHeads : y \in Nat
  BY <1>1, QHeads DEF Built
<1>6. cta' # Idle
  <2>1. Idle.x = -1 /\ cta.x \in Nat
    BY <1>3, <1>5 DEF Idle
  <2> QED
    BY <1>4, <2>1
<1>7. Progress'
  <2>1. StepsOf(cta.x, cta.block, cta.g) \in Nat /\ cta.u \in Nat
    BY <1>1, <1>3, Lengths
  <2>2. cta'.u <= StepsOf(cta.x, cta.block, cta.g)'
    BY <1>1, <1>2, <1>4, <2>1, Unmoved
  <2>3. /\ GridHeads' = GridHeads /\ Rows' = Rows /\ LastG' = LastG
        /\ OrderOf(cta.x)' = OrderOf(cta.x)
    BY <1>1, <1>4, Unmoved
  <2>4. launched'[cta'.x] > 0 /\ OrderOf(cta.x)'[launched'[cta'.x]] = cta'.block
    BY <1>1, <1>3, <1>4, <2>3
  <2> QED
    BY <1>1, <1>3, <1>4, <2>2, <2>3, <2>4 DEF Progress
<1>8. ASSUME NEW k \in Place PROVE DoneStep(k)' <=> DoneStep(k) \/ k = cta
  <2> DEFINE there == \E a \in 1 .. launched[k.x] : OrderOf(k.x)[a] = k.block
  <2>1. /\ DoneStep(k)' <=>
             /\ Valid(k) /\ there
             /\ k.x = cta.x /\ k.block = cta.block =>
                  k.g < cta.g \/ (k.g = cta.g /\ k.u < cta.u + 1)
        /\ DoneStep(k) <=>
             /\ Valid(k) /\ there
             /\ k.x = cta.x /\ k.block = cta.block =>
                  k.g < cta.g \/ (k.g = cta.g /\ k.u < cta.u)
    <3>1. DoneStep(k)' <=>
             /\ Valid(k)' /\ \E a \in 1 .. launched'[k.x] : OrderOf(k.x)'[a] = k.block
             /\ cta' # Idle /\ cta'.x = k.x /\ cta'.block = k.block =>
                  k.g < cta'.g \/ (k.g = cta'.g /\ k.u < cta'.u)
      BY DEF DoneStep
    <3>2. (Valid(k)' <=> Valid(k)) /\ OrderOf(k.x)' = OrderOf(k.x)
      BY <1>1, Unmoved
    <3>3. DoneStep(k)' <=>
             /\ Valid(k) /\ there
             /\ k.x = cta.x /\ k.block = cta.block =>
                  k.g < cta.g \/ (k.g = cta.g /\ k.u < cta.u + 1)
      BY <1>1, <1>4, <1>6, <3>1, <3>2
    <3> QED
      BY <1>2, <3>3 DEF DoneStep
  <2>2. cta \in Place /\ Valid(cta)
    BY <1>2, Running
  <2>3. launched[cta.x] \in 1 .. launched[cta.x]
    BY <1>3
  <2>4. k = cta => there
    BY <1>3, <2>3
  <2>5. k = cta <=> k.x = cta.x /\ k.block = cta.block /\ k.g = cta.g /\ k.u = cta.u
    BY <2>2 DEF Place
  <2> HIDE DEF there
  <2>6. k.g \in Int /\ k.u \in Int /\ cta.g \in Int /\ cta.u \in Int
    BY <2>2 DEF Place
  <2>7. k.u < cta.u + 1 <=> k.u < cta.u \/ k.u = cta.u
    BY <2>6
  <2>8. ~(cta.u < cta.u) /\ ~(cta.g < cta.g) /\ cta.u < cta.u + 1
    BY <2>6
  <2>9. CASE k = cta
    BY <2>1, <2>2, <2>4, <2>8, <2>9
  <2>10. CASE k # cta
    BY <2>1, <2>5, <2>7, <2>10
  <2> QED
    BY <2>9, <2>10
<1> QED
  BY <1>7, <1>8

\* A CTA leaves a head of its group, or ends, with every step of it done.
LEMMA NextHeadStep ==
  ASSUME GridInv, NextHead
  PROVE  Progress' /\ \A k \in Place : DoneStep(k)' <=> DoneStep(k)
<1>1. UNCHANGED <<call, schedule, launched>> /\ Built
  BY DEF NextHead, GridInv
<1>2. /\ cta # Idle /\ cta.u = StepsOf(cta.x, cta.block, cta.g)
      /\ cta' = IF cta.g < LastG THEN [cta EXCEPT !.g = cta.g + 1, !.u = 0] ELSE Idle
  BY DEF NextHead
<1>3. /\ cta \in [x : GridHeads, block : 0 .. Rows - 1, g : 0 .. LastG, u : Nat]
      /\ launched \in [GridHeads -> 0 .. Rows]
      /\ launched[cta.x] > 0 /\ OrderOf(cta.x)[launched[cta.x]] = cta.block
  BY <1>2 DEF GridInv, Progress
<1>4. LastG \in Nat /\ (\A y \in GridHeads : y \in Nat) /\ Rows \in Nat
  BY <1>1, QHeads, Sizes DEF Built, Rows
<1>5. /\ GridHeads' = GridHeads /\ Rows' = Rows /\ LastG' = LastG
      /\ \A x : OrderOf(x)' = OrderOf(x)
      /\ OrderOf(cta.x)' = OrderOf(cta'.x)
      /\ StepsOf(cta.x, cta.block, cta.g)' = StepsOf(cta'.x, cta'.block, cta'.g)
      /\ \A k : Valid(k)' <=> Valid(k)
  BY <1>1, Unmoved
<1>6. ASSUME NEW k \in Place, Valid(k), k.x = cta.x, k.block = cta.block, k.g = cta.g
      PROVE  k.u < cta.u
  <2>1. k.u \in 0 .. cta.u - 1
    BY <1>2, <1>6 DEF Valid
  <2> QED
    BY <1>3, <2>1
<1>7. \A k \in Place : k.g \in Int /\ k.u \in Int
  BY DEF Place
<1>8. CASE cta.g < LastG
  <2>1. /\ cta'.x = cta.x /\ cta'.block = cta.block /\ cta'.g = cta.g + 1 /\ cta'.u = 0
        /\ cta.g + 1 \in 0 .. LastG /\ cta.g \in Int
        /\ cta' \in [x : GridHeads, block : 0 .. Rows - 1, g : 0 .. LastG, u : Nat]
    <3>1. cta.g + 1 \in 0 .. LastG /\ cta.g \in Int
      BY <1>3, <1>4, <1>8
    <3>2. cta' = [cta EXCEPT !.g = cta.g + 1, !.u = 0]
      BY <1>2, <1>8
    <3> QED
      BY <1>3, <3>1, <3>2
  <2>2. cta' # Idle
    <3>1. Idle.x = -1 /\ cta.x \in Nat
      BY <1>3, <1>4 DEF Idle
    <3> QED
      BY <2>1, <3>1
  <2>3. Progress'
    <3>1. StepsOf(cta.x, cta.block, cta.g + 1) \in Nat
      BY <1>1, <1>3, <2>1, Lengths
    <3>2. cta'.u <= StepsOf(cta.x, cta.block, cta.g)'
      BY <1>5, <2>1, <3>1
    <3>3. launched'[cta'.x] > 0 /\ OrderOf(cta.x)'[launched'[cta'.x]] = cta'.block
      BY <1>1, <1>3, <1>5, <2>1
    <3> QED
      BY <1>1, <1>3, <1>5, <2>1, <3>2, <3>3 DEF Progress
  <2>4. ASSUME NEW k \in Place PROVE DoneStep(k)' <=> DoneStep(k)
    <3> DEFINE there == \E a \in 1 .. launched[k.x] : OrderOf(k.x)[a] = k.block
    <3>1. DoneStep(k)' <=>
            /\ Valid(k)' /\ \E a \in 1 .. launched'[k.x] : OrderOf(k.x)'[a] = k.block
            /\ cta' # Idle /\ cta'.x = k.x /\ cta'.block = k.block =>
                 k.g < cta'.g \/ (k.g = cta'.g /\ k.u < cta'.u)
      BY DEF DoneStep
    <3>2. DoneStep(k)' <=>
            /\ Valid(k) /\ there
            /\ k.x = cta.x /\ k.block = cta.block =>
                 k.g < cta.g + 1 \/ (k.g = cta.g + 1 /\ k.u < 0)
      BY <1>1, <1>5, <2>1, <2>2, <3>1
    <3>3. DoneStep(k) <=>
            /\ Valid(k) /\ there
            /\ k.x = cta.x /\ k.block = cta.block =>
                 k.g < cta.g \/ (k.g = cta.g /\ k.u < cta.u)
      BY <1>2 DEF DoneStep
    <3> HIDE DEF there
    <3>4. Valid(k) => ~(k.u < 0)
      BY <1>7 DEF Valid
    <3>5. k.g < cta.g + 1 <=> k.g < cta.g \/ k.g = cta.g
      BY <1>7, <2>1
    <3> QED
      BY <1>6, <3>2, <3>3, <3>4, <3>5
  <2> QED
    BY <2>3, <2>4
<1>9. CASE ~(cta.g < LastG)
  <2>1. cta' = Idle /\ cta.g = LastG
    BY <1>2, <1>3, <1>4, <1>9
  <2>2. Progress'
    BY <1>1, <1>3, <1>5, <2>1 DEF Progress
  <2>3. ASSUME NEW k \in Place PROVE DoneStep(k)' <=> DoneStep(k)
    <3> DEFINE there == \E a \in 1 .. launched[k.x] : OrderOf(k.x)[a] = k.block
    <3>1. DoneStep(k)' <=>
            /\ Valid(k)' /\ \E a \in 1 .. launched'[k.x] : OrderOf(k.x)'[a] = k.block
            /\ cta' # Idle /\ cta'.x = k.x /\ cta'.block = k.block =>
                 k.g < cta'.g \/ (k.g = cta'.g /\ k.u < cta'.u)
      BY DEF DoneStep
    <3>2. DoneStep(k)' <=> Valid(k) /\ there
      BY <1>1, <1>5, <2>1, <3>1 DEF Idle
    <3>3. DoneStep(k) <=>
            /\ Valid(k) /\ there
            /\ k.x = cta.x /\ k.block = cta.block =>
                 k.g < cta.g \/ (k.g = cta.g /\ k.u < cta.u)
      BY <1>2 DEF DoneStep
    <3> HIDE DEF there
    <3>4. Valid(k) => k.g < cta.g \/ k.g = cta.g
      BY <1>4, <1>7, <2>1 DEF Valid
    <3> QED
      BY <1>6, <3>2, <3>3, <3>4
  <2> QED
    BY <2>2, <2>3
<1> QED
  BY <1>8, <1>9

\* Every step keeps the invariant, and is one that SparseAttention allows.
LEMMA GridStep ==
  ASSUME GridInv, [Next]_vars
  PROVE  GridInv' /\ [Attention!Attend]_(Attention!attVars)
<1> DEFINE Shown(p) == \E k \in Place : DoneStep(k) /\ p \in Attended(k)
<1>1. /\ Built /\ times \in [Pairs -> 0 .. 1]
      /\ \A p \in Pairs : times[p] = IF Shown(p) THEN 1 ELSE 0
  BY DEF GridInv, Once
<1>2. ASSUME UNCHANGED <<call, schedule, times>>, Progress',
             \A k \in Place : DoneStep(k)' <=> DoneStep(k)
      PROVE  GridInv' /\ UNCHANGED Attention!attVars
  <2>1. Built' /\ Visible' = Visible /\ \A k : Attended(k)' = Attended(k)
    BY <1>1, <1>2, Unmoved
  <2>2. Once'
    <3>1. \A p : Shown(p)' <=> Shown(p)
      BY <1>2, <2>1
    <3> HIDE DEF Shown
    <3>2. times' \in [Pairs -> 0 .. 1]
          /\ \A p \in Pairs : times'[p] = IF Shown(p)' THEN 1 ELSE 0
      BY <1>1, <1>2, <3>1
    <3> QED
      BY <3>2 DEF Once, Shown
  <2> QED
    BY <1>2, <2>1, <2>2 DEF GridInv, Attention!attVars
<1>3. ASSUME NEW x \in GridHeads, Launch(x)
      PROVE  GridInv' /\ [Attention!Attend]_(Attention!attVars)
  <2>1. UNCHANGED <<call, schedule, times>>
    BY <1>3 DEF Launch
  <2> QED
    BY <1>2, <1>3, <2>1, LaunchStep
<1>4. CASE NextHead
  <2>1. UNCHANGED <<call, schedule, times>>
    BY <1>4 DEF NextHead
  <2> QED
    BY <1>2, <1>4, <2>1, NextHeadStep
<1>5. CASE UNCHANGED vars
  <2>1. /\ UNCHANGED <<call, schedule, launched, cta, times>>
    BY <1>5 DEF vars
  <2>2. Visible' = Visible
    BY <2>1 DEF Visible
  <2>3. Built' /\ Progress' /\ Once'
    <3>1. \A k : (Valid(k)' <=> Valid(k)) /\ Attended(k)' = Attended(k)
      BY <2>1, Unmoved
    <3>2. /\ GridHeads' = GridHeads /\ Rows' = Rows /\ LastG' = LastG
          /\ OrderOf(cta.x)' = OrderOf(cta'.x) /\ (\A x : OrderOf(x)' = OrderOf(x))
          /\ StepsOf(cta.x, cta.block, cta.g)' = StepsOf(cta'.x, cta'.block, cta'.g)
          /\ Built'
      BY <1>1, <2>1, Unmoved
    <3>3. Progress'
      <4>1. /\ StepsOf(cta.x, cta.block, cta.g)' = StepsOf(cta.x, cta.block, cta.g)
            /\ OrderOf(cta.x)' = OrderOf(cta.x)
        BY <2>1, <3>2
      <4> QED
        BY <2>1, <3>2, <4>1 DEF GridInv, Progress
    <3>4. \A k \in Place : DoneStep(k)' <=> DoneStep(k)
      BY <2>1, <3>1, <3>2 DEF DoneStep
    <3> QED
      BY <1>2, <2>1, <3>3, <3>4 DEF GridInv
  <2> QED
    BY <2>1, <2>2, <2>3 DEF GridInv, Attention!attVars
<1>6. CASE Step
  <2>1. /\ UNCHANGED <<call, schedule>> /\ cta # Idle
        /\ cta.u < StepsOf(cta.x, cta.block, cta.g)
        /\ times' = [p \in Pairs |-> times[p] + IF p \in Attended(cta) THEN 1 ELSE 0]
    BY <1>6 DEF Step
  <2>2. Progress' /\ \A k \in Place : DoneStep(k)' <=> DoneStep(k) \/ k = cta
    BY <1>6, AttendStep
  <2>3. cta \in Place /\ Valid(cta) /\ ~DoneStep(cta)
    BY <2>1, Running
  <2>4. Built' /\ Visible' = Visible /\ \A k : Attended(k)' = Attended(k)
    BY <1>1, <2>1, Unmoved
  <2>5. Attended(cta) \subseteq Visible /\ Attended(cta) \subseteq Pairs
    BY <1>1, <2>3, OnlyVisible
  <2>6. ASSUME NEW p \in Attended(cta) PROVE ~Shown(p)
    <3> SUFFICES ASSUME NEW k \in Place, DoneStep(k), p \in Attended(k) PROVE FALSE
      OBVIOUS
    <3>1. Valid(k)
      BY DEF DoneStep
    <3>2. k.x = cta.x /\ k.block = cta.block /\ k.g = cta.g /\ k.u = cta.u
      BY <1>1, <2>3, <3>1, Unique
    <3>3. k = cta
      BY <2>3, <3>2 DEF Place
    <3> QED
      BY <2>3, <3>3
  <2>7. ASSUME NEW p \in Pairs PROVE Shown(p)' <=> Shown(p) \/ p \in Attended(cta)
    <3>1. Shown(p)' <=> \E k \in Place : DoneStep(k)' /\ p \in Attended(k)'
      OBVIOUS
    <3>2. Shown(p)' <=> \E k \in Place : (DoneStep(k) \/ k = cta) /\ p \in Attended(k)
      BY <2>2, <2>4, <3>1
    <3> QED
      BY <2>3, <3>2
  <2> HIDE DEF Shown
  <2>8. ASSUME NEW p \in Pairs
        PROVE  /\ times[p] \in 0 .. 1 /\ times'[p] \in 0 .. 1 /\ times'[p] >= times[p]
               /\ times'[p] = IF Shown(p)' THEN 1 ELSE 0
               /\ times'[p] # 0 => times[p] # 0 \/ p \in Attended(cta)
    <3>1. /\ times[p] = IF Shown(p) THEN 1 ELSE 0
          /\ times'[p] = times[p] + IF p \in Attended(cta) THEN 1 ELSE 0
      BY <1>1, <2>1
    <3>2. CASE p \in Attended(cta)
      BY <2>6, <2>7, <3>1, <3>2
    <3>3. CASE p \notin Attended(cta)
      BY <2>7, <3>1, <3>3
    <3> QED
      BY <3>2, <3>3
  <2>9. times' \in [Pairs -> 0 .. 1] /\ DOMAIN times = Pairs
    BY <1>1, <2>1, <2>8
  <2>10. Once'
    BY <2>8, <2>9 DEF Once, Shown
  <2>11. ASSUME NEW p \in Pairs \ Visible PROVE times[p] = 0
    <3>1. ~Shown(p)
      <4> SUFFICES ASSUME NEW k \in Place, DoneStep(k), p \in Attended(k) PROVE FALSE
        BY DEF Shown
      <4>1. Valid(k)
        BY DEF DoneStep
      <4> QED
        BY <1>1, <4>1, OnlyVisible
    <3> QED
      BY <1>1, <3>1
  <2>12. Attention!Attend
    <3>1. \A p \in Pairs \ Visible : times'[p] = 0
      BY <2>5, <2>8, <2>11
    <3> QED
      BY <2>4, <2>8, <2>9, <3>1 DEF Attention!Attend
  <2> QED
    BY <2>2, <2>4, <2>10, <2>12 DEF GridInv
<1>7. CASE Done
  BY <1>5, <1>7 DEF Done
<1> QED
  BY <1>3, <1>4, <1>5, <1>6, <1>7 DEF Next
-----------------------------------------------------------------------------
\* The invariant, of every behaviour.
LEMMA SpecGrid == Spec => []GridInv
<1>1. Init => GridInv
  BY GridInit
<1>2. GridInv /\ [Next]_vars => GridInv'
  BY GridStep
<1> QED
  BY <1>1, <1>2, PTL DEF Spec

\* A CTA reads the tables of the schedule only where they have an entry.
THEOREM TypeCorrect == Spec => []TypeOK
<1>1. GridInv => TypeOK
  <2> SUFFICES ASSUME GridInv PROVE TypeOK
    OBVIOUS
  <2>1. Built /\ Progress /\ times \in [Pairs -> 0 .. 1]
    BY DEF GridInv, Once
  <2>2. \A x \in GridHeads, g \in 0 .. LastG : MaskHead(QHead(x, g)) \in DOMAIN Walked.numSteps
    BY <2>1, Lengths
  <2>3. \A x \in GridHeads : Len(OrderOf(x)) = Rows
    <3>1. 0 \in 0 .. LastG
      BY <2>1, QHeads DEF Built
    <3> QED
      BY <2>1, <3>1, Lengths
  <2>4. \A x \in GridHeads : launched[x] \in 0 .. Len(OrderOf(x))
    BY <2>1, <2>3 DEF Progress
  <2>5. ASSUME cta # Idle
        PROVE  /\ cta.x \in GridHeads /\ cta.g \in 0 .. LastG
               /\ cta.block \in DOMAIN Walked.numSteps[MaskHead(QHead(cta.x, cta.g))]
               /\ cta.u \in 0 .. StepsOf(cta.x, cta.block, cta.g)
    <3>1. /\ cta.x \in GridHeads /\ cta.g \in 0 .. LastG /\ cta.u \in Nat
          /\ cta.block \in 0 .. Rows - 1 /\ cta.u <= StepsOf(cta.x, cta.block, cta.g)
      BY <2>1, <2>5 DEF Progress
    <3>2. /\ DOMAIN Walked.numSteps[MaskHead(QHead(cta.x, cta.g))] = 0 .. Rows - 1
          /\ StepsOf(cta.x, cta.block, cta.g) \in Nat
      BY <2>1, <3>1, Lengths
    <3> QED
      BY <3>1, <3>2
  <2>6. times \in [Pairs -> Nat]
    BY <2>1
  <2> QED
    BY <2>2, <2>4, <2>5, <2>6 DEF TypeOK, OrderOf
<1> QED
  BY <1>1, SpecGrid, PTL

\* No step computes a block of which nothing is visible, and masks are applied
\* exactly in the blocks that hide a pair.
THEOREM EmptySkipped == Spec => []SkipsEmpty
<1>1. GridInv => SkipsEmpty
  <2> SUFFICES ASSUME GridInv, cta # Idle, cta.u < StepsOf(cta.x, cta.block, cta.g)
               PROVE  LET h == QHead(cta.x, cta.g)
                          s == cta.u \div Parts
                          other == Walked.block[MaskHead(h)][cta.block][s]
                          pattern == IF ByRows(call) THEN call.mask[h][cta.block][other]
                                     ELSE call.mask[h][other][cta.block]
                      IN /\ pattern # {}
                         /\ (Walked.kind[MaskHead(h)][cta.block][s] = PARTIAL)
                              <=> pattern # Cells
    BY DEF SkipsEmpty
  <2> DEFINE h == QHead(cta.x, cta.g)
             s == cta.u \div Parts
             other == Walked.block[MaskHead(h)][cta.block][s]
  <2>1. Built /\ Valid(cta)
    BY Running DEF GridInv
  <2>2. h \in 0 .. Heads - 1 /\ s \in 0 .. Walked.numSteps[MaskHead(h)][cta.block] - 1
    BY <2>1, StepPlaces
  <2>3. TableRow(h, cta.block)
    BY <2>1, <2>2, Tables DEF Table, Valid
  <2>4. /\ Pattern(h, cta.block, other) # {}
        /\ Walked.kind[MaskHead(h)][cta.block][s] = Kind(Pattern(h, cta.block, other))
    BY <2>2, <2>3 DEF TableRow
  <2>5. (Kind(Pattern(h, cta.block, other)) = PARTIAL) <=> Pattern(h, cta.block, other) # Cells
    BY <2>4, Kinds
  <2> QED
    BY <2>4, <2>5 DEF Pattern
<1> QED
  BY <1>1, SpecGrid, PTL

\* Heaviest rows first: no CTA that is still to be launched has more steps than
\* one launched before it.
THEOREM HeaviestFirstLaunched == Spec => []HeaviestLaunchedFirst
<1>1. GridInv => HeaviestLaunchedFirst
  <2> SUFFICES ASSUME GridInv, NEW x \in GridHeads, NEW a \in 1 .. launched[x],
                      NEW b \in launched[x] + 1 .. Len(OrderOf(x))
               PROVE  StepsOf(x, OrderOf(x)[a], 0) >= StepsOf(x, OrderOf(x)[b], 0)
    BY DEF HeaviestLaunchedFirst, OrderOf
  <2>1. Built /\ launched[x] \in 0 .. Rows /\ 0 \in 0 .. LastG
    BY QHeads DEF GridInv, Progress, Built
  <2>2. Len(OrderOf(x)) = Rows /\ Rows \in Nat
    BY <2>1, Lengths
  <2>3. a \in 1 .. Rows /\ b \in 1 .. Rows /\ a < b
    BY <2>1, <2>2
  <2> QED
    BY <2>1, <2>3, Lengths
<1> QED
  BY <1>1, SpecGrid, PTL

\* The rows and the columns list the same blocks, with the same kinds and masks.
THEOREM ForwardAndBackwardAgree == Spec => []SchedulesAgree
<1>1. GridInv => SchedulesAgree
  BY Tables DEF GridInv
<1> QED
  BY <1>1, SpecGrid, PTL

\* The grid attends to no pair twice and to none that the mask hides: every
\* step is one that SparseAttention allows.
THEOREM AttendsOnce == Spec => Attention!Steps
<1>1. Init => Attention!Init
  BY GridInit
<1>2. GridInv /\ [Next]_vars => [Attention!Attend]_(Attention!attVars)
  BY GridStep
<1> QED
  BY <1>1, <1>2, SpecGrid, PTL DEF Spec, Attention!Steps

\* No CTA runs and none is left to launch.
Ended ==
  cta = Idle /\ \A x \in GridHeads : launched[x] = Len(Order[MaskHead(QHead(x, 0))])

\* By the time it ends, the grid has attended to every visible pair: a visible
\* pair is never skipped, in any kernel, whatever the masks and the sizes.
THEOREM EndsComplete == Spec => [](Ended => Attention!Complete)
<1>1. GridInv => (Ended => Attention!Complete)
  <2> SUFFICES ASSUME GridInv, Ended, NEW q \in Visible PROVE times[q] = 1
    BY DEF Attention!Complete
  <2>1. Built /\ q \in Pairs
    BY VisiblePairs DEF GridInv, Built
  <2>2. PICK k \in Place : Valid(k) /\ q \in Attended(k)
    BY <2>1, Covered
  <2>3. k.x \in GridHeads /\ k.block \in 0 .. Rows - 1 /\ 0 \in 0 .. LastG
    BY <2>1, <2>2, QHeads DEF Valid, Built
  <2>4. PICK a \in 1 .. Rows : OrderOf(k.x)[a] = k.block
    BY <2>1, <2>3, Lengths
  <2>5. launched[k.x] = Rows
    BY <2>1, <2>3, Lengths DEF Ended, OrderOf
  <2>6. DoneStep(k)
    BY <2>2, <2>4, <2>5 DEF DoneStep, Ended
  <2> QED
    BY <2>1, <2>2, <2>6 DEF GridInv, Once
<1> QED
  BY <1>1, SpecGrid, PTL
=============================================================================
