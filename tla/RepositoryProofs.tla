-------------------------- MODULE RepositoryProofs --------------------------
(***************************************************************************)
(* Theorems about Repository, for any range of days, number of rows and    *)
(* number of writes.  All of them rest on one invariant of the tables,     *)
(* both of the committed ones and of those the open transaction works on:  *)
(* the intervals of a partition are disjoint, and the rows on proven days  *)
(* and those of a partition with a state come from the write that says so. *)
(* What readers compute from the intervals comes first: the two loops of   *)
(* coverage.py, each by an invariant of its own.                           *)
(***************************************************************************)
EXTENDS Repository, FiniteSetTheorems, WellFoundedInduction, TLAPS
-----------------------------------------------------------------------------
(* Finite sets have least and greatest elements. *)

LEMMA LeastNumber ==
    ASSUME NEW n \in Nat, NEW T, T \subseteq 0..n, T # {}
    PROVE  \E k \in T : \A j \in T : k <= j
<1> DEFINE Up(k) == {j \in T : j <= k}
           Ups == {Up(k) : k \in T}
<1>1. IsFiniteSet(T)
  <2>1. IsFiniteSet(0..n)
    BY FS_Interval
  <2> QED BY <2>1, FS_Subset
<1>2. IsWellFoundedOn(StrictSubsetOrdering(T), FiniteSubsetsOf(T))
  BY FS_StrictSubsetOrderingWellFounded
<1>3. Ups \subseteq FiniteSubsetsOf(T) /\ Ups # {}
  <2>1. \A A \in SUBSET T : IsFiniteSet(A)
    BY <1>1, FS_Subset
  <2> QED BY <2>1 DEF FiniteSubsetsOf
<1>4. PICK A \in Ups : \A B \in Ups : ~(<<B, A>> \in StrictSubsetOrdering(T))
  BY <1>2, <1>3, WFMin
<1>5. PICK k \in T : A = Up(k)
  BY <1>4
<1>6. ASSUME NEW j \in T, ~(k <= j) PROVE FALSE
  <2>0. \A e \in T : e \in Int
    OBVIOUS
  <2>1. Up(j) \subseteq Up(k) /\ k \in Up(k) /\ k \notin Up(j)
    <3>1. \A e \in T : e <= j => e <= k
      BY <2>0, <1>6
    <3>2. k <= k /\ ~(k <= j)
      BY <2>0, <1>6
    <3> QED BY <3>1, <3>2
  <2>2. Up(j) \in Ups /\ Up(j) \subseteq T /\ A \subseteq T
    BY <1>5
  <2>3. <<Up(j), A>> \in StrictSubsetOrdering(T)
    BY <2>1, <2>2, <1>5 DEF StrictSubsetOrdering
  <2> QED BY <2>2, <2>3, <1>4
<1> QED BY <1>6

LEMMA MaxIs ==
    ASSUME NEW n \in Nat, NEW s \in SUBSET (1..n), s # {}
    PROVE  Max(s) \in s /\ \A e \in s : Max(s) >= e
<1> DEFINE T == {n - e : e \in s}
<1>0. \A e \in s : e \in Int /\ 1 <= e /\ e <= n
  OBVIOUS
<1>1. T \subseteq 0..n /\ T # {}
  <2>1. \A e \in s : n - e \in 0..n
    BY <1>0
  <2> QED BY <2>1
<1>2. PICK k \in T : \A j \in T : k <= j
  BY <1>1, LeastNumber
<1>3. PICK x \in s : k = n - x
  BY <1>2
<1>4. \A e \in s : x >= e
  <2> SUFFICES ASSUME NEW e \in s PROVE x >= e
    OBVIOUS
  <2>1. x \in Int /\ e \in Int
    BY <1>0, <1>3
  <2>2. n - x <= n - e
    BY <1>2, <1>3
  <2> QED BY <2>1, <2>2
<1> QED BY <1>3, <1>4 DEF Max

\* The greatest of some intervals.
LEMMA LastInterval ==
    ASSUME NEW U, IsFiniteSet(U), U \subseteq Int \X Int, U # {}
    PROVE  \E x \in U : \A y \in U : Before(y, x)
<1> DEFINE Up(d) == {e \in U : Before(d, e)}
           Ups == {Up(d) : d \in U}
<1>1. IsWellFoundedOn(StrictSubsetOrdering(U), FiniteSubsetsOf(U))
  BY FS_StrictSubsetOrderingWellFounded
<1>2. Ups \subseteq FiniteSubsetsOf(U) /\ Ups # {}
  <2>1. \A A \in SUBSET U : IsFiniteSet(A)
    BY FS_Subset
  <2> QED BY <2>1 DEF FiniteSubsetsOf
<1>3. PICK A \in Ups : \A B \in Ups : ~(<<B, A>> \in StrictSubsetOrdering(U))
  BY <1>1, <1>2, WFMin
<1>4. PICK x \in U : A = Up(x)
  BY <1>3
<1>5. ASSUME NEW y \in U, ~Before(y, x) PROVE FALSE
  <2>0. \A u \in U : u[1] \in Int /\ u[2] \in Int
    OBVIOUS
  <2>1. Up(y) \subseteq Up(x)
    <3> SUFFICES ASSUME NEW e \in U, Before(y, e) PROVE Before(x, e)
      BY Zenon
    <3> QED BY <1>5, <2>0 DEF Before
  <2>2. x \in Up(x) /\ x \notin Up(y)
    BY <1>5, <2>0 DEF Before
  <2>3. Up(y) \in Ups /\ Up(y) \subseteq U /\ A \subseteq U
    BY <1>4
  <2>4. <<Up(y), A>> \in StrictSubsetOrdering(U)
    BY <2>1, <2>2, <2>3, <1>4 DEF StrictSubsetOrdering
  <2> QED BY <2>3, <2>4, <1>3
<1> QED BY <1>5

InOrder(q, S) == ToSet(q) = S /\ \A m, n \in DOMAIN q : m < n => Before(q[m], q[n])

\* What sorted() is given comes back in order.
LEMMA SortedIs ==
    ASSUME NEW S, IsFiniteSet(S), S \subseteq Int \X Int
    PROVE  /\ Cardinality(S) \in Nat
           /\ Sorted(S) \in [1..Cardinality(S) -> S]
           /\ InOrder(Sorted(S), S)
<1> DEFINE Ordered1(U) == \E q \in [1..Cardinality(U) -> U] : InOrder(q, U)
           T == {U \in SUBSET S : ~Ordered1(U)}
<1>1. \A U \in SUBSET S : IsFiniteSet(U) /\ Cardinality(U) \in Nat
  BY FS_Subset, FS_CardinalityType
<1>2. T = {}
  <2> SUFFICES ASSUME T # {} PROVE FALSE
    OBVIOUS
  <2>1. IsWellFoundedOn(StrictSubsetOrdering(S), FiniteSubsetsOf(S))
    BY FS_StrictSubsetOrderingWellFounded
  <2>2. T \subseteq FiniteSubsetsOf(S)
    BY <1>1 DEF FiniteSubsetsOf
  <2>3. PICK U \in T : \A V \in T : ~(<<V, U>> \in StrictSubsetOrdering(S))
    BY <2>1, <2>2, WFMin
  <2>4. U \subseteq S /\ ~Ordered1(U) /\ IsFiniteSet(U) /\ Cardinality(U) \in Nat
    BY <1>1
  <2>5. U # {}
    <3> SUFFICES ASSUME U = {} PROVE Ordered1(U)
      BY <2>4
    <3>1. Cardinality(U) = 0
      BY FS_EmptySet
    <3> DEFINE q == [i \in 1..0 |-> 0]
    <3>2. q \in [1..Cardinality(U) -> U] /\ DOMAIN q = {}
      BY <3>1
    <3>3. InOrder(q, U)
      BY <3>2 DEF InOrder, ToSet
    <3> QED BY <3>2, <3>3
  <2>6. PICK x \in U : \A y \in U : Before(y, x)
    BY <2>4, <2>5, LastInterval
  <2> DEFINE V == U \ {x}
             c == Cardinality(U)
  <2>7. V \subseteq S /\ Cardinality(V) = c - 1 /\ c >= 1
    <3>1. Cardinality(V) = c - 1
      BY <2>4, FS_RemoveElement
    <3>2. Cardinality(V) \in Nat
      BY <1>1, <2>4
    <3> QED BY <2>4, <3>1, <3>2
  <2>8. Ordered1(V)
    <3>1. <<V, U>> \in StrictSubsetOrdering(S)
      BY <2>4, <2>7 DEF StrictSubsetOrdering
    <3> QED BY <2>3, <2>7, <3>1
  <2>9. PICK p \in [1..(c - 1) -> V] : InOrder(p, V)
    BY <2>7, <2>8
  <2> DEFINE q == [i \in 1..c |-> IF i = c THEN x ELSE p[i]]
  <2>10. q \in [1..c -> U]
    BY <2>4, <2>9
  <2>11. ToSet(q) = U
    <3> HIDE DEF V
    <3>1. \A u \in V : \E i \in 1..(c - 1) : p[i] = u
      BY <2>9 DEF InOrder, ToSet
    <3>2. \A u \in V : \E i \in 1..c : q[i] = u
      BY <2>4, <3>1
    <3>3. q[c] = x /\ c \in 1..c
      BY <2>4, <2>7
    <3>4. \A u \in U : \E i \in DOMAIN q : q[i] = u
      BY <3>2, <3>3 DEF V
    <3> QED BY <2>10, <3>4 DEF ToSet
  <2>12. ASSUME NEW m \in 1..c, NEW n \in 1..c, m < n PROVE Before(q[m], q[n])
    <3>1. CASE n = c
      BY <2>6, <2>10, <3>1
    <3>2. CASE n # c
      <4>1. m \in 1..(c - 1) /\ n \in 1..(c - 1) /\ q[m] = p[m] /\ q[n] = p[n]
        BY <2>4, <2>12, <3>2
      <4>2. m \in DOMAIN p /\ n \in DOMAIN p
        BY <2>9, <4>1
      <4> QED BY <2>9, <2>12, <4>1, <4>2 DEF InOrder
    <3> QED BY <3>1, <3>2
  <2>13. DOMAIN q = 1..c
    OBVIOUS
  <2> HIDE DEF q
  <2>14. InOrder(q, U)
    BY <2>11, <2>12, <2>13 DEF InOrder
  <2> QED BY <2>4, <2>10, <2>14
<1>3. Ordered1(S)
  BY <1>2
<1> QED BY <1>1, <1>3 DEF Sorted, InOrder


-----------------------------------------------------------------------------
(* The loops over sorted intervals. FoldLeft is a function of the sets of   *)
(* positions; what it says of a prefix is the state after that many steps. *)

\* One step of the loop of gaps or of that of covered_suffix.
Step(loop, a, i, end) == IF loop = "gaps" THEN GapStep(a, i, end) ELSE SuffixStep(a, i)

FoldOver(f, U, loop, b, q, end) ==
    f = [s \in SUBSET U |->
            IF s = {} THEN b ELSE Step(loop, f[s \ {Max(s)}], q[Max(s)], end)]

LEMMA WithoutMax ==
    ASSUME NEW n \in Nat, NEW s \in SUBSET (1..n), s # {}
    PROVE  /\ s \ {Max(s)} \subseteq s
           /\ <<s \ {Max(s)}, s>> \in StrictSubsetOrdering(1..n)
<1>1. Max(s) \in s
  BY MaxIs
<1> DEFINE t == s \ {Max(s)}
<1>2. t \subseteq s /\ t # s /\ t \subseteq 1..n
  BY <1>1
<1>3. t \in SUBSET (1..n) /\ s \in SUBSET (1..n)
  BY <1>2
<1> HIDE DEF t
<1>4. <<t, s>> \in StrictSubsetOrdering(1..n)
  BY <1>2, <1>3 DEF StrictSubsetOrdering
<1> QED BY <1>2, <1>4 DEF t

LEMMA Subsets ==
    ASSUME NEW n \in Nat
    PROVE  /\ IsWellFoundedOn(StrictSubsetOrdering(1..n), FiniteSubsetsOf(1..n))
           /\ FiniteSubsetsOf(1..n) = SUBSET (1..n)
<1>1. IsFiniteSet(1..n)
  BY FS_Interval
<1>2. \A A \in SUBSET (1..n) : IsFiniteSet(A)
  BY <1>1, FS_Subset
<1>3. IsWellFoundedOn(StrictSubsetOrdering(1..n), FiniteSubsetsOf(1..n))
  BY FS_StrictSubsetOrderingWellFounded
<1>4. FiniteSubsetsOf(1..n) = SUBSET (1..n)
  BY <1>2 DEF FiniteSubsetsOf
<1> QED BY <1>3, <1>4

\* f is such a function on U, g on a part V of U.
Nested(f, U, g, V, n, loop, b, q, end) ==
    /\ U \subseteq 1..n /\ V \subseteq U
    /\ FoldOver(f, U, loop, b, q, end) /\ FoldOver(g, V, loop, b, q, end)

\* Two such functions agree where both are defined.
LEMMA FoldAgrees ==
    ASSUME NEW n \in Nat, NEW U, NEW V, NEW loop, NEW b, NEW q, NEW end, NEW f, NEW g,
           Nested(f, U, g, V, n, loop, b, q, end)
    PROVE  f[V] = g[V]
<1>0. /\ U \subseteq 1..n /\ V \subseteq U
      /\ FoldOver(f, U, loop, b, q, end) /\ FoldOver(g, V, loop, b, q, end)
  BY DEF Nested
<1> DEFINE T == {t \in SUBSET (1..n) : t \subseteq U /\ t \subseteq V /\ f[t] # g[t]}
<1>1. T = {}
  <2> SUFFICES ASSUME T # {} PROVE FALSE
    OBVIOUS
  <2>1. T \subseteq FiniteSubsetsOf(1..n)
    BY Subsets
  <2>2. PICK t \in T : \A r \in T : ~(<<r, t>> \in StrictSubsetOrdering(1..n))
    <3> HIDE DEF T
    <3> QED BY <2>1, Subsets, WFMin
  <2>3. t \in SUBSET (1..n) /\ t \in SUBSET U /\ t \in SUBSET V /\ f[t] # g[t]
    OBVIOUS
  <2> DEFINE r == t \ {Max(t)}
  <2>4. /\ f[t] = IF t = {} THEN b ELSE Step(loop, f[r], q[Max(t)], end)
        /\ g[t] = IF t = {} THEN b ELSE Step(loop, g[r], q[Max(t)], end)
    BY <1>0, <2>3 DEF FoldOver
  <2>5. t # {}
    BY <2>3, <2>4
  <2>6. r \subseteq t /\ <<r, t>> \in StrictSubsetOrdering(1..n)
    BY <2>3, <2>5, WithoutMax
  <2>7. f[r] # g[r]
    BY <2>3, <2>4, <2>5
  <2>8. r \in T
    BY <2>3, <2>6, <2>7
  <2> QED BY <2>2, <2>6, <2>8
<1>2. V \in SUBSET (1..n) /\ V \subseteq U /\ V \subseteq V
  BY <1>0
<1> QED BY <1>1, <1>2

\* There is such a function on all positions.
LEMMA FoldExists ==
    ASSUME NEW n \in Nat, NEW loop, NEW b, NEW q, NEW end
    PROVE  \E f : FoldOver(f, 1..n, loop, b, q, end)
<1>0. ASSUME NEW U, U \subseteq 1..n, NEW V, V \subseteq U, NEW f, NEW g,
             FoldOver(f, U, loop, b, q, end), FoldOver(g, V, loop, b, q, end)
      PROVE  f[V] = g[V]
  <2>1. Nested(f, U, g, V, n, loop, b, q, end)
    BY <1>0 DEF Nested
  <2> QED BY <2>1, FoldAgrees
<1> DEFINE Made(U) == \E f : FoldOver(f, U, loop, b, q, end)
           F(U) == CHOOSE f : FoldOver(f, U, loop, b, q, end)
           T == {U \in SUBSET (1..n) : ~Made(U)}
<1>1. T = {}
  <2> SUFFICES ASSUME T # {} PROVE FALSE
    OBVIOUS
  <2>1. T \subseteq FiniteSubsetsOf(1..n)
    BY Subsets
  <2>2. PICK U \in T : \A V \in T : ~(<<V, U>> \in StrictSubsetOrdering(1..n))
    BY <2>1, Subsets, WFMin
  <2>3. U \in SUBSET (1..n) /\ ~Made(U)
    OBVIOUS
  <2>4. ASSUME NEW V \in SUBSET U, V # U
        PROVE  FoldOver(F(V), V, loop, b, q, end)
    <3>1. V \in SUBSET (1..n)
      BY <2>3, <2>4
    <3>2. <<V, U>> \in StrictSubsetOrdering(1..n)
      BY <2>3, <2>4, <3>1 DEF StrictSubsetOrdering
    <3>3. Made(V)
      BY <2>2, <3>1, <3>2
    <3> QED BY <3>3
  <2> DEFINE Less(s) == s \ {Max(s)}
             h == [s \in SUBSET U |->
                      IF s = {} THEN b ELSE Step(loop, F(Less(s))[Less(s)], q[Max(s)], end)]
  <2>5. ASSUME NEW s \in SUBSET U, s # {}
        PROVE  h[Less(s)] = F(Less(s))[Less(s)]
    <3>1. s \in SUBSET (1..n)
      BY <2>3
    <3> DEFINE r == Less(s)
    <3>2. r \subseteq s /\ r # s
      BY <2>5, <3>1, MaxIs
    <3>3. r \in SUBSET U /\ r # U /\ r \in SUBSET (1..n)
      BY <3>1, <3>2
    <3>4. FoldOver(F(r), r, loop, b, q, end)
      BY <3>3, <2>4
    <3>5. h[r] = IF r = {} THEN b ELSE Step(loop, F(Less(r))[Less(r)], q[Max(r)], end)
      BY <3>3
    <3>6. F(r)[r] = IF r = {} THEN b ELSE Step(loop, F(r)[Less(r)], q[Max(r)], end)
      <4>1. r \in SUBSET r
        OBVIOUS
      <4> HIDE DEF F, r
      <4> QED BY <3>4, <4>1 DEF FoldOver
    <3>7. CASE r = {}
      BY <3>5, <3>6, <3>7
    <3>8. CASE r # {}
      <4>1. Less(r) \subseteq r /\ Less(r) # r
        BY <3>3, <3>8, MaxIs
      <4>2. Less(r) \in SUBSET U /\ Less(r) # U /\ Less(r) \in SUBSET (1..n)
        BY <4>1, <3>3
      <4>3. FoldOver(F(Less(r)), Less(r), loop, b, q, end)
        BY <4>2, <2>4
      <4>4. F(r)[Less(r)] = F(Less(r))[Less(r)]
        <5>1. Less(r) \in SUBSET r /\ Less(r) \in SUBSET Less(r)
          BY <4>1
        <5> DEFINE p == Less(r)
        <5>2. \A f, g : FoldOver(f, r, loop, b, q, end) /\ FoldOver(g, p, loop, b, q, end)
                           => f[p] = g[p]
          <6>1. p \subseteq r /\ r \subseteq 1..n
            BY <3>3, <4>2, <5>1
          <6> HIDE DEF p, r
          <6> QED BY <6>1, <1>0
        <5> HIDE DEF F, r, p
        <5>3. FoldOver(F(p), p, loop, b, q, end)
          BY <4>3 DEF p
        <5>4. F(r)[p] = F(p)[p]
          BY <3>4, <5>2, <5>3
        <5> QED BY <5>4 DEF p
      <4>5. h[r] = Step(loop, F(Less(r))[Less(r)], q[Max(r)], end)
        BY <3>5, <3>8
      <4>6. F(r)[r] = Step(loop, F(r)[Less(r)], q[Max(r)], end)
        BY <3>6, <3>8
      <4> HIDE DEF F, r, Less, h
      <4>7. h[r] = F(r)[r]
        BY <4>4, <4>5, <4>6
      <4> QED BY <4>7 DEF r
    <3> QED BY <3>7, <3>8
  <2>6. FoldOver(h, U, loop, b, q, end)
    <3> DEFINE Old(s) == IF s = {} THEN b ELSE Step(loop, F(Less(s))[Less(s)], q[Max(s)], end)
               New(s) == IF s = {} THEN b ELSE Step(loop, h[Less(s)], q[Max(s)], end)
    <3>1. \A s \in SUBSET U : Old(s) = New(s)
      <4> SUFFICES ASSUME NEW s \in SUBSET U PROVE Old(s) = New(s)
        BY Zenon
      <4>1. CASE s = {}
        BY <4>1
      <4>2. CASE s # {}
        <5>1. h[Less(s)] = F(Less(s))[Less(s)]
          BY <2>5, <4>2
        <5> HIDE DEF h, F, Less
        <5> QED BY <5>1
      <4> QED BY <4>1, <4>2
    <3>2. h = [s \in SUBSET U |-> Old(s)]
      BY Zenon
    <3> HIDE DEF h, Old, New
    <3>3. h = [s \in SUBSET U |-> New(s)]
      BY <3>1, <3>2
    <3> QED BY <3>3 DEF FoldOver, New
  <2> QED BY <2>3, <2>6
<1>2. 1..n \in SUBSET (1..n)
  OBVIOUS
<1> QED BY <1>1, <1>2

\* What the loop has after so many steps.
IsRun(a, n, loop, b, q, end) ==
    /\ a[0] = b
    /\ \A k \in 1..n : a[k] = Step(loop, a[k - 1], q[k], end)

LEMMA FoldRuns ==
    ASSUME NEW n \in Nat, NEW loop, NEW b, NEW q, NEW end,
           NEW F, FoldOver(F, 1..n, loop, b, q, end)
    PROVE  \E a : IsRun(a, n, loop, b, q, end) /\ F[1..n] = a[n]
<1>1. FoldOver(F, 1..n, loop, b, q, end)
  OBVIOUS
<1> DEFINE a == [k \in 0..n |-> F[1..k]]
<1>2. a[0] = b
  <2>1. 1..0 = {} /\ 0 \in 0..n
    OBVIOUS
  <2>2. F[{}] = b
    BY <1>1 DEF FoldOver
  <2> QED BY <2>1, <2>2
<1>3. ASSUME NEW k \in 1..n PROVE a[k] = Step(loop, a[k - 1], q[k], end)
  <2>1. 1..k \in SUBSET (1..n) /\ 1..k # {} /\ k - 1 \in 0..n /\ k \in 0..n /\ k \in 1..k
    <3>1. k \in Nat /\ 1 <= k /\ k <= n
      OBVIOUS
    <3>2. k \in 1..k /\ \A e \in 1..k : e \in 1..n
      BY <3>1
    <3>3. k - 1 \in 0..n /\ k \in 0..n
      BY <3>1
    <3> QED BY <3>2, <3>3
  <2>2. Max(1..k) = k
    <3>1. Max(1..k) \in 1..k /\ \A e \in 1..k : Max(1..k) >= e
      BY <2>1, MaxIs, Zenon
    <3> QED BY <2>1, <3>1
  <2>3. (1..k) \ {Max(1..k)} = 1..(k - 1)
    BY <2>2
  <2>4. F[1..k] = IF 1..k = {} THEN b
                  ELSE Step(loop, F[(1..k) \ {Max(1..k)}], q[Max(1..k)], end)
    BY <1>1, <2>1, Zenon DEF FoldOver
  <2>5. F[1..k] = Step(loop, F[1..(k - 1)], q[k], end)
    BY <2>1, <2>2, <2>3, <2>4, Zenon
  <2> QED BY <2>1, <2>5
<1>4. n \in 0..n
  OBVIOUS
<1> HIDE DEF a
<1>5. IsRun(a, n, loop, b, q, end)
  BY <1>2, <1>3 DEF IsRun
<1>6. F[1..n] = a[n]
  BY <1>4 DEF a
<1> QED BY <1>5, <1>6

\* The loop of gaps, and what follows it.
GapsFrom(start) == [cursor |-> start, missing |-> <<>>, returned |-> FALSE]

GapsEnd(acc, end) ==
    IF ~acc.returned /\ acc.cursor <= end
    THEN Append(acc.missing, <<acc.cursor, end>>) ELSE acc.missing

LEMMA GapsRun ==
    ASSUME NEW n \in Nat, NEW S, DOMAIN Sorted(S) = 1..n, NEW start, NEW end
    PROVE  \E a : /\ IsRun(a, n, "gaps", GapsFrom(start), Sorted(S), end)
                  /\ Gaps(start, end, S) = GapsEnd(a[n], end)
<1> DEFINE q == Sorted(S)
           b == GapsFrom(start)
           F == CHOOSE f : f = [s \in SUBSET (1..n) |->
                    IF s = {} THEN b ELSE GapStep(f[s \ {Max(s)}], q[Max(s)], end)]
           acc == FoldLeft(LAMBDA c, i : GapStep(c, i, end), b, q)
<1>1. acc = F[1..n]
  <2> HIDE DEF b, q
  <2>1. DOMAIN q = 1..n
    BY DEF q
  <2> QED BY <2>1 DEF FoldLeft, MapThenFoldSet
<1>2. Gaps(start, end, S) = GapsEnd(acc, end)
  BY DEF Gaps, GapsFrom, GapsEnd
<1> HIDE DEF b, q, acc
<1>3. FoldOver(F, 1..n, "gaps", b, q, end)
  <2>1. \E f : FoldOver(f, 1..n, "gaps", b, q, end)
    BY FoldExists, Zenon
  <2>2. \E f : f = [s \in SUBSET (1..n) |->
                       IF s = {} THEN b ELSE GapStep(f[s \ {Max(s)}], q[Max(s)], end)]
    BY <2>1 DEF FoldOver, Step
  <2>3. F = [s \in SUBSET (1..n) |->
                       IF s = {} THEN b ELSE GapStep(F[s \ {Max(s)}], q[Max(s)], end)]
    BY <2>2, Zenon
  <2> HIDE DEF F
  <2> QED BY <2>3 DEF FoldOver, Step
<1> HIDE DEF F
<1>4. PICK a : IsRun(a, n, "gaps", b, q, end) /\ F[1..n] = a[n]
  BY <1>3, FoldRuns
<1>5. acc = a[n]
  BY <1>1, <1>4
<1> QED BY <1>2, <1>4, <1>5, Zenon DEF b, q

\* The loop of covered_suffix, and what follows it.
LEMMA SuffixRun ==
    ASSUME NEW n \in Nat, NEW S, DOMAIN Reverse(Sorted(S)) = 1..n, NEW end
    PROVE  \E a :
             /\ IsRun(a, n, "suffix", [cursor |-> end, found |-> FALSE, returned |-> FALSE],
                      Reverse(Sorted(S)), end)
             /\ CoveredSuffix(end, S) = IF a[n].found THEN a[n].cursor + 1 ELSE 0
<1> DEFINE q == Reverse(Sorted(S))
           b == [cursor |-> end, found |-> FALSE, returned |-> FALSE]
           F == CHOOSE f : f = [s \in SUBSET (1..n) |->
                    IF s = {} THEN b ELSE SuffixStep(f[s \ {Max(s)}], q[Max(s)])]
           acc == FoldLeft(SuffixStep, b, q)
<1>1. acc = F[1..n]
  <2> HIDE DEF b, q
  <2>1. DOMAIN q = 1..n
    BY DEF q
  <2> QED BY <2>1 DEF FoldLeft, MapThenFoldSet
<1>2. CoveredSuffix(end, S) = IF acc.found THEN acc.cursor + 1 ELSE 0
  BY DEF CoveredSuffix
<1> HIDE DEF b, q, acc
<1>3. FoldOver(F, 1..n, "suffix", b, q, end)
  <2>1. \E f : FoldOver(f, 1..n, "suffix", b, q, end)
    BY FoldExists, Zenon
  <2>2. \E f : f = [s \in SUBSET (1..n) |->
                       IF s = {} THEN b ELSE SuffixStep(f[s \ {Max(s)}], q[Max(s)])]
    BY <2>1 DEF FoldOver, Step
  <2>3. F = [s \in SUBSET (1..n) |->
                       IF s = {} THEN b ELSE SuffixStep(F[s \ {Max(s)}], q[Max(s)])]
    BY <2>2, Zenon
  <2> HIDE DEF F
  <2> QED BY <2>3 DEF FoldOver, Step
<1> HIDE DEF F
<1>4. PICK a : IsRun(a, n, "suffix", b, q, end) /\ F[1..n] = a[n]
  BY <1>3, FoldRuns
<1>5. acc = a[n]
  BY <1>1, <1>4
<1> QED BY <1>2, <1>4, <1>5, Zenon DEF b, q

-----------------------------------------------------------------------------
(* gaps *)

\* The ranges m are the days before the cursor c that C lacks, each in one piece.
RangesUpTo(m, c, C, start, end) ==
    /\ m \in Seq(Int \X Int)
    /\ DaysOf(ToSet(m)) = {d \in start..end : d < c /\ d \notin C}
    /\ \A j \in 1..(Len(m) - 1) : m[j][2] + 1 < m[j + 1][1]
    /\ Len(m) > 0 => m[Len(m)][2] + 1 < c

\* Everything the loop of gaps keeps to, after k of the intervals q, of which
\* C are the days.
GapInv(a, k, q, C, start, end) ==
    /\ a.cursor \in Int /\ a.returned \in BOOLEAN
    /\ start <= a.cursor
    /\ a.returned => a.cursor > end
    /\ \A j \in 1..k : \A d \in q[j][1]..q[j][2] : d <= end => d < a.cursor
    /\ RangesUpTo(a.missing, a.cursor, C, start, end)

\* The range r from the cursor u is missing, and C has the rest up to c.
Uncovered(r, u, c, C, start, end) ==
    /\ r \in Int \X Int /\ r[1] = u /\ r[1] <= r[2] /\ r[2] <= end
    /\ c \in Int /\ r[2] < c - 1
    /\ \A d \in start..end : d < c /\ d > r[2] => d \in C
    /\ \A d \in r[1]..r[2] : d \notin C

LEMMA DaysAppended ==
    ASSUME NEW m \in Seq(Int \X Int), NEW r \in Int \X Int
    PROVE  DaysOf(ToSet(Append(m, r))) = DaysOf(ToSet(m)) \cup (r[1]..r[2])
<1> DEFINE p == Append(m, r)
<1>1. /\ DOMAIN m = 1..Len(m) /\ DOMAIN p = 1..(Len(m) + 1) /\ Len(m) \in Nat
      /\ p[Len(m) + 1] = r
      /\ \A j \in 1..Len(m) : p[j] = m[j]
  OBVIOUS
<1>2. ToSet(p) = ToSet(m) \cup {r}
  <2> HIDE DEF p
  <2>1. \A j \in 1..(Len(m) + 1) : j \in 1..Len(m) \/ j = Len(m) + 1
    BY <1>1
  <2>2. \A j \in 1..Len(m) : j \in 1..(Len(m) + 1)
    BY <1>1
  <2>3. Len(m) + 1 \in 1..(Len(m) + 1)
    BY <1>1
  <2> QED BY <1>1, <2>1, <2>2, <2>3 DEF ToSet
<1> QED BY <1>2 DEF DaysOf

\* A range is added before its interval; nothing else in it is covered.
LEMMA GapAdded ==
    ASSUME NEW x, NEW cursor \in Int, NEW C, NEW start \in Int, NEW end \in Int,
           start <= cursor, RangesUpTo(x, cursor, C, start, end),
           NEW r, NEW c, Uncovered(r, cursor, c, C, start, end)
    PROVE  RangesUpTo(Append(x, r), c, C, start, end)
<1> DEFINE n == Len(x)
           m == Append(x, r)
<1>1. /\ x \in Seq(Int \X Int) /\ n \in Nat
      /\ DaysOf(ToSet(x)) = {d \in start..end : d < cursor /\ d \notin C}
      /\ \A j \in 1..(n - 1) : x[j][2] + 1 < x[j + 1][1]
      /\ n > 0 => x[n][2] + 1 < cursor
      /\ r \in Int \X Int /\ r[1] = cursor /\ r[1] <= r[2] /\ r[2] <= end
      /\ c \in Int /\ r[2] < c - 1
      /\ \A d \in start..end : d < c /\ d > r[2] => d \in C
      /\ \A d \in r[1]..r[2] : d \notin C
  BY DEF RangesUpTo, Uncovered
<1>2. r[1] \in Int /\ r[2] \in Int
  BY <1>1
<1>3. DaysOf(ToSet(m)) = {d \in start..end : d < c /\ d \notin C}
  <2>1. DaysOf(ToSet(m)) = DaysOf(ToSet(x)) \cup (r[1]..r[2])
    BY <1>1, DaysAppended
  <2>2. \A d \in start..end : (d < c /\ d \notin C)
                   <=> (d < cursor /\ d \notin C) \/ d \in r[1]..r[2]
    <3> SUFFICES ASSUME NEW d \in start..end
                 PROVE (d < c /\ d \notin C)
                           <=> (d < cursor /\ d \notin C) \/ d \in r[1]..r[2]
      BY Zenon
    <3>1. d \in Int
      OBVIOUS
    <3>2. CASE d < cursor
      BY <1>1, <1>2, <3>1, <3>2
    <3>3. CASE d \in r[1]..r[2]
      BY <1>1, <1>2, <3>1, <3>3
    <3>4. CASE d > r[2]
      BY <1>1, <1>2, <3>1, <3>4
    <3> QED BY <1>1, <1>2, <3>1, <3>2, <3>3, <3>4
  <2>3. r[1]..r[2] \subseteq start..end
    BY <1>1, <1>2
  <2> QED BY <1>1, <2>1, <2>2, <2>3
<1>4. /\ m \in Seq(Int \X Int) /\ Len(m) = n + 1 /\ m[n + 1] = r
      /\ \A j \in 1..n : m[j] = x[j]
  BY <1>1
<1>5. ASSUME NEW j \in 1..(Len(m) - 1) PROVE m[j][2] + 1 < m[j + 1][1]
  <2>1. j \in 1..n /\ j \in Int /\ n \in Int
    BY <1>1, <1>4
  <2>2. CASE j = n
    BY <1>1, <1>4, <2>1, <2>2
  <2>3. CASE j # n
    <3>1. j \in 1..(n - 1) /\ j + 1 \in 1..n
      <4> HIDE DEF n
      <4> QED BY <2>1, <2>3
    <3>2. m[j] = x[j] /\ m[j + 1] = x[j + 1]
      BY <1>4, <2>1, <3>1
    <3> QED BY <1>1, <3>1, <3>2
  <2> QED BY <2>2, <2>3
<1>6. m[Len(m)][2] + 1 < c
  BY <1>1, <1>2, <1>4
<1> HIDE DEF m
<1> QED BY <1>3, <1>4, <1>5, <1>6 DEF RangesUpTo, m

LEMMA GapStepKeeps ==
    ASSUME NEW n \in Nat, NEW q \in [1..n -> Int \X Int], NEW start \in Int, NEW end \in Int,
           \A i \in 1..n : q[i][1] <= q[i][2],
           \A i, j \in 1..n : i < j => Before(q[i], q[j]),
           NEW k \in 1..n, NEW a, GapInv(a, k - 1, q, DaysOf(ToSet(q)), start, end)
    PROVE  GapInv(GapStep(a, q[k], end), k, q, DaysOf(ToSet(q)), start, end)
<1> DEFINE C == DaysOf(ToSet(q))
           lo == q[k][1]
           hi == q[k][2]
           b == GapStep(a, q[k], end)
<1>1. /\ a.cursor \in Int /\ a.returned \in BOOLEAN /\ start <= a.cursor
      /\ a.returned => a.cursor > end
      /\ \A j \in 1..(k - 1) : \A d \in q[j][1]..q[j][2] : d <= end => d < a.cursor
      /\ RangesUpTo(a.missing, a.cursor, C, start, end)
  BY DEF GapInv
<1>2. lo \in Int /\ hi \in Int /\ lo <= hi /\ k \in Int
  OBVIOUS
<1>3. C = UNION {q[j][1]..q[j][2] : j \in 1..n}
  BY DEF DaysOf, ToSet
<1>4. \A d : d \in C <=> \E j \in 1..n : d \in q[j][1]..q[j][2]
  BY <1>3
<1>5. \A j \in 1..n : q[j][1] \in Int /\ q[j][2] \in Int /\ (j > k => lo <= q[j][1])
  <2> TAKE j \in 1..n
  <2>1. q[j][1] \in Int /\ q[j][2] \in Int
    OBVIOUS
  <2>2. j > k => Before(q[k], q[j])
    BY <1>2
  <2> QED BY <1>2, <2>1, <2>2 DEF Before
<1> HIDE DEF C
<1>6. CASE a.returned \/ hi < a.cursor \/ lo > end
  <2>1. b = a
    BY <1>6 DEF GapStep
  <2>2. \A d \in lo..hi : d <= end => d < a.cursor
    BY <1>1, <1>2, <1>6
  <2>3. \A j \in 1..k : \A d \in q[j][1]..q[j][2] : d <= end => d < a.cursor
    <3>1. \A j \in 1..k : j = k \/ j \in 1..(k - 1)
      OBVIOUS
    <3> QED BY <1>1, <2>2, <3>1
  <2> QED BY <1>1, <2>1, <2>3 DEF GapInv, C
<1>7. CASE ~(a.returned \/ hi < a.cursor \/ lo > end)
  <2>1. /\ b.cursor = hi + 1
        /\ b.returned = (hi >= end)
        /\ b.missing = IF lo > a.cursor THEN Append(a.missing, <<a.cursor, lo - 1>>) ELSE a.missing
    BY <1>7 DEF GapStep
  <2>2. hi >= a.cursor /\ lo <= end
    BY <1>1, <1>2, <1>7
  <2>3. \A j \in 1..k : \A d \in q[j][1]..q[j][2] : d <= end => d < hi + 1
    <3>1. \A j \in 1..k : j = k \/ j \in 1..(k - 1)
      OBVIOUS
    <3> SUFFICES ASSUME NEW j \in 1..k, NEW d \in q[j][1]..q[j][2], d <= end PROVE d < hi + 1
      BY Zenon
    <3>2. CASE j = k
      BY <1>2, <3>2
    <3>3. CASE j \in 1..(k - 1)
      <4>1. d < a.cursor /\ d \in Int
        BY <1>1, <1>5, <3>3
      <4> QED BY <1>1, <1>2, <2>2, <4>1
    <3> QED BY <3>1, <3>2, <3>3
  <2>4. \A d \in lo..hi : d \in C
    BY <1>4
  <2>5. CASE lo > a.cursor
    <3> DEFINE r == <<a.cursor, lo - 1>>
    <3>1. \A d \in a.cursor..(lo - 1) : d \notin C
      <4> SUFFICES ASSUME NEW d \in a.cursor..(lo - 1), d \in C PROVE FALSE
        BY Zenon
      <4>1. PICK j \in 1..n : d \in q[j][1]..q[j][2]
        BY <1>4
      <4>2. CASE j < k
        <5>1. j \in 1..(k - 1) /\ d <= end
          BY <1>1, <1>2, <2>2, <4>2
        <5> QED BY <1>1, <4>1, <5>1
      <4>3. CASE j = k
        BY <1>1, <1>2, <4>1, <4>3
      <4>4. CASE j > k
        BY <1>1, <1>2, <1>5, <4>1, <4>4
      <4> QED BY <1>2, <4>2, <4>3, <4>4
    <3>2. /\ r \in Int \X Int /\ r[1] = a.cursor /\ r[2] = lo - 1 /\ r[1] <= r[2] /\ r[2] <= end
          /\ hi + 1 \in Int /\ r[2] < (hi + 1) - 1
      BY <1>1, <1>2, <2>2, <2>5
    <3>3. \A d \in start..end : d < hi + 1 /\ d > lo - 1 => d \in C
      <4> SUFFICES ASSUME NEW d \in start..end, d < hi + 1, d > lo - 1 PROVE d \in lo..hi
        BY <2>4
      <4> HIDE DEF lo, hi
      <4> QED BY <1>2
    <3>5. b.missing = Append(a.missing, r)
      BY <2>1, <2>5
    <3> HIDE DEF r
    <3>6. RangesUpTo(b.missing, hi + 1, C, start, end)
      <4>1. \A d \in r[1]..r[2] : d \notin C
        BY <3>1, <3>2
      <4>2. \A d \in start..end : d < hi + 1 /\ d > r[2] => d \in C
        BY <3>2, <3>3
      <4>3. Uncovered(r, a.cursor, hi + 1, C, start, end)
        BY <3>2, <4>1, <4>2 DEF Uncovered
      <4> HIDE DEF b, lo, hi
      <4> QED BY <1>1, <3>5, <4>3, GapAdded
    <3>7. b.cursor \in Int /\ b.returned \in BOOLEAN /\ start <= b.cursor
          /\ (b.returned => b.cursor > end)
      <4> HIDE DEF b, lo, hi
      <4> QED BY <1>1, <1>2, <2>1, <2>2
    <3> HIDE DEF b
    <3> QED BY <2>1, <2>3, <3>6, <3>7 DEF GapInv, C, b
  <2>6. CASE ~(lo > a.cursor)
    <3>1. b.missing = a.missing
      BY <2>1, <2>6
    <3>2. \A d \in start..end : (d < hi + 1 /\ d \notin C) <=> (d < a.cursor /\ d \notin C)
      <4> TAKE d \in start..end
      <4>1. CASE d < a.cursor
        BY <1>1, <1>2, <2>2, <4>1
      <4>2. CASE ~(d < a.cursor) /\ d < hi + 1
        <5>1. d \in lo..hi
          BY <1>1, <1>2, <2>6, <4>2
        <5> QED BY <2>4, <4>2, <5>1
      <4> QED BY <1>1, <1>2, <4>1, <4>2
    <3>3. RangesUpTo(b.missing, hi + 1, C, start, end)
      <4> DEFINE m == a.missing
      <4>1. /\ m \in Seq(Int \X Int)
            /\ DaysOf(ToSet(m)) = {d \in start..end : d < a.cursor /\ d \notin C}
            /\ \A j \in 1..(Len(m) - 1) : m[j][2] + 1 < m[j + 1][1]
            /\ Len(m) > 0 => m[Len(m)][2] + 1 < a.cursor
        BY <1>1 DEF RangesUpTo
      <4> HIDE DEF m, lo, hi, b
      <4>2. DaysOf(ToSet(m)) = {d \in start..end : d < hi + 1 /\ d \notin C}
        BY <3>2, <4>1
      <4>3. Len(m) > 0 => m[Len(m)][2] + 1 < hi + 1
        <5> SUFFICES ASSUME Len(m) > 0 PROVE m[Len(m)][2] + 1 < hi + 1
          OBVIOUS
        <5>1. m[Len(m)] \in Int \X Int
          BY <4>1
        <5>2. m[Len(m)][2] \in Int
          BY <5>1
        <5> QED BY <1>1, <1>2, <2>2, <4>1, <5>2
      <4>4. RangesUpTo(m, hi + 1, C, start, end)
        BY <4>1, <4>2, <4>3 DEF RangesUpTo
      <4> QED BY <3>1, <4>4 DEF m
    <3>4. b.cursor \in Int /\ b.returned \in BOOLEAN /\ start <= b.cursor
          /\ (b.returned => b.cursor > end)
      <4> HIDE DEF b, lo, hi
      <4> QED BY <1>1, <1>2, <2>1, <2>2
    <3> HIDE DEF b
    <3> QED BY <1>1, <2>1, <2>3, <3>1, <3>3, <3>4 DEF GapInv, C, b
  <2> QED BY <2>5, <2>6
<1> QED BY <1>6, <1>7

LEMMA GapsLoop ==
    ASSUME NEW n \in Nat, NEW q \in [1..n -> Int \X Int], NEW start \in Int, NEW end \in Int,
           \A i \in 1..n : q[i][1] <= q[i][2],
           \A i, j \in 1..n : i < j => Before(q[i], q[j]),
           NEW a,
           IsRun(a, n, "gaps", GapsFrom(start), q, end)
    PROVE  GapInv(a[n], n, q, DaysOf(ToSet(q)), start, end)
<1> DEFINE C == DaysOf(ToSet(q))
           Bad == {k \in 0..n : ~GapInv(a[k], k, q, C, start, end)}
<1>1. GapInv(a[0], 0, q, C, start, end)
  <2> DEFINE b == GapsFrom(start)
  <2>1. b.cursor = start /\ b.missing = <<>> /\ b.returned = FALSE
    BY DEF GapsFrom
  <2>2. DaysOf(ToSet(<<>>)) = {}
    BY DEF DaysOf, ToSet
  <2> HIDE DEF C
  <2>3. {d \in start..end : d < start /\ d \notin C} = {}
    OBVIOUS
  <2>4. RangesUpTo(<<>>, start, C, start, end)
    <3>1. <<>> \in Seq(Int \X Int) /\ Len(<<>>) = 0
      OBVIOUS
    <3>2. \A j \in 1..(0 - 1) : <<>>[j][2] + 1 < <<>>[j + 1][1]
      OBVIOUS
    <3> QED BY <2>2, <2>3, <3>1, <3>2 DEF RangesUpTo
  <2>5. a[0] = b
    BY DEF IsRun
  <2>6. \A j \in 1..0 : \A d \in q[j][1]..q[j][2] : d <= end => d < b.cursor
    OBVIOUS
  <2> HIDE DEF b
  <2>7. /\ b.cursor \in Int /\ b.returned \in BOOLEAN /\ start <= b.cursor
        /\ b.returned => b.cursor > end
    <3>1. ~b.returned /\ b.returned \in BOOLEAN
      BY <2>1, Zenon
    <3> QED BY <2>1, <3>1
  <2>8. GapInv(b, 0, q, C, start, end)
    BY <2>1, <2>4, <2>6, <2>7 DEF GapInv
  <2> QED BY <2>5, <2>8
<1> HIDE DEF C
<1>2. Bad = {}
  <2> SUFFICES ASSUME Bad # {} PROVE FALSE
    OBVIOUS
  <2>1. Bad \subseteq 0..n
    OBVIOUS
  <2>2. PICK k \in Bad : \A j \in Bad : k <= j
    <3> HIDE DEF Bad
    <3> QED BY <2>1, LeastNumber
  <2>3. k \in 0..n /\ ~GapInv(a[k], k, q, C, start, end)
    BY <2>2
  <2>4. k # 0
    BY <1>1, <2>3
  <2>5. k \in 1..n /\ k - 1 \in 0..n /\ ~(k <= k - 1)
    BY <2>3, <2>4
  <2>6. GapInv(a[k - 1], k - 1, q, C, start, end)
    BY <2>2, <2>5
  <2>7. a[k] = GapStep(a[k - 1], q[k], end)
    BY <2>5 DEF IsRun, Step
  <2>8. GapInv(GapStep(a[k - 1], q[k], end), k, q, C, start, end)
    BY <2>5, <2>6, GapStepKeeps DEF C
  <2> QED BY <2>3, <2>7, <2>8
<1>3. n \in 0..n
  OBVIOUS
<1> QED BY <1>2, <1>3 DEF C

\* gaps returns the days of its window that no interval covers.
LEMMA GapsAre ==
    ASSUME NEW S, IsFiniteSet(S), S \subseteq Int \X Int, \A i \in S : i[1] <= i[2],
           NEW start \in Int, NEW end \in Int, start <= end
    PROVE  LET missing == Gaps(start, end, S) IN
           /\ DaysOf(ToSet(missing)) = (start..end) \ DaysOf(S)
           /\ \A j \in 1..(Len(missing) - 1) : missing[j][2] + 1 < missing[j + 1][1]
<1> DEFINE n == Cardinality(S)
           q == Sorted(S)
           C == DaysOf(S)
           missing == Gaps(start, end, S)
<1>1. n \in Nat /\ q \in [1..n -> S] /\ ToSet(q) = S
      /\ \A i, j \in 1..n : i < j => Before(q[i], q[j])
  BY SortedIs DEF InOrder
<1>2. PICK a : IsRun(a, n, "gaps", GapsFrom(start), q, end) /\ missing = GapsEnd(a[n], end)
  <2>1. DOMAIN q = 1..n
    BY <1>1
  <2> HIDE DEF n
  <2>2. \E a : /\ IsRun(a, n, "gaps", GapsFrom(start), Sorted(S), end)
               /\ Gaps(start, end, S) = GapsEnd(a[n], end)
    BY <1>1, <2>1, GapsRun
  <2> QED BY <2>2
<1> DEFINE acc == a[n]
           last == <<acc.cursor, end>>
<1>3. GapInv(acc, n, q, C, start, end)
  <2> HIDE DEF n, q
  <2>1. q \in [1..n -> Int \X Int] /\ \A i \in 1..n : q[i][1] <= q[i][2]
    BY <1>1
  <2>2. GapInv(a[n], n, q, DaysOf(ToSet(q)), start, end)
    BY <1>1, <1>2, <2>1, GapsLoop
  <2> QED BY <1>1, <2>2
<1> HIDE DEF acc, n, q, missing
<1>4. acc.cursor \in Int /\ acc.returned \in BOOLEAN /\ start <= acc.cursor
      /\ (acc.returned => acc.cursor > end)
      /\ RangesUpTo(acc.missing, acc.cursor, C, start, end)
      /\ \A j \in 1..n : \A d \in q[j][1]..q[j][2] : d <= end => d < acc.cursor
  BY <1>3 DEF GapInv
<1>5. \E c \in Int : c > end /\ RangesUpTo(missing, c, C, start, end)
  <2>1. CASE ~acc.returned /\ acc.cursor <= end
    <3>1. \A d \in acc.cursor..end : d \notin C
      <4> SUFFICES ASSUME NEW d \in acc.cursor..end, d \in C PROVE FALSE
        BY Zenon
      <4>1. PICK i \in S : d \in i[1]..i[2]
        BY DEF DaysOf
      <4>2. PICK j \in 1..n : q[j] = i
        BY <1>1 DEF ToSet
      <4>3. d < acc.cursor
        BY <1>4, <4>1, <4>2
      <4> QED BY <1>4, <4>3
    <3>2. last \in Int \X Int /\ last[1] = acc.cursor /\ last[2] = end
      BY <1>4
    <3> HIDE DEF last, C
    <3>3. Uncovered(last, acc.cursor, end + 2, C, start, end)
      BY <2>1, <3>1, <3>2 DEF Uncovered
    <3>4. RangesUpTo(Append(acc.missing, last), end + 2, C, start, end)
      BY <1>4, <3>3, GapAdded
    <3>5. end + 2 \in Int /\ end + 2 > end
      OBVIOUS
    <3> QED BY <1>2, <2>1, <3>4, <3>5 DEF acc, last, GapsEnd
  <2>2. CASE ~(~acc.returned /\ acc.cursor <= end)
    <3>1. acc.cursor > end /\ missing = acc.missing
      BY <1>2, <1>4, <2>2 DEF acc, GapsEnd
    <3> QED BY <1>4, <3>1
  <2> QED BY <2>1, <2>2
<1>6. PICK c \in Int : c > end /\ RangesUpTo(missing, c, C, start, end)
  BY <1>5
<1>7. DaysOf(ToSet(missing)) = (start..end) \ C
  <2> HIDE DEF C
  <2>1. {d \in start..end : d < c /\ d \notin C} = (start..end) \ C
    BY <1>6
  <2> QED BY <1>6, <2>1 DEF RangesUpTo
<1>8. \A j \in 1..(Len(missing) - 1) : missing[j][2] + 1 < missing[j + 1][1]
  BY <1>6 DEF RangesUpTo
<1> QED BY <1>7, <1>8 DEF missing

-----------------------------------------------------------------------------
(* covered_suffix *)

\* Everything its loop keeps to, after k of the intervals r, latest first.
SuffixInv(a, k, r, C, end) ==
    /\ a.cursor \in Nat /\ a.found \in BOOLEAN /\ a.returned \in BOOLEAN
    /\ IF a.found THEN a.cursor < end ELSE a.cursor = end
    /\ (a.cursor + 1)..end \subseteq C
    /\ a.returned => a.cursor = 0
    /\ \A j \in 1..k : a.cursor \notin r[j][1]..r[j][2]

LEMMA SuffixStepKeeps ==
    ASSUME NEW n \in Nat, NEW r \in [1..n -> Int \X Int], NEW end \in Nat,
           \A i \in 1..n : 1 <= r[i][1] /\ r[i][1] <= r[i][2],
           \A i, j \in 1..n : i < j => Before(r[j], r[i]),
           NEW k \in 1..n, NEW a, SuffixInv(a, k - 1, r, DaysOf(ToSet(r)), end)
    PROVE  SuffixInv(SuffixStep(a, r[k]), k, r, DaysOf(ToSet(r)), end)
<1> DEFINE C == DaysOf(ToSet(r))
           lo == r[k][1]
           hi == r[k][2]
           b == SuffixStep(a, r[k])
<1>1. /\ a.cursor \in Nat /\ a.found \in BOOLEAN /\ a.returned \in BOOLEAN
      /\ (IF a.found THEN a.cursor < end ELSE a.cursor = end)
      /\ (a.cursor + 1)..end \subseteq C
      /\ a.returned => a.cursor = 0
      /\ \A j \in 1..(k - 1) : a.cursor \notin r[j][1]..r[j][2]
  BY DEF SuffixInv
<1>2. \A j \in 1..n : r[j][1] \in Int /\ r[j][2] \in Int /\ 1 <= r[j][1] /\ r[j][1] <= r[j][2]
  OBVIOUS
<1>3. lo \in Int /\ hi \in Int /\ 1 <= lo /\ lo <= hi /\ end \in Int
  BY <1>2
<1>4. \A j \in 1..(k - 1) : lo <= r[j][1]
  <2> TAKE j \in 1..(k - 1)
  <2>1. j \in 1..n /\ j < k
    OBVIOUS
  <2>2. Before(r[k], r[j])
    BY <2>1
  <2> QED BY <1>2, <1>3, <2>1, <2>2 DEF Before
<1>5. \A d \in lo..hi : d \in C
  BY DEF DaysOf, ToSet
<1>6. \A j \in 1..k : j = k \/ j \in 1..(k - 1)
  OBVIOUS
<1> HIDE DEF C
<1>7. CASE a.returned \/ lo > a.cursor \/ hi < a.cursor
  <2>1. b = a
    BY <1>7 DEF SuffixStep
  <2>2. a.cursor \notin lo..hi
    <3> HIDE DEF lo, hi
    <3> QED BY <1>1, <1>3, <1>7
  <2>3. \A j \in 1..k : a.cursor \notin r[j][1]..r[j][2]
    BY <1>1, <1>6, <2>2
  <2> HIDE DEF b
  <2> QED BY <1>1, <2>1, <2>3 DEF SuffixInv, C, b
<1>8. CASE ~(a.returned \/ lo > a.cursor \/ hi < a.cursor)
  <2>1. b.cursor = lo - 1 /\ b.found = TRUE /\ b.returned = (lo = 1)
    BY <1>8 DEF SuffixStep
  <2> HIDE DEF b, lo, hi
  <2>2. lo <= a.cursor /\ a.cursor <= hi /\ a.cursor <= end
    BY <1>1, <1>3, <1>8
  <2>3. b.cursor \in Nat /\ b.found \in BOOLEAN /\ b.returned \in BOOLEAN
        /\ b.cursor < end /\ (b.returned => b.cursor = 0)
    <3>1. lo - 1 \in Nat /\ lo - 1 < end /\ (lo = 1 => lo - 1 = 0) /\ (lo = 1) \in BOOLEAN
      BY <1>1, <1>3, <2>2
    <3>2. b.cursor \in Nat /\ b.cursor < end
      BY <2>1, <3>1
    <3>3. b.found \in BOOLEAN /\ b.returned \in BOOLEAN
      BY <2>1, Zenon
    <3>4. CASE lo = 1
      BY <2>1, <3>1, <3>2, <3>3, <3>4
    <3>5. CASE lo # 1
      <4>1. ~b.returned
        BY <2>1, <3>5
      <4> QED BY <3>2, <3>3, <4>1
    <3> QED BY <3>4, <3>5
  <2>4. (b.cursor + 1)..end \subseteq C
    <3> SUFFICES ASSUME NEW d \in lo..end PROVE d \in C
      BY <1>3, <2>1
    <3>1. d \in lo..hi \/ d \in (a.cursor + 1)..end
      BY <1>1, <1>3, <2>2
    <3> QED BY <1>1, <1>5, <3>1
  <2>5. \A j \in 1..k : b.cursor \notin r[j][1]..r[j][2]
    <3> SUFFICES ASSUME NEW j \in 1..k PROVE b.cursor \notin r[j][1]..r[j][2]
      BY Zenon
    <3>1. lo <= r[j][1] /\ r[j][1] \in Int /\ r[j][2] \in Int
      <4>1. CASE j = k
        BY <1>3, <4>1 DEF lo, hi
      <4>2. CASE j \in 1..(k - 1)
        <5>1. j \in 1..n
          BY <4>2
        <5> QED BY <1>2, <1>4, <4>2, <5>1
      <4> QED BY <1>6, <4>1, <4>2
    <3> QED BY <1>3, <2>1, <3>1
  <2> QED BY <2>1, <2>3, <2>4, <2>5 DEF SuffixInv, C, b
<1> QED BY <1>7, <1>8

LEMMA SuffixLoop ==
    ASSUME NEW n \in Nat, NEW r \in [1..n -> Int \X Int], NEW end \in Nat,
           \A i \in 1..n : 1 <= r[i][1] /\ r[i][1] <= r[i][2],
           \A i, j \in 1..n : i < j => Before(r[j], r[i]),
           NEW a,
           IsRun(a, n, "suffix", [cursor |-> end, found |-> FALSE, returned |-> FALSE], r, end)
    PROVE  SuffixInv(a[n], n, r, DaysOf(ToSet(r)), end)
<1> DEFINE C == DaysOf(ToSet(r))
           Bad == {k \in 0..n : ~SuffixInv(a[k], k, r, C, end)}
<1>1. SuffixInv(a[0], 0, r, C, end)
  <2> DEFINE b == [cursor |-> end, found |-> FALSE, returned |-> FALSE]
  <2>1. b.cursor = end /\ b.found = FALSE /\ b.returned = FALSE
    OBVIOUS
  <2>2. a[0] = b
    BY DEF IsRun
  <2> HIDE DEF b, C
  <2>3. ~b.found /\ ~b.returned /\ b.found \in BOOLEAN /\ b.returned \in BOOLEAN
    BY <2>1, Zenon
  <2>4. (b.cursor + 1)..end = {} /\ 1..0 = {}
    BY <2>1
  <2>5. SuffixInv(b, 0, r, C, end)
    BY <2>1, <2>3, <2>4 DEF SuffixInv
  <2> QED BY <2>2, <2>5
<1> HIDE DEF C
<1>2. Bad = {}
  <2> SUFFICES ASSUME Bad # {} PROVE FALSE
    OBVIOUS
  <2>1. Bad \subseteq 0..n
    OBVIOUS
  <2>2. PICK k \in Bad : \A j \in Bad : k <= j
    <3> HIDE DEF Bad
    <3> QED BY <2>1, LeastNumber
  <2>3. k \in 0..n /\ ~SuffixInv(a[k], k, r, C, end)
    BY <2>2
  <2>4. k # 0
    BY <1>1, <2>3
  <2>5. k \in 1..n /\ k - 1 \in 0..n /\ ~(k <= k - 1)
    BY <2>3, <2>4
  <2>6. SuffixInv(a[k - 1], k - 1, r, C, end)
    BY <2>2, <2>5
  <2>7. a[k] = SuffixStep(a[k - 1], r[k])
    BY <2>5 DEF IsRun, Step
  <2>8. SuffixInv(SuffixStep(a[k - 1], r[k]), k, r, C, end)
    BY <2>5, <2>6, SuffixStepKeeps DEF C
  <2> QED BY <2>3, <2>7, <2>8
<1>3. n \in 0..n
  OBVIOUS
<1> QED BY <1>2, <1>3 DEF C

\* The intervals latest first.
LEMMA LatestFirst ==
    ASSUME NEW S, IsFiniteSet(S), S \subseteq Int \X Int,
           NEW n, n = Cardinality(S), NEW r, r = Reverse(Sorted(S))
    PROVE  /\ n \in Nat /\ r \in [1..n -> S] /\ ToSet(r) = S
           /\ \A i, j \in 1..n : i < j => Before(r[j], r[i])
<1> DEFINE q == Sorted(S)
<1>1. n \in Nat /\ q \in [1..n -> S] /\ ToSet(q) = S
      /\ \A i, j \in 1..n : i < j => Before(q[i], q[j])
  BY SortedIs DEF InOrder
<1>2. r = [i \in 1..Len(q) |-> q[(Len(q) - i) + 1]]
  BY DEF Reverse
<1> HIDE DEF q
<1>3. Len(q) = n
  BY <1>1
<1>4. \A i \in 1..n : r[i] = q[(n - i) + 1] /\ (n - i) + 1 \in 1..n
  BY <1>1, <1>2, <1>3
<1>5. r \in [1..n -> S]
  BY <1>1, <1>2, <1>3, <1>4
<1>6. ToSet(r) = S
  <2>1. \A i \in 1..n : (n - i) + 1 \in 1..n /\ (n - ((n - i) + 1)) + 1 = i
    BY <1>1
  <2>2. \A s \in S : \E i \in 1..n : q[i] = s
    BY <1>1 DEF ToSet
  <2>3. \A s \in S : \E i \in 1..n : r[i] = s
    <3> TAKE s \in S
    <3>1. PICK i \in 1..n : q[i] = s
      BY <2>2
    <3>2. r[(n - i) + 1] = q[i]
      BY <1>4, <2>1
    <3> QED BY <2>1, <3>1, <3>2
  <2>4. DOMAIN r = 1..n
    BY <1>5
  <2> QED BY <1>5, <2>3, <2>4 DEF ToSet
<1>7. ASSUME NEW i \in 1..n, NEW j \in 1..n, i < j PROVE Before(r[j], r[i])
  <2>1. (n - j) + 1 < (n - i) + 1
    BY <1>1, <1>7
  <2>2. Before(q[(n - j) + 1], q[(n - i) + 1])
    BY <1>1, <1>4, <2>1
  <2> QED BY <1>4, <2>2
<1> QED BY <1>1, <1>5, <1>6, <1>7

\* covered_suffix returns the first day from which everything is covered.
LEMMA SuffixIs ==
    ASSUME NEW S, IsFiniteSet(S), S \subseteq Int \X Int,
           \A i \in S : 1 <= i[1] /\ i[1] <= i[2], NEW end \in Nat
    PROVE  LET suffix == CoveredSuffix(end, S)
               covered == DaysOf(S)
           IN IF end \in covered
              THEN suffix..end \subseteq covered /\ suffix - 1 \notin covered /\ suffix # 0
              ELSE suffix = 0
<1> DEFINE n == Cardinality(S)
           r == Reverse(Sorted(S))
           C == DaysOf(S)
           suffix == CoveredSuffix(end, S)
<1>1. n \in Nat /\ r \in [1..n -> S] /\ ToSet(r) = S
      /\ \A i, j \in 1..n : i < j => Before(r[j], r[i])
  BY LatestFirst
<1>2. PICK a : /\ IsRun(a, n, "suffix",
                         [cursor |-> end, found |-> FALSE, returned |-> FALSE], r, end)
               /\ suffix = IF a[n].found THEN a[n].cursor + 1 ELSE 0
  <2>1. DOMAIN r = 1..n
    BY <1>1
  <2> HIDE DEF n
  <2>2. \E a : /\ IsRun(a, n, "suffix", [cursor |-> end, found |-> FALSE, returned |-> FALSE],
                        Reverse(Sorted(S)), end)
               /\ CoveredSuffix(end, S) = IF a[n].found THEN a[n].cursor + 1 ELSE 0
    BY <1>1, <2>1, SuffixRun, Zenon
  <2> QED BY <2>2
<1> DEFINE acc == a[n]
<1>3. SuffixInv(acc, n, r, C, end)
  <2> HIDE DEF n, r
  <2>1. r \in [1..n -> Int \X Int] /\ \A i \in 1..n : 1 <= r[i][1] /\ r[i][1] <= r[i][2]
    BY <1>1
  <2>2. SuffixInv(a[n], n, r, DaysOf(ToSet(r)), end)
    BY <1>1, <1>2, <2>1, SuffixLoop
  <2> QED BY <1>1, <2>2
<1>4. suffix = IF acc.found THEN acc.cursor + 1 ELSE 0
  BY <1>2
<1> HIDE DEF acc, n, r, suffix
<1>5. /\ acc.cursor \in Nat /\ acc.found \in BOOLEAN
      /\ (IF acc.found THEN acc.cursor < end ELSE acc.cursor = end)
      /\ (acc.cursor + 1)..end \subseteq C
  BY <1>3 DEF SuffixInv
<1>6. acc.cursor \notin C
  <2> SUFFICES ASSUME acc.cursor \in C PROVE FALSE
    OBVIOUS
  <2>1. PICK i \in S : acc.cursor \in i[1]..i[2]
    BY DEF DaysOf
  <2>2. PICK j \in 1..n : r[j] = i
    BY <1>1 DEF ToSet
  <2> QED BY <1>3, <2>1, <2>2 DEF SuffixInv
<1> HIDE DEF C
<1>7. CASE acc.found
  <2>1. suffix = acc.cursor + 1 /\ acc.cursor < end
    BY <1>4, <1>5, <1>7
  <2>2. end \in C /\ suffix..end \subseteq C /\ suffix - 1 = acc.cursor /\ suffix # 0
    BY <1>5, <2>1
  <2> QED BY <1>6, <2>2 DEF suffix, C
<1>8. CASE ~acc.found
  <2>1. suffix = 0 /\ end \notin C
    BY <1>4, <1>5, <1>6, <1>8
  <2> QED BY <2>1 DEF suffix, C
<1> QED BY <1>7, <1>8

-----------------------------------------------------------------------------

\* The invariant of the tables, in parts.
Ordered(tables) == \A i \in tables.coverage : i.lo <= i.hi

RowsOfProofs(tables) ==
    \A i \in tables.coverage : i.reusable =>
        \A d \in i.lo..i.hi, p \in Positions :
            tables.rows[i.basis][d][p] \in {0, i.generation}

WholeStates(tables) ==
    \A b \in Bases : tables.state[b] # 0 =>
        /\ \A d \in Days, p \in Positions : tables.rows[b][d][p] \in {0, tables.state[b]}
        /\ \E i \in tables.coverage :
              /\ i.basis = b /\ i.reusable /\ i.lo = 1 /\ i.hi = LastDay
              /\ i.generation = tables.state[b]

Sound(tables) ==
    /\ tables \in Tables
    /\ Ordered(tables)
    /\ Disjoint(tables)
    /\ RowsOfProofs(tables)
    /\ WholeStates(tables)

\* A write the services ask for, with a generation of its own.
GoodWrite(w) ==
    /\ w \in Writes /\ w.generation \in 1..MaxGeneration
    /\ w.start <= w.end
    /\ w.state => w.start = 1 /\ w.end = LastDay

IInv ==
    /\ financial \in BOOLEAN
    /\ write \in Writes \cup {NoWrite}
    /\ generation \in 0..MaxGeneration
    /\ Sound(stored) /\ Sound(work)

USE RepositoryAssumption
USE DEF Days, Positions, Promise!Days, Promise!Positions

-----------------------------------------------------------------------------
\* t is what a write leaves of i: all of it, or the part on one side.
LeftOf(t, i, w) ==
    /\ t.basis = i.basis /\ t.reusable = i.reusable /\ t.generation = i.generation
    /\ t \in Intervals /\ i \in Intervals
    /\ t.lo >= i.lo /\ t.hi <= i.hi
    /\ \/ t = i /\ ~Overlaps(i, w)
       \/ Overlaps(i, w) /\ t.lo <= t.hi /\ t.lo = i.lo /\ t.hi = w.start - 1
       \/ Overlaps(i, w) /\ t.lo <= t.hi /\ t.hi = i.hi /\ t.lo = w.end + 1

LEMMA GoodWriteType ==
    ASSUME NEW w, GoodWrite(w)
    PROVE  /\ w.basis \in Bases /\ w.start \in Days /\ w.end \in Days
           /\ w.reusable \in BOOLEAN /\ w.state \in BOOLEAN
           /\ w.invalidate_financial \in BOOLEAN
           /\ w.rows \in [Days -> 0..MaxRows] /\ w.generation \in 1..MaxGeneration
           /\ w.start <= w.end
           /\ w.state => w.start = 1 /\ w.end = LastDay
  BY DEF GoodWrite, Writes, Promise!Writes

\* An interval of the coverage after a write is the write's own or what the
\* write leaves of an older one.
LEMMA Origin ==
    ASSUME NEW coverage, coverage \subseteq Intervals, NEW w, GoodWrite(w),
           NEW t \in CoverageAfter(coverage, w), t # Whole(w)
    PROVE  /\ ~w.invalidate_financial
           /\ \E i \in coverage : LeftOf(t, i, w)
<1>1. ~w.invalidate_financial
  BY DEF CoverageAfter
<1>2. CASE t \in {i \in coverage : ~Overlaps(i, w)}
  <2>1. t \in coverage /\ ~Overlaps(t, w) /\ t \in Intervals
    BY <1>2
  <2>2. LeftOf(t, t, w)
    BY <2>1 DEF LeftOf, Intervals
  <2> QED BY <1>1, <2>1, <2>2
<1>3. CASE t \in UNION {Tails(i, w) : i \in {j \in coverage : Overlaps(j, w)}}
  <2>1. PICK i \in coverage : Overlaps(i, w) /\ t \in Tails(i, w)
    BY <1>3
  <2>2. i \in Intervals
    OBVIOUS
  <2>3. t.lo <= t.hi /\ t \in {[i EXCEPT !.hi = w.start - 1], [i EXCEPT !.lo = w.end + 1]}
    BY <2>1 DEF Tails
  <2>4. /\ i.basis \in Bases /\ i.lo \in Days /\ i.hi \in Days /\ i.reusable \in BOOLEAN
        /\ i.generation \in 1..MaxGeneration /\ i.lo <= w.end /\ w.start <= i.hi
        /\ w.start \in Days /\ w.end \in Days
    BY <2>1, <2>2, GoodWriteType DEF Intervals, Overlaps
  <2>5. CASE t = [i EXCEPT !.hi = w.start - 1]
    <3>1. /\ t = [basis |-> i.basis, lo |-> i.lo, hi |-> w.start - 1,
                  reusable |-> i.reusable, generation |-> i.generation]
          /\ i.lo <= w.start - 1
      BY <2>2, <2>3, <2>5 DEF Intervals
    <3>2. w.start - 1 \in Days
      BY <2>4, <3>1
    <3>3. t \in Intervals
      BY <2>4, <3>1, <3>2 DEF Intervals
    <3>4. LeftOf(t, i, w)
      BY <2>1, <2>2, <2>4, <3>1, <3>3 DEF LeftOf
    <3> QED BY <1>1, <3>4
  <2>6. CASE t = [i EXCEPT !.lo = w.end + 1]
    <3>1. /\ t = [basis |-> i.basis, lo |-> w.end + 1, hi |-> i.hi,
                  reusable |-> i.reusable, generation |-> i.generation]
          /\ w.end + 1 <= i.hi
      BY <2>2, <2>3, <2>6 DEF Intervals
    <3>2. w.end + 1 \in Days
      BY <2>4, <3>1
    <3>3. t \in Intervals
      BY <2>4, <3>1, <3>2 DEF Intervals
    <3>4. LeftOf(t, i, w)
      BY <2>1, <2>2, <2>4, <3>1, <3>3 DEF LeftOf
    <3> QED BY <1>1, <3>4
  <2> QED BY <2>3, <2>5, <2>6
<1> QED BY <1>1, <1>2, <1>3 DEF CoverageAfter

\* Its days are days of the older interval, and none of the write's in the
\* write's partition.
LEMMA LeftDays ==
    ASSUME NEW t, NEW i, NEW w, GoodWrite(w), LeftOf(t, i, w)
    PROVE  /\ t.lo..t.hi \subseteq i.lo..i.hi
           /\ t.basis = w.basis => \A d \in t.lo..t.hi : d \notin w.start..w.end
  BY GoodWriteType DEF LeftOf, Intervals, Overlaps

LEMMA WholeType ==
    ASSUME NEW w, GoodWrite(w)
    PROVE  /\ Whole(w) \in Intervals
           /\ Whole(w).basis = w.basis /\ Whole(w).lo = w.start /\ Whole(w).hi = w.end
           /\ Whole(w).reusable = w.reusable /\ Whole(w).generation = w.generation
  BY GoodWriteType DEF Whole, Intervals

-----------------------------------------------------------------------------
\* A write keeps the tables well typed.
LEMMA WrittenType ==
    ASSUME NEW tables \in Tables, NEW w, GoodWrite(w)
    PROVE  Written(tables, w) \in Tables
<1>1. tables.coverage \subseteq Intervals
  BY DEF Tables
<1>2. CoverageAfter(tables.coverage, w) \in SUBSET Intervals
  <2> SUFFICES ASSUME NEW t \in CoverageAfter(tables.coverage, w) PROVE t \in Intervals
    OBVIOUS
  <2>1. CASE t = Whole(w)
    BY <2>1, WholeType
  <2>2. CASE t # Whole(w)
    <3>1. PICK i \in tables.coverage : LeftOf(t, i, w)
      BY <1>1, <2>2, Origin
    <3> QED BY <3>1 DEF LeftOf
  <2> QED BY <2>1, <2>2
<1>3. RowsAfter(tables.rows, w) \in [Bases -> [Days -> [Positions -> 0..MaxGeneration]]]
  <2>1. tables.rows \in [Bases -> [Days -> [Positions -> 0..MaxGeneration]]]
    BY DEF Tables
  <2>2. w.generation \in 0..MaxGeneration
    BY GoodWriteType
  <2> QED BY <2>1, <2>2 DEF RowsAfter
<1>4. StateAfter(tables.state, w) \in [Bases -> 0..MaxGeneration]
  BY GoodWriteType DEF StateAfter, Tables
<1> QED BY <1>2, <1>3, <1>4 DEF Written, Tables

\* A write keeps the intervals of a partition disjoint: it cuts its own days out
\* of the others, and the two ends of one interval are apart.
LEMMA WrittenDisjoint ==
    ASSUME NEW tables \in Tables, Ordered(tables), Disjoint(tables), NEW w, GoodWrite(w)
    PROVE  Ordered(Written(tables, w)) /\ Disjoint(Written(tables, w))
<1> DEFINE coverage == tables.coverage
           after == CoverageAfter(coverage, w)
<1>1. coverage \subseteq Intervals /\ Written(tables, w).coverage = after
  BY DEF Tables, Written
<1>2. \A t \in after : t \in Intervals /\ t.lo <= t.hi
  <2> SUFFICES ASSUME NEW t \in after PROVE t \in Intervals /\ t.lo <= t.hi
    OBVIOUS
  <2>1. CASE t = Whole(w)
    BY <2>1, WholeType, GoodWriteType
  <2>2. CASE t # Whole(w)
    <3>1. PICK i \in coverage : LeftOf(t, i, w)
      BY <1>1, <2>2, Origin
    <3> QED BY <3>1 DEF LeftOf, Ordered
  <2> QED BY <2>1, <2>2
<1>3. ASSUME NEW t \in after, NEW u \in after, t.basis = u.basis, t # u
      PROVE  t.hi < u.lo \/ u.hi < t.lo
  <2>1. t \in Intervals /\ u \in Intervals /\ t.lo <= t.hi /\ u.lo <= u.hi
    BY <1>2
  <2>2. ASSUME NEW x \in after, NEW y \in after, x.basis = y.basis, x # y, x = Whole(w)
        PROVE  x.hi < y.lo \/ y.hi < x.lo
    <3>1. PICK i \in coverage : LeftOf(y, i, w)
      BY <1>1, <2>2, Origin
    <3>2. x \in Intervals /\ y \in Intervals /\ x.lo <= x.hi /\ y.lo <= y.hi
      BY <1>2
    <3>3. x.lo = w.start /\ x.hi = w.end /\ y.basis = w.basis
      BY <2>2, WholeType
    <3>4. \A d \in y.lo..y.hi : d \notin x.lo..x.hi
      BY <3>1, <3>3, LeftDays
    <3>5. y.lo \notin x.lo..x.hi /\ x.lo \notin y.lo..y.hi
      BY <3>2, <3>4 DEF Intervals
    <3> QED BY <3>2, <3>5 DEF Intervals
  <2>3. CASE t = Whole(w) \/ u = Whole(w)
    BY <1>3, <2>2, <2>3
  <2>4. CASE t # Whole(w) /\ u # Whole(w)
    <3>1. PICK i \in coverage : LeftOf(t, i, w)
      BY <1>1, <2>4, Origin
    <3>2. PICK j \in coverage : LeftOf(u, j, w)
      BY <1>1, <2>4, Origin
    <3>3. CASE i # j
      <4>1. i.hi < j.lo \/ j.hi < i.lo
        BY <1>3, <3>1, <3>2, <3>3 DEF Disjoint, LeftOf
      <4> QED BY <3>1, <3>2, <4>1 DEF LeftOf, Intervals
    <3>4. CASE i = j
      <4>1. w.start \in Days /\ w.end \in Days /\ w.start <= w.end
        BY GoodWriteType
      <4>2. \/ t.lo = u.lo /\ t.hi = u.hi
            \/ t.hi = w.start - 1 /\ u.lo = w.end + 1
            \/ u.hi = w.start - 1 /\ t.lo = w.end + 1
        BY <3>1, <3>2, <3>4 DEF LeftOf
      <4>3. CASE t.lo = u.lo /\ t.hi = u.hi
        BY <1>3, <2>1, <3>1, <3>2, <3>4, <4>3 DEF Intervals, LeftOf
      <4> QED BY <2>1, <4>1, <4>2, <4>3 DEF Intervals
    <3> QED BY <3>3, <3>4
  <2> QED BY <2>3, <2>4
<1> QED BY <1>1, <1>2, <1>3 DEF Ordered, Disjoint

\* A write keeps the rows on proven days to those of the proving write: it
\* deletes what was on the days it proves, and elsewhere touches nothing that
\* stays proven.
LEMMA WrittenRows ==
    ASSUME NEW tables \in Tables, RowsOfProofs(tables), NEW w, GoodWrite(w)
    PROVE  RowsOfProofs(Written(tables, w))
<1> DEFINE after == CoverageAfter(tables.coverage, w)
           rows == RowsAfter(tables.rows, w)
<1>1. tables.coverage \subseteq Intervals
  BY DEF Tables
<1> SUFFICES ASSUME NEW t \in after, t.reusable, NEW d \in t.lo..t.hi, NEW p \in Positions
             PROVE  rows[t.basis][d][p] \in {0, t.generation}
  BY DEF RowsOfProofs, Written
<1>2. CASE t = Whole(w)
  <2>1. t.basis = w.basis /\ t.generation = w.generation /\ w.reusable /\ d \in w.start..w.end
    BY <1>2, WholeType
  <2>2. w.basis \in Bases /\ d \in Days
    BY <2>1, GoodWriteType
  <2> QED BY <2>1, <2>2 DEF RowsAfter
<1>3. CASE t # Whole(w)
  <2>1. PICK i \in tables.coverage : LeftOf(t, i, w)
    BY <1>1, <1>3, Origin
  <2>2. t.basis = w.basis => d \notin w.start..w.end
    BY <2>1, LeftDays
  <2>3. /\ t.basis = i.basis /\ t.generation = i.generation /\ i.reusable
        /\ d \in i.lo..i.hi /\ t.basis \in Bases /\ d \in Days
    BY <2>1, LeftDays DEF LeftOf, Intervals
  <2>4. rows[t.basis][d][p] = tables.rows[t.basis][d][p]
    BY <2>2, <2>3 DEF RowsAfter
  <2>5. tables.rows[i.basis][d][p] \in {0, i.generation}
    BY <2>3 DEF RowsOfProofs
  <2> QED BY <2>3, <2>4, <2>5
<1> QED BY <1>2, <1>3

\* A write keeps states whole: its own is that of a write of the whole range,
\* and another partition's stays only if nothing of that partition changes.
LEMMA WrittenStates ==
    ASSUME NEW tables \in Tables, WholeStates(tables), NEW w, GoodWrite(w)
    PROVE  WholeStates(Written(tables, w))
<1> DEFINE after == CoverageAfter(tables.coverage, w)
           rows == RowsAfter(tables.rows, w)
           state == StateAfter(tables.state, w)
<1> SUFFICES ASSUME NEW b \in Bases, state[b] # 0
             PROVE  /\ \A d \in Days, p \in Positions : rows[b][d][p] \in {0, state[b]}
                    /\ \E i \in after : /\ i.basis = b /\ i.reusable /\ i.lo = 1 /\ i.hi = LastDay
                                        /\ i.generation = state[b]
  BY DEF WholeStates, Written
<1>1. CASE b = w.basis
  <2>1. w.state /\ w.reusable /\ state[b] = w.generation /\ w.start = 1 /\ w.end = LastDay
    BY <1>1, GoodWriteType DEF StateAfter
  <2>2. \A d \in Days, p \in Positions : rows[b][d][p] \in {0, state[b]}
    BY <1>1, <2>1 DEF RowsAfter
  <2>3. Whole(w) \in after
    BY DEF CoverageAfter
  <2> QED BY <1>1, <2>1, <2>2, <2>3, WholeType
<1>2. CASE b # w.basis
  <2>1. ~w.invalidate_financial /\ state[b] = tables.state[b]
    BY <1>2 DEF StateAfter
  <2>2. PICK i \in tables.coverage : /\ i.basis = b /\ i.reusable /\ i.lo = 1 /\ i.hi = LastDay
                                     /\ i.generation = tables.state[b]
    BY <2>1 DEF WholeStates
  <2>3. i \in after
    BY <1>2, <2>1, <2>2 DEF CoverageAfter, Overlaps
  <2>4. \A d \in Days, p \in Positions : rows[b][d][p] = tables.rows[b][d][p]
    BY <1>2 DEF RowsAfter
  <2> QED BY <2>1, <2>2, <2>3, <2>4 DEF WholeStates
<1> QED BY <1>1, <1>2

LEMMA WrittenSound ==
    ASSUME NEW tables, Sound(tables), NEW w, GoodWrite(w)
    PROVE  Sound(Written(tables, w))
  BY WrittenType, WrittenDisjoint, WrittenRows, WrittenStates DEF Sound

-----------------------------------------------------------------------------
LEMMA RequestsAreGood ==
    ASSUME IInv, generation < MaxGeneration, NEW w \in Requests, Asked(w)
    PROVE  GoodWrite(w) /\ w.generation = generation + 1
<1>1. w.generation = generation + 1 /\ w.generation \in 1..MaxGeneration
  BY DEF IInv, Requests
<1>2. w \in Writes
  BY <1>1 DEF Writes, Promise!Writes, Requests
<1> QED BY <1>1, <1>2 DEF Asked, GoodWrite

LEMMA EmptySound == Sound(Empty)
  BY DEF Sound, Empty, Tables, Ordered, Disjoint, RowsOfProofs, WholeStates

LEMMA InitIInv == Init => IInv
  BY EmptySound DEF Init, IInv

LEMMA NextIInv == IInv /\ [Next]_vars => IInv'
<1> SUFFICES ASSUME IInv, [Next]_vars PROVE IInv'
  OBVIOUS
<1>1. CASE ApplyWrite
  <2>1. PICK w \in Requests : Asked(w) /\ work' = Written(work, w) /\ write' = w
    BY <1>1 DEF ApplyWrite
  <2>2. generation < MaxGeneration /\ generation' = generation + 1
        /\ UNCHANGED <<financial, stored>>
    BY <1>1 DEF ApplyWrite
  <2>3. GoodWrite(w)
    BY <2>1, <2>2, RequestsAreGood
  <2>4. Sound(work')
    BY <2>1, <2>3, WrittenSound DEF IInv
  <2> QED BY <2>1, <2>2, <2>3, <2>4 DEF IInv, GoodWrite
<1>2. CASE Commit
  BY <1>2 DEF Commit, IInv
<1>3. CASE Rollback
  BY <1>3 DEF Rollback, IInv
<1>4. CASE UNCHANGED vars
  BY <1>4 DEF vars, IInv
<1> QED BY <1>1, <1>2, <1>3, <1>4 DEF Next

LEMMA Invariance == Spec => []IInv
  BY InitIInv, NextIInv, PTL DEF Spec

\* The tables keep their types.
THEOREM TypeCorrect == Spec => []TypeOK
<1>1. IInv => TypeOK
  BY DEF IInv, TypeOK, Sound
<1> QED BY <1>1, Invariance, PTL

\* The coverage that readers see never proves a day of a partition twice.
THEOREM CoverageDisjoint == Spec => []Disjoint(stored)
<1>1. IInv => Disjoint(stored)
  BY DEF IInv, Sound
<1> QED BY <1>1, Invariance, PTL

\* Rows on proven days are those of the proving write.
THEOREM RowsAreProven == Spec => []ProvenRowsExact
<1>1. IInv => ProvenRowsExact
  BY DEF IInv, Sound, RowsOfProofs, ProvenRowsExact
<1> QED BY <1>1, Invariance, PTL

\* A partition with a state holds one write of the whole range.
THEOREM StatesAreWhole == Spec => []StateIsWhole
<1>1. IInv => StateIsWhole
  BY DEF IInv, Sound, WholeStates, StateIsWhole
<1> QED BY <1>1, Invariance, PTL

-----------------------------------------------------------------------------
\* The view of a day is that of any interval which proves it, as there is one
\* at most.
LEMMA ViewOfProven ==
    ASSUME NEW tables, Sound(tables), NEW b \in Bases, NEW d \in Days,
           NEW i \in ProofsOf(tables.coverage, b, d)
    PROVE  View(tables)[b][d] = [generation |-> i.generation,
                                 rows |-> {p \in Positions : tables.rows[b][d][p] # 0}]
<1> DEFINE proofs == ProofsOf(tables.coverage, b, d)
           chosen == CHOOSE j \in proofs : TRUE
<1>1. chosen \in proofs /\ proofs # {}
  OBVIOUS
<1>2. /\ i \in tables.coverage /\ chosen \in tables.coverage
      /\ i.basis = b /\ chosen.basis = b /\ d \in i.lo..i.hi /\ d \in chosen.lo..chosen.hi
  BY <1>1 DEF ProofsOf
<1>3. i \in Intervals /\ chosen \in Intervals
  BY <1>2 DEF Sound, Tables
<1>4. ~(i.hi < chosen.lo) /\ ~(chosen.hi < i.lo)
  BY <1>2, <1>3 DEF Intervals
<1>5. chosen = i
  BY <1>2, <1>4 DEF Sound, Disjoint
<1>6. View(tables)[b][d] = [generation |-> chosen.generation,
                            rows |-> {p \in Positions : tables.rows[b][d][p] # 0}]
  BY <1>1 DEF View
<1> QED BY <1>5, <1>6

LEMMA ViewOfUnproven ==
    ASSUME NEW tables, NEW b \in Bases, NEW d \in Days,
           ProofsOf(tables.coverage, b, d) = {}
    PROVE  View(tables)[b][d] = [generation |-> 0, rows |-> {}]
  BY DEF View

\* A day of the write is proven by it, or by nothing.
LEMMA ViewInside ==
    ASSUME NEW tables, Sound(tables), NEW w, GoodWrite(w), NEW d \in w.start..w.end
    PROVE  View(Written(tables, w))[w.basis][d] =
               IF w.reusable THEN [generation |-> w.generation, rows |-> 0..(w.rows[d] - 1)]
               ELSE [generation |-> 0, rows |-> {}]
<1> DEFINE after == CoverageAfter(tables.coverage, w)
           proofs == ProofsOf(after, w.basis, d)
<1>1. w.basis \in Bases /\ d \in Days /\ w.rows \in [Days -> 0..MaxRows]
      /\ w.generation \in 1..MaxGeneration /\ tables.coverage \subseteq Intervals
  BY GoodWriteType DEF Sound, Tables
<1>2. Written(tables, w).coverage = after /\ Written(tables, w).rows = RowsAfter(tables.rows, w)
  BY DEF Written
<1>3. CASE w.reusable
  <2>1. Whole(w) \in proofs
    BY <1>3, WholeType DEF CoverageAfter, ProofsOf
  <2>2. View(Written(tables, w))[w.basis][d] =
            [generation |-> w.generation,
             rows |-> {p \in Positions : RowsAfter(tables.rows, w)[w.basis][d][p] # 0}]
    BY <1>1, <1>2, <2>1, WrittenSound, ViewOfProven, WholeType
  <2>3. \A p \in Positions : RowsAfter(tables.rows, w)[w.basis][d][p] # 0 <=> p < w.rows[d]
    BY <1>1, <1>3 DEF RowsAfter
  <2>4. {p \in Positions : RowsAfter(tables.rows, w)[w.basis][d][p] # 0} = 0..(w.rows[d] - 1)
    BY <1>1, <2>3
  <2> QED BY <1>3, <2>2, <2>4
<1>4. CASE ~w.reusable
  <2>1. ASSUME NEW t \in proofs PROVE FALSE
    <3>1. t \in after /\ t.basis = w.basis /\ t.reusable /\ d \in t.lo..t.hi
      BY <2>1 DEF ProofsOf
    <3>2. t # Whole(w)
      BY <1>4, <3>1, WholeType
    <3>3. PICK i \in tables.coverage : LeftOf(t, i, w)
      BY <1>1, <3>1, <3>2, Origin
    <3> QED BY <3>1, <3>3, LeftDays
  <2>2. proofs = {}
    BY <2>1
  <2> QED BY <1>1, <1>2, <1>4, <2>2, ViewOfUnproven
<1> QED BY <1>3, <1>4

\* Any other day keeps its proof, unless the write withdraws all proofs.
LEMMA ViewOutside ==
    ASSUME NEW tables, Sound(tables), NEW w, GoodWrite(w), NEW b \in Bases, NEW d \in Days,
           ~(b = w.basis /\ d \in w.start..w.end)
    PROVE  View(Written(tables, w))[b][d] =
               IF w.invalidate_financial THEN [generation |-> 0, rows |-> {}]
               ELSE View(tables)[b][d]
<1> DEFINE before == tables.coverage
           after == CoverageAfter(before, w)
<1>1. before \subseteq Intervals /\ Written(tables, w).coverage = after
      /\ Written(tables, w).rows = RowsAfter(tables.rows, w)
  BY DEF Sound, Tables, Written
<1>2. ASSUME NEW t \in ProofsOf(after, b, d)
      PROVE  ~w.invalidate_financial /\ ProofsOf(before, b, d) # {}
  <2>1. t \in after /\ t.basis = b /\ t.reusable /\ d \in t.lo..t.hi
    BY <1>2 DEF ProofsOf
  <2>2. t # Whole(w)
    BY <2>1, WholeType
  <2>3. ~w.invalidate_financial
    BY <1>1, <2>1, <2>2, Origin
  <2>4. PICK i \in before : LeftOf(t, i, w)
    BY <1>1, <2>1, <2>2, Origin
  <2>5. i \in ProofsOf(before, b, d)
    BY <2>1, <2>4, LeftDays DEF LeftOf, ProofsOf
  <2> QED BY <2>3, <2>5
<1>3. CASE w.invalidate_financial
  <2>1. ProofsOf(after, b, d) = {}
    BY <1>2, <1>3
  <2> QED BY <1>1, <1>3, <2>1, ViewOfUnproven
<1>4. CASE ~w.invalidate_financial /\ ProofsOf(before, b, d) = {}
  <2>1. ProofsOf(after, b, d) = {}
    BY <1>2, <1>4
  <2> QED BY <1>1, <1>4, <2>1, ViewOfUnproven
<1>5. CASE ~w.invalidate_financial /\ ProofsOf(before, b, d) # {}
  <2>1. PICK i : i \in ProofsOf(before, b, d)
    BY <1>5
  <2>2. i \in before /\ i.basis = b /\ i.reusable /\ d \in i.lo..i.hi /\ i \in Intervals
    BY <1>1, <2>1 DEF ProofsOf
  <2>3. \E t \in ProofsOf(after, b, d) : t.generation = i.generation
    <3>1. CASE ~Overlaps(i, w)
      <4>1. i \in after
        BY <1>5, <2>2, <3>1 DEF CoverageAfter
      <4> QED BY <2>2, <4>1 DEF ProofsOf
    <3>2. CASE Overlaps(i, w)
      <4>1. /\ d < w.start \/ d > w.end
            /\ w.start \in Days /\ w.end \in Days
        BY <2>2, <3>2, GoodWriteType DEF Overlaps
      <4>2. Tails(i, w) \subseteq after
        BY <1>5, <2>2, <3>2 DEF CoverageAfter
      <4>3. CASE d < w.start
        <5> DEFINE t == [i EXCEPT !.hi = w.start - 1]
        <5>1. /\ t.basis = b /\ t.reusable /\ t.generation = i.generation
              /\ t.lo = i.lo /\ t.hi = w.start - 1
          BY <2>2 DEF Intervals
        <5>2. d \in t.lo..t.hi /\ t.lo <= t.hi
          BY <2>2, <4>1, <4>3, <5>1 DEF Intervals
        <5>3. t \in Tails(i, w)
          BY <5>2 DEF Tails
        <5> QED BY <4>2, <5>1, <5>2, <5>3 DEF ProofsOf
      <4>4. CASE d > w.end
        <5> DEFINE t == [i EXCEPT !.lo = w.end + 1]
        <5>1. /\ t.basis = b /\ t.reusable /\ t.generation = i.generation
              /\ t.hi = i.hi /\ t.lo = w.end + 1
          BY <2>2 DEF Intervals
        <5>2. d \in t.lo..t.hi /\ t.lo <= t.hi
          BY <2>2, <4>1, <4>4, <5>1 DEF Intervals
        <5>3. t \in Tails(i, w)
          BY <5>2 DEF Tails
        <5> QED BY <4>2, <5>1, <5>2, <5>3 DEF ProofsOf
      <4> QED BY <4>1, <4>3, <4>4
    <3> QED BY <3>1, <3>2
  <2>4. PICK t \in ProofsOf(after, b, d) : t.generation = i.generation
    BY <2>3
  <2>5. View(Written(tables, w))[b][d] =
            [generation |-> i.generation,
             rows |-> {p \in Positions : RowsAfter(tables.rows, w)[b][d][p] # 0}]
    BY <1>1, <2>4, WrittenSound, ViewOfProven
  <2>6. View(tables)[b][d] = [generation |-> i.generation,
                              rows |-> {p \in Positions : tables.rows[b][d][p] # 0}]
    BY <2>1, ViewOfProven
  <2>7. \A p \in Positions : RowsAfter(tables.rows, w)[b][d][p] = tables.rows[b][d][p]
    BY DEF RowsAfter
  <2> QED BY <1>5, <2>5, <2>6, <2>7
<1> QED BY <1>3, <1>4, <1>5

LEMMA ViewShape ==
    ASSUME NEW tables
    PROVE  View(tables) = [b \in Bases |-> [d \in Days |-> View(tables)[b][d]]]
  BY DEF View

LEMMA WriteKeepsPromise ==
    ASSUME Sound(work), NEW w, GoodWrite(w), work' = Written(work, w)
    PROVE  View(work)' = Promise!After(w)
<1>1. View(work)' = View(Written(work, w))
  BY DEF View, ProofsOf
<1>2. \A b \in Bases, d \in Days :
         View(Written(work, w))[b][d] =
             IF b = w.basis /\ d \in w.start..w.end
             THEN IF w.reusable THEN [generation |-> w.generation, rows |-> 0..(w.rows[d] - 1)]
                  ELSE [generation |-> 0, rows |-> {}]
             ELSE IF w.invalidate_financial THEN [generation |-> 0, rows |-> {}]
                  ELSE View(work)[b][d]
  BY ViewInside, ViewOutside
<1> DEFINE after == [b \in Bases |-> [d \in Days |-> View(Written(work, w))[b][d]]]
<1>3. View(Written(work, w)) = after
  BY ViewShape
<1>4. after = Promise!After(w)
  BY <1>2 DEF Promise!After, Promise!Unproven
<1> QED BY <1>1, <1>3, <1>4

\* The tables and their transactions keep the promise of ProvenDays, with the
\* proof of a day read off the intervals.
THEOREM Implements == Spec => ImplementsProvenDays
<1>1. Init => Promise!Init
  <2> SUFFICES ASSUME Init PROVE Promise!Init
    OBVIOUS
  <2>1. \A b \in Bases, d \in Days : ProofsOf(Empty.coverage, b, d) = {}
    BY DEF Empty, ProofsOf
  <2>2. View(Empty) = [b \in Bases |-> [d \in Days |-> [generation |-> 0, rows |-> {}]]]
    BY <2>1, ViewOfUnproven, ViewShape
  <2> QED BY <2>2 DEF Init, Promise!Init, Promise!Unproven, NoWrite
<1>2. IInv /\ [Next]_vars
      => [Promise!Next]_<<View(stored), View(work), write>>
  <2> SUFFICES ASSUME IInv, [Next]_vars
               PROVE  [Promise!Next]_<<View(stored), View(work), write>>
    OBVIOUS
  <2>1. CASE ApplyWrite
    <3>1. PICK w \in Requests : Asked(w) /\ work' = Written(work, w) /\ write' = w
      BY <2>1 DEF ApplyWrite
    <3>2. generation < MaxGeneration /\ stored' = stored
      BY <2>1 DEF ApplyWrite
    <3>3. GoodWrite(w)
      BY <3>1, <3>2, RequestsAreGood
    <3>4. View(work)' = Promise!After(w)
      BY <3>1, <3>3, WriteKeepsPromise DEF IInv
    <3>5. View(stored)' = View(stored)
      BY <3>2 DEF View, ProofsOf
    <3>6. write' \in Promise!Writes
      BY <3>1, <3>3 DEF GoodWrite, Writes
    <3> QED BY <3>1, <3>4, <3>5, <3>6 DEF Promise!Next, Promise!Apply
  <2>2. CASE Commit
    BY <2>2 DEF Commit, Promise!Next, Promise!Commit, View, ProofsOf, NoWrite
  <2>3. CASE Rollback
    BY <2>3 DEF Rollback, Promise!Next, Promise!Rollback, View, ProofsOf, NoWrite
  <2>4. CASE UNCHANGED vars
    BY <2>4 DEF vars, View, ProofsOf
  <2> QED BY <2>1, <2>2, <2>3, <2>4 DEF Next
<1> QED BY <1>1, <1>2, Invariance, PTL DEF Spec, ImplementsProvenDays, Promise!Spec

\* Of every window, what gaps returns for the accepted intervals is what they
\* lack, in as few ranges as there are, and what covered_suffix returns is the
\* first day from which they reach its end: the loops of coverage.py over any
\* number of intervals, of any length.
THEOREM WhatIsMissing == Spec => []MissingIsAskedFor
<1>1. ASSUME IInv PROVE MissingIsAskedFor
  <2> SUFFICES ASSUME NEW b \in Bases, NEW start \in Days, NEW end \in Days,
                      NEW accepted \in SUBSET (1..generation), start <= end
               PROVE  LET intervals == Reusable(stored, b, accepted)
                          covered == DaysOf(intervals)
                          missing == Gaps(start, end, intervals)
                          suffix == CoveredSuffix(end, intervals)
                      IN /\ DaysOf(ToSet(missing)) = (start..end) \ covered
                         /\ \A n \in 1..(Len(missing) - 1) : missing[n][2] + 1 < missing[n + 1][1]
                         /\ IF end \in covered
                            THEN suffix..end \subseteq covered /\ suffix - 1 \notin covered
                                 /\ suffix # 0
                            ELSE suffix = 0
    BY Zenon DEF MissingIsAskedFor
  <2> DEFINE S == Reusable(stored, b, accepted)
  <2>1. S \subseteq Days \X Days /\ \A i \in S : i[1] <= i[2]
    <3> SUFFICES ASSUME NEW i \in S PROVE i \in Days \X Days /\ i[1] <= i[2]
      BY Zenon
    <3>1. PICK j \in stored.coverage : i = <<j.lo, j.hi>>
      BY DEF Reusable
    <3>2. j \in Intervals /\ j.lo <= j.hi
      BY <1>1 DEF IInv, Sound, Ordered, Tables
    <3>3. j.lo \in Days /\ j.hi \in Days
      BY <3>2 DEF Intervals
    <3> QED BY <3>1, <3>2, <3>3
  <2>2. IsFiniteSet(S)
    <3>1. IsFiniteSet(Days)
      BY FS_Interval
    <3>2. IsFiniteSet(Days \X Days)
      BY <3>1, FS_Product
    <3> QED BY <2>1, <3>2, FS_Subset
  <2> HIDE DEF S
  <2>3. S \subseteq Int \X Int /\ \A i \in S : 1 <= i[1] /\ i[1] <= i[2]
    <3>1. \A i \in S : i[1] \in Days /\ i[2] \in Days /\ i \in Int \X Int
      BY <2>1
    <3> QED BY <2>1, <3>1
  <2>4. start \in Int /\ end \in Int /\ end \in Nat
    OBVIOUS
  <2>5. /\ DaysOf(ToSet(Gaps(start, end, S))) = (start..end) \ DaysOf(S)
        /\ \A n \in 1..(Len(Gaps(start, end, S)) - 1) :
              Gaps(start, end, S)[n][2] + 1 < Gaps(start, end, S)[n + 1][1]
    BY <2>2, <2>3, <2>4, GapsAre
  <2>6. IF end \in DaysOf(S)
        THEN CoveredSuffix(end, S)..end \subseteq DaysOf(S)
             /\ CoveredSuffix(end, S) - 1 \notin DaysOf(S) /\ CoveredSuffix(end, S) # 0
        ELSE CoveredSuffix(end, S) = 0
    BY <2>2, <2>3, <2>4, SuffixIs
  <2> QED BY <2>5, <2>6 DEF S
<1> QED BY <1>1, Invariance, PTL

=============================================================================
