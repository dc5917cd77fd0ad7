---------------------------- MODULE OrderLemmas ----------------------------
(***************************************************************************)
(* Lemmas about Orders and what they rest on: induction over the naturals  *)
(* and over finite sets, and folds.  The induction theorems of the library *)
(* take an operator as a parameter; these take sets instead, so that a     *)
(* proof can instantiate them.  The other proofs use them too.             *)
(***************************************************************************)
EXTENDS Orders, FiniteSetTheorems, WellFoundedInduction, TLAPS

-----------------------------------------------------------------------------
(***************************************************************************)
(* Induction over the naturals and over finite sets.                       *)
(***************************************************************************)
\* Every non-empty set of naturals has a least element: the order is
\* well-founded.
LEMMA LeastNat ==
  ASSUME NEW T, T \subseteq Nat, T # {}
  PROVE  Min(T) \in T /\ \A y \in T : Min(T) <= y
<1> DEFINE R == {p \in Nat \X Nat : p[1] < p[2]}
<1>1. IsWellFoundedOn(R, Nat)
  <2>1. OpToRel(<, Nat) = R
    BY DEF OpToRel
  <2> QED BY <2>1, NatLessThanWellFounded
<1>2. \E x \in T : \A y \in T : ~ (<<y, x>> \in R)
  <2> HIDE DEF R
  <2> QED BY <1>1, WFMin
<1>3. PICK x \in T : \A y \in T : ~ (<<y, x>> \in R)
  BY <1>2
<1>4. ASSUME NEW y \in T PROVE x <= y
  <2>1. x \in Nat /\ y \in Nat /\ <<y, x>> \in Nat \X Nat
    OBVIOUS
  <2>2. ~(y < x)
    BY <1>3, <2>1
  <2> QED BY <2>1, <2>2
<1> QED BY <1>4 DEF Min

\* A set of naturals that holds 0, and with each number the next one, holds all.
LEMMA AllNat ==
  ASSUME NEW T, 0 \in T, \A n \in Nat : n \in T => n + 1 \in T
  PROVE  \A n \in Nat : n \in T
<1> DEFINE Missing == {n \in Nat : n \notin T}
<1> SUFFICES ASSUME Missing # {} PROVE FALSE
  OBVIOUS
<1>1. Min(Missing) \in Missing /\ \A y \in Missing : Min(Missing) <= y
  BY LeastNat, Missing \subseteq Nat
<1> DEFINE m == Min(Missing)
<1>2. m \in Nat /\ m \notin T /\ m # 0
  BY <1>1
<1>3. m - 1 \in Nat /\ m - 1 \notin Missing /\ (m - 1) + 1 = m
  BY <1>1, <1>2
<1> HIDE DEF m
<1> QED BY <1>2, <1>3

\* The subsets of S that have n elements.
Sized(S, n) == {T \in SUBSET S : Cardinality(T) = n}

\* A property that a finite set's subsets have if it does not matter which
\* element they lack.
LEMMA AllSubsets ==
  ASSUME NEW S, IsFiniteSet(S), NEW H,
         \A T \in SUBSET S : (\A x \in T : T \ {x} \in H) => T \in H
  PROVE  SUBSET S \subseteq H
<1> DEFINE N == {n \in Nat : Sized(S, n) \subseteq H}
<1>1. ASSUME NEW n \in Nat, NEW T \in Sized(S, n), n = 0 \/ n - 1 \in N PROVE T \in H
  <2>1. T \in SUBSET S /\ Cardinality(T) = n
    BY DEF Sized
  <2>2. IsFiniteSet(T)
    BY <2>1, FS_Subset
  <2>3. ASSUME NEW x \in T PROVE T \ {x} \in H
    <3>1. n # 0
      BY <2>1, <2>2, FS_EmptySet
    <3>2. Cardinality(T \ {x}) = n - 1
      BY <2>1, <2>2, FS_RemoveElement
    <3> QED BY <1>1, <2>1, <3>1, <3>2 DEF Sized
  <2> QED BY <2>1, <2>3
<1>2. 0 \in N
  BY <1>1
<1>3. ASSUME NEW n \in Nat, n \in N PROVE n + 1 \in N
  <2>1. n + 1 \in Nat /\ (n + 1) - 1 = n
    OBVIOUS
  <2>2. ASSUME NEW T \in Sized(S, n + 1) PROVE T \in H
    BY <1>1, <1>3, <2>1
  <2> QED BY <2>1, <2>2
<1>4. \A n \in Nat : n \in N
  <2> HIDE DEF N
  <2> QED BY <1>2, <1>3, AllNat
<1> SUFFICES ASSUME NEW T \in SUBSET S PROVE T \in H
  OBVIOUS
<1>5. IsFiniteSet(T)
  BY FS_Subset
<1>6. Cardinality(T) \in Nat
  BY <1>5, FS_CardinalityType
<1> QED BY <1>4, <1>6 DEF Sized

\* A finite set of naturals has a greatest element.
LEMMA MaxOf ==
  ASSUME NEW S, IsFiniteSet(S), S \subseteq Nat, S # {}
  PROVE  Max(S) \in S /\ \A y \in S : y <= Max(S)
<1> DEFINE H == {T \in SUBSET S : T = {} \/ \E m \in T : \A y \in T : m >= y}
<1>1. ASSUME NEW T \in SUBSET S, \A x \in T : T \ {x} \in H PROVE T \in H
  <2> SUFFICES ASSUME T # {} PROVE \E m \in T : \A y \in T : m >= y
    OBVIOUS
  <2>1. PICK x \in T : TRUE
    OBVIOUS
  <2>2. x \in Nat /\ T \subseteq Nat
    OBVIOUS
  <2>3. CASE T \ {x} = {}
    BY <2>1, <2>2, <2>3
  <2>4. CASE \E m \in T \ {x} : \A y \in T \ {x} : m >= y
    <3>1. PICK m \in T \ {x} : \A y \in T \ {x} : m >= y
      BY <2>4
    <3>2. CASE m >= x
      BY <3>1, <3>2
    <3>3. CASE x > m
      BY <2>2, <3>1, <3>3
    <3> QED BY <2>2, <3>1, <3>2, <3>3
  <2> QED BY <1>1, <2>1, <2>3, <2>4
<1>2. SUBSET S \subseteq H
  <2> HIDE DEF H
  <2> QED BY <1>1, AllSubsets
<1>3. PICK m \in S : \A y \in S : m >= y
  BY <1>2
<1> QED BY <1>3 DEF Max

\* One step of a fold, h, that starts with b and takes the element c[T] of T last.
FoldStep(h, c, b, g, T) == IF T = {} THEN b ELSE h[<<c[T], g[T \ {c[T]}]>>]
IsFold(h, c, b, S, g) == g = [T \in SUBSET S |-> FoldStep(h, c, b, g, T)]

\* Two functions that fold agree where both are defined.
LEMMA FoldsAgree ==
  ASSUME NEW S, IsFiniteSet(S), NEW U \in SUBSET S, NEW h, NEW c, NEW b,
         \A T \in SUBSET S : T # {} => c[T] \in T,
         NEW f, IsFold(h, c, b, S, f), NEW g, IsFold(h, c, b, U, g)
  PROVE  \A T \in SUBSET U : f[T] = g[T]
<1> DEFINE H == {T \in SUBSET U : f[T] = g[T]}
<1>1. \A T \in SUBSET U : f[T] = FoldStep(h, c, b, f, T) /\ g[T] = FoldStep(h, c, b, g, T)
  BY DEF IsFold
<1>2. ASSUME NEW T \in SUBSET U, \A x \in T : T \ {x} \in H PROVE T \in H
  BY <1>1, <1>2 DEF FoldStep
<1>3. IsFiniteSet(U)
  BY FS_Subset
<1>4. SUBSET U \subseteq H
  <2> HIDE DEF H
  <2> QED BY <1>2, <1>3, AllSubsets
<1> QED BY <1>4

\* What the subsets of a finite set fold to.
Folded(h, c, b, T) == (CHOOSE g : IsFold(h, c, b, T, g))[T]

LEMMA FoldedValue ==
  ASSUME NEW S, IsFiniteSet(S), NEW h, NEW c, NEW b,
         \A T \in SUBSET S : T # {} => c[T] \in T,
         NEW f, IsFold(h, c, b, S, f)
  PROVE  \A T \in SUBSET S : Folded(h, c, b, T) = f[T]
<1> SUFFICES ASSUME NEW T \in SUBSET S PROVE Folded(h, c, b, T) = f[T]
  OBVIOUS
<1> DEFINE part == [v \in SUBSET T |-> f[v]]
           g == CHOOSE g : IsFold(h, c, b, T, g)
<1>1. IsFold(h, c, b, T, part)
  <2>1. ASSUME NEW v \in SUBSET T PROVE part[v] = FoldStep(h, c, b, part, v)
    <3>1. v \in SUBSET S /\ part[v] = f[v] /\ v \ {c[v]} \in SUBSET T
      OBVIOUS
    <3> QED BY <3>1 DEF IsFold, FoldStep
  <2>2. part = [v \in SUBSET T |-> part[v]]
    OBVIOUS
  <2> HIDE DEF part
  <2> QED BY <2>1, <2>2 DEF IsFold
<1>2. IsFold(h, c, b, T, g)
  <2> HIDE DEF part
  <2> QED BY <1>1
<1>3. f[T] = g[T]
  <2> HIDE DEF g
  <2> QED BY <1>2, FoldsAgree
<1> QED BY <1>3 DEF Folded

\* A finite set can be folded, and the values are of the type the steps keep.
LEMMA FoldExists ==
  ASSUME NEW S, IsFiniteSet(S), NEW V, NEW b \in V, NEW h \in [S \X V -> V], NEW c,
         \A T \in SUBSET S : T # {} => c[T] \in T
  PROVE  \E g \in [SUBSET S -> V] : IsFold(h, c, b, S, g)
<1> DEFINE H == {T \in SUBSET S : \E g : IsFold(h, c, b, T, g)}
<1>1. ASSUME NEW T \in SUBSET S, \A x \in T : T \ {x} \in H PROVE T \in H
  <2> DEFINE Rest(s) == s \ {c[s]}
             g == [s \in SUBSET T |-> IF s = {} THEN b
                                      ELSE h[<<c[s], Folded(h, c, b, Rest(s))>>]]
  <2>1. ASSUME NEW s \in SUBSET T, s # {} PROVE g[Rest(s)] = Folded(h, c, b, Rest(s))
    <3> DEFINE x == c[s]
               u == s \ {x}
    <3>1. x \in T /\ u \in SUBSET (T \ {x})
      BY <2>1
    <3>2. IsFiniteSet(T \ {x}) /\ T \ {x} \in SUBSET S
      BY FS_Subset
    <3> HIDE DEF x
    <3>3. PICK f : IsFold(h, c, b, T \ {x}, f)
      BY <1>1, <3>1
    <3>4. \A v \in SUBSET (T \ {x}) : Folded(h, c, b, v) = f[v]
      BY <3>2, <3>3, FoldedValue
    <3>5. f[u] = FoldStep(h, c, b, f, u)
      BY <3>1, <3>3 DEF IsFold
    <3>6. g[u] = IF u = {} THEN b ELSE h[<<c[u], Folded(h, c, b, Rest(u))>>]
      BY <3>1
    <3>7. u # {} => Rest(u) \in SUBSET (T \ {x})
      BY <3>1
    <3>8. g[u] = Folded(h, c, b, u)
      <4> HIDE DEF u, g
      <4> QED BY <3>1, <3>4, <3>5, <3>6, <3>7 DEF FoldStep
    <3> QED BY <3>8 DEF x
  <2>2. ASSUME NEW s \in SUBSET T PROVE g[s] = FoldStep(h, c, b, g, s)
    BY <2>1 DEF FoldStep
  <2>3. g = [s \in SUBSET T |-> g[s]]
    OBVIOUS
  <2> HIDE DEF g
  <2>4. IsFold(h, c, b, T, g)
    BY <2>2, <2>3 DEF IsFold
  <2> QED BY <2>4
<1>2. SUBSET S \subseteq H
  <2> HIDE DEF H
  <2> QED BY <1>1, AllSubsets
<1>3. PICK g : IsFold(h, c, b, S, g)
  BY <1>2
<1> DEFINE G == {T \in SUBSET S : g[T] \in V}
<1>4. ASSUME NEW T \in SUBSET S, \A x \in T : T \ {x} \in G PROVE T \in G
  <2>1. g[T] = FoldStep(h, c, b, g, T)
    BY <1>3 DEF IsFold
  <2> QED BY <1>4, <2>1 DEF FoldStep
<1>5. SUBSET S \subseteq G
  <2> HIDE DEF G
  <2> QED BY <1>4, AllSubsets
<1>6. \A T \in SUBSET S : g[T] \in V
  BY <1>5
<1>7. DOMAIN g = SUBSET S /\ g = [T \in DOMAIN g |-> g[T]]
  BY <1>3 DEF IsFold
<1> QED BY <1>3, <1>6, <1>7

\* The same for positions of a sequence.
LEMMA MaxWithin ==
  ASSUME NEW n \in Nat, NEW T \in SUBSET (1..n), T # {}
  PROVE  Max(T) \in T /\ \A y \in T : y <= Max(T)
<1>1. IsFiniteSet(1..n)
  BY FS_Interval
<1>2. IsFiniteSet(T)
  BY <1>1, FS_Subset
<1>3. T \subseteq Nat
  OBVIOUS
<1> QED BY <1>2, <1>3, MaxOf

\* The values of a fold over an initial segment, one element after the other.
FoldsSegment(h, b, n, g) ==
    \A T \in SUBSET (1..n) :
       g[T] = IF T = {} THEN b ELSE h[<<Max(T), g[T \ {Max(T)}]>>]

\* There is such a fold.
LEMMA FoldSegment ==
  ASSUME NEW n \in Nat, NEW V, NEW b \in V, NEW h \in [(1..n) \X V -> V]
  PROVE  \E g \in [SUBSET (1..n) -> V] : FoldsSegment(h, b, n, g)
<1> DEFINE c == [T \in SUBSET (1..n) |-> Max(T)]
<1>1. IsFiniteSet(1..n)
  BY FS_Interval
<1>3. \A T \in SUBSET (1..n) : c[T] = Max(T)
  OBVIOUS
<1>2. \A T \in SUBSET (1..n) : T # {} => c[T] \in T
  BY <1>3, MaxWithin
<1> HIDE DEF c
<1>4. PICK g \in [SUBSET (1..n) -> V] : IsFold(h, c, b, 1..n, g)
  BY <1>1, <1>2, FoldExists
<1>5. ASSUME NEW T \in SUBSET (1..n)
      PROVE  g[T] = IF T = {} THEN b ELSE h[<<Max(T), g[T \ {Max(T)}]>>]
  BY <1>3, <1>4 DEF IsFold, FoldStep
<1> QED BY <1>5 DEF FoldsSegment

\* What a fold over a segment takes first.
LEMMA MaxSegment ==
  ASSUME NEW k \in Nat, k > 0
  PROVE  Max(1..k) = k /\ (1..k) \ {k} = 1..(k - 1) /\ 1..k # {}
<1>1. IsFiniteSet(1..k) /\ 1..k \subseteq Nat /\ k \in 1..k
  BY FS_Interval
<1>2. Max(1..k) \in 1..k /\ k <= Max(1..k)
  BY <1>1, MaxOf
<1> QED BY <1>1, <1>2

-----------------------------------------------------------------------------
\* The elements of s that are in K, collected one position after the other.
PicksUp(s, K, r) ==
    /\ r[0] = <<>> /\ r[Len(s)] = Only(s, K)
    /\ \A k \in 1..Len(s) :
          r[k] = IF s[k] \in K THEN Append(r[k - 1], s[k]) ELSE r[k - 1]

\* Only collects them that way.
LEMMA OnlyPrefixes ==
  ASSUME NEW S, NEW s \in Seq(S), NEW K
  PROVE  \E r \in [0..Len(s) -> Seq(S)] : PicksUp(s, K, r)
<1> DEFINE n == Len(s)
           V == Seq(S)
           h == [p \in (1..n) \X V |-> IF s[p[1]] \in K THEN Append(p[2], s[p[1]]) ELSE p[2]]
           Is(g) == g = [T \in SUBSET (1..n) |->
                           IF T = {} THEN <<>>
                           ELSE IF s[Max(T)] \in K THEN Append(g[T \ {Max(T)}], s[Max(T)])
                                ELSE g[T \ {Max(T)}]]
<1>1. n \in Nat /\ DOMAIN s = 1..n /\ <<>> \in V
  OBVIOUS
<1>2. h \in [(1..n) \X V -> V]
  OBVIOUS
<1>3. \A i \in 1..n, v \in V : h[<<i, v>>] = IF s[i] \in K THEN Append(v, s[i]) ELSE v
  OBVIOUS
<1> HIDE DEF h, V, n
<1>4. PICK g \in [SUBSET (1..n) -> V] : FoldsSegment(h, <<>>, n, g)
  BY <1>1, <1>2, FoldSegment
<1>5. Is(g)
  <2>1. ASSUME NEW T \in SUBSET (1..n)
        PROVE  g[T] = IF T = {} THEN <<>>
                      ELSE IF s[Max(T)] \in K THEN Append(g[T \ {Max(T)}], s[Max(T)])
                           ELSE g[T \ {Max(T)}]
    <3>1. T # {} => Max(T) \in 1..n /\ g[T \ {Max(T)}] \in V
      BY <1>1, MaxWithin
    <3> QED BY <1>3, <1>4, <3>1 DEF FoldsSegment
  <2> QED BY <2>1
<1>6. Only(s, K) = (CHOOSE f : Is(f))[1..n]
  BY <1>1 DEF Only, FoldLeft, MapThenFoldSet
<1> DEFINE f == CHOOSE f : Is(f)
<1>7. Is(f)
  BY <1>5
<1> HIDE DEF f
<1>8. \A T \in SUBSET (1..n) :
         f[T] = IF T = {} THEN <<>>
                ELSE IF s[Max(T)] \in K THEN Append(f[T \ {Max(T)}], s[Max(T)])
                     ELSE f[T \ {Max(T)}]
  BY <1>7
<1> DEFINE r == [k \in 0..n |-> f[1..k]]
<1>9. r[0] = <<>>
  <2>1. 1..0 = {} /\ 0 \in 0..n /\ {} \in SUBSET (1..n)
    BY <1>1
  <2> QED BY <1>8, <2>1
<1>10. ASSUME NEW k \in 1..n
       PROVE  r[k] = IF s[k] \in K THEN Append(r[k - 1], s[k]) ELSE r[k - 1]
  <2>1. k \in Nat /\ k > 0 /\ k - 1 \in 0..n /\ k \in 0..n /\ 1..k \in SUBSET (1..n)
    BY <1>1
  <2>2. Max(1..k) = k /\ (1..k) \ {k} = 1..(k - 1) /\ 1..k # {}
    BY <2>1, MaxSegment
  <2>3. f[1..k] = IF s[k] \in K THEN Append(f[1..(k - 1)], s[k]) ELSE f[1..(k - 1)]
    BY <1>8, <2>1, <2>2
  <2> QED BY <2>1, <2>3
<1>11. r[n] = Only(s, K)
  <2>1. n \in 0..n
    BY <1>1
  <2> QED BY <1>6, <2>1 DEF f
<1> DEFINE P == {k \in Nat : k \in 0..n => r[k] \in V}
<1> HIDE DEF r
<1>12. 0 \in P
  BY <1>1, <1>9
<1>13. ASSUME NEW k \in Nat, k \in P PROVE k + 1 \in P
  <2> SUFFICES ASSUME k + 1 \in 0..n PROVE r[k + 1] \in V
    OBVIOUS
  <2>1. k \in 0..n /\ k + 1 \in 1..n /\ (k + 1) - 1 = k
    BY <1>1
  <2>2. r[k] \in Seq(S) /\ s[k + 1] \in S
    BY <1>1, <1>13, <2>1 DEF V
  <2>3. r[k + 1] = IF s[k + 1] \in K THEN Append(r[k], s[k + 1]) ELSE r[k]
    BY <1>10, <2>1
  <2>4. Append(r[k], s[k + 1]) \in Seq(S)
    BY <2>2
  <2> QED BY <2>2, <2>3, <2>4 DEF V
<1>14. \A k \in 0..n : r[k] \in V
  <2>1. \A k \in Nat : k \in P
    <3> HIDE DEF P
    <3> QED BY <1>12, <1>13, AllNat
  <2> QED BY <1>1, <2>1
<1>15. r \in [0..n -> V]
  BY <1>14 DEF r
<1> QED BY <1>9, <1>10, <1>11, <1>15 DEF n, V, PicksUp

\* Where an element occurs, and what comes before what, among the first k.
Occurs(s, k, a) == \E i \in 1..k : s[i] = a
Ahead(s, k, a, b) == \E i, j \in 1..k : i < j /\ s[i] = a /\ s[j] = b

\* One position more.
LEMMA OneMore ==
  ASSUME NEW s, NEW k \in Nat
  PROVE  /\ \A a : Occurs(s, k + 1, a) <=> Occurs(s, k, a) \/ s[k + 1] = a
         /\ \A a, b : Ahead(s, k + 1, a, b) <=>
                         Ahead(s, k, a, b) \/ (Occurs(s, k, a) /\ s[k + 1] = b)
<1>1. 1..(k + 1) = (1..k) \cup {k + 1} /\ \A i \in 1..k : i < k + 1 /\ ~(k + 1 < i)
  OBVIOUS
<1>2. ~(k + 1 < k + 1)
  OBVIOUS
<1> QED BY <1>1, <1>2, Zenon DEF Occurs, Ahead

\* One element more at the end.
LEMMA Appended ==
  ASSUME NEW S, NEW t \in Seq(S), NEW x \in S
  PROVE  LET k == Len(t)
             u == Append(t, x)
         IN /\ u \in Seq(S) /\ Len(u) = k + 1
            /\ \A a : Occurs(u, k + 1, a) <=> Occurs(t, k, a) \/ x = a
            /\ \A a, b : Ahead(u, k + 1, a, b) <=>
                            Ahead(t, k, a, b) \/ (Occurs(t, k, a) /\ x = b)
<1> DEFINE k == Len(t)
           u == Append(t, x)
<1>1. k \in Nat /\ u \in Seq(S) /\ Len(u) = k + 1 /\ u[k + 1] = x
  OBVIOUS
<1>2. \A i \in 1..k : u[i] = t[i]
  OBVIOUS
<1> HIDE DEF k, u
<1>3. \A a : Occurs(u, k, a) <=> Occurs(t, k, a)
  BY <1>2, Zenon DEF Occurs
<1>4. \A a, b : Ahead(u, k, a, b) <=> Ahead(t, k, a, b)
  BY <1>2, Zenon DEF Ahead
<1>5. /\ \A a : Occurs(u, k + 1, a) <=> Occurs(u, k, a) \/ u[k + 1] = a
      /\ \A a, b : Ahead(u, k + 1, a, b) <=>
                      Ahead(u, k, a, b) \/ (Occurs(u, k, a) /\ u[k + 1] = b)
  BY <1>1, OneMore
<1> QED BY <1>1, <1>3, <1>4, <1>5, Zenon DEF k, u

\* Only keeps what is in K, and its order.
LEMMA OnlyKeeps ==
  ASSUME NEW S, NEW s \in Seq(S), NEW K
  PROVE  LET p == Only(s, K)
         IN /\ p \in Seq(S)
            /\ \A a : Occurs(p, Len(p), a) <=> Occurs(s, Len(s), a) /\ a \in K
            /\ \A a, b : Before(p, a, b) <=> Before(s, a, b) /\ a \in K /\ b \in K
<1> DEFINE n == Len(s)
<1>1. n \in Nat /\ \A k \in 1..n : s[k] \in S
  OBVIOUS
<1>p. PICK r \in [0..n -> Seq(S)] : PicksUp(s, K, r)
  BY OnlyPrefixes
<1>2. /\ r[0] = <<>> /\ r[n] = Only(s, K)
      /\ \A k \in 1..n : r[k] = IF s[k] \in K THEN Append(r[k - 1], s[k]) ELSE r[k - 1]
  BY <1>p DEF PicksUp
<1> HIDE DEF n
<1> DEFINE Same(k) ==
             /\ \A a : Occurs(r[k], Len(r[k]), a) <=> Occurs(s, k, a) /\ a \in K
             /\ \A a, b : Ahead(r[k], Len(r[k]), a, b) <=> Ahead(s, k, a, b) /\ a \in K /\ b \in K
           P == {k \in Nat : k <= n => Same(k)}
<1>3. 0 \in P
  <2>1. 1..0 = {} /\ Len(<<>>) = 0
    OBVIOUS
  <2> QED BY <1>2, <2>1 DEF Occurs, Ahead
<1>4. ASSUME NEW k \in Nat, k \in P PROVE k + 1 \in P
  <2> SUFFICES ASSUME k + 1 <= n PROVE Same(k + 1)
    OBVIOUS
  <2>1. k \in 0..n /\ k + 1 \in 1..n /\ k + 1 \in 0..n /\ (k + 1) - 1 = k
    BY <1>1
  <2> DEFINE x == s[k + 1]
             t == r[k]
             u == r[k + 1]
  <2>2. x \in S /\ t \in Seq(S) /\ Same(k)
    BY <1>1, <1>2, <1>4, <2>1
  <2>3. u = IF x \in K THEN Append(t, x) ELSE t
    BY <1>2, <2>1
  <2>4. /\ \A a : Occurs(s, k + 1, a) <=> Occurs(s, k, a) \/ x = a
        /\ \A a, b : Ahead(s, k + 1, a, b) <=> Ahead(s, k, a, b) \/ (Occurs(s, k, a) /\ x = b)
    BY OneMore
  <2>5. CASE x \notin K
    <3>1. u = t
      BY <2>3, <2>5
    <3> HIDE DEF x, t, u
    <3> QED BY <2>2, <2>4, <2>5, <3>1, Zenon DEF t, u
  <2>6. CASE x \in K
    <3>1. /\ \A a : Occurs(Append(t, x), Len(t) + 1, a) <=> Occurs(t, Len(t), a) \/ x = a
          /\ \A a, b : Ahead(Append(t, x), Len(t) + 1, a, b) <=>
                          Ahead(t, Len(t), a, b) \/ (Occurs(t, Len(t), a) /\ x = b)
          /\ Len(Append(t, x)) = Len(t) + 1
      BY <2>2, Appended
    <3>2. u = Append(t, x)
      BY <2>3, <2>6
    <3> HIDE DEF x
    <3> QED BY <2>2, <2>4, <2>6, <3>1, <3>2
  <2> QED BY <2>5, <2>6
<1>5. Same(n)
  <2>1. \A k \in Nat : k \in P
    <3> HIDE DEF P
    <3> QED BY <1>3, <1>4, AllNat
  <2>2. n <= n
    BY <1>1
  <2> QED BY <1>1, <2>1, <2>2
<1>6. r[n] \in Seq(S)
  BY <1>1, <1>2
<1>7. /\ \A a : Occurs(r[n], Len(r[n]), a) <=> Occurs(s, n, a) /\ a \in K
      /\ \A a, b : Before(r[n], a, b) <=> Before(s, a, b) /\ a \in K /\ b \in K
  BY <1>5 DEF Before, Ahead, n
<1>8. r[n] = Only(s, K)
  BY <1>2
<1> HIDE DEF Same, P
<1> QED BY <1>6, <1>7, <1>8 DEF n

-----------------------------------------------------------------------------
(***************************************************************************)
(* Sequences, and sequences in which every element occurs once.            *)
(***************************************************************************)
\* The elements of a sequence.
LEMMA SetOf ==
  ASSUME NEW S, NEW s \in Seq(S)
  PROVE  /\ ToSet(s) \subseteq S
         /\ \A a : a \in ToSet(s) <=> Occurs(s, Len(s), a)
BY DEF ToSet, Occurs

\* A sequence has no repetitions if nothing comes before itself.
LEMMA OnceEach ==
  ASSUME NEW S, NEW s \in Seq(S)
  PROVE  IsInjective(s) <=> \A a : ~Before(s, a, a)
<1>1. Len(s) \in Nat /\ DOMAIN s = 1..Len(s)
  OBVIOUS
<1>2. \A i, j \in 1..Len(s) : i # j => i < j \/ j < i
  OBVIOUS
<1>3. \A i, j \in 1..Len(s) : i < j => i # j
  OBVIOUS
<1> QED BY <1>1, <1>2, <1>3, Zenon DEF IsInjective, Before

\* What is appended comes after everything.
LEMMA AtEnd ==
  ASSUME NEW S, NEW t \in Seq(S), NEW x \in S
  PROVE  /\ ToSet(Append(t, x)) = ToSet(t) \cup {x}
         /\ \A a, b : Before(Append(t, x), a, b) <=>
                         Before(t, a, b) \/ (a \in ToSet(t) /\ b = x)
<1> DEFINE u == Append(t, x)
<1>1. /\ u \in Seq(S) /\ Len(u) = Len(t) + 1
      /\ \A a : Occurs(u, Len(t) + 1, a) <=> Occurs(t, Len(t), a) \/ x = a
      /\ \A a, b : Ahead(u, Len(t) + 1, a, b) <=>
                      Ahead(t, Len(t), a, b) \/ (Occurs(t, Len(t), a) /\ x = b)
  BY Appended
<1>2. \A a : (a \in ToSet(u) <=> Occurs(u, Len(u), a)) /\ (a \in ToSet(t) <=> Occurs(t, Len(t), a))
  BY <1>1, SetOf
<1>3. \A a, b : /\ Before(u, a, b) <=> Ahead(u, Len(u), a, b)
                /\ Before(t, a, b) <=> Ahead(t, Len(t), a, b)
  BY DEF Before, Ahead
<1> HIDE DEF u
<1>4. \A a : a \in ToSet(u) <=> a \in ToSet(t) \/ a = x
  BY <1>1, <1>2
<1>5. \A a, b : Before(u, a, b) <=> Before(t, a, b) \/ (a \in ToSet(t) /\ b = x)
  BY <1>1, <1>2, <1>3
<1> QED BY <1>4, <1>5 DEF u

\* Only elements come before one another.
LEMMA Placed ==
  ASSUME NEW S, NEW s \in Seq(S)
  PROVE  \A a, b : Before(s, a, b) => a \in ToSet(s) /\ b \in ToSet(s)
<1>1. DOMAIN s = 1..Len(s)
  OBVIOUS
<1> QED BY <1>1, Zenon DEF Before, ToSet

\* Without its first element a sequence without repetitions keeps its order.
LEMMA WithoutHead ==
  ASSUME NEW S, NEW s \in Seq(S), s # << >>, IsInjective(s)
  PROVE  /\ Head(s) \in S /\ Head(s) \in ToSet(s)
         /\ Tail(s) \in Seq(S) /\ IsInjective(Tail(s)) /\ ToSet(Tail(s)) \subseteq ToSet(s)
         /\ \A a : ~Before(s, a, Head(s))
         /\ \A a, b : Before(s, a, b) /\ a # Head(s) => Before(Tail(s), a, b)
<1>1. /\ Len(s) \in Nat /\ Len(s) > 0 /\ DOMAIN s = 1..Len(s)
      /\ Head(s) = s[1] /\ Head(s) \in S
      /\ Tail(s) \in Seq(S) /\ Len(Tail(s)) = Len(s) - 1
      /\ DOMAIN Tail(s) = 1..(Len(s) - 1)
      /\ \A i \in 1..(Len(s) - 1) : Tail(s)[i] = s[i + 1]
  OBVIOUS
<1> DEFINE t == Tail(s)
           n == Len(s)
<1> HIDE DEF t, n
<1>2. Head(s) \in ToSet(s) /\ ToSet(t) \subseteq ToSet(s)
  <2>1. ASSUME NEW i \in 1..(n - 1) PROVE i + 1 \in 1..n
    BY <1>1 DEF n
  <2>2. 1 \in 1..n
    BY <1>1 DEF n
  <2> QED BY <1>1, <2>1, <2>2 DEF ToSet, t, n
<1>3. IsInjective(t)
  <2> SUFFICES ASSUME NEW i \in 1..(n - 1), NEW j \in 1..(n - 1), t[i] = t[j] PROVE i = j
    BY <1>1 DEF IsInjective, t, n
  <2>1. i + 1 \in 1..n /\ j + 1 \in 1..n /\ s[i + 1] = s[j + 1]
    BY <1>1 DEF t, n
  <2>2. i + 1 = j + 1
    BY <1>1, <2>1 DEF IsInjective, n
  <2> QED BY <2>2
<1>4. ASSUME NEW a PROVE ~Before(s, a, Head(s))
  <2> SUFFICES ASSUME NEW i \in 1..n, NEW j \in 1..n, i < j, s[j] = Head(s) PROVE FALSE
    BY DEF Before, n
  <2>1. 1 \in 1..n
    BY <1>1 DEF n
  <2>2. j = 1
    BY <1>1, <2>1 DEF IsInjective, n
  <2> QED BY <2>2
<1>5. ASSUME NEW a, NEW b, Before(s, a, b), a # Head(s) PROVE Before(t, a, b)
  <2>1. PICK i, j \in 1..n : i < j /\ s[i] = a /\ s[j] = b
    BY <1>5 DEF Before, n
  <2>2. i # 1
    BY <1>1, <1>5, <2>1
  <2>3. n \in Nat /\ i - 1 \in 1..(n - 1) /\ j - 1 \in 1..(n - 1) /\ i - 1 < j - 1
    BY <1>1, <2>1, <2>2 DEF n
  <2>4. t[i - 1] = a /\ t[j - 1] = b
    BY <1>1, <2>1, <2>3 DEF t, n
  <2> QED BY <1>1, <2>3, <2>4 DEF Before, t, n
<1> QED BY <1>1, <1>2, <1>3, <1>4, <1>5 DEF t

\* So does its beginning.
LEMMA Beginning ==
  ASSUME NEW S, NEW s \in Seq(S), IsInjective(s), NEW m \in 0..Len(s)
  PROVE  LET t == SubSeq(s, 1, m)
         IN /\ t \in Seq(S) /\ IsInjective(t) /\ ToSet(t) \subseteq ToSet(s)
            /\ \A a, b : Before(s, a, b) /\ b \in ToSet(t) => Before(t, a, b)
<1> DEFINE t == SubSeq(s, 1, m)
           n == Len(s)
<1>1. /\ n \in Nat /\ m \in Nat /\ m <= n /\ DOMAIN s = 1..n
      /\ t \in Seq(S) /\ Len(t) = m /\ DOMAIN t = 1..m
      /\ \A i \in 1..m : t[i] = s[i]
  OBVIOUS
<1> HIDE DEF t
<1>2. \A i \in 1..m : i \in 1..n
  BY <1>1
<1>3. IsInjective(t)
  BY <1>1, <1>2, Zenon DEF IsInjective
<1>4. ToSet(t) \subseteq ToSet(s)
  BY <1>1, <1>2 DEF ToSet
<1>5. ASSUME NEW a, NEW b, Before(s, a, b), b \in ToSet(t) PROVE Before(t, a, b)
  <2>1. PICK i, j \in 1..n : i < j /\ s[i] = a /\ s[j] = b
    BY <1>5 DEF Before
  <2>2. PICK k \in 1..m : t[k] = b
    BY <1>1, <1>5 DEF ToSet
  <2>3. k = j
    BY <1>1, <1>2, <2>1, <2>2 DEF IsInjective
  <2>4. i \in 1..m /\ j \in 1..m
    BY <1>1, <2>1, <2>3
  <2> QED BY <1>1, <2>1, <2>4 DEF Before
<1> QED BY <1>1, <1>3, <1>4, <1>5 DEF t

-----------------------------------------------------------------------------
(***************************************************************************)
(* Orders without repetitions.                                             *)
(***************************************************************************)
\* What comes before what is a strict order of the elements.
Line(s) == /\ \A a, b : Before(s, a, b) => a \in ToSet(s) /\ b \in ToSet(s)
           /\ \A a, b : Before(s, a, b) => ~Before(s, b, a) /\ a # b
           /\ \A a, b, c : Before(s, a, b) /\ Before(s, b, c) => Before(s, a, c)
           /\ \A a, b \in ToSet(s) : a # b => Before(s, a, b) \/ Before(s, b, a)

\* In a sequence without repetitions the order is the one of the places.
LEMMA ByPlace ==
  ASSUME NEW S, NEW s \in Seq(S), IsInjective(s)
  PROVE  \A i, j \in 1..Len(s) : /\ Before(s, s[i], s[j]) <=> i < j
                                 /\ s[i] = s[j] <=> i = j
<1>1. \A i, j \in 1..Len(s) : s[i] = s[j] <=> i = j
  BY DEF IsInjective
<1>2. \A i, j \in 1..Len(s) : Before(s, s[i], s[j]) => i < j
  BY <1>1 DEF Before
<1>3. \A i, j \in 1..Len(s) : i < j => Before(s, s[i], s[j])
  BY DEF Before
<1> QED BY <1>1, <1>2, <1>3

\* Every element has a place.
LEMMA Placement ==
  ASSUME NEW S, NEW s \in Seq(S)
  PROVE  \A a : a \in ToSet(s) <=> \E i \in 1..Len(s) : s[i] = a
BY SetOf DEF Occurs

\* A sequence without repetitions is a line.
LEMMA IsLine ==
  ASSUME NEW S, NEW s \in Seq(S), IsInjective(s)
  PROVE  Line(s)
<1>1. \A a : a \in ToSet(s) => \E i \in 1..Len(s) : s[i] = a
  BY Placement
<1>2. \A i, j \in 1..Len(s) : Before(s, s[i], s[j]) <=> i < j
  BY ByPlace
<1>3. \A a, b : Before(s, a, b) => a \in ToSet(s) /\ b \in ToSet(s)
  BY Placed
<1>4. ASSUME NEW a, NEW b, Before(s, a, b) PROVE ~Before(s, b, a) /\ a # b
  <2>1. PICK i \in 1..Len(s), j \in 1..Len(s) : s[i] = a /\ s[j] = b
    BY <1>1, <1>3, <1>4
  <2>2. i < j
    BY <1>2, <1>4, <2>1
  <2> QED BY <1>2, <2>1, <2>2
<1>5. ASSUME NEW a, NEW b, NEW c, Before(s, a, b), Before(s, b, c) PROVE Before(s, a, c)
  <2>1. PICK i \in 1..Len(s), j \in 1..Len(s), k \in 1..Len(s) : s[i] = a /\ s[j] = b /\ s[k] = c
    BY <1>1, <1>3, <1>5
  <2>2. i < j /\ j < k
    BY <1>2, <1>5, <2>1
  <2> QED BY <1>2, <2>1, <2>2
<1>6. ASSUME NEW a \in ToSet(s), NEW b \in ToSet(s), a # b PROVE Before(s, a, b) \/ Before(s, b, a)
  <2>1. PICK i \in 1..Len(s), j \in 1..Len(s) : s[i] = a /\ s[j] = b
    BY <1>1
  <2>2. i < j \/ j < i
    BY <1>6, <2>1
  <2> QED BY <1>2, <2>1, <2>2
<1> QED BY <1>3, <1>4, <1>5, <1>6 DEF Line

\* Who is in an order still is, in the same place among the others, when some
\* drop out.
LEMMA Remaining ==
  ASSUME NEW S, NEW s \in Seq(S), IsInjective(s), NEW K
  PROVE  /\ Only(s, K) \in Seq(S) /\ IsInjective(Only(s, K))
         /\ ToSet(Only(s, K)) = ToSet(s) \cap K
         /\ \A a, b : Before(Only(s, K), a, b) <=> Before(s, a, b) /\ a \in K /\ b \in K
<1> DEFINE p == Only(s, K)
<1>1. /\ p \in Seq(S)
      /\ \A a : Occurs(p, Len(p), a) <=> Occurs(s, Len(s), a) /\ a \in K
      /\ \A a, b : Before(p, a, b) <=> Before(s, a, b) /\ a \in K /\ b \in K
  BY OnlyKeeps
<1> HIDE DEF p
<1>2. \A a : a \in ToSet(p) <=> Occurs(p, Len(p), a)
  BY <1>1, SetOf
<1>3. \A a : a \in ToSet(s) <=> Occurs(s, Len(s), a)
  BY SetOf
<1>4. IsInjective(p)
  <2>1. \A a : ~Before(s, a, a)
    BY OnceEach
  <2> QED BY <1>1, <2>1, OnceEach
<1>5. ToSet(p) = ToSet(s) \cap K
  BY <1>1, <1>2, <1>3
<1> QED BY <1>1, <1>4, <1>5 DEF p

\* One order behind another that shares nothing with it.
LEMMA Joined ==
  ASSUME NEW S, NEW s \in Seq(S), NEW t \in Seq(S), IsInjective(s), IsInjective(t),
         ToSet(s) \cap ToSet(t) = {}
  PROVE  /\ s \o t \in Seq(S) /\ IsInjective(s \o t)
         /\ ToSet(s \o t) = ToSet(s) \cup ToSet(t)
         /\ \A a, b \in ToSet(s) : Before(s \o t, a, b) <=> Before(s, a, b)
<1> DEFINE u == s \o t
           m == Len(s)
           n == Len(t)
<1>1. /\ u \in Seq(S) /\ Len(u) = m + n /\ m \in Nat /\ n \in Nat
      /\ \A i \in 1..m : u[i] = s[i]
      /\ \A i \in 1..n : u[m + i] = t[i]
      /\ \A i \in 1..(m + n) : i > m => (i - m \in 1..n) /\ u[i] = t[i - m]
  OBVIOUS
<1> HIDE DEF u, m, n
<1>2. /\ \A a : a \in ToSet(s) <=> \E i \in 1..m : s[i] = a
      /\ \A a : a \in ToSet(t) <=> \E i \in 1..n : t[i] = a
      /\ \A a : a \in ToSet(u) <=> \E i \in 1..Len(u) : u[i] = a
  <2>1. \A a : a \in ToSet(s) <=> \E i \in 1..m : s[i] = a
    BY Placement DEF m
  <2>2. \A a : a \in ToSet(t) <=> \E i \in 1..n : t[i] = a
    BY Placement DEF n
  <2>3. \A a : a \in ToSet(u) <=> \E i \in 1..Len(u) : u[i] = a
    <3>1. u \in Seq(S)
      BY <1>1
    <3> QED BY <3>1, Placement
  <2> QED BY <2>1, <2>2, <2>3
<1>3. ToSet(u) = ToSet(s) \cup ToSet(t)
  <2>1. ASSUME NEW a \in ToSet(u) PROVE a \in ToSet(s) \/ a \in ToSet(t)
    <3>1. PICK i \in 1..(m + n) : u[i] = a
      BY <1>1, <1>2
    <3>2. CASE i <= m
      BY <1>1, <1>2, <3>1, <3>2
    <3>3. CASE i > m
      BY <1>1, <1>2, <3>1, <3>3
    <3> QED BY <1>1, <3>2, <3>3
  <2>2. ASSUME NEW a \in ToSet(s) PROVE a \in ToSet(u)
    <3>1. PICK i \in 1..m : s[i] = a
      BY <1>2
    <3> QED BY <1>1, <1>2, <3>1
  <2>3. ASSUME NEW a \in ToSet(t) PROVE a \in ToSet(u)
    <3>1. PICK i \in 1..n : t[i] = a
      BY <1>2
    <3>2. m + i \in 1..(m + n)
      BY <1>1
    <3> QED BY <1>1, <1>2, <3>1, <3>2
  <2> QED BY <2>1, <2>2, <2>3
<1>4. \A i \in 1..m : u[i] \in ToSet(s)
  BY <1>1, <1>2
<1>5. \A i \in 1..(m + n) : i > m => u[i] \in ToSet(t) /\ u[i] \notin ToSet(s)
  BY <1>1, <1>2
<1>6. ASSUME NEW i \in 1..(m + n), NEW j \in 1..(m + n), u[i] = u[j] PROVE i = j
  <2>1. CASE i <= m /\ j <= m
    <3>1. i \in 1..m /\ j \in 1..m
      BY <1>1, <2>1
    <3> QED BY <1>1, <1>6, <3>1, ByPlace DEF m
  <2>2. CASE i > m /\ j > m
    <3>1. i - m \in 1..n /\ j - m \in 1..n /\ t[i - m] = t[j - m]
      BY <1>1, <1>6, <2>2
    <3>2. i - m = j - m
      BY <3>1, ByPlace DEF n
    <3> QED BY <1>1, <3>2
  <2>3. CASE ~(i <= m <=> j <= m)
    BY <1>1, <1>4, <1>5, <1>6, <2>3
  <2> QED BY <1>1, <2>1, <2>2, <2>3
<1>7. IsInjective(u)
  BY <1>1, <1>6 DEF IsInjective
<1>8. ASSUME NEW a \in ToSet(s), NEW b \in ToSet(s) PROVE Before(u, a, b) <=> Before(s, a, b)
  <2>1. ASSUME Before(s, a, b) PROVE Before(u, a, b)
    <3>1. PICK i \in 1..m, j \in 1..m : i < j /\ s[i] = a /\ s[j] = b
      BY <2>1 DEF Before, m
    <3>2. i \in 1..Len(u) /\ j \in 1..Len(u) /\ u[i] = a /\ u[j] = b
      BY <1>1, <3>1
    <3> QED BY <3>1, <3>2 DEF Before
  <2>2. ASSUME Before(u, a, b) PROVE Before(s, a, b)
    <3>1. PICK i \in 1..(m + n), j \in 1..(m + n) : i < j /\ u[i] = a /\ u[j] = b
      BY <1>1, <2>2 DEF Before
    <3>2. ~(i > m) /\ ~(j > m)
      <4>1. u[i] \in ToSet(s) /\ u[j] \in ToSet(s)
        BY <3>1
      <4> QED BY <1>5, <4>1
    <3>3. i \in 1..m /\ j \in 1..m
      BY <1>1, <3>2
    <3> QED BY <1>1, <3>1, <3>3 DEF Before, m
  <2> QED BY <2>1, <2>2
<1> QED BY <1>1, <1>3, <1>7, <1>8 DEF u
=============================================================================
