---------------------------- MODULE MoneyProofs ----------------------------
(***************************************************************************)
(* Theorems about the money of a household, for every number of people, of *)
(* requests, of splits and of minor units: the arithmetic of LedgerMath,   *)
(* the edits of one expense (Ledger) and the answers to a settlement       *)
(* (Settlement).                                                           *)
(*                                                                         *)
(* The sums are folds.  TotalPrefixes gives a sequence the sums of its     *)
(* beginnings, which determine its total (TotalIs); SumIsTotal carries     *)
(* that over to a function, in whatever order its values are listed.       *)
(***************************************************************************)
EXTENDS Settlement, Ledger, LedgerCases, OrderLemmas

-----------------------------------------------------------------------------
(* Totals *)

\* What holds at 0, and with each place at the next one, holds up to n.
LEMMA UpTo ==
  ASSUME NEW n \in Nat, NEW T, 0 \in T, \A k \in 0..(n - 1) : k \in T => k + 1 \in T
  PROVE  \A k \in 0..n : k \in T
<1> DEFINE P == {k \in Nat : k <= n => k \in T}
<1>1. 0 \in P
  OBVIOUS
<1>2. ASSUME NEW k \in Nat, k \in P PROVE k + 1 \in P
  BY <1>2
<1>3. \A k \in Nat : k \in P
  <2> HIDE DEF P
  <2> QED BY <1>1, <1>2, AllNat
<1> QED BY <1>3

\* r has the sums of the first elements of s.
Accumulates(s, r) == r[0] = 0 /\ \A k \in 1..Len(s) : r[k] = r[k - 1] + s[k]

\* Every total has the sums of the sequence's beginnings behind it.
LEMMA TotalPrefixes ==
  ASSUME NEW s \in Seq(Int)
  PROVE  \E r \in [0..Len(s) -> Int] : Accumulates(s, r) /\ r[Len(s)] = Total(s)
<1> DEFINE n == Len(s)
           h == [p \in (1..n) \X Int |-> p[2] + s[p[1]]]
           Is(g) == g = [T \in SUBSET (1..n) |->
                           IF T = {} THEN 0 ELSE g[T \ {Max(T)}] + s[Max(T)]]
<1>1. n \in Nat /\ DOMAIN s = 1..n
  OBVIOUS
<1>2. h \in [(1..n) \X Int -> Int]
  <2>1. ASSUME NEW p \in (1..n) \X Int PROVE p[2] + s[p[1]] \in Int
    <3>1. p[1] \in 1..n /\ p[2] \in Int
      OBVIOUS
    <3>2. s[p[1]] \in Int
      BY <3>1
    <3> QED BY <3>1, <3>2
  <2> QED BY <2>1
<1>3. ASSUME NEW i \in 1..n, NEW v \in Int PROVE h[<<i, v>>] = v + s[i]
  <2>1. <<i, v>> \in (1..n) \X Int /\ <<i, v>>[1] = i /\ <<i, v>>[2] = v
    OBVIOUS
  <2> QED BY <2>1
<1> HIDE DEF h, n
<1>4. PICK g \in [SUBSET (1..n) -> Int] : FoldsSegment(h, 0, n, g)
  <2> DEFINE V == Int
             b == 0
  <2>1. b \in V /\ h \in [(1..n) \X V -> V]
    BY <1>2
  <2> HIDE DEF V, b
  <2>2. \E g \in [SUBSET (1..n) -> V] : FoldsSegment(h, b, n, g)
    BY <1>1, <2>1, FoldSegment
  <2> QED BY <2>2 DEF V, b
<1>5. Is(g)
  <2>1. ASSUME NEW T \in SUBSET (1..n)
        PROVE  g[T] = IF T = {} THEN 0 ELSE g[T \ {Max(T)}] + s[Max(T)]
    <3>1. T # {} => Max(T) \in 1..n /\ g[T \ {Max(T)}] \in Int
      BY <1>1, MaxWithin
    <3> QED BY <1>3, <1>4, <3>1 DEF FoldsSegment
  <2> QED BY <2>1
<1>6. Total(s) = (CHOOSE f : Is(f))[1..n]
  BY <1>1 DEF Total, FoldLeft, MapThenFoldSet
<1> DEFINE f == CHOOSE f : Is(f)
<1>7. Is(f)
  BY <1>5
<1> HIDE DEF f
<1>8. \A T \in SUBSET (1..n) : f[T] = IF T = {} THEN 0 ELSE f[T \ {Max(T)}] + s[Max(T)]
  BY <1>7
<1> DEFINE r == [k \in 0..n |-> f[1..k]]
<1>9. r[0] = 0
  <2>1. 1..0 = {} /\ 0 \in 0..n /\ {} \in SUBSET (1..n)
    BY <1>1
  <2> QED BY <1>8, <2>1
<1>10. ASSUME NEW k \in 1..n PROVE r[k] = r[k - 1] + s[k]
  <2>1. k \in Nat /\ k > 0 /\ k - 1 \in 0..n /\ k \in 0..n /\ 1..k \in SUBSET (1..n)
    BY <1>1
  <2>2. Max(1..k) = k /\ (1..k) \ {k} = 1..(k - 1) /\ 1..k # {}
    BY <2>1, MaxSegment
  <2>3. f[1..k] = f[1..(k - 1)] + s[k]
    BY <1>8, <2>1, <2>2
  <2> QED BY <2>1, <2>3
<1>11. r[n] = Total(s)
  <2>1. n \in 0..n
    BY <1>1
  <2> QED BY <1>6, <2>1 DEF f
<1> DEFINE P == {k \in 0..n : r[k] \in Int}
<1>12. r = [k \in 0..n |-> r[k]]
  OBVIOUS
<1> HIDE DEF r
<1>13. 0 \in P
  BY <1>1, <1>9
<1>14. ASSUME NEW k \in 0..(n - 1), k \in P PROVE k + 1 \in P
  <2>1. k + 1 \in 1..n /\ (k + 1) - 1 = k /\ k + 1 \in 0..n
    BY <1>1
  <2>2. r[k + 1] = r[k] + s[k + 1]
    BY <1>10, <2>1
  <2>3. s[k + 1] \in Int
    BY <1>1, <2>1
  <2> QED BY <1>14, <2>1, <2>2, <2>3
<1>15. \A k \in 0..n : k \in P
  <2> HIDE DEF P
  <2> QED BY <1>1, <1>13, <1>14, UpTo
<1>16. r \in [0..n -> Int]
  BY <1>12, <1>15
<1> QED BY <1>9, <1>10, <1>11, <1>16 DEF n, Accumulates

\* Whatever accumulates s ends with its total.
LEMMA TotalIs ==
  ASSUME NEW s \in Seq(Int), NEW r, Accumulates(s, r)
  PROVE  Total(s) = r[Len(s)] /\ Total(s) \in Int
<1> DEFINE n == Len(s)
<1>1. n \in Nat
  OBVIOUS
<1>2. PICK f \in [0..n -> Int] : Accumulates(s, f) /\ f[n] = Total(s)
  BY TotalPrefixes
<1> DEFINE P == {k \in 0..n : f[k] = r[k]}
<1>3. /\ f[0] = 0 /\ \A k \in 1..n : f[k] = f[k - 1] + s[k]
      /\ r[0] = 0 /\ \A k \in 1..n : r[k] = r[k - 1] + s[k]
  BY <1>2 DEF Accumulates
<1> HIDE DEF n
<1>4. 0 \in P
  BY <1>1, <1>3
<1>5. ASSUME NEW k \in 0..(n - 1), k \in P PROVE k + 1 \in P
  <2>1. k + 1 \in 1..n /\ (k + 1) - 1 = k /\ k + 1 \in 0..n
    BY <1>1
  <2> QED BY <1>3, <1>5, <2>1
<1>6. \A k \in 0..n : k \in P
  <2> HIDE DEF P
  <2> QED BY <1>1, <1>4, <1>5, UpTo
<1>7. n \in 0..n
  BY <1>1
<1> QED BY <1>2, <1>6, <1>7 DEF n

\* A total is an integer.
LEMMA TotalInt ==
  ASSUME NEW s \in Seq(Int)
  PROVE  Total(s) \in Int
<1>1. PICK r \in [0..Len(s) -> Int] : Accumulates(s, r) /\ r[Len(s)] = Total(s)
  BY TotalPrefixes
<1>2. Len(s) \in 0..Len(s)
  OBVIOUS
<1> QED BY <1>1, <1>2

\* u combines s and t, place by place.
Combines(u, c, s, d, t) == \A i \in 1..Len(s) : u[i] = c * s[i] + d * t[i]

\* The total of a sequence that is a combination of two others.
LEMMA TotalLinear ==
  ASSUME NEW s \in Seq(Int), NEW t \in Seq(Int), NEW u \in Seq(Int),
         Len(t) = Len(s), Len(u) = Len(s), NEW c \in Int, NEW d \in Int,
         Combines(u, c, s, d, t)
  PROVE  Total(u) = c * Total(s) + d * Total(t)
<1> DEFINE n == Len(s)
<1>1. n \in Nat /\ Len(t) = n /\ Len(u) = n /\ \A i \in 1..n : s[i] \in Int /\ t[i] \in Int
  OBVIOUS
<1>2. PICK f \in [0..n -> Int] : Accumulates(s, f) /\ f[n] = Total(s)
  BY TotalPrefixes
<1>3. PICK g \in [0..n -> Int] : Accumulates(t, g) /\ g[n] = Total(t)
  BY <1>1, TotalPrefixes
<1> DEFINE r == [k \in 0..n |-> c * f[k] + d * g[k]]
<1>4. ASSUME NEW k \in 1..n PROVE r[k] = r[k - 1] + u[k]
  <2>1. k \in 0..n /\ k - 1 \in 0..n
    BY <1>1
  <2>2. f[k] = f[k - 1] + s[k] /\ g[k] = g[k - 1] + t[k] /\ u[k] = c * s[k] + d * t[k]
    BY <1>1, <1>2, <1>3 DEF Accumulates, Combines
  <2>3. f[k - 1] \in Int /\ g[k - 1] \in Int /\ s[k] \in Int /\ t[k] \in Int
    BY <1>1, <2>1
  <2> DEFINE x == f[k - 1]
             y == g[k - 1]
             a == s[k]
             b == t[k]
  <2>4. c * (x + a) + d * (y + b) = (c * x + d * y) + (c * a + d * b)
    <3>1. x \in Int /\ y \in Int /\ a \in Int /\ b \in Int
      BY <2>3
    <3> HIDE DEF x, y, a, b
    <3> QED BY <3>1
  <2>5. r[k] = c * f[k] + d * g[k] /\ r[k - 1] = c * f[k - 1] + d * g[k - 1]
    BY <2>1
  <2> HIDE DEF r
  <2> QED BY <2>2, <2>4, <2>5, Zenon
<1>5. r[0] = 0
  <2>1. f[0] = 0 /\ g[0] = 0 /\ 0 \in 0..n /\ c * 0 = 0 /\ d * 0 = 0
    BY <1>1, <1>2, <1>3 DEF Accumulates
  <2> QED BY <2>1
<1>6. r[n] = c * Total(s) + d * Total(t)
  <2>1. n \in 0..n
    BY <1>1
  <2> QED BY <1>2, <1>3, <2>1
<1> HIDE DEF r
<1>7. Accumulates(u, r)
  BY <1>1, <1>4, <1>5 DEF Accumulates
<1>8. Total(u) = r[Len(u)]
  BY <1>7, TotalIs
<1> QED BY <1>1, <1>6, <1>8

\* What replacing one element changes.
LEMMA TotalExcept ==
  ASSUME NEW s \in Seq(Int), NEW i \in 1..Len(s), NEW v \in Int
  PROVE  Total([s EXCEPT ![i] = v]) = Total(s) - s[i] + v
<1> DEFINE n == Len(s)
           u == [s EXCEPT ![i] = v]
<1>1. /\ n \in Nat /\ u \in Seq(Int) /\ Len(u) = n /\ s[i] \in Int
      /\ \A k \in 1..n : s[k] \in Int /\ u[k] = IF k = i THEN v ELSE s[k]
  OBVIOUS
<1>2. PICK f \in [0..n -> Int] : Accumulates(s, f) /\ f[n] = Total(s)
  BY TotalPrefixes
<1> HIDE DEF u
<1> DEFINE r == [k \in 0..n |-> f[k] + IF i <= k THEN v - s[i] ELSE 0]
<1>3. ASSUME NEW k \in 1..n PROVE r[k] = r[k - 1] + u[k]
  <2>1. k \in 0..n /\ k - 1 \in 0..n
    BY <1>1
  <2>2. f[k] = f[k - 1] + s[k] /\ f[k - 1] \in Int /\ s[k] \in Int
    BY <1>1, <1>2, <2>1 DEF Accumulates
  <2>3. /\ r[k] = f[k] + IF i <= k THEN v - s[i] ELSE 0
        /\ r[k - 1] = f[k - 1] + IF i <= k - 1 THEN v - s[i] ELSE 0
    BY <2>1
  <2> HIDE DEF r
  <2>4. CASE k = i
    BY <1>1, <2>2, <2>3, <2>4
  <2>5. CASE k # i
    <3>1. i <= k <=> i <= k - 1
      BY <1>1, <2>5
    <3> QED BY <1>1, <2>2, <2>3, <2>5, <3>1, SMTT(30)
  <2> QED BY <2>4, <2>5
<1>4. r[0] = 0
  <2>1. f[0] = 0 /\ 0 \in 0..n
    BY <1>1, <1>2 DEF Accumulates
  <2> QED BY <2>1
<1>5. r[n] = Total(s) + v - s[i]
  <2>1. n \in 0..n /\ i <= n
    BY <1>1
  <2> QED BY <1>1, <1>2, <2>1
<1> HIDE DEF r
<1>6. Accumulates(u, r)
  BY <1>1, <1>3, <1>4 DEF Accumulates
<1>7. Total(u) = r[Len(u)] /\ Total(s) \in Int
  BY <1>1, <1>6, TotalIs, TotalInt
<1> QED BY <1>1, <1>5, <1>7 DEF u

\* The last element is added to the total of those in front of it.
LEMMA TotalFront ==
  ASSUME NEW s \in Seq(Int), s # << >>
  PROVE  /\ Front(s) \in Seq(Int) /\ Len(Front(s)) = Len(s) - 1
         /\ \A i \in 1..(Len(s) - 1) : Front(s)[i] = s[i]
         /\ Total(s) = Total(Front(s)) + s[Len(s)]
<1> DEFINE n == Len(s)
           u == Front(s)
<1>1. /\ n \in Nat /\ n > 0 /\ u \in Seq(Int) /\ Len(u) = n - 1
      /\ \A i \in 1..(n - 1) : u[i] = s[i]
  <2>1. n \in Nat /\ n > 0
    OBVIOUS
  <2>2. u = SubSeq(s, 1, n - 1) /\ n - 1 \in Nat /\ n - 1 <= n
    BY <2>1 DEF Front
  <2>3. \A i \in 1..(n - 1) : s[i] \in Int
    OBVIOUS
  <2> HIDE DEF u
  <2>4. u = [i \in 1..(n - 1) |-> s[i]]
    BY <2>1, <2>2
  <2>5. u \in Seq(Int) /\ Len(u) = n - 1
    BY <2>1, <2>3, <2>4
  <2> QED BY <2>1, <2>4, <2>5
<1>2. PICK f \in [0..n -> Int] : Accumulates(s, f) /\ f[n] = Total(s)
  BY TotalPrefixes
<1> HIDE DEF u
<1>3. Accumulates(u, f)
  <2>1. ASSUME NEW k \in 1..(n - 1) PROVE f[k] = f[k - 1] + u[k]
    BY <1>1, <1>2, SMTT(30) DEF Accumulates
  <2> QED BY <1>1, <1>2, <2>1 DEF Accumulates
<1>4. Total(u) = f[n - 1]
  BY <1>1, <1>3, TotalIs
<1>5. f[n] = f[n - 1] + s[n]
  BY <1>1, <1>2 DEF Accumulates
<1> QED BY <1>1, <1>2, <1>4, <1>5 DEF u

\* A total of elements not below a bound ...
LEMMA TotalAbove ==
  ASSUME NEW s \in Seq(Int), NEW lo \in Int, \A i \in 1..Len(s) : lo <= s[i]
  PROVE  Len(s) * lo <= Total(s)
<1> DEFINE n == Len(s)
<1>1. n \in Nat /\ \A k \in 1..n : s[k] \in Int
  OBVIOUS
<1>2. PICK f \in [0..n -> Int] : Accumulates(s, f) /\ f[n] = Total(s)
  BY TotalPrefixes
<1> DEFINE T == {k \in 0..n : k * lo <= f[k]}
<1>3. 0 \in T
  <2>1. f[0] = 0 /\ 0 \in 0..n /\ 0 * lo = 0
    BY <1>1, <1>2 DEF Accumulates
  <2> QED BY <2>1
<1>4. ASSUME NEW k \in 0..(n - 1), k \in T PROVE k + 1 \in T
  <2>1. k + 1 \in 1..n /\ k \in 0..n /\ k + 1 \in 0..n /\ (k + 1) - 1 = k
    BY <1>1
  <2>2. f[k + 1] = f[k] + s[k + 1] /\ f[k] \in Int /\ s[k + 1] \in Int
    BY <1>1, <1>2, <2>1 DEF Accumulates
  <2>3. (k + 1) * lo = k * lo + lo /\ k * lo \in Int
    BY <2>1
  <2>4. lo <= s[k + 1] /\ k * lo <= f[k]
    BY <1>4, <2>1
  <2>5. (k + 1) * lo <= f[k + 1]
    BY <2>2, <2>3, <2>4
  <2> QED BY <2>1, <2>5
<1>5. \A k \in 0..n : k \in T
  <2> HIDE DEF T
  <2> QED BY <1>1, <1>3, <1>4, UpTo
<1>6. n \in T
  BY <1>1, <1>5
<1> QED BY <1>2, <1>6

\* ... and not above one.
LEMMA TotalBelow ==
  ASSUME NEW s \in Seq(Int), NEW hi \in Int, \A i \in 1..Len(s) : s[i] <= hi
  PROVE  Total(s) <= Len(s) * hi
<1> DEFINE n == Len(s)
           u == [i \in 1..n |-> -s[i]]
<1>1. n \in Nat /\ \A k \in 1..n : s[k] \in Int
  OBVIOUS
<1>2. u \in Seq(Int) /\ Len(u) = n /\ \A i \in 1..n : u[i] = -s[i]
  <2>1. \A i \in 1..n : -s[i] \in Int
    BY <1>1
  <2> QED BY <1>1, <2>1
<1> HIDE DEF u
<1>3. \A i \in 1..n : u[i] = (-1) * s[i] + 0 * s[i]
  BY <1>1, <1>2
<1>4. Total(u) = (-1) * Total(s) + 0 * Total(s)
  <2> DEFINE c == -1
             d == 0
  <2>1. c \in Int /\ d \in Int /\ Combines(u, c, s, d, s)
    BY <1>3 DEF Combines
  <2> HIDE DEF c, d
  <2>2. Total(u) = c * Total(s) + d * Total(s)
    BY <1>2, <2>1, TotalLinear
  <2> QED BY <2>2 DEF c, d
<1>5. Total(s) \in Int /\ Total(u) \in Int
  BY <1>2, TotalInt
<1>6. \A i \in 1..Len(u) : -hi <= u[i]
  BY <1>1, <1>2
<1>7. Len(u) * (-hi) <= Total(u)
  <2> DEFINE lo == -hi
  <2>1. lo \in Int /\ \A i \in 1..Len(u) : lo <= u[i]
    BY <1>6
  <2> HIDE DEF lo
  <2>2. Len(u) * lo <= Total(u)
    BY <1>2, <2>1, TotalAbove
  <2> QED BY <2>2 DEF lo
<1>8. n * (-hi) = -(n * hi) /\ n * hi \in Int
  BY <1>1
<1> QED BY <1>2, <1>4, <1>5, <1>7, <1>8

-----------------------------------------------------------------------------
(* Splitting *)

\* Quotient and remainder.
LEMMA Divided ==
  ASSUME NEW a \in Nat, NEW b \in Nat, b > 0
  PROVE  /\ a \div b \in Nat /\ a % b \in 0..(b - 1)
         /\ a = b * (a \div b) + (a % b)
OBVIOUS

\* Equal shares.
LEMMA EqualSharesAddUp ==
  ASSUME NEW total \in Nat, NEW n \in Nat, n > 0
  PROVE  LET s == EqualShares(total, n)
         IN /\ s \in Seq(Int) /\ Len(s) = n /\ Total(s) = total
            /\ \A i \in 1..n : /\ s[i] >= 0
                               /\ -n < s[i] * n - total /\ s[i] * n - total < n
<1> DEFINE s == EqualShares(total, n)
           q == total \div n
           m == total % n
<1>1. q \in Nat /\ m \in 0..(n - 1) /\ total = n * q + m
  BY Divided
<1>2. s = [i \in 1..n |-> q + (IF i <= m THEN 1 ELSE 0)]
  BY DEF EqualShares
<1> HIDE DEF q, m, s
<1>3. \A i \in 1..n : s[i] = q + (IF i <= m THEN 1 ELSE 0)
  BY <1>2
<1>4. \A i \in 1..n : s[i] \in Int
  BY <1>1, <1>3
<1>5. s \in Seq(Int) /\ Len(s) = n
  BY <1>2, <1>4
<1> DEFINE r == [k \in 0..n |-> k * q + (IF k <= m THEN k ELSE m)]
<1>6. r[0] = 0
  <2>1. 0 \in 0..n /\ 0 * q = 0
    BY <1>1
  <2> QED BY <1>1, <2>1
<1>7. ASSUME NEW k \in 1..n PROVE r[k] = r[k - 1] + s[k]
  <2>1. k \in 0..n /\ k - 1 \in 0..n
    OBVIOUS
  <2>2. /\ r[k] = k * q + (IF k <= m THEN k ELSE m)
        /\ r[k - 1] = (k - 1) * q + (IF k - 1 <= m THEN k - 1 ELSE m)
    BY <2>1
  <2>3. k * q = (k - 1) * q + q /\ (k - 1) * q \in Int /\ k * q \in Int
    BY <1>1
  <2>4. s[k] = q + (IF k <= m THEN 1 ELSE 0)
    BY <1>3
  <2> HIDE DEF r
  <2>5. CASE k <= m
    BY <1>1, <2>2, <2>3, <2>4, <2>5
  <2>6. CASE ~(k <= m)
    <3>1. (IF k - 1 <= m THEN k - 1 ELSE m) = m
      BY <1>1, <2>6
    <3> QED BY <1>1, <2>2, <2>3, <2>4, <2>6, <3>1
  <2> QED BY <2>5, <2>6
<1>8. r[n] = total
  <2>1. n \in 0..n /\ ~(n <= m)
    BY <1>1
  <2> QED BY <1>1, <2>1
<1> HIDE DEF r
<1>9. Accumulates(s, r)
  BY <1>5, <1>6, <1>7 DEF Accumulates
<1>10. Total(s) = total
  BY <1>5, <1>8, <1>9, TotalIs
<1>11. ASSUME NEW i \in 1..n
       PROVE  s[i] >= 0 /\ -n < s[i] * n - total /\ s[i] * n - total < n
  <2>1. n * q \in Int /\ (q + 1) * n = n * q + n /\ q * n = n * q
    BY <1>1
  <2>2. CASE i <= m
    <3>1. s[i] = q + 1
      BY <1>3, <2>2
    <3>2. s[i] * n = n * q + n
      BY <2>1, <3>1
    <3> QED BY <1>1, <2>1, <2>2, <3>1, <3>2
  <2>3. CASE ~(i <= m)
    <3>1. s[i] = q
      BY <1>1, <1>3, <2>3
    <3>2. s[i] * n = n * q
      BY <2>1, <3>1
    <3> QED BY <1>1, <2>1, <3>1, <3>2
  <2> QED BY <2>2, <2>3
<1> QED BY <1>5, <1>10, <1>11 DEF s

\* A function on 1..n is a sequence.
LEMMA IsSequence ==
  ASSUME NEW n \in Nat, NEW S, NEW f \in [1..n -> S]
  PROVE  f \in Seq(S) /\ Len(f) = n
OBVIOUS

\* Weighted shares.
LEMMA WeightedSharesAddUp ==
  ASSUME NEW total \in Nat, NEW w \in Seq(Int), w # << >>,
         \A i \in 1..Len(w) : w[i] > 0
  PROVE  LET s == WeightedShares(total, w)
             n == Len(w)
             W == Total(w)
         IN /\ s \in Seq(Int) /\ Len(s) = n /\ Total(s) = total /\ W \in Int /\ W > 0
            /\ \A i \in 1..n : s[i] >= 0
            /\ \A i \in 1..(n - 1) : /\ -W < s[i] * W - total * w[i]
                                     /\ s[i] * W - total * w[i] <= 0
            /\ 0 <= s[n] * W - total * w[n]
            /\ s[n] * W - total * w[n] < n * W
<1> DEFINE s == WeightedShares(total, w)
           n == Len(w)
           W == Total(w)
           down == [i \in 1..n |-> (total * w[i]) \div W]
           e == [i \in 1..n |-> total * w[i] - W * down[i]]
<1>1. n \in Nat /\ n > 0 /\ DOMAIN w = 1..n /\ \A i \in 1..n : w[i] \in Nat /\ 1 <= w[i]
  OBVIOUS
<1>2. W \in Int /\ W >= n
  <2> DEFINE lo == 1
  <2>1. lo \in Int /\ \A i \in 1..Len(w) : lo <= w[i]
    BY <1>1
  <2> HIDE DEF lo
  <2>2. Len(w) * lo <= Total(w)
    BY <2>1, TotalAbove
  <2>3. Total(w) \in Int
    BY TotalInt
  <2> QED BY <1>1, <2>2, <2>3 DEF lo
<1>3. s = [down EXCEPT ![n] = total - Total(Front(down))]
  BY <1>1 DEF WeightedShares
<1> HIDE DEF s, W, n
<1>4. ASSUME NEW i \in 1..n
      PROVE  /\ down[i] \in Nat /\ e[i] \in 0..(W - 1)
             /\ e[i] = total * w[i] - W * down[i]
  <2> DEFINE a == total * w[i]
  <2>1. a \in Nat /\ W \in Nat /\ W > 0
    BY <1>1, <1>2
  <2>2. down[i] = a \div W /\ e[i] = a - W * down[i]
    OBVIOUS
  <2> HIDE DEF a
  <2>3. a \div W \in Nat /\ a % W \in 0..(W - 1) /\ a = W * (a \div W) + (a % W)
    BY <2>1, Divided
  <2> HIDE DEF down, e
  <2>4. e[i] = a % W
    BY <2>1, <2>2, <2>3
  <2> QED BY <2>2, <2>3, <2>4 DEF a
<1>5. down \in Seq(Int) /\ Len(down) = n /\ e \in Seq(Int) /\ Len(e) = n
  <2>1. DOMAIN down = 1..n /\ DOMAIN e = 1..n /\ \A i \in 1..n : down[i] \in Int /\ e[i] \in Int
    BY <1>2, <1>4
  <2>2. down = [i \in 1..n |-> down[i]] /\ e = [i \in 1..n |-> e[i]]
    OBVIOUS
  <2> HIDE DEF down, e
  <2>3. down \in [1..n -> Int] /\ e \in [1..n -> Int]
    BY <2>1, <2>2
  <2> DEFINE S == Int
  <2>4. down \in [1..n -> S] /\ e \in [1..n -> S]
    BY <2>3
  <2> HIDE DEF S
  <2>5. down \in Seq(S) /\ Len(down) = n
    BY <1>1, <2>4, IsSequence
  <2>6. e \in Seq(S) /\ Len(e) = n
    BY <1>1, <2>4, IsSequence
  <2> QED BY <2>5, <2>6 DEF S
<1> HIDE DEF down, e
<1> DEFINE df == Front(down)
           ef == Front(e)
<1>6. /\ df \in Seq(Int) /\ Len(df) = n - 1 /\ Total(down) = Total(df) + down[n]
      /\ ef \in Seq(Int) /\ Len(ef) = n - 1 /\ Total(e) = Total(ef) + e[n]
      /\ \A i \in 1..(n - 1) : ef[i] = e[i]
  <2>1. down # << >> /\ e # << >>
    BY <1>1, <1>5
  <2> QED BY <1>5, <2>1, TotalFront
<1> HIDE DEF df, ef
<1>7. Total(df) \in Int /\ Total(ef) \in Int
  BY <1>6, TotalInt
<1>8. Total(e) = total * W - W * Total(down)
  <2> DEFINE d == -W
  <2>1. d \in Int /\ \A i \in 1..Len(w) : e[i] = total * w[i] + d * down[i]
    <3>1. ASSUME NEW i \in 1..n PROVE e[i] = total * w[i] + d * down[i]
      <4> DEFINE x == down[i]
                 y == total * w[i]
      <4>1. x \in Int /\ y \in Int /\ e[i] = y - W * x
        BY <1>1, <1>4
      <4> HIDE DEF x, y
      <4>2. d * x = -(W * x)
        BY <1>2, <4>1
      <4>3. e[i] = y + d * x
        BY <1>2, <4>1, <4>2
      <4> QED BY <4>3 DEF x, y
    <3> QED BY <1>2, <3>1 DEF n
  <2> HIDE DEF d
  <2>2. Total(e) = total * Total(w) + d * Total(down)
    <3>1. Len(down) = Len(w) /\ Len(e) = Len(w)
      BY <1>5 DEF n
    <3>2. total \in Int /\ d \in Int /\ w \in Seq(Int)
      BY <2>1
    <3>3. Combines(e, total, w, d, down)
      BY <2>1 DEF Combines
    <3>4. e \in Seq(Int) /\ down \in Seq(Int)
      BY <1>5
    <3> QED BY <3>1, <3>2, <3>3, <3>4, TotalLinear
  <2>3. Total(down) \in Int
    BY <1>5, TotalInt
  <2> DEFINE t == Total(down)
  <2>4. d * t = -(W * t)
    <3>1. t \in Int
      BY <2>3
    <3> HIDE DEF t
    <3> QED BY <1>2, <3>1 DEF d
  <2>5. Total(e) = total * W + d * t
    BY <2>2 DEF W
  <2>6. W * t \in Int
    <3>1. t \in Int
      BY <2>3
    <3> HIDE DEF t
    <3> QED BY <1>2, <3>1
  <2> QED BY <1>2, <2>4, <2>5, <2>6
<1> DEFINE rest == total - Total(df)
<1>9. rest \in Int /\ s = [down EXCEPT ![n] = rest]
  BY <1>3, <1>7 DEF df
<1> HIDE DEF rest
<1>10. /\ s \in Seq(Int) /\ Len(s) = n /\ s[n] = rest
       /\ \A i \in 1..(n - 1) : s[i] = down[i]
  BY <1>1, <1>5, <1>9
<1>11. Total(s) = total
  <2>1. n \in 1..Len(down)
    BY <1>1, <1>5
  <2>2. Total([down EXCEPT ![n] = rest]) = Total(down) - down[n] + rest
    BY <1>5, <1>9, <2>1, TotalExcept
  <2>3. down[n] \in Int
    BY <1>1, <1>4
  <2> QED BY <1>6, <1>7, <1>9, <2>2, <2>3 DEF rest
<1>12. 0 <= Total(ef) /\ Total(ef) <= (n - 1) * (W - 1)
  <2> DEFINE lo == 0
             hi == W - 1
  <2>1. /\ lo \in Int /\ \A i \in 1..Len(ef) : lo <= ef[i]
        /\ hi \in Int /\ \A i \in 1..Len(ef) : ef[i] <= hi
    <3>1. \A i \in 1..Len(ef) : i \in 1..n /\ ef[i] = e[i]
      BY <1>1, <1>6
    <3>2. \A i \in 1..Len(ef) : ef[i] \in 0..(W - 1)
      BY <1>4, <3>1
    <3> QED BY <1>2, <3>2
  <2>2. Len(ef) * lo = 0
    BY <1>1, <1>6
  <2> HIDE DEF lo, hi
  <2>3. Len(ef) * lo <= Total(ef)
    BY <1>6, <2>1, TotalAbove
  <2>4. Total(ef) <= Len(ef) * hi
    BY <1>6, <2>1, TotalBelow
  <2> QED BY <1>6, <2>2, <2>3, <2>4 DEF hi
<1>13. rest * W - total * w[n] = Total(ef)
  <2> DEFINE x == Total(df)
             y == down[n]
             z == w[n]
             f == Total(ef)
  <2>1. x \in Int /\ y \in Int /\ z \in Int /\ f \in Int /\ rest = total - x
    BY <1>1, <1>4, <1>7 DEF rest
  <2>2. f + (total * z - W * y) = total * W - W * (x + y)
    BY <1>1, <1>4, <1>6, <1>8
  <2> HIDE DEF x, y, z, f
  <2>3. (total - x) * W = total * W - W * x /\ W * (x + y) = W * x + W * y
    BY <1>2, <2>1
  <2>4. total * z \in Int /\ W * y \in Int /\ W * x \in Int /\ total * W \in Int
    BY <1>2, <2>1
  <2>5. (total - x) * W - total * z = f
    <3> DEFINE p == total * z
               q == W * y
               u == W * x
               v == total * W
    <3>1. p \in Int /\ q \in Int /\ u \in Int /\ v \in Int
      BY <2>4
    <3>2. f + (p - q) = v - (u + q) /\ (total - x) * W = v - u
      BY <2>2, <2>3
    <3> HIDE DEF p, q, u, v
    <3>3. v - u - p = f
      BY <2>1, <3>1, <3>2
    <3> QED BY <3>2, <3>3 DEF p
  <2> QED BY <2>1, <2>5 DEF f, z
<1>14. Total(ef) < n * W
  <2>1. n * W = (n - 1) * (W - 1) + (n + W - 1) /\ (n - 1) * (W - 1) \in Int
    BY <1>1, <1>2
  <2> QED BY <1>1, <1>2, <1>7, <1>12, <2>1
<1>15. rest >= 0
  <2>1. total * w[n] >= 0 /\ total * w[n] \in Int
    BY <1>1
  <2>2. rest * W \in Int
    BY <1>2, <1>9
  <2>3. rest * W >= 0
    BY <1>7, <1>12, <1>13, <2>1, <2>2
  <2> QED BY <1>1, <1>2, <1>9, <2>3
<1>16. ASSUME NEW i \in 1..(n - 1)
       PROVE  /\ s[i] >= 0 /\ -W < s[i] * W - total * w[i]
              /\ s[i] * W - total * w[i] <= 0
  <2> DEFINE x == down[i]
             y == total * w[i]
  <2>1. i \in 1..n
    BY <1>1
  <2>2. x \in Nat /\ y \in Int /\ y - W * x \in 0..(W - 1) /\ s[i] = x
    <3>1. down[i] \in Nat /\ e[i] \in 0..(W - 1) /\ e[i] = total * w[i] - W * down[i]
      BY <1>4, <2>1
    <3>2. total * w[i] \in Int
      BY <1>1, <2>1
    <3>3. s[i] = x
      BY <1>10
    <3> QED BY <3>1, <3>2, <3>3
  <2> HIDE DEF x
  <2>3. s[i] * W = W * x /\ W * x \in Int
    BY <1>2, <2>2
  <2> HIDE DEF y
  <2>4. -W < s[i] * W - y /\ s[i] * W - y <= 0
    BY <1>2, <2>2, <2>3
  <2> QED BY <2>2, <2>4 DEF y
<1>17. \A i \in 1..n : s[i] >= 0
  <2>1. \A i \in 1..n : i \in 1..(n - 1) \/ i = n
    BY <1>1
  <2> QED BY <1>10, <1>15, <1>16, <2>1
<1>18. 0 <= s[n] * W - total * w[n] /\ s[n] * W - total * w[n] < n * W
  BY <1>10, <1>12, <1>13, <1>14
<1>19. W > 0
  BY <1>1, <1>2
<1> QED BY <1>2, <1>10, <1>11, <1>16, <1>17, <1>18, <1>19 DEF n, W, s

-----------------------------------------------------------------------------
(* Rescaling *)

\* Some element is the largest.
LEMMA LargestIsOne ==
  ASSUME NEW s \in Seq(Int), s # << >>
  PROVE  Largest(s) \in 1..Len(s)
<1> DEFINE n == Len(s)
           Top(k) == \E i \in 1..k : \A j \in 1..k : s[j] <= s[i]
           T == {k \in 0..n : k = 0 \/ Top(k)}
<1>1. n \in Nat /\ n > 0 /\ DOMAIN s = 1..n /\ \A k \in 1..n : s[k] \in Int
  OBVIOUS
<1> HIDE DEF n
<1>2. 0 \in T
  BY <1>1
<1>3. ASSUME NEW k \in 0..(n - 1), k \in T PROVE k + 1 \in T
  <2>1. k + 1 \in 1..n /\ k + 1 \in 0..n /\ k \in 0..n /\ k \in Nat
    BY <1>1
  <2>2. \A j \in 1..(k + 1) : (j \in 1..k \/ j = k + 1) /\ s[j] \in Int
    BY <1>1, <2>1
  <2>3. CASE k = 0
    <3>1. \A j \in 1..(k + 1) : s[j] <= s[k + 1]
      BY <2>2, <2>3
    <3>2. Top(k + 1)
      BY <2>1, <3>1
    <3> QED BY <2>1, <3>2
  <2>4. CASE k # 0
    <3>1. PICK i \in 1..k : \A j \in 1..k : s[j] <= s[i]
      BY <1>3, <2>4
    <3>2. i \in 1..(k + 1) /\ k + 1 \in 1..(k + 1)
      BY <2>1
    <3>3. CASE s[k + 1] <= s[i]
      <4>1. ASSUME NEW j \in 1..(k + 1) PROVE s[j] <= s[i]
        <5>1. CASE j \in 1..k
          BY <3>1, <5>1
        <5>2. CASE j = k + 1
          BY <3>3, <5>2
        <5> QED BY <2>2, <5>1, <5>2
      <4>2. Top(k + 1)
        BY <3>2, <4>1
      <4> QED BY <2>1, <4>2
    <3>4. CASE ~(s[k + 1] <= s[i])
      <4>1. ASSUME NEW j \in 1..(k + 1) PROVE s[j] <= s[k + 1]
        <5>1. s[j] \in Int /\ s[k + 1] \in Int /\ s[i] \in Int
          BY <2>2, <3>2
        <5>2. CASE j \in 1..k
          <6>1. s[j] <= s[i]
            BY <3>1, <5>2
          <6> QED BY <3>4, <5>1, <6>1
        <5>3. CASE j = k + 1
          BY <5>1, <5>3
        <5> QED BY <2>2, <5>2, <5>3
      <4>2. Top(k + 1)
        BY <3>2, <4>1
      <4> QED BY <2>1, <4>2
    <3> QED BY <3>3, <3>4
  <2> QED BY <2>3, <2>4
<1>4. \A k \in 0..n : k \in T
  <2> HIDE DEF T
  <2> QED BY <1>1, <1>2, <1>3, UpTo
<1>5. Top(n)
  <2>1. n \in 0..n
    BY <1>1
  <2> HIDE DEF T
  <2>2. n \in T
    BY <1>4, <2>1
  <2> QED BY <1>1, <2>2 DEF T
<1> DEFINE M == {i \in DOMAIN s : \A j \in DOMAIN s : s[j] <= s[i]}
<1>6. M \subseteq Nat /\ M # {} /\ M \subseteq 1..n
  BY <1>1, <1>5, SMTT(30)
<1>7. Largest(s) = Min(M)
  BY DEF Largest
<1> HIDE DEF M
<1>8. Min(M) \in M
  BY <1>6, LeastNat
<1> QED BY <1>6, <1>7, <1>8 DEF n

\* Rounding a quotient is off by half a unit at most.
LEMMA Rounded ==
  ASSUME NEW a \in Nat, NEW b \in Nat, b > 0
  PROVE  /\ RoundQuotient(a, b) \in Int
         /\ -b <= 2 * (RoundQuotient(a, b) * b - a) /\ 2 * (RoundQuotient(a, b) * b - a) <= b
<1> DEFINE q == RoundQuotient(a, b)
           x == 2 * a + b
           y == 2 * b
<1>1. q = x \div y /\ x \in Nat /\ y \in Nat /\ y > 0 /\ x = 2 * a + b /\ y = 2 * b
  BY DEF RoundQuotient
<1> HIDE DEF q, x, y
<1>2. x \div y \in Nat /\ x % y \in 0..(y - 1) /\ x = y * (x \div y) + (x % y)
  BY <1>1, Divided
<1> DEFINE m == x % y
<1>3. q \in Nat /\ m \in Int /\ 0 <= m /\ m < y /\ x = y * q + m
  BY <1>1, <1>2
<1> HIDE DEF m
<1>4. y * q = 2 * (q * b) /\ q * b \in Int
  BY <1>1, <1>3
<1> DEFINE p == q * b
<1>5. p \in Int /\ 2 * a + b = 2 * p + m /\ 0 <= m /\ m < 2 * b /\ m \in Int
  BY <1>1, <1>3, <1>4
<1> HIDE DEF p
<1>6. -b <= 2 * (p - a) /\ 2 * (p - a) <= b
  BY <1>5
<1> QED BY <1>3, <1>6 DEF p, q

\* The splits follow the amount.
LEMMA RescaledAddUp ==
  ASSUME NEW s \in Seq(Nat), s # << >>, NEW old \in Nat, NEW new \in Nat
  PROVE  LET t == RescaleSplits(s, old, new)
             n == Len(s)
         IN /\ t \in Seq(Int) /\ Len(t) = n /\ Total(t) = new
            /\ Total(s) = old /\ old > 0 =>
                 \A i \in 1..n : /\ 2 * (t[i] * old - s[i] * new) <= n * old
                                 /\ -(n * old) <= 2 * (t[i] * old - s[i] * new)
<1> DEFINE t == RescaleSplits(s, old, new)
           n == Len(s)
           scaled == [i \in 1..n |-> IF old > 0 THEN RoundQuotient(s[i] * new, old)
                                                ELSE new \div Len(s)]
           k == Largest(scaled)
           v == scaled[k] + new - Total(scaled)
<1>1. /\ n \in Nat /\ n > 0 /\ DOMAIN s = 1..n /\ \A i \in 1..n : s[i] \in Nat
      /\ s \in Seq(Int) /\ n = Len(s)
  OBVIOUS
<1>2. t = [scaled EXCEPT ![k] = @ + new - Total(scaled)]
  BY <1>1 DEF RescaleSplits
<1> HIDE DEF t, n
<1>3. ASSUME NEW i \in 1..n
      PROVE  /\ scaled[i] \in Int
             /\ old > 0 => scaled[i] = RoundQuotient(s[i] * new, old)
  <2>1. s[i] * new \in Nat
    BY <1>1
  <2>2. CASE old > 0
    <3>1. RoundQuotient(s[i] * new, old) \in Int
      BY <2>1, <2>2, Rounded
    <3> QED BY <2>2, <3>1
  <2>3. CASE ~(old > 0)
    <3>1. new \div n \in Nat
      BY <1>1, Divided
    <3> QED BY <1>1, <2>3, <3>1
  <2> QED BY <2>2, <2>3
<1>4. scaled \in Seq(Int) /\ Len(scaled) = n
  <2>1. scaled \in [1..n -> Int]
    BY <1>3
  <2> DEFINE S == Int
  <2>2. scaled \in [1..n -> S]
    BY <2>1
  <2> HIDE DEF S, scaled
  <2>3. scaled \in Seq(S) /\ Len(scaled) = n
    BY <1>1, <2>2, IsSequence
  <2> QED BY <2>3 DEF S
<1> HIDE DEF scaled
<1>5. k \in 1..n
  <2>1. scaled # << >>
    BY <1>1, <1>4
  <2> QED BY <1>4, <2>1, LargestIsOne
<1> HIDE DEF k
<1>6. Total(scaled) \in Int /\ scaled[k] \in Int /\ v \in Int
  BY <1>3, <1>4, <1>5, TotalInt
<1>7. t = [scaled EXCEPT ![k] = v]
  BY <1>2, <1>4, <1>5
<1>8. /\ t \in Seq(Int) /\ Len(t) = n
      /\ t[k] = v /\ \A i \in (1..n) \ {k} : t[i] = scaled[i]
  <2> HIDE DEF v
  <2> QED BY <1>1, <1>4, <1>5, <1>6, <1>7
<1>9. Total(t) = new
  <2> HIDE DEF v
  <2>1. Total([scaled EXCEPT ![k] = v]) = Total(scaled) - scaled[k] + v
    BY <1>4, <1>5, <1>6, TotalExcept
  <2> QED BY <1>6, <1>7, <2>1 DEF v
<1>10. ASSUME Total(s) = old, old > 0, NEW i \in 1..n
       PROVE  /\ 2 * (t[i] * old - s[i] * new) <= n * old
              /\ -(n * old) <= 2 * (t[i] * old - s[i] * new)
  <2> DEFINE c == 2 * old
             d == -(2 * new)
             e == [j \in 1..n |-> c * scaled[j] + d * s[j]]
             z == [e EXCEPT ![k] = 0]
  <2>1. c \in Int /\ d \in Int
    OBVIOUS
  <2>2. ASSUME NEW j \in 1..n
        PROVE  /\ e[j] = 2 * (scaled[j] * old - s[j] * new) /\ e[j] \in Int
               /\ -old <= e[j] /\ e[j] <= old
    <3> DEFINE x == scaled[j]
               y == s[j]
               a == y * new
    <3>1. x \in Int /\ y \in Nat /\ a \in Nat /\ x = RoundQuotient(a, old)
      BY <1>1, <1>3, <1>10
    <3>2. e[j] = c * x + d * y /\ a = y * new
      OBVIOUS
    <3> HIDE DEF x, y, e, a
    <3>3. -old <= 2 * (x * old - a) /\ 2 * (x * old - a) <= old
      BY <1>10, <3>1, Rounded
    <3>4. c * x = 2 * (x * old) /\ d * y = -(2 * (y * new)) /\ x * old \in Int /\ y * new \in Int
      BY <3>1
    <3>5. e[j] = 2 * (x * old - a) /\ e[j] \in Int
      <4> DEFINE p == x * old
      <4>1. p \in Int /\ e[j] = 2 * p + -(2 * a)
        BY <3>2, <3>4
      <4> HIDE DEF p
      <4>2. e[j] = 2 * (p - a) /\ e[j] \in Int
        BY <3>1, <4>1
      <4> QED BY <4>2 DEF p
    <3> QED BY <3>2, <3>3, <3>5 DEF x, y
  <2> HIDE DEF c, d
  <2>3. e \in Seq(Int) /\ Len(e) = n /\ \A j \in 1..n : e[j] = c * scaled[j] + d * s[j]
    <3>1. e \in [1..n -> Int]
      BY <2>2
    <3> DEFINE S == Int
    <3>2. e \in [1..n -> S]
      BY <3>1
    <3>3. \A j \in 1..n : e[j] = c * scaled[j] + d * s[j]
      OBVIOUS
    <3> HIDE DEF S, e
    <3>4. e \in Seq(S) /\ Len(e) = n
      BY <1>1, <3>2, IsSequence
    <3> QED BY <3>3, <3>4 DEF S
  <2> HIDE DEF e
  <2>4. Total(e) = c * Total(scaled) + d * Total(s)
    <3>1. Combines(e, c, scaled, d, s)
      BY <1>4, <2>3 DEF Combines
    <3>2. Len(s) = Len(scaled) /\ Len(e) = Len(scaled)
      BY <1>1, <1>4, <2>3
    <3> QED BY <1>1, <1>4, <2>1, <2>3, <3>1, <3>2, TotalLinear
  <2>5. Total(z) = Total(e) - e[k] /\ z \in Seq(Int) /\ Len(z) = n
    <3> DEFINE b == 0
    <3>1. b \in Int
      OBVIOUS
    <3>2. z = [e EXCEPT ![k] = b]
      OBVIOUS
    <3> HIDE DEF b, z
    <3>3. Total([e EXCEPT ![k] = b]) = Total(e) - e[k] + b
      <4>1. k \in 1..Len(e)
        BY <1>5, <2>3
      <4> QED BY <2>3, <3>1, <4>1, TotalExcept
    <3>4. Total(e) \in Int /\ e[k] \in Int
      BY <1>5, <2>2, <2>3, TotalInt
    <3>5. z \in Seq(Int) /\ Len(z) = n
      <4>1. e \in Seq(Int) /\ Len(e) = n
        BY <2>3
      <4>2. k \in 1..Len(e)
        BY <1>5, <4>1
      <4> QED BY <3>1, <3>2, <4>1, <4>2
    <3> QED BY <3>2, <3>3, <3>4, <3>5 DEF b
  <2>6. \A j \in 1..n : -old <= z[j] /\ z[j] <= old
    BY <1>5, <2>2, <2>3, SMTT(30)
  <2> HIDE DEF z
  <2>7. -(n * old) <= Total(z) /\ Total(z) <= n * old
    <3> DEFINE lo == -old
    <3>1. lo \in Int /\ old \in Int /\ (\A j \in 1..Len(z) : lo <= z[j])
          /\ (\A j \in 1..Len(z) : z[j] <= old)
      BY <2>5, <2>6
    <3> HIDE DEF lo
    <3>2. Len(z) * lo <= Total(z)
      BY <2>5, <3>1, TotalAbove
    <3>3. Total(z) <= Len(z) * old
      BY <2>5, <3>1, TotalBelow
    <3>4. n * lo = -(n * old)
      BY <1>1 DEF lo
    <3> QED BY <2>5, <3>2, <3>3, <3>4
  <2>8. CASE i = k
    <3> DEFINE w == Total(scaled)
               x == scaled[k]
               y == s[k]
    <3>1. w \in Int /\ x \in Int /\ y \in Int /\ v = x + new - w
      <4>1. s[k] \in Nat
        BY <1>1, <1>5
      <4>2. v = x + new - w
        OBVIOUS
      <4> HIDE DEF v
      <4> QED BY <1>6, <4>1, <4>2
    <3>2. t[i] = v /\ s[i] = y
      BY <1>8, <2>8
    <3>3. Total(z) = (c * w + d * old) - 2 * (x * old - y * new)
      <4>1. Total(z) = (c * w + d * old) - e[k]
        <5>1. Total(e) = c * w + d * old
          BY <1>10, <2>4
        <5>2. Total(z) = Total(e) - e[k]
          BY <2>5
        <5> HIDE DEF w, e, z
        <5> QED BY <5>1, <5>2
      <4>2. e[k] = 2 * (x * old - y * new)
        BY <1>5, <2>2
      <4> QED BY <4>1, <4>2
    <3> HIDE DEF v, w, x, y
    <3>4. c * w = 2 * (w * old) /\ d * old = -(2 * (new * old))
      BY <3>1 DEF c, d
    <3>5. (x + new - w) * old = x * old + new * old - w * old
      BY <3>1
    <3> DEFINE p == x * old
               q == y * new
               f == new * old
               g == w * old
    <3>6. p \in Int /\ q \in Int /\ f \in Int /\ g \in Int
      BY <3>1
    <3>7. Total(z) = 2 * g + -(2 * f) - 2 * (p - q) /\ t[i] * old = p + f - g
      BY <3>1, <3>2, <3>3, <3>4, <3>5
    <3> HIDE DEF p, f, g, q
    <3>8. 2 * (t[i] * old - q) = -Total(z)
      BY <3>6, <3>7
    <3>9. s[i] * new = q /\ n * old \in Int /\ Total(z) \in Int
      BY <1>1, <2>5, <3>2, TotalInt DEF q
    <3> QED BY <2>7, <3>8, <3>9
  <2>9. CASE i # k
    <3>1. t[i] = scaled[i]
      BY <1>8, <2>9
    <3>2. 2 * (t[i] * old - s[i] * new) = e[i] /\ e[i] \in Int /\ -old <= e[i] /\ e[i] <= old
      BY <2>2, <3>1
    <3>3. old <= n * old /\ n * old \in Int
      <4>1. n * old = (n - 1) * old + old /\ (n - 1) * old \in Nat
        BY <1>1
      <4> QED BY <4>1
    <3> QED BY <3>2, <3>3
  <2> QED BY <2>8, <2>9
<1> QED BY <1>1, <1>8, <1>9, <1>10 DEF t

-----------------------------------------------------------------------------
(* Balances *)

\* u is s with one element raised by d.
Raised(u, s, i, d) ==
    /\ u \in Seq(Int) /\ Len(u) = Len(s) /\ Total(u) = Total(s) + d
    /\ \A k \in 1..Len(s) : u[k] = s[k] + IF k = i THEN d ELSE 0

\* Raising one element raises the total by as much.
LEMMA TotalRaised ==
  ASSUME NEW s \in Seq(Int), NEW i \in 1..Len(s), NEW d \in Int,
         NEW u, u = [s EXCEPT ![i] = s[i] + d]
  PROVE  Raised(u, s, i, d)
<1> DEFINE v == s[i] + d
<1>1. /\ s[i] \in Int /\ v \in Int /\ \A k \in 1..Len(s) : s[k] \in Int
      /\ u = [s EXCEPT ![i] = v]
  OBVIOUS
<1>2. Total(u) = Total(s) - s[i] + v /\ Total(s) \in Int
  <2> HIDE DEF v
  <2>1. Total([s EXCEPT ![i] = v]) = Total(s) - s[i] + v
    BY <1>1, TotalExcept
  <2> QED BY <1>1, <2>1, TotalInt
<1>3. u \in Seq(Int) /\ Len(u) = Len(s) /\ \A k \in 1..Len(s) : u[k] = IF k = i THEN v ELSE s[k]
  <2> HIDE DEF v
  <2> QED BY <1>1
<1>4. \A k \in 1..Len(s) : u[k] = s[k] + IF k = i THEN d ELSE 0
  BY <1>1, <1>3
<1>5. Total(u) = Total(s) + d
  BY <1>1, <1>2
<1> QED BY <1>3, <1>4, <1>5 DEF Raised

\* What the members are owed adds up to what was paid and not split.
LEMMA BalancesAddUp ==
  ASSUME NEW e, NEW t, e.splits \in Seq(Int), e.base \in Int, t.amount \in Int,
         e.payer \in 1..Len(e.splits), t.from \in 1..Len(e.splits),
         t.to \in 1..Len(e.splits)
  PROVE  Total(Balances(e, t)) = e.base - Total(e.splits)
<1> DEFINE s == e.splits
           n == Len(s)
           base == e.base
           payer == e.payer
           from == t.from
           to == t.to
           done == t.status = "confirmed"
           d == IF done THEN t.amount ELSE 0
           b == Balances(e, t)
           b0 == [u \in 1..n |-> -s[u]]
           b1 == [b0 EXCEPT ![payer] = b0[payer] + base]
           b2 == [b1 EXCEPT ![from] = b1[from] + d]
           b3 == [b2 EXCEPT ![to] = b2[to] + (-d)]
<1>1. /\ s \in Seq(Int) /\ n \in Nat /\ n = Len(s) /\ base \in Int /\ payer \in 1..n
      /\ from \in 1..n /\ to \in 1..n /\ d \in Int /\ DOMAIN s = 1..n
      /\ \A u \in 1..n : s[u] \in Int
  OBVIOUS
<1>2. b = [u \in 1..n |-> ((IF payer = u THEN base ELSE 0)
                            + (IF from = u THEN d ELSE 0))
                           - (s[u] + (IF to = u THEN d ELSE 0))]
  <2>1. \A u : Paid(u, e, t) = (IF payer = u THEN base ELSE 0) + (IF from = u THEN d ELSE 0)
    BY DEF Paid
  <2>2. \A u : Owed(u, e, t) = s[u] + (IF to = u THEN d ELSE 0)
    BY DEF Owed
  <2>3. b = [u \in 1..n |-> Paid(u, e, t) - Owed(u, e, t)]
    BY <1>1 DEF Balances
  <2> HIDE DEF b, d, s, n, payer, from, to, base
  <2> QED BY <2>1, <2>2, <2>3
<1> HIDE DEF b, d, s, n, payer, from, to, base
<1>3. b0 \in Seq(Int) /\ Len(b0) = n /\ \A u \in 1..n : b0[u] = -s[u]
  <2>1. \A u \in 1..n : -s[u] \in Int
    BY <1>1
  <2> QED BY <1>1, <2>1
<1>4. Total(b0) = -Total(s)
  <2> DEFINE c == -1
             z == 0
  <2>1. c \in Int /\ z \in Int /\ Combines(b0, c, s, z, s)
    <3>1. ASSUME NEW u \in 1..n PROVE b0[u] = c * s[u] + z * s[u]
      <4> DEFINE x == s[u]
      <4>1. x \in Int /\ b0[u] = -x
        BY <1>1, <1>3
      <4> HIDE DEF x, b0
      <4>2. b0[u] = c * x + z * x
        BY <4>1
      <4> QED BY <4>2 DEF x
    <3> QED BY <1>1, <3>1 DEF Combines
  <2> HIDE DEF c, z, b0
  <2>2. Total(b0) = c * Total(s) + z * Total(s)
    <3>1. s \in Seq(Int) /\ b0 \in Seq(Int) /\ Len(b0) = Len(s)
      BY <1>1, <1>3
    <3> QED BY <2>1, <3>1, TotalLinear
  <2>3. Total(s) \in Int
    BY <1>1, TotalInt
  <2> QED BY <2>2, <2>3 DEF c, z
<1> HIDE DEF b0
<1>5. /\ b1 \in Seq(Int) /\ Len(b1) = n /\ Total(b1) = Total(b0) + base
      /\ \A u \in 1..n : b1[u] = b0[u] + IF u = payer THEN base ELSE 0
  <2>1. b0 \in Seq(Int) /\ Len(b0) = n /\ payer \in 1..Len(b0) /\ base \in Int
    BY <1>1, <1>3
  <2>2. b1 = [b0 EXCEPT ![payer] = b0[payer] + base]
    OBVIOUS
  <2> HIDE DEF b1
  <2>3. Raised(b1, b0, payer, base)
    BY <2>1, <2>2, TotalRaised
  <2> QED BY <2>1, <2>3 DEF Raised
<1> HIDE DEF b1
<1>6. /\ b2 \in Seq(Int) /\ Len(b2) = n /\ Total(b2) = Total(b1) + d
      /\ \A u \in 1..n : b2[u] = b1[u] + IF u = from THEN d ELSE 0
  <2>1. b1 \in Seq(Int) /\ Len(b1) = n /\ from \in 1..Len(b1) /\ d \in Int
    BY <1>1, <1>5
  <2>2. b2 = [b1 EXCEPT ![from] = b1[from] + d]
    OBVIOUS
  <2> HIDE DEF b2
  <2>3. Raised(b2, b1, from, d)
    BY <2>1, <2>2, TotalRaised
  <2> QED BY <2>1, <2>3 DEF Raised
<1> HIDE DEF b2
<1>7. /\ b3 \in Seq(Int) /\ Len(b3) = n /\ Total(b3) = Total(b2) + (-d)
      /\ \A u \in 1..n : b3[u] = b2[u] + IF u = to THEN -d ELSE 0
  <2> DEFINE m == -d
  <2>1. m \in Int
    BY <1>1
  <2>2. b3 = [b2 EXCEPT ![to] = b2[to] + m]
    OBVIOUS
  <2> HIDE DEF m, b3
  <2>3. /\ b3 \in Seq(Int) /\ Len(b3) = n /\ Total(b3) = Total(b2) + m
        /\ \A u \in 1..n : b3[u] = b2[u] + IF u = to THEN m ELSE 0
    <3>1. b2 \in Seq(Int) /\ Len(b2) = n /\ to \in 1..Len(b2)
      BY <1>1, <1>6
    <3>2. Raised(b3, b2, to, m)
      BY <2>1, <2>2, <3>1, TotalRaised
    <3> QED BY <3>1, <3>2 DEF Raised
  <2> QED BY <2>3 DEF m
<1> HIDE DEF b3
<1>8. b = b3
  <2>1. b3 = [u \in 1..n |-> b3[u]]
    BY <1>7
  <2>2. ASSUME NEW u \in 1..n
        PROVE  b3[u] = ((IF payer = u THEN base ELSE 0) + (IF from = u THEN d ELSE 0))
                         - (s[u] + (IF to = u THEN d ELSE 0))
    <3>1. s[u] \in Int /\ b0[u] = -s[u]
      BY <1>1, <1>3
    <3>2. /\ b1[u] = b0[u] + IF u = payer THEN base ELSE 0
          /\ b2[u] = b1[u] + IF u = from THEN d ELSE 0
          /\ b3[u] = b2[u] + IF u = to THEN -d ELSE 0
      BY <1>5, <1>6, <1>7
    <3>3. base \in Int /\ d \in Int
      BY <1>1
    <3> DEFINE A == IF u = payer THEN base ELSE 0
               B == IF u = from THEN d ELSE 0
               C == IF u = to THEN d ELSE 0
    <3>4. b3[u] = ((b0[u] + A) + B) - C /\ A \in Int /\ B \in Int /\ C \in Int
      <4>1. b1[u] = b0[u] + A /\ A \in Int
        BY <3>2, <3>3
      <4>2. b2[u] = b1[u] + B /\ B \in Int
        BY <3>2, <3>3
      <4> HIDE DEF A, B
      <4>3. b3[u] = b2[u] - C /\ C \in Int
        <5>1. b0[u] \in Int /\ b2[u] \in Int
          <6>1. b0[u] \in Int
            BY <3>1
          <6>2. b1[u] \in Int
            BY <4>1, <6>1
          <6> QED BY <4>2, <6>1, <6>2
        <5>2. CASE u = to
          BY <3>2, <3>3, <5>1, <5>2
        <5>3. CASE u # to
          BY <3>2, <3>3, <5>1, <5>3
        <5> QED BY <5>2, <5>3
      <4> QED BY <3>1, <4>1, <4>2, <4>3
    <3>5. b3[u] = (A + B) - (s[u] + C)
      <4> HIDE DEF A, B, C
      <4> QED BY <3>1, <3>4
    <3> QED BY <3>5
  <2> QED BY <1>2, <2>1, <2>2
<1>9. Total(s) \in Int
  BY <1>1, TotalInt
<1>10. Total(b) = base - Total(s)
  <2>1. base \in Int /\ d \in Int
    BY <1>1
  <2>2. /\ Total(b0) = -Total(s) /\ Total(b1) = Total(b0) + base
        /\ Total(b2) = Total(b1) + d /\ Total(b) = Total(b2) + (-d)
    BY <1>4, <1>5, <1>6, <1>7, <1>8
  <2> QED BY <1>9, <2>1, <2>2
<1> QED BY <1>10 DEF b, s, base

-----------------------------------------------------------------------------
(* Reimbursements: one round *)

\* The entry of u when the balances are o, and who has not reached zero.
Entry(o, u) == [user |-> u, total |-> o[u]]
Entries(n) == [user : 1..n, total : Int]
Open(o) == {u \in 1..Len(o) : o[u] # 0}

\* w lists the balances o that are not zero, creditors first.
Lists(w, o) == /\ w \in Seq(Entries(Len(o))) /\ IsInjective(w)
               /\ \A a : a \in ToSet(w) <=> \E u \in Open(o) : a = Entry(o, u)
               /\ \A i, j \in 1..Len(w) : i < j /\ w[i].total < 0 => w[j].total < 0

\* The loop starts with such a list.
LEMMA WorkingLists ==
  ASSUME NEW o \in Seq(Int)
  PROVE  Lists(Working(o), o)
<1> DEFINE n == Len(o)
           E == Entries(n)
           s == [u \in 1..n |-> Entry(o, u)]
           c == Only(s, Creditors(s))
           d == Only(s, Debtors(s))
           w == c \o d
<1>1. n \in Nat /\ DOMAIN o = 1..n /\ \A u \in 1..n : o[u] \in Int
  OBVIOUS
<1>2. Working(o) = w
  BY <1>1 DEF Working, Entry
<1>3. \A u \in 1..n : /\ Entry(o, u) \in E /\ Entry(o, u).user = u
                      /\ Entry(o, u).total = o[u] /\ s[u] = Entry(o, u)
  BY <1>1 DEF Entry, Entries
<1>4. s \in Seq(E) /\ Len(s) = n
  <2>1. s \in [1..n -> E]
    BY <1>3
  <2> HIDE DEF s, E, n
  <2> QED BY <1>1, <2>1, IsSequence
<1>5. IsInjective(s)
  BY <1>3 DEF IsInjective
<1> HIDE DEF s, E
<1>6. \A a : a \in ToSet(s) <=> \E u \in 1..n : a = Entry(o, u)
  <2>1. \A a : a \in ToSet(s) <=> \E u \in 1..Len(s) : s[u] = a
    BY <1>4, Placement
  <2> QED BY <1>3, <1>4, <2>1
<1>7. /\ c \in Seq(E) /\ IsInjective(c) /\ ToSet(c) = ToSet(s) \cap Creditors(s)
      /\ d \in Seq(E) /\ IsInjective(d) /\ ToSet(d) = ToSet(s) \cap Debtors(s)
  BY <1>4, <1>5, Remaining
<1>8. /\ \A a \in ToSet(c) : a.total > 0 /\ \E u \in 1..n : a = Entry(o, u)
      /\ \A a \in ToSet(d) : a.total < 0 /\ \E u \in 1..n : a = Entry(o, u)
  BY <1>6, <1>7 DEF Creditors, Debtors
<1>9. /\ \A u \in 1..n : o[u] > 0 => Entry(o, u) \in ToSet(c)
      /\ \A u \in 1..n : o[u] < 0 => Entry(o, u) \in ToSet(d)
  BY <1>3, <1>6, <1>7 DEF Creditors, Debtors
<1> HIDE DEF c, d, w
<1>10. ToSet(c) \cap ToSet(d) = {}
  <2>1. ASSUME NEW a \in ToSet(c), a \in ToSet(d) PROVE FALSE
    <3>1. PICK u \in 1..n : a = Entry(o, u)
      BY <1>8
    <3>2. a.total = o[u] /\ o[u] \in Int
      BY <1>1, <1>3, <3>1
    <3> QED BY <1>8, <2>1, <3>2
  <2> QED BY <2>1
<1>11. w \in Seq(E) /\ IsInjective(w) /\ ToSet(w) = ToSet(c) \cup ToSet(d)
  BY <1>7, <1>10, Joined DEF w
<1>12. ASSUME NEW a PROVE a \in ToSet(w) <=> \E u \in Open(o) : a = Entry(o, u)
  <2>1. ASSUME a \in ToSet(w) PROVE \E u \in Open(o) : a = Entry(o, u)
    <3>1. a.total > 0 \/ a.total < 0
      BY <1>8, <1>11, <2>1
    <3>2. PICK u \in 1..n : a = Entry(o, u)
      BY <1>8, <1>11, <2>1
    <3>3. o[u] \in Int /\ a.total = o[u]
      BY <1>1, <1>3, <3>2
    <3>4. o[u] # 0
      BY <3>1, <3>3
    <3> QED BY <3>2, <3>4 DEF Open
  <2>2. ASSUME NEW u \in Open(o), a = Entry(o, u) PROVE a \in ToSet(w)
    <3>1. u \in 1..n /\ o[u] # 0
      BY DEF Open
    <3>2. o[u] > 0 \/ o[u] < 0
      BY <1>1, <3>1
    <3> QED BY <1>9, <1>11, <2>2, <3>1, <3>2
  <2> QED BY <2>1, <2>2
<1>13. ASSUME NEW i \in 1..Len(w), NEW j \in 1..Len(w), i < j, w[i].total < 0
       PROVE  w[j].total < 0
  <2>1. /\ Len(w) = Len(c) + Len(d) /\ Len(c) \in Nat /\ Len(d) \in Nat
        /\ \A k \in 1..Len(c) : w[k] = c[k]
        /\ \A k \in 1..Len(d) : w[Len(c) + k] = d[k]
    BY <1>7 DEF w
  <2>2. i \notin 1..Len(c)
    <3>1. SUFFICES ASSUME i \in 1..Len(c) PROVE FALSE
      OBVIOUS
    <3>2. w[i] \in ToSet(c)
      BY <1>7, <2>1, <3>1, Placement
    <3>3. PICK u \in 1..n : w[i] = Entry(o, u)
      BY <1>8, <3>2
    <3>4. w[i].total = o[u] /\ o[u] \in Int /\ w[i].total > 0
      BY <1>1, <1>3, <1>8, <3>2, <3>3
    <3> QED BY <1>13, <3>4
  <2>3. j - Len(c) \in 1..Len(d) /\ j = Len(c) + (j - Len(c))
    BY <1>13, <2>1, <2>2
  <2>4. w[j] = d[j - Len(c)]
    BY <2>1, <2>3
  <2>5. w[j] \in ToSet(d)
    BY <1>7, <2>3, <2>4, Placement
  <2> QED BY <1>8, <2>5
<1> QED BY <1>2, <1>11, <1>12, <1>13 DEF Lists, E

\* The first creditor c and the last debtor d settle x.
Ends(w, o, c, d, x) ==
    /\ w[1] = Entry(o, c) /\ w[Len(w)] = Entry(o, d)
    /\ c \in 1..Len(o) /\ d \in 1..Len(o) /\ c # d
    /\ o[c] > 0 /\ o[d] < 0
    /\ x \in Int /\ x > 0 /\ x <= o[c] /\ x <= -o[d] /\ (x = o[c] \/ x = -o[d])

\* One round of the loop pairs the first creditor with the last debtor.
LEMMA PairedEnds ==
  ASSUME NEW o \in Seq(Int), NEW w, Lists(w, o), Unsettled(w)
  PROVE  \E c, d, x : /\ Ends(w, o, c, d, x)
                      /\ Paired(w).pay = [from |-> d, to |-> c, amount |-> x]
                      /\ x = Lesser(Head(w).total, -Last(w).total)
<1> DEFINE n == Len(o)
           m == Len(w)
           c == Head(w).user
           d == Last(w).user
           x == Lesser(Head(w).total, -Last(w).total)
<1>1. n \in Nat /\ \A u \in 1..n : o[u] \in Int
  OBVIOUS
<1>2. /\ w \in Seq(Entries(n)) /\ m \in Nat /\ m > 1
      /\ Head(w) = w[1] /\ Last(w) = w[m] /\ Head(w).total > 0 /\ Last(w).total < 0
  BY DEF Lists, Unsettled, Last
<1> HIDE DEF m
<1>3. \A i \in 1..m : \E u \in Open(o) : w[i] = Entry(o, u)
  <2>1. \A i \in 1..m : w[i] \in ToSet(w)
    BY <1>2, Placement DEF m
  <2> QED BY <2>1 DEF Lists
<1>4. PICK u \in Open(o) : w[1] = Entry(o, u)
  BY <1>2, <1>3
<1>5. PICK v \in Open(o) : w[m] = Entry(o, v)
  BY <1>2, <1>3
<1>6. c = u /\ d = v /\ Head(w).total = o[u] /\ Last(w).total = o[v]
  BY <1>2, <1>4, <1>5 DEF Entry
<1>7. u \in 1..n /\ v \in 1..n /\ o[u] \in Int /\ o[v] \in Int /\ o[u] > 0 /\ o[v] < 0
  BY <1>1, <1>2, <1>6 DEF Open
<1>8. c # d
  BY <1>6, <1>7
<1>9. /\ x \in Int /\ x > 0 /\ x <= o[c] /\ x <= -o[d] /\ (x = o[c] \/ x = -o[d])
  <2>1. x = IF o[u] < -o[v] THEN o[u] ELSE -o[v]
    BY <1>6 DEF Lesser
  <2> HIDE DEF x, c, d
  <2> QED BY <1>6, <1>7, <2>1
<1>10. Ends(w, o, c, d, x)
  <2> HIDE DEF c, d, x
  <2> QED BY <1>4, <1>5, <1>6, <1>7, <1>8, <1>9 DEF Ends, m
<1>11. Paired(w).pay = [from |-> d, to |-> c, amount |-> x]
  BY DEF Paired
<1> QED BY <1>10, <1>11

\* What the balances are then.
Settled(o, c, d, x) == [u \in 1..Len(o) |-> (o[u] + (IF u = d THEN x ELSE 0))
                                             - (IF u = c THEN x ELSE 0)]

\* Paying moves money between the two and leaves the total alone.
LEMMA SettledAddsUp ==
  ASSUME NEW o \in Seq(Int), NEW c \in 1..Len(o), NEW d \in 1..Len(o), c # d, NEW x \in Int
  PROVE  LET q == Settled(o, c, d, x)
         IN q \in Seq(Int) /\ Len(q) = Len(o) /\ Total(q) = Total(o)
<1> DEFINE n == Len(o)
           q == Settled(o, c, d, x)
           y == -x
           p == [o EXCEPT ![d] = o[d] + x]
           r == [p EXCEPT ![c] = p[c] + y]
<1>1. n \in Nat /\ n = Len(o) /\ y \in Int /\ \A u \in 1..n : o[u] \in Int
  OBVIOUS
<1>2. Raised(p, o, d, x)
  <2> HIDE DEF p
  <2>1. p = [o EXCEPT ![d] = o[d] + x]
    BY DEF p
  <2> QED BY <2>1, TotalRaised
<1> HIDE DEF p
<1>3. /\ p \in Seq(Int) /\ Len(p) = n /\ Total(p) = Total(o) + x
      /\ \A u \in 1..n : p[u] = o[u] + IF u = d THEN x ELSE 0
  BY <1>2 DEF Raised
<1> HIDE DEF y, n
<1>4. Raised(r, p, c, y)
  <2>1. r = [p EXCEPT ![c] = p[c] + y]
    OBVIOUS
  <2>2. c \in 1..Len(p) /\ p \in Seq(Int)
    BY <1>1, <1>3
  <2> HIDE DEF r
  <2> QED BY <1>1, <2>1, <2>2, TotalRaised
<1> HIDE DEF r
<1>5. /\ r \in Seq(Int) /\ Len(r) = n /\ Total(r) = Total(p) + y
      /\ \A u \in 1..n : r[u] = p[u] + IF u = c THEN y ELSE 0
  BY <1>3, <1>4 DEF Raised
<1>6. Total(r) = Total(o)
  <2>1. Total(o) \in Int
    BY TotalInt
  <2> QED BY <1>3, <1>5, <2>1 DEF y
<1>7. r = q
  <2>1. ASSUME NEW u \in 1..n
        PROVE  r[u] = (o[u] + (IF u = d THEN x ELSE 0)) - (IF u = c THEN x ELSE 0)
    <3>1. o[u] \in Int /\ p[u] = o[u] + IF u = d THEN x ELSE 0
      BY <1>1, <1>3
    <3>2. r[u] = p[u] + IF u = c THEN y ELSE 0
      BY <1>5
    <3>3. p[u] \in Int
      BY <3>1
    <3>4. r[u] = p[u] - (IF u = c THEN x ELSE 0)
      BY <3>2, <3>3 DEF y
    <3> QED BY <3>1, <3>4
  <2>2. r = [u \in 1..n |-> r[u]]
    BY <1>5
  <2>3. q = [u \in 1..n |-> (o[u] + (IF u = d THEN x ELSE 0)) - (IF u = c THEN x ELSE 0)]
    BY <1>1 DEF Settled
  <2> HIDE DEF q
  <2> QED BY <2>1, <2>2, <2>3
<1> QED BY <1>1, <1>5, <1>6, <1>7

\* Who had a credit or a debt has none of the other kind, and one of the two
\* is done.
LEMMA SettledSides ==
  ASSUME NEW o \in Seq(Int), NEW w, NEW c, NEW d, NEW x, Ends(w, o, c, d, x)
  PROVE  LET q == Settled(o, c, d, x)
         IN /\ \A u \in 1..Len(o) : /\ o[u] >= 0 => q[u] >= 0
                                    /\ o[u] <= 0 => q[u] <= 0
            /\ Open(q) \subseteq Open(o)
            /\ q[c] = 0 \/ q[d] = 0
            /\ c \in Open(o) /\ d \in Open(o)
<1> DEFINE n == Len(o)
           q == Settled(o, c, d, x)
<1>1. /\ n \in Nat /\ \A u \in 1..n : o[u] \in Int
      /\ c \in 1..n /\ d \in 1..n /\ c # d /\ o[c] > 0 /\ o[d] < 0
      /\ x \in Int /\ x > 0 /\ x <= o[c] /\ x <= -o[d] /\ (x = o[c] \/ x = -o[d])
  BY DEF Ends
<1>2. \A u \in 1..n : q[u] = (o[u] + (IF u = d THEN x ELSE 0)) - (IF u = c THEN x ELSE 0)
  BY DEF Settled
<1>3. Len(q) = n
  BY <1>1 DEF Settled
<1> HIDE DEF n, q
<1>4. q[c] = o[c] - x /\ q[d] = o[d] + x /\ o[c] \in Int /\ o[d] \in Int
  <2>1. o[c] \in Int /\ o[d] \in Int
    BY <1>1
  <2>2. q[c] = (o[c] + 0) - x
    BY <1>1, <1>2
  <2>3. q[d] = (o[d] + x) - 0
    BY <1>1, <1>2
  <2> QED BY <1>1, <2>1, <2>2, <2>3
<1>5. \A u \in 1..n : u # c /\ u # d => q[u] = o[u]
  <2>1. ASSUME NEW u \in 1..n, u # c, u # d PROVE q[u] = o[u]
    <3>1. q[u] = (o[u] + 0) - 0 /\ o[u] \in Int
      BY <1>1, <1>2, <2>1
    <3> QED BY <3>1
  <2> QED BY <2>1
<1>6. ASSUME NEW u \in 1..n PROVE (o[u] >= 0 => q[u] >= 0) /\ (o[u] <= 0 => q[u] <= 0)
  <2>1. CASE u = c
    BY <1>1, <1>4, <2>1
  <2>2. CASE u = d
    BY <1>1, <1>4, <2>2
  <2>3. CASE u # c /\ u # d
    BY <1>5, <2>3
  <2> QED BY <2>1, <2>2, <2>3
<1>7. ASSUME NEW u \in 1..n, q[u] # 0 PROVE o[u] # 0
  <2>1. CASE u = c \/ u = d
    BY <1>1, <2>1
  <2>2. CASE u # c /\ u # d
    BY <1>5, <1>7, <2>2
  <2> QED BY <2>1, <2>2
<1>8. q[c] = 0 \/ q[d] = 0
  BY <1>1, <1>4
<1>9. Open(q) \subseteq Open(o) /\ c \in Open(o) /\ d \in Open(o)
  <2>1. o[c] # 0 /\ o[d] # 0
    BY <1>1
  <2> QED BY <1>1, <1>3, <1>7, <2>1 DEF Open, n
<1> QED BY <1>6, <1>8, <1>9 DEF n, q

\* The entries after the round list the balances after it.
LEMMA PairedLists ==
  ASSUME NEW o \in Seq(Int), NEW w, Lists(w, o), NEW c, NEW d, NEW x,
         Ends(w, o, c, d, x), x = Lesser(Head(w).total, -Last(w).total), Len(w) > 1
  PROVE  Lists(Paired(w).rest, Settled(o, c, d, x))
<1> DEFINE n == Len(o)
           m == Len(w)
           E == Entries(n)
           q == Settled(o, c, d, x)
           s == [i \in 1..m |-> Entry(q, w[i].user)]
           K == Creditors(s) \cup Debtors(s)
           r == Only(s, K)
<1>1. /\ w \in Seq(E) /\ IsInjective(w) /\ m \in Nat /\ m > 1 /\ DOMAIN w = 1..m
      /\ c \in 1..n /\ d \in 1..n /\ c # d /\ x \in Int
      /\ n \in Nat /\ \A u \in 1..n : o[u] \in Int
  BY DEF Lists, Ends
<1>2. q \in Seq(Int) /\ Len(q) = n /\ \A u \in 1..n : q[u] \in Int
  <2>1. q \in Seq(Int) /\ Len(q) = n
    BY <1>1, SettledAddsUp
  <2> HIDE DEF q
  <2> QED BY <2>1
<1>3. /\ \A u \in 1..n : (o[u] >= 0 => q[u] >= 0) /\ (o[u] <= 0 => q[u] <= 0)
      /\ Open(q) \subseteq Open(o)
  BY SettledSides
<1>4. \A i \in 1..m : \E u \in Open(o) : w[i] = Entry(o, u)
  <2>1. \A i \in 1..m : w[i] \in ToSet(w)
    BY <1>1, Placement
  <2> QED BY <2>1 DEF Lists
<1>5. \A i \in 1..m : /\ w[i].user \in 1..n /\ w[i].user \in Open(o)
                      /\ w[i] = Entry(o, w[i].user) /\ w[i].total = o[w[i].user]
  <2>1. \A u : Entry(o, u).user = u /\ Entry(o, u).total = o[u]
    BY DEF Entry
  <2> QED BY <1>4, <2>1 DEF Open
<1>6. \A i, j \in 1..m : w[i].user = w[j].user => i = j
  <2>1. \A i, j \in 1..m : w[i] = w[j] => i = j
    BY <1>1 DEF IsInjective
  <2> QED BY <1>5, <2>1
<1> HIDE DEF E, n
<1>7. \A u \in 1..n : /\ Entry(q, u) \in E /\ Entry(q, u).user = u
                      /\ Entry(q, u).total = q[u]
  BY <1>2 DEF Entry, Entries, E
<1>8. \A i \in 1..m : s[i] = Entry(q, w[i].user)
  OBVIOUS
<1>9. s \in Seq(E) /\ Len(s) = m /\ IsInjective(s)
  <2>1. s \in [1..m -> E] /\ DOMAIN s = 1..m
    BY <1>5, <1>7
  <2>2. \A i, j \in 1..m : s[i] = s[j] => i = j
    BY <1>5, <1>6, <1>7, <1>8
  <2> HIDE DEF s, m
  <2>3. s \in Seq(E) /\ Len(s) = m
    BY <1>1, <2>1, IsSequence
  <2> QED BY <2>1, <2>2, <2>3 DEF IsInjective
<1>10. Paired(w).rest = r
  <2> DEFINE a == Lesser(Head(w).total, -Last(w).total)
             z == [[w EXCEPT ![1].total = @ - a] EXCEPT ![Len(w)].total = @ + a]
  <2>1. Paired(w).rest = Only(z, Creditors(z) \cup Debtors(z))
    BY DEF Paired
  <2>2. a = x
    OBVIOUS
  <2>3. 1 \in 1..m /\ m \in 1..m /\ m # 1
    BY <1>1
  <2> HIDE DEF a
  <2>4. DOMAIN z = 1..m /\ z = [i \in 1..m |-> z[i]]
    BY <1>1
  <2>5. ASSUME NEW i \in 1..m PROVE z[i] = s[i]
    <3>1. /\ i = 1 => z[i] = [w[1] EXCEPT !.total = w[1].total - a]
          /\ i = m => z[i] = [w[m] EXCEPT !.total = w[m].total + a]
          /\ i # 1 /\ i # m => z[i] = w[i]
      BY <1>1, <2>3
    <3> HIDE DEF z
    <3>2. \A u : q[u] \in {q[u]} /\ \A v : [Entry(o, u) EXCEPT !.total = v] = [user |-> u, total |-> v]
      BY DEF Entry
    <3>3. w[1] = Entry(o, c) /\ w[m] = Entry(o, d)
      BY DEF Ends
    <3>4. w[1].user = c /\ w[1].total = o[c] /\ w[m].user = d /\ w[m].total = o[d]
      BY <3>3 DEF Entry
    <3>5. /\ q[c] = o[c] - x /\ q[d] = o[d] + x
          /\ \A u \in 1..n : u # c /\ u # d => q[u] = o[u]
      <4>1. \A u \in 1..n : q[u] = (o[u] + (IF u = d THEN x ELSE 0)) - (IF u = c THEN x ELSE 0)
        BY DEF Settled, n
      <4> HIDE DEF q
      <4>2. q[c] = (o[c] + 0) - x /\ q[d] = (o[d] + x) - 0 /\ o[c] \in Int /\ o[d] \in Int
        BY <1>1, <4>1
      <4>3. ASSUME NEW u \in 1..n, u # c, u # d PROVE q[u] = o[u]
        <5>1. q[u] = (o[u] + 0) - 0 /\ o[u] \in Int
          BY <1>1, <4>1, <4>3
        <5> QED BY <5>1
      <4>4. q[c] = o[c] - x /\ q[d] = o[d] + x
        BY <1>1, <4>2
      <4> QED BY <4>3, <4>4
    <3> HIDE DEF q
    <3>6. CASE i = 1
      <4>1. z[i] = [user |-> c, total |-> o[c] - x]
        BY <2>2, <3>1, <3>2, <3>3, <3>4, <3>6
      <4>2. s[i] = [user |-> c, total |-> q[c]]
        BY <1>8, <3>4, <3>6 DEF Entry
      <4> QED BY <3>5, <4>1, <4>2
    <3>7. CASE i = m
      <4>1. z[i] = [user |-> d, total |-> o[d] + x]
        BY <2>2, <3>1, <3>2, <3>3, <3>4, <3>7
      <4>2. s[i] = [user |-> d, total |-> q[d]]
        BY <1>8, <3>4, <3>7 DEF Entry
      <4> QED BY <3>5, <4>1, <4>2
    <3>8. CASE i # 1 /\ i # m
      <4>1. w[i].user # c /\ w[i].user # d
        BY <1>6, <2>3, <3>4, <3>8
      <4>2. q[w[i].user] = o[w[i].user]
        BY <1>5, <3>5, <4>1
      <4>3. Entry(q, w[i].user) = Entry(o, w[i].user)
        BY <4>2 DEF Entry
      <4> QED BY <1>5, <1>8, <3>1, <3>8, <4>3
    <3> QED BY <3>6, <3>7, <3>8
  <2>6. z = s
    <3>1. s = [i \in 1..m |-> s[i]]
      OBVIOUS
    <3> HIDE DEF z, s
    <3> QED BY <2>4, <2>5, <3>1
  <2> HIDE DEF z, s
  <2> QED BY <2>1, <2>6
<1> HIDE DEF s
<1>11. /\ r \in Seq(E) /\ IsInjective(r) /\ ToSet(r) = ToSet(s) \cap K
       /\ \A a, b : Before(r, a, b) <=> Before(s, a, b) /\ a \in K /\ b \in K
  <2> HIDE DEF K, E
  <2> QED BY <1>9, Remaining
<1> HIDE DEF r, q
<1>12. \A a : a \in ToSet(s) <=> \E i \in 1..m : a = Entry(q, w[i].user)
  <2>1. \A a : a \in ToSet(s) <=> \E i \in 1..Len(s) : s[i] = a
    BY <1>9, Placement
  <2> QED BY <1>8, <1>9, <2>1
<1>13. \A a : a \in K <=> a \in ToSet(s) /\ (a.total > 0 \/ a.total < 0)
  BY DEF Creditors, Debtors
<1> HIDE DEF K
<1>14. ASSUME NEW a PROVE a \in ToSet(r) <=> \E u \in Open(q) : a = Entry(q, u)
  <2>1. ASSUME a \in ToSet(r) PROVE \E u \in Open(q) : a = Entry(q, u)
    <3>1. a \in ToSet(s) /\ (a.total > 0 \/ a.total < 0)
      BY <1>11, <1>13, <2>1
    <3>2. PICK i \in 1..m : a = Entry(q, w[i].user)
      BY <1>12, <3>1
    <3>3. w[i].user \in 1..n /\ a.total = q[w[i].user] /\ q[w[i].user] \in Int
      BY <1>2, <1>5, <1>7, <3>2
    <3>4. q[w[i].user] # 0
      BY <3>1, <3>3
    <3>5. w[i].user \in Open(q)
      BY <1>2, <3>3, <3>4 DEF Open
    <3> QED BY <3>2, <3>5
  <2>2. ASSUME NEW u \in Open(q), a = Entry(q, u) PROVE a \in ToSet(r)
    <3>1. u \in 1..n /\ q[u] # 0 /\ u \in Open(o)
      BY <1>2, <1>3 DEF Open
    <3>2. Entry(o, u) \in ToSet(w)
      BY <3>1 DEF Lists
    <3>3. PICK i \in 1..m : w[i] = Entry(o, u)
      BY <1>1, <3>2, Placement
    <3>4. w[i].user = u
      BY <3>3 DEF Entry
    <3>5. a \in ToSet(s)
      BY <1>12, <2>2, <3>4
    <3>6. a.total > 0 \/ a.total < 0
      <4>1. a.total = q[u] /\ q[u] \in Int
        BY <1>2, <1>7, <2>2, <3>1
      <4> QED BY <3>1, <4>1
    <3> QED BY <1>11, <1>13, <3>5, <3>6
  <2> QED BY <2>1, <2>2
<1>15. ASSUME NEW i \in 1..Len(r), NEW j \in 1..Len(r), i < j, r[i].total < 0
       PROVE  r[j].total < 0
  <2>1. Before(r, r[i], r[j])
    BY <1>15 DEF Before
  <2>2. Before(s, r[i], r[j]) /\ r[j] \in K
    BY <1>11, <2>1
  <2>3. PICK k \in 1..m, l \in 1..m : k < l /\ s[k] = r[i] /\ s[l] = r[j]
    BY <1>9, <2>2 DEF Before
  <2>4. /\ w[k].user \in 1..n /\ r[i].total = q[w[k].user]
        /\ w[l].user \in 1..n /\ r[j].total = q[w[l].user]
    BY <1>5, <1>7, <1>8, <2>3, SMTT(30)
  <2>5. o[w[k].user] < 0
    <3>1. o[w[k].user] \in Int /\ q[w[k].user] \in Int
      BY <1>1, <1>2, <2>4
    <3>2. ~(q[w[k].user] >= 0)
      BY <1>15, <2>4, <3>1
    <3>3. ~(o[w[k].user] >= 0)
      BY <1>3, <2>4, <3>2
    <3> QED BY <3>1, <3>3
  <2>6. w[l].total < 0
    <3>1. w[k].total < 0
      BY <1>5, <2>5
    <3>2. \A h, g \in 1..m : h < g /\ w[h].total < 0 => w[g].total < 0
      BY DEF Lists
    <3> QED BY <2>3, <3>1, <3>2
  <2>7. q[w[l].user] <= 0
    <3>1. o[w[l].user] < 0 /\ o[w[l].user] \in Int
      BY <1>1, <1>5, <2>6
    <3>2. o[w[l].user] <= 0
      BY <3>1
    <3> QED BY <1>3, <2>4, <3>2
  <2>8. r[j].total > 0 \/ r[j].total < 0
    BY <1>13, <2>2
  <2>9. q[w[l].user] \in Int
    BY <1>2, <2>4
  <2> QED BY <2>4, <2>7, <2>8, <2>9
<1>16. Lists(r, q)
  <2>1. Entries(Len(q)) = E
    BY <1>2 DEF E
  <2> QED BY <1>11, <1>14, <1>15, <2>1 DEF Lists
<1> QED BY <1>10, <1>16 DEF q

-----------------------------------------------------------------------------
(* Reimbursements: the loop *)

\* The total of nothing, of one element more, and what a total of 0 says.
LEMMA TotalEmpty ==
  ASSUME NEW s \in Seq(Int), Len(s) = 0
  PROVE  Total(s) = 0
<1>1. PICK f \in [0..Len(s) -> Int] : Accumulates(s, f) /\ f[Len(s)] = Total(s)
  BY TotalPrefixes
<1> QED BY <1>1 DEF Accumulates

\* One element more adds itself to the total.
LEMMA TotalAppend ==
  ASSUME NEW s \in Seq(Int), NEW v \in Int
  PROVE  Total(Append(s, v)) = Total(s) + v
<1> DEFINE n == Len(s)
           u == Append(s, v)
           w == Front(u)
<1>1. /\ n \in Nat /\ u \in Seq(Int) /\ Len(u) = n + 1 /\ u[n + 1] = v
      /\ \A i \in 1..n : u[i] = s[i]
      /\ s = [i \in 1..n |-> s[i]]
  OBVIOUS
<1> HIDE DEF u
<1>2. /\ w \in Seq(Int) /\ Len(w) = Len(u) - 1
      /\ \A i \in 1..(Len(u) - 1) : w[i] = u[i]
      /\ Total(u) = Total(w) + u[Len(u)]
  <2>1. u # << >>
    BY <1>1
  <2> QED BY <1>1, <2>1, TotalFront
<1> HIDE DEF w
<1>3. w = s
  <2>1. Len(w) = n /\ \A i \in 1..n : w[i] = s[i]
    BY <1>1, <1>2
  <2>2. w = [i \in 1..n |-> w[i]]
    BY <1>2, <2>1
  <2> QED BY <1>1, <2>1, <2>2
<1> QED BY <1>1, <1>2, <1>3 DEF u

\* Elements of one sign that add up to nothing are nothing each.
LEMMA TotalZero ==
  ASSUME NEW s \in Seq(Int), Total(s) = 0,
         (\A i \in 1..Len(s) : s[i] >= 0) \/ (\A i \in 1..Len(s) : s[i] <= 0)
  PROVE  \A i \in 1..Len(s) : s[i] = 0
<1> SUFFICES ASSUME NEW i \in 1..Len(s) PROVE s[i] = 0
  OBVIOUS
<1> DEFINE b == 0
           z == [s EXCEPT ![i] = b]
<1>1. b \in Int /\ b = 0 /\ s[i] \in Int
  OBVIOUS
<1> HIDE DEF b
<1>2. z \in Seq(Int) /\ Len(z) = Len(s) /\ \A k \in 1..Len(s) : z[k] = IF k = i THEN b ELSE s[k]
  BY <1>1
<1>3. Total(z) = Total(s) - s[i] + b
  BY <1>1, TotalExcept
<1> HIDE DEF z
<1>4. Len(z) * b = 0
  BY <1>1, <1>2
<1>5. Total(z) = -s[i]
  BY <1>1, <1>3
<1>6. CASE \A k \in 1..Len(s) : s[k] >= 0
  <2>1. \A k \in 1..Len(z) : b <= z[k]
    <3>1. \A k \in 1..Len(s) : s[k] \in Int
      OBVIOUS
    <3> QED BY <1>1, <1>2, <1>6, <3>1
  <2>2. Len(z) * b <= Total(z)
    BY <1>1, <1>2, <2>1, TotalAbove
  <2>3. s[i] >= 0
    BY <1>6
  <2> QED BY <1>1, <1>4, <1>5, <2>2, <2>3
<1>7. CASE \A k \in 1..Len(s) : s[k] <= 0
  <2>1. \A k \in 1..Len(z) : z[k] <= b
    <3>1. \A k \in 1..Len(s) : s[k] \in Int
      OBVIOUS
    <3> QED BY <1>1, <1>2, <1>7, <3>1
  <2>2. Total(z) <= Len(z) * b
    BY <1>1, <1>2, <2>1, TotalBelow
  <2>3. s[i] <= 0
    BY <1>7
  <2> QED BY <1>1, <1>4, <1>5, <2>2, <2>3
<1> QED BY <1>6, <1>7

\* The payments p turn the balances t into o.
Payments(n) == [from : 1..n, to : 1..n, amount : Int]
Changes(p, u) == [i \in DOMAIN p |-> Change(p[i], u)]
Explains(t, p, o) == /\ p \in Seq(Payments(Len(t)))
                     /\ \A i \in 1..Len(p) : p[i].amount > 0
                     /\ \A u \in 1..Len(t) : o[u] = t[u] + Total(Changes(p, u))

\* What a payment changes is an integer.
LEMMA ChangeInt ==
  ASSUME NEW n, NEW x \in Payments(n), NEW u
  PROVE  Change(x, u) \in Int
<1>1. x.amount \in Int
  BY DEF Payments
<1> QED BY <1>1 DEF Change

\* So are the changes of all the payments.
LEMMA ChangesTyped ==
  ASSUME NEW n \in Nat, NEW p \in Seq(Payments(n)), NEW u
  PROVE  Changes(p, u) \in Seq(Int) /\ Len(Changes(p, u)) = Len(p)
<1> DEFINE m == Len(p)
           s == Changes(p, u)
           S == Int
<1>1. m \in Nat /\ DOMAIN p = 1..m /\ \A i \in 1..m : p[i] \in Payments(n)
  OBVIOUS
<1>2. \A i \in 1..m : Change(p[i], u) \in Int
  BY <1>1, ChangeInt
<1>3. s \in [1..m -> S]
  BY <1>1, <1>2 DEF Changes
<1> HIDE DEF s, S, m
<1>4. s \in Seq(S) /\ Len(s) = m
  BY <1>1, <1>3, IsSequence
<1> QED BY <1>4 DEF s, S, m

\* One payment more changes a balance by what that payment does.
LEMMA OnePaymentMore ==
  ASSUME NEW n \in Nat, NEW p \in Seq(Payments(n)), NEW x \in Payments(n), NEW u
  PROVE  Total(Changes(Append(p, x), u)) = Total(Changes(p, u)) + Change(x, u)
<1> DEFINE m == Len(p)
           s == Changes(p, u)
           v == Change(x, u)
           z == Append(p, x)
           t == Changes(z, u)
<1>1. v \in Int /\ s \in Seq(Int) /\ Len(s) = m
  BY ChangeInt, ChangesTyped
<1>2. /\ m \in Nat /\ Len(z) = m + 1 /\ DOMAIN z = 1..(m + 1) /\ DOMAIN p = 1..m
      /\ z[m + 1] = x /\ \A i \in 1..m : z[i] = p[i]
  OBVIOUS
<1> HIDE DEF m, z
<1>3. t = Append(s, v)
  <2>1. t = [i \in 1..(m + 1) |-> Change(z[i], u)]
    BY <1>2 DEF Changes
  <2>2. s = [i \in 1..m |-> Change(p[i], u)]
    BY <1>2 DEF Changes
  <2> DEFINE a == Append(s, v)
  <2>3. /\ a = [i \in 1..(m + 1) |-> a[i]] /\ a[m + 1] = v
        /\ \A i \in 1..m : a[i] = s[i]
    <3>1. s \in Seq(Int) /\ Len(s) = m /\ v \in Int /\ m \in Nat
      BY <1>1, <1>2
    <3> HIDE DEF s, v
    <3>2. Len(a) = m + 1 /\ a \in Seq(Int)
      BY <3>1
    <3>3. a[m + 1] = v /\ \A i \in 1..m : a[i] = s[i]
      BY <3>1
    <3> HIDE DEF a
    <3>4. a = [i \in 1..(m + 1) |-> a[i]]
      BY <3>1, <3>2
    <3> QED BY <3>3, <3>4
  <2> HIDE DEF a
  <2>4. ASSUME NEW i \in 1..(m + 1) PROVE t[i] = a[i]
    <3>1. i \in 1..m \/ i = m + 1
      BY <1>2
    <3>2. t[i] = Change(z[i], u)
      BY <2>1
    <3>3. CASE i \in 1..m
      <4>1. a[i] = s[i] /\ z[i] = p[i] /\ s[i] = Change(p[i], u)
        BY <1>2, <2>2, <2>3, <3>3
      <4> QED BY <3>2, <4>1
    <3>4. CASE i = m + 1
      BY <1>2, <2>3, <3>2, <3>4
    <3> QED BY <3>1, <3>3, <3>4
  <2>5. t = [i \in 1..(m + 1) |-> t[i]]
    BY <2>1
  <2> HIDE DEF t
  <2>6. t = a
    BY <2>3, <2>4, <2>5
  <2> QED BY <2>6 DEF a
<1> HIDE DEF t, s, v
<1>4. Total(t) = Total(s) + v
  BY <1>1, <1>3, TotalAppend
<1> QED BY <1>4 DEF t, s, v, z

\* The state of the loop: the list and the payments go with the balances o,
\* which add up to what they did and are on the same side.
Good(t, st, o) ==
    /\ o \in Seq(Int) /\ Len(o) = Len(t) /\ Total(o) = Total(t)
    /\ Lists(st.working, o)
    /\ Explains(t, st.payments, o)
    /\ \A u \in 1..Len(t) : (t[u] >= 0 => o[u] >= 0) /\ (t[u] <= 0 => o[u] <= 0)

\* The balances that are open are finitely many, n at most.
LEMMA OpenFinite ==
  ASSUME NEW o \in Seq(Int)
  PROVE  /\ IsFiniteSet(Open(o)) /\ Cardinality(Open(o)) \in Nat
         /\ Cardinality(Open(o)) <= Len(o)
<1> DEFINE n == Len(o)
<1>1. n \in Nat
  OBVIOUS
<1>2. IsFiniteSet(1..n) /\ Cardinality(1..n) = n
  <2>1. 1 \in Int /\ n \in Int /\ (n = 0 => 1 > n) /\ (n # 0 => ~(1 > n) /\ n - 1 + 1 = n)
    BY <1>1
  <2>2. IsFiniteSet(1..n) /\ Cardinality(1..n) = IF 1 > n THEN 0 ELSE n - 1 + 1
    BY <2>1, FS_Interval
  <2> QED BY <2>1, <2>2
<1>3. Open(o) \in SUBSET (1..n)
  BY DEF Open
<1>4. IsFiniteSet(Open(o)) /\ Cardinality(Open(o)) <= n
  BY <1>2, <1>3, FS_Subset
<1> QED BY <1>4, FS_CardinalityType

\* The loop starts with the balances themselves and no payment.
LEMMA LoopStarts ==
  ASSUME NEW t \in Seq(Int)
  PROVE  Good(t, [working |-> Working(t), payments |-> << >>], t)
<1> DEFINE p == << >>
<1>1. Lists(Working(t), t)
  BY WorkingLists
<1>2. Explains(t, p, t)
  <2>1. Len(t) \in Nat /\ \A u \in 1..Len(t) : t[u] \in Int
    OBVIOUS
  <2>2. p \in Seq(Payments(Len(t))) /\ Len(p) = 0 /\ \A i \in 1..Len(p) : FALSE
    OBVIOUS
  <2> HIDE DEF p
  <2>3. ASSUME NEW u \in 1..Len(t) PROVE t[u] = t[u] + Total(Changes(p, u))
    <3>1. Changes(p, u) \in Seq(Int) /\ Len(Changes(p, u)) = 0
      BY <2>1, <2>2, ChangesTyped
    <3>2. Total(Changes(p, u)) = 0
      BY <3>1, TotalEmpty
    <3> QED BY <2>1, <3>2
  <2> QED BY <2>2, <2>3 DEF Explains
<1> QED BY <1>1, <1>2 DEF Good

\* One round more.
LEMMA LoopGoesOn ==
  ASSUME NEW t \in Seq(Int), NEW st, NEW o, Good(t, st, o), Unsettled(st.working)
  PROVE  \E q : /\ Good(t, [working |-> Paired(st.working).rest,
                            payments |-> Append(st.payments, Paired(st.working).pay)], q)
                /\ Cardinality(Open(q)) <= Cardinality(Open(o)) - 1
<1> DEFINE n == Len(t)
           w == st.working
           p == st.payments
<1>1. /\ o \in Seq(Int) /\ Len(o) = n /\ Total(o) = Total(t) /\ n \in Nat
      /\ Lists(w, o) /\ Explains(t, p, o)
      /\ \A u \in 1..n : (t[u] >= 0 => o[u] >= 0) /\ (t[u] <= 0 => o[u] <= 0)
      /\ \A u \in 1..n : t[u] \in Int
  BY DEF Good
<1>2. Unsettled(w)
  OBVIOUS
<1> HIDE DEF n, w, p
<1>3. PICK c, d, x : /\ Ends(w, o, c, d, x)
                     /\ Paired(w).pay = [from |-> d, to |-> c, amount |-> x]
                     /\ x = Lesser(Head(w).total, -Last(w).total)
  BY <1>1, <1>2, PairedEnds
<1> DEFINE q == Settled(o, c, d, x)
           pay == [from |-> d, to |-> c, amount |-> x]
           p2 == Append(p, pay)
<1>4. c \in 1..n /\ d \in 1..n /\ c # d /\ x \in Int /\ x > 0
  BY <1>1, <1>3 DEF Ends
<1>5. q \in Seq(Int) /\ Len(q) = n /\ Total(q) = Total(t)
  <2>1. c \in 1..Len(o) /\ d \in 1..Len(o)
    BY <1>1, <1>4
  <2> QED BY <1>1, <1>4, <2>1, SettledAddsUp
<1>6. Lists(Paired(w).rest, q)
  <2>1. Len(w) > 1
    BY <1>2 DEF Unsettled
  <2> QED BY <1>1, <1>3, <2>1, PairedLists
<1>7. /\ \A u \in 1..n : (o[u] >= 0 => q[u] >= 0) /\ (o[u] <= 0 => q[u] <= 0)
      /\ Open(q) \subseteq Open(o) /\ (q[c] = 0 \/ q[d] = 0)
      /\ c \in Open(o) /\ d \in Open(o)
  BY <1>1, <1>3, SettledSides
<1>8. \A u \in 1..n : q[u] = (o[u] + (IF u = d THEN x ELSE 0)) - (IF u = c THEN x ELSE 0)
  BY <1>1 DEF Settled
<1> HIDE DEF q
<1>9. pay \in Payments(n) /\ pay.amount = x
  BY <1>4 DEF Payments
<1>10. /\ p \in Seq(Payments(n)) /\ \A i \in 1..Len(p) : p[i].amount > 0
       /\ \A u \in 1..n : o[u] = t[u] + Total(Changes(p, u))
  BY <1>1 DEF Explains, n
<1>11. /\ p2 \in Seq(Payments(n)) /\ \A i \in 1..Len(p2) : p2[i].amount > 0
  <2> HIDE DEF pay
  <2>1. /\ p2 \in Seq(Payments(n)) /\ Len(p2) = Len(p) + 1 /\ Len(p) \in Nat
        /\ p2[Len(p) + 1] = pay /\ \A i \in 1..Len(p) : p2[i] = p[i]
    BY <1>9, <1>10
  <2>2. \A i \in 1..Len(p2) : i \in 1..Len(p) \/ i = Len(p) + 1
    BY <2>1
  <2> HIDE DEF p2
  <2> QED BY <1>4, <1>9, <1>10, <2>1, <2>2
<1>12. ASSUME NEW u \in 1..n PROVE q[u] = t[u] + Total(Changes(p2, u))
  <2> DEFINE a == Total(Changes(p, u))
             e == Change(pay, u)
  <2>1. e = (IF u = d THEN x ELSE 0) - (IF u = c THEN x ELSE 0)
    BY DEF Change
  <2> HIDE DEF pay
  <2>2. Total(Changes(p2, u)) = a + e
    BY <1>1, <1>9, <1>10, OnePaymentMore
  <2>3. a \in Int
    <3>1. Changes(p, u) \in Seq(Int)
      BY <1>1, <1>10, ChangesTyped
    <3> QED BY <3>1, TotalInt
  <2>4. o[u] = t[u] + a /\ t[u] \in Int
    BY <1>1, <1>10
  <2> HIDE DEF a, e, p2
  <2> DEFINE f == IF u = d THEN x ELSE 0
             g == IF u = c THEN x ELSE 0
  <2>5. q[u] = (o[u] + f) - g /\ f \in Int /\ g \in Int /\ e = f - g
    BY <1>4, <1>8, <2>1
  <2> HIDE DEF f, g
  <2> QED BY <2>2, <2>3, <2>4, <2>5
<1>13. Explains(t, p2, q)
  <2> HIDE DEF p2
  <2> QED BY <1>11, <1>12 DEF Explains, n
<1>14. \A u \in 1..n : (t[u] >= 0 => q[u] >= 0) /\ (t[u] <= 0 => q[u] <= 0)
  BY <1>1, <1>7
<1>15. Good(t, [working |-> Paired(w).rest, payments |-> p2], q)
  <2> HIDE DEF p2
  <2> QED BY <1>5, <1>6, <1>13, <1>14 DEF Good, n
<1>16. Cardinality(Open(q)) <= Cardinality(Open(o)) - 1
  <2>1. PICK y \in Open(o) : q[y] = 0
    BY <1>7
  <2>2. Open(q) \in SUBSET (Open(o) \ {y})
    BY <1>7, <2>1 DEF Open
  <2>3. IsFiniteSet(Open(o))
    BY <1>1, OpenFinite
  <2>4. /\ IsFiniteSet(Open(o) \ {y})
        /\ Cardinality(Open(o) \ {y}) = Cardinality(Open(o)) - 1
    BY <2>1, <2>3, FS_RemoveElement
  <2> QED BY <2>2, <2>4, FS_Subset
<1>17. pay = Paired(w).pay
  BY <1>3
<1> HIDE DEF p2
<1>18. Good(t, [working |-> Paired(w).rest, payments |-> Append(p, Paired(w).pay)], q)
  BY <1>15, <1>17 DEF p2
<1> QED BY <1>16, <1>18 DEF w, p

\* What a round makes of the state.
NextRound(st) ==
    IF Unsettled(st.working)
    THEN [working |-> Paired(st.working).rest,
          payments |-> Append(st.payments, Paired(st.working).pay)]
    ELSE st

\* The entries and the payments of a round are entries and payments.
LEMMA RoundTyped ==
  ASSUME NEW n \in Nat,
         NEW st \in [working : Seq(Entries(n)), payments : Seq(Payments(n))]
  PROVE  NextRound(st) \in [working : Seq(Entries(n)), payments : Seq(Payments(n))]
<1> DEFINE w == st.working
           m == Len(w)
           E == Entries(n)
           x == Lesser(Head(w).total, -Last(w).total)
           z == [[w EXCEPT ![1].total = @ - x] EXCEPT ![Len(w)].total = @ + x]
<1>1. st.working \in Seq(E) /\ st.payments \in Seq(Payments(n))
  OBVIOUS
<1>2. CASE Unsettled(w)
  <2>1. /\ m \in Nat /\ m > 1 /\ Head(w) = w[1] /\ Last(w) = w[m] /\ DOMAIN w = 1..m
        /\ \A i \in 1..m : w[i] \in E
    BY <1>1, <1>2 DEF Unsettled, Last
  <2>2. \A e \in E : /\ e.user \in 1..n /\ e.total \in Int
                     /\ \A v \in Int : [e EXCEPT !.total = v] \in E
    BY DEF Entries
  <2> HIDE DEF E
  <2>3. Head(w) \in E /\ Last(w) \in E
    BY <2>1
  <2>4. x \in Int
    <3>1. Head(w).total \in Int /\ Last(w).total \in Int
      BY <2>2, <2>3
    <3> QED BY <3>1 DEF Lesser
  <2>5. /\ Paired(w).rest = Only(z, Creditors(z) \cup Debtors(z))
        /\ Paired(w).pay = [from |-> Last(w).user, to |-> Head(w).user, amount |-> x]
    BY DEF Paired
  <2> HIDE DEF x
  <2>6. z \in Seq(E)
    <3>1. DOMAIN z = 1..m /\ z = [i \in 1..m |-> z[i]] /\ 1 \in 1..m /\ m \in 1..m /\ m # 1
      <4>1. DOMAIN w = 1..m /\ m \in Nat /\ m > 1
        BY <2>1
      <4> HIDE DEF w
      <4>2. DOMAIN z = DOMAIN w /\ z = [i \in DOMAIN w |-> z[i]]
        OBVIOUS
      <4> HIDE DEF z, m
      <4> QED BY <4>1, <4>2
    <3>2. ASSUME NEW i \in 1..m PROVE z[i] \in E
      <4>1. w[i] \in E /\ w[i].total \in Int
        BY <2>1, <2>2
      <4>2. /\ i = 1 => z[i] = [w[i] EXCEPT !.total = w[i].total - x]
            /\ i = m => z[i] = [w[i] EXCEPT !.total = w[i].total + x]
            /\ i # 1 /\ i # m => z[i] = w[i]
        <5> HIDE DEF w
        <5> QED BY <2>1, <3>1
      <4>3. w[i].total - x \in Int /\ w[i].total + x \in Int
        BY <2>4, <4>1
      <4> HIDE DEF z
      <4> QED BY <2>2, <4>1, <4>2, <4>3
    <3> HIDE DEF z, m
    <3>3. z \in [1..m -> E]
      BY <3>1, <3>2
    <3> QED BY <2>1, <3>3, IsSequence
  <2> HIDE DEF z
  <2>7. Paired(w).rest \in Seq(E)
    BY <2>5, <2>6, OnlyKeeps
  <2>8. Paired(w).pay \in Payments(n)
    BY <2>2, <2>3, <2>4, <2>5 DEF Payments
  <2>9. Append(st.payments, Paired(w).pay) \in Seq(Payments(n))
    BY <1>1, <2>8
  <2> QED BY <1>2, <2>7, <2>9 DEF NextRound, E
<1>3. CASE ~Unsettled(w)
  BY <1>3 DEF NextRound
<1> QED BY <1>2, <1>3

\* Rounds computes the states of the loop.
LEMMA RoundsRun ==
  ASSUME NEW t \in Seq(Int)
  PROVE  /\ Rounds(t)[0] = [working |-> Working(t), payments |-> << >>]
         /\ \A k \in 1..Len(t) : Rounds(t)[k] = NextRound(Rounds(t)[k - 1])
<1> DEFINE n == Len(t)
           V == [working : Seq(Entries(n)), payments : Seq(Payments(n))]
           b == [working |-> Working(t), payments |-> << >>]
           h == [p \in (1..n) \X V |-> NextRound(p[2])]
           Is(f) == f = [k \in 0..Len(t) |->
                           IF k = 0 THEN [working |-> Working(t), payments |-> << >>]
                           ELSE LET before == f[k - 1]
                                    paired == Paired(before.working)
                                IN IF Unsettled(before.working)
                                   THEN [working |-> paired.rest,
                                         payments |-> Append(before.payments, paired.pay)]
                                   ELSE before]
<1>1. n \in Nat /\ n = Len(t)
  OBVIOUS
<1>2. b \in V
  <2>1. Working(t) \in Seq(Entries(n))
    BY WorkingLists DEF Lists
  <2> QED BY <2>1
<1>3. \A i \in 1..n, v \in V : h[<<i, v>>] = NextRound(v)
  <2>1. \A i \in 1..n, v \in V : <<i, v>> \in (1..n) \X V /\ <<i, v>>[2] = v
    OBVIOUS
  <2> HIDE DEF V, n
  <2> QED BY <2>1
<1>4. h \in [(1..n) \X V -> V]
  <2>1. \A v \in V : NextRound(v) \in V
    BY <1>1, RoundTyped
  <2> HIDE DEF V, n
  <2>2. \A p \in (1..n) \X V : p[2] \in V
    OBVIOUS
  <2> QED BY <2>1, <2>2
<1> HIDE DEF V, n, h, b
<1>5. PICK g \in [SUBSET (1..n) -> V] : FoldsSegment(h, b, n, g)
  BY <1>1, <1>2, <1>4, FoldSegment
<1> DEFINE r == [k \in 0..n |-> g[1..k]]
<1>6. r[0] = b
  <2>1. 1..0 = {} /\ 0 \in 0..n /\ {} \in SUBSET (1..n)
    BY <1>1
  <2> QED BY <1>5, <2>1 DEF FoldsSegment
<1>7. ASSUME NEW k \in 1..n PROVE r[k] = NextRound(r[k - 1])
  <2>1. k \in Nat /\ k > 0 /\ k - 1 \in 0..n /\ k \in 0..n /\ 1..k \in SUBSET (1..n)
        /\ 1..(k - 1) \in SUBSET (1..n)
    BY <1>1
  <2>2. Max(1..k) = k /\ (1..k) \ {k} = 1..(k - 1) /\ 1..k # {}
    BY <2>1, MaxSegment
  <2>3. g[1..k] = h[<<k, g[1..(k - 1)]>>]
    BY <1>5, <2>1, <2>2 DEF FoldsSegment
  <2>4. g[1..(k - 1)] \in V
    BY <1>5, <2>1
  <2> QED BY <1>3, <2>1, <2>3, <2>4
<1>8. r = [k \in 0..n |-> r[k]]
  OBVIOUS
<1> HIDE DEF r
<1>9. Is(r)
  <2> DEFINE body(k) == IF k = 0 THEN b ELSE NextRound(r[k - 1])
  <2>1. ASSUME NEW k \in 0..n PROVE r[k] = body(k)
    <3>1. k = 0 \/ k \in 1..n
      BY <1>1
    <3>2. k \in 1..n => k # 0
      BY <1>1
    <3> QED BY <1>6, <1>7, <3>1, <3>2
  <2>2. r = [k \in 0..n |-> body(k)]
    <3> HIDE DEF body
    <3> QED BY <1>8, <2>1
  <2> QED BY <2>2 DEF NextRound, n, b
<1>10. Rounds(t) = CHOOSE f : Is(f)
  BY DEF Rounds
<1> DEFINE f == Rounds(t)
<1>11. Is(f)
  <2> HIDE DEF Is
  <2> QED BY <1>9, <1>10
<1> HIDE DEF f
<1>12. f = [k \in 0..n |-> IF k = 0 THEN b ELSE NextRound(f[k - 1])]
  BY <1>11 DEF NextRound, n, b
<1>13. f[0] = b
  <2>1. 0 \in 0..n
    BY <1>1
  <2> QED BY <1>12, <2>1
<1>14. ASSUME NEW k \in 1..n PROVE f[k] = NextRound(f[k - 1])
  <2>1. k \in 0..n /\ k # 0
    BY <1>1
  <2> QED BY <1>12, <2>1
<1> QED BY <1>13, <1>14 DEF f, n, b

\* The loop is through after n rounds.
LEMMA LoopEnds ==
  ASSUME NEW t \in Seq(Int)
  PROVE  \E o : Good(t, Rounds(t)[Len(t)], o) /\ ~Unsettled(Rounds(t)[Len(t)].working)
<1> DEFINE n == Len(t)
           r == Rounds(t)
           Far(k, o) == Cardinality(Open(o)) <= n - k \/ ~Unsettled(r[k].working)
           T == {k \in 0..n : \E o : Good(t, r[k], o) /\ Far(k, o)}
<1>1. n \in Nat
  OBVIOUS
<1>2. /\ r[0] = [working |-> Working(t), payments |-> << >>]
      /\ \A k \in 1..n : r[k] = NextRound(r[k - 1])
  BY RoundsRun
<1>3. 0 \in T
  <2>1. Good(t, r[0], t)
    BY <1>2, LoopStarts
  <2>2. Cardinality(Open(t)) <= n - 0 /\ 0 \in 0..n
    BY <1>1, OpenFinite
  <2> QED BY <2>1, <2>2
<1> HIDE DEF r, n
<1>4. ASSUME NEW k \in 0..(n - 1), k \in T PROVE k + 1 \in T
  <2>1. k + 1 \in 1..n /\ k + 1 \in 0..n /\ (k + 1) - 1 = k
    BY <1>1
  <2>2. r[k + 1] = NextRound(r[k])
    BY <1>2, <2>1
  <2>3. PICK o : Good(t, r[k], o) /\ Far(k, o)
    BY <1>4
  <2>4. CASE Unsettled(r[k].working)
    <3>1. /\ Cardinality(Open(o)) <= n - k
          /\ r[k + 1] = [working |-> Paired(r[k].working).rest,
                         payments |-> Append(r[k].payments, Paired(r[k].working).pay)]
      BY <2>2, <2>3, <2>4 DEF NextRound
    <3>2. PICK q : Good(t, r[k + 1], q) /\ Cardinality(Open(q)) <= Cardinality(Open(o)) - 1
      BY <2>3, <2>4, <3>1, LoopGoesOn
    <3>3. Cardinality(Open(q)) \in Nat /\ Cardinality(Open(o)) \in Nat
      BY <2>3, <3>2, OpenFinite DEF Good
    <3>4. Cardinality(Open(q)) <= n - (k + 1)
      BY <1>1, <3>1, <3>2, <3>3
    <3> QED BY <2>1, <3>2, <3>4
  <2>5. CASE ~Unsettled(r[k].working)
    <3>1. r[k + 1] = r[k]
      BY <2>2, <2>5 DEF NextRound
    <3>2. Good(t, r[k + 1], o) /\ Far(k + 1, o)
      BY <2>3, <2>5, <3>1
    <3> QED BY <2>1, <3>2
  <2> QED BY <2>4, <2>5
<1>5. n \in T
  <2>1. \A k \in 0..n : k \in T
    <3> HIDE DEF T
    <3> QED BY <1>1, <1>3, <1>4, UpTo
  <2>2. n \in 0..n
    BY <1>1
  <2> HIDE DEF T
  <2> QED BY <2>1, <2>2
<1>6. PICK o : Good(t, r[n], o) /\ Far(n, o)
  BY <1>5
<1>7. ~Unsettled(r[n].working)
  <2>1. SUFFICES ASSUME Unsettled(r[n].working) PROVE FALSE
    OBVIOUS
  <2> DEFINE w == r[n].working
  <2>2. /\ o \in Seq(Int) /\ w \in Seq(Entries(Len(o))) /\ Len(w) > 1
        /\ \A a : a \in ToSet(w) <=> \E u \in Open(o) : a = Entry(o, u)
    BY <1>6, <2>1 DEF Good, Lists, Unsettled
  <2>3. Cardinality(Open(o)) = 0 /\ IsFiniteSet(Open(o))
    <3>1. Cardinality(Open(o)) \in Nat /\ IsFiniteSet(Open(o))
      BY <2>2, OpenFinite
    <3>2. Cardinality(Open(o)) <= n - n
      BY <1>6, <2>1
    <3> QED BY <1>1, <3>1, <3>2
  <2>4. Open(o) = {}
    BY <2>3, FS_EmptySet
  <2> HIDE DEF w
  <2>5. w[1] \in ToSet(w)
    <3>1. 1 \in 1..Len(w)
      BY <2>2
    <3> QED BY <2>2, <3>1, Placement
  <2> QED BY <2>2, <2>4, <2>5
<1> QED BY <1>6, <1>7 DEF r, n

\* When no creditor or no debtor is left and the balances add up to zero,
\* everybody is settled.
LEMMA AllSettled ==
  ASSUME NEW o \in Seq(Int), NEW w, Lists(w, o), ~Unsettled(w), Total(o) = 0
  PROVE  \A u \in 1..Len(o) : o[u] = 0
<1> DEFINE n == Len(o)
           m == Len(w)
<1>1. /\ w \in Seq(Entries(n)) /\ m \in Nat /\ n \in Nat /\ \A u \in 1..n : o[u] \in Int
      /\ \A a : a \in ToSet(w) <=> \E u \in Open(o) : a = Entry(o, u)
      /\ \A i, j \in 1..m : i < j /\ w[i].total < 0 => w[j].total < 0
  BY DEF Lists
<1>2. \A i \in 1..m : w[i].total \in Int /\ w[i].total # 0
  <2>1. \A i \in 1..m : \E u \in Open(o) : w[i] = Entry(o, u)
    <3>1. \A i \in 1..m : w[i] \in ToSet(w)
      BY <1>1, Placement
    <3> QED BY <1>1, <3>1
  <2>2. \A u \in Open(o) : Entry(o, u).total \in Int /\ Entry(o, u).total # 0
    BY <1>1 DEF Open, Entry
  <2> QED BY <2>1, <2>2
<1>3. \A u \in 1..n : o[u] # 0 => \E i \in 1..m : w[i].total = o[u]
  <2>1. ASSUME NEW u \in 1..n, o[u] # 0 PROVE \E i \in 1..m : w[i].total = o[u]
    <3>1. Entry(o, u) \in ToSet(w)
      BY <1>1, <2>1 DEF Open
    <3>2. PICK i \in 1..m : w[i] = Entry(o, u)
      BY <1>1, <3>1, Placement
    <3>3. w[i].total = o[u]
      BY <3>2 DEF Entry
    <3> QED BY <3>3
  <2> QED BY <2>1
<1>4. m # 0 => w[1].total < 0 \/ w[m].total > 0
  <2>1. m > 0 => 1 \in 1..m /\ m \in 1..m /\ Head(w) = w[1] /\ Last(w) = w[m]
    BY <1>1 DEF Last
  <2>2. m > 1 => ~(Head(w).total > 0) \/ ~(Last(w).total < 0)
    BY DEF Unsettled
  <2>3. CASE m > 1
    <3>1. w[1].total \in Int /\ w[1].total # 0 /\ w[m].total \in Int /\ w[m].total # 0
      BY <1>2, <2>1, <2>3
    <3>2. ~(w[1].total > 0) \/ ~(w[m].total < 0)
      BY <2>1, <2>2, <2>3
    <3>3. w[1].total < 0 \/ w[m].total > 0
      <4> DEFINE x == w[1].total
                 y == w[m].total
      <4> HIDE DEF x, y
      <4> QED BY <3>1, <3>2 DEF x, y
    <3> QED BY <2>3, <3>3
  <2>4. CASE m = 1
    <3>1. w[1].total \in Int /\ w[1].total # 0
      BY <1>2, <2>4
    <3>2. w[1].total < 0 \/ w[m].total > 0
      BY <2>4, <3>1
    <3> QED BY <2>4, <3>2
  <2>5. m = 0 \/ m = 1 \/ m > 1
    <3>1. m \in Nat
      BY <1>1
    <3> HIDE DEF m
    <3> QED BY <3>1
  <2> QED BY <2>3, <2>4, <2>5
<1>5. CASE m = 0
  BY <1>3, <1>5
<1>6. CASE m # 0 /\ w[1].total < 0
  <2>1. \A i \in 1..m : w[i].total < 0
    <3>1. ASSUME NEW i \in 1..m PROVE w[i].total < 0
      <4>1. 1 \in 1..m /\ (i = 1 \/ 1 < i)
        BY <1>1
      <4> QED BY <1>1, <1>6, <4>1
    <3> QED BY <3>1
  <2>2. \A u \in 1..n : o[u] <= 0
    <3>1. ASSUME NEW u \in 1..n PROVE o[u] <= 0
      <4>1. o[u] \in Int /\ (o[u] # 0 => o[u] < 0)
        BY <1>1, <1>3, <2>1
      <4> QED BY <4>1
    <3> QED BY <3>1
  <2> QED BY <2>2, TotalZero
<1>7. CASE m # 0 /\ w[m].total > 0
  <2>1. \A i \in 1..m : w[i].total > 0
    <3>1. ASSUME NEW i \in 1..m PROVE w[i].total > 0
      <4>1. m \in 1..m /\ (i = m \/ i < m)
        BY <1>1
      <4>2. w[i].total \in Int /\ w[i].total # 0 /\ w[m].total \in Int
        BY <1>2, <4>1
      <4>3. w[i].total < 0 => i = m \/ w[m].total < 0
        BY <1>1, <4>1
      <4>4. ~(w[i].total < 0)
        BY <1>7, <4>2, <4>3
      <4> QED BY <4>2, <4>4
    <3> QED BY <3>1
  <2>2. \A u \in 1..n : o[u] >= 0
    <3>1. ASSUME NEW u \in 1..n PROVE o[u] >= 0
      <4>1. o[u] \in Int /\ (o[u] # 0 => o[u] > 0)
        BY <1>1, <1>3, <2>1
      <4> QED BY <4>1
    <3> QED BY <3>1
  <2> QED BY <2>2, TotalZero
<1> QED BY <1>4, <1>5, <1>6, <1>7

\* Whatever the balances, paying what is suggested settles what can be settled.
LEMMA SuggestionsSettle ==
  ASSUME NEW t \in Seq(Int)
  PROVE  LET p == SuggestReimbursements(t)
         IN /\ p \in Seq(Payments(Len(t))) /\ \A i \in 1..Len(p) : p[i].amount > 0
            /\ \A u \in 1..Len(t) :
                 LET after == t[u] + Total(Changes(p, u))
                 IN /\ t[u] >= 0 => after >= 0
                    /\ t[u] <= 0 => after <= 0
                    /\ Total(t) = 0 => after = 0
<1> DEFINE st == Rounds(t)[Len(t)]
           p == SuggestReimbursements(t)
<1>1. p = st.payments
  BY DEF SuggestReimbursements
<1>2. PICK o : Good(t, st, o) /\ ~Unsettled(st.working)
  BY LoopEnds
<1> HIDE DEF st, p
<1>3. /\ o \in Seq(Int) /\ Len(o) = Len(t) /\ Total(o) = Total(t)
      /\ Lists(st.working, o) /\ Explains(t, p, o)
      /\ \A u \in 1..Len(t) : (t[u] >= 0 => o[u] >= 0) /\ (t[u] <= 0 => o[u] <= 0)
  BY <1>1, <1>2 DEF Good
<1>4. /\ p \in Seq(Payments(Len(t))) /\ \A i \in 1..Len(p) : p[i].amount > 0
      /\ \A u \in 1..Len(t) : o[u] = t[u] + Total(Changes(p, u))
  BY <1>3 DEF Explains
<1>5. Total(t) = 0 => \A u \in 1..Len(t) : o[u] = 0
  BY <1>2, <1>3, AllSettled
<1> QED BY <1>3, <1>4, <1>5 DEF p

-----------------------------------------------------------------------------
(* The cases *)

\* The four problems: an amount to split,
IsSplit(p) == \E total \in 0..MaxAmount, mode \in Modes, w \in Some(0..MaxWeight) :
    p = [kind |-> "split", total |-> total, mode |-> mode, input |-> w]

\* stored splits to rescale,
IsRescale(p) == \E s \in Stored, old, new \in 0..MaxAmount :
    p = [kind |-> "rescale", splits |-> s, old |-> old, new |-> new]

\* an expense and a settlement to compute balances of,
IsBalance(p) == \E s \in Stored : \E payer \in DOMAIN s, from, to \in DOMAIN s,
                   base \in 0..MaxAmount, amount \in 1..2,
                   status \in {"pending", "confirmed", "declined"} :
    /\ from # to
    /\ p = [kind |-> "balance",
            expense |-> [payer |-> payer, base |-> base, splits |-> s],
            settlement |-> [from |-> from, to |-> to, amount |-> amount, status |-> status]]

\* balances to suggest reimbursements for.
IsReimburse(p) == \E t \in Some(-MaxWeight..MaxWeight) :
    p = [kind |-> "reimburse", totals |-> t]

\* A problem is one of the four, and its answer is the one the code computes.
CasesInv ==
    \/ problem = NoCase /\ answer = NoCase
    \/ /\ IsSplit(problem) \/ IsRescale(problem) \/ IsBalance(problem) \/ IsReimburse(problem)
       /\ answer = NoCase \/ answer = Solution(problem)

\* The form of the problem and the origin of its answer are invariant.
LEMMA CasesInvariant == CasesSpec => []CasesInv
<1>1. CasesInit => CasesInv
  BY DEF CasesInit, CasesInv
<1>2. CasesInv /\ [CasesNext]_caseVars => CasesInv'
  <2> SUFFICES ASSUME CasesInv, [CasesNext]_caseVars PROVE CasesInv'
    OBVIOUS
  <2>1. CASE Pose
    <3>1. IsSplit(problem') \/ IsRescale(problem') \/ IsBalance(problem') \/ IsReimburse(problem')
      <4>1. PoseSplit => IsSplit(problem')
        BY DEF PoseSplit, IsSplit
      <4>2. PoseRescale => IsRescale(problem')
        BY DEF PoseRescale, IsRescale
      <4>3. PoseBalance => IsBalance(problem')
        BY Zenon DEF PoseBalance, IsBalance
      <4>4. PoseReimburse => IsReimburse(problem')
        BY DEF PoseReimburse, IsReimburse
      <4> QED BY <2>1, <4>1, <4>2, <4>3, <4>4 DEF Pose
    <3>2. answer' = NoCase
      BY <2>1 DEF Pose
    <3> QED BY <3>1, <3>2 DEF CasesInv
  <2>2. CASE Solve
    <3>1. problem # NoCase /\ problem' = problem /\ answer' = Solution(problem)
      BY <2>2 DEF Solve
    <3>2. IsSplit(problem) \/ IsRescale(problem) \/ IsBalance(problem) \/ IsReimburse(problem)
      BY <3>1 DEF CasesInv
    <3>4. answer' = Solution(problem')
      BY <3>1
    <3>5. IsSplit(problem') \/ IsRescale(problem') \/ IsBalance(problem') \/ IsReimburse(problem')
      BY <3>1, <3>2 DEF IsSplit, IsRescale, IsBalance, IsReimburse
    <3> QED BY <3>4, <3>5 DEF CasesInv
  <2>3. CASE UNCHANGED caseVars
    BY <2>3 DEF CasesInv, caseVars
  <2> QED BY <2>1, <2>2, <2>3 DEF CasesNext
<1> QED BY <1>1, <1>2, PTL DEF CasesSpec

\* Inputs are sequences of numbers with at least one element.
LEMMA SomeOnes ==
  ASSUME NEW S, NEW w \in Some(S)
  PROVE  w \in Seq(S) /\ w # << >> /\ Len(w) \in Nat /\ Len(w) > 0 /\ DOMAIN w = 1..Len(w)
<1>1. PICK n \in 1..People : w \in [1..n -> S]
  BY DEF Some
<1>2. n \in Nat /\ n > 0
  BY CasesAssumption
<1>3. w \in Seq(S) /\ Len(w) = n /\ DOMAIN w = 1..n
  BY <1>1, <1>2, IsSequence
<1> QED BY <1>2, <1>3

\* Sequences of some integers are sequences of integers.
LEMMA Wider ==
  ASSUME NEW S, NEW V, S \subseteq V, NEW w \in Seq(S)
  PROVE  w \in Seq(V)
OBVIOUS

\* The inputs of a problem are sequences of numbers.
LEMMA NumbersIn ==
  ASSUME NEW m \in Nat
  PROVE  /\ \A w \in Some(0..m) : w \in Seq(Nat) /\ w \in Seq(Int)
         /\ \A w \in Some(-m..m) : w \in Seq(Int)
<1> DEFINE A == 0..m
           B == -m..m
           N == Nat
           V == Int
<1>1. A \subseteq N /\ A \subseteq V /\ B \subseteq V
  OBVIOUS
<1> HIDE DEF A, B, N, V
<1>2. \A w \in Some(A) : w \in Seq(A)
  BY SomeOnes
<1>3. \A w \in Some(B) : w \in Seq(B)
  BY SomeOnes
<1>4. /\ \A w \in Some(A) : w \in Seq(N) /\ w \in Seq(V)
      /\ \A w \in Some(B) : w \in Seq(V)
  BY <1>1, <1>2, <1>3, Wider
<1> QED BY <1>4 DEF A, B, N, V

\* The total of n ones.
LEMMA TotalOnes ==
  ASSUME NEW n \in Nat
  PROVE  Total([i \in 1..n |-> 1]) = n
<1> DEFINE s == [i \in 1..n |-> 1]
           b == 1
<1>1. s \in Seq(Int) /\ Len(s) = n /\ b \in Int /\ \A i \in 1..Len(s) : b <= s[i] /\ s[i] <= b
  OBVIOUS
<1> HIDE DEF s, b
<1>2. Len(s) * b <= Total(s) /\ Total(s) <= Len(s) * b
  BY <1>1, TotalAbove, TotalBelow
<1>3. Total(s) \in Int
  BY <1>1, TotalInt
<1>4. n * b = n
  BY DEF b
<1>5. Total(s) = n
  BY <1>1, <1>2, <1>3, <1>4
<1> QED BY <1>5 DEF s

\* The error of share i, in units of the total weight.
Error(total, a, v, i) == a[i] * Total(v) - total * v[i]

\* a splits the total by the weights v, to the unit; the last one takes what
\* rounding left over, unless the split is equal.
SplitsFairly(total, mode, v, a) ==
    /\ a \in Seq(Int) /\ Len(a) = Len(v) /\ Total(a) = total
    /\ \A i \in 1..Len(v) : a[i] >= 0
    /\ \A i \in 1..Len(v) :
         IF mode # "equal" /\ i = Len(v)
         THEN 0 <= Error(total, a, v, i) /\ Error(total, a, v, i) < Len(v) * Total(v)
         ELSE -Total(v) < Error(total, a, v, i) /\ Error(total, a, v, i) < Total(v)

\* Whatever buildSplits accepts, it splits fairly.
LEMMA EverySplitIsFair ==
  ASSUME NEW total \in Nat, NEW mode \in Modes, NEW w \in Seq(Nat), w # << >>,
         NEW a, a = BuildSplits(total, mode, w), a # Refused
  PROVE  SplitsFairly(total, mode, IF mode = "equal" THEN [i \in 1..Len(w) |-> 1] ELSE w, a)
<1> DEFINE n == Len(w)
           W == Total(w)
<1>1. n \in Nat /\ n > 0 /\ w \in Seq(Int) /\ DOMAIN w = 1..n /\ \A i \in 1..n : w[i] \in Nat
  OBVIOUS
<1>2. /\ Accepted(total, mode, w)
      /\ mode = "equal" => a = EqualShares(total, n)
      /\ mode = "exact" => a = w
      /\ mode \in {"shares", "percentage"} => a = WeightedShares(total, w)
  BY DEF BuildSplits, Modes
<1>3. CASE mode = "equal"
  <2> DEFINE v == [i \in 1..n |-> 1]
  <2>1. /\ a \in Seq(Int) /\ Len(a) = n /\ Total(a) = total
        /\ \A i \in 1..n : /\ a[i] >= 0
                           /\ -n < a[i] * n - total /\ a[i] * n - total < n
    BY <1>1, <1>2, <1>3, EqualSharesAddUp
  <2>2. Total(v) = n /\ Len(v) = n /\ \A i \in 1..n : v[i] = 1
    BY <1>1, TotalOnes
  <2> HIDE DEF n, v
  <2>3. \A i \in 1..n : Error(total, a, v, i) = a[i] * n - total
    <3>1. total * 1 = total
      OBVIOUS
    <3> QED BY <2>2, <3>1 DEF Error
  <2>4. SplitsFairly(total, mode, v, a)
    BY <1>3, <2>1, <2>2, <2>3 DEF SplitsFairly
  <2> QED BY <1>3, <2>4 DEF v, n
<1>4. CASE mode # "equal"
  <2>1. \A i \in 1..n : w[i] > 0
    BY <1>1, <1>2, <1>4 DEF Accepted
  <2> HIDE DEF n
  <2>2. CASE mode = "exact"
    <3>1. a = w /\ W = total
      BY <1>2, <2>2 DEF Accepted
    <3>2. W \in Int /\ W > 0
      <4> DEFINE b == 1
      <4>1. b \in Int /\ \A i \in 1..Len(w) : b <= w[i]
        BY <1>1, <2>1 DEF n
      <4> HIDE DEF b
      <4>2. Len(w) * b <= Total(w)
        BY <1>1, <4>1, TotalAbove
      <4>3. Total(w) \in Int
        BY <1>1, TotalInt
      <4>4. n * b = n
        BY <1>1 DEF b
      <4>5. n <= W /\ W \in Int
        BY <4>2, <4>3, <4>4 DEF n
      <4> QED BY <1>1, <4>5
    <3> HIDE DEF W
    <3>3. \A i \in 1..n : Error(total, a, w, i) = 0
      <4>1. ASSUME NEW i \in 1..n PROVE w[i] * W - W * w[i] = 0
        <5> DEFINE x == w[i]
        <5>1. x \in Int
          BY <1>1
        <5> HIDE DEF x
        <5>2. x * W - W * x = 0
          BY <3>2, <5>1
        <5> QED BY <5>2 DEF x
      <4> QED BY <3>1, <4>1 DEF Error, W
    <3>4. 0 < n * W /\ -W < 0
      BY <1>1, <3>2
    <3>5. /\ w \in Seq(Int) /\ Len(w) = n /\ Total(w) = W
      BY <1>1 DEF n, W
    <3>6. \A i \in 1..n : w[i] >= 0
      BY <1>1
    <3>7. SplitsFairly(total, mode, w, w)
      BY <3>1, <3>2, <3>3, <3>4, <3>5, <3>6 DEF SplitsFairly
    <3> QED BY <1>4, <3>1, <3>7
  <2>3. CASE mode \in {"shares", "percentage"}
    <3>1. a = WeightedShares(total, w) /\ \A i \in 1..Len(w) : w[i] > 0
      BY <1>2, <2>1, <2>3 DEF n
    <3>2. /\ a \in Seq(Int) /\ Len(a) = Len(w) /\ Total(a) = total
          /\ Total(w) \in Int /\ Total(w) > 0
          /\ \A i \in 1..Len(w) : a[i] >= 0
          /\ \A i \in 1..(Len(w) - 1) : /\ -Total(w) < Error(total, a, w, i)
                                        /\ Error(total, a, w, i) <= 0
          /\ 0 <= Error(total, a, w, Len(w))
          /\ Error(total, a, w, Len(w)) < Len(w) * Total(w)
      BY <1>1, <3>1, WeightedSharesAddUp DEF Error
    <3>3. \A i \in 1..n : i \in 1..(n - 1) \/ i = n
      BY <1>1
    <3>4. ASSUME NEW i \in 1..n
          PROVE  IF mode # "equal" /\ i = n
                 THEN 0 <= Error(total, a, w, i) /\ Error(total, a, w, i) < n * Total(w)
                 ELSE -Total(w) < Error(total, a, w, i) /\ Error(total, a, w, i) < Total(w)
      <4>1. CASE i = n
        BY <1>4, <3>2, <4>1 DEF n
      <4>2. CASE i # n
        <5>1. i \in 1..(n - 1)
          BY <3>3, <4>2
        <5>2. -Total(w) < Error(total, a, w, i) /\ Error(total, a, w, i) <= 0
          BY <3>2, <5>1 DEF n
        <5>3. Error(total, a, w, i) \in Int
          <6>1. a[i] \in Int /\ w[i] \in Int /\ Total(w) \in Int
            BY <1>1, <3>2 DEF n
          <6> QED BY <6>1 DEF Error
        <5>4. Error(total, a, w, i) < Total(w)
          <6> DEFINE e == Error(total, a, w, i)
                     t == Total(w)
          <6>1. e \in Int /\ t \in Int /\ t > 0 /\ e <= 0
            BY <3>2, <5>2, <5>3
          <6> HIDE DEF e, t
          <6>2. e < t
            BY <6>1
          <6> QED BY <6>2 DEF e, t
        <5> QED BY <4>2, <5>2, <5>4
      <4> QED BY <4>1, <4>2
    <3>5. SplitsFairly(total, mode, w, a)
      BY <3>2, <3>4 DEF SplitsFairly, n
    <3> QED BY <1>4, <3>5
  <2> QED BY <1>4, <2>2, <2>3 DEF Modes
<1> QED BY <1>3, <1>4

\* An answer goes with its problem.
LEMMA AnswerOf ==
  ASSUME CasesInv
  PROVE  /\ Answered("split") => IsSplit(problem) /\ answer = Solution(problem)
         /\ Answered("rescale") => IsRescale(problem) /\ answer = Solution(problem)
         /\ Answered("balance") => IsBalance(problem) /\ answer = Solution(problem)
         /\ Answered("reimburse") => IsReimburse(problem) /\ answer = Solution(problem)
<1>1. /\ IsSplit(problem) => problem.kind = "split"
      /\ IsRescale(problem) => problem.kind = "rescale"
      /\ IsReimburse(problem) => problem.kind = "reimburse"
  BY DEF IsSplit, IsRescale, IsReimburse
<1>2. IsBalance(problem) => problem.kind = "balance"
  <2>1. \A x, y : [kind |-> "balance", expense |-> x, settlement |-> y].kind = "balance"
    OBVIOUS
  <2> QED BY <2>1, ZenonT(30) DEF IsBalance
<1> QED BY <1>1, <1>2 DEF CasesInv, Answered

\* The answers to the four problems have their properties: splits,
LEMMA SplitsHold ==
  ASSUME CasesInv
  PROVE  SplitsAreExact
<1> SUFFICES ASSUME Answered("split"), answer # Refused PROVE SplitsAddUp /\ SplitsAreFair
  BY DEF SplitsAreExact, SplitsAddUp, SplitsAreFair
<1>1. IsSplit(problem) /\ answer = Solution(problem)
  BY AnswerOf
<1>2. PICK total \in 0..MaxAmount, mode \in Modes, w \in Some(0..MaxWeight) :
         problem = [kind |-> "split", total |-> total, mode |-> mode, input |-> w]
  BY <1>1 DEF IsSplit
<1>3. /\ problem.kind = "split" /\ problem.total = total /\ problem.mode = mode
      /\ problem.input = w
  BY <1>2
<1>4. answer = BuildSplits(total, mode, w)
  BY <1>1, <1>3 DEF Solution
<1>5. total \in Nat /\ w \in Seq(Nat) /\ w # << >>
  BY CasesAssumption, NumbersIn, SomeOnes
<1> DEFINE v == IF mode = "equal" THEN [i \in 1..Len(w) |-> 1] ELSE w
<1>6. SplitsFairly(total, mode, v, answer)
  BY <1>4, <1>5, EverySplitIsFair
<1>7. DOMAIN answer = 1..Len(answer) /\ Len(answer) = Len(v) /\ Len(v) = Len(w)
  <2>1. answer \in Seq(Int) /\ Len(answer) = Len(v)
    BY <1>6 DEF SplitsFairly
  <2>2. Len(v) = Len(w)
    <3>1. Len(w) \in Nat
      BY <1>5
    <3>2. Len([i \in 1..Len(w) |-> 1]) = Len(w)
      BY <3>1
    <3> QED BY <3>2
  <2> HIDE DEF v
  <2>3. DOMAIN answer = 1..Len(answer)
    BY <2>1
  <2> QED BY <2>1, <2>2, <2>3
<1>8. v = IF problem.mode = "equal" THEN [i \in 1..Len(answer) |-> 1] ELSE problem.input
  BY <1>3, <1>7
<1> HIDE DEF v
<1>9. SplitsAddUp
  BY <1>3, <1>6, <1>7 DEF SplitsAddUp, SplitsFairly
<1>10. SplitsAreFair
  BY <1>3, <1>6, <1>7, <1>8 DEF SplitsAreFair, SplitsFairly, Error
<1> QED BY <1>9, <1>10

\* rescaled splits,
LEMMA RescalesHold ==
  ASSUME CasesInv
  PROVE  RescaleKeepsShares
<1> SUFFICES ASSUME Answered("rescale")
             PROVE  /\ Total(answer) = problem.new
                    /\ Consistent /\ problem.old > 0 =>
                         \A i \in DOMAIN answer :
                           LET error == 2 * (answer[i] * problem.old - problem.splits[i] * problem.new)
                           IN /\ error <= Len(answer) * problem.old
                              /\ -error <= Len(answer) * problem.old
  BY DEF RescaleKeepsShares
<1>1. IsRescale(problem) /\ answer = Solution(problem)
  BY AnswerOf
<1>2. PICK s \in Stored, old \in 0..MaxAmount, new \in 0..MaxAmount :
         problem = [kind |-> "rescale", splits |-> s, old |-> old, new |-> new]
  BY <1>1 DEF IsRescale
<1>3. /\ problem.kind = "rescale" /\ problem.splits = s /\ problem.old = old
      /\ problem.new = new
  BY <1>2
<1>4. answer = RescaleSplits(s, old, new)
  BY <1>1, <1>3 DEF Solution
<1>5. old \in Nat /\ new \in Nat /\ s \in Seq(Nat) /\ s # << >>
  BY CasesAssumption, NumbersIn, SomeOnes DEF Stored
<1> DEFINE n == Len(s)
<1>6. /\ answer \in Seq(Int) /\ Len(answer) = n /\ Total(answer) = new
      /\ Total(s) = old /\ old > 0 =>
           \A i \in 1..n : /\ 2 * (answer[i] * old - s[i] * new) <= n * old
                           /\ -(n * old) <= 2 * (answer[i] * old - s[i] * new)
  BY <1>4, <1>5, RescaledAddUp
<1>7. DOMAIN answer = 1..n /\ n \in Nat /\ \A i \in 1..n : answer[i] \in Int /\ s[i] \in Int
  BY <1>5, <1>6
<1> HIDE DEF n
<1>8. ASSUME Total(s) = old, old > 0, NEW i \in 1..n
      PROVE  /\ 2 * (answer[i] * old - s[i] * new) <= n * old
             /\ -(2 * (answer[i] * old - s[i] * new)) <= n * old
  <2> DEFINE e == 2 * (answer[i] * old - s[i] * new)
             b == n * old
  <2>1. e \in Int /\ b \in Int /\ e <= b /\ -b <= e
    <3>1. e <= b /\ -b <= e
      BY <1>6, <1>8
    <3>2. e \in Int
      <4>1. answer[i] \in Int /\ s[i] \in Int /\ old \in Int /\ new \in Int
        BY <1>5, <1>7
      <4> QED BY <4>1
    <3>3. b \in Int
      BY <1>5, <1>7
    <3> QED BY <3>1, <3>2, <3>3
  <2> HIDE DEF e, b
  <2>2. e <= b /\ -e <= b
    BY <2>1
  <2> QED BY <2>2 DEF e, b
<1> QED BY <1>3, <1>6, <1>7, <1>8 DEF Consistent

\* balances
LEMMA BalancesHold ==
  ASSUME CasesInv
  PROVE  MoneyIsConserved
<1> SUFFICES ASSUME Answered("balance")
             PROVE  Total(answer) = problem.expense.base - Total(problem.expense.splits)
  BY DEF MoneyIsConserved
<1>1. IsBalance(problem) /\ answer = Solution(problem)
  BY AnswerOf
<1> DEFINE e == problem.expense
           t == problem.settlement
<1>2. /\ problem.kind = "balance" /\ e.splits \in Stored /\ e.base \in 0..MaxAmount
      /\ e.payer \in DOMAIN e.splits /\ t.from \in DOMAIN e.splits
      /\ t.to \in DOMAIN e.splits /\ t.amount \in 1..2
  <2>1. PICK s \in Stored : \E payer \in DOMAIN s, from, to \in DOMAIN s,
                   base \in 0..MaxAmount, amount \in 1..2,
                   status \in {"pending", "confirmed", "declined"} :
           /\ from # to
           /\ problem = [kind |-> "balance",
                   expense |-> [payer |-> payer, base |-> base, splits |-> s],
                   settlement |-> [from |-> from, to |-> to, amount |-> amount, status |-> status]]
    BY <1>1, Zenon DEF IsBalance
  <2>2. PICK payer \in DOMAIN s, from, to \in DOMAIN s,
             base \in 0..MaxAmount, amount \in 1..2,
             status \in {"pending", "confirmed", "declined"} :
           /\ from # to
           /\ problem = [kind |-> "balance",
                   expense |-> [payer |-> payer, base |-> base, splits |-> s],
                   settlement |-> [from |-> from, to |-> to, amount |-> amount, status |-> status]]
    BY <2>1, Zenon
  <2>3. /\ problem.kind = "balance" /\ e = [payer |-> payer, base |-> base, splits |-> s]
        /\ t = [from |-> from, to |-> to, amount |-> amount, status |-> status]
    BY <2>2
  <2> HIDE DEF e, t
  <2>4. e.splits = s /\ e.payer = payer /\ e.base = base
    BY <2>3
  <2>5. t.from = from /\ t.to = to /\ t.amount = amount
    BY <2>3
  <2> QED BY <2>3, <2>4, <2>5
<1>3. answer = Balances(e, t)
  BY <1>1, <1>2 DEF Solution
<1> HIDE DEF e, t
<1>4. e.splits \in Seq(Int) /\ DOMAIN e.splits = 1..Len(e.splits)
  <2>1. e.splits \in Seq(Int)
    BY <1>2, CasesAssumption, NumbersIn DEF Stored
  <2> QED BY <2>1
<1>5. e.base \in Int /\ t.amount \in Int
  BY <1>2, CasesAssumption
<1>6. Total(Balances(e, t)) = e.base - Total(e.splits)
  BY <1>2, <1>4, <1>5, BalancesAddUp
<1> QED BY <1>3, <1>6 DEF e

\* and suggestions.
LEMMA ReimbursementsHold ==
  ASSUME CasesInv
  PROVE  ReimbursementsSettle
<1> SUFFICES ASSUME Answered("reimburse")
             PROVE  /\ \A i \in DOMAIN answer : answer[i].amount > 0
                    /\ \A u \in DOMAIN problem.totals :
                         /\ problem.totals[u] >= 0 => After(u) >= 0
                         /\ problem.totals[u] <= 0 => After(u) <= 0
                         /\ Total(problem.totals) = 0 => After(u) = 0
  BY DEF ReimbursementsSettle
<1>1. IsReimburse(problem) /\ answer = Solution(problem)
  BY AnswerOf
<1>2. PICK t \in Some(-MaxWeight..MaxWeight) : problem = [kind |-> "reimburse", totals |-> t]
  BY <1>1 DEF IsReimburse
<1>3. problem.kind = "reimburse" /\ problem.totals = t
  BY <1>2
<1>4. answer = SuggestReimbursements(t)
  BY <1>1, <1>3 DEF Solution
<1>5. t \in Seq(Int) /\ DOMAIN t = 1..Len(t)
  BY CasesAssumption, NumbersIn, SomeOnes
<1>6. /\ answer \in Seq(Payments(Len(t))) /\ \A i \in 1..Len(answer) : answer[i].amount > 0
      /\ \A u \in 1..Len(t) :
           LET after == t[u] + Total(Changes(answer, u))
           IN /\ t[u] >= 0 => after >= 0
              /\ t[u] <= 0 => after <= 0
              /\ Total(t) = 0 => after = 0
  BY <1>4, <1>5, SuggestionsSettle
<1>7. DOMAIN answer = 1..Len(answer)
  BY <1>6
<1>8. \A u : After(u) = t[u] + Total(Changes(answer, u))
  BY <1>3 DEF After, Changes
<1> QED BY <1>3, <1>5, <1>6, <1>7, <1>8

\* Every split of an expense adds up to its amount and is fair to the unit,
\* for any number of participants, amounts and weights (buildSplits).
THEOREM ExactSplits == CasesSpec => []SplitsAreExact
<1>1. CasesInv => SplitsAreExact
  BY SplitsHold
<1> QED BY <1>1, CasesInvariant, PTL

\* A rescaled expense is consistent, and one that was consistent keeps its
\* shares to half a unit per participant (rescaleSplits).
THEOREM SharesKept == CasesSpec => []RescaleKeepsShares
<1>1. CasesInv => RescaleKeepsShares
  BY RescalesHold
<1> QED BY <1>1, CasesInvariant, PTL

\* Balances neither make nor lose money, and whoever follows the suggestions
\* computed from them is settled (calculateBalances, suggestReimbursements).
THEOREM HouseholdsSettle == CasesSpec => []BalancesSettle
<1>1. CasesInv => BalancesSettle
  BY BalancesHold, ReimbursementsHold DEF BalancesSettle
<1> QED BY <1>1, CasesInvariant, PTL

-----------------------------------------------------------------------------
(* Edits of one expense: sums over rows *)

\* AllSubsets again, with a name for its hypothesis.
Inherited(S, H) == \A T \in SUBSET S : (\A x \in T : T \ {x} \in H) => T \in H

\* A hypothesis every subset inherits from the smaller ones holds of all.
LEMMA InheritedByAll ==
  ASSUME NEW S, IsFiniteSet(S), NEW H, Inherited(S, H)
  PROVE  \A T \in SUBSET S : T \in H
BY AllSubsets DEF Inherited

\* The sum over a set of rows is what any one of them adds to the others.
SumsUp(f, S, g) == /\ g[{}] = 0
                   /\ \A T \in SUBSET S : \A x \in T : g[T] = f[x] + g[T \ {x}]

\* A function over a finite set has the sums of all subsets behind it.
LEMMA SumsExist ==
  ASSUME NEW S, IsFiniteSet(S), NEW f \in [S -> Int]
  PROVE  \E g \in [SUBSET S -> Int] : SumsUp(f, S, g) /\ SumFunction(f) = g[S]
<1> DEFINE h == [p \in S \X Int |-> f[p[1]] + p[2]]
           c == [T \in SUBSET S |-> CHOOSE x \in T : TRUE]
           Is(g) == g = [T \in SUBSET S |->
                           IF T = {} THEN 0
                           ELSE f[CHOOSE x \in T : TRUE] + g[T \ {CHOOSE x \in T : TRUE}]]
           f0 == CHOOSE g : Is(g)
<1>1. h \in [S \X Int -> Int]
  <2>1. ASSUME NEW p \in S \X Int PROVE f[p[1]] + p[2] \in Int
    <3>1. p[1] \in S /\ p[2] \in Int
      OBVIOUS
    <3>2. f[p[1]] \in Int
      BY <3>1
    <3> QED BY <3>1, <3>2
  <2> QED BY <2>1
<1>2. ASSUME NEW x \in S, NEW v \in Int PROVE h[<<x, v>>] = f[x] + v
  <2>1. <<x, v>> \in S \X Int /\ <<x, v>>[1] = x /\ <<x, v>>[2] = v
    OBVIOUS
  <2> QED BY <2>1
<1>3. \A T \in SUBSET S : T # {} => c[T] \in T /\ c[T] = CHOOSE x \in T : TRUE
  OBVIOUS
<1> HIDE DEF h, c
<1>4. PICK g \in [SUBSET S -> Int] : IsFold(h, c, 0, S, g)
  <2> DEFINE V == Int
             b == 0
  <2>1. b \in V /\ h \in [S \X V -> V]
    BY <1>1
  <2> HIDE DEF V, b
  <2>2. \E g \in [SUBSET S -> V] : IsFold(h, c, b, S, g)
    BY <1>3, <2>1, FoldExists, ZenonT(30)
  <2> QED BY <2>2 DEF V, b
<1>5. Is(g)
  <2>1. ASSUME NEW T \in SUBSET S
        PROVE  g[T] = IF T = {} THEN 0
                      ELSE f[CHOOSE x \in T : TRUE] + g[T \ {CHOOSE x \in T : TRUE}]
    <3>1. g[T] = FoldStep(h, c, 0, g, T)
      BY <1>4 DEF IsFold
    <3>2. T # {} => c[T] \in S /\ g[T \ {c[T]}] \in Int /\ c[T] = CHOOSE x \in T : TRUE
      BY <1>3
    <3> QED BY <1>2, <3>1, <3>2 DEF FoldStep
  <2> QED BY <2>1
<1>6. DOMAIN f = S
  OBVIOUS
<1>7. SumFunction(f) = f0[S]
  BY <1>6, Zenon DEF SumFunction, SumFunctionOnSet, FoldFunctionOnSet, MapThenFoldSet
<1>8. Is(f0)
  BY <1>5
<1> HIDE DEF f0
<1>9. \A T \in SUBSET S :
         f0[T] = IF T = {} THEN 0
                 ELSE f[CHOOSE x \in T : TRUE] + f0[T \ {CHOOSE x \in T : TRUE}]
  BY <1>8
<1>10. f0 = [T \in SUBSET S |-> f0[T]]
  BY <1>8
<1> HIDE DEF Is
<1> DEFINE G == {T \in SUBSET S : f0[T] \in Int}
<1>g. ASSUME NEW T \in SUBSET S, \A x \in T : T \ {x} \in G PROVE T \in G
  <2>1. CASE T = {}
    <3>1. f0[T] = 0
      BY <1>9, <2>1
    <3> QED BY <3>1
  <2>2. CASE T # {}
    <3> DEFINE y == CHOOSE x \in T : TRUE
    <3>1. y \in T /\ f0[T] = f[y] + f0[T \ {y}]
      BY <1>9, <2>2
    <3> HIDE DEF y
    <3>2. f0[T \ {y}] \in Int /\ f[y] \in Int
      BY <1>g, <3>1
    <3> QED BY <3>1, <3>2
  <2> QED BY <2>1, <2>2
<1>i. \A T \in SUBSET S : T \in G
  <2> HIDE DEF G
  <2>1. Inherited(S, G)
    BY <1>g, Zenon DEF Inherited
  <2> QED BY <2>1, InheritedByAll, Zenon
<1>j. \A T \in SUBSET S : f0[T] \in Int
  BY <1>i
<1> DEFINE H == {T \in SUBSET S : \A x \in T : f0[T] = f[x] + f0[T \ {x}]}
<1>11. ASSUME NEW T \in SUBSET S, \A x \in T : T \ {x} \in H PROVE T \in H
  <2>1. CASE T = {}
    BY <2>1
  <2>2. CASE T # {}
    <3> DEFINE y == CHOOSE x \in T : TRUE
               u == f0[T \ {y}]
    <3>1. y \in T /\ f0[T] = f[y] + u
      BY <1>9, <2>2
    <3> HIDE DEF y
    <3>2. u \in Int /\ f[y] \in Int
      BY <1>j, <3>1
    <3>3. ASSUME NEW x \in T, x # y PROVE f0[T] = f[x] + f0[T \ {x}]
      <4> DEFINE v == f0[T \ {x}]
                 w == f0[(T \ {x}) \ {y}]
      <4>1. x \in T \ {y} /\ y \in T \ {x} /\ (T \ {y}) \ {x} = (T \ {x}) \ {y}
        BY <3>1, <3>3
      <4>2. u = f[x] + f0[(T \ {y}) \ {x}]
        BY <1>11, <3>1, <4>1
      <4>3. v = f[y] + w
        BY <1>11, <4>1
      <4>4. u = f[x] + w
        BY <4>1, <4>2
      <4>5. w \in Int /\ f[x] \in Int
        BY <1>j, <4>1
      <4> HIDE DEF u, v, w
      <4> QED BY <3>1, <3>2, <4>3, <4>4, <4>5 DEF v
    <3>4. \A x \in T : f0[T] = f[x] + f0[T \ {x}]
      BY <3>1, <3>3
    <3> QED BY <3>4
  <2> QED BY <2>1, <2>2
<1>12. \A T \in SUBSET S : T \in H
  <2> HIDE DEF H
  <2>1. Inherited(S, H)
    BY <1>11, Zenon DEF Inherited
  <2> QED BY <2>1, InheritedByAll, Zenon
<1>13. f0 \in [SUBSET S -> Int] /\ \A T \in SUBSET S : \A x \in T : f0[T] = f[x] + f0[T \ {x}]
  BY <1>10, <1>12, <1>j
<1>14. f0[{}] = 0
  BY <1>9
<1> QED BY <1>7, <1>13, <1>14 DEF SumsUp

\* s lists every element of S once, and t what f has for each.
Counts(s, S, f, t) ==
    /\ \A i \in 1..Len(t) : s[i] \in S /\ t[i] = f[s[i]]
    /\ \A i, j \in 1..Len(t) : s[i] = s[j] => i = j
    /\ \A x \in S : \E i \in 1..Len(t) : s[i] = x

\* The sum of a function is the total of its values, in whatever order.
LEMMA SumIsTotal ==
  ASSUME NEW S, IsFiniteSet(S), NEW f \in [S -> Int], NEW s, NEW t \in Seq(Int),
         Counts(s, S, f, t)
  PROVE  SumFunction(f) = Total(t)
<1> DEFINE n == Len(t)
           Image(k) == {s[i] : i \in 1..k}
<1>1. n \in Nat
  OBVIOUS
<1>2. PICK g \in [SUBSET S -> Int] : SumsUp(f, S, g) /\ SumFunction(f) = g[S]
  BY SumsExist
<1> DEFINE r == [k \in 0..n |-> g[Image(k)]]
<1>3. r[0] = 0
  <2>1. Image(0) = {} /\ 0 \in 0..n
    BY <1>1
  <2> HIDE DEF Image
  <2>2. r[0] = g[{}]
    BY <2>1
  <2> QED BY <1>2, <2>2 DEF SumsUp
<1>4. ASSUME NEW k \in 1..n PROVE r[k] = r[k - 1] + t[k]
  <2>1. k \in 0..n /\ k - 1 \in 0..n /\ \A i \in 1..k : i \in 1..n /\ (i = k \/ i \in 1..(k - 1))
    BY <1>1
  <2>2. \A i \in 1..(k - 1) : i \in 1..k /\ i # k
    BY <1>1
  <2>3. Image(k) \in SUBSET S
    BY <2>1 DEF Counts
  <2>4. s[k] \in Image(k) /\ t[k] = f[s[k]] /\ s[k] \in S
    BY DEF Counts
  <2>5. Image(k) \ {s[k]} = Image(k - 1)
    <3>1. ASSUME NEW i \in 1..k, s[i] # s[k] PROVE s[i] \in Image(k - 1)
      BY <2>1, <3>1
    <3>2. ASSUME NEW i \in 1..(k - 1) PROVE s[i] \in Image(k) /\ s[i] # s[k]
      BY <2>1, <2>2 DEF Counts
    <3> QED BY <3>1, <3>2
  <2>6. r[k] = g[Image(k)] /\ r[k - 1] = g[Image(k - 1)]
    BY <2>1
  <2> HIDE DEF r, Image
  <2>7. g[Image(k)] = f[s[k]] + g[Image(k) \ {s[k]}]
    BY <1>2, <2>3, <2>4 DEF SumsUp
  <2>8. f[s[k]] \in Int /\ g[Image(k - 1)] \in Int
    <3>1. Image(k - 1) \in SUBSET S
      BY <2>3, <2>5
    <3> QED BY <2>4, <3>1
  <2>9. g[Image(k)] = f[s[k]] + g[Image(k - 1)]
    BY <2>5, <2>7
  <2> DEFINE a == f[s[k]]
             b == g[Image(k - 1)]
  <2>10. a \in Int /\ b \in Int /\ r[k] = a + b /\ r[k - 1] = b /\ t[k] = a
    BY <2>4, <2>6, <2>8, <2>9
  <2> HIDE DEF a, b
  <2> QED BY <2>10
<1>5. Image(n) = S
  BY DEF Counts
<1>6. r[n] = g[S]
  <2>1. n \in 0..n
    BY <1>1
  <2> HIDE DEF Image
  <2> QED BY <1>5, <2>1
<1> HIDE DEF r
<1>7. Accumulates(t, r)
  BY <1>3, <1>4 DEF Accumulates
<1>8. Total(t) = r[n]
  BY <1>7, TotalIs
<1> QED BY <1>2, <1>6, <1>8

\* Rounding makes integers of integers.
LEMMA RoundedInt ==
  ASSUME NEW a \in Int, NEW b \in Nat, b > 0
  PROVE  RoundQuotient(a, b) \in Int
<1> DEFINE x == 2 * a + b
           z == -2 * a + b
           y == 2 * b
<1>1. x \in Int /\ z \in Int /\ y \in Nat /\ y > 0
  OBVIOUS
<1>2. RoundQuotient(a, b) = IF a >= 0 THEN x \div y ELSE -(z \div y)
  BY DEF RoundQuotient
<1> HIDE DEF x, y, z
<1>3. x \div y \in Int /\ z \div y \in Int
  BY <1>1
<1> QED BY <1>2, <1>3

\* Whatever single splits were edited to, rescaled splits add up.
LEMMA RescaledTotal ==
  ASSUME NEW s \in Seq(Int), s # << >>, NEW old \in Nat, NEW new \in Nat
  PROVE  LET t == RescaleSplits(s, old, new)
         IN t \in Seq(Int) /\ Len(t) = Len(s) /\ Total(t) = new
<1> DEFINE t == RescaleSplits(s, old, new)
           n == Len(s)
           scaled == [i \in 1..n |-> IF old > 0 THEN RoundQuotient(s[i] * new, old)
                                                ELSE new \div Len(s)]
           k == Largest(scaled)
           v == scaled[k] + new - Total(scaled)
<1>1. n \in Nat /\ n > 0 /\ n = Len(s) /\ DOMAIN s = 1..n /\ \A i \in 1..n : s[i] \in Int
  OBVIOUS
<1>2. t = [scaled EXCEPT ![k] = @ + new - Total(scaled)]
  BY <1>1 DEF RescaleSplits
<1> HIDE DEF t, n
<1>3. ASSUME NEW i \in 1..n PROVE scaled[i] \in Int
  <2>1. CASE old > 0
    <3>1. s[i] * new \in Int
      BY <1>1
    <3> QED BY <2>1, <3>1, RoundedInt
  <2>2. CASE ~(old > 0)
    <3>1. new \div n \in Nat
      BY <1>1, Divided
    <3> QED BY <1>1, <2>2, <3>1
  <2> QED BY <2>1, <2>2
<1>4. scaled \in Seq(Int) /\ Len(scaled) = n
  <2> DEFINE S == Int
  <2>1. scaled \in [1..n -> S]
    BY <1>3
  <2> HIDE DEF S, scaled
  <2>2. scaled \in Seq(S) /\ Len(scaled) = n
    BY <1>1, <2>1, IsSequence
  <2> QED BY <2>2 DEF S
<1> HIDE DEF scaled
<1>5. k \in 1..n
  BY <1>1, <1>4, LargestIsOne
<1> HIDE DEF k
<1>6. Total(scaled) \in Int /\ scaled[k] \in Int /\ v \in Int
  BY <1>3, <1>4, <1>5, TotalInt
<1>7. t = [scaled EXCEPT ![k] = v]
  BY <1>2, <1>4, <1>5
<1>8. Total(t) = new
  <2> HIDE DEF v
  <2>1. Total([scaled EXCEPT ![k] = v]) = Total(scaled) - scaled[k] + v
    BY <1>4, <1>5, <1>6, TotalExcept
  <2> QED BY <1>6, <1>7, <2>1 DEF v
<1>9. t \in Seq(Int) /\ Len(t) = n
  <2> HIDE DEF v
  <2> QED BY <1>1, <1>4, <1>5, <1>6, <1>7
<1> QED BY <1>1, <1>8, <1>9 DEF t

\* A listing names every row once.
LEMMA ListingsComplete ==
  ASSUME AreRows(split), NEW s \in Listings
  PROVE  LET n == Cardinality(DOMAIN split)
         IN /\ IsFiniteSet(DOMAIN split) /\ n \in Nat
            /\ s \in [1..n -> DOMAIN split]
            /\ \A i, j \in 1..n : s[i] = s[j] => i = j
            /\ \A x \in DOMAIN split : \E i \in 1..n : s[i] = x
<1> DEFINE D == DOMAIN split
           n == Cardinality(D)
<1>1. IsFiniteSet(D)
  <2>1. Splits \in Nat /\ D \subseteq 1..Splits
    BY BoundsAssumption DEF AreRows
  <2>2. IsFiniteSet(1..Splits)
    BY <2>1, FS_Interval
  <2> QED BY <2>1, <2>2, FS_Subset
<1>2. n \in Nat
  BY <1>1, FS_CardinalityType
<1>3. s \in [1..n -> D] /\ IsInjective(s)
  BY DEF Listings
<1>4. Cardinality(1..n) = n
  BY <1>2, FS_Interval
<1> HIDE DEF n
<1>5. s \in Injection(1..n, D)
  BY <1>3 DEF Injection
<1>6. s \in Surjection(1..n, D)
  BY <1>1, <1>4, <1>5, FS_Injection DEF n
<1>7. \A x \in D : \E i \in 1..n : s[i] = x
  BY <1>6 DEF Surjection
<1>8. \A i, j \in 1..n : s[i] = s[j] => i = j
  BY <1>3 DEF IsInjective
<1> QED BY <1>1, <1>2, <1>3, <1>7, <1>8 DEF n

\* What is going to be written replaces exactly the rows that were read, and
\* adds up to the new amount if there are any.
LEMMA RescaledRows ==
  ASSUME AreRows(split), NEW p, IsEdit(edit[p]), NEW s \in Listings
  PROVE  LET rows == Rescaled(p, s)
         IN AreRows(rows) /\ (DOMAIN rows # {} => SumFunction(rows) = edit[p].new)
<1> DEFINE D == DOMAIN split
           n == Cardinality(D)
           old == edit[p].seen
           new == edit[p].new
           amounts == [i \in 1..n |-> split[s[i]]]
           t == RescaleSplits(amounts, old, new)
           rows == Rescaled(p, s)
<1>1. /\ IsFiniteSet(D) /\ n \in Nat /\ s \in [1..n -> D]
      /\ \A i, j \in 1..n : s[i] = s[j] => i = j
      /\ \A x \in D : \E i \in 1..n : s[i] = x
  BY ListingsComplete
<1>2. D \subseteq 1..Splits /\ split \in [D -> Int] /\ old \in Nat /\ new \in Nat
  BY BoundsAssumption DEF AreRows, IsEdit
<1>3. DOMAIN s = 1..n
  BY <1>1
<1>4. rows = [x \in D |-> t[AntiFunction(s)[x]]]
  BY <1>3 DEF Rescaled
<1> HIDE DEF n, D, old, new, t, rows
<1>5. ASSUME NEW x \in D
      PROVE  AntiFunction(s)[x] \in 1..n /\ s[AntiFunction(s)[x]] = x
  <2>1. PICK i \in 1..n : s[i] = x
    BY <1>1
  <2>2. x \in Range(s)
    BY <1>3, <2>1 DEF Range
  <2>3. AntiFunction(s)[x] = CHOOSE j \in 1..n : x \in Range(s) => s[j] = x
    BY <1>3, <2>2 DEF AntiFunction, Inverse
  <2> QED BY <2>1, <2>2, <2>3
<1>6. amounts \in Seq(Int) /\ Len(amounts) = n
  <2> DEFINE S == Int
  <2>1. amounts \in [1..n -> S]
    BY <1>1, <1>2
  <2> HIDE DEF S, amounts
  <2>2. amounts \in Seq(S) /\ Len(amounts) = n
    BY <1>1, <2>1, IsSequence
  <2> QED BY <2>2 DEF S
<1> HIDE DEF amounts
<1>7. CASE n = 0
  <2>1. D = {}
    BY <1>1, <1>7
  <2>2. DOMAIN rows = {} /\ rows \in [DOMAIN rows -> Int]
    BY <1>4, <2>1
  <2> QED BY <2>2 DEF AreRows, rows
<1>8. CASE n # 0
  <2>1. amounts # << >>
    BY <1>6, <1>8
  <2>2. t \in Seq(Int) /\ Len(t) = n /\ Total(t) = new
    BY <1>2, <1>6, <2>1, RescaledTotal DEF t
  <2>3. \A x \in D : rows[x] \in Int
    <3> SUFFICES ASSUME NEW x \in D PROVE rows[x] \in Int
      OBVIOUS
    <3>1. AntiFunction(s)[x] \in 1..n /\ rows[x] = t[AntiFunction(s)[x]]
      BY <1>4, <1>5
    <3> QED BY <2>2, <3>1
  <2>4. rows \in [D -> Int] /\ DOMAIN rows = D
    BY <1>4, <2>3
  <2>5. \A i \in 1..n : s[i] \in D /\ t[i] = rows[s[i]]
    <3> SUFFICES ASSUME NEW i \in 1..n PROVE s[i] \in D /\ t[i] = rows[s[i]]
      OBVIOUS
    <3>1. s[i] \in D
      BY <1>1
    <3>2. AntiFunction(s)[s[i]] = i
      BY <1>1, <1>5, <3>1
    <3> QED BY <1>4, <3>1, <3>2
  <2>6. Counts(s, D, rows, t)
    BY <1>1, <2>2, <2>5 DEF Counts
  <2>7. SumFunction(rows) = new
    BY <1>1, <2>2, <2>4, <2>6, SumIsTotal
  <2> QED BY <1>2, <2>4, <2>7 DEF AreRows, rows, new
<1> QED BY <1>7, <1>8

-----------------------------------------------------------------------------
(* Edits of one expense: the invariant *)

\* No rows are the empty sequence.
LEMMA NoRows ==
  /\ AreRows(<< >>)
  /\ \A f : AreRows(f) /\ DOMAIN f = {} => f = << >>
<1>1. << >> \in [{} -> Int] /\ DOMAIN << >> = {}
  OBVIOUS
<1>2. ASSUME NEW f \in [{} -> Int] PROVE f = << >>
  <2>1. f = [x \in {} |-> f[x]] /\ << >> = [x \in {} |-> << >>[x]]
    BY <1>1
  <2>2. [x \in {} |-> f[x]] = [x \in {} |-> << >>[x]]
    OBVIOUS
  <2> QED BY <2>1, <2>2, Zenon
<1> QED BY <1>1, <1>2 DEF AreRows

\* What an update is about to write adds up.
EditsAddUp == \A p \in Editors :
                 EditIn(p, "rewrite") /\ DOMAIN edit[p].rows # {} =>
                    SumFunction(edit[p].rows) = edit[p].new

LedgerInv == LedgerTypeOK /\ EditsAddUp

\* A request changes its own state and nobody else's.
LEMMA EditChanged ==
  ASSUME LedgerInv, NEW p \in Editors, NEW e, IsEdit(e), EditBecomes(p, e),
         e.pc = "rewrite" /\ DOMAIN e.rows # {} => SumFunction(e.rows) = e.new
  PROVE  /\ edit' \in [Editors -> {edit'[q] : q \in Editors}]
         /\ \A q \in Editors : IsEdit(edit'[q])
         /\ EditsAddUp'
         /\ edit'[p] = e /\ \A q \in Editors \ {p} : edit'[q] = edit[q]
<1>1. DOMAIN edit = Editors
  BY DEF LedgerInv, LedgerTypeOK
<1>2. edit' = [edit EXCEPT ![p] = e]
  BY DEF EditBecomes
<1>3. DOMAIN edit' = Editors /\ edit'[p] = e /\ \A q \in Editors \ {p} : edit'[q] = edit[q]
  BY <1>1, <1>2
<1>4. edit' = [q \in Editors |-> edit'[q]]
  BY <1>1, <1>2
<1>5. edit' \in [Editors -> {edit'[q] : q \in Editors}]
  BY <1>4
<1>6. \A q \in Editors : q = p \/ q \in Editors \ {p}
  OBVIOUS
<1>7. \A q \in Editors : IsEdit(edit'[q])
  BY <1>3, <1>6, Zenon DEF LedgerInv, LedgerTypeOK
<1>8. EditsAddUp'
  <2> SUFFICES ASSUME NEW q \in Editors, EditIn(q, "rewrite")', DOMAIN edit'[q].rows # {}
               PROVE  SumFunction(edit'[q].rows) = edit'[q].new
    BY Zenon DEF EditsAddUp
  <2>1. CASE q = p
    BY <1>3, <2>1 DEF EditIn
  <2>2. CASE q # p
    <3>1. edit'[q] = edit[q]
      BY <1>3, <2>2
    <3> QED BY <3>1, Zenon DEF LedgerInv, EditsAddUp, EditIn
  <2> QED BY <2>1, <2>2
<1> QED BY <1>3, <1>5, <1>7, <1>8

\* What a request is when it goes on.
LEMMA EditGoesOn ==
  ASSUME NEW e, IsEdit(e)
  PROVE  /\ \A pc \in {"read", "list", "plain"} :
              IsEdit([e EXCEPT !.pc = pc]) /\ [e EXCEPT !.pc = pc].pc = pc
         /\ \A base \in 0..MaxBase :
              /\ IsEdit([e EXCEPT !.pc = "list", !.seen = base])
              /\ [e EXCEPT !.pc = "list", !.seen = base].pc = "list"
BY DEF IsEdit

\* The ends of a request.
LEMMA NoEditTyped ==
  /\ IsEdit(NoEdit) /\ NoEdit.pc = "idle"
  /\ \A new \in 0..MaxBase : /\ IsEdit([NoEdit EXCEPT !.pc = "read", !.new = new])
                             /\ [NoEdit EXCEPT !.pc = "read", !.new = new].pc = "read"
<1>1. 0 \in 0..MaxBase
  BY BoundsAssumption
<1> QED BY <1>1, NoRows DEF NoEdit, IsEdit

\* The splits an expense is created with.
LEMMA LedgerStarts == LedgerInit => LedgerInv
<1> SUFFICES ASSUME LedgerInit PROVE LedgerInv
  OBVIOUS
<1>1. PICK base \in 1..MaxBase : /\ expense = [exists |-> TRUE, base |-> base]
                                 /\ split = EqualShares(base, First)
  BY DEF LedgerInit
<1>2. expense \in [exists : BOOLEAN, base : 0..MaxBase]
  BY <1>1, BoundsAssumption
<1>3. AreRows(split)
  <2>1. base \in Nat /\ First \in Nat /\ First > 0
    BY BoundsAssumption
  <2>2. split \in Seq(Int) /\ Len(split) = First
    BY <1>1, <2>1, EqualSharesAddUp
  <2>3. DOMAIN split = 1..First /\ \A i \in 1..First : split[i] \in Int /\ i \in 1..Splits
    BY <2>2, BoundsAssumption
  <2>4. split = [i \in 1..First |-> split[i]]
    BY <1>1 DEF EqualShares
  <2> QED BY <2>3, <2>4 DEF AreRows
<1>4. created \in First..Splits
  BY BoundsAssumption DEF LedgerInit
<1>5. /\ edit \in [Editors -> {edit[p] : p \in Editors}]
      /\ \A p \in Editors : edit[p] = NoEdit
  BY DEF LedgerInit
<1>6. EditsAddUp
  BY <1>5, NoEditTyped DEF EditsAddUp, EditIn
<1>7. \A p \in Editors : IsEdit(edit[p])
  BY <1>5, NoEditTyped
<1> QED BY <1>2, <1>3, <1>4, <1>5, <1>6, <1>7 DEF LedgerInv, LedgerTypeOK

\* A step of an update: what it does to the request.
EditStep(p) ==
    \E e : /\ IsEdit(e) /\ EditBecomes(p, e) /\ UNCHANGED created
           /\ e.pc = "rewrite" /\ DOMAIN e.rows # {} => SumFunction(e.rows) = e.new

\* Every step of an update is an EditStep.
LEMMA EditSteps ==
  ASSUME LedgerInv, NEW p \in Editors,
         \/ \E new \in 0..MaxBase : UpdateExpense(p, new)
         \/ ReadExpense(p) \/ ListSplits(p) \/ PlainUpdate(p)
         \/ UpdateExpenseWithSplits(p) \/ AbandonEdit(p)
  PROVE  EditStep(p)
<1>1. IsEdit(edit[p]) /\ AreRows(split) /\ expense.base \in 0..MaxBase
  BY DEF LedgerInv, LedgerTypeOK
<1>2. CASE \E new \in 0..MaxBase : UpdateExpense(p, new)
  <2>1. PICK new \in 0..MaxBase : UpdateExpense(p, new)
    BY <1>2
  <2> DEFINE e == [NoEdit EXCEPT !.pc = "read", !.new = new]
  <2>2. EditBecomes(p, e) /\ UNCHANGED created /\ IsEdit(e) /\ e.pc = "read"
    BY <2>1, NoEditTyped DEF UpdateExpense
  <2> HIDE DEF e
  <2> QED BY <2>2 DEF EditStep
<1>3. CASE PlainUpdate(p) \/ UpdateExpenseWithSplits(p) \/ AbandonEdit(p)
  <2>1. EditBecomes(p, NoEdit) /\ UNCHANGED created
    BY <1>3 DEF PlainUpdate, UpdateExpenseWithSplits, AbandonEdit
  <2> QED BY <2>1, NoEditTyped DEF EditStep
<1>4. CASE ReadExpense(p)
  <2>1. CASE ~expense.exists
    <3>1. EditBecomes(p, NoEdit) /\ UNCHANGED created
      BY <1>4, <2>1 DEF ReadExpense
    <3> QED BY <3>1, NoEditTyped DEF EditStep
  <2>2. CASE expense.exists /\ edit[p].new = expense.base
    <3> DEFINE e == [edit[p] EXCEPT !.pc = "plain"]
    <3>1. EditBecomes(p, e) /\ UNCHANGED created
      BY <1>4, <2>2 DEF ReadExpense, EditGoes
    <3>2. IsEdit(e) /\ e.pc = "plain"
      BY <1>1, EditGoesOn
    <3> HIDE DEF e
    <3> QED BY <3>1, <3>2 DEF EditStep
  <2>3. CASE expense.exists /\ edit[p].new # expense.base
    <3> DEFINE e == [edit[p] EXCEPT !.pc = "list", !.seen = expense.base]
    <3>1. EditBecomes(p, e) /\ UNCHANGED created
      BY <1>4, <2>3 DEF ReadExpense
    <3>2. IsEdit(e) /\ e.pc = "list"
      BY <1>1, EditGoesOn
    <3> HIDE DEF e
    <3> QED BY <3>1, <3>2 DEF EditStep
  <2> QED BY <2>1, <2>2, <2>3
<1>5. CASE ListSplits(p)
  <2>1. PICK s \in Listings :
           /\ Range(Rescaled(p, s)) \subseteq Amount
           /\ EditBecomes(p, [edit[p] EXCEPT !.pc = "rewrite", !.rows = Rescaled(p, s)])
    BY <1>5, Zenon DEF ListSplits
  <2> DEFINE rows == Rescaled(p, s)
             e == [edit[p] EXCEPT !.pc = "rewrite", !.rows = rows]
  <2>2. AreRows(rows) /\ (DOMAIN rows # {} => SumFunction(rows) = edit[p].new)
    BY <1>1, RescaledRows
  <2>3. EditBecomes(p, e) /\ UNCHANGED created
    BY <1>5, <2>1 DEF ListSplits
  <2> HIDE DEF rows
  <2>4. IsEdit(e) /\ e.rows = rows /\ e.new = edit[p].new
    <3> DEFINE old == edit[p]
    <3>1. IsEdit(old) /\ AreRows(rows)
      BY <1>1, <2>2
    <3> HIDE DEF old
    <3>2. LET next == [old EXCEPT !.pc = "rewrite", !.rows = rows]
          IN IsEdit(next) /\ next.rows = rows /\ next.new = old.new
      BY <3>1 DEF IsEdit
    <3> QED BY <3>2 DEF old
  <2> HIDE DEF e
  <2> QED BY <2>2, <2>3, <2>4 DEF EditStep
<1> QED BY <1>2, <1>3, <1>4, <1>5

\* Every action of an update, and of a single split's edit, keeps the invariant.
LEMMA LedgerKept == LedgerInv /\ [LedgerNext]_ledgerVars => LedgerInv'
<1> SUFFICES ASSUME LedgerInv, [LedgerNext]_ledgerVars PROVE LedgerInv'
  OBVIOUS
<1>1. /\ expense \in [exists : BOOLEAN, base : 0..MaxBase]
      /\ AreRows(split) /\ created \in First..Splits
      /\ \A p \in Editors : IsEdit(edit[p])
  BY DEF LedgerInv, LedgerTypeOK
<1>2. ASSUME NEW p \in Editors, EditStep(p),
             expense' \in [exists : BOOLEAN, base : 0..MaxBase], AreRows(split')
      PROVE  LedgerInv'
  <2>1. PICK e : /\ IsEdit(e) /\ EditBecomes(p, e) /\ UNCHANGED created
                 /\ e.pc = "rewrite" /\ DOMAIN e.rows # {} => SumFunction(e.rows) = e.new
    BY <1>2, Zenon DEF EditStep
  <2>2. /\ edit' \in [Editors -> {edit'[q] : q \in Editors}]
        /\ \A q \in Editors : IsEdit(edit'[q])
        /\ EditsAddUp'
    BY <2>1, EditChanged
  <2>3. created' \in First..Splits
    BY <1>1, <2>1
  <2>4. LedgerTypeOK'
    BY <1>2, <2>2, <2>3, Zenon DEF LedgerTypeOK, AreRows, IsEdit
  <2> QED BY <2>2, <2>4, Zenon DEF LedgerInv
<1>3. ASSUME NEW p \in Editors, UNCHANGED <<expense, split>>, EditStep(p) PROVE LedgerInv'
  BY <1>1, <1>2, <1>3
<1>4. ASSUME UNCHANGED edit, AreRows(split'), created' \in First..Splits,
             expense' \in [exists : BOOLEAN, base : 0..MaxBase]
      PROVE  LedgerInv'
  <2>1. /\ edit' \in [Editors -> {edit'[q] : q \in Editors}]
        /\ \A q \in Editors : IsEdit(edit'[q])
    BY <1>1, <1>4 DEF LedgerInv, LedgerTypeOK
  <2>2. EditsAddUp'
    BY <1>4 DEF LedgerInv, EditsAddUp, EditIn
  <2>3. LedgerTypeOK'
    BY <1>4, <2>1, Zenon DEF LedgerTypeOK, AreRows, IsEdit
  <2> QED BY <2>2, <2>3, Zenon DEF LedgerInv
<1>5. ASSUME NEW p \in Editors,
             \/ \E new \in 0..MaxBase : UpdateExpense(p, new)
             \/ ReadExpense(p) \/ ListSplits(p) \/ AbandonEdit(p)
      PROVE  LedgerInv'
  <2>1. UNCHANGED <<expense, split>>
    BY <1>5 DEF UpdateExpense, ReadExpense, ListSplits, AbandonEdit
  <2>2. EditStep(p)
    BY <1>5, EditSteps
  <2> QED BY <1>3, <2>1, <2>2
<1>6. ASSUME NEW p \in Editors, PlainUpdate(p) PROVE LedgerInv'
  <2>1. expense' \in [exists : BOOLEAN, base : 0..MaxBase] /\ split' = split
    BY <1>1, <1>6 DEF PlainUpdate, IsEdit
  <2>2. EditStep(p)
    BY <1>6, EditSteps
  <2> QED BY <1>1, <1>2, <2>1, <2>2
<1>7. ASSUME NEW p \in Editors, UpdateExpenseWithSplits(p) PROVE LedgerInv'
  <2>1. expense' \in [exists : BOOLEAN, base : 0..MaxBase]
    BY <1>1, <1>7 DEF UpdateExpenseWithSplits, IsEdit
  <2>2. AreRows(split')
    BY <1>1, <1>7 DEF UpdateExpenseWithSplits, IsEdit, Rewritten
  <2>3. EditStep(p)
    BY <1>7, EditSteps
  <2> QED BY <1>2, <2>1, <2>2, <2>3
<1>8. CASE DeleteExpense
  <2>1. AreRows(split')
    BY <1>8, NoRows DEF DeleteExpense
  <2> QED BY <1>1, <1>4, <1>8, <2>1 DEF DeleteExpense
<1>9. ASSUME NEW amount \in {-1, 1}, CreateSplit(amount) PROVE LedgerInv'
  <2>1. created' \in First..Splits /\ created' \in 1..Splits
    BY <1>1, <1>9, BoundsAssumption DEF CreateSplit
  <2>2. AreRows(split')
    <3>1. split' = [i \in DOMAIN split \cup {created'} |->
                      IF i = created' THEN amount ELSE split[i]]
      BY <1>9 DEF CreateSplit
    <3>2. DOMAIN split' = DOMAIN split \cup {created'}
      BY <3>1
    <3>3. \A i \in DOMAIN split \cup {created'} :
             (IF i = created' THEN amount ELSE split[i]) \in Int
      BY <1>1 DEF AreRows
    <3>4. split' \in [DOMAIN split \cup {created'} -> Int]
      BY <3>1, <3>3
    <3> QED BY <1>1, <2>1, <3>2, <3>4 DEF AreRows
  <2> QED BY <1>1, <1>4, <1>9, <2>1, <2>2 DEF CreateSplit
<1>10. ASSUME NEW i \in 1..Splits, NEW amount \in 1..MaxSplit, UpdateSplit(i, amount)
       PROVE  LedgerInv'
  <2>1. AreRows(split')
    BY <1>1, <1>10 DEF UpdateSplit, AreRows
  <2> QED BY <1>1, <1>4, <1>10, <2>1 DEF UpdateSplit
<1>11. ASSUME NEW i \in 1..Splits, DeleteSplit(i) PROVE LedgerInv'
  <2>1. AreRows(split')
    BY <1>1, <1>11 DEF DeleteSplit, AreRows, Restrict
  <2> QED BY <1>1, <1>4, <1>11, <2>1 DEF DeleteSplit
<1>12. CASE UNCHANGED ledgerVars
  BY <1>1, <1>4, <1>12 DEF ledgerVars
<1> QED BY <1>5, <1>6, <1>7, <1>8, <1>9, <1>10, <1>11, <1>12 DEF LedgerNext

\* The types and the sums of the edits are invariant.
LEMMA LedgerInvariant == LedgerSpec => []LedgerInv
BY LedgerStarts, LedgerKept, PTL DEF LedgerSpec

\* The row of the expense, those of its splits and every request keep their
\* types, whatever is edited at the same time (UpdateExpense, CreateSplit,
\* UpdateSplit, DeleteSplit, DeleteExpense).
THEOREM LedgerTyped == LedgerSpec => []LedgerTypeOK
<1>1. LedgerInv => LedgerTypeOK
  BY DEF LedgerInv
<1> QED BY <1>1, LedgerInvariant, PTL

\* What a request that ends with rewriting the splits has done.
LEMMA RewriteStep ==
  ASSUME LedgerInv, NEW p \in Editors, UpdateExpenseWithSplits(p)
  PROVE  \/ UNCHANGED <<expense, split>>
         \/ split' # << >> => SumFunction(split') = expense'.base
<1>1. CASE ~expense.exists
  BY <1>1 DEF UpdateExpenseWithSplits
<1>2. CASE expense.exists
  <2>1. /\ expense' = [expense EXCEPT !.base = edit[p].new] /\ split' = edit[p].rows
        /\ EditIn(p, "rewrite")
    BY <1>2 DEF UpdateExpenseWithSplits, Rewritten
  <2>2. expense'.base = edit[p].new
    BY <2>1 DEF LedgerInv, LedgerTypeOK
  <2>3. AreRows(split')
    BY <2>1 DEF LedgerInv, LedgerTypeOK, IsEdit
  <2>4. split' # << >> => DOMAIN split' # {}
    BY <2>3, NoRows
  <2>5. DOMAIN split' # {} => SumFunction(split') = edit[p].new
    BY <2>1, Zenon DEF LedgerInv, EditsAddUp
  <2> QED BY <2>2, <2>4, <2>5
<1> QED BY <1>1, <1>2

\* Which steps change what requests do: those of one of them, and only its own.
LEMMA EditMoves ==
  ASSUME LedgerInv, LedgerNext, edit' # edit
  PROVE  \E q \in Editors :
            /\ \/ \E new \in 0..MaxBase : UpdateExpense(q, new)
               \/ ReadExpense(q) \/ ListSplits(q) \/ PlainUpdate(q)
               \/ UpdateExpenseWithSplits(q) \/ AbandonEdit(q)
            /\ \A p \in Editors \ {q} : edit'[p] = edit[p]
<1>1. PICK q \in Editors :
         \/ \E new \in 0..MaxBase : UpdateExpense(q, new)
         \/ ReadExpense(q) \/ ListSplits(q) \/ PlainUpdate(q)
         \/ UpdateExpenseWithSplits(q) \/ AbandonEdit(q)
  BY DEF LedgerNext, DeleteExpense, CreateSplit, UpdateSplit, DeleteSplit
<1>2. EditStep(q)
  BY <1>1, EditSteps
<1>3. \A p \in Editors \ {q} : edit'[p] = edit[p]
  BY <1>2, EditChanged DEF EditStep
<1> QED BY <1>1, <1>3

\* However the edits of an expense and of its single splits interleave, once an
\* update has rescaled the splits they add up to the new amount
\* (UpdateExpenseWithSplits).
THEOREM RescaleIsExact == LedgerSpec => RescaleRestores
<1> DEFINE Restores(p) == (EditIn(p, "rewrite") /\ edit'[p] = NoEdit
                             /\ <<expense, split>>' # <<expense, split>> /\ split' # << >>) =>
                               SumFunction(split') = expense'.base
<1>1. ASSUME LedgerInv, [LedgerNext]_ledgerVars, NEW p \in Editors PROVE Restores(p)
  <2> SUFFICES ASSUME EditIn(p, "rewrite"), edit'[p] = NoEdit,
                      <<expense, split>>' # <<expense, split>>, split' # << >>
               PROVE  SumFunction(split') = expense'.base
    OBVIOUS
  <2>1. edit'[p] # edit[p]
    BY DEF EditIn, NoEdit
  <2>2. edit' # edit /\ LedgerNext
    BY <1>1, <2>1 DEF ledgerVars
  <2>3. PICK q \in Editors :
           /\ \/ \E new \in 0..MaxBase : UpdateExpense(q, new)
              \/ ReadExpense(q) \/ ListSplits(q) \/ PlainUpdate(q)
              \/ UpdateExpenseWithSplits(q) \/ AbandonEdit(q)
           /\ \A r \in Editors \ {q} : edit'[r] = edit[r]
    BY <1>1, <2>2, EditMoves
  <2>4. q = p
    BY <2>1, <2>3
  <2>5. \/ \E new \in 0..MaxBase : UpdateExpense(p, new)
        \/ ReadExpense(p) \/ ListSplits(p) \/ PlainUpdate(p)
        \/ UpdateExpenseWithSplits(p) \/ AbandonEdit(p)
    BY <2>3, <2>4
  <2>6. UpdateExpenseWithSplits(p)
    BY <2>5 DEF UpdateExpense, ReadExpense, ListSplits, PlainUpdate, AbandonEdit, EditIn
  <2> QED BY <1>1, <2>6, RewriteStep
<1>2. LedgerInv /\ [LedgerNext]_ledgerVars => [\A p \in Editors : Restores(p)]_ledgerVars
  BY <1>1
<1>3. LedgerSpec => [][LedgerNext]_ledgerVars
  BY PTL DEF LedgerSpec
<1>4. LedgerSpec => [][\A p \in Editors : Restores(p)]_ledgerVars
  <2> HIDE DEF Restores
  <2> QED BY <1>2, <1>3, LedgerInvariant, PTL
<1> QED BY <1>4 DEF RescaleRestores

\* A right sum is broken, short of an edit of a single split, in one way only: by
\* an update that found its own amount unchanged and writes it over another one
\* (UpdateExpense).
THEOREM StaleUpdatesOnly == LedgerSpec => OnlyStaleUpdatesBreak
<1> DEFINE Stale == (SplitsMatch /\ ~SplitsMatch' /\ edit' # edit /\ split' # << >>) =>
                       \E p \in Editors : /\ EditIn(p, "plain") /\ edit'[p] = NoEdit
                                          /\ edit[p].new # expense.base
<1>1. ASSUME LedgerInv, LedgerNext PROVE Stale
  <2> SUFFICES ASSUME SplitsMatch, ~SplitsMatch', edit' # edit, split' # << >>
               PROVE  \E p \in Editors : /\ EditIn(p, "plain") /\ edit'[p] = NoEdit
                                         /\ edit[p].new # expense.base
    OBVIOUS
  <2>1. PICK q \in Editors :
           \/ \E new \in 0..MaxBase : UpdateExpense(q, new)
           \/ ReadExpense(q) \/ ListSplits(q) \/ PlainUpdate(q)
           \/ UpdateExpenseWithSplits(q) \/ AbandonEdit(q)
    BY <1>1, EditMoves
  <2>2. ~UNCHANGED <<expense, split>>
    BY DEF SplitsMatch
  <2>3. PlainUpdate(q) \/ UpdateExpenseWithSplits(q)
    BY <2>1, <2>2 DEF UpdateExpense, ReadExpense, ListSplits, AbandonEdit
  <2>4. ~UpdateExpenseWithSplits(q)
    <3> SUFFICES ASSUME UpdateExpenseWithSplits(q) PROVE FALSE
      OBVIOUS
    <3>1. SumFunction(split') = expense'.base
      BY <1>1, <2>2, RewriteStep
    <3> QED BY <3>1 DEF SplitsMatch
  <2>5. PlainUpdate(q)
    BY <2>3, <2>4
  <2>6. expense.exists /\ edit[q].new # expense.base
    <3> SUFFICES ASSUME ~expense.exists \/ edit[q].new = expense.base PROVE FALSE
      OBVIOUS
    <3>1. expense' = expense
      BY <1>1, <2>5 DEF PlainUpdate, LedgerInv, LedgerTypeOK
    <3> QED BY <2>2, <2>5, <3>1 DEF PlainUpdate
  <2>7. EditIn(q, "plain") /\ edit'[q] = NoEdit
    <3>1. DOMAIN edit = Editors
      BY <1>1 DEF LedgerInv, LedgerTypeOK
    <3> QED BY <2>5, <3>1 DEF PlainUpdate, EditBecomes
  <2> QED BY <2>6, <2>7
<1>2. LedgerInv /\ [LedgerNext]_ledgerVars => [Stale]_ledgerVars
  BY <1>1
<1>3. LedgerSpec => [][LedgerNext]_ledgerVars
  BY PTL DEF LedgerSpec
<1>4. LedgerSpec => [][Stale]_ledgerVars
  <2> HIDE DEF Stale
  <2> QED BY <1>2, <1>3, LedgerInvariant, PTL
<1> QED BY <1>4 DEF OnlyStaleUpdatesBreak

-----------------------------------------------------------------------------
(***************************************************************************)
(* Settlements.  Everything rests on the UPDATE's WHERE status =           *)
(* 'pending': what a request has read plays no part in the arguments about *)
(* answers, and what it has read about the two sides does not go out of    *)
(* date.                                                                   *)
(***************************************************************************)
\* A request changes its own state and nobody else's.
LEMMA BecomeTyped ==
  ASSUME TypeOK, NEW p \in Procs, NEW s \in ProcState, Become(p, s)
  PROVE  /\ proc' \in [Procs -> ProcState]
         /\ proc'[p] = s
         /\ \A q \in Procs \ {p} : proc'[q] = proc[q]
BY DEF TypeOK, Become

\* A request under way knows its settlement and goes on ...
LEMMA GotoTyped ==
  ASSUME TypeOK, NEW p \in Procs, ~InPhase(p, "idle"),
         NEW pc \in {"read", "authorize", "write"}, Goto(p, pc)
  PROVE  /\ proc' \in [Procs -> ProcState]
         /\ proc'[p] = [proc[p] EXCEPT !.pc = pc]
         /\ \A q \in Procs \ {p} : proc'[q] = proc[q]
<1>1. [proc[p] EXCEPT !.pc = pc] \in ProcState
  BY DEF TypeOK, ProcState, Request, InPhase
<1> QED BY <1>1, BecomeTyped DEF Goto

\* ... or is answered.
LEMMA AnswerTyped ==
  ASSUME TypeOK, NEW p \in Procs, ~InPhase(p, "idle"), NEW r \in Results, Answer(p, r)
  PROVE  /\ proc' \in [Procs -> ProcState]
         /\ proc'[p].pc = "idle" /\ proc'[p].result = r /\ proc'[p].id = proc[p].id
         /\ \A q \in Procs \ {p} : proc'[q] = proc[q]
<1> DEFINE answered == [proc[p] EXCEPT !.pc = "idle", !.result = r]
<1>1. /\ answered \in ProcState
      /\ answered.pc = "idle" /\ answered.result = r /\ answered.id = proc[p].id
  BY DEF TypeOK, ProcState, Request, InPhase
<1>2. Become(p, answered)
  BY DEF Answer
<1> HIDE DEF answered
<1> QED BY <1>1, <1>2, BecomeTyped

\* A request under way has a caller and a settlement.
LEMMA RequestKnows ==
  ASSUME TypeOK, NEW p \in Procs, ~InPhase(p, "idle")
  PROVE  /\ proc[p] \in ProcState
         /\ proc[p].id \in Settlements
         /\ proc[p].caller \in Users
BY DEF TypeOK, ProcState, InPhase

\* A row gets a new status and keeps the rest.
LEMMA SetStatusTyped ==
  ASSUME TypeOK, NEW s \in Settlements, NEW status \in Statuses, SetStatus(s, status)
  PROVE  /\ row' \in [Settlements -> Row]
         /\ row'[s].status = status
         /\ \A t \in Settlements \ {s} : row'[t] = row[t]
<1>1. [row[s] EXCEPT !.status = status] \in Row
  BY DEF TypeOK, Row
<1> QED BY <1>1 DEF TypeOK, SetStatus, Row

\* The steps that write the table, as changes of one status.
LEMMA UpdateStatusStep ==
  ASSUME TypeOK, NEW p \in Procs, UpdateStatus(p)
  PROVE  /\ proc[p].id \in Settlements
         /\ \/ /\ Pending(proc[p].id)
               /\ proc[p].wish \in Decisions
               /\ SetStatus(proc[p].id, proc[p].wish)
               /\ Answer(p, proc[p].wish)
            \/ row' = row /\ Answer(p, "conflict")
         /\ UNCHANGED <<members, admins, demoted>>
BY DEF TypeOK, ProcState, Request, UpdateStatus, InPhase, Decisions, household

\* DeleteSettlement either removes the row or finds none.
LEMMA DeleteStep ==
  ASSUME TypeOK, NEW p \in Procs, Delete(p)
  PROVE  /\ proc[p].id \in Settlements
         /\ \/ /\ Exists(proc[p].id)
               /\ SetStatus(proc[p].id, "removed")
               /\ Answer(p, "removed")
            \/ row' = row /\ Answer(p, "refused")
         /\ UNCHANGED <<members, admins>>
         /\ demoted' = demoted \ {p}
BY DEF TypeOK, ProcState, Request, Delete, InPhase, household

\* The steps before the write leave the table alone.
LEMMA ReadTyped ==
  ASSUME TypeOK, NEW p \in Procs, Read(p)
  PROVE  /\ proc' \in [Procs -> ProcState]
         /\ proc'[p].pc # "idle" \/ proc'[p].result = "refused"
         /\ \A q \in Procs \ {p} : proc'[q] = proc[q]
<1>1. ~InPhase(p, "idle")
  BY DEF Read, InPhase
<1>2. CASE Exists(proc[p].id)
  <2>1. row[proc[p].id] \in Row
    BY <1>1, RequestKnows DEF TypeOK
  <2>2. [proc[p] EXCEPT !.pc = "authorize", !.seen = row[proc[p].id]] \in ProcState
    BY <1>1, <2>1, RequestKnows DEF ProcState, Request
  <2> QED BY <1>2, <2>2, BecomeTyped, RequestKnows, <1>1 DEF Read, ProcState, Request
<1>3. CASE ~Exists(proc[p].id)
  BY <1>1, <1>3, AnswerTyped, RequestKnows DEF Read, Results, ProcState, Request
<1> QED BY <1>2, <1>3

\* Reading changes nothing else.
LEMMA ReadFrame ==
  ASSUME NEW p \in Procs, Read(p)
  PROVE  /\ members' = members
         /\ admins' = admins
         /\ row' = row
         /\ demoted' = demoted
<1>1. UNCHANGED <<household, row, demoted>>
  BY DEF Read
<1> QED BY <1>1 DEF household

\* Deciding who may answer changes this request only.
LEMMA AuthorizeTyped ==
  ASSUME TypeOK, NEW p \in Procs, Authorize(p)
  PROVE  /\ proc' \in [Procs -> ProcState]
         /\ proc'[p].pc # "idle" \/ proc'[p].result \in {"refused", "conflict"}
         /\ \A q \in Procs \ {p} : proc'[q] = proc[q]
<1>1. ~InPhase(p, "idle")
  BY DEF Authorize, InPhase
<1>2. \/ Goto(p, "write")
      \/ Answer(p, "refused")
      \/ Answer(p, "conflict")
  BY DEF Authorize
<1>3. CASE Goto(p, "write")
  BY <1>1, <1>3, GotoTyped, RequestKnows DEF ProcState, Request
<1>4. CASE Answer(p, "refused") \/ Answer(p, "conflict")
  BY <1>1, <1>4, AnswerTyped, RequestKnows DEF Results, ProcState, Request
<1> QED BY <1>2, <1>3, <1>4

\* So does a new request.
LEMMA AskTyped ==
  ASSUME TypeOK, NEW p \in Procs, NEW u \in Users, NEW s \in Settlements,
         NEW wish \in Decisions \cup {"remove"}, Ask(p, u, s, wish)
  PROVE  /\ proc' \in [Procs -> ProcState]
         /\ proc'[p].pc = "read"
         /\ \A q \in Procs \ {p} : proc'[q] = proc[q]
<1>1. NoRow \in Row
  BY DEF NoRow, Row, Statuses
<1>2. [pc |-> "read", wish |-> wish, caller |-> u, id |-> s,
       seen |-> NoRow, result |-> "none"] \in ProcState
  BY <1>1 DEF ProcState, Request, Results
<1> QED BY <1>2, BecomeTyped DEF Ask

-----------------------------------------------------------------------------
\* Every reachable state is well typed.
THEOREM TypeCorrect == Spec => []TypeOK
<1>1. Init => TypeOK
  BY DEF Init, TypeOK, ProcState, Request, Row, NoRow, Statuses, Results
<1>2. TypeOK /\ [Next]_vars => TypeOK'
  <2> SUFFICES ASSUME TypeOK, [Next]_vars PROVE TypeOK'
    OBVIOUS
  <2>1. ASSUME NEW s \in Settlements, NEW u \in Users, NEW v \in Users,
               CreateSettlement(s, u, v)
        PROVE  TypeOK'
    <3>1. [status |-> "pending", creator |-> u, counterparty |-> v] \in Row
      BY DEF Row, Statuses
    <3> QED BY <2>1, <3>1 DEF CreateSettlement, TypeOK, household
  <2>2. ASSUME NEW p \in Procs, NEW u \in Users, NEW s \in Settlements,
               NEW wish \in Decisions \cup {"remove"}, Ask(p, u, s, wish)
        PROVE  TypeOK'
    BY <2>2, AskTyped DEF Ask, TypeOK, household
  <2>3. ASSUME NEW p \in Procs, Read(p) PROVE TypeOK'
    BY <2>3, ReadTyped, ReadFrame DEF TypeOK
  <2>4. ASSUME NEW p \in Procs, Authorize(p) PROVE TypeOK'
    BY <2>4, AuthorizeTyped DEF Authorize, TypeOK, household
  <2>5. ASSUME NEW p \in Procs, UpdateStatus(p) PROVE TypeOK'
    <3>1. ~InPhase(p, "idle")
      BY <2>5 DEF UpdateStatus, InPhase
    <3>2. row' \in [Settlements -> Row]
      BY <2>5, UpdateStatusStep, SetStatusTyped DEF TypeOK, Statuses
    <3>3. proc' \in [Procs -> ProcState]
      BY <2>5, <3>1, UpdateStatusStep, AnswerTyped DEF Results
    <3> QED BY <2>5, <3>2, <3>3, UpdateStatusStep DEF TypeOK
  <2>6. ASSUME NEW p \in Procs, Delete(p) PROVE TypeOK'
    <3>1. ~InPhase(p, "idle")
      BY <2>6 DEF Delete, InPhase
    <3>2. row' \in [Settlements -> Row]
      BY <2>6, DeleteStep, SetStatusTyped DEF TypeOK, Statuses
    <3>3. proc' \in [Procs -> ProcState]
      BY <2>6, <3>1, DeleteStep, AnswerTyped DEF Results
    <3> QED BY <2>6, <3>2, <3>3, DeleteStep DEF TypeOK
  <2>7. ASSUME NEW p \in Procs, Abort(p) PROVE TypeOK'
    BY <2>7, AnswerTyped DEF Abort, TypeOK, Results, household
  <2>8. ASSUME NEW u \in Users, Leave(u) \/ Rejoin(u) \/ Promote(u) \/ Demote(u)
        PROVE  TypeOK'
    BY <2>8 DEF Leave, Rejoin, Promote, Demote, LosesRole, TypeOK
  <2>9. CASE UNCHANGED vars
    BY <2>9 DEF vars, TypeOK
  <2> QED BY <2>1, <2>2, <2>3, <2>4, <2>5, <2>6, <2>7, <2>8, <2>9 DEF Next
<1> QED BY <1>1, <1>2, PTL DEF Spec

-----------------------------------------------------------------------------
(* The protocol *)

\* A change of one status is a change of the abstract state.
LEMMA StatusMapped ==
  ASSUME TypeOK, NEW s \in Settlements, NEW status \in Statuses, SetStatus(s, status)
  PROVE  [t \in Settlements |-> row[t].status]'
            = [[t \in Settlements |-> row[t].status] EXCEPT ![s] = status]
BY SetStatusTyped

\* The requests implement the protocol, whatever they have read and however
\* they interleave: a settlement is decided at most once.
THEOREM Implementation == Spec => Implements
<1>1. Init => Protocol!Init
  BY DEF Init, Protocol!Init, NoRow
<1>2. TypeOK /\ [Next]_vars => [Protocol!Next]_[s \in Settlements |-> row[s].status]
  <2> SUFFICES ASSUME TypeOK, [Next]_vars
               PROVE  Protocol!Next \/ [s \in Settlements |-> row[s].status]'
                                         = [s \in Settlements |-> row[s].status]
    OBVIOUS
  <2>1. ASSUME NEW s \in Settlements, NEW u \in Users, NEW v \in Users,
               CreateSettlement(s, u, v)
        PROVE  Protocol!Next
    <3>1. row[s].status = "none"
      BY <2>1 DEF CreateSettlement, NoRow
    <3>2. [t \in Settlements |-> row[t].status]'
            = [[t \in Settlements |-> row[t].status] EXCEPT ![s] = "pending"]
      BY <2>1 DEF CreateSettlement, TypeOK
    <3> QED BY <3>1, <3>2 DEF Protocol!Next, Protocol!Record, Protocol!Become
  <2>2. ASSUME NEW p \in Procs, UpdateStatus(p), row' # row PROVE Protocol!Next
    <3> DEFINE s == proc[p].id
    <3>1. /\ s \in Settlements /\ row[s].status = "pending"
          /\ proc[p].wish \in Decisions /\ SetStatus(s, proc[p].wish)
      BY <2>2, UpdateStatusStep DEF Pending
    <3>2. [t \in Settlements |-> row[t].status]'
            = [[t \in Settlements |-> row[t].status] EXCEPT ![s] = proc[p].wish]
      BY <3>1, StatusMapped DEF Statuses
    <3> QED BY <3>1, <3>2 DEF Protocol!Next, Protocol!Decide, Protocol!Become, Decisions
  <2>3. ASSUME NEW p \in Procs, Delete(p), row' # row PROVE Protocol!Next
    <3> DEFINE s == proc[p].id
    <3>1. s \in Settlements /\ Exists(s) /\ SetStatus(s, "removed")
      BY <2>3, DeleteStep
    <3>2. row[s].status \in {"pending", "confirmed", "declined"}
      BY <3>1 DEF Exists, TypeOK, Row, Statuses, Decisions
    <3>3. [t \in Settlements |-> row[t].status]'
            = [[t \in Settlements |-> row[t].status] EXCEPT ![s] = "removed"]
      BY <3>1, StatusMapped DEF Statuses
    <3> QED BY <3>1, <3>2, <3>3 DEF Protocol!Next, Protocol!Remove, Protocol!Become
  <2>4. CASE row' = row
    BY <2>4
  <2> QED BY <2>1, <2>2, <2>3, <2>4, ReadFrame DEF Next, Ask, Authorize, Abort, Leave, Rejoin,
                          Promote, Demote, household, vars
<1>3. Spec => []TypeOK
  BY TypeCorrect
<1> QED BY <1>1, <1>2, <1>3, PTL DEF Spec, Implements, Protocol!Spec

-----------------------------------------------------------------------------
(* Answers stand *)

\* A step that leaves the decided rows decided keeps the answers given, and
\* must make sure of the answer it gives itself.
LEMMA AnswersKept ==
  ASSUME TypeOK, AnswersStand, NEW p \in Procs,
         \A q \in Procs \ {p} : proc'[q] = proc[q],
         \A s \in Settlements : row[s].status \in Decisions \cup {"removed"}
                                  => row'[s].status \in {row[s].status, "removed"},
         InPhase(p, "idle")' /\ proc'[p].result \in Decisions
            => row'[proc'[p].id].status \in {proc'[p].result, "removed"}
  PROVE  AnswersStand'
<1> SUFFICES ASSUME NEW q \in Procs, proc'[q].pc = "idle", proc'[q].result \in Decisions
             PROVE  row'[proc'[q].id].status \in {proc'[q].result, "removed"}
  BY DEF AnswersStand, InPhase
<1>1. CASE q = p
  BY <1>1 DEF InPhase
<1>2. CASE q # p
  <2>1. proc'[q] = proc[q]
    BY <1>2
  <2>2. proc[q].id \in Settlements
    BY <2>1 DEF TypeOK, ProcState, Decisions
  <2>3. row[proc[q].id].status \in {proc[q].result, "removed"}
    BY <2>1 DEF AnswersStand, InPhase
  <2> QED BY <2>1, <2>2, <2>3
<1> QED BY <1>1, <1>2

\* Whoever was told that a settlement is decided was told the truth for good.
THEOREM AnswersAreFinal == Spec => []AnswersStand
<1>1. Init => AnswersStand
  BY DEF Init, AnswersStand, Decisions
<1>2. TypeOK /\ AnswersStand /\ [Next]_vars => AnswersStand'
  <2> SUFFICES ASSUME TypeOK, AnswersStand, [Next]_vars PROVE AnswersStand'
    OBVIOUS
  <2>1. ASSUME NEW s \in Settlements, NEW u \in Users, NEW v \in Users,
               CreateSettlement(s, u, v)
        PROVE  AnswersStand'
    <3>1. /\ row[s].status = "none"
          /\ \A t \in Settlements \ {s} : row'[t] = row[t]
          /\ proc' = proc
      BY <2>1 DEF CreateSettlement, NoRow, TypeOK
    <3> SUFFICES ASSUME NEW q \in Procs, proc[q].pc = "idle", proc[q].result \in Decisions
                 PROVE  row'[proc[q].id].status \in {proc[q].result, "removed"}
      BY <3>1 DEF AnswersStand, InPhase
    <3>2. proc[q].id \in Settlements
      BY DEF TypeOK, ProcState, Decisions
    <3>3. row[proc[q].id].status \in {proc[q].result, "removed"}
      BY DEF AnswersStand, InPhase
    <3>4. proc[q].id # s
      BY <3>1, <3>3 DEF Decisions
    <3> QED BY <3>1, <3>2, <3>3, <3>4
  <2>2. ASSUME NEW p \in Procs, NEW u \in Users, NEW s \in Settlements,
               NEW wish \in Decisions \cup {"remove"}, Ask(p, u, s, wish)
        PROVE  AnswersStand'
    BY <2>2, AskTyped, AnswersKept DEF Ask, InPhase
  <2>3. ASSUME NEW p \in Procs, Read(p) PROVE AnswersStand'
    BY <2>3, ReadTyped, ReadFrame, AnswersKept DEF InPhase, Decisions
  <2>4. ASSUME NEW p \in Procs, Authorize(p) PROVE AnswersStand'
    BY <2>4, AuthorizeTyped, AnswersKept DEF Authorize, InPhase, Decisions
  <2>5. ASSUME NEW p \in Procs, UpdateStatus(p) PROVE AnswersStand'
    <3>1. ~InPhase(p, "idle")
      BY <2>5 DEF UpdateStatus, InPhase
    <3>2. proc[p].id \in Settlements /\ proc[p].wish \in Results
      BY <2>5, <3>1, RequestKnows DEF UpdateStatus, ProcState, Request, Results, Decisions
    <3>3. CASE /\ Pending(proc[p].id)
               /\ proc[p].wish \in Decisions
               /\ SetStatus(proc[p].id, proc[p].wish)
               /\ Answer(p, proc[p].wish)
      <4>1. /\ proc'[p].id = proc[p].id /\ proc'[p].result = proc[p].wish
            /\ \A q \in Procs \ {p} : proc'[q] = proc[q]
        BY <3>1, <3>2, <3>3, AnswerTyped, RequestKnows DEF ProcState, Request
      <4>2. /\ row'[proc[p].id].status = proc[p].wish
            /\ \A s \in Settlements \ {proc[p].id} : row'[s] = row[s]
        BY <3>2, <3>3, SetStatusTyped DEF Statuses
      <4> QED BY <3>3, <4>1, <4>2, AnswersKept DEF Pending, Decisions
    <3>4. CASE row' = row /\ Answer(p, "conflict")
      <4>1. /\ proc'[p].result = "conflict"
            /\ \A q \in Procs \ {p} : proc'[q] = proc[q]
        BY <3>1, <3>4, AnswerTyped, RequestKnows DEF ProcState, Request, Results
      <4> QED BY <3>4, <4>1, AnswersKept DEF Decisions
    <3> QED BY <2>5, <3>3, <3>4, UpdateStatusStep
  <2>6. ASSUME NEW p \in Procs, Delete(p) PROVE AnswersStand'
    <3>1. ~InPhase(p, "idle")
      BY <2>6 DEF Delete, InPhase
    <3>2. PICK r \in {"removed", "refused"} : Answer(p, r)
      BY <2>6, DeleteStep
    <3>3. /\ proc'[p].result \notin Decisions
          /\ \A q \in Procs \ {p} : proc'[q] = proc[q]
      BY <3>1, <3>2, AnswerTyped, RequestKnows DEF ProcState, Request, Results, Decisions
    <3>4. \A s \in Settlements : row'[s] = row[s] \/ row'[s].status = "removed"
      BY <2>6, DeleteStep, SetStatusTyped DEF Statuses
    <3> QED BY <3>3, <3>4, AnswersKept
  <2>7. ASSUME NEW p \in Procs, Abort(p) PROVE AnswersStand'
    <3>1. /\ proc'[p].result = "none"
          /\ \A q \in Procs \ {p} : proc'[q] = proc[q]
      BY <2>7, AnswerTyped, RequestKnows DEF Abort, ProcState, Request, Results
    <3> QED BY <2>7, <3>1, AnswersKept DEF Abort, Decisions
  <2>8. CASE row' = row /\ proc' = proc
    BY <2>8 DEF AnswersStand, InPhase
  <2> QED BY <2>1, <2>2, <2>3, <2>4, <2>5, <2>6, <2>7, <2>8 DEF Next, Leave, Rejoin, Promote, Demote, vars
<1>3. Spec => []TypeOK
  BY TypeCorrect
<1> QED BY <1>1, <1>2, <1>3, PTL DEF Spec
-----------------------------------------------------------------------------
(* Who decides, and who removes *)

\* Who may remove a settlement: an admin, whoever was one when the role was
\* checked, or its creator if it was pending when the request read it.
RemovalAllowed(p) == \/ proc[p].caller \in admins
                     \/ p \in demoted
                     \/ /\ proc[p].seen.status = "pending"
                        /\ proc[p].seen.creator = proc[p].caller

\* What a request read about the two sides stays true, and a request about to
\* confirm or decline has been found to be the counterparty's; one about to
\* remove, to be an admin's or the creator's.
ReadHolds(p) ==
    /\ proc[p].pc \in {"authorize", "write"} =>
         /\ row[proc[p].id].status # "none"
         /\ row[proc[p].id].creator = proc[p].seen.creator
         /\ row[proc[p].id].counterparty = proc[p].seen.counterparty
    /\ (proc[p].pc = "write" /\ proc[p].wish # "remove") =>
         proc[p].caller = proc[p].seen.counterparty
    /\ (proc[p].pc = "write" /\ proc[p].wish = "remove") => RemovalAllowed(p)

TwoSides(s) == row[s].status # "none" => row[s].creator # row[s].counterparty

SidesInv == /\ \A p \in Procs : ReadHolds(p)
            /\ \A s \in Settlements : TwoSides(s)

\* A change of status touches neither side.
LEMMA SidesKept ==
  ASSUME TypeOK, NEW s \in Settlements, NEW status \in Statuses \ {"none"},
         row[s].status # "none", SetStatus(s, status)
  PROVE  \A t \in Settlements : /\ (row[t].status = "none") <=> (row'[t].status = "none")
                                /\ row'[t].creator = row[t].creator
                                /\ row'[t].counterparty = row[t].counterparty
BY DEF TypeOK, SetStatus, Row

\* A step of one request keeps what the others have read.
LEMMA ReadsKept ==
  ASSUME TypeOK, SidesInv, NEW p \in Procs,
         \A q \in Procs \ {p} : proc'[q] = proc[q],
         \A t \in Settlements : /\ (row[t].status = "none") <=> (row'[t].status = "none")
                                /\ row'[t].creator = row[t].creator
                                /\ row'[t].counterparty = row[t].counterparty,
         admins' = admins /\ demoted \ {p} \subseteq demoted',
         ReadHolds(p)'
  PROVE  SidesInv'
<1>1. ASSUME NEW q \in Procs PROVE ReadHolds(q)'
  <2>1. CASE q = p
    BY <2>1
  <2>2. CASE q # p
    <3>1. proc'[q] = proc[q]
      BY <2>2
    <3>2. proc[q].pc # "idle" => proc[q].id \in Settlements
      BY DEF TypeOK, ProcState
    <3> QED BY <3>1, <3>2 DEF SidesInv, ReadHolds, RemovalAllowed
  <2> QED BY <2>1, <2>2
<1>2. ASSUME NEW s \in Settlements PROVE TwoSides(s)'
  BY DEF SidesInv, TwoSides
<1> QED BY <1>1, <1>2 DEF SidesInv

\* Reads go out of date, but not in what they say about the two sides.
LEMMA SidesAlways == Spec => []SidesInv
<1>1. Init => SidesInv
  BY DEF Init, SidesInv, ReadHolds, TwoSides, NoRow
<1>2. TypeOK /\ SidesInv /\ [Next]_vars => SidesInv'
  <2> SUFFICES ASSUME TypeOK, SidesInv, [Next]_vars PROVE SidesInv'
    OBVIOUS
  <2>1. ASSUME NEW s \in Settlements, NEW u \in Users, NEW v \in Users,
               CreateSettlement(s, u, v)
        PROVE  SidesInv'
    <3>1. /\ row[s].status = "none"
          /\ row'[s].creator = u /\ row'[s].counterparty = v /\ u # v
          /\ \A t \in Settlements \ {s} : row'[t] = row[t]
          /\ proc' = proc /\ admins' = admins /\ demoted' = demoted
      BY <2>1 DEF CreateSettlement, NoRow, TypeOK, household
    <3>2. ASSUME NEW q \in Procs PROVE ReadHolds(q)'
      <4>1. proc[q].pc # "idle" => proc[q].id \in Settlements
        BY DEF TypeOK, ProcState
      <4> QED BY <3>1, <4>1 DEF SidesInv, ReadHolds, RemovalAllowed
    <3>3. ASSUME NEW t \in Settlements PROVE TwoSides(t)'
      BY <3>1 DEF SidesInv, TwoSides
    <3> QED BY <3>2, <3>3 DEF SidesInv
  <2>2. ASSUME NEW p \in Procs, NEW u \in Users, NEW s \in Settlements,
               NEW wish \in Decisions \cup {"remove"}, Ask(p, u, s, wish)
        PROVE  SidesInv'
    BY <2>2, AskTyped, ReadsKept DEF Ask, ReadHolds, household
  <2>3. ASSUME NEW p \in Procs, Read(p) PROVE SidesInv'
    <3>1. ~InPhase(p, "idle")
      BY <2>3 DEF Read, InPhase
    <3>2. CASE Exists(proc[p].id)
      <4> DEFINE read == [proc[p] EXCEPT !.pc = "authorize", !.seen = row[proc[p].id]]
      <4>1. /\ read.pc = "authorize" /\ read.id = proc[p].id
            /\ read.seen = row[proc[p].id]
        BY <3>1, RequestKnows DEF ProcState, Request
      <4>2. proc'[p] = read /\ row' = row /\ admins' = admins /\ demoted' = demoted
        BY <2>3, <3>2 DEF Read, Become, TypeOK, household
      <4>3. row[proc[p].id].status # "none"
        BY <3>2 DEF Exists
      <4> HIDE DEF read
      <4>4. ReadHolds(p)'
        BY <4>1, <4>2, <4>3 DEF ReadHolds
      <4> QED BY <2>3, <4>2, <4>4, ReadTyped, ReadsKept
    <3>3. CASE ~Exists(proc[p].id)
      <4>1. proc'[p].pc = "idle"
        BY <2>3, <3>1, <3>3, AnswerTyped DEF Read, Results
      <4> QED BY <2>3, <4>1, ReadTyped, ReadFrame, ReadsKept DEF ReadHolds
    <3> QED BY <3>2, <3>3
  <2>4. ASSUME NEW p \in Procs, Authorize(p) PROVE SidesInv'
    <3>1. /\ ~InPhase(p, "idle") /\ proc[p].pc = "authorize" /\ row' = row
          /\ admins' = admins /\ demoted' = demoted
      BY <2>4 DEF Authorize, InPhase, household
    <3>2. CASE /\ Goto(p, "write")
               /\ proc[p].wish # "remove" => proc[p].caller = proc[p].seen.counterparty
               /\ proc[p].wish = "remove" => RemovalAllowed(p)
      <4> DEFINE allowed == [proc[p] EXCEPT !.pc = "write"]
      <4>1. /\ allowed.pc = "write" /\ allowed.id = proc[p].id /\ allowed.wish = proc[p].wish
            /\ allowed.caller = proc[p].caller /\ allowed.seen = proc[p].seen
        BY <3>1, RequestKnows DEF ProcState, Request
      <4>2. proc'[p] = allowed
        BY <3>2 DEF Goto, Become, TypeOK
      <4> HIDE DEF allowed
      <4>3. ReadHolds(p)'
        BY <3>1, <3>2, <4>1, <4>2 DEF ReadHolds, SidesInv, RemovalAllowed
      <4> QED BY <2>4, <3>1, <4>3, AuthorizeTyped, ReadsKept
    <3>3. CASE Answer(p, "refused") \/ Answer(p, "conflict")
      <4>1. proc'[p].pc = "idle"
        BY <3>1, <3>3, AnswerTyped DEF Results
      <4> QED BY <2>4, <3>1, <4>1, AuthorizeTyped, ReadsKept DEF ReadHolds
    <3> QED BY <2>4, <3>2, <3>3 DEF Authorize, MayRespond, MayDelete, RemovalAllowed
  <2>5. ASSUME NEW p \in Procs, UpdateStatus(p) PROVE SidesInv'
    <3>1. ~InPhase(p, "idle")
      BY <2>5 DEF UpdateStatus, InPhase
    <3>2. PICK r \in Results : Answer(p, r)
      BY <2>5, UpdateStatusStep DEF Results
    <3>3. proc'[p].pc = "idle" /\ \A q \in Procs \ {p} : proc'[q] = proc[q]
      BY <3>1, <3>2, AnswerTyped
    <3>4. \A t \in Settlements : /\ (row[t].status = "none") <=> (row'[t].status = "none")
                                 /\ row'[t].creator = row[t].creator
                                 /\ row'[t].counterparty = row[t].counterparty
      BY <2>5, UpdateStatusStep, SidesKept DEF Pending, Decisions, Statuses
    <3>5. admins' = admins /\ demoted \ {p} \subseteq demoted'
      BY <2>5, UpdateStatusStep
    <3> QED BY <3>3, <3>4, <3>5, ReadsKept DEF ReadHolds
  <2>6. ASSUME NEW p \in Procs, Delete(p) PROVE SidesInv'
    <3>1. ~InPhase(p, "idle")
      BY <2>6 DEF Delete, InPhase
    <3>2. PICK r \in Results : Answer(p, r)
      BY <2>6, DeleteStep DEF Results
    <3>3. proc'[p].pc = "idle" /\ \A q \in Procs \ {p} : proc'[q] = proc[q]
      BY <3>1, <3>2, AnswerTyped
    <3>4. \A t \in Settlements : /\ (row[t].status = "none") <=> (row'[t].status = "none")
                                 /\ row'[t].creator = row[t].creator
                                 /\ row'[t].counterparty = row[t].counterparty
      BY <2>6, DeleteStep, SidesKept DEF Exists, Statuses
    <3>5. admins' = admins /\ demoted \ {p} \subseteq demoted'
      BY <2>6, DeleteStep
    <3> QED BY <3>3, <3>4, <3>5, ReadsKept DEF ReadHolds
  <2>7. ASSUME NEW p \in Procs, Abort(p) PROVE SidesInv'
    <3>1. /\ proc'[p].pc = "idle"
          /\ \A q \in Procs \ {p} : proc'[q] = proc[q]
      BY <2>7, AnswerTyped DEF Abort, Results
    <3> QED BY <2>7, <3>1, ReadsKept DEF Abort, ReadHolds, household
  <2>8. ASSUME NEW u \in Users, Leave(u) \/ Rejoin(u) \/ Promote(u) \/ Demote(u)
        PROVE  SidesInv'
    <3>1. row' = row /\ proc' = proc
      BY <2>8 DEF Leave, Rejoin, Promote, Demote
    <3>2. ASSUME NEW q \in Procs, proc[q].pc = "write", proc[q].wish = "remove",
                 RemovalAllowed(q)
          PROVE  RemovalAllowed(q)'
      BY <2>8, <3>1, <3>2
      DEF RemovalAllowed, Leave, Rejoin, Promote, Demote, LosesRole, InPhase
    <3>3. ASSUME NEW q \in Procs PROVE ReadHolds(q)'
      BY <3>1, <3>2 DEF SidesInv, ReadHolds
    <3> QED BY <3>1, <3>3 DEF SidesInv, TwoSides
  <2>9. CASE UNCHANGED vars
    BY <2>9 DEF vars, SidesInv, ReadHolds, RemovalAllowed, TwoSides
  <2> QED BY <2>1, <2>2, <2>3, <2>4, <2>5, <2>6, <2>7, <2>8, <2>9 DEF Next
<1> QED BY <1>1, <1>2, TypeCorrect, PTL DEF Spec

\* Only the counterparty confirms or declines, never the recorder.
THEOREM CounterpartyDecides == Spec => OnlyCounterpartyDecides
<1>1. TypeOK /\ SidesInv /\ [Next]_vars =>
        [\A s \in Settlements :
           (row[s].status = "pending" /\ row'[s].status \in Decisions) =>
              \E p \in Procs : /\ InPhase(p, "write") /\ proc[p].id = s
                               /\ proc[p].caller = row[s].counterparty
                               /\ proc[p].caller # row[s].creator]_vars
  <2> SUFFICES ASSUME TypeOK, SidesInv, Next, NEW s \in Settlements,
                      row[s].status = "pending", row'[s].status \in Decisions
               PROVE  \E p \in Procs : /\ InPhase(p, "write") /\ proc[p].id = s
                                       /\ proc[p].caller = row[s].counterparty
                                       /\ proc[p].caller # row[s].creator
    OBVIOUS
  <2>1. ASSUME NEW t \in Settlements, NEW u \in Users, NEW v \in Users,
               CreateSettlement(t, u, v)
        PROVE  FALSE
    BY <2>1 DEF CreateSettlement, NoRow, TypeOK, Decisions
  <2>2. ASSUME NEW p \in Procs, Delete(p) PROVE FALSE
    BY <2>2, DeleteStep, SetStatusTyped DEF Statuses, Decisions
  <2>3. PICK p \in Procs : UpdateStatus(p)
    BY <2>1, <2>2, ReadFrame DEF Next, Ask, Authorize, Abort, Leave, Rejoin,
                          Promote, Demote, household, Decisions
  <2>4. SetStatus(proc[p].id, proc[p].wish) /\ proc[p].wish \in Decisions
    BY <2>3, UpdateStatusStep DEF Decisions
  <2>5. proc[p].id = s
    BY <2>3, <2>4, UpdateStatusStep, SetStatusTyped DEF Statuses, Decisions
  <2>6. proc[p].pc = "write" /\ proc[p].wish # "remove"
    BY <2>3 DEF UpdateStatus, InPhase
  <2>7. proc[p].caller = row[s].counterparty
    BY <2>5, <2>6 DEF SidesInv, ReadHolds
  <2>8. row[s].creator # row[s].counterparty
    BY DEF SidesInv, TwoSides
  <2> QED BY <2>5, <2>6, <2>7, <2>8 DEF InPhase
<1> QED BY <1>1, TypeCorrect, SidesAlways, PTL DEF Spec, OnlyCounterpartyDecides

\* A decided settlement disappears only by the hand of an admin, of somebody who
\* has lost that role since it was checked, or of its creator who had read it as
\* pending (DeleteSettlement).
THEOREM RemovalsAreKnown == Spec => DecidedRemovalsAreKnown
<1>1. TypeOK /\ SidesInv /\ [Next]_vars =>
        [\A s \in Settlements :
           (row[s].status \in Decisions /\ row'[s].status = "removed") =>
              \E p \in Procs : /\ InPhase(p, "write") /\ proc[p].id = s
                               /\ \/ proc[p].caller \in admins
                                  \/ p \in demoted
                                  \/ /\ proc[p].caller = row[s].creator
                                     /\ proc[p].seen.status = "pending"]_vars
  <2> SUFFICES ASSUME TypeOK, SidesInv, Next, NEW s \in Settlements,
                      row[s].status \in Decisions, row'[s].status = "removed"
               PROVE  \E p \in Procs : /\ InPhase(p, "write") /\ proc[p].id = s
                                       /\ \/ proc[p].caller \in admins
                                          \/ p \in demoted
                                          \/ /\ proc[p].caller = row[s].creator
                                             /\ proc[p].seen.status = "pending"
    OBVIOUS
  <2>1. ASSUME NEW t \in Settlements, NEW u \in Users, NEW v \in Users,
               CreateSettlement(t, u, v)
        PROVE  FALSE
    BY <2>1 DEF CreateSettlement, NoRow, TypeOK, Decisions
  <2>2. ASSUME NEW p \in Procs, UpdateStatus(p) PROVE FALSE
    <3>1. row' # row
      BY DEF Decisions
    <3>2. /\ proc[p].id \in Settlements /\ Pending(proc[p].id)
          /\ proc[p].wish \in Decisions /\ SetStatus(proc[p].id, proc[p].wish)
      BY <2>2, <3>1, UpdateStatusStep
    <3> QED BY <3>2, SetStatusTyped DEF Statuses, Decisions
  <2>3. PICK p \in Procs : Delete(p)
    BY <2>1, <2>2, ReadFrame DEF Next, Ask, Authorize, Abort, Leave, Rejoin,
                          Promote, Demote, household, Decisions
  <2>4. proc[p].id \in Settlements /\ SetStatus(proc[p].id, "removed")
    BY <2>3, DeleteStep DEF Decisions
  <2>5. proc[p].id = s
    BY <2>4, SetStatusTyped DEF Statuses, Decisions
  <2>6. proc[p].pc = "write" /\ proc[p].wish = "remove"
    BY <2>3 DEF Delete, InPhase
  <2>7. RemovalAllowed(p) /\ row[s].creator = proc[p].seen.creator
    BY <2>5, <2>6 DEF SidesInv, ReadHolds
  <2> QED BY <2>5, <2>6, <2>7 DEF InPhase, RemovalAllowed
<1> QED BY <1>1, TypeCorrect, SidesAlways, PTL DEF Spec, DecidedRemovalsAreKnown
=============================================================================
