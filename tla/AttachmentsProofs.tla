------------------------- MODULE AttachmentsProofs -------------------------
(***************************************************************************)
(* Theorems about Attachments, for any number of requests and uploads, any *)
(* sizes and any quota: counters, rows and objects agree, the quota is     *)
(* kept, and an upload that was reserved can be finalized.                 *)
(***************************************************************************)
EXTENDS Attachments, OrderLemmas

-----------------------------------------------------------------------------
(***************************************************************************)
(* Sums over finite sets.  The library computes them by a recursive        *)
(* function on the subsets: there is one, it does not depend on the set it *)
(* is defined on, and so any element may be taken out first.               *)
(***************************************************************************)
Sum(r, S) == MapThenSumSet(LAMBDA a : r[a].size, S)

Choice(s) == CHOOSE x \in s : TRUE
SumStep(r, s, g) == IF s = {} THEN 0 ELSE r[Choice(s)].size + g[s \ {Choice(s)}]
SumsUp(r, S, g) == g = [s \in SUBSET S |-> SumStep(r, s, g)]

LEMMA SumIs ==
  ASSUME NEW r, NEW S
  PROVE  Sum(r, S) = (CHOOSE g : SumsUp(r, S, g))[S]
BY DEF Sum, MapThenSumSet, MapThenFoldSet, SumStep, SumsUp, Choice

\* Two functions that sum up agree where both are defined.
LEMMA SumsAgree ==
  ASSUME NEW r, NEW S, IsFiniteSet(S), NEW U \in SUBSET S,
         NEW g, SumsUp(r, S, g), NEW h, SumsUp(r, U, h)
  PROVE  \A T \in SUBSET U : g[T] = h[T]
<1> DEFINE H == {T \in SUBSET U : g[T] = h[T]}
<1>1. \A T \in SUBSET U : g[T] = SumStep(r, T, g) /\ h[T] = SumStep(r, T, h)
  BY DEF SumsUp
<1>2. ASSUME NEW T \in SUBSET U, \A x \in T : T \ {x} \in H PROVE T \in H
  <2>1. T # {} => Choice(T) \in T
    BY DEF Choice
  <2> QED BY <1>1, <1>2, <2>1 DEF SumStep
<1>3. IsFiniteSet(U)
  BY FS_Subset
<1>4. SUBSET U \subseteq H
  <2> HIDE DEF H
  <2> QED BY <1>2, <1>3, AllSubsets
<1> QED BY <1>4

\* A function that sums up over S gives the sum over each subset of S.
LEMMA SumValue ==
  ASSUME NEW r, NEW S, IsFiniteSet(S), NEW g, SumsUp(r, S, g)
  PROVE  \A T \in SUBSET S : Sum(r, T) = g[T]
<1> SUFFICES ASSUME NEW T \in SUBSET S PROVE Sum(r, T) = g[T]
  OBVIOUS
<1> DEFINE part == [v \in SUBSET T |-> g[v]]
<1>1. \A v \in SUBSET S : g[v] = SumStep(r, v, g)
  BY DEF SumsUp
<1>2. ASSUME NEW v \in SUBSET T PROVE part[v] = SumStep(r, v, part)
  <2>1. v \in SUBSET S /\ part[v] = g[v] /\ v \ {Choice(v)} \in SUBSET T
    OBVIOUS
  <2> QED BY <1>1, <2>1 DEF SumStep
<1>3. SumsUp(r, T, part)
  <2>1. part = [v \in SUBSET T |-> part[v]]
    OBVIOUS
  <2> HIDE DEF part
  <2> QED BY <1>2, <2>1 DEF SumsUp
<1> DEFINE h == CHOOSE h : SumsUp(r, T, h)
<1>4. SumsUp(r, T, h)
  <2> HIDE DEF part
  <2> QED BY <1>3
<1>5. Sum(r, T) = h[T]
  BY SumIs
<1>6. g[T] = h[T]
  <2> HIDE DEF h
  <2> QED BY <1>4, SumsAgree
<1> QED BY <1>5, <1>6

\* A finite set has a function that sums up.
LEMMA SumExists ==
  ASSUME NEW r, NEW S, IsFiniteSet(S)
  PROVE  \E g : SumsUp(r, S, g)
<1> DEFINE H == {T \in SUBSET S : \E g : SumsUp(r, T, g)}
<1>1. ASSUME NEW T \in SUBSET S, \A x \in T : T \ {x} \in H PROVE T \in H
  <2> DEFINE g == [s \in SUBSET T |-> IF s = {} THEN 0
                     ELSE r[Choice(s)].size + Sum(r, s \ {Choice(s)})]
  <2>1. ASSUME NEW s \in SUBSET T, s # {}
        PROVE  g[s \ {Choice(s)}] = Sum(r, s \ {Choice(s)})
    <3> DEFINE x == Choice(s)
               u == s \ {x}
               y == Choice(u)
    <3>1. x \in T /\ u \in SUBSET (T \ {x})
      BY <2>1 DEF Choice
    <3>2. IsFiniteSet(T) /\ IsFiniteSet(T \ {x})
      BY FS_Subset
    <3> HIDE DEF x
    <3>3. PICK h : SumsUp(r, T \ {x}, h)
      BY <1>1, <3>1
    <3>4. \A v \in SUBSET (T \ {x}) : Sum(r, v) = h[v]
      BY <3>2, <3>3, SumValue
    <3>5. h[u] = SumStep(r, u, h)
      BY <3>1, <3>3 DEF SumsUp
    <3>6. g[u] = IF u = {} THEN 0 ELSE r[y].size + Sum(r, u \ {y})
      BY <3>1
    <3>7. u # {} => u \ {y} \in SUBSET (T \ {x})
      BY <3>1
    <3>8. g[u] = Sum(r, u)
      <4> HIDE DEF u, g
      <4> QED BY <3>1, <3>4, <3>5, <3>6, <3>7 DEF SumStep
    <3> QED BY <3>8 DEF x
  <2>2. ASSUME NEW s \in SUBSET T PROVE g[s] = SumStep(r, s, g)
    BY <2>1 DEF SumStep
  <2>3. g = [s \in SUBSET T |-> g[s]]
    OBVIOUS
  <2> HIDE DEF g
  <2>4. SumsUp(r, T, g)
    BY <2>2, <2>3 DEF SumsUp
  <2> QED BY <2>4
<1>2. SUBSET S \subseteq H
  <2> HIDE DEF H
  <2> QED BY <1>1, AllSubsets
<1> QED BY <1>2

LEMMA SumUnfolds ==
  ASSUME NEW r, NEW S, IsFiniteSet(S)
  PROVE  Sum(r, S) = IF S = {} THEN 0 ELSE r[Choice(S)].size + Sum(r, S \ {Choice(S)})
<1>1. PICK g : SumsUp(r, S, g)
  BY SumExists
<1>2. \A T \in SUBSET S : Sum(r, T) = g[T]
  BY <1>1, SumValue
<1>3. g[S] = SumStep(r, S, g)
  BY <1>1 DEF SumsUp
<1> QED BY <1>2, <1>3 DEF SumStep

LEMMA SumType ==
  ASSUME NEW r, NEW S, IsFiniteSet(S), \A a \in S : r[a].size \in Nat
  PROVE  \A T \in SUBSET S : Sum(r, T) \in Nat
<1> DEFINE H == {T \in SUBSET S : Sum(r, T) \in Nat}
<1>1. ASSUME NEW T \in SUBSET S, \A x \in T : T \ {x} \in H PROVE T \in H
  <2>1. IsFiniteSet(T)
    BY FS_Subset
  <2>2. Sum(r, T) = IF T = {} THEN 0 ELSE r[Choice(T)].size + Sum(r, T \ {Choice(T)})
    BY <2>1, SumUnfolds
  <2>3. T # {} => Choice(T) \in T
    BY DEF Choice
  <2> QED BY <1>1, <2>2, <2>3
<1>2. SUBSET S \subseteq H
  <2> HIDE DEF H
  <2> QED BY <1>1, AllSubsets
<1> QED BY <1>2

\* Any element may be taken out of a sum of naturals.
LEMMA SumRemove ==
  ASSUME NEW r, NEW S, IsFiniteSet(S), \A a \in S : r[a].size \in Nat
  PROVE  \A x \in S : Sum(r, S) = r[x].size + Sum(r, S \ {x})
<1> DEFINE H == {T \in SUBSET S : \A x \in T : Sum(r, T) = r[x].size + Sum(r, T \ {x})}
<1>1. ASSUME NEW T \in SUBSET S, \A x \in T : T \ {x} \in H PROVE T \in H
  <2> DEFINE c == Choice(T)
  <2>1. IsFiniteSet(T)
    BY FS_Subset
  <2>2. Sum(r, T) = IF T = {} THEN 0 ELSE r[c].size + Sum(r, T \ {c})
    BY <2>1, SumUnfolds
  <2>3. T # {} => c \in T
    BY DEF Choice
  <2> HIDE DEF c
  <2> SUFFICES ASSUME NEW x \in T PROVE Sum(r, T) = r[x].size + Sum(r, T \ {x})
    OBVIOUS
  <2>4. CASE x = c
    BY <2>2, <2>4
  <2>5. CASE x # c
    <3>1. c \in T \ {x} /\ x \in T \ {c} /\ (T \ {x}) \ {c} = (T \ {c}) \ {x}
      BY <2>3, <2>5
    <3>2. /\ Sum(r, T \ {c}) = r[x].size + Sum(r, (T \ {c}) \ {x})
          /\ Sum(r, T \ {x}) = r[c].size + Sum(r, (T \ {c}) \ {x})
      BY <1>1, <2>3, <3>1, Zenon
    <3>3. r[x].size \in Nat /\ r[c].size \in Nat /\ Sum(r, (T \ {c}) \ {x}) \in Nat
      BY <2>3, SumType
    <3>4. Sum(r, T) = r[c].size + Sum(r, T \ {c})
      BY <2>2
    <3> QED BY <3>2, <3>3, <3>4
  <2> QED BY <2>4, <2>5
<1>2. SUBSET S \subseteq H
  <2> HIDE DEF H
  <2> QED BY <1>1, AllSubsets
<1> QED BY <1>2

\* A sum depends on nothing but what is summed.
LEMMA SumCongruent ==
  ASSUME NEW r, NEW q, NEW S, IsFiniteSet(S), \A a \in S : r[a].size = q[a].size
  PROVE  Sum(r, S) = Sum(q, S)
<1> DEFINE H == {T \in SUBSET S : Sum(r, T) = Sum(q, T)}
<1>1. ASSUME NEW T \in SUBSET S, \A x \in T : T \ {x} \in H PROVE T \in H
  <2>1. IsFiniteSet(T)
    BY FS_Subset
  <2>2. T # {} => Choice(T) \in T
    BY DEF Choice
  <2>3. Sum(r, T) = IF T = {} THEN 0 ELSE r[Choice(T)].size + Sum(r, T \ {Choice(T)})
    BY <2>1, SumUnfolds
  <2>4. Sum(q, T) = IF T = {} THEN 0 ELSE q[Choice(T)].size + Sum(q, T \ {Choice(T)})
    BY <2>1, SumUnfolds
  <2> QED BY <1>1, <2>2, <2>3, <2>4
<1>2. SUBSET S \subseteq H
  <2> HIDE DEF H
  <2> QED BY <1>1, AllSubsets
<1> QED BY <1>2

-----------------------------------------------------------------------------
(***************************************************************************)
(* The bytes of the household's rows, and what one changed row does to     *)
(* them.                                                                   *)
(***************************************************************************)
\* What is declared is a size, and not nothing.
LEMMA SizesAreNat ==
  /\ Sizes \subseteq Nat /\ 0 \in Sizes
  /\ \A n \in Sizes : \A m \in Nat : m <= n => m \in Sizes
  /\ \A n \in Declared : n \in Sizes /\ n > 0
<1>1. Max(Declared) \in Nat /\ \A n \in Declared : n \in Nat \ {0} /\ n <= Max(Declared)
  BY MaxOf, AttachmentsAssumption
<1> QED BY <1>1 DEF Sizes

LEMMA IdsFinite == IsFiniteSet(Ids) /\ Ids \subseteq Nat \ {0} /\ NoId \notin Ids
BY AttachmentsAssumption, FS_Interval DEF Ids, NoId

InState(r, st) == {b \in Ids : r[b].st = st}
Held(r, st) == Sum(r, InState(r, st))
Part(x, st) == IF x.st = st THEN x.size ELSE 0

\* Row a holds its part of the bytes in a state; the other rows hold the rest.
LEMMA HeldSplit ==
  ASSUME NEW r \in [Ids -> Row], NEW a \in Ids, NEW st
  PROVE  /\ Held(r, st) = Part(r[a], st) + Sum(r, InState(r, st) \ {a})
         /\ Part(r[a], st) \in Nat /\ Sum(r, InState(r, st) \ {a}) \in Nat
<1> DEFINE S == InState(r, st)
<1>1. IsFiniteSet(S) /\ \A b \in S : r[b].size \in Nat
  <2>1. S \subseteq Ids
    BY DEF InState
  <2>2. IsFiniteSet(S)
    BY <2>1, IdsFinite, FS_Subset
  <2>3. \A b \in Ids : r[b].size \in Nat
    BY SizesAreNat DEF Row
  <2> QED BY <2>1, <2>2, <2>3
<1>2. (a \in S) <=> r[a].st = st
  BY DEF InState
<1>3. r[a].size \in Nat
  BY SizesAreNat DEF Row
<1> HIDE DEF S
<1>4. Sum(r, S) \in Nat /\ Sum(r, S \ {a}) \in Nat
  BY <1>1, SumType
<1>5. CASE a \in S
  <2>1. Sum(r, S) = r[a].size + Sum(r, S \ {a})
    BY <1>1, <1>5, SumRemove
  <2> QED BY <1>2, <1>3, <1>4, <1>5, <2>1 DEF Part, Held, S
<1>6. CASE a \notin S
  <2>1. S \ {a} = S
    BY <1>6
  <2>2. Sum(r, S) = 0 + Sum(r, S \ {a})
    <3>1. Sum(r, S \ {a}) = Sum(r, S)
      BY <2>1, Zenon
    <3> QED BY <1>4, <3>1
  <2> QED BY <1>2, <1>4, <1>6, <2>2 DEF Part, Held, S
<1> QED BY <1>5, <1>6

\* When one row changes, the bytes held in a state change by its part.
LEMMA HeldChange ==
  ASSUME NEW r \in [Ids -> Row], NEW q \in [Ids -> Row], NEW a \in Ids, NEW st,
         \A b \in Ids \ {a} : q[b] = r[b]
  PROVE  /\ Held(q, st) = (Held(r, st) - Part(r[a], st)) + Part(q[a], st)
         /\ Part(r[a], st) <= Held(r, st)
<1> DEFINE S == InState(r, st) \ {a}
           T == InState(q, st) \ {a}
<1>1. T = S
  BY DEF InState
<1>2. IsFiniteSet(S) /\ \A b \in S : q[b].size = r[b].size
  BY IdsFinite, FS_Subset, S \subseteq Ids DEF InState
<1>3. Sum(q, S) = Sum(r, S)
  <2> HIDE DEF S
  <2> QED BY <1>2, SumCongruent
<1>4. Sum(q, T) = Sum(r, S)
  <2> HIDE DEF S, T
  <2> QED BY <1>1, <1>3
<1>5. /\ Held(r, st) = Part(r[a], st) + Sum(r, S)
      /\ Part(r[a], st) \in Nat /\ Sum(r, S) \in Nat
  BY HeldSplit
<1>6. Held(q, st) = Part(q[a], st) + Sum(q, T) /\ Part(q[a], st) \in Nat
  BY HeldSplit
<1> HIDE DEF S, T
<1> QED BY <1>4, <1>5, <1>6

LEMMA Counted ==
  /\ CountersMatchRows <=> used = Held(row, "ready") /\ reserved = Held(row, "pending")
  /\ CountersMatchRows' <=> used' = Held(row', "ready") /\ reserved' = Held(row', "pending")
<1>1. \A st \in {"ready", "pending"} : Bytes(In(st)) = Held(row, st)
  BY DEF Bytes, In, Held, InState, Sum
<1>2. \A st \in {"ready", "pending"} : Bytes(In(st))' = Held(row', st)
  BY DEF Bytes, In, Held, InState, Sum, MapThenSumSet, MapThenFoldSet
<1> QED BY <1>1, <1>2 DEF CountersMatchRows

\* What a change of one row has to do to the counters, to keep them right.
LEMMA Booked ==
  ASSUME TypeOK, CountersMatchRows, NEW a \in Ids, row' \in [Ids -> Row],
         \A b \in Ids \ {a} : row'[b] = row[b]
  PROVE  /\ Part(row[a], "ready") <= used /\ Part(row[a], "pending") <= reserved
         /\ (/\ used' = (used - Part(row[a], "ready")) + Part(row'[a], "ready")
             /\ reserved' = (reserved - Part(row[a], "pending")) + Part(row'[a], "pending"))
            => CountersMatchRows'
<1>1. row \in [Ids -> Row]
  BY DEF TypeOK
<1>2. /\ Held(row', "ready") = (Held(row, "ready") - Part(row[a], "ready")) + Part(row'[a], "ready")
      /\ Part(row[a], "ready") <= Held(row, "ready")
  BY <1>1, HeldChange
<1>3. /\ Held(row', "pending") = (Held(row, "pending") - Part(row[a], "pending")) + Part(row'[a], "pending")
      /\ Part(row[a], "pending") <= Held(row, "pending")
  BY <1>1, HeldChange
<1> QED BY <1>2, <1>3, Counted

Books == CountersMatchRows /\ WithinQuota

LEMMA BooksSame ==
  ASSUME Books, UNCHANGED rowVars
  PROVE  Books'
<1>1. CountersMatchRows'
  BY Counted DEF Books, rowVars
<1>2. WithinQuota'
  BY DEF Books, rowVars, WithinQuota
<1> QED BY <1>1, <1>2 DEF Books

-----------------------------------------------------------------------------
(***************************************************************************)
(* The inductive invariant.  Most of it is about one file: its row, its    *)
(* object and the requests that work on it.                                *)
(***************************************************************************)
Making == {"key", "undo", "undoDelete"}
Measuring == {"compress", "rewrite", "charge"}

RowGoes(a) == \E w \in Workers : work[w].id = a /\ work[w].pc = "delRow"

\* Nobody works on a row that is not there; nothing is stored under a row
\* without a key; what is pending was declared, and bounds what is stored.
RowOK(a) ==
    /\ row[a].st = "none" => row[a] = Absent /\ \A w \in Workers : work[w].id # a
    /\ row[a].st # "gone" /\ ~row[a].keyed =>
         /\ url[a] = 0 /\ obj[a] = 0
         /\ \A w \in Workers : work[w].id = a => work[w].pc \notin Measuring
    /\ row[a].st = "pending" => obj[a] <= row[a].size /\ url[a] \in {0, row[a].size}

\* A request that makes a reservation is alone with it; one that finalizes
\* measured no more than was reserved; one that deletes the row has seen the
\* object go.
JobOK(w, a) ==
    LET job == work[w] IN
    /\ job.pc \in Making =>
         /\ url[a] = 0 /\ obj[a] = 0
         /\ row[a].st = "pending" => job.size = row[a].size
         /\ \A v \in Workers \ {w} : work[v].id = a => work[v].pc \notin Making \cup Measuring
    /\ job.pc \in Measuring /\ row[a].st \in {"pending", "ready"} =>
         obj[a] # 0 \/ a \in halved \/ RowGoes(a)
    /\ job.pc \in Measuring /\ row[a].st = "pending" =>
         job.size <= row[a].size /\ (obj[a] <= job.size \/ a \in reput)
    /\ job.pc = "rewrite" => job.out > 0 /\ (row[a].st = "pending" => job.out <= row[a].size)
    /\ job.pc = "delRow" /\ obj[a] # 0 => a \in slipped

\* The safety properties, of one file.
FileSafe(a) ==
    /\ row[a].st = "ready" =>
         /\ obj[a] # 0 \/ a \in halved \/ RowGoes(a)
         /\ obj[a] <= row[a].size \/ a \in reput
    /\ row[a].st = "gone" /\ obj[a] # 0 => a \in slipped \cup stranded

FileOK(a) ==
    /\ RowOK(a) /\ FileSafe(a)
    /\ \A w \in Workers : work[w].id = a => JobOK(w, a)

WorkOK == \A w \in Workers : IF work[w].pc = "idle" THEN work[w] = Idle ELSE work[w].id \in Ids

\* The row that the sweep is deleting can no longer be finalized.
SweepOK ==
    /\ sweep.pc # "idle" => sweep.todo # {}
    /\ \A a \in sweep.todo : row[a].st # "none"
    /\ sweep.pc \in {"object", "row"} => row[Min(sweep.todo)].st \in {"failed", "gone"}
    /\ sweep.pc = "row" /\ obj[Min(sweep.todo)] # 0 => Min(sweep.todo) \in slipped

IInv == TypeOK /\ Books /\ WorkOK /\ SweepOK /\ \A a \in Ids : FileOK(a)

-----------------------------------------------------------------------------
(***************************************************************************)
(* What a step leaves alone.                                               *)
(***************************************************************************)
\* A file that a step does not touch.
SameJobs(a) ==
    \A w \in Workers : work[w].id = a \/ work'[w].id = a => work'[w] = work[w]

SameFile(a) ==
    /\ row'[a] = row[a] /\ obj'[a] = obj[a] /\ url'[a] = url[a]
    /\ (a \in slipped' <=> a \in slipped) /\ (a \in reput' <=> a \in reput)
    /\ a \in stranded => a \in stranded'
    /\ row[a].st # "gone" => (a \in halved' <=> a \in halved)
    /\ SameJobs(a)

LEMMA OtherFile ==
  ASSUME NEW a \in Ids, FileOK(a), SameFile(a)
  PROVE  FileOK(a)'
<1>1. RowGoes(a)' <=> RowGoes(a)
  BY DEF RowGoes, SameFile, SameJobs
<1>2. RowOK(a)'
  BY DEF FileOK, RowOK, SameFile, SameJobs
<1>3. FileSafe(a)'
  BY <1>1 DEF FileOK, FileSafe, SameFile
<1>4. ASSUME NEW w \in Workers, work'[w].id = a PROVE JobOK(w, a)'
  <2>1. work'[w] = work[w] /\ JobOK(w, a)
    BY <1>4 DEF FileOK, SameFile, SameJobs
  <2>2. row[a].st \in {"pending", "ready"} => (a \in halved' <=> a \in halved)
    BY DEF SameFile
  <2> QED BY <1>1, <2>1, <2>2 DEF JobOK, SameFile, SameJobs
<1> QED BY <1>2, <1>3, <1>4 DEF FileOK

\* A step touches one file: the others stay right.
LEMMA OneFile ==
  ASSUME IInv, NEW a \in Ids, FileOK(a)', \A b \in Ids \ {a} : SameFile(b),
         TypeOK', WorkOK', Books', SweepOK'
  PROVE  IInv'
<1>1. ASSUME NEW b \in Ids PROVE FileOK(b)'
  <2>1. CASE b = a
    BY <2>1
  <2>2. CASE b # a
    <3>1. FileOK(b) /\ SameFile(b)
      BY <2>2 DEF IInv
    <3> QED BY <3>1, OtherFile
  <2> QED BY <2>1, <2>2
<1> QED BY <1>1 DEF IInv

\* A step of one request, on one file.
LEMMA OneJob ==
  ASSUME IInv, NEW w \in Workers, NEW a \in Ids, work[w].id \in {a, NoId},
         \A v \in Workers \ {w} : work'[v] = work[v],
         work'[w] = Idle \/ (work'[w].id = a /\ work'[w].pc # "idle")
  PROVE  WorkOK' /\ \A b \in Ids \ {a} : SameJobs(b)
<1>1. ASSUME NEW v \in Workers
      PROVE  IF work'[v].pc = "idle" THEN work'[v] = Idle ELSE work'[v].id \in Ids
  <2>1. CASE v = w
    BY <2>1 DEF Idle
  <2>2. CASE v # w
    BY <2>2 DEF IInv, WorkOK
  <2> QED BY <2>1, <2>2
<1>2. ASSUME NEW b \in Ids \ {a} PROVE SameJobs(b)
  BY IdsFinite DEF SameJobs, Idle
<1> QED BY <1>1, <1>2 DEF WorkOK

\* A request that is not idle works on a file.
LEMMA Working ==
  ASSUME IInv, NEW w \in Workers, work[w].pc # "idle"
  PROVE  /\ work[w] \in Job /\ work[w].id \in Ids /\ work[w].size \in Nat /\ work[w].out \in Nat
         /\ FileOK(work[w].id) /\ JobOK(w, work[w].id) /\ RowOK(work[w].id)
         /\ row[work[w].id] \in Row /\ row[work[w].id].st # "none"
<1>1. work[w].id \in Ids /\ work[w] \in Job
  BY DEF IInv, WorkOK, TypeOK
<1>2. FileOK(work[w].id) /\ row[work[w].id] \in Row
  BY <1>1 DEF IInv, TypeOK
<1>3. work[w].size \in Nat /\ work[w].out \in Nat
  BY <1>1, SizesAreNat DEF Job
<1>4. JobOK(w, work[w].id) /\ RowOK(work[w].id)
  BY <1>2 DEF FileOK
<1> QED BY <1>1, <1>2, <1>3, <1>4 DEF RowOK

\* The sweep stays right when another step does not bring its rows back.
LEMMA SweepSame ==
  ASSUME TypeOK, SweepOK, UNCHANGED sweep,
         \A a \in Ids : /\ row[a].st # "none" => row'[a].st # "none"
                        /\ row[a].st \in {"failed", "gone"} => row'[a].st \in {"failed", "gone"}
                        /\ a \in slipped => a \in slipped'
                        /\ obj'[a] # 0 => \/ obj[a] # 0 \/ a \in slipped'
                                          \/ ~(sweep.pc = "row" /\ a = Min(sweep.todo))
  PROVE  SweepOK'
<1>1. sweep.todo \subseteq Ids
  BY DEF TypeOK
<1>2. sweep.pc # "idle" => Min(sweep.todo) \in Ids
  <2>1. sweep.pc # "idle" => sweep.todo # {} /\ sweep.todo \subseteq Nat
    BY <1>1, IdsFinite DEF SweepOK
  <2> QED BY <1>1, <2>1, LeastNat
<1> QED BY <1>1, <1>2 DEF SweepOK

LEMMA AtMoves ==
  ASSUME TypeOK, NEW w \in Workers, NEW job, At(w, job)
  PROVE  /\ work'[w] = job
         /\ \A v \in Workers \ {w} : work'[v] = work[v]
         /\ job \in Job => work' \in [Workers -> Job]
BY DEF TypeOK, At

LEMMA GotoMoves ==
  ASSUME TypeOK, NEW w \in Workers, NEW pc, Goto(w, pc)
  PROVE  /\ work'[w] = [work[w] EXCEPT !.pc = pc]
         /\ \A v \in Workers \ {w} : work'[v] = work[v]
         /\ [work[w] EXCEPT !.pc = pc] \in Job => work' \in [Workers -> Job]
BY DEF TypeOK, Goto

LEMMA IdleIsJob == Idle \in Job
BY SizesAreNat DEF Idle, Job

-----------------------------------------------------------------------------
(***************************************************************************)
(* The steps that change a row.                                            *)
(***************************************************************************)
LEMMA CreateUploadIntentKeeps ==
  ASSUME IInv, NEW w \in Workers, NEW n \in Declared, CreateUploadIntent(w, n),
         UNCHANGED <<household, stranded>>
  PROVE  IInv'
<1>1. PICK a \in Ids : a = Min(In("none")) /\ row[a].st = "none"
  <2>1. In("none") # {} /\ In("none") \subseteq Nat
    BY IdsFinite DEF CreateUploadIntent, In
  <2>2. Min(In("none")) \in In("none")
    BY <2>1, LeastNat
  <2> QED BY <2>2 DEF In
<1> DEFINE new == [st |-> "pending", size |-> n, keyed |-> FALSE, expired |-> FALSE]
           job == [Idle EXCEPT !.pc = "key", !.id = a, !.size = n]
<1>2. /\ work[w].pc = "idle" /\ Reserved(a, n) /\ At(w, job)
      /\ UNCHANGED <<obj, url, sweep, faults, history>>
  BY <1>1 DEF CreateUploadIntent, Doing
<1>3. /\ n \in Sizes /\ n \in Nat /\ n > 0 /\ new \in Row /\ job \in Job
      /\ job.pc = "key" /\ job.id = a /\ job.size = n
  BY <1>1, SizesAreNat DEF Row, Job, Idle
<1>4. row' = [row EXCEPT ![a] = new] /\ reserved' = reserved + n /\ used' = used /\ Fits(n)
  BY <1>2 DEF Reserved
<1>5. /\ row' \in [Ids -> Row] /\ row'[a] = new /\ \A b \in Ids \ {a} : row'[b] = row[b]
      /\ obj' = obj /\ url' = url /\ sweep' = sweep /\ faults' = faults
      /\ slipped' = slipped /\ halved' = halved /\ reput' = reput
  BY <1>1, <1>2, <1>3, <1>4 DEF IInv, TypeOK, history
<1>6. work'[w] = job /\ work' \in [Workers -> Job] /\ \A v \in Workers \ {w} : work'[v] = work[v]
  BY <1>2, <1>3, AtMoves DEF IInv
<1> HIDE DEF job
<1>7. TypeOK'
  BY <1>3, <1>4, <1>5, <1>6 DEF IInv, TypeOK
<1>8. WorkOK' /\ \A b \in Ids \ {a} : SameJobs(b)
  <2>1. work[w].id = NoId
    BY <1>2 DEF IInv, WorkOK, Idle
  <2>2. work'[w].id = a /\ work'[w].pc # "idle"
    BY <1>3, <1>6
  <2> QED BY <1>1, <1>6, <2>1, <2>2, OneJob
<1>9. Books'
  <2>1. CountersMatchRows'
    <3>1. Part(row[a], "ready") = 0 /\ Part(row[a], "pending") = 0
      BY <1>1 DEF Part
    <3>2. Part(row'[a], "ready") = 0 /\ Part(row'[a], "pending") = n
      BY <1>5 DEF Part
    <3>3. used \in Nat /\ reserved \in Nat /\ CountersMatchRows /\ TypeOK
      BY DEF IInv, TypeOK, Books
    <3> HIDE DEF new
    <3> QED BY <1>1, <1>3, <1>4, <1>5, <3>1, <3>2, <3>3, Booked
  <2>2. WithinQuota'
    BY <1>3, <1>4, AttachmentsAssumption DEF WithinQuota, Fits, IInv, TypeOK
  <2> QED BY <2>1, <2>2 DEF Books
<1>10. \A b \in Ids \ {a} : SameFile(b)
  BY <1>5, <1>8 DEF SameFile
<1>11. FileOK(a)'
  <2>1. FileOK(a) /\ row[a] = Absent /\ \A v \in Workers : work[v].id # a
    BY <1>1 DEF IInv, FileOK, RowOK
  <2>2. url'[a] = 0 /\ obj'[a] = 0
    BY <1>5, <2>1 DEF FileOK, RowOK, Absent
  <2>3. \A v \in Workers : work'[v].id = a => v = w
    BY <1>6, <2>1
  <2>4. /\ work'[w].pc = "key" /\ work'[w].size = n
        /\ row'[a].st = "pending" /\ row'[a].size = n /\ row'[a].keyed = FALSE
    BY <1>3, <1>5, <1>6
  <2>5. RowOK(a)'
    BY <1>3, <2>2, <2>3, <2>4 DEF RowOK, Measuring
  <2>6. FileSafe(a)'
    BY <2>2, <2>4 DEF FileSafe
  <2>7. ASSUME NEW v \in Workers, work'[v].id = a PROVE JobOK(v, a)'
    BY <2>2, <2>3, <2>4, <2>7 DEF JobOK, Making, Measuring
  <2> QED BY <2>5, <2>6, <2>7 DEF FileOK
<1>12. SweepOK'
  <2>1. \A b \in Ids : /\ row[b].st # "none" => row'[b].st # "none"
                       /\ row[b].st \in {"failed", "gone"} => row'[b].st \in {"failed", "gone"}
    BY <1>1, <1>5
  <2> QED BY <1>5, <2>1, SweepSame DEF IInv
<1> QED BY <1>1, <1>7, <1>8, <1>9, <1>10, <1>11, <1>12, OneFile

-----------------------------------------------------------------------------
(***************************************************************************)
(* The steps of a request that change nothing but where it is.             *)
(***************************************************************************)
\* A request goes on, or ends; it measures only what is stored, and one that
\* stops after the object leaves its mark.
LEMMA WorkStep ==
  ASSUME IInv, NEW w \in Workers, NEW a \in Ids, NEW job \in Job,
         work[w].id \in {a, NoId}, row[a].st # "none",
         work'[w] = job, work' \in [Workers -> Job],
         \A v \in Workers \ {w} : work'[v] = work[v],
         job = Idle \/ (job.id = a /\ job.pc # "idle" /\ JobOK(w, a)'),
         job.pc \notin Making,
         job.pc \in Measuring => obj[a] # 0 \/ work[w].pc \in Measuring,
         UNCHANGED <<rowVars, obj, url, sweep, slipped, reput>>,
         faults' \in 0..MaxFaults, halved' \subseteq Ids,
         \A b \in Ids : row[b].st # "gone" =>
            /\ b \in halved => b \in halved'
            /\ b # a /\ b \in halved' => b \in halved,
         work[w].pc = "delRow" /\ row[a].st # "gone" => job.pc = "delRow" \/ a \in halved',
         UNCHANGED <<household, stranded>>
  PROVE  IInv'
<1>1. /\ row' = row /\ used' = used /\ reserved' = reserved /\ obj' = obj /\ url' = url
      /\ sweep' = sweep /\ slipped' = slipped /\ reput' = reput
  BY DEF rowVars
<1>2. TypeOK'
  BY <1>1 DEF IInv, TypeOK
<1>3. WorkOK' /\ \A b \in Ids \ {a} : SameJobs(b)
  BY OneJob
<1>4. Books'
  BY <1>1, BooksSame DEF IInv, rowVars
<1>5. SweepOK'
  BY <1>1, SweepSame DEF IInv
<1>6. \A b \in Ids \ {a} : SameFile(b)
  BY <1>1, <1>3 DEF SameFile
<1>7. FileOK(a)'
  <2>1. FileOK(a) /\ RowOK(a) /\ FileSafe(a)
    BY DEF IInv, FileOK
  <2>2. \A v \in Workers : work[v].id = a => JobOK(v, a)
    BY <2>1 DEF FileOK
  <2>3. Making \cap Measuring = {}
    BY DEF Making, Measuring
  <2>4. work[w].pc \in Making \cup Measuring \cup {"delRow"} => work[w].id = a
    BY IdsFinite DEF Making, Measuring, IInv, WorkOK, Idle
  <2>5. job.pc \in Measuring => \A v \in Workers \ {w} : work[v].id = a => work[v].pc \notin Making
    <3>1. CASE obj[a] # 0
      BY <2>2, <3>1 DEF JobOK
    <3>2. CASE work[w].pc \in Measuring
      BY <2>2, <2>4, <3>2 DEF JobOK
    <3> QED BY <3>1, <3>2
  <2>6. ASSUME RowGoes(a) PROVE RowGoes(a)' \/ row[a].st = "gone" \/ a \in halved'
    <3>1. PICK v \in Workers : work[v].id = a /\ work[v].pc = "delRow"
      BY <2>6 DEF RowGoes
    <3>2. CASE v # w
      BY <3>1, <3>2 DEF RowGoes
    <3>3. CASE v = w
      <4>1. job.pc = "delRow" => job.id = a
        BY DEF Idle
      <4> QED BY <3>1, <3>3, <4>1 DEF RowGoes
    <3> QED BY <3>2, <3>3
  <2>7. row[a].st # "gone" /\ (a \in halved \/ RowGoes(a)) => a \in halved' \/ RowGoes(a)'
    BY <2>6
  <2>8. RowOK(a)'
    <3>1. row[a].st # "gone" /\ ~row[a].keyed =>
            \A v \in Workers : work'[v].id = a => work'[v].pc \notin Measuring
      BY <2>1, <2>4 DEF RowOK, Idle, Measuring
    <3> QED BY <1>1, <2>1, <3>1 DEF RowOK
  <2>9. FileSafe(a)'
    BY <1>1, <2>1, <2>7 DEF FileSafe
  <2>10. ASSUME NEW v \in Workers, work'[v].id = a PROVE JobOK(v, a)'
    <3>1. CASE v = w
      BY <2>10, <3>1, IdsFinite DEF Idle
    <3>2. CASE v # w
      <4>1. JobOK(v, a) /\ work'[v] = work[v]
        BY <2>2, <2>10, <3>2
      <4>2. work[v].pc \in Making => job.pc \notin Making \cup Measuring
        BY <2>5, <2>10, <3>2, <4>1
      <4> QED BY <1>1, <2>7, <4>1, <4>2 DEF JobOK
    <3> QED BY <3>1, <3>2
  <2> QED BY <2>8, <2>9, <2>10 DEF FileOK
<1> QED BY <1>2, <1>3, <1>4, <1>5, <1>6, <1>7, OneFile

LEMMA FinalizeUploadKeeps ==
  ASSUME IInv, NEW w \in Workers, NEW a \in Ids, FinalizeUpload(w, a),
         UNCHANGED <<household, stranded>>
  PROVE  IInv'
<1> DEFINE job == [Idle EXCEPT !.pc = "head", !.id = a]
<1>1. /\ work[w].pc = "idle" /\ row[a].st = "pending" /\ At(w, job)
      /\ UNCHANGED <<rowVars, obj, url, sweep, faults, history>>
  BY DEF FinalizeUpload, Doing
<1>2. job \in Job /\ job.pc = "head" /\ job.id = a
  BY SizesAreNat DEF Job, Idle
<1>3. work'[w] = job /\ work' \in [Workers -> Job] /\ \A v \in Workers \ {w} : work'[v] = work[v]
  BY <1>1, <1>2, AtMoves DEF IInv
<1>4. work[w].id = NoId
  BY <1>1 DEF IInv, WorkOK, Idle
<1>5. JobOK(w, a)'
  BY <1>2, <1>3 DEF JobOK, Making, Measuring
<1> QED BY <1>1, <1>2, <1>3, <1>4, <1>5, WorkStep DEF history, IInv, TypeOK, Making, Measuring

LEMMA DeleteAttachmentKeeps ==
  ASSUME IInv, NEW w \in Workers, NEW a \in Ids, DeleteAttachment(w, a),
         UNCHANGED <<household, stranded>>
  PROVE  IInv'
<1> DEFINE job == [Idle EXCEPT !.id = a, !.pc = IF row[a].keyed THEN "delObject" ELSE "delRow"]
<1>1. /\ work[w].pc = "idle" /\ row[a].st \in {"pending", "ready", "failed"} /\ At(w, job)
      /\ UNCHANGED <<rowVars, obj, url, sweep, faults, history>>
  BY DEF DeleteAttachment, Doing
<1>2. PICK pc \in {"delObject", "delRow"} : pc = IF row[a].keyed THEN "delObject" ELSE "delRow"
  OBVIOUS
<1> DEFINE j == [Idle EXCEPT !.id = a, !.pc = pc]
<1>3. j = job /\ j \in Job /\ j.id = a /\ j.pc = pc
  BY <1>2, SizesAreNat DEF Job, Idle
<1>4. work'[w] = j /\ work' \in [Workers -> Job] /\ \A v \in Workers \ {w} : work'[v] = work[v]
  BY <1>1, <1>3, AtMoves DEF IInv
<1> HIDE DEF job, j
<1>5. work[w].id = NoId
  BY <1>1 DEF IInv, WorkOK, Idle
<1>6. j.pc = "delRow" => obj'[a] = 0
  BY <1>1, <1>2, <1>3 DEF IInv, FileOK, RowOK
<1>7. JobOK(w, a)'
  BY <1>3, <1>4, <1>6 DEF JobOK, Making, Measuring
<1>8. j.pc \notin Making \cup Measuring /\ j.pc # "idle" /\ row[a].st # "none"
  BY <1>1, <1>3 DEF Making, Measuring
<1> QED BY <1>1, <1>3, <1>4, <1>5, <1>7, <1>8, WorkStep DEF history, IInv, TypeOK

LEMMA FinalizeUpload_HeadKeeps ==
  ASSUME IInv, NEW w \in Workers, FinalizeUpload_Head(w),
         UNCHANGED <<household, stranded>>
  PROVE  IInv'
<1>1. work[w].pc = "head" /\ UNCHANGED <<rowVars, obj, url, sweep, faults, history>>
  BY DEF FinalizeUpload_Head, Doing
<1>2. PICK a \in Ids : /\ a = work[w].id /\ work[w] \in Job
                       /\ FileOK(a) /\ row[a] \in Row /\ row[a].st # "none" /\ obj[a] \in Sizes
  BY <1>1, Working DEF IInv, TypeOK
<1>3. PICK j \in Job : /\ At(w, j)
                       /\ \/ j = Idle
                          \/ obj[a] # 0 /\ j = [work[w] EXCEPT !.pc = "compress", !.size = obj[a]]
  BY <1>1, <1>2, IdleIsJob DEF FinalizeUpload_Head, Finish, Job
<1>4. work'[w] = j /\ work' \in [Workers -> Job] /\ \A v \in Workers \ {w} : work'[v] = work[v]
  BY <1>3, AtMoves DEF IInv
<1>5. CASE j = Idle
  BY <1>1, <1>2, <1>4, <1>5, WorkStep DEF history, IInv, TypeOK, Making, Measuring, Idle
<1>6. CASE obj[a] # 0 /\ j = [work[w] EXCEPT !.pc = "compress", !.size = obj[a]]
  <2>1. j.pc = "compress" /\ j.size = obj[a] /\ j.id = a
    BY <1>2, <1>6 DEF Job
  <2>2. row[a].st = "pending" => obj[a] <= row[a].size
    BY <1>2 DEF FileOK, RowOK
  <2>3. obj' = obj /\ row' = row /\ obj[a] \in Nat
    BY <1>1, <1>2, SizesAreNat DEF rowVars
  <2>4. JobOK(w, a)'
    BY <1>4, <1>6, <2>1, <2>2, <2>3 DEF JobOK, Making, Measuring
  <2> QED BY <1>1, <1>2, <1>4, <1>6, <2>1, <2>4, WorkStep DEF history, IInv, TypeOK, Making, Measuring
<1> QED BY <1>3, <1>5, <1>6

LEMMA recompressImageKeeps ==
  ASSUME IInv, NEW w \in Workers, recompressImage(w),
         UNCHANGED <<household, stranded>>
  PROVE  IInv'
<1>1. work[w].pc = "compress" /\ UNCHANGED <<rowVars, obj, url, sweep, faults, history>>
  BY DEF recompressImage, Doing
<1>2. PICK a \in Ids : /\ a = work[w].id /\ work[w] \in Job /\ JobOK(w, a) /\ RowOK(a)
                       /\ row[a] \in Row /\ row[a].st # "none" /\ obj[a] \in Nat
  BY <1>1, Working, SizesAreNat DEF IInv, TypeOK
<1>3. PICK j \in Job : /\ At(w, j) /\ j.id = a /\ j.size = work[w].size
                       /\ \/ j.pc = "charge"
                          \/ j.pc = "rewrite" /\ j.out > 0 /\ j.out < obj[a]
  <2>1. CASE Goto(w, "charge")
    <3> DEFINE j == [work[w] EXCEPT !.pc = "charge"]
    <3>1. j \in Job /\ At(w, j) /\ j.id = a /\ j.size = work[w].size /\ j.pc = "charge"
      BY <1>2, <2>1 DEF At, Goto, Job
    <3> QED BY <3>1
  <2>2. CASE \E m \in Sizes \ {0} :
               m < obj[a] /\ At(w, [work[w] EXCEPT !.pc = "rewrite", !.out = m])
    <3>1. PICK m \in Sizes \ {0} :
               m < obj[a] /\ At(w, [work[w] EXCEPT !.pc = "rewrite", !.out = m])
      BY <2>2
    <3> DEFINE j == [work[w] EXCEPT !.pc = "rewrite", !.out = m]
    <3>2. j \in Job /\ j.id = a /\ j.size = work[w].size /\ j.pc = "rewrite" /\ j.out = m
      BY <1>2 DEF Job
    <3>3. At(w, j) /\ m > 0
      BY <3>1, SizesAreNat
    <3> HIDE DEF j
    <3> QED BY <3>1, <3>2, <3>3
  <2> QED BY <1>2, <2>1, <2>2 DEF recompressImage
<1>4. work'[w] = j /\ work' \in [Workers -> Job] /\ \A v \in Workers \ {w} : work'[v] = work[v]
  BY <1>3, AtMoves DEF IInv
<1>5. obj' = obj /\ row' = row /\ halved' = halved /\ reput' = reput
  BY <1>1 DEF rowVars, history
<1>6. RowGoes(a) => RowGoes(a)'
  BY <1>1, <1>4 DEF RowGoes
<1>7. JobOK(w, a)'
  <2>1. row[a].size \in Nat /\ j.out \in Nat
    BY <1>2, SizesAreNat DEF Row, Job
  <2> QED BY <1>1, <1>2, <1>3, <1>4, <1>5, <1>6, <2>1 DEF JobOK, RowOK, Making, Measuring
<1> QED BY <1>1, <1>2, <1>3, <1>4, <1>7, WorkStep DEF history, IInv, TypeOK, Making, Measuring

LEMMA AbortKeeps ==
  ASSUME IInv, NEW w \in Workers, Abort(w),
         UNCHANGED <<household, stranded>>
  PROVE  IInv'
<1>1. /\ work[w].pc # "idle" /\ At(w, Idle) /\ faults < MaxFaults /\ faults' = faults + 1
      /\ halved' = IF work[w].pc = "delRow" THEN (halved \cup {work[w].id}) \ In("gone") ELSE halved
      /\ UNCHANGED <<rowVars, obj, url, sweep, slipped, reput>>
  BY DEF Abort, Doing, Finish
<1>2. PICK a \in Ids : a = work[w].id /\ row[a].st # "none"
  BY <1>1, Working
<1>3. work'[w] = Idle /\ work' \in [Workers -> Job] /\ \A v \in Workers \ {w} : work'[v] = work[v]
  BY <1>1, AtMoves, IdleIsJob DEF IInv
<1>4. faults' \in 0..MaxFaults /\ halved' \subseteq Ids
  BY <1>1, <1>2, AttachmentsAssumption DEF IInv, TypeOK
<1>5. /\ \A b \in Ids : row[b].st # "gone" =>
            /\ b \in halved => b \in halved'
            /\ b # a /\ b \in halved' => b \in halved
      /\ work[w].pc = "delRow" /\ row[a].st # "gone" => a \in halved'
  BY <1>1, <1>2 DEF In
<1>6. Idle.pc = "idle"
  BY DEF Idle
<1> QED BY <1>1, <1>2, <1>3, <1>4, <1>5, <1>6, IdleIsJob, WorkStep DEF Making, Measuring

-----------------------------------------------------------------------------
(***************************************************************************)
(* The steps that change an object.                                        *)
(***************************************************************************)
\* What is written late is known to be.
LEMMA WrittenLate ==
  ASSUME IInv, NEW a \in Ids, NEW n \in Sizes, Written(a, n), UNCHANGED <<sweep, row>>
  PROVE  /\ obj' \in [Ids -> Sizes] /\ obj'[a] = n
         /\ \A b \in Ids \ {a} : obj'[b] = obj[b] /\ (b \in slipped' <=> b \in slipped)
         /\ slipped \subseteq slipped' /\ slipped' \subseteq Ids
         /\ Departing(a) => a \in slipped'
         /\ SweepOK'
<1>1. /\ obj' = [obj EXCEPT ![a] = n]
      /\ slipped' = IF Departing(a) THEN slipped \cup {a} ELSE slipped
  BY DEF Written
<1>2. obj \in [Ids -> Sizes] /\ slipped \subseteq Ids
  BY DEF IInv, TypeOK
<1>3. /\ obj' \in [Ids -> Sizes] /\ obj'[a] = n
      /\ \A b \in Ids \ {a} : obj'[b] = obj[b] /\ (b \in slipped' <=> b \in slipped)
      /\ slipped \subseteq slipped' /\ slipped' \subseteq Ids
      /\ Departing(a) => a \in slipped'
  BY <1>1, <1>2
<1>4. sweep.pc = "row" /\ a = Min(sweep.todo) => a \in slipped'
  BY <1>3 DEF Departing
<1>5. SweepOK'
  BY <1>3, <1>4, SweepSame DEF IInv
<1> QED BY <1>3, <1>5

\* An object grows past what was measured only where that is known.
LEMMA GrownIsKnown ==
  ASSUME IInv, NEW ws \in SUBSET Workers, NEW a \in Ids, NEW n \in Sizes, Outgrows(ws, a, n)
  PROVE  /\ reput \subseteq reput' /\ reput' \subseteq Ids
         /\ \A b \in Ids \ {a} : b \in reput' <=> b \in reput
         /\ row[a].st = "ready" => n <= row[a].size \/ a \in reput'
         /\ \A w \in ws : work[w].id = a /\ work[w].pc \in Measuring
              => n <= work[w].size \/ a \in reput'
<1>1. reput' = IF Measured(ws, a, n) THEN reput \cup {a} ELSE reput
  BY DEF Outgrows
<1>2. reput \subseteq Ids
  BY DEF IInv, TypeOK
<1>3. n \in Nat /\ row[a].size \in Nat /\ \A w \in Workers : work[w].size \in Nat
  BY SizesAreNat DEF IInv, TypeOK, Row, Job
<1>4. row[a].st = "ready" => n <= row[a].size \/ Measured(ws, a, n)
  BY <1>3 DEF Measured
<1>5. \A w \in ws : work[w].id = a /\ work[w].pc \in Measuring
              => n <= work[w].size \/ Measured(ws, a, n)
  BY <1>3 DEF Measured, Measuring
<1> QED BY <1>1, <1>2, <1>4, <1>5

LEMMA servePutKeeps ==
  ASSUME IInv, NEW a \in Ids, servePut(a),
         UNCHANGED <<household, stranded>>
  PROVE  IInv'
<1>1. PICK n \in Sizes : n = url[a] /\ n # 0 /\ n \in Nat
  BY SizesAreNat DEF servePut, IInv, TypeOK
<1>2. /\ Written(a, n) /\ Outgrows(Workers, a, n)
      /\ row' = row /\ used' = used /\ reserved' = reserved /\ url' = url
      /\ work' = work /\ sweep' = sweep /\ faults' = faults /\ halved' = halved
  BY <1>1 DEF servePut, rowVars
<1>3. /\ obj' \in [Ids -> Sizes] /\ obj'[a] = n
      /\ \A b \in Ids \ {a} : obj'[b] = obj[b] /\ (b \in slipped' <=> b \in slipped)
      /\ slipped \subseteq slipped' /\ slipped' \subseteq Ids
      /\ Departing(a) => a \in slipped'
      /\ SweepOK'
  BY <1>2, WrittenLate
<1>4. /\ reput \subseteq reput' /\ reput' \subseteq Ids
      /\ \A b \in Ids \ {a} : b \in reput' <=> b \in reput
      /\ row[a].st = "ready" => n <= row[a].size \/ a \in reput'
      /\ \A w \in Workers : work[w].id = a /\ work[w].pc \in Measuring
              => n <= work[w].size \/ a \in reput'
  BY <1>2, GrownIsKnown
<1>5. TypeOK' /\ WorkOK'
  BY <1>2, <1>3, <1>4 DEF IInv, TypeOK, WorkOK
<1>6. Books'
  BY <1>2, BooksSame DEF IInv, rowVars
<1>7. \A b \in Ids \ {a} : SameFile(b)
  BY <1>2, <1>3, <1>4 DEF SameFile, SameJobs
<1>8. RowOK(a) /\ \A v \in Workers : work[v].id = a => JobOK(v, a)
  BY DEF IInv, FileOK
<1>9. RowOK(a)'
  <2>1. row[a].st = "pending" => n = row[a].size /\ n <= row[a].size
    BY <1>1, <1>8 DEF RowOK
  <2>2. row[a].st = "gone" \/ row[a].keyed
    BY <1>1, <1>8 DEF RowOK
  <2>3. row[a].st # "none"
    BY <2>2, <1>8 DEF RowOK, Absent
  <2> QED BY <1>1, <1>2, <1>3, <2>1, <2>2, <2>3 DEF RowOK
<1>10. FileSafe(a)'
  BY <1>1, <1>2, <1>3, <1>4 DEF FileSafe, Departing
<1>11. ASSUME NEW v \in Workers, work'[v].id = a PROVE JobOK(v, a)'
  <2>1. JobOK(v, a) /\ work[v].pc \notin Making
    BY <1>1, <1>2, <1>8, <1>11 DEF JobOK
  <2>2. work[v].pc = "delRow" => a \in slipped'
    BY <1>2, <1>3, <1>11 DEF Departing, Doing
  <2> QED BY <1>1, <1>2, <1>3, <1>4, <1>11, <2>1, <2>2 DEF JobOK
<1> QED BY <1>3, <1>5, <1>6, <1>7, <1>9, <1>10, <1>11, OneFile DEF FileOK

LEMMA recompressImage_UploadKeeps ==
  ASSUME IInv, NEW w \in Workers, recompressImage_Upload(w),
         UNCHANGED <<household, stranded>>
  PROVE  IInv'
<1>1. work[w].pc = "rewrite" /\ UNCHANGED <<rowVars, url, sweep, halved>>
  BY DEF recompressImage_Upload, Doing
<1>2. PICK a \in Ids : /\ a = work[w].id /\ work[w] \in Job /\ JobOK(w, a) /\ RowOK(a)
                       /\ row[a] \in Row /\ row[a].st # "none"
  BY <1>1, Working
<1>3. CASE /\ faults' = faults + 1 /\ faults < MaxFaults
           /\ At(w, [work[w] EXCEPT !.pc = "charge", !.out = 0])
           /\ UNCHANGED <<obj, slipped, reput>>
  <2> DEFINE j == [work[w] EXCEPT !.pc = "charge", !.out = 0]
  <2>1. j \in Job /\ j.id = a /\ j.size = work[w].size /\ j.pc = "charge"
    BY <1>2, SizesAreNat DEF Job
  <2>2. PICK k \in Job : k = j /\ k.id = a /\ k.size = work[w].size /\ k.pc = "charge"
    BY <2>1
  <2>3. work'[w] = k /\ work' \in [Workers -> Job] /\ \A v \in Workers \ {w} : work'[v] = work[v]
    BY <1>3, <2>2, AtMoves DEF IInv
  <2> HIDE DEF j
  <2>4. RowGoes(a) => RowGoes(a)'
    BY <1>1, <2>3 DEF RowGoes
  <2>5. obj' = obj /\ row' = row /\ halved' = halved /\ reput' = reput
    BY <1>1, <1>3 DEF rowVars
  <2>6. JobOK(w, a)'
    BY <1>1, <1>2, <2>2, <2>3, <2>4, <2>5 DEF JobOK, Making, Measuring
  <2>7. faults' \in 0..MaxFaults
    BY <1>3, AttachmentsAssumption DEF IInv, TypeOK
  <2> QED BY <1>1, <1>2, <1>3, <2>2, <2>3, <2>6, <2>7, WorkStep
          DEF IInv, TypeOK, Making, Measuring
<1>4. CASE /\ Written(a, work[w].out) /\ Outgrows(Workers \ {w}, a, work[w].out)
           /\ At(w, [work[w] EXCEPT !.pc = "charge", !.size = work[w].out, !.out = 0])
           /\ UNCHANGED faults
  <2>1. PICK n \in Sizes : n = work[w].out /\ n > 0 /\ n \in Nat
    BY <1>1, <1>2, SizesAreNat DEF JobOK, Job
  <2> DEFINE j == [work[w] EXCEPT !.pc = "charge", !.size = n, !.out = 0]
  <2>2. j \in Job /\ j.id = a /\ j.size = n /\ j.pc = "charge"
    BY <1>2, SizesAreNat DEF Job
  <2>3. PICK k \in Job : k = j /\ k.id = a /\ k.size = n /\ k.pc = "charge"
    BY <2>2
  <2>4. work'[w] = k /\ work' \in [Workers -> Job] /\ \A v \in Workers \ {w} : work'[v] = work[v]
    BY <1>4, <2>1, <2>3, AtMoves DEF IInv
  <2> HIDE DEF j
  <2>5. /\ row' = row /\ used' = used /\ reserved' = reserved /\ url' = url
        /\ sweep' = sweep /\ faults' = faults /\ halved' = halved
    BY <1>1, <1>4 DEF rowVars
  <2>6. /\ obj' \in [Ids -> Sizes] /\ obj'[a] = n
        /\ \A b \in Ids \ {a} : obj'[b] = obj[b] /\ (b \in slipped' <=> b \in slipped)
        /\ slipped \subseteq slipped' /\ slipped' \subseteq Ids
        /\ Departing(a) => a \in slipped'
        /\ SweepOK'
    BY <1>4, <2>1, <2>5, WrittenLate
  <2>7. /\ reput \subseteq reput' /\ reput' \subseteq Ids
        /\ \A b \in Ids \ {a} : b \in reput' <=> b \in reput
        /\ row[a].st = "ready" => n <= row[a].size \/ a \in reput'
        /\ \A v \in Workers \ {w} : work[v].id = a /\ work[v].pc \in Measuring
                => n <= work[v].size \/ a \in reput'
    BY <1>4, <2>1, GrownIsKnown
  <2>8. TypeOK'
    BY <2>4, <2>5, <2>6, <2>7 DEF IInv, TypeOK
  <2>9. WorkOK' /\ \A b \in Ids \ {a} : SameJobs(b)
    BY <1>2, <2>3, <2>4, OneJob
  <2>10. Books'
    BY <2>5, BooksSame DEF IInv, rowVars
  <2>11. \A b \in Ids \ {a} : SameFile(b)
    BY <2>5, <2>6, <2>7, <2>9 DEF SameFile
  <2>12. \A v \in Workers : work[v].id = a => JobOK(v, a)
    BY DEF IInv, FileOK
  <2>13. /\ row[a].st = "pending" => n <= row[a].size /\ url[a] \in {0, row[a].size}
         /\ row[a].st = "gone" \/ row[a].keyed
         /\ \A v \in Workers \ {w} : work[v].id = a => work[v].pc \notin Making
    BY <1>1, <1>2, <2>1, <2>12 DEF RowOK, JobOK, Measuring
  <2>14. RowOK(a)'
    BY <1>2, <2>1, <2>5, <2>6, <2>13 DEF RowOK
  <2>15. FileSafe(a)'
    BY <2>1, <2>5, <2>6, <2>7 DEF FileSafe, Departing
  <2>16. ASSUME NEW v \in Workers, work'[v].id = a PROVE JobOK(v, a)'
    <3>1. CASE v = w
      BY <2>1, <2>3, <2>4, <2>5, <2>6, <2>13, <3>1 DEF JobOK, Making, Measuring
    <3>2. CASE v # w
      <4>1. JobOK(v, a) /\ work'[v] = work[v] /\ work[v].id = a /\ work[v].pc \notin Making
        BY <2>4, <2>12, <2>13, <2>16, <3>2
      <4>2. work[v].pc = "delRow" => a \in slipped'
        BY <2>6, <4>1 DEF Departing, Doing
      <4>3. work[v].pc \in Measuring => n <= work[v].size \/ a \in reput'
        BY <2>7, <3>2, <4>1
      <4> QED BY <2>1, <2>5, <2>6, <4>1, <4>2, <4>3 DEF JobOK
    <3> QED BY <3>1, <3>2
  <2> QED BY <2>6, <2>8, <2>9, <2>10, <2>11, <2>14, <2>15, <2>16, OneFile DEF FileOK
<1> QED BY <1>2, <1>3, <1>4 DEF recompressImage_Upload

LEMMA DeleteAttachment_ObjectKeeps ==
  ASSUME IInv, NEW w \in Workers, DeleteAttachment_Object(w),
         UNCHANGED <<household, stranded>>
  PROVE  IInv'
<1>1. /\ work[w].pc = "delObject" /\ obj' = [obj EXCEPT ![work[w].id] = 0] /\ Goto(w, "delRow")
      /\ row' = row /\ used' = used /\ reserved' = reserved /\ url' = url /\ sweep' = sweep
      /\ faults' = faults /\ slipped' = slipped /\ halved' = halved /\ reput' = reput
  BY DEF DeleteAttachment_Object, Doing, rowVars, history
<1>2. PICK a \in Ids : /\ a = work[w].id /\ work[w] \in Job
                       /\ row[a] \in Row /\ row[a].st # "none"
  BY <1>1, Working
<1> DEFINE j == [work[w] EXCEPT !.pc = "delRow"]
<1>3. j \in Job /\ j.id = a /\ j.pc = "delRow"
  BY <1>2 DEF Job
<1>4. work'[w] = j /\ work' \in [Workers -> Job] /\ \A v \in Workers \ {w} : work'[v] = work[v]
  BY <1>1, <1>3, GotoMoves DEF IInv
<1> HIDE DEF j
<1>5. obj' \in [Ids -> Sizes] /\ obj'[a] = 0 /\ \A b \in Ids \ {a} : obj'[b] = obj[b]
  BY <1>1, <1>2, SizesAreNat DEF IInv, TypeOK
<1>6. TypeOK'
  BY <1>1, <1>4, <1>5 DEF IInv, TypeOK
<1>7. WorkOK' /\ \A b \in Ids \ {a} : SameJobs(b)
  BY <1>2, <1>3, <1>4, OneJob
<1>8. Books'
  BY <1>1, BooksSame DEF IInv, rowVars
<1>9. SweepOK'
  BY <1>1, <1>5, SweepSame DEF IInv
<1>10. \A b \in Ids \ {a} : SameFile(b)
  BY <1>1, <1>5, <1>7 DEF SameFile
<1>11. FileOK(a) /\ RowOK(a) /\ \A v \in Workers : work[v].id = a => JobOK(v, a)
  BY DEF IInv, FileOK
<1>12. RowGoes(a)'
  BY <1>3, <1>4 DEF RowGoes
<1>13. row[a].size \in Nat /\ \A v \in Workers : work[v].size \in Nat
  BY <1>2, SizesAreNat DEF Row, IInv, TypeOK, Job
<1>14. RowOK(a)'
  <2>1. row[a].st # "gone" /\ ~row[a].keyed =>
          url[a] = 0 /\ \A v \in Workers : work[v].id = a => work[v].pc \notin Measuring
    BY <1>11 DEF RowOK
  <2>2. row[a].st # "gone" /\ ~row[a].keyed =>
          \A v \in Workers : work'[v].id = a => work'[v].pc \notin Measuring
    BY <1>3, <1>4, <2>1 DEF Measuring
  <2>3. row[a].st = "pending" => url[a] \in {0, row[a].size}
    BY <1>11 DEF RowOK
  <2> QED BY <1>1, <1>2, <1>5, <1>13, <2>1, <2>2, <2>3 DEF RowOK
<1>15. FileSafe(a)'
  BY <1>1, <1>5, <1>12, <1>13 DEF FileSafe
<1>16. ASSUME NEW v \in Workers, work'[v].id = a PROVE JobOK(v, a)'
  <2>1. CASE v = w
    BY <1>3, <1>4, <1>5, <2>1 DEF JobOK, Making, Measuring
  <2>2. CASE v # w
    <3>1. JobOK(v, a) /\ work'[v] = work[v] /\ work[v].id = a
      BY <1>4, <1>11, <1>16, <2>2
    <3>2. j.pc \notin Making \cup Measuring
      BY <1>3 DEF Making, Measuring
    <3> QED BY <1>1, <1>4, <1>5, <1>12, <1>13, <3>1, <3>2 DEF JobOK
  <2> QED BY <2>1, <2>2
<1> QED BY <1>6, <1>7, <1>8, <1>9, <1>10, <1>14, <1>15, <1>16, OneFile DEF FileOK

LEMMA UrlExpiresKeeps ==
  ASSUME IInv, NEW a \in Ids, UrlExpires(a),
         UNCHANGED <<household, stranded>>
  PROVE  IInv'
<1>1. /\ url[a] # 0 /\ url' = [url EXCEPT ![a] = 0]
      /\ row' = row /\ used' = used /\ reserved' = reserved /\ obj' = obj /\ work' = work
      /\ sweep' = sweep /\ faults' = faults
      /\ slipped' = slipped /\ halved' = halved /\ reput' = reput
  BY DEF UrlExpires, rowVars, history
<1>2. url' \in [Ids -> Sizes] /\ url'[a] = 0 /\ \A b \in Ids \ {a} : url'[b] = url[b]
  BY <1>1, SizesAreNat DEF IInv, TypeOK
<1>3. TypeOK' /\ WorkOK'
  BY <1>1, <1>2 DEF IInv, TypeOK, WorkOK
<1>4. Books'
  BY <1>1, BooksSame DEF IInv, rowVars
<1>5. SweepOK'
  BY <1>1, SweepSame DEF IInv
<1>6. \A b \in Ids \ {a} : SameFile(b)
  BY <1>1, <1>2 DEF SameFile, SameJobs
<1>7. FileOK(a)'
  <2>1. RowOK(a) /\ FileSafe(a) /\ \A v \in Workers : work[v].id = a => JobOK(v, a)
    BY DEF IInv, FileOK
  <2>2. RowOK(a)'
    BY <1>1, <1>2, <2>1 DEF RowOK
  <2>3. RowGoes(a)' <=> RowGoes(a)
    BY <1>1 DEF RowGoes
  <2>4. FileSafe(a)'
    BY <1>1, <2>1, <2>3 DEF FileSafe
  <2>5. ASSUME NEW v \in Workers, work'[v].id = a PROVE JobOK(v, a)'
    <3>1. JobOK(v, a)
      BY <1>1, <2>1, <2>5
    <3> QED BY <1>1, <1>2, <2>3, <3>1 DEF JobOK
  <2> QED BY <2>2, <2>4, <2>5 DEF FileOK
<1> QED BY <1>3, <1>4, <1>5, <1>6, <1>7, OneFile

-----------------------------------------------------------------------------
(***************************************************************************)
(* The steps that change a row.                                            *)
(***************************************************************************)
LEMMA ReservationExpiresKeeps ==
  ASSUME IInv, NEW a \in Ids, ReservationExpires(a),
         UNCHANGED <<household, stranded>>
  PROVE  IInv'
<1>1. /\ row[a].st = "pending" /\ row' = [row EXCEPT ![a].expired = TRUE]
      /\ used' = used /\ reserved' = reserved /\ obj' = obj /\ url' = url /\ work' = work
      /\ sweep' = sweep /\ faults' = faults
      /\ slipped' = slipped /\ halved' = halved /\ reput' = reput
  BY DEF ReservationExpires, history
<1>2. /\ row' \in [Ids -> Row] /\ \A b \in Ids \ {a} : row'[b] = row[b]
      /\ row'[a].st = row[a].st /\ row'[a].size = row[a].size /\ row'[a].keyed = row[a].keyed
  BY <1>1 DEF IInv, TypeOK, Row
<1>3. TypeOK' /\ WorkOK'
  BY <1>1, <1>2 DEF IInv, TypeOK, WorkOK
<1>4. Books'
  <2>1. used \in Nat /\ reserved \in Nat /\ TypeOK /\ CountersMatchRows /\ WithinQuota
    BY DEF IInv, TypeOK, Books
  <2>2. /\ Part(row'[a], "ready") = 0 /\ Part(row[a], "ready") = 0
        /\ Part(row'[a], "pending") = row[a].size /\ Part(row[a], "pending") = row[a].size
    BY <1>1, <1>2 DEF Part
  <2>3. row[a].size \in Nat
    BY SizesAreNat DEF IInv, TypeOK, Row
  <2>4. CountersMatchRows'
    <3>1. /\ used' = (used - Part(row[a], "ready")) + Part(row'[a], "ready")
          /\ reserved' = (reserved - Part(row[a], "pending")) + Part(row'[a], "pending")
      BY <1>1, <2>1, <2>2, <2>3
    <3> QED BY <1>2, <2>1, <3>1, Booked
  <2>5. WithinQuota'
    BY <1>1, <2>1 DEF WithinQuota
  <2> QED BY <2>4, <2>5 DEF Books
<1>5. SweepOK'
  BY <1>1, <1>2, SweepSame DEF IInv
<1>6. \A b \in Ids \ {a} : SameFile(b)
  BY <1>1, <1>2 DEF SameFile, SameJobs
<1>7. FileOK(a)'
  <2>1. RowOK(a) /\ FileSafe(a) /\ \A v \in Workers : work[v].id = a => JobOK(v, a)
    BY DEF IInv, FileOK
  <2>2. RowOK(a)'
    BY <1>1, <1>2, <2>1 DEF RowOK
  <2>3. RowGoes(a)' <=> RowGoes(a)
    BY <1>1 DEF RowGoes
  <2>4. FileSafe(a)'
    BY <1>1, <1>2, <2>1, <2>3 DEF FileSafe
  <2>5. ASSUME NEW v \in Workers, work'[v].id = a PROVE JobOK(v, a)'
    <3>1. JobOK(v, a)
      BY <1>1, <2>1, <2>5
    <3> QED BY <1>1, <1>2, <2>3, <3>1 DEF JobOK
  <2> QED BY <2>2, <2>4, <2>5 DEF FileOK
<1> QED BY <1>3, <1>4, <1>5, <1>6, <1>7, OneFile

\* Marking a row failed gives back what was reserved for it.
LEMMA MarkedFailedBooks ==
  ASSUME IInv, NEW a \in Ids, MarkedFailed(a)
  PROVE  /\ row' \in [Ids -> Row] /\ \A b \in Ids \ {a} : row'[b] = row[b]
         /\ row'[a].st = IF row[a].st = "pending" THEN "failed" ELSE row[a].st
         /\ row'[a].size = row[a].size /\ row'[a].keyed = row[a].keyed
         /\ row[a].st = "none" => row'[a] = row[a]
         /\ used' \in Nat /\ reserved' \in Nat /\ Books'
<1>1. /\ used \in Nat /\ reserved \in Nat /\ TypeOK /\ CountersMatchRows /\ WithinQuota
      /\ row \in [Ids -> Row] /\ row[a].size \in Nat
  BY SizesAreNat DEF IInv, TypeOK, Books, Row
<1>2. CASE row[a].st = "pending"
  <2>1. /\ row' = [row EXCEPT ![a].st = "failed"]
        /\ reserved' = Less(reserved, row[a].size) /\ used' = used
    BY <1>2 DEF MarkedFailed
  <2>2. /\ row' \in [Ids -> Row] /\ \A b \in Ids \ {a} : row'[b] = row[b]
        /\ row'[a].st = "failed" /\ row'[a].size = row[a].size /\ row'[a].keyed = row[a].keyed
    BY <1>1, <2>1 DEF Row
  <2>3. /\ Part(row'[a], "ready") = 0 /\ Part(row[a], "ready") = 0
        /\ Part(row'[a], "pending") = 0 /\ Part(row[a], "pending") = row[a].size
    BY <1>2, <2>2 DEF Part
  <2>4. row[a].size <= reserved
    BY <1>1, <2>2, <2>3, Booked
  <2>5. reserved' = reserved - row[a].size
    BY <1>1, <2>1, <2>4 DEF Less
  <2>6. CountersMatchRows'
    <3>1. /\ used' = (used - Part(row[a], "ready")) + Part(row'[a], "ready")
          /\ reserved' = (reserved - Part(row[a], "pending")) + Part(row'[a], "pending")
      BY <1>1, <2>1, <2>3, <2>5
    <3> QED BY <1>1, <2>2, <3>1, Booked
  <2>7. WithinQuota'
    BY <1>1, <2>1, <2>4, <2>5, AttachmentsAssumption DEF WithinQuota
  <2> QED BY <1>1, <1>2, <2>1, <2>2, <2>4, <2>5, <2>6, <2>7 DEF Books
<1>3. CASE row[a].st # "pending"
  BY <1>1, <1>3, BooksSame DEF MarkedFailed, rowVars, IInv
<1> QED BY <1>2, <1>3

\* A row that leaves releases what it still holds.
LEMMA DeletedBooks ==
  ASSUME IInv, NEW a \in Ids,
         Deleted(a) \/ (row[a].st = "gone" /\ UNCHANGED rowVars)
  PROVE  /\ row' \in [Ids -> Row] /\ \A b \in Ids \ {a} : row'[b] = row[b]
         /\ row'[a].st = "gone"
         /\ used' \in Nat /\ reserved' \in Nat /\ Books'
<1>1. /\ used \in Nat /\ reserved \in Nat /\ TypeOK /\ CountersMatchRows /\ WithinQuota
      /\ row \in [Ids -> Row] /\ row[a].size \in Nat
  BY SizesAreNat DEF IInv, TypeOK, Books, Row
<1>2. CASE row[a].st = "gone" /\ UNCHANGED rowVars
  BY <1>1, <1>2, BooksSame DEF rowVars, IInv
<1>3. CASE Deleted(a)
  <2>1. /\ row' = [row EXCEPT ![a] = Gone]
        /\ used' = IF row[a].st = "ready" THEN Less(used, row[a].size) ELSE used
        /\ reserved' = IF row[a].st = "pending" THEN Less(reserved, row[a].size) ELSE reserved
    BY <1>3 DEF Deleted
  <2>2. Gone \in Row /\ Gone.st = "gone"
    BY SizesAreNat DEF Gone, Absent, Row
  <2>3. row' \in [Ids -> Row] /\ row'[a].st = "gone" /\ \A b \in Ids \ {a} : row'[b] = row[b]
    BY <1>1, <2>1, <2>2
  <2>4. /\ Part(row'[a], "ready") = 0 /\ Part(row'[a], "pending") = 0
        /\ Part(row[a], "ready") = IF row[a].st = "ready" THEN row[a].size ELSE 0
        /\ Part(row[a], "pending") = IF row[a].st = "pending" THEN row[a].size ELSE 0
    BY <2>3 DEF Part
  <2>5. Part(row[a], "ready") <= used /\ Part(row[a], "pending") <= reserved
    BY <1>1, <2>3, Booked
  <2>6. /\ used' = used - Part(row[a], "ready")
        /\ reserved' = reserved - Part(row[a], "pending")
    BY <1>1, <2>1, <2>4, <2>5 DEF Less
  <2>7. Part(row[a], "ready") \in Nat /\ Part(row[a], "pending") \in Nat
    BY <1>1, <2>4
  <2>8. CountersMatchRows'
    <3>1. /\ used' = (used - Part(row[a], "ready")) + Part(row'[a], "ready")
          /\ reserved' = (reserved - Part(row[a], "pending")) + Part(row'[a], "pending")
      BY <1>1, <2>4, <2>6, <2>7
    <3> QED BY <1>1, <2>3, <3>1, Booked
  <2>9. WithinQuota'
    BY <1>1, <2>5, <2>6, <2>7, AttachmentsAssumption DEF WithinQuota
  <2> QED BY <1>1, <2>3, <2>5, <2>6, <2>7, <2>8, <2>9 DEF Books
<1> QED BY <1>2, <1>3

\* A file whose row is gone has nothing to hold but what was written late.
LEMMA GoneFile ==
  ASSUME NEW a \in Ids, FileOK(a), row'[a].st = "gone",
         obj'[a] = obj[a], url'[a] = url[a], slipped' = slipped,
         obj[a] # 0 => a \in slipped,
         \A v \in Workers : work'[v].id = a => work'[v] = work[v],
         UNCHANGED <<household, stranded>>
  PROVE  FileOK(a)'
<1>1. RowOK(a)'
  BY DEF RowOK
<1>2. FileSafe(a)'
  BY DEF FileSafe
<1>3. ASSUME NEW v \in Workers, work'[v].id = a PROVE JobOK(v, a)'
  <2>1. work'[v] = work[v] /\ JobOK(v, a)
    BY <1>3 DEF FileOK
  <2> QED BY <2>1 DEF JobOK
<1> QED BY <1>1, <1>2, <1>3 DEF FileOK

LEMMA DeleteAttachment_RowKeeps ==
  ASSUME IInv, NEW w \in Workers, DeleteAttachment_Row(w),
         UNCHANGED <<household, stranded>>
  PROVE  IInv'
<1>1. /\ work[w].pc = "delRow" /\ At(w, Idle) /\ Forgotten(work[w].id)
      /\ obj' = obj /\ url' = url /\ sweep' = sweep /\ faults' = faults
  BY DEF DeleteAttachment_Row, Doing, Finish
<1>2. PICK a \in Ids : a = work[w].id /\ FileOK(a) /\ JobOK(w, a) /\ row[a].st # "none"
  BY <1>1, Working
<1>3. Deleted(a) \/ (row[a].st = "gone" /\ UNCHANGED rowVars)
  BY <1>2 DEF DeleteAttachment_Row
<1>4. /\ row' \in [Ids -> Row] /\ \A b \in Ids \ {a} : row'[b] = row[b]
      /\ row'[a].st = "gone"
      /\ used' \in Nat /\ reserved' \in Nat /\ Books'
  BY <1>3, DeletedBooks
<1>5. work'[w] = Idle /\ work' \in [Workers -> Job] /\ \A v \in Workers \ {w} : work'[v] = work[v]
  BY <1>1, AtMoves, IdleIsJob DEF IInv
<1>6. slipped' = slipped /\ halved' = halved \ {a} /\ reput' = reput \ {a}
  BY <1>1, <1>2 DEF Forgotten
<1>7. TypeOK'
  BY <1>1, <1>4, <1>5, <1>6 DEF IInv, TypeOK
<1>8. WorkOK' /\ \A b \in Ids \ {a} : SameJobs(b)
  BY <1>2, <1>5, OneJob
<1>9. SweepOK'
  BY <1>1, <1>4, <1>6, SweepSame DEF IInv
<1>10. \A b \in Ids \ {a} : SameFile(b)
  BY <1>1, <1>4, <1>6, <1>8 DEF SameFile
<1>11. FileOK(a)'
  <2>1. obj[a] # 0 => a \in slipped
    BY <1>1, <1>2 DEF JobOK
  <2>2. \A v \in Workers : work'[v].id = a => work'[v] = work[v]
    BY <1>5, IdsFinite DEF Idle
  <2> QED BY <1>1, <1>2, <1>4, <1>6, <2>1, <2>2, GoneFile
<1> QED BY <1>4, <1>7, <1>8, <1>9, <1>10, <1>11, OneFile

LEMMA CreateUploadIntent_UndoKeeps ==
  ASSUME IInv, NEW w \in Workers, CreateUploadIntent_Undo(w),
         UNCHANGED <<household, stranded>>
  PROVE  IInv'
<1>1. /\ work[w].pc \in {"undo", "undoDelete"}
      /\ obj' = obj /\ url' = url /\ sweep' = sweep /\ faults' = faults
      /\ slipped' = slipped /\ halved' = halved /\ reput' = reput
  BY DEF CreateUploadIntent_Undo, Doing, history
<1>2. PICK a \in Ids : /\ a = work[w].id /\ work[w] \in Job /\ FileOK(a) /\ JobOK(w, a) /\ RowOK(a)
                       /\ row[a] \in Row /\ row[a].st # "none"
  BY <1>1, Working
<1>3. url[a] = 0 /\ obj[a] = 0
  BY <1>1, <1>2 DEF JobOK, Making
<1>4. CASE work[w].pc = "undo" /\ MarkedFailed(a) /\ Goto(w, "undoDelete")
  <2>1. /\ row' \in [Ids -> Row] /\ \A b \in Ids \ {a} : row'[b] = row[b]
        /\ row'[a].st = IF row[a].st = "pending" THEN "failed" ELSE row[a].st
        /\ row'[a].size = row[a].size /\ row'[a].keyed = row[a].keyed
        /\ used' \in Nat /\ reserved' \in Nat /\ Books'
    BY <1>4, MarkedFailedBooks
  <2> DEFINE j == [work[w] EXCEPT !.pc = "undoDelete"]
  <2>2. j \in Job /\ j.id = a /\ j.pc = "undoDelete"
    BY <1>2 DEF Job
  <2>3. work'[w] = j /\ work' \in [Workers -> Job] /\ \A v \in Workers \ {w} : work'[v] = work[v]
    BY <1>4, <2>2, GotoMoves DEF IInv
  <2> HIDE DEF j
  <2>4. TypeOK'
    BY <1>1, <2>1, <2>3 DEF IInv, TypeOK
  <2>5. WorkOK' /\ \A b \in Ids \ {a} : SameJobs(b)
    BY <1>2, <2>2, <2>3, OneJob
  <2>6. SweepOK'
    BY <1>1, <1>2, <2>1, SweepSame DEF IInv
  <2>7. \A b \in Ids \ {a} : SameFile(b)
    BY <1>1, <2>1, <2>5 DEF SameFile
  <2>8. \A v \in Workers : work[v].id = a => JobOK(v, a)
    BY <1>2 DEF FileOK
  <2>9. row'[a].st # "none" /\ row'[a].st # "pending" /\ (row'[a].st = "ready" => row[a].st = "ready")
    BY <1>2, <2>1
  <2>10. RowGoes(a) => RowGoes(a)'
    BY <1>4, <2>3 DEF RowGoes
  <2>11. \A v \in Workers \ {w} : work[v].id = a => work[v].pc \notin Making \cup Measuring
    BY <1>1, <1>2 DEF JobOK, Making
  <2>12. RowOK(a)'
    BY <1>1, <1>3, <2>2, <2>3, <2>9, <2>11 DEF RowOK, Measuring
  <2>13. FileSafe(a)'
    BY <1>1, <1>2, <1>3, <2>1, <2>9, <2>10 DEF FileSafe, FileOK
  <2>14. ASSUME NEW v \in Workers, work'[v].id = a PROVE JobOK(v, a)'
    <3>1. CASE v = w
      BY <1>1, <1>3, <2>2, <2>3, <2>9, <2>11, <3>1 DEF JobOK, Making, Measuring
    <3>2. CASE v # w
      BY <1>1, <1>3, <2>3, <2>11, <2>14, <3>2 DEF JobOK, Making, Measuring
    <3> QED BY <3>1, <3>2
  <2> QED BY <2>1, <2>4, <2>5, <2>6, <2>7, <2>12, <2>13, <2>14, OneFile DEF FileOK
<1>5. CASE work[w].pc = "undoDelete" /\ Deleted(a) /\ At(w, Idle)
  <2>1. /\ row' \in [Ids -> Row] /\ \A b \in Ids \ {a} : row'[b] = row[b]
        /\ row'[a].st = "gone"
        /\ used' \in Nat /\ reserved' \in Nat /\ Books'
    BY <1>5, DeletedBooks
  <2>2. work'[w] = Idle /\ work' \in [Workers -> Job] /\ \A v \in Workers \ {w} : work'[v] = work[v]
    BY <1>5, AtMoves, IdleIsJob DEF IInv
  <2>3. TypeOK'
    BY <1>1, <2>1, <2>2 DEF IInv, TypeOK
  <2>4. WorkOK' /\ \A b \in Ids \ {a} : SameJobs(b)
    BY <1>2, <2>2, OneJob
  <2>5. SweepOK'
    BY <1>1, <2>1, SweepSame DEF IInv
  <2>6. \A b \in Ids \ {a} : SameFile(b)
    BY <1>1, <2>1, <2>4 DEF SameFile
  <2>7. FileOK(a)'
    <3>1. \A v \in Workers : work'[v].id = a => work'[v] = work[v]
      BY <2>2, IdsFinite DEF Idle
    <3> QED BY <1>1, <1>2, <1>3, <2>1, <3>1, GoneFile
  <2> QED BY <2>1, <2>3, <2>4, <2>5, <2>6, <2>7, OneFile
<1> QED BY <1>2, <1>4, <1>5 DEF CreateUploadIntent_Undo, Doing, Finish

LEMMA CreateUploadIntent_KeyKeeps ==
  ASSUME IInv, NEW w \in Workers, CreateUploadIntent_Key(w),
         UNCHANGED <<household, stranded>>
  PROVE  IInv'
<1>1. /\ work[w].pc = "key"
      /\ used' = used /\ reserved' = reserved /\ obj' = obj /\ sweep' = sweep
      /\ slipped' = slipped /\ halved' = halved /\ reput' = reput
  BY DEF CreateUploadIntent_Key, Doing, history
<1>2. PICK a \in Ids : /\ a = work[w].id /\ work[w] \in Job /\ FileOK(a) /\ JobOK(w, a)
                       /\ row[a] \in Row /\ row[a].st # "none"
  BY <1>1, Working
<1>3. /\ url[a] = 0 /\ obj[a] = 0
      /\ row[a].st = "pending" => work[w].size = row[a].size
      /\ \A v \in Workers \ {w} : work[v].id = a => work[v].pc \notin Making \cup Measuring
  BY <1>1, <1>2 DEF JobOK, Making
<1>4. PICK k \in BOOLEAN :
        /\ row' = [row EXCEPT ![a].keyed = k]
        /\ \/ k = TRUE /\ url' = [url EXCEPT ![a] = work[w].size] /\ At(w, Idle) /\ faults' = faults
           \/ faults' \in 0..MaxFaults /\ Goto(w, "undo") /\ url' = url
  <2>1. CASE /\ row' = [row EXCEPT ![a].keyed = TRUE]
             /\ url' = [url EXCEPT ![a] = work[w].size] /\ At(w, Idle) /\ faults' = faults
    BY <2>1
  <2>2. CASE /\ faults < MaxFaults /\ faults' = faults + 1
             /\ \E k \in BOOLEAN : row' = [row EXCEPT ![a].keyed = k]
             /\ Goto(w, "undo") /\ url' = url
    <3>1. faults' \in 0..MaxFaults
      BY <2>2, AttachmentsAssumption DEF IInv, TypeOK
    <3> QED BY <2>2, <3>1, Zenon
  <2>3. CASE UNCHANGED <<row, url, faults>> /\ Goto(w, "undo")
    <3>1. row[a].keyed \in BOOLEAN /\ row' = [row EXCEPT ![a].keyed = row[a].keyed]
      BY <1>2, <2>3 DEF IInv, TypeOK, Row
    <3>2. faults' \in 0..MaxFaults /\ url' = url
      BY <2>3 DEF IInv, TypeOK
    <3> QED BY <2>3, <3>1, <3>2
  <2> QED BY <1>2, <2>1, <2>2, <2>3 DEF CreateUploadIntent_Key, Finish
<1>5. /\ row' \in [Ids -> Row] /\ \A b \in Ids \ {a} : row'[b] = row[b]
      /\ row'[a].st = row[a].st /\ row'[a].size = row[a].size /\ row'[a].keyed = k
  BY <1>4 DEF IInv, TypeOK, Row
<1>6. Books'
  <2>1. used \in Nat /\ reserved \in Nat /\ TypeOK /\ CountersMatchRows /\ WithinQuota
    BY DEF IInv, TypeOK, Books
  <2>2. /\ Part(row'[a], "ready") = Part(row[a], "ready") /\ Part(row[a], "ready") \in Nat
        /\ Part(row'[a], "pending") = Part(row[a], "pending") /\ Part(row[a], "pending") \in Nat
    BY <1>2, <1>5, SizesAreNat DEF Part, Row
  <2>3. /\ used' = (used - Part(row[a], "ready")) + Part(row'[a], "ready")
        /\ reserved' = (reserved - Part(row[a], "pending")) + Part(row'[a], "pending")
    BY <1>1, <2>1, <2>2
  <2>4. CountersMatchRows'
    BY <1>5, <2>1, <2>3, Booked
  <2>5. WithinQuota'
    BY <1>1, <2>1 DEF WithinQuota
  <2> QED BY <2>4, <2>5 DEF Books
<1>7. SweepOK'
  BY <1>1, <1>5, SweepSame DEF IInv
<1>8. RowGoes(a) => \E v \in Workers \ {w} : work[v].id = a /\ work[v].pc = "delRow"
  BY <1>1 DEF RowGoes
<1>9. row[a].size \in Nat /\ work[w].size \in Nat
  BY <1>2, SizesAreNat DEF Row, Job
<1>10. row[a].st # "ready" \/ a \in halved \/ \E v \in Workers \ {w} : work[v].id = a /\ work[v].pc = "delRow"
  BY <1>2, <1>3, <1>8 DEF FileOK, FileSafe
<1>11. CASE k = TRUE /\ url' = [url EXCEPT ![a] = work[w].size] /\ At(w, Idle) /\ faults' = faults
  <2>1. work'[w] = Idle /\ work' \in [Workers -> Job] /\ \A v \in Workers \ {w} : work'[v] = work[v]
    BY <1>11, AtMoves, IdleIsJob DEF IInv
  <2>2. url' \in [Ids -> Sizes] /\ url'[a] = work[w].size /\ \A b \in Ids \ {a} : url'[b] = url[b]
    BY <1>2, <1>11 DEF IInv, TypeOK, Job
  <2>3. TypeOK'
    BY <1>1, <1>5, <1>11, <2>1, <2>2 DEF IInv, TypeOK
  <2>4. WorkOK' /\ \A b \in Ids \ {a} : SameJobs(b)
    BY <1>2, <2>1, OneJob
  <2>5. \A b \in Ids \ {a} : SameFile(b)
    BY <1>1, <1>5, <2>2, <2>4 DEF SameFile
  <2>6. \A v \in Workers : work'[v].id = a => v # w
    BY <2>1, IdsFinite DEF Idle
  <2>7. RowOK(a)'
    BY <1>1, <1>2, <1>3, <1>5, <1>9, <1>11, <2>2 DEF RowOK
  <2>8. FileSafe(a)'
    BY <1>1, <1>3, <1>5, <1>9, <1>10, <2>1 DEF FileSafe, RowGoes
  <2>9. ASSUME NEW v \in Workers, work'[v].id = a PROVE JobOK(v, a)'
    BY <1>1, <1>3, <2>1, <2>6, <2>9 DEF JobOK, Making, Measuring
  <2> QED BY <1>6, <1>7, <2>3, <2>4, <2>5, <2>7, <2>8, <2>9, OneFile DEF FileOK
<1>12. CASE faults' \in 0..MaxFaults /\ Goto(w, "undo") /\ url' = url
  <2> DEFINE j == [work[w] EXCEPT !.pc = "undo"]
  <2>1. j \in Job /\ j.id = a /\ j.pc = "undo" /\ j.size = work[w].size
    BY <1>2 DEF Job
  <2>2. work'[w] = j /\ work' \in [Workers -> Job] /\ \A v \in Workers \ {w} : work'[v] = work[v]
    BY <1>12, <2>1, GotoMoves DEF IInv
  <2> HIDE DEF j
  <2>3. TypeOK'
    BY <1>1, <1>5, <1>12, <2>2, AttachmentsAssumption DEF IInv, TypeOK
  <2>4. WorkOK' /\ \A b \in Ids \ {a} : SameJobs(b)
    BY <1>2, <2>1, <2>2, OneJob
  <2>5. \A b \in Ids \ {a} : SameFile(b)
    BY <1>1, <1>5, <1>12, <2>4 DEF SameFile
  <2>6. \A v \in Workers : work'[v].id = a => work'[v].pc \notin Measuring
    BY <1>3, <2>1, <2>2 DEF Measuring
  <2>7. RowOK(a)'
    BY <1>1, <1>2, <1>3, <1>5, <1>9, <1>12, <2>6 DEF RowOK
  <2>8. FileSafe(a)'
    BY <1>1, <1>3, <1>5, <1>9, <1>10, <2>2 DEF FileSafe, RowGoes
  <2>9. ASSUME NEW v \in Workers, work'[v].id = a PROVE JobOK(v, a)'
    <3>1. CASE v = w
      BY <1>1, <1>3, <1>5, <1>12, <2>1, <2>2, <3>1 DEF JobOK, Making, Measuring
    <3>2. CASE v # w
      BY <1>1, <1>3, <2>2, <2>9, <3>2 DEF JobOK, Making, Measuring
    <3> QED BY <3>1, <3>2
  <2> QED BY <1>6, <1>7, <2>3, <2>4, <2>5, <2>7, <2>8, <2>9, OneFile DEF FileOK
<1> QED BY <1>4, <1>11, <1>12

\* What was reserved covers what was measured, so it fits again.
LEMMA ReservationFits ==
  ASSUME IInv, NEW w \in Workers, work[w].pc = "charge", NEW a \in Ids, a = work[w].id,
         row[a].st = "pending"
  PROVE  /\ Limit = 0 \/ Less(used + reserved + work[w].size, row[a].size) <= Limit
         /\ row[a].size <= reserved
<1>1. /\ work[w].size \in Nat /\ JobOK(w, a) /\ row[a] \in Row
      /\ used \in Nat /\ reserved \in Nat /\ row \in [Ids -> Row] /\ row[a].size \in Nat
  BY Working, SizesAreNat DEF IInv, TypeOK, Row
<1>2. work[w].size <= row[a].size
  BY <1>1 DEF JobOK, Measuring
<1>3. row[a].size <= reserved
  <2>1. Part(row[a], "pending") = row[a].size
    BY DEF Part
  <2>2. Part(row[a], "pending") <= Held(row, "pending")
    BY <1>1, HeldChange
  <2> QED BY <2>1, <2>2, Counted DEF IInv, Books
<1>4. Limit # 0 => used + reserved <= Limit
  BY DEF IInv, Books, WithinQuota
<1> QED BY <1>1, <1>2, <1>3, <1>4, AttachmentsAssumption DEF Less

LEMMA FinalizeUpload_ChargeKeeps ==
  ASSUME IInv, NEW w \in Workers, FinalizeUpload_Charge(w),
         UNCHANGED <<household, stranded>>
  PROVE  IInv'
<1>1. /\ work[w].pc = "charge" /\ At(w, Idle)
      /\ obj' = obj /\ url' = url /\ sweep' = sweep /\ faults' = faults
      /\ slipped' = slipped /\ halved' = halved /\ reput' = reput
  BY DEF FinalizeUpload_Charge, Doing, Finish, history
<1>2. PICK a \in Ids : /\ a = work[w].id /\ work[w] \in Job /\ FileOK(a) /\ JobOK(w, a) /\ RowOK(a)
                       /\ row[a] \in Row /\ row[a].st # "none"
  BY <1>1, Working
<1>3. work'[w] = Idle /\ work' \in [Workers -> Job] /\ \A v \in Workers \ {w} : work'[v] = work[v]
  BY <1>1, AtMoves, IdleIsJob DEF IInv
<1>4. CASE UNCHANGED rowVars
  BY <1>1, <1>2, <1>3, <1>4, IdleIsJob, WorkStep DEF IInv, TypeOK, Making, Measuring, Idle
<1>5. CASE row[a].st = "pending" /\ Consumed(a, work[w].size)
  <2>1. PICK n \in Sizes : n = work[w].size /\ n \in Nat
    BY <1>2, SizesAreNat DEF Job
  <2>2. /\ row' = [row EXCEPT ![a].st = "ready", ![a].size = n]
        /\ reserved' = Less(reserved, row[a].size) /\ used' = used + n
    BY <1>5, <2>1 DEF Consumed
  <2>3. /\ row' \in [Ids -> Row] /\ \A b \in Ids \ {a} : row'[b] = row[b]
        /\ row'[a].st = "ready" /\ row'[a].size = n /\ row'[a].keyed = row[a].keyed
    BY <2>2, ZenonT(30) DEF IInv, TypeOK, Row
  <2>4. /\ used \in Nat /\ reserved \in Nat /\ TypeOK /\ CountersMatchRows
        /\ row[a].size \in Nat
    BY SizesAreNat, <1>2 DEF IInv, TypeOK, Books, Row
  <2>5. /\ Limit = 0 \/ Less(used + reserved + n, row[a].size) <= Limit
        /\ row[a].size <= reserved
    BY <1>1, <1>2, <1>5, <2>1, ReservationFits
  <2>6. reserved' = reserved - row[a].size /\ reserved' \in Nat /\ used' \in Nat
    BY <2>1, <2>2, <2>4, <2>5 DEF Less
  <2>7. CountersMatchRows'
    <3>1. /\ Part(row'[a], "ready") = n /\ Part(row[a], "ready") = 0
          /\ Part(row'[a], "pending") = 0 /\ Part(row[a], "pending") = row[a].size
      BY <1>5, <2>3 DEF Part
    <3>2. /\ used' = (used - Part(row[a], "ready")) + Part(row'[a], "ready")
          /\ reserved' = (reserved - Part(row[a], "pending")) + Part(row'[a], "pending")
      BY <2>1, <2>2, <2>4, <2>6, <3>1
    <3> QED BY <2>3, <2>4, <3>2, Booked
  <2>8. WithinQuota'
    BY <2>1, <2>2, <2>4, <2>5, <2>6, AttachmentsAssumption DEF WithinQuota, Less
  <2>9. TypeOK'
    BY <1>1, <1>3, <2>3, <2>6 DEF IInv, TypeOK
  <2>10. WorkOK' /\ \A b \in Ids \ {a} : SameJobs(b)
    BY <1>2, <1>3, OneJob
  <2>11. SweepOK'
    BY <1>1, <1>5, <2>3, SweepSame DEF IInv
  <2>12. \A b \in Ids \ {a} : SameFile(b)
    BY <1>1, <2>3, <2>10 DEF SameFile
  <2>13. RowGoes(a) => RowGoes(a)'
    BY <1>1, <1>3 DEF RowGoes
  <2>14. row[a].keyed = TRUE
    BY <1>1, <1>2, <1>5 DEF RowOK, Measuring, Row
  <2>15. RowOK(a)'
    BY <2>3, <2>14 DEF RowOK
  <2>16. FileSafe(a)'
    BY <1>1, <1>2, <1>5, <2>1, <2>3, <2>13 DEF FileSafe, JobOK, Measuring
  <2>17. ASSUME NEW v \in Workers, work'[v].id = a PROVE JobOK(v, a)'
    <3>1. v # w /\ work'[v] = work[v] /\ JobOK(v, a)
      BY <1>2, <1>3, <2>17, IdsFinite DEF FileOK, Idle
    <3>2. work[v].pc \notin Making
      BY <1>1, <1>2, <3>1 DEF JobOK, Making, Measuring
    <3> QED BY <1>1, <1>5, <2>3, <2>13, <3>1, <3>2 DEF JobOK
  <2> QED BY <2>7, <2>8, <2>9, <2>10, <2>11, <2>12, <2>15, <2>16, <2>17, OneFile DEF FileOK, Books
<1> QED BY <1>2, <1>4, <1>5 DEF FinalizeUpload_Charge

-----------------------------------------------------------------------------
(***************************************************************************)
(* The steps of the sweep.                                                 *)
(***************************************************************************)
\* The row the sweep is at.
LEMMA Swept ==
  ASSUME IInv, sweep.pc # "idle"
  PROVE  /\ Min(sweep.todo) \in sweep.todo /\ sweep.todo \subseteq Ids
         /\ row[Min(sweep.todo)].st # "none" /\ FileOK(Min(sweep.todo))
<1>1. sweep.todo \subseteq Ids /\ sweep.todo # {} /\ sweep.todo \subseteq Nat
  BY IdsFinite DEF IInv, TypeOK, SweepOK
<1>2. Min(sweep.todo) \in sweep.todo
  BY <1>1, LeastNat
<1> QED BY <1>1, <1>2 DEF IInv, SweepOK

LEMMA SweepingIs ==
  ASSUME NEW pc \in {"mark", "object", "row"}, NEW todo \in SUBSET Ids, Sweeping(pc, todo)
  PROVE  /\ sweep' \in [pc : {"idle", "mark", "object", "row"}, todo : SUBSET Ids]
         /\ sweep'.todo = todo
         /\ sweep'.pc # "idle" => sweep'.pc = pc /\ todo # {}
BY DEF Sweeping

LEMMA ListCleanupCandidatesKeeps ==
  ASSUME IInv, ListCleanupCandidates,
         UNCHANGED <<household, stranded>>
  PROVE  IInv'
<1>1. /\ Sweeping("mark", First(SweepLimit, Candidates))
      /\ row' = row /\ used' = used /\ reserved' = reserved /\ obj' = obj /\ url' = url
      /\ work' = work /\ faults' = faults
      /\ slipped' = slipped /\ halved' = halved /\ reput' = reput
  BY DEF ListCleanupCandidates, rowVars, history
<1>2. PICK todo : todo = First(SweepLimit, Candidates)
  OBVIOUS
<1>3. todo \in SUBSET Ids /\ \A a \in todo : row[a].st # "none"
  BY <1>2 DEF First, Candidates, In
<1>4. /\ sweep' \in [pc : {"idle", "mark", "object", "row"}, todo : SUBSET Ids]
      /\ sweep'.todo = todo
      /\ sweep'.pc # "idle" => sweep'.pc = "mark" /\ todo # {}
  BY <1>1, <1>2, <1>3, SweepingIs
<1>5. TypeOK' /\ WorkOK'
  BY <1>1, <1>4 DEF IInv, TypeOK, WorkOK
<1>6. Books'
  BY <1>1, BooksSame DEF IInv, rowVars
<1>7. SweepOK'
  BY <1>1, <1>3, <1>4 DEF SweepOK
<1>8. ASSUME NEW b \in Ids PROVE FileOK(b)'
  <2>1. FileOK(b) /\ SameFile(b)
    BY <1>1 DEF IInv, SameFile, SameJobs
  <2> QED BY <2>1, OtherFile
<1> QED BY <1>5, <1>6, <1>7, <1>8 DEF IInv

LEMMA Cleanup_MarkKeeps ==
  ASSUME IInv, Cleanup_Mark,
         UNCHANGED <<household, stranded>>
  PROVE  IInv'
<1>1. /\ sweep.pc = "mark"
      /\ obj' = obj /\ url' = url /\ work' = work /\ faults' = faults
      /\ slipped' = slipped /\ halved' = halved /\ reput' = reput
  BY DEF Cleanup_Mark, history
<1>2. PICK a \in Ids : /\ a = Min(sweep.todo) /\ a \in sweep.todo /\ sweep.todo \in SUBSET Ids
                       /\ row[a].st # "none" /\ FileOK(a) /\ RowOK(a)
  BY <1>1, Swept DEF FileOK
<1>3. row[a] \in Row /\ \A b \in sweep.todo : row[b].st # "none"
  BY DEF IInv, TypeOK, SweepOK
<1>4. CASE row[a].st \in {"ready", "gone"}
  <2>1. Sweeping("mark", sweep.todo \ {a}) /\ UNCHANGED rowVars
    BY <1>2, <1>4 DEF Cleanup_Mark
  <2>2. PICK todo \in SUBSET Ids : todo = sweep.todo \ {a}
    BY <1>2
  <2>3. /\ sweep' \in [pc : {"idle", "mark", "object", "row"}, todo : SUBSET Ids]
        /\ sweep'.todo = todo
        /\ sweep'.pc # "idle" => sweep'.pc = "mark" /\ todo # {}
    BY <2>1, <2>2, SweepingIs
  <2>4. row' = row /\ used' = used /\ reserved' = reserved
    BY <2>1 DEF rowVars
  <2>5. TypeOK' /\ WorkOK'
    BY <1>1, <2>3, <2>4 DEF IInv, TypeOK, WorkOK
  <2>6. Books'
    BY <2>1, BooksSame DEF IInv
  <2>7. SweepOK'
    BY <1>1, <1>3, <2>2, <2>3, <2>4 DEF SweepOK
  <2>8. ASSUME NEW b \in Ids PROVE FileOK(b)'
    <3>1. FileOK(b) /\ SameFile(b)
      BY <1>1, <2>4 DEF IInv, SameFile, SameJobs
    <3> QED BY <3>1, OtherFile
  <2> QED BY <2>5, <2>6, <2>7, <2>8 DEF IInv
<1>5. CASE row[a].st \in {"pending", "failed"}
  <2>1. PICK pc \in {"object", "row"} :
          pc = (IF row[a].keyed THEN "object" ELSE "row") /\ Sweeping(pc, sweep.todo)
    BY <1>2, <1>5 DEF Cleanup_Mark
  <2>2. MarkedFailed(a)
    BY <1>2, <1>5 DEF Cleanup_Mark
  <2>3. /\ row' \in [Ids -> Row] /\ \A b \in Ids \ {a} : row'[b] = row[b]
        /\ row'[a].st = IF row[a].st = "pending" THEN "failed" ELSE row[a].st
        /\ row'[a].keyed = row[a].keyed
        /\ used' \in Nat /\ reserved' \in Nat /\ Books'
    BY <2>2, MarkedFailedBooks
  <2>4. row'[a].st = "failed"
    BY <1>5, <2>3
  <2>5. /\ sweep' \in [pc : {"idle", "mark", "object", "row"}, todo : SUBSET Ids]
        /\ sweep'.todo = sweep.todo
        /\ sweep'.pc # "idle" => sweep'.pc = pc /\ sweep.todo # {}
    BY <1>2, <2>1, SweepingIs
  <2>6. TypeOK' /\ WorkOK'
    BY <1>1, <2>3, <2>5 DEF IInv, TypeOK, WorkOK
  <2>7. SweepOK'
    <3>1. pc = "row" => obj[a] = 0
      BY <1>2, <1>5, <2>1 DEF RowOK
    <3>2. \A b \in sweep.todo : row'[b].st # "none"
      BY <1>2, <1>3, <2>3, <2>4
    <3>3. Min(sweep'.todo) = a
      BY <1>2, <2>5
    <3> QED BY <1>1, <2>4, <2>5, <3>1, <3>2, <3>3 DEF SweepOK
  <2>8. \A b \in Ids \ {a} : SameFile(b)
    BY <1>1, <2>3 DEF SameFile, SameJobs
  <2>9. FileOK(a)'
    <3>1. RowOK(a)'
      BY <1>1, <1>2, <1>5, <2>3, <2>4 DEF RowOK
    <3>2. FileSafe(a)'
      BY <2>4 DEF FileSafe
    <3>3. ASSUME NEW v \in Workers, work'[v].id = a PROVE JobOK(v, a)'
      <4>1. JobOK(v, a)
        BY <1>1, <1>2, <3>3 DEF FileOK
      <4> QED BY <1>1, <2>4, <4>1 DEF JobOK
    <3> QED BY <3>1, <3>2, <3>3 DEF FileOK
  <2> QED BY <2>3, <2>6, <2>7, <2>8, <2>9, OneFile
<1> QED BY <1>2, <1>3, <1>4, <1>5 DEF Row

LEMMA Cleanup_ObjectKeeps ==
  ASSUME IInv, Cleanup_Object,
         UNCHANGED <<household, stranded>>
  PROVE  IInv'
<1>1. /\ sweep.pc = "object"
      /\ row' = row /\ used' = used /\ reserved' = reserved /\ url' = url /\ work' = work
      /\ slipped' = slipped /\ halved' = halved /\ reput' = reput
  BY DEF Cleanup_Object, rowVars, history
<1>2. PICK a \in Ids : /\ a = Min(sweep.todo) /\ a \in sweep.todo /\ sweep.todo \in SUBSET Ids
                       /\ row[a].st \in {"failed", "gone"} /\ FileOK(a) /\ RowOK(a)
  BY <1>1, Swept DEF FileOK, IInv, SweepOK
<1>3. \A b \in sweep.todo : row[b].st # "none"
  BY DEF IInv, SweepOK
<1>4. Books' /\ WorkOK'
  BY <1>1, BooksSame DEF IInv, rowVars, WorkOK
<1>5. CASE /\ obj' = [obj EXCEPT ![a] = 0] /\ Sweeping("row", sweep.todo) /\ faults' = faults
  <2>1. obj' \in [Ids -> Sizes] /\ obj'[a] = 0 /\ \A b \in Ids \ {a} : obj'[b] = obj[b]
    BY <1>5, SizesAreNat DEF IInv, TypeOK
  <2>2. /\ sweep' \in [pc : {"idle", "mark", "object", "row"}, todo : SUBSET Ids]
        /\ sweep'.todo = sweep.todo
        /\ sweep'.pc # "idle" => sweep'.pc = "row" /\ sweep.todo # {}
    BY <1>2, <1>5, SweepingIs
  <2>3. TypeOK'
    BY <1>1, <1>5, <2>1, <2>2 DEF IInv, TypeOK
  <2>4. SweepOK'
    <3>1. Min(sweep'.todo) = a
      BY <1>2, <2>2
    <3> QED BY <1>1, <1>2, <1>3, <2>1, <2>2, <3>1 DEF SweepOK
  <2>5. \A b \in Ids \ {a} : SameFile(b)
    BY <1>1, <2>1 DEF SameFile, SameJobs
  <2>6. FileOK(a)'
    <3>1. RowOK(a)'
      BY <1>1, <1>2, <2>1 DEF RowOK
    <3>2. FileSafe(a)'
      BY <1>1, <1>2, <2>1 DEF FileSafe
    <3>3. ASSUME NEW v \in Workers, work'[v].id = a PROVE JobOK(v, a)'
      <4>1. JobOK(v, a)
        BY <1>1, <1>2, <3>3 DEF FileOK
      <4> QED BY <1>1, <1>2, <2>1, <4>1 DEF JobOK
    <3> QED BY <3>1, <3>2, <3>3 DEF FileOK
  <2> QED BY <1>4, <2>3, <2>4, <2>5, <2>6, OneFile
<1>6. CASE /\ faults < MaxFaults /\ faults' = faults + 1
           /\ Sweeping("mark", sweep.todo \ {a}) /\ obj' = obj
  <2>1. PICK todo \in SUBSET Ids : todo = sweep.todo \ {a}
    BY <1>2
  <2>2. /\ sweep' \in [pc : {"idle", "mark", "object", "row"}, todo : SUBSET Ids]
        /\ sweep'.todo = todo
        /\ sweep'.pc # "idle" => sweep'.pc = "mark" /\ todo # {}
    BY <1>6, <2>1, SweepingIs
  <2>3. TypeOK'
    BY <1>1, <1>6, <2>2, AttachmentsAssumption DEF IInv, TypeOK
  <2>4. SweepOK'
    BY <1>1, <1>3, <2>1, <2>2 DEF SweepOK
  <2>5. ASSUME NEW b \in Ids PROVE FileOK(b)'
    <3>1. FileOK(b) /\ SameFile(b)
      BY <1>1, <1>6 DEF IInv, SameFile, SameJobs
    <3> QED BY <3>1, OtherFile
  <2> QED BY <1>4, <2>3, <2>4, <2>5 DEF IInv
<1> QED BY <1>2, <1>5, <1>6 DEF Cleanup_Object

LEMMA Cleanup_RowKeeps ==
  ASSUME IInv, Cleanup_Row,
         UNCHANGED <<household, stranded>>
  PROVE  IInv'
<1>1. /\ sweep.pc = "row"
      /\ obj' = obj /\ url' = url /\ work' = work /\ faults' = faults
  BY DEF Cleanup_Row
<1>2. PICK a \in Ids : /\ a = Min(sweep.todo) /\ a \in sweep.todo /\ sweep.todo \in SUBSET Ids
                       /\ row[a].st # "none" /\ FileOK(a)
  BY <1>1, Swept
<1>3. slipped' = slipped /\ halved' = halved \ {a} /\ reput' = reput \ {a}
  BY <1>2 DEF Cleanup_Row, Forgotten
<1>4. Deleted(a) \/ (row[a].st = "gone" /\ UNCHANGED rowVars)
  BY <1>2 DEF Cleanup_Row
<1>5. /\ row' \in [Ids -> Row] /\ \A b \in Ids \ {a} : row'[b] = row[b]
      /\ row'[a].st = "gone"
      /\ used' \in Nat /\ reserved' \in Nat /\ Books'
  BY <1>4, DeletedBooks
<1>6. PICK todo \in SUBSET Ids : todo = sweep.todo \ {a} /\ Sweeping("mark", todo)
  BY <1>2 DEF Cleanup_Row
<1>7. /\ sweep' \in [pc : {"idle", "mark", "object", "row"}, todo : SUBSET Ids]
      /\ sweep'.todo = todo
      /\ sweep'.pc # "idle" => sweep'.pc = "mark" /\ todo # {}
  BY <1>6, SweepingIs
<1>8. TypeOK' /\ WorkOK'
  BY <1>1, <1>3, <1>5, <1>7 DEF IInv, TypeOK, WorkOK
<1>9. SweepOK'
  <2>1. \A b \in todo : row'[b].st # "none"
    BY <1>5, <1>6 DEF IInv, SweepOK
  <2> QED BY <1>7, <2>1 DEF SweepOK
<1>10. \A b \in Ids \ {a} : SameFile(b)
  BY <1>1, <1>3, <1>5 DEF SameFile, SameJobs
<1>11. FileOK(a)'
  <2>1. obj[a] # 0 => a \in slipped
    BY <1>1, <1>2 DEF IInv, SweepOK
  <2> QED BY <1>1, <1>2, <1>3, <1>5, <2>1, GoneFile
<1> QED BY <1>5, <1>8, <1>9, <1>10, <1>11, OneFile

-----------------------------------------------------------------------------
(***************************************************************************)
(* The theorems.                                                           *)
(***************************************************************************)
LEMMA InitHolds ==
  ASSUME Init
  PROVE  IInv
<1>1. Absent \in Row /\ Absent.st = "none" /\ Absent.keyed = FALSE
  BY SizesAreNat DEF Absent, Row
<1>2. /\ row = [a \in Ids |-> Absent] /\ used = 0 /\ reserved = 0
      /\ obj = [a \in Ids |-> 0] /\ url = [a \in Ids |-> 0]
      /\ work = [w \in Workers |-> Idle]
      /\ sweep = [pc |-> "idle", todo |-> {}] /\ faults = 0
      /\ slipped = {} /\ halved = {} /\ reput = {}
      /\ household = TRUE /\ stranded = {}
  BY DEF Init
<1>3. /\ \A a \in Ids : row[a] = Absent /\ obj[a] = 0 /\ url[a] = 0
      /\ \A w \in Workers : work[w] = Idle
  BY <1>2
<1>4. Idle.pc = "idle" /\ Idle.id = NoId /\ NoId \notin Ids
  BY IdsFinite DEF Idle
<1>5. TypeOK
  BY <1>1, <1>2, IdleIsJob, SizesAreNat, AttachmentsAssumption DEF TypeOK
<1>6. Books
  <2>1. InState(row, "ready") = {} /\ InState(row, "pending") = {}
    BY <1>1, <1>3 DEF InState
  <2>2. Sum(row, {}) = 0
    BY SumUnfolds, FS_EmptySet
  <2>3. Held(row, "ready") = 0 /\ Held(row, "pending") = 0
    BY <2>1, <2>2, Zenon DEF Held
  <2>4. CountersMatchRows
    BY <1>2, <2>3, Counted
  <2>5. WithinQuota
    BY <1>2, AttachmentsAssumption DEF WithinQuota
  <2> QED BY <2>4, <2>5 DEF Books
<1>7. WorkOK /\ SweepOK
  BY <1>2, <1>3, <1>4 DEF WorkOK, SweepOK
<1>8. ASSUME NEW a \in Ids PROVE FileOK(a)
  <2>1. \A w \in Workers : work[w].id # a
    BY <1>3, <1>4
  <2>2. row[a] = Absent /\ row[a].st = "none" /\ obj[a] = 0 /\ url[a] = 0
    BY <1>1, <1>3
  <2>3. RowOK(a)
    BY <2>1, <2>2 DEF RowOK
  <2>4. FileSafe(a)
    BY <2>2 DEF FileSafe
  <2> QED BY <2>1, <2>3, <2>4 DEF FileOK
<1> QED BY <1>5, <1>6, <1>7, <1>8 DEF IInv

LEMMA StutterKeeps ==
  ASSUME IInv, UNCHANGED vars
  PROVE  IInv'
<1>1. /\ row' = row /\ used' = used /\ reserved' = reserved /\ obj' = obj /\ url' = url
      /\ work' = work /\ sweep' = sweep /\ faults' = faults
      /\ slipped' = slipped /\ halved' = halved /\ reput' = reput
      /\ household' = household /\ stranded' = stranded
  BY DEF vars
<1>2. TypeOK' /\ WorkOK' /\ SweepOK'
  BY <1>1 DEF IInv, TypeOK, WorkOK, SweepOK
<1>3. Books'
  BY <1>1, BooksSame DEF IInv, rowVars
<1>4. ASSUME NEW b \in Ids PROVE FileOK(b)'
  <2>1. FileOK(b) /\ SameFile(b)
    BY <1>1 DEF IInv, SameFile, SameJobs
  <2> QED BY <2>1, OtherFile
<1> QED BY <1>2, <1>3, <1>4 DEF IInv

\* The household goes: no row holds anything any more, and the objects that are
\* left are known.
LEMMA DeleteHouseholdKeeps ==
  ASSUME IInv, DeleteHousehold
  PROVE  IInv'
<1>1. /\ row' = [a \in Ids |-> IF row[a].st = "none" THEN row[a] ELSE Gone]
      /\ used' = 0 /\ reserved' = 0 /\ household' = FALSE
      /\ stranded' = stranded \cup {a \in Ids : row[a].st # "gone" /\ obj[a] # 0}
      /\ halved' = {} /\ reput' = {}
      /\ obj' = obj /\ url' = url /\ work' = work /\ sweep' = sweep
      /\ faults' = faults /\ slipped' = slipped
  BY DEF DeleteHousehold
<1>2. Gone \in Row /\ Gone.st = "gone"
  BY SizesAreNat DEF Gone, Absent, Row
<1>3. /\ row' \in [Ids -> Row]
      /\ \A a \in Ids : /\ row[a].st = "none" => row'[a] = row[a]
                       /\ row[a].st # "none" => row'[a].st = "gone"
  BY <1>1, <1>2 DEF IInv, TypeOK
<1>4. TypeOK'
  BY <1>1, <1>3 DEF IInv, TypeOK
<1>5. Books'
  <2>1. InState(row', "ready") = {} /\ InState(row', "pending") = {}
    <3>1. \A a \in Ids : row'[a].st # "ready" /\ row'[a].st # "pending"
      BY <1>1, <1>2 DEF Gone, Absent
    <3> QED BY <3>1 DEF InState
  <2>2. Sum(row', {}) = 0
    BY SumUnfolds, FS_EmptySet
  <2>3. Held(row', "ready") = 0 /\ Held(row', "pending") = 0
    BY <2>1, <2>2, Zenon DEF Held
  <2>4. CountersMatchRows'
    BY <1>1, <2>3, Counted
  <2>5. WithinQuota'
    BY <1>1, AttachmentsAssumption DEF WithinQuota
  <2> QED BY <2>4, <2>5 DEF Books
<1>6. WorkOK'
  BY <1>1 DEF IInv, WorkOK
<1>7. SweepOK'
  <2>1. sweep.todo \subseteq Ids
    BY DEF IInv, TypeOK
  <2>2. sweep.pc # "idle" => Min(sweep.todo) \in Ids
    <3>1. sweep.pc # "idle" => sweep.todo # {} /\ sweep.todo \subseteq Nat
      BY <2>1, IdsFinite DEF IInv, SweepOK
    <3> QED BY <2>1, <3>1, LeastNat
  <2> QED BY <1>1, <1>3, <2>1, <2>2 DEF IInv, SweepOK
<1>8. ASSUME NEW a \in Ids PROVE FileOK(a)'
  <2>1. FileOK(a) /\ RowOK(a) /\ FileSafe(a)
    BY DEF IInv, FileOK
  <2>2. RowOK(a)'
    BY <1>1, <1>3, <2>1 DEF RowOK
  <2>3. FileSafe(a)'
    BY <1>1, <1>3, <2>1 DEF FileSafe
  <2>4. ASSUME NEW w \in Workers, work'[w].id = a PROVE JobOK(w, a)'
    <3>1. JobOK(w, a) /\ row[a].st # "none"
      BY <1>1, <2>1, <2>4 DEF FileOK, RowOK
    <3> QED BY <1>1, <1>3, <3>1 DEF JobOK
  <2> QED BY <2>2, <2>3, <2>4 DEF FileOK
<1> QED BY <1>4, <1>5, <1>6, <1>7, <1>8 DEF IInv

LEMMA NextKeeps ==
  ASSUME IInv, [Next]_vars
  PROVE  IInv'
<1>1. CASE UNCHANGED vars
  BY <1>1, StutterKeeps
<1>2. ASSUME NEW w \in Workers, Continue(w) \/ Abort(w), UNCHANGED <<household, stranded>>
      PROVE  IInv'
  BY <1>2, AbortKeeps, CreateUploadIntent_KeyKeeps, CreateUploadIntent_UndoKeeps,
     FinalizeUpload_HeadKeeps, recompressImageKeeps, recompressImage_UploadKeeps,
     FinalizeUpload_ChargeKeeps, DeleteAttachment_ObjectKeeps, DeleteAttachment_RowKeeps
     DEF Continue
<1>3. ASSUME NEW w \in Workers, NEW n \in Declared, CreateUploadIntent(w, n),
             UNCHANGED <<household, stranded>>
      PROVE  IInv'
  BY <1>3, CreateUploadIntentKeeps
<1>4. ASSUME NEW w \in Workers, NEW a \in Ids, FinalizeUpload(w, a) \/ DeleteAttachment(w, a),
             UNCHANGED <<household, stranded>>
      PROVE  IInv'
  BY <1>4, FinalizeUploadKeeps, DeleteAttachmentKeeps
<1>5. ASSUME NEW a \in Ids, servePut(a) \/ UrlExpires(a) \/ ReservationExpires(a),
             UNCHANGED <<household, stranded>>
      PROVE  IInv'
  BY <1>5, servePutKeeps, UrlExpiresKeeps, ReservationExpiresKeeps
<1>6. CASE Sweep /\ UNCHANGED <<household, stranded>>
  BY <1>6, ListCleanupCandidatesKeeps, Cleanup_MarkKeeps, Cleanup_ObjectKeeps, Cleanup_RowKeeps
     DEF Sweep
<1>7. CASE DeleteHousehold
  BY <1>7, DeleteHouseholdKeeps
<1> QED BY <1>1, <1>2, <1>3, <1>4, <1>5, <1>6, <1>7 DEF Next, Served, home

LEMMA Invariant == Spec => []IInv
<1>1. Init => IInv
  BY InitHolds
<1>2. IInv /\ [Next]_vars => IInv'
  BY NextKeeps
<1> QED BY <1>1, <1>2, PTL DEF Spec

LEMMA InvariantIsSafe ==
  ASSUME IInv
  PROVE  Safety
<1>1. \A a \in Ids : FileSafe(a)
  BY DEF IInv, FileOK
<1>2. ReadyHasObject
  BY <1>1 DEF ReadyHasObject, FileSafe, In, RowGoes, Doing
<1>3. OrphansAreKnown
  BY <1>1 DEF OrphansAreKnown, FileSafe, In
<1>4. StoredIsCharged
  BY <1>1 DEF StoredIsCharged, FileSafe, In
<1> QED BY <1>2, <1>3, <1>4 DEF Safety, IInv, Books

\* Every variable keeps its type, whatever fails half-way.
THEOREM TypeCorrect == Spec => []TypeOK
<1>1. IInv => TypeOK
  BY DEF IInv
<1> QED BY <1>1, Invariant, PTL

\* Rows, counters and objects agree at every moment: the counters are the sums
\* over the rows, the quota is kept, a ready attachment has its object, a row
\* that is gone leaves none but what was written late or went with the household,
\* and what is stored is paid for (AttachmentRepository, AttachmentService,
\* CleanupExpiredUploads, DeleteGroup).
THEOREM FilesAreSafe == Spec => []Safety
<1>1. IInv => Safety
  BY InvariantIsSafe
<1> QED BY <1>1, Invariant, PTL

\* Nothing but its own request ends a request.
LEMMA OthersGoOn ==
  ASSUME IInv, Next, NEW w \in Workers, work[w].pc = "charge", work'[w] = Idle
  PROVE  FinalizeUpload_Charge(w) \/ (Abort(w) /\ faults' # faults)
<1>1. work \in [Workers -> Job] /\ work'[w] # work[w] /\ faults \in Nat
  BY AttachmentsAssumption DEF Idle, IInv, TypeOK
<1>2. ASSUME NEW v \in Workers, v # w, NEW job, At(v, job) PROVE FALSE
  BY <1>1, <1>2 DEF At
<1>3. ASSUME NEW v \in Workers, v # w, NEW pc, Goto(v, pc) PROVE FALSE
  BY <1>1, <1>3 DEF Goto
<1>4. work' # work
  BY <1>1
<1>5. ASSUME NEW v \in Workers, Continue(v) \/ Abort(v)
      PROVE  FinalizeUpload_Charge(w) \/ (Abort(w) /\ faults' # faults)
  <2>1. CASE v # w
    BY <1>2, <1>3, <1>5, <2>1
       DEF Continue, Abort, Finish, CreateUploadIntent_Key, CreateUploadIntent_Undo,
           FinalizeUpload_Head, recompressImage, recompressImage_Upload,
           FinalizeUpload_Charge, DeleteAttachment_Object, DeleteAttachment_Row
  <2>2. CASE v = w
    <3>1. Abort(w) => faults' # faults
      BY <1>1 DEF Abort
    <3>2. Continue(w) => FinalizeUpload_Charge(w)
      BY DEF Continue, Doing, CreateUploadIntent_Key, CreateUploadIntent_Undo,
           FinalizeUpload_Head, recompressImage, recompressImage_Upload,
           DeleteAttachment_Object, DeleteAttachment_Row
    <3> QED BY <1>5, <2>2, <3>1, <3>2
  <2> QED BY <2>1, <2>2
<1>6. ASSUME NEW v \in Workers, NEW n \in Declared, CreateUploadIntent(v, n) PROVE FALSE
  <2>1. v # w
    BY <1>6 DEF CreateUploadIntent, Doing
  <2> QED BY <1>2, <1>6, <2>1 DEF CreateUploadIntent
<1>7. ASSUME NEW v \in Workers, NEW a \in Ids, FinalizeUpload(v, a) \/ DeleteAttachment(v, a)
      PROVE  FALSE
  <2>1. v # w
    BY <1>7 DEF FinalizeUpload, DeleteAttachment, Doing
  <2> QED BY <1>2, <1>7, <2>1 DEF FinalizeUpload, DeleteAttachment
<1>8. ~Sweep /\ ~ \E a \in Ids : servePut(a) \/ UrlExpires(a) \/ ReservationExpires(a)
  BY <1>4 DEF Sweep, ListCleanupCandidates, Cleanup_Mark, Cleanup_Object, Cleanup_Row,
              servePut, UrlExpires, ReservationExpires
<1>9. ~DeleteHousehold
  BY <1>4 DEF DeleteHousehold
<1> QED BY <1>5, <1>6, <1>7, <1>8, <1>9 DEF Next, Served

\* Every upload that was reserved can be finalized: what it measures is covered
\* by what was reserved for it, so the quota does not refuse it.  The limit has
\* to fit the int4 that FinalizeReservation's statement takes it for.
THEOREM ReservationsFit ==
  ASSUME Limit <= Int4Max
  PROVE  Spec => ReservedUploadsFit
<1> DEFINE Fit(w) == Doing(w, "charge") /\ row[work[w].id].st = "pending" /\ work'[w] = Idle
                     /\ faults' = faults
                     => row'[work[w].id].st = "ready"
<1>1. ASSUME IInv, Next, NEW w \in Workers PROVE Fit(w)
  <2> SUFFICES ASSUME work[w].pc = "charge", row[work[w].id].st = "pending",
                      work'[w] = Idle, faults' = faults
               PROVE  row'[work[w].id].st = "ready"
    BY DEF Doing
  <2>1. FinalizeUpload_Charge(w)
    BY <1>1, OthersGoOn
  <2>2. PICK a \in Ids : a = work[w].id
    BY <1>1, Working
  <2>3. Consumes(a, work[w].size)
    BY <1>1, <2>2, ReservationFits DEF Consumes
  <2>4. row' = [row EXCEPT ![a].st = "ready", ![a].size = work[w].size]
    BY <2>1, <2>2, <2>3 DEF FinalizeUpload_Charge, Consumed
  <2> QED BY <1>1, <2>2, <2>4 DEF IInv, TypeOK, Row
<1>2. ASSUME IInv, [Next]_vars PROVE [\A w \in Workers : Fit(w)]_vars
  BY <1>1, <1>2
<1>3. IInv /\ [Next]_vars => [\A w \in Workers : Fit(w)]_vars
  BY <1>2
<1> QED BY <1>3, Invariant, PTL DEF Spec, ReservedUploadsFit
=============================================================================
