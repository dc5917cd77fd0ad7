------------------------- MODULE ChoreRotationProofs -------------------------
(***************************************************************************)
(* Theorems about ChoreRotation, for every set of members, of turns and of *)
(* occurrences, and every bound on the undos and the edits.                *)
(*                                                                         *)
(*   - OnlyStaleScheduleBreaksIndex: the index leaves the rotation in one  *)
(*     way only, when the daily job sets one read from a longer order.     *)
(*   - FinishedStaysFinished: an answer never opens a finished turn again. *)
(*   - FairRotation: the state is well formed; in a household that does not *)
(*     change, each turn goes to whoever follows the previous one, however *)
(*     the requests interleave; and while people join, or while people     *)
(*     leave, one request after the other, nobody is served twice before   *)
(*     everybody else who was there all along.                             *)
(*                                                                         *)
(* The invariants: Sound, what each process may be doing and what it has   *)
(* read; LastPending and Steadily, the turns of simultaneous requests; and *)
(* View, what the one request at work knows, over Fairly, how the turns    *)
(* stand to the order and to whoever is due.                               *)
(***************************************************************************)
EXTENDS ChoreRotation, OrderLemmas

\* indexOfUUID finds the place.
LEMMA Found ==
  ASSUME NEW S, NEW s \in Seq(S), s # << >>
  PROVE  /\ \A u : IndexOf(s, u) \in 0..(Len(s) - 1)
         /\ \A u \in ToSet(s) : s[IndexOf(s, u) + 1] = u
         /\ IsInjective(s) => \A i \in 1..Len(s) : IndexOf(s, s[i]) = i - 1
<1>1. Len(s) \in Nat /\ Len(s) >= 1 /\ DOMAIN s = 1..Len(s)
  OBVIOUS
<1>2. ASSUME NEW u PROVE IndexOf(s, u) \in 0..(Len(s) - 1)
  <2>1. CASE \E i \in DOMAIN s : s[i] = u
    <3> DEFINE i == CHOOSE i \in DOMAIN s : s[i] = u
    <3>1. i \in 1..Len(s)
      BY <1>1, <2>1
    <3> QED BY <1>1, <2>1, <3>1 DEF IndexOf
  <2>2. CASE ~ \E i \in DOMAIN s : s[i] = u
    BY <1>1, <2>2 DEF IndexOf
  <2> QED BY <2>1, <2>2
<1>3. ASSUME NEW u \in ToSet(s) PROVE s[IndexOf(s, u) + 1] = u
  <2>1. \E i \in DOMAIN s : s[i] = u
    BY <1>1, Placement
  <2> DEFINE i == CHOOSE i \in DOMAIN s : s[i] = u
  <2>2. i \in 1..Len(s) /\ s[i] = u
    BY <1>1, <2>1
  <2>3. IndexOf(s, u) = i - 1
    BY <2>1 DEF IndexOf
  <2> QED BY <2>2, <2>3
<1>4. ASSUME IsInjective(s), NEW i \in 1..Len(s) PROVE IndexOf(s, s[i]) = i - 1
  <2> DEFINE k == IndexOf(s, s[i])
  <2>1. s[i] \in ToSet(s)
    BY Placement
  <2>2. k \in 0..(Len(s) - 1) /\ s[k + 1] = s[i]
    BY <1>2, <1>3, <2>1
  <2>3. k + 1 \in 1..Len(s)
    BY <1>1, <2>2
  <2>4. k + 1 = i
    BY <1>4, <2>2, <2>3, ByPlace
  <2> QED BY <2>2, <2>4
<1> QED BY <1>2, <1>3, <1>4

\* The next place of n, from 0.
LEMMA NextPlace ==
  ASSUME NEW n \in Nat, n > 0, NEW i \in 0..(n - 1)
  PROVE  (i + 1) % n = (IF i + 1 = n THEN 0 ELSE i + 1)
<1>1. CASE i + 1 = n
  BY <1>1
<1>2. CASE i + 1 # n
  BY <1>2
<1> QED BY <1>1, <1>2

\* A place that is reached going round.
LEMMA Round ==
  ASSUME NEW n \in Nat, n > 0, NEW i \in 0..(n - 1), NEW k \in 0..(n - 1)
  PROVE  (i + k) % n = (IF i + k < n THEN i + k ELSE i + k - n)
<1>1. CASE i + k < n
  BY <1>1
<1>2. CASE ~(i + k < n)
  <2>1. i + k = n * 1 + (i + k - n) /\ i + k - n \in 0..(n - 1)
    BY <1>2
  <2> QED BY <1>2, <2>1
<1> QED BY <1>1, <1>2

\* ListMembershipsByGroup lists everybody once.
LEMMA Listing ==
  ASSUME NEW K, K \subseteq Users, Users # {}
  PROVE  Listed(K) \in Seq(Users) /\ IsInjective(Listed(K)) /\ ToSet(Listed(K)) = K
<1> DEFINE n == Max(Users)
           s == [u \in 1..n |-> u]
<1>1. /\ n \in Users /\ \A u \in Users : u <= n
      /\ n \in Nat /\ \A u \in Users : u \in Nat /\ 1 <= u
  <2>1. IsFiniteSet(Users) /\ Users \subseteq Nat /\ \A u \in Users : u \in Nat /\ 1 <= u
    BY UsersAssumption
  <2>2. n \in Users /\ \A u \in Users : u <= n
    BY <2>1, MaxOf
  <2> QED BY <2>1, <2>2
<1> HIDE DEF n
<1>2. s \in Seq(Nat) /\ Len(s) = n /\ \A i \in 1..n : s[i] = i
  BY <1>1
<1>3. IsInjective(s)
  BY <1>1, <1>2 DEF IsInjective
<1>5. Listed(K) = Only(s, K)
  BY DEF Listed, n
<1> HIDE DEF s
<1>4. ToSet(s) = 1..n
  <2>1. \A a : a \in ToSet(s) <=> \E i \in 1..n : s[i] = a
    BY <1>2, Placement
  <2>2. \A a : a \in ToSet(s) <=> a \in 1..n
    <3>1. ASSUME NEW a \in ToSet(s) PROVE a \in 1..n
      BY <1>2, <2>1
    <3>2. ASSUME NEW a \in 1..n PROVE a \in ToSet(s)
      BY <1>2, <2>1
    <3> QED BY <3>1, <3>2
  <2> QED BY <2>2
<1>6. /\ Only(s, K) \in Seq(Nat) /\ IsInjective(Only(s, K))
      /\ ToSet(Only(s, K)) = ToSet(s) \cap K
  BY <1>2, <1>3, Remaining
<1>7. K \subseteq 1..n
  BY <1>1
<1>8. ToSet(Only(s, K)) = K
  BY <1>4, <1>6, <1>7
<1>9. Only(s, K) \in Seq(Users)
  <2>1. \A i \in 1..Len(Only(s, K)) : Only(s, K)[i] \in K
    BY <1>6, <1>8, Placement
  <2> QED BY <1>6, <2>1
<1> QED BY <1>5, <1>6, <1>8, <1>9

\* What a rebuild makes of an order.
LEMMA Rebuilt ==
  ASSUME NEW s \in Seq(Users), IsInjective(s), NEW E, E \subseteq Users, Users # {}
  PROVE  LET t == NextOrder(s, E)
         IN /\ t \in Seq(Users) /\ IsInjective(t) /\ ToSet(t) = E
            /\ \A a, b \in ToSet(s) \cap E : Before(t, a, b) <=> Before(s, a, b)
            /\ E # {} => t # << >>
<1> DEFINE p == Only(s, E)
           q == Listed(E \ ToSet(s))
<1>1. /\ p \in Seq(Users) /\ IsInjective(p) /\ ToSet(p) = ToSet(s) \cap E
      /\ \A a, b : Before(p, a, b) <=> Before(s, a, b) /\ a \in E /\ b \in E
  BY Remaining
<1>2. q \in Seq(Users) /\ IsInjective(q) /\ ToSet(q) = E \ ToSet(s)
  <2>1. E \ ToSet(s) \subseteq Users
    OBVIOUS
  <2> QED BY <2>1, Listing
<1>3. NextOrder(s, E) = p \o q
  BY DEF NextOrder
<1> HIDE DEF p, q
<1>4. ToSet(p) \cap ToSet(q) = {}
  BY <1>1, <1>2
<1>5. /\ p \o q \in Seq(Users) /\ IsInjective(p \o q)
      /\ ToSet(p \o q) = ToSet(p) \cup ToSet(q)
      /\ \A a, b \in ToSet(p) : Before(p \o q, a, b) <=> Before(p, a, b)
  BY <1>1, <1>2, <1>4, Joined
<1>6. ToSet(p \o q) = E
  BY <1>1, <1>2, <1>5
<1>7. \A a, b \in ToSet(s) \cap E : Before(p \o q, a, b) <=> Before(s, a, b)
  BY <1>1, <1>5
<1>8. E # {} => p \o q # << >>
  <2>1. ASSUME NEW x \in E PROVE p \o q # << >>
    <3>1. \E i \in 1..Len(p \o q) : (p \o q)[i] = x
      BY <1>5, <1>6, Placement
    <3>2. Len(p \o q) # 0
      BY <1>5, <3>1
    <3> QED BY <3>2
  <2> QED BY <2>1
<1> QED BY <1>3, <1>5, <1>6, <1>7, <1>8

(***************************************************************************)
(* Who is served before whom when somebody is due.                         *)
(***************************************************************************)
\* With w due, a comes before b.
Serves(s, w, a, b) == IF Before(s, a, w) <=> Before(s, b, w) THEN Before(s, a, b)
                      ELSE Before(s, b, w)

LEMMA WhoIsDue ==
  ASSUME NEW s, Line(s), NEW w \in ToSet(s)
  PROVE  \A a \in ToSet(s) : ~Serves(s, w, a, w) /\ (a # w => Serves(s, w, w, a))
BY Zenon DEF Line, Serves

\* Of two people one comes first.
LEMMA OneFirst ==
  ASSUME NEW s, Line(s), NEW w \in ToSet(s), NEW a \in ToSet(s), NEW b \in ToSet(s), a # b
  PROVE  Serves(s, w, a, b) <=> ~Serves(s, w, b, a)
BY Zenon DEF Line, Serves

\* Whoever had the turn comes last, once the next one is due.
Passes(s, w, v) == \A a, b \in ToSet(s) :
                      a # b => (Serves(s, v, a, b) <=> a # w /\ (b = w \/ Serves(s, w, a, b)))

LEMMA Passing ==
  ASSUME NEW s, Line(s), NEW w \in ToSet(s), NEW v \in ToSet(s),
         \/ \A x \in ToSet(s) : Before(s, x, v) <=> Before(s, x, w) \/ x = w
         \/ \A x \in ToSet(s) : ~Before(s, x, v) /\ (x # w => Before(s, x, w))
  PROVE  Passes(s, w, v)
<1> SUFFICES ASSUME NEW a \in ToSet(s), NEW b \in ToSet(s), a # b
             PROVE  Serves(s, v, a, b) <=> a # w /\ (b = w \/ Serves(s, w, a, b))
  BY DEF Passes
<1>1. CASE \A x \in ToSet(s) : Before(s, x, v) <=> Before(s, x, w) \/ x = w
  BY <1>1, Zenon DEF Line, Serves
<1>2. CASE \A x \in ToSet(s) : ~Before(s, x, v) /\ (x # w => Before(s, x, w))
  BY <1>2, Zenon DEF Line, Serves
<1> QED BY <1>1, <1>2

\* When some drop out and others come last, those who stay keep their order.
LEMMA Dropping ==
  ASSUME NEW s, Line(s), NEW t, Line(t), NEW C, C \subseteq ToSet(s), C \subseteq ToSet(t),
         \A a, b \in C : Before(t, a, b) <=> Before(s, a, b),
         NEW w \in ToSet(s), NEW v \in C, \A x \in C : ~Serves(s, w, x, v)
  PROVE  \A a, b \in C : Serves(t, v, a, b) <=> Serves(s, w, a, b)
<1> SUFFICES ASSUME NEW a \in C, NEW b \in C
             PROVE  Serves(t, v, a, b) <=> Serves(s, w, a, b)
  OBVIOUS
<1>1. Serves(t, v, a, b) <=> Serves(s, v, a, b)
  BY DEF Serves
<1>2. ~Serves(s, w, a, v) /\ ~Serves(s, w, b, v)
  OBVIOUS
<1>3. a \in ToSet(s) /\ b \in ToSet(s) /\ v \in ToSet(s)
  OBVIOUS
<1>4. Serves(s, v, a, b) <=> Serves(s, w, a, b)
  BY <1>2, <1>3, Zenon DEF Line, Serves
<1> QED BY <1>1, <1>4

\* When the turn goes back to h, only h comes earlier than before.
LEMMA GoingBack ==
  ASSUME NEW s, Line(s), NEW w \in ToSet(s), NEW h \in ToSet(s),
         NEW a \in ToSet(s), NEW b \in ToSet(s), a # b, a # h, b # h,
         Serves(s, w, a, h), Serves(s, h, a, b)
  PROVE  Serves(s, w, a, b)
BY Zenon DEF Line, Serves

-----------------------------------------------------------------------------
\* Whom a rotation has due, and who follows.
LEMMA DueAndNext ==
  ASSUME NEW s \in Rotation, InRange(s), IsInjective(s.order)
  PROVE  /\ Due(s) \in ToSet(s.order) /\ Due(s) \in Users
         /\ IndexOf(s.order, Due(s)) = s.index
         /\ Advanced(s) \in Rotation /\ InRange(Advanced(s)) /\ Advanced(s).order = s.order
         /\ Advanced(s).index = (s.index + 1) % Len(s.order)
         /\ Passes(s.order, Due(s), Due(Advanced(s)))
<1> DEFINE o == s.order
           i == s.index
           n == Len(o)
           j == IF i + 1 = n THEN 0 ELSE i + 1
<1>1. o \in Seq(Users) /\ i \in Nat /\ n \in Nat /\ i < n /\ n > 0 /\ o # << >>
  BY DEF Rotation, InRange
<1>2. i + 1 \in 1..n /\ j \in 0..(n - 1) /\ j + 1 \in 1..n
  BY <1>1
<1>3. Advanced(s) = [order |-> o, index |-> j]
  <2>1. (i + 1) % n = j
    BY <1>1, NextPlace
  <2> QED BY <2>1 DEF Advanced
<1>4. Due(s) = o[i + 1] /\ Due(Advanced(s)) = o[j + 1]
  BY <1>3 DEF Due
<1>5. \A k \in 1..n : o[k] \in ToSet(o) /\ o[k] \in Users
  BY <1>1, Placement
<1>6. \A x, y \in 1..n : Before(o, o[x], o[y]) <=> x < y
  BY <1>1, ByPlace
<1>7. \A x \in ToSet(o) : \E k \in 1..n : o[k] = x
  BY <1>1, Placement
<1>8. IndexOf(o, o[i + 1]) = i
  BY <1>1, <1>2, Found, SMTT(30)
<1>9. Line(o)
  BY <1>1, IsLine
<1> HIDE DEF o, n, i
<1>10. Passes(o, o[i + 1], o[j + 1])
  <2>1. CASE i + 1 = n
    <3>1. ASSUME NEW x \in ToSet(o) PROVE ~Before(o, x, o[j + 1]) /\ (x # o[i + 1] => Before(o, x, o[i + 1]))
      <4>1. PICK k \in 1..n : o[k] = x
        BY <1>7
      <4>2. ~(k < j + 1) /\ (k = i + 1 \/ k < i + 1)
        BY <1>1, <2>1
      <4> QED BY <1>2, <1>6, <4>1, <4>2
    <3> QED BY <1>2, <1>5, <1>9, <3>1, Passing
  <2>2. CASE i + 1 # n
    <3>1. ASSUME NEW x \in ToSet(o) PROVE Before(o, x, o[j + 1]) <=> Before(o, x, o[i + 1]) \/ x = o[i + 1]
      <4>1. PICK k \in 1..n : o[k] = x
        BY <1>7
      <4>2. k < j + 1 <=> k < i + 1 \/ k = i + 1
        BY <1>1, <2>2
      <4>3. k = i + 1 <=> o[k] = o[i + 1]
        BY <1>1, <1>2, <1>6
      <4> QED BY <1>2, <1>6, <4>1, <4>2, <4>3
    <3> QED BY <1>2, <1>5, <1>9, <3>1, Passing
  <2> QED BY <2>1, <2>2
<1>11. Advanced(s) \in Rotation /\ InRange(Advanced(s)) /\ Advanced(s).order = o
  BY <1>1, <1>2, <1>3 DEF Rotation, InRange, n
<1>12. Advanced(s).index = (i + 1) % n
  BY DEF Advanced, i, n, o
<1> QED BY <1>2, <1>4, <1>5, <1>8, <1>10, <1>11, <1>12 DEF o, i, n

-----------------------------------------------------------------------------
(***************************************************************************)
(* The invariant: what a process may be doing and what it knows.           *)
(***************************************************************************)
\* An order lists somebody, and nobody twice.
Good(s) == s \in Rotation /\ s.order # << >> /\ IsInjective(s.order)

\* A process with local state l, when there are n turns.
Works(l, n, may) ==
    /\ l \in Local
    /\ l.pc # "idle" => l.op \in (may \cap Operations) \cup {"sync"}
    /\ l.pc \in {"list", "successor", "delete", "restore", "reread", "index"} => l.op = "undo"
    /\ l.pc \in {"members", "rotation", "sync"} <=> l.op = "sync"
    /\ l.pc = "commit" => l.op = "finish"
    /\ l.pc = "assignee" => l.op = "reassign"
    /\ l.pc = "update" => l.op \in {"reschedule", "reassign"}
    /\ l.pc \in {"advance", "assign"} => l.op = "rotate"
    /\ l.pc = "insert" => l.op = "schedule"
    /\ l.pc = "state" => l.op \in {"finish", "rotate", "schedule"}
    /\ (l.pc \in {"commit", "update", "assignee", "successor", "delete", "restore",
                  "reread", "index"} \/ (l.pc = "state" /\ l.op = "finish")) => l.row \in 1..n
    /\ l.pc = "delete" => l.other \in 1..n
    /\ l.pc \in {"commit", "update", "insert", "assign", "advance", "successor", "delete",
                 "restore"} => l.user \in Users
    /\ l.pc \in {"commit", "advance", "index", "sync"} => Good(l.next) /\ InRange(l.next)
    /\ l.pc = "insert" => l.next.index < Len(l.read.order)
    /\ l.pc \in {"rotation", "sync"} => l.seen # {}

RowsOK(rs) == rs \in Seq(Row) /\ Len(rs) <= world.rows

Sound == /\ world \in Worlds
         /\ members \in (SUBSET world.users) \ {{}}
         /\ Good(state)
         /\ RowsOK(rows)
         /\ proc \in [Procs -> Local]
         /\ \A p \in Procs : Works(proc[p], Len(rows), world.may)

LEMMA WorldOf ==
  ASSUME world \in Worlds
  PROVE  /\ world.users \subseteq Users /\ world.may \subseteq Operations \cup Circumstances
         /\ world.rows \in Nat
BY WorldsAssumption DEF World

LEMMA MembersAre ==
  ASSUME Sound
  PROVE  members \subseteq Users /\ members # {} /\ Users # {}
BY WorldOf DEF Sound

LEMMA IdleWorks ==
  ASSUME NEW n, NEW may
  PROVE  Works(Idle, n, may)
<1>1. Idle \in Local
  BY DEF Idle, Local, Nobody, Rotation
<1> QED BY <1>1 DEF Works, Idle

\* What one knows stays true while turns are added.
LEMMA WorksOn ==
  ASSUME NEW n \in Nat, NEW m \in Nat, n <= m, NEW may, NEW l, Works(l, n, may)
  PROVE  Works(l, m, may)
BY DEF Works

\* A step of one process.
LEMMA OneMoves ==
  ASSUME Sound, NEW p \in Procs, NEW l, Works(l, Len(rows'), world.may),
         Become(p, l), world' = world,
         members' \in (SUBSET world.users) \ {{}}, Good(state'), RowsOK(rows'),
         Len(rows) <= Len(rows')
  PROVE  Sound'
<1>1. Len(rows) \in Nat /\ Len(rows') \in Nat
  BY DEF Sound, RowsOK
<1>2. proc' \in [Procs -> Local]
  <2>1. l \in Local
    BY DEF Works
  <2> QED BY <2>1 DEF Sound, Become
<1>3. ASSUME NEW q \in Procs PROVE Works(proc'[q], Len(rows'), world.may)
  <2>1. CASE q = p
    BY <2>1 DEF Become, Sound
  <2>2. CASE q # p
    <3>1. proc'[q] = proc[q]
      BY <2>2 DEF Become, Sound
    <3>2. Works(proc[q], Len(rows), world.may)
      BY DEF Sound
    <3> QED BY <1>1, <3>1, <3>2, WorksOn
  <2> QED BY <2>1, <2>2
<1>4. RowsOK(rows)'
  BY DEF RowsOK
<1>5. Good(state)'
  BY DEF Good
<1>6. \A q \in Procs : Works(proc[q], Len(rows), world.may)'
  BY <1>3 DEF Works
<1> QED BY <1>2, <1>4, <1>5, <1>6 DEF Sound

\* A step of one process that leaves the turns alone.
LEMMA OneThinks ==
  ASSUME Sound, NEW p \in Procs, NEW l, Works(l, Len(rows), world.may),
         Become(p, l), UNCHANGED <<world, members, state, rows>>
  PROVE  Sound'
<1>1. /\ members' \in (SUBSET world.users) \ {{}} /\ Good(state') /\ RowsOK(rows')
      /\ Len(rows') = Len(rows) /\ Len(rows) \in Nat
  BY DEF Sound, RowsOK
<1> QED BY <1>1, OneMoves

\* Who is there when a turn begins, as far as its row remembers.
Present == IF "serial" \in world.may THEN members ELSE {}

\* new is rs and a turn of u.
Inserted(new, rs, u) ==
    LET n == Len(rs)
    IN /\ new \in Seq(Row) /\ n \in Nat /\ Len(new) = n + 1
       /\ \A i \in 1..n : new[i] = rs[i]
       /\ new[n + 1].user = u /\ new[n + 1].status = "pending" /\ new[n + 1].since = Present

LEMMA Inserting ==
  ASSUME Sound, NEW rs \in Seq(Row), NEW u \in Users
  PROVE  Inserted(InsertPending(rs, u), rs, u)
<1> DEFINE r == [user |-> u, status |-> "pending", since |-> Present]
<1>1. r \in Row
  BY MembersAre DEF Row, Statuses, Present
<1>2. InsertPending(rs, u) = Append(rs, r)
  BY DEF InsertPending, Present
<1>3. r.user = u /\ r.status = "pending" /\ r.since = Present
  OBVIOUS
<1> HIDE DEF r
<1> QED BY <1>1, <1>2, <1>3 DEF Inserted

\* A turn written.
LEMMA Rewriting ==
  ASSUME NEW rs \in Seq(Row), NEW i \in 1..Len(rs), NEW r \in Row
  PROVE  LET new == [rs EXCEPT ![i] = r]
         IN /\ new \in Seq(Row) /\ Len(new) = Len(rs)
            /\ \A k \in 1..Len(rs) : new[k] = IF k = i THEN r ELSE rs[k]
OBVIOUS

\* new is the turns with i finished and a turn of u.
Passed(new, i, status, u) ==
    LET n == Len(rows)
    IN /\ new \in Seq(Row) /\ n \in Nat /\ Len(new) = n + 1
       /\ \A k \in 1..n : /\ new[k].user = rows[k].user /\ new[k].since = rows[k].since
                          /\ new[k].status = (IF k = i THEN status ELSE rows[k].status)
       /\ new[n + 1].user = u /\ new[n + 1].status = "pending" /\ new[n + 1].since = Present

LEMMA Finishing ==
  ASSUME Sound, NEW i \in 1..Len(rows), NEW status \in Finished, NEW u \in Users
  PROVE  Passed(InsertPending([rows EXCEPT ![i].status = status], u), i, status, u)
<1> DEFINE done == [rows EXCEPT ![i].status = status]
           r == [rows[i] EXCEPT !.status = status]
           n == Len(rows)
<1>1. rows \in Seq(Row) /\ n \in Nat /\ rows[i] \in Row
  BY DEF Sound, RowsOK
<1>2. /\ r \in Row /\ r.user = rows[i].user /\ r.since = rows[i].since /\ r.status = status
  BY <1>1 DEF Row, Finished, Statuses
<1>3. done = [rows EXCEPT ![i] = r]
  OBVIOUS
<1>4. /\ done \in Seq(Row) /\ Len(done) = n
      /\ \A k \in 1..n : done[k] = IF k = i THEN r ELSE rows[k]
  <2> HIDE DEF r, done
  <2> QED BY <1>1, <1>2, <1>3, Rewriting
<1> HIDE DEF done, r
<1>5. \A k \in 1..n : /\ done[k].user = rows[k].user /\ done[k].since = rows[k].since
                      /\ done[k].status = (IF k = i THEN status ELSE rows[k].status)
  BY <1>2, <1>4
<1> DEFINE new == InsertPending(done, u)
<1>6. Inserted(new, done, u)
  BY <1>4, Inserting
<1> HIDE DEF new
<1>7. /\ new \in Seq(Row) /\ Len(new) = n + 1
      /\ \A k \in 1..n : new[k] = done[k]
      /\ new[n + 1].user = u /\ new[n + 1].status = "pending" /\ new[n + 1].since = Present
  BY <1>4, <1>6 DEF Inserted
<1> HIDE DEF n
<1>8. \A k \in 1..n : /\ new[k].user = rows[k].user /\ new[k].since = rows[k].since
                      /\ new[k].status = (IF k = i THEN status ELSE rows[k].status)
  BY <1>5, <1>7
<1>9. Passed(new, i, status, u)
  BY <1>1, <1>7, <1>8 DEF Passed, n
<1> QED BY <1>9 DEF new, done

\* What WriteRow leaves.
LEMMA Writing ==
  ASSUME Sound, NEW i \in 1..Len(rows), NEW u \in Users, WriteRow(i, u)
  PROVE  /\ rows' \in Seq(Row) /\ Len(rows') = Len(rows)
         /\ \/ rows' = rows
            \/ /\ rows[i].status # "deleted" /\ Unique(rows')
               /\ rows'[i].user = u /\ rows'[i].status = "pending" /\ rows'[i].since = rows[i].since
               /\ \A k \in 1..Len(rows) : k # i => rows'[k] = rows[k]
<1> DEFINE r == [rows[i] EXCEPT !.user = u, !.status = "pending"]
           written == [rows EXCEPT ![i] = [@ EXCEPT !.user = u, !.status = "pending"]]
<1>1. rows \in Seq(Row) /\ rows[i] \in Row
  BY DEF Sound, RowsOK
<1>2. r \in Row /\ r.user = u /\ r.since = rows[i].since /\ r.status = "pending"
  BY <1>1 DEF Row, Statuses
<1>3. written = [rows EXCEPT ![i] = r]
  OBVIOUS
<1>4. /\ written \in Seq(Row) /\ Len(written) = Len(rows)
      /\ \A k \in 1..Len(rows) : written[k] = IF k = i THEN r ELSE rows[k]
  <2> HIDE DEF r, written
  <2> QED BY <1>1, <1>2, <1>3, Rewriting
<1>5. \/ rows' = rows
      \/ rows[i].status # "deleted" /\ Unique(written) /\ rows' = written
  BY DEF WriteRow
<1> HIDE DEF r, written
<1> QED BY <1>1, <1>2, <1>4, <1>5

LEMMA SoundInit ==
  ASSUME RotationInit
  PROVE  Sound
<1> DEFINE s == [order |-> Listed(members), index |-> 0]
<1>1. /\ world \in Worlds /\ members \in (SUBSET world.users) \ {{}}
      /\ members \subseteq Users /\ Users # {}
  BY WorldOf DEF RotationInit
<1>2. Listed(members) \in Seq(Users) /\ IsInjective(Listed(members)) /\ ToSet(Listed(members)) = members
  BY <1>1, Listing
<1>3. Listed(members) # << >>
  <2>1. PICK a \in members : TRUE
    BY <1>1
  <2>2. \E i \in 1..Len(Listed(members)) : Listed(members)[i] = a
    BY <1>2, <2>1, Placement
  <2>3. Len(Listed(members)) # 0
    BY <1>2, <2>2
  <2> QED BY <2>3
<1>4. Good(s) /\ InRange(s)
  BY <1>2, <1>3 DEF Good, Rotation, InRange
<1>5. Due(s) \in Users /\ Good(Advanced(s))
  BY <1>4, DueAndNext DEF Good
<1>6. state = s \/ state = Advanced(s)
  BY DEF RotationInit
<1>7. rows = << >> \/ rows = InsertPending(<< >>, Due(s))
  BY DEF RotationInit
<1>8. RowsOK(rows)
  <2> DEFINE r == [user |-> Due(s), status |-> "pending",
                   since |-> IF "serial" \in world.may THEN members ELSE {}]
  <2>1. r \in Row
    BY <1>1, <1>5 DEF Row, Statuses
  <2>2. rows = << >> \/ rows = << r >>
    BY <1>7 DEF InsertPending
  <2>3. world.rows \in Nat \ {0}
    BY <1>1, WorldsAssumption DEF World
  <2> HIDE DEF r
  <2>4. rows \in Seq(Row) /\ Len(rows) <= 1
    <3>1. << >> \in Seq(Row) /\ Len(<< >>) = 0
      OBVIOUS
    <3>2. << r >> \in Seq(Row) /\ Len(<< r >>) = 1
      BY <2>1
    <3>3. CASE rows = << >>
      BY <3>1, <3>3
    <3>4. CASE rows = << r >>
      BY <3>2, <3>4
    <3> QED BY <2>2, <3>3, <3>4
  <2> QED BY <2>3, <2>4 DEF RowsOK
<1>9. /\ proc \in [Procs -> Local]
      /\ \A p \in Procs : Works(proc[p], Len(rows), world.may)
  <2>1. proc = [p \in Procs |-> Idle]
    BY DEF RotationInit
  <2>2. \A p \in Procs : proc[p] = Idle /\ Works(Idle, Len(rows), world.may)
    BY <2>1, IdleWorks
  <2>3. Idle \in Local
    BY IdleWorks DEF Works
  <2> QED BY <2>1, <2>2, <2>3
<1> QED BY <1>1, <1>4, <1>5, <1>6, <1>8, <1>9 DEF Sound

-----------------------------------------------------------------------------
(* Every step keeps the processes' knowledge true. *)

LEMMA AProcess ==
  ASSUME Sound, NEW p \in Procs
  PROVE  /\ proc[p] \in Local /\ Works(proc[p], Len(rows), world.may)
         /\ Len(rows) \in Nat
         /\ \A i \in 1..Len(rows) : rows[i] \in Row
BY DEF Sound, RowsOK

LEMMA SoundEnds ==
  ASSUME Sound, NEW p \in Procs, Finish(p), UNCHANGED <<world, members, state, rows>>
  PROVE  Sound'
BY IdleWorks, OneThinks DEF Finish

LEMMA SoundStart ==
  ASSUME Sound, NEW p \in Procs, NEW op \in Operations, Start(p, op)
  PROVE  Sound'
<1> DEFINE l == [Idle EXCEPT !.op = op, !.pc = IF op = "undo" THEN "list" ELSE "pending"]
<1>1. /\ l.pc \in {"list", "pending"} /\ l.op = op /\ l \in Local
      /\ l.pc = "list" => op = "undo"
  BY IdleWorks, ZenonT(30) DEF Works, Idle, Local, Operations
<1>2. op \in world.may
  BY DEF Start
<1>3. Become(p, l) /\ UNCHANGED <<world, members, state, rows>>
  BY DEF Start
<1> HIDE DEF l
<1>4. Works(l, Len(rows), world.may)
  BY <1>1, <1>2 DEF Works, Operations
<1> QED BY <1>3, <1>4, OneThinks

LEMMA SoundReadPending ==
  ASSUME Sound, NEW p \in Procs, ReadPending(p)
  PROVE  Sound'
<1>1. CASE Finish(p)
  BY <1>1, SoundEnds DEF ReadPending
<1>2. CASE ~Finish(p)
  <2> DEFINE pc == CASE proc[p].op = "finish" -> "state"
                     [] proc[p].op = "reschedule" -> "update"
                     [] proc[p].op = "reassign" -> "assignee"
             l(i) == [proc[p] EXCEPT !.row = i, !.user = rows[i].user, !.pc = pc]
  <2>1. PICK i \in PendingIn(rows) : Become(p, l(i))
    BY <1>2 DEF ReadPending
  <2>2. /\ proc[p].pc = "pending" /\ proc[p].op \in {"finish", "reschedule", "reassign"}
        /\ UNCHANGED <<world, members, state, rows>>
    BY DEF ReadPending, InPhase
  <2>3. i \in 1..Len(rows) /\ rows[i].user \in Users /\ i \in Nat
    BY AProcess DEF PendingIn, Row, Sound, RowsOK
  <2>4. /\ proc[p].op = "finish" => pc = "state"
        /\ proc[p].op = "reschedule" => pc = "update"
        /\ proc[p].op = "reassign" => pc = "assignee"
    OBVIOUS
  <2> HIDE DEF pc
  <2>5. pc \in {"state", "update", "assignee"}
    BY <2>2, <2>4
  <2>6. /\ l(i) \in Local /\ l(i).pc = pc /\ l(i).op = proc[p].op /\ l(i).row = i
        /\ l(i).user = rows[i].user
    BY <2>3, <2>5, AProcess DEF Local
  <2> HIDE DEF l
  <2>7. Works(l(i), Len(rows), world.may)
    BY <2>2, <2>3, <2>4, <2>6, AProcess DEF Works
  <2> QED BY <2>1, <2>2, <2>7, OneThinks
<1> QED BY <1>1, <1>2

LEMMA SoundReassign ==
  ASSUME Sound, NEW p \in Procs, Reassign(p)
  PROVE  Sound'
<1>1. CASE Finish(p)
  BY <1>1, SoundEnds DEF Reassign
<1>2. CASE ~Finish(p)
  <2> DEFINE l(u) == [proc[p] EXCEPT !.user = u, !.pc = "update"]
  <2>1. PICK u \in Users : Become(p, l(u))
    BY <1>2 DEF Reassign
  <2>2. proc[p].pc = "assignee" /\ UNCHANGED <<world, members, state, rows>>
    BY DEF Reassign, InPhase
  <2>3. /\ l(u) \in Local /\ l(u).pc = "update" /\ l(u).op = proc[p].op /\ l(u).row = proc[p].row
        /\ l(u).user = u
    BY AProcess DEF Local
  <2> HIDE DEF l
  <2>4. Works(l(u), Len(rows), world.may)
    BY <2>2, <2>3, AProcess DEF Works
  <2> QED BY <2>1, <2>2, <2>4, OneThinks
<1> QED BY <1>1, <1>2

LEMMA SoundReadNoPending ==
  ASSUME Sound, NEW p \in Procs, ReadNoPending(p)
  PROVE  Sound'
<1>1. CASE Finish(p)
  BY <1>1, SoundEnds DEF ReadNoPending
<1>2. CASE ~Finish(p)
  <2> DEFINE l == [proc[p] EXCEPT !.pc = "state"]
  <2>1. Become(p, l)
    BY <1>2 DEF ReadNoPending, Goto
  <2>2. /\ proc[p].pc = "pending" /\ proc[p].op \in {"rotate", "schedule"}
        /\ UNCHANGED <<world, members, state, rows>>
    BY DEF ReadNoPending, InPhase
  <2>3. l \in Local /\ l.pc = "state" /\ l.op = proc[p].op
    BY AProcess DEF Local
  <2> HIDE DEF l
  <2>4. Works(l, Len(rows), world.may)
    BY <2>2, <2>3, AProcess DEF Works
  <2> QED BY <2>1, <2>2, <2>4, OneThinks
<1> QED BY <1>1, <1>2

LEMMA SoundReadState ==
  ASSUME Sound, NEW p \in Procs, ReadState(p)
  PROVE  Sound'
<1>1. CASE ~InRange(state)
  BY <1>1, SoundEnds DEF ReadState
<1>2. CASE InRange(state)
  <2> DEFINE pc == IF proc[p].op = "finish" THEN "commit" ELSE "advance"
             l == [proc[p] EXCEPT !.next = Advanced(state), !.user = Due(state), !.pc = pc]
  <2>1. Become(p, l)
    BY <1>2 DEF ReadState
  <2>2. /\ proc[p].pc = "state" /\ proc[p].op \in {"finish", "rotate"}
        /\ UNCHANGED <<world, members, state, rows>>
    BY DEF ReadState, InPhase
  <2>3. /\ Due(state) \in Users /\ Advanced(state) \in Rotation
        /\ Good(Advanced(state)) /\ InRange(Advanced(state))
    BY <1>2, DueAndNext DEF Sound, Good
  <2>4. /\ l \in Local /\ l.pc = pc /\ l.op = proc[p].op /\ l.row = proc[p].row
        /\ l.user = Due(state) /\ l.next = Advanced(state)
    BY <2>3, AProcess DEF Local
  <2> HIDE DEF l
  <2>5. Works(l, Len(rows), world.may)
    BY <2>2, <2>3, <2>4, AProcess DEF Works
  <2> QED BY <2>1, <2>2, <2>5, OneThinks
<1> QED BY <1>1, <1>2

LEMMA SoundReadScheduled ==
  ASSUME Sound, NEW p \in Procs, ReadScheduled(p)
  PROVE  Sound'
<1> DEFINE s == IF InRange(state) THEN state ELSE [state EXCEPT !.index = 0]
           l == [proc[p] EXCEPT !.read = state, !.next = Advanced(s), !.user = Due(s), !.pc = "insert"]
<1>1. s \in Rotation /\ s.order = state.order /\ InRange(s)
  <2>1. state \in Rotation /\ state.order # << >> /\ state.order \in Seq(Users)
    BY DEF Sound, Good, Rotation
  <2>2. CASE InRange(state)
    BY <2>1, <2>2
  <2>3. CASE ~InRange(state)
    <3>1. s = [order |-> state.order, index |-> 0]
      BY <2>1, <2>3 DEF Rotation
    <3>2. 0 < Len(state.order)
      BY <2>1
    <3> QED BY <2>1, <3>1, <3>2 DEF Rotation, InRange
  <2> QED BY <2>2, <2>3
<1>2. /\ proc[p].pc = "state" /\ proc[p].op = "schedule"
      /\ UNCHANGED <<world, members, state, rows>>
  BY DEF ReadScheduled, InPhase
<1>3. Become(p, l)
  <2>1. s.order # << >>
    BY <1>1 DEF Sound, Good
  <2> QED BY <2>1 DEF ReadScheduled
<1> HIDE DEF s
<1>4. /\ Due(s) \in Users /\ Advanced(s) \in Rotation
      /\ Advanced(s).index < Len(state.order)
  <2>1. IsInjective(s.order)
    BY <1>1 DEF Sound, Good
  <2> QED BY <1>1, <2>1, DueAndNext DEF InRange
<1>5. /\ l \in Local /\ l.pc = "insert" /\ l.op = proc[p].op
      /\ l.user = Due(s) /\ l.next = Advanced(s) /\ l.read = state
  BY <1>4, AProcess, ZenonT(30) DEF Local, Sound, Good
<1> HIDE DEF l
<1>6. Works(l, Len(rows), world.may)
  BY <1>2, <1>4, <1>5, AProcess DEF Works
<1> QED BY <1>2, <1>3, <1>6, OneThinks

\* The place counted from somebody's.
Turned(n, f, k) == IF f + k < n THEN f + k + 1 ELSE f + k - n + 1

LEMMA Circle ==
  ASSUME NEW n \in Nat, n > 0, NEW f \in 0..(n - 1)
  PROVE  /\ \A k \in 0..(n - 1) : ((f + k) % n) + 1 = Turned(n, f, k) /\ Turned(n, f, k) \in 1..n
         /\ \A k \in 0..(n - 1) : Turned(n, f, k) < f + 1 <=> ~(f + k < n)
         /\ \A i \in 1..n : \E k \in 0..(n - 1) : Turned(n, f, k) = i
<1>1. ASSUME NEW k \in 0..(n - 1)
      PROVE  ((f + k) % n) + 1 = Turned(n, f, k) /\ Turned(n, f, k) \in 1..n
  <2>1. (f + k) % n = (IF f + k < n THEN f + k ELSE f + k - n)
    BY Round
  <2> QED BY <2>1 DEF Turned
<1>2. ASSUME NEW k \in 0..(n - 1)
      PROVE  Turned(n, f, k) < f + 1 <=> ~(f + k < n)
  BY DEF Turned
<1>3. ASSUME NEW i \in 1..n
      PROVE  \E k \in 0..(n - 1) : Turned(n, f, k) = i
  <2>1. CASE f < i
    <3>1. i - 1 - f \in 0..(n - 1) /\ Turned(n, f, i - 1 - f) = i
      BY <2>1 DEF Turned
    <3> QED BY <3>1
  <2>2. CASE ~(f < i)
    <3>1. i - 1 - f + n \in 0..(n - 1) /\ Turned(n, f, i - 1 - f + n) = i
      BY <2>2 DEF Turned
    <3> QED BY <3>1
  <2> QED BY <2>1, <2>2
<1> QED BY <1>1, <1>2, <1>3

\* The first one that stays, counted from whoever was due.
LEMMA FirstStaying ==
  ASSUME NEW o, o \in Seq(Users), IsInjective(o), o # << >>,
         NEW f \in 0..(Len(o) - 1), NEW E, ToSet(o) \cap E # {}
  PROVE  LET n == Len(o)
             At(step) == o[((f + step) % n) + 1]
             staying == {step \in 0..(n - 1) : At(step) \in E}
             v == At(Min(staying))
         IN /\ staying # {}
            /\ v \in ToSet(o) \cap E
            /\ \A x \in ToSet(o) \cap E : ~Serves(o, o[f + 1], x, v)
<1> DEFINE n == Len(o)
           At(step) == o[((f + step) % n) + 1]
           staying == {step \in 0..(n - 1) : At(step) \in E}
           m == Min(staying)
<1>1. n \in Nat /\ n > 0 /\ f \in 0..(n - 1) /\ f + 1 \in 1..n
  OBVIOUS
<1>2. \A k \in 0..(n - 1) : /\ At(k) = o[Turned(n, f, k)] /\ Turned(n, f, k) \in 1..n
                            /\ Turned(n, f, k) < f + 1 <=> ~(f + k < n)
  BY <1>1, Circle
<1>3. \A x \in ToSet(o) : \E k \in 0..(n - 1) : At(k) = x
  <2> SUFFICES ASSUME NEW x \in ToSet(o) PROVE \E k \in 0..(n - 1) : At(k) = x
    OBVIOUS
  <2>1. PICK i \in 1..n : o[i] = x
    BY Placement
  <2>2. PICK k \in 0..(n - 1) : Turned(n, f, k) = i
    BY <1>1, Circle
  <2> QED BY <1>2, <2>1, <2>2
<1>4. \A i \in 1..n : o[i] \in ToSet(o)
  BY Placement
<1>5. \A i, j \in 1..n : Before(o, o[i], o[j]) <=> i < j
  BY ByPlace
<1>6. \A k \in 0..(n - 1) : k \in staying <=> At(k) \in E
  OBVIOUS
<1>7. staying \subseteq Nat
  OBVIOUS
<1> HIDE DEF At, staying, n
<1>8. staying # {}
  BY <1>3, <1>6
<1>9. m \in staying /\ \A k \in staying : m <= k
  BY <1>7, <1>8, LeastNat
<1>10. m \in 0..(n - 1) /\ At(m) \in E
  BY <1>6, <1>9 DEF staying
<1> HIDE DEF m
<1>11. At(m) \in ToSet(o)
  BY <1>2, <1>4, <1>10
<1>12. ASSUME NEW x \in ToSet(o) \cap E PROVE ~Serves(o, o[f + 1], x, At(m))
  <2>1. PICK k \in 0..(n - 1) : At(k) = x
    BY <1>3
  <2>2. m <= k
    BY <1>6, <1>9, <2>1
  <2> DEFINE i == Turned(n, f, k)
             j == Turned(n, f, m)
  <2>3. /\ i \in 1..n /\ j \in 1..n /\ x = o[i] /\ At(m) = o[j]
        /\ i < f + 1 <=> ~(f + k < n)
        /\ j < f + 1 <=> ~(f + m < n)
    BY <1>2, <1>10, <2>1
  <2>4. (i < f + 1 <=> j < f + 1) => ~(i < j)
    BY <1>1, <1>10, <2>2, <2>3 DEF Turned
  <2>5. ~(i < f + 1 <=> j < f + 1) => ~(j < f + 1)
    BY <1>1, <1>10, <2>2, <2>3
  <2> HIDE DEF i, j
  <2>6. /\ Before(o, x, o[f + 1]) <=> i < f + 1
        /\ Before(o, At(m), o[f + 1]) <=> j < f + 1
        /\ Before(o, x, At(m)) <=> i < j
    BY <1>1, <1>5, <2>3
  <2> QED BY <2>4, <2>5, <2>6 DEF Serves
<1> QED BY <1>8, <1>10, <1>11, <1>12 DEF At, staying, n, m

LEMMA Rebuilding ==
  ASSUME NEW s, Good(s), NEW E, E \subseteq Users, E # {}
  PROVE  LET t == Reconciled(s, E)
         IN /\ Good(t) /\ InRange(t) /\ ToSet(t.order) = E
            /\ \A a, b \in ToSet(s.order) \cap E : Before(t.order, a, b) <=> Before(s.order, a, b)
            /\ (InRange(s) /\ Len(s.order) # 1 /\ ToSet(s.order) \cap E # {}) =>
                 /\ Due(t) \in ToSet(s.order) \cap E
                 /\ \A x \in ToSet(s.order) \cap E : ~Serves(s.order, Due(s), x, Due(t))
<1> DEFINE o == s.order
           n == Len(o)
           next == NextOrder(o, E)
           from == IF s.index < n THEN s.index ELSE 0
           At(step) == o[((from + step) % n) + 1]
           staying == {step \in 0..(n - 1) : At(step) \in E}
           t == Reconciled(s, E)
<1>1. o \in Seq(Users) /\ IsInjective(o) /\ o # << >> /\ s.index \in Nat /\ Users # {}
  BY DEF Good, Rotation
<1>2. n \in Nat /\ n > 0 /\ from \in 0..(n - 1)
  BY <1>1
<1>3. /\ next \in Seq(Users) /\ IsInjective(next) /\ ToSet(next) = E /\ next # << >>
      /\ \A a, b \in ToSet(o) \cap E : Before(next, a, b) <=> Before(o, a, b)
  BY <1>1, Rebuilt
<1>4. /\ NextIndex(s, E) = IF next = << >> \/ staying = {} THEN 0
                           ELSE IF n = 1 THEN (IndexOf(next, o[1]) + 1) % Len(next)
                           ELSE IndexOf(next, At(Min(staying)))
      /\ t = [order |-> next, index |-> NextIndex(s, E)]
  BY DEF NextIndex, Reconciled
<1>5. /\ \A u : IndexOf(next, u) \in 0..(Len(next) - 1)
      /\ \A u \in ToSet(next) : next[IndexOf(next, u) + 1] = u
  BY <1>3, Found
<1>6. InRange(s) => from = s.index /\ Due(s) = o[from + 1]
  BY DEF InRange, Due
<1>7. ToSet(o) \cap E # {} => /\ staying # {}
                              /\ At(Min(staying)) \in ToSet(o) \cap E
                              /\ \A x \in ToSet(o) \cap E : ~Serves(o, o[from + 1], x, At(Min(staying)))
  <2> HIDE DEF from, o
  <2> QED BY <1>1, <1>2, FirstStaying
<1>8. Len(next) \in Nat /\ Len(next) > 0
  BY <1>3
<1> HIDE DEF next, from, At, staying, n, o, t
<1>9. NextIndex(s, E) \in 0..(Len(next) - 1)
  <2>1. CASE staying = {}
    BY <1>4, <1>8, <2>1
  <2>2. CASE staying # {} /\ n = 1
    <3>1. IndexOf(next, o[1]) \in 0..(Len(next) - 1)
      BY <1>5
    <3>2. (IndexOf(next, o[1]) + 1) % Len(next) \in 0..(Len(next) - 1)
      BY <1>8, <3>1, NextPlace
    <3> QED BY <1>3, <1>4, <2>2, <3>2
  <2>3. CASE staying # {} /\ n # 1
    BY <1>3, <1>4, <1>5, <2>3
  <2> QED BY <2>1, <2>2, <2>3
<1>10. t.order = next /\ t.index = NextIndex(s, E)
  BY <1>4
<1>11. Good(t) /\ InRange(t)
  BY <1>3, <1>4, <1>8, <1>9 DEF Good, Rotation, InRange
<1>12. ASSUME InRange(s), n # 1, ToSet(o) \cap E # {}
       PROVE  Due(t) = At(Min(staying))
  <2>1. t.index = IndexOf(next, At(Min(staying)))
    BY <1>3, <1>4, <1>7, <1>10, <1>12
  <2>2. Due(t) = next[IndexOf(next, At(Min(staying))) + 1]
    BY <1>10, <2>1 DEF Due
  <2> QED BY <1>3, <1>5, <1>7, <1>12, <2>2
<1>13. ASSUME InRange(s), n # 1, ToSet(o) \cap E # {}
       PROVE  /\ Due(t) \in ToSet(o) \cap E
              /\ \A x \in ToSet(o) \cap E : ~Serves(o, Due(s), x, Due(t))
  BY <1>6, <1>7, <1>12, <1>13
<1> QED BY <1>3, <1>10, <1>11, <1>13 DEF n, o, t

LEMMA SoundListFinished ==
  ASSUME Sound, NEW p \in Procs, ListFinished(p)
  PROVE  Sound'
<1>1. CASE FinishedIn(rows) = {}
  BY <1>1, SoundEnds DEF ListFinished
<1>2. CASE FinishedIn(rows) # {}
  <2> DEFINE i == Max(FinishedIn(rows))
             l == [proc[p] EXCEPT !.pc = "successor", !.row = i, !.user = rows[i].user]
  <2>1. Become(p, l)
    BY <1>2 DEF ListFinished
  <2>2. proc[p].pc = "list" /\ UNCHANGED <<world, members, state, rows>>
    BY DEF ListFinished, InPhase
  <2>3. i \in 1..Len(rows)
    <3>1. FinishedIn(rows) \in SUBSET (1..Len(rows)) /\ Len(rows) \in Nat
      BY DEF FinishedIn, Sound, RowsOK
    <3> HIDE DEF i
    <3> QED BY <1>2, <3>1, MaxWithin DEF i
  <2> HIDE DEF i
  <2>4. i \in Nat /\ rows[i].user \in Users
    BY <2>3, AProcess DEF Row
  <2>5. /\ l \in Local /\ l.pc = "successor" /\ l.op = proc[p].op /\ l.row = i
        /\ l.user = rows[i].user
    BY <2>4, AProcess DEF Local
  <2> HIDE DEF l
  <2>6. Works(l, Len(rows), world.may)
    BY <2>2, <2>3, <2>4, <2>5, AProcess DEF Works
  <2> QED BY <2>1, <2>2, <2>6, OneThinks
<1> QED BY <1>1, <1>2

LEMMA SoundReadSuccessor ==
  ASSUME Sound, NEW p \in Procs, ReadSuccessor(p)
  PROVE  Sound'
<1>1. proc[p].pc = "successor" /\ UNCHANGED <<world, members, state, rows>>
  BY DEF ReadSuccessor, InPhase
<1>2. CASE Goto(p, "restore")
  <2> DEFINE l == [proc[p] EXCEPT !.pc = "restore"]
  <2>1. Become(p, l)
    BY <1>2 DEF Goto
  <2>2. /\ l \in Local /\ l.pc = "restore" /\ l.op = proc[p].op /\ l.row = proc[p].row
        /\ l.user = proc[p].user
    BY AProcess DEF Local
  <2> HIDE DEF l
  <2>3. Works(l, Len(rows), world.may)
    BY <1>1, <2>2, AProcess DEF Works
  <2> QED BY <1>1, <2>1, <2>3, OneThinks
<1>3. CASE ~Goto(p, "restore")
  <2> DEFINE l(i) == [proc[p] EXCEPT !.pc = "delete", !.other = i, !.heir = rows[i].user]
  <2>1. PICK i \in PendingIn(rows) : Become(p, l(i))
    BY <1>3 DEF ReadSuccessor
  <2>2. i \in 1..Len(rows) /\ i \in Nat /\ rows[i].user \in Users
    BY AProcess DEF PendingIn, Row, Sound, RowsOK
  <2>3. /\ l(i) \in Local /\ l(i).pc = "delete" /\ l(i).op = proc[p].op /\ l(i).row = proc[p].row
        /\ l(i).user = proc[p].user /\ l(i).other = i
    BY <2>2, AProcess DEF Local
  <2> HIDE DEF l
  <2>4. Works(l(i), Len(rows), world.may)
    BY <1>1, <2>2, <2>3, AProcess DEF Works
  <2> QED BY <1>1, <2>1, <2>4, OneThinks
<1> QED BY <1>2, <1>3

LEMMA SoundReread ==
  ASSUME Sound, NEW p \in Procs, Reread(p)
  PROVE  Sound'
<1> DEFINE s == [state EXCEPT !.index = IndexOf(state.order, proc[p].heir)]
           l == [proc[p] EXCEPT !.pc = "index", !.next = s]
<1>1. /\ proc[p].pc = "reread" /\ UNCHANGED <<world, members, state, rows>>
      /\ Become(p, l)
  BY DEF Reread, InPhase
<1>2. Good(s) /\ InRange(s)
  <2>1. state \in Rotation /\ state.order \in Seq(Users) /\ state.order # << >> /\ IsInjective(state.order)
    BY DEF Sound, Good, Rotation
  <2>2. IndexOf(state.order, proc[p].heir) \in 0..(Len(state.order) - 1)
    BY <2>1, Found
  <2>3. s = [order |-> state.order, index |-> IndexOf(state.order, proc[p].heir)]
    BY <2>1 DEF Rotation
  <2> QED BY <2>1, <2>2, <2>3 DEF Good, Rotation, InRange
<1> HIDE DEF s
<1>3. l \in Local /\ l.pc = "index" /\ l.op = proc[p].op /\ l.row = proc[p].row /\ l.next = s
  BY <1>2, AProcess DEF Local, Good
<1> HIDE DEF l
<1>4. Works(l, Len(rows), world.may)
  BY <1>1, <1>2, <1>3, AProcess DEF Works
<1> QED BY <1>1, <1>4, OneThinks

LEMMA SoundListMembers ==
  ASSUME Sound, NEW p \in Procs, ListMembers(p)
  PROVE  Sound'
<1> DEFINE l == [proc[p] EXCEPT !.pc = "rotation", !.seen = members]
<1>1. /\ proc[p].pc = "members" /\ UNCHANGED <<world, members, state, rows>>
      /\ Become(p, l)
  BY DEF ListMembers, InPhase
<1>2. l \in Local /\ l.pc = "rotation" /\ l.op = proc[p].op /\ l.seen = members
  BY MembersAre, AProcess DEF Local
<1> HIDE DEF l
<1>3. Works(l, Len(rows), world.may)
  BY <1>1, <1>2, MembersAre, AProcess DEF Works
<1> QED BY <1>1, <1>3, OneThinks

LEMMA SoundReadRotation ==
  ASSUME Sound, NEW p \in Procs, ReadRotation(p)
  PROVE  Sound'
<1> DEFINE next == Reconciled(state, proc[p].seen)
           l == [proc[p] EXCEPT !.pc = "sync", !.read = state, !.next = next]
<1>1. proc[p].pc = "rotation" /\ UNCHANGED <<world, members, state, rows>>
  BY DEF ReadRotation, InPhase
<1>2. CASE next = state
  <2>1. Finish(p)
    BY <1>2 DEF ReadRotation
  <2> QED BY <1>1, <2>1, SoundEnds
<1>3. CASE next # state
  <2>1. Become(p, l)
    BY <1>3 DEF ReadRotation
  <2>2. proc[p].seen \subseteq Users /\ proc[p].seen # {}
    BY <1>1, AProcess DEF Local, Works
  <2>3. Good(next) /\ InRange(next)
    BY <2>2, Rebuilding DEF Sound
  <2> HIDE DEF next
  <2>4. l \in Local /\ l.pc = "sync" /\ l.op = proc[p].op /\ l.seen = proc[p].seen /\ l.next = next
    BY <2>3, AProcess, ZenonT(30) DEF Local, Good, Sound
  <2> HIDE DEF l
  <2>5. Works(l, Len(rows), world.may)
    BY <1>1, <2>2, <2>3, <2>4, AProcess DEF Works
  <2> QED BY <1>1, <2>1, <2>5, OneThinks
<1> QED BY <1>2, <1>3

LEMMA SoundJoin ==
  ASSUME Sound, NEW p \in Procs, NEW u \in Users, Join(p, u)
  PROVE  Sound'
<1> DEFINE l == [Idle EXCEPT !.op = "sync", !.pc = "members"]
<1>1. l \in Local /\ l.pc = "members" /\ l.op = "sync"
  BY IdleWorks DEF Works, Idle, Local
<1>2. Become(p, l) /\ UNCHANGED <<world, state, rows>> /\ members' = members \cup {u} /\ u \in world.users
  BY DEF Join
<1> HIDE DEF l
<1>3. Works(l, Len(rows), world.may)
  BY <1>1 DEF Works
<1>4. members' \in (SUBSET world.users) \ {{}} /\ Good(state') /\ RowsOK(rows')
  BY <1>2 DEF Sound
<1> QED BY <1>2, <1>3, <1>4, AProcess, OneMoves

\* Whoever leaves is taken out of every turn's witnesses.
LEMMA Leaving ==
  ASSUME Sound, NEW u, rows' = [i \in DOMAIN rows |-> [rows[i] EXCEPT !.since = @ \ {u}]]
  PROVE  /\ rows' \in Seq(Row) /\ Len(rows') = Len(rows)
         /\ \A i \in 1..Len(rows) : /\ rows'[i].user = rows[i].user
                                    /\ rows'[i].status = rows[i].status
                                    /\ rows'[i].since = rows[i].since \ {u}
<1>1. rows \in Seq(Row) /\ DOMAIN rows = 1..Len(rows) /\ Len(rows) \in Nat
  BY DEF Sound, RowsOK
<1>2. ASSUME NEW i \in 1..Len(rows)
      PROVE  LET r == [rows[i] EXCEPT !.since = @ \ {u}]
             IN r \in Row /\ r.user = rows[i].user /\ r.status = rows[i].status
                /\ r.since = rows[i].since \ {u}
  <2>1. rows[i] \in Row
    BY <1>1
  <2> QED BY <2>1 DEF Row
<1>3. \A i \in 1..Len(rows) : rows'[i] = [rows[i] EXCEPT !.since = @ \ {u}]
  BY <1>1
<1>4. rows' \in Seq(Row) /\ Len(rows') = Len(rows)
  <2>1. rows' \in [1..Len(rows) -> Row]
    BY <1>1, <1>2
  <2> QED BY <1>1, <2>1
<1> QED BY <1>2, <1>3, <1>4

LEMMA SoundLeave ==
  ASSUME Sound, NEW p \in Procs, NEW u \in Users, Leave(p, u)
  PROVE  Sound'
<1> DEFINE l == [Idle EXCEPT !.op = "sync", !.pc = "members"]
<1>1. l \in Local /\ l.pc = "members" /\ l.op = "sync"
  BY IdleWorks DEF Works, Idle, Local
<1>2. Become(p, l) /\ UNCHANGED <<world, state>> /\ members' = members \ {u} /\ members # {u} /\ u \in members
  BY DEF Leave
<1> HIDE DEF l
<1>3. rows' \in Seq(Row) /\ Len(rows') = Len(rows)
  BY Leaving DEF Leave
<1>4. Works(l, Len(rows'), world.may)
  BY <1>1 DEF Works
<1>5. members' \in (SUBSET world.users) \ {{}} /\ Good(state') /\ RowsOK(rows')
  BY <1>2, <1>3 DEF Sound, RowsOK
<1> QED BY <1>2, <1>3, <1>4, <1>5, AProcess, OneMoves

LEMMA SoundCommit ==
  ASSUME Sound, NEW p \in Procs, Commit(p)
  PROVE  Sound'
<1>1. PICK status \in Finished :
        LET done == [rows EXCEPT ![proc[p].row].status = status]
        IN IF proc[p].row \in PendingIn(rows) /\ Unique(InsertPending(done, proc[p].user))
           THEN rows' = InsertPending(done, proc[p].user) /\ state' = proc[p].next
           ELSE UNCHANGED <<rows, state>>
  BY DEF Commit
<1>2. proc[p].pc = "commit" /\ Become(p, Idle) /\ UNCHANGED <<world, members>>
  BY DEF Commit, InPhase, Finish
<1>3. /\ proc[p].row \in 1..Len(rows) /\ proc[p].user \in Users
      /\ Good(proc[p].next)
  BY <1>2, AProcess DEF Works
<1> DEFINE new == InsertPending([rows EXCEPT ![proc[p].row].status = status], proc[p].user)
<1>4. new \in Seq(Row) /\ Len(rows) \in Nat /\ Len(new) = Len(rows) + 1
  <2>1. Passed(new, proc[p].row, status, proc[p].user)
    BY <1>3, Finishing
  <2> QED BY <2>1 DEF Passed
<1>5. \/ rows' = new /\ Unique(new) /\ state' = proc[p].next
      \/ UNCHANGED <<rows, state>>
  BY <1>1
<1> HIDE DEF new
<1>6. RowsOK(rows') /\ Len(rows) <= Len(rows') /\ Good(state')
  BY <1>3, <1>4, <1>5 DEF Sound, RowsOK, Unique
<1>7. Works(Idle, Len(rows'), world.may)
  BY IdleWorks
<1>8. members' \in (SUBSET world.users) \ {{}}
  BY <1>2 DEF Sound
<1> QED BY <1>2, <1>6, <1>7, <1>8, OneMoves

LEMMA SoundReschedule ==
  ASSUME Sound, NEW p \in Procs, Reschedule(p)
  PROVE  Sound'
<1>1. /\ proc[p].pc = "update" /\ Become(p, Idle) /\ UNCHANGED <<world, members, state>>
      /\ WriteRow(proc[p].row, proc[p].user)
  BY DEF Reschedule, InPhase, Finish
<1>2. proc[p].row \in 1..Len(rows) /\ proc[p].user \in Users
  BY <1>1, AProcess DEF Works
<1>3. rows' \in Seq(Row) /\ Len(rows') = Len(rows)
  BY <1>1, <1>2, Writing
<1>4. RowsOK(rows') /\ Good(state') /\ members' \in (SUBSET world.users) \ {{}}
  BY <1>1, <1>3 DEF Sound, RowsOK
<1> QED BY <1>1, <1>3, <1>4, AProcess, IdleWorks, OneMoves

LEMMA SoundAdvance ==
  ASSUME Sound, NEW p \in Procs, Advance(p)
  PROVE  Sound'
<1> DEFINE l == [proc[p] EXCEPT !.pc = "assign"]
<1>1. /\ proc[p].pc = "advance" /\ UNCHANGED <<world, members, rows>>
      /\ Become(p, l) /\ state' = proc[p].next
  BY DEF Advance, InPhase, Goto
<1>2. l \in Local /\ l.pc = "assign" /\ l.op = proc[p].op /\ l.user = proc[p].user
  BY AProcess DEF Local
<1> HIDE DEF l
<1>3. Works(l, Len(rows'), world.may)
  BY <1>1, <1>2, AProcess DEF Works
<1>4. Good(state') /\ RowsOK(rows') /\ members' \in (SUBSET world.users) \ {{}}
  BY <1>1, AProcess DEF Works, Sound
<1> QED BY <1>1, <1>3, <1>4, AProcess, OneMoves

LEMMA SoundAssign ==
  ASSUME Sound, NEW p \in Procs, Assign(p)
  PROVE  Sound'
<1> DEFINE new == InsertPending(rows, proc[p].user)
<1>1. /\ proc[p].pc = "assign" /\ Become(p, Idle) /\ UNCHANGED <<world, members, state>>
      /\ (rows' = new /\ Unique(new)) \/ rows' = rows
  BY DEF Assign, InPhase, Finish
<1>2. new \in Seq(Row) /\ Len(new) = Len(rows) + 1
  <2>1. Inserted(new, rows, proc[p].user)
    BY <1>1, AProcess, Inserting DEF Works, Sound, RowsOK
  <2> QED BY <2>1 DEF Inserted
<1> HIDE DEF new
<1>3. RowsOK(rows') /\ Len(rows) <= Len(rows') /\ Good(state') /\ members' \in (SUBSET world.users) \ {{}}
  BY <1>1, <1>2, AProcess DEF Sound, RowsOK, Unique
<1> QED BY <1>1, <1>3, IdleWorks, OneMoves

LEMMA SoundInsert ==
  ASSUME Sound, NEW p \in Procs, Insert(p)
  PROVE  Sound'
<1> DEFINE new == InsertPending(rows, proc[p].user)
           s == [state EXCEPT !.index = proc[p].next.index]
<1>1. /\ proc[p].pc = "insert" /\ Become(p, Idle) /\ UNCHANGED <<world, members>>
      /\ (rows' = new /\ Unique(new) /\ state' = s) \/ (rows' = rows /\ state' = state)
  BY DEF Insert, InPhase, Finish
<1>2. new \in Seq(Row) /\ Len(new) = Len(rows) + 1
  <2>1. Inserted(new, rows, proc[p].user)
    BY <1>1, AProcess, Inserting DEF Works, Sound, RowsOK
  <2> QED BY <2>1 DEF Inserted
<1>3. Good(s)
  <2>1. proc[p].next.index \in Nat
    BY AProcess DEF Local, Rotation
  <2>2. state \in Rotation /\ s = [order |-> state.order, index |-> proc[p].next.index]
    BY DEF Sound, Good, Rotation
  <2> QED BY <2>1, <2>2 DEF Sound, Good, Rotation
<1> HIDE DEF new, s
<1>4. RowsOK(rows') /\ Len(rows) <= Len(rows') /\ Good(state') /\ members' \in (SUBSET world.users) \ {{}}
  BY <1>1, <1>2, <1>3, AProcess DEF Sound, RowsOK, Unique
<1> QED BY <1>1, <1>4, IdleWorks, OneMoves

LEMMA SoundDeleteSuccessor ==
  ASSUME Sound, NEW p \in Procs, DeleteSuccessor(p)
  PROVE  Sound'
<1> DEFINE i == proc[p].other
<1>1. proc[p].pc = "delete" /\ UNCHANGED <<world, members, state>>
  BY DEF DeleteSuccessor, InPhase
<1>2. CASE rows[i].status = "deleted"
  BY <1>2, SoundEnds DEF DeleteSuccessor
<1>3. CASE rows[i].status # "deleted"
  <2> DEFINE l == [proc[p] EXCEPT !.pc = "restore"]
             r == [rows[i] EXCEPT !.status = "deleted"]
  <2>1. Become(p, l) /\ rows' = [rows EXCEPT ![i] = r]
    BY <1>3 DEF DeleteSuccessor, Goto
  <2>2. i \in 1..Len(rows)
    BY <1>1, AProcess DEF Works
  <2>3. r \in Row
    BY <2>2, AProcess DEF Row, Statuses
  <2>4. rows' \in Seq(Row) /\ Len(rows') = Len(rows)
    BY <2>1, <2>2, <2>3, Rewriting DEF Sound, RowsOK
  <2>5. /\ l \in Local /\ l.pc = "restore" /\ l.op = proc[p].op /\ l.row = proc[p].row
        /\ l.user = proc[p].user
    BY AProcess DEF Local
  <2> HIDE DEF l
  <2>6. Works(l, Len(rows'), world.may)
    BY <1>1, <2>4, <2>5, AProcess DEF Works
  <2>7. RowsOK(rows') /\ Good(state') /\ members' \in (SUBSET world.users) \ {{}}
    BY <1>1, <2>4 DEF Sound, RowsOK
  <2>8. Len(rows) <= Len(rows') /\ Become(p, l)
    BY <2>1, <2>4, AProcess
  <2> QED BY <1>1, <2>6, <2>7, <2>8, OneMoves
<1> QED BY <1>2, <1>3

LEMMA SoundRestore ==
  ASSUME Sound, NEW p \in Procs, Restore(p)
  PROVE  Sound'
<1>1. /\ proc[p].pc = "restore" /\ UNCHANGED <<world, members, state>>
      /\ WriteRow(proc[p].row, proc[p].user)
      /\ Goto(p, "reread") \/ Finish(p)
  BY DEF Restore, InPhase
<1>2. proc[p].row \in 1..Len(rows) /\ proc[p].user \in Users
  BY <1>1, AProcess DEF Works
<1>3. rows' \in Seq(Row) /\ Len(rows') = Len(rows)
  BY <1>1, <1>2, Writing
<1>4. RowsOK(rows') /\ Good(state') /\ members' \in (SUBSET world.users) \ {{}}
  BY <1>1, <1>3 DEF Sound, RowsOK
<1>5. CASE Finish(p)
  BY <1>1, <1>3, <1>4, <1>5, AProcess, IdleWorks, OneMoves DEF Finish
<1>6. CASE Goto(p, "reread")
  <2> DEFINE l == [proc[p] EXCEPT !.pc = "reread"]
  <2>1. Become(p, l)
    BY <1>6 DEF Goto
  <2>2. l \in Local /\ l.pc = "reread" /\ l.op = proc[p].op /\ l.row = proc[p].row
    BY AProcess DEF Local
  <2> HIDE DEF l
  <2>3. Works(l, Len(rows'), world.may)
    BY <1>1, <1>3, <2>2, AProcess DEF Works
  <2> QED BY <1>1, <1>3, <1>4, <2>1, <2>3, AProcess, OneMoves
<1> QED BY <1>1, <1>5, <1>6

\* RestoreIndex and SyncMemberOrder write what was prepared.
LEMMA SoundWrite ==
  ASSUME Sound, NEW p \in Procs, proc[p].pc \in {"index", "sync"}, state' = proc[p].next,
         Finish(p), UNCHANGED <<world, members, rows>>
  PROVE  Sound'
<1>1. Good(state') /\ RowsOK(rows') /\ members' \in (SUBSET world.users) \ {{}}
  BY AProcess DEF Works, Sound
<1> QED BY <1>1, AProcess, IdleWorks, OneMoves DEF Finish

LEMMA SoundNext ==
  ASSUME Sound, [RotationNext]_rotationVars
  PROVE  Sound'
<1>1. CASE UNCHANGED rotationVars
  <2>1. UNCHANGED <<world, members, state, rows, proc>>
    BY <1>1 DEF rotationVars
  <2>2. /\ world' \in Worlds /\ members' \in (SUBSET world'.users) \ {{}} /\ Good(state)'
        /\ RowsOK(rows)' /\ proc' \in [Procs -> Local]
    BY <2>1 DEF Sound, Good, RowsOK
  <2>3. \A p \in Procs : Works(proc[p], Len(rows), world.may)'
    BY <2>1 DEF Sound, Works
  <2> QED BY <2>2, <2>3 DEF Sound
<1>2. CASE RotationNext
  <2>1. PICK p \in Procs :
           \/ \E op \in Operations : Start(p, op)
           \/ \E u \in Users : Join(p, u) \/ Leave(p, u)
           \/ ReadPending(p) \/ Reassign(p) \/ ReadNoPending(p) \/ ReadState(p)
           \/ ReadScheduled(p)
           \/ Commit(p) \/ Reschedule(p) \/ Advance(p) \/ Assign(p) \/ Insert(p)
           \/ ListFinished(p) \/ ReadSuccessor(p) \/ DeleteSuccessor(p) \/ Restore(p)
           \/ Reread(p) \/ RestoreIndex(p)
           \/ ListMembers(p) \/ ReadRotation(p) \/ SyncMemberOrder(p) \/ Abort(p)
    BY <1>2 DEF RotationNext
  <2>2. ASSUME RestoreIndex(p) \/ SyncMemberOrder(p) PROVE Sound'
    BY <2>2, SoundWrite DEF RestoreIndex, SyncMemberOrder, InPhase
  <2>3. ASSUME Abort(p) PROVE Sound'
    BY <2>3, SoundEnds DEF Abort
  <2> QED BY <2>1, <2>2, <2>3, SoundStart, SoundJoin, SoundLeave, SoundReadPending, SoundReassign,
             SoundReadNoPending, SoundReadState, SoundReadScheduled, SoundCommit, SoundReschedule,
             SoundAdvance, SoundAssign, SoundInsert, SoundListFinished, SoundReadSuccessor,
             SoundDeleteSuccessor, SoundRestore, SoundReread, SoundListMembers, SoundReadRotation
<1> QED BY <1>1, <1>2

-----------------------------------------------------------------------------
(* The index *)

\* The steps of one process.
Step(p) ==
    \/ \E op \in Operations : Start(p, op)
    \/ \E u \in Users : Join(p, u) \/ Leave(p, u)
    \/ ReadPending(p) \/ Reassign(p) \/ ReadNoPending(p) \/ ReadState(p) \/ ReadScheduled(p)
    \/ Commit(p) \/ Reschedule(p) \/ Advance(p) \/ Assign(p) \/ Insert(p)
    \/ ListFinished(p) \/ ReadSuccessor(p) \/ DeleteSuccessor(p) \/ Restore(p)
    \/ Reread(p) \/ RestoreIndex(p)
    \/ ListMembers(p) \/ ReadRotation(p) \/ SyncMemberOrder(p) \/ Abort(p)

LEMMA SomeStep ==
  ASSUME RotationNext
  PROVE  \E p \in Procs : Step(p)
BY DEF RotationNext, Step

\* Who writes the rotation: the index that follows is in the order, but for the
\* daily job's.
LEMMA WhoWritesTheRotation ==
  ASSUME Sound, NEW p \in Procs, Step(p)
  PROVE  \/ state' = state
         \/ proc[p].pc \in {"commit", "advance", "index", "sync"} /\ state' = proc[p].next
         \/ Insert(p)
<1>1. ASSUME NEW op \in Operations, Start(p, op) PROVE state' = state
  BY <1>1 DEF Start
<1>2. ASSUME NEW u \in Users, Join(p, u) \/ Leave(p, u) PROVE state' = state
  BY <1>2 DEF Join, Leave
<1>3. ASSUME ReadPending(p) \/ Reassign(p) \/ ReadNoPending(p) \/ ReadState(p) \/ ReadScheduled(p)
      PROVE  state' = state
  BY <1>3 DEF ReadPending, Reassign, ReadNoPending, ReadState, ReadScheduled
<1>4. ASSUME Reschedule(p) \/ Assign(p) \/ ListFinished(p) \/ ReadSuccessor(p) \/ DeleteSuccessor(p)
      PROVE  state' = state
  BY <1>4 DEF Reschedule, Assign, ListFinished, ReadSuccessor, DeleteSuccessor
<1>5. ASSUME Restore(p) \/ Reread(p) \/ ListMembers(p) \/ ReadRotation(p) \/ Abort(p)
      PROVE  state' = state
  BY <1>5 DEF Restore, Reread, ListMembers, ReadRotation, Abort
<1>6. ASSUME Commit(p) PROVE state' = state \/ (proc[p].pc = "commit" /\ state' = proc[p].next)
  BY <1>6 DEF Commit, InPhase
<1>7. ASSUME Advance(p) PROVE proc[p].pc = "advance" /\ state' = proc[p].next
  BY <1>7 DEF Advance, InPhase
<1>8. ASSUME RestoreIndex(p) PROVE proc[p].pc = "index" /\ state' = proc[p].next
  BY <1>8 DEF RestoreIndex, InPhase
<1>9. ASSUME SyncMemberOrder(p) PROVE proc[p].pc = "sync" /\ state' = proc[p].next
  BY <1>9 DEF SyncMemberOrder, InPhase
<1> QED BY <1>1, <1>2, <1>3, <1>4, <1>5, <1>6, <1>7, <1>8, <1>9 DEF Step

\* The step that breaks the index.
BrokenBySchedule ==
    (InRange(state) /\ ~InRange(state)') =>
      \E p \in Procs : /\ InPhase(p, "insert") /\ proc'[p] = Idle
                       /\ Len(proc[p].read.order) > Len(state.order)

LEMMA IndexStep ==
  ASSUME Sound, [RotationNext]_rotationVars
  PROVE  BrokenBySchedule
<1> SUFFICES ASSUME InRange(state), ~InRange(state')
             PROVE  \E p \in Procs : /\ InPhase(p, "insert") /\ proc'[p] = Idle
                                     /\ Len(proc[p].read.order) > Len(state.order)
  BY DEF BrokenBySchedule, InRange
<1>1. state' # state
  OBVIOUS
<1>2. PICK p \in Procs : Step(p)
  BY <1>1, SomeStep DEF rotationVars
<1>3. Works(proc[p], Len(rows), world.may) /\ proc[p] \in Local
  BY AProcess
<1>4. Insert(p)
  BY <1>1, <1>2, <1>3, WhoWritesTheRotation DEF Works
<1>5. /\ proc[p].pc = "insert" /\ Become(p, Idle)
      /\ state' = [state EXCEPT !.index = proc[p].next.index]
  BY <1>1, <1>4 DEF Insert, InPhase, Finish
<1>6. state'.order = state.order /\ state'.index = proc[p].next.index
  BY <1>5 DEF Sound, Good, Rotation
<1>7. proc[p].next.index < Len(proc[p].read.order)
  BY <1>3, <1>5 DEF Works
<1>8. ~(proc[p].next.index < Len(state.order))
  BY <1>6 DEF InRange
<1>9. /\ proc[p].next.index \in Nat /\ Len(proc[p].read.order) \in Nat
      /\ Len(state.order) \in Nat
  BY <1>3 DEF Local, Rotation, Sound, Good
<1>10. Len(proc[p].read.order) > Len(state.order)
  BY <1>7, <1>8, <1>9
<1>11. proc'[p] = Idle
  BY <1>5 DEF Become, Sound
<1> QED BY <1>5, <1>10, <1>11 DEF InPhase

LEMMA AlwaysSound == RotationSpec => []Sound
<1>1. RotationInit => Sound
  BY SoundInit
<1>2. Sound /\ [RotationNext]_rotationVars => Sound'
  BY SoundNext
<1> QED BY <1>1, <1>2, PTL DEF RotationSpec

\* Completing a turn panics only if the daily job set an index read from an
\* order that has been shortened since (ScheduleChore).
THEOREM IndexInOrder == RotationSpec => OnlyStaleScheduleBreaksIndex
<1>1. Sound /\ [RotationNext]_rotationVars => [BrokenBySchedule]_rotationVars
  BY IndexStep
<1>2. RotationSpec => [][BrokenBySchedule]_rotationVars
  BY <1>1, AlwaysSound, PTL DEF RotationSpec
<1> QED BY <1>2 DEF OnlyStaleScheduleBreaksIndex, BrokenBySchedule

-----------------------------------------------------------------------------
(* The turns *)

LEMMA AtMostOne ==
  ASSUME NEW n \in Nat, NEW S \in SUBSET (1..n), Cardinality(S) <= 1
  PROVE  \A i, j \in S : i = j
<1> SUFFICES ASSUME NEW i \in S, NEW j \in S, i # j PROVE FALSE
  OBVIOUS
<1>1. IsFiniteSet(1..n)
  BY FS_Interval
<1>2. IsFiniteSet(S)
  BY <1>1, FS_Subset
<1>3. {i, j} \subseteq S
  OBVIOUS
<1>4. Cardinality({i, j}) = 2
  <2>1. IsFiniteSet({i}) /\ Cardinality({i}) = 1
    BY FS_Singleton
  <2>2. Cardinality({i} \cup {j}) = Cardinality({i}) + 1
    BY <2>1, FS_AddElement
  <2>3. {i, j} = {i} \cup {j}
    OBVIOUS
  <2> QED BY <2>1, <2>2, <2>3
<1>5. Cardinality({i, j}) <= Cardinality(S) /\ Cardinality(S) \in Nat
  BY <1>2, <1>3, FS_Subset, FS_CardinalityType
<1> QED BY <1>4, <1>5

\* The unique index admits one pending turn.
LEMMA OnePending ==
  ASSUME NEW rs \in Seq(Row), Unique(rs)
  PROVE  \A i, j \in 1..Len(rs) : rs[i].status = "pending" /\ rs[j].status = "pending" => i = j
<1>1. PendingIn(rs) \in SUBSET (1..Len(rs)) /\ Len(rs) \in Nat
  BY DEF PendingIn
<1>2. Cardinality(PendingIn(rs)) <= 1
  BY DEF Unique
<1>3. \A i, j \in PendingIn(rs) : i = j
  <2> HIDE DEF PendingIn
  <2> QED BY <1>1, <1>2, AtMostOne
<1> QED BY <1>3 DEF PendingIn

\* What a step does to the turns: nothing that is seen, ...
TurnsStay == /\ rows' \in Seq(Row) /\ Len(rows') = Len(rows)
             /\ \A k \in 1..Len(rows) : /\ rows'[k].user = rows[k].user
                                        /\ rows'[k].status = rows[k].status

\* ... finish one and insert the next, ...
TurnPasses(p) ==
    LET n == Len(rows)
        i == proc[p].row
    IN /\ proc[p].pc = "commit" /\ i \in 1..n /\ rows[i].status = "pending"
       /\ rows' \in Seq(Row) /\ Len(rows') = n + 1 /\ Unique(rows')
       /\ \A k \in 1..n : /\ rows'[k].user = rows[k].user /\ rows'[k].since = rows[k].since
                          /\ k # i => rows'[k].status = rows[k].status
       /\ rows'[i].status \in Finished
       /\ rows'[n + 1].user = proc[p].user /\ rows'[n + 1].status = "pending"
       /\ rows'[n + 1].since = Present

\* ... insert one, ...
TurnBegins(p) ==
    LET n == Len(rows)
    IN /\ proc[p].pc \in {"assign", "insert"}
       /\ rows' \in Seq(Row) /\ Len(rows') = n + 1 /\ Unique(rows')
       /\ \A k \in 1..n : rows'[k] = rows[k]
       /\ rows'[n + 1].user = proc[p].user /\ rows'[n + 1].status = "pending"

\* ... write one as it was read, pending, ...
TurnWritten(p) ==
    LET i == proc[p].row
    IN /\ proc[p].pc \in {"update", "restore"} /\ i \in 1..Len(rows)
       /\ rows' \in Seq(Row) /\ Len(rows') = Len(rows) /\ Unique(rows')
       /\ rows[i].status # "deleted"
       /\ rows'[i].user = proc[p].user /\ rows'[i].status = "pending"
       /\ rows'[i].since = rows[i].since
       /\ \A k \in 1..Len(rows) : k # i => rows'[k] = rows[k]

\* ... or delete one.
TurnDeleted(p) ==
    LET i == proc[p].other
    IN /\ proc[p].pc = "delete" /\ i \in 1..Len(rows)
       /\ rows' \in Seq(Row) /\ Len(rows') = Len(rows)
       /\ rows'[i].user = rows[i].user /\ rows'[i].status = "deleted"
       /\ \A k \in 1..Len(rows) : k # i => rows'[k] = rows[k]

LEMMA CommitTurns ==
  ASSUME Sound, NEW p \in Procs, Commit(p)
  PROVE  \/ rows' = rows /\ state' = state
         \/ TurnPasses(p) /\ state' = proc[p].next
<1> DEFINE i == proc[p].row
           u == proc[p].user
           n == Len(rows)
<1>1. PICK status \in Finished :
        LET done == [rows EXCEPT ![i].status = status]
        IN IF i \in PendingIn(rows) /\ Unique(InsertPending(done, u))
           THEN rows' = InsertPending(done, u) /\ state' = proc[p].next
           ELSE UNCHANGED <<rows, state>>
  BY DEF Commit
<1>2. proc[p].pc = "commit"
  BY DEF Commit, InPhase
<1>3. i \in 1..Len(rows) /\ u \in Users
  BY <1>2, AProcess DEF Works
<1> DEFINE new == InsertPending([rows EXCEPT ![i].status = status], u)
<1>4. /\ new \in Seq(Row) /\ n \in Nat /\ Len(new) = n + 1
      /\ \A k \in 1..n : /\ new[k].user = rows[k].user /\ new[k].since = rows[k].since
                         /\ new[k].status = (IF k = i THEN status ELSE rows[k].status)
      /\ new[n + 1].user = u /\ new[n + 1].status = "pending" /\ new[n + 1].since = Present
  <2>1. Passed(new, i, status, u)
    BY <1>3, Finishing
  <2> QED BY <2>1 DEF Passed
<1>5. ASSUME rows' = new, Unique(new), i \in PendingIn(rows)
      PROVE  TurnPasses(p)
  <2> HIDE DEF new
  <2>1. rows[i].status = "pending"
    BY <1>5 DEF PendingIn
  <2>2. new[i].status \in Finished
    BY <1>3, <1>4
  <2>3. \A k \in 1..n : /\ new[k].user = rows[k].user /\ new[k].since = rows[k].since
                        /\ k # i => new[k].status = rows[k].status
    BY <1>4
  <2> QED BY <1>2, <1>3, <1>4, <1>5, <2>1, <2>2, <2>3 DEF TurnPasses
<1>7. CASE i \in PendingIn(rows) /\ Unique(new)
  <2>1. rows' = new /\ state' = proc[p].next
    BY <1>1, <1>7
  <2> HIDE DEF new
  <2>2. TurnPasses(p)
    BY <1>5, <1>7, <2>1
  <2> QED BY <2>1, <2>2
<1>8. CASE ~(i \in PendingIn(rows) /\ Unique(new))
  BY <1>1, <1>8
<1> QED BY <1>7, <1>8

LEMMA InsertTurns ==
  ASSUME Sound, NEW p \in Procs, Assign(p) \/ Insert(p)
  PROVE  rows' = rows \/ TurnBegins(p)
<1> DEFINE new == InsertPending(rows, proc[p].user)
<1>1. /\ proc[p].pc \in {"assign", "insert"}
      /\ (rows' = new /\ Unique(new)) \/ rows' = rows
  <2>1. CASE Assign(p)
    BY <2>1 DEF Assign, InPhase
  <2>2. CASE Insert(p)
    BY <2>2 DEF Insert, InPhase
  <2> QED BY <2>1, <2>2
<1>2. proc[p].user \in Users /\ rows \in Seq(Row)
  BY <1>1, AProcess DEF Works, Sound, RowsOK
<1>3. /\ new \in Seq(Row) /\ Len(new) = Len(rows) + 1
      /\ \A i \in 1..Len(rows) : new[i] = rows[i]
      /\ new[Len(rows) + 1].user = proc[p].user /\ new[Len(rows) + 1].status = "pending"
  <2>1. Inserted(new, rows, proc[p].user)
    BY <1>2, Inserting
  <2> QED BY <2>1 DEF Inserted
<1> HIDE DEF new
<1> QED BY <1>1, <1>3 DEF TurnBegins

LEMMA WriteTurns ==
  ASSUME Sound, NEW p \in Procs, Reschedule(p) \/ Restore(p)
  PROVE  rows' = rows \/ TurnWritten(p)
<1>1. proc[p].pc \in {"update", "restore"} /\ WriteRow(proc[p].row, proc[p].user)
  BY DEF Reschedule, Restore, InPhase
<1>2. proc[p].row \in 1..Len(rows) /\ proc[p].user \in Users
  BY <1>1, AProcess DEF Works
<1> QED BY <1>1, <1>2, Writing DEF TurnWritten

LEMMA DeleteTurns ==
  ASSUME Sound, NEW p \in Procs, DeleteSuccessor(p)
  PROVE  rows' = rows \/ TurnDeleted(p)
<1> DEFINE i == proc[p].other
           r == [rows[i] EXCEPT !.status = "deleted"]
<1>1. proc[p].pc = "delete"
  BY DEF DeleteSuccessor, InPhase
<1>2. i \in 1..Len(rows)
  BY <1>1, AProcess DEF Works
<1>3. rows' = rows \/ rows' = [rows EXCEPT ![i] = r]
  BY DEF DeleteSuccessor
<1>4. r \in Row /\ r.user = rows[i].user /\ r.status = "deleted"
  BY <1>2, AProcess DEF Row, Statuses
<1> HIDE DEF r
<1>5. LET new == [rows EXCEPT ![i] = r]
      IN /\ new \in Seq(Row) /\ Len(new) = Len(rows)
         /\ \A k \in 1..Len(rows) : new[k] = IF k = i THEN r ELSE rows[k]
  BY <1>2, <1>4, Rewriting DEF Sound, RowsOK
<1> QED BY <1>1, <1>2, <1>3, <1>4, <1>5 DEF TurnDeleted

LEMMA WhoWritesTheTurns ==
  ASSUME Sound, NEW p \in Procs, Step(p)
  PROVE  TurnsStay \/ TurnPasses(p) \/ TurnBegins(p) \/ TurnWritten(p) \/ TurnDeleted(p)
<1>0. ASSUME rows' = rows PROVE TurnsStay
  BY <1>0 DEF TurnsStay, Sound, RowsOK
<1>1. ASSUME NEW op \in Operations, Start(p, op) PROVE TurnsStay
  BY <1>0, <1>1 DEF Start
<1>2. ASSUME NEW u \in Users, Join(p, u) PROVE TurnsStay
  BY <1>0, <1>2 DEF Join
<1>3. ASSUME NEW u \in Users, Leave(p, u) PROVE TurnsStay
  <2>1. rows' = [i \in DOMAIN rows |-> [rows[i] EXCEPT !.since = @ \ {u}]]
    BY <1>3 DEF Leave
  <2> QED BY <2>1, Leaving DEF TurnsStay
<1>4. ASSUME ReadPending(p) \/ Reassign(p) \/ ReadNoPending(p) \/ ReadState(p) \/ ReadScheduled(p)
      PROVE  TurnsStay
  BY <1>0, <1>4 DEF ReadPending, Reassign, ReadNoPending, ReadState, ReadScheduled
<1>5. ASSUME ListFinished(p) \/ ReadSuccessor(p) \/ Reread(p) \/ RestoreIndex(p) \/ Advance(p)
      PROVE  TurnsStay
  BY <1>0, <1>5 DEF ListFinished, ReadSuccessor, Reread, RestoreIndex, Advance
<1>6. ASSUME ListMembers(p) \/ ReadRotation(p) \/ SyncMemberOrder(p) \/ Abort(p)
      PROVE  TurnsStay
  BY <1>0, <1>6 DEF ListMembers, ReadRotation, SyncMemberOrder, Abort
<1> QED BY <1>0, <1>1, <1>2, <1>3, <1>4, <1>5, <1>6, CommitTurns, InsertTurns, WriteTurns,
           DeleteTurns DEF Step

\* Unless turns are undone, the last one is pending and the others are finished.
LastPending ==
    "undo" \notin world.may =>
      /\ \A i \in 1..Len(rows) : i < Len(rows) => rows[i].status \in Finished
      /\ rows # << >> => rows[Len(rows)].status = "pending"

LEMMA LastPendingInit ==
  ASSUME RotationInit
  PROVE  LastPending
<1>1. rows = << >> \/ \E r : rows = << r >> /\ r.status = "pending"
  BY DEF RotationInit, InsertPending
<1>2. CASE rows = << >>
  <2>1. Len(rows) = 0
    BY <1>2
  <2> QED BY <1>2, <2>1 DEF LastPending
<1>3. CASE \E r : rows = << r >> /\ r.status = "pending"
  <2>1. Len(rows) = 1 /\ rows[1].status = "pending"
    BY <1>3
  <2> QED BY <2>1 DEF LastPending
<1> QED BY <1>1, <1>2, <1>3

\* A turn that is over is written by nobody, and the next one waits for it.
LEMMA LastPendingStep ==
  ASSUME Sound, LastPending, "undo" \notin world.may, NEW p \in Procs, Step(p)
  PROVE  /\ \A i \in 1..Len(rows') : i < Len(rows') => rows'[i].status \in Finished
         /\ rows' # << >> => rows'[Len(rows')].status = "pending"
         /\ \A i \in FinishedIn(rows) : rows'[i].status = rows[i].status
<1> DEFINE n == Len(rows)
           i == proc[p].row
<1>1. /\ \A k \in 1..n : k < n => rows[k].status \in Finished
      /\ rows # << >> => rows[n].status = "pending"
      /\ n \in Nat /\ rows \in Seq(Row) /\ (n = 0 <=> rows = << >>)
  BY DEF LastPending, Sound, RowsOK
<1>2. /\ \A k \in FinishedIn(rows) : k \in 1..n /\ rows[k].status \in Finished
      /\ "pending" \notin Finished /\ "deleted" \notin Finished
  BY <1>1 DEF FinishedIn, Finished
<1>3. \A k \in FinishedIn(rows) : k < n
  BY <1>1, <1>2
<1> HIDE DEF n, i
<1>4. CASE TurnsStay
  <2>1. rows' \in Seq(Row) /\ Len(rows') = n /\ \A k \in 1..n : rows'[k].status = rows[k].status
    BY <1>4 DEF TurnsStay, n
  <2> QED BY <1>1, <1>2, <2>1
<1>5. CASE TurnPasses(p)
  <2>1. /\ i \in 1..n /\ rows[i].status = "pending" /\ Len(rows') = n + 1
        /\ \A k \in 1..n : k # i => rows'[k].status = rows[k].status
        /\ rows'[i].status \in Finished /\ rows'[n + 1].status = "pending"
    BY <1>5 DEF TurnPasses, i, n
  <2>2. i = n
    BY <1>1, <1>2, <2>1
  <2> QED BY <1>1, <1>2, <1>3, <2>1, <2>2
<1>6. CASE TurnBegins(p)
  <2>1. /\ rows' \in Seq(Row) /\ Len(rows') = n + 1 /\ Unique(rows')
        /\ \A k \in 1..n : rows'[k] = rows[k]
        /\ rows'[n + 1].status = "pending"
    BY <1>6 DEF TurnBegins, n
  <2>2. \A k, j \in 1..(n + 1) : rows'[k].status = "pending" /\ rows'[j].status = "pending" => k = j
    BY <2>1, OnePending
  <2>3. n = 0
    <3> SUFFICES ASSUME n > 0 PROVE FALSE
      BY <1>1
    <3>1. n \in 1..n /\ n \in 1..(n + 1) /\ n + 1 \in 1..(n + 1) /\ rows # << >>
      BY <1>1
    <3>2. rows'[n].status = "pending"
      BY <1>1, <2>1, <3>1
    <3> QED BY <1>1, <2>1, <2>2, <3>1, <3>2
  <2> QED BY <1>2, <2>1, <2>3
<1>7. CASE TurnWritten(p)
  <2>1. /\ i \in 1..n /\ rows' \in Seq(Row) /\ Len(rows') = n /\ Unique(rows')
        /\ rows'[i].status = "pending"
        /\ \A k \in 1..n : k # i => rows'[k] = rows[k]
    BY <1>7 DEF TurnWritten, i, n
  <2>2. \A k, j \in 1..n : rows'[k].status = "pending" /\ rows'[j].status = "pending" => k = j
    BY <2>1, OnePending
  <2>3. n \in 1..n /\ rows # << >>
    BY <1>1, <2>1
  <2>4. i = n
    BY <1>1, <2>1, <2>2, <2>3
  <2> QED BY <1>1, <1>2, <1>3, <2>1, <2>3, <2>4
<1>8. CASE TurnDeleted(p)
  <2>1. proc[p].pc = "delete"
    BY <1>8 DEF TurnDeleted
  <2>2. proc[p].op = "undo" /\ proc[p].op \in (world.may \cap Operations) \cup {"sync"}
    BY <2>1, AProcess DEF Works
  <2> QED BY <2>2
<1> QED BY <1>4, <1>5, <1>6, <1>7, <1>8, WhoWritesTheTurns

LEMMA WorldStays ==
  ASSUME [RotationNext]_rotationVars
  PROVE  world' = world
<1>1. ASSUME RotationNext PROVE world' = world
  <2>1. PICK p \in Procs : Step(p)
    BY <1>1, SomeStep
  <2> QED BY <2>1 DEF Step, Start, Join, Leave, ReadPending, Reassign, ReadNoPending, ReadState,
        ReadScheduled, Commit, Reschedule, Advance, Assign, Insert, ListFinished, ReadSuccessor,
        DeleteSuccessor, Restore, Reread, RestoreIndex, ListMembers, ReadRotation,
        SyncMemberOrder, Abort
<1> QED BY <1>1 DEF rotationVars

LEMMA AlwaysLastPending == RotationSpec => []LastPending
<1>1. RotationInit => LastPending
  BY LastPendingInit
<1>2. ASSUME Sound, LastPending, [RotationNext]_rotationVars PROVE LastPending'
  <2>1. CASE UNCHANGED rotationVars
    BY <1>2, <2>1 DEF rotationVars, LastPending
  <2>2. CASE RotationNext
    <3>1. PICK p \in Procs : Step(p)
      BY <2>2, SomeStep
    <3>2. world' = world
      BY <1>2, WorldStays
    <3> QED BY <1>2, <3>1, <3>2, LastPendingStep DEF LastPending
  <2> QED BY <1>2, <2>1, <2>2
<1> QED BY <1>1, <1>2, AlwaysSound, PTL DEF RotationSpec

Kept == \A i \in FinishedIn(rows) : "undo" \notin world.may => rows'[i].status = rows[i].status

\* An answer to an older screen does not reopen a finished turn: the unique
\* index refuses the row it writes (RescheduleChore).
THEOREM FinishedTurnsStay == RotationSpec => FinishedStaysFinished
<1>1. ASSUME Sound, LastPending, [RotationNext]_rotationVars PROVE [Kept]_rotationVars
  <2>1. CASE UNCHANGED rotationVars
    BY <2>1
  <2>2. CASE RotationNext
    <3>1. PICK p \in Procs : Step(p)
      BY <2>2, SomeStep
    <3> QED BY <1>1, <3>1, LastPendingStep DEF Kept
  <2> QED BY <1>1, <2>1, <2>2
<1>2. RotationSpec => [][Kept]_rotationVars
  BY <1>1, AlwaysSound, AlwaysLastPending, PTL DEF RotationSpec
<1> QED BY <1>2 DEF FinishedStaysFinished, Kept

-----------------------------------------------------------------------------
(* The turns of a household that does not change *)

Steady == world.may \subseteq {"finish", "reschedule", "schedule"}

\* Who follows u in an order.
After(o, u) == o[((IndexOf(o, u) + 1) % Len(o)) + 1]

\* Whoever is due follows whoever has the turn.
Following ==
    LET n == Len(rows)
    IN /\ rows # << >> /\ InRange(state)
       /\ rows[n].user \in ToSet(state.order)
       /\ Due(state) = After(state.order, rows[n].user)
       /\ \A i \in 1..n : i < n => rows[i + 1].user = After(state.order, rows[i].user)

\* An answer to the last turn knows who is due; one to an older turn will be refused.
Answers(l) ==
    /\ l.pc \in {"idle", "pending", "state", "commit", "update"}
    /\ l.pc = "state" => l.op = "finish"
    /\ l.pc = "update" => l.user = rows[l.row].user
    /\ l.pc = "commit" => /\ l.next.order = state.order
                          /\ l.row = Len(rows) => l.user = Due(state) /\ l.next = Advanced(state)

Steadily == Steady => Following /\ \A p \in Procs : Answers(proc[p])

LEMMA Followed ==
  ASSUME Good(state), InRange(state)
  PROVE  /\ Due(state) \in ToSet(state.order)
         /\ After(state.order, Due(state)) = Due(Advanced(state))
         /\ InRange(Advanced(state)) /\ Advanced(state).order = state.order
<1>1. /\ IndexOf(state.order, Due(state)) = state.index /\ Due(state) \in ToSet(state.order)
      /\ InRange(Advanced(state)) /\ Advanced(state).order = state.order
      /\ Advanced(state).index = (state.index + 1) % Len(state.order)
  BY DueAndNext DEF Good
<1>2. After(state.order, Due(state)) = state.order[((state.index + 1) % Len(state.order)) + 1]
  BY <1>1 DEF After
<1>3. Due(Advanced(state)) = state.order[((state.index + 1) % Len(state.order)) + 1]
  BY <1>1 DEF Due
<1> QED BY <1>1, <1>2, <1>3

LEMMA SteadilyInit ==
  ASSUME RotationInit
  PROVE  Steadily
<1> SUFFICES ASSUME Steady PROVE Following /\ \A p \in Procs : Answers(proc[p])
  BY DEF Steadily
<1> DEFINE s == [order |-> Listed(members), index |-> 0]
<1>1. "crash" \notin world.may
  BY DEF Steady
<1>2. state = Advanced(s) /\ rows = InsertPending(<< >>, Due(s))
  BY <1>1 DEF RotationInit
<1>3. Len(rows) = 1 /\ rows # << >> /\ rows[1].user = Due(s)
  BY <1>2 DEF InsertPending
<1>4. Good(state)
  BY SoundInit DEF Sound
<1>5. state.order = Listed(members) /\ Listed(members) # << >> /\ Listed(members) \in Seq(Users)
      /\ IsInjective(Listed(members))
  BY <1>2, <1>4 DEF Advanced, Good, Rotation
<1>6. s \in Rotation /\ s.order = state.order /\ InRange(s)
  <2>1. 0 < Len(Listed(members))
    BY <1>5
  <2> QED BY <1>5, <2>1 DEF Rotation, InRange
<1> HIDE DEF s
<1>7. /\ IndexOf(s.order, Due(s)) = s.index /\ Due(s) \in ToSet(s.order)
      /\ InRange(Advanced(s)) /\ Advanced(s).order = s.order
      /\ Advanced(s).index = (s.index + 1) % Len(s.order)
  BY <1>5, <1>6, DueAndNext
<1>8. Due(state) = After(state.order, Due(s))
  BY <1>2, <1>6, <1>7 DEF After, Due
<1>9. Following
  BY <1>2, <1>3, <1>6, <1>7, <1>8 DEF Following
<1>10. \A p \in Procs : Answers(proc[p])
  BY DEF RotationInit, Answers, Idle
<1> QED BY <1>9, <1>10

\* The steps there are.
LEMMA SteadySteps ==
  ASSUME Sound, Steady, LastPending, Following, NEW p \in Procs, Answers(proc[p]), Step(p)
  PROVE  /\ world' = world /\ members' = members
         /\ \/ Finish(p) /\ rows' = rows /\ state' = state
            \/ \E op \in Operations : Start(p, op)
            \/ ReadPending(p) \/ ReadState(p) \/ Commit(p) \/ Reschedule(p)
<1>1. /\ proc[p].pc \in {"idle", "pending", "state", "commit", "update"}
      /\ proc[p].pc = "state" => proc[p].op = "finish"
  BY DEF Answers
<1>2. /\ "join" \notin world.may /\ "leave" \notin world.may /\ "crash" \notin world.may
      /\ "undo" \notin world.may
  BY DEF Steady
<1>3. \A u \in Users : ~Join(p, u) /\ ~Leave(p, u)
  BY <1>2 DEF Join, Leave
<1>4. /\ ~Reassign(p) /\ ~ReadScheduled(p) /\ ~Advance(p) /\ ~Assign(p) /\ ~Insert(p) /\ ~Abort(p)
      /\ ~ListFinished(p) /\ ~ReadSuccessor(p) /\ ~DeleteSuccessor(p) /\ ~Restore(p) /\ ~Reread(p)
      /\ ~RestoreIndex(p) /\ ~ListMembers(p) /\ ~ReadRotation(p) /\ ~SyncMemberOrder(p)
  BY <1>1, <1>2 DEF InPhase, Reassign, ReadScheduled, Advance, Assign, Insert, Abort, ListFinished,
     ReadSuccessor, DeleteSuccessor, Restore, Reread, RestoreIndex, ListMembers, ReadRotation,
     SyncMemberOrder
<1>5. PendingIn(rows) # {}
  <2>1. rows[Len(rows)].status = "pending" /\ Len(rows) \in DOMAIN rows
    BY <1>2 DEF LastPending, Following, Sound, RowsOK
  <2> QED BY <2>1 DEF PendingIn
<1>6. ReadNoPending(p) => Finish(p) /\ rows' = rows /\ state' = state /\ world' = world /\ members' = members
  BY <1>5 DEF ReadNoPending
<1>7. CASE ReadNoPending(p)
  BY <1>6, <1>7
<1>8. CASE ~ReadNoPending(p)
  <2>1. \/ \E op \in Operations : Start(p, op)
        \/ ReadPending(p) \/ ReadState(p) \/ Commit(p) \/ Reschedule(p)
    BY <1>3, <1>4, <1>8 DEF Step
  <2>2. world' = world /\ members' = members
    BY <2>1 DEF Start, ReadPending, ReadState, Commit, Reschedule
  <2> QED BY <2>1, <2>2
<1> QED BY <1>7, <1>8

LEMMA IdleAnswers == Answers(Idle)
BY DEF Answers, Idle

\* A step that leaves the turns and the rotation alone.
LEMMA StillFollowing ==
  ASSUME Sound, Following, \A q \in Procs : Answers(proc[q]), NEW p \in Procs,
         rows' = rows, state' = state, NEW l, Become(p, l), Answers(l)
  PROVE  Following' /\ \A q \in Procs : Answers(proc[q])'
<1>1. Following'
  BY DEF Following, Due, InRange
<1>2. ASSUME NEW q \in Procs PROVE Answers(proc[q])'
  <2>1. Answers(proc'[q])
    BY DEF Become, Sound
  <2> QED BY <2>1 DEF Answers, Due, Advanced
<1> QED BY <1>1, <1>2

LEMMA SteadyCommit ==
  ASSUME Sound, LastPending, Steady, Following, \A q \in Procs : Answers(proc[q]),
         NEW p \in Procs, TurnPasses(p), state' = proc[p].next, Finish(p)
  PROVE  Following' /\ \A q \in Procs : Answers(proc[q])'
<1> DEFINE n == Len(rows)
           i == proc[p].row
           o == state.order
<1>1. /\ proc[p].pc = "commit" /\ i \in 1..n /\ rows[i].status = "pending"
      /\ rows' \in Seq(Row) /\ Len(rows') = n + 1
      /\ \A k \in 1..n : rows'[k].user = rows[k].user
      /\ rows'[n + 1].user = proc[p].user
  BY DEF TurnPasses
<1>2. n \in Nat /\ i = n
  <2>1. \A k \in 1..n : k < n => rows[k].status \in Finished
    BY DEF LastPending, Steady
  <2> QED BY <1>1, <2>1, AProcess DEF Finished
<1>3. proc[p].user = Due(state) /\ state' = Advanced(state)
  BY <1>1, <1>2 DEF Answers
<1>4. /\ Due(state) \in ToSet(o) /\ After(state.order, Due(state)) = Due(Advanced(state))
      /\ InRange(Advanced(state)) /\ Advanced(state).order = o
  BY Followed DEF Sound, Following
<1>5. /\ Due(state) = After(state.order, rows[n].user)
      /\ \A k \in 1..n : k < n => rows[k + 1].user = After(state.order, rows[k].user)
  BY DEF Following
<1>6. state'.order = o
  BY <1>3, <1>4
<1>7. Following'
  <2>1. rows' # << >> /\ InRange(state')
    BY <1>1, <1>2, <1>3, <1>4
  <2>2. rows'[n + 1].user \in ToSet(state'.order) /\ Due(state') = After(state'.order, rows'[n + 1].user)
    BY <1>1, <1>3, <1>4, <1>6
  <2>3. ASSUME NEW k \in 1..(n + 1), k < n + 1 PROVE rows'[k + 1].user = After(state'.order, rows'[k].user)
    <3>0. After(state'.order, rows'[k].user) = After(o, rows[k].user)
      BY <1>1, <1>2, <1>6, <2>3
    <3>1. CASE k = n
      BY <1>1, <1>2, <1>3, <1>5, <3>0, <3>1
    <3>2. CASE k < n
      <4>1. k \in 1..n /\ k + 1 \in 1..n
        BY <1>2, <3>2
      <4> QED BY <1>1, <1>5, <3>0, <3>2, <4>1
    <3> QED BY <1>2, <2>3, <3>1, <3>2
  <2> HIDE DEF n
  <2> QED BY <1>1, <2>1, <2>2, <2>3 DEF Following, InRange, Due
<1>8. ASSUME NEW q \in Procs PROVE Answers(proc[q])'
  <2>1. CASE q = p
    <3>1. proc'[q] = Idle
      BY <2>1 DEF Finish, Become, Sound
    <3> QED BY <3>1 DEF Answers, Idle
  <2>2. CASE q # p
    <3>1. proc'[q] = proc[q]
      BY <2>2 DEF Finish, Become, Sound
    <3>2. Answers(proc[q]) /\ Works(proc[q], n, world.may)
      BY DEF Sound
    <3>3. proc[q].pc \in {"commit", "update"} => proc[q].row \in 1..n
      BY <3>2 DEF Works
    <3>4. proc[q].pc = "commit" => proc[q].next.order = state'.order /\ proc[q].row # Len(rows')
      BY <1>1, <1>2, <1>3, <1>4, <3>2, <3>3 DEF Answers
    <3>5. proc[q].pc = "update" => proc[q].user = rows'[proc[q].row].user
      BY <1>1, <3>2, <3>3 DEF Answers
    <3> QED BY <3>1, <3>2, <3>4, <3>5 DEF Answers
  <2> QED BY <2>1, <2>2
<1> QED BY <1>7, <1>8

LEMMA SteadyReschedule ==
  ASSUME Sound, Following, \A q \in Procs : Answers(proc[q]),
         NEW p \in Procs, TurnWritten(p), proc[p].pc = "update", state' = state, Finish(p)
  PROVE  Following' /\ \A q \in Procs : Answers(proc[q])'
<1> DEFINE n == Len(rows)
           i == proc[p].row
<1>1. /\ i \in 1..n /\ rows' \in Seq(Row) /\ Len(rows') = n
      /\ rows'[i].user = proc[p].user
      /\ \A k \in 1..n : k # i => rows'[k] = rows[k]
  BY DEF TurnWritten
<1>2. \A k \in 1..n : rows'[k].user = rows[k].user
  BY <1>1 DEF Answers
<1>3. n \in Nat /\ rows \in Seq(Row) /\ n # 0
  BY DEF Sound, RowsOK, Following
<1>4. Following'
  <2>1. rows' # << >> /\ n \in 1..n
    BY <1>1, <1>3
  <2>2. \A k \in 1..n : k < n => k + 1 \in 1..n
    BY <1>3
  <2>3. \A k \in 1..n : k < n => rows'[k + 1].user = After(state'.order, rows'[k].user)
    BY <1>2, <2>2 DEF Following
  <2>4. rows'[n].user = rows[n].user
    BY <1>2, <2>1
  <2> HIDE DEF n
  <2>5. rows'[n].user \in ToSet(state.order) /\ InRange(state) /\ Due(state) = After(state.order, rows'[n].user)
    BY <2>4 DEF Following, n
  <2> QED BY <1>1, <2>1, <2>3, <2>5 DEF Following, InRange, Due
<1>5. ASSUME NEW q \in Procs PROVE Answers(proc[q])'
  <2>1. CASE q = p
    <3>1. proc'[q] = Idle
      BY <2>1 DEF Finish, Become, Sound
    <3> QED BY <3>1 DEF Answers, Idle
  <2>2. CASE q # p
    <3>1. proc'[q] = proc[q]
      BY <2>2 DEF Finish, Become, Sound
    <3>2. Answers(proc[q]) /\ Works(proc[q], n, world.may)
      BY DEF Sound
    <3>3. proc[q].pc = "update" => proc[q].row \in 1..n
      BY <3>2 DEF Works
    <3>4. proc[q].pc = "update" => proc[q].user = rows'[proc[q].row].user
      BY <1>2, <3>2, <3>3 DEF Answers
    <3> QED BY <1>1, <3>1, <3>2, <3>4 DEF Answers, Due, Advanced
  <2> QED BY <2>1, <2>2
<1> QED BY <1>4, <1>5

LEMMA SteadilyStep ==
  ASSUME Sound, LastPending, Steady, Following, \A q \in Procs : Answers(proc[q]),
         NEW p \in Procs, Step(p)
  PROVE  Following' /\ \A q \in Procs : Answers(proc[q])'
<1>1. Answers(proc[p]) /\ proc[p] \in Local
  BY AProcess
<1>2. CASE Finish(p) /\ rows' = rows /\ state' = state
  BY <1>2, IdleAnswers, StillFollowing DEF Finish
<1>3. ASSUME NEW op \in Operations, Start(p, op) PROVE Following' /\ \A q \in Procs : Answers(proc[q])'
  <2> DEFINE l == [Idle EXCEPT !.op = op, !.pc = IF op = "undo" THEN "list" ELSE "pending"]
  <2>1. Become(p, l) /\ rows' = rows /\ state' = state /\ op \in world.may
    BY <1>3 DEF Start
  <2>2. Answers(l)
    <3>1. op # "undo"
      BY <2>1 DEF Steady
    <3> QED BY <3>1 DEF Answers, Idle
  <2> HIDE DEF l
  <2> QED BY <2>1, <2>2, StillFollowing
<1>4. CASE ReadPending(p)
  <2>1. CASE Finish(p)
    BY <1>2, <1>4, <2>1 DEF ReadPending
  <2>2. CASE ~Finish(p)
    <3> DEFINE pc == CASE proc[p].op = "finish" -> "state"
                       [] proc[p].op = "reschedule" -> "update"
                       [] proc[p].op = "reassign" -> "assignee"
               l(i) == [proc[p] EXCEPT !.row = i, !.user = rows[i].user, !.pc = pc]
    <3>1. PICK i \in PendingIn(rows) : Become(p, l(i))
      BY <1>4, <2>2 DEF ReadPending
    <3>2. rows' = rows /\ state' = state /\ proc[p].op \in {"finish", "reschedule", "reassign"} /\ proc[p].pc = "pending"
      BY <1>4 DEF ReadPending, InPhase
    <3>3. proc[p].op # "reassign"
      BY <3>2, AProcess DEF Works, Steady
    <3>4. pc \in {"state", "update"} /\ (pc = "state" => proc[p].op = "finish")
      BY <3>2, <3>3
    <3> HIDE DEF pc
    <3>5. l(i).pc = pc /\ l(i).op = proc[p].op /\ l(i).user = rows[l(i).row].user
      BY <1>1 DEF Local
    <3> HIDE DEF l
    <3>6. Answers(l(i))
      BY <3>4, <3>5 DEF Answers
    <3> QED BY <3>1, <3>2, <3>6, StillFollowing
  <2> QED BY <2>1, <2>2
<1>5. CASE ReadState(p)
  <2>1. CASE ~InRange(state)
    BY <1>2, <1>5, <2>1 DEF ReadState
  <2>2. CASE InRange(state)
    <3> DEFINE pc == IF proc[p].op = "finish" THEN "commit" ELSE "advance"
               l == [proc[p] EXCEPT !.next = Advanced(state), !.user = Due(state), !.pc = pc]
    <3>1. Become(p, l) /\ rows' = rows /\ state' = state /\ proc[p].pc = "state"
      BY <1>5, <2>2 DEF ReadState, InPhase
    <3>2. pc = "commit"
      BY <1>1, <3>1 DEF Answers
    <3>3. l.pc = "commit" /\ l.next = Advanced(state) /\ l.user = Due(state)
      BY <1>1, <3>2 DEF Local
    <3>4. l.next.order = state.order
      BY <3>3 DEF Advanced
    <3> HIDE DEF l
    <3>5. Answers(l)
      BY <3>3, <3>4 DEF Answers
    <3> QED BY <3>1, <3>5, StillFollowing
  <2> QED BY <2>1, <2>2
<1>6. CASE Commit(p)
  <2>1. Finish(p)
    BY <1>6 DEF Commit
  <2> QED BY <1>2, <1>6, <2>1, CommitTurns, SteadyCommit
<1>7. CASE Reschedule(p)
  <2>1. Finish(p) /\ state' = state /\ proc[p].pc = "update"
    BY <1>7 DEF Reschedule, InPhase
  <2> QED BY <1>2, <1>7, <2>1, WriteTurns, SteadyReschedule
<1> QED BY <1>1, <1>2, <1>3, <1>4, <1>5, <1>6, <1>7, SteadySteps

LEMMA AlwaysSteadily == RotationSpec => []Steadily
<1>1. RotationInit => Steadily
  BY SteadilyInit
<1>2. ASSUME Sound, LastPending, Steadily, [RotationNext]_rotationVars PROVE Steadily'
  <2>1. world' = world
    BY <1>2, WorldStays
  <2>2. CASE UNCHANGED rotationVars
    BY <1>2, <2>2 DEF rotationVars, Steadily, Steady, Following, Answers, Due, InRange, Advanced
  <2>3. CASE RotationNext
    <3>1. PICK p \in Procs : Step(p)
      BY <2>3, SomeStep
    <3>2. Steady' <=> Steady
      BY <2>1 DEF Steady
    <3>3. CASE ~Steady
      BY <3>2, <3>3 DEF Steadily
    <3>4. CASE Steady
      <4>1. Following /\ \A q \in Procs : Answers(proc[q])
        BY <1>2, <3>4 DEF Steadily
      <4>2. Following' /\ \A q \in Procs : Answers(proc[q])'
        BY <1>2, <3>1, <3>4, <4>1, SteadilyStep
      <4> QED BY <4>2 DEF Steadily
    <3> QED BY <3>3, <3>4
  <2> QED BY <1>2, <2>2, <2>3
<1> QED BY <1>1, <1>2, AlwaysSound, AlwaysLastPending, PTL DEF RotationSpec

\* In a household that does not change, each turn goes to whoever follows.
LEMMA SteadyTurns ==
  ASSUME Sound, Steadily
  PROVE  TurnsInOrder
<1> SUFFICES ASSUME Steady, NEW i \in 1..(Len(rows) - 1)
             PROVE  rows[i + 1].user = Follower(rows[i].user)
  BY DEF TurnsInOrder, Steady
<1>1. i \in 1..Len(rows) /\ i < Len(rows)
  BY AProcess DEF Sound, RowsOK
<1> QED BY <1>1 DEF Steadily, Following, Follower, After

-----------------------------------------------------------------------------
(***************************************************************************)
(* The turns of requests that come one after the other.  g are the turns   *)
(* that were given, rs the rows, o the order, w whoever is due.            *)
(***************************************************************************)
\* b has had a turn since turn i, or between the turns i and j.
Served(g, rs, i, b) == \E k \in g : i < k /\ rs[k].user = b

Between(g, rs, i, j, b) == \E k \in g : i < k /\ k < j /\ rs[k].user = b

\* Whoever has had a turn waits for those who will not be due before.
Waits(g, rs, o, w) ==
    \A i \in g : \A b \in rs[i].since :
       (b # rs[i].user /\ rs[i].user \in ToSet(o) /\ Serves(o, w, rs[i].user, b)) =>
          Served(g, rs, i, b)

\* Those who come after x and before w have had no turn up to m.
Absent(g, rs, o, x, w, m) == \A i \in g : i <= m => ~Serves(o, w, x, rs[i].user)

\* Between two turns, and between the last one and whoever is due, only those
\* are passed over who were not there yet.
Skips(g, rs, o, w) ==
    \A i \in g :
       /\ (\A k \in g : k <= i) => Absent(g, rs, o, rs[i].user, w, i)
       /\ \A j \in g : (i < j /\ \A k \in g : ~(i < k /\ k < j)) =>
                          Absent(g, rs, o, rs[i].user, rs[j].user, i)

\* Nobody has two turns without the others having one in between.
Even(g, rs) ==
    \A i, j \in g : (i < j /\ rs[i].user = rs[j].user) =>
       \A b \in rs[i].since : b # rs[i].user => Between(g, rs, i, j, b)

\* stays: nobody leaves.
Fairly(g, rs, o, w, stays) ==
    /\ w \in ToSet(o)
    /\ \A i \in g : rs[i].since \subseteq ToSet(o)
    /\ Even(g, rs) /\ Waits(g, rs, o, w)
    /\ stays => (\A i \in g : rs[i].user \in ToSet(o)) /\ Skips(g, rs, o, w)

\* Nothing changes, but that witnesses may leave.
LEMMA FairSame ==
  ASSUME NEW g, NEW rs, NEW o, NEW w, NEW stays \in BOOLEAN, Fairly(g, rs, o, w, stays),
         NEW new, \A i \in g : new[i].user = rs[i].user /\ new[i].since \subseteq rs[i].since
  PROVE  Fairly(g, new, o, w, stays)
<1>1. /\ \A i, b : Served(g, rs, i, b) => Served(g, new, i, b)
      /\ \A i, j, b : Between(g, rs, i, j, b) => Between(g, new, i, j, b)
  BY DEF Served, Between
<1>2. Even(g, new)
  <2> SUFFICES ASSUME NEW i \in g, NEW j \in g, i < j, new[i].user = new[j].user,
                      NEW b \in new[i].since, b # new[i].user
               PROVE  Between(g, new, i, j, b)
    BY DEF Even
  <2>1. Between(g, rs, i, j, b)
    BY DEF Fairly, Even
  <2> QED BY <1>1, <2>1
<1>3. Waits(g, new, o, w)
  <2> SUFFICES ASSUME NEW i \in g, NEW b \in new[i].since, b # new[i].user,
                      new[i].user \in ToSet(o), Serves(o, w, new[i].user, b)
               PROVE  Served(g, new, i, b)
    BY DEF Waits
  <2>1. Served(g, rs, i, b)
    BY DEF Fairly, Waits
  <2> QED BY <1>1, <2>1
<1>4. Skips(g, rs, o, w) => Skips(g, new, o, w)
  <2>1. \A x, v, m : Absent(g, rs, o, x, v, m) => Absent(g, new, o, x, v, m)
    BY DEF Absent
  <2> QED BY <2>1 DEF Skips
<1> QED BY <1>2, <1>3, <1>4 DEF Fairly

LEMMA NotBeforeOneself ==
  ASSUME NEW o, Line(o), NEW v, NEW a
  PROVE  ~Serves(o, v, a, a)
BY Zenon DEF Line, Serves

\* Turn n goes to w, who is due, and v is due next.
TakesTurn(g, rs, o, w, v, n, new) ==
    /\ g \subseteq Nat /\ n \in Nat /\ \A i \in g : i < n
    /\ Line(o) /\ v \in ToSet(o) /\ Passes(o, w, v)
    /\ \A i \in g : new[i].user = rs[i].user /\ new[i].since = rs[i].since
    /\ new[n].user = w /\ new[n].since \subseteq ToSet(o)

LEMMA FairTurn ==
  ASSUME NEW g, NEW rs, NEW o, NEW w, NEW v, NEW n, NEW new, NEW stays \in BOOLEAN,
         Fairly(g, rs, o, w, stays), TakesTurn(g, rs, o, w, v, n, new)
  PROVE  Fairly(g \cup {n}, new, o, v, stays)
<1>0. /\ g \subseteq Nat /\ n \in Nat /\ \A i \in g : i < n
      /\ Line(o) /\ v \in ToSet(o) /\ Passes(o, w, v)
      /\ \A i \in g : new[i].user = rs[i].user /\ new[i].since = rs[i].since
      /\ new[n].user = w /\ new[n].since \subseteq ToSet(o)
  BY DEF TakesTurn
<1> DEFINE h == g \cup {n}
<1>1. /\ w \in ToSet(o) /\ \A i \in g : rs[i].since \subseteq ToSet(o)
      /\ Even(g, rs) /\ Waits(g, rs, o, w)
  BY DEF Fairly
<1>2. \A i \in h : new[i].since \subseteq ToSet(o)
  BY <1>0, <1>1
<1>3. /\ \A i, b : Served(g, rs, i, b) => Served(h, new, i, b)
      /\ \A i, j, b : Between(g, rs, i, j, b) => Between(h, new, i, j, b)
  BY <1>0 DEF Served, Between
<1>4. \A i \in g : i \in Nat /\ i < n /\ ~(n < i) /\ i # n
  <2> TAKE i \in g
  <2>1. n \in Nat /\ i \in Nat /\ i < n
    BY <1>0
  <2> QED BY <2>1
<1>5. \A i \in g : \A b : Served(g, rs, i, b) => Between(h, new, i, n, b)
  BY <1>0, <1>4 DEF Served, Between
<1>6. Even(h, new)
  <2> SUFFICES ASSUME NEW i \in h, NEW j \in h, i < j, new[i].user = new[j].user,
                      NEW b \in new[i].since, b # new[i].user
               PROVE  Between(h, new, i, j, b)
    BY DEF Even
  <2>1. i \in g
    BY <1>0, <1>4
  <2>2. CASE j \in g
    <3>1. Between(g, rs, i, j, b)
      BY <1>0, <1>1, <2>1, <2>2 DEF Even
    <3> QED BY <1>0, <1>3, <3>1
  <2>3. CASE j = n
    <3>1. rs[i].user = w /\ b \in rs[i].since /\ b # w /\ b \in ToSet(o)
      BY <1>0, <1>1, <2>1, <2>3
    <3>2. Serves(o, w, w, b)
      BY <1>0, <1>1, <3>1, WhoIsDue
    <3>3. Served(g, rs, i, b)
      BY <1>0, <1>1, <2>1, <3>1, <3>2 DEF Waits
    <3> QED BY <1>0, <1>5, <2>1, <2>3, <3>3
  <2> QED BY <1>0, <2>2, <2>3
<1>7. Waits(h, new, o, v)
  <2> SUFFICES ASSUME NEW i \in h, NEW b \in new[i].since, b # new[i].user,
                      new[i].user \in ToSet(o), Serves(o, v, new[i].user, b)
               PROVE  Served(h, new, i, b)
    BY DEF Waits
  <2>1. b \in ToSet(o)
    BY <1>0, <1>2
  <2>2. new[i].user # w /\ (b = w \/ Serves(o, w, new[i].user, b))
    BY <1>0, <2>1 DEF Passes
  <2>3. i \in g
    BY <1>0, <2>2
  <2>4. CASE b = w
    <3>1. i < n /\ n \in h /\ new[n].user = b
      BY <1>0, <2>3, <2>4
    <3> QED BY <1>0, <3>1 DEF Served
  <2>5. CASE b # w
    <3>1. Served(g, rs, i, b)
      BY <1>0, <1>1, <2>2, <2>3, <2>5 DEF Waits
    <3> QED BY <1>0, <1>3, <3>1
  <2> QED BY <1>0, <2>4, <2>5
<1>8. ASSUME stays
      PROVE  (\A i \in h : new[i].user \in ToSet(o)) /\ Skips(h, new, o, v)
  <2>1. (\A i \in g : rs[i].user \in ToSet(o)) /\ Skips(g, rs, o, w)
    BY <1>0, <1>8 DEF Fairly
  <2>2. \A i \in h : new[i].user \in ToSet(o)
    BY <1>0, <1>1, <2>1
  <2>3. ASSUME NEW x, NEW u, NEW m \in g, Absent(g, rs, o, x, u, m)
        PROVE  Absent(h, new, o, x, u, m)
    <3>1. \A i \in h : i <= m => i \in g
      BY <1>0, <1>4
    <3> QED BY <1>0, <2>3, <3>1 DEF Absent
  <2>4. Absent(h, new, o, w, v, n)
    <3> SUFFICES ASSUME NEW i \in h PROVE ~Serves(o, v, w, new[i].user)
      BY <1>0 DEF Absent
    <3>1. CASE new[i].user = w
      BY <1>0, <3>1, NotBeforeOneself
    <3>2. CASE new[i].user # w
      BY <1>0, <1>1, <2>2, <3>2 DEF Passes
    <3> QED BY <1>0, <3>1, <3>2
  <2>5. ASSUME NEW i \in h, \A k \in h : k <= i
        PROVE  Absent(h, new, o, new[i].user, v, i)
    <3>1. i = n
      BY <1>0, <1>4, <2>5
    <3> QED BY <1>0, <2>4, <3>1
  <2>6. ASSUME NEW i \in h, NEW j \in h, i < j, \A k \in h : ~(i < k /\ k < j)
        PROVE  Absent(h, new, o, new[i].user, new[j].user, i)
    <3>1. i \in g
      BY <1>0, <1>4, <2>6
    <3>2. CASE j \in g
      <4>1. Absent(g, rs, o, rs[i].user, rs[j].user, i)
        BY <1>0, <2>1, <2>6, <3>1, <3>2 DEF Skips
      <4> QED BY <1>0, <2>3, <3>1, <3>2, <4>1
    <3>3. CASE j = n
      <4>1. \A k \in g : k <= i
        <5> TAKE k \in g
        <5>1. k \in Nat /\ i \in Nat /\ k < n /\ ~(i < k /\ k < n)
          BY <1>0, <1>4, <2>6, <3>1, <3>3
        <5> QED BY <1>0, <5>1
      <4>2. Absent(g, rs, o, rs[i].user, w, i)
        BY <1>0, <2>1, <3>1, <4>1 DEF Skips
      <4> QED BY <1>0, <2>3, <3>1, <3>3, <4>2
    <3> QED BY <1>0, <3>2, <3>3
  <2>7. Skips(h, new, o, v)
    <3> HIDE DEF h
    <3> QED BY <1>0, <2>5, <2>6 DEF Skips
  <2> QED BY <1>0, <2>2, <2>7
<1> QED BY <1>0, <1>2, <1>6, <1>7, <1>8 DEF Fairly

\* The last turn is deleted, and whoever had it is due again.
LEMMA FairUndo ==
  ASSUME NEW g, g \subseteq Nat, NEW rs, NEW o, Line(o), NEW w,
         Fairly(g, rs, o, w, TRUE), NEW m \in g, \A i \in g : i <= m, NEW new,
         \A i \in g : i # m => new[i].user = rs[i].user /\ new[i].since = rs[i].since
  PROVE  Fairly(g \ {m}, new, o, rs[m].user, TRUE)
<1> DEFINE h == g \ {m}
           z == rs[m].user
<1>1. /\ w \in ToSet(o) /\ \A i \in g : rs[i].since \subseteq ToSet(o)
      /\ Even(g, rs) /\ Waits(g, rs, o, w)
      /\ \A i \in g : rs[i].user \in ToSet(o)
      /\ Skips(g, rs, o, w)
  BY DEF Fairly
<1>2. z \in ToSet(o) /\ \A i \in h : i \in g /\ new[i].since \subseteq ToSet(o) /\ new[i].user \in ToSet(o)
  BY <1>1
<1>3. \A i \in h : i \in Nat /\ m \in Nat /\ i < m /\ i # m /\ ~(m < i)
  OBVIOUS
<1>4. \A i, j, b : Between(g, rs, i, j, b) /\ j \in g => Between(h, new, i, j, b)
  <2> SUFFICES ASSUME NEW i, NEW j \in g, NEW b, Between(g, rs, i, j, b)
               PROVE  Between(h, new, i, j, b)
    OBVIOUS
  <2>1. PICK k \in g : i < k /\ k < j /\ rs[k].user = b
    BY DEF Between
  <2>2. k # m
    <3>1. j \in Nat /\ k \in Nat /\ m \in Nat /\ j <= m
      OBVIOUS
    <3> QED BY <2>1, <3>1
  <2> QED BY <2>1, <2>2 DEF Between
<1>5. Even(h, new)
  <2> SUFFICES ASSUME NEW i \in h, NEW j \in h, i < j, new[i].user = new[j].user,
                      NEW b \in new[i].since, b # new[i].user
               PROVE  Between(h, new, i, j, b)
    BY DEF Even
  <2>1. Between(g, rs, i, j, b)
    BY <1>1, <1>2 DEF Even
  <2> QED BY <1>2, <1>4, <2>1
<1>6. Waits(h, new, o, z)
  <2> SUFFICES ASSUME NEW i \in h, NEW b \in new[i].since, b # new[i].user,
                      new[i].user \in ToSet(o), Serves(o, z, new[i].user, b)
               PROVE  Served(h, new, i, b)
    BY DEF Waits
  <2> DEFINE a == rs[i].user
  <2>1. /\ i \in g /\ b \in rs[i].since /\ b # a /\ a = new[i].user
        /\ a \in ToSet(o) /\ b \in ToSet(o)
    BY <1>1, <1>2
  <2>2. b # z
    BY <1>2, <2>1, WhoIsDue
  <2>3. CASE a = z
    <3>1. Between(g, rs, i, m, b)
      BY <1>1, <1>3, <2>1, <2>3 DEF Even
    <3>2. Between(h, new, i, m, b)
      BY <1>4, <3>1
    <3> QED BY <3>2 DEF Between, Served
  <2>4. CASE a # z
    <3>1. Absent(g, rs, o, z, w, m)
      BY <1>1 DEF Skips
    <3>2. ~Serves(o, w, z, a)
      BY <1>3, <2>1, <3>1 DEF Absent
    <3>3. Serves(o, w, a, z)
      BY <1>1, <1>2, <2>1, <2>4, <3>2, OneFirst
    <3>4. Serves(o, w, a, b)
      BY <1>1, <1>2, <2>1, <2>2, <2>4, <3>3, GoingBack
    <3>5. Served(g, rs, i, b)
      BY <1>1, <2>1, <3>4 DEF Waits
    <3>6. PICK k \in g : i < k /\ rs[k].user = b
      BY <3>5 DEF Served
    <3>7. k \in h /\ new[k].user = b
      BY <2>2, <3>6
    <3> QED BY <3>6, <3>7 DEF Served
  <2> QED BY <2>3, <2>4
<1>7. Skips(h, new, o, z)
  <2>1. ASSUME NEW x, NEW u, NEW k, Absent(g, rs, o, x, u, k)
        PROVE  Absent(h, new, o, x, u, k)
    BY <2>1 DEF Absent
  <2>2. ASSUME NEW i \in h, \A k \in h : k <= i
        PROVE  Absent(h, new, o, new[i].user, z, i)
    <3>1. \A k \in g : ~(i < k /\ k < m)
      <4> TAKE k \in g
      <4>1. CASE k = m
        BY <4>1
      <4>2. CASE k # m
        <5>1. k \in h /\ k <= i /\ k \in Nat /\ i \in Nat
          BY <2>2, <4>2
        <5> QED BY <5>1
      <4> QED BY <4>1, <4>2
    <3>2. Absent(g, rs, o, rs[i].user, z, i)
      BY <1>1, <1>3, <3>1 DEF Skips
    <3> QED BY <2>1, <3>2
  <2>3. ASSUME NEW i \in h, NEW j \in h, i < j, \A k \in h : ~(i < k /\ k < j)
        PROVE  Absent(h, new, o, new[i].user, new[j].user, i)
    <3>1. \A k \in g : ~(i < k /\ k < j)
      BY <1>3, <2>3
    <3>2. Absent(g, rs, o, rs[i].user, rs[j].user, i)
      BY <1>1, <2>3, <3>1 DEF Skips
    <3> QED BY <2>1, <3>2
  <2> HIDE DEF h
  <2> QED BY <2>2, <2>3 DEF Skips
<1> QED BY <1>2, <1>5, <1>6, <1>7 DEF Fairly

\* The order is rebuilt from those who stay, C, and newcomers.
LEMMA FairRebuild ==
  ASSUME NEW g, NEW rs, NEW o, Line(o), NEW w, NEW stays \in BOOLEAN,
         Fairly(g, rs, o, w, stays), NEW t, Line(t), NEW v \in ToSet(t),
         NEW C, C = ToSet(o) \cap ToSet(t),
         \A a, b \in C : Before(t, a, b) <=> Before(o, a, b),
         \/ \A a, b \in C : a = b
         \/ v \in C /\ \A x \in C : ~Serves(o, w, x, v),
         \A i \in g : rs[i].since \subseteq C,
         \A i \in g : rs[i].user \in ToSet(t) => rs[i].user \in C,
         stays => ToSet(o) \subseteq ToSet(t)
  PROVE  Fairly(g, rs, t, v, stays)
<1>1. /\ w \in ToSet(o) /\ Even(g, rs) /\ Waits(g, rs, o, w)
      /\ stays => (\A i \in g : rs[i].user \in ToSet(o)) /\ Skips(g, rs, o, w)
  BY DEF Fairly
<1>2. C \subseteq ToSet(o) /\ C \subseteq ToSet(t)
  OBVIOUS
<1>3. \A i \in g : rs[i].since \subseteq ToSet(t)
  BY <1>2
<1>4. CASE v \in C /\ \A x \in C : ~Serves(o, w, x, v)
  <2>1. \A a, b \in C : Serves(t, v, a, b) <=> Serves(o, w, a, b)
    BY <1>1, <1>2, <1>4, Dropping
  <2>2. Waits(g, rs, t, v)
    <3> SUFFICES ASSUME NEW i \in g, NEW b \in rs[i].since, b # rs[i].user,
                        rs[i].user \in ToSet(t), Serves(t, v, rs[i].user, b)
                 PROVE  Served(g, rs, i, b)
      BY DEF Waits
    <3>1. b \in C /\ rs[i].user \in C
      OBVIOUS
    <3>2. Serves(o, w, rs[i].user, b)
      BY <2>1, <3>1
    <3> QED BY <1>1, <1>2, <3>1, <3>2 DEF Waits
  <2>3. ASSUME stays
        PROVE  (\A i \in g : rs[i].user \in ToSet(t)) /\ Skips(g, rs, t, v)
    <3>1. \A i \in g : rs[i].user \in C
      BY <1>1, <2>3
    <3>2. \A x, a, b \in C : Serves(t, x, a, b) <=> Serves(o, x, a, b)
      BY DEF Serves
    <3>3. Skips(g, rs, o, w)
      BY <1>1, <2>3
    <3>4. ASSUME NEW i \in g, \A k \in g : k <= i
          PROVE  Absent(g, rs, t, rs[i].user, v, i)
      <4>1. Absent(g, rs, o, rs[i].user, w, i)
        BY <3>3, <3>4 DEF Skips
      <4> QED BY <2>1, <3>1, <4>1 DEF Absent
    <3>5. ASSUME NEW i \in g, NEW j \in g, i < j, \A k \in g : ~(i < k /\ k < j)
          PROVE  Absent(g, rs, t, rs[i].user, rs[j].user, i)
      <4>1. Absent(g, rs, o, rs[i].user, rs[j].user, i)
        BY <3>3, <3>5 DEF Skips
      <4> QED BY <3>1, <3>2, <4>1 DEF Absent
    <3>6. Skips(g, rs, t, v)
      BY <3>4, <3>5 DEF Skips
    <3> QED BY <1>2, <3>1, <3>6
  <2> QED BY <1>1, <1>3, <2>2, <2>3 DEF Fairly
<1>5. CASE \A a, b \in C : a = b
  <2>1. Waits(g, rs, t, v)
    <3> SUFFICES ASSUME NEW i \in g, NEW b \in rs[i].since, b # rs[i].user,
                        rs[i].user \in ToSet(t)
                 PROVE  FALSE
      BY DEF Waits
    <3>1. b \in C /\ rs[i].user \in C
      OBVIOUS
    <3> QED BY <1>5, <3>1
  <2>2. ASSUME stays
        PROVE  (\A i \in g : rs[i].user \in ToSet(t)) /\ Skips(g, rs, t, v)
    <3>1. \A i \in g : rs[i].user \in C
      BY <1>1, <2>2
    <3>2. \A i, j \in g : rs[i].user = rs[j].user
      BY <1>5, <3>1
    <3>3. \A x : \A i, j \in g : ~Serves(t, x, rs[i].user, rs[j].user)
      BY <3>2, NotBeforeOneself
    <3>4. Skips(g, rs, t, v)
      BY <3>3 DEF Skips, Absent
    <3> QED BY <1>2, <3>1, <3>4
  <2> QED BY <1>1, <1>3, <2>1, <2>2 DEF Fairly
<1> QED BY <1>4, <1>5

-----------------------------------------------------------------------------
(* Requests one after the other *)

GivenIn(rs) == {i \in DOMAIN rs : rs[i].status # "deleted"}

LastGiven(rs, m) == m \in GivenIn(rs) /\ \A i \in GivenIn(rs) : i <= m

Stays == "leave" \notin world.may

\* Who is due: while an undo is on its way, whoever had the turn it takes back.
DueFor(l, st) == IF l.pc \in {"restore", "reread", "index"} THEN l.heir ELSE Due(st)

\* What the one process at work knows, of the rotation st, the rows rs and the
\* members ms.
Knows(l, st, rs, ms) ==
    /\ l.pc = "idle" => l = Idle
    /\ l.pc \notin {"advance", "assign", "insert", "assignee"}
    /\ l.pc = "state" => l.op = "finish"
    /\ l.pc \in {"state", "update", "commit"} => rs[l.row].status = "pending"
    /\ l.pc = "update" => l.user = rs[l.row].user
    /\ l.pc = "commit" => l.user = Due(st) /\ l.next = Advanced(st)
    /\ l.pc \in {"successor", "delete", "restore"} =>
          /\ l.row \in FinishedIn(rs) /\ l.user = rs[l.row].user
          /\ \A i \in FinishedIn(rs) : i <= l.row
    /\ l.pc = "delete" => LastGiven(rs, l.other) /\ l.heir = rs[l.other].user
    /\ l.pc = "restore" => l.other # 0
    /\ l.pc = "index" => l.next = [st EXCEPT !.index = IndexOf(st.order, l.heir)]
    /\ l.pc \in {"rotation", "sync"} => l.seen = ms
    /\ l.pc = "sync" => l.next = Reconciled(st, ms)

\* The order and the members.
Home(l, st, rs, ms, stays) ==
    /\ InRange(st)
    /\ stays => ToSet(st.order) \subseteq ms
    /\ ~stays => ms \subseteq ToSet(st.order)
    /\ l.op # "sync" => ms = ToSet(st.order)
    /\ \A i \in GivenIn(rs) : rs[i].since \subseteq ms

\* The last turn is pending, but just before an undo opens it again.
Turns(l, rs) ==
    \E m \in GivenIn(rs) :
       /\ LastGiven(rs, m)
       /\ \A i \in GivenIn(rs) : i # m => rs[i].status \in Finished
       /\ IF l.pc = "restore" THEN rs[m].status \in Finished ELSE rs[m].status = "pending"

View(l, st, rs, ms, stays) ==
    /\ Knows(l, st, rs, ms) /\ Home(l, st, rs, ms, stays) /\ Turns(l, rs)
    /\ Fairly(GivenIn(rs), rs, st.order, DueFor(l, st), stays)

\* What a step of p has to establish.
Moved(p) == \E l : Become(p, l) /\ View(l, state', rows', members', Stays)

\* A step that only reads.
LEMMA ViewReads ==
  ASSUME Sound, NEW p \in Procs, View(proc[p], state, rows, members, Stays),
         UNCHANGED <<world, members, state, rows>>,
         NEW l, Become(p, l), Knows(l, state, rows, members),
         proc[p].op = "sync" => l.op = "sync" \/ members = ToSet(state.order),
         l.pc # "restore", proc[p].pc # "restore",
         DueFor(l, state) = DueFor(proc[p], state)
  PROVE  Moved(p)
<1>1. Home(l, state, rows, members, Stays)
  BY DEF View, Home
<1>2. Turns(l, rows)
  BY DEF View, Turns
<1>3. View(l, state, rows, members, Stays)
  BY <1>1, <1>2 DEF View
<1>4. View(l, state', rows', members', Stays)
  BY <1>3
<1> QED BY <1>4 DEF Moved

LEMMA IdleKnows ==
  ASSUME NEW st, NEW rs, NEW ms
  PROVE  Knows(Idle, st, rs, ms)
BY DEF Knows, Idle

\* A request that ends without writing.
LEMMA ViewEnds ==
  ASSUME Sound, NEW p \in Procs, View(proc[p], state, rows, members, Stays), Finish(p),
         UNCHANGED <<world, members, state, rows>>,
         proc[p].op = "sync" => members = ToSet(state.order),
         proc[p].pc \notin {"restore", "reread", "index"}
  PROVE  Moved(p)
<1>1. Become(p, Idle) /\ Idle.op = "none" /\ Idle.pc = "idle"
  BY DEF Finish, Idle
<1>2. DueFor(Idle, state) = DueFor(proc[p], state)
  BY <1>1 DEF DueFor
<1> QED BY <1>1, <1>2, IdleKnows, ViewReads

\* There is a turn pending, the last one given.
LEMMA OneIsPending ==
  ASSUME Sound, NEW l, View(l, state, rows, members, Stays), l.pc # "restore"
  PROVE  /\ PendingIn(rows) # {}
         /\ \A i \in PendingIn(rows) : LastGiven(rows, i) /\ i \in 1..Len(rows)
         /\ \A i \in PendingIn(rows) : \A k \in GivenIn(rows) : k # i => rows[k].status \in Finished
<1>1. PICK m \in GivenIn(rows) :
         /\ LastGiven(rows, m) /\ rows[m].status = "pending"
         /\ \A i \in GivenIn(rows) : i # m => rows[i].status \in Finished
  BY DEF View, Turns
<1>2. m \in PendingIn(rows)
  BY <1>1 DEF PendingIn, GivenIn
<1>3. ASSUME NEW i \in PendingIn(rows) PROVE i = m /\ i \in 1..Len(rows)
  BY <1>1 DEF PendingIn, GivenIn, Finished, Sound, RowsOK
<1> QED BY <1>1, <1>2, <1>3

LEMMA ViewStart ==
  ASSUME Sound, Undisturbed, NEW p \in Procs, View(proc[p], state, rows, members, Stays),
         NEW op \in Operations, Start(p, op)
  PROVE  Moved(p)
<1> DEFINE l == [Idle EXCEPT !.op = op, !.pc = IF op = "undo" THEN "list" ELSE "pending"]
<1>1. /\ Become(p, l) /\ UNCHANGED <<world, members, state, rows>> /\ proc[p].pc = "idle"
  BY DEF Start, Free, InPhase
<1>2. l.pc \in {"list", "pending"} /\ l.op = op /\ op # "sync"
  BY DEF Idle, Operations
<1> HIDE DEF l
<1>3. Knows(l, state, rows, members)
  BY <1>2 DEF Knows
<1>4. proc[p].op # "sync"
  BY <1>1 DEF View, Knows, Idle
<1>5. DueFor(l, state) = DueFor(proc[p], state)
  BY <1>1, <1>2 DEF DueFor
<1> QED BY <1>1, <1>2, <1>3, <1>4, <1>5, ViewReads

LEMMA ViewReadPending ==
  ASSUME Sound, Undisturbed, NEW p \in Procs, View(proc[p], state, rows, members, Stays),
         ReadPending(p)
  PROVE  Moved(p)
<1>1. /\ proc[p].pc = "pending" /\ proc[p].op \in {"finish", "reschedule", "reassign"}
      /\ UNCHANGED <<world, members, state, rows>>
  BY DEF ReadPending, InPhase
<1>2. CASE Finish(p)
  BY <1>1, <1>2, ViewEnds
<1>3. CASE ~Finish(p)
  <2> DEFINE pc == CASE proc[p].op = "finish" -> "state"
                     [] proc[p].op = "reschedule" -> "update"
                     [] proc[p].op = "reassign" -> "assignee"
             l(i) == [proc[p] EXCEPT !.row = i, !.user = rows[i].user, !.pc = pc]
  <2>1. PICK i \in PendingIn(rows) : Become(p, l(i))
    BY <1>3 DEF ReadPending
  <2>2. proc[p].op # "reassign"
    BY <1>1, AProcess DEF Works, Undisturbed
  <2>3. pc \in {"state", "update"} /\ (pc = "state" => proc[p].op = "finish")
    BY <1>1, <2>2
  <2> HIDE DEF pc
  <2>4. /\ l(i).pc = pc /\ l(i).op = proc[p].op /\ l(i).row = i /\ l(i).user = rows[i].user
    BY AProcess DEF Local
  <2> HIDE DEF l
  <2>5. Knows(l(i), state, rows, members)
    BY <2>1, <2>3, <2>4 DEF Knows, PendingIn
  <2>6. DueFor(l(i), state) = DueFor(proc[p], state)
    BY <1>1, <2>3, <2>4 DEF DueFor
  <2> QED BY <1>1, <2>1, <2>3, <2>4, <2>5, <2>6, ViewReads
<1> QED BY <1>2, <1>3

LEMMA ViewReadNoPending ==
  ASSUME Sound, Undisturbed, NEW p \in Procs, View(proc[p], state, rows, members, Stays),
         ReadNoPending(p)
  PROVE  Moved(p)
<1>1. /\ proc[p].pc = "pending" /\ proc[p].op \in {"rotate", "schedule"}
      /\ UNCHANGED <<world, members, state, rows>>
  BY DEF ReadNoPending, InPhase
<1>2. PendingIn(rows) # {}
  BY <1>1, OneIsPending
<1>3. Finish(p)
  BY <1>2 DEF ReadNoPending
<1> QED BY <1>1, <1>3, ViewEnds

LEMMA ViewReadState ==
  ASSUME Sound, Undisturbed, NEW p \in Procs, View(proc[p], state, rows, members, Stays),
         ReadState(p)
  PROVE  Moved(p)
<1> DEFINE pc == IF proc[p].op = "finish" THEN "commit" ELSE "advance"
           l == [proc[p] EXCEPT !.next = Advanced(state), !.user = Due(state), !.pc = pc]
<1>1. InRange(state)
  BY DEF View, Home
<1>2. /\ proc[p].pc = "state" /\ UNCHANGED <<world, members, state, rows>> /\ Become(p, l)
  BY <1>1 DEF ReadState, InPhase
<1>3. proc[p].op = "finish" /\ rows[proc[p].row].status = "pending"
  BY <1>2 DEF View, Knows
<1>4. /\ l.pc = "commit" /\ l.op = "finish" /\ l.row = proc[p].row
      /\ l.next = Advanced(state) /\ l.user = Due(state)
  BY <1>3, AProcess DEF Local
<1> HIDE DEF l
<1>5. Knows(l, state, rows, members)
  BY <1>3, <1>4 DEF Knows
<1>6. DueFor(l, state) = DueFor(proc[p], state)
  BY <1>2, <1>4 DEF DueFor
<1> QED BY <1>2, <1>3, <1>4, <1>5, <1>6, ViewReads

LEMMA ViewListFinished ==
  ASSUME Sound, Undisturbed, NEW p \in Procs, View(proc[p], state, rows, members, Stays),
         ListFinished(p)
  PROVE  Moved(p)
<1>1. proc[p].pc = "list" /\ UNCHANGED <<world, members, state, rows>>
  BY DEF ListFinished, InPhase
<1>2. proc[p].op = "undo"
  BY <1>1, AProcess DEF Works
<1>3. CASE FinishedIn(rows) = {}
  BY <1>1, <1>2, <1>3, ViewEnds DEF ListFinished
<1>4. CASE FinishedIn(rows) # {}
  <2> DEFINE i == Max(FinishedIn(rows))
             l == [proc[p] EXCEPT !.pc = "successor", !.row = i, !.user = rows[i].user]
  <2>1. Become(p, l)
    BY <1>4 DEF ListFinished
  <2>2. i \in FinishedIn(rows) /\ \A k \in FinishedIn(rows) : k <= i
    <3>1. FinishedIn(rows) \in SUBSET (1..Len(rows)) /\ Len(rows) \in Nat
      BY DEF FinishedIn, Sound, RowsOK
    <3> HIDE DEF i
    <3> QED BY <1>4, <3>1, MaxWithin DEF i
  <2> HIDE DEF i
  <2>3. l.pc = "successor" /\ l.op = "undo" /\ l.row = i /\ l.user = rows[i].user
    BY <1>2, AProcess DEF Local
  <2> HIDE DEF l
  <2>4. Knows(l, state, rows, members)
    BY <2>2, <2>3 DEF Knows
  <2>5. DueFor(l, state) = DueFor(proc[p], state)
    BY <1>1, <2>3 DEF DueFor
  <2> QED BY <1>1, <1>2, <2>1, <2>3, <2>4, <2>5, ViewReads
<1> QED BY <1>3, <1>4

LEMMA ViewReadSuccessor ==
  ASSUME Sound, Undisturbed, NEW p \in Procs, View(proc[p], state, rows, members, Stays),
         ReadSuccessor(p)
  PROVE  Moved(p)
<1> DEFINE l(i) == [proc[p] EXCEPT !.pc = "delete", !.other = i, !.heir = rows[i].user]
<1>1. proc[p].pc = "successor" /\ UNCHANGED <<world, members, state, rows>>
  BY DEF ReadSuccessor, InPhase
<1>2. proc[p].op = "undo"
  BY <1>1, AProcess DEF Works
<1>3. /\ proc[p].row \in FinishedIn(rows) /\ proc[p].user = rows[proc[p].row].user
      /\ \A i \in FinishedIn(rows) : i <= proc[p].row
  BY <1>1 DEF View, Knows
<1>4. /\ PendingIn(rows) # {} /\ \A i \in PendingIn(rows) : LastGiven(rows, i)
  BY <1>1, OneIsPending
<1>5. proc[p].row \notin PendingIn(rows)
  BY <1>3 DEF PendingIn, FinishedIn, Finished
<1>6. PICK i \in PendingIn(rows) : Become(p, l(i))
  BY <1>4, <1>5 DEF ReadSuccessor
<1>7. i \in Nat
  BY DEF PendingIn, Sound, RowsOK
<1>8. /\ l(i).pc = "delete" /\ l(i).op = "undo" /\ l(i).row = proc[p].row /\ l(i).user = proc[p].user
      /\ l(i).other = i /\ l(i).heir = rows[i].user
  BY <1>2, AProcess DEF Local
<1> HIDE DEF l
<1>9. Knows(l(i), state, rows, members)
  BY <1>3, <1>4, <1>6, <1>8 DEF Knows
<1>10. DueFor(l(i), state) = DueFor(proc[p], state)
  BY <1>1, <1>8 DEF DueFor
<1> QED BY <1>1, <1>2, <1>6, <1>8, <1>9, <1>10, ViewReads

LEMMA ViewReread ==
  ASSUME Sound, Undisturbed, NEW p \in Procs, View(proc[p], state, rows, members, Stays),
         Reread(p)
  PROVE  Moved(p)
<1> DEFINE s == [state EXCEPT !.index = IndexOf(state.order, proc[p].heir)]
           l == [proc[p] EXCEPT !.pc = "index", !.next = s]
<1>1. /\ proc[p].pc = "reread" /\ UNCHANGED <<world, members, state, rows>>
      /\ Become(p, l)
  BY DEF Reread, InPhase
<1>2. l.pc = "index" /\ l.op = proc[p].op /\ l.heir = proc[p].heir /\ l.next = s
  BY AProcess DEF Local
<1> HIDE DEF l
<1>3. Knows(l, state, rows, members)
  BY <1>2 DEF Knows
<1>4. DueFor(l, state) = DueFor(proc[p], state)
  BY <1>1, <1>2 DEF DueFor
<1> QED BY <1>1, <1>2, <1>3, <1>4, ViewReads

LEMMA ViewListMembers ==
  ASSUME Sound, Undisturbed, NEW p \in Procs, View(proc[p], state, rows, members, Stays),
         ListMembers(p)
  PROVE  Moved(p)
<1> DEFINE l == [proc[p] EXCEPT !.pc = "rotation", !.seen = members]
<1>1. /\ proc[p].pc = "members" /\ UNCHANGED <<world, members, state, rows>>
      /\ Become(p, l)
  BY DEF ListMembers, InPhase
<1>2. l.pc = "rotation" /\ l.op = proc[p].op /\ l.seen = members
  BY AProcess DEF Local
<1> HIDE DEF l
<1>3. Knows(l, state, rows, members)
  BY <1>2 DEF Knows
<1>4. DueFor(l, state) = DueFor(proc[p], state)
  BY <1>1, <1>2 DEF DueFor
<1> QED BY <1>1, <1>2, <1>3, <1>4, ViewReads

LEMMA ViewReadRotation ==
  ASSUME Sound, Undisturbed, NEW p \in Procs, View(proc[p], state, rows, members, Stays),
         ReadRotation(p)
  PROVE  Moved(p)
<1> DEFINE next == Reconciled(state, proc[p].seen)
           l == [proc[p] EXCEPT !.pc = "sync", !.read = state, !.next = next]
<1>1. proc[p].pc = "rotation" /\ UNCHANGED <<world, members, state, rows>>
  BY DEF ReadRotation, InPhase
<1>2. proc[p].seen = members
  BY <1>1 DEF View, Knows
<1>3. CASE next = state
  <2>1. Finish(p)
    BY <1>3 DEF ReadRotation
  <2>2. members = ToSet(state.order)
    <3>1. ToSet(Reconciled(state, members).order) = members
      BY MembersAre, Rebuilding DEF Sound
    <3> QED BY <1>2, <1>3, <3>1
  <2> QED BY <1>1, <2>1, <2>2, ViewEnds
<1>4. CASE next # state
  <2>1. Become(p, l)
    BY <1>4 DEF ReadRotation
  <2>2. l.pc = "sync" /\ l.op = proc[p].op /\ l.seen = members /\ l.next = Reconciled(state, members)
    BY <1>2, AProcess DEF Local
  <2> HIDE DEF l
  <2>3. Knows(l, state, rows, members)
    BY <2>2 DEF Knows
  <2>4. DueFor(l, state) = DueFor(proc[p], state)
    BY <1>1, <2>2 DEF DueFor
  <2> QED BY <1>1, <2>1, <2>2, <2>3, <2>4, ViewReads
<1> QED BY <1>3, <1>4

LEMMA ViewCommit ==
  ASSUME Sound, Undisturbed, NEW p \in Procs, View(proc[p], state, rows, members, Stays),
         Commit(p)
  PROVE  Moved(p)
<1> DEFINE n == Len(rows)
           i == proc[p].row
           o == state.order
           g == GivenIn(rows)
<1>1. proc[p].pc = "commit" /\ Finish(p) /\ UNCHANGED <<world, members>>
  BY DEF Commit, InPhase
<1>2. proc[p].op = "finish"
  BY <1>1, AProcess DEF Works
<1>3. CASE rows' = rows /\ state' = state
  BY <1>1, <1>2, <1>3, ViewEnds
<1>4. CASE TurnPasses(p) /\ state' = proc[p].next
  <2>1. /\ i \in 1..n /\ rows[i].status = "pending"
        /\ rows' \in Seq(Row) /\ Len(rows') = n + 1
        /\ \A k \in 1..n : /\ rows'[k].user = rows[k].user /\ rows'[k].since = rows[k].since
                           /\ k # i => rows'[k].status = rows[k].status
        /\ rows'[i].status \in Finished
        /\ rows'[n + 1].user = proc[p].user /\ rows'[n + 1].status = "pending"
        /\ rows'[n + 1].since = members
    BY <1>4 DEF TurnPasses, Present, Undisturbed
  <2>2. /\ proc[p].user = Due(state) /\ proc[p].next = Advanced(state)
        /\ InRange(state) /\ members = ToSet(o)
        /\ \A k \in g : rows[k].since \subseteq members
        /\ Fairly(g, rows, o, Due(state), Stays)
    BY <1>1, <1>2 DEF View, Knows, Home, DueFor
  <2>3. /\ Good(state) /\ state \in Rotation /\ o \in Seq(Users) /\ IsInjective(o)
        /\ rows \in Seq(Row) /\ n \in Nat
    BY DEF Sound, Good, Rotation, RowsOK
  <2>4. /\ Due(state) \in ToSet(o) /\ InRange(Advanced(state)) /\ Advanced(state).order = o
        /\ Advanced(state) \in Rotation
        /\ Passes(o, Due(state), Due(Advanced(state)))
    BY <2>2, <2>3, DueAndNext
  <2>5. Due(Advanced(state)) \in ToSet(o)
    BY <2>3, <2>4, DueAndNext
  <2>6. Line(o)
    BY <2>3, IsLine
  <2>7. /\ g \subseteq 1..n /\ g \subseteq Nat /\ \A k \in g : k < n + 1
        /\ \A k \in 1..n : k \in g <=> rows[k].status # "deleted"
    BY <2>3 DEF GivenIn
  <2>8. GivenIn(rows') = g \cup {n + 1}
    <3>1. \A k \in 1..n : rows'[k].status # "deleted" <=> rows[k].status # "deleted"
      BY <2>1 DEF Finished
    <3>2. \A k : k \in GivenIn(rows') <=> k \in 1..(n + 1) /\ rows'[k].status # "deleted"
      BY <2>1 DEF GivenIn
    <3>3. \A k : k \in 1..(n + 1) <=> k \in 1..n \/ k = n + 1
      BY <2>3
    <3> HIDE DEF n, g
    <3> QED BY <2>1, <2>7, <3>1, <3>2, <3>3
  <2>9. Fairly(g \cup {n + 1}, rows', o, Due(Advanced(state)), Stays)
    <3>1. \A k \in g : rows'[k].user = rows[k].user /\ rows'[k].since = rows[k].since
      BY <2>1, <2>7
    <3>2. n + 1 \in Nat
      BY <2>3
    <3>3. Stays \in BOOLEAN
      BY DEF Stays
    <3>4. rows'[n + 1].user = Due(state) /\ rows'[n + 1].since \subseteq ToSet(o)
      BY <2>1, <2>2
    <3>5. TakesTurn(g, rows, o, Due(state), Due(Advanced(state)), n + 1, rows')
      BY <2>4, <2>5, <2>6, <2>7, <3>1, <3>2, <3>4 DEF TakesTurn
    <3> HIDE DEF g, n, o
    <3> QED BY <2>2, <3>3, <3>5, FairTurn
  <2>10. Turns(Idle, rows')
    <3>1. LastGiven(rows', n + 1)
      <4>1. \A k \in g : k <= n + 1
        BY <2>3, <2>7
      <4> HIDE DEF n, g
      <4> QED BY <2>3, <2>8, <4>1 DEF LastGiven
    <3>2. i \in PendingIn(rows)
      BY <2>1, <2>3 DEF PendingIn
    <3>3. \A k \in g : k # i => rows[k].status \in Finished
      BY <1>1, <3>2, OneIsPending
    <3>4. \A k \in g : rows'[k].status \in Finished
      BY <2>1, <2>7, <3>3
    <3>5. \A k \in GivenIn(rows') : k # n + 1 => rows'[k].status \in Finished
      BY <2>8, <3>4
    <3>6. n + 1 \in GivenIn(rows') /\ Idle.pc # "restore"
      BY <2>8 DEF Idle
    <3> QED BY <2>1, <3>1, <3>5, <3>6 DEF Turns
  <2>11. Home(Idle, state', rows', members', Stays)
    <3>1. \A k \in GivenIn(rows') : rows'[k].since \subseteq members
      BY <2>1, <2>2, <2>7, <2>8
    <3>2. InRange(state') /\ state'.order = o /\ members' = ToSet(o)
      BY <1>1, <1>4, <2>2, <2>4
    <3> QED BY <1>1, <3>1, <3>2 DEF Home
  <2>12. Fairly(GivenIn(rows'), rows', state'.order, DueFor(Idle, state'), Stays)
    <3>1. DueFor(Idle, state') = Due(Advanced(state))
      BY <1>4, <2>2 DEF DueFor, Idle
    <3> QED BY <1>4, <2>2, <2>4, <2>8, <2>9, <3>1
  <2>13. View(Idle, state', rows', members', Stays)
    BY <2>10, <2>11, <2>12, IdleKnows DEF View
  <2> QED BY <1>1, <2>13 DEF Moved, Finish
<1> QED BY <1>3, <1>4, CommitTurns

\* A step that only changes the status of a turn that is given and stays given.
LEMMA ViewMarks ==
  ASSUME Sound, NEW p \in Procs, View(proc[p], state, rows, members, Stays),
         UNCHANGED <<world, members, state>>, GivenIn(rows') = GivenIn(rows),
         \A i \in GivenIn(rows) : rows'[i].user = rows[i].user /\ rows'[i].since = rows[i].since,
         NEW l, Become(p, l), Knows(l, state, rows', members), Turns(l, rows'),
         proc[p].op # "sync", DueFor(l, state) = DueFor(proc[p], state)
  PROVE  Moved(p)
<1>1. Home(l, state, rows', members, Stays)
  BY DEF View, Home
<1>2. Stays \in BOOLEAN /\ Fairly(GivenIn(rows), rows, state.order, DueFor(l, state), Stays)
  BY DEF Stays, View
<1>3. Fairly(GivenIn(rows), rows', state.order, DueFor(l, state), Stays)
  BY <1>2, FairSame
<1>4. View(l, state', rows', members', Stays)
  BY <1>1, <1>3 DEF View
<1> QED BY <1>4 DEF Moved

LEMMA WrittenTurn ==
  ASSUME Sound, NEW p \in Procs, TurnWritten(p),
         proc[p].user = rows[proc[p].row].user
  PROVE  /\ GivenIn(rows') = GivenIn(rows)
         /\ \A k \in GivenIn(rows) : rows'[k].user = rows[k].user /\ rows'[k].since = rows[k].since
<1> DEFINE i == proc[p].row
<1>1. /\ i \in 1..Len(rows) /\ rows' \in Seq(Row) /\ Len(rows') = Len(rows)
      /\ rows[i].status # "deleted"
      /\ rows'[i].user = rows[i].user /\ rows'[i].status = "pending" /\ rows'[i].since = rows[i].since
      /\ \A k \in 1..Len(rows) : k # i => rows'[k] = rows[k]
  BY DEF TurnWritten
<1>2. \A k \in 1..Len(rows) : /\ rows'[k].user = rows[k].user /\ rows'[k].since = rows[k].since
                              /\ rows'[k].status # "deleted" <=> rows[k].status # "deleted"
  BY <1>1
<1>3. DOMAIN rows = 1..Len(rows) /\ DOMAIN rows' = 1..Len(rows)
  BY <1>1 DEF Sound, RowsOK
<1> QED BY <1>2, <1>3 DEF GivenIn

LEMMA ViewReschedule ==
  ASSUME Sound, Undisturbed, NEW p \in Procs, View(proc[p], state, rows, members, Stays),
         Reschedule(p)
  PROVE  Moved(p)
<1> DEFINE i == proc[p].row
<1>1. /\ proc[p].pc = "update" /\ Finish(p) /\ UNCHANGED <<world, members, state>>
  BY DEF Reschedule, InPhase
<1>2. /\ proc[p].op # "sync" /\ proc[p].user = rows[i].user /\ rows[i].status = "pending"
  BY <1>1, AProcess DEF Works, View, Knows
<1>3. CASE rows' = rows
  BY <1>1, <1>2, <1>3, ViewEnds
<1>4. CASE TurnWritten(p)
  <2>1. /\ GivenIn(rows') = GivenIn(rows)
        /\ \A k \in GivenIn(rows) : rows'[k].user = rows[k].user /\ rows'[k].since = rows[k].since
    BY <1>2, <1>4, WrittenTurn
  <2>2. i \in PendingIn(rows)
    BY <1>2, <1>4 DEF TurnWritten, PendingIn, Sound, RowsOK
  <2>3. /\ LastGiven(rows, i) /\ \A k \in GivenIn(rows) : k # i => rows[k].status \in Finished
    BY <1>1, <2>2, OneIsPending
  <2>4. Turns(Idle, rows')
    <3>1. rows'[i].status = "pending" /\ \A k \in 1..Len(rows) : k # i => rows'[k] = rows[k]
      BY <1>4 DEF TurnWritten
    <3>2. GivenIn(rows) \subseteq 1..Len(rows) /\ i \in GivenIn(rows)
      BY <2>3 DEF GivenIn, LastGiven, Sound, RowsOK
    <3>3. LastGiven(rows', i)
      BY <2>1, <2>3 DEF LastGiven
    <3> QED BY <2>1, <2>3, <3>1, <3>2, <3>3 DEF Turns, Idle
  <2>5. Become(p, Idle) /\ DueFor(Idle, state) = DueFor(proc[p], state)
    BY <1>1 DEF Finish, DueFor, Idle
  <2> QED BY <1>1, <1>2, <2>1, <2>4, <2>5, IdleKnows, ViewMarks
<1> QED BY <1>3, <1>4, WriteTurns

LEMMA ViewRestore ==
  ASSUME Sound, Undisturbed, NEW p \in Procs, View(proc[p], state, rows, members, Stays),
         Restore(p)
  PROVE  Moved(p)
<1> DEFINE i == proc[p].row
           n == Len(rows)
           l == [proc[p] EXCEPT !.pc = "reread"]
           written == [rows EXCEPT ![i] = [@ EXCEPT !.user = proc[p].user, !.status = "pending"]]
<1>1. /\ proc[p].pc = "restore" /\ UNCHANGED <<world, members, state>>
      /\ WriteRow(i, proc[p].user)
      /\ (proc[p].other # 0 /\ PendingIn(rows') = {i}) => Goto(p, "reread")
  BY DEF Restore, InPhase
<1>2. /\ i \in FinishedIn(rows) /\ proc[p].user = rows[i].user
      /\ \A k \in FinishedIn(rows) : k <= i
      /\ proc[p].other # 0
  BY <1>1 DEF View, Knows
<1>3. proc[p].op = "undo"
  BY <1>1, AProcess DEF Works
<1>4. /\ rows \in Seq(Row) /\ n \in Nat /\ DOMAIN rows = 1..n /\ n <= world.rows /\ i \in 1..n
      /\ rows[i] \in Row
  BY <1>2 DEF Sound, RowsOK, FinishedIn
<1>5. /\ \A k \in GivenIn(rows) : rows[k].status \in Finished
      /\ LastGiven(rows, i)
  <2>1. PICK m \in GivenIn(rows) :
           /\ LastGiven(rows, m) /\ rows[m].status \in Finished
           /\ \A k \in GivenIn(rows) : k # m => rows[k].status \in Finished
    BY <1>1 DEF View, Turns
  <2>2. \A k \in GivenIn(rows) : rows[k].status \in Finished /\ k \in FinishedIn(rows)
    BY <2>1 DEF GivenIn, FinishedIn
  <2>3. i \in GivenIn(rows)
    BY <1>2 DEF GivenIn, FinishedIn, Finished
  <2>4. LastGiven(rows, i)
    BY <1>2, <2>2, <2>3 DEF LastGiven
  <2> QED BY <2>2, <2>4
<1>6. /\ written \in Seq(Row) /\ Len(written) = n
      /\ written[i].status = "pending"
      /\ \A k \in 1..n : k # i => written[k] = rows[k]
  <2> DEFINE r == [rows[i] EXCEPT !.user = proc[p].user, !.status = "pending"]
  <2>1. r \in Row /\ r.status = "pending"
    BY <1>1, <1>4, AProcess DEF Row, Statuses, Works
  <2>2. written = [rows EXCEPT ![i] = r]
    OBVIOUS
  <2> HIDE DEF r, written
  <2> QED BY <1>4, <2>1, <2>2, Rewriting
<1>7. rows[i].status # "deleted"
  BY <1>2 DEF FinishedIn, Finished
<1> HIDE DEF written, n
<1>8. PendingIn(written) = {i}
  <2>1. \A k \in 1..n : written[k].status = "pending" <=> k = i
    <3>1. \A k \in 1..n : rows[k].status # "pending"
      BY <1>4, <1>5 DEF GivenIn, Finished
    <3> QED BY <1>6, <3>1
  <2>2. DOMAIN written = 1..n
    BY <1>6
  <2> QED BY <1>4, <2>1, <2>2 DEF PendingIn
<1>9. Unique(written)
  <2>1. Cardinality({i}) = 1
    BY FS_Singleton
  <2> QED BY <1>4, <1>6, <1>8, <2>1 DEF Unique
<1>10. rows' = written
  BY <1>1, <1>7, <1>9 DEF WriteRow, written
<1>11. Goto(p, "reread")
  BY <1>1, <1>2, <1>8, <1>10
<1>12. TurnWritten(p)
  <2>1. rows' = rows \/ TurnWritten(p)
    BY WriteTurns
  <2>2. rows' # rows
    <3>1. rows'[i].status = "pending" /\ rows[i].status # "pending"
      BY <1>2, <1>6, <1>10 DEF FinishedIn, Finished
    <3> QED BY <3>1
  <2> QED BY <2>1, <2>2
<1>13. /\ GivenIn(rows') = GivenIn(rows)
       /\ \A k \in GivenIn(rows) : rows'[k].user = rows[k].user /\ rows'[k].since = rows[k].since
  BY <1>2, <1>12, WrittenTurn
<1>14. /\ Become(p, l) /\ l.pc = "reread" /\ l.op = "undo" /\ l.heir = proc[p].heir
  BY <1>3, <1>11, AProcess DEF Goto, Local
<1> HIDE DEF l
<1>15. Turns(l, rows')
  <2>1. LastGiven(rows', i)
    BY <1>5, <1>13 DEF LastGiven
  <2>2. GivenIn(rows) \subseteq 1..n
    BY <1>4 DEF GivenIn
  <2>3. \A k \in GivenIn(rows') : k # i => rows'[k].status \in Finished
    BY <1>5, <1>6, <1>10, <1>13, <2>2
  <2> QED BY <1>6, <1>10, <1>14, <2>1, <2>3 DEF Turns, LastGiven
<1>16. Knows(l, state, rows', members)
  BY <1>14 DEF Knows
<1>17. DueFor(l, state) = DueFor(proc[p], state)
  BY <1>1, <1>14 DEF DueFor
<1> QED BY <1>1, <1>3, <1>13, <1>14, <1>15, <1>16, <1>17, ViewMarks

LEMMA ViewDeleteSuccessor ==
  ASSUME Sound, Undisturbed, NEW p \in Procs, View(proc[p], state, rows, members, Stays),
         DeleteSuccessor(p)
  PROVE  Moved(p)
<1> DEFINE m == proc[p].other
           i == proc[p].row
           n == Len(rows)
           g == GivenIn(rows)
           o == state.order
           l == [proc[p] EXCEPT !.pc = "restore"]
<1>1. proc[p].pc = "delete" /\ UNCHANGED <<world, members, state>>
  BY DEF DeleteSuccessor, InPhase
<1>2. /\ LastGiven(rows, m) /\ proc[p].heir = rows[m].user
      /\ i \in FinishedIn(rows) /\ proc[p].user = rows[i].user
      /\ \A k \in FinishedIn(rows) : k <= i
  BY <1>1 DEF View, Knows
<1>3. proc[p].op = "undo" /\ "undo" \in world.may
  BY <1>1, AProcess DEF Works
<1>4. Stays = TRUE
  BY <1>3 DEF Stays, Undisturbed
<1>5. rows[m].status # "deleted"
  BY <1>2 DEF LastGiven, GivenIn
<1>6. Goto(p, "restore") /\ rows' = [rows EXCEPT ![m].status = "deleted"]
  BY <1>5 DEF DeleteSuccessor
<1>7. TurnDeleted(p)
  <2>1. rows' = rows \/ TurnDeleted(p)
    BY DeleteTurns
  <2>2. rows' # rows
    <3>1. m \in DOMAIN rows /\ rows[m] \in Row
      BY <1>1, AProcess DEF Works, Sound, RowsOK
    <3>2. rows'[m].status = "deleted"
      BY <1>6, <3>1 DEF Row
    <3> QED BY <1>5, <3>2
  <2> QED BY <2>1, <2>2
<1>8. /\ m \in 1..n /\ rows' \in Seq(Row) /\ Len(rows') = n
      /\ rows'[m].status = "deleted"
      /\ \A k \in 1..n : k # m => rows'[k] = rows[k]
  BY <1>7 DEF TurnDeleted
<1>9. rows \in Seq(Row) /\ n \in Nat /\ DOMAIN rows = 1..n /\ DOMAIN rows' = 1..n
  BY <1>8 DEF Sound, RowsOK
<1>10. /\ g \subseteq 1..n /\ g \subseteq Nat /\ m \in g /\ \A k \in g : k <= m
  BY <1>2, <1>9 DEF GivenIn, LastGiven
<1>11. GivenIn(rows') = g \ {m}
  BY <1>8, <1>9 DEF GivenIn
<1>12. /\ \A k \in g : k # m => rows'[k] = rows[k]
       /\ \A k \in g : k # m => rows[k].status \in Finished
  <2>1. PICK a \in g : LastGiven(rows, a) /\ \A k \in g : k # a => rows[k].status \in Finished
    BY DEF View, Turns
  <2>2. a = m
    <3>1. a <= m /\ m <= a /\ a \in Nat /\ m \in Nat
      BY <1>2, <1>10, <2>1 DEF LastGiven
    <3> QED BY <3>1
  <2> QED BY <1>8, <1>10, <2>1, <2>2
<1>13. /\ Become(p, l) /\ l.pc = "restore" /\ l.op = "undo" /\ l.row = i /\ l.user = proc[p].user
       /\ l.heir = rows[m].user /\ l.other = m
  BY <1>2, <1>3, <1>6, AProcess DEF Goto, Local
<1> HIDE DEF l
<1>14. rows[m].status = "pending"
  <2>1. PendingIn(rows) # {} /\ \A k \in PendingIn(rows) : LastGiven(rows, k)
    BY <1>1, OneIsPending
  <2>2. PICK k \in PendingIn(rows) : LastGiven(rows, k)
    BY <2>1
  <2>3. k = m
    <3>1. k <= m /\ m <= k /\ k \in Nat /\ m \in Nat
      BY <1>2, <1>10, <2>2 DEF LastGiven
    <3> QED BY <3>1
  <2> QED BY <2>3 DEF PendingIn
<1>15. i # m /\ i \in g /\ FinishedIn(rows') = g \ {m} /\ FinishedIn(rows) = g \ {m}
  <2>1. i # m
    BY <1>2, <1>14 DEF FinishedIn, Finished
  <2>2. \A k : k \in FinishedIn(rows) <=> k \in g /\ k # m
    <3>1. \A k : k \in FinishedIn(rows) => k \in g /\ k # m
      BY <1>14 DEF FinishedIn, Finished, GivenIn
    <3>2. \A k : k \in g /\ k # m => k \in FinishedIn(rows)
      BY <1>12 DEF FinishedIn, GivenIn
    <3> QED BY <3>1, <3>2
  <2>3. \A k : k \in FinishedIn(rows') <=> k \in g /\ k # m
    <3>1. ASSUME NEW k \in FinishedIn(rows') PROVE k \in g /\ k # m
      <4>1. k \in 1..n /\ rows'[k].status \in Finished
        BY <1>9 DEF FinishedIn
      <4>2. k # m
        BY <1>8, <4>1 DEF Finished
      <4>3. rows[k].status # "deleted"
        BY <1>8, <4>1, <4>2 DEF Finished
      <4> QED BY <1>9, <4>1, <4>2, <4>3 DEF GivenIn
    <3>2. ASSUME NEW k \in g, k # m PROVE k \in FinishedIn(rows')
      BY <1>9, <1>10, <1>12, <3>2 DEF FinishedIn
    <3> QED BY <3>1, <3>2
  <2>4. i \in g
    BY <1>2, <2>2
  <2> QED BY <2>1, <2>2, <2>3, <2>4
<1>16. Line(o)
  BY IsLine DEF Sound, Good, Rotation
<1>17. Fairly(g \ {m}, rows', o, rows[m].user, TRUE)
  <2>1. Fairly(g, rows, o, Due(state), TRUE)
    BY <1>1, <1>4 DEF View, DueFor
  <2>2. \A k \in g : k # m => rows'[k].user = rows[k].user /\ rows'[k].since = rows[k].since
    BY <1>12
  <2> HIDE DEF g, o, m
  <2> QED BY <1>10, <1>16, <2>1, <2>2, FairUndo
<1>18. Turns(l, rows')
  <2>1. i \in g \ {m} /\ \A k \in g \ {m} : k <= i /\ rows'[k].status \in Finished
    BY <1>2, <1>12, <1>15
  <2>2. LastGiven(rows', i)
    BY <1>11, <2>1 DEF LastGiven
  <2> HIDE DEF g
  <2> QED BY <1>11, <1>13, <2>1, <2>2 DEF Turns
<1>19. Knows(l, state, rows', members)
  <2>1. l.row \in FinishedIn(rows') /\ l.user = rows'[l.row].user /\ \A k \in FinishedIn(rows') : k <= l.row
    BY <1>2, <1>12, <1>13, <1>15
  <2>2. l.other # 0
    BY <1>8, <1>13
  <2> QED BY <1>13, <2>1, <2>2 DEF Knows
<1>20. Home(l, state, rows', members, Stays)
  <2>1. \A k \in GivenIn(rows') : rows'[k].since \subseteq members
    BY <1>11, <1>12 DEF View, Home
  <2> QED BY <1>3, <2>1 DEF View, Home
<1>21. DueFor(l, state) = rows[m].user
  BY <1>13 DEF DueFor
<1>22. View(l, state', rows', members', Stays)
  BY <1>1, <1>4, <1>11, <1>17, <1>18, <1>19, <1>20, <1>21 DEF View
<1> QED BY <1>13, <1>22 DEF Moved

LEMMA ViewRestoreIndex ==
  ASSUME Sound, Undisturbed, NEW p \in Procs, View(proc[p], state, rows, members, Stays),
         RestoreIndex(p)
  PROVE  Moved(p)
<1> DEFINE o == state.order
           v == proc[p].heir
<1>1. proc[p].pc = "index" /\ Become(p, Idle) /\ UNCHANGED <<world, members, rows>>
      /\ state' = proc[p].next
  BY DEF RestoreIndex, InPhase, Finish
<1>2. proc[p].op # "sync"
  BY <1>1, AProcess DEF Works
<1>3. /\ proc[p].next = [state EXCEPT !.index = IndexOf(o, v)]
      /\ members = ToSet(o) /\ \A i \in GivenIn(rows) : rows[i].since \subseteq members
      /\ Fairly(GivenIn(rows), rows, o, v, Stays)
  BY <1>1, <1>2 DEF View, Knows, Home, DueFor
<1>4. v \in ToSet(o)
  BY <1>3 DEF Fairly
<1>5. state \in Rotation /\ o \in Seq(Users) /\ o # << >>
  BY DEF Sound, Good, Rotation
<1>6. IndexOf(o, v) \in 0..(Len(o) - 1) /\ o[IndexOf(o, v) + 1] = v
  BY <1>4, <1>5, Found
<1>7. state'.order = o /\ state'.index = IndexOf(o, v)
  BY <1>1, <1>3, <1>5 DEF Rotation
<1>8. InRange(state') /\ Due(state') = v
  BY <1>5, <1>6, <1>7 DEF InRange, Due
<1>9. Home(Idle, state', rows', members', Stays)
  BY <1>1, <1>3, <1>7, <1>8 DEF Home
<1>10. Turns(Idle, rows')
  BY <1>1 DEF View, Turns, Idle
<1>11. DueFor(Idle, state') = v
  BY <1>8 DEF DueFor, Idle
<1>12. View(Idle, state', rows', members', Stays)
  BY <1>1, <1>3, <1>7, <1>9, <1>10, <1>11, IdleKnows DEF View
<1> QED BY <1>1, <1>12 DEF Moved

\* The request that changes the household, at its first step.
LEMMA Changing ==
  ASSUME NEW l, l = [Idle EXCEPT !.op = "sync", !.pc = "members"],
         NEW st, NEW rs, NEW ms
  PROVE  /\ l.pc = "members" /\ l.op = "sync"
         /\ Knows(l, st, rs, ms) /\ DueFor(l, st) = Due(st)
<1>1. l.pc = "members" /\ l.op = "sync"
  BY DEF Idle
<1> QED BY <1>1 DEF Knows, DueFor

\* Between requests.
LEMMA BetweenRequests ==
  ASSUME NEW p \in Procs, View(proc[p], state, rows, members, Stays), Free(p)
  PROVE  /\ proc[p] = Idle /\ members = ToSet(state.order) /\ InRange(state)
         /\ \A i \in GivenIn(rows) : rows[i].since \subseteq members
         /\ Fairly(GivenIn(rows), rows, state.order, Due(state), Stays)
<1>1. proc[p] = Idle
  BY DEF View, Knows, Free, InPhase
<1>2. proc[p].op # "sync" /\ DueFor(proc[p], state) = Due(state)
  BY <1>1 DEF Idle, DueFor
<1> QED BY <1>1, <1>2 DEF View, Home

LEMMA ViewJoin ==
  ASSUME Sound, Undisturbed, NEW p \in Procs, View(proc[p], state, rows, members, Stays),
         NEW u \in Users, Join(p, u)
  PROVE  Moved(p)
<1> DEFINE l == [Idle EXCEPT !.op = "sync", !.pc = "members"]
<1>1. /\ Free(p) /\ members' = members \cup {u} /\ UNCHANGED <<world, state, rows>> /\ Become(p, l)
  BY DEF Join
<1>2. Stays
  BY DEF Join, Undisturbed, Stays
<1>3. /\ l.pc = "members" /\ l.op = "sync"
      /\ Knows(l, state', rows', members') /\ DueFor(l, state') = Due(state')
  BY Changing
<1> HIDE DEF l
<1>4. Home(l, state', rows', members', Stays)
  BY <1>1, <1>2, <1>3, BetweenRequests DEF Home
<1>5. Turns(l, rows')
  BY <1>1, <1>3, BetweenRequests DEF View, Turns, Idle
<1>6. Fairly(GivenIn(rows'), rows', state'.order, DueFor(l, state'), Stays)
  BY <1>1, <1>3, BetweenRequests
<1> QED BY <1>1, <1>3, <1>4, <1>5, <1>6 DEF Moved, View

LEMMA ViewLeave ==
  ASSUME Sound, Undisturbed, NEW p \in Procs, View(proc[p], state, rows, members, Stays),
         NEW u \in Users, Leave(p, u)
  PROVE  Moved(p)
<1> DEFINE l == [Idle EXCEPT !.op = "sync", !.pc = "members"]
<1>1. /\ Free(p) /\ members' = members \ {u} /\ UNCHANGED <<world, state>> /\ Become(p, l)
  BY DEF Leave
<1>2. Stays = FALSE
  BY DEF Leave, Stays
<1>3. /\ l.pc = "members" /\ l.op = "sync"
      /\ Knows(l, state', rows', members') /\ DueFor(l, state') = Due(state')
  BY Changing
<1> HIDE DEF l
<1>4. /\ rows' \in Seq(Row) /\ Len(rows') = Len(rows)
      /\ \A i \in 1..Len(rows) : /\ rows'[i].user = rows[i].user
                                 /\ rows'[i].status = rows[i].status
                                 /\ rows'[i].since = rows[i].since \ {u}
  BY Leaving DEF Leave
<1>5. DOMAIN rows = 1..Len(rows) /\ DOMAIN rows' = 1..Len(rows)
  BY <1>4 DEF Sound, RowsOK
<1>6. GivenIn(rows') = GivenIn(rows) /\ GivenIn(rows) \subseteq 1..Len(rows)
  BY <1>4, <1>5 DEF GivenIn
<1>7. \A i \in GivenIn(rows) : rows'[i].since \subseteq rows[i].since /\ rows'[i].since \subseteq members'
  BY <1>1, <1>4, <1>6, BetweenRequests
<1>8. Home(l, state', rows', members', Stays)
  BY <1>1, <1>2, <1>3, <1>6, <1>7, BetweenRequests DEF Home
<1>9. Turns(l, rows')
  <2>1. PICK m \in GivenIn(rows) :
           /\ LastGiven(rows, m) /\ rows[m].status = "pending"
           /\ \A i \in GivenIn(rows) : i # m => rows[i].status \in Finished
    BY <1>1, BetweenRequests DEF View, Turns, Idle
  <2>2. LastGiven(rows', m)
    BY <1>6, <2>1 DEF LastGiven
  <2>3. \A i \in GivenIn(rows) : rows'[i].status = rows[i].status
    BY <1>4, <1>6
  <2> QED BY <1>3, <1>6, <2>1, <2>2, <2>3 DEF Turns
<1>10. Fairly(GivenIn(rows), rows', state.order, Due(state), Stays)
  <2>1. \A i \in GivenIn(rows) : rows'[i].user = rows[i].user /\ rows'[i].since \subseteq rows[i].since
    BY <1>4, <1>6, <1>7
  <2>2. Fairly(GivenIn(rows), rows, state.order, Due(state), Stays)
    BY <1>1, BetweenRequests
  <2> QED BY <1>2, <2>1, <2>2, FairSame
<1>11. Fairly(GivenIn(rows'), rows', state'.order, DueFor(l, state'), Stays)
  BY <1>1, <1>3, <1>6, <1>10
<1> QED BY <1>1, <1>3, <1>8, <1>9, <1>11 DEF Moved, View

\* Who is in both orders keeps the place; the next one due is the next one
\* still there.
Rebuilds(g, rs, o, w, t, v, C, stays) ==
    /\ Line(o) /\ Line(t) /\ v \in ToSet(t) /\ C = ToSet(o) \cap ToSet(t)
    /\ \A a, b \in C : Before(t, a, b) <=> Before(o, a, b)
    /\ \/ \A a, b \in C : a = b
       \/ v \in C /\ \A x \in C : ~Serves(o, w, x, v)
    /\ \A i \in g : rs[i].since \subseteq C
    /\ \A i \in g : rs[i].user \in ToSet(t) => rs[i].user \in C
    /\ stays => ToSet(o) \subseteq ToSet(t)

LEMMA FairReorder ==
  ASSUME NEW g, NEW rs, NEW o, NEW w, NEW t, NEW v, NEW C, NEW stays \in BOOLEAN,
         Fairly(g, rs, o, w, stays), Rebuilds(g, rs, o, w, t, v, C, stays)
  PROVE  Fairly(g, rs, t, v, stays)
<1>1. /\ Line(o) /\ Line(t) /\ v \in ToSet(t) /\ C = ToSet(o) \cap ToSet(t)
      /\ \A a, b \in C : Before(t, a, b) <=> Before(o, a, b)
      /\ \/ \A a, b \in C : a = b
         \/ v \in C /\ \A x \in C : ~Serves(o, w, x, v)
      /\ \A i \in g : rs[i].since \subseteq C
      /\ \A i \in g : rs[i].user \in ToSet(t) => rs[i].user \in C
      /\ stays => ToSet(o) \subseteq ToSet(t)
  BY DEF Rebuilds
<1> QED BY <1>1, FairRebuild

LEMMA ViewSync ==
  ASSUME Sound, Undisturbed, NEW p \in Procs, View(proc[p], state, rows, members, Stays),
         SyncMemberOrder(p)
  PROVE  Moved(p)
<1> DEFINE o == state.order
           s == Reconciled(state, members)
           t == s.order
           C == ToSet(o) \cap members
           g == GivenIn(rows)
<1>1. proc[p].pc = "sync" /\ Become(p, Idle) /\ UNCHANGED <<world, members, rows>>
      /\ state' = proc[p].next
  BY DEF SyncMemberOrder, InPhase, Finish
<1>2. /\ state' = s /\ InRange(state)
      /\ Stays => ToSet(o) \subseteq members
      /\ ~Stays => members \subseteq ToSet(o)
      /\ \A i \in g : rows[i].since \subseteq members
      /\ Fairly(g, rows, o, Due(state), Stays)
  BY <1>1 DEF View, Knows, Home, DueFor
<1>3. /\ Good(state) /\ state \in Rotation /\ o \in Seq(Users) /\ IsInjective(o) /\ o # << >>
      /\ members \subseteq Users /\ members # {}
  BY MembersAre DEF Sound, Good, Rotation
<1>4. ToSet(o) # {}
  <2>1. 1 \in 1..Len(o)
    BY <1>3
  <2>2. o[1] \in ToSet(o)
    BY <1>3, <2>1, Placement
  <2> QED BY <2>2
<1>5. C # {}
  BY <1>2, <1>3, <1>4
<1>6. /\ Good(s) /\ InRange(s) /\ ToSet(t) = members
      /\ \A a, b \in C : Before(t, a, b) <=> Before(o, a, b)
      /\ Len(o) # 1 => Due(s) \in C /\ \A x \in C : ~Serves(o, Due(state), x, Due(s))
  BY <1>2, <1>3, <1>5, Rebuilding
<1> HIDE DEF s
<1>7. s \in Rotation /\ t \in Seq(Users) /\ IsInjective(t) /\ Due(s) \in ToSet(t)
  <2>1. s \in Rotation /\ IsInjective(t)
    BY <1>6 DEF Good
  <2>2. t \in Seq(Users)
    BY <2>1 DEF Rotation
  <2> QED BY <1>6, <2>1, <2>2, DueAndNext
<1>8. Line(o) /\ Line(t)
  BY <1>3, <1>7, IsLine
<1>9. \/ \A a, b \in C : a = b
      \/ Due(s) \in C /\ \A x \in C : ~Serves(o, Due(state), x, Due(s))
  <2>1. CASE Len(o) = 1
    <3>1. \A a \in ToSet(o) : a = o[1]
      BY <1>3, <2>1, Placement
    <3> QED BY <3>1
  <2>2. CASE Len(o) # 1
    BY <1>6, <2>2
  <2> QED BY <2>1, <2>2
<1>10. /\ \A i \in g : rows[i].since \subseteq C
       /\ \A i \in g : rows[i].user \in ToSet(t) => rows[i].user \in C
  <2>1. \A i \in g : rows[i].since \subseteq ToSet(o)
    BY <1>2 DEF Fairly
  <2>2. Stays => \A i \in g : rows[i].user \in ToSet(o)
    BY <1>2 DEF Fairly
  <2> QED BY <1>2, <1>6, <2>1, <2>2
<1>11. Fairly(g, rows, t, Due(s), Stays)
  <2>1. Stays \in BOOLEAN
    BY DEF Stays
  <2>2. C = ToSet(o) \cap ToSet(t) /\ (Stays => ToSet(o) \subseteq ToSet(t))
    BY <1>2, <1>6
  <2> HIDE DEF C, g, o, t
  <2>3. Rebuilds(g, rows, o, Due(state), t, Due(s), C, Stays)
    BY <1>6, <1>7, <1>8, <1>9, <1>10, <2>2 DEF Rebuilds
  <2> QED BY <1>2, <2>1, <2>3, FairReorder
<1>12. Home(Idle, state', rows', members', Stays)
  BY <1>1, <1>2, <1>6 DEF Home
<1>13. Turns(Idle, rows')
  BY <1>1 DEF View, Turns, Idle
<1>14. DueFor(Idle, state') = Due(s)
  BY <1>2 DEF DueFor, Idle
<1>15. View(Idle, state', rows', members', Stays)
  BY <1>1, <1>2, <1>11, <1>12, <1>13, <1>14, IdleKnows DEF View
<1> QED BY <1>1, <1>15 DEF Moved

\* At most one process is at work, with local state l.
Busy(l) ==
    /\ \A p \in Procs : proc[p] = l \/ proc[p] = Idle
    /\ \A p, q \in Procs : p # q => proc[p] = Idle \/ proc[q] = Idle
    /\ (\A p \in Procs : proc[p] = Idle) => l = Idle

Serially == Undisturbed => \E l : Busy(l) /\ View(l, state, rows, members, Stays)

LEMMA ViewLater ==
  ASSUME NEW l, View(l, state', rows', members', Stays')
  PROVE  View(l, state, rows, members, Stays)'
BY DEF View

\* Whoever takes a step is the one at work.
LEMMA Acting ==
  ASSUME Sound, Undisturbed, NEW l, Busy(l), View(l, state, rows, members, Stays),
         NEW p \in Procs, Step(p)
  PROVE  proc[p] = l /\ \A q \in Procs : q # p => proc[q] = Idle
<1>1. CASE proc[p] # Idle
  BY <1>1 DEF Busy
<1>2. CASE proc[p] = Idle
  <2>1. proc[p].pc = "idle"
    BY <1>2 DEF Idle
  <2>2. Free(p)
    <3>1. ~ReadPending(p) /\ ~Reassign(p) /\ ~ReadNoPending(p) /\ ~ReadState(p) /\ ~ReadScheduled(p)
      BY <2>1 DEF InPhase, ReadPending, Reassign, ReadNoPending, ReadState, ReadScheduled
    <3>2. ~Commit(p) /\ ~Reschedule(p) /\ ~Advance(p) /\ ~Assign(p) /\ ~Insert(p)
      BY <2>1 DEF InPhase, Commit, Reschedule, Advance, Assign, Insert
    <3>3. ~ListFinished(p) /\ ~ReadSuccessor(p) /\ ~DeleteSuccessor(p) /\ ~Restore(p) /\ ~Reread(p)
      BY <2>1 DEF InPhase, ListFinished, ReadSuccessor, DeleteSuccessor, Restore, Reread
    <3>4. ~RestoreIndex(p) /\ ~ListMembers(p) /\ ~ReadRotation(p) /\ ~SyncMemberOrder(p) /\ ~Abort(p)
      BY <2>1 DEF InPhase, RestoreIndex, ListMembers, ReadRotation, SyncMemberOrder, Abort
    <3> QED BY <3>1, <3>2, <3>3, <3>4 DEF Step, Start, Join, Leave
  <2>3. \A q \in Procs : proc[q].pc = "idle"
    BY <2>2 DEF Free, InPhase, Undisturbed
  <2>4. l = Idle
    <3>1. CASE \A q \in Procs : proc[q] = Idle
      BY <3>1 DEF Busy
    <3>2. CASE ~ \A q \in Procs : proc[q] = Idle
      <4>1. l.pc = "idle"
        BY <2>3, <3>2 DEF Busy
      <4> QED BY <4>1 DEF View, Knows
    <3> QED BY <3>1, <3>2
  <2> QED BY <1>2, <2>4 DEF Busy
<1> QED BY <1>1, <1>2

\* Every step keeps the view.
LEMMA ViewSteps ==
  ASSUME Sound, Undisturbed, NEW p \in Procs, View(proc[p], state, rows, members, Stays), Step(p)
  PROVE  Moved(p)
<1>1. ~Reassign(p) /\ ~ReadScheduled(p) /\ ~Advance(p) /\ ~Assign(p) /\ ~Insert(p) /\ ~Abort(p)
  <2>1. /\ proc[p].pc \notin {"advance", "assign", "insert", "assignee"}
        /\ proc[p].pc = "state" => proc[p].op = "finish"
        /\ "crash" \notin world.may
    BY DEF View, Knows, Undisturbed
  <2> QED BY <2>1 DEF InPhase, Reassign, ReadScheduled, Advance, Assign, Insert, Abort
<1> QED BY <1>1, ViewStart, ViewJoin, ViewLeave, ViewReadPending, ViewReadNoPending, ViewReadState,
           ViewCommit, ViewReschedule, ViewListFinished, ViewReadSuccessor, ViewDeleteSuccessor,
           ViewRestore, ViewReread, ViewRestoreIndex, ViewListMembers, ViewReadRotation, ViewSync
        DEF Step

LEMMA SeriallyNext ==
  ASSUME Sound, Serially, [RotationNext]_rotationVars
  PROVE  Serially'
<1> SUFFICES ASSUME Undisturbed'
             PROVE  (\E l : Busy(l) /\ View(l, state, rows, members, Stays))'
  BY DEF Serially
<1>1. world' = world
  BY WorldStays
<1>2. Undisturbed /\ Stays' = Stays
  BY <1>1 DEF Undisturbed, Stays
<1>3. PICK l : Busy(l) /\ View(l, state, rows, members, Stays)
  BY <1>2 DEF Serially
<1>4. CASE RotationNext
  <2>1. PICK p \in Procs : Step(p)
    BY <1>4, SomeStep
  <2>2. proc[p] = l /\ \A q \in Procs : q # p => proc[q] = Idle
    BY <1>2, <1>3, <2>1, Acting
  <2>3. Moved(p)
    BY <1>2, <1>3, <2>1, <2>2, ViewSteps
  <2>4. PICK m : Become(p, m) /\ View(m, state', rows', members', Stays)
    BY <2>3 DEF Moved
  <2>5. View(m, state, rows, members, Stays)'
    BY <1>2, <2>4, ViewLater
  <2>6. proc'[p] = m /\ \A q \in Procs : q # p => proc'[q] = Idle
    BY <2>2, <2>4 DEF Become, Sound
  <2>7. Busy(m)'
    BY <2>6 DEF Busy
  <2> QED BY <2>5, <2>7
<1>5. CASE UNCHANGED rotationVars
  <2>1. UNCHANGED <<world, members, state, rows, proc>>
    BY <1>5 DEF rotationVars
  <2>2. View(l, state', rows', members', Stays')
    BY <1>2, <1>3, <2>1
  <2>3. View(l, state, rows, members, Stays)'
    BY <2>2, ViewLater
  <2>4. Busy(l)'
    BY <1>3, <2>1 DEF Busy
  <2> QED BY <2>3, <2>4
<1> QED BY <1>4, <1>5

LEMMA SeriallyInit ==
  ASSUME RotationInit
  PROVE  Serially
<1> SUFFICES ASSUME Undisturbed
             PROVE  \E l : Busy(l) /\ View(l, state, rows, members, Stays)
  BY DEF Serially
<1> DEFINE s == [order |-> Listed(members), index |-> 0]
           o == Listed(members)
           first == [user |-> Due(s), status |-> "pending", since |-> members]
<1>1. "crash" \notin world.may /\ "serial" \in world.may
  BY DEF Undisturbed
<1>2. state = Advanced(s) /\ rows = <<first>>
  <2>1. state = Advanced(s) /\ rows = InsertPending(<< >>, Due(s))
    BY <1>1 DEF RotationInit
  <2>2. InsertPending(<< >>, Due(s)) = <<first>>
    BY <1>1 DEF InsertPending
  <2> QED BY <2>1, <2>2
<1>3. Sound
  BY SoundInit
<1>4. state.order = o /\ o # << >> /\ o \in Seq(Users) /\ IsInjective(o) /\ ToSet(o) = members
  <2>1. state.order = o
    BY <1>2 DEF Advanced
  <2>2. o # << >> /\ o \in Seq(Users) /\ IsInjective(o)
    BY <1>3, <2>1 DEF Sound, Good, Rotation
  <2>3. ToSet(o) = members
    BY <1>3, MembersAre, Listing
  <2> QED BY <2>1, <2>2, <2>3
<1>5. s \in Rotation /\ s.order = o /\ InRange(s)
  <2>1. 0 < Len(o)
    BY <1>4
  <2> QED BY <1>4, <2>1 DEF Rotation, InRange
<1> HIDE DEF s, o
<1>6. /\ Due(s) \in ToSet(o) /\ Advanced(s) \in Rotation /\ InRange(Advanced(s))
      /\ Advanced(s).order = o /\ Passes(o, Due(s), Due(Advanced(s)))
  BY <1>4, <1>5, DueAndNext
<1>7. Due(Advanced(s)) \in ToSet(o)
  BY <1>4, <1>6, DueAndNext
<1>8. GivenIn(rows) = {1} /\ rows[1] = first
  BY <1>2 DEF GivenIn
<1>9. Fairly({1}, rows, o, Due(Advanced(s)), Stays)
  <2>1. Fairly({}, rows, o, Due(s), Stays)
    BY <1>6 DEF Fairly, Even, Waits, Skips
  <2>2. rows[1].user = Due(s) /\ rows[1].since \subseteq ToSet(o)
    BY <1>4, <1>8
  <2>3. Line(o)
    BY <1>4, IsLine
  <2>4. TakesTurn({}, rows, o, Due(s), Due(Advanced(s)), 1, rows)
    BY <1>6, <1>7, <2>2, <2>3 DEF TakesTurn
  <2>5. Stays \in BOOLEAN /\ {} \cup {1} = {1}
    BY DEF Stays
  <2>6. Fairly({} \cup {1}, rows, o, Due(Advanced(s)), Stays)
    BY <2>1, <2>4, <2>5, FairTurn
  <2> QED BY <2>5, <2>6
<1>10. Home(Idle, state, rows, members, Stays)
  BY <1>2, <1>4, <1>6, <1>8 DEF Home
<1>11. Turns(Idle, rows)
  BY <1>8 DEF Turns, LastGiven, Idle
<1>12. DueFor(Idle, state) = Due(Advanced(s))
  BY <1>2 DEF DueFor, Idle
<1>13. View(Idle, state, rows, members, Stays)
  BY <1>4, <1>8, <1>9, <1>10, <1>11, <1>12, IdleKnows DEF View
<1>14. Busy(Idle)
  BY DEF Busy, RotationInit
<1> QED BY <1>13, <1>14

LEMMA AlwaysSerially == RotationSpec => []Serially
<1>1. RotationInit => Serially
  BY SeriallyInit
<1>2. Sound /\ Serially /\ [RotationNext]_rotationVars => Serially'
  BY SeriallyNext
<1> QED BY <1>1, <1>2, AlwaysSound, PTL DEF RotationSpec

LEMMA SerialTurns ==
  ASSUME Serially
  PROVE  FairTurns
<1> SUFFICES ASSUME Undisturbed, NEW i \in Given, NEW j \in Given, i < j, rows[i].user = rows[j].user,
                    NEW u \in rows[i].since \ {rows[i].user}
             PROVE  \E k \in Given : i < k /\ k < j /\ rows[k].user = u
  BY DEF FairTurns
<1>1. PICK l : View(l, state, rows, members, Stays)
  BY DEF Serially
<1>2. Even(GivenIn(rows), rows) /\ GivenIn(rows) = Given
  BY <1>1 DEF View, Fairly, GivenIn, Given
<1> QED BY <1>2 DEF Even, Between

LEMMA SoundTypes ==
  ASSUME Sound
  PROVE  TypeOK
BY WorldOf DEF Sound, TypeOK, Good, RowsOK

\* Each turn goes to whoever follows the previous one in the order while the
\* household does not change, however its requests interleave; and while people
\* join, or while people leave, nobody is served twice before everybody else who
\* was there all along (CompleteAssignmentAndAdvance, UndoLastChoreExecution,
\* RebuildMemberOrdersForGroup).
THEOREM RotationIsFair == RotationSpec => []FairRotation
<1>1. Sound /\ Serially /\ Steadily => FairRotation
  BY SoundTypes, SerialTurns, SteadyTurns DEF FairRotation
<1> QED BY <1>1, AlwaysSound, AlwaysSerially, AlwaysSteadily, PTL
=============================================================================
