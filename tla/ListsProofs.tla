----------------------------- MODULE ListsProofs -----------------------------
(***************************************************************************)
(* Theorems about the lists of a household.                                *)
(*                                                                         *)
(* ListItems, Digest and Reminder are reached through MCLists, which puts  *)
(* the three side by side: each part's invariant is inductive for its own  *)
(* steps, and the others' steps leave it alone.                            *)
(*                                                                         *)
(* ListItemSync, for any fields and any number of edits, seconds and       *)
(* losses: what an edit overwrites, what a false conflict and a lasting    *)
(* difference come from.                                                   *)
(***************************************************************************)
EXTENDS MCLists, ListItemSync, OrderLemmas, SequenceTheorems

-----------------------------------------------------------------------------
(***************************************************************************)
(* The rows of a list.                                                     *)
(***************************************************************************)
\* The request that is followed knows of a change to the row it read; a batch
\* that is about to reopen a checked row had no open one to choose.
Reopens == /\ job.kind = "batch"
           /\ job.id \notin job.changed
           /\ job.id = Items!NoId \/ item[job.id].checked
RowsInv ==
    /\ Items!TypeOK
    /\ job.kind = "none" => job = Items!Idle
    /\ job.kind # "none" =>
         /\ job.left > 0
         /\ job.kind \in {"remove", "edit"} => job.id # Items!NoId
         /\ job.id # Items!NoId =>
              /\ item[job.id].st # "none"
              /\ item[job.id].st = "gone" => job.id \in job.changed
    /\ Reopens => Items!Open \cap job.open \subseteq job.changed


\* What every statement may make of the rows.
Kept(new) ==
    /\ new \in [Items!Ids -> Items!Item]
    /\ \A i \in Items!Ids :
         /\ new[i].st = "live" => new[i].qty > 0
         /\ item[i].st = "gone" => new[i] = item[i]
         /\ item[i].st # "none" => new[i].st # "none"
         /\ new[i].claim \notin {None, item[i].claim} => new[i].claim \in member

\* The bound of the quantities is one.
LEMMA AmountsAreBounded == 
  MaxAmount > 0 /\ 0 \in 0..MaxAmount /\ 1..MaxAmount \subseteq 0..MaxAmount
<1>1. MaxAmount \in Nat \ {0}
  BY ListsAssumption DEF Items!ListItemsAssumption
<1> QED BY <1>1

\* The statements keep the rows: an insert, an update, a deletion.
LEMMA CreatedKeeps ==
  ASSUME RowsInv, NEW q \in 1..MaxAmount, Items!Unused # {}
  PROVE  /\ Items!Min(Items!Unused) \in Items!Unused
         /\ Kept(Items!Created(Items!Min(Items!Unused), q))
<1> DEFINE n == Items!Min(Items!Unused)
<1>1. n \in Items!Unused
  <2>1. n = Min(Items!Unused)
    BY DEF Items!Min, Min
  <2>2. Items!Unused \subseteq Nat
    BY DEF Items!Unused, Items!Ids
  <2> HIDE DEF n
  <2> QED BY <2>1, <2>2, LeastNat
<1>2. [st |-> "live", qty |-> q, checked |-> FALSE, claim |-> None] \in Items!Item
  BY AmountsAreBounded DEF Items!Item
<1>3. n \in Items!Ids /\ item[n].st = "none"
  BY <1>1 DEF Items!Unused
<1> HIDE DEF n
<1>4. Kept(Items!Created(n, q))
  BY <1>2, <1>3 DEF Kept, Items!Created, RowsInv, Items!TypeOK
<1> QED BY <1>1, <1>4 DEF n

\* An update of quantity and check mark.
LEMMA UpdatedKeeps ==
  ASSUME RowsInv, NEW i \in Items!Ids, NEW q \in 1..MaxAmount, NEW c \in BOOLEAN
  PROVE  Kept(Items!Updated(i, q, c))
<1> DEFINE r == [item[i] EXCEPT !.qty = q, !.checked = c]
<1>1. item[i] \in Items!Item
  BY DEF RowsInv, Items!TypeOK
<1>2. r \in Items!Item /\ r.qty = q /\ r.st = item[i].st /\ r.claim = item[i].claim
  BY <1>1, AmountsAreBounded DEF Items!Item
<1>3. Items!Updated(i, q, c) = IF item[i].st = "live" THEN [item EXCEPT ![i] = r] ELSE item
  BY DEF Items!Updated, RowsInv, Items!TypeOK
<1> HIDE DEF r
<1> QED BY <1>2, <1>3 DEF Kept, RowsInv, Items!TypeOK

\* The deletion of any rows.
LEMMA DeletedKeeps ==
  ASSUME RowsInv, NEW S
  PROVE  Kept(Items!Deleted(S))
<1>1. /\ [Items!Absent EXCEPT !.st = "gone"] \in Items!Item
      /\ [Items!Absent EXCEPT !.st = "gone"].claim = None
      /\ [Items!Absent EXCEPT !.st = "gone"].st = "gone"
  BY AmountsAreBounded DEF Items!Absent, Items!Item
<1> QED BY <1>1 DEF Kept, Items!Deleted, Items!Live, RowsInv, Items!TypeOK

\* One that ticks rows off, or changes the claim of one.
LEMMA TouchedKeeps ==
  ASSUME RowsInv, NEW new \in [Items!Ids -> Items!Item],
         \A i \in Items!Ids :
           /\ new[i].st = item[i].st /\ new[i].qty = item[i].qty
           /\ item[i].st = "gone" => new[i] = item[i]
           /\ new[i].claim \notin {None, item[i].claim} => new[i].claim \in member
  PROVE  Kept(new)
BY DEF Kept, RowsInv, Items!TypeOK

\* A statement of another request: the one that is followed, if there is one,
\* is told what changed.
LEMMA BecomesKeeps ==
  ASSUME RowsInv, NEW new, Kept(new), Items!Becomes(new)
  PROVE  RowsInv'
<1> DEFINE D == {i \in Items!Ids : new[i] # item[i]}
<1>1. item' = new /\ member' = member
  BY DEF Items!Becomes
<1>2. CASE job = Items!Idle
  <2>1. job' = job
    BY <1>2 DEF Items!Becomes
  <2>2. job.kind = "none"
    BY <1>2 DEF Items!Idle
  <2> QED BY <1>1, <2>1, <2>2 DEF RowsInv, Reopens, Kept, Items!TypeOK, Items!Idle
<1>3. CASE job # Items!Idle
  <2>1. job' = [job EXCEPT !.changed = @ \cup D] /\ job \in Items!Job
    BY <1>3 DEF Items!Becomes, RowsInv, Items!TypeOK
  <2>2. /\ job' \in Items!Job /\ job'.kind = job.kind /\ job'.id = job.id
        /\ job'.left = job.left /\ job'.open = job.open /\ job'.changed = job.changed \cup D
    BY <2>1 DEF Items!Job
  <2>3. job.kind # "none" /\ job.id \in Items!Ids \cup {Items!NoId}
    BY <1>3, <2>1 DEF RowsInv, Items!Job
  <2> HIDE DEF D
  <2>4. Items!TypeOK'
    BY <1>1, <2>2 DEF RowsInv, Kept, Items!TypeOK
  <2>5. job.id # Items!NoId =>
           /\ new[job.id].st # "none"
           /\ new[job.id].st = "gone" => job.id \in job'.changed
    BY <2>2, <2>3 DEF RowsInv, Kept, D
  <2>6. Reopens' => Items!Open' \cap job'.open \subseteq job'.changed
    <3> SUFFICES ASSUME Reopens', NEW i \in Items!Open', i \in job.open
                 PROVE  i \in job'.changed
      BY <2>2
    <3>1. Reopens
      BY <1>1, <2>2, <2>3 DEF Reopens, D, Items!NoId
    <3>2. CASE new[i] = item[i]
      <4>1. i \in Items!Open
        BY <1>1, <3>2 DEF Items!Open, Items!Live
      <4> QED BY <2>2, <3>1, <4>1 DEF RowsInv
    <3>3. CASE new[i] # item[i]
      BY <2>2, <3>3 DEF D, Items!Open, Items!Live
    <3> QED BY <3>2, <3>3
  <2> QED BY <1>1, <2>2, <2>3, <2>4, <2>5, <2>6 DEF RowsInv, Items!NoId
<1> QED BY <1>2, <1>3

\* The end of the request that is followed.
LEMMA EndKeeps ==
  ASSUME RowsInv, NEW new, Kept(new), Items!Writes(new, Items!Idle)
  PROVE  RowsInv'
<1>1. Items!Idle \in Items!Job /\ Items!Idle.kind = "none"
  BY ListsAssumption DEF Items!Idle, Items!Job, Items!Kinds, Items!ListItemsAssumption
<1> QED BY <1>1 DEF RowsInv, Reopens, Kept, Items!TypeOK, Items!Writes, Items!Idle

\* A request reads the list before it writes.
LEMMA ReadsKeep ==
  ASSUME RowsInv, NEW k \in Items!Kinds \ {"none"}, NEW i \in Items!Ids \cup {Items!NoId},
         NEW n \in 1..2, NEW shown \in SUBSET Items!Live, Items!Reads(k, i, n, shown),
         i # Items!NoId => i \in Items!Live,
         k = "batch" => i \in Items!Best(shown),
         k \in {"remove", "edit"} => i # Items!NoId
  PROVE  RowsInv'
<1>1. UNCHANGED <<item, member>>
  BY DEF Items!Reads
<1>2. /\ job'.kind = k /\ job'.id = i /\ job'.left = n
      /\ job'.open = Items!Open \cap shown /\ job'.changed = {}
  BY DEF Items!Reads
<1>3. job' \in Items!Job
  <2>1. i # Items!NoId => item[i] \in Items!Item
    BY DEF RowsInv, Items!TypeOK
  <2>2. Items!Open \subseteq Items!Ids
    BY DEF Items!Open, Items!Live
  <2>3. (IF i = Items!NoId THEN 0 ELSE item[i].qty) \in 0..MaxAmount
    BY <2>1, ListsAssumption DEF Items!Item, Items!ListItemsAssumption
  <2>4. (i # Items!NoId /\ item[i].checked) \in BOOLEAN
    BY <2>1 DEF Items!Item
  <2> QED BY <2>2, <2>3, <2>4 DEF Items!Reads, Items!Job
<1>4. Items!TypeOK'
  BY <1>1, <1>3 DEF RowsInv, Items!TypeOK
<1>5. Reopens' => Items!Open \cap job'.open \subseteq job'.changed
  BY <1>1, <1>2 DEF Reopens, Items!Best, Items!Open, Items!Live, Items!NoId, Items!Ids
<1>6. Items!Open' = Items!Open /\ Items!NoId' = Items!NoId
  BY <1>1 DEF Items!Open, Items!Live, Items!NoId
<1> QED BY <1>1, <1>2, <1>4, <1>5, <1>6 DEF RowsInv, Items!Live

\* A batch goes on with the row it has just written.
LEMMA GoesOnKeeps ==
  ASSUME RowsInv, NEW new, Kept(new), NEW i \in Items!Ids, NEW q \in 1..MaxAmount,
         job.kind # "none", new[i].st # "none", new[i].st = "gone" => i \in job.changed,
         i \notin job.changed => ~new[i].checked,
         Items!Writes(new, Items!After(i, [qty |-> q, checked |-> FALSE]))
  PROVE  RowsInv'
<1>1. CASE job.left = 1
  BY <1>1, EndKeeps DEF Items!After
<1>2. CASE job.left # 1
  <2> DEFINE j == [job EXCEPT !.id = i, !.qty = q, !.checked = FALSE, !.left = @ - 1]
  <2>1. job \in Items!Job /\ job.left \in 0..2 /\ job.left > 0
    BY DEF RowsInv, Items!TypeOK, Items!Job
  <2>2. /\ j.kind = job.kind /\ j.id = i /\ j.left = job.left - 1
        /\ j.open = job.open /\ j.changed = job.changed
    BY <2>1 DEF Items!Job
  <2>3. j \in Items!Job
    <3>1. job.left - 1 \in 0..2 /\ q \in 0..MaxAmount
      BY <2>1, ListsAssumption DEF Items!ListItemsAssumption
    <3> QED BY <2>1, <3>1 DEF Items!Job
  <2>4. job' = j /\ item' = new /\ member' = member
    BY <1>2 DEF Items!Writes, Items!After
  <2>5. j.left > 0
    BY <1>2, <2>1, <2>2
  <2>6. i # Items!NoId
    BY DEF Items!Ids, Items!NoId
  <2> HIDE DEF j
  <2>7. ~Reopens'
    BY <2>2, <2>4, <2>6 DEF Reopens, Items!NoId
  <2>8. Items!TypeOK'
    BY <2>3, <2>4 DEF RowsInv, Kept, Items!TypeOK
  <2> QED BY <2>2, <2>4, <2>5, <2>6, <2>7, <2>8 DEF RowsInv
<1> QED BY <1>1, <1>2

\* Every step of the list keeps its rows, and the invariant.
LEMMA ItemsStep ==
  ASSUME RowsInv, Items!Next
  PROVE  RowsInv' /\ Kept(item')
<1> USE DEF Items!NoId
<1>0. /\ MaxAmount \in Nat \ {0} /\ MaxRows \in Nat \ {0}
      /\ job \in Items!Job /\ item \in [Items!Ids -> Items!Item]
      /\ \A i \in Items!Ids : item[i].st = "live" => item[i].qty > 0
  BY ListsAssumption DEF Items!ListItemsAssumption, RowsInv, Items!TypeOK
<1>1. Kept(item)
  BY DEF Kept, RowsInv, Items!TypeOK
<1>2. \A new : Kept(new) /\ Items!Becomes(new) => RowsInv' /\ Kept(item')
  BY BecomesKeeps DEF Items!Becomes
<1>3. ASSUME NEW n \in 0..MaxAmount, Items!CreateItem(n) PROVE RowsInv' /\ Kept(item')
  <2>1. Items!Quantity(n) \in 1..MaxAmount
    BY <1>0 DEF Items!Quantity
  <2> QED BY <1>2, <1>3, <2>1, CreatedKeeps DEF Items!CreateItem
<1>4. ASSUME NEW n \in Items!Amounts, Items!Add_Write(n) PROVE RowsInv' /\ Kept(item')
  <2>1. Items!ToppedUp(n).qty \in 1..MaxAmount /\ Items!ToppedUp(n).checked = FALSE
        /\ Items!ToppedUp(n) = [qty |-> Items!ToppedUp(n).qty, checked |-> FALSE]
    <3>1. job.qty \in 0..MaxAmount
      BY <1>0 DEF Items!Job
    <3>2. Items!Sum(job.qty, n) \in 1..MaxAmount
      BY <1>0, <3>1 DEF Items!Sum, Items!Amounts
    <3> QED BY <3>2 DEF Items!ToppedUp, Items!Amounts
  <2> DEFINE q == Items!ToppedUp(n).qty
  <2>2. CASE /\ job.id # 0
             /\ Items!Writes(Items!Updated(job.id, q, FALSE),
                             Items!After(job.id, [qty |-> q, checked |-> FALSE]))
    <3> HIDE DEF q
    <3> DEFINE new == Items!Updated(job.id, q, FALSE)
    <3>1. job.id \in Items!Ids /\ job.kind # "none"
      BY <1>0, <1>4, <2>2 DEF Items!Job, Items!Add_Write
    <3>2. Kept(new)
      BY <2>1, <3>1, UpdatedKeeps DEF q
    <3>3. /\ item[job.id].st # "none"
          /\ item[job.id].st = "gone" => job.id \in job.changed
      BY <2>2, <3>1 DEF RowsInv
    <3>4. new[job.id].st = item[job.id].st /\ (item[job.id].st = "live" => ~new[job.id].checked)
      BY <1>0, <3>1 DEF Items!Updated, Items!Item
    <3>5. item[job.id].st \in {"none", "live", "gone"}
      BY <1>0, <3>1 DEF Items!Item
    <3> HIDE DEF new
    <3>6. RowsInv'
      BY <2>1, <2>2, <3>1, <3>2, <3>3, <3>4, <3>5, GoesOnKeeps DEF q, new
    <3> QED BY <2>2, <3>2, <3>6 DEF Items!Writes, new
  <2>3. CASE /\ job.id = 0 /\ Items!Unused # {}
             /\ Items!Writes(Items!Created(Items!Min(Items!Unused), n),
                             Items!After(Items!Min(Items!Unused), [qty |-> n, checked |-> FALSE]))
    <3> DEFINE m == Items!Min(Items!Unused)
               new == Items!Created(m, n)
    <3>1. m \in Items!Unused /\ Kept(new) /\ job.kind # "none"
      BY <1>4, <2>3, CreatedKeeps DEF Items!Amounts, Items!Add_Write
    <3>2. m \in Items!Ids
      BY <3>1 DEF Items!Unused
    <3> HIDE DEF m
    <3>3. new[m].st = "live" /\ ~new[m].checked
      BY <1>0, <3>2 DEF Items!Created
    <3> HIDE DEF new
    <3>4. RowsInv'
      BY <2>3, <3>1, <3>2, <3>3, GoesOnKeeps DEF Items!Amounts, new, m
    <3> QED BY <2>3, <3>1, <3>4 DEF Items!Writes, new, m
  <2> QED BY <1>4, <2>1, <2>2, <2>3 DEF Items!Add_Write
<1>5. ASSUME NEW n \in Items!Amounts, Items!Remove_Write(n) PROVE RowsInv' /\ Kept(item')
  <2>1. job.id \in Items!Ids \cup {0} /\ job.qty \in 0..MaxAmount /\ job.checked \in BOOLEAN
    BY <1>0 DEF Items!Job
  <2>2. job.id \in Items!Ids
    BY <1>5, <2>1 DEF Items!Remove_Write, RowsInv
  <2>3. CASE job.qty <= n
    <3>1. Items!Writes(Items!Deleted({job.id}), Items!Idle)
      BY <1>5, <2>3 DEF Items!Remove_Write
    <3> QED BY <3>1, DeletedKeeps, EndKeeps DEF Items!Writes
  <2>4. CASE ~(job.qty <= n)
    <3>1. Items!Writes(Items!Updated(job.id, job.qty - n, job.checked), Items!Idle)
      BY <1>5, <2>4 DEF Items!Remove_Write
    <3>2. job.qty - n \in 1..MaxAmount
      BY <1>0, <2>1, <2>4 DEF Items!Amounts
    <3>3. Kept(Items!Updated(job.id, job.qty - n, job.checked))
      BY <2>1, <2>2, <3>2, UpdatedKeeps
    <3> QED BY <3>1, <3>3, EndKeeps DEF Items!Writes
  <2> QED BY <2>3, <2>4
<1>6. ASSUME NEW n \in Items!Amounts, NEW c \in BOOLEAN, Items!Update_Write(n, c)
      PROVE  RowsInv' /\ Kept(item')
  <2>1. job.id \in Items!Ids
    BY <1>0, <1>6 DEF Items!Update_Write, RowsInv, Items!Job
  <2>2. Kept(Items!Updated(job.id, n, c))
    BY <2>1, UpdatedKeeps DEF Items!Amounts
  <2> QED BY <1>6, <2>2, EndKeeps DEF Items!Update_Write, Items!Writes
<1>7. ASSUME NEW b \in BOOLEAN, Items!ClearItems(b) PROVE RowsInv' /\ Kept(item')
  BY <1>2, <1>7, DeletedKeeps DEF Items!ClearItems
<1>8. ASSUME NEW i \in Items!Ids, Items!DeleteItem(i) PROVE RowsInv' /\ Kept(item')
  BY <1>2, <1>8, DeletedKeeps DEF Items!DeleteItem
<1>9. ASSUME NEW i \in Items!Ids, Items!RemoveItemAmount(i) \/ Items!UpdateItem(i)
      PROVE  RowsInv' /\ Kept(item')
  <2>1. /\ i \in Items!Live /\ item' = item /\ i # 0
        /\ Items!Reads("remove", i, 1, Items!Live) \/ Items!Reads("edit", i, 1, Items!Live)
    BY <1>9 DEF Items!RemoveItemAmount, Items!UpdateItem, Items!Reads, Items!Ids
  <2>2. {"remove", "edit"} \subseteq Items!Kinds \ {"none"} /\ 1 \in 1..2
    BY DEF Items!Kinds
  <2>3. RowsInv'
    BY <2>1, <2>2, ReadsKeep
  <2> QED BY <1>1, <2>1, <2>3
<1>10. ASSUME NEW i \in Items!Ids, NEW n \in Items!Amounts, NEW c \in BOOLEAN,
              Items!OtherWrite(i, n, c)
       PROVE  RowsInv' /\ Kept(item')
  BY <1>2, <1>10, UpdatedKeeps DEF Items!OtherWrite, Items!Amounts
<1>11. ASSUME NEW i \in Items!Ids \cup {0}, NEW n \in 1..2,
              Items!AddItemAmount(i) \/ Items!AddItemsBatch(i, n)
       PROVE  RowsInv' /\ Kept(item')
  <2>1. item' = item
    BY <1>11 DEF Items!AddItemAmount, Items!AddItemsBatch, Items!Reads
  <2>2. {"amount", "batch"} \subseteq Items!Kinds \ {"none"} /\ 1 \in 1..2
    BY DEF Items!Kinds
  <2>3. i # 0 => i \in Items!Live
    BY <1>11 DEF Items!AddItemAmount, Items!AddItemsBatch, Items!Best, Items!Open, Items!Listings
  <2>4. CASE Items!AddItemAmount(i)
    BY <1>1, <2>1, <2>2, <2>3, <2>4, ReadsKeep DEF Items!AddItemAmount
  <2>5. CASE Items!AddItemsBatch(i, n)
    BY <1>1, <2>1, <2>2, <2>3, <2>5, ReadsKeep DEF Items!AddItemsBatch, Items!Listings
  <2> QED BY <1>11, <2>4, <2>5
<1>12. ASSUME NEW S \in SUBSET Items!Ids, NEW p \in Members, Items!BulkCompleteItems(S, p)
       PROVE  RowsInv' /\ Kept(item')
  <2> DEFINE new == [i \in Items!Ids |-> [item[i] EXCEPT !.checked = @ \/ i \in S \cap Items!Live]]
  <2>1. \A i \in Items!Ids : /\ new[i] \in Items!Item
                             /\ new[i].st = item[i].st /\ new[i].qty = item[i].qty
                             /\ new[i].claim = item[i].claim
                             /\ item[i].st = "gone" => new[i] = item[i]
    BY <1>0 DEF Items!Item, Items!Live
  <2>2. new \in [Items!Ids -> Items!Item]
    BY <2>1
  <2>3. Kept(new)
    <3> HIDE DEF new
    <3> QED BY <2>1, <2>2, TouchedKeeps
  <2> QED BY <1>2, <1>12, <2>3 DEF Items!BulkCompleteItems
<1>13. ASSUME NEW i \in Items!Ids, NEW p \in Members,
              Items!ClaimItem(i, p) \/ Items!UnclaimItem(i, p)
       PROVE  RowsInv' /\ Kept(item')
  <2>1. PICK q \in member \cup {None} : /\ item[i].st = "live" /\ Items!Becomes([item EXCEPT ![i].claim = q])
    BY <1>13 DEF Items!ClaimItem, Items!UnclaimItem, Items!Open, Items!Live
  <2> DEFINE new == [item EXCEPT ![i].claim = q]
  <2>2. member \subseteq Members
    BY DEF RowsInv, Items!TypeOK
  <2>3. /\ new[i] \in Items!Item /\ new[i].st = item[i].st /\ new[i].qty = item[i].qty
        /\ new[i].claim = q
    BY <1>0, <2>2 DEF Items!Item
  <2>4. new \in [Items!Ids -> Items!Item] /\ \A k \in Items!Ids \ {i} : new[k] = item[k]
    BY <1>0, <2>3
  <2>5. Kept(new)
    <3> HIDE DEF new
    <3> QED BY <2>1, <2>3, <2>4, TouchedKeeps
  <2> QED BY <1>2, <2>1, <2>5
<1>14. ASSUME NEW p \in member, Items!Leave(p) PROVE RowsInv' /\ Kept(item')
  BY <1>1, <1>14 DEF Items!Leave, RowsInv, Reopens, Items!TypeOK, Items!Open, Items!Live
<1>15. CASE Items!Refused
  <2>1. Items!Writes(item, Items!Idle)
    BY <1>15, <1>0 DEF Items!Refused, Items!Writes
  <2> QED BY <1>1, <2>1, EndKeeps DEF Items!Writes
<1> QED
  BY <1>3, <1>4, <1>5, <1>6, <1>7, <1>8, <1>9, <1>10, <1>11, <1>12, <1>13, <1>14, <1>15
     DEF Items!Next

\* The rows of the list keep their invariant whatever part a behaviour shows.
LEMMA RowsInvariant == ListsSpec => [](RowsInv /\ Items!TypeOK) /\ [][Items!Next]_<<item, member, job>>
<1>1. ListsInit => RowsInv
  <2> SUFFICES ASSUME Items!Init PROVE RowsInv
    BY DEF ListsInit
  <2>1. Items!Absent \in Items!Item /\ Items!Absent.st = "none"
    BY AmountsAreBounded DEF Items!Absent, Items!Item
  <2>2. Items!Idle \in Items!Job /\ Items!Idle.kind = "none"
    BY AmountsAreBounded DEF Items!Idle, Items!Job, Items!Kinds
  <2> QED BY <2>1, <2>2 DEF Items!Init, RowsInv, Reopens, Items!TypeOK, Items!Ids
<1>2. ListsNext \/ UNCHANGED listsVars => Items!Next \/ UNCHANGED <<item, member, job>>
  BY DEF ListsNext, listsVars, ItemStep, DigestStep, ReminderStep, itemVars
<1>3. RowsInv /\ [ListsNext]_listsVars => RowsInv'
  <2> SUFFICES ASSUME RowsInv, UNCHANGED <<item, member, job>> PROVE RowsInv'
    BY <1>2, ItemsStep
  <2> QED BY DEF RowsInv, Reopens, Items!TypeOK, Items!Open, Items!Live
<1>4. [ListsNext]_listsVars => [Items!Next]_<<item, member, job>>
  BY <1>2
<1>5. RowsInv => Items!TypeOK
  BY DEF RowsInv
<1> QED BY <1>1, <1>3, <1>4, <1>5, PTL DEF ListsSpec

\* What the request that is followed leaves behind.
LEMMA AddLeaves ==
  ASSUME RowsInv, Items!Next, job.kind \in {"amount", "batch"}, job' = Items!Idle,
         ~(job.kind = "batch" /\ UNCHANGED item)
  PROVE  \/ \E i \in Items!Ids : item'[i].st = "live" /\ ~item'[i].checked
         \/ job.id \in job.changed /\ item[job.id].st = "gone"
<1>1. job # Items!Idle
  BY DEF Items!Idle
<1>2. \A new : ~Items!Becomes(new)
  <2> SUFFICES ASSUME NEW new, Items!Becomes(new) PROVE FALSE
    OBVIOUS
  <2>1. job'.kind = job.kind
    BY <1>1 DEF Items!Becomes, RowsInv, Items!TypeOK, Items!Job
  <2> QED BY <2>1 DEF Items!Idle
<1>3. /\ \A k, i, n, shown : ~Items!Reads(k, i, n, shown)
      /\ \A p : ~Items!Leave(p)
      /\ ~Items!Refused
  BY <1>1, <1>2 DEF Items!Reads, Items!Leave, Items!Refused
<1>4. PICK n \in Items!Amounts : Items!Add_Write(n)
  BY <1>2, <1>3 DEF Items!Next, Items!CreateItem, Items!ClearItems, Items!DeleteItem,
     Items!RemoveItemAmount, Items!UpdateItem, Items!OtherWrite, Items!AddItemAmount,
     Items!AddItemsBatch, Items!BulkCompleteItems, Items!ClaimItem, Items!UnclaimItem,
     Items!Remove_Write, Items!Update_Write
<1>5. CASE job.id # Items!NoId
  <2>1. job.id \in Items!Ids /\ item[job.id].st \in {"live", "gone"}
    BY <1>5 DEF RowsInv, Items!TypeOK, Items!Job, Items!Item
  <2>2. CASE item[job.id].st = "gone"
    BY <1>5, <2>2 DEF RowsInv
  <2>3. CASE item[job.id].st = "live"
    <3>1. PICK q : item' = Items!Updated(job.id, q, FALSE)
      BY <1>4, <1>5 DEF Items!Add_Write, Items!Writes, Items!ToppedUp
    <3>2. item'[job.id].st = "live" /\ ~item'[job.id].checked
      BY <2>1, <2>3, <3>1 DEF Items!Updated, RowsInv, Items!TypeOK, Items!Item
    <3> QED BY <2>1, <3>2
  <2> QED BY <2>1, <2>2, <2>3
<1>6. CASE job.id = Items!NoId
  <2> DEFINE m == Items!Min(Items!Unused)
  <2>1. Items!Unused # {} /\ item' = Items!Created(m, n)
    BY <1>4, <1>6 DEF Items!Add_Write, Items!Writes
  <2>2. m \in Items!Ids
    BY <2>1, CreatedKeeps DEF Items!Unused, Items!Amounts
  <2> HIDE DEF m
  <2>3. item'[m].st = "live" /\ ~item'[m].checked
    BY <2>1, <2>2 DEF Items!Created, RowsInv, Items!TypeOK
  <2> QED BY <2>2, <2>3
<1> QED BY <1>5, <1>6

\* No step of two requests on one list, whatever the one read before the
\* other wrote, brings a deleted row back, gives a claim to somebody who is no
\* member, adds to a row nobody sees, or leaves a batch's item on two open
\* rows that it could have told apart (ListService).
THEOREM RowsStayKept == ListsSpec => RowsAreKept
<1>1. RowsInv /\ [Items!Next]_<<item, member, job>> =>
        [\A i \in Items!Ids : item[i].st = "gone" => item'[i] = item[i]]_<<item, member, job>>
  BY ItemsStep DEF Kept
<1>2. RowsInv /\ [Items!Next]_<<item, member, job>> =>
        [\A i \in Items!Ids : item'[i].claim \notin {None, item[i].claim} =>
            item'[i].claim \in member]_<<item, member, job>>
  BY ItemsStep DEF Kept
<1>3. RowsInv /\ [Items!Next]_<<item, member, job>> =>
        [Items!Adding /\ job' = Items!Idle /\ ~(job.kind = "batch" /\ UNCHANGED item) =>
          \/ \E i \in Items!Ids : item'[i].st = "live" /\ ~item'[i].checked
          \/ job.id \in job.changed /\ item[job.id].st = "gone"]_<<item, member, job>>
  BY AddLeaves DEF Items!Adding
<1>4. RowsInv =>
        [job.kind = "batch" /\ (job' = Items!Idle \/ job'.left < job.left)
         /\ job.id \notin job.changed /\ (job.id = Items!NoId \/ item[job.id].checked)
         /\ item' # item =>
            Items!Open \cap job.open \subseteq job.changed]_<<item, member, job>>
  BY DEF RowsInv, Reopens
<1> QED
  BY <1>1, <1>2, <1>3, <1>4, RowsInvariant, PTL
     DEF RowsAreKept, Items!GoneStaysGone, Items!ClaimantsAreMembers, Items!AddsAreShown,
         Items!BatchKeepsOneOpen, Items!vars
-----------------------------------------------------------------------------
(***************************************************************************)
(* The digest.  An addition is in one place at a time: the row, or the run *)
(* of one instance.                                                        *)
(***************************************************************************)
\* Instance w has claimed addition i and has not finished with it.
Holds(w, i) == digesting[w].pc # "idle" /\ i \in digesting[w].items
Carries(w, i) == digesting[w].pc = "claimed" /\ i \in digesting[w].items

\* updated_at names the contents of the row.
Dated ==
    /\ batch.items \subseteq 1..adds /\ batch.at \in 0..adds
    /\ \A w \in Workers : digesting[w].pc # "idle" =>
         /\ digesting[w].items \subseteq 1..adds /\ digesting[w].at \in 0..adds
         /\ batch.st # "none" /\ batch.at = digesting[w].at => batch.items \subseteq digesting[w].items

\* An addition whose lease never ran out while it was claimed is announced by
\* the one run that holds it, or waits for one.
Single(i) ==
    /\ told[i] <= 1
    /\ \A w \in Workers : Carries(w, i) => told[i] = 0
    /\ \A w, v \in Workers : Holds(w, i) /\ Holds(v, i) => w = v
    /\ batch.st = "open" /\ i \in batch.items => told[i] = 0 /\ \A w \in Workers : ~Holds(w, i)

\* What an addition that is not announced yet has left behind.
Accounted(i) ==
    told[i] = 0 =>
      /\ \A w \in Workers : Holds(w, i) =>
           /\ digesting[w].pc = "claimed"
           /\ i \in batch.items \cup reset
      /\ batch.st = "claimed" /\ i \in batch.items =>
           i \in failed \/ \E w \in Workers : Carries(w, i)

DigestInv ==
    /\ Digests!TypeOK
    /\ Digests!NothingForgotten
    /\ Dated
    /\ \A i \in Digests!Items : (i \notin digestRetaken => Single(i)) /\ Accounted(i)
    /\ \A i \in Digests!Items : i > adds => told[i] = 0

\* The run of one instance changes, and the others' do not.
LEMMA RunMoves ==
  ASSUME Digests!TypeOK, NEW w \in Workers, NEW r \in Digests!Run,
         digesting' = [digesting EXCEPT ![w] = r]
  PROVE  /\ digesting' \in [Workers -> Digests!Run] /\ digesting'[w] = r
         /\ \A v \in Workers \ {w} : digesting'[v] = digesting[v]
BY DEF Digests!TypeOK

\* The bound of the additions is one.
LEMMA DigestBounds == MaxAdds \in Nat \ {0} /\ Digests!Items = 1..MaxAdds
BY ListsAssumption DEF Digests!DigestAssumption, Digests!Items

\* What the invariant says of the run of one instance.
LEMMA DigestFacts ==
  ASSUME DigestInv
  PROVE  /\ adds \in 0..MaxAdds /\ batch \in Digests!Batch
         /\ batch.items \subseteq 1..adds /\ batch.at \in 0..adds
         /\ told \in [Digests!Items -> Nat]
         /\ \A w \in Workers :
              /\ digesting[w] \in Digests!Run
              /\ digesting[w].pc \in {"idle", "claimed", "dispatched"}
              /\ digesting[w].pc # "idle" =>
                   digesting[w].items \subseteq 1..adds /\ digesting[w].at \in 0..adds
<1>1. batch \in Digests!Batch /\ digesting \in [Workers -> Digests!Run]
  BY DEF DigestInv, Digests!TypeOK
<1>2. \A w \in Workers : digesting[w].pc \in {"idle", "claimed", "dispatched"}
  BY <1>1 DEF Digests!Run
<1> QED BY <1>1, <1>2 DEF DigestInv, Digests!TypeOK, Dated

\* An addition is queued.
LEMMA QueueKeeps ==
  ASSUME DigestInv, Digests!QueueListItemNotification
  PROVE  DigestInv'
<1> DEFINE n == adds + 1
<1>0. /\ adds \in 0..MaxAdds /\ batch \in Digests!Batch /\ n \in Digests!Items /\ adds' = n
      /\ adds < n
      /\ UNCHANGED <<digesting, told, digestFaults, failed, digestRetaken>>
  <2>1. adds \in 0..MaxAdds /\ adds < MaxAdds
    BY DigestFacts DEF Digests!QueueListItemNotification
  <2>2. n \in 1..MaxAdds /\ adds < n
    BY <2>1, DigestBounds
  <2> QED BY <2>1, <2>2, DigestFacts, DigestBounds DEF Digests!QueueListItemNotification
<1>1. /\ batch' \in Digests!Batch /\ batch'.st = "open" /\ batch'.at = n
      /\ batch'.items = (IF batch.st = "claimed" THEN {} ELSE batch.items) \cup {n}
  <2>1. n \in 0..MaxAdds /\ 0 \in 0..MaxAdds
    BY <1>0, DigestBounds
  <2>2. batch' = Digests!Queued(n)
    BY DEF Digests!QueueListItemNotification
  <2> HIDE DEF n
  <2>3. CASE batch.st = "claimed"
    BY <1>0, <2>1, <2>2, <2>3 DEF Digests!Queued, Digests!NoBatch, Digests!Batch
  <2>4. CASE batch.st # "claimed"
    BY <1>0, <2>1, <2>2, <2>4 DEF Digests!Queued, Digests!Batch
  <2> QED BY <2>3, <2>4
<1>2. /\ n \notin batch.items
      /\ \A w \in Workers : ~Holds(w, n)
      /\ told[n] = 0
  <2>1. \A x \in 1..adds : x # n
    BY <1>0
  <2> HIDE DEF n
  <2>2. told[n] = 0
    BY <1>0 DEF DigestInv
  <2> QED BY <2>1, <2>2, DigestFacts DEF Holds
<1>3. reset' = IF batch.st = "claimed" THEN reset \cup batch.items ELSE reset
  BY <1>1, <1>2 DEF Digests!QueueListItemNotification
<1>4. 1..n = 1..adds \cup {n} /\ 0..adds \subseteq 0..n /\ n \notin 0..adds /\ n \in 0..n
      /\ n \in 0..MaxAdds
  BY <1>0, DigestBounds
<1> HIDE DEF n
<1>5. Digests!TypeOK'
  <2>1. batch.items \subseteq Digests!Items
    BY <1>0 DEF Digests!Batch
  <2> QED BY <1>0, <1>1, <1>3, <1>4, <2>1 DEF DigestInv, Digests!TypeOK
<1>6. Dated'
  <2>1. batch'.items \subseteq 1..adds' /\ batch'.at \in 0..adds'
    BY <1>0, <1>1, <1>4, DigestFacts
  <2>2. ASSUME NEW w \in Workers, digesting'[w].pc # "idle"
        PROVE  /\ digesting'[w].items \subseteq 1..adds' /\ digesting'[w].at \in 0..adds'
               /\ batch'.at # digesting'[w].at
    BY <1>0, <1>1, <1>4, <2>2, DigestFacts
  <2> QED BY <2>1, <2>2 DEF Dated
<1>7. ASSUME NEW i \in Digests!Items, i \notin digestRetaken' PROVE Single(i)'
  <2>1. Single(i)
    BY <1>0, <1>7 DEF DigestInv
  <2>2. batch.st = "none" => batch.items = {}
    BY DEF DigestInv, Digests!TypeOK
  <2>3. batch.st \in {"none", "open", "claimed"}
    BY <1>0 DEF Digests!Batch
  <2>4. i \in batch'.items => i = n \/ (batch.st = "open" /\ i \in batch.items)
    BY <1>1, <2>2, <2>3
  <2>5. i \in batch'.items => told[i] = 0 /\ \A w \in Workers : ~Holds(w, i)
    <3>1. batch.st = "open" /\ i \in batch.items => told[i] = 0 /\ \A w \in Workers : ~Holds(w, i)
      BY <2>1 DEF Single
    <3> QED BY <1>2, <2>4, <3>1
  <2> QED BY <1>0, <2>1, <2>5 DEF Single, Holds, Carries
<1>8. ASSUME NEW i \in Digests!Items PROVE Accounted(i)'
  <2>1. Accounted(i)
    BY DEF DigestInv
  <2> QED BY <1>0, <1>1, <1>2, <1>3, <2>1 DEF Accounted, Holds, Carries
<1>9. ASSUME NEW i \in 1..adds'
      PROVE  \/ told'[i] > 0
             \/ i \in batch'.items
             \/ \E w \in Workers : digesting'[w].pc = "claimed" /\ i \in digesting'[w].items
             \/ i \in reset' \cap failed'
  <2>1. CASE i = n
    BY <1>1, <2>1
  <2>2. CASE i # n
    <3>1. i \in 1..adds /\ i \in Digests!Items
      <4>1. i \in 1..adds
        BY <1>0, <1>4, <2>2
      <4> QED BY <1>0, <4>1, DigestBounds
    <3>2. /\ Accounted(i)
          /\ \/ told[i] > 0
             \/ i \in batch.items
             \/ \E w \in Workers : digesting[w].pc = "claimed" /\ i \in digesting[w].items
             \/ i \in reset \cap failed
      BY <3>1 DEF DigestInv, Digests!NothingForgotten, Digests!Forfeited
    <3>3. told[i] \in Nat
      BY <3>1, DigestFacts
    <3>4. told[i] > 0 \/ told[i] = 0
      BY <3>3
    <3> QED BY <1>0, <1>1, <1>3, <3>2, <3>4 DEF Accounted, Carries
  <2> QED BY <2>1, <2>2
<1>10. ASSUME NEW i \in Digests!Items, i > adds' PROVE told'[i] = 0
  <2>1. i > adds
    BY <1>0, <1>10, DigestBounds
  <2> QED BY <1>0, <2>1 DEF DigestInv
<1> QED
  BY <1>5, <1>6, <1>7, <1>8, <1>9, <1>10
     DEF DigestInv, Digests!NothingForgotten, Digests!Forfeited

\* The row becomes due, or its lease runs out.
LEMMA TimeKeeps ==
  ASSUME DigestInv,
         Digests!FlushListNotificationBatches \/ Digests!BecomesDue \/ Digests!LeaseEnds
  PROVE  DigestInv'
<1>1. UNCHANGED <<adds, digesting, told, digestFaults, reset, failed, digestRetaken>>
  BY DEF Digests!FlushListNotificationBatches, Digests!BecomesDue, Digests!LeaseEnds
<1>2. /\ batch' \in Digests!Batch
      /\ batch'.st = batch.st /\ batch'.items = batch.items /\ batch'.at = batch.at
  BY DigestFacts
     DEF Digests!FlushListNotificationBatches, Digests!BecomesDue, Digests!LeaseEnds, Digests!Batch
<1>3. Digests!TypeOK' /\ Dated' /\ Digests!NothingForgotten'
  BY <1>1, <1>2 DEF DigestInv, Digests!TypeOK, Dated, Digests!NothingForgotten, Digests!Forfeited
<1>4. \A i : (Single(i) => Single(i)') /\ (Accounted(i) => Accounted(i)')
  BY <1>1, <1>2 DEF Single, Accounted, Holds, Carries
<1> QED BY <1>1, <1>3, <1>4 DEF DigestInv

\* The row is claimed, by the instance whose run carries it from then on.
LEMMA ClaimKeeps ==
  ASSUME DigestInv, NEW w \in Workers, Digests!ClaimDueListNotificationBatches(w)
  PROVE  DigestInv'
<1> DEFINE r == [pc |-> "claimed", items |-> batch.items, at |-> batch.at]
<1>0. /\ UNCHANGED <<adds, told, digestFaults, reset, failed>>
      /\ digesting[w].pc = "idle"
      /\ digestRetaken' = IF batch.lapsed THEN digestRetaken \cup batch.items ELSE digestRetaken
      /\ digesting' = [digesting EXCEPT ![w] = r]
      /\ ~batch.lapsed => batch.st = "open"
      /\ batch.st # "none"
      /\ Digests!TypeOK
  BY DEF Digests!ClaimDueListNotificationBatches, Digests!Claimable, DigestInv
<1>1. /\ batch' \in Digests!Batch /\ batch'.st = "claimed"
      /\ batch'.items = batch.items /\ batch'.at = batch.at
  BY DigestFacts DEF Digests!ClaimDueListNotificationBatches, Digests!Batch
<1>2. r \in Digests!Run /\ r.pc = "claimed" /\ r.items = batch.items /\ r.at = batch.at
  BY DigestFacts DEF Digests!Run, Digests!Batch
<1> HIDE DEF r
<1>3. /\ digesting' \in [Workers -> Digests!Run] /\ digesting'[w] = r
      /\ \A v \in Workers \ {w} : digesting'[v] = digesting[v]
  BY <1>0, <1>2, RunMoves
<1>4. Digests!TypeOK'
  <2>1. batch.items \subseteq Digests!Items
    BY DigestFacts DEF Digests!Batch
  <2> QED BY <1>0, <1>1, <1>3, <2>1 DEF Digests!TypeOK
<1>5. Dated'
  BY <1>0, <1>1, <1>2, <1>3 DEF Dated, DigestInv
<1>6. ASSUME NEW i \in Digests!Items, i \notin digestRetaken' PROVE Single(i)'
  <2>1. Single(i)
    BY <1>0, <1>6 DEF DigestInv
  <2>2. i \in batch.items => told[i] = 0 /\ \A v \in Workers : ~Holds(v, i)
    BY <1>0, <1>6, <2>1 DEF Single
  <2>3. \A v \in Workers : Holds(v, i)' => IF v = w THEN i \in batch.items ELSE Holds(v, i)
    BY <1>2, <1>3 DEF Holds
  <2>4. \A v \in Workers : Carries(v, i)' => told[i] = 0
    BY <1>2, <1>3, <2>1, <2>2 DEF Single, Carries
  <2> QED BY <1>0, <1>1, <2>1, <2>2, <2>3, <2>4 DEF Single
<1>7. ASSUME NEW i \in Digests!Items PROVE Accounted(i)'
  <2>1. Accounted(i)
    BY DEF DigestInv
  <2> QED BY <1>0, <1>1, <1>2, <1>3, <2>1 DEF Accounted, Holds, Carries
<1>8. Digests!NothingForgotten'
  <2>1. \A v \in Workers : digesting[v].pc = "claimed" =>
           digesting'[v].pc = "claimed" /\ digesting'[v].items = digesting[v].items
    BY <1>0, <1>3
  <2> QED BY <1>0, <1>1, <2>1 DEF DigestInv, Digests!NothingForgotten, Digests!Forfeited
<1> QED BY <1>0, <1>4, <1>5, <1>6, <1>7, <1>8 DEF DigestInv

\* The inbox rows of one run are written.
LEMMA DispatchKeeps ==
  ASSUME DigestInv, NEW w \in Workers, Digests!DispatchToGroup(w)
  PROVE  DigestInv'
<1> DEFINE r == [digesting[w] EXCEPT !.pc = "dispatched"]
<1>0. /\ UNCHANGED <<adds, batch, digestFaults, reset, failed, digestRetaken>>
      /\ digesting[w].pc = "claimed"
      /\ digesting' = [digesting EXCEPT ![w] = r]
      /\ Digests!TypeOK
  <2>1. digesting \in [Workers -> Digests!Run]
    BY DEF DigestInv, Digests!TypeOK
  <2> QED BY <2>1 DEF Digests!DispatchToGroup, DigestInv
<1>1. /\ told' \in [Digests!Items -> Nat]
      /\ \A i \in Digests!Items : told'[i] = IF i \in digesting[w].items THEN told[i] + 1 ELSE told[i]
  BY DigestFacts DEF Digests!DispatchToGroup
<1>2. /\ r \in Digests!Run /\ r.pc = "dispatched" /\ r.items = digesting[w].items
      /\ r.at = digesting[w].at
  BY DigestFacts DEF Digests!Run
<1> HIDE DEF r
<1>3. /\ digesting' \in [Workers -> Digests!Run] /\ digesting'[w] = r
      /\ \A v \in Workers \ {w} : digesting'[v] = digesting[v]
  BY <1>0, <1>2, RunMoves
<1>4. Digests!TypeOK'
  BY <1>0, <1>1, <1>3 DEF Digests!TypeOK
<1>5. Dated'
  BY <1>0, <1>2, <1>3 DEF Dated, DigestInv
<1>6. ASSUME NEW i \in Digests!Items, i \notin digestRetaken' PROVE Single(i)'
  <2>1. Single(i) /\ told[i] \in Nat
    BY <1>0, <1>6, DigestFacts DEF DigestInv
  <2>2. \A v \in Workers : /\ Holds(v, i)' => Holds(v, i)
                           /\ Carries(v, i)' => Carries(v, i) /\ v # w
    BY <1>0, <1>2, <1>3 DEF Holds, Carries
  <2>3. CASE i \in digesting[w].items
    <3>1. Carries(w, i) /\ Holds(w, i)
      BY <1>0, <2>3 DEF Carries, Holds
    <3>2. told[i] = 0 /\ told'[i] = 1
      BY <1>1, <2>1, <2>3, <3>1 DEF Single
    <3>3. \A v \in Workers : ~Carries(v, i)'
      BY <2>1, <2>2, <3>1 DEF Single, Carries, Holds
    <3> QED BY <1>0, <2>1, <2>2, <3>1, <3>2, <3>3 DEF Single
  <2>4. CASE i \notin digesting[w].items
    <3>1. told'[i] = told[i]
      BY <1>1, <2>4
    <3> QED BY <1>0, <2>1, <2>2, <3>1 DEF Single
  <2> QED BY <2>3, <2>4
<1>7. ASSUME NEW i \in Digests!Items PROVE Accounted(i)'
  <2>1. Accounted(i) /\ told[i] \in Nat
    BY DigestFacts DEF DigestInv
  <2>2. told'[i] = 0 => told[i] = 0 /\ i \notin digesting[w].items
    BY <1>1, <2>1
  <2> QED BY <1>0, <1>2, <1>3, <2>1, <2>2 DEF Accounted, Holds, Carries
<1>8. Digests!NothingForgotten'
  <2> SUFFICES ASSUME NEW i \in 1..adds
               PROVE  \/ told'[i] > 0
                      \/ i \in batch.items
                      \/ \E v \in Workers : digesting'[v].pc = "claimed" /\ i \in digesting'[v].items
                      \/ i \in reset \cap failed
    BY <1>0 DEF Digests!NothingForgotten, Digests!Forfeited
  <2>1. i \in Digests!Items
    BY DigestFacts, DigestBounds
  <2>2. told[i] \in Nat /\ (told[i] > 0 => told'[i] > 0) /\ (i \in digesting[w].items => told'[i] > 0)
    BY <1>1, <2>1, DigestFacts
  <2>3. \/ told[i] > 0
        \/ i \in batch.items
        \/ \E v \in Workers : digesting[v].pc = "claimed" /\ i \in digesting[v].items
        \/ i \in reset \cap failed
    BY DEF DigestInv, Digests!NothingForgotten, Digests!Forfeited
  <2> QED BY <1>3, <2>2, <2>3
<1>9. ASSUME NEW i \in Digests!Items, i > adds PROVE told'[i] = 0
  <2>1. i \notin digesting[w].items
    BY <1>0, <1>9, DigestFacts, DigestBounds
  <2> QED BY <1>1, <1>9, <2>1 DEF DigestInv
<1> QED BY <1>0, <1>4, <1>5, <1>6, <1>7, <1>8, <1>9 DEF DigestInv

\* The run of an instance is over.
LEMMA RunEnds ==
  ASSUME Digests!TypeOK, NEW w \in Workers, digesting' = [digesting EXCEPT ![w] = Digests!Idle]
  PROVE  /\ digesting' \in [Workers -> Digests!Run] /\ digesting'[w].pc = "idle"
         /\ \A v \in Workers \ {w} : digesting'[v] = digesting[v]
         /\ \A i : \A v \in Workers : /\ Holds(v, i)' <=> v # w /\ Holds(v, i)
                                      /\ Carries(v, i)' <=> v # w /\ Carries(v, i)
<1>1. Digests!Idle \in Digests!Run /\ Digests!Idle.pc = "idle"
  BY DigestBounds DEF Digests!Idle, Digests!Run
<1>2. /\ digesting' \in [Workers -> Digests!Run] /\ digesting'[w] = Digests!Idle
      /\ \A v \in Workers \ {w} : digesting'[v] = digesting[v]
  BY <1>1, RunMoves
<1> QED BY <1>1, <1>2 DEF Holds, Carries

\* The row is deleted, if it is the one that was claimed.
LEMMA DeleteKeeps ==
  ASSUME DigestInv, NEW w \in Workers, Digests!DeleteClaimedListNotificationBatch(w)
  PROVE  DigestInv'
<1>0. /\ UNCHANGED <<adds, told, digestFaults, reset, failed, digestRetaken>>
      /\ digesting[w].pc = "dispatched"
      /\ digesting' = [digesting EXCEPT ![w] = Digests!Idle]
      /\ batch' = IF Digests!Deletes(w) THEN Digests!NoBatch ELSE batch
      /\ Digests!TypeOK
  BY DEF Digests!DeleteClaimedListNotificationBatch, DigestInv
<1>1. /\ digesting' \in [Workers -> Digests!Run] /\ digesting'[w].pc = "idle"
      /\ \A v \in Workers \ {w} : digesting'[v] = digesting[v]
      /\ \A i : \A v \in Workers : /\ Holds(v, i)' <=> v # w /\ Holds(v, i)
                                   /\ Carries(v, i)' <=> v # w /\ Carries(v, i)
  BY <1>0, RunEnds
<1>2. /\ Digests!NoBatch \in Digests!Batch /\ Digests!NoBatch.st = "none"
      /\ Digests!NoBatch.items = {} /\ Digests!NoBatch.at = 0 /\ 0 \in 0..adds
  BY DigestFacts, DigestBounds DEF Digests!NoBatch, Digests!Batch
<1>3. \/ batch' = batch
      \/ /\ batch' = Digests!NoBatch /\ batch.st # "none"
         /\ batch.items \subseteq digesting[w].items
  BY <1>0 DEF Digests!Deletes, DigestInv, Dated
<1>4. Digests!TypeOK'
  BY <1>0, <1>1, <1>2, <1>3 DEF Digests!TypeOK
<1>5. Dated'
  BY <1>0, <1>1, <1>2, <1>3 DEF Dated, DigestInv
<1>6. ASSUME NEW i \in Digests!Items, i \notin digestRetaken' PROVE Single(i)'
  <2>1. Single(i)
    BY <1>0, <1>6 DEF DigestInv
  <2> QED BY <1>0, <1>1, <1>2, <1>3, <2>1 DEF Single
\* Whatever left with the row had been announced by the run that held it.
<1>7. \A i \in Digests!Items : told[i] = 0 => (i \in batch.items => i \in batch'.items)
  <2> SUFFICES ASSUME NEW i \in Digests!Items, told[i] = 0, i \in batch.items, batch' # batch
               PROVE  FALSE
    OBVIOUS
  <2>1. Holds(w, i)
    BY <1>0, <1>3 DEF Holds
  <2> QED BY <1>0, <2>1 DEF DigestInv, Accounted
<1>8. ASSUME NEW i \in Digests!Items PROVE Accounted(i)'
  <2>1. Accounted(i)
    BY DEF DigestInv
  <2>2. ASSUME told[i] = 0, NEW v \in Workers, Holds(v, i)'
        PROVE  digesting'[v].pc = "claimed" /\ i \in batch'.items \cup reset
    BY <1>0, <1>1, <1>7, <2>1, <2>2 DEF Accounted
  <2>3. ASSUME told[i] = 0, batch'.st = "claimed", i \in batch'.items
        PROVE  i \in failed \/ \E v \in Workers : Carries(v, i)'
    <3>1. batch' = batch
      BY <1>2, <1>3, <2>3
    <3>2. i \in failed \/ \E v \in Workers : Carries(v, i)
      BY <2>1, <2>3, <3>1 DEF Accounted
    <3>3. ~Carries(w, i)
      BY <1>0 DEF Carries
    <3> QED BY <1>1, <3>2, <3>3
  <2> QED BY <1>0, <2>2, <2>3 DEF Accounted
<1>9. Digests!NothingForgotten'
  <2> SUFFICES ASSUME NEW i \in 1..adds
               PROVE  \/ told[i] > 0
                      \/ i \in batch'.items
                      \/ \E v \in Workers : digesting'[v].pc = "claimed" /\ i \in digesting'[v].items
                      \/ i \in reset \cap failed
    BY <1>0 DEF Digests!NothingForgotten, Digests!Forfeited
  <2>1. i \in Digests!Items /\ told[i] \in Nat
    BY DigestFacts, DigestBounds
  <2>2. told[i] > 0 \/ told[i] = 0
    BY <2>1
  <2>3. \/ told[i] > 0
        \/ i \in batch.items
        \/ \E v \in Workers : digesting[v].pc = "claimed" /\ i \in digesting[v].items
        \/ i \in reset \cap failed
    BY DEF DigestInv, Digests!NothingForgotten, Digests!Forfeited
  <2> QED BY <1>0, <1>1, <1>7, <2>1, <2>2, <2>3
<1> QED BY <1>0, <1>4, <1>5, <1>6, <1>8, <1>9 DEF DigestInv

\* The run of an instance fails.
LEMMA FailKeeps ==
  ASSUME DigestInv, NEW w \in Workers, Digests!Fails(w)
  PROVE  DigestInv'
<1>0. /\ UNCHANGED <<adds, batch, told, reset, digestRetaken>>
      /\ digesting[w].pc # "idle"
      /\ digesting' = [digesting EXCEPT ![w] = Digests!Idle]
      /\ failed' = IF digesting[w].pc = "claimed" THEN failed \cup digesting[w].items ELSE failed
      /\ digestFaults < MaxFaults /\ digestFaults' = digestFaults + 1
      /\ Digests!TypeOK
  BY DEF Digests!Fails, Digests!Fault, DigestInv
<1>1. /\ digesting' \in [Workers -> Digests!Run] /\ digesting'[w].pc = "idle"
      /\ \A v \in Workers \ {w} : digesting'[v] = digesting[v]
      /\ \A i : \A v \in Workers : /\ Holds(v, i)' <=> v # w /\ Holds(v, i)
                                   /\ Carries(v, i)' <=> v # w /\ Carries(v, i)
  BY <1>0, RunEnds
<1>2. digestFaults' \in 0..MaxFaults
  <2>1. digestFaults \in 0..MaxFaults /\ MaxFaults \in Nat
    BY <1>0, ListsAssumption DEF Digests!TypeOK, Digests!DigestAssumption
  <2> QED BY <1>0, <2>1
<1>3. /\ failed \subseteq failed'
      /\ \A i : Carries(w, i) => i \in failed'
      /\ failed' \subseteq Digests!Items
  <2>1. digesting[w].items \subseteq Digests!Items /\ failed \subseteq Digests!Items
    BY <1>0, DigestFacts DEF Digests!Run, Digests!TypeOK
  <2> QED BY <1>0, <2>1 DEF Carries
<1>4. Digests!TypeOK'
  BY <1>0, <1>1, <1>2, <1>3 DEF Digests!TypeOK
<1>5. Dated'
  BY <1>0, <1>1 DEF Dated, DigestInv
<1>6. \A i : Single(i) => Single(i)'
  BY <1>0, <1>1 DEF Single
<1>7. \A i : Accounted(i) => Accounted(i)'
  <2> SUFFICES ASSUME NEW i, Accounted(i) PROVE Accounted(i)'
    OBVIOUS
  <2>1. \A v \in Workers \ {w} : digesting'[v].pc = digesting[v].pc
    BY <1>1
  <2> QED BY <1>0, <1>1, <1>3, <2>1 DEF Accounted
<1>8. Digests!NothingForgotten'
  <2> SUFFICES ASSUME NEW i \in 1..adds
               PROVE  \/ told[i] > 0
                      \/ i \in batch.items
                      \/ \E v \in Workers : digesting'[v].pc = "claimed" /\ i \in digesting'[v].items
                      \/ i \in reset \cap failed'
    BY <1>0 DEF Digests!NothingForgotten, Digests!Forfeited
  <2>1. i \in Digests!Items /\ told[i] \in Nat
    BY DigestFacts, DigestBounds
  <2>2. Accounted(i) /\ (told[i] > 0 \/ told[i] = 0)
    BY <2>1 DEF DigestInv
  <2>3. \/ told[i] > 0
        \/ i \in batch.items
        \/ \E v \in Workers : digesting[v].pc = "claimed" /\ i \in digesting[v].items
        \/ i \in reset \cap failed
    BY DEF DigestInv, Digests!NothingForgotten, Digests!Forfeited
  <2>4. CASE Carries(w, i)
    BY <1>3, <2>2, <2>4 DEF Accounted, Holds, Carries
  <2>5. CASE ~Carries(w, i)
    BY <1>1, <1>3, <2>3, <2>5 DEF Carries
  <2> QED BY <2>4, <2>5
<1> QED BY <1>0, <1>4, <1>5, <1>6, <1>7, <1>8 DEF DigestInv

\* The digest keeps its invariant whatever part a behaviour shows.
LEMMA DigestInvariant == ListsSpec => []DigestInv
<1>1. ListsInit => DigestInv
  <2> SUFFICES ASSUME Digests!Init PROVE DigestInv
    BY DEF ListsInit
  <2>1. /\ Digests!NoBatch \in Digests!Batch /\ Digests!NoBatch.st = "none"
        /\ Digests!NoBatch.items = {} /\ Digests!NoBatch.at = 0
    BY DigestBounds DEF Digests!NoBatch, Digests!Batch
  <2>2. Digests!Idle \in Digests!Run /\ Digests!Idle.pc = "idle"
    BY DigestBounds DEF Digests!Idle, Digests!Run
  <2>3. 0 \in 0..MaxAdds /\ 0 \in 0..MaxFaults
    BY DigestBounds, ListsAssumption DEF Digests!DigestAssumption
  <2>4. Digests!TypeOK
    BY <2>1, <2>2, <2>3 DEF Digests!Init, Digests!TypeOK
  <2> QED
    BY <2>1, <2>2, <2>4
       DEF Digests!Init, DigestInv, Digests!NothingForgotten, Dated, Single, Accounted, Holds, Carries
<1>2. DigestInv /\ Digests!Next => DigestInv'
  BY QueueKeeps, TimeKeeps, ClaimKeeps, DispatchKeeps, DeleteKeeps, FailKeeps DEF Digests!Next
<1>3. DigestInv /\ UNCHANGED digestVars => DigestInv'
  BY DEF digestVars, DigestInv, Digests!TypeOK, Digests!NothingForgotten, Digests!Forfeited,
         Dated, Single, Accounted, Holds, Carries
<1>4. [ListsNext]_listsVars => Digests!Next \/ UNCHANGED digestVars
  BY DEF ListsNext, listsVars, ItemStep, DigestStep, ReminderStep, digestVars
<1> QED BY <1>1, <1>2, <1>3, <1>4, PTL DEF ListsSpec
-----------------------------------------------------------------------------
(***************************************************************************)
(* The reminder.                                                           *)
(***************************************************************************)
Serves(w, t) == reminding[w].pc # "idle" /\ reminding[w].at = t

\* What a run has done for the time it claimed.
Completed(w) ==
    /\ reminding[w].pc # "idle" => reminding[w].at \in Reminders!Times
    /\ reminding[w].pc \in {"written", "pushed"} =>
         \A m \in Members : inbox[<<m, reminding[w].at>>] = 1
    /\ reminding[w].pc = "pushed" =>
         \A m \in Members : pushed[<<m, reminding[w].at>>] > 0

\* Nobody has pushed for time t, and nobody is about to.
Untouched(t) ==
    /\ \A w \in Workers : ~Serves(w, t)
    /\ \A m \in Members : pushed[<<m, t>>] = 0

\* A time whose lease never ran out is served by one run, once.
Once(t) ==
    /\ \A w, v \in Workers : Serves(w, t) /\ Serves(v, t) => w = v
    /\ \A w \in Workers : Serves(w, t) /\ reminding[w].pc # "pushed" =>
         \A m \in Members : pushed[<<m, t>>] = 0
    /\ \A m \in Members : pushed[<<m, t>>] <= 1
    /\ list.at = t /\ ~list.sent /\ list.claim = "no" => Untouched(t)

ReminderInv ==
    /\ Reminders!TypeOK
    /\ Reminders!OneRowPerTime
    /\ Reminders!SentWasDelivered
    /\ list.due => list.at # Reminders!Never
    /\ list.at <= last
    /\ \A w \in Workers : Completed(w)
    /\ \A t \in Reminders!Times : /\ t \notin retaken => Once(t)
                                  /\ t > last => Untouched(t)

\* The run of one instance changes, and the others' do not.
LEMMA ReminderMoves ==
  ASSUME Reminders!TypeOK, NEW w \in Workers, NEW r \in Reminders!Run,
         reminding' = [reminding EXCEPT ![w] = r]
  PROVE  /\ reminding' \in [Workers -> Reminders!Run] /\ reminding'[w] = r
         /\ \A v \in Workers \ {w} : reminding'[v] = reminding[v]
BY DEF Reminders!TypeOK

\* The bounds of the reminder are numbers.
LEMMA ReminderBounds ==
  /\ MaxTimes \in Nat \ {0} /\ MaxFaults \in Nat
  /\ Reminders!Times = 1..MaxTimes /\ Reminders!Never = 0
BY ListsAssumption DEF Reminders!ReminderAssumption, Reminders!Times, Reminders!Never

\* What the invariant says of the row and of the run of one instance.
LEMMA ReminderFacts ==
  ASSUME ReminderInv
  PROVE  /\ Reminders!TypeOK
         /\ list \in Reminders!List /\ list.at \in 0..MaxTimes /\ last \in 0..MaxTimes
         /\ list.at <= last
         /\ inbox \in [Members \X Reminders!Times -> Nat]
         /\ pushed \in [Members \X Reminders!Times -> Nat]
         /\ \A w \in Workers : /\ reminding[w] \in Reminders!Run
                               /\ reminding[w].pc # "idle" => reminding[w].at \in Reminders!Times
<1>1. Reminders!TypeOK
  BY DEF ReminderInv
<1>2. list.at \in 0..MaxTimes /\ last \in 0..MaxTimes
  BY <1>1, ReminderBounds DEF Reminders!TypeOK, Reminders!List
<1> QED BY <1>1, <1>2 DEF ReminderInv, Completed, Reminders!TypeOK

\* Each member's rows and pushes for each time are counted.
LEMMA CountsAreNat ==
  ASSUME Reminders!TypeOK, NEW m \in Members, NEW t \in Reminders!Times
  PROVE  /\ <<m, t>> \in Members \X Reminders!Times
         /\ inbox[<<m, t>>] \in Nat /\ pushed[<<m, t>>] \in Nat
BY DEF Reminders!TypeOK

\* A fault is within their bound.
LEMMA FaultIsBounded ==
  ASSUME Reminders!TypeOK, Reminders!Fault \/ faults' = faults
  PROVE  faults' \in 0..MaxFaults
<1>1. faults \in 0..MaxFaults /\ MaxFaults \in Nat
  BY ReminderBounds DEF Reminders!TypeOK
<1> QED BY <1>1 DEF Reminders!Fault

\* A new time is set.
LEMMA SetKeeps ==
  ASSUME ReminderInv, NEW t \in Reminders!Times \cup {Reminders!Never}, Reminders!SetListReminder(t)
  PROVE  ReminderInv'
<1>0. /\ UNCHANGED <<reminding, inbox, pushed, faults, swallowed, retaken>>
      /\ t = 0 \/ t = last + 1
      /\ last' = IF t = 0 THEN last ELSE t
      /\ t \in 0..MaxTimes /\ last' \in 0..MaxTimes
      /\ last <= last' /\ t <= last'
  <2>1. /\ UNCHANGED <<reminding, inbox, pushed, faults, swallowed, retaken>>
        /\ t = 0 \/ t = last + 1
        /\ last' = IF t = 0 THEN last ELSE t
    BY ReminderBounds DEF Reminders!SetListReminder
  <2>2. t \in 0..MaxTimes /\ last \in 0..MaxTimes
    BY ReminderBounds, ReminderFacts
  <2> QED BY <2>1, <2>2, ReminderBounds
<1>1. /\ list' \in Reminders!List /\ list'.at = t
      /\ list'.due = FALSE /\ list'.sent = FALSE /\ list'.claim = "no"
  BY ReminderFacts DEF Reminders!SetListReminder, Reminders!Scheduled, Reminders!List
<1>2. Reminders!TypeOK'
  <2>1. last' \in Reminders!Times \cup {Reminders!Never}
    BY <1>0, ReminderBounds
  <2> QED BY <1>0, <1>1, <2>1, ReminderFacts DEF Reminders!TypeOK
<1>3. \A u : Untouched(u)' <=> Untouched(u)
  BY <1>0 DEF Untouched, Serves
<1>4. t # 0 => Untouched(t)
  <2>1. t # 0 => t \in Reminders!Times /\ t > last
    BY <1>0, ReminderBounds, ReminderFacts
  <2> QED BY <2>1 DEF ReminderInv
<1>5. ASSUME NEW u \in Reminders!Times
      PROVE  (u \notin retaken' => Once(u)') /\ (u > last' => Untouched(u)')
  <2>1. u # 0 /\ (u > last' => u > last)
    BY <1>0, ReminderBounds, ReminderFacts
  <2>2. u \notin retaken' => Once(u)
    BY <1>0 DEF ReminderInv
  <2>3. list'.at = u => Untouched(u)
    BY <1>1, <1>4, <2>1
  <2>4. u > last' => Untouched(u)
    BY <2>1 DEF ReminderInv
  <2> QED BY <1>0, <1>3, <2>2, <2>3, <2>4 DEF Once, Serves
<1>6. \A w \in Workers : Completed(w)'
  BY <1>0 DEF ReminderInv, Completed
<1> QED
  BY <1>0, <1>1, <1>2, <1>5, <1>6
     DEF ReminderInv, Reminders!OneRowPerTime, Reminders!SentWasDelivered

\* The list is archived or restored, its reminder becomes due, or a claim lapses.
LEMMA RowKeeps ==
  ASSUME ReminderInv,
         \/ \E b \in BOOLEAN : Reminders!SetListArchived(b)
         \/ Reminders!BecomesDue \/ Reminders!LeaseEnds
  PROVE  ReminderInv'
<1>1. UNCHANGED <<last, reminding, inbox, pushed, faults, swallowed, retaken>>
  BY DEF Reminders!SetListArchived, Reminders!BecomesDue, Reminders!LeaseEnds
<1>2. /\ list' \in Reminders!List
      /\ list'.at = list.at /\ list'.sent = list.sent
      /\ list'.due => list'.at # Reminders!Never
      /\ list'.claim = "no" <=> list.claim = "no"
  BY ReminderFacts
     DEF Reminders!SetListArchived, Reminders!BecomesDue, Reminders!LeaseEnds, Reminders!List,
         ReminderInv
<1>3. \A u : (Untouched(u)' <=> Untouched(u)) /\ (Once(u) => Once(u)')
  BY <1>1, <1>2 DEF Untouched, Serves, Once
<1>4. Reminders!TypeOK'
  BY <1>1, <1>2, ReminderFacts DEF Reminders!TypeOK
<1>5. Reminders!OneRowPerTime' /\ Reminders!SentWasDelivered' /\ \A w \in Workers : Completed(w)'
  BY <1>1, <1>2 DEF ReminderInv, Reminders!OneRowPerTime, Reminders!SentWasDelivered, Completed
<1> QED BY <1>1, <1>2, <1>3, <1>4, <1>5 DEF ReminderInv

\* An instance claims the reminder.
LEMMA DueKeeps ==
  ASSUME ReminderInv, NEW w \in Workers, Reminders!ListDueReminders(w)
  PROVE  ReminderInv'
<1> DEFINE r == [pc |-> "claimed", at |-> list.at]
<1>0. /\ UNCHANGED <<last, inbox, pushed, faults, swallowed>>
      /\ reminding[w].pc = "idle"
      /\ reminding' = [reminding EXCEPT ![w] = r]
      /\ list.due /\ ~list.sent
      /\ retaken' = IF list.claim = "lapsed" THEN retaken \cup {list.at} ELSE retaken
      /\ list.claim \in {"no", "lapsed"}
  BY ReminderFacts DEF Reminders!ListDueReminders, Reminders!Free, Reminders!List
<1>1. /\ list' \in Reminders!List /\ list'.at = list.at /\ list'.due = list.due
      /\ list'.sent = list.sent /\ list'.claim = "held"
  BY ReminderFacts DEF Reminders!ListDueReminders, Reminders!List
<1>2. list.at \in Reminders!Times
  BY <1>0, ReminderFacts DEF ReminderInv, Reminders!List
<1>3. r \in Reminders!Run /\ r.pc = "claimed" /\ r.at = list.at
  BY <1>2 DEF Reminders!Run
<1> HIDE DEF r
<1>4. /\ reminding' \in [Workers -> Reminders!Run] /\ reminding'[w] = r
      /\ \A v \in Workers \ {w} : reminding'[v] = reminding[v]
  BY <1>0, <1>3, RunMoves, ReminderMoves, ReminderFacts
<1>5. Reminders!TypeOK'
  BY <1>0, <1>1, <1>2, <1>4, ReminderFacts DEF Reminders!TypeOK
<1>6. \A u : u # list.at => \A v \in Workers : Serves(v, u)' => Serves(v, u) /\ v # w
  BY <1>3, <1>4 DEF Serves
<1>7. ASSUME NEW u \in Reminders!Times
      PROVE  (u \notin retaken' => Once(u)') /\ (u > last' => Untouched(u)')
  <2>1. CASE u = list.at
    <3>1. ~(u > last)
      BY <2>1, ReminderFacts, ReminderBounds
    <3>2. ASSUME u \notin retaken' PROVE Once(u)'
      <4>1. Once(u) /\ list.claim = "no"
        BY <1>0, <2>1, <3>2 DEF ReminderInv
      <4>2. Untouched(u)
        BY <1>0, <2>1, <4>1 DEF Once
      <4>3. \A v \in Workers : Serves(v, u)' => v = w
        BY <1>4, <4>2 DEF Untouched, Serves
      <4> QED BY <1>0, <1>1, <1>4, <4>1, <4>2, <4>3 DEF Once, Untouched
    <3> QED BY <1>0, <3>1, <3>2
  <2>2. CASE u # list.at
    <3>1. u \notin retaken' => Once(u)
      BY <1>0 DEF ReminderInv
    <3>2. u > last => Untouched(u)
      BY DEF ReminderInv
    <3> QED BY <1>0, <1>1, <1>4, <1>6, <2>2, <3>1, <3>2 DEF Once, Untouched
  <2> QED BY <2>1, <2>2
<1>8. ASSUME NEW v \in Workers PROVE Completed(v)'
  BY <1>0, <1>2, <1>3, <1>4 DEF ReminderInv, Completed
<1> QED
  BY <1>0, <1>1, <1>5, <1>7, <1>8
     DEF ReminderInv, Reminders!OneRowPerTime, Reminders!SentWasDelivered

\* The inbox rows for one time are written, or found.
LEMMA DeliveryKeeps ==
  ASSUME ReminderInv, NEW w \in Workers, Reminders!CreateNotificationsBatchIdempotent(w)
  PROVE  ReminderInv'
<1> DEFINE r == [reminding[w] EXCEPT !.pc = "written"]
<1>0. /\ UNCHANGED <<list, last, pushed, faults, swallowed, retaken>>
      /\ reminding[w].pc = "claimed"
      /\ reminding' = [reminding EXCEPT ![w] = r]
      /\ reminding[w].at \in Reminders!Times
  <2>1. reminding \in [Workers -> Reminders!Run]
    BY ReminderFacts DEF Reminders!TypeOK
  <2> QED BY <2>1, ReminderFacts DEF Reminders!CreateNotificationsBatchIdempotent
<1>1. /\ inbox' \in [Members \X Reminders!Times -> Nat]
      /\ \A m \in Members, u \in Reminders!Times :
           inbox'[<<m, u>>] = IF u = reminding[w].at THEN 1 ELSE inbox[<<m, u>>]
  BY ReminderFacts DEF Reminders!CreateNotificationsBatchIdempotent, Reminders!Inserted
<1>2. r \in Reminders!Run /\ r.pc = "written" /\ r.at = reminding[w].at
  BY <1>0, ReminderFacts DEF Reminders!Run
<1> HIDE DEF r
<1>3. /\ reminding' \in [Workers -> Reminders!Run] /\ reminding'[w] = r
      /\ \A v \in Workers \ {w} : reminding'[v] = reminding[v]
  BY <1>0, <1>2, ReminderMoves, ReminderFacts
<1>4. Reminders!TypeOK'
  BY <1>0, <1>1, <1>3, ReminderFacts DEF Reminders!TypeOK
<1>5. Reminders!OneRowPerTime'
  <2>1. \A m \in Members, u \in Reminders!Times : inbox'[<<m, u>>] <= 1
    <3> SUFFICES ASSUME NEW m \in Members, NEW u \in Reminders!Times
                 PROVE  inbox'[<<m, u>>] <= 1
      OBVIOUS
    <3>1. inbox[<<m, u>>] <= 1
      BY DEF ReminderInv, Reminders!OneRowPerTime
    <3> QED BY <1>1, <3>1
  <2>2. \A x \in Members \X Reminders!Times :
          \E m \in Members, u \in Reminders!Times : x = <<m, u>>
    OBVIOUS
  <2> QED BY <2>1, <2>2 DEF Reminders!OneRowPerTime
<1>6. Reminders!SentWasDelivered'
  BY <1>0, <1>1 DEF ReminderInv, Reminders!SentWasDelivered
<1>7. \A u : \A v \in Workers : Serves(v, u)' <=> Serves(v, u)
  BY <1>0, <1>2, <1>3 DEF Serves
<1>8. \A u : (Untouched(u)' <=> Untouched(u)) /\ (Once(u) => Once(u)')
  <2>1. \A v \in Workers : reminding[v].pc # "pushed" <=> reminding'[v].pc # "pushed"
    BY <1>0, <1>2, <1>3
  <2>2. \A u : Untouched(u)' <=> Untouched(u)
    BY <1>0, <1>7 DEF Untouched
  <2> QED BY <1>0, <1>7, <2>1, <2>2 DEF Once
<1>9. ASSUME NEW v \in Workers PROVE Completed(v)'
  <2>1. Completed(v)
    BY DEF ReminderInv
  <2>2. CASE v = w
    BY <1>0, <1>1, <1>2, <1>3, <2>2 DEF Completed
  <2>3. CASE v # w
    <3>1. reminding'[v] = reminding[v]
      BY <1>3, <2>3
    <3> QED BY <1>0, <1>1, <2>1, <3>1 DEF Completed
  <2> QED BY <2>2, <2>3
<1> QED BY <1>0, <1>4, <1>5, <1>6, <1>8, <1>9 DEF ReminderInv

\* The devices are pushed to; the run goes on only if everybody was reached.
LEMMA PushKeeps ==
  ASSUME ReminderInv, NEW w \in Workers, NEW missed \in SUBSET Members,
         Reminders!DeliverPush(w, missed)
  PROVE  ReminderInv'
<1> DEFINE t == reminding[w].at
           r == IF missed = {} THEN [reminding[w] EXCEPT !.pc = "pushed"] ELSE Reminders!Idle
<1>0. /\ UNCHANGED <<list, last, inbox, swallowed, retaken>>
      /\ reminding[w].pc = "written"
      /\ reminding' = [reminding EXCEPT ![w] = r]
      /\ t \in Reminders!Times
      /\ Serves(w, t)
  <2>1. reminding \in [Workers -> Reminders!Run]
    BY ReminderFacts DEF Reminders!TypeOK
  <2> QED BY <2>1, ReminderFacts DEF Reminders!DeliverPush, Reminders!Delivered, Serves
<1>1. /\ pushed' \in [Members \X Reminders!Times -> Nat]
      /\ \A m \in Members, u \in Reminders!Times :
           pushed'[<<m, u>>] =
             IF u = t /\ m \notin missed THEN pushed[<<m, u>>] + 1 ELSE pushed[<<m, u>>]
  <2>1. pushed' = [x \in Members \X Reminders!Times |->
                     pushed[x] + IF x[2] = t /\ x[1] \notin missed THEN 1 ELSE 0]
    BY ReminderFacts DEF Reminders!DeliverPush
  <2>2. \A x \in Members \X Reminders!Times : pushed[x] \in Nat
    BY ReminderFacts
  <2> HIDE DEF t
  <2>3. pushed' \in [Members \X Reminders!Times -> Nat]
    BY <2>1, <2>2
  <2>4. ASSUME NEW m \in Members, NEW u \in Reminders!Times
        PROVE  pushed'[<<m, u>>] =
             IF u = t /\ m \notin missed THEN pushed[<<m, u>>] + 1 ELSE pushed[<<m, u>>]
    BY <2>1, <2>2
  <2> QED BY <2>3, <2>4
<1>2. /\ r \in Reminders!Run
      /\ IF missed = {} THEN r.pc = "pushed" /\ r.at = t ELSE r.pc = "idle"
  <2>1. reminding[w] \in Reminders!Run
    BY ReminderFacts
  <2> QED BY <2>1 DEF Reminders!Run, Reminders!Idle
<1>3. faults' \in 0..MaxFaults
  BY ReminderFacts, FaultIsBounded DEF Reminders!DeliverPush
<1> HIDE DEF r
<1>4. /\ reminding' \in [Workers -> Reminders!Run] /\ reminding'[w] = r
      /\ \A v \in Workers \ {w} : reminding'[v] = reminding[v]
  BY <1>0, <1>2, ReminderMoves, ReminderFacts
<1> HIDE DEF t
<1>5. Reminders!TypeOK'
  BY <1>0, <1>1, <1>3, <1>4, ReminderFacts DEF Reminders!TypeOK
<1>6. Reminders!OneRowPerTime' /\ Reminders!SentWasDelivered'
  <2>1. \A m \in Members, u \in Reminders!Times : pushed[<<m, u>>] > 0 => pushed'[<<m, u>>] > 0
    BY <1>1, CountsAreNat, ReminderFacts
  <2> QED BY <1>0, <2>1 DEF ReminderInv, Reminders!OneRowPerTime, Reminders!SentWasDelivered
<1>7. \A u : \A v \in Workers : Serves(v, u)' => Serves(v, u)
  BY <1>0, <1>2, <1>4 DEF Serves, t
<1>8. ASSUME NEW u \in Reminders!Times
      PROVE  (u \notin retaken' => Once(u)') /\ (u > last' => Untouched(u)')
  <2>1. u > last => Untouched(u)
    BY DEF ReminderInv
  <2>2. u \notin retaken => Once(u)
    BY DEF ReminderInv
  <2>3. CASE u # t
    <3>1. \A m \in Members : pushed'[<<m, u>>] = pushed[<<m, u>>]
      BY <1>1, <2>3
    <3>2. \A v \in Workers : Serves(v, u)' /\ reminding'[v].pc # "pushed" =>
                               Serves(v, u) /\ reminding[v].pc # "pushed"
      BY <1>0, <1>2, <1>4, <2>3 DEF Serves, t
    <3> QED BY <1>0, <1>7, <2>1, <2>2, <3>1, <3>2 DEF Once, Untouched
  <2>4. CASE u = t
    <3>1. ~Untouched(u)
      BY <1>0, <2>4 DEF Untouched
    <3>2. ASSUME u \notin retaken PROVE Once(u)'
      <4>1. Once(u)
        BY <2>2, <3>2
      <4>2. \A m \in Members : pushed[<<m, u>>] = 0
        BY <1>0, <2>4, <4>1 DEF Once
      <4>3. \A m \in Members : pushed'[<<m, u>>] <= 1
        BY <1>1, <2>4, <4>2, CountsAreNat, ReminderFacts
      <4>4. \A v \in Workers : Serves(v, u)' => v = w /\ reminding'[v].pc = "pushed"
        BY <1>0, <1>2, <1>4, <1>7, <2>4, <4>1 DEF Once, Serves
      <4> QED BY <1>0, <3>1, <4>1, <4>3, <4>4 DEF Once
    <3> QED BY <1>0, <2>1, <3>1, <3>2
  <2> QED BY <2>3, <2>4
<1>9. ASSUME NEW v \in Workers PROVE Completed(v)'
  <2>1. Completed(v)
    BY DEF ReminderInv
  <2>2. \A m \in Members, u \in Reminders!Times :
          /\ pushed[<<m, u>>] > 0 => pushed'[<<m, u>>] > 0
          /\ missed = {} => pushed'[<<m, t>>] > 0
    <3> SUFFICES ASSUME NEW m \in Members, NEW u \in Reminders!Times
                 PROVE  /\ pushed[<<m, u>>] > 0 => pushed'[<<m, u>>] > 0
                        /\ missed = {} => pushed'[<<m, t>>] > 0
      OBVIOUS
    <3>1. pushed[<<m, u>>] \in Nat /\ pushed[<<m, t>>] \in Nat
      BY <1>0, CountsAreNat, ReminderFacts
    <3> QED BY <1>0, <1>1, <3>1
  <2>3. CASE v = w
    <3>1. Completed(w)
      BY DEF ReminderInv
    <3>2. \A m \in Members : inbox[<<m, t>>] = 1
      BY <1>0, <3>1 DEF Completed, t
    <3> QED BY <1>0, <1>2, <1>4, <2>2, <2>3, <3>2 DEF Completed
  <2>4. CASE v # w
    <3>1. reminding'[v] = reminding[v]
      BY <1>4, <2>4
    <3> QED BY <1>0, <2>1, <2>2, <3>1 DEF Completed
  <2> QED BY <2>3, <2>4
<1> QED BY <1>0, <1>5, <1>6, <1>8, <1>9 DEF ReminderInv

\* A run ends: what it has done stays, and it serves nobody any more.
LEMMA ReminderEnds ==
  ASSUME ReminderInv, NEW w \in Workers,
         reminding' = [reminding EXCEPT ![w] = Reminders!Idle],
         UNCHANGED <<last, inbox, pushed, retaken>>
  PROVE  /\ reminding' \in [Workers -> Reminders!Run]
         /\ \A v \in Workers : Completed(v)'
         /\ \A u : Untouched(u) => Untouched(u)'
         /\ \A u : Once(u) /\ (list'.at = u /\ ~list'.sent /\ list'.claim = "no" => Untouched(u)')
                     => Once(u)'
<1>1. Reminders!Idle \in Reminders!Run /\ Reminders!Idle.pc = "idle"
  BY DEF Reminders!Idle, Reminders!Run
<1>2. /\ reminding' \in [Workers -> Reminders!Run] /\ reminding'[w] = Reminders!Idle
      /\ \A v \in Workers \ {w} : reminding'[v] = reminding[v]
  BY <1>1, ReminderMoves, ReminderFacts
<1>3. \A u : \A v \in Workers : Serves(v, u)' => Serves(v, u) /\ v # w
  BY <1>1, <1>2 DEF Serves
<1>4. \A u : Untouched(u) => Untouched(u)'
  BY <1>3 DEF Untouched
<1>5. \A u : Once(u) /\ (list'.at = u /\ ~list'.sent /\ list'.claim = "no" => Untouched(u)')
               => Once(u)'
  BY <1>2, <1>3 DEF Once
<1>6. \A v \in Workers : Completed(v)'
  BY <1>1, <1>2 DEF ReminderInv, Completed
<1> QED BY <1>2, <1>4, <1>5, <1>6

\* The reminder is marked as sent, or the run fails.
LEMMA EndsKeep ==
  ASSUME ReminderInv, NEW w \in Workers, Reminders!MarkReminderSent(w) \/ Reminders!Fails(w)
  PROVE  ReminderInv'
<1>0. /\ UNCHANGED <<last, inbox, pushed, retaken>>
      /\ reminding' = [reminding EXCEPT ![w] = Reminders!Idle]
      /\ faults' \in 0..MaxFaults
  BY ReminderFacts, FaultIsBounded DEF Reminders!MarkReminderSent, Reminders!Fails
<1>1. /\ reminding' \in [Workers -> Reminders!Run]
      /\ \A v \in Workers : Completed(v)'
      /\ \A u : Untouched(u) => Untouched(u)'
      /\ \A u : Once(u) /\ (list'.at = u /\ ~list'.sent /\ list'.claim = "no" => Untouched(u)')
                  => Once(u)'
  BY <1>0, ReminderEnds
<1>2. CASE UNCHANGED <<list, swallowed>>
  <2>1. Reminders!TypeOK'
    BY <1>0, <1>1, <1>2, ReminderFacts DEF Reminders!TypeOK
  <2>2. \A u : Once(u) => Once(u)'
    BY <1>1, <1>2 DEF Once
  <2> QED
    BY <1>0, <1>1, <1>2, <2>1, <2>2
       DEF ReminderInv, Reminders!OneRowPerTime, Reminders!SentWasDelivered
<1>3. CASE /\ Reminders!MarkReminderSent(w) /\ ~list.sent
  <2>1. /\ list' \in Reminders!List /\ list'.at = list.at /\ list'.due = list.due
        /\ list'.sent = TRUE /\ list'.claim = "no"
        /\ reminding[w].pc = "pushed"
    BY <1>3, ReminderFacts DEF Reminders!MarkReminderSent, Reminders!Marked, Reminders!List
  <2>2. swallowed' = IF list.at = reminding[w].at THEN swallowed
                     ELSE swallowed \cup ({list.at} \ {Reminders!Never})
    BY <1>3 DEF Reminders!MarkReminderSent
  <2>3. list.at \in Reminders!Times \cup {Reminders!Never}
    BY ReminderFacts DEF Reminders!List
  <2>4. Reminders!TypeOK'
    BY <1>0, <1>1, <2>1, <2>2, <2>3, ReminderFacts DEF Reminders!TypeOK
  <2>5. Reminders!SentWasDelivered'
    <3> SUFFICES ASSUME list.at \in Reminders!Times \ swallowed', NEW m \in Members
                 PROVE  inbox[<<m, list.at>>] = 1 /\ pushed[<<m, list.at>>] > 0
      BY <1>0, <2>1 DEF Reminders!SentWasDelivered
    <3>1. list.at = reminding[w].at
      BY <2>2, ReminderBounds
    <3>2. Completed(w)
      BY DEF ReminderInv
    <3> QED BY <2>1, <3>1, <3>2 DEF Completed
  <2>6. \A u : Once(u) => Once(u)'
    BY <1>1, <2>1
  <2>7. Reminders!OneRowPerTime'
    BY <1>0 DEF ReminderInv, Reminders!OneRowPerTime
  <2> QED BY <1>0, <1>1, <2>1, <2>4, <2>5, <2>6, <2>7 DEF ReminderInv
<1> QED BY <1>2, <1>3 DEF Reminders!MarkReminderSent, Reminders!Fails

\* The reminder keeps its invariant whatever part a behaviour shows.
LEMMA ReminderInvariant == ListsSpec => []ReminderInv
<1>1. ListsInit => ReminderInv
  <2> SUFFICES ASSUME Reminders!Init PROVE ReminderInv
    BY DEF ListsInit
  <2>1. Reminders!Idle \in Reminders!Run /\ Reminders!Idle.pc = "idle"
    BY DEF Reminders!Idle, Reminders!Run
  <2>2. list \in Reminders!List /\ list.at = 0 /\ ~list.due /\ ~list.sent /\ list.claim = "no"
    BY ReminderBounds DEF Reminders!Init, Reminders!List
  <2>3. 0 \in 0..MaxFaults /\ 0 \notin Reminders!Times /\ last = 0 /\ \A t \in Reminders!Times : t > 0
    BY ReminderBounds DEF Reminders!Init
  <2>4. Reminders!TypeOK
    BY <2>1, <2>2, <2>3, ReminderBounds DEF Reminders!Init, Reminders!TypeOK
  <2>5. \A r \in Members \X Reminders!Times : inbox[r] = 0 /\ pushed[r] = 0
    BY DEF Reminders!Init
  <2>6. \A t \in Reminders!Times : Untouched(t) /\ Once(t)
    BY <2>1, <2>5 DEF Reminders!Init, Untouched, Once, Serves
  <2>7. \A w \in Workers : Completed(w)
    BY <2>1 DEF Reminders!Init, Completed
  <2> QED
    BY <2>2, <2>3, <2>4, <2>5, <2>6, <2>7, ReminderBounds
       DEF ReminderInv, Reminders!OneRowPerTime, Reminders!SentWasDelivered
<1>2. ReminderInv /\ Reminders!Next => ReminderInv'
  BY SetKeeps, RowKeeps, DueKeeps, DeliveryKeeps, PushKeeps, EndsKeep
     DEF Reminders!Next, Reminders!Works
<1>3. ReminderInv /\ UNCHANGED reminderVars => ReminderInv'
  BY DEF reminderVars, ReminderInv, Reminders!TypeOK, Reminders!OneRowPerTime,
         Reminders!SentWasDelivered, Completed, Once, Untouched, Serves
<1>4. [ListsNext]_listsVars => Reminders!Next \/ UNCHANGED reminderVars
  BY DEF ListsNext, listsVars, ItemStep, DigestStep, ReminderStep, reminderVars
<1> QED BY <1>1, <1>2, <1>3, <1>4, PTL DEF ListsSpec

-----------------------------------------------------------------------------
\* At any moment, whatever stopped half-way: no queued addition has dropped out
\* of its digest and none was announced twice without a lapsed lease; a
\* reminder is in an inbox once, is marked as sent only when everybody has it,
\* and is pushed again only by a retry (list_notification_digest.go,
\* list_reminder.go).
THEOREM ListsAreSafe == ListsSpec => []ListsSafety
<1>1. RowsInv /\ DigestInv /\ ReminderInv => ListsSafety
  <2> SUFFICES ASSUME RowsInv, DigestInv, ReminderInv PROVE ListsSafety
    OBVIOUS
  <2>1. Digests!ToldOnce
    <3> SUFFICES ASSUME NEW i \in Digests!Items, told[i] > 1, i \notin digestRetaken
                 PROVE  FALSE
      BY DEF Digests!ToldOnce
    <3>1. Single(i) /\ told[i] \in Nat
      BY DigestFacts DEF DigestInv
    <3> QED BY <3>1 DEF Single
  <2>2. Reminders!RepeatsAreRetries
    <3> SUFFICES ASSUME NEW m \in Members, NEW t \in Reminders!Times,
                        pushed[<<m, t>>] > 1, t \notin retaken
                 PROVE  FALSE
      BY DEF Reminders!RepeatsAreRetries
    <3>1. Once(t) /\ pushed[<<m, t>>] \in Nat
      BY ReminderFacts DEF ReminderInv
    <3>2. pushed[<<m, t>>] <= 1
      BY <3>1 DEF Once
    <3> QED BY <3>1, <3>2
  <2> QED BY <2>1, <2>2 DEF ListsSafety, RowsInv, DigestInv, ReminderInv
<1> QED BY <1>1, RowsInvariant, DigestInvariant, ReminderInvariant, PTL

-----------------------------------------------------------------------------
(***************************************************************************)
(* An item edited on several devices.                                      *)
(***************************************************************************)
\* An operation is under way only if it is queued, only edits are compared,
\* and a reordering is queued only after one was made.
Shape ==
    /\ request.pc # "none" => queue # <<>>
    /\ request.pc \in {"read", "refused"} => IsEdit(Sent)
    /\ \A k \in conflict : IsEdit(k.op)
    /\ \A i \in DOMAIN queue : ~IsEdit(queue[i]) => reorders > 0
    /\ other # Nobody => other.edit # 0

\* Nobody holds a version from the server that is later than the row's.
AsOld(op) == op.base # NoVersion /\ op.from # "device" => op.base <= row.at
Timely ==
    /\ row.at <= clock
    /\ cache.from # "device" => cache.at <= row.at
    /\ request.row.at <= row.at /\ other.row.at <= row.at
    /\ \A a \in Askers : fetch[a].row.at <= row.at
    /\ \A k \in conflict : k.row.at <= row.at
    /\ \A i \in DOMAIN queue : AsOld(queue[i])
    /\ request.pc = "read" => Sent.base = NoVersion \/ request.row.at <= Sent.base
    /\ request.pc = "refused" => Sent.base # NoVersion /\ request.row.at > Sent.base

\* Each edit is in one place.
Distinct ==
    /\ \A i \in DOMAIN queue :
         /\ queue[i].edit <= edits
         /\ \A j \in DOMAIN queue : IsEdit(queue[i]) /\ queue[i].edit = queue[j].edit => i = j
         /\ \A k \in conflict : queue[i].edit # k.op.edit
         /\ queue[i].edit = other.edit => other.edit = 0
    /\ \A k \in conflict :
         /\ k.op.edit <= edits /\ k.op.edit # other.edit
         /\ \A l \in conflict : k.op.edit = l.op.edit => k = l
    /\ other.edit <= edits

\* An edit that was not applied yet.
Unapplied(e) ==
    \/ \E i \in DOMAIN queue : /\ IsEdit(queue[i]) /\ queue[i].edit = e /\ ~queue[i].again
                               /\ ~(i = 1 /\ request.pc = "answered")
    \/ \E k \in conflict : k.op.edit = e /\ ~k.op.again
    \/ e # 0 /\ other.edit = e

\* Each write makes a version of its own, as long as nothing is applied twice
\* and no reordering stamps the row anew.
Clean == ~repeated /\ reorders = 0
Known(ver, at) ==
    /\ \A f \in Fields : ver[f] <= edits
    /\ Clean =>
         /\ ver = row.ver => at = row.at
         /\ \A f \in Fields : ~Unapplied(ver[f])

\* What came from the list is a version the row has had.
Versions ==
    /\ Known(row.ver, row.at) /\ Known(Blank.ver, Blank.at)
    /\ Known(other.row.ver, other.row.at)
    /\ cache.from = "list" => Known(cache.ver, cache.at)
    /\ request.pc # "answered" => Known(request.row.ver, request.row.at)
    /\ \A a \in Askers : Known(fetch[a].row.ver, fetch[a].row.at)
    /\ \A k \in conflict : Known(k.row.ver, k.row.at)
    /\ \A i \in DOMAIN queue :
         queue[i].base # NoVersion /\ queue[i].from = "list" => Known(queue[i].saw, queue[i].base)
    /\ request.pc = "refused" /\ Clean => Sent.from # "list" \/ Sent.saw # request.row.ver

\* A difference between device and server has not gone unnoticed: an edit, a
\* conflict, a refresh or a named cause is still to come.
Fetching(a) == fetch[a].pc # "none"
Noticed == dirty \/ behind \/ \E a \in Askers : Fetching(a)
Quiet ==
    /\ ~dirty => \A a \in Askers : Fetching(a) /\ ~fetch[a].late => fetch[a].row.ver = row.ver
    /\ Noticed \/ Pending \/ conflict # {} \/ cache.ver = row.ver
    /\ request.pc = "answered" /\ IsEdit(Sent) => Noticed

SyncInv == TypeOK /\ Shape /\ Timely /\ Distinct /\ Versions /\ Quiet

-----------------------------------------------------------------------------
(***************************************************************************)
(* The queue.                                                              *)
(***************************************************************************)
\* What is queued are operations, the oldest first.
LEMMA QueueFacts ==
  ASSUME queue \in Seq(Op)
  PROVE  /\ \A i \in DOMAIN queue : i \in Nat /\ i > 0 /\ queue[i] \in Op
         /\ queue # <<>> => 1 \in DOMAIN queue /\ Sent = queue[1] /\ Sent \in Op
         /\ queue = <<>> => DOMAIN queue = {}
<1>1. DOMAIN queue = 1..Len(queue) /\ Len(queue) \in Nat
  BY LenProperties
<1>2. \A i \in DOMAIN queue : queue[i] \in Op
  BY <1>1, ElementOfSeq
<1>3. queue # <<>> => Len(queue) # 0
  BY EmptySeq
<1>4. queue = <<>> => Len(queue) = 0
  BY EmptySeq
<1> QED BY <1>1, <1>2, <1>3, <1>4 DEF Sent

\* An operation comes last.
LEMMA OneMoreQueued ==
  ASSUME queue \in Seq(Op), NEW op \in Op, queue' = Append(queue, op)
  PROVE  /\ queue' \in Seq(Op) /\ queue' # <<>>
         /\ \E n \in Nat : /\ n \notin DOMAIN queue /\ DOMAIN queue' = DOMAIN queue \cup {n}
                           /\ queue'[n] = op
                           /\ queue # <<>> => n # 1
         /\ \A i \in DOMAIN queue : queue'[i] = queue[i]
         /\ queue # <<>> => Sent' = Sent
<1>1. DOMAIN queue = 1..Len(queue) /\ Len(queue) \in Nat
  BY LenProperties
<1>2. /\ queue' \in Seq(Op) /\ queue' # <<>> /\ Len(queue') = Len(queue) + 1
      /\ \A i \in 1..Len(queue) : queue'[i] = queue[i]
      /\ queue'[Len(queue) + 1] = op
  BY AppendProperties
<1>3. DOMAIN queue' = 1..(Len(queue) + 1)
  BY <1>2, LenProperties
<1>4. queue # <<>> => Len(queue) # 0
  BY EmptySeq
<1>5. 1..(Len(queue) + 1) = 1..Len(queue) \cup {Len(queue) + 1}
      /\ Len(queue) + 1 \notin 1..Len(queue) /\ Len(queue) + 1 \in Nat
      /\ (Len(queue) # 0 => Len(queue) + 1 # 1)
  BY <1>1
<1>6. queue # <<>> => Sent' = Sent
  BY <1>1, <1>2, <1>4 DEF Sent
<1> QED BY <1>1, <1>2, <1>3, <1>4, <1>5, <1>6

\* The oldest operation is dropped.
LEMMA Dropped ==
  ASSUME queue \in Seq(Op), queue # <<>>, queue' = Tail(queue)
  PROVE  /\ queue' \in Seq(Op)
         /\ \A i \in DOMAIN queue' : i + 1 \in DOMAIN queue /\ i + 1 # 1 /\ queue'[i] = queue[i + 1]
         /\ \A i \in DOMAIN queue : i = 1 \/ \E j \in DOMAIN queue' : queue'[j] = queue[i]
<1>1. DOMAIN queue = 1..Len(queue) /\ Len(queue) \in Nat /\ Len(queue) # 0
  BY LenProperties, EmptySeq
<1>2. /\ queue' \in Seq(Op) /\ Len(queue') = Len(queue) - 1
      /\ \A i \in 1..Len(queue') : queue'[i] = queue[i + 1]
  BY HeadTailProperties
<1>3. DOMAIN queue' = 1..(Len(queue) - 1)
  BY <1>2, LenProperties
<1>4. \A i \in DOMAIN queue' : i + 1 \in DOMAIN queue /\ i + 1 # 1
  BY <1>1, <1>3
<1>5. ASSUME NEW i \in DOMAIN queue, i # 1
      PROVE  \E j \in DOMAIN queue' : queue'[j] = queue[i]
  <2>1. i - 1 \in DOMAIN queue' /\ (i - 1) + 1 = i
    BY <1>1, <1>3, <1>5
  <2> QED BY <1>2, <1>3, <2>1
<1> QED BY <1>2, <1>3, <1>4, <1>5

\* The answer to the oldest operation is lost.
LEMMA Marked ==
  ASSUME queue \in Seq(Op), queue # <<>>, queue' = [queue EXCEPT ![1].again = TRUE]
  PROVE  /\ queue' \in Seq(Op) /\ queue' # <<>> /\ DOMAIN queue' = DOMAIN queue
         /\ queue'[1].again
         /\ \A i \in DOMAIN queue :
              /\ i # 1 => queue'[i] = queue[i]
              /\ queue'[i].edit = queue[i].edit /\ queue'[i].base = queue[i].base
              /\ queue'[i].from = queue[i].from /\ queue'[i].saw = queue[i].saw
<1>1. DOMAIN queue = 1..Len(queue) /\ Len(queue) \in Nat /\ Len(queue) # 0
  BY LenProperties, EmptySeq
<1> DEFINE op == [queue[1] EXCEPT !.again = TRUE]
<1>2. queue[1] \in Op
  BY QueueFacts
<1>3. /\ op \in Op /\ op.again
      /\ op.edit = queue[1].edit /\ op.base = queue[1].base
      /\ op.from = queue[1].from /\ op.saw = queue[1].saw
  BY <1>2 DEF Op
<1>4. queue' = [queue EXCEPT ![1] = op]
  OBVIOUS
<1> HIDE DEF op
<1>5. queue' \in Seq(Op) /\ Len(queue') = Len(queue)
      /\ \A i \in 1..Len(queue) : queue'[i] = IF i = 1 THEN op ELSE queue[i]
  <2>1. 1 \in 1..Len(queue)
    BY <1>1
  <2>2. /\ [queue EXCEPT ![1] = op] \in Seq(Op)
        /\ Len([queue EXCEPT ![1] = op]) = Len(queue)
        /\ \A i \in 1..Len(queue) : [queue EXCEPT ![1] = op][i] = IF i = 1 THEN op ELSE queue[i]
    <3>1. queue \in Seq(Op) /\ op \in Op
      BY <1>3
    <3> QED BY <2>1, <3>1, ExceptSeq, SMTT(20)
  <2> QED BY <1>4, <2>2
<1>6. DOMAIN queue' = DOMAIN queue
  BY <1>1, <1>5, LenProperties
<1>7. queue' # <<>>
  BY <1>1, <1>5, EmptySeq
<1> QED BY <1>1, <1>3, <1>5, <1>6, <1>7

-----------------------------------------------------------------------------
(***************************************************************************)
(* What the parts of the invariant say, and what keeps them.               *)
(***************************************************************************)
\* The bounds are numbers, and no second is no version.
LEMMA Bounds ==
  /\ MaxWrites \in Nat /\ MaxClock \in Nat /\ MaxLosses \in Nat
  /\ CheckField \in Fields /\ NoVersion \notin Seconds
BY SyncAssumption DEF Seconds

LEMMA TypeFacts ==
  ASSUME TypeOK
  PROVE  /\ clock \in Seconds /\ clock \in Nat /\ edits \in Nat /\ edits \in 0..MaxWrites
         /\ row \in Row /\ row.ver \in Fielded /\ row.at \in Seconds
         /\ cache \in Copy /\ cache.ver \in Fielded /\ cache.at \in Seconds /\ cache.from \in Origins
         /\ request.row \in Row /\ request.pc \in {"none", "sent", "read", "answered", "refused"}
         /\ other.row \in Row /\ other.edit \in 0..MaxWrites /\ other.field \in Fields
         /\ \A a \in Askers : fetch[a].row \in Row /\ fetch[a].pc \in {"none", "applying"}
         /\ \A k \in conflict : k.op \in Op /\ k.row \in Row
         /\ queue \in Seq(Op)
         /\ Seconds \subseteq Nat
<1>1. Seconds \subseteq Nat /\ 0..MaxWrites \subseteq Nat
  BY Bounds DEF Seconds
<1> QED BY <1>1 DEF TypeOK, Row, Copy

\* A row is its fields and its stamp.
LEMMA RowFacts ==
  /\ \A r \in Row : r.ver \in Fielded /\ r.at \in Seconds /\ r.at \in Nat
  /\ \A v \in Fielded, t \in Seconds : [ver |-> v, at |-> t] \in Row
  /\ \A v \in Fielded, t \in Seconds, o \in Origins : [ver |-> v, at |-> t, from |-> o] \in Copy
  /\ \A v \in Fielded, f \in Fields : v[f] \in 0..MaxWrites
  /\ \A v \in Fielded, f \in Fields, e \in 0..MaxWrites : [v EXCEPT ![f] = e] \in Fielded
<1>1. Seconds \subseteq Nat
  BY Bounds DEF Seconds
<1> QED BY <1>1 DEF Row, Copy, Fielded

LEMMA OpFacts ==
  ASSUME NEW op \in Op
  PROVE  /\ op.edit \in 0..MaxWrites /\ op.edit \in Nat /\ op.field \in Fields
         /\ op.base \in Seconds \cup {NoVersion} /\ (op.base # NoVersion => op.base \in Nat)
         /\ op.from \in Origins /\ op.saw \in Fielded
<1>1. Seconds \subseteq Nat /\ 0..MaxWrites \subseteq Nat
  BY Bounds DEF Seconds
<1> QED BY <1>1 DEF Op

\* No version is later than it was, if the row's is not either.
LEMMA StaysKnown ==
  ASSUME TypeOK, row'.ver = row.ver, row'.at = row.at, edits' \in Nat, edits <= edits',
         Clean' => Clean,
         \A e \in Nat : Unapplied(e)' => Unapplied(e) \/ e > edits,
         NEW v \in Fielded, NEW t, Known(v, t)
  PROVE  Known(v, t)'
<1>1. \A f \in Fields : v[f] \in Nat /\ v[f] <= edits
  BY RowFacts, Bounds DEF Known
<1>2. edits \in Nat
  BY TypeFacts
<1>3. \A f \in Fields : v[f] <= edits' /\ ~(v[f] > edits)
  BY <1>1, <1>2
<1> QED BY <1>1, <1>3 DEF Known

\* Nor if the row gets a version of its own.
LEMMA WriteMakesKnown ==
  ASSUME TypeOK, NEW r \in Row, NEW f \in Fields, NEW e \in 0..MaxWrites, e <= edits,
         row'.ver = [r.ver EXCEPT ![f] = e], edits' = edits,
         Known(r.ver, r.at),
         Clean' => Clean /\ Unapplied(e),
         \A x \in Nat : Unapplied(x)' => Unapplied(x) /\ x # e
  PROVE  /\ \A v \in Fielded : \A t : Known(v, t) => Known(v, t)'
         /\ Known(row.ver, row.at)'
<1>1. r.ver \in Fielded /\ row'.ver \in Fielded
  BY RowFacts
<1>2. row'.ver[f] = e /\ \A g \in Fields \ {f} : row'.ver[g] = r.ver[g]
  BY <1>1 DEF Fielded
<1>3. ASSUME NEW v \in Fielded, NEW t, Known(v, t) PROVE Known(v, t)'
  <2>1. \A g \in Fields : v[g] \in Nat /\ v[g] <= edits
    BY <1>3, RowFacts, Bounds DEF Known
  <2>2. Clean' => v # row'.ver
    BY <1>2, <1>3 DEF Known
  <2>3. Clean' => \A g \in Fields : ~Unapplied(v[g])'
    BY <1>3, <2>1 DEF Known
  <2> QED BY <2>1, <2>2, <2>3 DEF Known
<1>4. Known(row.ver, row.at)'
  <2>1. \A g \in Fields : row'.ver[g] \in Nat /\ row'.ver[g] <= edits
    BY <1>1, <1>2, RowFacts, Bounds DEF Known
  <2>2. ASSUME Clean', NEW g \in Fields, NEW x \in Nat, x = row'.ver[g] PROVE ~Unapplied(x)'
    BY <1>2, <2>2 DEF Known
  <2>3. Clean' => \A g \in Fields : (~Unapplied(row.ver[g]))'
    <3> SUFFICES ASSUME Clean', NEW g \in Fields PROVE (~Unapplied(row.ver[g]))'
      OBVIOUS
    <3>1. PICK x \in Nat : x = row'.ver[g]
      BY <2>1
    <3>2. ~Unapplied(x)'
      BY <2>2, <3>1
    <3> QED BY <3>1, <3>2 DEF Unapplied
  <2> QED BY <2>1, <2>3 DEF Known
<1> QED BY <1>3, <1>4

\* Versions that were known stay so, wherever they are copied to.
LEMMA VersionsKept ==
  ASSUME TypeOK', Known(Blank.ver, Blank.at),
         \A v \in Fielded : \A t : Known(v, t) => Known(v, t)',
         Known(row.ver, row.at)',
         Known(other'.row.ver, other'.row.at),
         cache'.from = "list" => Known(cache'.ver, cache'.at),
         request'.pc # "answered" => Known(request'.row.ver, request'.row.at),
         \A a \in Askers : Known(fetch'[a].row.ver, fetch'[a].row.at),
         \A k \in conflict' : Known(k.row.ver, k.row.at),
         \A i \in DOMAIN queue' :
            queue'[i].base # NoVersion /\ queue'[i].from = "list" => Known(queue'[i].saw, queue'[i].base),
         request'.pc = "refused" /\ Clean' => Sent'.from # "list" \/ Sent'.saw # request'.row.ver
  PROVE  Versions'
<1>1. /\ cache' \in Copy /\ request'.row \in Row /\ other'.row \in Row
      /\ \A a \in Askers : fetch'[a].row \in Row
      /\ \A k \in conflict' : k.row \in Row
      /\ queue' \in Seq(Op)
  BY DEF TypeOK
<1>2. \A i \in DOMAIN queue' : queue'[i] \in Op
  <2>1. DOMAIN queue' = 1..Len(queue')
    BY <1>1, LenProperties
  <2> QED BY <1>1, <2>1, ElementOfSeq
<1>3. cache'.ver \in Fielded
  BY <1>1 DEF Copy
<1>4. Known(Blank.ver, Blank.at)'
  <2>1. Blank.ver \in Fielded
    BY Bounds DEF Blank, Fielded
  <2> QED BY <2>1 DEF Known
<1>5. Known(other.row.ver, other.row.at)'
  <2>1. other'.row.ver \in Fielded
    BY <1>1, RowFacts
  <2> QED BY <2>1 DEF Known
<1>6. cache'.from = "list" => Known(cache.ver, cache.at)'
  BY <1>3 DEF Known
<1>7. request'.pc # "answered" => Known(request.row.ver, request.row.at)'
  <2>1. request'.row.ver \in Fielded
    BY <1>1, RowFacts
  <2> QED BY <2>1 DEF Known
<1>8. ASSUME NEW a \in Askers PROVE Known(fetch[a].row.ver, fetch[a].row.at)'
  <2>1. fetch'[a].row.ver \in Fielded
    BY <1>1, RowFacts
  <2> QED BY <2>1 DEF Known
<1>9. ASSUME NEW k \in conflict' PROVE Known(k.row.ver, k.row.at)'
  BY <1>1, RowFacts
<1>10. ASSUME NEW i \in DOMAIN queue', queue'[i].base # NoVersion, queue'[i].from = "list"
       PROVE  Known(queue[i].saw, queue[i].base)'
  <2>1. queue'[i].saw \in Fielded
    BY <1>2, OpFacts
  <2> QED BY <1>10, <2>1 DEF Known
<1> QED BY <1>4, <1>5, <1>6, <1>7, <1>8, <1>9, <1>10 DEF Versions

-----------------------------------------------------------------------------
(***************************************************************************)
(* The device queues an operation.                                         *)
(***************************************************************************)
\* An operation that is new, or leaves a conflict, is queued.
LEMMA AddKeeps ==
  ASSUME SyncInv, TypeOK', NEW op \in Op, queue' = Append(queue, op),
         UNCHANGED <<server, request, fetch, other, dirty, history>>,
         conflict' \subseteq conflict, edits <= edits', reorders <= reorders',
         cache' = cache \/ cache'.from = "device",
         AsOld(op),
         op.base # NoVersion /\ op.from = "list" => Known(op.saw, op.base),
         IF IsEdit(op)
         THEN /\ op.edit <= edits' /\ op.edit # other.edit
              /\ \A i \in DOMAIN queue : queue[i].edit # op.edit
              /\ \A k \in conflict' : k.op.edit # op.edit
              /\ ~op.again => \/ op.edit > edits
                              \/ \E k \in conflict : k.op.edit = op.edit /\ ~k.op.again
         ELSE reorders' > 0 /\ cache'.ver = cache.ver /\ conflict' = conflict
  PROVE  SyncInv'
<1>0. /\ TypeOK /\ Shape /\ Timely /\ Distinct /\ Versions /\ Quiet
      /\ UNCHANGED <<clock, row, request, fetch, other, dirty, behind, repeated>>
  BY DEF SyncInv, server, history
<1>1. PICK n \in Nat : n \notin DOMAIN queue /\ DOMAIN queue' = DOMAIN queue \cup {n} /\ queue'[n] = op
                       /\ (queue # <<>> => n # 1)
  BY <1>0, OneMoreQueued, TypeFacts
<1>2. /\ queue' # <<>> /\ \A i \in DOMAIN queue : queue'[i] = queue[i]
      /\ queue # <<>> => Sent' = Sent
  BY <1>0, OneMoreQueued, TypeFacts
<1>3. request.pc # "none" => queue # <<>>
  BY <1>0 DEF Shape
<1>4. edits \in Nat /\ edits' \in Nat /\ reorders \in Nat /\ reorders' \in Nat
  BY <1>0, Bounds DEF TypeOK
<1>5. \A i \in DOMAIN queue : queue[i] \in Op /\ queue[i].edit \in Nat
  BY <1>0, QueueFacts, TypeFacts, OpFacts
<1>6. \A k \in conflict : k.op \in Op /\ k.op.edit \in Nat
  BY <1>0, TypeFacts, OpFacts
<1>7. other.edit \in Nat
  BY <1>0, TypeFacts, Bounds
<1>8. Shape'
  BY <1>0, <1>1, <1>2, <1>3, <1>4 DEF Shape, IsEdit
<1>9. Timely'
  <2>1. \A i \in DOMAIN queue' : AsOld(queue'[i])
    BY <1>0, <1>1, <1>2 DEF Timely
  <2> QED BY <1>0, <1>2, <1>3, <2>1 DEF Timely, AsOld
<1>10. Distinct'
  <2>1. ASSUME NEW i \in DOMAIN queue'
        PROVE  /\ queue'[i].edit <= edits'
               /\ \A j \in DOMAIN queue' : queue'[i].edit # 0 /\ queue'[i].edit = queue'[j].edit => i = j
               /\ \A k \in conflict' : queue'[i].edit # k.op.edit
               /\ queue'[i].edit = other'.edit => other'.edit = 0
    <3>1. CASE i = n
      <4>1. op.edit <= edits'
        BY <1>4, OpFacts DEF IsEdit
      <4>2. \A k \in conflict : k.op.edit # 0
        BY <1>0 DEF Shape, IsEdit
      <4> QED BY <1>0, <1>1, <1>2, <3>1, <4>1, <4>2 DEF IsEdit
    <3>2. CASE i # n
      <4>1. i \in DOMAIN queue
        BY <1>1, <3>2
      <4>2. queue[i].edit <= edits'
        BY <1>0, <1>4, <1>5, <4>1 DEF Distinct
      <4> QED BY <1>0, <1>1, <1>2, <4>1, <4>2 DEF Distinct, IsEdit
    <3> QED BY <3>1, <3>2
  <2>2. \A k \in conflict' :
          /\ k.op.edit <= edits' /\ k.op.edit # other'.edit
          /\ \A l \in conflict' : k.op.edit = l.op.edit => k = l
    BY <1>0, <1>4, <1>6 DEF Distinct
  <2>3. other'.edit <= edits'
    BY <1>0, <1>4, <1>7 DEF Distinct
  <2> QED BY <2>1, <2>2, <2>3 DEF Distinct, IsEdit
<1>11. ASSUME NEW e \in Nat, Unapplied(e)' PROVE Unapplied(e) \/ e > edits
  <2>1. CASE \E i \in DOMAIN queue' : /\ IsEdit(queue'[i]) /\ queue'[i].edit = e /\ ~queue'[i].again
                                     /\ ~(i = 1 /\ request.pc = "answered")
    <3>1. PICK i \in DOMAIN queue' : /\ IsEdit(queue'[i]) /\ queue'[i].edit = e /\ ~queue'[i].again
                                    /\ ~(i = 1 /\ request.pc = "answered")
      BY <2>1
    <3>2. CASE i = n
      BY <1>1, <3>1, <3>2 DEF Unapplied
    <3>3. CASE i # n
      BY <1>1, <1>2, <3>1, <3>3 DEF Unapplied
    <3> QED BY <3>2, <3>3
  <2>2. CASE (\E k \in conflict' : k.op.edit = e /\ ~k.op.again) \/ (e # 0 /\ other'.edit = e)
    BY <1>0, <2>2 DEF Unapplied
  <2> QED BY <1>0, <1>11, <2>1, <2>2 DEF Unapplied, IsEdit
<1>12. Clean' => Clean
  BY <1>0, <1>4 DEF Clean
<1>13. \A v \in Fielded : \A t : Known(v, t) => Known(v, t)'
  BY <1>0, <1>4, <1>11, <1>12, StaysKnown
<1>14. Versions'
  <2>1. \A i \in DOMAIN queue' :
          queue'[i].base # NoVersion /\ queue'[i].from = "list" => Known(queue'[i].saw, queue'[i].base)
    BY <1>0, <1>1, <1>2 DEF Versions
  <2>2. Known(row.ver, row.at)'
    <3>1. row.ver \in Fielded /\ Known(row.ver, row.at)
      BY <1>0, TypeFacts DEF Versions
    <3> QED BY <1>0, <1>13, <3>1 DEF Known
  <2>3. cache'.from = "list" => Known(cache'.ver, cache'.at)
    BY <1>0 DEF Versions
  <2>4. request'.pc = "refused" /\ Clean' => Sent'.from # "list" \/ Sent'.saw # request'.row.ver
    BY <1>0, <1>2, <1>3, <1>12 DEF Versions
  <2>5. Known(other'.row.ver, other'.row.at) /\ Known(Blank.ver, Blank.at)
    BY <1>0 DEF Versions
  <2>6. request'.pc # "answered" => Known(request'.row.ver, request'.row.at)
    BY <1>0 DEF Versions
  <2>7. \A a \in Askers : Known(fetch'[a].row.ver, fetch'[a].row.at)
    BY <1>0 DEF Versions
  <2>8. \A k \in conflict' : Known(k.row.ver, k.row.at)
    BY <1>0 DEF Versions
  <2> QED BY <1>13, <2>1, <2>2, <2>3, <2>4, <2>5, <2>6, <2>7, <2>8, VersionsKept
<1>15. Quiet'
  <2>1. Noticed' <=> Noticed
    BY <1>0 DEF Noticed, Fetching
  <2>2. Pending => Pending'
    BY <1>1, <1>2 DEF Pending
  <2>3. IsEdit(op) => Pending'
    BY <1>1 DEF Pending
  <2>4. Noticed' \/ Pending' \/ conflict' # {} \/ cache'.ver = row'.ver
    BY <1>0, <2>1, <2>2, <2>3 DEF Quiet
  <2>5. request'.pc = "answered" /\ IsEdit(Sent') => Noticed'
    BY <1>0, <1>2, <1>3, <2>1 DEF Quiet
  <2> QED BY <1>0, <2>4, <2>5 DEF Quiet, Fetching, IsEdit
<1> QED BY <1>8, <1>9, <1>10, <1>14, <1>15 DEF SyncInv

\* An edit of this device: the copy is patched, a new number is taken.
LEMMA EditedFacts ==
  ASSUME SyncInv, NEW f \in Fields, Edited(f)
  PROVE  /\ edits' = edits + 1 /\ edits' \in 0..MaxWrites /\ edits' \in Nat /\ edits' # 0
         /\ edits <= edits' /\ edits' > edits
         /\ cache' \in Copy /\ cache'.from = "device"
         /\ mine' \subseteq Edits
         /\ other.edit # edits'
         /\ \A i \in DOMAIN queue : queue[i].edit # edits'
         /\ \A k \in conflict : k.op.edit # edits'
<1>0. TypeOK /\ Distinct
  BY DEF SyncInv
<1>1. /\ edits' = edits + 1 /\ edits + reorders < MaxWrites /\ mine' = mine \cup {edits + 1}
      /\ cache' = [ver |-> [cache.ver EXCEPT ![f] = edits + 1], at |-> clock, from |-> "device"]
  BY DEF Edited, Room, Patch
<1>2. edits' \in 0..MaxWrites /\ edits' \in Nat /\ edits' # 0 /\ edits <= edits' /\ edits' > edits
      /\ edits' \in Edits
  <2>1. edits \in Nat /\ reorders \in Nat
    BY <1>0, Bounds DEF TypeOK
  <2> QED BY <1>1, <2>1, Bounds DEF Edits
<1>3. cache' \in Copy /\ cache'.from = "device"
  <2>1. [cache.ver EXCEPT ![f] = edits'] \in Fielded
    BY <1>0, <1>2, TypeFacts, RowFacts
  <2> QED BY <1>0, <1>1, <2>1, TypeFacts, RowFacts DEF Origins
<1>4. mine' \subseteq Edits
  BY <1>0, <1>1, <1>2 DEF TypeOK
<1>5. \A x \in Nat : x <= edits => x # edits'
  BY <1>0, <1>1, TypeFacts
<1>6. other.edit # edits'
  <2>1. other.edit \in Nat
    BY <1>0, TypeFacts, Bounds
  <2> QED BY <1>0, <1>5, <2>1 DEF Distinct
<1>7. \A i \in DOMAIN queue : queue[i].edit # edits'
  <2>1. \A i \in DOMAIN queue : queue[i].edit \in Nat
    BY <1>0, QueueFacts, TypeFacts, OpFacts
  <2> QED BY <1>0, <1>5, <2>1 DEF Distinct
<1>8. \A k \in conflict : k.op.edit # edits'
  <2>1. \A k \in conflict : k.op.edit \in Nat
    BY <1>0, TypeFacts, OpFacts
  <2> QED BY <1>0, <1>5, <2>1 DEF Distinct
<1> QED BY <1>1, <1>2, <1>3, <1>4, <1>6, <1>7, <1>8

\* Such an edit is queued, with or without the version of the copy.
LEMMA EditKeeps ==
  ASSUME SyncInv, NEW f \in Fields, NEW b \in {NoVersion, cache.at},
         Edited(f), Enqueue(NewOp(f, b)),
         UNCHANGED <<server, request, conflict, dirty, fetch, other, reorders, losses, history>>
  PROVE  SyncInv'
<1> DEFINE op == NewOp(f, b)
<1>0. TypeOK /\ Timely /\ Versions
  BY DEF SyncInv
<1>1. /\ op.edit = edits' /\ op.base = b /\ op.from = cache.from /\ op.saw = cache.ver
      /\ op.again = FALSE
  BY EditedFacts DEF NewOp
<1>2. op \in Op
  BY <1>0, EditedFacts, TypeFacts DEF NewOp, Op
<1>3. queue' = Append(queue, op)
  BY DEF Enqueue
<1> HIDE DEF op
<1>4. TypeOK'
  <2>1. queue' \in Seq(Op)
    BY <1>0, <1>2, <1>3, OneMoreQueued, TypeFacts
  <2> QED BY <1>0, <2>1, EditedFacts DEF TypeOK, server, history
<1>5. AsOld(op)
  BY <1>0, <1>1 DEF AsOld, Timely
<1>6. op.base # NoVersion /\ op.from = "list" => Known(op.saw, op.base)
  BY <1>0, <1>1 DEF Versions
<1>7. edits' \in Nat /\ edits' <= edits' /\ reorders \in Nat /\ reorders <= reorders
  BY <1>0, EditedFacts, Bounds DEF TypeOK
<1> QED BY <1>1, <1>2, <1>3, <1>4, <1>5, <1>6, <1>7, EditedFacts, AddKeeps DEF IsEdit

\* Positions change: the copy keeps its fields.
LEMMA ReorderingKeeps ==
  ASSUME SyncInv, reorderItemsOfflineFirst
  PROVE  SyncInv'
<1> DEFINE op == [NewOp(CheckField, NoVersion) EXCEPT !.edit = 0]
<1>0. TypeOK
  BY DEF SyncInv
<1>1. /\ queue' = Append(queue, op)
      /\ UNCHANGED <<server, request, conflict, dirty, fetch, other, edits, mine, losses, history>>
      /\ reorders' = reorders + 1 /\ edits + reorders < MaxWrites
      /\ cache' = [ver |-> cache.ver, at |-> clock, from |-> "device"]
  BY DEF reorderItemsOfflineFirst, Room, Enqueue, Patch
<1>2. edits \in Nat /\ edits \in 0..MaxWrites /\ reorders \in Nat /\ reorders' \in 0..MaxWrites
      /\ edits + 1 \in 0..MaxWrites /\ reorders' > 0 /\ reorders <= reorders' /\ edits <= edits
  <2>1. edits \in Nat /\ reorders \in Nat
    BY <1>0, Bounds DEF TypeOK
  <2> QED BY <1>1, <2>1, Bounds
<1>3. op \in Op /\ op.edit = 0 /\ op.base = NoVersion
  <2>1. NewOp(CheckField, NoVersion) \in Op /\ NewOp(CheckField, NoVersion).base = NoVersion
    BY <1>0, <1>2, TypeFacts, Bounds DEF NewOp, Op
  <2>2. 0 \in 0..MaxWrites
    BY Bounds
  <2> QED BY <2>1, <2>2 DEF Op
<1>4. cache' \in Copy /\ cache'.from = "device" /\ cache'.ver = cache.ver
  BY <1>0, <1>1, TypeFacts, RowFacts DEF Origins
<1> HIDE DEF op
<1>5. TypeOK'
  <2>1. queue' \in Seq(Op)
    BY <1>0, <1>1, <1>3, OneMoreQueued, TypeFacts
  <2> QED BY <1>0, <1>1, <1>2, <1>4, <2>1 DEF TypeOK, server, history
<1> QED BY <1>1, <1>2, <1>3, <1>4, <1>5, AddKeeps DEF IsEdit, AsOld

\* A refused edit is queued again.
LEMMA KeepLocalKeeps ==
  ASSUME SyncInv, NEW k \in conflict, resolveConflictKeepLocal(k)
  PROVE  SyncInv'
<1> DEFINE op == [k.op EXCEPT !.base = k.row.at, !.from = "list",
                              !.saw = k.row.ver, !.keyed = FALSE]
<1>0. TypeOK /\ Shape /\ Timely /\ Distinct /\ Versions
  BY DEF SyncInv
<1>1. /\ queue' = Append(queue, op) /\ conflict' = conflict \ {k}
      /\ UNCHANGED <<server, cache, request, dirty, fetch, other, budget, history>>
  BY DEF resolveConflictKeepLocal, Enqueue
<1>2. k.op \in Op /\ k.row \in Row /\ k.row.ver \in Fielded /\ k.row.at \in Seconds
  BY <1>0, TypeFacts, RowFacts
<1>3. /\ op \in Op /\ op.edit = k.op.edit /\ op.again = k.op.again
      /\ op.base = k.row.at /\ op.from = "list" /\ op.saw = k.row.ver
  BY <1>2 DEF Op, Origins
<1> HIDE DEF op
<1>4. TypeOK'
  <2>1. queue' \in Seq(Op)
    BY <1>0, <1>1, <1>3, OneMoreQueued, TypeFacts
  <2> QED BY <1>0, <1>1, <2>1 DEF TypeOK, server, budget, history
<1>5. /\ edits' = edits /\ edits <= edits /\ reorders' = reorders /\ reorders <= reorders
  BY <1>0, <1>1, Bounds DEF TypeOK, budget
<1>6. /\ IsEdit(op) /\ op.edit <= edits' /\ op.edit # other.edit
      /\ \A i \in DOMAIN queue : queue[i].edit # op.edit
      /\ \A l \in conflict' : l.op.edit # op.edit
  BY <1>0, <1>1, <1>3, <1>5 DEF Distinct, Shape, IsEdit
<1>7. AsOld(op) /\ Known(op.saw, op.base)
  BY <1>0, <1>3 DEF AsOld, Timely, Versions
<1> QED BY <1>1, <1>3, <1>4, <1>5, <1>6, <1>7, AddKeeps

-----------------------------------------------------------------------------
(***************************************************************************)
(* Steps that leave the row and the queue alone.                           *)
(***************************************************************************)
\* Requests, answers and fetched lists carry on what was known before.
LEMMA SideKeeps ==
  ASSUME SyncInv, TypeOK',
         UNCHANGED <<row, queue, other, edits, reorders, repeated>>,
         clock <= clock', conflict' \subseteq conflict,
         request'.pc = "answered" <=> request.pc = "answered",
         request'.pc # "none" => queue # <<>>,
         request'.pc \in {"read", "refused"} => IsEdit(Sent),
         request'.row.at <= row.at,
         request'.pc # "answered" => Known(request'.row.ver, request'.row.at),
         request'.pc = "read" => Sent.base = NoVersion \/ request'.row.at <= Sent.base,
         request'.pc = "refused" =>
            /\ Sent.base # NoVersion /\ request'.row.at > Sent.base
            /\ Clean => Sent.from # "list" \/ Sent.saw # request'.row.ver,
         cache'.from # "device" => cache'.at <= row.at,
         cache'.from = "list" => Known(cache'.ver, cache'.at),
         \A a \in Askers : fetch'[a].row.at <= row.at /\ Known(fetch'[a].row.ver, fetch'[a].row.at)
  PROVE  Shape' /\ Timely' /\ Distinct' /\ Versions'
<1>0. /\ TypeOK /\ Shape /\ Timely /\ Distinct /\ Versions
      /\ row' = row /\ queue' = queue /\ other' = other /\ edits' = edits
      /\ reorders' = reorders /\ repeated' = repeated /\ Sent' = Sent
  BY DEF SyncInv, Sent
<1>1. Shape'
  BY <1>0 DEF Shape
<1>2. Timely'
  <2>1. row.at <= clock'
    <3>1. row.at \in Nat /\ clock \in Nat /\ clock' \in Nat
      BY <1>0, TypeFacts, RowFacts, Bounds DEF TypeOK, Seconds
    <3> QED BY <1>0, <3>1 DEF Timely
  <2> QED BY <1>0, <2>1 DEF Timely, AsOld
<1>3. Distinct'
  BY <1>0 DEF Distinct
<1>4. \A e \in Nat : Unapplied(e)' => Unapplied(e)
  BY <1>0 DEF Unapplied
<1>5. Clean' => Clean
  BY <1>0 DEF Clean
<1>6. \A v \in Fielded : \A t : Known(v, t) => Known(v, t)'
  <2>1. edits' \in Nat /\ edits <= edits'
    BY <1>0, TypeFacts
  <2> QED BY <1>0, <1>4, <1>5, <2>1, StaysKnown
<1>7. Versions'
  <2>1. Known(row.ver, row.at)'
    <3>1. row.ver \in Fielded /\ Known(row.ver, row.at)
      BY <1>0, TypeFacts DEF Versions
    <3> QED BY <1>0, <1>6, <3>1 DEF Known
  <2>2. Known(other'.row.ver, other'.row.at) /\ Known(Blank.ver, Blank.at)
    BY <1>0 DEF Versions
  <2>3. \A k \in conflict' : Known(k.row.ver, k.row.at)
    BY <1>0 DEF Versions
  <2>4. \A i \in DOMAIN queue' :
          queue'[i].base # NoVersion /\ queue'[i].from = "list" => Known(queue'[i].saw, queue'[i].base)
    BY <1>0 DEF Versions
  <2>5. request'.pc = "refused" /\ Clean' => Sent'.from # "list" \/ Sent'.saw # request'.row.ver
    BY <1>0, <1>5
  <2> QED BY <1>6, <2>1, <2>2, <2>3, <2>4, <2>5, VersionsKept
<1> QED BY <1>1, <1>2, <1>3, <1>7

\* The oldest operation is sent, or the server reads the row for it.
LEMMA RequestKeeps ==
  ASSUME SyncInv, Send \/ UpdateItem_Read
  PROVE  SyncInv'
<1>0. /\ TypeOK /\ Shape /\ Timely /\ Versions /\ Quiet
      /\ UNCHANGED <<server, cache, queue, conflict, dirty, fetch, other, budget, history>>
  BY DEF SyncInv, Send, UpdateItem_Read
<1>1. UNCHANGED <<clock, row, cache, queue, conflict, dirty, fetch, other, edits, mine, reorders,
                  losses, behind, repeated>>
  BY <1>0 DEF server, budget, history
<1>2. queue # <<>>
  BY <1>0 DEF Send, UpdateItem_Read, Shape
<1>3. Sent \in Op /\ row.at \in Nat /\ Sent.base \in Seconds \cup {NoVersion}
      /\ (Sent.base # NoVersion => Sent.base \in Nat)
  <2>1. queue \in Seq(Op) /\ row \in Row
    BY <1>0, TypeFacts
  <2>2. Sent \in Op
    BY <1>2, <2>1, QueueFacts
  <2>3. row.at \in Nat
    BY <2>1, RowFacts
  <2> QED BY <2>2, <2>3, OpFacts
<1>4. CASE Send
  <2>1. request'.pc = "sent" /\ request'.row = request.row /\ request.pc = "none"
    BY <1>0, <1>4 DEF Send, TypeOK
  <2>2. request' \in [pc : {"none", "sent", "read", "answered", "refused"}, row : Row]
    BY <1>0, <1>4 DEF Send, TypeOK
  <2>3. TypeOK'
    BY <1>0, <1>1, <2>2 DEF TypeOK
  <2>4. Shape' /\ Timely' /\ Distinct' /\ Versions'
    <3>1. clock \in Nat /\ clock <= clock'
      BY <1>0, <1>1, TypeFacts
    <3> QED BY <1>0, <1>1, <1>2, <2>1, <2>3, <3>1, SideKeeps DEF Timely, Versions
  <2>5. Quiet'
    BY <1>0, <1>1, <2>1 DEF Quiet, Noticed, Fetching, Pending, Sent
  <2> QED BY <2>3, <2>4, <2>5 DEF SyncInv
<1>5. CASE UpdateItem_Read
  <2>1. /\ request.pc = "sent" /\ IsEdit(Sent)
        /\ request' = [pc |-> IF Conflicts(Sent.base) THEN "refused" ELSE "read", row |-> row]
    BY <1>5 DEF UpdateItem_Read
  <2>2. request'.row = row /\ request'.pc = IF Conflicts(Sent.base) THEN "refused" ELSE "read"
    BY <2>1
  <2>3. request' \in [pc : {"none", "sent", "read", "answered", "refused"}, row : Row]
    BY <1>0, <2>1, TypeFacts
  <2>4. TypeOK'
    BY <1>0, <1>1, <2>3 DEF TypeOK
  <2>5. request'.pc = "read" => Sent.base = NoVersion \/ row.at <= Sent.base
    BY <1>3, <2>2 DEF Conflicts
  <2>6. request'.pc = "refused" =>
          /\ Sent.base # NoVersion /\ row.at > Sent.base
          /\ Clean => Sent.from # "list" \/ Sent.saw # row.ver
    <3> SUFFICES ASSUME request'.pc = "refused"
                 PROVE  /\ Sent.base # NoVersion /\ row.at > Sent.base
                        /\ Clean => Sent.from # "list" \/ Sent.saw # row.ver
      OBVIOUS
    <3>1. Sent.base # NoVersion /\ row.at > Sent.base
      BY <2>2 DEF Conflicts
    <3>2. Sent.from = "list" => Known(Sent.saw, Sent.base)
      BY <1>0, <1>2, <3>1, QueueFacts, TypeFacts DEF Versions
    <3>3. row.at # Sent.base
      BY <1>3, <3>1
    <3> QED BY <3>1, <3>2, <3>3 DEF Known
  <2>7. Shape' /\ Timely' /\ Distinct' /\ Versions'
    <3>1. clock \in Nat /\ clock <= clock' /\ row.at <= row.at
      BY <1>0, <1>1, <1>3, TypeFacts
    <3>2. request'.pc # "answered" /\ request'.pc # "none"
      BY <2>2
    <3>3. Known(row.ver, row.at)
      BY <1>0 DEF Versions
    <3>4. /\ cache.from # "device" => cache.at <= row.at
          /\ cache.from = "list" => Known(cache.ver, cache.at)
          /\ \A a \in Askers : fetch[a].row.at <= row.at /\ Known(fetch[a].row.ver, fetch[a].row.at)
      BY <1>0 DEF Timely, Versions
    <3> QED BY <1>1, <1>2, <2>1, <2>2, <2>4, <2>5, <2>6, <3>1, <3>2, <3>3, <3>4, SideKeeps
  <2>8. Quiet'
    <3>1. request'.pc # "answered"
      BY <2>2
    <3> QED BY <1>0, <1>1, <3>1 DEF Quiet, Noticed, Fetching, Pending
  <2> QED BY <2>4, <2>7, <2>8 DEF SyncInv
<1> QED BY <1>4, <1>5

\* Time passes.
LEMMA TickKeeps ==
  ASSUME SyncInv, Tick
  PROVE  SyncInv'
<1>0. /\ TypeOK /\ Shape /\ Timely /\ Versions /\ Quiet
      /\ UNCHANGED <<row, cache, queue, request, conflict, dirty, fetch, other, edits, mine, reorders,
                     losses, behind, repeated>>
  BY DEF SyncInv, Tick, device, budget, history
<1>1. clock' \in Seconds /\ clock <= clock'
  <2>1. clock \in Nat /\ clock < MaxClock /\ clock' = clock + 1
    BY <1>0, TypeFacts DEF Tick
  <2> QED BY <2>1, Bounds DEF Seconds
<1>2. TypeOK'
  BY <1>0, <1>1 DEF TypeOK
<1>3. Shape' /\ Timely' /\ Distinct' /\ Versions'
  BY <1>0, <1>1, <1>2, SideKeeps DEF Shape, Timely, Versions
<1>4. Quiet'
  BY <1>0 DEF Quiet, Noticed, Fetching, Pending, Sent
<1> QED BY <1>2, <1>3, <1>4 DEF SyncInv

\* The row of a conflict replaces the copy.
LEMMA AcceptKeeps ==
  ASSUME SyncInv, NEW k \in conflict, resolveConflictAcceptServer(k)
  PROVE  SyncInv'
<1>0. /\ TypeOK /\ Shape /\ Timely /\ Versions /\ Quiet
      /\ UNCHANGED <<clock, row, queue, request, dirty, fetch, other, edits, mine, reorders, losses,
                     repeated>>
      /\ conflict' = conflict \ {k} /\ behind' = (behind \/ k.row.ver # row.ver)
  BY DEF SyncInv, resolveConflictAcceptServer, server, budget
<1>1. k.row \in Row /\ Known(k.row.ver, k.row.at) /\ k.row.at <= row.at
  BY <1>0, TypeFacts DEF Versions, Timely
<1>2. cache' \in Copy /\ cache'.ver = k.row.ver /\ cache'.at = k.row.at /\ cache'.from = "list"
  BY <1>1, RowFacts DEF resolveConflictAcceptServer, Stamped, Origins
<1>3. TypeOK'
  BY <1>0, <1>2 DEF TypeOK
<1>4. Shape' /\ Timely' /\ Distinct' /\ Versions'
  <2>1. clock \in Nat /\ clock <= clock'
    BY <1>0, TypeFacts
  <2> QED BY <1>0, <1>1, <1>2, <1>3, <2>1, SideKeeps DEF Shape, Timely, Versions
<1>5. Quiet'
  BY <1>0, <1>2 DEF Quiet, Noticed, Fetching, Pending, Sent
<1> QED BY <1>3, <1>4, <1>5 DEF SyncInv

\* A refresh starts.
LEMMA FetchKeeps ==
  ASSUME SyncInv, runItemsRefresh \/ OpenScreen
  PROVE  SyncInv'
<1>0. TypeOK /\ Shape /\ Timely /\ Versions /\ Quiet
  BY DEF SyncInv
<1>1. PICK a \in Askers : /\ Fetched(a)
                          /\ dirty' = dirty \/ (dirty' = FALSE /\ a = "event")
  BY DEF runItemsRefresh, OpenScreen, Askers
<1>2. /\ UNCHANGED <<clock, row, cache, queue, request, conflict, other, edits, mine, reorders, losses,
                     behind, repeated>>
      /\ fetch[a].pc = "none"
  BY <1>1 DEF Fetched, server, budget, history
<1>3. /\ fetch'[a] = [pc |-> "applying", row |-> row, late |-> FALSE]
      /\ \A b \in Askers \ {a} : fetch'[b] = [fetch[b] EXCEPT !.late = fetch[b].pc # "none"]
      /\ DOMAIN fetch' = Askers
      /\ fetch' = [b \in Askers |-> fetch'[b]]
  BY <1>1 DEF Fetched
<1>4. \A b \in Askers \ {a} :
        /\ fetch'[b] \in [pc : {"none", "applying"}, row : Row, late : BOOLEAN]
        /\ fetch'[b].pc = fetch[b].pc /\ fetch'[b].row = fetch[b].row
        /\ fetch[b].pc # "none" => fetch'[b].late
  <2> DEFINE Fetch == [pc : {"none", "applying"}, row : Row, late : BOOLEAN]
  <2>1. \A x \in Fetch, l \in BOOLEAN : LET y == [x EXCEPT !.late = l]
                                       IN  y \in Fetch /\ y.pc = x.pc /\ y.row = x.row /\ y.late = l
    OBVIOUS
  <2>2. \A b \in Askers : fetch[b] \in Fetch
    BY <1>0 DEF TypeOK
  <2> HIDE DEF Fetch
  <2>3. \A b \in Askers \ {a} : fetch'[b] \in Fetch /\ fetch'[b].pc = fetch[b].pc
                               /\ fetch'[b].row = fetch[b].row
                               /\ (fetch[b].pc # "none" => fetch'[b].late)
    <3> SUFFICES ASSUME NEW b \in Askers \ {a}
                 PROVE  fetch'[b] \in Fetch /\ fetch'[b].pc = fetch[b].pc
                        /\ fetch'[b].row = fetch[b].row /\ (fetch[b].pc # "none" => fetch'[b].late)
      OBVIOUS
    <3>1. fetch'[b] = [fetch[b] EXCEPT !.late = fetch[b].pc # "none"] /\ fetch[b] \in Fetch
      BY <1>3, <2>2
    <3>2. (fetch[b].pc # "none") \in BOOLEAN
      OBVIOUS
    <3> QED BY <2>1, <3>1, <3>2
  <2> QED BY <2>3 DEF Fetch
<1>5. /\ fetch'[a] \in [pc : {"none", "applying"}, row : Row, late : BOOLEAN]
      /\ fetch'[a].pc = "applying" /\ fetch'[a].row = row /\ ~fetch'[a].late
  BY <1>0, <1>3, TypeFacts
<1>6. TypeOK'
  <2>1. \A b \in Askers : fetch'[b] \in [pc : {"none", "applying"}, row : Row, late : BOOLEAN]
    BY <1>4, <1>5
  <2>2. fetch' \in [Askers -> [pc : {"none", "applying"}, row : Row, late : BOOLEAN]]
    BY <1>3, <2>1
  <2>3. dirty' \in BOOLEAN
    BY <1>0, <1>1 DEF TypeOK
  <2> QED BY <1>0, <1>2, <2>2, <2>3 DEF TypeOK
<1>7. Shape' /\ Timely' /\ Distinct' /\ Versions'
  <2>1. clock \in Nat /\ clock <= clock' /\ row.at <= row.at
    BY <1>0, <1>2, TypeFacts
  <2>2. \A b \in Askers : fetch'[b].row.at <= row.at /\ Known(fetch'[b].row.ver, fetch'[b].row.at)
    <3>1. Known(row.ver, row.at)
      BY <1>0 DEF Versions
    <3>2. \A b \in Askers : fetch'[b].row \in {row, fetch[b].row}
      BY <1>4, <1>5
    <3> QED BY <1>0, <2>1, <3>1, <3>2 DEF Timely, Versions
  <2> QED BY <1>0, <1>2, <1>6, <2>1, <2>2, SideKeeps DEF Shape, Timely, Versions
<1>8. Quiet'
  <2>1. Noticed'
    BY <1>5 DEF Noticed, Fetching
  <2>2. \A b \in Askers : fetch'[b].pc # "none" /\ ~fetch'[b].late => fetch'[b].row.ver = row.ver
    BY <1>4, <1>5
  <2> QED BY <1>2, <2>1, <2>2 DEF Quiet, Fetching
<1> QED BY <1>6, <1>7, <1>8 DEF SyncInv

\* A refresh ends, applied or not.
LEMMA ReconcileKeeps ==
  ASSUME SyncInv, NEW a \in Askers, reconcileListItems(a) \/ RefreshFails(a)
  PROVE  SyncInv'
<1>0. /\ TypeOK /\ Shape /\ Timely /\ Versions /\ Quiet
      /\ UNCHANGED <<clock, row, queue, request, conflict, dirty, other, edits, mine, reorders, repeated>>
      /\ fetch[a].pc = "applying"
      /\ fetch' = [fetch EXCEPT ![a] = NoFetch]
  BY DEF SyncInv, reconcileListItems, RefreshFails, server, budget
<1>1. /\ NoFetch \in [pc : {"none", "applying"}, row : Row, late : BOOLEAN]
      /\ NoFetch.pc = "none" /\ NoFetch.row = Blank
  <2>1. Blank \in Row
    BY Bounds DEF Blank, Row, Fielded, Seconds
  <2> QED BY <2>1 DEF NoFetch
<1>2. /\ fetch' \in [Askers -> [pc : {"none", "applying"}, row : Row, late : BOOLEAN]]
      /\ fetch'[a] = NoFetch /\ \A b \in Askers \ {a} : fetch'[b] = fetch[b]
  BY <1>0, <1>1 DEF TypeOK
<1>3. \/ cache' = cache /\ behind' = TRUE
      \/ /\ ~Pending /\ cache' = Stamped(fetch[a].row, "list") /\ behind' = fetch[a].late
         /\ losses' = losses
  BY DEF reconcileListItems, RefreshFails, budget
<1>4. Stamped(fetch[a].row, "list") \in Copy
      /\ Stamped(fetch[a].row, "list").ver = fetch[a].row.ver
      /\ Stamped(fetch[a].row, "list").at = fetch[a].row.at
      /\ Stamped(fetch[a].row, "list").from = "list"
  BY <1>0, TypeFacts, RowFacts DEF Stamped, Origins
<1>5. losses' \in 0..MaxLosses
  <2>1. losses \in 0..MaxLosses /\ losses \in Nat
    BY <1>0, Bounds DEF TypeOK
  <2>2. losses' = losses \/ (losses < MaxLosses /\ losses' = losses + 1)
    BY DEF reconcileListItems, RefreshFails, budget, Fault
  <2> QED BY <2>1, <2>2, Bounds
<1>6. TypeOK'
  <2>1. cache' \in Copy /\ behind' \in BOOLEAN
    BY <1>0, <1>3, <1>4 DEF TypeOK
  <2> QED BY <1>0, <1>2, <1>5, <2>1 DEF TypeOK
<1>7. Shape' /\ Timely' /\ Distinct' /\ Versions'
  <2>1. clock \in Nat /\ clock <= clock' /\ 0 <= row.at
    BY <1>0, TypeFacts
  <2>2. \A b \in Askers : fetch'[b].row.at <= row.at /\ Known(fetch'[b].row.ver, fetch'[b].row.at)
    <3>1. Blank.at = 0
      BY DEF Blank
    <3> QED BY <1>0, <1>1, <1>2, <2>1, <3>1 DEF Timely, Versions
  <2>3. /\ cache'.from # "device" => cache'.at <= row.at
        /\ cache'.from = "list" => Known(cache'.ver, cache'.at)
    BY <1>0, <1>3, <1>4 DEF Timely, Versions
  <2> QED BY <1>0, <1>6, <2>1, <2>2, <2>3, SideKeeps DEF Shape, Timely, Versions
<1>8. Quiet'
  <2>1. \A b \in Askers : Fetching(b)' => Fetching(b) /\ fetch'[b] = fetch[b]
    BY <1>1, <1>2 DEF Fetching
  <2>2. ~dirty' => \A b \in Askers : Fetching(b)' /\ ~fetch'[b].late => fetch'[b].row.ver = row'.ver
    BY <1>0, <2>1 DEF Quiet
  <2>3. behind' \/ dirty \/ (~Pending /\ cache'.ver = row.ver)
    BY <1>0, <1>3, <1>4 DEF Quiet, Fetching
  <2>4. Noticed' \/ cache'.ver = row'.ver
    BY <1>0, <2>3 DEF Noticed
  <2>5. request'.pc = "answered" /\ IsEdit(Sent') => Noticed'
    <3> SUFFICES ASSUME request.pc = "answered", IsEdit(Sent) PROVE Noticed'
      BY <1>0 DEF Sent
    <3>1. Pending
      BY <1>0, QueueFacts, TypeFacts DEF Shape, Pending
    <3> QED BY <1>3, <3>1 DEF Noticed
  <2> QED BY <2>2, <2>4, <2>5 DEF Quiet, IsEdit, Fetching
<1> QED BY <1>6, <1>7, <1>8 DEF SyncInv

-----------------------------------------------------------------------------
(***************************************************************************)
(* An operation has been answered.                                         *)
(***************************************************************************)
\* It is dropped, refused or applied; a refused one becomes a conflict.
LEMMA DropKeeps ==
  ASSUME SyncInv, syncUpdateItem \/ recordConflict
  PROVE  SyncInv'
<1> DEFINE k == [op |-> Sent, row |-> request.row]
<1>0. /\ TypeOK /\ Shape /\ Timely /\ Distinct /\ Versions /\ Quiet
      /\ UNCHANGED <<clock, row, dirty, fetch, other, edits, mine, reorders, losses, behind, repeated>>
      /\ queue' = Tail(queue) /\ request' = NoRequest
  BY DEF SyncInv, syncUpdateItem, recordConflict, Done, server, budget, history
<1>1. \/ /\ request.pc = "refused" /\ IsEdit(Sent)
         /\ conflict' = conflict \cup {k} /\ cache' = cache
      \/ /\ request.pc = "answered" /\ conflict' = conflict
         /\ cache' = IF IsEdit(Sent) THEN Stamped(request.row, "answer") ELSE cache
  BY <1>0 DEF syncUpdateItem, recordConflict, Shape
<1>2. queue # <<>> /\ queue \in Seq(Op) /\ Sent = queue[1] /\ 1 \in DOMAIN queue /\ Sent \in Op
  <2>1. queue # <<>> /\ queue \in Seq(Op)
    BY <1>0, <1>1, TypeFacts DEF Shape
  <2> QED BY <2>1, QueueFacts
<1>3. k.op = Sent /\ k.row = request.row /\ request.row \in Row
  BY <1>0, TypeFacts
<1> HIDE DEF k
<1>4. /\ queue' \in Seq(Op)
      /\ \A i \in DOMAIN queue' : i + 1 \in DOMAIN queue /\ i + 1 # 1 /\ queue'[i] = queue[i + 1]
      /\ \A i \in DOMAIN queue : i = 1 \/ \E j \in DOMAIN queue' : queue'[j] = queue[i]
  BY <1>0, <1>2, Dropped
<1>5. DOMAIN queue' \subseteq Nat
  BY <1>4, LenProperties
<1>6. request'.pc = "none" /\ request'.row = Blank /\ Blank.at = 0 /\ Blank \in Row
  BY <1>0, Bounds DEF NoRequest, Blank, Row, Fielded, Seconds
<1>7. /\ cache' \in Copy
      /\ \/ cache' = cache
         \/ cache'.from = "answer" /\ cache'.at = request.row.at
  <2>1. /\ Stamped(request.row, "answer") \in Copy
        /\ Stamped(request.row, "answer").from = "answer"
        /\ Stamped(request.row, "answer").at = request.row.at
    BY <1>3, RowFacts DEF Stamped, Origins
  <2> QED BY <1>0, <1>1, <2>1 DEF TypeOK
<1>8. TypeOK'
  <2>1. request' \in [pc : {"none", "sent", "read", "answered", "refused"}, row : Row]
    BY <1>0, <1>6 DEF NoRequest
  <2>2. \A l \in conflict' : l.op \in Op /\ l.row \in Row
    BY <1>0, <1>1, <1>2, <1>3 DEF TypeOK
  <2> QED BY <1>0, <1>4, <1>7, <2>1, <2>2 DEF TypeOK
<1>9. Shape'
  BY <1>0, <1>1, <1>3, <1>4, <1>6 DEF Shape, IsEdit
<1>10. Timely'
  <2>1. cache'.from # "device" => cache'.at <= row.at
    BY <1>0, <1>7 DEF Timely
  <2>2. 0 <= row.at
    BY <1>0, TypeFacts
  <2>3. \A l \in conflict' : l.row.at <= row.at
    BY <1>0, <1>1, <1>3 DEF Timely
  <2>4. \A i \in DOMAIN queue' : AsOld(queue'[i])
    BY <1>0, <1>4 DEF Timely
  <2> QED BY <1>0, <1>6, <2>1, <2>2, <2>3, <2>4 DEF Timely, AsOld
<1>11. Distinct'
  <2>1. ASSUME NEW i \in DOMAIN queue'
        PROVE  /\ queue'[i].edit <= edits
               /\ \A j \in DOMAIN queue' : queue'[i].edit # 0 /\ queue'[i].edit = queue'[j].edit => i = j
               /\ \A l \in conflict' : queue'[i].edit # l.op.edit
               /\ queue'[i].edit = other.edit => other.edit = 0
    <3>1. i + 1 \in DOMAIN queue /\ i + 1 # 1 /\ queue'[i] = queue[i + 1] /\ i \in Nat
      BY <1>4, <1>5
    <3>2. ASSUME NEW j \in DOMAIN queue', queue'[i].edit # 0, queue'[i].edit = queue'[j].edit
          PROVE  i = j
      <4>1. j + 1 \in DOMAIN queue /\ queue'[j] = queue[j + 1] /\ j \in Nat
        BY <1>4, <1>5
      <4>2. i + 1 = j + 1
        BY <1>0, <3>1, <3>2, <4>1 DEF Distinct, IsEdit
      <4> QED BY <3>1, <4>1, <4>2
    <3>3. ASSUME NEW l \in conflict' PROVE queue'[i].edit # l.op.edit
      <4>1. CASE l \in conflict
        BY <1>0, <3>1, <4>1 DEF Distinct
      <4>2. CASE l = k /\ IsEdit(Sent)
        BY <1>0, <1>2, <1>3, <3>1, <4>2 DEF Distinct, IsEdit
      <4> QED BY <1>1, <4>1, <4>2
    <3> QED BY <1>0, <3>1, <3>2, <3>3 DEF Distinct
  <2>2. CASE conflict' = conflict
    BY <1>0, <2>1, <2>2 DEF Distinct, IsEdit
  <2>3. CASE IsEdit(Sent) /\ conflict' = conflict \cup {k}
    <3>1. /\ Sent.edit <= edits /\ Sent.edit # other.edit
          /\ \A l \in conflict : Sent.edit # l.op.edit
      BY <1>0, <1>2, <2>3 DEF Distinct, IsEdit
    <3>2. ASSUME NEW l \in conflict'
          PROVE  /\ l.op.edit <= edits /\ l.op.edit # other.edit
                 /\ \A m \in conflict' : l.op.edit = m.op.edit => l = m
      BY <1>0, <1>3, <2>3, <3>1 DEF Distinct
    <3> QED BY <1>0, <2>1, <3>2 DEF Distinct, IsEdit
  <2> QED BY <1>1, <2>2, <2>3
<1>12. ASSUME NEW e \in Nat, Unapplied(e)' PROVE Unapplied(e)
  <2>1. CASE \E i \in DOMAIN queue' : IsEdit(queue'[i]) /\ queue'[i].edit = e /\ ~queue'[i].again
    BY <1>4, <2>1 DEF Unapplied
  <2>2. CASE \E l \in conflict' : l.op.edit = e /\ ~l.op.again
    <3>1. PICK l \in conflict' : l.op.edit = e /\ ~l.op.again
      BY <2>2
    <3>2. CASE l \in conflict
      BY <3>1, <3>2 DEF Unapplied
    <3>3. CASE l = k /\ request.pc = "refused" /\ IsEdit(Sent)
      BY <1>2, <1>3, <3>1, <3>3 DEF Unapplied
    <3> QED BY <1>1, <3>2, <3>3
  <2>3. CASE e # 0 /\ other'.edit = e
    BY <1>0, <2>3 DEF Unapplied
  <2> QED BY <1>12, <2>1, <2>2, <2>3 DEF Unapplied, IsEdit
<1>13. \A v \in Fielded : \A t : Known(v, t) => Known(v, t)'
  <2>1. edits' \in Nat /\ edits <= edits'
    BY <1>0, TypeFacts
  <2>2. Clean' => Clean
    BY <1>0 DEF Clean
  <2> QED BY <1>0, <1>12, <2>1, <2>2, StaysKnown
<1>14. Versions'
  <2>1. Known(row.ver, row.at)'
    <3>1. row.ver \in Fielded /\ Known(row.ver, row.at)
      BY <1>0, TypeFacts DEF Versions
    <3> QED BY <1>0, <1>13, <3>1 DEF Known
  <2>2. /\ Known(other'.row.ver, other'.row.at) /\ Known(Blank.ver, Blank.at)
        /\ \A a \in Askers : Known(fetch'[a].row.ver, fetch'[a].row.at)
    BY <1>0 DEF Versions
  <2>3. cache'.from = "list" => Known(cache'.ver, cache'.at)
    BY <1>0, <1>7 DEF Versions
  <2>4. \A l \in conflict' : Known(l.row.ver, l.row.at)
    BY <1>0, <1>1, <1>3 DEF Versions
  <2>5. \A i \in DOMAIN queue' :
          queue'[i].base # NoVersion /\ queue'[i].from = "list" => Known(queue'[i].saw, queue'[i].base)
    BY <1>0, <1>4 DEF Versions
  <2> QED BY <1>6, <1>8, <1>13, <2>1, <2>2, <2>3, <2>4, <2>5, VersionsKept
<1>15. Quiet'
  <2>1. Noticed' <=> Noticed
    BY <1>0 DEF Noticed, Fetching
  <2>2. Noticed' \/ Pending' \/ conflict' # {} \/ cache'.ver = row'.ver
    <3>1. CASE conflict' = conflict \cup {k}
      BY <3>1
    <3>2. CASE request.pc = "answered" /\ IsEdit(Sent)
      BY <1>0, <2>1, <3>2 DEF Quiet
    <3>3. CASE conflict' = conflict /\ ~IsEdit(Sent) /\ cache' = cache
      <4>1. Pending => Pending'
        <5> SUFFICES ASSUME NEW i \in DOMAIN queue, IsEdit(queue[i]) PROVE Pending'
          BY DEF Pending
        <5>1. i # 1
          BY <1>2, <3>3
        <5>2. PICK j \in DOMAIN queue' : queue'[j] = queue[i]
          BY <1>4, <5>1
        <5> QED BY <5>2 DEF Pending, IsEdit
      <4> QED BY <1>0, <2>1, <3>3, <4>1 DEF Quiet
    <3> QED BY <1>1, <3>1, <3>2, <3>3
  <2> QED BY <1>0, <1>6, <2>2 DEF Quiet, Fetching
<1> QED BY <1>8, <1>9, <1>10, <1>11, <1>14, <1>15 DEF SyncInv

\* Its answer is lost: it is sent again, and applied again.
LEMMA LostKeeps ==
  ASSUME SyncInv, AnswerLost
  PROVE  SyncInv'
<1>0. /\ TypeOK /\ Shape /\ Timely /\ Distinct /\ Versions /\ Quiet
      /\ UNCHANGED <<clock, row, cache, conflict, dirty, fetch, other, edits, mine, reorders, behind,
                     repeated>>
      /\ queue' = [queue EXCEPT ![1].again = TRUE] /\ request' = NoRequest
      /\ request.pc = "answered"
  BY DEF SyncInv, AnswerLost, server, history
<1>1. queue # <<>> /\ queue \in Seq(Op)
  BY <1>0, TypeFacts DEF Shape
<1>2. /\ queue' \in Seq(Op) /\ DOMAIN queue' = DOMAIN queue
      /\ queue'[1].again
      /\ \A i \in DOMAIN queue :
           /\ i # 1 => queue'[i] = queue[i]
           /\ queue'[i].edit = queue[i].edit /\ queue'[i].base = queue[i].base
           /\ queue'[i].from = queue[i].from /\ queue'[i].saw = queue[i].saw
  BY <1>0, <1>1, Marked
<1>3. request'.pc = "none" /\ request'.row = Blank /\ Blank.at = 0 /\ Blank \in Row
  BY <1>0, Bounds DEF NoRequest, Blank, Row, Fielded, Seconds
<1>4. TypeOK'
  <2>1. losses' \in 0..MaxLosses
    <3>1. losses \in 0..MaxLosses /\ losses < MaxLosses /\ losses' = losses + 1
      BY <1>0 DEF AnswerLost, Fault, TypeOK
    <3> QED BY <3>1, Bounds
  <2>2. request' \in [pc : {"none", "sent", "read", "answered", "refused"}, row : Row]
    BY <1>0, <1>3 DEF NoRequest
  <2> QED BY <1>0, <1>2, <2>1, <2>2 DEF TypeOK
<1>5. Shape'
  BY <1>0, <1>2, <1>3 DEF Shape, IsEdit
<1>6. Timely'
  <2>1. 0 <= row.at
    BY <1>0, TypeFacts
  <2>2. \A i \in DOMAIN queue' : queue'[i].base # NoVersion /\ queue'[i].from # "device"
                                => queue'[i].base <= row.at
    BY <1>0, <1>2 DEF Timely, AsOld
  <2> QED BY <1>0, <1>3, <2>1, <2>2 DEF Timely, AsOld
<1>7. Distinct'
  BY <1>0, <1>2 DEF Distinct, IsEdit
<1>8. ASSUME NEW e \in Nat, Unapplied(e)' PROVE Unapplied(e)
  <2>1. CASE \E i \in DOMAIN queue' : queue'[i].edit # 0 /\ queue'[i].edit = e /\ ~queue'[i].again
    BY <1>2, <2>1 DEF Unapplied, IsEdit
  <2>2. CASE (\E k \in conflict : k.op.edit = e /\ ~k.op.again) \/ (e # 0 /\ other.edit = e)
    BY <2>2 DEF Unapplied
  <2> QED BY <1>0, <1>8, <2>1, <2>2 DEF Unapplied, IsEdit
<1>9. \A v \in Fielded : \A t : Known(v, t) => Known(v, t)'
  <2>1. edits' \in Nat /\ edits <= edits' /\ (Clean' => Clean)
    BY <1>0, TypeFacts DEF Clean
  <2> QED BY <1>0, <1>8, <2>1, StaysKnown
<1>10. Versions'
  <2>1. Known(row.ver, row.at)'
    <3>1. row.ver \in Fielded /\ Known(row.ver, row.at)
      BY <1>0, TypeFacts DEF Versions
    <3> QED BY <1>0, <1>9, <3>1 DEF Known
  <2>2. \A i \in DOMAIN queue' :
          queue'[i].base # NoVersion /\ queue'[i].from = "list" => Known(queue'[i].saw, queue'[i].base)
    BY <1>0, <1>2 DEF Versions
  <2>3. /\ Known(other'.row.ver, other'.row.at) /\ Known(Blank.ver, Blank.at)
        /\ \A a \in Askers : Known(fetch'[a].row.ver, fetch'[a].row.at)
        /\ cache'.from = "list" => Known(cache'.ver, cache'.at)
        /\ \A l \in conflict' : Known(l.row.ver, l.row.at)
    BY <1>0 DEF Versions
  <2> QED BY <1>3, <1>4, <1>9, <2>1, <2>2, <2>3, VersionsKept
<1>11. Quiet'
  <2>1. (Noticed' <=> Noticed) /\ (Pending => Pending')
    BY <1>0, <1>2 DEF Noticed, Fetching, Pending, IsEdit
  <2> QED BY <1>0, <1>3, <2>1 DEF Quiet, Fetching
<1> QED BY <1>4, <1>5, <1>6, <1>7, <1>10, <1>11 DEF SyncInv

-----------------------------------------------------------------------------
(***************************************************************************)
(* The row is written.                                                     *)
(***************************************************************************)
\* What was a version before the write is one after it.
LEMMA WriteKeeps ==
  ASSUME SyncInv, TypeOK', UNCHANGED <<clock, cache, queue, conflict, fetch, edits>>,
         row'.at = clock, dirty', reorders <= reorders', Clean' => Clean,
         \/ request' = request
         \/ request'.pc = "answered" /\ request.pc # "none" /\ request'.row.at <= row.at,
         other' = other \/ other' = Nobody,
         \A v \in Fielded : \A t : Known(v, t) => Known(v, t)',
         Known(row.ver, row.at)'
  PROVE  SyncInv'
<1>0. /\ TypeOK /\ Shape /\ Timely /\ Distinct /\ Versions
      /\ Sent' = Sent /\ \A i \in DOMAIN queue : queue[i] \in Op
  BY QueueFacts, TypeFacts DEF SyncInv, Sent
<1>1. Nobody.edit = 0 /\ Nobody.row = Blank /\ Blank.at = 0
  BY DEF Nobody, Blank
<1>2. Shape'
  <2>1. reorders \in Nat /\ reorders' \in Nat
    BY <1>0, Bounds DEF TypeOK
  <2> QED BY <1>0, <2>1 DEF Shape
<1>3. row.at \in Nat /\ clock \in Nat /\ row.at <= clock /\ 0 <= row.at
  BY <1>0, TypeFacts, RowFacts DEF Timely
<1>4. \A t \in Seconds : t <= row.at => t <= row'.at
  BY <1>3, Bounds DEF Seconds
<1>5. Timely'
  <2>1. cache.at \in Seconds /\ request'.row.at \in Seconds /\ other'.row.at \in Seconds
        /\ request.row.at \in Seconds
    BY <1>0, RowFacts DEF TypeOK, Copy
  <2>2. (\A a \in Askers : fetch[a].row.at \in Seconds) /\ (\A k \in conflict : k.row.at \in Seconds)
    BY <1>0, TypeFacts, RowFacts
  <2>3. ASSUME NEW i \in DOMAIN queue PROVE AsOld(queue[i])'
    <3>1. queue[i].base \in Seconds \cup {NoVersion}
      BY <1>0, OpFacts
    <3> QED BY <1>0, <1>4, <3>1 DEF Timely, AsOld
  <2>4. row'.at <= clock'
    BY <1>3
  <2>5. request'.row.at <= row'.at /\ other'.row.at <= row'.at
    BY <1>0, <1>1, <1>3, <1>4, <2>1 DEF Timely
  <2>6. cache.from # "device" => cache.at <= row'.at
    BY <1>0, <1>4, <2>1 DEF Timely
  <2>7. (\A a \in Askers : fetch[a].row.at <= row'.at) /\ (\A k \in conflict : k.row.at <= row'.at)
    BY <1>0, <1>4, <2>2 DEF Timely
  <2>8. /\ request'.pc = "read" => Sent.base = NoVersion \/ request'.row.at <= Sent.base
        /\ request'.pc = "refused" => Sent.base # NoVersion /\ request'.row.at > Sent.base
    BY <1>0 DEF Timely
  <2> QED BY <1>0, <2>3, <2>4, <2>5, <2>6, <2>7, <2>8 DEF Timely, AsOld
<1>6. Distinct'
  <2>1. \A i \in DOMAIN queue : queue[i].edit = other'.edit => other'.edit = 0
    BY <1>0, <1>1 DEF Distinct
  <2>2. \A k \in conflict : k.op.edit # other'.edit
    BY <1>0, <1>1 DEF Distinct, Shape, IsEdit
  <2>3. other'.edit <= edits
    BY <1>0, <1>1, TypeFacts DEF Distinct
  <2> QED BY <1>0, <2>1, <2>2, <2>3 DEF Distinct, IsEdit
<1>7. Versions'
  <2>1. Known(Blank.ver, Blank.at) /\ Known(other'.row.ver, other'.row.at)
    BY <1>0, <1>1 DEF Versions
  <2>2. /\ request'.pc # "answered" => Known(request'.row.ver, request'.row.at)
        /\ request'.pc = "refused" /\ Clean' => Sent'.from # "list" \/ Sent'.saw # request'.row.ver
    BY <1>0 DEF Versions
  <2>3. /\ cache.from = "list" => Known(cache.ver, cache.at)
        /\ \A a \in Askers : Known(fetch[a].row.ver, fetch[a].row.at)
        /\ \A k \in conflict : Known(k.row.ver, k.row.at)
        /\ \A i \in DOMAIN queue :
             queue[i].base # NoVersion /\ queue[i].from = "list" => Known(queue[i].saw, queue[i].base)
    BY <1>0 DEF Versions
  <2> QED BY <2>1, <2>2, <2>3, VersionsKept
<1>8. Quiet'
  BY DEF Quiet, Noticed
<1> QED BY <1>2, <1>5, <1>6, <1>7, <1>8 DEF SyncInv

\* The server applies the edit of a queued operation.
LEMMA UpdateKeeps ==
  ASSUME SyncInv, UpdateItem_Write
  PROVE  SyncInv'
<1>0. /\ TypeOK /\ Shape /\ Timely /\ Distinct /\ Versions
      /\ UNCHANGED <<clock, cache, queue, conflict, fetch, other, edits, mine, reorders, losses, behind>>
      /\ request.pc = "read" /\ dirty' = TRUE /\ repeated' = (repeated \/ Sent.again)
  BY DEF SyncInv, UpdateItem_Write, Publish, budget
<1> DEFINE ver == Written(Sent, request.row)
<1>1. row' = [ver |-> ver, at |-> clock]
      /\ request' = [pc |-> "answered", row |-> [ver |-> ver, at |-> request.row.at]]
  BY DEF UpdateItem_Write
<1>2. queue # <<>> /\ queue \in Seq(Op) /\ Sent = queue[1] /\ 1 \in DOMAIN queue /\ Sent \in Op
      /\ IsEdit(Sent)
  <2>1. queue # <<>> /\ queue \in Seq(Op) /\ IsEdit(Sent)
    BY <1>0, TypeFacts DEF Shape
  <2> QED BY <2>1, QueueFacts
<1>3. Sent.field \in Fields /\ Sent.edit \in 0..MaxWrites /\ Sent.edit <= edits /\ Sent.again \in BOOLEAN
  BY <1>0, <1>2, OpFacts DEF Distinct, Op
<1>4. request.row \in Row /\ request.row.ver \in Fielded /\ request.row.at \in Seconds
  BY <1>0, TypeFacts, RowFacts
<1>5. ver = [request.row.ver EXCEPT ![Sent.field] = Sent.edit] /\ ver \in Fielded
  <2>1. ver = [request.row.ver EXCEPT ![Sent.field] = Sent.edit]
    BY DEF Written
  <2>2. [request.row.ver EXCEPT ![Sent.field] = Sent.edit] \in Fielded
    BY <1>3, <1>4, RowFacts
  <2> QED BY <2>1, <2>2
<1> HIDE DEF ver
<1>6. /\ row'.ver = ver /\ row'.at = clock /\ request'.pc = "answered"
      /\ request'.row.at = request.row.at
  BY <1>1
<1>7. TypeOK'
  <2>1. row' \in Row /\ [ver |-> ver, at |-> request.row.at] \in Row
    BY <1>0, <1>1, <1>4, <1>5, TypeFacts, RowFacts
  <2>2. request' \in [pc : {"none", "sent", "read", "answered", "refused"}, row : Row]
    BY <1>1, <2>1
  <2>3. repeated' \in BOOLEAN
    BY <1>0, <1>3 DEF TypeOK
  <2> QED BY <1>0, <2>1, <2>2, <2>3 DEF TypeOK
<1>8. Clean' => Clean /\ Unapplied(Sent.edit)
  BY <1>0, <1>2, <1>3 DEF Clean, Unapplied
<1>9. ASSUME NEW x \in Nat, Unapplied(x)' PROVE Unapplied(x) /\ x # Sent.edit
  <2>1. CASE \E i \in DOMAIN queue : i # 1 /\ IsEdit(queue[i]) /\ queue[i].edit = x /\ ~queue[i].again
    BY <1>0, <1>2, <2>1 DEF Unapplied, Distinct
  <2>2. CASE \E k \in conflict : k.op.edit = x /\ ~k.op.again
    BY <1>0, <1>2, <2>2 DEF Unapplied, Distinct
  <2>3. CASE x # 0 /\ other.edit = x
    BY <1>0, <1>2, <2>3 DEF Unapplied, Distinct
  <2> QED BY <1>0, <1>6, <1>9, <2>1, <2>2, <2>3 DEF Unapplied
<1>10. Known(request.row.ver, request.row.at)
  BY <1>0 DEF Versions
<1>11. /\ \A v \in Fielded : \A t : Known(v, t) => Known(v, t)'
       /\ Known(row.ver, row.at)'
  BY <1>0, <1>3, <1>4, <1>5, <1>6, <1>8, <1>9, <1>10, WriteMakesKnown
<1>12. reorders <= reorders' /\ request'.row.at <= row.at
  BY <1>0, <1>6, Bounds DEF TypeOK, Timely
<1> QED BY <1>0, <1>6, <1>7, <1>8, <1>11, <1>12, WriteKeeps

\* The server applies the edit of another device.
LEMMA OtherWriteKeeps ==
  ASSUME SyncInv, Other_Write
  PROVE  SyncInv'
<1>0. /\ TypeOK /\ Shape /\ Timely /\ Distinct /\ Versions
      /\ UNCHANGED <<clock, cache, queue, request, conflict, fetch, edits, mine, reorders, losses, behind,
                     repeated>>
      /\ dirty' = TRUE /\ other' = Nobody /\ other # Nobody
  BY DEF SyncInv, Other_Write, Publish, budget, history
<1> DEFINE ver == Written(other, other.row)
<1>1. row' = [ver |-> ver, at |-> clock]
  BY DEF Other_Write
<1>2. other.field \in Fields /\ other.edit \in 0..MaxWrites /\ other.edit <= edits /\ other.edit # 0
      /\ other.row \in Row /\ other.row.ver \in Fielded
  BY <1>0, TypeFacts, RowFacts DEF Distinct, Shape
<1>3. ver = [other.row.ver EXCEPT ![other.field] = other.edit] /\ ver \in Fielded
  <2>1. ver = [other.row.ver EXCEPT ![other.field] = other.edit]
    BY DEF Written
  <2>2. [other.row.ver EXCEPT ![other.field] = other.edit] \in Fielded
    BY <1>2, RowFacts
  <2> QED BY <2>1, <2>2
<1> HIDE DEF ver
<1>4. row'.ver = ver /\ row'.at = clock /\ other'.edit = 0
  BY <1>0, <1>1 DEF Nobody
<1>5. TypeOK'
  <2>1. row' \in Row
    BY <1>0, <1>1, <1>3, TypeFacts, RowFacts
  <2>2. Nobody \in [edit : 0..MaxWrites, field : Fields, row : Row]
    BY Bounds DEF Nobody, Blank, Row, Fielded, Seconds
  <2> QED BY <1>0, <2>1, <2>2 DEF TypeOK
<1>6. Clean' => Clean /\ Unapplied(other.edit)
  BY <1>0, <1>2 DEF Clean, Unapplied
<1>7. ASSUME NEW x \in Nat, Unapplied(x)' PROVE Unapplied(x) /\ x # other.edit
  <2>1. CASE \E i \in DOMAIN queue : /\ IsEdit(queue[i]) /\ queue[i].edit = x /\ ~queue[i].again
                                    /\ ~(i = 1 /\ request.pc = "answered")
    BY <1>0, <1>2, <2>1 DEF Unapplied, Distinct
  <2>2. CASE \E k \in conflict : k.op.edit = x /\ ~k.op.again
    BY <1>0, <1>2, <2>2 DEF Unapplied, Distinct
  <2> QED BY <1>0, <1>4, <1>7, <2>1, <2>2 DEF Unapplied
<1>8. Known(other.row.ver, other.row.at)
  BY <1>0 DEF Versions
<1>9. /\ \A v \in Fielded : \A t : Known(v, t) => Known(v, t)'
      /\ Known(row.ver, row.at)'
  BY <1>0, <1>2, <1>3, <1>4, <1>6, <1>7, <1>8, WriteMakesKnown
<1>10. reorders <= reorders'
  BY <1>0, Bounds DEF TypeOK
<1> QED BY <1>0, <1>4, <1>5, <1>6, <1>9, <1>10, WriteKeeps

\* A reordering stamps the row anew.
LEMMA StampKeeps ==
  ASSUME SyncInv, ReorderItems
  PROVE  SyncInv'
<1>0. /\ TypeOK /\ Shape /\ Timely /\ Versions
      /\ UNCHANGED <<clock, cache, queue, conflict, fetch, other, edits, mine, losses, behind, repeated>>
      /\ dirty' = TRUE /\ row' = [row EXCEPT !.at = clock]
  BY DEF SyncInv, ReorderItems, Publish, history
<1>1. row'.ver = row.ver /\ row'.at = clock /\ row' \in Row
  BY <1>0, TypeFacts DEF Row
<1>2. reorders \in Nat /\ edits \in Nat
  BY <1>0, Bounds DEF TypeOK
<1>3. /\ reorders' \in 0..MaxWrites /\ reorders <= reorders' /\ reorders' > 0
      /\ request' \in [pc : {"none", "sent", "read", "answered", "refused"}, row : Row]
      /\ \/ request' = request
         \/ request'.pc = "answered" /\ request.pc # "none" /\ request'.row.at <= row.at
  <2>1. CASE /\ request.pc = "sent" /\ ~IsEdit(Sent)
             /\ request' = [request EXCEPT !.pc = "answered"] /\ reorders' = reorders
    <3>1. queue # <<>> /\ queue \in Seq(Op)
      BY <1>0, <2>1, TypeFacts DEF Shape
    <3>2. reorders > 0
      BY <1>0, <2>1, <3>1, QueueFacts DEF Shape
    <3>3. request \in [pc : {"none", "sent", "read", "answered", "refused"}, row : Row]
      BY <1>0 DEF TypeOK
    <3>4. /\ request' \in [pc : {"none", "sent", "read", "answered", "refused"}, row : Row]
          /\ request'.pc = "answered" /\ request'.row = request.row
      BY <2>1, <3>3
    <3> QED BY <1>0, <1>2, <2>1, <3>2, <3>4, Bounds DEF Timely, TypeOK
  <2>2. CASE edits + reorders < MaxWrites /\ reorders' = reorders + 1 /\ request' = request
    BY <1>0, <1>2, <2>2, Bounds DEF TypeOK
  <2> QED BY <2>1, <2>2 DEF ReorderItems, Room
<1>4. TypeOK'
  BY <1>0, <1>1, <1>3 DEF TypeOK
<1>5. ~Clean'
  BY <1>3, Bounds DEF Clean
<1>6. \A v \in Fielded : \A t : Known(v, t) => Known(v, t)'
  BY <1>0, <1>5 DEF Known
<1>7. Known(row.ver, row.at)'
  BY <1>0, <1>1, <1>5 DEF Known, Versions
<1> QED BY <1>0, <1>1, <1>3, <1>4, <1>5, <1>6, <1>7, WriteKeeps

\* The server reads the row for another device's edit.
LEMMA OtherReadKeeps ==
  ASSUME SyncInv, NEW f \in Fields, Other_Read(f)
  PROVE  SyncInv'
<1>0. /\ TypeOK /\ Shape /\ Timely /\ Distinct /\ Versions /\ Quiet
      /\ UNCHANGED <<clock, row, cache, queue, request, conflict, dirty, fetch, mine, reorders, losses,
                     behind, repeated, Sent>>
      /\ other = Nobody /\ other' = [edit |-> edits + 1, field |-> f, row |-> row]
  BY DEF SyncInv, Other_Read, server, device, history, Sent
<1>1. /\ edits' = edits + 1 /\ edits' \in 0..MaxWrites /\ edits' \in Nat /\ edits' # 0
      /\ edits <= edits' /\ edits' > edits
      /\ \A x \in Nat : x <= edits => x <= edits' /\ x # edits'
  <2>1. edits \in Nat /\ reorders \in Nat /\ edits + reorders < MaxWrites /\ edits' = edits + 1
    BY <1>0, Bounds DEF TypeOK, Other_Read, Room
  <2> QED BY <2>1, Bounds
<1>2. other'.edit = edits' /\ other'.row = row /\ other.edit = 0
  BY <1>0, <1>1 DEF Nobody
<1>3. TypeOK'
  <2>1. other' \in [edit : 0..MaxWrites, field : Fields, row : Row]
    BY <1>0, <1>1, TypeFacts
  <2> QED BY <1>0, <1>1, <2>1 DEF TypeOK
<1>4. Shape'
  BY <1>0, <1>1, <1>2 DEF Shape
<1>5. Timely'
  <2>1. row.at <= row.at
    BY <1>0, TypeFacts, RowFacts
  <2> QED BY <1>0, <1>2, <2>1 DEF Timely, AsOld
<1>6. Distinct'
  <2>1. \A i \in DOMAIN queue : queue[i].edit <= edits' /\ queue[i].edit # edits'
    <3>1. \A i \in DOMAIN queue : queue[i].edit \in Nat
      BY <1>0, QueueFacts, TypeFacts, OpFacts
    <3> QED BY <1>0, <1>1, <3>1 DEF Distinct
  <2>2. \A k \in conflict : k.op.edit <= edits' /\ k.op.edit # edits'
    <3>1. \A k \in conflict : k.op.edit \in Nat
      BY <1>0, TypeFacts, OpFacts
    <3> QED BY <1>0, <1>1, <3>1 DEF Distinct
  <2>3. edits' <= edits'
    BY <1>1
  <2> QED BY <1>0, <1>2, <2>1, <2>2, <2>3 DEF Distinct
<1>7. ASSUME NEW e \in Nat, Unapplied(e)' PROVE Unapplied(e) \/ e > edits
  BY <1>0, <1>1, <1>2, <1>7 DEF Unapplied
<1>8. Clean' <=> Clean
  BY <1>0 DEF Clean
<1>9. \A v \in Fielded : \A t : Known(v, t) => Known(v, t)'
  BY <1>0, <1>1, <1>7, <1>8, StaysKnown
<1>10. Versions'
  <2>1. Known(row.ver, row.at)
    BY <1>0 DEF Versions
  <2>2. Known(row.ver, row.at)'
    <3>1. row.ver \in Fielded
      BY <1>0, TypeFacts
    <3> QED BY <1>0, <1>9, <2>1, <3>1 DEF Known
  <2>3. /\ Known(Blank.ver, Blank.at)
        /\ request.pc # "answered" => Known(request.row.ver, request.row.at)
        /\ request.pc = "refused" /\ Clean' => Sent.from # "list" \/ Sent.saw # request.row.ver
        /\ cache.from = "list" => Known(cache.ver, cache.at)
        /\ \A a \in Askers : Known(fetch[a].row.ver, fetch[a].row.at)
        /\ \A k \in conflict : Known(k.row.ver, k.row.at)
        /\ \A i \in DOMAIN queue :
             queue[i].base # NoVersion /\ queue[i].from = "list" => Known(queue[i].saw, queue[i].base)
    BY <1>0, <1>8 DEF Versions
  <2> QED BY <1>0, <1>2, <1>3, <1>9, <2>1, <2>2, <2>3, VersionsKept
<1>11. Quiet'
  BY <1>0 DEF Quiet, Noticed, Fetching, Pending
<1> QED BY <1>3, <1>4, <1>5, <1>6, <1>10, <1>11 DEF SyncInv

-----------------------------------------------------------------------------
(***************************************************************************)
(* The theorems.                                                           *)
(***************************************************************************)
LEMMA InitEstablishesSync == Init => SyncInv
<1> SUFFICES ASSUME Init PROVE SyncInv
  OBVIOUS
<1>1. /\ Blank \in Row /\ Blank.at = 0 /\ 0 \in Nat /\ \A f \in Fields : Blank.ver[f] = 0
      /\ 0 \in 0..MaxWrites /\ 0 \in Seconds /\ 0 \in 0..MaxLosses /\ 0 <= 0 /\ Blank.ver \in Fielded
  BY Bounds DEF Blank, Row, Fielded, Seconds
<1>2. /\ NoRequest.pc = "none" /\ NoRequest.row = Blank
      /\ NoRequest \in [pc : {"none", "sent", "read", "answered", "refused"}, row : Row]
  BY <1>1 DEF NoRequest
<1>3. /\ NoFetch.pc = "none" /\ NoFetch.row = Blank
      /\ NoFetch \in [pc : {"none", "applying"}, row : Row, late : BOOLEAN]
  BY <1>1 DEF NoFetch
<1>4. /\ Nobody.edit = 0 /\ Nobody.row = Blank
      /\ Nobody \in [edit : 0..MaxWrites, field : Fields, row : Row]
  BY <1>1, Bounds DEF Nobody
<1>5. /\ cache \in Copy /\ cache.ver = Blank.ver /\ cache.at = 0 /\ cache.from = "list"
  BY <1>1, RowFacts DEF Init, Stamped, Origins
<1>6. queue = <<>> /\ queue \in Seq(Op) /\ DOMAIN queue = {}
  <2>1. <<>> \in Seq(Op)
    BY EmptySeq
  <2> QED BY <2>1, QueueFacts DEF Init
<1>7. \A a \in Askers : fetch[a] = NoFetch
  BY DEF Init
<1>8. TypeOK
  BY <1>1, <1>2, <1>3, <1>4, <1>5, <1>6 DEF TypeOK, Init
<1>9. Shape
  BY <1>2, <1>6 DEF Init, Shape
<1>10. Timely
  BY <1>1, <1>2, <1>3, <1>4, <1>5, <1>6, <1>7 DEF Init, Timely
<1>11. Distinct
  BY <1>1, <1>4, <1>6 DEF Init, Distinct
<1>12. Versions
  <2>1. ~Unapplied(0)
    BY <1>6 DEF Unapplied, Init
  <2>2. Known(Blank.ver, Blank.at)
    BY <1>1, <2>1 DEF Known, Init
  <2> QED BY <1>1, <1>2, <1>3, <1>4, <1>5, <1>6, <1>7, <2>2 DEF Init, Versions
<1>13. Quiet
  BY <1>1, <1>2, <1>3, <1>5, <1>7 DEF Init, Quiet, Fetching
<1> QED BY <1>8, <1>9, <1>10, <1>11, <1>12, <1>13 DEF SyncInv

LEMMA NextKeepsSync == SyncInv /\ [Next]_vars => SyncInv'
<1> SUFFICES ASSUME SyncInv, [Next]_vars PROVE SyncInv'
  OBVIOUS
<1>1. ASSUME NEW f \in Fields, updateItemOfflineFirst(f) PROVE SyncInv'
  <2>1. Base \in {NoVersion, cache.at}
    BY DEF Base
  <2> QED BY <1>1, <2>1, EditKeeps DEF updateItemOfflineFirst
<1>2. ASSUME setAllCheckedOfflineFirst PROVE SyncInv'
  BY <1>2, Bounds, EditKeeps DEF setAllCheckedOfflineFirst
<1>3. ASSUME NEW k \in conflict, resolveConflictAcceptServer(k) \/ resolveConflictKeepLocal(k)
      PROVE  SyncInv'
  BY <1>3, AcceptKeeps, KeepLocalKeeps
<1>4. CASE UNCHANGED vars
  <2>1. UNCHANGED <<clock, row, cache, queue, request, conflict, dirty, fetch, other, edits, mine,
                    reorders, losses, behind, repeated>>
    BY <1>4 DEF vars, server, device, budget, history
  <2> USE DEF SyncInv
  <2>2. TypeOK'
    BY <2>1 DEF TypeOK
  <2>3. Shape' /\ Distinct'
    BY <2>1 DEF Shape, Distinct, Sent
  <2>4. Timely'
    BY <2>1 DEF Timely, AsOld, Sent
  <2>5. \A v, t : Known(v, t)' <=> Known(v, t)
    BY <2>1 DEF Known, Clean, Unapplied
  <2>6. Versions'
    BY <2>1, <2>5 DEF Versions, Known, Clean, Unapplied, Sent
  <2>7. Quiet'
    BY <2>1 DEF Quiet, Noticed, Fetching, Pending, Sent
  <2> QED BY <2>2, <2>3, <2>4, <2>6, <2>7
<1> QED
  BY <1>1, <1>2, <1>3, <1>4, OtherReadKeeps, ReorderingKeeps, RequestKeeps, DropKeeps, LostKeeps,
     FetchKeeps, ReconcileKeeps, UpdateKeeps, OtherWriteKeeps, StampKeeps, TickKeeps DEF Next

LEMMA SyncInvariant == Spec => []SyncInv
BY InitEstablishesSync, NextKeepsSync, PTL DEF Spec

\* A user who had seen all of the row is told of a conflict for a named cause
\* only, and a device that is done shows the server's row, unless a named
\* cause left it behind (UpdateItem, _syncUpdateItem, refreshItems).
THEOREM SyncIsSafe == Spec => []Safety
<1>1. SyncInv => Safety
  <2> SUFFICES ASSUME SyncInv PROVE Safety
    OBVIOUS
  <2>1. TypeOK /\ Shape /\ Versions /\ Quiet
    BY DEF SyncInv
  <2>2. FalseAlarmsAreKnown
    <3> SUFFICES ASSUME request.pc = "refused", Sent.saw = request.row.ver, reorders = 0, ~repeated
                 PROVE  Sent.from # "list"
      BY <2>1, Bounds DEF FalseAlarmsAreKnown, TypeOK
    <3> QED BY <2>1 DEF Versions, Clean
  <2>3. QuietDevicesAgree
    <3>1. queue = <<>> => ~Pending
      BY <2>1, QueueFacts, TypeFacts DEF Pending
    <3> QED BY <2>1, <3>1 DEF QuietDevicesAgree, Quiet, Noticed, Fetching
  <2> QED BY <2>1, <2>2, <2>3 DEF Safety
<1> QED BY <1>1, SyncInvariant, PTL

\* An edit overwrites what its author had not seen for a named cause only, and
\* changes no field it does not name, unless the row was written between its
\* read and its write (UpdateItem).
THEOREM EditsStayCareful == Spec => EditsAreCareful
<1>1. SyncInv /\ [Next]_vars =>
        (Writes /\ Unseen(Sent) =>
          Sent.base = NoVersion \/ Sent.from = "device" \/ request.row.at = Sent.base \/ request.row # row)
  <2> SUFFICES ASSUME SyncInv, Writes, Sent.base # NoVersion, Sent.from # "device", request.row = row
               PROVE  request.row.at = Sent.base
    OBVIOUS
  <2>1. TypeOK /\ Shape /\ Timely /\ request.pc = "read"
    BY DEF SyncInv, Writes
  <2>2. queue # <<>> /\ queue \in Seq(Op)
    BY <2>1, TypeFacts DEF Shape
  <2>3. Sent = queue[1] /\ 1 \in DOMAIN queue /\ Sent \in Op
    BY <2>2, QueueFacts
  <2>4. request.row.at <= Sent.base
    BY <2>1 DEF Timely
  <2>5. Sent.base <= row.at
    BY <2>1, <2>3 DEF Timely, AsOld
  <2>6. Sent.base \in Nat /\ row.at \in Nat
    <3>1. row.at \in Nat
      BY <2>1, TypeFacts, RowFacts
    <3> QED BY <2>3, <3>1, OpFacts
  <2> QED BY <2>4, <2>5, <2>6
<1>2. SyncInv /\ [Next]_vars =>
        (Writes /\ request.row = row => \A f \in Fields \ {Sent.field} : row'.ver[f] = row.ver[f])
  <2> SUFFICES ASSUME SyncInv, [Next]_vars, Writes, request.row = row, NEW f \in Fields \ {Sent.field}
               PROVE  row'.ver[f] = row.ver[f]
    OBVIOUS
  <2>1. request.pc = "read" /\ request'.pc = "answered"
    BY DEF Writes
  <2>2. UpdateItem_Write
    <3>1. request' # request
      BY <2>1
    <3>2. ~Send /\ ~UpdateItem_Read /\ ~syncUpdateItem /\ ~recordConflict /\ ~AnswerLost
      BY <2>1 DEF Send, UpdateItem_Read, syncUpdateItem, recordConflict, AnswerLost
    <3>3. ~ReorderItems
      BY <2>1 DEF ReorderItems
    <3>4. \A g \in Fields : ~updateItemOfflineFirst(g) /\ ~Other_Read(g)
      BY <3>1 DEF updateItemOfflineFirst, Other_Read, device
    <3>5. ~setAllCheckedOfflineFirst /\ ~reorderItemsOfflineFirst
      BY <3>1 DEF setAllCheckedOfflineFirst, reorderItemsOfflineFirst
    <3>6. \A k : ~resolveConflictAcceptServer(k) /\ ~resolveConflictKeepLocal(k)
      BY <3>1 DEF resolveConflictAcceptServer, resolveConflictKeepLocal
    <3>7. \A a : ~Fetched(a) /\ ~reconcileListItems(a) /\ ~RefreshFails(a)
      BY <3>1 DEF Fetched, reconcileListItems, RefreshFails
    <3>8. ~runItemsRefresh /\ ~OpenScreen /\ ~Other_Write /\ ~Tick
      BY <3>1, <3>7 DEF runItemsRefresh, OpenScreen, Other_Write, Tick, device
    <3>9. ~UNCHANGED vars
      BY <3>1 DEF vars, device
    <3> QED BY <3>2, <3>3, <3>4, <3>5, <3>6, <3>7, <3>8, <3>9 DEF Next
  <2>3. row'.ver = [row.ver EXCEPT ![Sent.field] = Sent.edit]
    BY <2>2 DEF UpdateItem_Write, Written
  <2>4. row.ver \in Fielded
    BY TypeFacts DEF SyncInv
  <2> QED BY <2>3, <2>4 DEF Fielded
<1>3. Spec => SilentOverwritesAreKnown
  BY <1>1, SyncInvariant, PTL DEF Spec, SilentOverwritesAreKnown
<1>4. Spec => OtherFieldsAreKept
  BY <1>2, SyncInvariant, PTL DEF Spec, OtherFieldsAreKept
<1> QED BY <1>3, <1>4 DEF EditsAreCareful
=============================================================================
