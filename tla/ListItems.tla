----------------------------- MODULE ListItems -----------------------------
(***************************************************************************)
(* The rows of one name and unit on a shopping list, under concurrent      *)
(* requests of the members (services/list_service.go,                      *)
(* repositories/list_repo.go, handlers/list.go).                           *)
(*                                                                         *)
(* Each statement is one step; what a request read before it may be out of *)
(* date by then.  One request is followed from its read to its write; the  *)
(* others write what they may have read at any time before, which is any   *)
(* quantity, checked or not.  Which of several matching rows is the first  *)
(* depends on their positions, which members reorder at will: any may be.  *)
(* So do the rows a listing shows: it ends after 200 rows of the list, the *)
(* rows of other names included, and any of these may be behind them.      *)
(***************************************************************************)
EXTENDS Naturals, FiniteSets, FiniteSetsExt

CONSTANTS
    None,        \* nobody
    Members,     \* people of the household at first
    MaxRows,     \* bound: rows ever inserted
    MaxAmount    \* bound: quantities; more is as much

\* Of the constants; MCLists assumes it.
ListItemsAssumption ==
    /\ MaxRows \in Nat \ {0} /\ MaxAmount \in Nat \ {0}
    /\ None \notin Members

VARIABLES
    item,      \* list_items
    member,    \* who has not left
    job        \* the request that is followed, with what it read

vars == <<item, member, job>>

Ids == 1..MaxRows
NoId == 0
Kinds == {"none", "amount", "batch", "remove", "edit"}

Item == [st : {"none", "live", "gone"}, qty : 0..MaxAmount, checked : BOOLEAN,
         claim : Members \cup {None}]
\* What a request does to row id (NoId: a row it inserts), of which it read
\* qty and checked; for the properties, the open rows it was shown and the
\* rows that have changed since.
Job == [kind : Kinds, id : Ids \cup {NoId}, qty : 0..MaxAmount, checked : BOOLEAN,
        left : 0..2, open : SUBSET Ids, changed : SUBSET Ids]

TypeOK ==
    /\ item \in [Ids -> Item]
    /\ member \subseteq Members
    /\ job \in Job
    /\ \A i \in Ids : item[i].st = "live" => item[i].qty > 0

Absent == [st |-> "none", qty |-> 0, checked |-> FALSE, claim |-> None]
Idle == [kind |-> "none", id |-> NoId, qty |-> 0, checked |-> FALSE,
         left |-> 0, open |-> {}, changed |-> {}]

Init ==
    /\ item = [i \in Ids |-> Absent]
    /\ member = Members
    /\ job = Idle

---------------------------------------------------------------------------
(* The statements.                                                         *)

Live == {i \in Ids : item[i].st = "live"}
Open == {i \in Live : ~item[i].checked}
Unused == {i \in Ids : item[i].st = "none"}
Sum(a, b) == IF a + b > MaxAmount THEN MaxAmount ELSE a + b

\* The rows become new; a request in flight has read the old ones.
Becomes(new) ==
    /\ item' = new
    /\ job' = IF job = Idle THEN Idle
              ELSE [job EXCEPT !.changed = @ \cup {i \in Ids : new[i] # item[i]}]
    /\ UNCHANGED member

\* Mutant: the statement finds deleted rows too, and revives them.
UpdatedAnyway(i, qty, checked) ==
    [item EXCEPT ![i].qty = qty, ![i].checked = checked, ![i].st = "live"]

\* UpdateItem writes every column but the claim, if the row is still there;
\* it reports success either way.
Updated(i, qty, checked) ==
    IF item[i].st = "live" THEN [item EXCEPT ![i].qty = qty, ![i].checked = checked]
    ELSE item

\* CreateItem inserts an open row at the end.
Created(i, qty) ==
    [item EXCEPT ![i] = [st |-> "live", qty |-> qty, checked |-> FALSE, claim |-> None]]

\* SoftDeleteItemsByID and SoftDeleteItemsByList.
Deleted(S) == [i \in Ids |-> IF i \in S \cap Live THEN [Absent EXCEPT !.st = "gone"] ELSE item[i]]

---------------------------------------------------------------------------
(* Requests that are one statement, the reads before it aside, and the     *)
(* writes of other requests.                                               *)

\* A new item without a quantity is one.
Quantity(n) == IF n = 0 THEN 1 ELSE n

CreateItem(n) == Unused # {} /\ Becomes(Created(Min(Unused), Quantity(n)))

DeleteItem(i) == i \in Live /\ Becomes(Deleted({i}))

ClearItems(onlyChecked) ==
    Live # {} /\ Becomes(Deleted(IF onlyChecked THEN Live \ Open ELSE Live))

OtherWrite(i, n, checked) == i \in Live /\ Becomes(Updated(i, n, checked))

\* BulkCompleteItems: the statement itself asks for the membership.
BulkCompleteItems(S, p) ==
    /\ p \in member
    /\ Becomes([i \in Ids |-> [item[i] EXCEPT !.checked = @ \/ i \in S \cap Live]])

\* ClaimItem, of an open row, by somebody who is a member at that moment.
ClaimItem(i, p) == i \in Open /\ p \in member /\ Becomes([item EXCEPT ![i].claim = p])

UnclaimItem(i, p) == i \in Live /\ p \in member /\ Becomes([item EXCEPT ![i].claim = None])

\* Somebody leaves the household.
Leave(p) == member' = member \ {p} /\ UNCHANGED <<item, job>>

---------------------------------------------------------------------------
(* Requests that read a row and write it later.                            *)

Reads(kind, i, left, shown) ==
    /\ job = Idle
    /\ job' = [kind |-> kind, id |-> i, left |-> left,
               open |-> Open \cap shown, changed |-> {},
               qty |-> IF i = NoId THEN 0 ELSE item[i].qty,
               checked |-> i # NoId /\ item[i].checked]
    /\ UNCHANGED <<item, member>>

\* The request writes, and goes on as next.
Writes(new, next) == item' = new /\ job' = next /\ UNCHANGED member

\* AddItemAmount takes the first row, checked or not.
AddItemAmount(i) ==
    (IF Live = {} THEN i = NoId ELSE i \in Live) /\ Reads("amount", i, 1, Live)

\* ListItemsByList without a limit: the rows among the first 200 of the list.
Listings == SUBSET Live

\* The row a batch tops up: of those listed an open one, else a checked one,
\* else a new one.
Best(listed) == IF Open \cap listed # {} THEN Open \cap listed
                ELSE IF listed # {} THEN listed
                ELSE {NoId}

\* A batch of one or two amounts of this name.
AddItemsBatch(i, left) ==
    \E listed \in Listings : i \in Best(listed) /\ Reads("batch", i, left, listed)

RemoveItemAmount(i) == i \in Live /\ Reads("remove", i, 1, Live)

UpdateItem(i) == i \in Live /\ Reads("edit", i, 1, Live)

\* The amount is added to what was read, which a batch counts as nothing when
\* the row was checked; either way the row is needed again.
ToppedUp(n) ==
    [qty |-> IF job.kind = "batch" /\ job.checked THEN n ELSE Sum(job.qty, n),
     checked |-> FALSE]

\* A batch goes on with its next amount, on the row it has written.
After(i, to) ==
    IF job.left = 1 THEN Idle
    ELSE [job EXCEPT !.id = i, !.qty = to.qty, !.checked = to.checked, !.left = @ - 1]

Add_Write(n) ==
    /\ job.kind \in {"amount", "batch"}
    /\ \/ /\ job.id # NoId
          /\ LET to == ToppedUp(n) IN
             Writes(Updated(job.id, to.qty, to.checked), After(job.id, to))
       \/ /\ job.id = NoId /\ Unused # {}
          /\ Writes(Created(Min(Unused), n),
                    After(Min(Unused), [qty |-> n, checked |-> FALSE]))

Remove_Write(n) ==
    /\ job.kind = "remove"
    /\ Writes(IF job.qty <= n THEN Deleted({job.id})
              ELSE Updated(job.id, job.qty - n, job.checked), Idle)

\* The requested fields replace what was read; the others are written back.
Update_Write(n, checked) ==
    /\ job.kind = "edit"
    /\ Writes(Updated(job.id, n, checked), Idle)

\* A batch stops at an amount that is not positive; what it wrote stays.
Refused == job.kind = "batch" /\ job' = Idle /\ UNCHANGED <<item, member>>

---------------------------------------------------------------------------
Amounts == 1..MaxAmount

Next ==
    \/ \E n \in 0..MaxAmount : CreateItem(n)
    \/ \E n \in Amounts : Add_Write(n) \/ Remove_Write(n)
    \/ \E n \in Amounts, c \in BOOLEAN : Update_Write(n, c)
    \/ \E b \in BOOLEAN : ClearItems(b)
    \/ \E i \in Ids : DeleteItem(i) \/ RemoveItemAmount(i) \/ UpdateItem(i)
    \/ \E i \in Ids, n \in Amounts, c \in BOOLEAN : OtherWrite(i, n, c)
    \/ \E i \in Ids \cup {NoId}, n \in 1..2 : AddItemAmount(i) \/ AddItemsBatch(i, n)
    \/ \E S \in SUBSET Ids, p \in Members : BulkCompleteItems(S, p)
    \/ \E i \in Ids, p \in Members : ClaimItem(i, p) \/ UnclaimItem(i, p)
    \/ \E p \in member : Leave(p)
    \/ Refused

Spec == Init /\ [][Next]_vars

---------------------------------------------------------------------------
(* Properties.                                                             *)

\* A deleted or cleared row never comes back, whatever a request that read it
\* before writes later.
GoneStaysGone == [][\A i \in Ids : item[i].st = "gone" => item'[i] = item[i]]_vars

\* Whoever comes to hold a claim is a member at that moment: no edit, however
\* old its copy of the row, puts a claim back.
ClaimantsAreMembers ==
    [][\A i \in Ids : item'[i].claim \notin {None, item[i].claim} =>
          item'[i].claim \in member]_vars

Adding == job.kind \in {"amount", "batch"}

\* An amount that was added shows as an open row, unless the row it was added
\* to was deleted after the request had read it: then nothing shows it.
AddsAreShown ==
    [][Adding /\ job' = Idle /\ ~(job.kind = "batch" /\ UNCHANGED item) =>
          \/ \E i \in Ids : item'[i].st = "live" /\ ~item'[i].checked
          \/ job.id \in job.changed /\ item[job.id].st = "gone"]_vars

\* A batch opens a row next to an open one only if that one was opened, or
\* added, or its own row checked, after the batch had read the list, or was
\* behind the first 200 rows, which are all that AddItemsBatch looks at.
BatchKeepsOneOpen ==
    [][job.kind = "batch" /\ (job' = Idle \/ job'.left < job.left)
       /\ job.id \notin job.changed /\ (job.id = NoId \/ item[job.id].checked)
       /\ item' # item =>
          Open \cap job.open \subseteq job.changed]_vars
=============================================================================
