------------------------------- MODULE Ledger -------------------------------
(***************************************************************************)
(* One expense and its splits under concurrent edits: UpdateExpense,       *)
(* DeleteExpense, CreateSplit, UpdateSplit and DeleteSplit of              *)
(* backend/internal/services/finance_service.go over the expenses and      *)
(* splits tables of finance_repo.go.                                       *)
(*                                                                         *)
(* UpdateExpense reads the expense, reads the splits and writes both, in   *)
(* three statements without a lock; the other operations write one         *)
(* statement whose effect depends only on the rows it finds, so they are   *)
(* one step here.  The rewriting transaction locks the expense's row and   *)
(* the splits it deletes: it is one step as well, and a split inserted     *)
(* while it runs is inserted after it.                                     *)
(***************************************************************************)
EXTENDS LedgerMath, FiniteSets, Functions

CONSTANTS Editors,      \* goroutines that run UpdateExpense
          SplitEdits,   \* are single splits edited?
          First,        \* the splits 1..First were created with the expense
          Splits,       \* how many splits are ever created
          MaxBase,      \* bound of a base amount
          MaxSplit      \* bound of a split, either way

ASSUME BoundsAssumption == /\ SplitEdits \in BOOLEAN
                           /\ First \in Nat \ {0} /\ Splits \in Nat /\ First <= Splits
                           /\ MaxBase \in Nat /\ MaxSplit \in Nat

VARIABLES expense,    \* the expenses row: does it exist, its base amount
          split,      \* split[i]: the amount of split row i, numbered by creation
          created,    \* the number of splits created so far
          edit        \* edit[p]: the local state of an UpdateExpense

ledgerVars == <<expense, split, created, edit>>

Amount == -MaxSplit..MaxSplit
AreRows(f) == DOMAIN f \subseteq 1..Splits /\ f \in [DOMAIN f -> Int]

\* A request: the base amount it writes, the one it has read, and the splits it
\* writes.
IsEdit(e) == /\ e \in [pc : {"idle", "read", "list", "plain", "rewrite"},
                       new : 0..MaxBase, seen : 0..MaxBase, rows : {e.rows}]
             /\ AreRows(e.rows)
NoEdit == [pc |-> "idle", new |-> 0, seen |-> 0, rows |-> << >>]

LedgerTypeOK ==
    /\ expense \in [exists : BOOLEAN, base : 0..MaxBase]
    /\ AreRows(split)
    /\ created \in First..Splits
    /\ edit \in [Editors -> {edit[p] : p \in Editors}]
    /\ \A p \in Editors : IsEdit(edit[p])

\* CreateExpenseWithSplitMode, split equally.
LedgerInit ==
    /\ \E base \in 1..MaxBase :
         /\ expense = [exists |-> TRUE, base |-> base]
         /\ split = EqualShares(base, First)
    /\ created = First
    /\ edit = [p \in Editors |-> NoEdit]

-----------------------------------------------------------------------------
EditIn(p, pc) == edit[p].pc = pc
EditBecomes(p, state) == edit' = [edit EXCEPT ![p] = state]
EditGoes(p, pc) == EditBecomes(p, [edit[p] EXCEPT !.pc = pc])

\* UpdateExpense arrives with the base amount it will have after
\* normalizeBaseAmount, which a rate may round to zero.
UpdateExpense(p, new) ==
    /\ EditIn(p, "idle")
    /\ expense.exists
    /\ EditBecomes(p, [NoEdit EXCEPT !.pc = "read", !.new = new])
    /\ UNCHANGED <<expense, split, created>>

\* GetExpenseByID.  If base_amount stays what it is, a plain update is enough.
ReadExpense(p) ==
    /\ EditIn(p, "read")
    /\ IF ~expense.exists THEN EditBecomes(p, NoEdit)
       ELSE IF edit[p].new = expense.base THEN EditGoes(p, "plain")
       ELSE EditBecomes(p, [edit[p] EXCEPT !.pc = "list", !.seen = expense.base])
    /\ UNCHANGED <<expense, split, created>>

\* ORDER BY created_at: the first splits have one and the same, and the
\* database returns those in any order.
Listings == {s \in [1..Cardinality(DOMAIN split) -> DOMAIN split] :
             /\ IsInjective(s)
             /\ \A i, j \in DOMAIN s : (i < j /\ s[i] > First) => s[i] < s[j]}

\* Mutant of Rescaled: from the new amount to the old one.
RescaledBack(p, s) ==
    LET amounts == RescaleSplits([i \in DOMAIN s |-> split[s[i]]], edit[p].new, edit[p].seen)
    IN [i \in DOMAIN split |-> amounts[AntiFunction(s)[i]]]

\* The splits, listed in the order s, rescaled to the new amount.
Rescaled(p, s) ==
    LET amounts == RescaleSplits([i \in DOMAIN s |-> split[s[i]]], edit[p].seen, edit[p].new)
    IN [i \in DOMAIN split |-> amounts[AntiFunction(s)[i]]]

\* ListSplitsByExpense, and what is going to be written.
ListSplits(p) ==
    /\ EditIn(p, "list")
    /\ \E s \in Listings :
         /\ Range(Rescaled(p, s)) \subseteq Amount
         /\ EditBecomes(p, [edit[p] EXCEPT !.pc = "rewrite", !.rows = Rescaled(p, s)])
    /\ UNCHANGED <<expense, split, created>>

\* The plain update writes the base amount along with everything else.
PlainUpdate(p) ==
    /\ EditIn(p, "plain")
    /\ expense' = IF expense.exists THEN [expense EXCEPT !.base = edit[p].new] ELSE expense
    /\ EditBecomes(p, NoEdit)
    /\ UNCHANGED <<split, created>>

\* Mutant of Rewritten: only the listed splits are replaced, others stay.
RewrittenListed(p) == edit[p].rows @@ split

\* All splits of the expense are deleted; the listed ones are inserted again.
Rewritten(p) == edit[p].rows

\* UpdateExpenseWithSplits, rolled back when the expense is gone.
UpdateExpenseWithSplits(p) ==
    /\ EditIn(p, "rewrite")
    /\ IF expense.exists
       THEN /\ expense' = [expense EXCEPT !.base = edit[p].new]
            /\ split' = Rewritten(p)
       ELSE UNCHANGED <<expense, split>>
    /\ EditBecomes(p, NoEdit)
    /\ UNCHANGED created

\* The request is cancelled, or its server dies.
AbandonEdit(p) == /\ ~EditIn(p, "idle")
                  /\ EditBecomes(p, NoEdit)
                  /\ UNCHANGED <<expense, split, created>>

\* The rows of the splits reference the expense.
DeleteExpense == /\ expense.exists
                 /\ expense' = [expense EXCEPT !.exists = FALSE]
                 /\ split' = << >>
                 /\ UNCHANGED <<created, edit>>

\* Nothing checks the amount of a new split, or the sum.
CreateSplit(amount) ==
    /\ SplitEdits /\ expense.exists /\ created < Splits
    /\ created' = created + 1
    /\ split' = [i \in DOMAIN split \cup {created'} |->
                   IF i = created' THEN amount ELSE split[i]]
    /\ UNCHANGED <<expense, edit>>

UpdateSplit(i, amount) ==
    /\ SplitEdits /\ i \in DOMAIN split /\ amount > 0
    /\ split' = [split EXCEPT ![i] = amount]
    /\ UNCHANGED <<expense, created, edit>>

DeleteSplit(i) ==
    /\ SplitEdits /\ i \in DOMAIN split
    /\ split' = Restrict(split, DOMAIN split \ {i})
    /\ UNCHANGED <<expense, created, edit>>

LedgerNext ==
    \/ \E p \in Editors :
         \/ \E new \in 0..MaxBase : UpdateExpense(p, new)
         \/ ReadExpense(p) \/ ListSplits(p) \/ PlainUpdate(p)
         \/ UpdateExpenseWithSplits(p) \/ AbandonEdit(p)
    \/ DeleteExpense
    \/ \E amount \in {-1, 1} : CreateSplit(amount)
    \/ \E i \in 1..Splits, amount \in 1..MaxSplit : UpdateSplit(i, amount)
    \/ \E i \in 1..Splits : DeleteSplit(i)

LedgerSpec == LedgerInit /\ [][LedgerNext]_ledgerVars

-----------------------------------------------------------------------------
(* Properties *)

\* What UpdateExpense's comment calls "the invariant all balance math relies
\* on": the splits of an expense add up to its base amount.  The code does not
\* keep it; OnlyStaleUpdatesBreak says how an update can break it.
SplitsMatch == expense.exists => SumFunction(split) = expense.base

\* Whatever was edited before and is being edited meanwhile, once an expense
\* with splits has been rescaled its splits match again, split edits that
\* happened between the read and the write included
\* (UpdateExpenseWithSplits: "keeping base_amount and the split sum
\* consistent").
RescaleRestores ==
    [][\A p \in Editors :
         (EditIn(p, "rewrite") /\ edit'[p] = NoEdit
            /\ <<expense, split>>' # <<expense, split>> /\ split' # << >>) =>
              SumFunction(split') = expense'.base]_ledgerVars

\* Apart from edits of single splits, an expense's splits (if it has any left)
\* stop matching in one way: an update that found its own base amount unchanged
\* writes it over one that somebody else has changed since (UpdateExpense).
OnlyStaleUpdatesBreak ==
    [][(SplitsMatch /\ ~SplitsMatch' /\ edit' # edit /\ split' # << >>) =>
         \E p \in Editors : /\ EditIn(p, "plain") /\ edit'[p] = NoEdit
                            /\ edit[p].new # expense.base]_ledgerVars
=============================================================================
