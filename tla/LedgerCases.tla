---------------------------- MODULE LedgerCases -----------------------------
(***************************************************************************)
(* The arithmetic of LedgerMath, checked case by case: a caller poses a    *)
(* problem (an input of one of the four functions) and gets the answer.    *)
(***************************************************************************)
EXTENDS LedgerMath, FiniteSets

CONSTANTS People,        \* the largest number of participants
          MaxAmount,     \* bound of an amount
          MaxWeight,     \* bound of what a participant enters
          NoCase         \* nothing asked yet

ASSUME CasesAssumption == People \in Nat /\ MaxAmount \in Nat /\ MaxWeight \in Nat

VARIABLES problem, answer
caseVars == <<problem, answer>>

Some(S) == UNION {[1..n -> S] : n \in 1..People}

\* The splits of an expense as the program can have stored them.
Stored == {s \in Some(0..MaxAmount) : Total(s) <= MaxAmount}

CasesInit == problem = NoCase /\ answer = NoCase

PoseSplit == \E total \in 0..MaxAmount, mode \in Modes, w \in Some(0..MaxWeight) :
    problem' = [kind |-> "split", total |-> total, mode |-> mode, input |-> w]

\* The old amount is the sum of the splits unless single splits were edited.
PoseRescale == \E s \in Stored, old, new \in 0..MaxAmount :
    problem' = [kind |-> "rescale", splits |-> s, old |-> old, new |-> new]

PoseBalance == \E s \in Stored : \E payer \in DOMAIN s, from, to \in DOMAIN s,
                  base \in 0..MaxAmount, amount \in 1..2,
                  status \in {"pending", "confirmed", "declined"} :
    /\ from # to
    /\ problem' = [kind |-> "balance",
                   expense |-> [payer |-> payer, base |-> base, splits |-> s],
                   settlement |-> [from |-> from, to |-> to, amount |-> amount,
                                   status |-> status]]

PoseReimburse == \E t \in Some(-MaxWeight..MaxWeight) :
    problem' = [kind |-> "reimburse", totals |-> t]

Pose == /\ problem = NoCase
        /\ answer' = NoCase
        /\ PoseSplit \/ PoseRescale \/ PoseBalance \/ PoseReimburse

Solution(p) == CASE p.kind = "split" -> BuildSplits(p.total, p.mode, p.input)
                 [] p.kind = "rescale" -> RescaleSplits(p.splits, p.old, p.new)
                 [] p.kind = "balance" -> Balances(p.expense, p.settlement)
                 [] OTHER -> SuggestReimbursements(p.totals)

Solve == /\ problem # NoCase /\ answer = NoCase
         /\ answer' = Solution(problem)
         /\ UNCHANGED problem

CasesNext == Pose \/ Solve
CasesSpec == CasesInit /\ [][CasesNext]_caseVars

Answered(kind) == problem # NoCase /\ problem.kind = kind /\ answer # NoCase

-----------------------------------------------------------------------------
(* Properties *)

\* The splits of an accepted expense add up to its amount to the last unit,
\* and nobody owes a negative amount, in every mode (buildSplits).
SplitsAddUp ==
    Answered("split") /\ answer # Refused =>
        Total(answer) = problem.total /\ \A i \in DOMAIN answer : answer[i] >= 0

\* An equal split is fair to the unit, and a weighted one to a unit for
\* everybody but the last, who pays at most what rounding left over
\* (buildSplits, distributeByWeight).
SplitsAreFair ==
    Answered("split") /\ answer # Refused =>
        LET n == Len(answer)
            w == IF problem.mode = "equal" THEN [i \in 1..n |-> 1] ELSE problem.input
        IN \A i \in 1..n :
             LET error == answer[i] * Total(w) - problem.total * w[i]
             IN IF problem.mode # "equal" /\ i = n THEN 0 <= error /\ error < n * Total(w)
                ELSE -Total(w) < error /\ error < Total(w)

Consistent == problem.old = Total(problem.splits)

\* A rescaled expense is consistent again, "the invariant all balance math
\* relies on" (UpdateExpense), whatever it was before; if it was consistent,
\* no split moves by more than half a unit per participant (rescaleSplits).
RescaleKeepsShares ==
    Answered("rescale") =>
        /\ Total(answer) = problem.new
        /\ Consistent /\ problem.old > 0 =>
             \A i \in DOMAIN answer :
               LET error == 2 * (answer[i] * problem.old - problem.splits[i] * problem.new)
               IN /\ error <= Len(answer) * problem.old
                  /\ -error <= Len(answer) * problem.old

\* Money is neither made nor lost: the balances add up to what was paid and
\* not split, whatever the settlement's state (calculateBalances).
MoneyIsConserved ==
    Answered("balance") =>
        Total(answer) = problem.expense.base - Total(problem.expense.splits)

\* What paying x changes in the balance of u.
Change(x, u) == (IF x.from = u THEN x.amount ELSE 0) - (IF x.to = u THEN x.amount ELSE 0)

\* The balance of u after everybody has paid what was suggested.
After(u) == problem.totals[u] + Total([i \in DOMAIN answer |-> Change(answer[i], u)])

\* Following the suggestions never turns a creditor into a debtor or back,
\* and settles everybody when the balances add up to zero
\* (suggestReimbursements).
ReimbursementsSettle ==
    Answered("reimburse") =>
        /\ \A i \in DOMAIN answer : answer[i].amount > 0
        /\ \A u \in DOMAIN problem.totals :
             /\ problem.totals[u] >= 0 => After(u) >= 0
             /\ problem.totals[u] <= 0 => After(u) <= 0
             /\ Total(problem.totals) = 0 => After(u) = 0

\* Splitting an expense loses no unit and favours nobody by more than the
\* rounding (buildSplits).
SplitsAreExact == SplitsAddUp /\ SplitsAreFair

\* Balances neither make nor lose money, and the suggestions computed from
\* them settle the household (GetFinanceSummary).
BalancesSettle == MoneyIsConserved /\ ReimbursementsSettle
=============================================================================
