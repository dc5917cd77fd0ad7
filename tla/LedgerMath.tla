----------------------------- MODULE LedgerMath -----------------------------
(***************************************************************************)
(* The arithmetic of backend/internal/services/finance_service.go: how an  *)
(* expense is split (buildSplits), how its splits follow a new amount      *)
(* (rescaleSplits), what everybody's balance is (calculateBalances) and    *)
(* who should pay whom (suggestReimbursements).                            *)
(*                                                                         *)
(* Amounts are integers in minor units.  The participants of a split, and  *)
(* the members of a household, are numbered in the order of their ids,     *)
(* which is the order the code sorts them in.  Sums stay far below the     *)
(* range of int64 and of the integers a float64 holds exactly.             *)
(***************************************************************************)
EXTENDS Integers, Sequences, SequencesExt, FiniteSetsExt, Orders

CONSTANTS Whole,     \* what percentages add up to: 10000 basis points
          Refused    \* a ValidationError

ASSUME WholeAssumption == Whole \in Nat \ {0}

Total(s) == FoldLeft(LAMBDA a, b : a + b, 0, s)

-----------------------------------------------------------------------------
(* buildSplits *)

\* What the participants enter: an amount, a number of shares or a percentage.
Modes == {"equal", "exact", "shares", "percentage"}

Accepted(total, mode, w) ==
    /\ mode # "equal" => \A i \in DOMAIN w : w[i] > 0
    /\ mode = "exact" => Total(w) = total
    /\ mode = "percentage" => Total(w) = Whole

\* The first total % n participants pay one unit more.
EqualShares(total, n) ==
    [i \in 1..n |-> (total \div n) + (IF i <= total % n THEN 1 ELSE 0)]

\* Mutant of WeightedShares: everybody is rounded down.
WeightedSharesDown(total, w) == [i \in DOMAIN w |-> (total * w[i]) \div Total(w)]

\* distributeByWeight: everybody is rounded down, the last one takes the rest.
WeightedShares(total, w) ==
    LET down == [i \in DOMAIN w |-> (total * w[i]) \div Total(w)]
    IN [down EXCEPT ![Len(w)] = total - Total(Front(down))]

BuildSplits(total, mode, w) ==
    IF w = << >> THEN << >>
    ELSE IF ~Accepted(total, mode, w) THEN Refused
    ELSE CASE mode = "equal" -> EqualShares(total, Len(w))
           [] mode = "exact" -> w
           [] OTHER -> WeightedShares(total, w)

-----------------------------------------------------------------------------
(* rescaleSplits *)

\* math.Round(a / b) for b > 0: halves away from zero.
RoundQuotient(a, b) == IF a >= 0 THEN (2 * a + b) \div (2 * b)
                                 ELSE -((-2 * a + b) \div (2 * b))

\* The index of the first of the largest amounts.
Largest(s) == Min({i \in DOMAIN s : \A j \in DOMAIN s : s[j] <= s[i]})

\* Mutant of RescaleSplits: what rounding gained or lost stays so.
RescaleRounded(s, old, new) ==
    [i \in DOMAIN s |-> IF old > 0 THEN RoundQuotient(s[i] * new, old) ELSE new \div Len(s)]

\* Every split is scaled and rounded; the largest absorbs the difference.
RescaleSplits(s, old, new) ==
    IF s = << >> THEN s
    ELSE LET scaled == [i \in DOMAIN s |-> IF old > 0 THEN RoundQuotient(s[i] * new, old)
                                                      ELSE new \div Len(s)]
         IN [scaled EXCEPT ![Largest(scaled)] = @ + new - Total(scaled)]

-----------------------------------------------------------------------------
(* calculateBalances *)

\* An expense names its payer, its base amount and what each of n members
\* owes; a settlement counts once it is confirmed.
Paid(u, e, t) == (IF e.payer = u THEN e.base ELSE 0)
                 + (IF t.status = "confirmed" /\ t.from = u THEN t.amount ELSE 0)

Owed(u, e, t) == e.splits[u]
                 + (IF t.status = "confirmed" /\ t.to = u THEN t.amount ELSE 0)

\* The balances of a household with one expense and one settlement.
Balances(e, t) == [u \in DOMAIN e.splits |-> Paid(u, e, t) - Owed(u, e, t)]

-----------------------------------------------------------------------------
(* suggestReimbursements *)

\* Who is owed something and who owes, among entries [user, total].
Creditors(s) == {x \in ToSet(s) : x.total > 0}
Debtors(s) == {x \in ToSet(s) : x.total < 0}

\* Both, creditors first, in the order of their ids.
Working(total) ==
    LET entries == [u \in DOMAIN total |-> [user |-> u, total |-> total[u]]]
    IN Only(entries, Creditors(entries)) \o Only(entries, Debtors(entries))

Lesser(a, b) == IF a < b THEN a ELSE b

\* Mutant of Paired: the whole credit is asked of one debtor.
PairedFully(w) ==
    LET amount == Head(w).total
        rest == [[w EXCEPT ![1].total = @ - amount] EXCEPT ![Len(w)].total = @ + amount]
    IN [pay |-> [from |-> Last(w).user, to |-> Head(w).user, amount |-> amount],
        rest |-> Only(rest, Creditors(rest) \cup Debtors(rest))]

\* The first creditor and the last debtor settle what they can; whoever
\* reaches zero drops out.
Paired(w) ==
    LET amount == Lesser(Head(w).total, -Last(w).total)
        rest == [[w EXCEPT ![1].total = @ - amount] EXCEPT ![Len(w)].total = @ + amount]
    IN [pay |-> [from |-> Last(w).user, to |-> Head(w).user, amount |-> amount],
        rest |-> Only(rest, Creditors(rest) \cup Debtors(rest))]

\* The loop ends when there is no creditor or no debtor left.
Unsettled(w) == Len(w) > 1 /\ Head(w).total > 0 /\ Last(w).total < 0

\* The state of the loop after k rounds.
Rounds(total) ==
    LET round[k \in 0..Len(total)] ==
          IF k = 0 THEN [working |-> Working(total), payments |-> << >>]
          ELSE LET before == round[k - 1]
                   paired == Paired(before.working)
               IN IF Unsettled(before.working)
                  THEN [working |-> paired.rest,
                        payments |-> Append(before.payments, paired.pay)]
                  ELSE before
    IN round

\* Every round drops at least one of the n entries, so n rounds are all.
SuggestReimbursements(total) == Rounds(total)[Len(total)].payments
=============================================================================
