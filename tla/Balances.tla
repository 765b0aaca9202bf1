------------------------------ MODULE Balances ------------------------------
(***************************************************************************)
(* The pure part of expenses and balances: how an expense is shared out,   *)
(* and the two views the queries of BalanceRepository compute from the     *)
(* tables, net balances and raw debts.  Money in the tables is in cents,   *)
(* the scale of the DECIMAL(10, 2) columns that store it.                  *)
(*                                                                         *)
(* The numbers of a request are float64, with any fraction.  They are      *)
(* counted here in equal parts of the unit: an amount in parts of a cent,  *)
(* a percentage in parts of a hundredth of a point.  As every float64 is a *)
(* fraction, there are Parts that make finitely many of them whole.        *)
(*                                                                         *)
(* The tables are passed as functions of an expense id: E gives the rows   *)
(* of expenses, Absent for an id without a row, and S their splits, a      *)
(* function of the users who have one.  C gives the total of the confirmed *)
(* payments of a user to each of the users.                                *)
(***************************************************************************)
EXTENDS Integers, FiniteSets, Functions

CONSTANTS
  User,
  Parts  \* the parts of a cent, or of a hundredth of a point, in requests

ASSUME PartsAssumption == Parts \in Nat \ {0}

SplitType == {"equal", "percentage", "custom", "payer_only"}

\* The splits of one expense: at most one for a user, UNIQUE(expense_id,
\* user_id), and none for a user it does not concern.  A request may ask for
\* any amounts; the table takes none below zero.
IsAmounts(s) == DOMAIN s \in SUBSET User /\ s \in [DOMAIN s -> Int]
IsShares(s)  == IsAmounts(s) /\ \A u \in DOMAIN s : s[u] >= 0
NoShares == [u \in {} |-> 0]

Absent == [paidBy |-> "nobody", amount |-> 0, type |-> "none"]

Magnitude(n) == IF n < 0 THEN -n ELSE n

\* A quotient stored in a DECIMAL column: rounded, a half away from zero.
RoundDiv(n, d) == IF n >= 0 THEN (2 * n + d) \div (2 * d)
                  ELSE -((2 * (-n) + d) \div (2 * d))

\* An amount of a request as a column holds it.
InCents(amount) == RoundDiv(amount, Parts)

\* 100 percent
Whole == 10000 * Parts

-----------------------------------------------------------------------------
(* ExpenseService.calculateSplits.  The code computes with fractions and   *)
(* the INSERT rounds; the splits here are already those the table holds.   *)

\* The splits named by the request, or every member when it names none.
calculateEqualSplits(amount, input, members) ==
  LET among == IF DOMAIN input = {} THEN members ELSE DOMAIN input
  IN [u \in among |-> RoundDiv(amount, Parts * Cardinality(among))]

calculatePercentageSplits(amount, input) ==
  [u \in DOMAIN input |-> RoundDiv(amount * input[u], Parts * Whole)]

calculateCustomSplits(input) == [u \in DOMAIN input |-> InCents(input[u])]

\* The tolerance is one cent.
validateAmountTotal(amount, input) ==
  Magnitude(SumFunction(input) - amount) <= Parts

\* Between 99.99 and 100.01.
validatePercentageTotal(input) == Magnitude(SumFunction(input) - Whole) <= Parts

SplitsAccepted(type, amount, input, members) ==
  /\ members # {}
  /\ type \in SplitType
  /\ type \in {"percentage", "custom"} => DOMAIN input # {}
  /\ type = "percentage" => validatePercentageTotal(input)
  /\ type = "custom" => validateAmountTotal(amount, input)

calculateSplits(type, amount, input, members) ==
  CASE type = "equal"      -> calculateEqualSplits(amount, input, members)
    [] type = "percentage" -> calculatePercentageSplits(amount, input)
    [] type = "custom"     -> calculateCustomSplits(input)
    [] type = "payer_only" -> NoShares

\* CHECK (percentage >= 0 AND percentage <= 100): the percentages that go with
\* the splits, in a DECIMAL(5, 2) column.  Equal shares always pass.
PercentagesAccepted(type, amount, input) ==
  /\ type = "percentage" =>
       \A u \in DOMAIN input : RoundDiv(input[u], Parts) \in 0..10000
  /\ type = "custom" =>
       /\ amount > 0
       /\ \A u \in DOMAIN input : RoundDiv(10000 * input[u], amount) \in 0..10000

-----------------------------------------------------------------------------
(* BalanceRepository *)

Rows(E) == {e \in DOMAIN E : E[e] # Absent}

RowsPaidBy(E, u) == {e \in Rows(E) : E[e].paidBy = u}

ShareOf(S, e, u) == IF u \in DOMAIN S[e] THEN S[e][u] ELSE 0

TotalPaid(E, u) == SumFunction([e \in RowsPaidBy(E, u) |-> E[e].amount])

\* No statement in use sets is_settled, so every split is unsettled.
TotalOwed(E, S, u) == SumFunction([e \in Rows(E) |-> ShareOf(S, e, u)])

PaymentsMade(C, u)     == SumFunction(C[u])
PaymentsReceived(C, u) == SumFunction([v \in User |-> C[v][u]])

\* Variant that adds what was received instead of subtracting it.
NetBalanceSign(E, S, C, u) ==
  TotalPaid(E, u) - TotalOwed(E, S, u)
    + PaymentsMade(C, u) + PaymentsReceived(C, u)

\* net_balance of GetUserBalances
NetBalance(E, S, C, u) ==
  TotalPaid(E, u) - TotalOwed(E, S, u)
    + PaymentsMade(C, u) - PaymentsReceived(C, u)

\* What the splits of the expenses v paid sum to for u.
SplitsOwed(E, S, u, v) ==
  SumFunction([e \in RowsPaidBy(E, v) |-> ShareOf(S, e, u)])

\* Variant that also drops debts of two cents.
RawDebtCutoff(E, S, u, v) ==
  IF u # v /\ SplitsOwed(E, S, u, v) > 2 THEN SplitsOwed(E, S, u, v) ELSE 0

\* GetRawDebts, HAVING SUM(es.amount) > 0.01: a debt of one cent is dropped.
\* Payments do not appear in it.
RawDebt(E, S, u, v) ==
  IF u # v /\ SplitsOwed(E, S, u, v) > 1 THEN SplitsOwed(E, S, u, v) ELSE 0

\* The cumulative balance of the last entry of GetBalanceHistory without date
\* filters: what u paid, the shares of u in what others paid, and the
\* confirmed payments, each with the sign the query gives it.
HistoryBalance(E, S, C, u) ==
  TotalPaid(E, u)
    - SumFunction([v \in User \ {u} |-> SplitsOwed(E, S, u, v)])
    - PaymentsMade(C, u) + PaymentsReceived(C, u)

=============================================================================
