---------------------------- MODULE MinCashFlow -----------------------------
(***************************************************************************)
(* The algorithm behind GetSimplifiedDebts: from the net balances of the   *)
(* members (positive for a creditor, in cents) it proposes transfers, each *)
(* from the largest debtor to the largest creditor.  One recursive call is *)
(* one step.                                                               *)
(*                                                                         *)
(* The code computes with float64.  Transfers are rounded to the cent, so  *)
(* the running balances stay within a hair of whole cents, and the model   *)
(* keeps the cents.  The hair shows in two places.  A scan for the maximum *)
(* may see a difference between equal balances, so any of them may be      *)
(* chosen.  And a balance of one cent may lie just below the threshold of  *)
(* 0.01, so that the recursion stops with it, or not (0.03 - 0.02 does).   *)
(***************************************************************************)
EXTENDS Integers, Sequences, FiniteSets, Functions

CONSTANTS
  N,        \* number of members
  Inputs    \* the vectors of net balances to settle

ASSUME NAssumption == N \in Nat \ {0}

Person == 1..N

ASSUME InputsAssumption == Inputs \subseteq [Person -> Int]

VARIABLES
  netBalances,  \* the argument, never modified
  balances,     \* the copy that is brought to zero
  result,       \* the transfers so far
  done          \* the recursion has returned

vars == <<netBalances, balances, result, done>>

DebtEdge == [from : Person, to : Person, amount : Nat \ {0}]

-----------------------------------------------------------------------------
(* One level of the recursion *)

\* findMaxIndex and findMinIndex
MaxIndices(b) == {i \in Person : \A j \in Person : b[j] <= b[i]}
MinIndices(b) == {i \in Person : \A j \in Person : b[j] >= b[i]}

Lesser(m, n) == IF m <= n THEN m ELSE n

\* Variant that settles the larger of the two amounts.
TransferLarger(credit, debit) == IF -debit <= credit THEN credit ELSE -debit

\* Variant that settles half of what could be settled.
TransferHalf(credit, debit) == (Lesser(-debit, credit) + 1) \div 2

Transfer(credit, debit) == Lesser(-debit, credit)

\* The first return: both extremes are below the threshold, or seem so.
SeemZero(credit, debit) == credit \in -1..1 /\ debit \in -1..1

\* Variant without the second return.
NothingToTransferNever(credit, debit) == credit = 0 /\ debit = 0

\* The second return: the transfer would be below the threshold.  With both
\* extremes zero it is.
NothingToTransfer(credit, debit) == Transfer(credit, debit) < 1

\* Variant that forgets to credit the debtor.
SettleOneSide(creditor, debtor, amount) ==
  balances' = [balances EXCEPT ![creditor] = @ - amount]

Settle(creditor, debtor, amount) ==
  balances' = [balances EXCEPT ![creditor] = @ - amount,
                               ![debtor]   = @ + amount]

Recurse ==
  /\ ~done
  /\ N > 1
  /\ \E c \in MaxIndices(balances), d \in MinIndices(balances) :
       LET amount == Transfer(balances[c], balances[d])
       IN /\ ~NothingToTransfer(balances[c], balances[d])
          /\ Settle(c, d, amount)
          /\ result' = Append(result, [from |-> d, to |-> c,
                                       amount |-> amount])
  /\ UNCHANGED <<netBalances, done>>

\* Variant that returns only when everything seems settled.
StopAtZero ==
  /\ ~done
  /\ \E c \in MaxIndices(balances), d \in MinIndices(balances) :
       SeemZero(balances[c], balances[d])
  /\ done' = TRUE
  /\ UNCHANGED <<netBalances, balances, result>>

Stop ==
  /\ ~done
  /\ \/ N = 1
     \/ \E c \in MaxIndices(balances), d \in MinIndices(balances) :
          \/ SeemZero(balances[c], balances[d])
          \/ NothingToTransfer(balances[c], balances[d])
  /\ done' = TRUE
  /\ UNCHANGED <<netBalances, balances, result>>

-----------------------------------------------------------------------------

Init ==
  /\ netBalances \in Inputs
  /\ balances = netBalances
  /\ result = <<>>
  /\ done = FALSE

Next == Recurse \/ Stop

Spec == Init /\ [][Next]_vars

-----------------------------------------------------------------------------
(* Properties *)

\* The locals have their types; in particular every transfer is of at least
\* one cent.
TypeOK ==
  /\ netBalances \in [Person -> Int]
  /\ balances \in [Person -> Int]
  /\ result \in Seq(DebtEdge)
  /\ done \in BOOLEAN

Total(b) == SumFunction(b)

Moved(edges) == SumFunction([k \in edges |-> result[k].amount])
PaidBy(i)    == Moved({k \in DOMAIN result : result[k].from = i})
PaidTo(i)    == Moved({k \in DOMAIN result : result[k].to = i})

\* When the algorithm returns, carrying out the proposed transfers leaves no
\* two members one of whom still owes the other more than a cent, and when
\* the balances cancel out, nobody with more than a cent at all.
Settles ==
  done =>
    LET left(i) == netBalances[i] + PaidBy(i) - PaidTo(i)
    IN /\ \/ N = 1
          \/ \A i \in Person : left(i) <= 1
          \/ \A i \in Person : left(i) >= -1
       /\ Total(netBalances) = 0 =>
            \A i \in Person : left(i) \in -1..1

\* Every transfer settles one member for good, so N members never need more
\* than N - 1 transfers, whatever the ties and the order of settlement.
FewTransfers == Len(result) <= N - 1

\* Simplifying never turns a debtor into a creditor on the way: who owes
\* only pays, and at most what he owed; who is owed only receives, and at
\* most what he was owed.
NobodyOvershoots ==
  \A i \in Person :
    /\ PaidBy(i) > 0 => PaidTo(i) = 0 /\ PaidBy(i) <= -netBalances[i]
    /\ PaidTo(i) > 0 => PaidBy(i) = 0 /\ PaidTo(i) <= netBalances[i]

=============================================================================
