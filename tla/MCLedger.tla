------------------------------ MODULE MCLedger ------------------------------
(***************************************************************************)
(* Ledger with three users, one of whom leaves and comes back, two         *)
(* expenses and two calls at once.  Requests are in half cents, and halves *)
(* of a hundredth of a point; they take one of each kind of split.         *)
(* The amount and the shares are rounded both ways, 3 times 33.33 percent  *)
(* of 300.00 and 3 times 1.5 of 4 cents are accepted.  One asks for a      *)
(* split below zero and one for more than 100 percent, which only the      *)
(* table refuses.                                                          *)
(***************************************************************************)
EXTENDS Ledger, TLC

CONSTANTS ana, bob, cleo, e1, e2, c1, c2

MCUser      == {ana, bob, cleo}
MCMovers    == {cleo}
MCCaller     == {ana}
MCDesignated == {cleo}
MCPaying    == {<<bob, ana>>}
MCExpenseId == {e1, e2}
MCCall      == {c1, c2}

MCNewExpense ==
  { [amount |-> 7, type |-> "equal", input |-> NoShares],
    [amount |-> 6, type |-> "payer_only", input |-> NoShares] }

MCChange ==
  { [amount |-> None, type |-> None, input |-> NoShares],
    [amount |-> 60000, type |-> "percentage",
     input |-> [u \in MCUser |-> 6666]],
    [amount |-> 8, type |-> "custom", input |-> [u \in MCUser |-> 3]],
    [amount |-> 8, type |-> "custom", input |-> (bob :> 10) @@ (cleo :> -2)],
    [amount |-> 8, type |-> "custom", input |-> (bob :> 9)],
    [amount |-> None, type |-> "payer_only", input |-> NoShares] }

MCSymmetry == Permutations(MCCall) \cup Permutations(MCExpenseId)

=============================================================================
