----------------------------- MODULE MCPayments -----------------------------
(***************************************************************************)
(* Payments on a small instance: two members who pay each other, two       *)
(* payments, and three calls in flight, enough for a Confirm, a Reject and *)
(* a Cancel of one payment to overlap.                                     *)
(***************************************************************************)
EXTENDS Payments, TLC

CONSTANTS ana, bob, pay1, pay2, c1, c2, c3

MCUser      == {ana, bob}
MCPaymentId == {pay1, pay2}
MCCall      == {c1, c2, c3}

\* Neither the ids nor the slots are told apart by any definition.
MCSymmetry == Permutations(MCCall) \cup Permutations(MCPaymentId)

=============================================================================
