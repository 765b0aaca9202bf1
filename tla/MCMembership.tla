---------------------------- MODULE MCMembership ----------------------------
(***************************************************************************)
(* Membership with three users, so that two administrators can leave one   *)
(* member behind, and three calls at once.                                 *)
(***************************************************************************)
EXTENDS Membership, TLC

CONSTANTS ana, bob, eve, c1, c2, c3

MCUser     == {ana, bob, eve}
MCCall     == {c1, c2, c3}
MCSymmetry == Permutations(MCUser) \cup Permutations(MCCall)

=============================================================================
