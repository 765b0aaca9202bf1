----------------------------- MODULE MCDecisions -----------------------------
(***************************************************************************)
(* Decisions with the creator and one more voter, two handler calls at     *)
(* once, and options that can be put in another order and replaced.        *)
(***************************************************************************)
EXTENDS Decisions, TLC

CONSTANTS ana, bob, c1, c2, cinema, picnic, museum

MCUser       == {ana, bob}
MCCall       == {c1, c2}
MCOption     == {cinema, picnic, museum}
MCOptionList == {<<cinema, picnic>>, <<picnic, museum>>}
MCDeadline   == {0}
MCSymmetry   == Permutations(MCCall)

=============================================================================
