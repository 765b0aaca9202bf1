--------------------------- MODULE MCBalanceCache ---------------------------
(***************************************************************************)
(* BalanceCache with two readers and two expense handlers: two fills can   *)
(* overlap two commits and their invalidations.  TTL and MaxQuery are one  *)
(* tick or more, so that an entry can be fresh, in its last tick, and      *)
(* expired.                                                                *)
(***************************************************************************)
EXTENDS BalanceCache

CONSTANTS r1, r2, w1, w2

MCReader == {r1, r2}
MCWriter == {w1, w2}

=============================================================================
