------------------------------- MODULE MCEnds -------------------------------
(***************************************************************************)
(* Work that has to come to an end: the simplification of debts, searches  *)
(* for events in their slots, and calls on the connections of the pool.    *)
(* None reads a variable of another, so the run explores them one at a     *)
(* time: the variable part, chosen at the start, says which of them moves. *)
(***************************************************************************)
EXTENDS MinCashFlow, Discovery, ConnPool

VARIABLE part

\* Ties, debts of one cent, balances that cancel and balances that do not
\* (somebody has left the colocation).
MCInputs == [1..N -> -4..4]

EndsInit ==
  /\ part \in {"simplification", "discovery", "pool"}
  /\ Init
  /\ part # "simplification" => \A i \in Person : netBalances[i] = 0
  /\ DiscoveryInit
  /\ PoolInit

SimplificationMoves ==
  /\ part = "simplification"
  /\ Next
  /\ UNCHANGED <<discoveryVars, poolVars>>

DiscoveryMoves ==
  /\ part = "discovery"
  /\ DiscoveryNext
  /\ UNCHANGED <<vars, poolVars>>

PoolMoves ==
  /\ part = "pool"
  /\ PoolNext
  /\ UNCHANGED <<vars, discoveryVars>>

EndsNext ==
  /\ UNCHANGED part
  /\ SimplificationMoves \/ DiscoveryMoves \/ PoolMoves

\* The recursion runs in one goroutine and calls nothing that can block.  An
\* idle pool has no step that its fairness asks for, so PoolFairness holds by
\* itself when the pool is not the part that moves.
EndsSpec ==
  /\ EndsInit
  /\ [][EndsNext]_<<part, vars, discoveryVars, poolVars>>
  /\ WF_vars(part = "simplification" /\ Next)
  /\ PoolFairness

\* The recursion ends for every input, balanced or not (minCashFlowRecursive).
RecursionEnds == part = "simplification" ~> done

=============================================================================
