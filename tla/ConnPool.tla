------------------------------- MODULE ConnPool -------------------------------
(***************************************************************************)
(* The connection pool shared by all repositories.  A statement or a       *)
(* transaction holds one connection.  The listings of expenses, recurring  *)
(* expenses, funds and decisions run one more query for each row while the *)
(* rows hold their connection, and so need a second one.                   *)
(*                                                                         *)
(* The pool is that of pgxpool, modelled from its use: Acquire waits until *)
(* a connection is free or the context of the call ends, first come first  *)
(* served.                                                                 *)
(***************************************************************************)
EXTENDS Integers, FiniteSets

CONSTANTS
  DbCall,    \* handlers that use the database
  Listing,   \* those that list with a query per row
  MaxConns,  \* the size of the pool
  MaxRows    \* bound on the rows of a listing

ASSUME ListingAssumption == IsFiniteSet(DbCall) /\ Listing \subseteq DbCall
ASSUME ConnsAssumption == MaxConns \in Nat \ {0} /\ MaxRows \in Nat

VARIABLES
  free,  \* number of free connections
  use,   \* what every handler waits for or holds
  rows   \* rows of its result that a listing has still to visit

poolVars == <<free, use, rows>>

-----------------------------------------------------------------------------
(* Data *)

\* "first": waits for a connection.  "one": holds one.
\* "second": holds one and waits for another.  "two": holds two.
Uses == {"idle", "first", "one", "second", "two"}

At(step) == {c \in DbCall : use[c] = step}

Becomes(c, step) == use' = [use EXCEPT ![c] = step]

-----------------------------------------------------------------------------
(* Query, QueryRow, Exec, Begin *)

BeginStatement(c) ==
  /\ use[c] = "idle"
  /\ Becomes(c, "first")
  /\ UNCHANGED <<free, rows>>

AcquireFirst(c) ==
  /\ use[c] = "first"
  /\ free > 0
  /\ free' = free - 1
  /\ Becomes(c, "one")
  /\ \E n \in IF c \in Listing THEN 0..MaxRows ELSE {0} :
       rows' = [rows EXCEPT ![c] = n]

\* rows.Next, Scan, and the call of the query for this row
NextRow(c) ==
  /\ use[c] = "one"
  /\ rows[c] > 0
  /\ rows' = [rows EXCEPT ![c] = @ - 1]
  /\ Becomes(c, "second")
  /\ UNCHANGED free

AcquireSecond(c) ==
  /\ use[c] = "second"
  /\ free > 0
  /\ free' = free - 1
  /\ Becomes(c, "two")
  /\ UNCHANGED rows

\* Variant in which the rows of the inner query are not closed.
InnerQueryLeaks(c) ==
  /\ use[c] = "two"
  /\ Becomes(c, "one")
  /\ UNCHANGED <<free, rows>>

InnerQueryEnds(c) ==
  /\ use[c] = "two"
  /\ free' = free + 1
  /\ Becomes(c, "one")
  /\ UNCHANGED rows

\* Variant that asks for the shares of a row again until it gets them.
InnerQueryRetries(c) ==
  /\ use[c] = "two"
  /\ free' = free + 1
  /\ Becomes(c, "second")
  /\ UNCHANGED rows

\* The inner query fails: both sets of rows are closed.
InnerQueryFails(c) ==
  /\ use[c] = "two"
  /\ free' = free + 2
  /\ Becomes(c, "idle")
  /\ rows' = [rows EXCEPT ![c] = 0]

StatementEnds(c) ==
  /\ use[c] = "one"
  /\ rows[c] = 0
  /\ free' = free + 1
  /\ Becomes(c, "idle")
  /\ UNCHANGED rows

\* The client of a waiting call goes away: Acquire returns the error of the
\* context, and the deferred Close gives back what the call holds.
GiveUp(c) ==
  /\ use[c] \in {"first", "second"}
  /\ free' = IF use[c] = "second" THEN free + 1 ELSE free
  /\ Becomes(c, "idle")
  /\ rows' = [rows EXCEPT ![c] = 0]

-----------------------------------------------------------------------------
PoolInit ==
  /\ free = MaxConns
  /\ use = [c \in DbCall |-> "idle"]
  /\ rows = [c \in DbCall |-> 0]

Acquire(c) == AcquireFirst(c) \/ AcquireSecond(c)

Work(c) ==
  NextRow(c) \/ InnerQueryEnds(c) \/ InnerQueryFails(c) \/ StatementEnds(c)

PoolNext ==
  \E c \in DbCall : BeginStatement(c) \/ Acquire(c) \/ Work(c) \/ GiveUp(c)

\* Queries end, and the pool serves those that wait in turn.  Nothing makes a
\* client give up, and the handlers set no time limit.
PoolFairness == \A c \in DbCall : WF_poolVars(Work(c)) /\ SF_poolVars(Acquire(c))

PoolSpec == PoolInit /\ [][PoolNext]_poolVars /\ PoolFairness

-----------------------------------------------------------------------------
(* Properties *)

PoolTypeOK ==
  /\ free \in 0..MaxConns
  /\ use \in [DbCall -> Uses]
  /\ rows \in [DbCall -> 0..MaxRows]

\* Nobody holds what it needs and nothing is free.
Standstill == free = 0 /\ At("one") = {} /\ At("two") = {}

\* Only listings stop the pool: at a standstill every connection is held by a
\* listing that waits for a second one, so there are as many listings at work
\* as connections.  Handlers that need one connection never add to it.
StandstillIsListings ==
  Standstill => /\ At("second") \subseteq Listing
                /\ Cardinality(At("second")) = MaxConns

\* As long as there is no standstill for good, every call gets its connections
\* and ends.
CallsEnd ==
  ~<>[]Standstill => \A c \in DbCall : use[c] # "idle" ~> use[c] = "idle"

=============================================================================
