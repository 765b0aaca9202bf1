---------------------------- MODULE BalanceCache ----------------------------
(***************************************************************************)
(* The in-memory cache of a colocation's balances: GetBalances fills it,   *)
(* the expense handlers invalidate it after they commit, and its entries   *)
(* expire.  Confirmed payments and changes of membership change the        *)
(* balances too, but their services have no access to the cache.           *)
(*                                                                         *)
(* The database is the sequence of commits that changed the balances; what *)
(* a query returns is how many of them it saw.  Time is counted in ticks:  *)
(* an entry and a commit know how many ticks ago they were made.  Entries  *)
(* of different colocations are different keys of the map, so one          *)
(* colocation is modelled.                                                 *)
(***************************************************************************)
EXTENDS Integers, Sequences

CONSTANTS
  Reader,      \* executions of GetBalances
  Writer,      \* executions of the expense handlers
  TTL,         \* ticks an entry may be served for
  MaxQuery,    \* ticks a balance query and the Set after it may take
  MaxCommits,  \* bound on the commits of a behaviour
  None         \* no entry in the map

ASSUME TTLAssumption == TTL \in Nat
ASSUME MaxQueryAssumption == MaxQuery \in Nat
ASSUME MaxCommitsAssumption == MaxCommits \in Nat

VARIABLES
  log,     \* the commits so far, oldest first
  cache,   \* the entry of the colocation, or None
  reader,  \* the local state of every GetBalances
  writer   \* the local state of every expense handler

vars == <<log, cache, reader, writer>>

-----------------------------------------------------------------------------
(* Data *)

AgeCap == MaxQuery + TTL + 1  \* ages beyond this need not be told apart

\* done: the handler that committed has invalidated the cache.
Commit == [by : {"expense", "other"}, done : BOOLEAN, age : 0..AgeCap]

\* balances: the number of commits they account for.  raced is a history
\* variable: an invalidation ran while the balances were on their way here.
Entry == [balances : Nat, elapsed : 0..TTL + 1, raced : BOOLEAN]

ReaderState == [at : {"idle", "query", "set", "debts"}, balances : Nat,
                slow : 0..MaxQuery, raced : BOOLEAN]
IdleReader  == [at |-> "idle", balances |-> 0, slow |-> 0, raced |-> FALSE]

\* k: the position in the log of what the handler has committed.
WriterState == [at : {"idle", "commit", "invalidate"}, k : Nat]
IdleWriter  == [at |-> "idle", k |-> 0]

Older(n, cap) == IF n < cap THEN n + 1 ELSE n

-----------------------------------------------------------------------------
(* cache.BalanceCache *)

\* Variant that serves an entry for one tick too many.
ServableTooLong == cache # None /\ cache.elapsed <= TTL + 1

\* Get finds an entry, and now is not after its expiresAt.
Servable == cache # None /\ cache.elapsed <= TTL

Set(n, raced) ==
  cache' = [balances |-> n, elapsed |-> 0, raced |-> raced]

\* delete(c.data, colocationID); balances already read by a GetBalances that
\* has still to call Set are out of its reach.
Invalidate ==
  /\ cache' = None
  /\ reader' = [r \in Reader |->
                  [reader[r] EXCEPT !.raced = @ \/ reader[r].at = "set"]]

-----------------------------------------------------------------------------
(* BalanceService.GetBalances *)

\* Variant in which every hit renews the lifetime of the entry.
GetBalancesSliding(r) ==
  /\ reader[r].at = "idle"
  /\ reader' = [reader EXCEPT
       ![r] = IF Servable
              THEN [IdleReader EXCEPT !.at = "debts",
                                      !.balances = cache.balances]
              ELSE [IdleReader EXCEPT !.at = "query"]]
  /\ cache' = IF Servable THEN [cache EXCEPT !.elapsed = 0] ELSE cache
  /\ UNCHANGED <<log, writer>>

\* Cache.Get: a hit goes straight to the raw debts, a miss to the database.
GetBalances(r) ==
  /\ reader[r].at = "idle"
  /\ reader' = [reader EXCEPT
       ![r] = IF Servable
              THEN [IdleReader EXCEPT !.at = "debts",
                                      !.balances = cache.balances]
              ELSE [IdleReader EXCEPT !.at = "query"]]
  /\ UNCHANGED <<log, cache, writer>>

\* One SQL statement: all the balances are those of one snapshot.
GetUserBalances(r) ==
  /\ reader[r].at = "query"
  /\ reader' = [reader EXCEPT ![r] = [IdleReader EXCEPT !.at = "set",
                                        !.balances = Len(log)]]
  /\ UNCHANGED <<log, cache, writer>>

SetCache(r) ==
  /\ reader[r].at = "set"
  /\ Set(reader[r].balances, reader[r].raced)
  /\ reader' = [reader EXCEPT ![r] = [IdleReader EXCEPT !.at = "debts",
                                        !.balances = reader[r].balances]]
  /\ UNCHANGED <<log, writer>>

\* GetRawDebts, never cached, then the answer.
GetRawDebts(r) ==
  /\ reader[r].at = "debts"
  /\ reader' = [reader EXCEPT ![r] = IdleReader]
  /\ UNCHANGED <<log, cache, writer>>

\* A query fails or the context of the call is cancelled.  Set cannot fail.
AbandonRead(r) ==
  /\ reader[r].at \in {"query", "debts"}
  /\ reader' = [reader EXCEPT ![r] = IdleReader]
  /\ UNCHANGED <<log, cache, writer>>

-----------------------------------------------------------------------------
(* Writers *)

AppendCommit(by) ==
  log' = Append(log, [by |-> by, done |-> FALSE, age |-> 0])

\* ExpenseService.Create, Update or Delete reaches its statement.
BeginExpense(w) ==
  /\ writer[w].at = "idle"
  /\ Len(log) < MaxCommits
  /\ writer' = [writer EXCEPT ![w] = [at |-> "commit", k |-> 0]]
  /\ UNCHANGED <<log, cache, reader>>

CommitExpense(w) ==
  /\ writer[w].at = "commit"
  /\ Len(log) < MaxCommits
  /\ AppendCommit("expense")
  /\ writer' = [writer EXCEPT ![w] = [at |-> "invalidate",
                                      k |-> Len(log) + 1]]
  /\ UNCHANGED <<cache, reader>>

\* The statement fails, or it is the answer of the database that is lost:
\* the handler returns the error before it reaches Invalidate.
FailExpense(w) ==
  /\ writer[w].at = "commit"
  /\ \/ UNCHANGED log
     \/ /\ Len(log) < MaxCommits
        /\ AppendCommit("expense")
  /\ writer' = [writer EXCEPT ![w] = IdleWriter]
  /\ UNCHANGED <<cache, reader>>

\* Variant in which the handler returns without invalidating.
ForgetInvalidate(w) ==
  /\ writer[w].at = "invalidate"
  /\ log' = [log EXCEPT ![writer[w].k].done = TRUE]
  /\ writer' = [writer EXCEPT ![w] = IdleWriter]
  /\ UNCHANGED <<cache, reader>>

InvalidateAfter(w) ==
  /\ writer[w].at = "invalidate"
  /\ Invalidate
  /\ log' = [log EXCEPT ![writer[w].k].done = TRUE]
  /\ writer' = [writer EXCEPT ![w] = IdleWriter]

\* PaymentService.Confirm or Reject, ColocationService.Join, Leave or
\* RemoveMember: the balances change and the cache is not told.
CommitOther ==
  /\ Len(log) < MaxCommits
  /\ AppendCommit("other")
  /\ UNCHANGED <<cache, reader, writer>>

-----------------------------------------------------------------------------
(* Time, and the process *)

\* A fill that has used up its time completes before the next tick.
Tick ==
  /\ \A r \in Reader : reader[r].at = "set" => reader[r].slow < MaxQuery
  /\ log' = [i \in DOMAIN log |-> [log[i] EXCEPT !.age = Older(@, AgeCap)]]
  /\ cache' = IF cache = None THEN None
              ELSE [cache EXCEPT !.elapsed = Older(@, TTL + 1)]
  /\ reader' = [r \in Reader |->
                  IF reader[r].at = "set"
                  THEN [reader[r] EXCEPT !.slow = @ + 1] ELSE reader[r]]
  /\ UNCHANGED writer

Restart ==
  /\ cache' = None
  /\ reader' = [r \in Reader |-> IdleReader]
  /\ writer' = [w \in Writer |-> IdleWriter]
  /\ UNCHANGED log

-----------------------------------------------------------------------------

Init ==
  /\ log = <<>>
  /\ cache = None
  /\ reader = [r \in Reader |-> IdleReader]
  /\ writer = [w \in Writer |-> IdleWriter]

Read(r) == GetUserBalances(r) \/ SetCache(r) \/ GetRawDebts(r)

Write(w) == CommitExpense(w) \/ FailExpense(w) \/ InvalidateAfter(w)

Next ==
  \/ \E r \in Reader : GetBalances(r) \/ Read(r) \/ AbandonRead(r)
  \/ \E w \in Writer : BeginExpense(w) \/ Write(w)
  \/ CommitOther
  \/ Tick
  \/ Restart

\* A goroutine that can run does run and a query is answered or fails; time
\* passes.  Nothing is assumed of the clients: no new call has to be made.
Fairness ==
  /\ \A r \in Reader : WF_vars(Read(r))
  /\ \A w \in Writer : WF_vars(Write(w))
  /\ WF_vars(Tick)

Spec     == Init /\ [][Next]_vars
FairSpec == Spec /\ Fairness

-----------------------------------------------------------------------------
(* Properties *)

\* The variables have the types of the structs they stand for.
TypeOK ==
  /\ log \in Seq(Commit)
  /\ cache \in Entry \cup {None}
  /\ reader \in [Reader -> ReaderState]
  /\ writer \in [Writer -> WriterState]

\* What an entry of the cache does not account for.
Missing == {k \in DOMAIN log : k > cache.balances}

\* However fills, invalidations and lost answers interleave, balances served
\* from the cache lack no commit older than the lifetime of an entry plus the
\* time its query and Set took: the TTL bounds the error of every path that
\* does not invalidate, or invalidates too early.
BoundedStaleness ==
  Servable => \A k \in Missing : log[k].age <= TTL + MaxQuery

\* Invalidating works for every entry but those whose fill was under way: if
\* no invalidation overtook the fill, a cached entry accounts for every
\* expense operation that has returned.
InvalidationEffective ==
  cache # None /\ ~cache.raced =>
    \A k \in Missing : ~(log[k].by = "expense" /\ log[k].done)

\* When the balances stop changing, the cache stops serving old ones, and
\* for good: no fill or hit keeps an outdated entry alive for ever.
EventuallyFresh ==
  (Len(log) = MaxCommits)
    ~> [](Servable => cache.balances = MaxCommits)

\* What the README promises, "invalidation automatique sur chaque operation
\* de depense": balances served from the cache account for every expense
\* operation that has returned to its caller.
ExpenseVisible ==
  Servable =>
    \A k \in Missing : ~(log[k].by = "expense" /\ log[k].done)

=============================================================================
