------------------------- MODULE BalanceCacheProofs -------------------------
(***************************************************************************)
(* Proofs about BalanceCache, for any number of readers and writers, any   *)
(* number of commits, and any lifetime.                                    *)
(*                                                                         *)
(* The properties speak of the entry in the cache.  Where it comes from is *)
(* in the hands of the readers, so the inductive invariant says the same   *)
(* of the balances a reader carries from its query to Set: they account    *)
(* for what has returned unless an invalidation overtook them              *)
(* (FillAccounts), and lack no commit older than the reader has been slow  *)
(* (FillIsYoung).                                                          *)
(***************************************************************************)
EXTENDS BalanceCache, SequenceTheorems, TLAPS

\* Balances that account for n commits lack no expense that has returned.
LacksNoneReturned(n) ==
  \A k \in 1..Len(log) : k > n => ~(log[k].by = "expense" /\ log[k].done)

\* Balances that account for n commits lack none older than a ticks.
LacksNoneOlder(n, a) == \A k \in 1..Len(log) : k > n => log[k].age <= a

WriterHasCommit ==
  \A w \in Writer : writer[w].at = "invalidate" => writer[w].k \in 1..Len(log)

FillAccounts ==
  \A r \in Reader : reader[r].at = "set" /\ ~reader[r].raced
                      => LacksNoneReturned(reader[r].balances)

FillIsYoung ==
  \A r \in Reader : reader[r].at = "set"
                      => LacksNoneOlder(reader[r].balances, reader[r].slow)

EntryAccounts ==
  cache # None /\ ~cache.raced => LacksNoneReturned(cache.balances)

EntryIsYoung ==
  cache # None /\ cache.elapsed <= TTL
    => LacksNoneOlder(cache.balances, cache.elapsed + MaxQuery)

IInv == /\ TypeOK
        /\ WriterHasCommit
        /\ FillAccounts
        /\ FillIsYoung
        /\ EntryAccounts
        /\ EntryIsYoung

-----------------------------------------------------------------------------
(* How a step can change the log *)

\* The log is a function on the positions up to its length.
LEMMA LogElements ==
  ASSUME log \in Seq(Commit)
  PROVE  /\ Len(log) \in Nat
         /\ DOMAIN log = 1..Len(log)
         /\ \A k \in 1..Len(log) : log[k] \in Commit
BY LenProperties, ElementOfSeq

\* A commit is added at the end, not yet invalidated and of age zero.
LEMMA LogAppended ==
  ASSUME log \in Seq(Commit), NEW by \in {"expense", "other"},
         AppendCommit(by)
  PROVE  /\ log' \in Seq(Commit)
         /\ Len(log') = Len(log) + 1
         /\ \A k \in 1..Len(log) : log'[k] = log[k]
         /\ log'[Len(log) + 1] = [by |-> by, done |-> FALSE, age |-> 0]
<1> DEFINE new == [by |-> by, done |-> FALSE, age |-> 0]
<1>1. new \in Commit
  BY TTLAssumption, MaxQueryAssumption DEF Commit, AgeCap
<1>2. log' = Append(log, new)
  BY DEF AppendCommit
<1> HIDE DEF new
<1>3. log' \in Seq(Commit) /\ Len(log') = Len(log) + 1
        /\ (\A k \in 1..Len(log) : log'[k] = log[k])
        /\ log'[Len(log) + 1] = new
  BY <1>1, <1>2, AppendProperties
<1> QED  BY <1>3 DEF new

\* Adding a commit takes nothing from what balances account for.
LEMMA AppendKeeps ==
  ASSUME log \in Seq(Commit), NEW by \in {"expense", "other"},
         AppendCommit(by), NEW n \in Nat, NEW a \in Nat
  PROVE  /\ LacksNoneReturned(n) => LacksNoneReturned(n)'
         /\ LacksNoneOlder(n, a) => LacksNoneOlder(n, a)'
<1>1. Len(log) \in Nat
  BY LogElements
<1>2. \A k \in 1..Len(log') : k \in 1..Len(log) \/ k = Len(log) + 1
  BY <1>1, LogAppended
<1>3. LacksNoneReturned(n) => LacksNoneReturned(n)'
  BY <1>2, LogAppended DEF LacksNoneReturned
<1>4. LacksNoneOlder(n, a) => LacksNoneOlder(n, a)'
  BY <1>2, LogAppended DEF LacksNoneOlder
<1> QED  BY <1>3, <1>4

\* Marking a commit as invalidated changes nothing else in the log.
LEMMA LogMarked ==
  ASSUME log \in Seq(Commit), NEW i \in 1..Len(log),
         log' = [log EXCEPT ![i].done = TRUE]
  PROVE  /\ log' \in Seq(Commit)
         /\ Len(log') = Len(log)
         /\ \A k \in 1..Len(log) : log'[k].age = log[k].age
<1> DEFINE new == [log[i] EXCEPT !.done = TRUE]
<1>1. new \in Commit /\ new.age = log[i].age
  BY LogElements DEF Commit
<1>2. log' = [log EXCEPT ![i] = new]
  OBVIOUS
<1> HIDE DEF new
<1> DEFINE marked == [log EXCEPT ![i] = new]
<1>3. new \in Commit
  BY <1>1
<1>4. marked \in Seq(Commit) /\ Len(marked) = Len(log)
        /\ \A k \in 1..Len(log) : marked[k] = IF k = i THEN new ELSE log[k]
  BY ONLY <1>3, log \in Seq(Commit), i \in 1..Len(log), ExceptSeq
<1>5. log' = marked
  BY <1>2
<1> HIDE DEF marked
<1> QED  BY <1>1, <1>4, <1>5

\* A tick makes every commit at most one tick older.
LEMMA LogAged ==
  ASSUME log \in Seq(Commit),
         log' = [i \in DOMAIN log |-> [log[i] EXCEPT !.age = Older(@, AgeCap)]]
  PROVE  /\ log' \in Seq(Commit)
         /\ Len(log') = Len(log)
         /\ \A k \in 1..Len(log) : /\ log'[k].by = log[k].by
                                   /\ log'[k].done = log[k].done
                                   /\ log'[k].age <= log[k].age + 1
<1> DEFINE aged(k) == [log[k] EXCEPT !.age = Older(@, AgeCap)]
<1>1. Len(log) \in Nat /\ DOMAIN log = 1..Len(log)
        /\ \A k \in 1..Len(log) : log[k] \in Commit
  BY LogElements
<1>2. ASSUME NEW k \in 1..Len(log)
      PROVE  /\ aged(k) \in Commit
             /\ aged(k).by = log[k].by
             /\ aged(k).done = log[k].done
             /\ aged(k).age <= log[k].age + 1
  <2>1. log[k] \in Commit /\ AgeCap \in Nat
    BY <1>1, TTLAssumption, MaxQueryAssumption DEF AgeCap
  <2>2. Older(log[k].age, AgeCap) \in 0..AgeCap
          /\ Older(log[k].age, AgeCap) <= log[k].age + 1
    BY <2>1 DEF Commit, Older
  <2> QED  BY <2>1, <2>2 DEF Commit
<1>3. log' = [k \in 1..Len(log) |-> aged(k)]
  BY <1>1
<1> HIDE DEF aged
<1>4. log' \in Seq(Commit)
  BY <1>1, <1>2, <1>3, IsASeq
<1>5. Len(log') = Len(log)
  BY <1>1, <1>3, <1>4, LenProperties
<1> QED  BY <1>2, <1>3, <1>4, <1>5

-----------------------------------------------------------------------------
(* The inductive invariant *)

\* The initial state satisfies the inductive invariant.
LEMMA InitIInv == Init => IInv
BY MaxQueryAssumption
   DEF Init, IInv, TypeOK, WriterHasCommit, FillAccounts, FillIsYoung,
       EntryAccounts, EntryIsYoung, IdleReader, IdleWriter, ReaderState,
       WriterState

\* What the log says of balances stays when the log does.
LEMMA LogUnchanged ==
  ASSUME log' = log, NEW n, NEW a
  PROVE  /\ LacksNoneReturned(n) => LacksNoneReturned(n)'
         /\ LacksNoneOlder(n, a) => LacksNoneOlder(n, a)'
BY DEF LacksNoneReturned, LacksNoneOlder

\* A reader that goes to a step other than Set, and a log and an entry that
\* stay, keep the invariant.
LEMMA ReaderMoves ==
  ASSUME IInv, NEW r \in Reader, NEW s \in ReaderState, s.at # "set",
         reader' = [reader EXCEPT ![r] = s], UNCHANGED <<log, cache, writer>>
  PROVE  IInv'
<1>1. TypeOK'
  BY DEF IInv, TypeOK
<1>2. WriterHasCommit'
  BY DEF IInv, WriterHasCommit
<1>3. FillAccounts' /\ FillIsYoung'
  BY LogUnchanged DEF IInv, TypeOK, FillAccounts, FillIsYoung
<1>4. EntryAccounts' /\ EntryIsYoung'
  BY LogUnchanged DEF IInv, EntryAccounts, EntryIsYoung
<1> QED  BY <1>1, <1>2, <1>3, <1>4 DEF IInv

\* The local states the steps of a reader put it into.
LEMMA ReaderStates ==
  ASSUME NEW n \in Nat
  PROVE  /\ IdleReader \in ReaderState /\ IdleReader.at = "idle"
         /\ LET s == [IdleReader EXCEPT !.at = "query"]
            IN  s \in ReaderState /\ s.at = "query"
         /\ LET s == [IdleReader EXCEPT !.at = "debts", !.balances = n]
            IN  s \in ReaderState /\ s.at = "debts"
         /\ LET s == [IdleReader EXCEPT !.at = "set", !.balances = n]
            IN  /\ s \in ReaderState /\ s.at = "set" /\ s.balances = n
                /\ s.slow = 0 /\ ~s.raced
<1>1. 0 \in 0..MaxQuery
  BY MaxQueryAssumption
<1>2. IdleReader \in ReaderState /\ IdleReader.at = "idle"
  BY <1>1 DEF IdleReader, ReaderState
<1>3. IdleReader.slow = 0 /\ ~IdleReader.raced
  BY DEF IdleReader
<1>4. ASSUME NEW k \in ReaderState
      PROVE  LET s == [k EXCEPT !.at = "query"]
             IN  s \in ReaderState /\ s.at = "query"
  BY DEF ReaderState
<1>5. ASSUME NEW k \in ReaderState
      PROVE  LET s == [k EXCEPT !.at = "debts", !.balances = n]
             IN  s \in ReaderState /\ s.at = "debts"
  BY DEF ReaderState
<1>6. ASSUME NEW k \in ReaderState
      PROVE  LET s == [k EXCEPT !.at = "set", !.balances = n]
             IN  /\ s \in ReaderState /\ s.at = "set" /\ s.balances = n
                 /\ s.slow = k.slow /\ s.raced = k.raced
  BY DEF ReaderState
<1> QED  BY <1>2, <1>3, <1>4, <1>5, <1>6

\* GetBalances, a query, and the last step of a reader.
LEMMA ReaderStep ==
  ASSUME IInv, NEW r \in Reader,
         GetBalances(r) \/ GetUserBalances(r) \/ GetRawDebts(r)
           \/ AbandonRead(r)
  PROVE  IInv'
<1>1. CASE GetBalances(r)
  <2>1. CASE Servable
    <3>1. cache.balances \in Nat
      BY <2>1 DEF IInv, TypeOK, Servable, Entry
    <3> DEFINE s == [IdleReader EXCEPT !.at = "debts",
                                       !.balances = cache.balances]
    <3>2. s \in ReaderState /\ s.at # "set"
      BY <3>1, ReaderStates
    <3>3. reader' = [reader EXCEPT ![r] = s] /\ UNCHANGED <<log, cache, writer>>
      BY <1>1, <2>1 DEF GetBalances
    <3> HIDE DEF s
    <3> QED  BY <3>2, <3>3, ReaderMoves
  <2>2. CASE ~Servable
    <3> DEFINE s == [IdleReader EXCEPT !.at = "query"]
    <3>1. s \in ReaderState /\ s.at # "set"
      BY ReaderStates
    <3>2. reader' = [reader EXCEPT ![r] = s] /\ UNCHANGED <<log, cache, writer>>
      BY <1>1, <2>2 DEF GetBalances
    <3> HIDE DEF s
    <3> QED  BY <3>1, <3>2, ReaderMoves
  <2> QED  BY <2>1, <2>2
<1>2. CASE GetUserBalances(r)
  <2>1. log \in Seq(Commit) /\ Len(log) \in Nat
    BY LogElements DEF IInv, TypeOK
  <2> DEFINE s == [IdleReader EXCEPT !.at = "set", !.balances = Len(log)]
  <2>2. s \in ReaderState /\ s.at = "set" /\ s.balances = Len(log)
          /\ s.slow = 0 /\ ~s.raced
    BY <2>1, ReaderStates
  <2>3. reader' = [reader EXCEPT ![r] = s] /\ UNCHANGED <<log, cache, writer>>
    BY <1>2 DEF GetUserBalances
  <2> HIDE DEF s
  <2>4. TypeOK' /\ WriterHasCommit'
    BY <2>2, <2>3 DEF IInv, TypeOK, WriterHasCommit
  <2>5. LacksNoneReturned(Len(log))' /\ LacksNoneOlder(Len(log), 0)'
    BY <2>1, <2>3 DEF LacksNoneReturned, LacksNoneOlder
  <2>6. ASSUME NEW q \in Reader, reader'[q].at = "set"
        PROVE  /\ ~reader'[q].raced => LacksNoneReturned(reader[q].balances)'
               /\ LacksNoneOlder(reader[q].balances, reader[q].slow)'
    <3>1. CASE q = r
      <4>1. reader'[q] = s
        BY <2>3, <3>1 DEF IInv, TypeOK
      <4>2. Len(log)' = Len(log)
        BY <2>3
      <4> QED  BY <2>2, <2>5, <4>1, <4>2 DEF LacksNoneReturned, LacksNoneOlder
    <3>2. CASE q # r
      <4>1. reader'[q] = reader[q]
        BY <2>3, <3>2 DEF IInv, TypeOK
      <4> QED
        BY <2>3, <2>6, <4>1
        DEF IInv, FillAccounts, FillIsYoung, LacksNoneReturned, LacksNoneOlder
    <3> QED  BY <3>1, <3>2
  <2>7. FillAccounts' /\ FillIsYoung'
    BY <2>6 DEF FillAccounts, FillIsYoung
  <2>8. EntryAccounts' /\ EntryIsYoung'
    BY <2>3, LogUnchanged DEF IInv, EntryAccounts, EntryIsYoung
  <2> QED  BY <2>4, <2>7, <2>8 DEF IInv
<1>3. CASE GetRawDebts(r) \/ AbandonRead(r)
  <2>1. reader' = [reader EXCEPT ![r] = IdleReader]
          /\ UNCHANGED <<log, cache, writer>>
    BY <1>3 DEF GetRawDebts, AbandonRead
  <2>2. IdleReader \in ReaderState /\ IdleReader.at # "set"
    BY ReaderStates
  <2> QED  BY <2>1, <2>2, ReaderMoves
<1> QED  BY <1>1, <1>2, <1>3

\* A fill moves what the invariant says of the reader to the entry.
LEMMA SetStep == ASSUME IInv, NEW r \in Reader, SetCache(r) PROVE IInv'
<1>1. reader[r] \in ReaderState /\ reader[r].at = "set"
  BY DEF SetCache, IInv, TypeOK
<1> DEFINE entry == [balances |-> reader[r].balances, elapsed |-> 0,
                     raced |-> reader[r].raced]
           s == [IdleReader EXCEPT !.at = "debts",
                                   !.balances = reader[r].balances]
<1>2. s \in ReaderState /\ s.at # "set"
  BY <1>1, ReaderStates DEF ReaderState
<1>3. entry \in Entry /\ entry.balances = reader[r].balances
        /\ entry.elapsed = 0 /\ entry.raced = reader[r].raced
  BY <1>1, TTLAssumption DEF Entry, ReaderState
<1>4. cache' = entry /\ reader' = [reader EXCEPT ![r] = s]
        /\ UNCHANGED <<log, writer>>
  BY DEF SetCache, Set
<1> HIDE DEF entry, s
<1>5. TypeOK' /\ WriterHasCommit'
  BY <1>2, <1>3, <1>4 DEF IInv, TypeOK, WriterHasCommit
<1>6. FillAccounts' /\ FillIsYoung'
  BY <1>2, <1>4, LogUnchanged DEF IInv, TypeOK, FillAccounts, FillIsYoung
<1>7. EntryAccounts'
  BY <1>1, <1>3, <1>4, LogUnchanged DEF IInv, FillAccounts, EntryAccounts
<1>8. EntryIsYoung'
  <2>1. LacksNoneOlder(reader[r].balances, reader[r].slow)
          /\ reader[r].slow \in 0..MaxQuery
    BY <1>1 DEF IInv, FillIsYoung, ReaderState
  <2>2. LacksNoneOlder(reader[r].balances, MaxQuery)
    <3>1. \A k \in 1..Len(log) : log[k].age \in Nat
      BY LogElements DEF IInv, TypeOK, Commit
    <3> QED  BY <2>1, <3>1, MaxQueryAssumption DEF LacksNoneOlder
  <2>3. 0 + MaxQuery = MaxQuery
    BY MaxQueryAssumption
  <2> QED  BY <1>3, <1>4, <2>2, <2>3, LogUnchanged DEF EntryIsYoung
<1> QED  BY <1>5, <1>6, <1>7, <1>8 DEF IInv

\* A new commit, which no handler has invalidated yet, and a handler that
\* moves on.
LEMMA CommitStep ==
  ASSUME IInv, NEW by \in {"expense", "other"}, AppendCommit(by),
         UNCHANGED <<cache, reader>>, writer' \in [Writer -> WriterState],
         \A w \in Writer : writer'[w].at = "invalidate"
           => writer'[w] = writer[w] \/ writer'[w].k = Len(log) + 1
  PROVE  IInv'
<1>1. /\ log \in Seq(Commit) /\ Len(log) \in Nat
      /\ log' \in Seq(Commit) /\ Len(log') = Len(log) + 1
  BY LogElements, LogAppended DEF IInv, TypeOK
<1>2. TypeOK'
  BY <1>1 DEF IInv, TypeOK
<1>3. WriterHasCommit'
  BY <1>1 DEF IInv, WriterHasCommit
<1>4. ASSUME NEW n \in Nat, NEW a \in Nat
      PROVE  /\ LacksNoneReturned(n) => LacksNoneReturned(n)'
             /\ LacksNoneOlder(n, a) => LacksNoneOlder(n, a)'
  BY <1>1, AppendKeeps
<1>5. ASSUME NEW r \in Reader
      PROVE  reader[r].balances \in Nat /\ reader[r].slow \in Nat
  <2>1. reader[r] \in ReaderState
    BY DEF IInv, TypeOK
  <2> QED  BY <2>1, MaxQueryAssumption DEF ReaderState
<1>6. FillAccounts'
  BY <1>4, <1>5 DEF IInv, FillAccounts
<1>7. FillIsYoung'
  BY <1>4, <1>5 DEF IInv, FillIsYoung
<1>8. ASSUME cache # None
      PROVE  cache.balances \in Nat /\ cache.elapsed + MaxQuery \in Nat
  BY <1>8, MaxQueryAssumption, TTLAssumption DEF IInv, TypeOK, Entry
<1>9. EntryAccounts' /\ EntryIsYoung'
  BY <1>4, <1>8, MaxQueryAssumption DEF IInv, EntryAccounts, EntryIsYoung
<1> QED  BY <1>2, <1>3, <1>6, <1>7, <1>9 DEF IInv

\* A handler that moves on without a commit of its own.
LEMMA WriterMoves ==
  ASSUME IInv, NEW w \in Writer, NEW s \in WriterState, s.at # "invalidate",
         writer' = [writer EXCEPT ![w] = s], UNCHANGED <<log, cache, reader>>
  PROVE  IInv'
<1>1. TypeOK' /\ WriterHasCommit'
  BY DEF IInv, TypeOK, WriterHasCommit
<1>2. FillAccounts' /\ FillIsYoung' /\ EntryAccounts' /\ EntryIsYoung'
  BY DEF IInv, FillAccounts, FillIsYoung, EntryAccounts, EntryIsYoung,
         LacksNoneReturned, LacksNoneOlder
<1> QED  BY <1>1, <1>2 DEF IInv

\* The commits: an expense handler begins, commits, or fails, or a service
\* that does not know the cache commits.
LEMMA WriterStep ==
  ASSUME IInv, NEW w \in Writer,
         BeginExpense(w) \/ CommitExpense(w) \/ FailExpense(w) \/ CommitOther
  PROVE  IInv'
<1> USE DEF IInv, TypeOK
<1>1. IdleWriter \in WriterState /\ IdleWriter.at # "invalidate"
  BY DEF IdleWriter, WriterState
<1>2. CASE BeginExpense(w)
  <2> DEFINE s == [at |-> "commit", k |-> 0]
  <2>1. s \in WriterState /\ s.at # "invalidate"
    BY DEF WriterState
  <2>2. writer' = [writer EXCEPT ![w] = s] /\ UNCHANGED <<log, cache, reader>>
    BY <1>2 DEF BeginExpense
  <2> HIDE DEF s
  <2> QED  BY <2>1, <2>2, WriterMoves
<1>3. CASE CommitExpense(w)
  <2>1. Len(log) \in Nat
    BY LogElements
  <2> DEFINE s == [at |-> "invalidate", k |-> Len(log) + 1]
  <2>2. s \in WriterState /\ s.k = Len(log) + 1
    BY <2>1 DEF WriterState
  <2>3. writer' = [writer EXCEPT ![w] = s]
    BY <1>3 DEF CommitExpense
  <2> HIDE DEF s
  <2>4. /\ writer' \in [Writer -> WriterState]
        /\ \A v \in Writer : writer'[v].at = "invalidate"
             => writer'[v] = writer[v] \/ writer'[v].k = Len(log) + 1
    BY <2>2, <2>3
  <2>5. AppendCommit("expense") /\ UNCHANGED <<cache, reader>>
    BY <1>3 DEF CommitExpense
  <2> QED  BY <2>4, <2>5, CommitStep
<1>4. CASE FailExpense(w)
  <2>1. writer' = [writer EXCEPT ![w] = IdleWriter]
          /\ UNCHANGED <<cache, reader>>
    BY <1>4 DEF FailExpense
  <2>2. CASE UNCHANGED log
    BY <1>1, <2>1, <2>2, WriterMoves
  <2>3. CASE AppendCommit("expense")
    <3>1. /\ writer' \in [Writer -> WriterState]
          /\ \A v \in Writer : writer'[v].at = "invalidate"
               => writer'[v] = writer[v] \/ writer'[v].k = Len(log) + 1
      BY <1>1, <2>1
    <3> QED  BY <2>1, <2>3, <3>1, CommitStep
  <2> QED  BY <1>4, <2>2, <2>3 DEF FailExpense
<1>5. CASE CommitOther
  <2>1. AppendCommit("other") /\ UNCHANGED <<cache, reader, writer>>
    BY <1>5 DEF CommitOther
  <2>2. \A v \in Writer : writer'[v] = writer[v]
    BY <2>1
  <2> QED  BY <2>1, <2>2, CommitStep
<1> QED  BY <1>2, <1>3, <1>4, <1>5

\* An invalidation empties the cache and marks every fill it overtakes.
LEMMA InvalidateStep ==
  ASSUME IInv, NEW w \in Writer, InvalidateAfter(w) PROVE IInv'
<1> DEFINE i == writer[w].k
<1>1. /\ log \in Seq(Commit)
      /\ i \in 1..Len(log)
      /\ log' = [log EXCEPT ![i].done = TRUE]
      /\ cache' = None
      /\ reader' = [r \in Reader |->
                      [reader[r] EXCEPT !.raced = @ \/ reader[r].at = "set"]]
      /\ writer' = [writer EXCEPT ![w] = IdleWriter]
  BY DEF InvalidateAfter, Invalidate, IInv, TypeOK, WriterHasCommit
<1>2. /\ log' \in Seq(Commit)
      /\ Len(log') = Len(log)
      /\ \A k \in 1..Len(log) : log'[k].age = log[k].age
  <2> HIDE DEF i
  <2> QED  BY <1>1, LogMarked
<1>3. ASSUME NEW r \in Reader
      PROVE  /\ reader'[r] \in ReaderState
             /\ reader'[r].at = reader[r].at
             /\ reader'[r].balances = reader[r].balances
             /\ reader'[r].slow = reader[r].slow
             /\ reader'[r].at = "set" => reader'[r].raced
  <2>1. reader[r] \in ReaderState
    BY DEF IInv, TypeOK
  <2>2. (reader[r].raced \/ reader[r].at = "set") \in BOOLEAN
    OBVIOUS
  <2> QED  BY <1>1, <2>1, <2>2 DEF ReaderState
<1>4. TypeOK'
  <2>1. reader' \in [Reader -> ReaderState]
    BY <1>1, <1>3
  <2>2. writer' \in [Writer -> WriterState]
    BY <1>1 DEF IInv, TypeOK, IdleWriter, WriterState
  <2> QED  BY <1>1, <1>2, <2>1, <2>2 DEF TypeOK
<1>5. WriterHasCommit'
  BY <1>1, <1>2 DEF IInv, TypeOK, WriterHasCommit, IdleWriter
<1>6. FillAccounts'
  BY <1>3 DEF FillAccounts
<1>7. FillIsYoung'
  BY <1>2, <1>3 DEF IInv, FillIsYoung, LacksNoneOlder
<1>8. EntryAccounts' /\ EntryIsYoung'
  BY <1>1 DEF EntryAccounts, EntryIsYoung
<1> QED  BY <1>4, <1>5, <1>6, <1>7, <1>8 DEF IInv

\* With a tick, commits, entries and slow fills grow older together.
LEMMA TickStep == ASSUME IInv, Tick PROVE IInv'
<1>1. /\ log \in Seq(Commit)
      /\ log' \in Seq(Commit)
      /\ Len(log') = Len(log)
      /\ \A k \in 1..Len(log) : /\ log'[k].by = log[k].by
                                /\ log'[k].done = log[k].done
                                /\ log'[k].age <= log[k].age + 1
  BY LogAged DEF Tick, IInv, TypeOK
<1>2. \A k \in 1..Len(log) : log[k].age \in Nat /\ log'[k].age \in Nat
  <2>1. \A k \in 1..Len(log) : log[k] \in Commit
    BY <1>1, LogElements
  <2>2. \A k \in 1..Len(log) : log'[k] \in Commit
    BY <1>1, ElementOfSeq
  <2> QED
    BY <2>1, <2>2, TTLAssumption, MaxQueryAssumption DEF Commit, AgeCap
<1>3. ASSUME NEW r \in Reader
      PROVE  /\ reader'[r] \in ReaderState
             /\ reader'[r].at = reader[r].at
             /\ reader'[r].balances = reader[r].balances
             /\ reader'[r].raced = reader[r].raced
             /\ reader[r].at = "set" => reader'[r].slow = reader[r].slow + 1
  <2>1. reader[r] \in ReaderState
    BY DEF IInv, TypeOK
  <2>2. CASE reader[r].at = "set"
    <3>1. reader[r].slow + 1 \in 0..MaxQuery
      BY <2>1, <2>2, MaxQueryAssumption DEF Tick, ReaderState
    <3>2. reader'[r] = [reader[r] EXCEPT !.slow = @ + 1]
      BY <2>2 DEF Tick
    <3> QED  BY <2>1, <3>1, <3>2 DEF ReaderState
  <2>3. CASE reader[r].at # "set"
    BY <2>1, <2>3 DEF Tick
  <2> QED  BY <2>2, <2>3
<1>4. ASSUME cache # None
      PROVE  /\ cache' \in Entry
             /\ cache'.balances = cache.balances
             /\ cache'.raced = cache.raced
             /\ cache'.elapsed <= TTL => cache'.elapsed = cache.elapsed + 1
             /\ cache.elapsed \in Nat
  <2>1. cache \in Entry
    BY <1>4 DEF IInv, TypeOK
  <2>2. Older(cache.elapsed, TTL + 1) \in 0..TTL + 1
          /\ (Older(cache.elapsed, TTL + 1) <= TTL
                => Older(cache.elapsed, TTL + 1) = cache.elapsed + 1)
          /\ cache.elapsed \in Nat
    BY <2>1, TTLAssumption DEF Entry, Older
  <2>3. cache' = [cache EXCEPT !.elapsed = Older(@, TTL + 1)]
    BY <1>4 DEF Tick
  <2> QED  BY <2>1, <2>2, <2>3 DEF Entry
<1>5. cache = None => cache' = None
  BY DEF Tick
<1>6. TypeOK'
  <2>1. reader' \in [Reader -> ReaderState]
    BY <1>3 DEF Tick
  <2> QED  BY <1>1, <1>4, <1>5, <2>1 DEF Tick, IInv, TypeOK
<1>7. WriterHasCommit'
  BY <1>1 DEF Tick, IInv, WriterHasCommit
<1>8. ASSUME NEW n, LacksNoneReturned(n) PROVE LacksNoneReturned(n)'
  BY <1>1, <1>8 DEF LacksNoneReturned
<1>9. ASSUME NEW n, NEW a \in Nat, LacksNoneOlder(n, a)
      PROVE  LacksNoneOlder(n, a + 1)'
  BY <1>1, <1>2, <1>9 DEF LacksNoneOlder
<1>10. FillAccounts'
  BY <1>3, <1>8 DEF IInv, FillAccounts
<1>11. FillIsYoung'
  <2>1. ASSUME NEW r \in Reader, reader'[r].at = "set"
        PROVE  LacksNoneOlder(reader[r].balances, reader[r].slow)'
    <3>1. reader[r].slow \in Nat
      BY MaxQueryAssumption DEF IInv, TypeOK, ReaderState
    <3>2. LacksNoneOlder(reader[r].balances, reader[r].slow)
      BY <1>3, <2>1 DEF IInv, FillIsYoung
    <3>3. \A k \in 1..Len(log) : k > reader[r].balances
             => log'[k].age <= reader[r].slow + 1
      BY <1>1, <1>2, <3>1, <3>2 DEF LacksNoneOlder
    <3> QED  BY <1>1, <1>3, <2>1, <3>3 DEF LacksNoneOlder
  <2> QED  BY <2>1 DEF FillIsYoung
<1>12. EntryAccounts'
  BY <1>4, <1>5, <1>8 DEF IInv, EntryAccounts
<1>13. EntryIsYoung'
  <2>1. SUFFICES ASSUME cache' # None, cache'.elapsed <= TTL
                 PROVE  LacksNoneOlder(cache.balances,
                                       cache.elapsed + MaxQuery)'
    BY DEF EntryIsYoung
  <2>2. /\ cache # None /\ cache'.balances = cache.balances
        /\ cache'.elapsed = cache.elapsed + 1 /\ cache.elapsed \in Nat
    BY <1>4, <1>5, <2>1
  <2>3. LacksNoneOlder(cache.balances, cache.elapsed + MaxQuery)
    BY <2>1, <2>2, TTLAssumption DEF IInv, EntryIsYoung
  <2>4. \A k \in 1..Len(log) : k > cache.balances
           => log'[k].age <= cache.elapsed + 1 + MaxQuery
    BY <1>1, <1>2, <2>2, <2>3, MaxQueryAssumption DEF LacksNoneOlder
  <2> QED  BY <1>1, <2>2, <2>4 DEF LacksNoneOlder
<1> QED  BY <1>6, <1>7, <1>10, <1>11, <1>12, <1>13 DEF IInv

\* A restart empties the cache and ends the calls.
LEMMA RestartStep == ASSUME IInv, Restart PROVE IInv'
<1>1. IdleReader \in ReaderState /\ IdleReader.at # "set"
  BY ReaderStates
<1>2. IdleWriter \in WriterState /\ IdleWriter.at # "invalidate"
  BY DEF IdleWriter, WriterState
<1> QED
  BY <1>1, <1>2
  DEF Restart, IInv, TypeOK, WriterHasCommit, FillAccounts, FillIsYoung,
      EntryAccounts, EntryIsYoung

\* Every step keeps the inductive invariant.
LEMMA IInvStep == ASSUME IInv, [Next]_vars PROVE IInv'
<1>1. CASE UNCHANGED vars
  BY <1>1
  DEF vars, IInv, TypeOK, WriterHasCommit, FillAccounts, FillIsYoung,
      EntryAccounts, EntryIsYoung, LacksNoneReturned, LacksNoneOlder
<1>2. CASE CommitOther
  <2>1. CASE Writer = {}
    <3>1. AppendCommit("other") /\ UNCHANGED <<cache, reader, writer>>
      BY <1>2 DEF CommitOther
    <3>2. writer' \in [Writer -> WriterState]
      BY <3>1 DEF IInv, TypeOK
    <3> QED  BY <2>1, <3>1, <3>2, CommitStep
  <2>2. CASE Writer # {}
    BY <1>2, <2>2, WriterStep
  <2> QED  BY <2>1, <2>2
<1>3. CASE Next /\ ~CommitOther
  BY <1>3, ReaderStep, SetStep, WriterStep, InvalidateStep, TickStep,
     RestartStep
  DEF Next, Read, Write
<1> QED  BY <1>1, <1>2, <1>3

\* The inductive invariant holds in every state of every behaviour.
LEMMA Invariant == Spec => []IInv
BY InitIInv, IInvStep, PTL DEF Spec

-----------------------------------------------------------------------------
(* The properties *)

\* The variables keep the types of the structs they stand for.
THEOREM TypeCorrect == Spec => []TypeOK
<1>1. IInv => TypeOK
  BY DEF IInv
<1> QED  BY <1>1, Invariant, PTL

\* However readers, handlers and other services interleave, balances served
\* from the cache lack no commit older than TTL + MaxQuery ticks.
THEOREM StalenessBounded == Spec => []BoundedStaleness
<1>1. IInv => BoundedStaleness
  <2> SUFFICES ASSUME IInv, Servable, NEW k \in Missing
               PROVE  log[k].age <= TTL + MaxQuery
    BY DEF BoundedStaleness
  <2>1. DOMAIN log = 1..Len(log) /\ \A j \in 1..Len(log) : log[j] \in Commit
    BY LogElements DEF IInv, TypeOK
  <2>2. k \in 1..Len(log) /\ k > cache.balances /\ log[k].age \in Nat
    BY <2>1 DEF Missing, Commit
  <2>3. cache \in Entry /\ cache.elapsed <= TTL /\ cache.elapsed \in Nat
    BY TTLAssumption DEF IInv, TypeOK, Servable, Entry
  <2>4. log[k].age <= cache.elapsed + MaxQuery
    BY <2>2, <2>3 DEF IInv, EntryIsYoung, Servable, LacksNoneOlder
  <2> QED  BY <2>2, <2>3, <2>4, TTLAssumption, MaxQueryAssumption
<1> QED  BY <1>1, Invariant, PTL

\* An entry whose fill no invalidation overtook accounts for every expense
\* operation that has returned.
THEOREM InvalidationWorks == Spec => []InvalidationEffective
<1>1. IInv => InvalidationEffective
  <2>1. log \in Seq(Commit) => DOMAIN log = 1..Len(log)
    BY LogElements
  <2> QED
    BY <2>1
    DEF IInv, TypeOK, EntryAccounts, LacksNoneReturned, InvalidationEffective,
        Missing
<1> QED  BY <1>1, Invariant, PTL

=============================================================================
