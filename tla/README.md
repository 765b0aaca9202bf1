# Verification of the coloc application server

TLA+ models of the Go server of *application-coloc* (shared expenses, reimbursements,
decisions and more for people who share a flat), checked with TLC and, where a
theorem is listed below, proved with TLAPS. Paths below are relative to `src/`; *service*
stands for `internal/application/service`, *postgres* for
`internal/infra/repository/postgres`.

## 1. Inventory

### How the server runs

One process. gRPC runs every call in a goroutine of its own; a gateway in the same
process turns HTTP into gRPC. Handlers check the request, call a service, and turn
its result into a message. A service is a sequence of repository calls. A
repository call is one SQL statement, or a transaction when it writes to two
tables, on a pool of PostgreSQL connections at the default isolation level (READ
COMMITTED). So:

* between any two repository calls of a handler every other handler may run;
* what a service read is a copy: tests made on it may be out of date at the write;
* a context that is cancelled, or a statement that fails, ends a handler between
  two calls; a statement may have been executed although its answer was lost;
* no interceptor recovers panics (`cmd/server/main.go:179-182`): a nil pointer in
  one handler ends the process and all calls in flight;
* only three things are shared in memory: the balance cache, the cooldowns and
  search slots of event discovery, and the notification subscribers.

### Components

| Component | State | Operations | Hard part |
|---|---|---|---|
| Payments (`service/payment_service.go`) | table `payments` | Create, Confirm, Reject, Cancel | status tested on a copy; the answer reads the row again |
| Expenses and splits (`service/expense_service.go`) | tables `expenses`, `expense_splits` | Create, Update, Delete | splits computed before the transaction from rows, members and amounts that may change; rounding |
| Balance queries (`postgres/balance_repository.go`) | none | GetUserBalances, GetRawDebts, GetBalanceHistory | two views of the same tables that should agree |
| Balance cache (`internal/infra/cache`) | a map with expiry | Get, Set, Invalidate | fills race with invalidations; some changes do not invalidate |
| Debt simplification (`internal/domain/algorithm`) | none | MinCashFlow | termination, ties, threshold |
| Colocations (`service/colocation_service.go`) | tables `colocations`, `colocation_members`, invitations | Create, Join, Leave, RemoveMember, UpdateMemberRole, invitations | the rule about the last administrator is a read followed by a write |
| Decisions (`service/decision_service.go`) | decisions and votes | Create, Update, Delete, Vote, Close, GetResults | votes, edits and closing race; results are read in several statements |
| Common funds (`service/fund_service.go`) | funds, contributions | Create, Update, Delete, AddContribution, DeleteContribution | the stored total against the contributions; `is_active` tested on a copy |
| Events (`service/event_service.go`) | events, RSVPs; cooldown map, semaphore | edits, RSVP, Discover | cooldown tested and recorded under two locks |
| Notifications (`service/notification_service.go`) | table; map of slices of channels | Subscribe, Unsubscribe, Notify | a copied slice shares its array; send on a channel another goroutine closes |
| Recurring expenses (`service/expense_service.go:453-665`) | templates | CreateRecurring, UpdateRecurring, DeleteRecurring, ProcessDueRecurringExpenses, forecast | booking and moving the due date are two transactions; runs overlap |
| Accounts and sessions (`service/auth_service.go`, `user_service.go`) | users, refresh tokens | Register, Login, RefreshToken, Logout, ResetPassword, UpdateCurrentUser, DeleteCurrentUser | no transactions; the profile is written back whole |
| Connection pool (`postgres/db.go`) | connections | every query | listings hold one connection and take another |
| Categories, event search client, gateway, configuration, seed, front end | | | simple or external |

Payments and expenses meet in the balances: GetUserBalances adds up expenses,
splits and *confirmed* payments of the *current* members. Expenses invalidate the
cache; payments and membership do not have access to it (`cmd/server/main.go:93-95`).
MinCashFlow takes the net balances. Deleting a colocation cascades to every table.

### What makes them correct

* Payments: decided once, never removed after a confirmation, settled for good when
  no call is under way; an answer is never built from a missing row.
* Expenses: the splits stored with an expense are those of its amount and kind, but for
  rounding and the tolerances of the validation.
* Balances: they cancel out over the members, and explain the raw debts.
* Cache: what is served is at most one lifetime (and one query) old; expense
  operations are visible once they returned, but for the fills they overtake; it
  becomes fresh when nothing changes any more.
* MinCashFlow: settles, in fewer transfers than members, nobody overshoots, ends.
* Decisions: a closed decision is not reopened and its result stands, but for votes
  admitted before; options and votes match.
* Colocations: members who stay keep an administrator, unless he gives up the role
  himself or calls overtake each other; nobody is demoted by accident.
* Funds: the running total is the sum of the contributions; a closed fund stays
  closed but for the calls in flight when it was closed.
* Accounts: a new password stays, but for the profile updates it overlaps; an inactive
  account gets no session, but for the calls in flight when it was left.
* Recurring expenses: no due date is skipped, and none booked twice but by runs that
  overlap or fail half-way.
* Discovery: slots are bounded and given back; a user searches once per cooldown, but
  for calls that test it together.
* Notifications: every subscriber is in the slice once; a broadcast no Unsubscribe
  overtakes reaches everyone once and never meets a closed channel.
* Pool: only listings can bring it to a standstill; otherwise every call ends.

`PROJECT.json` lists the hazards with their lines.

## 2. Modules

| Module | What it models |
|---|---|
| `PaymentLifecycle` | abstract: the life of a payment, without users or handlers |
| `Payments` | PaymentService over its repository; implements `PaymentLifecycle` |
| `PaymentsProofs` | theorems about `Payments` |
| `BalanceCache` | the cache, its readers and its writers |
| `Balances` | pure operators: splits, net balances, raw debts, the history of a user |
| `Ledger` | ExpenseService over its repository; uses `Balances` |
| `MinCashFlow` | the debt simplification, one recursive call per step |
| `Decisions` | one decision: votes, edits, closing, deletion |
| `Membership` | one colocation: its members, their roles, joining and leaving |
| `Funds` | the common funds and their contributions |
| `Accounts` | accounts, passwords and refresh tokens |
| `Recurring` | one recurring expense, its due dates and the runs that book it |
| `NotificationHub` | the streams of one user and the slice of channels behind them |
| `Discovery` | the search for events: slots and cooldowns |
| `ConnPool` | the use the handlers make of the pool of connections |
| `BalanceCacheProofs`, `DecisionsProofs`, `MembershipProofs` | theorems about these modules |
| `SumTheorems` | theorems about sums of a function over a finite set, for the three below |
| `LedgerProofs` | theorems about `Ledger` and `Balances` |
| `EndsProofs` | theorems about `MinCashFlow`, `Discovery` and `ConnPool`, the parts of `MCEnds` |
| `ApartProofs` | theorems about `Funds`, `Accounts`, `Recurring` and `NotificationHub`, the parts of `MCApart` |
| `MCApart` | `Funds`, `Accounts`, `Recurring`, `NotificationHub` as one state machine |
| `MCEnds` | `MinCashFlow`, `Discovery`, `ConnPool` as one state machine |
| `MC*` | the small instances TLC checks |

### Payments

`payments` is the table (a row per id, `absent` when there is none), `members` the
membership table, `open` whether the colocation exists, `used` the ids given out so
far, `call[r]` the local variables and the next step of handler execution `r`. A
step is one statement of the code: `BeginCreate` (membership of the sender),
`verifyRecipientMembership`, `Create` (INSERT), `getPaymentForAction` (the read and
the tests of Confirm, Reject, Cancel), `ConfirmOrReject` (UPDATE), `Cancel`
(DELETE), `ReadBack` (the row read again and `paymentToProto`). `Abandon` is a
cancelled context or failed statement, `Restart` a crash. Confirm, Reject and Cancel
check no membership, and neither does the model.

*Mapping to `PaymentLifecycle`*: a payment is `unborn` until its id is used, then
has the status of its row, and is `gone` when the row is; the tickets of a payment
are the calls that read it as pending and have not written. The abstract
specification says what the code promises: declared once, decided or withdrawn only
by a holder of a ticket, withdrawn only while pending, never back. It also shows
what the code does *not* promise: a ticket still decides a payment that is no
longer pending.

### BalanceCache

The database is `log`, the commits that changed the balances; the result of a query
is how many of them it saw. `cache` is the entry of the colocation, `reader[r]` an
execution of GetBalances (Get, query, Set, raw debts), `writer[w]` an expense
handler (commit, Invalidate). `CommitOther` stands for confirmed payments and
changes of membership. `FailExpense` covers a commit whose answer is lost. The
mutex of the cache makes Get, Set and Invalidate atomic. Time passes in ticks; a
reader holds its result at most `MaxQuery` ticks before Set. `raced` is a history
variable that only the property uses.

### Balances and Ledger

The tables hold cents, as their DECIMAL(10, 2) columns do. Requests hold float64
numbers with any fraction, which nothing rounds before the statements do: 33.33 percent
for each of three users is accepted, and so are four times 2.505 of 10.02. Amounts of
requests are therefore counted in `Parts` of a cent and percentages in `Parts` of a
hundredth of a point, for any positive `Parts`; the numbers of finitely many requests are
whole in parts that are small enough. `calculateSplits` and its validations are the
operators of the same name: percentages may total 99.99 to 100.01 (`Whole` is 100),
custom amounts may be a cent off, and the splits are computed from the amount as it was
requested. `InCents` and `RoundDiv` are the rounding of the columns, an exact half
going away from zero, of the amount and of every share. What the columns hold is known
when the handler has read, so a call carries it to its write (`ToWrite`). An update that
names no amount starts from the stored one. Left out are the last bits of float64
arithmetic, which could tip a sum that lies exactly on a tolerance, and the values that
are not numbers.

Only CreateExpense tests an amount before the tables. Apart from that a request may hold
numbers of any sign; the CHECKs of the two tables refuse them when they are written
(`RowAccepted`, with `PercentagesAccepted` for the percentages that go with the splits),
so a row a handler computes (`Draft`) allows more than a stored one (`Expense`).

`SplitsFitExpense` says how far the splits of a stored expense may be from its amount:
half a cent for each share and for the amount itself, and beyond that 0.01 percent of the
amount for percentages (10 cents of 1000.00, as 3 times 33.33 percent shows) and one cent
for custom amounts. It is stated in halves of a hundredth of a percent of a cent
(`Tolerance`), so that all of it is in integers. What the splits miss stays with the
payer in the balances (`Kept`). `NetBalance` and `RawDebt` are the two queries of
GetBalances.
`HistoryBalance` is where GetBalanceHistory ends without date filters: the entries
before the last one are partial sums of it.

In `Ledger` a handler is three steps: its reads (one step, since each only rejects
the call or feeds the splits), its transaction (one step: the first statement locks
the expense row until the commit), and the read for the answer. The row and splits
the transaction writes are in `call`, computed when the handler read. `paidBy` of
the row of an update is resolved as in the code and then not written, as in the
code. Payments enter as totals of confirmed amounts.

### MinCashFlow

`Recurse` is one call of `minCashFlowRecursive`, `Stop` its two returns. The code
computes with float64 and rounds every transfer, so its balances stay within a hair
of whole cents. The hair decides ties and whether a balance of one cent is below the
threshold 0.01; the model allows every outcome of both.

### Decisions

`decision` is the row, `ballots` the stored votes: the rows one Vote call inserts are
one ballot, told apart by a number (`no`) as rows of different calls are different
rows. Every handler reads the row, tests its copy (`Vote`, `UpdateReads`,
`UpdateChecks`, `CloseReads`, `DeleteReads`) and writes in a later step (`Update`,
`Close`, `Delete`). The transaction of a vote is two steps: what its DELETE finds
(`DeleteOldVotes`, the `seen` ballots), and its INSERTs with the commit
(`InsertVotes`), since rows another transaction inserts in between stay. `Abandon`
rolls back. `ReadBack` ends every call when the row is gone: `decisionToProto`
dereferences nil and nothing recovers. No migration of the repository creates the
two tables; the cascade the model relies on is the one `decision_repository.go:213`
names.

GetResults is three steps: the options (`ResultsReads`), the votes by option
(`ResultsCount`), and the number of voters (`ResultsVoters`). The voters listed for
every option are read like the counts and left out, and so is anonymity, which only
hides them. `shown` and `counted` are what the call has read so far; `fixed`, a history
field, tells whether the options could not change any more when it read them: somebody
had voted, and no Update was about to write.

### Membership

`role` is the table of members (`none` without a row), `colocation` the row it hangs
on: `created` from the INSERT of Create to that of its administrator, then `open`.
Every call reads a role first (`LeaveReads`, `RemoveReads`, `RoleReads`,
`DeleteReads`; `JoinReads` and `JoinChecks` are the two reads of Join) and acts in a
later step. A Leave of an administrator counts in between (`LeaveCounts`, which keeps
the list it saw). `ReadBack` and `List` dereference a membership they read again:
nil, and the end of the process, when it is gone. Nobody can join a `created`
colocation, since nobody has seen its code; after that anybody may know it, which
allows more than the server does and hides nothing.

The code does not keep an administrator in every colocation with members, and no
document says it does. It may lose the last one because he gives up the role himself
(`colocation_service.go:341` does not ask), because two administrators leave at once,
each counting the other, because an administrator demoted a moment ago still removes
the other, or because somebody joins after the last one has left an empty
colocation. `AdminStays` says that there is no other way while members stay, and
`NoAdminIsForever` why it matters: only administrators name administrators.

### Funds

`fund` holds the rows, with the stored total and `is_active`; `contributions` the rows
of the second table. The two transactions that move the total are a step each
(`AddWrites`, `RemoveWrites`): their first statement on a row locks it, and the total is
changed by addition in SQL, not from a copy. Each is preceded by the read that admits
it (`AddReads`, `RemoveReads`), and an Update or Delete by its own. A removal whose
DELETE matches no row fails (`Removes`). `overtaken`, a history variable, is the set of
calls that were in flight when a fund was closed.

### Accounts

`account` is the row of an e-mail address, `tokens` the stored refresh tokens. There
are no transactions: `CreateUser` and `SaveRefreshToken` of a registration, the four
statements of RefreshToken (`RefreshToken`, `OwnerOfToken`, `DeleteRefreshToken`,
`SaveRefreshToken`), the write and the deletion of tokens of ResetPassword are steps of
their own, and a call may end between any two (`AccountAbandon`). `UpdateUser` writes
the hash the call read unless it was given a new password. `rewritten` and `left` are
history: the calls in flight at the last new password and at the deactivation.

### Recurring

Dates are days, `MonthLength` the calendar; `AddMonths` lets a day run over into the
next month as `time.AddDate` does. A run (`StartRun`) copies the template, books an
expense (`CreateFromRecurring`) and stores the next date computed from the copy
(`UpdateNextDueDate`); each of the two may fail, with or without the process. Runs
overlap, since nothing in the code serialises them. `booked` is a bag of dates;
`dates`, `lost` and `crossed` are history.

### NotificationHub

The hub keeps a Go slice per user. `heap` holds the arrays, `header` the slice,
`Capacity` what append may use in place. Subscribe is one step under the lock.
Unsubscribe moves the cells one at a time (`MoveCell`), because a notifier that copied
the slice header before reads the same array without the lock (`ReadCell`). A send to a
full channel is skipped, on a closed one it ends the process (`crashed`).

### Discovery

`TestCooldown`, `TakeSlot` or `Refuse`, `RecordCooldown` and `SearchEnds` are the
steps of Discover in their order. `tested`, a history field, is the entry a call has
tested; time is a counter.

### ConnPool

A call waits for a connection (`first`), holds one, and, when it lists, waits for a
second one for every row (`second`, `two`). `GiveUp` is a client that goes away.

### One run for several components

`MCApart` and `MCEnds` put components together that share no variable, with a variable
`part` that says which of them moves. A state of the product in which two have moved
satisfies an invariant of one exactly when the state in which only that one has moved
does, and the same goes for their steps, so exploring the product would show nothing
more. `ApartIsEveryPart` and `EndsIsEveryPart` prove that a behaviour of the run is one
of every component. Fairness is assumed of the part that moves: the others have no step that fairness
asks for, or, for `MinCashFlow`, the assumption names the part.

## 3. Runs

| Run | Question | Result |
|---|---|---|
| `payments` | two users, two payments, three calls at once, restarts, membership, deletion | `DecisionReadsBack`, `ConfirmedNeverCancelled`, `SettledStays` hold; `Payments` implements `PaymentLifecycle` |
| `balance_cache` | two readers, two writers, two commits, lifetime of two ticks | `BoundedStaleness`, `InvalidationEffective`, `EventuallyFresh` hold |
| `ledger` | two expenses, three users of whom one leaves and returns, two calls, every kind of split | `SplitsFitExpense`, `BalancesCancel`, `DebtsExplainBalances` hold |
| `ends` | the simplification of all balances of four members within four cents; three searches of two users for two slots; four calls, two of them listings, on two connections | `Settles`, `FewTransfers`, `NobodyOvershoots`, `RecursionEnds`, `SlotsCounted`, `SearchTooSoon`, `StandstillIsListings`, `CallsEnd` hold |
| `decisions` | two members, two calls, two lists of options, a deadline, three ballots | `ResultsFit`, `NeverReopened`, `ResultStands`, `VotesKeepMeaning`, `VoterKeepsVote` hold |
| `membership` | three users, three calls | `AdminStays`, `NoAdminIsForever`, `OnlyNamedDemotes` hold |
| `apart` | funds, accounts, recurring expenses and the hub, one at a time | `TotalIsSum`, `ClosedStaysClosed`, `PasswordKept`, `NoSessionAfterLeaving`, `NoneSkipped`, `BookedOnce`, `SubscribersMatch`, `BroadcastSound` hold |
| `payment_decided_twice` | does "ce paiement n'est pas en attente" hold at the write? | violated: Confirm and Reject both succeed |
| `cache_misses_expense` | does every expense operation invalidate (README)? | violated: a fill under way stores old balances afterwards |
| `update_keeps_payer` | does `paid_by` override the payer (`proto/expense.proto:163`)? | violated: the UPDATE does not write it |
| `payer_only_credit` | does a payer_only expense stay with its payer (`proto/expense.proto:91`)? | violated: the payer is credited with it |
| `history_of_payments` | does a payment count in favour of who made it, as `balance_repository.go:202` has it? | violated: the history subtracts it |

The last five are disagreements between the code and what it or its documentation
says; `PROJECT.json` has a finding for each.

Other disagreements, met while modelling, that no run of its own shows:

* MinCashFlow does not return "the minimum set of transactions"
  (`min_cash_flow.go:19`): the balances 4, -2, -2, 3, -3 take four transfers, three
  suffice. It is within N - 1, which is what `FewTransfers` says.
* A vote that tested the decision before Close is stored after it, although closing
  is to "stop accepting votes"
  (`proto/decision.proto:56`, `decision_service.go:222`).
  `ResultStands` is the guarantee that is left. The answer of GetResults always has
  the status OPEN (`decision_handler.go:204`).
* Monthly templates due on day 29, 30 or 31 run over into the month after a short
  one and stay on the later day (`AddMonths` of `Recurring`); `README.md:25` only says
  monthly ("mensuel"). The forecast has the same step (`expense_repository.go:651`) and may list
  a month twice and leave another out.
* CreateFromRecurring does not store `recurring_id` (`expense_repository.go:33`), so
  generated expenses count again in the historical averages of the forecast.
* ProcessDueRecurringExpenses and Notify have no caller, although `README.md:25-29`
  calls the first automatic and the second real-time.

### Bounds, and why they are enough

* `payments`: the races are between a read and a write of one row: three calls let a
  Confirm, a Reject and a Cancel of the same payment overlap. The second payment
  shows that ids are not mixed up. The theorems cover every size.
* `balance_cache`: a stale entry takes one fill and one writer; the second of each
  lets a second fill overwrite a fresher entry and an invalidation meet two fills.
  `MaxCommits = 2` gives an entry that misses a commit while another is on its way.
  Ages are capped (`AgeCap`) where no property tells them apart any more.
* `ledger`: requests are in half cents (`Parts = 2`). 3.5 cents among 2 or 3 users make
  the amount and the shares round up and down; 3 times 33.33 percent of 300.00 miss it
  by 3 cents, and 3 times 1.5 of 4 cents by 2, although the request is only half a cent
  above its total. A payer_only expense, a custom split that misses its total, a
  negative one and one above 100 percent complete the kinds; the last two only the
  tables refuse. `MaxPaid` bounds the confirmed payments.
* `ends`: four members let two creditors face two debtors in every tie; balances on
  both sides of the threshold, balanced and not. `FewTransfers` is proved for any
  number. A third search makes two calls of one user meet a full semaphore;
  `MaxClock = 3` with a cooldown of 2 lets a user search within, at the end of and
  after it. Two listings of two rows (`MaxRows`) on two connections (`MaxConns`) can
  stop the pool, and two calls without listing compete with them.
* `apart`: one fund, two calls and three contributions (`MaxContributions`) let a
  withdrawal race another, a closing and a deletion. Two passwords and three calls of
  one user let a profile update span a new password and a registration; two tokens
  (`MaxTokens`) suffice for a token and the one that replaces it. Start dates 28 and
  31 and the days 31 and 59 (`CheckDay`), up to `Horizon = 59`, have the clock see one
  and several due dates, a month that is too short, and an end date on the last day;
  three runs (`MaxRuns`), two at a time, let an overlap follow a failure. Three
  streams are the fewest for which an Unsubscribe moves a cell while another array is
  shared; a buffer of one and two notifications (`MaxNotify`) fill a channel.
* `decisions`: every race here is between two calls. Three ballots (`MaxBallots`) let a
  vote replace one of two that a race has left behind. Two lists that share an option in
  different places make an edit change what an index means; requests also name an
  index no list has. One deadline and `MaxTime = 1` give votes before and after it.
* `membership`: two administrators who leave and one member who stays take three
  users; three calls let one overtake two others. The theorems cover every size.

### Fairness

Safety runs assume none. What is assumed, and why the code justifies it:

* `BalanceCache!Fairness`: weak fairness of each goroutine that has begun (the Go
  scheduler runs every runnable goroutine, a query returns or fails) and of time. No
  client is assumed to call.
* `MCEnds!EndsSpec`: weak fairness of the recursion, a loop that never blocks.
* `ConnPool!PoolFairness`: weak fairness of the work of a call that has its
  connections (queries end), and strong fairness of Acquire for each waiting call
  (pgxpool serves its waiters in turn). Nobody is assumed to give up, and the handlers
  set no time limit, so a standstill may last: `CallsEnd` says that every call ends
  unless there is a standstill for good, and `StandstillIsListings` what that takes.

`CHECK_DEADLOCK FALSE` is used where the system may stop: the ids of a bounded
instance are used up and the colocation is deleted, a deleted decision has no calls
and a deleted colocation no members left, the algorithm has returned, the clock or
the bounds on tokens, runs and notifications are reached. `balance_cache` checks
deadlock.

## 4. Proofs

`PaymentsProofs` proves, for any sets of users, payments and calls, from the
assumption that `None` is neither a user nor a payment:

* `TypeCorrect`, `ReadBackSafe` (`DecisionReadsBack`), `ConfirmedKept`
  (`ConfirmedNeverCancelled`), `SettledForGood` (`SettledStays`), and
* `Implements`: `Payments` implements `PaymentLifecycle`.

The properties are not inductive: a fresh row might, as far as they say, have the id
of a settled payment, or of one another call is about to read back. `IInv` adds that
rows have used ids (`RowsUsed`), that calls past their first statement refer to used
ids (`PidsUsed`), and that the step a call is at fits its operation (`StepFitsOp`).
`IInvStep` goes through the actions one by one. `RowStep` (how a step can change a
row) and `WriteStep` (how a call gets to its write) then give the two action
properties, `LifeStep` the refinement: a step of `Payments` is a step of the
lifecycle or leaves its variables unchanged.

`BalanceCacheProofs` proves `StalenessBounded` (`BoundedStaleness`) and
`InvalidationWorks` (`InvalidationEffective`) for any number of readers, writers and
commits, any lifetime and any bound on the time of a fill. The properties speak of
the entry; the inductive invariant says the same of what a reader carries from its
query to Set (`FillAccounts`, `FillIsYoung`), so that Set hands it over, and that a
handler that has committed knows which commit is its own (`WriterHasCommit`).
Assumptions: the three bounds are natural numbers.

`SumTheorems` is about `SumFunctionOnSet` of the community modules, with which totals are
written here. The library has no facts about it, and its induction theorems take a
predicate, which the provers cannot instantiate; the inductions here are over *sets*
(of naturals, of subsets) and rest on the well-foundedness of `<` (`NatInductionOnSets`,
`SubsetInduction`). `SumUnfolds` is the one equation that comes from the definition; the
others follow: a sum with and without a term, of two functions, by parts, under a
transfer, of terms of one sign, of a scaled function. `SumSwaps` takes the sum of a
table by rows or by columns, and `SumOfGroups` the sum of a set by groups.

`LedgerProofs` proves `LedgerTypeCorrect`, `SplitsAlwaysFit` (`SplitsFitExpense`),
`BalancesAlwaysCancel` (`BalancesCancel`) and `DebtsAlwaysExplain`
(`DebtsExplainBalances`) for any finite sets of users and expenses, any calls and any
requests, fractions and negative numbers among them (`PartsAssumption`,
`RequestsAssumption`, `UsersAssumption`). That
the splits in the table fit is not inductive: what an Update writes was computed
before, from members and amounts that may have changed since. `LedgerInv` adds that what
a call carries to its write fits by itself (`Prepared`): row and splits are written
together, so they fit in the table, however old they are. That the computed splits fit
(`SplitsFit`) is arithmetic: a rounded quotient is off by half a cent at most
(`RoundDivIsNear`), n shares by n halves (`RoundedSum`) and the stored amount by one
more (`InCentsIsNear`); to that comes what the validation let pass, a cent of a custom
split and, of percentages, a hundredth of a percent of the amount before it was rounded
(`PercentageMisses`). The balances are then sums over one table in
two orders, by expense what is kept and by user what he paid and owes (`PaidByPayers`,
`SharesBySharers`); payments cancel because what one sends another receives
(`PaymentsCancel`). For the debts, the shares in what a user paid are grouped by who
owes them (`OwedToPayer`) and his own shares by who paid (`OwedByPayers`), and each pair
of users leaves out a cent at most (`DebtIsShort`).

`EndsProofs`, on `MinCashFlow`: `TransfersTypeCorrect`, `TransfersBounded`
(`FewTransfers`), `NobodyPaysTooMuch` (`NobodyOvershoots`) and `DebtsSettled` (`Settles`),
for any number of members and any integer balances, whatever the ties and the threshold.
The number of transfers alone is not inductive; the transfers plus the members that are
not yet settled never exceed N (`CountedOff`), because a transfer settles somebody for
good, and needs two who are not settled. What the transfers amount to is `BooksInv`: the
balances left are the given ones less what the transfers moved (`BooksBalance`), no
balance changes its sign, so that a creditor never pays (`OneWay`), the total stays
(`SameTotal`), and what the recursion stops at (`Exhausted`).

On `Discovery` and `ConnPool`: `SlotsAreCounted` (`SlotsCounted`), `SearchesTooSoon`
(`SearchTooSoon`) and `StandstillsAreListings` (`StandstillIsListings`), with their type
invariants, for any finite sets of calls and any limits. The cardinalities are counted
one call at a time; for the pool the connections held and the free ones add up to its
size.

`DecisionsProofs` proves `ClosedForGood`, `ResultFinal`, `MeaningKept` and `VoteKept`
for any members, options and calls, from the assumption that a deleted row is not a
row (`NoneAssumption`). Its invariant adds that an admitted vote chooses something
(`ChoiceMade`), that the DELETE of a vote finds ballots of its own user (`SeenIsOwn`)
and that an Update has read a row (`CopyRead`). `ResultsBelong` (`ResultsFit`) needs
more: `FitInv` says of every GetResults under way that its options are still the stored
ones if they could not change, and that who was counted is still a voter; it is kept
because votes keep their meaning and voters their vote.

`MembershipProofs` proves `AdminKept` (`AdminStays`), `NoAdminForGood`
(`NoAdminIsForever`) and `NamedDemotes` (`OnlyNamedDemotes`) for any finite set of
users and any number of calls. The invariant adds what a call relies on when it comes
to its statement (`Named`, `LeaveChecked`, `RemoveChecked`) and that nothing else is
under way while a colocation is being created (`CreatorAlone`, `NothingBefore`); the
latter is why the INSERT of the creator cannot give an administrator to a colocation
that has lost its own. `NotTheOnlyAdmin` is the counting of Leave: who passes it
without another administrator beside him is alone.

`ApartProofs`, on `Funds`: `FundsTypeCorrect`, `FundsStayClosed` (`ClosedStaysClosed`) and
`FundsTotalIsSum` (`TotalIsSum`), for any funds, members, amounts and calls. The
invariant adds that every call which still takes a closed fund for open was in flight at
its closing (`BelieversOvertaken`), that rows have ids given out (`MadeFunds`) and that a
call is aimed at such an id (`CallsAimed`). For the total, `SumInv` adds that the
contributions are finitely many, numbered apart and of funds that exist, so that an
INSERT adds a term and a DELETE takes one away, and the total moves with it.

On `Accounts`: `AccountsTypeCorrect`, `PasswordsKept` (`PasswordKept`) and
`NoSessionsAfterLeaving` (`NoSessionAfterLeaving`), for any users, passwords and calls.
The invariant adds what a call holds at each step (`CallsFilled`), that a call which will
save a token has seen an active user or was in flight when he left (`SeenActive`), and
that a profile update carries the present password or was in flight at its change
(`SeenPassword`).

On `Recurring`: `RecurringTypes`, `DatesAreBooked` (`NoneSkipped`) and `DatesBookedOnce`
(`BookedOnce`), for any start and end dates, any finite set of runs and any number of
editors. The months may be any of 28 to 31 days that go on for a year after the last
date booked (`HorizonAssumption`), so that the next date always exists and is later.
`BookedOnce` counts expenses of a date, and a run that is about to book one will
count only later: `Claims` counts both. `ClaimsBounded` says that a date has at most one
claim more than there were failures and overlaps (`Slack`); that a date the template has
yet to come to has none to spare unless a run has it in hand; and that a date after one
still in hand has none to spare either. `AloneInStep`, that a run which overlaps
no other goes by the date of the template, gives `NoneSkipped`.

On `NotificationHub`: `HubTypes`, `SliceHoldsSubscribers` (`SubscribersMatch`) and
`BroadcastReaches` (`BroadcastSound`), for any streams, notifiers and buffer. `SliceInv` says of the slice while Unsubscribe
moves its cells that the cells already moved and those still to move make the slice that
is meant (`Kept`): each remaining stream once. `InStep` says of a broadcast no
Unsubscribe has overtaken that its copy of the header still shows the subscribers it
began with, although another Subscribe may have written to the same array: appends
write beyond the length of every copy that is still in step.

`ApartTypeCorrect` puts the type invariants together for the run `apart`.

Every safety property that the passing runs check is proved for all values of the
constants. Only model-checked: liveness (`EventuallyFresh`, `RecursionEnds`,
`CallsEnd`), which is out of the prover's reach; and the five violations, which are
traces. The theorems are about the models: the bounds named in guards (`MaxPaid`,
`MaxContributions`, `Horizon` and the like) are parameters of the theorems too, so they
hold for every bound, but the range of int64 and DECIMAL(10, 2) is not in the models.

## 5. Plan

Done: payments, cache, expenses and balances with the history, simplification,
decisions with their results, membership, funds, accounts, recurring expenses, the
notification hub, discovery, and the pool.

What could come next:

1. the dates of the balance history and of the forecast, with the calendar of
   `Recurring`, once a document says what they should show;
2. refinement of `Ledger` and `Funds` to an abstract book of accounts, now that sums can
   be reasoned about;
3. `Recurring` with the caller that ProcessDueRecurringExpenses still lacks, and the hub
   with the callers of Notify: both are modelled for any caller now.

### Not modelled

* *Categories*: single statements on one table. That a category in use is not deleted
  is a foreign key (RESTRICT), not code.
* *Events and RSVPs* beside the search: an RSVP is one upsert per user and event, and
  only the creator edits an event; no statement relates the columns to others.
* *Forecast*: a report that nothing is computed from; see the disagreements above.
* *Notifications table, invitations by e-mail, listings*: single statements; what
  listings do to the pool is in `ConnPool`.
* *Gateway and generated code* (`proto/pb`): transcoding, about two thirds of the lines
  under `src/`, which is why the share of lines the models cover is small.
* *Hashing, token signatures, the event search client*: libraries and an external
  command, seen through their results. *Front end, configuration, seed*: no state the
  server relies on.
