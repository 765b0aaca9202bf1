------------------------------- MODULE Ledger -------------------------------
(***************************************************************************)
(* The expenses of one colocation and their splits, under concurrent       *)
(* Create, Update and Delete, together with what changes the balances      *)
(* beside them: members who come and go and payments that are confirmed.   *)
(*                                                                         *)
(* A handler of ExpenseService reads (membership, payer, the expense, the  *)
(* members to share among), computes the new row and splits in memory, and *)
(* then writes.  The reads are one step here: each of them only rejects    *)
(* the call or feeds the splits, and no property depends on a change that  *)
(* falls between two of them.  The write is one step because the code runs *)
(* it in one transaction whose first statement locks the expense row until *)
(* the commit.  What the handler read may be stale when it writes.         *)
(*                                                                         *)
(* Amounts of requests are in parts of a cent, those of the tables and of  *)
(* the rows a call is about to write in cents: the statement rounds, and   *)
(* what it rounds is known when the handler has read.                      *)
(***************************************************************************)
EXTENDS Balances

CONSTANTS
  ExpenseId,   \* primary keys, given to one row only
  Call,        \* slots for handler executions in flight
  Caller,      \* the users who call the handlers
  Designated,  \* the users named as payer by a request
  NewExpense,  \* the [amount, type, input] clients ask to create, in Parts
  Change,      \* the [amount, type, input] of updates; a field may be None
  Movers,      \* the users who come and go
  Paying,      \* the pairs of users between whom payments are confirmed
  MaxPaid,     \* bound on the total of the confirmed payments
  None         \* an absent field

ASSUME UsersAssumption ==
  /\ IsFiniteSet(User) /\ IsFiniteSet(ExpenseId)
  /\ Caller \subseteq User /\ Designated \subseteq User /\ Movers \subseteq User
  /\ Paying \subseteq User \X User /\ \A p \in Paying : p[1] # p[2]

\* A request holds numbers of any sign; only the amount of a new expense is
\* tested before the tables.
ASSUME RequestsAssumption ==
  /\ None \notin User \cup Int \cup SplitType \cup ExpenseId
  /\ \A req \in NewExpense :
       req.amount \in Int /\ req.type \in SplitType /\ IsAmounts(req.input)
  /\ \A ch \in Change :
       /\ ch.amount \in Int \cup {None} /\ ch.type \in SplitType \cup {None}
       /\ IsAmounts(ch.input)

VARIABLES
  members,    \* colocation_members
  expenses,   \* the expenses table
  splits,     \* the expense_splits table
  used,       \* ids already given to a row
  confirmed,  \* totals of confirmed payments, by sender and recipient
  call        \* the local state of every handler execution

vars == <<members, expenses, splits, used, confirmed, call>>

-----------------------------------------------------------------------------

\* an expense as a handler computes it, and as the table accepts it
Draft   == [paidBy : User, amount : Int, type : SplitType]
Expense == [paidBy : User, amount : Nat \ {0}, type : SplitType]

IsLocal(l) ==
  /\ l.at \in {"idle", "write", "readback"}
  /\ l.op \in {"none", "create", "update", "delete"}
  /\ l.eid \in ExpenseId \cup {None}
  /\ l.row \in Draft \cup {Absent}
  /\ IsAmounts(l.shares)
  /\ l.inRange \in BOOLEAN

Idle  == [at |-> "idle", op |-> "none", eid |-> None, row |-> Absent,
          shares |-> NoShares, inRange |-> TRUE]

Calling(c, step) == call[c].at = step
Return(c)        == call' = [call EXCEPT ![c] = Idle]
Exists(e)        == expenses[e] # Absent

\* CHECK (amount > 0) of the expense, CHECK (amount >= 0) of its splits, and
\* what the CHECK of their percentages says
RowAccepted(l) ==
  /\ l.row.amount > 0
  /\ \A u \in DOMAIN l.shares : l.shares[u] >= 0
  /\ l.inRange

-----------------------------------------------------------------------------
(* The reads of a handler *)

Given(new, old) == IF new = None THEN old ELSE new

\* The payer is the caller unless the request names another user, who must
\* then be a member.
PayerAccepted(u, named) == named \in {None, u} \cup members

\* The row, the amount of which is in parts, with its splits, to be written.
ToWrite(op, eid, row, input) ==
  [at |-> "write", op |-> op, eid |-> eid,
   row |-> [row EXCEPT !.amount = InCents(@)],
   shares |-> calculateSplits(row.type, row.amount, input, members),
   inRange |-> PercentagesAccepted(row.type, row.amount, input)]

CreateReads(c, u, named, req) ==
  /\ Calling(c, "idle")
  /\ req.amount > 0
  /\ u \in members
  /\ PayerAccepted(u, named)
  /\ SplitsAccepted(req.type, req.amount, req.input, members)
  /\ LET row == [paidBy |-> Given(named, u), amount |-> req.amount,
                 type |-> req.type]
     IN call' = [call EXCEPT ![c] = ToWrite("create", None, row, req.input)]
  /\ UNCHANGED <<members, expenses, splits, used, confirmed>>

\* Variant that takes the payer of the request even when it has none.
EditedNoDefault(e, named, ch) ==
  [paidBy |-> named, amount |-> Given(ch.amount, Parts * expenses[e].amount),
   type |-> Given(ch.type, expenses[e].type)]

\* applyExpenseUpdates on the copy that GetByID returned
Edited(e, named, ch) == [paidBy |-> Given(named, expenses[e].paidBy),
                         amount |-> Given(ch.amount, Parts * expenses[e].amount),
                         type   |-> Given(ch.type, expenses[e].type)]

UpdateReads(c, u, e, named, ch) ==
  /\ Calling(c, "idle")
  /\ u \in members
  /\ Exists(e)
  /\ PayerAccepted(u, named)
  /\ LET row == Edited(e, named, ch)
     IN /\ SplitsAccepted(row.type, row.amount, ch.input, members)
        /\ call' = [call EXCEPT ![c] = ToWrite("update", e, row, ch.input)]
  /\ UNCHANGED <<members, expenses, splits, used, confirmed>>

DeleteReads(c, u, e) ==
  /\ Calling(c, "idle")
  /\ u \in members
  /\ Exists(e)
  /\ call' = [call EXCEPT ![c] = [Idle EXCEPT !.at = "write",
                                    !.op = "delete", !.eid = e]]
  /\ UNCHANGED <<members, expenses, splits, used, confirmed>>

-----------------------------------------------------------------------------
(* The transactions of ExpenseRepository *)

Create(c) ==
  /\ Calling(c, "write")
  /\ call[c].op = "create"
  /\ IF RowAccepted(call[c])
     THEN \E e \in ExpenseId \ used :
            /\ expenses' = [expenses EXCEPT ![e] = call[c].row]
            /\ splits' = [splits EXCEPT ![e] = call[c].shares]
            /\ used' = used \cup {e}
            /\ call' = [call EXCEPT ![c].at = "readback", ![c].eid = e]
     ELSE Return(c) /\ UNCHANGED <<expenses, splits, used>>
  /\ UNCHANGED <<members, confirmed>>

\* Variant that replaces the splits only when the new ones are not empty.
RewriteNonEmpty(e, row, shares) ==
  /\ expenses' = [expenses EXCEPT ![e].amount = row.amount,
                                  ![e].type = row.type]
  /\ splits' = IF DOMAIN shares = {} THEN splits
               ELSE [splits EXCEPT ![e] = shares]

\* UPDATE expenses, DELETE and INSERT of the splits.  paid_by is not among
\* the columns written.
Rewrite(e, row, shares) ==
  /\ expenses' = [expenses EXCEPT ![e].amount = row.amount,
                                  ![e].type = row.type]
  /\ splits' = [splits EXCEPT ![e] = shares]

\* On an expense deleted since it was read, the UPDATE matches no row, and
\* only a split to insert makes the transaction fail, by its foreign key.
Update(c) ==
  /\ Calling(c, "write")
  /\ call[c].op = "update"
  /\ \/ /\ Exists(call[c].eid)
        /\ RowAccepted(call[c])
        /\ Rewrite(call[c].eid, call[c].row, call[c].shares)
        /\ call' = [call EXCEPT ![c].at = "readback"]
     \/ /\ ~Exists(call[c].eid)
        /\ call[c].shares = NoShares
        /\ call' = [call EXCEPT ![c].at = "readback"]
        /\ UNCHANGED <<expenses, splits>>
     \/ /\ IF Exists(call[c].eid)
           THEN ~RowAccepted(call[c])
           ELSE call[c].shares # NoShares
        /\ Return(c)
        /\ UNCHANGED <<expenses, splits>>
  /\ UNCHANGED <<members, used, confirmed>>

\* The splits go by ON DELETE CASCADE.
Delete(c) ==
  /\ Calling(c, "write")
  /\ call[c].op = "delete"
  /\ expenses' = [expenses EXCEPT ![call[c].eid] = Absent]
  /\ splits' = [splits EXCEPT ![call[c].eid] = NoShares]
  /\ Return(c)
  /\ UNCHANGED <<members, used, confirmed>>

\* Create and Update answer with the expense read again; expenseToProto
\* dereferences nil when it is gone, which ends the process.
ReadBack(c) ==
  /\ Calling(c, "readback")
  /\ IF Exists(call[c].eid) THEN Return(c)
                            ELSE call' = [d \in Call |-> Idle]
  /\ UNCHANGED <<members, expenses, splits, used, confirmed>>

-----------------------------------------------------------------------------
(* The rest of the application *)

Abandon(c) ==
  /\ ~Calling(c, "idle")
  /\ Return(c)
  /\ UNCHANGED <<members, expenses, splits, used, confirmed>>

JoinOrLeave(u) ==
  /\ members' = (members \cup {u}) \ (members \cap {u})
  /\ UNCHANGED <<expenses, splits, used, confirmed, call>>

TotalConfirmed == SumFunction([u \in User |-> PaymentsMade(confirmed, u)])

\* The payments confirmed from u to v now total n.
SetConfirmed(u, v, n) ==
  /\ confirmed' = [confirmed EXCEPT ![u][v] = n]
  /\ TotalConfirmed' <= MaxPaid
  /\ UNCHANGED <<members, expenses, splits, used, call>>

-----------------------------------------------------------------------------

Init ==
  /\ members = User
  /\ expenses = [e \in ExpenseId |-> Absent]
  /\ splits = [e \in ExpenseId |-> NoShares]
  /\ used = {}
  /\ confirmed = [u \in User |-> [v \in User |-> 0]]
  /\ call = [c \in Call |-> Idle]

Next ==
  \/ \E c \in Call :
       \/ \E u \in Caller, named \in Designated \cup {None} :
            \/ \E req \in NewExpense : CreateReads(c, u, named, req)
            \/ \E e \in ExpenseId, ch \in Change :
                 UpdateReads(c, u, e, named, ch)
       \/ \E u \in Caller, e \in ExpenseId : DeleteReads(c, u, e)
       \/ Create(c)
       \/ Update(c)
       \/ Delete(c)
       \/ ReadBack(c)
       \/ Abandon(c)
  \/ \E u \in Movers : JoinOrLeave(u)
  \/ \E p \in Paying, n \in 0..MaxPaid : SetConfirmed(p[1], p[2], n)

Spec == Init /\ [][Next]_vars

-----------------------------------------------------------------------------
(* Properties *)

\* The tables and calls hold what their columns and fields can.
TypeOK ==
  /\ members \in SUBSET User
  /\ expenses \in [ExpenseId -> Expense \cup {Absent}]
  /\ \A e \in ExpenseId : IsShares(splits[e])
  /\ used \in SUBSET ExpenseId
  /\ confirmed \in [User -> [User -> Nat]]
  /\ \A c \in Call : IsLocal(call[c])

\* How far the splits of an expense may sum from its amount, in halves of a
\* hundredth of a percent of a cent: rounding gives half a cent for the amount
\* and for every share, percentages are accepted within a hundredth of a
\* percent of the amount before it was rounded, custom amounts within a cent.
HalfCent == 10000

Tolerance(type, amount, shares) ==
  LET rounding == HalfCent * (Cardinality(DOMAIN shares) + 1)
  IN  CASE type = "equal"      -> rounding
        [] type = "percentage" -> rounding + 2 * amount + 1
        [] type = "custom"     -> rounding + 2 * HalfCent
        [] OTHER               -> 0

Missing(amount, shares) == 2 * HalfCent * Magnitude(amount - SumFunction(shares))

Kept(e) == expenses[e].amount - SumFunction(splits[e])

\* Whatever updates and deletes race, the splits of an expense are those of
\* its amount and kind: they cover it but for what rounding and the tests of
\* percentages and custom amounts let pass, payer_only has none, and no split
\* survives its expense.
SplitsFitExpense ==
  \A e \in ExpenseId :
    IF ~Exists(e) \/ expenses[e].type = "payer_only"
    THEN splits[e] = NoShares
    ELSE Missing(expenses[e].amount, splits[e])
           <= Tolerance(expenses[e].type, expenses[e].amount, splits[e])

Net(u)  == NetBalance(expenses, splits, confirmed, u)
Debt(u, v) == RawDebt(expenses, splits, u, v)

Involved ==
  (UNION {{expenses[e].paidBy} \cup DOMAIN splits[e] : e \in Rows(expenses)})
    \cup {u \in User : \E v \in User : confirmed[u][v] + confirmed[v][u] > 0}

\* While everyone involved is still a member, the balances listed for the
\* members cancel out, up to what the splits leave to the payers: what they
\* miss of an amount, and whole payer_only expenses.
BalancesCancel ==
  Involved \subseteq members =>
    SumFunction([u \in members |-> Net(u)])
      = SumFunction([e \in Rows(expenses) |-> Kept(e)])

\* The two views of GetBalances tell the same story: before any payment, the
\* balance of a user is what the raw debts owe him, less what he owes, plus
\* what his own expenses leave to him; they differ by the debts of one cent
\* that GetRawDebts drops.
DebtsExplainBalances ==
  TotalConfirmed = 0 =>
    \A u \in User :
      Magnitude(Net(u)
                - SumFunction([v \in User |-> Debt(v, u) - Debt(u, v)])
                - SumFunction([e \in RowsPaidBy(expenses, u) |-> Kept(e)]))
        <= Cardinality(User) - 1

\* What proto/expense.proto says of paid_by in UpdateExpenseRequest, "User ID
\* of the payer (overrides current payer)": an update that succeeds leaves
\* the expense with the payer it resolved.
PayerOverridden ==
  [][\A c \in Call :
       /\ call[c].op = "update" /\ call[c].at = "write"
       /\ call'[c].at = "readback"
       /\ Exists(call[c].eid)
       => expenses'[call[c].eid].paidBy = call[c].row.paidBy]_vars

\* What proto/expense.proto says of payer_only, "Entire amount stays with
\* payer": while everyone involved is a member, nobody is credited with more
\* than the others owe, beyond what splits may miss of an amount.
CreditIsOwed ==
  Involved \subseteq members =>
    2 * HalfCent * Magnitude(SumFunction([u \in members |-> Net(u)]))
      <= SumFunction([e \in Rows(expenses) |->
           Tolerance(expenses[e].type, expenses[e].amount, splits[e])])

\* What a comment in GetBalanceHistory says, "Payments made (positive for
\* payer)", as the net balance has it: when a payment of u is confirmed, the
\* balance at the end of the history of u goes up.
PaymentRaisesHistory ==
  [][\A u, v \in User :
       confirmed'[u][v] > confirmed[u][v]
       => HistoryBalance(expenses', splits', confirmed', u)
            > HistoryBalance(expenses, splits, confirmed, u)]_vars

=============================================================================
