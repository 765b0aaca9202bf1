-------------------------------- MODULE Funds --------------------------------
(***************************************************************************)
(* Common funds of a colocation: FundService over the tables common_funds  *)
(* and fund_contributions.  The total of a fund is stored in its row, and  *)
(* every contribution moves it.  Handlers test a copy of the row and then  *)
(* write, in a statement or a transaction of its own.                      *)
(*                                                                         *)
(* No migration creates these tables.  The model takes from their use that *)
(* contributions refer to their fund and go with it (ON DELETE CASCADE).   *)
(* Names, descriptions, notes and target amounts play no part.             *)
(***************************************************************************)
EXTENDS Integers, FiniteSets, Functions

CONSTANTS
  Fund,              \* ids of funds
  Member,            \* the members of the colocation
  Amount,            \* amounts in cents that members pay in
  FundCall,          \* slots for handler executions in flight
  MaxContributions,  \* bound on the contributions ever made
  NoFund             \* no row, or nothing read

ASSUME AmountAssumption == Amount \subseteq Nat \ {0}
ASSUME ContributionsAssumption == MaxContributions \in Nat

VARIABLES
  fund,           \* the row of every fund
  made,           \* the ids given to funds so far
  contributions,  \* the rows of fund_contributions
  paid,           \* number of contributions made so far
  fcall,          \* the local state of every handler execution
  overtaken       \* of every fund, the calls in flight when it was closed last

fundVars == <<fund, made, contributions, paid, fcall, overtaken>>

-----------------------------------------------------------------------------
(* Data *)

FundRow == [creator : Member, total : Int, active : BOOLEAN]

Contribution == [no : 1..MaxContributions, fund : Fund, user : Member,
                 amount : Amount]

ASSUME NoFundAssumption == NoFund \notin FundRow \cup Contribution

\* read: is_active as an Update has read it.  wants: what it asks for.
\* contribution: the row to add or to remove.
FundLocal == [at : {"idle", "update", "delete", "add", "remove"},
              fund : Fund \cup {NoFund}, read : BOOLEAN,
              wants : {"same", "open", "closed"},
              user : Member \cup {NoFund}, amount : Amount \cup {0},
              contribution : Contribution \cup {NoFund}]

FundIdle == [at |-> "idle", fund |-> NoFund, read |-> FALSE,
             wants |-> "same", user |-> NoFund, amount |-> 0,
             contribution |-> NoFund]

ContributionsTo(f) == {k \in contributions : k.fund = f}

Closed(f) == fund[f] # NoFund /\ ~fund[f].active

\* A call that ends is no longer one that a closing has overtaken.
FundReturns(c) ==
  /\ fcall' = [fcall EXCEPT ![c] = FundIdle]
  /\ overtaken' = [f \in Fund |-> overtaken[f] \ {c}]

-----------------------------------------------------------------------------
(* Create, Update and Delete *)

\* The column defaults make the new fund empty and active.
CreateFund(f, u) ==
  /\ f \notin made
  /\ fund' = [fund EXCEPT ![f] = [creator |-> u, total |-> 0, active |-> TRUE]]
  /\ made' = made \cup {f}
  /\ UNCHANGED <<contributions, paid, fcall, overtaken>>

\* GetByID: the fund exists and the caller is its creator.
UpdateFundReads(c, f, wants) ==
  /\ fcall[c].at = "idle"
  /\ fund[f] # NoFund
  /\ fcall' = [fcall EXCEPT ![c] =
                 [FundIdle EXCEPT !.at = "update", !.fund = f,
                                  !.read = fund[f].active, !.wants = wants]]
  /\ UNCHANGED <<fund, made, contributions, paid, overtaken>>

\* Variant in which an Update that does not mention is_active opens the fund.
ActiveOfUpdateDefault(c) == fcall[c].wants # "closed"

\* applied to the copy: an absent is_active keeps what was read
ActiveOfUpdate(c) ==
  CASE fcall[c].wants = "same"   -> fcall[c].read
    [] fcall[c].wants = "open"   -> TRUE
    [] fcall[c].wants = "closed" -> FALSE

\* The UPDATE writes every column that may change, is_active among them, and
\* leaves current_amount alone.
UpdateFundWrites(c) ==
  LET f      == fcall[c].fund
      active == ActiveOfUpdate(c)
  IN  /\ fcall[c].at = "update"
      /\ fund' = [fund EXCEPT ![f] =
                    IF @ = NoFund THEN @ ELSE [@ EXCEPT !.active = active]]
      /\ fcall' = [fcall EXCEPT ![c] = FundIdle]
      /\ overtaken' =
           [g \in Fund |->
              IF g = f /\ fund[f] # NoFund /\ fund[f].active /\ ~active
              THEN {d \in FundCall : fcall[d].at # "idle"} \ {c}
              ELSE overtaken[g] \ {c}]
      /\ UNCHANGED <<made, contributions, paid>>

DeleteFundReads(c, f) ==
  /\ fcall[c].at = "idle"
  /\ fund[f] # NoFund
  /\ fcall' = [fcall EXCEPT ![c] = [FundIdle EXCEPT !.at = "delete", !.fund = f]]
  /\ UNCHANGED <<fund, made, contributions, paid, overtaken>>

DeleteFundWrites(c) ==
  LET f == fcall[c].fund
  IN  /\ fcall[c].at = "delete"
      /\ fund' = [fund EXCEPT ![f] = NoFund]
      /\ contributions' = contributions \ ContributionsTo(f)
      /\ FundReturns(c)
      /\ UNCHANGED <<made, paid>>

-----------------------------------------------------------------------------
(* Contributions *)

\* Variant without the test of is_active.
AcceptsAlways(f) == fund[f] # NoFund

Accepts(f) == fund[f] # NoFund /\ fund[f].active

AddReads(c, f, u, amount) ==
  /\ fcall[c].at = "idle"
  /\ Accepts(f)
  /\ fcall' = [fcall EXCEPT ![c] =
                 [FundIdle EXCEPT !.at = "add", !.fund = f, !.user = u,
                                  !.amount = amount]]
  /\ UNCHANGED <<fund, made, contributions, paid, overtaken>>

\* The transaction inserts the row and adds to the total as it is then.
\* Without the fund the foreign key makes it fail, which FundAbandon covers.
AddWrites(c) ==
  LET f == fcall[c].fund
  IN  /\ fcall[c].at = "add"
      /\ paid < MaxContributions
      /\ fund[f] # NoFund
      /\ contributions' = contributions \cup
           {[no |-> paid + 1, fund |-> f, user |-> fcall[c].user,
             amount |-> fcall[c].amount]}
      /\ paid' = paid + 1
      /\ fund' = [fund EXCEPT ![f].total = @ + fcall[c].amount]
      /\ FundReturns(c)
      /\ UNCHANGED made

\* GetContribution: only the contributor goes on.
RemoveReads(c, k) ==
  /\ fcall[c].at = "idle"
  /\ k \in contributions
  /\ fcall' = [fcall EXCEPT ![c] =
                 [FundIdle EXCEPT !.at = "remove", !.fund = k.fund,
                                  !.contribution = k]]
  /\ UNCHANGED <<fund, made, contributions, paid, overtaken>>

\* Variant that does not look at the number of rows the DELETE has matched.
RemovesAlways(c) == fcall[c].at = "remove"

\* A DELETE that matches no row makes the transaction fail: see FundAbandon.
Removes(c) == fcall[c].at = "remove" /\ fcall[c].contribution \in contributions

RemoveWrites(c) ==
  LET k == fcall[c].contribution
  IN  /\ Removes(c)
      /\ contributions' = contributions \ {k}
      /\ fund' = IF fund[k.fund] = NoFund THEN fund
                 ELSE [fund EXCEPT ![k.fund].total = @ - k.amount]
      /\ FundReturns(c)
      /\ UNCHANGED <<made, paid>>

\* A statement fails, the client goes away or the process ends: what the
\* transaction has done is rolled back.
FundAbandon(c) ==
  /\ fcall[c].at # "idle"
  /\ FundReturns(c)
  /\ UNCHANGED <<fund, made, contributions, paid>>

-----------------------------------------------------------------------------
FundsInit ==
  /\ fund = [f \in Fund |-> NoFund]
  /\ made = {}
  /\ contributions = {}
  /\ paid = 0
  /\ fcall = [c \in FundCall |-> FundIdle]
  /\ overtaken = [f \in Fund |-> {}]

FundStep(c) ==
  \/ \E f \in Fund, wants \in {"same", "open", "closed"} :
       UpdateFundReads(c, f, wants)
  \/ UpdateFundWrites(c)
  \/ \E f \in Fund : DeleteFundReads(c, f)
  \/ DeleteFundWrites(c)
  \/ \E f \in Fund, u \in Member, amount \in Amount : AddReads(c, f, u, amount)
  \/ AddWrites(c)
  \/ \E k \in contributions : RemoveReads(c, k)
  \/ RemoveWrites(c)
  \/ FundAbandon(c)

FundsNext ==
  \/ \E f \in Fund, u \in Member : CreateFund(f, u)
  \/ \E c \in FundCall : FundStep(c)

FundsSpec == FundsInit /\ [][FundsNext]_fundVars

-----------------------------------------------------------------------------
(* Properties *)

FundsTypeOK ==
  /\ fund \in [Fund -> FundRow \cup {NoFund}]
  /\ made \subseteq Fund
  /\ contributions \subseteq Contribution
  /\ paid \in 0..MaxContributions
  /\ fcall \in [FundCall -> FundLocal]
  /\ overtaken \in [Fund -> SUBSET FundCall]

\* The total stored with a fund is the sum of the contributions stored for
\* it, whatever contributions, withdrawals and edits run at the same time.
TotalIsSum ==
  \A f \in Fund : fund[f] # NoFund =>
    fund[f].total = SumFunction([k \in ContributionsTo(f) |-> k.amount])

\* Money goes into a closed fund, or the fund opens again unasked, only by a
\* call that had read the fund before it was closed: after the calls in
\* flight at the closing have ended, it stays as it is.
ClosedStaysClosed ==
  [][\A f \in Fund :
       /\ Closed(f)
       /\ fund'[f] # NoFund
       /\ fund'[f].active \/ fund'[f].total > fund[f].total
       => \E c \in FundCall :
            /\ fcall'[c] # fcall[c]
            /\ fcall[c].fund = f
            /\ \/ c \in overtaken[f]
               \/ fcall[c].at = "update" /\ fcall[c].wants = "open"]_fundVars

=============================================================================
