----------------------------- MODULE ApartProofs -----------------------------
(***************************************************************************)
(* Proofs about the four components of MCApart, for any values of their    *)
(* constants.  Each part is about one of them and its own specification.   *)
(*                                                                         *)
(* Funds: a fund exists only under an id that has been given out, a call   *)
(* that still believes in a fund that is closed by now was in flight when  *)
(* it was closed (FundsInv), and the contributions that stand carry        *)
(* different numbers (SumInv), which is what makes their sum move with the *)
(* total of the fund.                                                      *)
(*                                                                         *)
(* Accounts: what a call in flight still goes by, the password it has read *)
(* and the account it has seen active (AccountsInv).  Where the row says   *)
(* otherwise by now, the call was in flight when the row was changed.      *)
(*                                                                         *)
(* Recurring: RecurringInv counts, for every date, the expenses booked and *)
(* those a run is about to book.  A date behind the due date of the        *)
(* template is claimed once, and once more for each run that was lost or   *)
(* that crossed another.                                                   *)
(*                                                                         *)
(* NotificationHub: HubInv describes the subscriber slice as Go has it, a  *)
(* header over an array that several headers may share.  A broadcast works *)
(* on a copy of the header, and the cells it covers hold what they held    *)
(* until an Unsubscribe moves them.                                        *)
(***************************************************************************)
EXTENDS MCApart, SumTheorems, SequenceTheorems

-----------------------------------------------------------------------------
(* Funds *)

\* A call that goes by a copy of its fund that says it is active.
Believes(c) == \/ fcall[c].at = "add"
               \/ fcall[c].at = "update" /\ fcall[c].read

BelieversOvertaken ==
  \A c \in FundCall : \A f \in Fund :
    (Believes(c) /\ fcall[c].fund = f /\ Closed(f)) => c \in overtaken[f]

MadeFunds == \A f \in Fund : fund[f] # NoFund => f \in made

\* What a call in flight holds.
CallsAimed ==
  \A c \in FundCall :
    /\ fcall[c].at # "idle" => fcall[c].fund \in Fund
    /\ fcall[c].at = "add" => fcall[c].user \in Member /\ fcall[c].amount \in Amount

FundsInv == FundsTypeOK /\ BelieversOvertaken /\ MadeFunds /\ CallsAimed

\* Contributions are finitely many, numbered as they were made, and each of
\* them is to a fund that exists.
ContributionsStand ==
  /\ IsFiniteSet(contributions)
  /\ \A k \in contributions : k.no <= paid /\ fund[k.fund] # NoFund

SumInv == ContributionsStand /\ TotalIsSum

-----------------------------------------------------------------------------
(* Lemmas about the data *)

\* An idle call.
LEMMA FundIdleIsLocal == FundIdle \in FundLocal /\ FundIdle.at = "idle"
BY DEF FundIdle, FundLocal

\* What the rows of funds become.
LEMMA FundRows ==
  /\ \A f \in FundRow : f # NoFund
  /\ \A u \in Member : [creator |-> u, total |-> 0, active |-> TRUE] \in FundRow
  /\ \A row \in FundRow, b \in BOOLEAN :
       LET new == [row EXCEPT !.active = b]
       IN  new \in FundRow /\ new.active = b /\ new.total = row.total
  /\ \A row \in FundRow, n \in Int :
       LET new == [row EXCEPT !.total = n]
       IN  new \in FundRow /\ new.active = row.active /\ new.total = n
BY NoFundAssumption DEF FundRow

\* A contribution.
LEMMA ContributionFields ==
  ASSUME NEW k \in Contribution
  PROVE  k.fund \in Fund /\ k.amount \in Nat \ {0}
BY AmountAssumption DEF Contribution

-----------------------------------------------------------------------------
\* No fund yet, and no call that believes in one.
LEMMA FundsInitInv == FundsInit => FundsInv
<1> SUFFICES ASSUME FundsInit  PROVE FundsInv
  OBVIOUS
<1>1. FundsTypeOK
  BY FundIdleIsLocal, ContributionsAssumption DEF FundsInit, FundsTypeOK
<1>2. BelieversOvertaken
  BY DEF FundsInit, BelieversOvertaken, Believes, FundIdle
<1>3. MadeFunds
  BY DEF FundsInit, MadeFunds
<1>4. CallsAimed
  BY DEF FundsInit, CallsAimed, FundIdle
<1> QED  BY <1>1, <1>2, <1>3, <1>4 DEF FundsInv

\* A call that ends believes in nothing, and the other calls stay overtaken.
LEMMA ReturnKeepsInv ==
  ASSUME FundsInv, NEW c \in FundCall, FundReturns(c),
         \A f \in Fund : Closed(f)' => Closed(f)
  PROVE  /\ BelieversOvertaken'
         /\ CallsAimed'
         /\ fcall' \in [FundCall -> FundLocal]
         /\ overtaken' \in [Fund -> SUBSET FundCall]
<1>1. /\ fcall' \in [FundCall -> FundLocal]
      /\ overtaken' \in [Fund -> SUBSET FundCall]
  BY FundIdleIsLocal DEF FundReturns, FundsInv, FundsTypeOK
<1>2. BelieversOvertaken'
  <2> SUFFICES ASSUME NEW d \in FundCall, NEW f \in Fund,
                      Believes(d)', fcall'[d].fund = f, Closed(f)'
               PROVE  d \in overtaken'[f]
    BY DEF BelieversOvertaken
  <2>1. d # c /\ fcall'[d] = fcall[d]
    BY FundIdleIsLocal DEF FundReturns, FundsInv, FundsTypeOK, Believes
  <2>2. Believes(d) /\ fcall[d].fund = f /\ Closed(f)
    BY <2>1 DEF Believes
  <2>3. d \in overtaken[f]
    BY <2>2 DEF FundsInv, BelieversOvertaken
  <2> QED  BY <2>1, <2>3 DEF FundReturns
<1>3. CallsAimed'
  BY FundIdleIsLocal DEF FundReturns, FundsInv, FundsTypeOK, CallsAimed
<1> QED  BY <1>1, <1>2, <1>3

\* A call that starts believes, if at all, in a fund that is active.
LEMMA StartKeepsInv ==
  ASSUME FundsInv, NEW c \in FundCall, NEW new \in FundLocal,
         fcall' = [fcall EXCEPT ![c] = new],
         UNCHANGED <<fund, made, contributions, paid, overtaken>>,
         (new.at = "add" \/ (new.at = "update" /\ new.read))
           => ~Closed(new.fund),
         new.fund \in Fund,
         new.at = "add" => new.user \in Member /\ new.amount \in Amount
  PROVE  FundsInv'
<1>1. FundsTypeOK'
  BY DEF FundsInv, FundsTypeOK
<1>2. MadeFunds'
  BY DEF FundsInv, MadeFunds
<1>3. BelieversOvertaken'
  <2> SUFFICES ASSUME NEW d \in FundCall, NEW f \in Fund,
                      Believes(d)', fcall'[d].fund = f, Closed(f)'
               PROVE  d \in overtaken'[f]
    BY DEF BelieversOvertaken
  <2>1. Closed(f)
    BY DEF Closed
  <2>2. CASE d = c
    <3>1. fcall'[d] = new
      BY <2>2 DEF FundsInv, FundsTypeOK
    <3> QED  BY <2>1, <3>1 DEF Believes
  <2>3. CASE d # c
    <3>1. fcall'[d] = fcall[d]
      BY <2>3 DEF FundsInv, FundsTypeOK
    <3> QED  BY <2>1, <3>1 DEF FundsInv, BelieversOvertaken, Believes
  <2> QED  BY <2>2, <2>3
<1>4. CallsAimed'
  BY DEF FundsInv, FundsTypeOK, CallsAimed
<1> QED  BY <1>1, <1>2, <1>3, <1>4 DEF FundsInv

-----------------------------------------------------------------------------
(* The steps *)

\* A fund is made under an id that was not given out.
LEMMA CreateFundInv ==
  ASSUME FundsInv, NEW f \in Fund, NEW u \in Member, CreateFund(f, u)
  PROVE  FundsInv'
<1> DEFINE row == [creator |-> u, total |-> 0, active |-> TRUE]
<1>1. row \in FundRow /\ row.active /\ row # NoFund
  BY FundRows
<1>2. /\ fund' = [fund EXCEPT ![f] = row] /\ made' = made \cup {f}
      /\ UNCHANGED <<contributions, paid, fcall, overtaken>>
  BY DEF CreateFund
<1> HIDE DEF row
<1>3. FundsTypeOK' /\ MadeFunds'
  BY <1>1, <1>2 DEF FundsInv, FundsTypeOK, MadeFunds
<1>4. \A g \in Fund : Closed(g)' => Closed(g)
  BY <1>1, <1>2 DEF Closed, FundsInv, FundsTypeOK
<1>5. BelieversOvertaken'
  BY <1>2, <1>4 DEF FundsInv, BelieversOvertaken, Believes
<1>6. CallsAimed'
  BY <1>2 DEF FundsInv, CallsAimed
<1> QED  BY <1>3, <1>5, <1>6 DEF FundsInv

\* What an Update writes to is_active is a truth value.
LEMMA ActiveIsBoolean ==
  ASSUME FundsInv, NEW c \in FundCall
  PROVE  ActiveOfUpdate(c) \in BOOLEAN
<1>1. fcall[c].read \in BOOLEAN /\ fcall[c].wants \in {"same", "open", "closed"}
  BY DEF FundsInv, FundsTypeOK, FundLocal
<1>2. CASE fcall[c].wants = "same"
  BY <1>1, <1>2 DEF ActiveOfUpdate
<1>3. CASE fcall[c].wants = "open"
  BY <1>3 DEF ActiveOfUpdate
<1>4. CASE fcall[c].wants = "closed"
  BY <1>4 DEF ActiveOfUpdate
<1> QED  BY <1>1, <1>2, <1>3, <1>4

\* An update that reopens a fund was in flight when it was closed.
LEMMA UpdateFundInv ==
  ASSUME FundsInv, NEW c \in FundCall, UpdateFundWrites(c)
  PROVE  FundsInv'
<1> DEFINE f == fcall[c].fund
           active == ActiveOfUpdate(c)
           closing == fund[f] # NoFund /\ fund[f].active /\ ~active
<1>1. /\ fcall[c].at = "update"
      /\ fund' = [fund EXCEPT ![f] =
                    IF @ = NoFund THEN @ ELSE [@ EXCEPT !.active = active]]
      /\ fcall' = [fcall EXCEPT ![c] = FundIdle]
      /\ overtaken' =
           [g \in Fund |-> IF g = f /\ closing
                           THEN {d \in FundCall : fcall[d].at # "idle"} \ {c}
                           ELSE overtaken[g] \ {c}]
      /\ UNCHANGED <<made, contributions, paid>>
  BY DEF UpdateFundWrites
<1>2. active \in BOOLEAN
  BY <1>1, ActiveIsBoolean
<1> HIDE DEF active, closing
<1>3. fund' \in [Fund -> FundRow \cup {NoFund}]
  <2>1. CASE fund[f] = NoFund
    BY <1>1, <2>1 DEF FundsInv, FundsTypeOK
  <2>2. CASE fund[f] # NoFund
    <3>1. f \in Fund
      BY <1>1 DEF FundsInv, CallsAimed
    <3>2. fund[f] \in FundRow
      BY <2>2, <3>1 DEF FundsInv, FundsTypeOK
    <3>3. [fund[f] EXCEPT !.active = active] \in FundRow
      BY <1>2, <3>2 DEF FundRow
    <3> QED  BY <1>1, <2>2, <3>1, <3>3 DEF FundsInv, FundsTypeOK
  <2> QED  BY <2>1, <2>2
<1>4. FundsTypeOK'
  <2>1. /\ fcall' \in [FundCall -> FundLocal]
        /\ overtaken' \in [Fund -> SUBSET FundCall]
    BY <1>1, FundIdleIsLocal DEF FundsInv, FundsTypeOK
  <2> QED  BY <1>1, <1>3, <2>1 DEF FundsInv, FundsTypeOK
<1>5. MadeFunds'
  BY <1>1 DEF FundsInv, FundsTypeOK, MadeFunds
<1>6. BelieversOvertaken'
  <2> SUFFICES ASSUME NEW d \in FundCall, NEW g \in Fund,
                      Believes(d)', fcall'[d].fund = g, Closed(g)'
               PROVE  d \in overtaken'[g]
    BY DEF BelieversOvertaken
  <2>1. d # c /\ fcall'[d] = fcall[d]
    BY <1>1, FundIdleIsLocal DEF FundsInv, FundsTypeOK, Believes
  <2>2. Believes(d) /\ fcall[d].fund = g /\ fcall[d].at # "idle"
    BY <2>1 DEF Believes
  <2>3. CASE g = f /\ closing
    BY <1>1, <2>1, <2>2, <2>3
  <2>4. CASE ~(g = f /\ closing)
    <3>1. Closed(g)
      <4>1. CASE g # f
        BY <1>1, <4>1 DEF Closed, FundsInv, FundsTypeOK
      <4>2. CASE g = f
        <5>1. fund[g] \in FundRow
          BY <1>1, <4>2 DEF Closed, FundsInv, FundsTypeOK
        <5>2. fund'[g].active = active /\ fund[g] # NoFund
          BY <1>1, <1>2, <4>2, <5>1, FundRows DEF FundsInv, FundsTypeOK
        <5> QED  BY <2>4, <4>2, <5>2 DEF Closed, closing
      <4> QED  BY <4>1, <4>2
    <3>2. d \in overtaken[g]
      BY <2>2, <3>1 DEF FundsInv, BelieversOvertaken
    <3> QED  BY <1>1, <2>1, <2>4, <3>2
  <2> QED  BY <2>3, <2>4
<1>7. CallsAimed'
  BY <1>1, FundIdleIsLocal DEF FundsInv, FundsTypeOK, CallsAimed
<1> QED  BY <1>4, <1>5, <1>6, <1>7 DEF FundsInv

\* A closed fund overtakes the calls in flight.
LEMMA DeleteFundInv ==
  ASSUME FundsInv, NEW c \in FundCall, DeleteFundWrites(c)
  PROVE  FundsInv'
<1>1. /\ fund' = [fund EXCEPT ![fcall[c].fund] = NoFund]
      /\ contributions' \subseteq contributions
      /\ FundReturns(c)
      /\ UNCHANGED <<made, paid>>
  BY DEF DeleteFundWrites
<1>2. \A g \in Fund : Closed(g)' => Closed(g)
  BY <1>1 DEF Closed, FundsInv, FundsTypeOK
<1>3. /\ BelieversOvertaken' /\ CallsAimed'
      /\ fcall' \in [FundCall -> FundLocal]
      /\ overtaken' \in [Fund -> SUBSET FundCall]
  BY <1>1, <1>2, ReturnKeepsInv
<1>4. FundsTypeOK' /\ MadeFunds'
  BY <1>1, <1>3 DEF FundsInv, FundsTypeOK, MadeFunds
<1> QED  BY <1>3, <1>4 DEF FundsInv

\* A contribution to a closed fund comes from a call that was overtaken.
LEMMA AddInv ==
  ASSUME FundsInv, NEW c \in FundCall, AddWrites(c)
  PROVE  /\ FundsInv'
         /\ fcall[c].at = "add"
         /\ \A g \in Fund : fund'[g] # NoFund =>
              /\ fund[g] # NoFund /\ fund'[g].active = fund[g].active
              /\ g # fcall[c].fund => fund'[g] = fund[g]
<1> DEFINE f == fcall[c].fund
           amount == fcall[c].amount
           k == [no |-> paid + 1, fund |-> f, user |-> fcall[c].user,
                 amount |-> amount]
<1>1. /\ fcall[c].at = "add" /\ paid < MaxContributions /\ fund[f] # NoFund
      /\ contributions' = contributions \cup {k}
      /\ paid' = paid + 1
      /\ fund' = [fund EXCEPT ![f].total = @ + amount]
      /\ FundReturns(c)
      /\ UNCHANGED made
  BY DEF AddWrites
<1>2. f \in Fund /\ fcall[c].user \in Member /\ amount \in Amount
  BY <1>1 DEF FundsInv, CallsAimed
<1>3. paid' \in 0..MaxContributions /\ k \in Contribution
  BY <1>1, <1>2, ContributionsAssumption
  DEF FundsInv, FundsTypeOK, Contribution
<1> HIDE DEF k, f, amount
<1>4. amount \in Int
  BY <1>2, AmountAssumption
<1>5. fund[f] \in FundRow
  BY <1>1, <1>2 DEF FundsInv, FundsTypeOK
<1>6. fund[f].total + amount \in Int
  BY <1>4, <1>5 DEF FundRow
<1>7. fund' = [fund EXCEPT ![f] = [@ EXCEPT !.total = fund[f].total + amount]]
  BY <1>1, <1>2 DEF FundsInv, FundsTypeOK
<1>8. /\ fund' \in [Fund -> FundRow \cup {NoFund}]
      /\ \A g \in Fund : fund'[g] # NoFund =>
           /\ fund[g] # NoFund /\ fund'[g].active = fund[g].active
           /\ g # f => fund'[g] = fund[g]
  BY <1>1, <1>2, <1>5, <1>6, <1>7, FundRows DEF FundsInv, FundsTypeOK
<1>9. \A g \in Fund : Closed(g)' => Closed(g)
  BY <1>8 DEF Closed
<1>10. /\ BelieversOvertaken' /\ CallsAimed'
       /\ fcall' \in [FundCall -> FundLocal]
       /\ overtaken' \in [Fund -> SUBSET FundCall]
  BY <1>1, <1>9, ReturnKeepsInv
<1>11. FundsTypeOK' /\ MadeFunds'
  BY <1>1, <1>3, <1>8, <1>10 DEF FundsInv, FundsTypeOK, MadeFunds
<1> QED  BY <1>1, <1>8, <1>10, <1>11 DEF FundsInv, f

\* A contribution goes and the total of its fund with it.
LEMMA RemoveInv ==
  ASSUME FundsInv, NEW c \in FundCall, RemoveWrites(c)
  PROVE  /\ FundsInv'
         /\ \A g \in Fund : fund'[g] # NoFund =>
              /\ fund[g] # NoFund /\ fund'[g].active = fund[g].active
              /\ fund'[g].total <= fund[g].total
<1> DEFINE k == fcall[c].contribution
           f == k.fund
           amount == k.amount
<1>1. /\ k \in contributions
      /\ contributions' = contributions \ {k}
      /\ FundReturns(c)
      /\ UNCHANGED <<made, paid>>
  BY DEF RemoveWrites, Removes
<1>2. f \in Fund /\ amount \in Nat \ {0}
  BY <1>1, ContributionFields DEF FundsInv, FundsTypeOK
<1>a. fund' = IF fund[f] = NoFund THEN fund
              ELSE [fund EXCEPT ![f].total = @ - amount]
  BY DEF RemoveWrites
<1> HIDE DEF k, f, amount
<1>3. CASE fund[f] = NoFund
  <2>1. fund' = fund
    BY <1>a, <1>3
  <2>2. \A g \in Fund : fund[g] # NoFund => fund[g].total \in Int
    BY DEF FundsInv, FundsTypeOK, FundRow
  <2>3. \A g \in Fund : Closed(g)' => Closed(g)
    BY <2>1 DEF Closed
  <2>4. /\ BelieversOvertaken' /\ CallsAimed'
        /\ fcall' \in [FundCall -> FundLocal]
        /\ overtaken' \in [Fund -> SUBSET FundCall]
    BY <1>1, <2>3, ReturnKeepsInv
  <2>5. FundsTypeOK' /\ MadeFunds'
    BY <1>1, <2>1, <2>4 DEF FundsInv, FundsTypeOK, MadeFunds
  <2> QED  BY <2>1, <2>2, <2>4, <2>5 DEF FundsInv
<1>4. CASE fund[f] # NoFund
  <2>1. fund[f] \in FundRow
    BY <1>2, <1>4 DEF FundsInv, FundsTypeOK
  <2>2. /\ fund[f].total \in Int /\ fund[f].total - amount \in Int
        /\ fund[f].total - amount <= fund[f].total
    BY <1>2, <2>1 DEF FundRow
  <2>3. fund' = [fund EXCEPT ![f] = [@ EXCEPT !.total = fund[f].total - amount]]
    BY <1>a, <1>2, <1>4 DEF FundsInv, FundsTypeOK
  <2>4. /\ fund' \in [Fund -> FundRow \cup {NoFund}]
        /\ \A g \in Fund : fund'[g] # NoFund =>
             /\ fund[g] # NoFund /\ fund'[g].active = fund[g].active
             /\ IF g = f THEN fund'[g].total = fund[f].total - amount
                         ELSE fund'[g] = fund[g]
    BY <1>2, <2>1, <2>2, <2>3, FundRows DEF FundsInv, FundsTypeOK
  <2>5. \A g \in Fund : fund[g] # NoFund => fund[g].total \in Int
    BY DEF FundsInv, FundsTypeOK, FundRow
  <2>6. \A g \in Fund : fund'[g] # NoFund => fund'[g].total <= fund[g].total
    BY <2>2, <2>4, <2>5
  <2>7. \A g \in Fund : Closed(g)' => Closed(g)
    BY <2>4 DEF Closed
  <2>8. /\ BelieversOvertaken' /\ CallsAimed'
        /\ fcall' \in [FundCall -> FundLocal]
        /\ overtaken' \in [Fund -> SUBSET FundCall]
    BY <1>1, <2>7, ReturnKeepsInv
  <2>9. FundsTypeOK' /\ MadeFunds'
    BY <1>1, <2>4, <2>8 DEF FundsInv, FundsTypeOK, MadeFunds
  <2> QED  BY <2>4, <2>6, <2>8, <2>9 DEF FundsInv
<1> QED  BY <1>3, <1>4

\* A call reads its fund.
LEMMA FundStartInv ==
  ASSUME FundsInv, NEW c \in FundCall,
         \/ \E f \in Fund, wants \in {"same", "open", "closed"} :
              UpdateFundReads(c, f, wants)
         \/ \E f \in Fund : DeleteFundReads(c, f)
         \/ \E f \in Fund, u \in Member, amount \in Amount :
              AddReads(c, f, u, amount)
         \/ \E k \in contributions : RemoveReads(c, k)
  PROVE  FundsInv' /\ UNCHANGED fund
<1>1. ASSUME NEW f \in Fund, NEW wants \in {"same", "open", "closed"},
             UpdateFundReads(c, f, wants)
      PROVE  FundsInv' /\ UNCHANGED fund
  <2> DEFINE new == [FundIdle EXCEPT !.at = "update", !.fund = f,
                                     !.read = fund[f].active, !.wants = wants]
  <2>1. fund[f] \in FundRow
    BY <1>1 DEF UpdateFundReads, FundsInv, FundsTypeOK
  <2>2. fund[f].active \in BOOLEAN
    BY <2>1 DEF FundRow
  <2>3. /\ new \in FundLocal /\ new.at = "update" /\ new.fund = f
        /\ new.read = fund[f].active
    BY <2>2 DEF FundIdle, FundLocal
  <2>4. /\ fcall' = [fcall EXCEPT ![c] = new]
        /\ UNCHANGED <<fund, made, contributions, paid, overtaken>>
    BY <1>1 DEF UpdateFundReads
  <2> HIDE DEF new
  <2>5. new.read => ~Closed(f)
    BY <2>3 DEF Closed
  <2> QED  BY <2>3, <2>4, <2>5, StartKeepsInv
<1>2. ASSUME NEW f \in Fund, DeleteFundReads(c, f)
      PROVE  FundsInv' /\ UNCHANGED fund
  <2> DEFINE new == [FundIdle EXCEPT !.at = "delete", !.fund = f]
  <2>1. new \in FundLocal /\ new.at = "delete" /\ new.fund = f
    BY DEF FundIdle, FundLocal
  <2>2. /\ fcall' = [fcall EXCEPT ![c] = new]
        /\ UNCHANGED <<fund, made, contributions, paid, overtaken>>
    BY <1>2 DEF DeleteFundReads
  <2> HIDE DEF new
  <2> QED  BY <2>1, <2>2, StartKeepsInv
<1>3. ASSUME NEW f \in Fund, NEW u \in Member, NEW amount \in Amount,
             AddReads(c, f, u, amount)
      PROVE  FundsInv' /\ UNCHANGED fund
  <2> DEFINE new == [FundIdle EXCEPT !.at = "add", !.fund = f, !.user = u,
                                     !.amount = amount]
  <2>1. /\ new \in FundLocal /\ new.at = "add" /\ new.fund = f
        /\ new.user = u /\ new.amount = amount
    BY DEF FundIdle, FundLocal
  <2>2. /\ fcall' = [fcall EXCEPT ![c] = new]
        /\ UNCHANGED <<fund, made, contributions, paid, overtaken>>
    BY <1>3 DEF AddReads
  <2> HIDE DEF new
  <2>3. ~Closed(f)
    BY <1>3 DEF AddReads, Accepts, Closed
  <2> QED  BY <2>1, <2>2, <2>3, StartKeepsInv
<1>4. ASSUME NEW k \in contributions, RemoveReads(c, k)
      PROVE  FundsInv' /\ UNCHANGED fund
  <2> DEFINE new == [FundIdle EXCEPT !.at = "remove", !.fund = k.fund,
                                     !.contribution = k]
  <2>1. k \in Contribution /\ k.fund \in Fund
    BY ContributionFields DEF FundsInv, FundsTypeOK
  <2>2. new \in FundLocal /\ new.at = "remove" /\ new.fund = k.fund
    BY <2>1 DEF FundIdle, FundLocal
  <2>3. /\ fcall' = [fcall EXCEPT ![c] = new]
        /\ UNCHANGED <<fund, made, contributions, paid, overtaken>>
    BY <1>4 DEF RemoveReads
  <2> HIDE DEF new
  <2> QED  BY <2>1, <2>2, <2>3, StartKeepsInv
<1> QED  BY <1>1, <1>2, <1>3, <1>4

\* A call is given up.
LEMMA FundAbandonInv ==
  ASSUME FundsInv, NEW c \in FundCall, FundAbandon(c)
  PROVE  FundsInv' /\ UNCHANGED fund
<1>1. FundReturns(c) /\ UNCHANGED <<fund, made, contributions, paid>>
  BY DEF FundAbandon
<1>2. \A g \in Fund : Closed(g)' => Closed(g)
  BY <1>1 DEF Closed
<1>3. /\ BelieversOvertaken' /\ CallsAimed'
      /\ fcall' \in [FundCall -> FundLocal]
      /\ overtaken' \in [Fund -> SUBSET FundCall]
  BY <1>1, <1>2, ReturnKeepsInv
<1> QED  BY <1>1, <1>3 DEF FundsInv, FundsTypeOK, MadeFunds

\* Every step keeps the invariant.
LEMMA FundsNextInv == FundsInv /\ [FundsNext]_fundVars => FundsInv'
<1> SUFFICES ASSUME FundsInv, [FundsNext]_fundVars
             PROVE  FundsInv'
  OBVIOUS
<1>1. CASE \E f \in Fund, u \in Member : CreateFund(f, u)
  BY <1>1, CreateFundInv
<1>2. ASSUME NEW c \in FundCall, FundStep(c)
      PROVE  FundsInv'
  BY <1>2, UpdateFundInv, DeleteFundInv, AddInv, RemoveInv, FundStartInv,
     FundAbandonInv
  DEF FundStep
<1>3. CASE UNCHANGED fundVars
  BY <1>3
  DEF fundVars, FundsInv, FundsTypeOK, BelieversOvertaken, Believes, Closed,
      MadeFunds, CallsAimed
<1> QED  BY <1>1, <1>2, <1>3 DEF FundsNext

-----------------------------------------------------------------------------
\* The types of the variables of Funds: every total is a number, and no more
\* contributions are made than the bound allows.
THEOREM FundsTypeCorrect == FundsSpec => []FundsTypeOK
<1>1. FundsInv => FundsTypeOK
  BY DEF FundsInv
<1> QED  BY <1>1, FundsInitInv, FundsNextInv, PTL DEF FundsSpec

\* A closed fund takes in money or opens unasked only by a call that was in
\* flight when it was closed, for any number of calls.
THEOREM FundsStayClosed == FundsSpec => ClosedStaysClosed
<1> DEFINE Disturbed(f) == /\ Closed(f)
                           /\ fund'[f] # NoFund
                           /\ fund'[f].active \/ fund'[f].total > fund[f].total
           ByOvertaken(f) ==
             \E c \in FundCall :
               /\ fcall'[c] # fcall[c]
               /\ fcall[c].fund = f
               /\ \/ c \in overtaken[f]
                  \/ fcall[c].at = "update" /\ fcall[c].wants = "open"
           Stays == \A f \in Fund : Disturbed(f) => ByOvertaken(f)
<1>1. FundsInv /\ [FundsNext]_fundVars => Stays
  <2> SUFFICES ASSUME FundsInv, [FundsNext]_fundVars, NEW f \in Fund,
                      Disturbed(f)
               PROVE  ByOvertaken(f)
    OBVIOUS
  <2>0. fund[f] \in FundRow /\ fund[f] # NoFund /\ ~fund[f].active
        /\ fund[f].total \in Int
    BY DEF Closed, FundsInv, FundsTypeOK, FundRow
  <2>1. fund'[f] # fund[f]
    BY <2>0
  <2>2. ASSUME NEW g \in Fund, NEW u \in Member, CreateFund(g, u)
        PROVE  ByOvertaken(f)
    <3>1. f # g
      BY <2>0, <2>2 DEF CreateFund, FundsInv, MadeFunds
    <3> QED  BY <2>1, <2>2, <3>1 DEF CreateFund, FundsInv, FundsTypeOK
  <2>3. ASSUME NEW c \in FundCall, UpdateFundWrites(c)
        PROVE  ByOvertaken(f)
    <3>1. /\ fcall[c].at = "update"
          /\ fcall' = [fcall EXCEPT ![c] = FundIdle]
          /\ fund' = [fund EXCEPT ![fcall[c].fund] =
                        IF @ = NoFund THEN @
                        ELSE [@ EXCEPT !.active = ActiveOfUpdate(c)]]
      BY <2>3 DEF UpdateFundWrites
    <3>2. fcall'[c] # fcall[c]
      BY <3>1, FundIdleIsLocal DEF FundsInv, FundsTypeOK
    <3>3. fcall[c].fund = f
      BY <2>1, <3>1 DEF FundsInv, FundsTypeOK
    <3>4. fund' = [fund EXCEPT ![f] = [@ EXCEPT !.active = ActiveOfUpdate(c)]]
      BY <2>0, <3>1, <3>3 DEF FundsInv, FundsTypeOK
    <3>5. fund'[f].active = ActiveOfUpdate(c) /\ fund'[f].total = fund[f].total
      BY <2>0, <3>4 DEF FundsInv, FundsTypeOK, FundRow
    <3>6. ActiveOfUpdate(c)
      BY <2>0, <3>5
    <3>7. /\ fcall[c].wants \in {"same", "open", "closed"}
          /\ fcall[c].read \in BOOLEAN
      BY DEF FundsInv, FundsTypeOK, FundLocal
    <3>8. CASE fcall[c].wants = "same"
      <4>1. fcall[c].read
        BY <3>6, <3>8 DEF ActiveOfUpdate
      <4>2. c \in overtaken[f]
        BY <3>1, <3>3, <4>1 DEF FundsInv, BelieversOvertaken, Believes
      <4> QED  BY <3>2, <3>3, <4>2
    <3>9. CASE fcall[c].wants = "open"
      BY <3>1, <3>2, <3>3, <3>9
    <3>10. CASE fcall[c].wants = "closed"
      BY <3>6, <3>10 DEF ActiveOfUpdate
    <3> QED  BY <3>7, <3>8, <3>9, <3>10
  <2>4. ASSUME NEW c \in FundCall, DeleteFundWrites(c)
        PROVE  ByOvertaken(f)
    BY <2>1, <2>4 DEF DeleteFundWrites, FundsInv, FundsTypeOK
  <2>5. ASSUME NEW c \in FundCall, AddWrites(c)
        PROVE  ByOvertaken(f)
    <3>1. fcall[c].at = "add" /\ fcall[c].fund = f
      BY <2>1, <2>5, AddInv
    <3>2. c \in overtaken[f]
      BY <3>1 DEF FundsInv, BelieversOvertaken, Believes
    <3>3. fcall'[c] # fcall[c]
      BY <2>5, <3>1, FundIdleIsLocal
      DEF AddWrites, FundReturns, FundsInv, FundsTypeOK
    <3> QED  BY <3>1, <3>2, <3>3
  <2>6. ASSUME NEW c \in FundCall, RemoveWrites(c)
        PROVE  ByOvertaken(f)
    <3>1. /\ fund'[f].active = fund[f].active
          /\ fund'[f].total <= fund[f].total
          /\ fund' \in [Fund -> FundRow \cup {NoFund}]
      BY <2>6, RemoveInv DEF FundsInv, FundsTypeOK
    <3>2. fund'[f].total \in Int
      BY <3>1 DEF FundRow
    <3> QED  BY <2>0, <3>1, <3>2
  <2>7. ASSUME NEW c \in FundCall,
               \/ \E g \in Fund, wants \in {"same", "open", "closed"} :
                    UpdateFundReads(c, g, wants)
               \/ \E g \in Fund : DeleteFundReads(c, g)
               \/ \E g \in Fund, u \in Member, amount \in Amount :
                    AddReads(c, g, u, amount)
               \/ \E k \in contributions : RemoveReads(c, k)
        PROVE  ByOvertaken(f)
    BY <2>1, <2>7, FundStartInv
  <2>8. ASSUME NEW c \in FundCall, FundAbandon(c)
        PROVE  ByOvertaken(f)
    BY <2>1, <2>8, FundAbandonInv
  <2>9. CASE UNCHANGED fundVars
    BY <2>1, <2>9 DEF fundVars
  <2> HIDE DEF ByOvertaken
  <2> QED  BY <2>2, <2>3, <2>4, <2>5, <2>6, <2>7, <2>8, <2>9
           DEF FundsNext, FundStep
<1> QED  BY <1>1, FundsInitInv, FundsNextInv, PTL
         DEF FundsSpec, ClosedStaysClosed

-----------------------------------------------------------------------------
(* The totals *)

SumTo(f) == SumFunction([k \in ContributionsTo(f) |-> k.amount])

\* There are finitely many contributions to a fund.
LEMMA ContributionsFinite ==
  ASSUME ContributionsStand, NEW f
  PROVE  IsFiniteSet(ContributionsTo(f))
BY FS_Subset DEF ContributionsStand, ContributionsTo

\* No contributions sum to zero.
LEMMA TotalsInit == FundsInit => SumInv
BY FS_EmptySet DEF FundsInit, SumInv, ContributionsStand, TotalIsSum

\* One more contribution to f, or one less seen the other way round.
LEMMA SumOfOneMore ==
  ASSUME NEW S, IsFiniteSet(S), S \subseteq Contribution,
         NEW k \in Contribution, k \notin S
  PROVE  SumFunction([j \in S \cup {k} |-> j.amount])
           = SumFunction([j \in S |-> j.amount]) + k.amount
<1> DEFINE fun == [j \in S |-> j.amount]
           hun == [j \in S \cup {k} |-> j.amount]
<1>1. \A j \in S \cup {k} : j.amount \in Int
  BY ContributionFields
<1>2. /\ DOMAIN fun = S /\ \A j \in S : fun[j] \in Int
      /\ DOMAIN hun = S \cup {k} /\ hun[k] \in Int /\ hun[k] = k.amount
      /\ \A j \in S : hun[j] = fun[j]
  BY <1>1
<1> HIDE DEF fun, hun
<1>3. SumFunction(hun) = SumFunction(fun) + hun[k]
  BY <1>2, SumGrows
<1> QED  BY <1>2, <1>3 DEF fun, hun

\* The contributions to a fund sum to a number.
LEMMA SumIsInteger ==
  ASSUME NEW S, IsFiniteSet(S), S \subseteq Contribution
  PROVE  SumFunction([j \in S |-> j.amount]) \in Int
<1> DEFINE fun == [j \in S |-> j.amount]
<1>1. DOMAIN fun = S /\ \A j \in S : fun[j] \in Int
  BY ContributionFields
<1> HIDE DEF fun
<1>2. SumFunctionOnSet(fun, S) \in Int
  BY <1>1, SumIsInt
<1> QED  BY <1>1, <1>2 DEF fun, SumFunction

\* A new fund starts with nothing.
LEMMA CreateFundSums ==
  ASSUME FundsInv, SumInv, NEW f \in Fund, NEW u \in Member, CreateFund(f, u)
  PROVE  SumInv'
<1> DEFINE row == [creator |-> u, total |-> 0, active |-> TRUE]
<1>1. /\ fund' = [fund EXCEPT ![f] = row] /\ row.total = 0 /\ row # NoFund
      /\ f \notin made /\ contributions' = contributions /\ paid' = paid
  BY FundRows DEF CreateFund
<1> HIDE DEF row
<1>2. fund[f] = NoFund
  BY <1>1 DEF FundsInv, MadeFunds
<1>3. \A k \in contributions : k.fund \in Fund /\ k.fund # f
  BY <1>2, ContributionFields DEF SumInv, ContributionsStand, FundsInv, FundsTypeOK
<1>4. ContributionsStand'
  BY <1>1, <1>3 DEF SumInv, ContributionsStand, FundsInv, FundsTypeOK
<1>5. ASSUME NEW g \in Fund, fund'[g] # NoFund
      PROVE  fund'[g].total = SumTo(g)'
  <2>1. SumTo(g)' = SumTo(g)
    BY <1>1 DEF SumTo, ContributionsTo
  <2>2. CASE g # f
    BY <1>1, <1>5, <2>1, <2>2
    DEF SumInv, TotalIsSum, SumTo, FundsInv, FundsTypeOK
  <2>3. CASE g = f
    <3>1. ContributionsTo(g) = {}
      BY <1>3, <2>3 DEF ContributionsTo
    <3>2. SumTo(g) = 0
      BY <3>1, SumOfNothing DEF SumTo, SumFunction
    <3> QED  BY <1>1, <2>1, <2>3, <3>2 DEF FundsInv, FundsTypeOK
  <2> QED  BY <2>2, <2>3
<1> QED  BY <1>4, <1>5 DEF SumInv, TotalIsSum, SumTo

\* Steps that leave contributions and totals alone.
LEMMA TotalsKept ==
  ASSUME FundsInv, SumInv, UNCHANGED <<contributions, paid>>,
         \A g \in Fund :
           /\ fund[g] # NoFund => fund'[g] # NoFund
           /\ fund'[g] # NoFund =>
                fund[g] # NoFund /\ fund'[g].total = fund[g].total
  PROVE  SumInv'
<1>1. ContributionsStand'
  BY ContributionFields DEF SumInv, ContributionsStand, FundsInv, FundsTypeOK
<1>2. \A g \in Fund : SumTo(g)' = SumTo(g)
  BY DEF SumTo, ContributionsTo
<1> QED  BY <1>1, <1>2 DEF SumInv, TotalIsSum, SumTo

\* An update leaves the total as it is.
LEMMA UpdateFundSums ==
  ASSUME FundsInv, SumInv, NEW c \in FundCall, UpdateFundWrites(c)
  PROVE  SumInv'
<1> DEFINE f == fcall[c].fund
           active == ActiveOfUpdate(c)
<1>1. /\ fund' = [fund EXCEPT ![f] =
                    IF @ = NoFund THEN @ ELSE [@ EXCEPT !.active = active]]
      /\ fund' \in [Fund -> FundRow \cup {NoFund}]
      /\ UNCHANGED <<contributions, paid>>
  BY UpdateFundInv DEF UpdateFundWrites, FundsInv, FundsTypeOK
<1>b. active \in BOOLEAN
  BY ActiveIsBoolean
<1> HIDE DEF active, f
<1>2. ASSUME NEW g \in Fund
      PROVE  /\ fund[g] # NoFund => fund'[g] # NoFund
             /\ fund'[g] # NoFund =>
                  fund[g] # NoFund /\ fund'[g].total = fund[g].total
  <2>1. CASE g # f \/ fund[g] = NoFund
    BY <1>1, <2>1 DEF FundsInv, FundsTypeOK
  <2>2. CASE g = f /\ fund[g] # NoFund
    <3>1. fund'[g] = [fund[g] EXCEPT !.active = active] /\ fund[g] \in FundRow
      BY <1>1, <2>2 DEF FundsInv, FundsTypeOK
    <3> QED  BY <1>b, <2>2, <3>1, FundRows
  <2> QED  BY <2>1, <2>2
<1> QED  BY <1>1, <1>2, TotalsKept

\* So does a closure.
LEMMA DeleteFundSums ==
  ASSUME FundsInv, SumInv, NEW c \in FundCall, DeleteFundWrites(c)
  PROVE  SumInv'
<1> DEFINE f == fcall[c].fund
<1>1. /\ f \in Fund
      /\ fund' = [fund EXCEPT ![f] = NoFund]
      /\ contributions' = contributions \ ContributionsTo(f)
      /\ paid' = paid
  BY DEF DeleteFundWrites, FundsInv, CallsAimed
<1> HIDE DEF f
<1>2. ContributionsStand'
  <2>1. IsFiniteSet(contributions')
    BY <1>1, FS_Subset DEF SumInv, ContributionsStand
  <2>2. \A k \in contributions' : k \in contributions /\ k.fund \in Fund /\ k.fund # f
    BY <1>1, ContributionFields DEF ContributionsTo, FundsInv, FundsTypeOK
  <2> QED  BY <1>1, <2>1, <2>2
           DEF SumInv, ContributionsStand, FundsInv, FundsTypeOK
<1>3. ASSUME NEW g \in Fund, fund'[g] # NoFund
      PROVE  fund'[g].total = SumTo(g)'
  <2>1. g # f /\ fund'[g] = fund[g]
    BY <1>1, <1>3 DEF FundsInv, FundsTypeOK
  <2>2. ContributionsTo(g)' = ContributionsTo(g)
    BY <1>1, <2>1 DEF ContributionsTo
  <2>3. SumTo(g)' = SumTo(g)
    BY <2>2 DEF SumTo
  <2> QED  BY <1>3, <2>1, <2>3 DEF SumInv, TotalIsSum, SumTo
<1> QED  BY <1>2, <1>3 DEF SumInv, TotalIsSum, SumTo

\* A contribution adds itself to the sum and to the total.
LEMMA AddSums ==
  ASSUME FundsInv, SumInv, NEW c \in FundCall, AddWrites(c)
  PROVE  SumInv'
<1> DEFINE f == fcall[c].fund
           amount == fcall[c].amount
           k == [no |-> paid + 1, fund |-> f, user |-> fcall[c].user,
                 amount |-> amount]
<1>1. /\ fcall[c].at = "add" /\ paid < MaxContributions /\ fund[f] # NoFund
      /\ contributions' = contributions \cup {k}
      /\ paid' = paid + 1
      /\ fund' = [fund EXCEPT ![f].total = @ + amount]
  BY DEF AddWrites
<1>2. f \in Fund /\ fcall[c].user \in Member /\ amount \in Amount
  BY <1>1 DEF FundsInv, CallsAimed
<1>3. /\ paid \in Nat
      /\ k \in Contribution /\ k.no = paid + 1 /\ k.fund = f /\ k.amount = amount
      /\ amount \in Int
  BY <1>1, <1>2, ContributionsAssumption, AmountAssumption
  DEF FundsInv, FundsTypeOK, Contribution
<1> HIDE DEF k, f, amount
<1>4. /\ fund[f] \in FundRow /\ fund[f].total \in Int
      /\ fund' = [fund EXCEPT ![f] = [@ EXCEPT !.total = fund[f].total + amount]]
  BY <1>1, <1>2 DEF FundsInv, FundsTypeOK, FundRow
<1>5. /\ fund'[f].total = fund[f].total + amount /\ fund'[f] # NoFund
      /\ \A g \in Fund : g # f => fund'[g] = fund[g]
  BY <1>2, <1>3, <1>4, FundRows DEF FundsInv, FundsTypeOK
<1>6. \A j \in contributions : /\ j.fund \in Fund /\ j.no \in Nat
                               /\ j.no <= paid /\ fund[j.fund] # NoFund
  BY ContributionFields, ContributionsAssumption
  DEF SumInv, ContributionsStand, FundsInv, FundsTypeOK, Contribution
<1>7. k \notin contributions
  BY <1>3, <1>6
<1>8. ContributionsStand'
  <2>1. IsFiniteSet(contributions')
    BY <1>1, FS_AddElement DEF SumInv, ContributionsStand
  <2>2. \A j \in contributions' : j.no <= paid' /\ fund'[j.fund] # NoFund
    BY <1>1, <1>3, <1>5, <1>6
  <2> QED  BY <2>1, <2>2 DEF ContributionsStand
<1>9. ASSUME NEW g \in Fund, fund'[g] # NoFund
      PROVE  fund'[g].total = SumTo(g)'
  <2>1. CASE g # f
    <3>1. ContributionsTo(g)' = ContributionsTo(g)
      BY <1>1, <1>3, <2>1 DEF ContributionsTo
    <3>2. SumTo(g)' = SumTo(g)
      BY <3>1 DEF SumTo
    <3> QED  BY <1>5, <1>9, <2>1, <3>2 DEF SumInv, TotalIsSum, SumTo
  <2>2. CASE g = f
    <3>1. ContributionsTo(g)' = ContributionsTo(g) \cup {k}
      BY <1>1, <1>3, <2>2 DEF ContributionsTo
    <3>2. /\ IsFiniteSet(ContributionsTo(g)) /\ k \notin ContributionsTo(g)
          /\ ContributionsTo(g) \subseteq Contribution
      BY <1>7, ContributionsFinite
      DEF SumInv, ContributionsTo, FundsInv, FundsTypeOK
    <3>3. SumTo(g)' = SumFunction([j \in ContributionsTo(g) \cup {k} |-> j.amount])
      BY <3>1 DEF SumTo
    <3>4. SumTo(g)' = SumTo(g) + amount
      BY <1>3, <3>2, <3>3, SumOfOneMore DEF SumTo
    <3>5. fund[f].total = SumTo(g)
      BY <1>1, <1>2, <2>2 DEF SumInv, TotalIsSum, SumTo
    <3> QED  BY <1>5, <2>2, <3>4, <3>5
  <2> QED  BY <2>1, <2>2
<1> QED  BY <1>8, <1>9 DEF SumInv, TotalIsSum, SumTo

\* One that is deleted takes itself off both.
LEMMA RemoveSums ==
  ASSUME FundsInv, SumInv, NEW c \in FundCall, RemoveWrites(c)
  PROVE  SumInv'
<1> DEFINE k == fcall[c].contribution
           f == k.fund
           amount == k.amount
<1>1. /\ k \in contributions
      /\ contributions' = contributions \ {k}
      /\ paid' = paid
      /\ fund' = IF fund[f] = NoFund THEN fund
                 ELSE [fund EXCEPT ![f].total = @ - amount]
  BY DEF RemoveWrites, Removes
<1>2. k \in Contribution /\ f \in Fund /\ amount \in Int
  BY <1>1, ContributionFields DEF FundsInv, FundsTypeOK
<1>3. fund[f] # NoFund
  BY <1>1 DEF SumInv, ContributionsStand
<1>a. k.fund = f /\ k.amount = amount
  OBVIOUS
<1> HIDE DEF k, f, amount
<1>4. /\ fund[f] \in FundRow /\ fund[f].total \in Int
      /\ fund' = [fund EXCEPT ![f] = [@ EXCEPT !.total = fund[f].total - amount]]
  BY <1>1, <1>2, <1>3 DEF FundsInv, FundsTypeOK, FundRow
<1>5. /\ fund'[f].total = fund[f].total - amount /\ fund'[f] # NoFund
      /\ \A g \in Fund : g # f => fund'[g] = fund[g]
  BY <1>2, <1>4, FundRows DEF FundsInv, FundsTypeOK
<1>6. \A j \in contributions : /\ j.fund \in Fund
                               /\ j.no <= paid /\ fund[j.fund] # NoFund
  BY ContributionFields DEF SumInv, ContributionsStand, FundsInv, FundsTypeOK
<1>7. ContributionsStand'
  <2>1. IsFiniteSet(contributions')
    BY <1>1, FS_Subset DEF SumInv, ContributionsStand
  <2>2. \A j \in contributions' : j.no <= paid' /\ fund'[j.fund] # NoFund
    BY <1>1, <1>5, <1>6
  <2> QED  BY <2>1, <2>2 DEF ContributionsStand
<1>8. ASSUME NEW g \in Fund, fund'[g] # NoFund
      PROVE  fund'[g].total = SumTo(g)'
  <2>1. CASE g # f
    <3>1. ContributionsTo(g)' = ContributionsTo(g)
      BY <1>1, <1>a, <2>1 DEF ContributionsTo
    <3>2. SumTo(g)' = SumTo(g)
      BY <3>1 DEF SumTo
    <3> QED  BY <1>5, <1>8, <2>1, <3>2 DEF SumInv, TotalIsSum, SumTo
  <2>2. CASE g = f
    <3> DEFINE rest == ContributionsTo(g)'
    <3>1. /\ ContributionsTo(g) = rest \cup {k} /\ k \notin rest
          /\ rest \subseteq ContributionsTo(g)
      BY <1>1, <1>a, <2>2 DEF ContributionsTo
    <3>2. IsFiniteSet(rest) /\ rest \subseteq Contribution
      BY <3>1, ContributionsFinite, FS_Subset
      DEF SumInv, ContributionsTo, FundsInv, FundsTypeOK
    <3>3. SumTo(g)' = SumFunction([j \in rest |-> j.amount])
      BY DEF SumTo
    <3> HIDE DEF rest
    <3>4. SumTo(g) = SumFunction([j \in rest \cup {k} |-> j.amount])
      BY <3>1 DEF SumTo
    <3>5. SumTo(g) = SumTo(g)' + amount /\ SumTo(g)' \in Int
      BY <1>2, <1>a, <3>1, <3>2, <3>3, <3>4, SumOfOneMore, SumIsInteger
    <3>6. fund[f].total = SumTo(g)
      BY <1>2, <1>3, <2>2 DEF SumInv, TotalIsSum, SumTo
    <3> QED  BY <1>2, <1>5, <2>2, <3>5, <3>6
  <2> QED  BY <2>1, <2>2
<1> QED  BY <1>7, <1>8 DEF SumInv, TotalIsSum, SumTo

\* Reads change neither.
LEMMA ReadsKeepSums ==
  ASSUME FundsInv, SumInv, UNCHANGED <<fund, contributions, paid>>
  PROVE  SumInv'
BY TotalsKept

\* Every step keeps totals and sums equal.
LEMMA FundsNextSums == FundsInv /\ SumInv /\ [FundsNext]_fundVars => SumInv'
<1> SUFFICES ASSUME FundsInv, SumInv, [FundsNext]_fundVars
             PROVE  SumInv'
  OBVIOUS
<1>1. CASE \E f \in Fund, u \in Member : CreateFund(f, u)
  BY <1>1, CreateFundSums
<1>2. ASSUME NEW c \in FundCall, FundStep(c)
      PROVE  SumInv'
  <2>1. CASE \E f \in Fund, wants \in {"same", "open", "closed"} :
               UpdateFundReads(c, f, wants)
    BY <2>1, ReadsKeepSums DEF UpdateFundReads
  <2>2. CASE \E f \in Fund : DeleteFundReads(c, f)
    BY <2>2, ReadsKeepSums DEF DeleteFundReads
  <2>3. CASE \E f \in Fund, u \in Member, amount \in Amount :
               AddReads(c, f, u, amount)
    BY <2>3, ReadsKeepSums DEF AddReads
  <2>4. CASE \E k \in contributions : RemoveReads(c, k)
    BY <2>4, ReadsKeepSums DEF RemoveReads
  <2>5. CASE FundAbandon(c)
    BY <2>5, ReadsKeepSums DEF FundAbandon
  <2> QED  BY <1>2, <2>1, <2>2, <2>3, <2>4, <2>5, UpdateFundSums,
              DeleteFundSums, AddSums, RemoveSums
           DEF FundStep
<1>3. CASE UNCHANGED fundVars
  BY <1>3, ReadsKeepSums DEF fundVars
<1> QED  BY <1>1, <1>2, <1>3 DEF FundsNext

\* The stored total of every fund is the sum of its stored contributions,
\* for any number of members paying in, taking back, editing and deleting at
\* the same time: AddContribution and DeleteContribution each move the total
\* and the row in one transaction, and Update does not write the total.
THEOREM FundsTotalIsSum == FundsSpec => []TotalIsSum
<1>1. SumInv => TotalIsSum
  BY DEF SumInv
<1> QED  BY <1>1, FundsInitInv, FundsNextInv, TotalsInit, FundsNextSums, PTL
         DEF FundsSpec

-----------------------------------------------------------------------------
(* Accounts *)

\* What a call holds at every step.
CallsFilled ==
  \A c \in AccountCall :
    /\ acall[c].at # "idle" => acall[c].user \in User
    /\ acall[c].at \in {"insert", "reset"} => acall[c].wants \in Password
    /\ acall[c].at = "update" => acall[c].read \in Password
    /\ acall[c].at \in {"update", "reset"} => account[acall[c].user] # NoAccount

\* A call on its way to a new session that has seen the account active.
SeenActive ==
  \A c \in AccountCall : \A u \in User :
    (/\ acall[c].at \in {"exchange", "save"} /\ acall[c].user = u
     /\ account[u] # NoAccount /\ ~account[u].active)
    => c \in left[u]

\* A profile that carries the password it has read.
SeenPassword ==
  \A c \in AccountCall : \A u \in User :
    (/\ acall[c].at = "update" /\ acall[c].user = u
     /\ account[u].password # acall[c].read)
    => c \in rewritten[u]

AccountsInv == AccountsTypeOK /\ CallsFilled /\ SeenActive /\ SeenPassword

-----------------------------------------------------------------------------
(* Lemmas about the data *)

\* An idle call.
LEMMA AccountIdleIsLocal ==
  AccountIdle \in AccountLocal /\ AccountIdle.at = "idle"
BY DEF AccountIdle, AccountLocal

\* A call that goes on to its next statement keeps what it holds.
LEMMA LocalAtStep ==
  ASSUME NEW k \in AccountLocal,
         NEW step \in {"exchange", "save", "tokens"}
  PROVE  LET new == [k EXCEPT !.at = step]
         IN  new \in AccountLocal /\ new.at = step /\ new.user = k.user
BY DEF AccountLocal

\* An account and a token.
LEMMA AccountFields ==
  /\ NoAccount \notin Account /\ NoAccount \notin Password
  /\ \A a \in Account : a.active \in BOOLEAN /\ a.password \in Password
  /\ \A t \in Token : t.user \in User
BY NoAccountAssumption DEF Account, Token

\* No account and no call.
LEMMA AccountsInitInv == AccountsInit => AccountsInv
<1> SUFFICES ASSUME AccountsInit  PROVE AccountsInv
  OBVIOUS
<1>1. AccountsTypeOK
  BY AccountIdleIsLocal, MaxTokensAssumption DEF AccountsInit, AccountsTypeOK
<1>2. CallsFilled /\ SeenActive /\ SeenPassword
  BY DEF AccountsInit, CallsFilled, SeenActive, SeenPassword, AccountIdle
<1> QED  BY <1>1, <1>2 DEF AccountsInv

\* A call that starts: what it holds is as the first statement found it.
LEMMA AskKeepsInv ==
  ASSUME AccountsInv, NEW c \in AccountCall, NEW new \in AccountLocal,
         Ask(c, new),
         new.user \in User,
         new.at \in {"insert", "reset"} => new.wants \in Password,
         new.at = "update" => new.read = account[new.user].password,
         new.at \in {"update", "reset", "save"} => Active(new.user),
         new.at # "exchange"
  PROVE  AccountsInv'
<1>1. /\ acall' = [acall EXCEPT ![c] = new]
      /\ UNCHANGED <<account, tokens, saved, rewritten, left>>
  BY DEF Ask
<1>2. Active(new.user) => /\ account[new.user] \in Account
                          /\ account[new.user].active
                          /\ account[new.user].password \in Password
  BY AccountFields DEF Active, AccountsInv, AccountsTypeOK
<1>3. AccountsTypeOK'
  BY <1>1 DEF AccountsInv, AccountsTypeOK
<1>4. CallsFilled'
  BY <1>1, <1>2 DEF AccountsInv, AccountsTypeOK, CallsFilled, Active
<1>5. SeenActive'
  BY <1>1, <1>2 DEF AccountsInv, AccountsTypeOK, SeenActive
<1>6. SeenPassword'
  BY <1>1, <1>2 DEF AccountsInv, AccountsTypeOK, SeenPassword
<1> QED  BY <1>3, <1>4, <1>5, <1>6 DEF AccountsInv

\* A call that goes on after its test of the account.
LEMMA GoOnKeepsInv ==
  ASSUME AccountsInv, NEW c \in AccountCall,
         NEW step \in {"exchange", "save", "tokens"}, GoOn(c, step),
         UNCHANGED <<account, saved>>, tokens' \subseteq tokens,
         acall[c].at # "idle",
         Active(acall[c].user) \/ acall[c].at \in {"exchange", "save"}
  PROVE  AccountsInv'
<1> DEFINE new == [acall[c] EXCEPT !.at = step]
<1>1. /\ acall' = [acall EXCEPT ![c] = new]
      /\ UNCHANGED <<rewritten, left>>
  BY DEF GoOn
<1>2. new \in AccountLocal /\ new.at = step /\ new.user = acall[c].user
  <2>1. acall[c] \in AccountLocal
    BY DEF AccountsInv, AccountsTypeOK
  <2> QED  BY <2>1, LocalAtStep
<1> HIDE DEF new
<1>3. AccountsTypeOK'
  BY <1>1, <1>2 DEF AccountsInv, AccountsTypeOK
<1>4. CallsFilled'
  <2>1. \A d \in AccountCall : d # c => acall'[d] = acall[d]
    BY <1>1 DEF AccountsInv, AccountsTypeOK
  <2>2. acall'[c] = new /\ new.user \in User
    BY <1>1, <1>2 DEF AccountsInv, AccountsTypeOK, CallsFilled
  <2> QED  BY <1>2, <2>1, <2>2 DEF AccountsInv, CallsFilled
<1>5. SeenActive'
  BY <1>1, <1>2 DEF AccountsInv, AccountsTypeOK, SeenActive, Active
<1>6. SeenPassword'
  BY <1>1, <1>2 DEF AccountsInv, AccountsTypeOK, SeenPassword
<1> QED  BY <1>3, <1>4, <1>5, <1>6 DEF AccountsInv

\* A call that ends and leaves the accounts as they are.
LEMMA ReturnKeepsAccounts ==
  ASSUME AccountsInv, NEW c \in AccountCall, AccountReturns(c),
         account' = account, tokens' \subseteq Token, saved' \in 0..MaxTokens
  PROVE  AccountsInv'
<1>1. /\ acall' = [acall EXCEPT ![c] = AccountIdle]
      /\ rewritten' = [u \in User |-> rewritten[u] \ {c}]
      /\ left' = [u \in User |-> left[u] \ {c}]
  BY DEF AccountReturns, Forget
<1>2. AccountsTypeOK'
  BY <1>1, AccountIdleIsLocal DEF AccountsInv, AccountsTypeOK
<1>3. \A d \in AccountCall : acall'[d].at # "idle" => /\ d # c
                                                      /\ acall'[d] = acall[d]
  BY <1>1, AccountIdleIsLocal DEF AccountsInv, AccountsTypeOK
<1>4. CallsFilled'
  BY <1>3 DEF AccountsInv, CallsFilled
<1>5. SeenActive'
  BY <1>1, <1>3 DEF AccountsInv, SeenActive
<1>6. SeenPassword'
  BY <1>1, <1>3 DEF AccountsInv, SeenPassword
<1> QED  BY <1>2, <1>4, <1>5, <1>6 DEF AccountsInv

-----------------------------------------------------------------------------
(* The steps *)

\* Calls start.
LEMMA StartsKeepInv ==
  ASSUME AccountsInv, NEW c \in AccountCall,
         \/ \E u \in User, p \in Password : Register(c, u, p)
         \/ \E u \in User : Login(c, u)
         \/ \E t \in tokens : RefreshToken(c, t)
         \/ \E u \in User, p \in Password : ResetPassword(c, u, p)
         \/ \E u \in User, p \in Password \cup {NoAccount} :
              UpdateCurrentUser(c, u, p)
  PROVE  AccountsInv' /\ UNCHANGED <<account, tokens>>
<1>1. ASSUME NEW u \in User, NEW p \in Password, Register(c, u, p)
      PROVE  AccountsInv' /\ UNCHANGED <<account, tokens>>
  <2> DEFINE new == [AccountIdle EXCEPT !.at = "insert", !.user = u, !.wants = p]
  <2>1. /\ new \in AccountLocal /\ new.at = "insert" /\ new.user = u
        /\ new.wants = p
    BY DEF AccountIdle, AccountLocal
  <2>2. Ask(c, new)
    BY <1>1 DEF Register
  <2> HIDE DEF new
  <2>3. AccountsInv'
    BY <2>1, <2>2, AskKeepsInv
  <2> QED  BY <2>2, <2>3 DEF Ask
<1>2. ASSUME NEW u \in User, Login(c, u)
      PROVE  AccountsInv' /\ UNCHANGED <<account, tokens>>
  <2> DEFINE new == [AccountIdle EXCEPT !.at = "save", !.user = u]
  <2>1. new \in AccountLocal /\ new.at = "save" /\ new.user = u
    BY DEF AccountIdle, AccountLocal
  <2>2. Ask(c, new) /\ Active(u)
    BY <1>2 DEF Login
  <2> HIDE DEF new
  <2>3. AccountsInv'
    BY <2>1, <2>2, AskKeepsInv
  <2> QED  BY <2>2, <2>3 DEF Ask
<1>3. ASSUME NEW t \in tokens, RefreshToken(c, t)
      PROVE  AccountsInv' /\ UNCHANGED <<account, tokens>>
  <2> DEFINE new == [AccountIdle EXCEPT !.at = "owner", !.user = t.user,
                                        !.token = t]
  <2>0. t \in Token /\ t.user \in User
    BY AccountFields DEF AccountsInv, AccountsTypeOK
  <2>1. new \in AccountLocal /\ new.at = "owner" /\ new.user = t.user
    BY <2>0 DEF AccountIdle, AccountLocal
  <2>2. Ask(c, new)
    BY <1>3 DEF RefreshToken
  <2> HIDE DEF new
  <2>3. AccountsInv'
    BY <2>0, <2>1, <2>2, AskKeepsInv
  <2> QED  BY <2>2, <2>3 DEF Ask
<1>4. ASSUME NEW u \in User, NEW p \in Password, ResetPassword(c, u, p)
      PROVE  AccountsInv' /\ UNCHANGED <<account, tokens>>
  <2> DEFINE new == [AccountIdle EXCEPT !.at = "reset", !.user = u, !.wants = p]
  <2>1. /\ new \in AccountLocal /\ new.at = "reset" /\ new.user = u
        /\ new.wants = p
    BY DEF AccountIdle, AccountLocal
  <2>2. Ask(c, new) /\ Active(u)
    BY <1>4 DEF ResetPassword
  <2> HIDE DEF new
  <2>3. AccountsInv'
    BY <2>1, <2>2, AskKeepsInv
  <2> QED  BY <2>2, <2>3 DEF Ask
<1>5. ASSUME NEW u \in User, NEW p \in Password \cup {NoAccount},
             UpdateCurrentUser(c, u, p)
      PROVE  AccountsInv' /\ UNCHANGED <<account, tokens>>
  <2> DEFINE new == [AccountIdle EXCEPT !.at = "update", !.user = u, !.wants = p,
                                        !.read = account[u].password]
  <2>0. Active(u) /\ Ask(c, new)
    BY <1>5 DEF UpdateCurrentUser
  <2>1. account[u].password \in Password
    BY <2>0, AccountFields DEF Active, AccountsInv, AccountsTypeOK
  <2>2. /\ new \in AccountLocal /\ new.at = "update" /\ new.user = u
        /\ new.read = account[u].password
    BY <2>1 DEF AccountIdle, AccountLocal
  <2> HIDE DEF new
  <2>3. AccountsInv'
    BY <2>0, <2>2, AskKeepsInv
  <2> QED  BY <2>0, <2>3 DEF Ask
<1> QED  BY <1>1, <1>2, <1>3, <1>4, <1>5

\* Registration and activation of an account.
LEMMA CreateUserInv ==
  ASSUME AccountsInv, NEW c \in AccountCall, CreateUser(c)
  PROVE  AccountsInv'
<1> DEFINE u == acall[c].user
           row == [active |-> TRUE, password |-> acall[c].wants]
           new == [acall[c] EXCEPT !.at = "save"]
<1>1. /\ acall[c].at = "insert" /\ account[u] = NoAccount
      /\ account' = [account EXCEPT ![u] = row]
      /\ acall' = [acall EXCEPT ![c] = new]
      /\ UNCHANGED <<tokens, saved, rewritten, left>>
  BY DEF CreateUser, GoOn
<1>2. u \in User /\ acall[c].wants \in Password
  BY <1>1 DEF AccountsInv, CallsFilled
<1>3. row \in Account /\ row.active /\ row # NoAccount
  <2>1. row \in Account
    BY <1>2 DEF Account
  <2>2. row.active
    OBVIOUS
  <2> QED  BY <2>1, <2>2, NoAccountAssumption
<1>4. new \in AccountLocal /\ new.at = "save" /\ new.user = u
  BY LocalAtStep DEF AccountsInv, AccountsTypeOK
<1> HIDE DEF u, row, new
<1>5. AccountsTypeOK'
  BY <1>1, <1>3, <1>4 DEF AccountsInv, AccountsTypeOK
<1>6. \A d \in AccountCall :
        acall'[d].at \in {"update", "reset"} => /\ d # c
                                                /\ acall'[d] = acall[d]
                                                /\ acall[d].user # u
  BY <1>1, <1>4 DEF AccountsInv, AccountsTypeOK, CallsFilled
<1>7. CallsFilled'
  BY <1>1, <1>2, <1>4, <1>6 DEF AccountsInv, AccountsTypeOK, CallsFilled
<1>8. SeenActive'
  BY <1>1, <1>2, <1>3, <1>4 DEF AccountsInv, AccountsTypeOK, SeenActive
<1>9. SeenPassword'
  BY <1>1, <1>2, <1>6 DEF AccountsInv, AccountsTypeOK, SeenPassword
<1> QED  BY <1>5, <1>7, <1>8, <1>9 DEF AccountsInv

\* UpdateUser changes a password and nothing else of an account.
LEMMA UpdateUserInv ==
  ASSUME AccountsInv, NEW c \in AccountCall, UpdateUser(c)
  PROVE  /\ AccountsInv'
         /\ acall'[c] # acall[c]
         /\ acall[c].at \in {"update", "reset"}
         /\ acall[c].user \in User
         /\ \A u \in User : account'[u].password # account[u].password =>
              u = acall[c].user /\ account'[u].password = PasswordToWrite(c)
         /\ UNCHANGED tokens
<1> DEFINE u == acall[c].user
           p == PasswordToWrite(c)
           new == IF acall[c].at = "reset" THEN [acall[c] EXCEPT !.at = "tokens"]
                                           ELSE AccountIdle
           row == [account[u] EXCEPT !.password = p]
<1>1. /\ acall[c].at \in {"update", "reset"}
      /\ account' = [account EXCEPT ![u].password = p]
      /\ acall' = [acall EXCEPT ![c] = new]
      /\ rewritten' = [Forget(c, rewritten) EXCEPT ![u] =
                         IF p = account[u].password THEN @ ELSE Others(c)]
      /\ left' = IF acall[c].at = "reset" THEN left ELSE Forget(c, left)
      /\ UNCHANGED <<tokens, saved>>
  BY DEF UpdateUser
<1>2. /\ u \in User /\ account[u] # NoAccount /\ account[u] \in Account
      /\ acall[c].at = "reset" => acall[c].wants \in Password
      /\ acall[c].at = "update" => acall[c].read \in Password
      /\ acall[c].wants \in Password \cup {NoAccount}
  BY <1>1 DEF AccountsInv, CallsFilled, AccountsTypeOK, AccountLocal
<1>3. p \in Password
  BY <1>1, <1>2, AccountFields DEF PasswordToWrite
<1>4. /\ new \in AccountLocal /\ new.at \in {"tokens", "idle"}
      /\ new.at = "tokens" => new.user = u
  <2>1. CASE acall[c].at = "reset"
    BY <2>1, LocalAtStep DEF AccountsInv, AccountsTypeOK
  <2>2. CASE acall[c].at # "reset"
    BY <2>2, AccountIdleIsLocal
  <2> QED  BY <2>1, <2>2
<1>5. /\ row \in Account /\ row # NoAccount
      /\ row.active = account[u].active /\ row.password = p
  BY <1>2, <1>3, NoAccountAssumption DEF Account
<1>6. account' = [account EXCEPT ![u] = row]
  BY <1>1
<1>7. /\ \A v \in User \ {u} : rewritten'[v] = rewritten[v] \ {c}
      /\ rewritten'[u] = IF p = account[u].password THEN rewritten[u] \ {c}
                         ELSE Others(c)
      /\ rewritten' \in [User -> SUBSET AccountCall]
  BY <1>1, <1>2 DEF Forget, Others, AccountsInv, AccountsTypeOK
<1>8. /\ left' \in [User -> SUBSET AccountCall]
      /\ \A v \in User : left[v] \ {c} \subseteq left'[v]
  BY <1>1 DEF Forget, AccountsInv, AccountsTypeOK
<1> HIDE DEF u, p, new, row
<1>9. \A d \in AccountCall :
        acall'[d].at \in {"insert", "update", "reset", "exchange", "save"} =>
          d # c /\ acall'[d] = acall[d] /\ d \in Others(c)
  BY <1>1, <1>4 DEF AccountsInv, AccountsTypeOK, Others
<1>10. AccountsTypeOK'
  BY <1>1, <1>2, <1>4, <1>5, <1>6, <1>7, <1>8 DEF AccountsInv, AccountsTypeOK
<1>11. /\ \A v \in User : account'[v] # NoAccount <=> account[v] # NoAccount
       /\ \A v \in User : account[v] # NoAccount =>
            account'[v].active = account[v].active
       /\ \A v \in User : v # u => account'[v] = account[v]
       /\ account'[u].password = p
  BY <1>2, <1>5, <1>6 DEF AccountsInv, AccountsTypeOK
<1>12. CallsFilled'
  <2>1. \A d \in AccountCall : acall'[d].at # "idle" =>
          acall'[d].user \in User
    BY <1>1, <1>2, <1>4 DEF AccountsInv, AccountsTypeOK, CallsFilled
  <2> QED  BY <1>9, <1>11, <2>1 DEF AccountsInv, CallsFilled
<1>13. SeenActive'
  BY <1>8, <1>9, <1>11 DEF AccountsInv, SeenActive
<1>14. SeenPassword'
  <2> SUFFICES ASSUME NEW d \in AccountCall, NEW v \in User,
                      acall'[d].at = "update", acall'[d].user = v,
                      account'[v].password # acall'[d].read
               PROVE  d \in rewritten'[v]
    BY DEF SeenPassword
  <2>1. d # c /\ acall'[d] = acall[d] /\ d \in Others(c)
    BY <1>9
  <2>2. CASE v # u
    BY <1>7, <1>11, <2>1, <2>2 DEF AccountsInv, SeenPassword
  <2>3. CASE v = u /\ p = account[u].password
    BY <1>7, <1>11, <2>1, <2>3 DEF AccountsInv, SeenPassword
  <2>4. CASE v = u /\ p # account[u].password
    BY <1>7, <2>1, <2>4
  <2> QED  BY <2>2, <2>3, <2>4
<1>15. acall'[c] # acall[c]
  BY <1>1, <1>4 DEF AccountsInv, AccountsTypeOK
<1> QED  BY <1>1, <1>2, <1>10, <1>11, <1>12, <1>13, <1>14, <1>15
         DEF AccountsInv, u, p

\* A deactivation overtakes every other call in flight.
LEMMA DeleteCurrentUserInv ==
  ASSUME AccountsInv, NEW c \in AccountCall, NEW u \in User,
         DeleteCurrentUser(c, u)
  PROVE  /\ AccountsInv'
         /\ \A v \in User : account'[v].password = account[v].password
         /\ UNCHANGED tokens
<1> DEFINE new == [AccountIdle EXCEPT !.at = "tokens", !.user = u]
           row == [account[u] EXCEPT !.active = FALSE]
<1>1. /\ acall[c].at = "idle" /\ account[u] # NoAccount
      /\ account' = [account EXCEPT ![u].active = FALSE]
      /\ acall' = [acall EXCEPT ![c] = new]
      /\ left' = IF account[u].active THEN [left EXCEPT ![u] = Others(c)]
                 ELSE left
      /\ UNCHANGED <<tokens, saved, rewritten>>
  BY DEF DeleteCurrentUser
<1>2. new \in AccountLocal /\ new.at = "tokens" /\ new.user = u
  BY DEF AccountIdle, AccountLocal
<1>3. account[u] \in Account
  BY <1>1 DEF AccountsInv, AccountsTypeOK
<1>4. row \in Account /\ row.password = account[u].password
  BY <1>3 DEF Account
<1>5. row # NoAccount
  BY <1>4, NoAccountAssumption
<1>6. account' = [account EXCEPT ![u] = row]
  BY <1>1
<1>7. left' \in [User -> SUBSET AccountCall]
  BY <1>1 DEF Others, AccountsInv, AccountsTypeOK
<1> HIDE DEF new, row
<1>8. AccountsTypeOK'
  BY <1>1, <1>2, <1>4, <1>6, <1>7 DEF AccountsInv, AccountsTypeOK
<1>9. \A d \in AccountCall :
        acall'[d].at \in {"insert", "update", "reset", "exchange", "save"} =>
          d # c /\ acall'[d] = acall[d] /\ d \in Others(c)
  BY <1>1, <1>2 DEF AccountsInv, AccountsTypeOK, Others
<1>10. /\ \A v \in User : account'[v] # NoAccount <=> account[v] # NoAccount
       /\ \A v \in User : account'[v].password = account[v].password
       /\ \A v \in User : v # u => account'[v] = account[v]
  BY <1>1, <1>4, <1>5, <1>6 DEF AccountsInv, AccountsTypeOK
<1>11. CallsFilled'
  <2>1. \A d \in AccountCall : acall'[d].at # "idle" =>
          acall'[d].user \in User
    BY <1>1, <1>2 DEF AccountsInv, AccountsTypeOK, CallsFilled
  <2> QED  BY <1>9, <1>10, <2>1 DEF AccountsInv, CallsFilled
<1>12. SeenActive'
  <2> SUFFICES ASSUME NEW d \in AccountCall, NEW v \in User,
                      acall'[d].at \in {"exchange", "save"}, acall'[d].user = v,
                      account'[v] # NoAccount, ~account'[v].active
               PROVE  d \in left'[v]
    BY DEF SeenActive
  <2>1. d # c /\ acall'[d] = acall[d] /\ d \in Others(c)
    BY <1>9
  <2>2. CASE v = u /\ account[u].active
    BY <1>1, <2>1, <2>2 DEF AccountsInv, AccountsTypeOK
  <2>3. CASE v = u /\ ~account[u].active
    BY <1>1, <2>1, <2>3 DEF AccountsInv, SeenActive
  <2>4. CASE v # u
    <3>1. left'[v] = left[v]
      BY <1>1, <2>4 DEF AccountsInv, AccountsTypeOK
    <3> QED  BY <1>10, <2>1, <2>4, <3>1 DEF AccountsInv, SeenActive
  <2> QED  BY <2>2, <2>3, <2>4
<1>13. SeenPassword'
  BY <1>1, <1>9, <1>10 DEF AccountsInv, SeenPassword
<1> QED  BY <1>1, <1>8, <1>10, <1>11, <1>12, <1>13 DEF AccountsInv

\* The steps that touch tokens only.
LEMMA TokenStepsInv ==
  ASSUME AccountsInv, NEW c \in AccountCall,
         \/ SaveRefreshToken(c)
         \/ OwnerOfToken(c)
         \/ DeleteRefreshToken(c)
         \/ DeleteUserRefreshTokens(c)
         \/ AccountAbandon(c)
  PROVE  AccountsInv' /\ UNCHANGED account
<1>1. CASE SaveRefreshToken(c)
  <2> DEFINE t == [no |-> saved + 1, user |-> acall[c].user]
  <2>1. /\ acall[c].at = "save" /\ saved < MaxTokens
        /\ tokens' = tokens \cup {t} /\ saved' = saved + 1
        /\ AccountReturns(c) /\ UNCHANGED account
    BY <1>1 DEF SaveRefreshToken
  <2>2. acall[c].user \in User
    BY <2>1 DEF AccountsInv, CallsFilled
  <2>3. saved' \in 0..MaxTokens /\ t \in Token
    BY <2>1, <2>2, MaxTokensAssumption DEF AccountsInv, AccountsTypeOK, Token
  <2> HIDE DEF t
  <2>4. tokens' \subseteq Token
    BY <2>1, <2>3 DEF AccountsInv, AccountsTypeOK
  <2> QED  BY <2>1, <2>3, <2>4, ReturnKeepsAccounts
<1>2. CASE OwnerOfToken(c)
  <2>1. /\ acall[c].at = "owner" /\ Active(acall[c].user)
        /\ GoOn(c, "exchange") /\ UNCHANGED <<account, tokens, saved>>
    BY <1>2 DEF OwnerOfToken
  <2> QED  BY <2>1, GoOnKeepsInv
<1>3. CASE DeleteRefreshToken(c)
  <2>1. /\ acall[c].at = "exchange" /\ tokens' \subseteq tokens
        /\ GoOn(c, "save") /\ UNCHANGED <<account, saved>>
    BY <1>3 DEF DeleteRefreshToken
  <2> QED  BY <2>1, GoOnKeepsInv
<1>4. CASE DeleteUserRefreshTokens(c) \/ AccountAbandon(c)
  <2>1. /\ AccountReturns(c) /\ tokens' \subseteq tokens
        /\ UNCHANGED <<account, saved>>
    BY <1>4 DEF DeleteUserRefreshTokens, AccountAbandon
  <2>2. tokens' \subseteq Token /\ saved' \in 0..MaxTokens
    BY <2>1 DEF AccountsInv, AccountsTypeOK
  <2> QED  BY <2>1, <2>2, ReturnKeepsAccounts
<1> QED  BY <1>1, <1>2, <1>3, <1>4

\* A logout revokes a token.
LEMMA LogoutInv ==
  ASSUME AccountsInv, NEW t \in tokens, LogoutOrExpiry(t)
  PROVE  AccountsInv' /\ UNCHANGED account
BY DEF LogoutOrExpiry, AccountsInv, AccountsTypeOK, CallsFilled, SeenActive,
       SeenPassword

\* Every step keeps the invariant.
LEMMA AccountsNextInv ==
  AccountsInv /\ [AccountsNext]_accountVars => AccountsInv'
<1> SUFFICES ASSUME AccountsInv, [AccountsNext]_accountVars
             PROVE  AccountsInv'
  OBVIOUS
<1>1. ASSUME NEW c \in AccountCall, SessionStep(c)
      PROVE  AccountsInv'
  BY <1>1, StartsKeepInv, CreateUserInv, TokenStepsInv DEF SessionStep
<1>2. ASSUME NEW c \in AccountCall, ProfileStep(c)
      PROVE  AccountsInv'
  BY <1>2, StartsKeepInv, UpdateUserInv, DeleteCurrentUserInv, TokenStepsInv
  DEF ProfileStep
<1>3. ASSUME NEW c \in AccountCall, AccountAbandon(c)
      PROVE  AccountsInv'
  BY <1>3, TokenStepsInv
<1>4. ASSUME NEW t \in tokens, LogoutOrExpiry(t)
      PROVE  AccountsInv'
  BY <1>4, LogoutInv
<1>5. CASE UNCHANGED accountVars
  BY <1>5
  DEF accountVars, AccountsInv, AccountsTypeOK, CallsFilled, SeenActive,
      SeenPassword
<1> QED  BY <1>1, <1>2, <1>3, <1>4, <1>5 DEF AccountsNext

-----------------------------------------------------------------------------
\* The types of the variables of Accounts: every stored password is one that
\* somebody asked for, never NULL.
THEOREM AccountsTypeCorrect == AccountsSpec => []AccountsTypeOK
<1>1. AccountsInv => AccountsTypeOK
  BY DEF AccountsInv
<1> QED  BY <1>1, AccountsInitInv, AccountsNextInv, PTL DEF AccountsSpec

\* A new password gives way to an older one only by a profile update that was
\* in flight when it was stored, for any number of calls.
THEOREM PasswordsKept == AccountsSpec => PasswordKept
<1> DEFINE Rewrites(u) == /\ account[u] # NoAccount
                          /\ account'[u].password # account[u].password
           Asked(u) ==
             \E c \in AccountCall :
               /\ acall'[c] # acall[c]
               /\ acall[c].user = u
               /\ acall[c].at \in {"update", "reset"}
               /\ \/ account'[u].password = acall[c].wants
                  \/ c \in rewritten[u]
           Kept == \A u \in User : Rewrites(u) => Asked(u)
<1>1. AccountsInv /\ [AccountsNext]_accountVars => Kept
  <2> SUFFICES ASSUME AccountsInv, [AccountsNext]_accountVars, NEW u \in User,
                      Rewrites(u)
               PROVE  Asked(u)
    OBVIOUS
  <2>1. ASSUME NEW c \in AccountCall, UpdateUser(c)
        PROVE  Asked(u)
    <3>1. /\ acall'[c] # acall[c] /\ acall[c].at \in {"update", "reset"}
          /\ acall[c].user = u /\ account'[u].password = PasswordToWrite(c)
      BY <2>1, UpdateUserInv
    <3>2. CASE acall[c].wants # NoAccount
      BY <3>1, <3>2 DEF PasswordToWrite
    <3>3. CASE acall[c].wants = NoAccount
      <4>1. acall[c].at = "update" /\ account'[u].password = acall[c].read
        BY <3>1, <3>3, AccountFields DEF PasswordToWrite, AccountsInv, CallsFilled
      <4>2. c \in rewritten[u]
        BY <3>1, <4>1 DEF AccountsInv, SeenPassword
      <4> QED  BY <3>1, <4>2
    <3> QED  BY <3>2, <3>3
  <2>2. ASSUME NEW c \in AccountCall, CreateUser(c)
        PROVE  Asked(u)
    <3>1. /\ acall[c].user # u
          /\ account' = [account EXCEPT ![acall[c].user] =
                           [active |-> TRUE, password |-> acall[c].wants]]
      BY <2>2 DEF CreateUser
    <3> QED  BY <3>1 DEF AccountsInv, AccountsTypeOK
  <2>3. ASSUME NEW c \in AccountCall, NEW v \in User, DeleteCurrentUser(c, v)
        PROVE  Asked(u)
    BY <2>3, DeleteCurrentUserInv
  <2>4. CASE UNCHANGED account
    BY <2>4
  <2> HIDE DEF Asked
  <2>5. ASSUME NEW c \in AccountCall, SessionStep(c)
        PROVE  Asked(u)
    BY <2>2, <2>4, <2>5, StartsKeepInv, TokenStepsInv DEF SessionStep
  <2>6. ASSUME NEW c \in AccountCall, ProfileStep(c)
        PROVE  Asked(u)
    BY <2>1, <2>3, <2>4, <2>6, StartsKeepInv, TokenStepsInv DEF ProfileStep
  <2>7. (\E c \in AccountCall : AccountAbandon(c)) => UNCHANGED account
    BY TokenStepsInv
  <2>8. (\E t \in tokens : LogoutOrExpiry(t)) => UNCHANGED account
    BY LogoutInv
  <2>9. (UNCHANGED accountVars) => UNCHANGED account
    BY DEF accountVars
  <2> QED  BY <2>4, <2>5, <2>6, <2>7, <2>8, <2>9 DEF AccountsNext
<1> QED  BY <1>1, AccountsInitInv, AccountsNextInv, PTL
         DEF AccountsSpec, PasswordKept

\* An inactive account gets a session only from a call that was in flight
\* when it was deactivated, for any number of calls and tokens.
THEOREM NoSessionsAfterLeaving == AccountsSpec => NoSessionAfterLeaving
<1> DEFINE Session(u) == /\ account[u] # NoAccount
                         /\ ~account[u].active
                         /\ {t \in tokens' : t.user = u} \ tokens # {}
           InFlight(u) ==
             \E c \in left[u] : acall[c].at = "save" /\ acall'[c] # acall[c]
           NoneNew == \A u \in User : Session(u) => InFlight(u)
<1>1. AccountsInv /\ [AccountsNext]_accountVars => NoneNew
  <2> SUFFICES ASSUME AccountsInv, [AccountsNext]_accountVars, NEW u \in User,
                      Session(u)
               PROVE  InFlight(u)
    OBVIOUS
  <2>1. ASSUME NEW c \in AccountCall, SaveRefreshToken(c)
        PROVE  InFlight(u)
    <3>1. /\ acall[c].at = "save"
          /\ tokens' = tokens \cup {[no |-> saved + 1, user |-> acall[c].user]}
          /\ acall' = [acall EXCEPT ![c] = AccountIdle]
      BY <2>1 DEF SaveRefreshToken, AccountReturns
    <3>2. acall'[c] # acall[c]
      BY <3>1, AccountIdleIsLocal DEF AccountsInv, AccountsTypeOK
    <3>3. acall[c].user = u
      BY <3>1
    <3>4. c \in left[u]
      BY <3>1, <3>3 DEF AccountsInv, SeenActive
    <3> QED  BY <3>1, <3>2, <3>4
  <2>2. CASE tokens' \subseteq tokens
    BY <2>2
  <2> HIDE DEF InFlight
  <2>3. ASSUME NEW c \in AccountCall, SessionStep(c)
        PROVE  InFlight(u)
    <3>1. CASE SaveRefreshToken(c)
      BY <2>1, <3>1
    <3>2. CASE CreateUser(c) \/ OwnerOfToken(c) \/ DeleteRefreshToken(c)
      BY <2>2, <3>2 DEF CreateUser, OwnerOfToken, DeleteRefreshToken
    <3> QED  BY <2>2, <2>3, <3>1, <3>2, StartsKeepInv DEF SessionStep
  <2>4. ASSUME NEW c \in AccountCall, ProfileStep(c)
        PROVE  InFlight(u)
    <3>1. CASE DeleteUserRefreshTokens(c)
      BY <2>2, <3>1 DEF DeleteUserRefreshTokens
    <3> QED  BY <2>2, <2>4, <3>1, StartsKeepInv, UpdateUserInv,
                DeleteCurrentUserInv DEF ProfileStep
  <2>5. (\E c \in AccountCall : AccountAbandon(c)) => tokens' \subseteq tokens
    BY DEF AccountAbandon
  <2>6. (\E t \in tokens : LogoutOrExpiry(t)) => tokens' \subseteq tokens
    BY DEF LogoutOrExpiry
  <2>7. (UNCHANGED accountVars) => tokens' \subseteq tokens
    BY DEF accountVars
  <2> QED  BY <2>2, <2>3, <2>4, <2>5, <2>6, <2>7 DEF AccountsNext
<1> QED  BY <1>1, AccountsInitInv, AccountsNextInv, PTL
         DEF AccountsSpec, NoSessionAfterLeaving

-----------------------------------------------------------------------------
(* Recurring *)

\* Runs that have something in hand, those about to book, and those for d.
InFlight == {r \in Run : run[r].at # "idle"}
AboutToBook == {r \in Run : run[r].at = "book"}
Booking(d) == {r \in Run : run[r].at = "book" /\ run[r].copy.due = d}

\* The expenses booked for d and those about to be.
Claims(d) == TimesBooked(d) + Cardinality(Booking(d))

Slack == lost + crossed

\* A run in flight holds a date it may book for, and the template has one too.
DatesHeld ==
  /\ \A r \in InFlight : run[r].copy \in Template /\ run[r].copy.due \in 1..Horizon
  /\ template # NoTemplate => template.due \in Nat \ {0}
  /\ \A e \in Editor : editor[e].at = "update" => editor[e].copy \in Template

\* What the counters count.
Counted ==
  /\ SumFunction(booked) + Cardinality(AboutToBook) <= started
  /\ lost + Cardinality(InFlight) <= started
  /\ crossed <= started

\* Before the template is created nothing has happened.
NothingYet ==
  dates = {} => template = NoTemplate /\ InFlight = {} /\ booked = EmptyBag

\* A run that overlaps no other goes by the due date the template has.
AloneInStep ==
  crossed = 0 =>
    /\ \A q, r \in InFlight : q = r
    /\ template # NoTemplate =>
         \A r \in InFlight :
           /\ run[r].copy.due = template.due
           /\ run[r].at = "advance" => BagIn(run[r].copy.due, booked)

\* No date is claimed more often than the runs that went wrong explain; a
\* date that is still to come only by a run in flight; and a date after one
\* that a run in flight has in hand is not claimed even once more.
ClaimsBounded ==
  \A d \in Nat :
    /\ Claims(d) <= 1 + Slack
    /\ (template # NoTemplate /\ template.due <= d) =>
         \/ Claims(d) <= Slack
         \/ \E r \in InFlight : run[r].copy.due = d
    /\ (\E r \in InFlight : run[r].copy.due < d) => Claims(d) <= Slack

RecurringInv ==
  /\ RecurringTypeOK
  /\ DatesHeld
  /\ Counted
  /\ NothingYet
  /\ AloneInStep
  /\ NoneSkipped
  /\ ClaimsBounded
-----------------------------------------------------------------------------
(* The calendar *)

Months == 1..Len(MonthLength)

\* There are months, each with days.
LEMMA MonthsAre ==
  /\ Len(MonthLength) \in Nat
  /\ \A m \in Months : MonthLength[m] \in 28..31
  /\ \A m, n \in Int : m..n \subseteq Months =>
       /\ IsFiniteSet(m..n)
       /\ \A k \in m..n : MonthLength[k] \in Int /\ MonthLength[k] \in Nat
<1>1. Len(MonthLength) \in Nat /\ \A m \in Months : MonthLength[m] \in 28..31
  BY CalendarAssumption, LenProperties, ElementOfSeq DEF Months
<1>2. \A m, n \in Int : IsFiniteSet(m..n)
  BY FS_Interval
<1> QED  BY <1>1, <1>2

\* The days before a month are those before the one before and its own.
LEMMA DaysBeforeIs ==
  /\ DaysBefore[1] = 0
  /\ \A m \in 1..Len(MonthLength) + 1 :
       DaysBefore[m] \in Int /\ DaysBefore[m] = SumFunctionOnSet(MonthLength, 1..m - 1)
<1>1. ASSUME NEW m \in 1..Len(MonthLength) + 1
      PROVE  DaysBefore[m] \in Int
             /\ DaysBefore[m] = SumFunctionOnSet(MonthLength, 1..m - 1)
  <2>1. DaysBefore[m] = SumFunctionOnSet(MonthLength, 1..m - 1)
    BY DEF DaysBefore
  <2>2. 1..m - 1 \subseteq Months /\ m - 1 \in Int
    BY MonthsAre DEF Months
  <2>3. SumFunctionOnSet(MonthLength, 1..m - 1) \in Int
    BY <2>2, MonthsAre, SumIsInt
  <2> QED  BY <2>1, <2>3
<1>2. DaysBefore[1] = 0
  <2>1. 1 \in 1..Len(MonthLength) + 1 /\ 1..1 - 1 = {}
    BY MonthsAre
  <2> QED  BY <1>1, <2>1, SumOfNothing
<1> QED  BY <1>1, <1>2

\* A later month starts on a later day.
LEMMA DaysBeforeGrows ==
  ASSUME NEW m \in 1..Len(MonthLength) + 1, NEW n \in 1..Len(MonthLength) + 1, m < n
  PROVE  DaysBefore[m] < DaysBefore[n]
<1> DEFINE A == 1..m - 1
           B == m..n - 1
<1>1. /\ A \cup B = 1..n - 1 /\ A \cap B = {}
      /\ A \subseteq Months /\ B \subseteq Months /\ m \in B
      /\ m \in Int /\ m - 1 \in Int /\ n - 1 \in Int
  BY MonthsAre DEF Months
<1>2. /\ IsFiniteSet(A) /\ \A k \in A : MonthLength[k] \in Int
      /\ IsFiniteSet(B) /\ \A k \in B : MonthLength[k] \in Int /\ MonthLength[k] \in Nat
  BY <1>1, MonthsAre
<1>3. MonthLength[m] >= 28 /\ MonthLength[m] \in Int
  <2>1. m \in Months
    BY <1>1
  <2>2. MonthLength[m] \in 28..31
    BY <2>1, MonthsAre
  <2> QED  BY <2>2
<1> HIDE DEF A, B
<1>4. SumFunctionOnSet(MonthLength, A \cup B)
        = SumFunctionOnSet(MonthLength, A) + SumFunctionOnSet(MonthLength, B)
  BY <1>1, <1>2, SumOfParts
<1>5. MonthLength[m] <= SumFunctionOnSet(MonthLength, B)
        /\ SumFunctionOnSet(MonthLength, B) \in Nat
  BY <1>1, <1>2, SumBoundsTerms
<1>6. /\ DaysBefore[m] = SumFunctionOnSet(MonthLength, A) /\ DaysBefore[m] \in Int
      /\ DaysBefore[n] = SumFunctionOnSet(MonthLength, A \cup B)
  BY <1>1, DaysBeforeIs DEF A
<1> QED  BY <1>3, <1>4, <1>5, <1>6

\* Every date up to the horizon lies in a month after which a year is left.
LEMMA MonthFound ==
  ASSUME NEW d \in 1..Horizon
  PROVE  /\ MonthOf(d) \in 1..Len(MonthLength) - 11
         /\ DaysBefore[MonthOf(d)] < d /\ d <= DaysBefore[MonthOf(d) + 1]
<1> DEFINE L == Len(MonthLength)
           Reached == {n \in 1..L + 1 : d <= DaysBefore[n]}
           Before == {n \in Nat : n = 0 \/ n \notin Reached}
<1>1. L \in Nat /\ L > 11 /\ d \in Nat /\ d > 0 /\ DaysBefore[1] = 0
      /\ \A n \in 1..L + 1 : DaysBefore[n] \in Int
  BY MonthsAre, HorizonAssumption, DaysBeforeIs
<1>2. L - 10 \in Reached
  BY <1>1, HorizonAssumption
<1>3. \E m \in Before : m + 1 \notin Before
  <2> SUFFICES ASSUME \A m \in Nat : m \in Before => m + 1 \in Before
               PROVE  FALSE
    OBVIOUS
  <2>1. 0 \in Before
    OBVIOUS
  <2> HIDE DEF Before
  <2>2. Nat \subseteq Before
    BY <2>1, NatInductionOnSets
  <2> QED  BY <1>1, <1>2, <2>2 DEF Before
<1>4. PICK m \in Before : m + 1 \notin Before
  BY <1>3
<1>5. m + 1 \in Reached /\ m \in Nat
  BY <1>4
<1>6. m # 0
  BY <1>1, <1>5
<1>7. m \in DOMAIN MonthLength /\ DaysBefore[m] < d /\ d <= DaysBefore[m + 1]
  <2>1. DOMAIN MonthLength = 1..L
    BY CalendarAssumption, LenProperties
  <2>2. m \in 1..L
    BY <1>1, <1>5, <1>6
  <2> QED  BY <1>1, <1>4, <1>5, <1>6, <2>1, <2>2
<1>8. /\ MonthOf(d) \in DOMAIN MonthLength
      /\ DaysBefore[MonthOf(d)] < d /\ d <= DaysBefore[MonthOf(d) + 1]
  BY <1>7 DEF MonthOf
<1>9. MonthOf(d) \in 1..L
  BY <1>8, CalendarAssumption, LenProperties
<1>10. ~(MonthOf(d) >= L - 10)
  <2> SUFFICES ASSUME MonthOf(d) >= L - 10 PROVE FALSE
    OBVIOUS
  <2>1. d <= DaysBefore[L - 10] /\ L - 10 \in 1..L + 1 /\ MonthOf(d) \in 1..L + 1
    BY <1>1, <1>2, <1>9
  <2>2. DaysBefore[L - 10] <= DaysBefore[MonthOf(d)]
    <3>1. CASE MonthOf(d) = L - 10
      BY <1>1, <2>1, <3>1
    <3>2. CASE MonthOf(d) # L - 10
      <4>1. L - 10 < MonthOf(d)
        BY <1>1, <1>9, <3>2
      <4>2. DaysBefore[L - 10] < DaysBefore[MonthOf(d)]
        BY <2>1, <4>1, DaysBeforeGrows
      <4> QED  BY <1>1, <2>1, <4>2
    <3> QED  BY <3>1, <3>2
  <2> QED  BY <1>1, <1>8, <2>1, <2>2
<1> HIDE DEF Reached, Before
<1> QED  BY <1>1, <1>8, <1>9, <1>10

\* calculateNextDueDate moves a due date forward, whatever the months.
LEMMA NextIsLater ==
  ASSUME NEW d \in 1..Horizon, NEW every \in Recurrence
  PROVE  /\ calculateNextDueDate(d, every) \in Nat
         /\ calculateNextDueDate(d, every) > d
<1> DEFINE m == MonthOf(d)
<1>1. d \in Nat /\ d > 0
  BY HorizonAssumption
<1>2. m \in 1..Len(MonthLength) - 11 /\ Len(MonthLength) \in Nat
  BY MonthFound, MonthsAre
<1>3. ASSUME NEW n \in {1, 12}
      PROVE  AddMonths(d, n) \in Nat /\ AddMonths(d, n) > d
  <2>1. m \in 1..Len(MonthLength) + 1 /\ m + n \in 1..Len(MonthLength) + 1 /\ m < m + n
    BY <1>2
  <2>2. DaysBefore[m] < DaysBefore[m + n]
        /\ DaysBefore[m] \in Int /\ DaysBefore[m + n] \in Int
    BY <2>1, DaysBeforeGrows, DaysBeforeIs
  <2> HIDE DEF m
  <2>3. AddMonths(d, n) = DaysBefore[m + n] + (d - DaysBefore[m])
    BY DEF AddMonths, DayOf, m
  <2> QED  BY <1>1, <2>2, <2>3
<1>4. every \in {"daily", "weekly", "monthly", "yearly"}
  BY CalendarAssumption
<1>5. CASE every = "daily"
  BY <1>1, <1>5 DEF calculateNextDueDate
<1>6. CASE every = "weekly"
  BY <1>1, <1>6 DEF calculateNextDueDate
<1>7. CASE every = "monthly"
  BY <1>3, <1>7 DEF calculateNextDueDate
<1>8. CASE every = "yearly"
  BY <1>3, <1>8 DEF calculateNextDueDate
<1> QED  BY <1>4, <1>5, <1>6, <1>7, <1>8

-----------------------------------------------------------------------------
(* Bags *)

\* One more expense for the date c.
LEMMA BookOne ==
  ASSUME IsABag(booked), IsFiniteSet(DOMAIN booked), NEW CONSTANT c,
         booked' = booked (+) SetToBag({c})
  PROVE  /\ IsABag(booked') /\ BagToSet(booked') = BagToSet(booked) \cup {c}
         /\ \A d : TimesBooked(d)' = TimesBooked(d) + (IF d = c THEN 1 ELSE 0)
         /\ \A d : TimesBooked(d) \in Nat
         /\ SumFunction(booked) \in Nat
         /\ SumFunction(booked') = SumFunction(booked) + 1
<1> DEFINE B == booked
           D == B (+) SetToBag({c})
<1>1. \A d \in DOMAIN B : B[d] \in Nat /\ B[d] \in Int /\ B[d] > 0
  BY DEF IsABag
<1>2. DOMAIN D = DOMAIN B \cup {c}
  BY DEF (+), SetToBag
<1>3. \A d \in DOMAIN D : D[d] = (IF d \in DOMAIN B THEN B[d] ELSE 0)
                                 + (IF d = c THEN 1 ELSE 0)
  BY DEF (+), SetToBag
<1>4. IsABag(D)
  <2>1. D = [d \in DOMAIN D |-> D[d]]
    BY DEF (+), SetToBag
  <2> HIDE DEF D
  <2>2. \A d \in DOMAIN D : D[d] \in Nat /\ D[d] > 0
    <3> HIDE DEF B
    <3>1. SUFFICES ASSUME NEW d \in DOMAIN D PROVE D[d] \in Nat /\ D[d] > 0
      OBVIOUS
    <3>2. CASE d \in DOMAIN B
      BY <1>1, <1>3, <3>2
    <3>3. CASE d \notin DOMAIN B
      BY <1>2, <1>3, <3>3
    <3> QED  BY <3>2, <3>3
  <2> QED  BY <2>1, <2>2 DEF IsABag
<1> HIDE DEF D
<1>5. D = booked'
  BY DEF D
<1>6. \A d : /\ TimesBooked(d)' = TimesBooked(d) + (IF d = c THEN 1 ELSE 0)
             /\ TimesBooked(d) \in Nat
  <2>1. SUFFICES ASSUME NEW d
                 PROVE  /\ TimesBooked(d)' = TimesBooked(d) + (IF d = c THEN 1 ELSE 0)
                        /\ TimesBooked(d) \in Nat
    OBVIOUS
  <2>2. TimesBooked(d) = (IF d \in DOMAIN B THEN B[d] ELSE 0)
        /\ TimesBooked(d)' = (IF d \in DOMAIN D THEN D[d] ELSE 0)
    BY <1>5 DEF TimesBooked, BagIn, BagToSet
  <2> HIDE DEF B
  <2>3. CASE d \in DOMAIN B
    BY <1>1, <1>2, <1>3, <2>2, <2>3
  <2>4. CASE d \notin DOMAIN B
    BY <1>1, <1>2, <1>3, <2>2, <2>4
  <2> QED  BY <2>3, <2>4
<1>7. SumFunction(B) \in Nat /\ SumFunction(D) = SumFunction(B) + 1
  <2> DEFINE S == DOMAIN B
  <2>0. IsFiniteSet(S)
    OBVIOUS
  <2> HIDE DEF B
  <2>1. SumFunctionOnSet(B, S) \in Nat
    BY <1>1, <2>0, SumBoundsTerms
  <2>2. SumFunction(B) = SumFunctionOnSet(B, S)
    BY DEF SumFunction
  <2>3. SumFunction(D) = SumFunctionOnSet(D, S \cup {c})
    BY <1>2 DEF SumFunction
  <2>4. CASE c \notin S
    <3>1. \A d \in S : B[d] \in Int /\ D[d] = B[d]
      BY <1>1, <1>2, <1>3, <2>4
    <3>2. D[c] = 1
      BY <1>2, <1>3, <2>4
    <3> HIDE DEF S
    <3>3. IsFiniteSet(S) /\ DOMAIN B = S /\ DOMAIN D = S \cup {c} /\ D[c] \in Int
      BY <1>2, <2>0, <3>2 DEF S
    <3>4. SumFunction(D) = SumFunction(B) + D[c]
      BY ONLY <2>4, <3>1, <3>3, SumGrows
    <3> QED  BY <2>1, <2>2, <3>2, <3>4
  <2>5. CASE c \in S
    <3> DEFINE T == S \ {c}
    <3>1. \A d \in S : B[d] \in Int /\ D[d] \in Int
      BY <1>1, <1>2, <1>3
    <3>2. \A d \in T : B[d] = D[d] /\ B[d] \in Int
      BY <1>1, <1>2, <1>3
    <3>3. D[c] = B[c] + 1 /\ B[c] \in Int
      BY <1>1, <1>2, <1>3, <2>5
    <3>4. S \cup {c} = S
      BY <2>5
    <3> HIDE DEF S
    <3>5. SumFunctionOnSet(B, S) = B[c] + SumFunctionOnSet(B, T)
          /\ SumFunctionOnSet(D, S) = D[c] + SumFunctionOnSet(D, T)
      BY <2>0, <2>5, <3>1, SumWithout DEF S
    <3>6. IsFiniteSet(T)
      BY <2>0, FS_RemoveElement DEF S
    <3> HIDE DEF T
    <3>7. SumFunctionOnSet(B, T) = SumFunctionOnSet(D, T)
          /\ SumFunctionOnSet(B, T) \in Int
      BY <3>2, <3>6, SumAgrees, SumIsInt
    <3>8. SumFunction(D) = SumFunctionOnSet(D, S)
      BY ONLY <2>3, <3>4
    <3> QED  BY ONLY <2>1, <2>2, <3>3, <3>5, <3>7, <3>8
  <2> QED  BY <2>1, <2>2, <2>4, <2>5
<1> QED  BY <1>2, <1>4, <1>5, <1>6, <1>7 DEF BagToSet
-----------------------------------------------------------------------------
(* What a step does to the runs in flight *)

\* Runs are finitely many.
LEMMA RunSets ==
  /\ IsFiniteSet(InFlight) /\ Cardinality(InFlight) \in Nat
  /\ IsFiniteSet(AboutToBook) /\ Cardinality(AboutToBook) \in Nat
  /\ \A d : IsFiniteSet(Booking(d)) /\ Cardinality(Booking(d)) \in Nat
<1>1. InFlight \subseteq Run /\ AboutToBook \subseteq Run /\ \A d : Booking(d) \subseteq Run
  BY DEF InFlight, AboutToBook, Booking
<1> QED  BY <1>1, RunsAssumption, FS_Subset, FS_CardinalityType

\* The parts of the invariant, taken apart.
LEMMA InvParts ==
  ASSUME RecurringInv
  PROVE  /\ run \in [Run -> RunLocal]
         /\ IsABag(booked) /\ IsFiniteSet(DOMAIN booked)
         /\ \A d : TimesBooked(d) \in Nat /\ Claims(d) \in Nat
         /\ SumFunction(booked) \in Nat
         /\ lost \in Nat /\ crossed \in Nat /\ started \in Nat
         /\ lost \in Int /\ crossed \in Int /\ Slack \in Nat
<1>1. /\ run \in [Run -> RunLocal] /\ IsABag(booked) /\ BagToSet(booked) \subseteq 1..Horizon
      /\ lost \in Nat /\ crossed \in Nat /\ started \in Nat
  BY RunsAssumption DEF RecurringInv, RecurringTypeOK
<1>2. IsFiniteSet(DOMAIN booked)
  <2>1. IsFiniteSet(1..Horizon)
    BY HorizonAssumption, FS_Interval
  <2> QED  BY <1>1, <2>1, FS_Subset DEF BagToSet
<1>3. \A d \in DOMAIN booked : booked[d] \in Nat
  BY <1>1 DEF IsABag
<1>4. \A d : TimesBooked(d) \in Nat
  BY <1>3 DEF TimesBooked, BagIn, BagToSet
<1>5. SumFunction(booked) \in Nat
  BY <1>2, <1>3, SumBoundsTerms DEF SumFunction
<1>6. \A d : Claims(d) \in Nat
  BY <1>4, RunSets DEF Claims
<1> QED  BY <1>1, <1>2, <1>4, <1>5, <1>6 DEF Slack

\* A step that touches neither the runs nor what they have booked, and leaves
\* the due date of the template as it is, keeps the invariant.
LEMMA QuietKeeps ==
  ASSUME RecurringInv,
         UNCHANGED <<booked, run, started, dates, lost, crossed>>,
         today' \in CheckDay,
         template' \in Template \cup {NoTemplate},
         template' # NoTemplate =>
           template # NoTemplate /\ template'.due = template.due,
         editor' \in [Editor -> EditorLocal],
         \A e \in Editor : editor'[e].at = "update" => editor'[e].copy \in Template
  PROVE  RecurringInv'
<1>1. /\ InFlight' = InFlight /\ AboutToBook' = AboutToBook
      /\ \A d : Booking(d)' = Booking(d)
      /\ \A d : TimesBooked(d)' = TimesBooked(d)
  BY DEF InFlight, AboutToBook, Booking, TimesBooked, BagIn
<1>2. (\A d : Claims(d)' = Claims(d)) /\ Slack' = Slack
  BY <1>1 DEF Claims, Slack
<1>3. RecurringTypeOK'
  BY DEF RecurringInv, RecurringTypeOK
<1>4. DatesHeld'
  BY <1>1 DEF RecurringInv, DatesHeld
<1>5. Counted'
  BY <1>1 DEF RecurringInv, Counted
<1>6. NothingYet'
  BY <1>1 DEF RecurringInv, NothingYet
<1>7. AloneInStep'
  BY <1>1 DEF RecurringInv, AloneInStep
<1>8. NoneSkipped'
  BY DEF RecurringInv, NoneSkipped
<1>9. ClaimsBounded'
  BY <1>1, <1>2 DEF RecurringInv, ClaimsBounded
<1> QED  BY <1>3, <1>4, <1>5, <1>6, <1>7, <1>8, <1>9 DEF RecurringInv

\* What an edit makes of the template.
LEMMA TemplateEdited ==
  ASSUME NEW t \in Template, NEW every \in Recurrence,
         NEW end \in EndDate \cup {NoTemplate}, NEW active \in BOOLEAN
  PROVE  [t EXCEPT !.every = every, !.active = active,
            !.end = IF end = NoTemplate THEN @ ELSE end] \in Template
BY DEF Template

\* An edit does not move the due date backwards past what is booked.
LEMMA EditKeeps ==
  ASSUME RecurringInv, NEW e \in Editor, EditStep(e)
  PROVE  RecurringInv'
<1>1. /\ template \in Template \cup {NoTemplate} /\ today \in CheckDay
      /\ editor \in [Editor -> EditorLocal]
      /\ \A i \in Editor : editor[i].at = "update" => editor[i].copy \in Template
      /\ NoTemplate \notin Template
  BY NoTemplateAssumption DEF RecurringInv, RecurringTypeOK, DatesHeld
<1>2. AtRest \in EditorLocal /\ AtRest.at = "idle"
  BY DEF AtRest, EditorLocal
<1>3. ASSUME NEW every \in Recurrence, NEW end \in EndDate \cup {NoTemplate},
             NEW active \in BOOLEAN, UpdateRecurringReads(e, every, end, active)
      PROVE  RecurringInv'
  <2> DEFINE copy == [template EXCEPT !.every = every, !.active = active,
                        !.end = IF end = NoTemplate THEN @ ELSE end]
             new == [at |-> "update", copy |-> copy]
  <2>1. copy \in Template
    BY <1>1, <1>3, TemplateEdited DEF UpdateRecurringReads
  <2>2. /\ editor' = [editor EXCEPT ![e] = new]
        /\ UNCHANGED <<template, booked, today, run, started, dates, lost, crossed>>
    BY <1>3 DEF UpdateRecurringReads
  <2> HIDE DEF copy
  <2>3. new \in EditorLocal /\ new.copy \in Template
    BY <2>1 DEF EditorLocal
  <2> HIDE DEF new
  <2> QED  BY <1>1, <2>2, <2>3, QuietKeeps
<1>4. CASE UpdateRecurringWrites(e)
  <2>1. template # NoTemplate =>
          template' \in Template /\ template'.due = template.due
    <3> SUFFICES ASSUME template # NoTemplate
                 PROVE  template' \in Template /\ template'.due = template.due
      OBVIOUS
    <3>1. editor[e].copy \in Template /\ template.due \in Nat
      BY <1>1, <1>4 DEF UpdateRecurringWrites, Template
    <3>2. template' = [editor[e].copy EXCEPT !.due = template.due]
      BY <1>4 DEF UpdateRecurringWrites, UpdateRecurring
    <3> QED  BY <3>1, <3>2 DEF Template
  <2>2. /\ editor' = [editor EXCEPT ![e] = AtRest]
        /\ UNCHANGED <<booked, today, run, started, dates, lost, crossed>>
        /\ template = NoTemplate => template' = NoTemplate
    BY <1>4 DEF UpdateRecurringWrites
  <2> QED  BY <1>1, <1>2, <2>1, <2>2, QuietKeeps
<1>5. CASE DeleteRecurringReads(e)
  <2>1. /\ editor' = [editor EXCEPT ![e].at = "delete"]
        /\ UNCHANGED <<template, booked, today, run, started, dates, lost, crossed>>
    BY <1>5 DEF DeleteRecurringReads
  <2>2. editor' \in [Editor -> EditorLocal]
    BY <1>1, <2>1 DEF EditorLocal
  <2>3. \A i \in Editor : editor'[i].at = "update" => editor'[i].copy \in Template
    BY <1>1, <2>1 DEF EditorLocal
  <2> QED  BY <1>1, <2>1, <2>2, <2>3, QuietKeeps
<1>6. CASE DeleteRecurringWrites(e)
  BY <1>1, <1>2, <1>6, QuietKeeps DEF DeleteRecurringWrites
<1>7. CASE EditorAbandons(e)
  BY <1>1, <1>2, <1>7, QuietKeeps DEF EditorAbandons
<1> QED  BY <1>3, <1>4, <1>5, <1>6, <1>7 DEF EditStep

\* Clients' first request: nothing is booked and no run has anything in hand.
LEMMA CreateKeeps ==
  ASSUME RecurringInv, NEW start \in StartDate, NEW every \in Recurrence,
         NEW end \in EndDate \cup {NoTemplate}, CreateRecurring(start, every, end)
  PROVE  RecurringInv'
<1>1. /\ dates = {} /\ dates' = {start}
      /\ template' = [due |-> start, every |-> every, end |-> end, active |-> TRUE]
      /\ UNCHANGED <<booked, today, run, editor, started, lost, crossed>>
  BY DEF CreateRecurring
<1>2. start \in 1..Horizon /\ start \in Nat \ {0}
  BY CalendarAssumption, HorizonAssumption
<1>3. InFlight = {} /\ booked = EmptyBag
  BY <1>1 DEF RecurringInv, NothingYet
<1>4. template' \in Template /\ template'.due = start /\ template' # NoTemplate
  <2>1. template' \in Template
    <3>1. start \in Nat
      BY <1>2
    <3> QED  BY <1>1, <3>1 DEF Template
  <2>2. template'.due = start
    BY <1>1
  <2> QED  BY <2>1, <2>2, NoTemplateAssumption
<1>5. InFlight' = {} /\ AboutToBook' = AboutToBook /\ \A d : Booking(d)' = {}
  BY <1>1, <1>3 DEF InFlight, AboutToBook, Booking
<1>6. \A d : TimesBooked(d)' = 0
  BY <1>1, <1>3 DEF TimesBooked, BagIn, BagToSet, EmptyBag, SetToBag
<1>7. \A d : Claims(d)' = 0
  BY <1>5, <1>6, FS_EmptySet DEF Claims
<1>8. Slack' = Slack /\ Slack \in Nat
  BY <1>1, InvParts DEF Slack
<1>9. RecurringTypeOK'
  BY <1>1, <1>2, <1>4 DEF RecurringInv, RecurringTypeOK
<1>10. DatesHeld'
  BY <1>1, <1>2, <1>4, <1>5 DEF RecurringInv, DatesHeld
<1>11. Counted'
  <2>1. InFlight' = InFlight
    BY <1>3, <1>5
  <2> QED  BY <1>1, <1>5, <2>1 DEF RecurringInv, Counted
<1>12. NothingYet'
  BY <1>1 DEF NothingYet
<1>13. AloneInStep'
  BY <1>5 DEF AloneInStep
<1>14. NoneSkipped'
  BY <1>1, <1>4 DEF NoneSkipped
<1>15. ClaimsBounded'
  BY <1>5, <1>7, <1>8 DEF ClaimsBounded
<1> QED  BY <1>9, <1>10, <1>11, <1>12, <1>13, <1>14, <1>15 DEF RecurringInv
-----------------------------------------------------------------------------
(* The steps of a run *)

\* A run starts, with what it claims.
LEMMA StartKeeps ==
  ASSUME RecurringInv, NEW r \in Run, StartRun(r)
  PROVE  RecurringInv'
<1> DEFINE t == template.due
<1>1. /\ run[r].at = "idle" /\ started < MaxRuns /\ template # NoTemplate
      /\ t <= Horizon
      /\ run' = [run EXCEPT ![r] = [at |-> "book", copy |-> template]]
      /\ started' = started + 1
      /\ crossed' = IF \A q \in Run : run[q].at = "idle" THEN crossed ELSE crossed + 1
      /\ UNCHANGED <<template, booked, today, editor, dates, lost>>
  BY DEF StartRun, Due
<1>2. /\ template \in Template /\ t \in 1..Horizon /\ t \in Nat /\ MaxRuns \in Nat
      /\ run \in [Run -> RunLocal]
  BY <1>1, RunsAssumption, HorizonAssumption
  DEF RecurringInv, RecurringTypeOK, DatesHeld, Template
<1>3. /\ run'[r].at = "book" /\ run'[r].copy = template
      /\ \A q \in Run : q # r => run'[q] = run[q]
      /\ run' \in [Run -> RunLocal]
  BY <1>1, <1>2 DEF RunLocal
<1>4. /\ InFlight' = InFlight \cup {r} /\ r \notin InFlight
      /\ AboutToBook' = AboutToBook \cup {r} /\ r \notin AboutToBook
      /\ Booking(t)' = Booking(t) \cup {r}
      /\ \A d : r \notin Booking(d)
      /\ \A d : d # t => Booking(d)' = Booking(d)
  <2>1. InFlight' = InFlight \cup {r} /\ r \notin InFlight
    BY <1>1, <1>3 DEF InFlight
  <2>2. AboutToBook' = AboutToBook \cup {r} /\ r \notin AboutToBook
    BY <1>1, <1>3 DEF AboutToBook
  <2>3. \A d : r \notin Booking(d)
    BY <1>1 DEF Booking
  <2>4. ASSUME NEW d PROVE Booking(d)' = IF d = t THEN Booking(d) \cup {r} ELSE Booking(d)
    BY <1>1, <1>3 DEF Booking
  <2>5. template' = template
    BY <1>1
  <2> QED  BY <2>1, <2>2, <2>3, <2>4, <2>5
<1>5. /\ Cardinality(InFlight') = Cardinality(InFlight) + 1
      /\ Cardinality(AboutToBook') = Cardinality(AboutToBook) + 1
  BY <1>4, RunSets, FS_AddElement
<1>6. /\ \A d : TimesBooked(d)' = TimesBooked(d)
      /\ \A d : Claims(d) \in Nat
      /\ lost \in Nat /\ crossed \in Nat /\ started \in Nat /\ SumFunction(booked) \in Nat
      /\ \A d : TimesBooked(d) \in Nat
  BY <1>1, InvParts DEF TimesBooked, BagIn
<1>7. \A d : Claims(d)' = IF d = t THEN Claims(d) + 1 ELSE Claims(d)
  <2>1. Cardinality(Booking(t)') = Cardinality(Booking(t)) + 1
    BY <1>4, RunSets, FS_AddElement
  <2>2. template' = template
    BY <1>1
  <2>3. Claims(t)' = Claims(t) + 1
    BY <1>6, <2>1, <2>2, RunSets DEF Claims
  <2>4. ASSUME NEW d, d # t PROVE Claims(d)' = Claims(d)
    BY <1>4, <1>6, <2>4 DEF Claims
  <2> QED  BY <2>2, <2>3, <2>4
<1>8. IF InFlight = {} THEN crossed' = crossed /\ Slack' = Slack
      ELSE crossed' = crossed + 1 /\ Slack' = Slack + 1
  <2>1. InFlight = {} <=> \A q \in Run : run[q].at = "idle"
    BY DEF InFlight
  <2> QED  BY <1>1, <1>6, <2>1 DEF Slack
<1>9. Slack \in Nat /\ \A d : Claims(d) \in Int
  BY <1>6 DEF Slack
<1>10. Counted'
  BY <1>1, <1>5, <1>6, <1>8, RunSets DEF RecurringInv, Counted
<1>11. RecurringTypeOK'
  <2>1. lost' \in 0..MaxRuns /\ crossed' \in 0..MaxRuns /\ started' \in 0..MaxRuns
    BY <1>1, <1>2, <1>6, <1>8, <1>5, RunSets DEF RecurringInv, Counted, RecurringTypeOK
  <2> QED  BY <1>1, <1>3, <2>1 DEF RecurringInv, RecurringTypeOK
<1>12. DatesHeld'
  BY <1>1, <1>2, <1>3, <1>4 DEF RecurringInv, DatesHeld, InFlight
<1>13. NothingYet'
  BY <1>1 DEF RecurringInv, NothingYet
<1>14. AloneInStep'
  <2>1. crossed' = 0 => InFlight = {}
    BY <1>6, <1>8
  <2> QED  BY <1>1, <1>3, <1>4, <2>1 DEF AloneInStep
<1>15. NoneSkipped'
  <2>1. crossed' = 0 => crossed = 0
    BY <1>6, <1>8
  <2> QED  BY <1>1, <2>1 DEF RecurringInv, NoneSkipped
<1>16. /\ \A q \in InFlight' : q = r \/ (q \in InFlight /\ run'[q] = run[q])
       /\ \A q \in InFlight : q \in InFlight' /\ run'[q] = run[q]
       /\ r \in InFlight' /\ run'[r].copy.due = t
  <2>1. InFlight \subseteq Run
    BY DEF InFlight
  <2>2. run'[r].copy.due = t
    BY <1>3
  <2>3. \A q \in InFlight' : q = r \/ q \in InFlight
    BY <1>4
  <2>4. \A q \in InFlight : q # r /\ q \in Run /\ q \in InFlight'
    BY <1>4, <2>1
  <2>5. \A q \in InFlight : run'[q] = run[q]
    BY <1>3, <2>4
  <2>6. r \in InFlight'
    BY <1>4
  <2> QED  BY <2>2, <2>3, <2>4, <2>5, <2>6
<1>17. ClaimsBounded'
  <2> SUFFICES ASSUME NEW d \in Nat
               PROVE  /\ Claims(d)' <= 1 + Slack'
                      /\ (template # NoTemplate /\ t <= d) =>
                           \/ Claims(d)' <= Slack'
                           \/ \E q \in InFlight' : run'[q].copy.due = d
                      /\ (\E q \in InFlight' : run'[q].copy.due < d) => Claims(d)' <= Slack'
    BY <1>1 DEF ClaimsBounded
  <2> DEFINE Held == \E q \in InFlight : run[q].copy.due = d
             Passed == \E q \in InFlight : run[q].copy.due < d
  <2>1. /\ Claims(d) <= 1 + Slack
        /\ t <= d => Claims(d) <= Slack \/ Held
        /\ Passed => Claims(d) <= Slack
        /\ Held \/ Passed => InFlight # {}
    BY <1>1 DEF RecurringInv, ClaimsBounded
  <2>2. /\ Held => \E q \in InFlight' : run'[q].copy.due = d
        /\ d = t => \E q \in InFlight' : run'[q].copy.due = d
        /\ (\E q \in InFlight' : run'[q].copy.due < d) => Passed \/ t < d
    BY <1>16
  <2> HIDE DEF Held, Passed
  <2>3. Claims(d)' = (IF d = t THEN Claims(d) + 1 ELSE Claims(d)) /\ Claims(d) \in Nat
    BY <1>6, <1>7
  <2>4. \/ Slack' = Slack /\ InFlight = {}
        \/ Slack' = Slack + 1 /\ InFlight # {}
    BY <1>8
  <2> QED  BY <1>2, <1>9, <2>1, <2>2, <2>3, <2>4
<1> QED  BY <1>10, <1>11, <1>12, <1>13, <1>14, <1>15, <1>17 DEF RecurringInv

\* A run books the date it has in hand.
LEMMA BookKeeps ==
  ASSUME RecurringInv, NEW r \in Run, CreateFromRecurring(r)
  PROVE  RecurringInv'
<1> DEFINE c == run[r].copy.due
<1>1. /\ run[r].at = "book"
      /\ booked' = booked (+) SetToBag({c})
      /\ run' = [run EXCEPT ![r].at = "advance"]
      /\ UNCHANGED <<template, today, editor, started, dates, lost, crossed>>
  BY DEF CreateFromRecurring
<1>2. run \in [Run -> RunLocal] /\ r \in InFlight /\ c \in 1..Horizon
  BY <1>1 DEF RecurringInv, RecurringTypeOK, DatesHeld, InFlight
<1>3. /\ run' \in [Run -> RunLocal]
      /\ run'[r].at = "advance" /\ \A q \in Run : run'[q].copy = run[q].copy
      /\ \A q \in Run : q # r => run'[q] = run[q]
  BY <1>1, <1>2 DEF RunLocal
<1>4. /\ InFlight' = InFlight /\ AboutToBook' = AboutToBook \ {r} /\ r \in AboutToBook
      /\ \A d : d # c => Booking(d)' = Booking(d)
      /\ \A d : d = c => Booking(d)' = Booking(d) \ {r} /\ r \in Booking(d)
  BY <1>1, <1>3 DEF InFlight, AboutToBook, Booking
<1>5. /\ IsABag(booked') /\ BagToSet(booked') = BagToSet(booked) \cup {c}
      /\ \A d : TimesBooked(d)' = TimesBooked(d) + (IF d = c THEN 1 ELSE 0)
      /\ \A d : TimesBooked(d) \in Nat
      /\ SumFunction(booked) \in Nat
      /\ SumFunction(booked') = SumFunction(booked) + 1
  <2>1. IsABag(booked) /\ IsFiniteSet(DOMAIN booked)
    BY InvParts
  <2>2. ASSUME NEW CONSTANT x, x = c
        PROVE  /\ IsABag(booked') /\ BagToSet(booked') = BagToSet(booked) \cup {x}
               /\ \A d : TimesBooked(d)' = TimesBooked(d) + (IF d = x THEN 1 ELSE 0)
               /\ \A d : TimesBooked(d) \in Nat
               /\ SumFunction(booked) \in Nat
               /\ SumFunction(booked') = SumFunction(booked) + 1
    <3>1. booked' = booked (+) SetToBag({x})
      BY <1>1, <2>2
    <3> QED  BY ONLY <2>1, <3>1, BookOne
  <2> HIDE DEF c
  <2> QED  BY <2>2
<1> HIDE DEF c
<1>6. ASSUME NEW d PROVE Claims(d)' = Claims(d)
  <2>1. CASE d = c
    <3>1. Cardinality(Booking(d)') = Cardinality(Booking(d)) - 1
      BY <1>4, <2>1, RunSets, FS_RemoveElement
    <3>2. TimesBooked(d)' = TimesBooked(d) + 1 /\ TimesBooked(d) \in Nat
      BY <1>5, <2>1
    <3>3. Cardinality(Booking(d)) \in Nat
      BY RunSets
    <3> QED  BY <3>1, <3>2, <3>3 DEF Claims
  <2>2. CASE d # c
    BY <1>4, <1>5, <2>2 DEF Claims
  <2> QED  BY <2>1, <2>2
<1>7. Slack' = Slack
  BY <1>1 DEF Slack
<1>8. Cardinality(AboutToBook') = Cardinality(AboutToBook) - 1
  BY <1>4, RunSets, FS_RemoveElement
<1>9. Counted'
  BY <1>1, <1>4, <1>5, <1>8, RunSets, InvParts DEF RecurringInv, Counted
<1>10. RecurringTypeOK'
  <2>1. SumFunction(booked') <= MaxRuns
    <3>1. Cardinality(AboutToBook) \in Nat /\ Cardinality(AboutToBook) # 0
      BY <1>4, RunSets, FS_EmptySet
    <3>2. SumFunction(booked) + Cardinality(AboutToBook) <= started
          /\ started \in 0..MaxRuns
      BY DEF Counted, RecurringInv, RecurringTypeOK
    <3> QED  BY <1>5, <3>1, <3>2, RunsAssumption
  <2>2. BagToSet(booked') \subseteq 1..Horizon
    BY <1>2, <1>5 DEF RecurringInv, RecurringTypeOK
  <2> QED  BY <1>1, <1>3, <1>5, <2>1, <2>2 DEF RecurringInv, RecurringTypeOK
<1>11. DatesHeld'
  BY <1>1, <1>3, <1>4 DEF RecurringInv, DatesHeld, InFlight
<1>12. NothingYet'
  BY <1>1, <1>2 DEF RecurringInv, NothingYet
<1>13. \A d : BagIn(d, booked) \/ d = c => BagIn(d, booked')
  BY <1>5 DEF BagIn
<1>14. AloneInStep'
  <2> SUFFICES ASSUME crossed' = 0
               PROVE  /\ \A q, p \in InFlight : q = p
                      /\ template # NoTemplate =>
                           \A q \in InFlight :
                             /\ run'[q].copy.due = template.due
                             /\ BagIn(run'[q].copy.due, booked')
    BY <1>1, <1>4 DEF AloneInStep
  <2>1. /\ \A q, p \in InFlight : q = p
        /\ template # NoTemplate => \A q \in InFlight : run[q].copy.due = template.due
    BY <1>1 DEF RecurringInv, AloneInStep
  <2>2. InFlight = {r}
    BY <1>2, <2>1
  <2>3. run'[r].copy.due = c
    BY <1>3 DEF c
  <2>4. template # NoTemplate => run'[r].copy.due = template.due
    BY <1>2, <2>1, <2>3 DEF c
  <2> QED  BY <1>13, <2>1, <2>2, <2>3, <2>4
<1>15. NoneSkipped'
  BY <1>1, <1>13 DEF RecurringInv, NoneSkipped
<1>16. ClaimsBounded'
  BY <1>1, <1>3, <1>4, <1>6, <1>7 DEF RecurringInv, ClaimsBounded, InFlight
<1> QED  BY <1>9, <1>10, <1>11, <1>12, <1>14, <1>15, <1>16 DEF RecurringInv

\* A run that gives up its booking takes its claim back.
LEMMA BookingFailsKeeps ==
  ASSUME RecurringInv, NEW r \in Run, BookingFails(r)
  PROVE  RecurringInv'
<1> DEFINE c == run[r].copy.due
<1>1. /\ run[r].at = "book"
      /\ run' = [run EXCEPT ![r] = AtRest]
      /\ UNCHANGED <<template, booked, today, editor, started, dates, lost, crossed>>
  BY DEF BookingFails
<1>2. /\ run \in [Run -> RunLocal] /\ AtRest \in RunLocal /\ AtRest.at = "idle"
      /\ r \in InFlight
  BY <1>1 DEF RecurringInv, RecurringTypeOK, AtRest, RunLocal, InFlight
<1>3. /\ run' \in [Run -> RunLocal] /\ run'[r].at = "idle"
      /\ \A q \in Run : q # r => run'[q] = run[q]
  BY <1>1, <1>2
<1>4. /\ InFlight' = InFlight \ {r}
      /\ AboutToBook' = AboutToBook \ {r} /\ r \in AboutToBook
      /\ \A d : d # c => Booking(d)' = Booking(d)
      /\ \A d : d = c => Booking(d)' = Booking(d) \ {r} /\ r \in Booking(d)
      /\ \A q \in InFlight' : q \in InFlight /\ run'[q] = run[q]
      /\ \A q \in InFlight : q # r => q \in InFlight' /\ run'[q] = run[q]
  BY <1>1, <1>3 DEF InFlight, AboutToBook, Booking
<1>5. run[r].copy.due = c
  OBVIOUS
<1> HIDE DEF c
<1>6. /\ \A d : TimesBooked(d)' = TimesBooked(d) /\ TimesBooked(d) \in Nat
      /\ Slack' = Slack /\ Slack \in Nat
  BY <1>1, InvParts DEF TimesBooked, BagIn, Slack
<1>7. \A d : /\ Claims(d) \in Nat
             /\ d = c => Claims(d)' = Claims(d) - 1
             /\ d # c => Claims(d)' = Claims(d)
  <2>1. ASSUME NEW d, d = c PROVE Claims(d)' = Claims(d) - 1
    <3>1. Cardinality(Booking(d)') = Cardinality(Booking(d)) - 1
      BY <1>4, <2>1, RunSets, FS_RemoveElement
    <3> QED  BY <1>6, <3>1, RunSets DEF Claims
  <2>2. ASSUME NEW d, d # c PROVE Claims(d)' = Claims(d)
    BY <1>4, <1>6, <2>2 DEF Claims
  <2> QED  BY <2>1, <2>2, InvParts
<1>8. /\ Cardinality(AboutToBook') = Cardinality(AboutToBook) - 1
      /\ Cardinality(InFlight') = Cardinality(InFlight) - 1
  BY <1>2, <1>4, RunSets, FS_RemoveElement
<1>9. RecurringTypeOK'
  BY <1>1, <1>3 DEF RecurringInv, RecurringTypeOK
<1>10. DatesHeld'
  BY <1>1, <1>4 DEF RecurringInv, DatesHeld
<1>11. Counted'
  BY <1>1, <1>8, RunSets, InvParts DEF RecurringInv, Counted
<1>12. NothingYet'
  BY <1>1, <1>2 DEF RecurringInv, NothingYet
<1>13. AloneInStep'
  BY <1>1, <1>4 DEF RecurringInv, AloneInStep
<1>14. NoneSkipped'
  BY <1>1 DEF RecurringInv, NoneSkipped
<1>15. ClaimsBounded'
  <2> SUFFICES ASSUME NEW d \in Nat
               PROVE  /\ Claims(d)' <= 1 + Slack'
                      /\ (template # NoTemplate /\ template.due <= d) =>
                           \/ Claims(d)' <= Slack'
                           \/ \E q \in InFlight' : run'[q].copy.due = d
                      /\ (\E q \in InFlight' : run'[q].copy.due < d) => Claims(d)' <= Slack'
    BY <1>1 DEF ClaimsBounded
  <2>1. /\ Claims(d) <= 1 + Slack
        /\ (template # NoTemplate /\ template.due <= d) =>
             Claims(d) <= Slack \/ \E q \in InFlight : run[q].copy.due = d
        /\ (\E q \in InFlight : run[q].copy.due < d) => Claims(d) <= Slack
    BY DEF RecurringInv, ClaimsBounded
  <2>2. CASE d = c
    <3>1. Claims(d)' <= Slack'
      BY <1>6, <1>7, <2>1, <2>2
    <3> QED  BY <1>6, <3>1, <1>7, <2>2
  <2>3. CASE d # c
    <3>1. (\E q \in InFlight : run[q].copy.due = d) =>
            \E q \in InFlight' : run'[q].copy.due = d
      BY <1>4, <1>5, <2>3
    <3>2. (\E q \in InFlight' : run'[q].copy.due < d) =>
            \E q \in InFlight : run[q].copy.due < d
      BY <1>4
    <3>3. Claims(d)' = Claims(d)
      BY <1>7, <2>3
    <3> QED  BY <1>6, <2>1, <3>1, <3>2, <3>3
  <2> QED  BY <2>2, <2>3
<1> QED  BY <1>9, <1>10, <1>11, <1>12, <1>13, <1>14, <1>15 DEF RecurringInv

\* What UpdateNextDueDate and its failure do to the runs.
LEMMA RunEnds ==
  ASSUME RecurringInv, NEW r \in Run, run[r].at = "advance",
         run' = [run EXCEPT ![r] = AtRest], booked' = booked
  PROVE  /\ run' \in [Run -> RunLocal]
         /\ r \in InFlight /\ InFlight' = InFlight \ {r}
         /\ AboutToBook' = AboutToBook
         /\ \A q \in InFlight' : q \in InFlight /\ run'[q] = run[q]
         /\ \A d : Claims(d)' = Claims(d)
         /\ Cardinality(InFlight') = Cardinality(InFlight) - 1
<1>1. /\ run \in [Run -> RunLocal] /\ AtRest \in RunLocal /\ AtRest.at = "idle"
      /\ r \in InFlight
  BY DEF RecurringInv, RecurringTypeOK, AtRest, RunLocal, InFlight
<1>2. /\ run' \in [Run -> RunLocal] /\ run'[r].at = "idle"
      /\ \A q \in Run : q # r => run'[q] = run[q]
  BY <1>1
<1>3. /\ InFlight' = InFlight \ {r} /\ AboutToBook' = AboutToBook
      /\ \A d : Booking(d)' = Booking(d)
      /\ \A q \in InFlight' : q \in InFlight /\ run'[q] = run[q]
  BY <1>2 DEF InFlight, AboutToBook, Booking
<1>4. \A d : Claims(d)' = Claims(d)
  BY <1>3 DEF Claims, TimesBooked, BagIn
<1>5. Cardinality(InFlight') = Cardinality(InFlight) - 1
  BY <1>1, <1>3, RunSets, FS_RemoveElement
<1> QED  BY <1>1, <1>2, <1>3, <1>4, <1>5

\* A run that cannot store the next date is lost.
LEMMA AdvanceFailsKeeps ==
  ASSUME RecurringInv, NEW r \in Run, AdvanceFails(r)
  PROVE  RecurringInv'
<1>1. /\ run[r].at = "advance" /\ run' = [run EXCEPT ![r] = AtRest]
      /\ lost' = lost + 1
      /\ UNCHANGED <<template, booked, today, editor, started, dates, crossed>>
  BY DEF AdvanceFails
<1>2. /\ run' \in [Run -> RunLocal]
      /\ r \in InFlight /\ InFlight' = InFlight \ {r} /\ AboutToBook' = AboutToBook
      /\ \A q \in InFlight' : q \in InFlight /\ run'[q] = run[q]
      /\ \A d : Claims(d)' = Claims(d)
      /\ Cardinality(InFlight') = Cardinality(InFlight) - 1
  BY <1>1, RunEnds
<1>3. Slack' = Slack + 1 /\ Slack \in Nat /\ \A d : Claims(d) \in Nat
  BY <1>1, InvParts DEF Slack
<1>4. Counted'
  BY <1>1, <1>2, RunSets, InvParts DEF RecurringInv, Counted
<1>5. RecurringTypeOK'
  <2>1. lost' \in 0..MaxRuns
    <3>1. Cardinality(InFlight) \in Nat /\ Cardinality(InFlight) # 0
      BY <1>2, RunSets, FS_EmptySet
    <3>2. lost + Cardinality(InFlight) <= started /\ started \in 0..MaxRuns
      BY DEF RecurringInv, Counted, RecurringTypeOK
    <3> QED  BY <1>1, <3>1, <3>2, InvParts, RunsAssumption
  <2> QED  BY <1>1, <1>2, <2>1 DEF RecurringInv, RecurringTypeOK
<1>6. DatesHeld'
  BY <1>1, <1>2 DEF RecurringInv, DatesHeld
<1>7. NothingYet'
  BY <1>1, <1>2 DEF RecurringInv, NothingYet
<1>8. AloneInStep'
  BY <1>1, <1>2 DEF RecurringInv, AloneInStep
<1>9. NoneSkipped'
  BY <1>1 DEF RecurringInv, NoneSkipped
<1>10. ClaimsBounded'
  <2>1. ASSUME NEW d \in Nat PROVE Claims(d)' <= Slack'
    <3>1. Claims(d) <= 1 + Slack
      BY DEF RecurringInv, ClaimsBounded
    <3> QED  BY <1>2, <1>3, <3>1
  <2>2. \A d \in Nat : Claims(d)' <= 1 + Slack'
    BY <1>2, <1>3, <2>1
  <2> QED  BY <2>1, <2>2 DEF ClaimsBounded
<1> QED  BY <1>4, <1>5, <1>6, <1>7, <1>8, <1>9, <1>10 DEF RecurringInv

\* A run stores the next date.
LEMMA AdvanceKeeps ==
  ASSUME RecurringInv, NEW r \in Run, UpdateNextDueDate(r)
  PROVE  RecurringInv'
<1> DEFINE c == run[r].copy.due
<1>1. /\ run[r].at = "advance" /\ run' = [run EXCEPT ![r] = AtRest]
      /\ UNCHANGED <<booked, today, editor, started, lost, crossed>>
      /\ template = NoTemplate => template' = NoTemplate /\ dates' = dates
      /\ template # NoTemplate => /\ template' = [template EXCEPT !.due = NextDue(r)]
                                  /\ dates' = dates \cup {NextDue(r)}
  BY DEF UpdateNextDueDate
<1>2. /\ run' \in [Run -> RunLocal]
      /\ r \in InFlight /\ InFlight' = InFlight \ {r} /\ AboutToBook' = AboutToBook
      /\ \A q \in InFlight' : q \in InFlight /\ run'[q] = run[q]
      /\ \A d : Claims(d)' = Claims(d)
      /\ Cardinality(InFlight') = Cardinality(InFlight) - 1
  BY <1>1, RunEnds
<1>3. Slack' = Slack /\ Slack \in Nat /\ \A d : Claims(d) \in Nat
  BY <1>1, InvParts DEF Slack
<1>4. run[r].copy \in Template /\ c \in 1..Horizon
  BY <1>2 DEF RecurringInv, DatesHeld
<1>5. NextDue(r) \in Nat /\ NextDue(r) > c /\ c \in Nat /\ c > 0
  <2>1. run[r].copy.every \in Recurrence
    BY <1>4 DEF Template
  <2> QED  BY <1>4, <2>1, NextIsLater, HorizonAssumption DEF NextDue
<1>6. template # NoTemplate => template' \in Template /\ template'.due = NextDue(r)
  <2>1. template \in Template \cup {NoTemplate}
    BY DEF RecurringInv, RecurringTypeOK
  <2> HIDE DEF c
  <2> QED  BY <1>1, <1>5, <2>1 DEF Template
<1>7. NoTemplate \notin Template
  BY NoTemplateAssumption
<1>8. RecurringTypeOK'
  <2>1. template' \in Template \cup {NoTemplate}
    BY <1>1, <1>6
  <2>2. dates' \subseteq Nat
    BY <1>1, <1>5 DEF RecurringInv, RecurringTypeOK
  <2> QED  BY <1>1, <1>2, <2>1, <2>2 DEF RecurringInv, RecurringTypeOK
<1>9. DatesHeld'
  <2>1. template' # NoTemplate => template'.due \in Nat \ {0}
    BY <1>1, <1>5, <1>6
  <2> QED  BY <1>1, <1>2, <2>1 DEF RecurringInv, DatesHeld
<1>10. Counted'
  <2>1. lost + Cardinality(InFlight) <= started => lost + (Cardinality(InFlight) - 1) <= started
    BY RunSets, InvParts
  <2> QED  BY <1>1, <1>2, <2>1 DEF RecurringInv, Counted
<1>11. NothingYet'
  <2>1. dates # {}
    BY <1>2 DEF RecurringInv, NothingYet
  <2> QED  BY <1>1, <2>1 DEF NothingYet
<1>12. crossed = 0 => /\ InFlight = {r}
                      /\ template # NoTemplate => template.due = c /\ BagIn(c, booked)
  BY <1>1, <1>2 DEF RecurringInv, AloneInStep
<1>13. AloneInStep'
  BY <1>1, <1>2, <1>12 DEF AloneInStep
<1>14. NoneSkipped'
  <2> SUFFICES ASSUME template' # NoTemplate, crossed' = 0,
                      NEW d \in dates' \ {template'.due}
               PROVE  BagIn(d, booked')
    BY DEF NoneSkipped
  <2>1. template # NoTemplate /\ crossed = 0 /\ d \in dates
    BY <1>1, <1>6
  <2>2. template.due = c /\ BagIn(c, booked)
    BY <1>12, <2>1
  <2>3. d # template.due => BagIn(d, booked)
    BY <2>1 DEF RecurringInv, NoneSkipped
  <2> QED  BY <1>1, <2>2, <2>3
<1>15. ClaimsBounded'
  <2> SUFFICES ASSUME NEW d \in Nat
               PROVE  /\ Claims(d)' <= 1 + Slack'
                      /\ (template' # NoTemplate /\ template'.due <= d) => Claims(d)' <= Slack'
                      /\ (\E q \in InFlight' : run'[q].copy.due < d) => Claims(d)' <= Slack'
    BY DEF ClaimsBounded
  <2>1. /\ Claims(d) <= 1 + Slack
        /\ (\E q \in InFlight : run[q].copy.due < d) => Claims(d) <= Slack
    BY DEF RecurringInv, ClaimsBounded
  <2>2. (\E q \in InFlight' : run'[q].copy.due < d) => \E q \in InFlight : run[q].copy.due < d
    BY <1>2
  <2>3. (template' # NoTemplate /\ template'.due <= d) => \E q \in InFlight : run[q].copy.due < d
    <3> SUFFICES ASSUME template' # NoTemplate, template'.due <= d
                 PROVE  c < d
      BY <1>2
    <3>1. template'.due = NextDue(r)
      BY <1>1, <1>6
    <3> HIDE DEF c
    <3> QED  BY <1>5, <3>1
  <2> QED  BY <1>2, <1>3, <2>1, <2>2, <2>3
<1> QED  BY <1>8, <1>9, <1>10, <1>11, <1>13, <1>14, <1>15 DEF RecurringInv

-----------------------------------------------------------------------------
(* The invariant and what follows from it *)

\* No template, nothing booked and no run.
LEMMA RecurringInitInv == RecurringInit => RecurringInv
<1> SUFFICES ASSUME RecurringInit PROVE RecurringInv
  OBVIOUS
<1>1. /\ template = NoTemplate /\ booked = EmptyBag /\ today \in CheckDay
      /\ run = [r \in Run |-> AtRest] /\ editor = [e \in Editor |-> AtRest]
      /\ started = 0 /\ dates = {} /\ lost = 0 /\ crossed = 0
  BY DEF RecurringInit
<1>2. AtRest \in RunLocal /\ AtRest \in EditorLocal /\ AtRest.at = "idle"
  BY DEF AtRest, RunLocal, EditorLocal
<1>3. InFlight = {} /\ AboutToBook = {} /\ \A d : Booking(d) = {}
  BY <1>1, <1>2 DEF InFlight, AboutToBook, Booking
<1>4. DOMAIN booked = {} /\ IsABag(booked) /\ SumFunction(booked) = 0
  <2>1. DOMAIN booked = {} /\ IsABag(booked)
    BY <1>1 DEF EmptyBag, SetToBag, IsABag
  <2> QED  BY <2>1, SumOfNothing DEF SumFunction
<1>5. \A d : TimesBooked(d) = 0 /\ Claims(d) = 0
  BY <1>3, <1>4, FS_EmptySet DEF TimesBooked, BagIn, BagToSet, Claims
<1>6. RecurringTypeOK
  BY <1>1, <1>2, <1>4, RunsAssumption DEF RecurringTypeOK, BagToSet
<1>7. DatesHeld /\ AloneInStep
  BY <1>1, <1>2, <1>3 DEF DatesHeld, AloneInStep
<1>8. Counted
  BY <1>1, <1>3, <1>4, FS_EmptySet DEF Counted
<1>9. NothingYet /\ NoneSkipped
  BY <1>1, <1>3 DEF NothingYet, NoneSkipped
<1>10. ClaimsBounded
  BY <1>1, <1>3, <1>5 DEF ClaimsBounded, Slack
<1> QED  BY <1>6, <1>7, <1>8, <1>9, <1>10 DEF RecurringInv

\* Every step keeps the invariant.
LEMMA RecurringNextInv == RecurringInv /\ [RecurringNext]_recurringVars => RecurringInv'
<1> SUFFICES ASSUME RecurringInv, [RecurringNext]_recurringVars PROVE RecurringInv'
  OBVIOUS
<1>1. ASSUME NEW start \in StartDate, NEW every \in Recurrence,
             NEW end \in EndDate \cup {NoTemplate}, CreateRecurring(start, every, end)
      PROVE  RecurringInv'
  BY <1>1, CreateKeeps
<1>2. ASSUME NEW e \in Editor, EditStep(e) PROVE RecurringInv'
  BY <1>2, EditKeeps
<1>3. ASSUME NEW r \in Run, RunStep(r) PROVE RecurringInv'
  BY <1>3, StartKeeps, BookKeeps, AdvanceKeeps, BookingFailsKeeps,
     AdvanceFailsKeeps DEF RunStep
<1>4. ASSUME NEW d \in CheckDay, DaysPass(d) PROVE RecurringInv'
  BY <1>4, QuietKeeps DEF DaysPass, RecurringInv, RecurringTypeOK, DatesHeld
<1>5. CASE UNCHANGED recurringVars
  BY <1>5, QuietKeeps DEF recurringVars, RecurringInv, RecurringTypeOK, DatesHeld
<1> QED  BY <1>1, <1>2, <1>3, <1>4, <1>5 DEF RecurringNext

\* The invariant holds at all times.
LEMMA RecurringInvHolds == RecurringSpec => []RecurringInv
BY RecurringInitInv, RecurringNextInv, PTL DEF RecurringSpec

\* The state of the recurring expenses is well formed at all times: every date
\* booked is one of the calendar, and no more is booked than runs were started.
THEOREM RecurringTypes == RecurringSpec => []RecurringTypeOK
<1>1. RecurringInv => RecurringTypeOK
  BY DEF RecurringInv
<1> QED  BY <1>1, RecurringInvHolds, PTL

\* As long as no run of ProcessDueRecurringExpenses overlaps another, every
\* due date the template has left behind has an expense, whatever failed and
\* whatever was edited or deleted in between.
THEOREM DatesAreBooked == RecurringSpec => []NoneSkipped
<1>1. RecurringInv => NoneSkipped
  BY DEF RecurringInv
<1> QED  BY <1>1, RecurringInvHolds, PTL

\* A due date is booked once, and once more at most for every run that did not
\* store the next date or that overlapped another.
THEOREM DatesBookedOnce == RecurringSpec => []BookedOnce
<1>1. RecurringInv => BookedOnce
  <2> SUFFICES ASSUME RecurringInv, NEW d \in BagToSet(booked)
               PROVE  TimesBooked(d) <= 1 + lost + crossed
    BY DEF BookedOnce
  <2>1. d \in Nat
    BY HorizonAssumption DEF RecurringInv, RecurringTypeOK
  <2>2. Claims(d) <= 1 + Slack
    BY <2>1 DEF RecurringInv, ClaimsBounded
  <2> QED  BY <2>2, InvParts, RunSets DEF Claims, Slack
<1> QED  BY <1>1, RecurringInvHolds, PTL

-----------------------------------------------------------------------------
(* NotificationHub *)

\* In the arrays hp, h is a header whose cells exist and hold channels.
Fits(hp, h) ==
  /\ h \in Header
  /\ h.array \in 0..Len(hp)
  /\ h.len > 0 => h.array > 0 /\ h.len <= Len(hp[h.array])
  /\ \A i \in 1..h.len : hp[h.array][i] \in Stream

\* The cells of h hold the streams of the set S, each of them once.
Lists(hp, h, S) ==
  /\ \A i, j \in 1..h.len : hp[h.array][i] = hp[h.array][j] => i = j
  /\ {hp[h.array][i] : i \in 1..h.len} = S

\* The slice as it will be when the Unsubscribe under way has ended: its
\* length, and what its cells will hold.
Staying == IF writer = NoStream THEN header.len ELSE header.len - 1
Kept(i) == IF i \in DOMAIN moving THEN moving[i] ELSE heap[header.array][i]

NotifierLocal ==
  [at : {"idle", "read", "send"}, header : Header, k : Nat,
   ch : Stream \cup {NoStream}, subscribed : SUBSET Stream,
   offered : Seq(Stream), raced : BOOLEAN]

HubState ==
  /\ heap \in Seq(Seq(Stream \cup {NoStream}))
  /\ writer \in Stream \cup {NoStream}
  /\ stream \in [Stream -> {"new", "streaming", "leaving", "ended"}]
  /\ buffered \in [Stream -> 0..Buffer]
  /\ notifier \in [Notifier -> NotifierLocal]
  /\ notified \in 0..MaxNotify

SliceInv ==
  /\ Fits(heap, header)
  /\ header.len = 0 => header.array = 0
  /\ writer # NoStream => header.len > 0
  /\ writer = NoStream => DOMAIN moving = {}
  /\ DOMAIN moving \subseteq 1..Staying
  /\ \A i, j \in 1..Staying : Kept(i) = Kept(j) => i = j
  /\ {Kept(i) : i \in 1..Staying} = Subscribed \ {writer}

\* What holds of every broadcast.
NotifierInv(n) ==
  LET me == notifier[n]
  IN  /\ Fits(heap, me.header)
      /\ me.k \in 1..me.header.len + 1
      /\ me.at = "send" => me.k <= me.header.len /\ me.ch \in Stream

\* What holds of a broadcast that no Unsubscribe has overtaken.
InStep(n) ==
  LET me == notifier[n]
  IN  (me.at # "idle" /\ ~me.raced) =>
        /\ writer = NoStream
        /\ me.header.array = header.array => me.header.len <= header.len
        /\ Lists(heap, me.header, me.subscribed)
        /\ me.subscribed \subseteq Subscribed
        /\ Len(me.offered) = me.k - 1
        /\ \A i \in 1..me.k - 1 : me.offered[i] = heap[me.header.array][i]
        /\ me.at = "send" => me.ch = heap[me.header.array][me.k]

HubInv ==
  /\ HubState
  /\ SliceInv
  /\ \A n \in Notifier : NotifierInv(n) /\ InStep(n)
-----------------------------------------------------------------------------
(* Arrays and headers *)

Arrays == Seq(Seq(Stream \cup {NoStream}))

Store(hp, a, i, x) == [hp EXCEPT ![a][i] = x]

\* One cell of an array is written.
LEMMA WriteCell ==
  ASSUME heap \in Arrays, NEW CONSTANT a, a \in 1..Len(heap),
         NEW CONSTANT i, i \in 1..Len(heap[a]),
         NEW CONSTANT x, x \in Stream, heap' = Store(heap, a, i, x)
  PROVE  /\ heap' \in Arrays /\ Len(heap') = Len(heap)
         /\ \A b \in 1..Len(heap) : Len(heap'[b]) = Len(heap[b])
         /\ \A b \in 1..Len(heap) : \A j \in 1..Len(heap[b]) :
              heap'[b][j] = IF b = a /\ j = i THEN x ELSE heap[b][j]
<1> DEFINE row == [heap[a] EXCEPT ![i] = x]
<1>1. heap[a] \in Seq(Stream \cup {NoStream})
  BY ElementOfSeq DEF Arrays
<1>2. /\ row \in Seq(Stream \cup {NoStream}) /\ Len(row) = Len(heap[a])
      /\ \A j \in 1..Len(heap[a]) : row[j] = IF j = i THEN x ELSE heap[a][j]
  BY <1>1, ExceptSeq
<1> HIDE DEF row
<1>3. heap' = [heap EXCEPT ![a] = row]
  BY DEF row, Store
<1>4. /\ heap' \in Arrays /\ Len(heap') = Len(heap)
      /\ \A b \in 1..Len(heap) : heap'[b] = IF b = a THEN row ELSE heap[b]
  <2> DEFINE X == Seq(Stream \cup {NoStream})
  <2>1. heap \in Seq(X) /\ row \in X /\ a \in 1..Len(heap)
    BY <1>2 DEF Arrays
  <2> HIDE DEF X
  <2>2. /\ heap' \in Seq(X) /\ Len(heap') = Len(heap)
        /\ \A b \in 1..Len(heap) : heap'[b] = IF b = a THEN row ELSE heap[b]
    BY ONLY <1>3, <2>1, ExceptSeq
  <2> QED  BY <2>2 DEF Arrays, X
<1> QED  BY <1>2, <1>4

\* An array is allocated.
LEMMA NewArray ==
  ASSUME heap \in Arrays, NEW CONSTANT row, row \in Seq(Stream \cup {NoStream}),
         heap' = Append(heap, row)
  PROVE  /\ heap' \in Arrays /\ Len(heap') = Len(heap) + 1
         /\ \A b \in 1..Len(heap) : heap'[b] = heap[b]
         /\ heap'[Len(heap) + 1] = row
BY AppendProperties DEF Arrays

\* The cells of a header.
LEMMA CellsAre ==
  ASSUME NEW h, Fits(heap, h), heap \in Arrays
  PROVE  /\ h.len \in Nat
         /\ \A i \in 1..h.len : Cells(h)[i] = heap[h.array][i]
<1>1. h.len \in Nat /\ h.array \in Nat
  BY DEF Fits, Header
<1>2. CASE h.len = 0
  BY <1>1, <1>2
<1>3. CASE h.len > 0
  <2>1. h.array \in 1..Len(heap) /\ h.len <= Len(heap[h.array]) /\ Len(heap) \in Nat
    BY <1>1, <1>3, LenProperties DEF Fits, Arrays
  <2>2. heap[h.array] \in Seq(Stream \cup {NoStream})
    BY <2>1, ElementOfSeq DEF Arrays
  <2>3. Len(heap[h.array]) \in Nat
    BY <2>2, LenProperties
  <2> DEFINE row == heap[h.array]
             n == h.len
  <2>4. Cells(h) = SubSeq(row, 1, n)
    <3>1. h.array # 0
      BY <2>1
    <3>2. (IF h.array = 0 THEN <<>> ELSE heap[h.array]) = heap[h.array]
      BY <3>1
    <3> QED  BY <3>2 DEF Cells
  <2>5. row \in Seq(Stream \cup {NoStream}) /\ n \in 1..Len(row) /\ Len(row) \in Nat
    BY <1>1, <1>3, <2>1, <2>2, <2>3
  <2> HIDE DEF row, n
  <2>6. \A i \in 1..n : SubSeq(row, 1, n)[i] = row[i]
    <3>1. \A i \in 1..n - 1 + 1 : SubSeq(row, 1, n)[i] = row[1 + i - 1]
      BY <2>5, SubSeqProperties
    <3> QED  BY <2>5, <3>1
  <2> QED  BY <1>1, <2>4, <2>6 DEF row, n
<1> QED  BY <1>1, <1>2, <1>3

\* A header keeps fitting when the arrays only grow and keep channels in cells.
LEMMA StillFits ==
  ASSUME NEW hp \in Arrays, NEW hq \in Arrays, NEW h, Fits(hp, h),
         Len(hp) <= Len(hq),
         \A b \in 1..Len(hp) : Len(hq[b]) = Len(hp[b]),
         \A b \in 1..Len(hp) : \A j \in 1..Len(hp[b]) :
           hq[b][j] \in Stream \/ hq[b][j] = hp[b][j]
  PROVE  Fits(hq, h)
<1>1. h.array \in Nat /\ h.len \in Nat /\ Len(hp) \in Nat /\ Len(hq) \in Nat
  BY LenProperties DEF Fits, Header, Arrays
<1>2. ASSUME h.len > 0
      PROVE  h.array \in 1..Len(hp) /\ h.len <= Len(hp[h.array])
  BY <1>1, <1>2 DEF Fits
<1>3. \A b \in 1..Len(hp) : Len(hp[b]) \in Nat
  BY ElementOfSeq, LenProperties DEF Arrays
<1>4. ASSUME NEW i \in 1..h.len PROVE hq[h.array][i] \in Stream
  <2>1. hp[h.array][i] \in Stream
    BY DEF Fits
  <2>2. h.array \in 1..Len(hp) /\ i \in 1..Len(hp[h.array])
    BY <1>1, <1>2, <1>3
  <2> QED  BY <2>1, <2>2
<1> QED  BY <1>1, <1>2, <1>4 DEF Fits

\* A header lists as many streams as it is long.
LEMMA ListCounts ==
  ASSUME NEW hp, NEW h, NEW S, h.len \in Nat, Lists(hp, h, S)
  PROVE  Cardinality(S) = h.len
<1> DEFINE f == [i \in 1..h.len |-> hp[h.array][i]]
<1>1. f \in Bijection(1..h.len, S)
  BY DEF Lists, Bijection, Injection, Surjection, IsInjective
<1> QED  BY <1>1, FS_CountingElements DEF ExistsBijection

-----------------------------------------------------------------------------
(* The steps of a notifier *)

\* One notifier takes a step and the slice stays as it is.
LEMMA NotifierMoves ==
  ASSUME HubInv, NEW n \in Notifier, NEW me \in NotifierLocal,
         notifier' = [notifier EXCEPT ![n] = me],
         UNCHANGED <<heap, header, writer, moving, stream>>,
         buffered' \in [Stream -> 0..Buffer],
         notified' \in 0..MaxNotify,
         Fits(heap, me.header),
         me.k \in 1..me.header.len + 1,
         me.at = "send" => me.k <= me.header.len /\ me.ch \in Stream,
         (me.at # "idle" /\ ~me.raced) =>
           /\ writer = NoStream
           /\ me.header.array = header.array => me.header.len <= header.len
           /\ Lists(heap, me.header, me.subscribed)
           /\ me.subscribed \subseteq Subscribed
           /\ Len(me.offered) = me.k - 1
           /\ \A i \in 1..me.k - 1 : me.offered[i] = heap[me.header.array][i]
           /\ me.at = "send" => me.ch = heap[me.header.array][me.k]
  PROVE  HubInv'
<1>1. notifier' \in [Notifier -> NotifierLocal] /\ notifier'[n] = me
      /\ \A m \in Notifier : m # n => notifier'[m] = notifier[m]
  BY DEF HubInv, HubState
<1>2. HubState'
  BY <1>1 DEF HubInv, HubState
<1>3. Subscribed' = Subscribed /\ Staying' = Staying /\ \A i : Kept(i)' = Kept(i)
  BY DEF Subscribed, Staying, Kept
<1>4. SliceInv'
  BY <1>3 DEF HubInv, SliceInv
<1>5. ASSUME NEW m \in Notifier PROVE NotifierInv(m)' /\ InStep(m)'
  <2>1. CASE m = n
    <3>1. NotifierInv(m)'
      BY <1>1, <2>1 DEF NotifierInv
    <3>2. InStep(m)'
      BY <1>1, <1>3, <2>1 DEF InStep
    <3> QED  BY <3>1, <3>2
  <2>2. CASE m # n
    <3>1. notifier'[m] = notifier[m] /\ NotifierInv(m) /\ InStep(m)
      BY <1>1, <2>2 DEF HubInv
    <3>2. NotifierInv(m)'
      BY <3>1 DEF NotifierInv
    <3>3. InStep(m)'
      BY <1>3, <3>1 DEF InStep
    <3> QED  BY <3>2, <3>3
  <2> QED  BY <2>1, <2>2
<1> QED  BY <1>2, <1>4, <1>5 DEF HubInv

\* An idle notifier.
LEMMA IdleNotifier ==
  /\ NotifierIdle \in NotifierLocal /\ NotifierIdle.at = "idle"
  /\ \A hp \in Arrays : Fits(hp, NotifierIdle.header)
  /\ NotifierIdle.k = 1 /\ NotifierIdle.header.len = 0
<1>1. <<>> \in Seq(Stream)
  BY EmptySeq
<1>2. NotifierIdle \in NotifierLocal
  BY <1>1 DEF NotifierIdle, NotifierLocal, NoHeader, Header
<1>3. \A hp \in Arrays : Len(hp) \in Nat
  BY LenProperties DEF Arrays
<1> QED  BY <1>2, <1>3 DEF NotifierIdle, NoHeader, Fits, Header

\* While nobody is inside Unsubscribe the slice lists the subscribers.
LEMMA SliceLists ==
  ASSUME HubInv, writer = NoStream
  PROVE  Lists(heap, header, Subscribed)
<1>1. Staying = header.len /\ \A i : Kept(i) = heap[header.array][i]
  BY DEF HubInv, SliceInv, Staying, Kept
<1>2. Subscribed \ {writer} = Subscribed
  BY NoStreamAssumption DEF Subscribed
<1> QED  BY <1>1, <1>2 DEF HubInv, SliceInv, Lists

\* A broadcast copies the header.
LEMMA NotifyKeeps ==
  ASSUME HubInv, NEW n \in Notifier, Notify(n)
  PROVE  HubInv'
<1> DEFINE me == [NotifierIdle EXCEPT !.at = "read", !.header = header,
                                      !.subscribed = Subscribed]
<1>1. /\ writer = NoStream /\ notified < MaxNotify
      /\ notifier' = [notifier EXCEPT ![n] = me]
      /\ notified' = notified + 1
      /\ UNCHANGED <<heap, header, writer, moving, stream, buffered>>
  BY DEF Notify
<1>2. /\ me.at = "read" /\ me.header = header /\ me.k = 1 /\ me.subscribed = Subscribed
      /\ me.offered = <<>>
  BY DEF NotifierIdle
<1>3. Fits(heap, header) /\ header \in Header /\ header.len \in Nat
  BY DEF HubInv, SliceInv, Fits, Header
<1>4. me \in NotifierLocal
  <2>1. Subscribed \in SUBSET Stream
    BY DEF Subscribed
  <2> QED  BY <1>3, <2>1, IdleNotifier DEF NotifierLocal
<1>5. notified' \in 0..MaxNotify /\ buffered' \in [Stream -> 0..Buffer]
  BY <1>1, BufferAssumption DEF HubInv, HubState
<1>6. Lists(heap, header, Subscribed)
  BY <1>1, SliceLists
<1>7. Len(<<>>) = 0 /\ 1..1 - 1 = {}
  BY EmptySeq
<1> HIDE DEF me
<1>8. /\ Fits(heap, me.header) /\ me.k \in 1..me.header.len + 1 /\ me.at # "send"
      /\ me.header.array = header.array => me.header.len <= header.len
      /\ Lists(heap, me.header, me.subscribed) /\ me.subscribed \subseteq Subscribed
  BY <1>2, <1>3, <1>6
<1>9. Len(me.offered) = me.k - 1
  BY <1>2, <1>7
<1>10. \A i \in 1..me.k - 1 : me.offered[i] = heap[me.header.array][i]
  BY <1>2, <1>7
<1> QED  BY <1>1, <1>4, <1>5, <1>8, <1>9, <1>10, NotifierMoves

\* It reads the next cell.
LEMMA ReadKeeps ==
  ASSUME HubInv, NEW n \in Notifier, ReadCell(n)
  PROVE  HubInv'
<1> DEFINE old == notifier[n]
           ch == Cells(old.header)[old.k]
           me == [old EXCEPT !.at = "send", !.ch = ch]
<1>1. /\ old.at = "read" /\ old.k <= old.header.len
      /\ notifier' = [notifier EXCEPT ![n].at = "send", ![n].ch = ch]
      /\ UNCHANGED <<heap, header, writer, moving, stream, buffered, notified>>
  BY DEF ReadCell, MoreToSend
<1>2. old \in NotifierLocal /\ NotifierInv(n) /\ InStep(n) /\ heap \in Arrays
      /\ notifier \in [Notifier -> NotifierLocal]
  BY DEF HubInv, HubState, Arrays
<1>3. Fits(heap, old.header) /\ old.k \in 1..old.header.len + 1 /\ old.header.len \in Nat
  BY <1>2 DEF NotifierInv, Fits, Header
<1>4. old.k \in 1..old.header.len
  BY <1>1, <1>3
<1>5. ch = heap[old.header.array][old.k] /\ ch \in Stream
  BY <1>2, <1>3, <1>4, CellsAre DEF Fits
<1> HIDE DEF ch
<1>6. /\ me \in NotifierLocal /\ me.at = "send" /\ me.ch = ch
      /\ me.header = old.header /\ me.k = old.k /\ me.raced = old.raced
      /\ me.subscribed = old.subscribed /\ me.offered = old.offered
  BY <1>2, <1>5 DEF NotifierLocal
<1>7. notifier' = [notifier EXCEPT ![n] = me]
  BY <1>1, <1>2 DEF NotifierLocal
<1>8. buffered' \in [Stream -> 0..Buffer] /\ notified' \in 0..MaxNotify
  BY <1>1 DEF HubInv, HubState
<1>9. (old.at # "idle" /\ ~old.raced) =>
           /\ writer = NoStream
           /\ old.header.array = header.array => old.header.len <= header.len
           /\ Lists(heap, old.header, old.subscribed)
           /\ old.subscribed \subseteq Subscribed
           /\ Len(old.offered) = old.k - 1
           /\ \A i \in 1..old.k - 1 : old.offered[i] = heap[old.header.array][i]
  BY <1>2 DEF InStep
<1>10. old.at # "idle"
  BY <1>1
<1> HIDE DEF me, old
<1>11. UNCHANGED <<heap, header, writer, moving, stream>>
  BY <1>1
<1>12. /\ Fits(heap, me.header) /\ me.k \in 1..me.header.len + 1
       /\ me.at = "send" => me.k <= me.header.len /\ me.ch \in Stream
  BY <1>3, <1>4, <1>5, <1>6
<1>13. (me.at # "idle" /\ ~me.raced) =>
           /\ writer = NoStream
           /\ me.header.array = header.array => me.header.len <= header.len
           /\ Lists(heap, me.header, me.subscribed)
           /\ me.subscribed \subseteq Subscribed
           /\ Len(me.offered) = me.k - 1
           /\ \A i \in 1..me.k - 1 : me.offered[i] = heap[me.header.array][i]
           /\ me.at = "send" => me.ch = heap[me.header.array][me.k]
  <2>1. me.ch = heap[me.header.array][me.k]
    BY <1>5, <1>6
  <2> QED  BY <1>6, <1>9, <1>10, <2>1
<1> QED  BY <1>6, <1>7, <1>8, <1>11, <1>12, <1>13, NotifierMoves

\* It offers the notification to the channel it read.
LEMMA SendKeeps ==
  ASSUME HubInv, NEW n \in Notifier, SendOrSkip(n)
  PROVE  HubInv'
<1> DEFINE old == notifier[n]
           ch == old.ch
           me == [old EXCEPT !.at = "read", !.k = old.k + 1, !.ch = NoStream,
                             !.offered = Append(old.offered, ch)]
<1>1. old \in NotifierLocal /\ NotifierInv(n) /\ InStep(n) /\ heap \in Arrays
      /\ notifier \in [Notifier -> NotifierLocal]
      /\ buffered \in [Stream -> 0..Buffer] /\ notified \in 0..MaxNotify
  BY DEF HubInv, HubState, Arrays
<1>2. old.at = "send" /\ UNCHANGED <<heap, header, writer, moving, stream, notified>>
  BY DEF SendOrSkip
<1>3. /\ Fits(heap, old.header) /\ old.header.len \in Nat
      /\ old.k \in 1..old.header.len /\ ch \in Stream
  BY <1>1, <1>2 DEF NotifierInv, Fits, Header
<1>4. CASE OpenChannel(ch)
  <2>1. /\ buffered' = [buffered EXCEPT ![ch] = IF @ < Buffer THEN @ + 1 ELSE @]
        /\ notifier' = [notifier EXCEPT ![n].at = "read", ![n].k = @ + 1,
                          ![n].ch = NoStream, ![n].offered = Append(@, ch)]
    BY <1>4 DEF SendOrSkip
  <2>2. buffered' \in [Stream -> 0..Buffer]
    <3>1. Buffer \in Nat /\ buffered[ch] \in 0..Buffer
      BY <1>1, <1>3, BufferAssumption
    <3>2. (IF buffered[ch] < Buffer THEN buffered[ch] + 1 ELSE buffered[ch]) \in 0..Buffer
      BY <3>1
    <3> HIDE DEF ch
    <3> QED  BY <1>1, <1>3, <2>1, <3>2
  <2>3. /\ Append(old.offered, ch) \in Seq(Stream)
        /\ Len(Append(old.offered, ch)) = Len(old.offered) + 1
        /\ \A i \in 1..Len(old.offered) : Append(old.offered, ch)[i] = old.offered[i]
        /\ Append(old.offered, ch)[Len(old.offered) + 1] = ch
        /\ Len(old.offered) \in Nat
    <3>1. old.offered \in Seq(Stream)
      BY <1>1 DEF NotifierLocal
    <3> DEFINE o == old.offered
    <3> HIDE DEF o, ch
    <3> QED  BY <1>3, <3>1, AppendProperties, LenProperties DEF o
  <2>4. notifier' = [notifier EXCEPT ![n] = me]
    BY <1>1, <2>1 DEF NotifierLocal
  <2>5. /\ me \in NotifierLocal /\ me.at = "read" /\ me.header = old.header
        /\ me.k = old.k + 1 /\ me.raced = old.raced /\ me.subscribed = old.subscribed
        /\ me.offered = Append(old.offered, ch)
    <3>1. old.k + 1 \in Nat
      BY <1>3
    <3> HIDE DEF ch
    <3> QED  BY <1>1, <2>3, <3>1 DEF NotifierLocal
  <2>6. (old.at # "idle" /\ ~old.raced) =>
           /\ writer = NoStream
           /\ old.header.array = header.array => old.header.len <= header.len
           /\ Lists(heap, old.header, old.subscribed)
           /\ old.subscribed \subseteq Subscribed
           /\ Len(old.offered) = old.k - 1
           /\ \A i \in 1..old.k - 1 : old.offered[i] = heap[old.header.array][i]
           /\ ch = heap[old.header.array][old.k]
    BY <1>1, <1>2 DEF InStep
  <2>7. /\ me.k \in 1..me.header.len + 1
        /\ old.at # "idle" /\ me.at # "send"
    BY <1>2, <1>3, <2>5
  <2>8. (me.at # "idle" /\ ~me.raced) =>
           /\ Len(me.offered) = me.k - 1
           /\ \A i \in 1..me.k - 1 : me.offered[i] = heap[me.header.array][i]
    <3> SUFFICES ASSUME ~old.raced
                 PROVE  /\ Len(me.offered) = me.k - 1
                        /\ \A i \in 1..me.k - 1 : me.offered[i] = heap[me.header.array][i]
      BY <2>5
    <3>1. /\ Len(old.offered) = old.k - 1 /\ ch = heap[old.header.array][old.k]
          /\ \A i \in 1..old.k - 1 : old.offered[i] = heap[old.header.array][i]
      BY <2>6, <2>7
    <3>2. me.k - 1 = old.k /\ old.k \in Nat /\ old.k >= 1
      BY <1>3, <2>5
    <3>3. Len(me.offered) = me.k - 1
      <4>1. Len(me.offered) = Len(old.offered) + 1
        BY <2>3, <2>5
      <4>2. Len(old.offered) = old.k - 1 /\ me.k = old.k + 1
        BY <2>5, <3>1
      <4> HIDE DEF me, old
      <4> QED  BY <3>2, <4>1, <4>2
    <3>4. ASSUME NEW i \in 1..old.k PROVE Append(old.offered, ch)[i] = heap[old.header.array][i]
      <4>1. CASE i = old.k
        BY <2>3, <3>1, <3>2, <4>1
      <4>2. CASE i # old.k
        <5>1. i \in 1..old.k - 1
          BY <3>2, <4>2
        <5> QED  BY <2>3, <3>1, <5>1
      <4> QED  BY <4>1, <4>2
    <3> HIDE DEF me, ch, old
    <3> QED  BY <2>5, <3>2, <3>3, <3>4
  <2> HIDE DEF me, ch, old
  <2> QED  BY <1>2, <1>1, <1>3, <2>2, <2>4, <2>5, <2>6, <2>7, <2>8, NotifierMoves
<1>5. CASE ~OpenChannel(ch)
  <2>1. UNCHANGED <<buffered, notifier>>
    BY <1>5 DEF SendOrSkip
  <2> QED
    BY <1>2, <2>1 DEF HubInv, HubState, SliceInv, NotifierInv, InStep, Staying,
                      Kept, Subscribed
<1> QED  BY <1>4, <1>5

\* It ends after the last cell.
LEMMA EndKeeps ==
  ASSUME HubInv, NEW n \in Notifier, NotifyEnds(n)
  PROVE  HubInv'
<1>1. /\ notifier' = [notifier EXCEPT ![n] = NotifierIdle]
      /\ UNCHANGED <<heap, header, writer, moving, stream, buffered, notified>>
  BY DEF NotifyEnds
<1>2. /\ heap \in Arrays /\ buffered' \in [Stream -> 0..Buffer]
      /\ notified' \in 0..MaxNotify
  BY <1>1 DEF HubInv, HubState, Arrays
<1>3. NotifierIdle.k \in 1..NotifierIdle.header.len + 1
  BY IdleNotifier
<1> QED  BY <1>1, <1>2, <1>3, IdleNotifier, NotifierMoves

-----------------------------------------------------------------------------
(* The steps of a stream *)

\* A stream receives, or starts to leave: it is subscribed before and after.
LEMMA StreamMoves ==
  ASSUME HubInv, NEW s \in Stream, stream[s] = "streaming",
         NEW next \in {"streaming", "leaving"},
         stream' = [stream EXCEPT ![s] = next],
         buffered' \in [Stream -> 0..Buffer],
         UNCHANGED <<heap, header, writer, moving, notifier, notified>>
  PROVE  HubInv'
<1>1. stream \in [Stream -> {"new", "streaming", "leaving", "ended"}]
  BY DEF HubInv, HubState
<1>2. stream' \in [Stream -> {"new", "streaming", "leaving", "ended"}]
  BY <1>1
<1>3. Subscribed' = Subscribed /\ Staying' = Staying /\ \A i : Kept(i)' = Kept(i)
  BY <1>1 DEF Subscribed, Staying, Kept
<1>4. HubState'
  BY <1>2 DEF HubInv, HubState
<1>5. SliceInv'
  BY <1>3 DEF HubInv, SliceInv
<1>6. \A n \in Notifier : NotifierInv(n)' /\ InStep(n)'
  BY <1>3 DEF HubInv, NotifierInv, InStep
<1> QED  BY <1>4, <1>5, <1>6 DEF HubInv

\* A stream receives.
LEMMA ReceiveKeeps ==
  ASSUME HubInv, NEW s \in Stream, ReceiveAndSend(s)
  PROVE  HubInv'
<1>1. /\ stream[s] = "streaming" /\ buffered[s] > 0
      /\ buffered' = [buffered EXCEPT ![s] = @ - 1]
      /\ \E next \in {"streaming", "leaving"} : stream' = [stream EXCEPT ![s] = next]
      /\ UNCHANGED <<heap, header, writer, moving, notifier, notified>>
  BY DEF ReceiveAndSend
<1>2. buffered' \in [Stream -> 0..Buffer]
  <2>1. buffered \in [Stream -> 0..Buffer] /\ Buffer \in Nat
    BY BufferAssumption DEF HubInv, HubState
  <2>2. buffered[s] - 1 \in 0..Buffer
    BY <1>1, <2>1
  <2> QED  BY <1>1, <2>1, <2>2
<1> QED  BY <1>1, <1>2, StreamMoves

\* A stream starts to leave.
LEMMA LeaveKeeps ==
  ASSUME HubInv, NEW s \in Stream, ClientLeaves(s)
  PROVE  HubInv'
<1>1. buffered' \in [Stream -> 0..Buffer]
  BY DEF HubInv, HubState, ClientLeaves
<1> QED  BY <1>1, StreamMoves DEF ClientLeaves

\* What append does to the arrays, in place or not: the slice has one more
\* cell, and the cells of the headers copied before hold what they held.
LEMMA Appends ==
  ASSUME HubInv, NEW s \in Stream, Subscribe(s)
  PROVE  /\ heap' \in Arrays
         /\ Fits(heap', header') /\ header'.len = header.len + 1
         /\ \A i \in 1..header.len : heap'[header'.array][i] = heap[header.array][i]
         /\ heap'[header'.array][header.len + 1] = s
         /\ \A h : Fits(heap, h) => Fits(heap', h)
         /\ \A h : Fits(heap, h) /\ (h.array = header.array => h.len <= header.len) =>
              /\ h.array = header'.array => h.len <= header'.len
              /\ \A i \in 1..h.len : heap'[h.array][i] = heap[h.array][i]
<1> DEFINE a == header.array
           n == header.len
<1>1. /\ heap \in Arrays /\ Fits(heap, header) /\ a \in 0..Len(heap) /\ n \in Nat
      /\ Len(heap) \in Nat /\ (n = 0 => a = 0)
      /\ n > 0 => a > 0 /\ n <= Len(heap[a])
      /\ header = [array |-> a, len |-> n]
  BY LenProperties DEF HubInv, HubState, SliceInv, Fits, Header, Arrays
<1>2. \A b \in 1..Len(heap) : heap[b] \in Seq(Stream \cup {NoStream}) /\ Len(heap[b]) \in Nat
  BY <1>1, ElementOfSeq, LenProperties DEF Arrays
<1>3. \A h : Fits(heap, h) => /\ h.array \in 0..Len(heap) /\ h.len \in Nat
                              /\ h.len > 0 => h.array \in 1..Len(heap) /\ h.len <= Len(heap[h.array])
  BY <1>1 DEF Fits, Header
<1>4. CASE n < Capacity(header)
  <2>1. heap' = [heap EXCEPT ![a][n + 1] = s] /\ header' = [header EXCEPT !.len = @ + 1]
    BY <1>4 DEF Subscribe
  <2>2. a # 0 /\ n + 1 \in 1..Len(heap[a]) /\ a \in 1..Len(heap)
    <3>1. a # 0
      BY <1>1, <1>4 DEF Capacity
    <3>2. n < Len(heap[a])
      BY <1>4, <3>1 DEF Capacity
    <3> QED  BY <1>1, <1>2, <3>1, <3>2
  <2>3. header'.array = a /\ header'.len = n + 1 /\ header' \in Header
    BY <1>1, <2>1 DEF Header
  <2> HIDE DEF a, n
  <2>4. /\ heap' \in Arrays /\ Len(heap') = Len(heap)
        /\ \A b \in 1..Len(heap) : Len(heap'[b]) = Len(heap[b])
        /\ \A b \in 1..Len(heap) : \A j \in 1..Len(heap[b]) :
              heap'[b][j] = IF b = a /\ j = n + 1 THEN s ELSE heap[b][j]
    <3>1. /\ heap \in Arrays /\ a \in 1..Len(heap) /\ n + 1 \in 1..Len(heap[a])
          /\ s \in Stream /\ heap' = Store(heap, a, n + 1, s)
      BY <1>1, <2>1, <2>2 DEF Store
    <3> QED  BY ONLY <3>1, WriteCell
  <2>5. \A i \in 1..n : i \in 1..Len(heap[a]) /\ i # n + 1
    BY <1>1, <1>2, <2>2
  <2>6. /\ \A i \in 1..n : heap'[a][i] = heap[a][i]
        /\ heap'[a][n + 1] = s
    BY <2>2, <2>4, <2>5
  <2>7. \A h : Fits(heap, h) => Fits(heap', h)
    <3>1. \A b \in 1..Len(heap) : \A j \in 1..Len(heap[b]) :
             heap'[b][j] \in Stream \/ heap'[b][j] = heap[b][j]
      BY <2>4
    <3>2. Len(heap) <= Len(heap')
      BY <1>1, <2>4
    <3> QED  BY <1>1, <2>4, <3>1, <3>2, StillFits
  <2>8. Fits(heap', header')
    <3>1. \A i \in 1..n : heap[a][i] \in Stream
      BY <1>1 DEF Fits, a, n
    <3>2. \A i \in 1..n + 1 : heap'[a][i] \in Stream
      <4> SUFFICES ASSUME NEW i \in 1..n + 1 PROVE heap'[a][i] \in Stream
        OBVIOUS
      <4>1. CASE i = n + 1
        BY <2>6, <4>1
      <4>2. CASE i # n + 1
        <5>1. i \in 1..n
          BY <1>1, <4>2
        <5> QED  BY <2>6, <3>1, <5>1
      <4> QED  BY <4>1, <4>2
    <3>3. a \in 0..Len(heap') /\ a > 0 /\ n + 1 <= Len(heap'[a])
      BY <1>1, <1>2, <2>2, <2>4
    <3> QED  BY <2>3, <3>2, <3>3 DEF Fits
  <2>9. ASSUME NEW h, Fits(heap, h), h.array = a => h.len <= n
        PROVE  /\ h.array = a => h.len <= n + 1
               /\ \A i \in 1..h.len : heap'[h.array][i] = heap[h.array][i]
    <3>1. h.len \in Nat
      BY <1>3, <2>9
    <3>2. ASSUME NEW i \in 1..h.len PROVE heap'[h.array][i] = heap[h.array][i]
      <4>1. h.array \in 1..Len(heap) /\ i \in 1..Len(heap[h.array])
        BY <1>2, <1>3, <2>9, <3>1
      <4>2. ~(h.array = a /\ i = n + 1)
        BY <1>1, <2>9, <3>1
      <4> QED  BY <2>4, <4>1, <4>2
    <3> QED  BY <1>1, <2>9, <3>1, <3>2
  <2>10. /\ header'.len = header.len + 1
         /\ \A i \in 1..header.len : heap'[header'.array][i] = heap[header.array][i]
         /\ heap'[header'.array][header.len + 1] = s
    BY <2>3, <2>6 DEF a, n
  <2>11. \A h : Fits(heap, h) /\ (h.array = header.array => h.len <= header.len) =>
              /\ h.array = header'.array => h.len <= header'.len
              /\ \A i \in 1..h.len : heap'[h.array][i] = heap[h.array][i]
    BY <2>3, <2>9 DEF a, n
  <2> QED  BY <2>4, <2>7, <2>8, <2>10, <2>11
<1>5. CASE ~(n < Capacity(header))
  <2> DEFINE room == IF n = 0 THEN 1 ELSE 2 * n
             grown == [i \in 1..room |-> IF i <= n THEN Cells(header)[i]
                                         ELSE IF i = n + 1 THEN s ELSE NoStream]
             new == Len(heap) + 1
  <2>1. heap' = Append(heap, grown) /\ header' = [array |-> new, len |-> n + 1]
    BY <1>5 DEF Subscribe
  <2>2. header'.array = new /\ header'.len = n + 1 /\ header' \in Header
    BY <1>1, <2>1 DEF Header
  <2>3. room \in Nat /\ n + 1 <= room /\ n + 1 \in 1..room
    BY <1>1
  <2>4. /\ \A i \in 1..n : Cells(header)[i] = heap[a][i]
        /\ \A i \in 1..n : heap[a][i] \in Stream
    BY <1>1, CellsAre DEF Fits
  <2> HIDE DEF a, n, room
  <2>5. /\ grown \in Seq(Stream \cup {NoStream}) /\ Len(grown) = room
        /\ \A i \in 1..n : grown[i] = heap[a][i]
        /\ grown[n + 1] = s
    <3>1. \A i \in 1..room : grown[i] \in Stream \cup {NoStream}
      <4> SUFFICES ASSUME NEW i \in 1..room PROVE grown[i] \in Stream \cup {NoStream}
        OBVIOUS
      <4>1. i <= n => i \in 1..n
        BY <1>1, <2>3
      <4> QED  BY <2>4, <4>1
    <3>2. grown \in [1..room -> Stream \cup {NoStream}]
      BY <3>1
    <3>3. \A i \in 1..n : i \in 1..room /\ i <= n
      BY <1>1, <2>3
    <3>4. (\A i \in 1..n : grown[i] = heap[a][i]) /\ grown[n + 1] = s
      BY <1>1, <2>3, <2>4, <3>3
    <3>5. DOMAIN grown = 1..room
      OBVIOUS
    <3> HIDE DEF grown
    <3>6. grown \in Seq(Stream \cup {NoStream})
      BY <2>3, <3>2, SeqDef
    <3>7. Len(grown) = room
      BY <2>3, <3>5, <3>6, LenProperties
    <3> QED  BY <3>4, <3>6, <3>7
  <2> HIDE DEF grown
  <2>6. /\ heap' \in Arrays /\ Len(heap') = Len(heap) + 1
        /\ \A b \in 1..Len(heap) : heap'[b] = heap[b]
        /\ heap'[new] = grown
    <3>1. /\ heap \in Arrays /\ grown \in Seq(Stream \cup {NoStream})
          /\ heap' = Append(heap, grown)
      BY <1>1, <2>1, <2>5
    <3> QED  BY ONLY <2>5, <3>1, NewArray DEF new
  <2>7. new \in Nat /\ new \notin 0..Len(heap) /\ new \in 0..Len(heap') /\ new > 0
    BY <1>1, <2>6
  <2> HIDE DEF new
  <2>8. \A h : Fits(heap, h) => Fits(heap', h)
    <3>1. \A b \in 1..Len(heap) : Len(heap'[b]) = Len(heap[b])
      BY <2>6
    <3>2. \A b \in 1..Len(heap) : \A j \in 1..Len(heap[b]) :
             heap'[b][j] \in Stream \/ heap'[b][j] = heap[b][j]
      BY <2>6
    <3>3. Len(heap) <= Len(heap')
      BY <1>1, <2>6
    <3> QED  BY <1>1, <2>6, <3>1, <3>2, <3>3, StillFits
  <2>9. Fits(heap', header')
    <3>1. \A i \in 1..n + 1 : heap'[new][i] \in Stream
      <4> SUFFICES ASSUME NEW i \in 1..n + 1 PROVE heap'[new][i] \in Stream
        OBVIOUS
      <4>1. CASE i = n + 1
        BY <2>5, <2>6, <4>1
      <4>2. CASE i # n + 1
        <5>1. i \in 1..n
          BY <1>1, <4>2
        <5> QED  BY <2>4, <2>5, <2>6, <5>1
      <4> QED  BY <4>1, <4>2
    <3>2. n + 1 <= Len(heap'[new])
      BY <2>3, <2>5, <2>6
    <3> QED  BY <2>2, <2>7, <3>1, <3>2 DEF Fits
  <2>10. /\ header'.len = header.len + 1
         /\ \A i \in 1..header.len : heap'[header'.array][i] = heap[header.array][i]
         /\ heap'[header'.array][header.len + 1] = s
    BY <2>2, <2>5, <2>6 DEF a, n
  <2>11. \A h : Fits(heap, h) => /\ h.array # header'.array
                                 /\ \A i \in 1..h.len : heap'[h.array][i] = heap[h.array][i]
    <3> SUFFICES ASSUME NEW h, Fits(heap, h)
                 PROVE  /\ h.array # header'.array
                        /\ \A i \in 1..h.len : heap'[h.array][i] = heap[h.array][i]
      OBVIOUS
    <3>1. h.array # header'.array
      BY <1>3, <2>2, <2>7
    <3>2. ASSUME NEW i \in 1..h.len PROVE h.array \in 1..Len(heap)
      BY <1>3
    <3> QED  BY <2>6, <3>1, <3>2
  <2> QED  BY <2>6, <2>8, <2>9, <2>10, <2>11
<1> QED  BY <1>4, <1>5

\* A Subscribe appends a channel.
LEMMA SubscribeKeeps ==
  ASSUME HubInv, NEW s \in Stream, Subscribe(s)
  PROVE  HubInv'
<1>1. /\ writer = NoStream /\ stream[s] = "new"
      /\ stream' = [stream EXCEPT ![s] = "streaming"]
      /\ UNCHANGED <<writer, moving, buffered, notifier, notified>>
  BY DEF Subscribe
<1>2. /\ heap' \in Arrays
      /\ Fits(heap', header') /\ header'.len = header.len + 1
      /\ \A i \in 1..header.len : heap'[header'.array][i] = heap[header.array][i]
      /\ heap'[header'.array][header.len + 1] = s
      /\ \A h : Fits(heap, h) => Fits(heap', h)
      /\ \A h : Fits(heap, h) /\ (h.array = header.array => h.len <= header.len) =>
              /\ h.array = header'.array => h.len <= header'.len
              /\ \A i \in 1..h.len : heap'[h.array][i] = heap[h.array][i]
  BY Appends
<1>3. stream \in [Stream -> {"new", "streaming", "leaving", "ended"}]
  BY DEF HubInv, HubState
<1>4. Subscribed' = Subscribed \cup {s} /\ s \notin Subscribed /\ NoStream \notin Subscribed'
  BY <1>1, <1>3, NoStreamAssumption DEF Subscribed
<1>5. Lists(heap, header, Subscribed) /\ header.len \in Nat
  BY <1>1, SliceLists DEF HubInv, SliceInv, Fits, Header
<1>6. HubState'
  <2>1. stream' \in [Stream -> {"new", "streaming", "leaving", "ended"}]
    BY <1>1, <1>3
  <2> QED  BY <1>1, <1>2, <2>1 DEF HubInv, HubState, Arrays
<1>7. Lists(heap', header', Subscribed')
  <2> DEFINE n == header.len
             old(i) == heap[header.array][i]
             new(i) == heap'[header'.array][i]
  <2>1. /\ \A i \in 1..n : new(i) = old(i) /\ old(i) \in Subscribed
        /\ \A i, j \in 1..n : old(i) = old(j) => i = j
        /\ \A x \in Subscribed : \E i \in 1..n : old(i) = x
        /\ new(n + 1) = s /\ n \in Nat /\ header'.len = n + 1
    BY <1>2, <1>5 DEF Lists
  <2> HIDE DEF n, old, new
  <2>2. \A i \in 1..n + 1 : i = n + 1 \/ i \in 1..n
    BY <2>1
  <2>3. \A i \in 1..n : i \in 1..n + 1
    BY <2>1
  <2>4. n + 1 \in 1..n + 1
    BY <2>1
  <2>5. \A i, j \in 1..n + 1 : new(i) = new(j) => i = j
    BY <1>4, <2>1, <2>2
  <2>6. {new(i) : i \in 1..n + 1} = Subscribed \cup {s}
    <3>1. \A i \in 1..n + 1 : new(i) \in Subscribed \cup {s}
      BY <2>1, <2>2
    <3>2. \A x \in Subscribed \cup {s} : \E i \in 1..n + 1 : new(i) = x
      BY <2>1, <2>3, <2>4
    <3> QED  BY <3>1, <3>2
  <2> QED  BY <1>4, <2>1, <2>5, <2>6 DEF Lists, new
<1>8. SliceInv'
  <2>1. /\ writer' = NoStream /\ DOMAIN moving' = {} /\ Staying' = header'.len
        /\ \A i : Kept(i)' = heap'[header'.array][i]
    BY <1>1 DEF HubInv, SliceInv, Staying, Kept
  <2>2. header'.len # 0
    BY <1>2, <1>5
  <2>3. Subscribed' \ {writer'} = Subscribed'
    BY <1>4, <2>1
  <2> QED  BY <1>2, <1>7, <2>1, <2>2, <2>3 DEF SliceInv, Lists
<1>9. ASSUME NEW n \in Notifier PROVE NotifierInv(n)' /\ InStep(n)'
  <2> DEFINE me == notifier[n]
  <2>1. notifier'[n] = me /\ NotifierInv(n) /\ InStep(n)
    BY <1>1 DEF HubInv
  <2>2. Fits(heap, me.header) /\ Fits(heap', me.header)
    BY <1>2, <2>1 DEF NotifierInv
  <2>3. NotifierInv(n)'
    BY <2>1, <2>2 DEF NotifierInv
  <2>4. InStep(n)'
    <3> SUFFICES ASSUME me.at # "idle", ~me.raced PROVE InStep(n)'
      BY <2>1 DEF InStep
    <3>1. /\ me.header.array = header.array => me.header.len <= header.len
          /\ Lists(heap, me.header, me.subscribed)
          /\ me.subscribed \subseteq Subscribed
          /\ Len(me.offered) = me.k - 1
          /\ \A i \in 1..me.k - 1 : me.offered[i] = heap[me.header.array][i]
          /\ me.at = "send" => me.ch = heap[me.header.array][me.k]
          /\ me.k \in 1..me.header.len + 1 /\ me.header.len \in Nat
          /\ me.at = "send" => me.k <= me.header.len
      BY <2>1, <2>2 DEF InStep, NotifierInv, Fits, Header
    <3>2. /\ me.header.array = header'.array => me.header.len <= header'.len
          /\ \A i \in 1..me.header.len : heap'[me.header.array][i] = heap[me.header.array][i]
      BY <1>2, <2>2, <3>1
    <3> DEFINE h == me.header
               k == me.k
    <3> HIDE DEF me
    <3>3. Lists(heap', h, me.subscribed)
      <4>1. \A i \in 1..h.len : heap'[h.array][i] = heap[h.array][i]
        BY <3>2
      <4>2. Lists(heap, h, me.subscribed)
        BY <3>1
      <4> HIDE DEF h
      <4>3. {heap'[h.array][i] : i \in 1..h.len} = {heap[h.array][i] : i \in 1..h.len}
        BY ONLY <4>1
      <4>4. \A i, j \in 1..h.len : heap'[h.array][i] = heap'[h.array][j] => i = j
        BY ONLY <4>1, <4>2 DEF Lists
      <4> QED  BY ONLY <4>2, <4>3, <4>4 DEF Lists
    <3>4. /\ \A i \in 1..k - 1 : i \in 1..h.len
          /\ me.at = "send" => k \in 1..h.len
      <4>1. k \in 1..h.len + 1 /\ h.len \in Nat /\ me.at = "send" => k <= h.len
        BY <3>1
      <4> QED
        <5> DEFINE l == h.len
        <5>1. k \in 1..l + 1 /\ l \in Nat
          BY <3>1
        <5> HIDE DEF k, l
        <5>2. \A i \in 1..k - 1 : i \in 1..l
          BY <5>1
        <5>3. k <= l => k \in 1..l
          BY <5>1
        <5> QED  BY <3>1, <5>2, <5>3 DEF l, k
    <3>5. \A i \in 1..k - 1 : me.offered[i] = heap'[h.array][i]
      BY <3>1, <3>2, <3>4
    <3>6. me.at = "send" => me.ch = heap'[h.array][k]
      BY <3>1, <3>2, <3>4
    <3>7. me.subscribed \subseteq Subscribed'
      BY <1>4, <3>1
    <3> QED  BY <1>1, <2>1, <3>1, <3>2, <3>3, <3>5, <3>6, <3>7 DEF InStep, me
  <2> QED  BY <2>3, <2>4
<1> QED  BY <1>6, <1>8, <1>9 DEF HubInv

\* During an Unsubscribe every broadcast in flight has been overtaken.
LEMMA AllOvertaken ==
  ASSUME HubInv, writer # NoStream, NEW n \in Notifier
  PROVE  notifier[n].at = "idle" \/ notifier[n].raced
BY DEF HubInv, InStep

\* An Unsubscribe finds its channel and has the cells after it to move.
LEMMA LockKeeps ==
  ASSUME HubInv, NEW s \in Stream, UnsubscribeLocks(s)
  PROVE  HubInv'
<1> DEFINE n == header.len
           old(j) == heap[header.array][j]
           i == CHOOSE j \in 1..n : Cells(header)[j] = s
<1>1. /\ stream[s] = "leaving" /\ writer = NoStream /\ writer' = s
      /\ moving' = [j \in i..n - 1 |-> Cells(header)[j + 1]]
      /\ notifier' = Overtaken
      /\ UNCHANGED <<heap, header, stream, buffered, notified>>
  BY DEF UnsubscribeLocks
<1>2. /\ Fits(heap, header) /\ heap \in Arrays /\ n \in Nat /\ s # NoStream
      /\ s \in Subscribed /\ Lists(heap, header, Subscribed)
      /\ \A j \in 1..n : Cells(header)[j] = old(j)
      /\ notifier \in [Notifier -> NotifierLocal]
  <2>1. Fits(heap, header) /\ heap \in Arrays /\ notifier \in [Notifier -> NotifierLocal]
    BY DEF HubInv, HubState, SliceInv, Arrays
  <2>2. s \in Subscribed /\ s # NoStream
    BY <1>1, NoStreamAssumption DEF Subscribed
  <2> QED  BY <1>1, <2>1, <2>2, SliceLists, CellsAre
<1>3. /\ \A j, k \in 1..n : old(j) = old(k) => j = k
      /\ \A j \in 1..n : old(j) \in Subscribed
      /\ \A x \in Subscribed : \E j \in 1..n : old(j) = x
  BY <1>2 DEF Lists
<1>4. i \in 1..n /\ old(i) = s
  <2>1. \E j \in 1..n : Cells(header)[j] = s
    BY <1>2, <1>3
  <2>2. i \in 1..n /\ Cells(header)[i] = s
    BY <2>1
  <2> HIDE DEF i
  <2> QED  BY <1>2, <2>2
<1> HIDE DEF i
<1>5. n > 0 /\ n \in Nat /\ i \in Nat /\ i >= 1
  BY <1>2, <1>4
<1>6. \A j \in i..n - 1 : j + 1 \in 1..n /\ moving'[j] = old(j + 1)
  <2> SUFFICES ASSUME NEW j \in i..n - 1
               PROVE  j + 1 \in 1..n /\ moving'[j] = old(j + 1)
    OBVIOUS
  <2>1. j + 1 \in 1..n
    BY <1>5
  <2> HIDE DEF n, old
  <2>2. Cells(header)[j + 1] = old(j + 1)
    BY <1>2, <2>1
  <2> QED  BY <1>1, <2>1, <2>2
<1>7. DOMAIN moving' = i..n - 1 /\ Staying' = n - 1
  BY <1>1, <1>2 DEF Staying
<1>8. \A j \in 1..n - 1 : Kept(j)' = IF i <= j THEN old(j + 1) ELSE old(j)
  <2> SUFFICES ASSUME NEW j \in 1..n - 1
               PROVE  Kept(j)' = IF i <= j THEN old(j + 1) ELSE old(j)
    OBVIOUS
  <2>1. j \in i..n - 1 <=> i <= j
    BY <1>5
  <2>2. Kept(j)' = IF j \in DOMAIN moving' THEN moving'[j] ELSE old(j)
    BY <1>1 DEF Kept
  <2> QED  BY <1>6, <1>7, <2>1, <2>2
<1>9. SliceInv'
  <2> DEFINE new(j) == IF i <= j THEN old(j + 1) ELSE old(j)
             from(j) == IF i <= j THEN j + 1 ELSE j
  <2>1. \A j \in 1..n - 1 : from(j) \in 1..n /\ from(j) # i /\ new(j) = old(from(j))
    BY <1>5
  <2>2. \A j, k \in 1..n - 1 : from(j) = from(k) => j = k
    BY <1>5
  <2>3. \A m \in 1..n : m # i => \E j \in 1..n - 1 : from(j) = m
    <3> SUFFICES ASSUME NEW m \in 1..n, m # i PROVE \E j \in 1..n - 1 : from(j) = m
      OBVIOUS
    <3>1. CASE m < i
      <4>1. m \in 1..n - 1 /\ from(m) = m
        BY <1>4, <1>5, <3>1
      <4> QED  BY <4>1
    <3>2. CASE m > i
      <4>1. m - 1 \in 1..n - 1 /\ from(m - 1) = m
        BY <1>4, <1>5, <3>2
      <4> QED  BY <4>1
    <3> QED  BY <1>5, <3>1, <3>2
  <2> HIDE DEF from, new, n, old
  <2>4. \A j, k \in 1..n - 1 : new(j) = new(k) => j = k
    BY <1>3, <2>1, <2>2
  <2>5. {new(j) : j \in 1..n - 1} = Subscribed \ {s}
    <3>1. \A j \in 1..n - 1 : new(j) \in Subscribed \ {s}
      BY <1>3, <1>4, <2>1
    <3>2. \A x \in Subscribed \ {s} : \E j \in 1..n - 1 : new(j) = x
      BY <1>3, <1>4, <2>1, <2>3
    <3> QED  BY <3>1, <3>2
  <2>6. \A j \in 1..n - 1 : Kept(j)' = new(j)
    BY <1>8 DEF new
  <2>7. \A j, k \in 1..Staying' : Kept(j)' = Kept(k)' => j = k
    BY <1>7, <2>4, <2>6
  <2>8. {Kept(j)' : j \in 1..Staying'} = Subscribed' \ {writer'}
    <3>1. Subscribed' = Subscribed
      BY <1>1 DEF Subscribed
    <3>2. {Kept(j)' : j \in 1..n - 1} = {new(j) : j \in 1..n - 1}
      BY <2>6
    <3> QED  BY <1>1, <1>7, <2>5, <3>1, <3>2
  <2>9. DOMAIN moving' \subseteq 1..Staying'
    BY <1>5, <1>7
  <2>10. /\ Fits(heap', header') /\ (header'.len = 0 => header'.array = 0)
         /\ writer' # NoStream /\ header'.len > 0
    BY <1>1, <1>2, <1>5 DEF HubInv, SliceInv, n
  <2> QED  BY <2>7, <2>8, <2>9, <2>10 DEF SliceInv
<1>10. \A m \in Notifier :
         /\ notifier'[m] \in NotifierLocal
         /\ notifier'[m].at = notifier[m].at /\ notifier'[m].header = notifier[m].header
         /\ notifier'[m].k = notifier[m].k /\ notifier'[m].ch = notifier[m].ch
         /\ notifier'[m].raced = (notifier[m].raced \/ notifier[m].at # "idle")
  BY <1>1, <1>2, Zenon DEF Overtaken, NotifierLocal
<1>11. HubState'
  <2>1. notifier' \in [Notifier -> NotifierLocal]
    BY <1>1, <1>10 DEF Overtaken
  <2> QED  BY <1>1, <2>1 DEF HubInv, HubState
<1>12. ASSUME NEW m \in Notifier PROVE NotifierInv(m)' /\ InStep(m)'
  <2>1. NotifierInv(m)
    BY DEF HubInv
  <2>2. NotifierInv(m)'
    BY <1>1, <1>10, <2>1 DEF NotifierInv
  <2>3. InStep(m)'
    BY <1>10 DEF InStep
  <2> QED  BY <2>2, <2>3
<1> QED  BY <1>9, <1>11, <1>12 DEF HubInv

\* It moves one of them.
LEMMA MoveKeeps ==
  ASSUME HubInv, NEW s \in Stream, NEW j, MoveCell(s, j)
  PROVE  HubInv'
<1> DEFINE a == header.array
<1>1. /\ writer = s /\ j \in DOMAIN moving
      /\ heap' = Store(heap, a, j, moving[j])
      /\ moving' = [m \in DOMAIN moving \ {j} |-> moving[m]]
      /\ UNCHANGED <<header, writer, stream, buffered, notifier, notified>>
  BY DEF MoveCell, Store
<1>2. s # NoStream /\ writer # NoStream
  BY <1>1, NoStreamAssumption
<1>3. /\ heap \in Arrays /\ Fits(heap, header) /\ header.len > 0 /\ Len(heap) \in Nat
      /\ Staying = header.len - 1 /\ DOMAIN moving \subseteq 1..Staying
      /\ header.len \in Nat /\ a \in 1..Len(heap) /\ header.len <= Len(heap[a])
  <2>1. /\ heap \in Arrays /\ Fits(heap, header) /\ header.len > 0
        /\ Staying = header.len - 1 /\ DOMAIN moving \subseteq 1..Staying
    BY <1>2 DEF HubInv, HubState, SliceInv, Arrays, Staying
  <2>2. Len(heap) \in Nat
    BY <2>1, LenProperties DEF Arrays
  <2> QED  BY <2>1, <2>2 DEF Fits, Header
<1>4. Len(heap[a]) \in Nat
  BY <1>3, ElementOfSeq, LenProperties DEF Arrays
<1>5. j \in 1..Len(heap[a]) /\ j \in 1..Staying
  BY <1>1, <1>3, <1>4
<1>6. Kept(j) = moving[j] /\ moving[j] \in Stream
  <2>1. Kept(j) = moving[j]
    BY <1>1 DEF Kept
  <2>2. Kept(j) \in Subscribed
    BY <1>5 DEF HubInv, SliceInv
  <2> QED  BY <2>1, <2>2 DEF Subscribed
<1>7. /\ heap' \in Arrays /\ Len(heap') = Len(heap)
      /\ \A b \in 1..Len(heap) : Len(heap'[b]) = Len(heap[b])
      /\ \A b \in 1..Len(heap) : \A i \in 1..Len(heap[b]) :
           heap'[b][i] = IF b = a /\ i = j THEN moving[j] ELSE heap[b][i]
  <2>1. /\ heap \in Arrays /\ a \in 1..Len(heap) /\ j \in 1..Len(heap[a])
        /\ moving[j] \in Stream /\ heap' = Store(heap, a, j, moving[j])
    BY <1>1, <1>3, <1>5, <1>6
  <2> DEFINE x == moving[j]
  <2>2. /\ heap \in Arrays /\ a \in 1..Len(heap) /\ j \in 1..Len(heap[a])
        /\ x \in Stream /\ heap' = Store(heap, a, j, x)
    BY <2>1
  <2> HIDE DEF a, x
  <2>3. /\ heap' \in Arrays /\ Len(heap') = Len(heap)
        /\ \A b \in 1..Len(heap) : Len(heap'[b]) = Len(heap[b])
        /\ \A b \in 1..Len(heap) : \A i \in 1..Len(heap[b]) :
             heap'[b][i] = IF b = a /\ i = j THEN x ELSE heap[b][i]
    BY ONLY <2>2, WriteCell, SMTT(60)
  <2> QED  BY <2>3 DEF x
<1>8. ASSUME NEW h, Fits(heap, h) PROVE Fits(heap', h)
  <2>1. \A b \in 1..Len(heap) : \A i \in 1..Len(heap[b]) :
          heap'[b][i] \in Stream \/ heap'[b][i] = heap[b][i]
    BY <1>6, <1>7
  <2>2. Len(heap) <= Len(heap')
    BY <1>3, <1>7
  <2> HIDE DEF a
  <2> QED  BY <1>3, <1>7, <1>8, <2>1, <2>2, StillFits
<1>9. Staying' = Staying /\ Subscribed' = Subscribed
  BY <1>1 DEF Staying, Subscribed
<1>10. \A i \in 1..Staying : Kept(i)' = Kept(i)
  <2> SUFFICES ASSUME NEW i \in 1..Staying PROVE Kept(i)' = Kept(i)
    OBVIOUS
  <2>1. i \in 1..Len(heap[a])
    BY <1>3, <1>4
  <2>2. heap'[a][i] = IF i = j THEN moving[j] ELSE heap[a][i]
    BY <1>3, <1>7, <2>1
  <2>3. Kept(i)' = IF i \in DOMAIN moving' THEN moving'[i] ELSE heap'[a][i]
    BY <1>1 DEF Kept
  <2>4. i \in DOMAIN moving' <=> i \in DOMAIN moving /\ i # j
    BY <1>1
  <2>5. i \in DOMAIN moving' => moving'[i] = moving[i]
    BY <1>1
  <2>6. Kept(i) = IF i \in DOMAIN moving THEN moving[i] ELSE heap[a][i]
    BY DEF Kept
  <2> HIDE DEF a
  <2> QED  BY <1>1, <2>2, <2>3, <2>4, <2>5, <2>6
<1>11. SliceInv'
  <2>1. {Kept(i)' : i \in 1..Staying'} = {Kept(i) : i \in 1..Staying}
    BY <1>9, <1>10
  <2>2. \A i, k \in 1..Staying' : Kept(i)' = Kept(k)' => i = k
    BY <1>9, <1>10 DEF HubInv, SliceInv
  <2>3. DOMAIN moving' \subseteq 1..Staying'
    BY <1>1, <1>3, <1>9
  <2>4. {Kept(i)' : i \in 1..Staying'} = Subscribed' \ {writer'}
    BY <1>1, <1>9, <2>1 DEF HubInv, SliceInv
  <2>5. /\ Fits(heap', header') /\ (header'.len = 0 => header'.array = 0)
        /\ writer' # NoStream /\ header'.len > 0
    BY <1>1, <1>2, <1>3, <1>8
  <2> QED  BY <2>2, <2>3, <2>4, <2>5 DEF SliceInv
<1>12. HubState'
  BY <1>1, <1>7 DEF HubInv, HubState, Arrays
<1>13. ASSUME NEW n \in Notifier PROVE NotifierInv(n)' /\ InStep(n)'
  <2>1. notifier'[n] = notifier[n] /\ NotifierInv(n)
    BY <1>1 DEF HubInv
  <2>2. NotifierInv(n)'
    BY <1>8, <2>1 DEF NotifierInv
  <2>3. InStep(n)'
    BY <1>2, <2>1, AllOvertaken DEF InStep
  <2> QED  BY <2>2, <2>3
<1> QED  BY <1>11, <1>12, <1>13 DEF HubInv

\* It shortens the slice and closes the channel.
LEMMA CloseKeeps ==
  ASSUME HubInv, NEW s \in Stream, UnsubscribeCloses(s)
  PROVE  HubInv'
<1>1. /\ writer = s /\ DOMAIN moving = {} /\ header' = Shorter
      /\ stream' = [stream EXCEPT ![s] = "ended"] /\ writer' = NoStream
      /\ UNCHANGED <<heap, moving, buffered, notifier, notified>>
  BY DEF UnsubscribeCloses
<1>2. s # NoStream /\ writer # NoStream
  BY <1>1, NoStreamAssumption
<1>3. stream \in [Stream -> {"new", "streaming", "leaving", "ended"}]
  BY DEF HubInv, HubState
<1>4. Subscribed' = Subscribed \ {s} /\ NoStream \notin Subscribed'
  BY <1>1, <1>3, NoStreamAssumption DEF Subscribed
<1>5. /\ header \in Header /\ header.len \in Nat /\ header.len > 0
      /\ Fits(heap, header) /\ Staying = header.len - 1 /\ heap \in Arrays
  BY <1>2 DEF HubInv, HubState, SliceInv, Fits, Header, Staying, Arrays
<1>6. /\ Fits(heap', header') /\ header'.len = header.len - 1
      /\ header'.len = 0 => header'.array = 0
      /\ header'.len > 0 => header'.array = header.array
  <2>1. CASE header.len = 1
    <3>1. header' = NoHeader
      BY <1>1, <2>1 DEF Shorter
    <3>2. Len(heap) \in Nat
      BY <1>5, LenProperties DEF Arrays
    <3> QED  BY <1>1, <2>1, <3>1, <3>2 DEF NoHeader, Fits, Header
  <2>2. CASE header.len # 1
    <3>1. /\ header'.array = header.array /\ header'.len = header.len - 1
          /\ header' \in Header /\ header'.len > 0
      BY <1>1, <1>5, <2>2 DEF Shorter, Header
    <3>2. /\ header.array \in 0..Len(heap) /\ header.array > 0
          /\ header.len <= Len(heap[header.array])
          /\ \A i \in 1..header.len : heap[header.array][i] \in Stream
      BY <1>5 DEF Fits
    <3>3. Len(heap[header.array]) \in Nat
      <4>1. header.array \in 1..Len(heap)
        BY <1>5, <3>2, LenProperties DEF Arrays
      <4> QED  BY <1>5, <4>1, ElementOfSeq, LenProperties DEF Arrays
    <3>4. header'.len <= Len(heap[header.array])
      BY <1>5, <3>1, <3>2, <3>3
    <3>5. \A i \in 1..header'.len : i \in 1..header.len
      BY <1>5, <3>1
    <3> QED  BY <1>1, <3>1, <3>2, <3>4, <3>5 DEF Fits
  <2> QED  BY <2>1, <2>2
<1>7. Staying' = Staying
  BY <1>1, <1>5, <1>6 DEF Staying
<1>8. \A i \in 1..Staying : Kept(i)' = Kept(i)
  <2> SUFFICES ASSUME NEW i \in 1..Staying PROVE Kept(i)' = Kept(i)
    OBVIOUS
  <2>1. header'.array = header.array
    BY <1>5, <1>6
  <2> QED  BY <1>1, <2>1 DEF Kept
<1>9. SliceInv'
  <2>1. {Kept(i)' : i \in 1..Staying'} = {Kept(i) : i \in 1..Staying}
    BY <1>7, <1>8
  <2>2. \A i, k \in 1..Staying' : Kept(i)' = Kept(k)' => i = k
    BY <1>7, <1>8 DEF HubInv, SliceInv
  <2>3. {Kept(i)' : i \in 1..Staying'} = Subscribed' \ {writer'}
    BY <1>1, <1>4, <2>1 DEF HubInv, SliceInv
  <2> QED  BY <1>1, <1>6, <2>2, <2>3 DEF SliceInv
<1>10. HubState'
  <2>1. stream' \in [Stream -> {"new", "streaming", "leaving", "ended"}]
    BY <1>1, <1>3
  <2> QED  BY <1>1, <2>1 DEF HubInv, HubState
<1>11. ASSUME NEW n \in Notifier PROVE NotifierInv(n)' /\ InStep(n)'
  <2>1. notifier'[n] = notifier[n] /\ NotifierInv(n) /\ heap' = heap
    BY <1>1 DEF HubInv
  <2>2. NotifierInv(n)'
    BY <2>1 DEF NotifierInv
  <2>3. InStep(n)'
    BY <1>2, <2>1, AllOvertaken DEF InStep
  <2> QED  BY <2>2, <2>3
<1> QED  BY <1>9, <1>10, <1>11 DEF HubInv

-----------------------------------------------------------------------------
(* The invariant and what follows from it *)

\* No array, no stream and no broadcast.
LEMMA HubInitInv == HubInit => HubInv
<1> SUFFICES ASSUME HubInit PROVE HubInv
  OBVIOUS
<1>1. /\ heap = <<>> /\ header = NoHeader /\ writer = NoStream /\ moving = <<>>
      /\ stream = [s \in Stream |-> "new"] /\ buffered = [s \in Stream |-> 0]
      /\ notifier = [n \in Notifier |-> NotifierIdle] /\ notified = 0
  BY DEF HubInit
<1>2. heap \in Arrays /\ Len(heap) = 0
  BY <1>1, EmptySeq DEF Arrays
<1>3. HubState
  BY <1>1, <1>2, IdleNotifier, BufferAssumption DEF HubState, Arrays
<1>4. Fits(heap, header) /\ header.len = 0 /\ header.array = 0
  BY <1>1, <1>2 DEF Fits, Header, NoHeader
<1>5. Staying = 0 /\ DOMAIN moving = {} /\ Subscribed = {}
  BY <1>1, <1>4 DEF Staying, Subscribed
<1>6. SliceInv
  BY <1>1, <1>4, <1>5 DEF SliceInv
<1>7. \A n \in Notifier : NotifierInv(n) /\ InStep(n)
  <2>1. NotifierIdle.k \in 1..NotifierIdle.header.len + 1 /\ NotifierIdle.at = "idle"
        /\ Fits(heap, NotifierIdle.header)
    BY <1>2, IdleNotifier
  <2> QED  BY <1>1, <2>1 DEF NotifierInv, InStep
<1> QED  BY <1>3, <1>6, <1>7 DEF HubInv

\* Every step keeps the invariant.
LEMMA HubNextInv == HubInv /\ [HubNext]_hubVars => HubInv'
<1> SUFFICES ASSUME HubInv, [HubNext]_hubVars PROVE HubInv'
  OBVIOUS
<1>1. ASSUME NEW s \in Stream,
             Subscribe(s) \/ ReceiveAndSend(s) \/ ClientLeaves(s) \/ Unsubscribe(s)
      PROVE  HubInv'
  BY <1>1, SubscribeKeeps, ReceiveKeeps, LeaveKeeps, LockKeeps, MoveKeeps,
     CloseKeeps DEF Unsubscribe
<1>2. ASSUME NEW n \in Notifier,
             Notify(n) \/ ReadCell(n) \/ SendOrSkip(n) \/ NotifyEnds(n)
      PROVE  HubInv'
  BY <1>2, NotifyKeeps, ReadKeeps, SendKeeps, EndKeeps
<1>3. CASE UNCHANGED hubVars
  BY <1>3 DEF hubVars, HubInv, HubState, SliceInv, NotifierInv, InStep,
              Staying, Kept, Subscribed
<1> QED  BY <1>1, <1>2, <1>3 DEF HubNext

\* The invariant holds at all times.
LEMMA HubInvHolds == HubSpec => []HubInv
BY HubInitInv, HubNextInv, PTL DEF HubSpec

\* What the invariant says of types.
LEMMA HubTypesFromInv == HubInv => HubTypeOK
<1> SUFFICES ASSUME HubInv PROVE HubTypeOK
  OBVIOUS
<1>1. HubState /\ Fits(heap, header) /\ heap \in Arrays
  BY DEF HubInv, HubState, SliceInv, Arrays
<1>2. \A i \in DOMAIN heap : heap[i] \in Seq(Stream \cup {NoStream})
  BY <1>1, ElementOfSeq, LenProperties DEF Arrays
<1>3. header \in Header /\ header.array \in 0..Len(heap) /\ header.len <= Capacity(header)
  <2>1. /\ header \in Header /\ header.array \in 0..Len(heap) /\ header.len \in Nat
        /\ header.len > 0 => header.array > 0 /\ header.len <= Len(heap[header.array])
    BY <1>1 DEF Fits, Header
  <2>2. header.array # 0 => Len(heap[header.array]) \in Nat
    <3> SUFFICES ASSUME header.array # 0 PROVE Len(heap[header.array]) \in Nat
      OBVIOUS
    <3>1. header.array \in 1..Len(heap)
      BY <1>1, <2>1, LenProperties DEF Arrays
    <3> QED  BY <1>1, <3>1, ElementOfSeq, LenProperties DEF Arrays
  <2> QED  BY <2>1, <2>2 DEF Capacity
<1>4. ASSUME NEW n \in Notifier
      PROVE  /\ notifier[n].at \in {"idle", "read", "send"}
             /\ notifier[n].header \in Header
             /\ notifier[n].k \in 1..notifier[n].header.len + 1
             /\ notifier[n].ch \in Stream \cup {NoStream}
             /\ notifier[n].subscribed \subseteq Stream
             /\ notifier[n].offered \in Seq(Stream)
  <2>1. notifier[n] \in NotifierLocal /\ NotifierInv(n)
    BY <1>1 DEF HubInv, HubState
  <2> QED  BY <2>1 DEF NotifierLocal, NotifierInv
<1> QED  BY <1>1, <1>2, <1>3, <1>4 DEF HubTypeOK, HubState

\* The state of the hub is well formed at all times: the header of the slice
\* lies within its array, and so does every broadcast within its copy.
THEOREM HubTypes == HubSpec => []HubTypeOK
BY HubTypesFromInv, HubInvHolds, PTL

\* Whatever arrays the slice has shared with copies of it, and however often
\* it was grown or closed up, between two calls of the hub it holds the channel
\* of every subscribed stream once and no other.
THEOREM SliceHoldsSubscribers == HubSpec => []SubscribersMatch
<1>1. HubInv => SubscribersMatch
  <2> SUFFICES ASSUME HubInv, writer = NoStream
               PROVE  /\ header.len = Cardinality(Subscribed)
                      /\ {Cells(header)[i] : i \in 1..header.len} = Subscribed
    BY DEF SubscribersMatch
  <2>1. /\ Fits(heap, header) /\ heap \in Arrays /\ header.len \in Nat
        /\ Lists(heap, header, Subscribed)
    BY SliceLists DEF HubInv, HubState, SliceInv, Arrays, Fits, Header
  <2>2. header.len = Cardinality(Subscribed)
    BY <2>1, ListCounts
  <2>3. \A i \in 1..header.len : Cells(header)[i] = heap[header.array][i]
    BY <2>1, CellsAre
  <2>4. {Cells(header)[i] : i \in 1..header.len}
          = {heap[header.array][i] : i \in 1..header.len}
    BY <2>3
  <2> QED  BY <2>1, <2>2, <2>4 DEF Lists
<1> QED  BY <1>1, HubInvHolds, PTL

\* A broadcast that no Unsubscribe has overtaken never meets a closed channel,
\* offers nobody the notification twice, and ends only when every stream
\* subscribed at its start has been offered it.
THEOREM BroadcastReaches == HubSpec => []BroadcastSound
<1>1. HubInv => BroadcastSound
  <2> SUFFICES ASSUME HubInv, NEW n \in Notifier,
                      notifier[n].at # "idle", ~notifier[n].raced
               PROVE  LET me == notifier[n]
                      IN  /\ me.at = "send" => OpenChannel(me.ch)
                          /\ \A i, j \in DOMAIN me.offered :
                               me.offered[i] = me.offered[j] => i = j
                          /\ {me.offered[i] : i \in DOMAIN me.offered} \subseteq me.subscribed
                          /\ (me.at = "read" /\ ~MoreToSend(n)) =>
                               Len(me.offered) = Cardinality(me.subscribed)
    BY DEF BroadcastSound
  <2> DEFINE me == notifier[n]
             h == me.header
             k == me.k
             o == me.offered
             l == h.len
             cell(i) == heap[h.array][i]
  <2>1. /\ me \in NotifierLocal /\ k \in 1..l + 1 /\ l \in Nat
        /\ me.at = "send" => k <= l
        /\ Lists(heap, h, me.subscribed) /\ me.subscribed \subseteq Subscribed
        /\ Len(o) = k - 1 /\ \A i \in 1..k - 1 : o[i] = cell(i)
        /\ me.at = "send" => me.ch = cell(k)
        /\ o \in Seq(Stream)
        /\ stream \in [Stream -> {"new", "streaming", "leaving", "ended"}]
    BY DEF HubInv, HubState, NotifierInv, InStep, NotifierLocal, Fits, Header
  <2>2. /\ \A i, j \in 1..l : cell(i) = cell(j) => i = j
        /\ \A i \in 1..l : cell(i) \in me.subscribed
    BY <2>1 DEF Lists
  <2>3. Cardinality(me.subscribed) = l
    BY <2>1, ListCounts
  <2>4. MoreToSend(n) <=> k <= l
    BY DEF MoreToSend
  <2> HIDE DEF k, o, l, cell
  <2>5. DOMAIN o = 1..k - 1
    BY <2>1, LenProperties
  <2>6. \A i \in 1..k - 1 : i \in 1..l /\ o[i] = cell(i)
    BY <2>1
  <2>7. \A i, j \in DOMAIN o : o[i] = o[j] => i = j
    BY <2>2, <2>5, <2>6
  <2>8. {o[i] : i \in DOMAIN o} \subseteq me.subscribed
    BY <2>2, <2>5, <2>6
  <2>9. ~(k <= l) => Len(o) = l
    BY <2>1
  <2>10. me.at = "send" => OpenChannel(me.ch)
    <3> SUFFICES ASSUME me.at = "send" PROVE OpenChannel(me.ch)
      OBVIOUS
    <3>1. k \in 1..l /\ me.ch = cell(k)
      BY <2>1
    <3>2. me.ch \in Subscribed
      BY <2>1, <2>2, <3>1
    <3> QED  BY <3>2 DEF Subscribed, OpenChannel
  <2> QED  BY <2>3, <2>4, <2>7, <2>8, <2>9, <2>10 DEF o
<1> QED  BY <1>1, HubInvHolds, PTL

-----------------------------------------------------------------------------
(* The four together *)

\* A behaviour of MCApart is a behaviour of each of its parts: what is proved
\* of a part holds in the run of all four.
THEOREM ApartIsEveryPart ==
  ApartSpec => FundsSpec /\ AccountsSpec /\ RecurringSpec /\ HubSpec
<1>1. ApartInit => FundsInit /\ AccountsInit /\ RecurringInit /\ HubInit
  BY DEF ApartInit
<1>2. [ApartNext]_apartVars
        => /\ [FundsNext]_fundVars /\ [AccountsNext]_accountVars
           /\ [RecurringNext]_recurringVars /\ [HubNext]_hubVars
  BY DEF ApartNext, apartVars, FundsMove, AccountsMove, RecurringMoves, HubMoves
<1> QED
  BY <1>1, <1>2, PTL DEF ApartSpec, FundsSpec, AccountsSpec, RecurringSpec, HubSpec

\* Whichever part moves, the variables of all four hold values of their
\* types, for any values of the constants.
THEOREM ApartTypeCorrect == ApartSpec => []TypeOK
<1>1. FundsTypeOK /\ AccountsTypeOK /\ RecurringTypeOK /\ HubTypeOK => TypeOK
  BY DEF TypeOK
<1> QED
  BY <1>1, ApartIsEveryPart, FundsTypeCorrect, AccountsTypeCorrect,
     RecurringTypes, HubTypes, PTL

=============================================================================
