--------------------------- MODULE DecisionsProofs ---------------------------
(***************************************************************************)
(* Proofs about Decisions, for any number of users, options, calls, and    *)
(* any bounds.                                                             *)
(*                                                                         *)
(* The inductive invariant adds to the types what the writes of a call     *)
(* rely on: a vote that was admitted chooses something, the DELETE of a    *)
(* vote finds ballots of its own user only, and an Update has a row.       *)
(***************************************************************************)
EXTENDS Decisions, TLAPS

ChoiceMade ==
  \A c \in Call : call[c].at \in {"replace", "commit"}
                    => call[c].user \in User /\ call[c].choice # {}

SeenIsOwn == \A c \in Call : \A b \in call[c].seen : b.user = call[c].user

CopyRead ==
  \A c \in Call : call[c].at \in {"hasvotes", "update"}
                    => call[c].copy \in Decision

IInv == TypeOK /\ ChoiceMade /\ SeenIsOwn /\ CopyRead

-----------------------------------------------------------------------------
(* Lemmas about the helpers *)

\* The local state of a call that is not running is a local state.
LEMMA IdleIsLocal == Idle \in Local
BY DEF Idle, Local

\* The updates of a local state that Vote and Update make.
LEMMA LocalWithSeen ==
  ASSUME NEW k \in Local, NEW seen \in SUBSET Ballot
  PROVE  LET new == [k EXCEPT !.at = "commit", !.seen = seen]
         IN  /\ new \in Local /\ new.at = "commit" /\ new.user = k.user
             /\ new.choice = k.choice /\ new.seen = seen
BY DEF Local

LEMMA LocalWithCopy ==
  ASSUME NEW k \in Local, NEW copy \in Decision
  PROVE  LET new == [k EXCEPT !.at = "update", !.copy = copy]
         IN  /\ new \in Local /\ new.at = "update" /\ new.user = k.user
             /\ new.copy = copy /\ new.seen = k.seen
BY DEF Local

LEMMA LocalWithCount ==
  ASSUME NEW k \in Local, NEW counted \in SUBSET Ballot
  PROVE  LET new == [k EXCEPT !.at = "voters", !.counted = counted]
         IN  /\ new \in Local /\ new.at = "voters" /\ new.user = k.user
             /\ new.seen = k.seen /\ new.counted = counted
             /\ new.shown = k.shown /\ new.fixed = k.fixed
BY DEF Local

\* A row read from the table and edited as a request asks is a row.
LEMMA EditedIsDecision ==
  ASSUME NEW d \in Decision, NEW l \in OptionList \cup {None},
         NEW m \in BOOLEAN \cup {None}, NEW t \in Deadline \cup {None}
  PROVE  Edited(d, l, m, t) \in Decision
<1>1. Given(l, d.options) \in OptionList
  BY DEF Given, Decision
<1>2. Given(m, d.allowMultiple) \in BOOLEAN
  BY DEF Given, Decision
<1>3. Given(t, d.deadline) \in Deadline \cup {None}
  BY DEF Given, Decision
<1> QED  BY <1>1, <1>2, <1>3 DEF Edited, Decision

\* What an Update writes is a row with the status of the row it replaces.
LEMMA WrittenIsDecision ==
  ASSUME NEW d \in Decision, NEW copy \in Decision
  PROVE  /\ Written(d, copy) \in Decision
         /\ Written(d, copy).status = d.status
BY DEF Written, Decision

\* Going to the step that reads the row again changes nothing else in the
\* local state.
LEMMA GoReadBack ==
  ASSUME call \in [Call -> Local], NEW c \in Call, Go(c, "readback")
  PROVE  /\ call' \in [Call -> Local]
         /\ call'[c].at = "readback"
         /\ call'[c].user = call[c].user
         /\ call'[c].seen = call[c].seen
         /\ \A d \in Call \ {c} : call'[d] = call[d]
<1> DEFINE new == [call[c] EXCEPT !.at = "readback"]
<1>1. new \in Local /\ new.at = "readback" /\ new.user = call[c].user
        /\ new.seen = call[c].seen
  BY DEF Local
<1>2. call' = [call EXCEPT ![c] = new]
  BY DEF Go
<1> HIDE DEF new
<1> QED  BY <1>1, <1>2

\* What the two reads of GetResults leave in the local state.
LEMMA ReadsResults ==
  ASSUME call \in [Call -> Local], NEW c \in Call, ResultsReads(c)
  PROVE  /\ call'[c].at = "count"
         /\ call'[c].shown = decision.options
         /\ call'[c].fixed = (ballots # {} /\ ~UpdateUnderWay)
         /\ \A d \in Call \ {c} : call'[d] = call[d]
<1> DEFINE fixed == ballots # {} /\ ~UpdateUnderWay
<1> DEFINE new == [Idle EXCEPT !.at = "count", !.shown = decision.options,
                               !.fixed = fixed]
<1>1. fixed = (ballots # {} /\ ~UpdateUnderWay)
  OBVIOUS
<1>2. call' = [call EXCEPT ![c] = new]
  BY DEF ResultsReads
<1> HIDE DEF fixed
<1>3. new.at = "count" /\ new.shown = decision.options /\ new.fixed = fixed
  BY DEF Idle
<1> HIDE DEF new
<1> QED  BY <1>1, <1>2, <1>3

LEMMA CountsResults ==
  ASSUME TypeOK, NEW c \in Call, ResultsCount(c)
  PROVE  /\ call'[c].at = "voters" /\ call[c].at = "count"
         /\ call'[c].shown = call[c].shown
         /\ call'[c].fixed = call[c].fixed
         /\ call'[c].counted = ballots
         /\ \A d \in Call \ {c} : call'[d] = call[d]
<1> DEFINE new == [call[c] EXCEPT !.at = "voters", !.counted = ballots]
<1>1. new.at = "voters" /\ new.shown = call[c].shown
        /\ new.fixed = call[c].fixed /\ new.counted = ballots
  <2>1. call[c] \in Local /\ ballots \in SUBSET Ballot
    BY DEF TypeOK
  <2> QED  BY <2>1, LocalWithCount
<1>2. call' = [call EXCEPT ![c] = new] /\ call[c].at = "count"
  BY DEF ResultsCount, TypeOK, Calling
<1> HIDE DEF new
<1> QED  BY <1>1, <1>2 DEF TypeOK

-----------------------------------------------------------------------------
(* The inductive invariant *)

\* The initial states satisfy the inductive invariant.
LEMMA InitIInv == Init => IInv
<1> SUFFICES ASSUME Init PROVE IInv
  OBVIOUS
<1>1. TypeOK
  BY IdleIsLocal, BoundsAssumption DEF Init, TypeOK, Decision
<1>2. ChoiceMade /\ SeenIsOwn /\ CopyRead
  BY DEF Init, ChoiceMade, SeenIsOwn, CopyRead, Idle
<1> QED  BY <1>1, <1>2 DEF IInv

\* Every step keeps the inductive invariant.
LEMMA IInvStep == ASSUME IInv, [Next]_vars PROVE IInv'
<1> USE DEF IInv, ChoiceMade, SeenIsOwn, CopyRead
<1>1. ASSUME NEW c \in Call, NEW u \in User, NEW choice \in SUBSET Indices,
             Vote(c, u, choice)
      PROVE  IInv'
  <2>1. choice \in SUBSET Nat
    BY OptionListAssumption DEF Indices
  <2>2. choice # {}
    BY <1>1 DEF Vote, validateVote
  <2> DEFINE new == [Idle EXCEPT !.at = "replace", !.user = u,
                                 !.choice = choice]
  <2>3. new \in Local /\ new.at = "replace" /\ new.user = u
          /\ new.choice = choice /\ new.seen = {}
    BY <2>1 DEF Idle, Local
  <2>4. call' = [call EXCEPT ![c] = new]
    BY <1>1 DEF Vote
  <2> HIDE DEF new
  <2>5. TypeOK'
    BY <1>1, <2>3, <2>4 DEF Vote, TypeOK
  <2> QED  BY <2>2, <2>3, <2>4, <2>5 DEF TypeOK
<1>2. ASSUME NEW c \in Call, DeleteOldVotes(c) PROVE IInv'
  <2> DEFINE new == [call[c] EXCEPT !.at = "commit",
                                    !.seen = BallotsOf(call[c].user)]
  <2>1. BallotsOf(call[c].user) \subseteq ballots
          /\ \A b \in BallotsOf(call[c].user) : b.user = call[c].user
    BY DEF BallotsOf
  <2>2. call[c] \in Local /\ BallotsOf(call[c].user) \in SUBSET Ballot
    BY <2>1 DEF TypeOK
  <2>6. new \in Local /\ new.at = "commit" /\ new.user = call[c].user
          /\ new.choice = call[c].choice
          /\ new.seen = BallotsOf(call[c].user)
    BY <2>2, LocalWithSeen
  <2>3. call' = [call EXCEPT ![c] = new]
    BY <1>2 DEF DeleteOldVotes, TypeOK
  <2>4. call[c].at = "replace"
    BY <1>2 DEF DeleteOldVotes, Calling
  <2> HIDE DEF new
  <2>5. TypeOK'
    BY <1>2, <2>6, <2>3 DEF DeleteOldVotes, TypeOK
  <2> QED  BY <2>1, <2>3, <2>4, <2>5, <2>6 DEF TypeOK
<1>3. ASSUME NEW c \in Call, InsertVotes(c) PROVE IInv'
  <2>1. NewBallot(c) \in Ballot
    BY <1>3, BoundsAssumption
    DEF InsertVotes, Calling, NewBallot, Ballot, TypeOK, Local
  <2>2. ballots' \subseteq Ballot
    BY <1>3, <2>1 DEF InsertVotes, TypeOK
  <2>3. TypeOK'
    BY <1>3, <2>2, IdleIsLocal, BoundsAssumption
    DEF InsertVotes, Return, TypeOK
  <2> QED  BY <1>3, <2>3 DEF InsertVotes, Return, Idle, TypeOK
<1>4. ASSUME NEW c \in Call, UpdateReads(c) PROVE IInv'
  <2> DEFINE new == [Idle EXCEPT !.at = "hasvotes", !.user = Creator,
                                 !.copy = decision]
  <2>1. new \in Local /\ new.at = "hasvotes" /\ new.copy \in Decision
          /\ new.seen = {}
    BY <1>4, CreatorAssumption DEF UpdateReads, TypeOK, Idle, Local
  <2>2. call' = [call EXCEPT ![c] = new]
    BY <1>4 DEF UpdateReads
  <2> HIDE DEF new
  <2>3. TypeOK'
    BY <1>4, <2>1, <2>2 DEF UpdateReads, TypeOK
  <2> QED  BY <2>1, <2>2, <2>3 DEF TypeOK
<1>5. ASSUME NEW c \in Call, NEW l \in OptionList \cup {None},
             NEW m \in BOOLEAN \cup {None}, NEW t \in Deadline \cup {None},
             UpdateChecks(c, l, m, t)
      PROVE  IInv'
  <2>1. CASE validateNoVotesExist
    <3> DEFINE copy == Edited(call[c].copy, l, m, t)
    <3>1. copy \in Decision
      BY <1>5, EditedIsDecision DEF UpdateChecks, Calling
    <3> DEFINE new == [call[c] EXCEPT !.at = "update", !.copy = copy]
    <3>2. call' = [call EXCEPT ![c] = new]
      BY <1>5, <2>1 DEF UpdateChecks, TypeOK
    <3> HIDE DEF copy
    <3>3. new \in Local /\ new.at = "update" /\ new.user = call[c].user
            /\ new.copy = copy /\ new.seen = call[c].seen
      BY <3>1, LocalWithCopy DEF TypeOK
    <3> HIDE DEF new
    <3>4. TypeOK'
      BY <1>5, <3>2, <3>3 DEF UpdateChecks, TypeOK
    <3> QED  BY <3>1, <3>2, <3>3, <3>4 DEF TypeOK
  <2>2. CASE ~validateNoVotesExist
    <3>1. TypeOK'
      BY <1>5, <2>2, IdleIsLocal DEF UpdateChecks, Return, TypeOK
    <3> QED  BY <1>5, <2>2, <3>1 DEF UpdateChecks, Return, Idle, TypeOK
  <2> QED  BY <2>1, <2>2
<1>6. ASSUME NEW c \in Call, Update(c) PROVE IInv'
  <2>1. decision' \in Decision \cup {None}
    BY <1>6, WrittenIsDecision DEF Update, Calling, TypeOK
  <2>2. /\ call' \in [Call -> Local]
        /\ call'[c].at = "readback"
        /\ call'[c].user = call[c].user
        /\ call'[c].seen = call[c].seen
        /\ \A d \in Call \ {c} : call'[d] = call[d]
    <3>1. Go(c, "readback") /\ call \in [Call -> Local]
      BY <1>6 DEF Update, TypeOK
    <3> QED  BY <3>1, GoReadBack
  <2>3. TypeOK'
    BY <1>6, <2>1, <2>2, WrittenIsDecision, NoneAssumption
    DEF Update, Calling, TypeOK
  <2> QED  BY <2>2, <2>3
<1>7. ASSUME NEW c \in Call, CloseReads(c) PROVE IInv'
  <2> DEFINE new == [Idle EXCEPT !.at = "close", !.user = Creator]
  <2>1. new \in Local /\ new.at = "close" /\ new.seen = {}
    BY CreatorAssumption DEF Idle, Local
  <2>2. call' = [call EXCEPT ![c] = new]
    BY <1>7 DEF CloseReads
  <2> HIDE DEF new
  <2>3. TypeOK'
    BY <1>7, <2>1, <2>2 DEF CloseReads, TypeOK
  <2> QED  BY <2>1, <2>2, <2>3 DEF TypeOK
<1>8. ASSUME NEW c \in Call, Close(c) PROVE IInv'
  <2>1. decision' \in Decision \cup {None}
    BY <1>8 DEF Close, TypeOK, Decision
  <2>2. /\ call' \in [Call -> Local]
        /\ call'[c].at = "readback"
        /\ call'[c].user = call[c].user
        /\ call'[c].seen = call[c].seen
        /\ \A d \in Call \ {c} : call'[d] = call[d]
    <3>1. Go(c, "readback") /\ call \in [Call -> Local]
      BY <1>8 DEF Close, TypeOK
    <3> QED  BY <3>1, GoReadBack
  <2>3. TypeOK'
    BY <1>8, <2>1, <2>2, NoneAssumption DEF Close, TypeOK, Decision
  <2> QED  BY <2>2, <2>3
<1>9. ASSUME NEW c \in Call, ReadBack(c) PROVE IInv'
  <2>1. TypeOK'
    BY <1>9, IdleIsLocal DEF ReadBack, Panic, Return, TypeOK
  <2> QED  BY <1>9, <2>1 DEF ReadBack, Panic, Return, Idle, TypeOK
<1>10. ASSUME NEW c \in Call, DeleteReads(c) PROVE IInv'
  <2> DEFINE new == [Idle EXCEPT !.at = "delete", !.user = Creator]
  <2>1. new \in Local /\ new.at = "delete" /\ new.seen = {}
    BY CreatorAssumption DEF Idle, Local
  <2>2. call' = [call EXCEPT ![c] = new]
    BY <1>10 DEF DeleteReads
  <2> HIDE DEF new
  <2>3. TypeOK'
    BY <1>10, <2>1, <2>2 DEF DeleteReads, TypeOK
  <2> QED  BY <2>1, <2>2, <2>3 DEF TypeOK
<1>11. ASSUME NEW c \in Call, Delete(c) PROVE IInv'
  <2>1. TypeOK'
    BY <1>11, IdleIsLocal DEF Delete, Return, TypeOK
  <2> QED  BY <1>11, <2>1 DEF Delete, Return, Idle, TypeOK
<1>12. ASSUME NEW c \in Call, Abandon(c) PROVE IInv'
  <2>1. TypeOK'
    BY <1>12, IdleIsLocal DEF Abandon, Return, TypeOK
  <2> QED  BY <1>12, <2>1 DEF Abandon, Return, Idle, TypeOK
<1>13. CASE Tick
  BY <1>13, BoundsAssumption DEF Tick, TypeOK
<1>14. CASE UNCHANGED vars
  BY <1>14 DEF vars, TypeOK
<1>15. ASSUME NEW c \in Call, ResultsReads(c) PROVE IInv'
  <2> DEFINE fixed == ballots # {} /\ ~UpdateUnderWay
  <2> DEFINE new == [Idle EXCEPT !.at = "count", !.shown = decision.options,
                                 !.fixed = fixed]
  <2>1. decision.options \in OptionList
    BY <1>15 DEF ResultsReads, TypeOK, Decision
  <2>2. fixed \in BOOLEAN
    OBVIOUS
  <2> HIDE DEF fixed
  <2>3. new \in Local /\ new.at = "count" /\ new.seen = {}
    BY <2>1, <2>2 DEF Idle, Local
  <2>4. call' = [call EXCEPT ![c] = new]
    BY <1>15 DEF ResultsReads, fixed
  <2> HIDE DEF new
  <2>5. TypeOK'
    BY <1>15, <2>3, <2>4 DEF ResultsReads, TypeOK
  <2> QED  BY <2>3, <2>4, <2>5 DEF TypeOK
<1>16. ASSUME NEW c \in Call, ResultsCount(c) PROVE IInv'
  <2> DEFINE new == [call[c] EXCEPT !.at = "voters", !.counted = ballots]
  <2>1. new \in Local /\ new.at = "voters" /\ new.user = call[c].user
          /\ new.seen = call[c].seen
    <3>1. call[c] \in Local /\ ballots \in SUBSET Ballot
      BY DEF TypeOK
    <3> QED  BY <3>1, LocalWithCount
  <2>2. call' = [call EXCEPT ![c] = new]
    BY <1>16 DEF ResultsCount, TypeOK
  <2> HIDE DEF new
  <2>3. TypeOK'
    BY <1>16, <2>1, <2>2 DEF ResultsCount, TypeOK
  <2> QED  BY <2>1, <2>2, <2>3 DEF TypeOK
<1>17. ASSUME NEW c \in Call, ResultsVoters(c) PROVE IInv'
  <2>1. TypeOK'
    BY <1>17, IdleIsLocal DEF ResultsVoters, Return, TypeOK
  <2> QED  BY <1>17, <2>1 DEF ResultsVoters, Return, Idle, TypeOK
<1> QED
  BY <1>1, <1>2, <1>3, <1>4, <1>5, <1>6, <1>7, <1>8, <1>9, <1>10, <1>11,
     <1>12, <1>13, <1>14, <1>15, <1>16, <1>17 DEF Next

\* The inductive invariant holds in every state of every behaviour.
LEMMA Invariant == Spec => []IInv
BY InitIInv, IInvStep, PTL DEF Spec

\* The variables keep their types, and the votes go with their decision.
THEOREM TypeCorrect == Spec => []TypeOK
<1>1. IInv => TypeOK
  BY DEF IInv
<1> QED  BY <1>1, Invariant, PTL

-----------------------------------------------------------------------------
(* Closing *)

\* Update writes its copy without the status, and Close only closes: a closed
\* decision stays closed.
LEMMA ReopenStep ==
  ASSUME IInv, [Next]_vars,
         decision # None, decision' # None, decision.status = "closed"
  PROVE  decision'.status = "closed"
<1>1. ASSUME NEW c \in Call, Update(c) PROVE decision'.status = "closed"
  <2>1. call[c].copy \in Decision /\ decision \in Decision
    BY <1>1 DEF Update, Calling, IInv, CopyRead, TypeOK
  <2> QED  BY <1>1, <2>1, WrittenIsDecision DEF Update
<1>2. ASSUME NEW c \in Call, Close(c) PROVE decision'.status = "closed"
  BY <1>2 DEF Close, IInv, TypeOK, Decision
<1>3. CASE decision' = decision
  BY <1>3
<1> QED
  BY <1>1, <1>2, <1>3
  DEF Next, vars, Vote, DeleteOldVotes, InsertVotes, UpdateReads,
      UpdateChecks, CloseReads, ReadBack, DeleteReads, Delete, ResultsReads,
      ResultsCount, ResultsVoters, Abandon, Tick

\* No interleaving of an Update with a Close reopens the decision.
THEOREM ClosedForGood == Spec => NeverReopened
<1>1. IInv /\ [Next]_vars
        => [decision # None /\ decision' # None /\ decision.status = "closed"
              => decision'.status = "closed"]_vars
  BY ReopenStep
<1> QED  BY <1>1, Invariant, PTL DEF Spec, NeverReopened

\* On a closed decision no vote is admitted, and without an admitted vote
\* nothing touches the ballots of a decision that is not deleted.
LEMMA ResultStep ==
  ASSUME IInv, [Next]_vars, decision # None, decision' # None,
         decision.status = "closed", ~VoteUnderWay
  PROVE  ballots' = ballots /\ ~VoteUnderWay'
<1> USE DEF VoteUnderWay
<1>1. call \in [Call -> Local]
  BY DEF IInv, TypeOK
<1>2. \A c \in Call : call[c].at \notin {"replace", "commit"}
  OBVIOUS
<1>3. ASSUME NEW c \in Call, Return(c) PROVE ~VoteUnderWay'
  BY <1>1, <1>2, <1>3 DEF Return, Idle
<1>4. ASSUME NEW c \in Call, Go(c, "readback") PROVE ~VoteUnderWay'
  BY <1>1, <1>2, <1>4, GoReadBack
<1>5. ASSUME NEW c \in Call, NEW u \in User, NEW choice \in SUBSET Indices,
             Vote(c, u, choice)
      PROVE  FALSE
  BY <1>5 DEF Vote, validateVote
<1>6. ASSUME NEW c \in Call, DeleteOldVotes(c) \/ InsertVotes(c)
      PROVE  FALSE
  BY <1>2, <1>6 DEF DeleteOldVotes, InsertVotes, Calling
<1>7. ASSUME NEW c \in Call, UpdateReads(c) \/ CloseReads(c) \/ DeleteReads(c)
      PROVE  ballots' = ballots /\ ~VoteUnderWay'
  BY <1>1, <1>2, <1>7 DEF UpdateReads, CloseReads, DeleteReads, Idle
<1>8. ASSUME NEW c \in Call, NEW l \in OptionList \cup {None},
             NEW m \in BOOLEAN \cup {None}, NEW t \in Deadline \cup {None},
             UpdateChecks(c, l, m, t)
      PROVE  ballots' = ballots /\ ~VoteUnderWay'
  <2>1. CASE validateNoVotesExist
    <3>1. call' = [call EXCEPT ![c] = [call[c] EXCEPT !.at = "update",
                                  !.copy = Edited(call[c].copy, l, m, t)]]
      BY <1>1, <1>8, <2>1 DEF UpdateChecks
    <3>2. [call[c] EXCEPT !.at = "update",
                          !.copy = Edited(call[c].copy, l, m, t)].at = "update"
      BY <1>1 DEF Local
    <3> QED  BY <1>1, <1>2, <1>8, <3>1, <3>2 DEF UpdateChecks
  <2>2. CASE ~validateNoVotesExist
    BY <1>3, <1>8, <2>2 DEF UpdateChecks
  <2> QED  BY <2>1, <2>2
<1>9. ASSUME NEW c \in Call, Update(c) \/ Close(c)
      PROVE  ballots' = ballots /\ ~VoteUnderWay'
  BY <1>4, <1>9 DEF Update, Close
<1>10. ASSUME NEW c \in Call, ReadBack(c) \/ ResultsVoters(c) \/ Abandon(c)
       PROVE  ballots' = ballots /\ ~VoteUnderWay'
  BY <1>3, <1>10 DEF ReadBack, ResultsVoters, Abandon, Panic, Idle
<1>11. ASSUME NEW c \in Call, Delete(c) PROVE FALSE
  BY <1>11 DEF Delete
<1>12. CASE Tick \/ UNCHANGED vars
  BY <1>2, <1>12 DEF Tick, vars
<1>13. ASSUME NEW c \in Call, ResultsReads(c)
       PROVE  ballots' = ballots /\ ~VoteUnderWay'
  BY <1>1, <1>2, <1>13, ReadsResults DEF ResultsReads
<1>14. ASSUME NEW c \in Call, ResultsCount(c)
       PROVE  ballots' = ballots /\ ~VoteUnderWay'
  BY <1>1, <1>2, <1>14, CountsResults DEF ResultsCount, IInv
<1> QED
  BY <1>5, <1>6, <1>7, <1>8, <1>9, <1>10, <1>11, <1>12, <1>13, <1>14 DEF Next

\* The result of a closed decision stands once the votes admitted before are
\* stored or lost.
THEOREM ResultFinal == Spec => ResultStands
<1>1. IInv /\ [Next]_vars
        => [decision # None /\ decision' # None /\ decision.status = "closed"
              /\ ~VoteUnderWay => ballots' = ballots /\ ~VoteUnderWay']_vars
  BY ResultStep
<1> QED  BY <1>1, Invariant, PTL DEF Spec, ResultStands

-----------------------------------------------------------------------------
(* Votes *)

\* Only the UPDATE writes options, and no call gets to it while there are
\* votes.
LEMMA MeaningStep ==
  ASSUME IInv, [Next]_vars, decision # None, decision' # None,
         ballots # {}, ~UpdateUnderWay
  PROVE  /\ decision'.options = decision.options
         /\ decision'.allowMultiple = decision.allowMultiple
         /\ ~UpdateUnderWay'
<1> USE DEF UpdateUnderWay
<1>1. call \in [Call -> Local] /\ decision \in Decision
  BY DEF IInv, TypeOK
<1>2. \A c \in Call : call[c].at # "update"
  OBVIOUS
<1>3. ASSUME NEW c \in Call, Return(c) PROVE ~UpdateUnderWay'
  BY <1>1, <1>2, <1>3 DEF Return, Idle
<1>4. ASSUME NEW c \in Call, NEW u \in User, NEW choice \in SUBSET Indices,
             Vote(c, u, choice)
      PROVE  decision' = decision /\ ~UpdateUnderWay'
  BY <1>1, <1>2, <1>4 DEF Vote, Idle
<1>5. ASSUME NEW c \in Call, DeleteOldVotes(c)
      PROVE  decision' = decision /\ ~UpdateUnderWay'
  <2> DEFINE new == [call[c] EXCEPT !.at = "commit",
                                    !.seen = BallotsOf(call[c].user)]
  <2>1. new.at = "commit"
    BY <1>1 DEF Local
  <2>2. call' = [call EXCEPT ![c] = new]
    BY <1>1, <1>5 DEF DeleteOldVotes
  <2> HIDE DEF new
  <2> QED  BY <1>1, <1>2, <1>5, <2>1, <2>2 DEF DeleteOldVotes
<1>6. ASSUME NEW c \in Call, UpdateReads(c) \/ CloseReads(c) \/ DeleteReads(c)
      PROVE  decision' = decision /\ ~UpdateUnderWay'
  BY <1>1, <1>2, <1>6 DEF UpdateReads, CloseReads, DeleteReads, Idle
<1>7. ASSUME NEW c \in Call, InsertVotes(c) \/ ReadBack(c)
                                \/ ResultsVoters(c) \/ Abandon(c)
      PROVE  decision' = decision /\ ~UpdateUnderWay'
  BY <1>3, <1>7
  DEF InsertVotes, ReadBack, ResultsVoters, Abandon, Panic, Idle
<1>8. ASSUME NEW c \in Call, NEW l \in OptionList \cup {None},
             NEW m \in BOOLEAN \cup {None}, NEW t \in Deadline \cup {None},
             UpdateChecks(c, l, m, t)
      PROVE  decision' = decision /\ ~UpdateUnderWay'
  BY <1>3, <1>8 DEF UpdateChecks, validateNoVotesExist
<1>9. ASSUME NEW c \in Call, Update(c) \/ Delete(c) PROVE FALSE
  BY <1>2, <1>9 DEF Update, Calling, Delete
<1>10. ASSUME NEW c \in Call, Close(c)
       PROVE  /\ decision'.options = decision.options
              /\ decision'.allowMultiple = decision.allowMultiple
              /\ ~UpdateUnderWay'
  <2>1. Go(c, "readback")
    BY <1>10 DEF Close
  <2>2. ~UpdateUnderWay'
    BY <1>1, <1>2, <2>1, GoReadBack
  <2> QED  BY <1>1, <1>10, <2>2 DEF Close, Decision
<1>11. CASE Tick \/ UNCHANGED vars
  BY <1>2, <1>11 DEF Tick, vars
<1>12. ASSUME NEW c \in Call, ResultsReads(c)
       PROVE  decision' = decision /\ ~UpdateUnderWay'
  BY <1>1, <1>2, <1>12, ReadsResults DEF ResultsReads
<1>13. ASSUME NEW c \in Call, ResultsCount(c)
       PROVE  decision' = decision /\ ~UpdateUnderWay'
  BY <1>1, <1>2, <1>13, CountsResults DEF ResultsCount, IInv
<1> QED
  BY <1>4, <1>5, <1>6, <1>7, <1>8, <1>9, <1>10, <1>11, <1>12, <1>13 DEF Next

\* What a stored vote refers to stays, but for an Update that found no votes
\* and has not written yet.
THEOREM MeaningKept == Spec => VotesKeepMeaning
<1>1. IInv /\ [Next]_vars
        => [decision # None /\ decision' # None /\ ballots # {}
              /\ ~UpdateUnderWay
              => /\ decision'.options = decision.options
                 /\ decision'.allowMultiple = decision.allowMultiple
                 /\ ~UpdateUnderWay']_vars
  BY MeaningStep
<1> QED  BY <1>1, Invariant, PTL DEF Spec, VotesKeepMeaning

\* The transaction of a vote deletes ballots of its own user only, and then
\* inserts one for him.
LEMMA VoterStep ==
  ASSUME IInv, [Next]_vars, NEW u \in User, BallotsOf(u) # {},
         decision' # None
  PROVE  BallotsOf(u)' # {}
<1>1. ASSUME NEW c \in Call, InsertVotes(c) PROVE BallotsOf(u)' # {}
  <2>1. call[c].choice # {}
          /\ \A b \in call[c].seen : b.user = call[c].user
    BY <1>1 DEF InsertVotes, Calling, IInv, ChoiceMade, SeenIsOwn
  <2>2. CASE call[c].user = u
    <3>1. NewBallot(c).user = u /\ NewBallot(c).choice # {}
      BY <2>1, <2>2 DEF NewBallot
    <3>2. NewBallot(c) \in ballots'
      BY <1>1, <3>1 DEF InsertVotes
    <3> QED  BY <3>1, <3>2 DEF BallotsOf
  <2>3. CASE call[c].user # u
    <3>1. PICK b \in ballots : b.user = u
      BY DEF BallotsOf
    <3>2. b \in ballots'
      BY <1>1, <2>1, <2>3, <3>1 DEF InsertVotes
    <3> QED  BY <3>1, <3>2 DEF BallotsOf
  <2> QED  BY <2>2, <2>3
<1>2. CASE ballots' = ballots
  BY <1>2 DEF BallotsOf
<1>3. ASSUME NEW c \in Call, Delete(c) PROVE FALSE
  BY <1>3 DEF Delete
<1> QED
  BY <1>1, <1>2, <1>3
  DEF Next, vars, Vote, DeleteOldVotes, UpdateReads, UpdateChecks, Update,
      CloseReads, Close, ReadBack, DeleteReads, ResultsReads, ResultsCount,
      ResultsVoters, Abandon, Tick

\* Racing votes, edits and failures never leave a voter without a vote.
THEOREM VoteKept == Spec => VoterKeepsVote
<1>1. IInv /\ [Next]_vars
        => [\A u \in User : BallotsOf(u) # {} /\ decision' # None
                              => BallotsOf(u)' # {}]_vars
  BY VoterStep
<1> QED  BY <1>1, Invariant, PTL DEF Spec, VoterKeepsVote

-----------------------------------------------------------------------------
(* Results *)

\* What GetResults relies on from one of its statements to the next: options
\* that were fixed when it read them are still those of the decision, and for
\* the same reason, votes and no Update about to write; the counted voters
\* have votes.
ShownFits(c) ==
  call[c].at \in {"count", "voters"} /\ call[c].fixed
    => /\ decision.options = call[c].shown
       /\ ballots # {} /\ ~UpdateUnderWay

CountedFits(c) ==
  call[c].at = "voters"
    => call[c].counted \subseteq Ballot
         /\ \A b \in call[c].counted : BallotsOf(b.user) # {}

FitInv == decision # None => \A c \in Call : ShownFits(c) /\ CountedFits(c)

\* A step leaves the local state of a call as it was, ends the call, takes it
\* to a step that is not one of GetResults, or is one of GetResults.
LEMMA LocalStep ==
  ASSUME IInv, [Next]_vars, NEW c \in Call
  PROVE  \/ call'[c] = call[c]
         \/ call'[c].at \notin {"count", "voters"}
         \/ ResultsReads(c)
         \/ ResultsCount(c)
<1>1. call \in [Call -> Local] /\ TypeOK
  BY DEF IInv, TypeOK
<1>2. ASSUME NEW d \in Call, Return(d)
      PROVE  call'[c] = call[c] \/ call'[c].at \notin {"count", "voters"}
  BY <1>1, <1>2 DEF Return, Idle
<1>3. ASSUME NEW d \in Call, NEW u \in User, NEW choice \in SUBSET Indices,
             Vote(d, u, choice)
      PROVE  call'[c] = call[c] \/ call'[c].at \notin {"count", "voters"}
  BY <1>1, <1>3 DEF Vote, Idle
<1>4. ASSUME NEW d \in Call, DeleteOldVotes(d)
      PROVE  call'[c] = call[c] \/ call'[c].at \notin {"count", "voters"}
  <2> DEFINE new == [call[d] EXCEPT !.at = "commit",
                                    !.seen = BallotsOf(call[d].user)]
  <2>1. new.at = "commit"
    BY <1>1 DEF Local
  <2>2. call' = [call EXCEPT ![d] = new]
    BY <1>1, <1>4 DEF DeleteOldVotes
  <2> HIDE DEF new
  <2> QED  BY <1>1, <2>1, <2>2
<1>5. ASSUME NEW d \in Call, UpdateReads(d) \/ CloseReads(d) \/ DeleteReads(d)
      PROVE  call'[c] = call[c] \/ call'[c].at \notin {"count", "voters"}
  BY <1>1, <1>5 DEF UpdateReads, CloseReads, DeleteReads, Idle
<1>6. ASSUME NEW d \in Call, NEW l \in OptionList \cup {None},
             NEW m \in BOOLEAN \cup {None}, NEW t \in Deadline \cup {None},
             UpdateChecks(d, l, m, t)
      PROVE  call'[c] = call[c] \/ call'[c].at \notin {"count", "voters"}
  <2>1. CASE validateNoVotesExist
    <3> DEFINE copy == Edited(call[d].copy, l, m, t)
    <3> DEFINE new == [call[d] EXCEPT !.at = "update", !.copy = copy]
    <3>1. call' = [call EXCEPT ![d] = new]
      BY <1>1, <1>6, <2>1 DEF UpdateChecks
    <3> HIDE DEF copy
    <3>2. new.at = "update"
      BY <1>1 DEF Local
    <3> HIDE DEF new
    <3> QED  BY <1>1, <3>1, <3>2
  <2>2. CASE ~validateNoVotesExist
    BY <1>2, <1>6, <2>2 DEF UpdateChecks
  <2> QED  BY <2>1, <2>2
<1>7. ASSUME NEW d \in Call, Update(d) \/ Close(d)
      PROVE  call'[c] = call[c] \/ call'[c].at \notin {"count", "voters"}
  <2>1. Go(d, "readback")
    BY <1>7 DEF Update, Close
  <2> QED  BY <1>1, <2>1, GoReadBack
<1>8. ASSUME NEW d \in Call, \/ InsertVotes(d) \/ ReadBack(d) \/ Delete(d)
                             \/ ResultsVoters(d) \/ Abandon(d)
      PROVE  call'[c] = call[c] \/ call'[c].at \notin {"count", "voters"}
  BY <1>2, <1>8
  DEF InsertVotes, ReadBack, Delete, ResultsVoters, Abandon, Panic, Idle
<1>9. ASSUME NEW d \in Call, ResultsReads(d), d # c
      PROVE  call'[c] = call[c]
  BY <1>1, <1>9, ReadsResults
<1>10. ASSUME NEW d \in Call, ResultsCount(d), d # c
       PROVE  call'[c] = call[c]
  BY <1>1, <1>10, CountsResults
<1>11. CASE Tick \/ UNCHANGED vars
  BY <1>11 DEF Tick, vars
<1> QED
  BY <1>3, <1>4, <1>5, <1>6, <1>7, <1>8, <1>9, <1>10, <1>11 DEF Next

\* Once a decision is deleted it does not come back.
LEMMA DeletedStep ==
  ASSUME [Next]_vars, decision' # None
  PROVE  decision # None
BY DEF Next, vars, Vote, DeleteOldVotes, InsertVotes, UpdateReads,
       UpdateChecks, Update, CloseReads, Close, ReadBack, DeleteReads, Delete,
       ResultsReads, ResultsCount, ResultsVoters, Abandon, Tick

\* Votes do not disappear from a decision that stays.
LEMMA BallotsStep ==
  ASSUME IInv, [Next]_vars, decision' # None, ballots # {}
  PROVE  ballots' # {}
<1>1. PICK b \in ballots : TRUE
  OBVIOUS
<1>2. b.user \in User /\ BallotsOf(b.user) # {}
  BY DEF IInv, TypeOK, Ballot, BallotsOf
<1>3. BallotsOf(b.user)' # {}
  BY <1>2, VoterStep
<1> QED  BY <1>3 DEF BallotsOf

\* Between the statements of GetResults nothing it has read is undone, unless
\* the decision is deleted.
LEMMA FitStep == ASSUME IInv, FitInv, [Next]_vars PROVE FitInv'
<1> SUFFICES ASSUME decision' # None, NEW c \in Call
             PROVE  ShownFits(c)' /\ CountedFits(c)'
  BY DEF FitInv
<1>1. decision # None
  BY DeletedStep
<1>2. ShownFits(c) /\ CountedFits(c)
  BY <1>1 DEF FitInv
<1>3. call \in [Call -> Local] /\ TypeOK /\ ballots \subseteq Ballot
  BY DEF IInv, TypeOK
<1>4. ASSUME ballots # {}, ~UpdateUnderWay
      PROVE  /\ decision'.options = decision.options
             /\ ballots' # {} /\ ~UpdateUnderWay'
  BY <1>1, <1>4, MeaningStep, BallotsStep
<1>5. ASSUME NEW b \in Ballot, BallotsOf(b.user) # {}
      PROVE  BallotsOf(b.user)' # {}
  <2>1. b.user \in User
    BY DEF Ballot
  <2> QED  BY <1>5, <2>1, VoterStep
<1>6. CASE call'[c] = call[c]
  <2>1. ShownFits(c)'
    BY <1>2, <1>4, <1>6 DEF ShownFits
  <2>2. CountedFits(c)'
    BY <1>2, <1>5, <1>6 DEF CountedFits
  <2> QED  BY <2>1, <2>2
<1>7. CASE call'[c].at \notin {"count", "voters"}
  BY <1>7 DEF ShownFits, CountedFits
<1>8. CASE ResultsReads(c)
  <2>1. /\ call'[c].at = "count" /\ call'[c].shown = decision.options
        /\ call'[c].fixed = (ballots # {} /\ ~UpdateUnderWay)
    BY <1>3, <1>8, ReadsResults
  <2> QED  BY <1>4, <2>1 DEF ShownFits, CountedFits
<1>9. CASE ResultsCount(c)
  <2>1. /\ call'[c].at = "voters" /\ call[c].at = "count"
        /\ call'[c].shown = call[c].shown /\ call'[c].fixed = call[c].fixed
        /\ call'[c].counted = ballots
    BY <1>3, <1>9, CountsResults
  <2>2. ShownFits(c)'
    BY <1>2, <1>4, <2>1 DEF ShownFits
  <2>3. \A b \in ballots : b \in Ballot /\ BallotsOf(b.user) # {}
    BY <1>3 DEF BallotsOf
  <2>4. CountedFits(c)'
    BY <1>3, <1>5, <2>1, <2>3 DEF CountedFits
  <2> QED  BY <2>2, <2>4
<1> QED  BY <1>6, <1>7, <1>8, <1>9, LocalStep

\* The parts of an answer of GetResults belong together, whatever happens
\* between its statements: fixed options are those the votes refer to, and
\* the counted voters are still voters.
THEOREM ResultsBelong == Spec => []ResultsFit
<1>1. Init => FitInv
  BY DEF Init, FitInv, ShownFits, CountedFits, Idle
<1>2. FitInv => ResultsFit
  BY DEF FitInv, ShownFits, CountedFits, ResultsFit
<1> QED  BY <1>1, <1>2, FitStep, Invariant, PTL DEF Spec

=============================================================================
