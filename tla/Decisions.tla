------------------------------ MODULE Decisions ------------------------------
(***************************************************************************)
(* One decision of a colocation and the votes on it: DecisionService over  *)
(* the tables decisions and decision_votes.  The creator edits, closes and *)
(* deletes it while members vote.  Every handler tests a copy of the row   *)
(* and then writes, in a statement or a transaction of its own.            *)
(*                                                                         *)
(* No migration creates these tables.  The model takes from their use that *)
(* votes refer to their decision and go with it (ON DELETE CASCADE).       *)
(* Titles, descriptions and anonymity play no part.                        *)
(***************************************************************************)
EXTENDS Integers, Sequences, FiniteSets

CONSTANTS
  User,        \* the members of the colocation
  Creator,     \* created_by
  Option,      \* texts of options
  OptionList,  \* the lists of options clients ask for, two at least
  Deadline,    \* the deadlines clients ask for
  Call,        \* slots for handler executions in flight
  MaxTime,     \* bound on the clock
  MaxBallots,  \* bound on the votes ever stored
  None         \* SQL NULL, an absent field, or a deleted row

ASSUME CreatorAssumption == Creator \in User
ASSUME OptionListAssumption ==
  \A l \in OptionList : l \in Seq(Option) /\ Len(l) >= 2
ASSUME BoundsAssumption == MaxTime \in Nat /\ MaxBallots \in Nat
ASSUME DeadlineAssumption == Deadline \subseteq Nat

VARIABLES
  decision,  \* the row, or None when it has been deleted
  ballots,   \* the stored votes: those of one Vote call are one ballot
  cast,      \* number of ballots stored so far
  now,       \* the clock
  call       \* the local state of every handler execution

vars == <<decision, ballots, cast, now, call>>

-----------------------------------------------------------------------------
(* Data *)

Decision == [options : OptionList, allowMultiple : BOOLEAN,
             deadline : Deadline \cup {None}, status : {"open", "closed"}]

ASSUME NoneAssumption == None \notin Decision

\* choice: the indices voted for.  no tells the rows of two calls apart.
Ballot == [user : User, choice : SUBSET Nat, no : 1..MaxBallots]

\* copy: the row as it was read, with the changes of an Update applied.
\* seen: the ballots that the DELETE of a Vote has found.  shown, counted: the
\* options and the ballots that GetResults has read.  fixed: for ResultsFit,
\* whether no call could change the options any more when they were read.
Local == [at : {"idle", "replace", "commit", "hasvotes", "update", "close",
                "readback", "delete", "count", "voters"},
          user : User \cup {None}, copy : Decision \cup {None},
          choice : SUBSET Nat, seen : SUBSET Ballot,
          shown : OptionList \cup {None}, counted : SUBSET Ballot,
          fixed : BOOLEAN]

Idle == [at |-> "idle", user |-> None, copy |-> None, choice |-> {},
         seen |-> {}, shown |-> None, counted |-> {}, fixed |-> FALSE]

Calling(c, step) == call[c].at = step
Return(c)        == call' = [call EXCEPT ![c] = Idle]
Go(c, step)      == call' = [call EXCEPT ![c].at = step]

\* A panic in a handler ends the process and every call in flight.
Panic == call' = [c \in Call |-> Idle]

BallotsOf(u) == {b \in ballots : b.user = u}

-----------------------------------------------------------------------------
(* Vote *)

\* Variant without the test of the status.
validateVoteAnyStatus(d, choice) ==
  /\ d.deadline # None => d.deadline >= now
  /\ choice # {}
  /\ d.allowMultiple \/ Cardinality(choice) = 1
  /\ choice \subseteq 0..Len(d.options) - 1

\* Variant without the test that something is chosen.
validateVoteEmpty(d, choice) ==
  /\ d.status = "open"
  /\ d.deadline # None => d.deadline >= now
  /\ d.allowMultiple \/ Cardinality(choice) <= 1
  /\ choice \subseteq 0..Len(d.options) - 1

validateVote(d, choice) ==
  /\ d.status = "open"
  /\ d.deadline # None => d.deadline >= now
  /\ choice # {}
  /\ d.allowMultiple \/ Cardinality(choice) = 1
  /\ choice \subseteq 0..Len(d.options) - 1

Vote(c, u, choice) ==
  /\ Calling(c, "idle")
  /\ decision # None
  /\ validateVote(decision, choice)
  /\ call' = [call EXCEPT ![c] = [Idle EXCEPT !.at = "replace", !.user = u,
                                              !.choice = choice]]
  /\ UNCHANGED <<decision, ballots, cast, now>>

\* Variant without a transaction: the DELETE is committed at once.
DeleteOldVotesAtOnce(c) ==
  /\ Calling(c, "replace")
  /\ ballots' = ballots \ BallotsOf(call[c].user)
  /\ Go(c, "commit")
  /\ UNCHANGED <<decision, cast, now>>

\* The DELETE of the transaction sees what is committed when it starts.  It
\* may wait for the transaction of another call that deletes the same rows;
\* it does not find what that call inserts.
DeleteOldVotes(c) ==
  /\ Calling(c, "replace")
  /\ call' = [call EXCEPT ![c].at = "commit",
                          ![c].seen = BallotsOf(call[c].user)]
  /\ UNCHANGED <<decision, ballots, cast, now>>

NewBallot(c) == [user |-> call[c].user, choice |-> call[c].choice,
                 no |-> cast + 1]

\* The INSERTs and the COMMIT.  Without the decision their foreign key makes
\* the transaction fail, which Abandon covers.
InsertVotes(c) ==
  /\ Calling(c, "commit")
  /\ cast < MaxBallots
  /\ decision # None
  /\ ballots' = (ballots \ call[c].seen)
                  \cup {b \in {NewBallot(c)} : b.choice # {}}
  /\ cast' = cast + 1
  /\ Return(c)
  /\ UNCHANGED <<decision, now>>

-----------------------------------------------------------------------------
(* Update, Close and Delete, by the creator *)

Given(new, old) == IF new = None THEN old ELSE new

\* getDecisionForOwner
UpdateReads(c) ==
  /\ Calling(c, "idle")
  /\ decision # None
  /\ call' = [call EXCEPT ![c] = [Idle EXCEPT !.at = "hasvotes",
                                    !.user = Creator, !.copy = decision]]
  /\ UNCHANGED <<decision, ballots, cast, now>>

\* Variant that does not ask whether somebody has voted.
validateNoVotesExistNever == TRUE

validateNoVotesExist == ballots = {}

\* applyDecisionUpdates on the copy
Edited(d, l, m, t) == [d EXCEPT !.options = Given(l, @),
                                !.allowMultiple = Given(m, @),
                                !.deadline = Given(t, @)]

UpdateChecks(c, l, m, t) ==
  /\ Calling(c, "hasvotes")
  /\ IF validateNoVotesExist
     THEN call' = [call EXCEPT ![c].at = "update",
                               ![c].copy = Edited(@, l, m, t)]
     ELSE Return(c)
  /\ UNCHANGED <<decision, ballots, cast, now>>

\* Variant that writes all columns of the copy.
WrittenAll(d, copy) == copy

\* The UPDATE writes every column of the copy but the status.
Written(d, copy) == [copy EXCEPT !.status = d.status]

Update(c) ==
  /\ Calling(c, "update")
  /\ decision' = IF decision = None THEN None
                 ELSE Written(decision, call[c].copy)
  /\ Go(c, "readback")
  /\ UNCHANGED <<ballots, cast, now>>

CloseReads(c) ==
  /\ Calling(c, "idle")
  /\ decision # None
  /\ decision.status = "open"
  /\ call' = [call EXCEPT ![c] = [Idle EXCEPT !.at = "close",
                                    !.user = Creator]]
  /\ UNCHANGED <<decision, ballots, cast, now>>

Close(c) ==
  /\ Calling(c, "close")
  /\ decision' = IF decision = None THEN None
                 ELSE [decision EXCEPT !.status = "closed"]
  /\ Go(c, "readback")
  /\ UNCHANGED <<ballots, cast, now>>

\* Update and Close answer with the row read again; decisionToProto
\* dereferences nil when it is gone.
ReadBack(c) ==
  /\ Calling(c, "readback")
  /\ IF decision = None THEN Panic ELSE Return(c)
  /\ UNCHANGED <<decision, ballots, cast, now>>

DeleteReads(c) ==
  /\ Calling(c, "idle")
  /\ decision # None
  /\ call' = [call EXCEPT ![c] = [Idle EXCEPT !.at = "delete",
                                    !.user = Creator]]
  /\ UNCHANGED <<decision, ballots, cast, now>>

\* Variant that leaves the votes behind.
DeleteKeepVotes(c) ==
  /\ Calling(c, "delete")
  /\ decision' = None
  /\ Return(c)
  /\ UNCHANGED <<ballots, cast, now>>

Delete(c) ==
  /\ Calling(c, "delete")
  /\ decision' = None
  /\ ballots' = {}
  /\ Return(c)
  /\ UNCHANGED <<cast, now>>

-----------------------------------------------------------------------------
(* GetResults, open to every member *)

UpdateUnderWay == \E c \in Call : call[c].at = "update"

\* The first statement reads the options; GetByID before it only rejects.
ResultsReads(c) ==
  /\ Calling(c, "idle")
  /\ decision # None
  /\ call' = [call EXCEPT ![c] =
       [Idle EXCEPT !.at = "count", !.shown = decision.options,
                    !.fixed = ballots # {} /\ ~UpdateUnderWay]]
  /\ UNCHANGED <<decision, ballots, cast, now>>

\* The votes are counted by option, whatever has become of the decision.
ResultsCount(c) ==
  /\ Calling(c, "count")
  /\ call' = [call EXCEPT ![c].at = "voters", ![c].counted = ballots]
  /\ UNCHANGED <<decision, ballots, cast, now>>

\* The voters are counted, and named for every option, after the votes.
ResultsVoters(c) ==
  /\ Calling(c, "voters")
  /\ Return(c)
  /\ UNCHANGED <<decision, ballots, cast, now>>

-----------------------------------------------------------------------------

\* The context is cancelled or the next statement fails; an open transaction
\* is rolled back.
Abandon(c) ==
  /\ ~Calling(c, "idle")
  /\ Return(c)
  /\ UNCHANGED <<decision, ballots, cast, now>>

Tick ==
  /\ now < MaxTime
  /\ now' = now + 1
  /\ UNCHANGED <<decision, ballots, cast, call>>

Init ==
  /\ decision \in [options : OptionList, allowMultiple : BOOLEAN,
                   deadline : Deadline \cup {None}, status : {"open"}]
  /\ ballots = {}
  /\ cast = 0
  /\ now = 0
  /\ call = [c \in Call |-> Idle]

\* What a request may name: the indices of any list, and one too many.
Indices == UNION {0..Len(l) : l \in OptionList}

Next ==
  \/ \E c \in Call :
       \/ \E u \in User, choice \in SUBSET Indices : Vote(c, u, choice)
       \/ DeleteOldVotes(c)
       \/ InsertVotes(c)
       \/ UpdateReads(c)
       \/ \E l \in OptionList \cup {None}, m \in BOOLEAN \cup {None},
             t \in Deadline \cup {None} : UpdateChecks(c, l, m, t)
       \/ Update(c)
       \/ CloseReads(c)
       \/ Close(c)
       \/ ReadBack(c)
       \/ DeleteReads(c)
       \/ Delete(c)
       \/ ResultsReads(c)
       \/ ResultsCount(c)
       \/ ResultsVoters(c)
       \/ Abandon(c)
  \/ Tick

Spec == Init /\ [][Next]_vars

-----------------------------------------------------------------------------
(* Properties *)

\* The row, the votes and the locals of the handlers have their types, and
\* nothing is left of the votes on a deleted decision.
TypeOK ==
  /\ decision \in Decision \cup {None}
  /\ ballots \subseteq Ballot
  /\ decision = None => ballots = {}
  /\ cast \in 0..MaxBallots
  /\ now \in 0..MaxTime
  /\ call \in [Call -> Local]

\* An Update that read the decision before it was closed writes its copy
\* after that: the decision is not reopened by it, or by anything else.
NeverReopened ==
  [][decision # None /\ decision' # None /\ decision.status = "closed"
       => decision'.status = "closed"]_vars

VoteUnderWay == \E c \in Call : call[c].at \in {"replace", "commit"}

\* Once a decision is closed and the votes admitted before that are stored
\* or lost, the result stands: no call adds, changes or removes a vote.
ResultStands ==
  [][decision # None /\ decision' # None /\ decision.status = "closed"
       /\ ~VoteUnderWay => ballots' = ballots /\ ~VoteUnderWay']_vars

\* Votes are stored as indices.  When there are votes and no Update that
\* found none is still to write, nothing the indices refer to changes any
\* more: not the options, not their order, not how many may be chosen.
VotesKeepMeaning ==
  [][decision # None /\ decision' # None /\ ballots # {} /\ ~UpdateUnderWay
       => /\ decision'.options = decision.options
          /\ decision'.allowMultiple = decision.allowMultiple
          /\ ~UpdateUnderWay']_vars

\* Whoever has voted keeps a vote as long as the decision exists: replacing
\* it never loses both the old and the new.
VoterKeepsVote ==
  [][\A u \in User : BallotsOf(u) # {} /\ decision' # None
                       => BallotsOf(u)' # {}]_vars

\* GetResults puts together what its statements read at different times.  If
\* there were votes and no Update was about to write when it read the options,
\* they are still those the counted votes refer to; and whoever has a vote
\* among the counted ones is still a voter when the voters are counted.
ResultsFit ==
  \A c \in Call : decision # None =>
    /\ call[c].at \in {"count", "voters"} /\ call[c].fixed
         => decision.options = call[c].shown
    /\ call[c].at = "voters"
         => \A b \in call[c].counted : BallotsOf(b.user) # {}

=============================================================================
