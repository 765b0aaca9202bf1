------------------------------ MODULE Recurring ------------------------------
(***************************************************************************)
(* A recurring expense and the expenses booked from it: the recurring half *)
(* of ExpenseService over the table recurring_expenses.  A run of          *)
(* ProcessDueRecurringExpenses takes the templates that are due, books an  *)
(* expense for the due date of each and then stores the next due date: two *)
(* transactions with nothing between them.  The repository has no          *)
(* scheduler, so runs start at any time and may overlap.                   *)
(*                                                                         *)
(* Dates are numbers of days from the first of a month.  No migration      *)
(* creates the table.  Amounts, titles and shares play no part.            *)
(***************************************************************************)
EXTENDS Integers, Sequences, FiniteSets, Bags, Functions

CONSTANTS
  MonthLength,   \* the lengths of the months from day 1 on, a sequence
  StartDate,     \* the start dates clients ask for
  EndDate,       \* the end dates clients ask for
  Recurrence,    \* the recurrences clients ask for
  CheckDay,      \* the days on which the clock is looked at
  Horizon,       \* bound on due dates: later ones are not booked
  Run,           \* slots for runs in flight
  MaxRuns,       \* bound on the runs that book something
  Editor,        \* slots for UpdateRecurring and DeleteRecurring
  NoTemplate     \* no row, SQL NULL, or an absent field

ASSUME CalendarAssumption ==
  /\ MonthLength \in Seq(28..31)
  /\ Recurrence \subseteq {"daily", "weekly", "monthly", "yearly"}
  /\ StartDate \subseteq 1..Horizon
  /\ EndDate \subseteq Nat
  /\ CheckDay \subseteq Nat /\ CheckDay # {}
ASSUME RunsAssumption == MaxRuns \in Nat /\ IsFiniteSet(Run)

VARIABLES
  template,  \* the row of the recurring expense
  booked,    \* the bag of the dates of the expenses booked
  today,     \* the date of time.Now()
  run,       \* the local state of every run
  editor,    \* the local state of every call that edits the template
  started,   \* number of runs that found something to book
  dates,     \* every due date the template has had
  lost,      \* number of runs that booked and did not store the next date
  crossed    \* number of runs that were in flight with an earlier one

recurringVars ==
  <<template, booked, today, run, editor, started, dates, lost, crossed>>

-----------------------------------------------------------------------------
(* The calendar of package time *)

\* the days before the first of each month
DaysBefore == [m \in 1..Len(MonthLength) + 1 |->
                 SumFunctionOnSet(MonthLength, 1..m - 1)]

\* The months given go on for a year after the last date that is booked.
ASSUME HorizonAssumption ==
  /\ Horizon \in Nat
  /\ Len(MonthLength) > 11
  /\ Horizon <= DaysBefore[Len(MonthLength) - 10]

MonthOf(d) == CHOOSE m \in DOMAIN MonthLength :
                DaysBefore[m] < d /\ d <= DaysBefore[m + 1]

DayOf(d) == d - DaysBefore[MonthOf(d)]

\* AddDate(0, n, 0) keeps the day and lets it run over into the month after
\* when the month is too short for it.
AddMonths(d, n) == DaysBefore[MonthOf(d) + n] + DayOf(d)

calculateNextDueDate(d, recurrence) ==
  CASE recurrence = "daily"   -> d + 1
    [] recurrence = "weekly"  -> d + 7
    [] recurrence = "monthly" -> AddMonths(d, 1)
    [] recurrence = "yearly"  -> AddMonths(d, 12)

-----------------------------------------------------------------------------
(* Data *)

Template == [due : Nat, every : Recurrence, end : EndDate \cup {NoTemplate},
             active : BOOLEAN]

ASSUME NoTemplateAssumption == NoTemplate \notin Template \cup EndDate

RunLocal == [at : {"idle", "book", "advance"}, copy : Template \cup {NoTemplate}]

EditorLocal == [at : {"idle", "update", "delete"},
                copy : Template \cup {NoTemplate}]

AtRest == [at |-> "idle", copy |-> NoTemplate]

-----------------------------------------------------------------------------
(* CreateRecurring, UpdateRecurring and DeleteRecurring *)

\* The column default makes it active.
CreateRecurring(start, every, end) ==
  /\ dates = {}
  /\ template' = [due |-> start, every |-> every, end |-> end, active |-> TRUE]
  /\ dates' = {start}
  /\ UNCHANGED <<booked, today, run, editor, started, lost, crossed>>

\* GetRecurringByID, and the copy that applyRecurringUpdates makes of it: an
\* end date can be set but not taken away.
UpdateRecurringReads(e, every, end, active) ==
  /\ editor[e].at = "idle"
  /\ template # NoTemplate
  /\ editor' = [editor EXCEPT ![e] =
                  [at |-> "update",
                   copy |-> [template EXCEPT !.every = every, !.active = active,
                               !.end = IF end = NoTemplate THEN @ ELSE end]]]
  /\ UNCHANGED <<template, booked, today, run, started, dates, lost, crossed>>

\* Variant that writes next_due_date with the other columns.
UpdateRecurringDue(copy) == copy

\* The UPDATE writes every column of the copy except next_due_date.
UpdateRecurring(copy) == [copy EXCEPT !.due = template.due]

UpdateRecurringWrites(e) ==
  /\ editor[e].at = "update"
  /\ template' = IF template = NoTemplate THEN NoTemplate
                 ELSE UpdateRecurring(editor[e].copy)
  /\ editor' = [editor EXCEPT ![e] = AtRest]
  /\ UNCHANGED <<booked, today, run, started, dates, lost, crossed>>

DeleteRecurringReads(e) ==
  /\ editor[e].at = "idle"
  /\ template # NoTemplate
  /\ editor' = [editor EXCEPT ![e].at = "delete"]
  /\ UNCHANGED <<template, booked, today, run, started, dates, lost, crossed>>

DeleteRecurringWrites(e) ==
  /\ editor[e].at = "delete"
  /\ template' = NoTemplate
  /\ editor' = [editor EXCEPT ![e] = AtRest]
  /\ UNCHANGED <<booked, today, run, started, dates, lost, crossed>>

EditorAbandons(e) ==
  /\ editor[e].at # "idle"
  /\ editor' = [editor EXCEPT ![e] = AtRest]
  /\ UNCHANGED <<template, booked, today, run, started, dates, lost, crossed>>

-----------------------------------------------------------------------------
(* ProcessDueRecurringExpenses *)

\* the WHERE of GetActiveRecurringDue
Due ==
  /\ template # NoTemplate
  /\ template.active
  /\ template.due <= today
  /\ template.end # NoTemplate => template.end >= today

\* A run that finds the template not due has nothing to do.
StartRun(r) ==
  /\ run[r].at = "idle"
  /\ started < MaxRuns
  /\ Due
  /\ template.due <= Horizon
  /\ run' = [run EXCEPT ![r] = [at |-> "book", copy |-> template]]
  /\ started' = started + 1
  /\ crossed' = IF \A q \in Run : run[q].at = "idle" THEN crossed
                ELSE crossed + 1
  /\ UNCHANGED <<template, booked, today, editor, dates, lost>>

\* CreateFromRecurring books for the due date of the copy, whatever has become
\* of the template.
CreateFromRecurring(r) ==
  /\ run[r].at = "book"
  /\ booked' = booked (+) SetToBag({run[r].copy.due})
  /\ run' = [run EXCEPT ![r].at = "advance"]
  /\ UNCHANGED <<template, today, editor, started, dates, lost, crossed>>

NextDue(r) == calculateNextDueDate(run[r].copy.due, run[r].copy.every)

\* UpdateNextDueDate stores the date computed from the copy.
UpdateNextDueDate(r) ==
  /\ run[r].at = "advance"
  /\ IF template = NoTemplate THEN UNCHANGED <<template, dates>>
     ELSE /\ template' = [template EXCEPT !.due = NextDue(r)]
          /\ dates' = dates \cup {NextDue(r)}
  /\ run' = [run EXCEPT ![r] = AtRest]
  /\ UNCHANGED <<booked, today, editor, started, lost, crossed>>

\* Variant in which a failed booking does not keep the run from going on.
BookingFailsAndGoesOn(r) ==
  /\ run[r].at = "book"
  /\ run' = [run EXCEPT ![r].at = "advance"]
  /\ UNCHANGED <<template, booked, today, editor, started, dates, lost,
                 crossed>>

\* An error of either statement ends the work on this template (continue), and
\* so does the end of the process.
BookingFails(r) ==
  /\ run[r].at = "book"
  /\ run' = [run EXCEPT ![r] = AtRest]
  /\ UNCHANGED <<template, booked, today, editor, started, dates, lost,
                 crossed>>

AdvanceFails(r) ==
  /\ run[r].at = "advance"
  /\ run' = [run EXCEPT ![r] = AtRest]
  /\ lost' = lost + 1
  /\ UNCHANGED <<template, booked, today, editor, started, dates, crossed>>

DaysPass(d) ==
  /\ d > today
  /\ today' = d
  /\ UNCHANGED <<template, booked, run, editor, started, dates, lost, crossed>>

-----------------------------------------------------------------------------
RecurringInit ==
  /\ template = NoTemplate
  /\ booked = EmptyBag
  /\ today \in CheckDay /\ \A d \in CheckDay : today <= d
  /\ run = [r \in Run |-> AtRest]
  /\ editor = [e \in Editor |-> AtRest]
  /\ started = 0
  /\ dates = {}
  /\ lost = 0
  /\ crossed = 0

EditStep(e) ==
  \/ \E every \in Recurrence, end \in EndDate \cup {NoTemplate},
       active \in BOOLEAN : UpdateRecurringReads(e, every, end, active)
  \/ UpdateRecurringWrites(e)
  \/ DeleteRecurringReads(e)
  \/ DeleteRecurringWrites(e)
  \/ EditorAbandons(e)

RunStep(r) ==
  \/ StartRun(r)
  \/ CreateFromRecurring(r)
  \/ UpdateNextDueDate(r)
  \/ BookingFails(r)
  \/ AdvanceFails(r)

RecurringNext ==
  \/ \E start \in StartDate, every \in Recurrence,
       end \in EndDate \cup {NoTemplate} : CreateRecurring(start, every, end)
  \/ \E e \in Editor : EditStep(e)
  \/ \E r \in Run : RunStep(r)
  \/ \E d \in CheckDay : DaysPass(d)

RecurringSpec == RecurringInit /\ [][RecurringNext]_recurringVars

-----------------------------------------------------------------------------
(* Properties *)

RecurringTypeOK ==
  /\ template \in Template \cup {NoTemplate}
  /\ IsABag(booked)
  /\ BagToSet(booked) \subseteq 1..Horizon
  /\ SumFunction(booked) <= MaxRuns
  /\ today \in CheckDay
  /\ run \in [Run -> RunLocal]
  /\ editor \in [Editor -> EditorLocal]
  /\ started \in 0..MaxRuns
  /\ dates \subseteq Nat
  /\ lost \in 0..MaxRuns
  /\ crossed \in 0..MaxRuns

\* While runs do not overlap, a due date is only left behind with an expense
\* booked for it: whatever fails or is edited in between, none is skipped.
NoneSkipped ==
  (template # NoTemplate /\ crossed = 0) =>
    \A d \in dates \ {template.due} : BagIn(d, booked)

\* the expenses booked for one due date
TimesBooked(d) == IF BagIn(d, booked) THEN booked[d] ELSE 0

\* A date is booked once more than it should only for a run that booked and
\* did not get to store the next date, or that overlapped another run.
BookedOnce ==
  \A d \in BagToSet(booked) : TimesBooked(d) <= 1 + lost + crossed

=============================================================================
