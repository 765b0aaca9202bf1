------------------------------ MODULE Payments ------------------------------
(***************************************************************************)
(* Reimbursements of one colocation: PaymentService over the payments      *)
(* table.  Every handler is several statements on the database with no     *)
(* transaction and no lock around them, so each statement is a step and    *)
(* the steps of concurrent calls interleave.  A call is abandoned at any   *)
(* step when its context is cancelled or a statement fails.                *)
(*                                                                         *)
(* Amounts, notes and colocation ids play no part in the life of a payment *)
(* and are left out; the positive amount and the colocation id of a        *)
(* request are taken to be valid, since the handler answers an error       *)
(* without touching the table when they are not.                           *)
(***************************************************************************)
CONSTANTS
  User,        \* the users of the application
  PaymentId,   \* primary keys; an id is given to one row only
  Call,        \* slots for handler executions in flight
  None         \* SQL NULL and Go zero values

ASSUME NoneAssumption == None \notin User \cup PaymentId

VARIABLES
  open,        \* TRUE until the colocation is deleted
  members,     \* the users with a row in colocation_members
  payments,    \* the payments table
  used,        \* the ids gen_random_uuid() has produced
  call         \* the local state of every handler execution

vars == <<open, members, payments, used, call>>

-----------------------------------------------------------------------------
(* Data *)

Verdict == {"confirmed", "rejected"}
Status  == {"absent", "pending"} \cup Verdict

Row   == [from : User \cup {None}, to : User \cup {None},
          status : Status, confirmedAt : BOOLEAN]
NoRow == [from |-> None, to |-> None, status |-> "absent",
          confirmedAt |-> FALSE]

\* An idle slot, or a call of op by user, about to run the step named by at.
Local == [at   : {"idle", "recipient", "insert", "write", "readback"},
          op   : {"none", "create", "confirm", "reject", "cancel"},
          user : User \cup {None}, to : User \cup {None},
          pid  : PaymentId \cup {None}]
Idle  == [at |-> "idle", op |-> "none", user |-> None, to |-> None,
          pid |-> None]

Exists(p)    == payments[p].status # "absent"
Calling(r, step) == call[r].at = step

\* The call returns, whatever its answer.
Return(r) == call' = [call EXCEPT ![r] = Idle]
Go(r, step) == call' = [call EXCEPT ![r].at = step]

\* A panic ends the process: no interceptor recovers it, so every call
\* in flight is lost while the table stays.
Panic == call' = [r \in Call |-> Idle]

-----------------------------------------------------------------------------
(* The statements of PaymentRepository *)

InsertRow(p, from, to) ==
  payments' = [payments EXCEPT ![p] = [from |-> from, to |-> to,
                                       status |-> "pending",
                                       confirmedAt |-> FALSE]]

\* UPDATE ... WHERE id: the status the row has now is not looked at.
UpdateStatus(p, v) ==
  payments' = [payments EXCEPT
                 ![p].status = v,
                 ![p].confirmedAt = (v = "confirmed") \/ @]

\* Variant, a DELETE ... WHERE id.
DeleteMatchesAnyStatus(p) == Exists(p)

\* Variant, a DELETE ... WHERE id AND status <> 'confirmed'.
DeleteMatchesUnconfirmed(p) == payments[p].status \in {"pending", "rejected"}

\* DELETE ... WHERE id AND status = 'pending'
DeleteMatches(p) == payments[p].status = "pending"

-----------------------------------------------------------------------------
(* Create *)

\* ensureMembership(sender) succeeds, and the sender is not the recipient.
BeginCreate(r, u, v) ==
  /\ Calling(r, "idle")
  /\ u \in members
  /\ u # v
  /\ call' = [call EXCEPT ![r] = [at |-> "recipient", op |-> "create",
                                  user |-> u, to |-> v, pid |-> None]]
  /\ UNCHANGED <<open, members, payments, used>>

verifyRecipientMembership(r) ==
  /\ Calling(r, "recipient")
  /\ IF call[r].to \in members THEN Go(r, "insert") ELSE Return(r)
  /\ UNCHANGED <<open, members, payments, used>>

\* The foreign key on colocations lets the row in while the colocation
\* exists; neither user need still be a member.
Create(r) ==
  /\ Calling(r, "insert")
  /\ \/ /\ open
        /\ \E p \in PaymentId \ used :
             /\ InsertRow(p, call[r].user, call[r].to)
             /\ used' = used \cup {p}
             /\ call' = [call EXCEPT ![r] = [@ EXCEPT !.at = "readback",
                                                     !.pid = p]]
     \/ /\ ~open
        /\ Return(r)
        /\ UNCHANGED <<payments, used>>
  /\ UNCHANGED <<open, members>>

-----------------------------------------------------------------------------
(* Confirm, Reject, Cancel *)

Owner(op, p) == IF op = "cancel" THEN payments[p].from ELSE payments[p].to

\* Variant without the test of the status.
MayActAnyStatus(u, op, p) ==
  /\ Exists(p)
  /\ u = Owner(op, p)

\* The row is read, and its existence, owner and status are tested on the
\* copy: what the call does next rests on that copy.
MayAct(u, op, p) ==
  /\ Exists(p)
  /\ u = Owner(op, p)
  /\ payments[p].status = "pending"

getPaymentForAction(r, u, op, p) ==
  /\ Calling(r, "idle")
  /\ MayAct(u, op, p)
  /\ call' = [call EXCEPT ![r] = [at |-> "write", op |-> op, user |-> u,
                                  to |-> None, pid |-> p]]
  /\ UNCHANGED <<open, members, payments, used>>

\* Variant that stores the verb of the request as the status.
DecisionVerb(op) == op

Decision(op) == IF op = "confirm" THEN "confirmed" ELSE "rejected"

\* Variant in which the UPDATE is an upsert.
ConfirmOrRejectUpsert(r) ==
  /\ Calling(r, "write")
  /\ call[r].op \in {"confirm", "reject"}
  /\ UpdateStatus(call[r].pid, Decision(call[r].op))
  /\ Go(r, "readback")
  /\ UNCHANGED <<open, members, used>>

ConfirmOrReject(r) ==
  /\ Calling(r, "write")
  /\ call[r].op \in {"confirm", "reject"}
  /\ IF Exists(call[r].pid)
     THEN /\ UpdateStatus(call[r].pid, Decision(call[r].op))
          /\ Go(r, "readback")
     ELSE /\ Return(r)
          /\ UNCHANGED payments
  /\ UNCHANGED <<open, members, used>>

Cancel(r) ==
  /\ Calling(r, "write")
  /\ call[r].op = "cancel"
  /\ IF DeleteMatches(call[r].pid)
     THEN payments' = [payments EXCEPT ![call[r].pid] = NoRow]
     ELSE UNCHANGED payments
  /\ Return(r)
  /\ UNCHANGED <<open, members, used>>

\* Create, Confirm and Reject answer with the row read again.  A row that
\* is gone comes back as a nil pointer, which paymentToProto dereferences.
ReadBack(r) ==
  /\ Calling(r, "readback")
  /\ IF Exists(call[r].pid) THEN Return(r) ELSE Panic
  /\ UNCHANGED <<open, members, payments, used>>

-----------------------------------------------------------------------------
(* The rest of the application, as far as it touches these tables *)

\* The context of the call is cancelled or its next statement fails.
Abandon(r) ==
  /\ ~Calling(r, "idle")
  /\ Return(r)
  /\ UNCHANGED <<open, members, payments, used>>

\* The process stops and starts again.
Restart ==
  /\ Panic
  /\ UNCHANGED <<open, members, payments, used>>

AddMember(u) ==
  /\ open
  /\ members' = members \cup {u}
  /\ UNCHANGED <<open, payments, used, call>>

RemoveMember(u) ==
  /\ members' = members \ {u}
  /\ UNCHANGED <<open, payments, used, call>>

\* ON DELETE CASCADE empties both tables.
DeleteColocation ==
  /\ open
  /\ open' = FALSE
  /\ members' = {}
  /\ payments' = [p \in PaymentId |-> NoRow]
  /\ UNCHANGED <<used, call>>

-----------------------------------------------------------------------------

Init ==
  /\ open = TRUE
  /\ members \in SUBSET User
  /\ payments = [p \in PaymentId |-> NoRow]
  /\ used = {}
  /\ call = [r \in Call |-> Idle]

Next ==
  \/ \E r \in Call :
       \/ \E u, v \in User : BeginCreate(r, u, v)
       \/ verifyRecipientMembership(r)
       \/ Create(r)
       \/ \E u \in User, op \in {"confirm", "reject", "cancel"},
             p \in PaymentId : getPaymentForAction(r, u, op, p)
       \/ ConfirmOrReject(r)
       \/ Cancel(r)
       \/ ReadBack(r)
       \/ Abandon(r)
  \/ Restart
  \/ \E u \in User : AddMember(u) \/ RemoveMember(u)
  \/ DeleteColocation

Spec == Init /\ [][Next]_vars

-----------------------------------------------------------------------------
(* Properties *)

\* Every variable has the type of the table, set or struct it stands for.
TypeOK ==
  /\ open     \in BOOLEAN
  /\ members  \in SUBSET User
  /\ payments \in [PaymentId -> Row]
  /\ used     \in SUBSET PaymentId
  /\ call     \in [Call -> Local]

\* A confirmed reimbursement counts in the balances, so no interleaving of a
\* Cancel with a Confirm may remove it: the row outlives everything but its
\* colocation.  It rests on the status test inside the DELETE, the test in
\* the Cancel handler being stale by then.
ConfirmedNeverCancelled ==
  [][\A p \in PaymentId :
       payments[p].status = "confirmed" /\ open'
         => payments'[p].status # "absent"]_vars

\* The payment is decided and no call that read it as pending is still to
\* write.
Settled(p) ==
  /\ payments[p].status \in Verdict
  /\ \A r \in Call : call[r].at = "write" => call[r].pid # p

\* Once a payment is decided and the calls that raced for it are over, no
\* later sequence of calls, by anyone, changes its row.
SettledStays ==
  [][\A p \in PaymentId :
       Settled(p) /\ open' => /\ payments'[p] = payments[p]
                              /\ Settled(p)']_vars

\* Confirm and Reject read the row again to answer; between their write and
\* that read nobody can remove it, so (unless the colocation is deleted) the
\* answer is never built from a nil payment.  Create has no such guarantee:
\* its fresh row may be cancelled before the read.
DecisionReadsBack ==
  \A r \in Call :
    call[r].at = "readback" /\ call[r].op # "create" /\ open
      => payments[call[r].pid].status \in Verdict

\* What the error "ce paiement n'est pas en attente" says of Confirm and
\* Reject: a payment that was already decided is not decided differently.
DecisionFinal ==
  [][\A p \in PaymentId :
       payments[p].status \in Verdict /\ open'
         => payments'[p].status = payments[p].status]_vars

\* The life of every payment follows PaymentLifecycle: the tickets of p are
\* the calls that read it as pending and have not written yet.
lifeStatus ==
  [p \in PaymentId |-> IF p \notin used THEN "unborn"
                       ELSE IF Exists(p) THEN payments[p].status ELSE "gone"]

lifeAdmitted ==
  [p \in PaymentId |->
     {r \in Call : call[r].at = "write" /\ call[r].pid = p}]

Life == INSTANCE PaymentLifecycle WITH
  Ticket <- Call, status <- lifeStatus, admitted <- lifeAdmitted

\* Payments implements PaymentLifecycle.
ImplementsLifecycle == Life!LifeSpec

=============================================================================
