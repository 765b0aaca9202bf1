-------------------------- MODULE PaymentLifecycle --------------------------
(***************************************************************************)
(* What the payment service promises about one reimbursement, free of      *)
(* users, membership and handlers.  A payment is declared once, is pending *)
(* until a decision, and after its removal never comes back.  A request    *)
(* that found the payment pending holds a ticket; only a ticket can decide *)
(* or withdraw the payment.  Tickets are the weak spot the code leaves     *)
(* open: the status is tested when the ticket is given, not when it is     *)
(* used, so a late ticket may decide a payment a second time.  A           *)
(* withdrawal, in contrast, tests the status again.                        *)
(***************************************************************************)
CONSTANTS PaymentId, Ticket

VARIABLES
  status,     \* status[p]: where payment p is in its life
  admitted    \* admitted[p]: the tickets given out while p was pending

lifeVars == <<status, admitted>>

Verdicts == {"confirmed", "rejected"}
Stage    == {"unborn", "pending", "gone"} \cup Verdicts

LifeTypeOK ==
  /\ status   \in [PaymentId -> Stage]
  /\ admitted \in [PaymentId -> SUBSET Ticket]

LifeInit ==
  /\ status   = [p \in PaymentId |-> "unborn"]
  /\ admitted = [p \in PaymentId |-> {}]

Declare(p) ==
  /\ status[p] = "unborn"
  /\ status' = [status EXCEPT ![p] = "pending"]
  /\ UNCHANGED admitted

Admit(p, t) ==
  /\ status[p] = "pending"
  /\ \A q \in PaymentId : t \notin admitted[q]
  /\ admitted' = [admitted EXCEPT ![p] = @ \cup {t}]
  /\ UNCHANGED status

Decide(p, t, v) ==
  /\ t \in admitted[p]
  /\ status[p] \in {"pending"} \cup Verdicts
  /\ status'   = [status EXCEPT ![p] = v]
  /\ admitted' = [admitted EXCEPT ![p] = @ \ {t}]

Withdraw(p, t) ==
  /\ t \in admitted[p]
  /\ status[p] = "pending"
  /\ status'   = [status EXCEPT ![p] = "gone"]
  /\ admitted' = [admitted EXCEPT ![p] = @ \ {t}]

\* Requests that fail, lose their race, or die with the server.
Expire(T) ==
  /\ admitted' = [p \in PaymentId |-> admitted[p] \ T]
  /\ UNCHANGED status

\* The whole table goes with its colocation.
Drop ==
  /\ status' = [p \in PaymentId |->
                  IF status[p] = "unborn" THEN "unborn" ELSE "gone"]
  /\ UNCHANGED admitted

LifeNext ==
  \/ \E p \in PaymentId :
       \/ Declare(p)
       \/ \E t \in Ticket :
            \/ Admit(p, t)
            \/ Withdraw(p, t)
            \/ \E v \in Verdicts : Decide(p, t, v)
  \/ \E T \in SUBSET Ticket : Expire(T)
  \/ Drop

LifeSpec == LifeInit /\ [][LifeNext]_lifeVars

=============================================================================
