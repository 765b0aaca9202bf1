--------------------------- MODULE PaymentsProofs ---------------------------
(***************************************************************************)
(* Proofs about Payments, for any number of users, payments and concurrent *)
(* calls.                                                                  *)
(*                                                                         *)
(* Every result follows from one inductive invariant, IInv.  What the      *)
(* stated properties leave out is where ids come from: a row has an id     *)
(* that was handed out (RowsUsed), a call that is past its first statement *)
(* refers to such an id (PidsUsed), and the step a call is about to run    *)
(* fits its operation (StepFitsOp).  A fresh id can then be no other       *)
(* call's, which is what keeps Create from touching a settled payment.     *)
(***************************************************************************)
EXTENDS Payments, TLAPS

-----------------------------------------------------------------------------
(* The inductive invariant *)

RowsUsed == \A p \in PaymentId : Exists(p) => p \in used

PidsUsed ==
  \A r \in Call : call[r].at \in {"write", "readback"} => call[r].pid \in used

StepFitsOp ==
  \A r \in Call :
    /\ call[r].at \in {"recipient", "insert"} => call[r].op = "create"
    /\ call[r].at = "write" => call[r].op \in {"confirm", "reject", "cancel"}

IInv == TypeOK /\ RowsUsed /\ PidsUsed /\ StepFitsOp /\ DecisionReadsBack

\* The initial state satisfies the inductive invariant.
LEMMA InitIInv == Init => IInv
BY NoneAssumption
   DEF Init, IInv, TypeOK, RowsUsed, PidsUsed, StepFitsOp, DecisionReadsBack,
       Exists, NoRow, Row, Status, Verdict, Idle, Local

\* The constant values of calls and rows have the types of calls and rows.
LEMMA IdleIsLocal == Idle \in Local
BY DEF Idle, Local

LEMMA NoRowIsRow == NoRow \in Row
BY DEF NoRow, Row, Status, Verdict

-----------------------------------------------------------------------------
(* Every step keeps the types. *)

LEMMA TypeStep == ASSUME TypeOK, [Next]_vars PROVE TypeOK'
<1> USE DEF TypeOK
<1>1. ASSUME NEW r \in Call, NEW u \in User, NEW v \in User,
             BeginCreate(r, u, v)
      PROVE  TypeOK'
  BY <1>1 DEF BeginCreate, Calling, Local
<1>2. ASSUME NEW r \in Call, verifyRecipientMembership(r) PROVE TypeOK'
  BY <1>2, IdleIsLocal DEF verifyRecipientMembership, Go, Return, Local
<1>3. ASSUME NEW r \in Call, Create(r) PROVE TypeOK'
  <2>1. CASE open
    <3>1. PICK p \in PaymentId \ used :
            /\ InsertRow(p, call[r].user, call[r].to)
            /\ used' = used \cup {p}
            /\ call' = [call EXCEPT ![r] = [@ EXCEPT !.at = "readback",
                                                    !.pid = p]]
      BY <1>3, <2>1 DEF Create
    <3>2. call[r] \in Local
      OBVIOUS
    <3>3. payments' \in [PaymentId -> Row]
      BY <3>1, <3>2 DEF InsertRow, Row, Local, Status
    <3>4. call' \in [Call -> Local]
      BY <3>1, <3>2 DEF Local
    <3>. QED  BY <1>3, <3>1, <3>3, <3>4 DEF Create
  <2>2. CASE ~open
    BY <1>3, <2>2, IdleIsLocal DEF Create, Return
  <2>. QED  BY <2>1, <2>2
<1>4. ASSUME NEW r \in Call, NEW u \in User,
             NEW op \in {"confirm", "reject", "cancel"}, NEW p \in PaymentId,
             getPaymentForAction(r, u, op, p)
      PROVE  TypeOK'
  BY <1>4 DEF getPaymentForAction, Local
<1>5. ASSUME NEW r \in Call, ConfirmOrReject(r) PROVE TypeOK'
  <2>1. call' \in [Call -> Local]
    BY <1>5, IdleIsLocal DEF ConfirmOrReject, Go, Return, Local
  <2>2. payments' \in [PaymentId -> Row]
    BY <1>5 DEF ConfirmOrReject, UpdateStatus, Decision, Row, Status, Verdict
  <2>. QED  BY <1>5, <2>1, <2>2 DEF ConfirmOrReject
<1>6. ASSUME NEW r \in Call, Cancel(r) PROVE TypeOK'
  BY <1>6, IdleIsLocal, NoRowIsRow DEF Cancel, Return
<1>7. ASSUME NEW r \in Call, ReadBack(r) PROVE TypeOK'
  BY <1>7, IdleIsLocal DEF ReadBack, Return, Panic
<1>8. ASSUME NEW r \in Call, Abandon(r) PROVE TypeOK'
  BY <1>8, IdleIsLocal DEF Abandon, Return
<1>9. CASE Restart
  BY <1>9, IdleIsLocal DEF Restart, Panic
<1>10. ASSUME NEW u \in User, AddMember(u) \/ RemoveMember(u) PROVE TypeOK'
  BY <1>10 DEF AddMember, RemoveMember
<1>11. CASE DeleteColocation
  BY <1>11, NoRowIsRow DEF DeleteColocation
<1>12. CASE UNCHANGED vars
  BY <1>12 DEF vars
<1>. QED
  BY <1>1, <1>2, <1>3, <1>4, <1>5, <1>6, <1>7, <1>8, <1>9, <1>10, <1>11,
     <1>12 DEF Next

\* In every reachable state the variables have their types (TypeOK).
THEOREM TypeCorrect == Spec => []TypeOK
<1>1. Init => TypeOK
  BY InitIInv DEF IInv
<1>2. TypeOK /\ [Next]_vars => TypeOK'
  BY TypeStep
<1>. QED  BY <1>1, <1>2, PTL DEF Spec

-----------------------------------------------------------------------------
(* Every step keeps the inductive invariant. *)

LEMMA IInvStep == ASSUME IInv, [Next]_vars PROVE IInv'
<1> USE DEF IInv
<1>0. TypeOK'
  BY TypeStep
<1>t. /\ payments \in [PaymentId -> Row]
      /\ call \in [Call -> Local]
      /\ call' \in [Call -> Local]
      /\ payments' \in [PaymentId -> Row]
      /\ used \in SUBSET PaymentId
  BY <1>0 DEF TypeOK
<1> DEFINE Inv == RowsUsed /\ PidsUsed /\ StepFitsOp /\ DecisionReadsBack
<1>1. ASSUME NEW r \in Call, NEW u \in User, NEW v \in User,
             BeginCreate(r, u, v)
      PROVE  Inv'
  BY <1>1, <1>t DEF BeginCreate, RowsUsed, PidsUsed, StepFitsOp,
                    DecisionReadsBack, Exists
<1>2. ASSUME NEW r \in Call, verifyRecipientMembership(r) PROVE Inv'
  <2>1. \A q \in Call :
          q # r => call'[q] = call[q]
    BY <1>2, <1>t DEF verifyRecipientMembership, Go, Return
  <2>2. call'[r].at \in {"insert", "idle"} /\ call[r].op = "create"
    BY <1>2, <1>t DEF verifyRecipientMembership, Go, Return, Idle, Calling,
                      Local, StepFitsOp
  <2>3. call'[r].at = "insert" => call'[r].op = "create"
    BY <1>2, <1>t, <2>2 DEF verifyRecipientMembership, Go, Return, Idle, Local
  <2>. QED
    BY <1>2, <2>1, <2>2, <2>3
       DEF verifyRecipientMembership, RowsUsed, PidsUsed, StepFitsOp,
           DecisionReadsBack, Exists
<1>3. ASSUME NEW r \in Call, Create(r) PROVE Inv'
  <2>1. CASE open
    <3>1. PICK p \in PaymentId \ used :
            /\ InsertRow(p, call[r].user, call[r].to)
            /\ used' = used \cup {p}
            /\ call' = [call EXCEPT ![r] = [@ EXCEPT !.at = "readback",
                                                    !.pid = p]]
      BY <1>3, <2>1 DEF Create
    <3>2. /\ \A q \in Call : q # r => call'[q] = call[q]
          /\ call'[r].at = "readback"
          /\ call'[r].pid = p
          /\ call'[r].op = "create"
      <4>1. call[r] \in Local /\ call[r].op = "create"
        BY <1>3, <1>t DEF Create, Calling, StepFitsOp
      <4>2. call'[r] = [call[r] EXCEPT !.at = "readback", !.pid = p]
        BY <1>t, <3>1
      <4>3. \A q \in Call : q # r => call'[q] = call[q]
        BY <1>t, <3>1
      <4>. QED  BY <4>1, <4>2, <4>3 DEF Local
    <3>3. \A q \in PaymentId : q # p => payments'[q] = payments[q]
      BY <1>t, <3>1 DEF InsertRow
    <3>4. RowsUsed'
      BY <3>1, <3>3 DEF RowsUsed, Exists
    <3>5. PidsUsed'
      <4> SUFFICES ASSUME NEW q \in Call,
                          call'[q].at \in {"write", "readback"}
                   PROVE  call'[q].pid \in used'
        BY DEF PidsUsed
      <4>1. CASE q = r
        BY <3>1, <3>2, <4>1
      <4>2. CASE q # r
        BY <3>1, <3>2, <4>2 DEF PidsUsed
      <4>. QED  BY <4>1, <4>2
    <3>6. StepFitsOp'
      BY <3>2 DEF StepFitsOp
    <3>7. DecisionReadsBack'
      <4> SUFFICES ASSUME NEW q \in Call, call'[q].at = "readback",
                          call'[q].op # "create", open'
                   PROVE  payments'[call'[q].pid].status \in Verdict
        BY DEF DecisionReadsBack
      <4>1. call'[q] = call[q]
        BY <3>2
      <4>2. call[q].pid \in used /\ call[q].pid \in PaymentId
        BY <4>1 DEF PidsUsed, TypeOK
      <4>. QED
        BY <1>3, <2>1, <3>3, <4>1, <4>2 DEF Create, DecisionReadsBack
    <3>. QED  BY <3>4, <3>5, <3>6, <3>7
  <2>2. CASE ~open
    <3>1. /\ \A q \in Call : q # r => call'[q] = call[q]
          /\ call'[r] = Idle
          /\ UNCHANGED <<open, payments, used>>
      BY <1>3, <1>t, <2>2 DEF Create, Return
    <3>. QED
      BY <3>1 DEF RowsUsed, PidsUsed, StepFitsOp, DecisionReadsBack, Exists,
                  Idle
  <2>. QED  BY <2>1, <2>2
<1>4. ASSUME NEW r \in Call, NEW u \in User,
             NEW op \in {"confirm", "reject", "cancel"}, NEW p \in PaymentId,
             getPaymentForAction(r, u, op, p)
      PROVE  Inv'
  <2>1. /\ \A q \in Call : q # r => call'[q] = call[q]
        /\ call'[r].at = "write"
        /\ call'[r].pid = p
        /\ call'[r].op = op
    BY <1>4, <1>t DEF getPaymentForAction
  <2>. QED
    BY <1>4, <2>1
       DEF getPaymentForAction, MayAct, RowsUsed, PidsUsed, StepFitsOp,
           DecisionReadsBack, Exists
<1>5. ASSUME NEW r \in Call, ConfirmOrReject(r) PROVE Inv'
  <2> DEFINE p == call[r].pid
  <2>1. \A q \in Call : q # r => call'[q] = call[q]
    BY <1>5, <1>t DEF ConfirmOrReject, Go, Return
  <2>2. p \in used /\ p \in PaymentId
    BY <1>5 DEF ConfirmOrReject, Calling, PidsUsed, TypeOK
  <2>3. CASE Exists(p)
    <3>1. call'[r].at = "readback" /\ call'[r].pid = p
      BY <1>5, <1>t, <2>3 DEF ConfirmOrReject, Go, Local
    <3>2. /\ \A q \in PaymentId : q # p => payments'[q] = payments[q]
          /\ payments'[p].status \in Verdict
      BY <1>5, <1>t, <2>2, <2>3
         DEF ConfirmOrReject, UpdateStatus, Decision, Verdict, Row
    <3>3. RowsUsed' /\ PidsUsed' /\ StepFitsOp'
      BY <1>5, <2>1, <2>2, <3>1, <3>2
         DEF ConfirmOrReject, RowsUsed, PidsUsed, StepFitsOp, Exists
    <3>4. DecisionReadsBack'
      BY <1>5, <1>t, <2>1, <3>1, <3>2
         DEF ConfirmOrReject, PidsUsed, DecisionReadsBack
    <3>. QED  BY <3>3, <3>4
  <2>4. CASE ~Exists(p)
    <3>1. call'[r] = Idle /\ UNCHANGED <<open, payments, used>>
      BY <1>5, <1>t, <2>4 DEF ConfirmOrReject, Return
    <3>. QED
      BY <2>1, <3>1 DEF RowsUsed, PidsUsed, StepFitsOp, DecisionReadsBack,
                        Exists, Idle
  <2>. QED  BY <2>3, <2>4
<1>6. ASSUME NEW r \in Call, Cancel(r) PROVE Inv'
  <2> DEFINE p == call[r].pid
  <2>1. /\ \A q \in Call : q # r => call'[q] = call[q]
        /\ call'[r] = Idle
        /\ UNCHANGED <<open, used>>
    BY <1>6, <1>t DEF Cancel, Return
  <2>2. \A q \in PaymentId :
          payments'[q] = payments[q] \/ payments[q].status = "pending"
    BY <1>6, <1>t DEF Cancel, DeleteMatches
  <2>3. \A q \in PaymentId : payments'[q] = payments[q] \/ payments'[q] = NoRow
    BY <1>6, <1>t DEF Cancel
  <2>4. RowsUsed' /\ PidsUsed' /\ StepFitsOp'
    BY <2>1, <2>3 DEF RowsUsed, PidsUsed, StepFitsOp, Exists, NoRow, Idle
  <2>5. DecisionReadsBack'
    <3> SUFFICES ASSUME NEW q \in Call, call'[q].at = "readback",
                        call'[q].op # "create", open'
                 PROVE  payments'[call'[q].pid].status \in Verdict
      BY DEF DecisionReadsBack
    <3>1. q # r /\ call'[q] = call[q]
      BY <2>1 DEF Idle
    <3>2. call[q].pid \in PaymentId
      BY <3>1 DEF PidsUsed, TypeOK
    <3>. QED
      BY <2>1, <2>2, <3>1, <3>2 DEF DecisionReadsBack, Verdict
  <2>. QED  BY <2>4, <2>5
<1>7. ASSUME UNCHANGED <<open, payments, used>>,
             \A q \in Call : call'[q] = call[q] \/ call'[q] = Idle
      PROVE  Inv'
  BY <1>7 DEF RowsUsed, PidsUsed, StepFitsOp, DecisionReadsBack, Exists, Idle
<1>8. ASSUME NEW r \in Call, ReadBack(r) PROVE Inv'
  BY <1>7, <1>8, <1>t DEF ReadBack, Return, Panic
<1>9. ASSUME NEW r \in Call, Abandon(r) PROVE Inv'
  BY <1>7, <1>9, <1>t DEF Abandon, Return
<1>10. ASSUME Restart PROVE Inv'
  BY <1>7, <1>10 DEF Restart, Panic
<1>11. ASSUME NEW u \in User, AddMember(u) \/ RemoveMember(u) PROVE Inv'
  BY <1>7, <1>11 DEF AddMember, RemoveMember
<1>12. ASSUME DeleteColocation PROVE Inv'
  BY <1>12, <1>t DEF DeleteColocation, RowsUsed, PidsUsed, StepFitsOp,
               DecisionReadsBack, Exists, NoRow
<1>13. ASSUME UNCHANGED vars PROVE Inv'
  BY <1>7, <1>13 DEF vars
<1>. QED
  BY <1>0, <1>1, <1>2, <1>3, <1>4, <1>5, <1>6, <1>8, <1>9, <1>10, <1>11,
     <1>12, <1>13 DEF Next

LEMMA Invariant == Spec => []IInv
<1>1. Init => IInv
  BY InitIInv
<1>2. IInv /\ [Next]_vars => IInv'
  BY IInvStep
<1>. QED  BY <1>1, <1>2, PTL DEF Spec

\* Unless the colocation is deleted, Confirm and Reject find the row they
\* wrote when they read it again to answer (DecisionReadsBack).
THEOREM ReadBackSafe == Spec => []DecisionReadsBack
<1>1. IInv => DecisionReadsBack
  BY DEF IInv
<1>. QED  BY <1>1, Invariant, PTL

-----------------------------------------------------------------------------
(* Which rows a step can change, and how *)

\* A step changes the row of p in three ways only: it inserts it under an id
\* never used before, it writes a verdict into it, or it removes it while
\* pending, and the last two are the write of a call about p.
LEMMA RowStep ==
  ASSUME IInv, [Next]_vars, open', NEW p \in PaymentId
  PROVE  \/ payments'[p] = payments[p]
         \/ p \notin used /\ payments'[p].status = "pending"
         \/ \E r \in Call : /\ call[r].at = "write"
                            /\ call[r].pid = p
                            /\ \/ payments'[p].status \in Verdict
                               \/ payments[p].status = "pending"
<1> USE DEF IInv, TypeOK
<1>1. ASSUME NEW r \in Call, Create(r)
      PROVE  \/ payments'[p] = payments[p]
             \/ p \notin used /\ payments'[p].status = "pending"
  <2>1. CASE UNCHANGED payments
    BY <2>1
  <2>2. CASE \E q \in PaymentId \ used :
               InsertRow(q, call[r].user, call[r].to)
    BY <2>2 DEF InsertRow
  <2>. QED  BY <1>1, <2>1, <2>2 DEF Create
<1>2. ASSUME NEW r \in Call, ConfirmOrReject(r)
      PROVE  \/ payments'[p] = payments[p]
             \/ /\ call[r].at = "write"
                /\ call[r].pid = p
                /\ payments'[p].status \in Verdict
  <2>1. CASE call[r].pid = p /\ Exists(p)
    <3>1. payments' = [payments EXCEPT
                         ![p].status = Decision(call[r].op),
                         ![p].confirmedAt =
                           (Decision(call[r].op) = "confirmed") \/ @]
      BY <1>2, <2>1 DEF ConfirmOrReject, UpdateStatus
    <3>2. payments'[p].status = Decision(call[r].op)
      BY <3>1 DEF Row
    <3>. QED  BY <1>2, <2>1, <3>2 DEF ConfirmOrReject, Calling, Decision, Verdict
  <2>2. CASE ~(call[r].pid = p /\ Exists(p))
    BY <1>2, <2>2 DEF ConfirmOrReject, UpdateStatus
  <2>. QED  BY <2>1, <2>2
<1>3. ASSUME NEW r \in Call, Cancel(r)
      PROVE  \/ payments'[p] = payments[p]
             \/ /\ call[r].at = "write"
                /\ call[r].pid = p
                /\ payments[p].status = "pending"
  BY <1>3 DEF Cancel, Calling, DeleteMatches
<1>4. CASE UNCHANGED payments
  BY <1>4
<1>5. ~DeleteColocation
  BY DEF DeleteColocation
<1>. QED
  BY <1>1, <1>2, <1>3, <1>4, <1>5
     DEF Next, BeginCreate, verifyRecipientMembership, getPaymentForAction,
         ReadBack, Abandon, Restart, AddMember, RemoveMember, vars

\* A confirmed payment stays in the table as long as its colocation does:
\* no Cancel, however it interleaves, removes it (ConfirmedNeverCancelled).
THEOREM ConfirmedKept == Spec => ConfirmedNeverCancelled
<1>1. ASSUME IInv, [Next]_vars
      PROVE  [\A p \in PaymentId :
                payments[p].status = "confirmed" /\ open'
                  => payments'[p].status # "absent"]_vars
  <2> SUFFICES ASSUME NEW p \in PaymentId,
                      payments[p].status = "confirmed", open'
               PROVE  payments'[p].status # "absent"
    OBVIOUS
  <2>. QED  BY <1>1, RowStep DEF Verdict
<1>. QED  BY <1>1, Invariant, PTL DEF Spec, ConfirmedNeverCancelled

\* A call that a step brings to its write has just read its payment as
\* pending.
LEMMA WriteStep ==
  ASSUME IInv, [Next]_vars, NEW r \in Call, call'[r].at = "write"
  PROVE  \/ call[r].at = "write" /\ call[r].pid = call'[r].pid
         \/ /\ payments[call'[r].pid].status = "pending"
            /\ payments' = payments
<1> USE DEF IInv, TypeOK
<1>1. ASSUME NEW q \in Call, NEW u \in User,
             NEW op \in {"confirm", "reject", "cancel"}, NEW p \in PaymentId,
             getPaymentForAction(q, u, op, p)
      PROVE  \/ call'[r] = call[r]
             \/ /\ payments[call'[r].pid].status = "pending"
                /\ payments' = payments
  BY <1>1 DEF getPaymentForAction, MayAct
<1>2. ASSUME NEW q \in Call, NEW u \in User, NEW v \in User,
             BeginCreate(q, u, v)
      PROVE  call'[r] = call[r]
  BY <1>2 DEF BeginCreate
<1>3. ASSUME NEW q \in Call, verifyRecipientMembership(q)
      PROVE  call'[r] = call[r]
  <2>1. CASE call' = [call EXCEPT ![q].at = "insert"]
    <3>1. q # r
      BY <2>1 DEF Local
    <3>. QED  BY <2>1, <3>1
  <2>2. CASE call' = [call EXCEPT ![q] = Idle]
    BY <2>2 DEF Idle
  <2>. QED  BY <1>3, <2>1, <2>2 DEF verifyRecipientMembership, Go, Return
<1>4. ASSUME NEW q \in Call, Create(q)
      PROVE  call'[r] = call[r]
  <2>1. CASE call' = [call EXCEPT ![q] = Idle]
    BY <2>1 DEF Idle
  <2>2. CASE \E p \in PaymentId :
               call' = [call EXCEPT ![q] = [@ EXCEPT !.at = "readback",
                                                     !.pid = p]]
    <3>1. q # r
      BY <2>2 DEF Local
    <3>. QED  BY <2>2, <3>1
  <2>. QED  BY <1>4, <2>1, <2>2 DEF Create, Return
<1>5. ASSUME NEW q \in Call, ConfirmOrReject(q)
      PROVE  call'[r] = call[r]
  <2>1. CASE call' = [call EXCEPT ![q].at = "readback"]
    <3>1. q # r
      BY <2>1 DEF Local
    <3>. QED  BY <2>1, <3>1
  <2>2. CASE call' = [call EXCEPT ![q] = Idle]
    BY <2>2 DEF Idle
  <2>. QED  BY <1>5, <2>1, <2>2 DEF ConfirmOrReject, Go, Return
<1>6. CASE \E q \in Call : call' = [call EXCEPT ![q] = Idle]
  BY <1>6 DEF Idle
<1>7. CASE call' = [q \in Call |-> Idle]
  BY <1>7 DEF Idle
<1>8. CASE UNCHANGED call
  BY <1>8
<1>. QED
  BY <1>1, <1>2, <1>3, <1>4, <1>5, <1>6, <1>7, <1>8
     DEF Next, Cancel, ReadBack, Abandon, Restart, Panic, Return, AddMember,
         RemoveMember, DeleteColocation, vars

\* Once a payment is decided and no call is still to write it, its row never
\* changes again while the colocation exists (SettledStays).
THEOREM SettledForGood == Spec => SettledStays
<1>1. ASSUME IInv, [Next]_vars
      PROVE  [\A p \in PaymentId :
                Settled(p) /\ open' => /\ payments'[p] = payments[p]
                                       /\ Settled(p)']_vars
  <2> SUFFICES ASSUME NEW p \in PaymentId, Settled(p), open'
               PROVE  payments'[p] = payments[p] /\ Settled(p)'
    OBVIOUS
  <2>1. p \in used
    BY <1>1 DEF IInv, RowsUsed, Exists, Settled, Verdict
  <2>2. payments'[p] = payments[p]
    BY <1>1, <2>1, RowStep DEF Settled
  <2>3. ASSUME NEW r \in Call, call'[r].at = "write", call'[r].pid = p
        PROVE  FALSE
    BY <1>1, <2>3, WriteStep DEF Settled, Verdict
  <2>. QED  BY <2>2, <2>3 DEF Settled
<1>. QED  BY <1>1, Invariant, PTL DEF Spec, SettledStays

-----------------------------------------------------------------------------
(* The refinement of PaymentLifecycle *)

LEMMA LifeInitial == Init => Life!LifeInit
BY NoneAssumption
   DEF Init, Life!LifeInit, lifeStatus, lifeAdmitted, Idle

\* When only one call changes, and it leaves its write, its ticket expires.
LEMMA OneExpires ==
  ASSUME TypeOK, UNCHANGED <<payments, used>>, NEW r \in Call,
         call' = [call EXCEPT ![r] = Idle]
  PROVE  Life!Expire({r})
BY DEF TypeOK, Life!Expire, lifeStatus, lifeAdmitted, Exists, Idle

LEMMA AllExpire ==
  ASSUME UNCHANGED <<payments, used>>, call' = [r \in Call |-> Idle]
  PROVE  Life!Expire(Call)
BY DEF Life!Expire, lifeStatus, lifeAdmitted, Exists, Idle

\* When the table is unchanged and the same calls are at their writes, the
\* abstract state stutters.
LEMMA Stutters ==
  ASSUME UNCHANGED <<payments, used>>,
         \A r \in Call :
           \/ call'[r] = call[r]
           \/ call'[r].at # "write" /\ call[r].at # "write"
  PROVE  UNCHANGED <<lifeStatus, lifeAdmitted>>
BY DEF lifeStatus, lifeAdmitted, Exists

LEMMA LifeStep ==
  ASSUME IInv, [Next]_vars
  PROVE  [Life!LifeNext]_<<lifeStatus, lifeAdmitted>>
<1> USE DEF IInv
<1> DEFINE Goal == [Life!LifeNext]_<<lifeStatus, lifeAdmitted>>
<1>t. /\ payments \in [PaymentId -> Row]
      /\ call \in [Call -> Local]
      /\ used \in SUBSET PaymentId
  BY DEF TypeOK
<1>e. ASSUME NEW T \in SUBSET Call, Life!Expire(T) PROVE Goal
  BY <1>e DEF Life!LifeNext
<1>1. ASSUME NEW r \in Call, NEW u \in User, NEW v \in User,
             BeginCreate(r, u, v)
      PROVE  Goal
  <2>1. \A q \in Call : q # r => call'[q] = call[q]
    BY <1>1, <1>t DEF BeginCreate
  <2>2. call[r].at = "idle" /\ call'[r].at = "recipient"
    BY <1>1, <1>t DEF BeginCreate, Calling
  <2>. QED  BY <1>1, <2>1, <2>2, Stutters DEF BeginCreate
<1>2. ASSUME NEW r \in Call, verifyRecipientMembership(r) PROVE Goal
  <2>1. \A q \in Call : q # r => call'[q] = call[q]
    BY <1>2, <1>t DEF verifyRecipientMembership, Go, Return
  <2>2. call[r].at = "recipient" /\ call'[r].at \in {"insert", "idle"}
    BY <1>2, <1>t DEF verifyRecipientMembership, Calling, Go, Return, Idle,
                      Local
  <2>. QED  BY <1>2, <2>1, <2>2, Stutters DEF verifyRecipientMembership
<1>3. ASSUME NEW r \in Call, Create(r) PROVE Goal
  <2>1. CASE open
    <3>1. PICK p \in PaymentId \ used :
            /\ InsertRow(p, call[r].user, call[r].to)
            /\ used' = used \cup {p}
            /\ call' = [call EXCEPT ![r] = [@ EXCEPT !.at = "readback",
                                                    !.pid = p]]
      BY <1>3, <2>1 DEF Create
    <3>2. /\ payments'[p].status = "pending"
          /\ \A q \in PaymentId : q # p => payments'[q] = payments[q]
      BY <3>1, <1>t DEF InsertRow
    <3>3. call[r].at = "insert"
      BY <1>3 DEF Create, Calling
    <3>4. \A q \in Call : q # r => call'[q] = call[q]
      BY <3>1, <1>t
    <3>5. call'[r].at = "readback"
      BY <3>1, <1>t DEF Local
    <3>6. lifeAdmitted' = lifeAdmitted
      BY <3>3, <3>4, <3>5 DEF lifeAdmitted
    <3>7. lifeStatus[p] = "unborn"
      BY <3>1 DEF lifeStatus
    <3>8. lifeStatus' = [lifeStatus EXCEPT ![p] = "pending"]
      BY <3>1, <3>2 DEF lifeStatus, Exists
    <3>. QED
      BY <3>6, <3>7, <3>8 DEF Life!LifeNext, Life!Declare
  <2>2. CASE ~open
    <3>1. /\ UNCHANGED <<payments, used>>
          /\ call' = [call EXCEPT ![r] = Idle]
      BY <1>3, <2>2 DEF Create, Return
    <3>. QED  BY <1>e, <3>1, OneExpires
  <2>. QED  BY <2>1, <2>2
<1>4. ASSUME NEW r \in Call, NEW u \in User,
             NEW op \in {"confirm", "reject", "cancel"}, NEW p \in PaymentId,
             getPaymentForAction(r, u, op, p)
      PROVE  Goal
  <2>1. call[r].at = "idle" /\ UNCHANGED <<payments, used>>
    BY <1>4 DEF getPaymentForAction, Calling
  <2>2. /\ \A q \in Call : q # r => call'[q] = call[q]
        /\ call'[r].at = "write"
        /\ call'[r].pid = p
    BY <1>4, <1>t DEF getPaymentForAction
  <2>3. lifeStatus[p] = "pending" /\ UNCHANGED lifeStatus
    BY <1>4, <2>1 DEF getPaymentForAction, MayAct, RowsUsed, lifeStatus, Exists
  <2>4. \A q \in PaymentId : r \notin lifeAdmitted[q]
    BY <2>1 DEF lifeAdmitted
  <2>5. lifeAdmitted' = [lifeAdmitted EXCEPT ![p] = @ \cup {r}]
    BY <2>1, <2>2 DEF lifeAdmitted
  <2>. QED  BY <2>3, <2>4, <2>5 DEF Life!LifeNext, Life!Admit
<1>5. ASSUME NEW r \in Call, ConfirmOrReject(r) PROVE Goal
  <2> DEFINE p == call[r].pid
             v == Decision(call[r].op)
  <2>1. p \in PaymentId /\ p \in used /\ call[r].at = "write"
    BY <1>5, <1>t DEF ConfirmOrReject, Calling, PidsUsed
  <2>2. CASE Exists(p)
    <3>1. /\ payments'[p].status = v
          /\ \A q \in PaymentId : q # p => payments'[q] = payments[q]
      BY <1>5, <1>t, <2>1, <2>2 DEF ConfirmOrReject, UpdateStatus, Row
    <3>2. /\ \A q \in Call : q # r => call'[q] = call[q]
          /\ call'[r].at = "readback"
      BY <1>5, <1>t, <2>2 DEF ConfirmOrReject, Go, Local
    <3>3. used' = used /\ v \in Verdict
      BY <1>5 DEF ConfirmOrReject, Decision, Verdict
    <3>4. lifeStatus' = [lifeStatus EXCEPT ![p] = v]
      BY <2>1, <3>1, <3>3 DEF lifeStatus, Exists, Verdict
    <3>5. lifeAdmitted' = [lifeAdmitted EXCEPT ![p] = @ \ {r}]
      BY <2>1, <3>2 DEF lifeAdmitted
    <3>6. r \in lifeAdmitted[p] /\ lifeStatus[p] \in {"pending"} \cup Verdict
      BY <1>t, <2>1, <2>2
         DEF lifeAdmitted, lifeStatus, Exists, Row, Status, Verdict
    <3>7. Life!Decide(p, r, v)
      BY <3>4, <3>5, <3>6 DEF Life!Decide, Life!Verdicts, Verdict
    <3>. QED  BY <2>1, <3>3, <3>7 DEF Life!LifeNext, Life!Verdicts, Verdict
  <2>3. CASE ~Exists(p)
    <3>1. /\ UNCHANGED <<payments, used>>
          /\ call' = [call EXCEPT ![r] = Idle]
      BY <1>5, <2>3 DEF ConfirmOrReject, Return
    <3>. QED  BY <1>e, <3>1, OneExpires
  <2>. QED  BY <2>2, <2>3
<1>6. ASSUME NEW r \in Call, Cancel(r) PROVE Goal
  <2> DEFINE p == call[r].pid
  <2>1. p \in PaymentId /\ p \in used /\ call[r].at = "write"
    BY <1>6, <1>t DEF Cancel, Calling, PidsUsed
  <2>2. used' = used /\ call' = [call EXCEPT ![r] = Idle]
    BY <1>6 DEF Cancel, Return
  <2>3. CASE DeleteMatches(p)
    <3>1. payments' = [payments EXCEPT ![p] = NoRow]
      BY <1>6, <2>3 DEF Cancel
    <3>2. /\ payments'[p].status = "absent"
          /\ \A q \in PaymentId : q # p => payments'[q] = payments[q]
      BY <1>t, <2>1, <3>1 DEF NoRow
    <3>3. lifeStatus' = [lifeStatus EXCEPT ![p] = "gone"]
      BY <2>1, <2>2, <3>2 DEF lifeStatus, Exists
    <3>4. lifeAdmitted' = [lifeAdmitted EXCEPT ![p] = @ \ {r}]
      BY <1>t, <2>1, <2>2 DEF lifeAdmitted, Idle
    <3>5. r \in lifeAdmitted[p] /\ lifeStatus[p] = "pending"
      BY <2>1, <2>3 DEF lifeAdmitted, lifeStatus, DeleteMatches, Exists
    <3>. QED
      BY <2>1, <3>3, <3>4, <3>5 DEF Life!LifeNext, Life!Withdraw
  <2>4. CASE ~DeleteMatches(p)
    <3>1. UNCHANGED <<payments, used>>
      BY <1>6, <2>4 DEF Cancel
    <3>. QED  BY <1>e, <2>2, <3>1, OneExpires
  <2>. QED  BY <2>3, <2>4
<1>7. ASSUME NEW r \in Call, ReadBack(r) \/ Abandon(r) PROVE Goal
  <2>1. /\ UNCHANGED <<payments, used>>
        /\ \/ call' = [call EXCEPT ![r] = Idle]
           \/ call' = [q \in Call |-> Idle]
    BY <1>7 DEF ReadBack, Abandon, Return, Panic
  <2>. QED  BY <1>e, <2>1, OneExpires, AllExpire
<1>8. ASSUME Restart PROVE Goal
  BY <1>e, <1>8, AllExpire DEF Restart, Panic
<1>9. ASSUME NEW u \in User, AddMember(u) \/ RemoveMember(u) PROVE Goal
  BY <1>9, Stutters DEF AddMember, RemoveMember
<1>10. ASSUME DeleteColocation PROVE Goal
  <2>1. /\ lifeAdmitted' = lifeAdmitted
        /\ lifeStatus' = [p \in PaymentId |-> IF lifeStatus[p] = "unborn"
                                              THEN "unborn" ELSE "gone"]
    BY <1>10, <1>t DEF DeleteColocation, lifeStatus, lifeAdmitted, Exists,
                       NoRow, Row, Status, Verdict
  <2>. QED  BY <2>1 DEF Life!LifeNext, Life!Drop
<1>11. ASSUME UNCHANGED vars PROVE Goal
  BY <1>11, Stutters DEF vars
<1>. QED
  BY <1>1, <1>2, <1>3, <1>4, <1>5, <1>6, <1>7, <1>8, <1>9, <1>10, <1>11
     DEF Next

\* Payments implements PaymentLifecycle under the mapping of Life
\* (ImplementsLifecycle): whatever calls overlap, a payment is declared once,
\* is decided or withdrawn only by a call that saw it pending, is withdrawn
\* only while it still is, and never comes back.
THEOREM Implements == Spec => ImplementsLifecycle
<1>1. IInv /\ [Next]_vars => [Life!LifeNext]_<<lifeStatus, lifeAdmitted>>
  BY LifeStep
<1>. QED
  BY <1>1, LifeInitial, Invariant, PTL
     DEF Spec, ImplementsLifecycle, Life!LifeSpec, Life!lifeVars

=============================================================================
