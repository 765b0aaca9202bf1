-------------------------- MODULE MembershipProofs --------------------------
(***************************************************************************)
(* Proofs about Membership, for any finite set of users and any number of  *)
(* calls.                                                                  *)
(*                                                                         *)
(* The inductive invariant adds to the types what a call knows of itself   *)
(* when it acts, and that the colocation has a creator under way only      *)
(* before anybody else can do anything with it.                            *)
(***************************************************************************)
EXTENDS Membership, FiniteSetTheorems, TLAPS

Named ==
  \A c \in Call :
    /\ call[c].at # "idle" => call[c].user \in User
    /\ call[c].at \in {"leave", "remove", "setrole", "readback"}
         => call[c].target \in User

CreatorAlone ==
  \A c \in Call : Calling(c, "addcreator")
    => /\ colocation = "created"
       /\ \A d \in Call \ {c} : Calling(d, "idle")

NothingBefore == colocation = "unborn" => \A c \in Call : Calling(c, "idle")

\* What Leave and RemoveMember have checked when they come to the DELETE.
LeaveChecked ==
  \A c \in Call : Calling(c, "leave")
    => /\ call[c].target = call[c].user
       /\ call[c].list # None => ~OnlyAdmin(call[c].list)

RemoveChecked ==
  \A c \in Call : Calling(c, "remove") => call[c].target # call[c].user

\* Leave keeps its target while it counts.
LeaveCounting ==
  \A c \in Call : Calling(c, "leavecount") => call[c].target = call[c].user

IInv == /\ TypeOK /\ Named /\ CreatorAlone /\ NothingBefore
        /\ LeaveChecked /\ RemoveChecked /\ LeaveCounting

-----------------------------------------------------------------------------
(* Lemmas about the helpers *)

\* The local state of a call that is not running is a local state.
LEMMA IdleIsLocal == Idle \in Local
BY DEF Idle, Local, Role

\* What Begin puts into the slot of a call.
LEMMA BeginSets ==
  ASSUME TypeOK, NEW c \in Call, NEW u \in User, NEW v \in User \cup {None},
         NEW r \in Role,
         NEW step \in {"addcreator", "joincheck", "leavecount", "leave",
                       "remove", "setrole", "delete", "list"},
         Begin(c, step, u, v, r)
  PROVE  /\ call' \in [Call -> Local]
         /\ call'[c].at = step /\ call'[c].user = u /\ call'[c].target = v
         /\ call'[c].list = None
         /\ \A d \in Call \ {c} : call'[d] = call[d]
<1> DEFINE new == [at |-> step, user |-> u, target |-> v, as |-> r,
                   list |-> None]
<1>1. new \in Local /\ new.at = step /\ new.user = u /\ new.target = v
        /\ new.list = None
  BY DEF Local, Role
<1>2. call' = [call EXCEPT ![c] = new]
  BY DEF Begin
<1> HIDE DEF new
<1> QED  BY <1>1, <1>2 DEF TypeOK

\* Going to another step keeps the rest of the local state.
LEMMA GoKeeps ==
  ASSUME TypeOK, NEW c \in Call, NEW step \in {"join", "readback"}, Go(c, step)
  PROVE  /\ call' \in [Call -> Local]
         /\ call'[c].at = step
         /\ call'[c].user = call[c].user /\ call'[c].target = call[c].target
         /\ \A d \in Call \ {c} : call'[d] = call[d]
<1> DEFINE new == [call[c] EXCEPT !.at = step]
<1>0. call \in [Call -> Local]
  BY DEF TypeOK
<1>1. new \in Local /\ new.at = step /\ new.user = call[c].user
        /\ new.target = call[c].target
  BY <1>0 DEF Local
<1>2. call' = [call EXCEPT ![c] = new]
  BY DEF Go
<1> HIDE DEF new
<1> QED  BY <1>0, <1>1, <1>2

\* A local state with the list that was counted.
LEMMA LocalWithList ==
  ASSUME NEW k \in Local, NEW list \in [User -> Role]
  PROVE  LET new == [k EXCEPT !.at = "leave", !.list = list]
         IN  /\ new \in Local /\ new.at = "leave" /\ new.list = list
             /\ new.user = k.user /\ new.target = k.target
BY DEF Local

\* A call that returns leaves an idle slot and does not touch the others.
LEMMA ReturnIdles ==
  ASSUME TypeOK, NEW c \in Call, Return(c)
  PROVE  /\ call' \in [Call -> Local] /\ call'[c] = Idle
         /\ \A d \in Call \ {c} : call'[d] = call[d]
BY IdleIsLocal DEF TypeOK, Return

\* After a panic every slot is idle.
LEMMA PanicIdles ==
  ASSUME Panic
  PROVE  call' \in [Call -> Local] /\ \A d \in Call : call'[d] = Idle
BY IdleIsLocal DEF Panic

\* Nobody but its creator can act on a colocation without members yet.
LEMMA CreatedIsEmpty ==
  ASSUME IInv, NEW u \in User, role[u] # "none" \/ colocation = "open"
  PROVE  \A c \in Call : ~Calling(c, "addcreator")
BY DEF IInv, TypeOK, Members, CreatorAlone

-----------------------------------------------------------------------------
(* The inductive invariant *)

\* The initial states satisfy the inductive invariant.
LEMMA InitIInv == Init => IInv
<1> SUFFICES ASSUME Init PROVE IInv
  OBVIOUS
<1>1. TypeOK
  BY IdleIsLocal DEF Init, TypeOK, Role, Members
<1>2. \A c \in Call : call[c].at = "idle"
  BY DEF Init, Idle
<1> QED
  BY <1>1, <1>2 DEF IInv, Named, CreatorAlone, LeaveChecked, RemoveChecked,
                    LeaveCounting, NothingBefore, Calling

\* A call that begins by reading a role, or finding the colocation open.
LEMMA BeginStep ==
  ASSUME IInv, NEW c \in Call, NEW u \in User, NEW v \in User \cup {None},
         NEW r \in Role,
         NEW step \in {"joincheck", "leavecount", "leave", "remove",
                       "setrole", "delete", "list"},
         Begin(c, step, u, v, r), UNCHANGED <<colocation, role>>,
         role[u] # "none" \/ colocation = "open",
         step \in {"leave", "remove", "setrole"} => v \in User,
         step \in {"leave", "leavecount"} => v = u,
         step = "remove" => v # u
  PROVE  IInv'
<1>1. /\ call' \in [Call -> Local]
      /\ call'[c].at = step /\ call'[c].user = u /\ call'[c].target = v
      /\ call'[c].list = None
      /\ \A d \in Call \ {c} : call'[d] = call[d]
  BY BeginSets DEF IInv
<1>2. \A d \in Call : ~Calling(d, "addcreator")
  BY CreatedIsEmpty
<1>3. TypeOK'
  BY <1>1 DEF IInv, TypeOK, Members
<1>4. Named'
  BY <1>1 DEF IInv, Named
<1>5. CreatorAlone'
  BY <1>1, <1>2 DEF CreatorAlone, Calling
<1>7. NothingBefore'
  BY DEF IInv, TypeOK, Members, NothingBefore
<1>6. (LeaveChecked /\ RemoveChecked /\ LeaveCounting)'
  BY <1>1 DEF IInv, LeaveChecked, RemoveChecked, LeaveCounting, Calling
<1> QED  BY <1>3, <1>4, <1>5, <1>6, <1>7 DEF IInv

\* A call that returns, whatever it has written, keeps the invariant when
\* the tables keep their types.
LEMMA ReturnStep ==
  ASSUME IInv, NEW c \in Call, Return(c),
         role' \in [User -> Role],
         colocation' \in {"unborn", "created", "open", "deleted"},
         colocation' # "open" => Members(role') = {},
         colocation' = "unborn" => colocation = "unborn",
         ~Calling(c, "idle")
  PROVE  IInv'
<1>1. /\ call' \in [Call -> Local] /\ call'[c] = Idle
      /\ \A d \in Call \ {c} : call'[d] = call[d]
  BY ReturnIdles DEF IInv
<1>2. call'[c].at = "idle"
  BY <1>1 DEF Idle
<1>3. TypeOK'
  BY <1>1 DEF TypeOK, Members
<1>4. Named'
  BY <1>1, <1>2 DEF IInv, Named
<1>5. CreatorAlone'
  BY <1>1, <1>2 DEF IInv, CreatorAlone, Calling
<1>7. NothingBefore'
  BY <1>1, <1>2 DEF IInv, NothingBefore, Calling
<1>6. (LeaveChecked /\ RemoveChecked /\ LeaveCounting)'
  BY <1>1, <1>2 DEF IInv, LeaveChecked, RemoveChecked, LeaveCounting, Calling
<1> QED  BY <1>3, <1>4, <1>5, <1>6, <1>7 DEF IInv

\* A panic keeps the invariant.
LEMMA PanicStep ==
  ASSUME IInv, Panic, UNCHANGED <<colocation, role>>
  PROVE  IInv'
<1>1. call' \in [Call -> Local] /\ \A c \in Call : call'[c].at = "idle"
  BY PanicIdles DEF Idle
<1>2. TypeOK'
  BY <1>1 DEF IInv, TypeOK, Members
<1> QED
  BY <1>1, <1>2 DEF IInv, Named, CreatorAlone, LeaveChecked, RemoveChecked,
                    LeaveCounting, NothingBefore, Calling

\* Every step keeps the inductive invariant.
LEMMA IInvStep == ASSUME IInv, [Next]_vars PROVE IInv'
<1>0. /\ TypeOK /\ role \in [User -> Role]
      /\ colocation \in {"unborn", "created", "open", "deleted"}
      /\ colocation # "open" => Members(role) = {}
      /\ None \in User \cup {None}
      /\ {"none", "member", "admin"} = Role
  BY DEF IInv, TypeOK, Role
<1>1. ASSUME NEW c \in Call, NEW u \in User, Create(c, u) PROVE IInv'
  <2>1. /\ call' \in [Call -> Local]
        /\ call'[c].at = "addcreator" /\ call'[c].user = u
        /\ \A d \in Call \ {c} : call'[d] = call[d]
    BY <1>0, <1>1, BeginSets DEF Create
  <2>2. \A d \in Call : call[d].at = "idle"
    BY <1>1 DEF Create, IInv, NothingBefore, Calling
  <2>3. TypeOK' /\ NothingBefore'
    BY <1>0, <1>1, <2>1 DEF Create, TypeOK, Members, NothingBefore
  <2>4. (Named /\ CreatorAlone)'
    BY <1>1, <2>1, <2>2 DEF Create, Named, CreatorAlone, Calling
  <2>5. (LeaveChecked /\ RemoveChecked /\ LeaveCounting)'
    BY <2>1, <2>2 DEF LeaveChecked, RemoveChecked, LeaveCounting, Calling
  <2> QED  BY <2>3, <2>4, <2>5 DEF IInv
<1>2. ASSUME NEW c \in Call, AddCreator(c) PROVE IInv'
  <2>1. role' \in [User -> Role]
    BY <1>0, <1>2 DEF AddCreator
  <2> QED  BY <1>2, <2>1, ReturnStep DEF AddCreator, Calling
<1>3. ASSUME NEW c \in Call, NEW u \in User, JoinReads(c, u) PROVE IInv'
  BY <1>0, <1>3, BeginStep DEF JoinReads
<1>4. ASSUME NEW c \in Call, JoinChecks(c) PROVE IInv'
  <2>1. CASE Return(c)
    BY <1>0, <1>4, <2>1, ReturnStep DEF JoinChecks, Calling
  <2>2. CASE Go(c, "join")
    <3>1. /\ call' \in [Call -> Local]
          /\ call'[c].at = "join" /\ call'[c].user = call[c].user
          /\ \A d \in Call \ {c} : call'[d] = call[d]
      BY <1>0, <2>2, GoKeeps
    <3>2. TypeOK'
      BY <1>0, <1>4, <3>1 DEF JoinChecks, TypeOK, Members
    <3>3. (Named /\ CreatorAlone /\ NothingBefore)'
      BY <1>4, <3>1
      DEF JoinChecks, IInv, Named, CreatorAlone, NothingBefore, Calling
    <3>4. (LeaveChecked /\ RemoveChecked /\ LeaveCounting)'
      BY <3>1 DEF IInv, LeaveChecked, RemoveChecked, LeaveCounting, Calling
    <3> QED  BY <3>2, <3>3, <3>4 DEF IInv
  <2> QED  BY <1>4, <2>1, <2>2 DEF JoinChecks
<1>5. ASSUME NEW c \in Call, Join(c) PROVE IInv'
  <2>1. /\ role' \in [User -> Role]
        /\ colocation # "open" => role' = role
    BY <1>0, <1>5 DEF Join, AddMember
  <2> QED  BY <1>0, <1>5, <2>1, ReturnStep DEF Join, Calling
<1>6. ASSUME NEW c \in Call, NEW u \in User, LeaveReads(c, u) PROVE IInv'
  BY <1>0, <1>6, BeginStep DEF LeaveReads
<1>7. ASSUME NEW c \in Call, LeaveCounts(c) PROVE IInv'
  <2>1. CASE OnlyAdmin(role)
    BY <1>0, <1>7, <2>1, ReturnStep DEF LeaveCounts, Calling
  <2>2. CASE ~OnlyAdmin(role)
    <3> DEFINE new == [call[c] EXCEPT !.at = "leave", !.list = role]
    <3>1. call[c] \in Local /\ call[c].at = "leavecount"
      BY <1>0, <1>7 DEF LeaveCounts, Calling, TypeOK
    <3>2. /\ new \in Local /\ new.at = "leave" /\ new.list = role
          /\ new.user = call[c].user /\ new.target = call[c].target
      BY <1>0, <3>1, LocalWithList
    <3>3. call' = [call EXCEPT ![c] = new]
      BY <1>0, <1>7, <2>2 DEF LeaveCounts, TypeOK
    <3> HIDE DEF new
    <3>4. TypeOK'
      BY <1>0, <1>7, <3>2, <3>3 DEF LeaveCounts, TypeOK, Members
    <3>5. call'[c] = new /\ \A d \in Call \ {c} : call'[d] = call[d]
      BY <1>0, <3>3 DEF TypeOK
    <3>6. new.user \in User /\ new.target = new.user
      BY <3>1, <3>2 DEF IInv, Named, LeaveCounting, Calling
    <3>7. (Named /\ CreatorAlone /\ NothingBefore)'
      BY <1>7, <3>1, <3>2, <3>5, <3>6
      DEF LeaveCounts, IInv, Named, CreatorAlone, NothingBefore, Calling
    <3>8. (LeaveChecked /\ RemoveChecked /\ LeaveCounting)'
      BY <2>2, <3>2, <3>5, <3>6
      DEF IInv, LeaveChecked, RemoveChecked, LeaveCounting, Calling
    <3> QED  BY <3>4, <3>7, <3>8 DEF IInv
  <2> QED  BY <2>1, <2>2
<1>8. ASSUME NEW c \in Call, RemoveMember(c) PROVE IInv'
  <2>1. role' \in [User -> Role]
    BY <1>0, <1>8 DEF RemoveMember
  <2>2. Members(role) = {} => Members(role') = {}
    BY <1>0, <1>8 DEF RemoveMember, Members
  <2> QED  BY <1>0, <1>8, <2>1, <2>2, ReturnStep DEF RemoveMember, Calling
<1>9. ASSUME NEW c \in Call, NEW u \in User, NEW v \in User,
             RemoveReads(c, u, v)
      PROVE  IInv'
  BY <1>0, <1>9, BeginStep DEF RemoveReads, MayAdminister
<1>10. ASSUME NEW c \in Call, NEW u \in User, NEW v \in User,
              NEW r \in {"member", "admin"}, RoleReads(c, u, v, r)
       PROVE  IInv'
  BY <1>0, <1>10, BeginStep DEF RoleReads, MayAdminister
<1>11. ASSUME NEW c \in Call, UpdateMemberRole(c) PROVE IInv'
  <2>1. CASE role[call[c].target] = "none"
    BY <1>0, <1>11, <2>1, ReturnStep DEF UpdateMemberRole, Calling
  <2>2. CASE role[call[c].target] # "none"
    <3>1. call[c].at = "setrole" /\ call[c].target \in User
      BY <1>11 DEF UpdateMemberRole, Calling, IInv, Named
    <3>2. colocation = "open" /\ colocation' = colocation
      BY <1>0, <1>11, <2>2, <3>1 DEF UpdateMemberRole, Members
    <3>3. /\ call' \in [Call -> Local]
          /\ call'[c].at = "readback"
          /\ call'[c].user = call[c].user
          /\ call'[c].target = call[c].target
          /\ \A d \in Call \ {c} : call'[d] = call[d]
      BY <1>0, <1>11, <2>2, GoKeeps DEF UpdateMemberRole
    <3>4. call[c].as \in Role
      BY <1>0 DEF TypeOK, Local
    <3>5. role' \in [User -> Role]
      BY <1>0, <1>11, <2>2, <3>4 DEF UpdateMemberRole
    <3>6. TypeOK'
      BY <3>2, <3>3, <3>5 DEF TypeOK
    <3>7. (Named /\ CreatorAlone /\ NothingBefore)'
      BY <3>1, <3>2, <3>3
      DEF IInv, Named, CreatorAlone, NothingBefore, Calling
    <3>8. (LeaveChecked /\ RemoveChecked /\ LeaveCounting)'
      BY <3>3 DEF IInv, LeaveChecked, RemoveChecked, LeaveCounting, Calling
    <3> QED  BY <3>6, <3>7, <3>8 DEF IInv
  <2> QED  BY <2>1, <2>2
<1>12. ASSUME NEW c \in Call, ReadBack(c) PROVE IInv'
  <2>1. UNCHANGED <<colocation, role>> /\ (Panic \/ Return(c))
        /\ ~Calling(c, "idle")
    BY <1>12 DEF ReadBack, Calling
  <2> QED  BY <1>0, <2>1, PanicStep, ReturnStep
<1>13. ASSUME NEW c \in Call, NEW u \in User, DeleteReads(c, u) PROVE IInv'
  BY <1>0, <1>13, BeginStep DEF DeleteReads, MayAdminister
<1>14. ASSUME NEW c \in Call, Delete(c) PROVE IInv'
  <2>1. role' \in [User -> Role] /\ Members(role') = {}
    BY <1>0, <1>14 DEF Delete, Members
  <2> QED  BY <1>14, <2>1, ReturnStep DEF Delete, Calling
<1>15. ASSUME NEW c \in Call, NEW u \in User, ListReads(c, u) PROVE IInv'
  BY <1>0, <1>15, BeginStep DEF ListReads
<1>16. ASSUME NEW c \in Call, List(c) PROVE IInv'
  <2>1. UNCHANGED <<colocation, role>> /\ (Panic \/ Return(c))
        /\ ~Calling(c, "idle")
    BY <1>16 DEF List, Calling
  <2> QED  BY <1>0, <2>1, PanicStep, ReturnStep
<1>17. ASSUME NEW c \in Call, Abandon(c) PROVE IInv'
  BY <1>0, <1>17, ReturnStep DEF Abandon
<1>18. CASE UNCHANGED vars
  BY <1>18 DEF vars, IInv, TypeOK, Members, Named, CreatorAlone,
               NothingBefore, LeaveChecked, RemoveChecked, LeaveCounting,
               Calling
<1> QED
  BY <1>1, <1>2, <1>3, <1>4, <1>5, <1>6, <1>7, <1>8, <1>9, <1>10, <1>11,
     <1>12, <1>13, <1>14, <1>15, <1>16, <1>17, <1>18 DEF Next

\* Types, and that only an open colocation has members, for any number of
\* users and calls.
THEOREM TypeCorrect == Spec => []TypeOK
<1>1. IInv => TypeOK
  BY DEF IInv
<1> QED  BY InitIInv, IInvStep, <1>1, PTL DEF Spec

-----------------------------------------------------------------------------
(* Roles *)

\* The steps that write the table of members.
LEMMA WhoChangesRoles ==
  ASSUME [Next]_vars
  PROVE  \/ UNCHANGED role
         \/ \E c \in Call : \/ AddCreator(c) \/ Join(c) \/ RemoveMember(c)
                            \/ UpdateMemberRole(c) \/ Delete(c)
BY DEF Next, vars, Create, JoinReads, LeaveReads, DeleteReads, ListReads,
       RemoveReads, RoleReads, JoinChecks, LeaveCounts, ReadBack, List, Abandon

\* Only the creator's call and UpdateMemberRole make administrators.
LEMMA WhoMakesAdmins ==
  ASSUME IInv, [Next]_vars, NEW u \in User,
         role[u] # "admin", role'[u] = "admin"
  PROVE  \E c \in Call : Calling(c, "addcreator") \/ Calling(c, "setrole")
<1>0. role \in [User -> Role]
  BY DEF IInv, TypeOK
<1>1. ASSUME NEW c \in Call, Join(c) \/ RemoveMember(c) \/ Delete(c)
      PROVE  FALSE
  BY <1>0, <1>1 DEF Join, AddMember, RemoveMember, Delete
<1> QED
  BY <1>1, WhoChangesRoles DEF AddCreator, UpdateMemberRole

\* Only an administrator begins to change a role.
LEMMA WhoNamesAdmins ==
  ASSUME IInv, [Next]_vars, ~AdminUnderWay, AdminUnderWay'
  PROVE  HasAdmin
<1>0. PICK c \in Call : call[c].at # "setrole" /\ call'[c].at = "setrole"
  BY DEF AdminUnderWay, Calling
<1>1. TypeOK /\ call \in [Call -> Local]
  BY DEF IInv, TypeOK
<1>2. ASSUME NEW d \in Call, Return(d) PROVE FALSE
  BY <1>0, <1>1, <1>2, ReturnIdles DEF Idle
<1>3. ASSUME Panic PROVE FALSE
  BY <1>0, <1>3, PanicIdles DEF Idle
<1>4. ASSUME NEW d \in Call, NEW step \in {"join", "readback"}, Go(d, step)
      PROVE  FALSE
  BY <1>0, <1>1, <1>4, GoKeeps
<1>5. ASSUME NEW d \in Call, NEW u \in User, NEW v \in User \cup {None},
             NEW step \in {"addcreator", "joincheck", "leavecount", "leave",
                           "remove", "delete", "list"},
             Begin(d, step, u, v, "none")
      PROVE  FALSE
  BY <1>0, <1>1, <1>5, BeginSets DEF Role
<1>6. ASSUME NEW d \in Call, LeaveCounts(d) PROVE FALSE
  <2>1. CASE OnlyAdmin(role)
    BY <1>2, <1>6, <2>1 DEF LeaveCounts
  <2>2. CASE ~OnlyAdmin(role)
    <3> DEFINE new == [call[d] EXCEPT !.at = "leave", !.list = role]
    <3>1. new.at = "leave"
      BY <1>1, LocalWithList DEF TypeOK
    <3>2. call' = [call EXCEPT ![d] = new]
      BY <1>1, <1>6, <2>2 DEF LeaveCounts
    <3> HIDE DEF new
    <3> QED  BY <1>0, <1>1, <3>1, <3>2
  <2> QED  BY <2>1, <2>2
<1>7. call' # call
  BY <1>0
<1>8. \E d \in Call : \E u \in User, v \in User, r \in {"member", "admin"} :
        RoleReads(d, u, v, r)
  BY <1>2, <1>3, <1>4, <1>5, <1>6, <1>7
  DEF Next, vars, Create, JoinReads, LeaveReads, DeleteReads, ListReads,
      RemoveReads, AddCreator, JoinChecks, Join, RemoveMember,
      UpdateMemberRole, ReadBack, Delete, List, Abandon
<1> QED  BY <1>8 DEF RoleReads, MayAdminister, HasAdmin, Admins

\* A colocation that has lost its administrators never gets one again, once
\* the calls that could have named one are over.
THEOREM NoAdminForGood == Spec => NoAdminIsForever
<1> DEFINE P == colocation = "open" /\ ~HasAdmin /\ ~AdminUnderWay
                  => ~HasAdmin' /\ ~AdminUnderWay'
<1>1. IInv /\ [Next]_vars => P
  <2> SUFFICES ASSUME IInv, [Next]_vars, colocation = "open", ~HasAdmin,
                      ~AdminUnderWay
               PROVE  ~HasAdmin' /\ ~AdminUnderWay'
    OBVIOUS
  <2>1. ~AdminUnderWay'
    BY WhoNamesAdmins
  <2>2. \A c \in Call : ~Calling(c, "addcreator") /\ ~Calling(c, "setrole")
    BY DEF IInv, CreatorAlone, AdminUnderWay
  <2>3. \A u \in User : role[u] # "admin"
    BY DEF HasAdmin, Admins
  <2>4. \A u \in User : role'[u] # "admin"
    BY <2>2, <2>3, WhoMakesAdmins
  <2> QED  BY <2>1, <2>4 DEF HasAdmin, Admins
<1>2. IInv /\ [Next]_vars => [P]_vars
  BY <1>1
<1> QED  BY InitIInv, IInvStep, <1>2, PTL DEF Spec, NoAdminIsForever

\* Only a call to change his role makes an administrator a plain member.
THEOREM NamedDemotes == Spec => OnlyNamedDemotes
<1> DEFINE P == \A u \in User : role[u] = "admin" /\ role'[u] = "member"
                  => \E c \in Call :
                       call[c].at = "setrole" /\ call[c].target = u
                         /\ call[c].as = "member"
<1>1. IInv /\ [Next]_vars => P
  <2> SUFFICES ASSUME IInv, [Next]_vars, NEW u \in User,
                      role[u] = "admin", role'[u] = "member"
               PROVE  \E c \in Call : /\ call[c].at = "setrole"
                                      /\ call[c].target = u
                                      /\ call[c].as = "member"
    OBVIOUS
  <2>0. role \in [User -> Role]
    BY DEF IInv, TypeOK
  <2>1. ASSUME NEW c \in Call,
               AddCreator(c) \/ Join(c) \/ RemoveMember(c) \/ Delete(c)
        PROVE  FALSE
    BY <2>0, <2>1 DEF AddCreator, Join, AddMember, RemoveMember, Delete
  <2> QED
    BY <2>0, <2>1, WhoChangesRoles DEF UpdateMemberRole, Calling
<1>2. IInv /\ [Next]_vars => [P]_vars
  BY <1>1
<1> QED  BY InitIInv, IInvStep, <1>2, PTL DEF Spec, OnlyNamedDemotes

\* An administrator who is not alone in a list that OnlyAdmin lets pass has
\* another administrator beside him, or nobody.
LEMMA NotTheOnlyAdmin ==
  ASSUME NEW roles \in [User -> Role], NEW u \in User, roles[u] = "admin",
         ~OnlyAdmin(roles), NEW v \in User, v # u, roles[v] # "none"
  PROVE  \E w \in User : w # u /\ roles[w] = "admin"
<1> SUFFICES ASSUME \A w \in User : w # u => roles[w] # "admin" PROVE FALSE
  OBVIOUS
<1>1. Admins(roles) = {u}
  BY DEF Admins
<1>2. Cardinality(Admins(roles)) = 1
  BY <1>1, FS_Singleton
<1>3. {u, v} \subseteq Members(roles) /\ Members(roles) \subseteq User
  BY DEF Members
<1>4. IsFiniteSet(Members(roles))
  BY <1>3, UserAssumption, FS_Subset
<1>5. Cardinality({u, v}) = 2
  <2>1. IsFiniteSet({u}) /\ Cardinality({u}) = 1
    BY FS_Singleton
  <2>2. Cardinality({u} \cup {v}) = 2
    BY <2>1, FS_AddElement
  <2> QED  BY <2>2
<1>6. Cardinality({u, v}) <= Cardinality(Members(roles))
  BY <1>3, <1>4, FS_Subset
<1>7. Cardinality(Members(roles)) \in Nat
  BY <1>4, FS_CardinalityType
<1> QED  BY <1>2, <1>5, <1>6, <1>7 DEF OnlyAdmin

\* While members stay the last administrator goes only by giving up the role
\* himself, or by a call that another has overtaken.
THEOREM AdminKept == Spec => AdminStays
<1> DEFINE Excused(c) ==
             /\ call'[c] # call[c]
             /\ \/ call[c].at \in {"leave", "remove", "setrole"} /\ Overtaken(c)
                \/ Calling(c, "setrole") /\ call[c].target = call[c].user
           P == HasAdmin /\ ~HasAdmin' /\ Members(role') # {}
                  => \E c \in Call : Excused(c)
<1>1. IInv /\ [Next]_vars => P
  <2> SUFFICES ASSUME IInv, [Next]_vars,
                      HasAdmin, ~HasAdmin', Members(role') # {}
               PROVE  \E c \in Call : Excused(c)
    OBVIOUS
  <2>0. role \in [User -> Role] /\ call \in [Call -> Local] /\ TypeOK
    BY DEF IInv, TypeOK
  <2>1. PICK a \in User : role[a] = "admin"
    BY DEF HasAdmin, Admins
  <2>2. \A w \in User : role'[w] # "admin"
    BY DEF HasAdmin, Admins
  <2>3. PICK v \in User : role'[v] # "none"
    BY DEF Members
  <2>4. ASSUME NEW c \in Call, AddCreator(c) \/ Join(c) \/ Delete(c)
        PROVE  FALSE
    BY <2>0, <2>1, <2>2, <2>3, <2>4
    DEF AddCreator, Join, AddMember, Delete, IInv, Named, Calling
  <2>5. ASSUME NEW c \in Call, RemoveMember(c)
        PROVE  Excused(c)
    <3>1. call'[c] # call[c]
      BY <2>0, <2>5, ReturnIdles DEF RemoveMember, Calling, Idle
    <3>2. role' = [role EXCEPT ![call[c].target] = "none"]
      BY <2>5 DEF RemoveMember
    <3>3. call[c].target = a /\ v # a /\ role[v] # "none"
            /\ \A w \in User : w # a => role[w] # "admin"
      BY <2>0, <2>1, <2>2, <2>3, <3>2
    <3>4. CASE Calling(c, "remove")
      <4>1. call[c].user \in User /\ call[c].user # a
        BY <3>3, <3>4 DEF IInv, Named, RemoveChecked, Calling
      <4> QED  BY <3>1, <3>3, <3>4, <4>1 DEF Overtaken, Calling
    <3>5. CASE Calling(c, "leave")
      <4>1. call[c].user = a
              /\ (call[c].list # None => ~OnlyAdmin(call[c].list))
        BY <3>3, <3>5 DEF IInv, LeaveChecked
      <4>2. ~OnlyAdmin(role) => FALSE
        BY <2>0, <2>1, <3>3, NotTheOnlyAdmin
      <4> QED  BY <2>1, <3>1, <3>5, <4>1, <4>2 DEF Overtaken, Calling
    <3> QED  BY <2>5, <3>4, <3>5 DEF RemoveMember
  <2>6. ASSUME NEW c \in Call, UpdateMemberRole(c)
        PROVE  Excused(c)
    <3>1. call[c].at = "setrole" /\ call[c].user \in User
      BY <2>6 DEF UpdateMemberRole, Calling, IInv, Named
    <3>2. role' # role
      BY <2>1, <2>2
    <3>3. /\ role' = [role EXCEPT ![call[c].target] = call[c].as]
          /\ Go(c, "readback")
      BY <2>6, <3>2 DEF UpdateMemberRole
    <3>4. call'[c] # call[c]
      BY <2>0, <3>1, <3>3, GoKeeps
    <3>5. call[c].target = a /\ \A w \in User : w # a => role[w] # "admin"
      BY <2>0, <2>1, <2>2, <3>3
    <3>6. CASE call[c].user = a
      BY <3>1, <3>4, <3>5, <3>6 DEF Calling
    <3>7. CASE call[c].user # a
      BY <3>1, <3>4, <3>5, <3>7 DEF Overtaken
    <3> QED  BY <3>6, <3>7
  <2>7. role' # role
    BY <2>1, <2>2
  <2> QED  BY <2>4, <2>5, <2>6, <2>7, WhoChangesRoles
<1>2. IInv /\ [Next]_vars => [P]_vars
  BY <1>1
<1> QED  BY InitIInv, IInvStep, <1>2, PTL DEF Spec, AdminStays

=============================================================================
