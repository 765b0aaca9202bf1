----------------------------- MODULE Membership -----------------------------
(***************************************************************************)
(* The members of one colocation and their roles: ColocationService over   *)
(* the table colocation_members.  Whether a call may act is decided by a   *)
(* read of a role; the statement that acts comes later and does not look   *)
(* at roles again.                                                         *)
(*                                                                         *)
(* Invite codes are left out: once the colocation has had a member, who    *)
(* can read the code, whoever calls Join may present it.                   *)
(* Invitations by e-mail are rows that nothing redeems; names, addresses   *)
(* and the number of members in an answer play no part.                    *)
(***************************************************************************)
EXTENDS Integers, FiniteSets

CONSTANTS
  User,  \* registered users
  Call,  \* slots for handler executions in flight
  None   \* no user, no list

ASSUME NoneAssumption == None \notin User
ASSUME UserAssumption == IsFiniteSet(User)

VARIABLES
  colocation,  \* "unborn", "created" (no member yet), "open" or "deleted"
  role,        \* the role of every user, "none" without a row
  call         \* the local state of every handler execution

vars == <<colocation, role, call>>

-----------------------------------------------------------------------------
(* Data *)

Role == {"none", "member", "admin"}

\* target and as: whose role is to become what.  list: what ListMembers
\* returned, None when it was not called.
Local == [at : {"idle", "addcreator", "joincheck", "join", "leavecount",
                "leave", "remove", "setrole", "readback", "delete", "list"},
          user : User \cup {None}, target : User \cup {None}, as : Role,
          list : [User -> Role] \cup {None}]

Idle == [at |-> "idle", user |-> None, target |-> None, as |-> "none",
         list |-> None]

Calling(c, step) == call[c].at = step
Return(c)        == call' = [call EXCEPT ![c] = Idle]
Begin(c, step, u, v, r) ==
  call' = [call EXCEPT ![c] = [at |-> step, user |-> u, target |-> v,
                               as |-> r, list |-> None]]
Go(c, step) == call' = [call EXCEPT ![c].at = step]

\* A panic in a handler ends the process and every call in flight.
Panic == call' = [c \in Call |-> Idle]

Admins(roles)  == {u \in User : roles[u] = "admin"}
Members(roles) == {u \in User : roles[u] # "none"}

\* Variant in which inserting a member who is one already sets his role.
AddMemberOverwrites(u, r) ==
  role' = IF colocation = "open" THEN [role EXCEPT ![u] = r] ELSE role

\* INSERT ... ON CONFLICT DO NOTHING.  It fails without the colocation.
AddMember(u, r) ==
  role' = IF colocation = "open" /\ role[u] = "none"
          THEN [role EXCEPT ![u] = r] ELSE role

-----------------------------------------------------------------------------
(* Creating and joining *)

Create(c, u) ==
  /\ Calling(c, "idle")
  /\ colocation = "unborn"
  /\ colocation' = "created"
  /\ Begin(c, "addcreator", u, None, "none")
  /\ UNCHANGED role

\* A statement of its own: a failure leaves a colocation nobody can join.
AddCreator(c) ==
  /\ Calling(c, "addcreator")
  /\ colocation' = "open"
  /\ role' = [role EXCEPT ![call[c].user] = "admin"]
  /\ Return(c)

\* GetByInviteCode
JoinReads(c, u) ==
  /\ Calling(c, "idle")
  /\ colocation = "open"
  /\ Begin(c, "joincheck", u, None, "none")
  /\ UNCHANGED <<colocation, role>>

JoinChecks(c) ==
  /\ Calling(c, "joincheck")
  /\ IF role[call[c].user] = "none" THEN Go(c, "join") ELSE Return(c)
  /\ UNCHANGED <<colocation, role>>

Join(c) ==
  /\ Calling(c, "join")
  /\ AddMember(call[c].user, "member")
  /\ Return(c)
  /\ UNCHANGED colocation

-----------------------------------------------------------------------------
(* Leaving *)

LeaveReads(c, u) ==
  /\ Calling(c, "idle")
  /\ role[u] # "none"
  /\ Begin(c, IF role[u] = "admin" THEN "leavecount" ELSE "leave",
           u, u, "none")
  /\ UNCHANGED <<colocation, role>>

\* Variant that lets an administrator go while there is one, himself.
OnlyAdminOffByOne(roles) ==
  Cardinality(Admins(roles)) = 0 /\ Cardinality(Members(roles)) > 1

OnlyAdmin(roles) ==
  Cardinality(Admins(roles)) = 1 /\ Cardinality(Members(roles)) > 1

\* ListMembers.  The list may be older than the DELETE that relies on it.
LeaveCounts(c) ==
  /\ Calling(c, "leavecount")
  /\ IF OnlyAdmin(role)
     THEN Return(c)
     ELSE call' = [call EXCEPT ![c].at = "leave", ![c].list = role]
  /\ UNCHANGED <<colocation, role>>

\* The DELETE of Leave and of RemoveMember
RemoveMember(c) ==
  /\ Calling(c, "leave") \/ Calling(c, "remove")
  /\ role' = [role EXCEPT ![call[c].target] = "none"]
  /\ Return(c)
  /\ UNCHANGED colocation

-----------------------------------------------------------------------------
(* What administrators do to others, and to themselves *)

\* Variant in which being a member is enough.
MayAdministerMember(u) == role[u] # "none"

MayAdminister(u) == role[u] = "admin"

RemoveReads(c, u, v) ==
  /\ Calling(c, "idle")
  /\ MayAdminister(u)
  /\ u # v
  /\ Begin(c, "remove", u, v, "none")
  /\ UNCHANGED <<colocation, role>>

\* The target may be the caller: nothing keeps the last administrator.
RoleReads(c, u, v, r) ==
  /\ Calling(c, "idle")
  /\ MayAdminister(u)
  /\ Begin(c, "setrole", u, v, r)
  /\ UNCHANGED <<colocation, role>>

UpdateMemberRole(c) ==
  /\ Calling(c, "setrole")
  /\ IF role[call[c].target] = "none"
     THEN Return(c) /\ UNCHANGED role
     ELSE /\ role' = [role EXCEPT ![call[c].target] = call[c].as]
          /\ Go(c, "readback")
  /\ UNCHANGED colocation

\* memberToProto dereferences the member read again, nil when he has left.
ReadBack(c) ==
  /\ Calling(c, "readback")
  /\ IF role[call[c].target] = "none" THEN Panic ELSE Return(c)
  /\ UNCHANGED <<colocation, role>>

DeleteReads(c, u) ==
  /\ Calling(c, "idle")
  /\ MayAdminister(u)
  /\ Begin(c, "delete", u, None, "none")
  /\ UNCHANGED <<colocation, role>>

\* Variant without the cascade to the members.
DeleteKeepsMembers(c) ==
  /\ Calling(c, "delete")
  /\ colocation' = "deleted"
  /\ Return(c)
  /\ UNCHANGED role

Delete(c) ==
  /\ Calling(c, "delete")
  /\ colocation' = "deleted"
  /\ role' = [u \in User |-> "none"]
  /\ Return(c)

-----------------------------------------------------------------------------
(* Listing one's colocations *)

ListReads(c, u) ==
  /\ Calling(c, "idle")
  /\ role[u] # "none"
  /\ Begin(c, "list", u, None, "none")
  /\ UNCHANGED <<colocation, role>>

\* List dereferences the membership it reads for every colocation.
List(c) ==
  /\ Calling(c, "list")
  /\ IF role[call[c].user] = "none" THEN Panic ELSE Return(c)
  /\ UNCHANGED <<colocation, role>>

-----------------------------------------------------------------------------

\* The context is cancelled or the next statement fails.
Abandon(c) ==
  /\ ~Calling(c, "idle")
  /\ Return(c)
  /\ UNCHANGED <<colocation, role>>

Init ==
  /\ colocation = "unborn"
  /\ role = [u \in User |-> "none"]
  /\ call = [c \in Call |-> Idle]

Next ==
  \E c \in Call :
    \/ \E u \in User : \/ Create(c, u)
                       \/ JoinReads(c, u)
                       \/ LeaveReads(c, u)
                       \/ DeleteReads(c, u)
                       \/ ListReads(c, u)
                       \/ \E v \in User : RemoveReads(c, u, v)
                       \/ \E v \in User, r \in {"member", "admin"} :
                            RoleReads(c, u, v, r)
    \/ AddCreator(c)
    \/ JoinChecks(c)
    \/ Join(c)
    \/ LeaveCounts(c)
    \/ RemoveMember(c)
    \/ UpdateMemberRole(c)
    \/ ReadBack(c)
    \/ Delete(c)
    \/ List(c)
    \/ Abandon(c)

Spec == Init /\ [][Next]_vars

-----------------------------------------------------------------------------
(* Properties *)

\* The variables have their types, and only an open colocation has members,
\* whatever calls were under way when it was deleted.
TypeOK ==
  /\ colocation \in {"unborn", "created", "open", "deleted"}
  /\ role \in [User -> Role]
  /\ call \in [Call -> Local]
  /\ colocation # "open" => Members(role) = {}

HasAdmin == Admins(role) # {}

\* What the call was admitted on no longer holds: the administrator who acts
\* has lost the role, the plain member who leaves has been given it, or the
\* list that was counted is not the table.
Overtaken(c) ==
  IF call[c].at # "leave"     THEN role[call[c].user] # "admin"
  ELSE IF call[c].list = None THEN role[call[c].user] = "admin"
  ELSE call[c].list # role

\* While members stay they have an administrator: he goes only by giving up
\* the role himself, or by a call that another call has overtaken (two
\* administrators leave at once, each relying on the other).
AdminStays ==
  [][HasAdmin /\ ~HasAdmin' /\ Members(role') # {}
       => \E c \in Call :
            /\ call'[c] # call[c]
            /\ \/ call[c].at \in {"leave", "remove", "setrole"} /\ Overtaken(c)
               \/ Calling(c, "setrole") /\ call[c].target = call[c].user]_vars

AdminUnderWay == \E c \in Call : Calling(c, "setrole")

\* A colocation that has lost its administrators (the last one left, or gave
\* the role up) never gets one again, once the calls that could have named
\* one are over: joining does not help, and nobody may name one.
NoAdminIsForever ==
  [][colocation = "open" /\ ~HasAdmin /\ ~AdminUnderWay
       => ~HasAdmin' /\ ~AdminUnderWay']_vars

\* Only a call to change his role makes an administrator a plain member: a
\* Join of his that read before he was a member does not.
OnlyNamedDemotes ==
  [][\A u \in User : role[u] = "admin" /\ role'[u] = "member"
       => \E c \in Call : call[c].at = "setrole" /\ call[c].target = u
                            /\ call[c].as = "member"]_vars

=============================================================================
