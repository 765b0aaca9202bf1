------------------------------- MODULE MCApart -------------------------------
(***************************************************************************)
(* Funds, Accounts, Recurring and NotificationHub in one run.  No variable *)
(* of one is read or written by another, so a behaviour of all four is an  *)
(* interleaving of four behaviours that do not see each other, and no      *)
(* property relates them: the run explores the four one at a time instead  *)
(* of every combination of their states.  The variable part, chosen at the *)
(* start, says which of them moves.                                        *)
(***************************************************************************)
EXTENDS Funds, Accounts, Recurring, NotificationHub, TLC

CONSTANTS ana, bob, carl, c1, c2, c3, g1, g2, f1, p1, p2, r1, r2, e1,
          s1, s2, s3, n1

VARIABLE part

\* The months of 2027 and the first ones of 2028.
MCMonthLength ==
  <<31, 28, 31, 30, 31, 30, 31, 31, 30, 31, 30, 31, 31, 29, 31, 30>>

MCSymmetry == Permutations({c1, c2, c3})

ApartInit ==
  /\ part \in {"funds", "accounts", "recurring", "hub"}
  /\ FundsInit
  /\ AccountsInit
  /\ RecurringInit
  /\ HubInit

FundsMove ==
  /\ part = "funds"
  /\ FundsNext
  /\ UNCHANGED <<accountVars, recurringVars, hubVars>>

AccountsMove ==
  /\ part = "accounts"
  /\ AccountsNext
  /\ UNCHANGED <<fundVars, recurringVars, hubVars>>

RecurringMoves ==
  /\ part = "recurring"
  /\ RecurringNext
  /\ UNCHANGED <<fundVars, accountVars, hubVars>>

HubMoves ==
  /\ part = "hub"
  /\ HubNext
  /\ UNCHANGED <<fundVars, accountVars, recurringVars>>

ApartNext ==
  /\ UNCHANGED part
  /\ FundsMove \/ AccountsMove \/ RecurringMoves \/ HubMoves

apartVars == <<part, fundVars, accountVars, recurringVars, hubVars>>

ApartSpec == ApartInit /\ [][ApartNext]_apartVars

\* Every variable of the four components holds a value of its type.
TypeOK == FundsTypeOK /\ AccountsTypeOK /\ RecurringTypeOK /\ HubTypeOK

=============================================================================
