------------------------------ MODULE EndsProofs ------------------------------
(***************************************************************************)
(* Proofs about the three components of MCEnds, for any values of their    *)
(* constants.  Each part is about one of them and its own specification.   *)
(*                                                                         *)
(* MinCashFlow: a transfer takes the smaller of a debt and a credit, so it *)
(* leaves a member less to be settled (CountedOff); it also needs two      *)
(* members to begin with, which is why the last one left never pays.  What *)
(* the transfers so far move is the difference between the balances given  *)
(* and those left, no balance changes its sign, and the total stays as it  *)
(* was (BooksInv).                                                         *)
(*                                                                         *)
(* Discovery and ConnPool count: the slots taken are the searches under    *)
(* way, and the connections taken are those the handlers hold.             *)
(***************************************************************************)
EXTENDS MCEnds, SumTheorems, SequenceTheorems

-----------------------------------------------------------------------------
(* MinCashFlow *)

\* The members still to be settled.
Open == {i \in Person : balances[i] # 0}

CountedOff == Len(result) + Cardinality(Open) <= N

SettlingInv == TypeOK /\ CountedOff /\ FewTransfers

\* There are N members.
LEMMA PersonFinite ==
  ASSUME NEW S \in SUBSET Person
  PROVE  IsFiniteSet(S) /\ Cardinality(S) \in Nat /\ Cardinality(S) <= N
<1>1. N \in Nat /\ Person = 1..N
  BY NAssumption DEF Person
<1>2. IsFiniteSet(Person) /\ Cardinality(Person) = N
  BY <1>1, FS_Interval
<1> QED  BY <1>2, FS_Subset, FS_CardinalityType

\* Before the first transfer at most all members are open.
LEMMA SettlingInitInv == Init => SettlingInv
<1> SUFFICES ASSUME Init PROVE SettlingInv
  OBVIOUS
<1>1. TypeOK
  BY InputsAssumption, EmptySeq DEF Init, TypeOK
<1>2. Len(result) = 0
  BY EmptySeq DEF Init
<1>3. Cardinality(Open) \in Nat /\ Cardinality(Open) <= N
  BY PersonFinite DEF Open
<1> QED
  BY <1>1, <1>2, <1>3, NAssumption DEF SettlingInv, CountedOff, FewTransfers

\* A transfer is of a positive amount from one member to another and closes
\* one of them; nobody who was settled is opened again.
LEMMA RecurseStep ==
  ASSUME TypeOK, NEW c \in MaxIndices(balances), NEW d \in MinIndices(balances),
         ~NothingToTransfer(balances[c], balances[d]),
         Settle(c, d, Transfer(balances[c], balances[d]))
  PROVE  /\ c \in Person /\ d \in Person /\ c # d
         /\ Transfer(balances[c], balances[d]) \in Nat \ {0}
         /\ balances' \in [Person -> Int]
         /\ c \in Open /\ d \in Open
         /\ Open' \subseteq Open \ {c} \/ Open' \subseteq Open \ {d}
<1> DEFINE amount == Transfer(balances[c], balances[d])
<1>1. c \in Person /\ d \in Person /\ balances \in [Person -> Int]
  BY DEF MaxIndices, MinIndices, TypeOK
<1>2. /\ amount \in Nat \ {0} /\ balances[c] > 0 /\ balances[d] < 0
      /\ amount = balances[c] \/ amount = -balances[d]
  BY <1>1 DEF NothingToTransfer, Transfer, Lesser
<1>3. c # d /\ c \in Open /\ d \in Open
  BY <1>1, <1>2 DEF Open
<1>4. balances' = [balances EXCEPT ![c] = @ - amount, ![d] = @ + amount]
  BY DEF Settle
<1> HIDE DEF amount
<1>5. /\ balances' \in [Person -> Int]
      /\ balances'[c] = balances[c] - amount
      /\ balances'[d] = balances[d] + amount
      /\ \A i \in Person \ {c, d} : balances'[i] = balances[i]
  BY <1>1, <1>2, <1>3, <1>4
<1>6. balances'[c] = 0 \/ balances'[d] = 0
  BY <1>1, <1>2, <1>5
<1>7. Open' \subseteq Open
  BY <1>3, <1>5 DEF Open
<1>8. Open' \subseteq Open \ {c} \/ Open' \subseteq Open \ {d}
  BY <1>6, <1>7 DEF Open
<1> QED  BY <1>1, <1>2, <1>3, <1>5, <1>8 DEF amount

\* Every step keeps the inductive invariant.
LEMMA SettlingNextInv == ASSUME SettlingInv, [Next]_vars PROVE SettlingInv'
<1>1. CASE Recurse
  <2>1. PICK c \in MaxIndices(balances), d \in MinIndices(balances) :
          /\ ~NothingToTransfer(balances[c], balances[d])
          /\ Settle(c, d, Transfer(balances[c], balances[d]))
          /\ result' = Append(result,
                         [from |-> d, to |-> c,
                          amount |-> Transfer(balances[c], balances[d])])
    BY <1>1 DEF Recurse
  <2>2. /\ c \in Person /\ d \in Person /\ c # d
        /\ Transfer(balances[c], balances[d]) \in Nat \ {0}
        /\ balances' \in [Person -> Int]
        /\ c \in Open /\ d \in Open
        /\ Open' \subseteq Open \ {c} \/ Open' \subseteq Open \ {d}
    BY <2>1, RecurseStep DEF SettlingInv
  <2> DEFINE edge == [from |-> d, to |-> c,
                      amount |-> Transfer(balances[c], balances[d])]
  <2>3. edge \in DebtEdge
    BY <2>2 DEF DebtEdge
  <2>4. result' = Append(result, edge) /\ result \in Seq(DebtEdge)
    BY <2>1 DEF SettlingInv, TypeOK
  <2> HIDE DEF edge
  <2>5. result' \in Seq(DebtEdge) /\ Len(result') = Len(result) + 1
          /\ Len(result) \in Nat
    BY <2>3, <2>4, AppendProperties, LenProperties
  <2>6. TypeOK'
    BY <1>1, <2>2, <2>5 DEF Recurse, SettlingInv, TypeOK
  <2>7. Cardinality(Open)' \in Nat /\ Cardinality(Open') < Cardinality(Open)
    <3>1. ASSUME NEW i \in Open, Open' \subseteq Open \ {i}
          PROVE  Cardinality(Open') <= Cardinality(Open) - 1
      <4>1. IsFiniteSet(Open) /\ Cardinality(Open) \in Nat
        BY PersonFinite DEF Open
      <4>2. IsFiniteSet(Open \ {i})
              /\ Cardinality(Open \ {i}) = Cardinality(Open) - 1
        BY <4>1, FS_RemoveElement
      <4> QED  BY <3>1, <4>2, FS_Subset
    <3>2. Cardinality(Open) \in Nat /\ Cardinality(Open') \in Nat
      <4>1. Open \in SUBSET Person /\ Open' \in SUBSET Person
        BY DEF Open
      <4> QED  BY <4>1, PersonFinite
    <3> QED  BY <2>2, <3>1, <3>2
  <2>8. Cardinality(Open) \in Nat /\ 2 <= Cardinality(Open)
    <3>1. IsFiniteSet(Open) /\ Cardinality(Open) \in Nat
      BY PersonFinite DEF Open
    <3>2. Cardinality({c, d}) = 2
      <4>1. IsFiniteSet({c}) /\ Cardinality({c}) = 1
        BY FS_Singleton
      <4>2. d \notin {c}
        BY <2>2
      <4>3. Cardinality({c} \cup {d})
              = IF d \in {c} THEN Cardinality({c}) ELSE Cardinality({c}) + 1
        BY ONLY <4>1, FS_AddElement
      <4>4. {c, d} = {c} \cup {d}
        OBVIOUS
      <4> QED  BY <4>1, <4>2, <4>3, <4>4
    <3>3. {c, d} \subseteq Open
      BY <2>2
    <3>4. Cardinality({c, d}) <= Cardinality(Open)
      BY <3>1, <3>3, FS_Subset
    <3> QED  BY <3>1, <3>2, <3>4
  <2>9. CountedOff' /\ FewTransfers'
    BY <2>5, <2>7, <2>8, NAssumption DEF SettlingInv, CountedOff, FewTransfers
  <2> QED  BY <2>6, <2>9 DEF SettlingInv
<1>2. CASE Stop
  BY <1>2 DEF Stop, SettlingInv, TypeOK, CountedOff, FewTransfers, Open
<1>3. CASE UNCHANGED vars
  BY <1>3 DEF vars, SettlingInv, TypeOK, CountedOff, FewTransfers, Open
<1> QED  BY <1>1, <1>2, <1>3 DEF Next

\* The inductive invariant holds in every state of every behaviour.
LEMMA SettlingInvHolds == Spec => []SettlingInv
BY SettlingInitInv, SettlingNextInv, PTL DEF Spec

\* The locals keep their types: every proposed transfer is of a cent or more
\* between members.
THEOREM TransfersTypeCorrect == Spec => []TypeOK
<1>1. SettlingInv => TypeOK
  BY DEF SettlingInv
<1> QED  BY <1>1, SettlingInvHolds, PTL

\* N members never need more than N - 1 transfers.
THEOREM TransfersBounded == Spec => []FewTransfers
<1>1. SettlingInv => FewTransfers
  BY DEF SettlingInv
<1> QED  BY <1>1, SettlingInvHolds, PTL

-----------------------------------------------------------------------------
(* What the transfers move *)

MovedIn(s, edges) == SumFunction([k \in edges |-> s[k].amount])

From(s, i) == {k \in DOMAIN s : s[k].from = i}
To(s, i)   == {k \in DOMAIN s : s[k].to = i}

\* balances is what the transfers so far leave of netBalances.
BooksBalance ==
  \A i \in Person : balances[i] = netBalances[i] + PaidBy(i) - PaidTo(i)

\* A balance never changes its sign: creditors only receive and debtors only
\* pay.
OneWay ==
  \A i \in Person :
    /\ netBalances[i] >= 0 => PaidBy(i) = 0 /\ balances[i] >= 0
    /\ netBalances[i] <= 0 => PaidTo(i) = 0 /\ balances[i] <= 0

\* Where the recursion has stopped, nothing is left that it could transfer.
Exhausted ==
  done => \/ N = 1
          \/ \A i \in Person : balances[i] \in -1..1
          \/ \A i \in Person : balances[i] <= 0
          \/ \A i \in Person : balances[i] >= 0

SameTotal == Total(balances) = Total(netBalances)

BooksInv == BooksBalance /\ OneWay /\ Exhausted /\ SameTotal

\* Some of the transfers: finitely many, each of an amount.
LEMMA EdgesFinite ==
  ASSUME NEW s \in Seq(DebtEdge), NEW E \in SUBSET DOMAIN s
  PROVE  /\ IsFiniteSet(E)
         /\ \A k \in E : s[k] \in DebtEdge /\ s[k].amount \in Nat
<1>1. Len(s) \in Nat /\ DOMAIN s = 1..Len(s) /\ \A k \in 1..Len(s) : s[k] \in DebtEdge
  BY LenProperties, ElementOfSeq
<1>2. IsFiniteSet(DOMAIN s)
  BY <1>1, FS_Interval
<1> QED  BY <1>1, <1>2, FS_Subset DEF DebtEdge

\* What they move is a natural.
LEMMA MovedIsNat ==
  ASSUME NEW s \in Seq(DebtEdge), NEW E \in SUBSET DOMAIN s
  PROVE  MovedIn(s, E) \in Nat
<1> DEFINE fun == [k \in E |-> s[k].amount]
<1>1. IsFiniteSet(E) /\ DOMAIN fun = E /\ \A k \in E : fun[k] \in Nat
  BY EdgesFinite
<1> HIDE DEF fun
<1>2. SumFunctionOnSet(fun, E) \in Nat
  BY <1>1, SumBoundsTerms
<1> QED  BY <1>1, <1>2 DEF fun, MovedIn, SumFunction

\* A transfer more moves its amount more.
LEMMA MovedByOneMore ==
  ASSUME NEW s \in Seq(DebtEdge), NEW edge \in DebtEdge, NEW E \in SUBSET DOMAIN s
  PROVE  LET t == Append(s, edge)
             n == Len(s) + 1
         IN  /\ DOMAIN t = DOMAIN s \cup {n} /\ n \notin DOMAIN s
             /\ t[n] = edge /\ \A k \in DOMAIN s : t[k] = s[k]
             /\ MovedIn(t, E) = MovedIn(s, E)
             /\ MovedIn(t, E \cup {n}) = MovedIn(s, E) + edge.amount
<1> DEFINE t == Append(s, edge)
           n == Len(s) + 1
           fun == [k \in E |-> s[k].amount]
           same == [k \in E |-> t[k].amount]
           hun == [k \in E \cup {n} |-> t[k].amount]
<1>1. /\ Len(s) \in Nat /\ DOMAIN s = 1..Len(s)
      /\ t \in Seq(DebtEdge) /\ Len(t) = n /\ t[n] = edge
      /\ \A k \in 1..Len(s) : t[k] = s[k]
  BY AppendProperties, LenProperties
<1>2. DOMAIN t = 1..n
  BY <1>1, LenProperties
<1>3. DOMAIN t = DOMAIN s \cup {n} /\ n \notin DOMAIN s
  BY <1>1, <1>2
<1>4. IsFiniteSet(E) /\ \A k \in E : t[k] = s[k] /\ s[k].amount \in Int
  BY <1>1, EdgesFinite
<1> HIDE DEF t, n
<1>5. same = fun
  BY <1>4
<1>6. DOMAIN fun = E /\ \A k \in E : fun[k] \in Int
  BY <1>4
<1>7. hun[n] = edge.amount /\ edge.amount \in Int
  BY <1>1 DEF DebtEdge
<1>8. DOMAIN hun = E \cup {n} /\ hun[n] \in Int
  BY <1>7
<1>9. \A k \in E : hun[k] = fun[k]
  BY <1>4
<1>10. /\ MovedIn(s, E) = SumFunction(fun) /\ MovedIn(t, E) = SumFunction(same)
       /\ MovedIn(t, E \cup {n}) = SumFunction(hun)
  BY DEF MovedIn
<1> HIDE DEF fun, hun, same
<1>11. SumFunction(hun) = SumFunction(fun) + hun[n]
  <2>1. IsFiniteSet(E) /\ n \notin E
    BY <1>3, <1>4
  <2> QED  BY ONLY <1>6, <1>8, <1>9, <2>1, SumGrows
<1> QED  BY <1>1, <1>3, <1>5, <1>7, <1>10, <1>11 DEF t, n

\* What one more transfer adds to what a member pays and receives.
LEMMA PaidStep ==
  ASSUME TypeOK, NEW edge \in DebtEdge, result' = Append(result, edge),
         NEW i \in Person
  PROVE  /\ PaidBy(i) \in Nat /\ PaidTo(i) \in Nat
         /\ PaidBy(i)' = PaidBy(i) + (IF edge.from = i THEN edge.amount ELSE 0)
         /\ PaidTo(i)' = PaidTo(i) + (IF edge.to = i THEN edge.amount ELSE 0)
<1> DEFINE n == Len(result) + 1
<1>1. result \in Seq(DebtEdge) /\ edge.amount \in Nat
  BY DEF TypeOK, DebtEdge
<1>2. From(result, i) \in SUBSET DOMAIN result /\ To(result, i) \in SUBSET DOMAIN result
  BY DEF From, To
<1>3. /\ DOMAIN result' = DOMAIN result \cup {n} /\ n \notin DOMAIN result
      /\ result'[n] = edge /\ \A k \in DOMAIN result : result'[k] = result[k]
      /\ \A E \in SUBSET DOMAIN result :
           /\ MovedIn(result', E) = MovedIn(result, E)
           /\ MovedIn(result', E \cup {n}) = MovedIn(result, E) + edge.amount
           /\ MovedIn(result, E) \in Nat
  BY <1>1, MovedByOneMore, MovedIsNat
<1> HIDE DEF n
<1>4. /\ PaidBy(i) = MovedIn(result, From(result, i))
      /\ PaidTo(i) = MovedIn(result, To(result, i))
      /\ PaidBy(i)' = MovedIn(result', From(result', i))
      /\ PaidTo(i)' = MovedIn(result', To(result', i))
  BY DEF PaidBy, PaidTo, Moved, MovedIn, From, To
<1>5. From(result', i) = IF edge.from = i THEN From(result, i) \cup {n} ELSE From(result, i)
  BY <1>3 DEF From
<1>6. To(result', i) = IF edge.to = i THEN To(result, i) \cup {n} ELSE To(result, i)
  BY <1>3 DEF To
<1>7. PaidBy(i)' = PaidBy(i) + (IF edge.from = i THEN edge.amount ELSE 0)
  <2>1. CASE edge.from = i
    <3>1. MovedIn(result', From(result, i) \cup {n})
            = MovedIn(result, From(result, i)) + edge.amount
      BY <1>2, <1>3
    <3> QED  BY <1>4, <1>5, <2>1, <3>1
  <2>2. CASE edge.from # i
    <3>1. /\ MovedIn(result', From(result, i)) = MovedIn(result, From(result, i))
          /\ MovedIn(result, From(result, i)) \in Nat
      BY <1>2, <1>3
    <3> QED  BY <1>4, <1>5, <2>2, <3>1
  <2> QED  BY <2>1, <2>2
<1>8. PaidTo(i)' = PaidTo(i) + (IF edge.to = i THEN edge.amount ELSE 0)
  <2>1. CASE edge.to = i
    <3>1. MovedIn(result', To(result, i) \cup {n})
            = MovedIn(result, To(result, i)) + edge.amount
      BY <1>2, <1>3
    <3> QED  BY <1>4, <1>6, <2>1, <3>1
  <2>2. CASE edge.to # i
    <3>1. /\ MovedIn(result', To(result, i)) = MovedIn(result, To(result, i))
          /\ MovedIn(result, To(result, i)) \in Nat
      BY <1>2, <1>3
    <3> QED  BY <1>4, <1>6, <2>2, <3>1
  <2> QED  BY <2>1, <2>2
<1> QED  BY <1>2, <1>3, <1>4, <1>7, <1>8

\* Before the first transfer nothing is moved.
LEMMA InitBooks == Init => BooksInv
<1> SUFFICES ASSUME Init PROVE BooksInv
  OBVIOUS
<1>1. \A i \in Person : PaidBy(i) = 0 /\ PaidTo(i) = 0
  <2> SUFFICES ASSUME NEW i \in Person PROVE PaidBy(i) = 0 /\ PaidTo(i) = 0
    OBVIOUS
  <2>1. DOMAIN result = {}
    BY EmptySeq DEF Init
  <2>2. {k \in DOMAIN result : result[k].from = i} = {}
        /\ {k \in DOMAIN result : result[k].to = i} = {}
    BY <2>1
  <2>3. SumFunction([k \in {} |-> result[k].amount]) = 0
    BY SumOfNothing DEF SumFunction
  <2> QED  BY <2>2, <2>3 DEF PaidBy, PaidTo, Moved
<1>2. balances = netBalances /\ netBalances \in [Person -> Int] /\ ~done
  BY InputsAssumption DEF Init
<1> QED  BY <1>1, <1>2
         DEF BooksInv, BooksBalance, OneWay, Exhausted, SameTotal

\* A transfer is booked on both sides.
LEMMA RecurseBooks ==
  ASSUME TypeOK, BooksInv, Recurse
  PROVE  BooksInv'
<1>1. PICK c \in MaxIndices(balances), d \in MinIndices(balances) :
        /\ ~NothingToTransfer(balances[c], balances[d])
        /\ Settle(c, d, Transfer(balances[c], balances[d]))
        /\ result' = Append(result,
                       [from |-> d, to |-> c,
                        amount |-> Transfer(balances[c], balances[d])])
  BY DEF Recurse
<1> DEFINE amount == Transfer(balances[c], balances[d])
           edge == [from |-> d, to |-> c, amount |-> amount]
<1>2. /\ c \in Person /\ d \in Person /\ c # d
      /\ amount \in Nat \ {0}
      /\ balances \in [Person -> Int] /\ netBalances \in [Person -> Int]
  BY <1>1, RecurseStep DEF TypeOK
<1>3. amount <= balances[c] /\ amount <= -balances[d]
  BY <1>2 DEF Transfer, Lesser
<1>4. /\ balances' = [balances EXCEPT ![c] = @ - amount, ![d] = @ + amount]
      /\ netBalances' = netBalances /\ done' = done /\ ~done
  BY <1>1 DEF Settle, Recurse
<1>5. edge \in DebtEdge /\ edge.from = d /\ edge.to = c /\ edge.amount = amount
  BY <1>2 DEF DebtEdge
<1>6. result' = Append(result, edge)
  BY <1>1
<1> HIDE DEF amount, edge
<1>7. /\ balances'[c] = balances[c] - amount
      /\ balances'[d] = balances[d] + amount
      /\ \A i \in Person \ {c, d} : balances'[i] = balances[i]
      /\ balances' \in [Person -> Int]
  BY <1>2, <1>4
<1>8. \A i \in Person :
        /\ PaidBy(i) \in Nat /\ PaidTo(i) \in Nat
        /\ PaidBy(i)' = PaidBy(i) + (IF d = i THEN amount ELSE 0)
        /\ PaidTo(i)' = PaidTo(i) + (IF c = i THEN amount ELSE 0)
  BY <1>5, <1>6, PaidStep
<1>9. ASSUME NEW i \in Person
      PROVE  /\ balances'[i] = netBalances'[i] + PaidBy(i)' - PaidTo(i)'
             /\ netBalances'[i] >= 0 => PaidBy(i)' = 0 /\ balances'[i] >= 0
             /\ netBalances'[i] <= 0 => PaidTo(i)' = 0 /\ balances'[i] <= 0
  <2> DEFINE by == PaidBy(i)
             to == PaidTo(i)
  <2>1. /\ by \in Nat /\ to \in Nat
        /\ balances[i] = netBalances[i] + by - to
        /\ netBalances[i] >= 0 => by = 0 /\ balances[i] >= 0
        /\ netBalances[i] <= 0 => to = 0 /\ balances[i] <= 0
    BY <1>8 DEF BooksInv, BooksBalance, OneWay
  <2>2. /\ PaidBy(i)' = by + (IF d = i THEN amount ELSE 0)
        /\ PaidTo(i)' = to + (IF c = i THEN amount ELSE 0)
    BY <1>8
  <2> HIDE DEF by, to
  <2>3. balances[i] \in Int /\ netBalances[i] \in Int /\ netBalances'[i] = netBalances[i]
    BY <1>2, <1>4
  <2>4. CASE i = c
    BY <1>2, <1>3, <1>7, <2>1, <2>2, <2>3, <2>4
  <2>5. CASE i = d
    BY <1>2, <1>3, <1>7, <2>1, <2>2, <2>3, <2>5
  <2>6. CASE i # c /\ i # d
    BY <1>7, <2>1, <2>2, <2>3, <2>6
  <2> QED  BY <2>4, <2>5, <2>6
<1>10. SameTotal'
  <2>1. IsFiniteSet(Person)
    BY PersonFinite
  <2>2. \A i \in Person : balances[i] \in Int
    BY <1>2
  <2>3. SumFunctionOnSet(balances', Person) = SumFunctionOnSet(balances, Person)
    BY <1>2, <1>7, <2>1, <2>2, SumOfTransfer
  <2>4. DOMAIN balances = Person /\ DOMAIN balances' = Person
    BY <1>2, <1>7
  <2>5. Total(balances') = Total(balances)
    BY <2>3, <2>4 DEF Total, SumFunction
  <2> QED  BY <1>4, <2>5 DEF BooksInv, SameTotal
<1> QED  BY <1>4, <1>9, <1>10 DEF BooksInv, BooksBalance, OneWay, Exhausted

\* The recursion stops where the largest credit or debt is a cent or none.
LEMMA StopBooks ==
  ASSUME TypeOK, BooksInv, Stop
  PROVE  BooksInv'
<1>1. UNCHANGED <<netBalances, balances, result>>
  BY DEF Stop
<1>2. Exhausted'
  <2>1. CASE N = 1
    BY <2>1 DEF Exhausted
  <2>2. CASE \E c \in MaxIndices(balances), d \in MinIndices(balances) :
               \/ SeemZero(balances[c], balances[d])
               \/ NothingToTransfer(balances[c], balances[d])
    <3>1. PICK c \in MaxIndices(balances), d \in MinIndices(balances) :
                 \/ SeemZero(balances[c], balances[d])
                 \/ NothingToTransfer(balances[c], balances[d])
      BY <2>2
    <3>2. /\ c \in Person /\ d \in Person
          /\ \A i \in Person : /\ balances[i] \in Int
                               /\ balances[d] <= balances[i]
                               /\ balances[i] <= balances[c]
      BY DEF MaxIndices, MinIndices, TypeOK
    <3>3. CASE SeemZero(balances[c], balances[d])
      <4>1. \A i \in Person : balances[i] \in -1..1
        BY <3>2, <3>3 DEF SeemZero
      <4> QED  BY <1>1, <4>1 DEF Exhausted
    <3>4. CASE NothingToTransfer(balances[c], balances[d])
      <4>1. balances[d] >= 0 \/ balances[c] <= 0
        BY <3>2, <3>4 DEF NothingToTransfer, Transfer, Lesser
      <4>2. \/ \A i \in Person : balances[i] >= 0
            \/ \A i \in Person : balances[i] <= 0
        BY <3>2, <4>1
      <4> QED  BY <1>1, <4>2 DEF Exhausted
    <3> QED  BY <3>1, <3>3, <3>4
  <2> QED  BY <2>1, <2>2 DEF Stop
<1>3. BooksBalance' /\ OneWay' /\ SameTotal'
  BY <1>1 DEF BooksInv, BooksBalance, OneWay, SameTotal, PaidBy, PaidTo, Moved
<1> QED  BY <1>2, <1>3 DEF BooksInv

\* Every step keeps the books.
LEMMA BooksStep == SettlingInv /\ BooksInv /\ [Next]_vars => BooksInv'
<1> SUFFICES ASSUME SettlingInv, BooksInv, [Next]_vars
             PROVE  BooksInv'
  OBVIOUS
<1>1. CASE Recurse
  BY <1>1, RecurseBooks DEF SettlingInv
<1>2. CASE Stop
  BY <1>2, StopBooks DEF SettlingInv
<1>3. CASE UNCHANGED vars
  BY <1>3 DEF vars, BooksInv, BooksBalance, OneWay, Exhausted, SameTotal,
              PaidBy, PaidTo, Moved
<1> QED  BY <1>1, <1>2, <1>3 DEF Next

\* The books are right at all times.
LEMMA Books == Spec => [](SettlingInv /\ BooksInv)
BY SettlingInitInv, SettlingNextInv, InitBooks, BooksStep, PTL DEF Spec

\* Who owes only pays and who is owed only receives, and never more than
\* that, for any balances and however ties are resolved.
THEOREM NobodyPaysTooMuch == Spec => []NobodyOvershoots
<1>1. SettlingInv /\ BooksInv => NobodyOvershoots
  <2> SUFFICES ASSUME SettlingInv, BooksInv, NEW i \in Person
               PROVE  /\ PaidBy(i) > 0 => PaidTo(i) = 0 /\ PaidBy(i) <= -netBalances[i]
                      /\ PaidTo(i) > 0 => PaidBy(i) = 0 /\ PaidTo(i) <= netBalances[i]
    BY DEF NobodyOvershoots
  <2> DEFINE by == PaidBy(i)
             to == PaidTo(i)
  <2>1. by \in Nat /\ to \in Nat
    <3>1. result \in Seq(DebtEdge)
      BY DEF SettlingInv, TypeOK
    <3>2. From(result, i) \in SUBSET DOMAIN result /\ To(result, i) \in SUBSET DOMAIN result
      BY DEF From, To
    <3> QED  BY <3>1, <3>2, MovedIsNat DEF PaidBy, PaidTo, Moved, MovedIn, From, To
  <2>2. /\ balances[i] = netBalances[i] + by - to
        /\ netBalances[i] >= 0 => by = 0 /\ balances[i] >= 0
        /\ netBalances[i] <= 0 => to = 0 /\ balances[i] <= 0
    BY DEF BooksInv, BooksBalance, OneWay
  <2>3. balances[i] \in Int /\ netBalances[i] \in Int
    BY DEF SettlingInv, TypeOK
  <2> HIDE DEF by, to
  <2>4. /\ by > 0 => to = 0 /\ by <= -netBalances[i]
        /\ to > 0 => by = 0 /\ to <= netBalances[i]
    BY <2>1, <2>2, <2>3
  <2> QED  BY <2>4 DEF by, to
<1> QED  BY <1>1, Books, PTL

\* When the recursion returns, the transfers leave no debt of more than a
\* cent to anybody who is owed, and nothing above a cent at all when the
\* balances cancel out.
THEOREM DebtsSettled == Spec => []Settles
<1>1. SettlingInv /\ BooksInv => Settles
  <2> SUFFICES ASSUME SettlingInv, BooksInv, done
               PROVE  /\ \/ N = 1
                         \/ \A i \in Person :
                              netBalances[i] + PaidBy(i) - PaidTo(i) <= 1
                         \/ \A i \in Person :
                              netBalances[i] + PaidBy(i) - PaidTo(i) >= -1
                      /\ Total(netBalances) = 0 =>
                           \A i \in Person :
                             netBalances[i] + PaidBy(i) - PaidTo(i) \in -1..1
    BY DEF Settles
  <2>1. \A i \in Person : balances[i] = netBalances[i] + PaidBy(i) - PaidTo(i)
    BY DEF BooksInv, BooksBalance
  <2>2. balances \in [Person -> Int]
    BY DEF SettlingInv, TypeOK
  <2>3. \/ N = 1
        \/ \A i \in Person : balances[i] \in -1..1
        \/ \A i \in Person : balances[i] <= 0
        \/ \A i \in Person : balances[i] >= 0
    BY DEF BooksInv, Exhausted
  <2>4. \/ N = 1
        \/ \A i \in Person : balances[i] <= 1
        \/ \A i \in Person : balances[i] >= -1
    BY <2>2, <2>3
  <2>5. ASSUME Total(netBalances) = 0
        PROVE  \A i \in Person : balances[i] \in -1..1
    <3>1. IsFiniteSet(Person) /\ DOMAIN balances = Person
          /\ \A i \in Person : balances[i] \in Int
      BY <2>2, PersonFinite
    <3>2. SumFunctionOnSet(balances, Person) = 0
      BY <2>5, <3>1 DEF BooksInv, SameTotal, Total, SumFunction
    <3>3. CASE \/ \A i \in Person : balances[i] <= 0
               \/ \A i \in Person : balances[i] >= 0
      <4>1. \A i \in Person : balances[i] = 0
        BY <3>1, <3>2, <3>3, SumOfOneSign
      <4> QED  BY <4>1
    <3>4. CASE N = 1
      <4>1. Person = {1}
        BY <3>4 DEF Person
      <4>2. (\A i \in Person : balances[i] <= 0) \/ (\A i \in Person : balances[i] >= 0)
        BY <3>1, <4>1
      <4> QED  BY <3>3, <4>2
    <3> QED  BY <2>3, <3>3, <3>4
  <2> QED  BY <2>1, <2>4, <2>5
<1> QED  BY <1>1, Books, PTL

-----------------------------------------------------------------------------
(* Discovery *)

\* A call that has tested the cooldown still knows an entry that is old enough.
TestedFresh ==
  \A c \in Search : search[c].at \in {"slot", "record"} =>
    /\ search[c].user \in Searcher
    /\ \/ search[c].tested = Never
       \/ clock - search[c].tested >= DiscoveryCooldown

DiscoveryInv == DiscoveryTypeOK /\ SlotsCounted /\ TestedFresh

\* A call that takes a slot is one more of those that hold one, a call that
\* gives it back one less, and a step that does neither leaves them alone.
LEMMA HoldersCounted ==
  ASSUME DiscoveryTypeOK, NEW c \in Search, NEW next \in SearchLocal,
         search' = [search EXCEPT ![c] = next]
  PROVE  /\ Cardinality(HoldsSlot) \in Nat
         /\ (c \in HoldsSlot) => Cardinality(HoldsSlot) # 0
         /\ Cardinality(HoldsSlot') =
              CASE c \in HoldsSlot /\ next.at \in {"record", "search"}
                     -> Cardinality(HoldsSlot)
                [] c \in HoldsSlot /\ next.at \notin {"record", "search"}
                     -> Cardinality(HoldsSlot) - 1
                [] c \notin HoldsSlot /\ next.at \in {"record", "search"}
                     -> Cardinality(HoldsSlot) + 1
                [] OTHER -> Cardinality(HoldsSlot)
<1>1. IsFiniteSet(HoldsSlot)
  BY FS_Subset, SearchAssumption DEF HoldsSlot
<1>2. HoldsSlot' = IF next.at \in {"record", "search"} THEN HoldsSlot \cup {c}
                   ELSE HoldsSlot \ {c}
  BY DEF HoldsSlot, DiscoveryTypeOK
<1>3. Cardinality(HoldsSlot) \in Nat
  BY <1>1, FS_CardinalityType
<1>4. (c \in HoldsSlot) => Cardinality(HoldsSlot) # 0
  BY <1>1, FS_EmptySet
<1>5. /\ Cardinality(HoldsSlot \cup {c}) =
           IF c \in HoldsSlot THEN Cardinality(HoldsSlot)
           ELSE Cardinality(HoldsSlot) + 1
      /\ Cardinality(HoldsSlot \ {c}) =
           IF c \in HoldsSlot THEN Cardinality(HoldsSlot) - 1
           ELSE Cardinality(HoldsSlot)
  BY <1>1, FS_AddElement, FS_RemoveElement
<1> QED  BY <1>2, <1>3, <1>4, <1>5

\* The local states that the steps of Discover put a call in.
LEMMA SearchLocals ==
  /\ SearchIdle \in SearchLocal
  /\ \A k \in SearchLocal, step \in {"idle", "slot", "record", "search"} :
       /\ [k EXCEPT !.at = step] \in SearchLocal
       /\ [k EXCEPT !.at = step].at = step
       /\ [k EXCEPT !.at = step].user = k.user
       /\ [k EXCEPT !.at = step].tested = k.tested
BY DEF SearchLocal, SearchIdle

\* No search and no slot taken.
LEMMA DiscoveryInitInv == DiscoveryInit => DiscoveryInv
<1> SUFFICES ASSUME DiscoveryInit  PROVE DiscoveryInv
  OBVIOUS
<1>1. DiscoveryTypeOK
  BY SearchLocals, LimitAssumption DEF DiscoveryInit, DiscoveryTypeOK
<1>2. HoldsSlot = {}
  BY DEF DiscoveryInit, HoldsSlot, SearchIdle
<1>3. SlotsCounted
  BY <1>2, FS_EmptySet, LimitAssumption DEF SlotsCounted, DiscoveryInit
<1>4. TestedFresh
  BY DEF TestedFresh, DiscoveryInit, SearchIdle
<1> QED  BY <1>1, <1>3, <1>4 DEF DiscoveryInv

\* Every step keeps the invariant.
LEMMA DiscoveryNextInv ==
  DiscoveryInv /\ [DiscoveryNext]_discoveryVars => DiscoveryInv'
<1> SUFFICES ASSUME DiscoveryInv, [DiscoveryNext]_discoveryVars
             PROVE  DiscoveryInv'
  OBVIOUS
<1> USE DEF DiscoveryInv
<1>0. /\ discoverySem \in Nat /\ clock \in Nat
      /\ DiscoveryRateLimit \in Nat /\ DiscoveryCooldown \in Nat
  BY LimitAssumption, CooldownAssumption DEF DiscoveryTypeOK
<1>1. ASSUME NEW c \in Search, NEW u \in Searcher, TestCooldown(c, u)
      PROVE  DiscoveryInv'
  <2> DEFINE next == [at |-> "slot", user |-> u, tested |-> discoveryCooldown[u]]
  <2>1. discoveryCooldown[u] \in Nat \cup {Never}
    BY DEF DiscoveryTypeOK
  <2>2. next \in SearchLocal
    BY <2>1 DEF SearchLocal
  <2>3. search' = [search EXCEPT ![c] = next]
    BY <1>1 DEF TestCooldown
  <2>4. Cardinality(HoldsSlot') = Cardinality(HoldsSlot)
    <3>1. c \notin HoldsSlot /\ next.at = "slot"
      BY <1>1 DEF TestCooldown, HoldsSlot
    <3> HIDE DEF next
    <3> QED  BY <2>2, <2>3, <3>1, HoldersCounted
  <2>5. DiscoveryTypeOK' /\ SlotsCounted'
    BY <1>1, <2>2, <2>3, <2>4
    DEF DiscoveryTypeOK, SlotsCounted, TestCooldown
  <2>6. next.tested = Never \/ clock - next.tested >= DiscoveryCooldown
    BY <1>0, <1>1, <2>1 DEF TestCooldown, TooSoon
  <2>7. TestedFresh'
    BY <1>1, <2>3, <2>6 DEF TestedFresh, TestCooldown, DiscoveryTypeOK
  <2> QED  BY <2>5, <2>7
<1>2. ASSUME NEW c \in Search, TakeSlot(c)
      PROVE  DiscoveryInv'
  <2> DEFINE next == [search[c] EXCEPT !.at = "record"]
  <2>1. /\ next \in SearchLocal /\ next.at = "record"
        /\ next.user = search[c].user /\ next.tested = search[c].tested
    BY SearchLocals DEF DiscoveryTypeOK
  <2>2. search' = [search EXCEPT ![c] = next]
    BY <1>2 DEF TakeSlot
  <2> HIDE DEF next
  <2>3. c \notin HoldsSlot
    BY <1>2 DEF TakeSlot, HoldsSlot
  <2>4. Cardinality(HoldsSlot') = Cardinality(HoldsSlot) + 1
    BY <2>1, <2>2, <2>3, HoldersCounted
  <2>5. DiscoveryTypeOK' /\ SlotsCounted'
    BY <1>0, <1>2, <2>1, <2>2, <2>4
    DEF DiscoveryTypeOK, SlotsCounted, TakeSlot
  <2>6. TestedFresh'
    BY <1>2, <2>1, <2>2 DEF TestedFresh, TakeSlot, DiscoveryTypeOK
  <2> QED  BY <2>5, <2>6
<1>3. ASSUME NEW c \in Search, Refuse(c)
      PROVE  DiscoveryInv'
  <2>1. search' = [search EXCEPT ![c] = SearchIdle] /\ SearchIdle.at = "idle"
    BY <1>3 DEF Refuse, SearchIdle
  <2>2. c \notin HoldsSlot
    BY <1>3 DEF Refuse, HoldsSlot
  <2>3. Cardinality(HoldsSlot') = Cardinality(HoldsSlot)
    BY <2>1, <2>2, SearchLocals, HoldersCounted
  <2>4. DiscoveryTypeOK' /\ SlotsCounted'
    BY <1>3, <2>1, <2>3, SearchLocals DEF DiscoveryTypeOK, SlotsCounted, Refuse
  <2>5. TestedFresh'
    BY <1>3, <2>1 DEF TestedFresh, Refuse, DiscoveryTypeOK
  <2> QED  BY <2>4, <2>5
<1>4. ASSUME NEW c \in Search, RecordCooldown(c)
      PROVE  DiscoveryInv'
  <2> DEFINE next == [search[c] EXCEPT !.at = "search"]
  <2>1. next \in SearchLocal /\ next.at = "search"
    BY SearchLocals DEF DiscoveryTypeOK
  <2>2. search' = [search EXCEPT ![c] = next]
    BY <1>4 DEF RecordCooldown
  <2> HIDE DEF next
  <2>3. c \in HoldsSlot
    BY <1>4 DEF RecordCooldown, HoldsSlot
  <2>4. Cardinality(HoldsSlot') = Cardinality(HoldsSlot)
    BY <2>1, <2>2, <2>3, HoldersCounted
  <2>5. DiscoveryTypeOK' /\ SlotsCounted'
    BY <1>0, <1>4, <2>1, <2>2, <2>4
    DEF DiscoveryTypeOK, SlotsCounted, RecordCooldown
  <2>6. TestedFresh'
    BY <1>4, <2>1, <2>2 DEF TestedFresh, RecordCooldown, DiscoveryTypeOK
  <2> QED  BY <2>5, <2>6
<1>5. ASSUME NEW c \in Search, SearchEnds(c)
      PROVE  DiscoveryInv'
  <2>1. search' = [search EXCEPT ![c] = SearchIdle] /\ SearchIdle.at = "idle"
    BY <1>5 DEF SearchEnds, SearchIdle
  <2>2. c \in HoldsSlot
    BY <1>5 DEF SearchEnds, HoldsSlot
  <2>3. /\ Cardinality(HoldsSlot) \in Nat \ {0}
        /\ Cardinality(HoldsSlot') = Cardinality(HoldsSlot) - 1
    BY <2>1, <2>2, SearchLocals, HoldersCounted
  <2>4. DiscoveryTypeOK' /\ SlotsCounted'
    BY <1>0, <1>5, <2>1, <2>3, SearchLocals
    DEF DiscoveryTypeOK, SlotsCounted, SearchEnds
  <2>5. TestedFresh'
    BY <1>5, <2>1 DEF TestedFresh, SearchEnds, DiscoveryTypeOK
  <2> QED  BY <2>4, <2>5
<1>6. CASE TimePasses
  <2>1. DiscoveryTypeOK'
    BY <1>0, <1>6 DEF DiscoveryTypeOK, TimePasses
  <2>2. SlotsCounted'
    BY <1>6 DEF SlotsCounted, HoldsSlot, TimePasses
  <2>3. \A c \in Search : search[c].tested \in Nat \cup {Never}
    BY DEF DiscoveryTypeOK, SearchLocal
  <2>4. TestedFresh'
    BY <1>0, <1>6, <2>3 DEF TestedFresh, TimePasses
  <2> QED  BY <2>1, <2>2, <2>4
<1>7. CASE UNCHANGED discoveryVars
  BY <1>7
  DEF discoveryVars, DiscoveryTypeOK, SlotsCounted, HoldsSlot, TestedFresh
<1> QED  BY <1>1, <1>2, <1>3, <1>4, <1>5, <1>6, <1>7 DEF DiscoveryNext, SearchStep

\* The types of the variables of Discovery, whatever their number.
THEOREM DiscoveryTypeCorrect == DiscoverySpec => []DiscoveryTypeOK
<1>1. DiscoveryInv => DiscoveryTypeOK
  BY DEF DiscoveryInv
<1> QED  BY <1>1, DiscoveryInitInv, DiscoveryNextInv, PTL DEF DiscoverySpec

\* No slot leaks and none is taken twice, for any rate limit.
THEOREM SlotsAreCounted == DiscoverySpec => []SlotsCounted
<1>1. DiscoveryInv => SlotsCounted
  BY DEF DiscoveryInv
<1> QED  BY <1>1, DiscoveryInitInv, DiscoveryNextInv, PTL DEF DiscoverySpec

\* A search within the cooldown is always one of two concurrent calls.
THEOREM SearchesTooSoon == DiscoverySpec => SearchTooSoon
<1> DEFINE OnlyOvertaken ==
      \A c \in Search :
        (search[c].at = "record" /\ search'[c].at = "search"
           /\ TooSoon(discoveryCooldown[search[c].user]))
        => discoveryCooldown[search[c].user] # search[c].tested
<1>1. DiscoveryInv => OnlyOvertaken
  BY CooldownAssumption, NeverAssumption
  DEF DiscoveryInv, DiscoveryTypeOK, SearchLocal, TestedFresh, TooSoon
<1> QED  BY <1>1, DiscoveryInitInv, DiscoveryNextInv, PTL
         DEF DiscoverySpec, SearchTooSoon

-----------------------------------------------------------------------------
(* ConnPool *)

\* The connections that a handler holds at a step, and all of them together.
Holds(step) == CASE step = "two"                -> 2
                 [] step \in {"one", "second"}  -> 1
                 [] step \in {"idle", "first"}  -> 0

Taken == Cardinality(At("one")) + Cardinality(At("second"))
           + 2 * Cardinality(At("two"))

\* Every connection is free or held by a handler.
ConnsCounted == free + Taken = MaxConns

\* Only a listing has rows to visit, and only for one of them does a handler
\* ask for a second connection.
RowsOfListings ==
  \A c \in DbCall :
    (rows[c] > 0 \/ use[c] \in {"second", "two"}) => c \in Listing

PoolInv == PoolTypeOK /\ ConnsCounted /\ RowsOfListings

\* A handler that goes on leaves the handlers at its old step by one less and
\* those at its new step by one more.
LEMMA HandlersCounted ==
  ASSUME PoolTypeOK, NEW c \in DbCall, NEW next \in Uses, next # use[c],
         Becomes(c, next), NEW s \in Uses
  PROVE  /\ Cardinality(At(s)) \in Nat
         /\ Cardinality(At(s)') \in Nat
         /\ Cardinality(At(s)') = IF s = next THEN Cardinality(At(s)) + 1
                                  ELSE IF s = use[c] THEN Cardinality(At(s)) - 1
                                  ELSE Cardinality(At(s))
<1>1. IsFiniteSet(At(s)) /\ IsFiniteSet(At(s)')
  BY FS_Subset, ListingAssumption DEF At
<1>2. At(s)' = IF s = next THEN At(s) \cup {c} ELSE At(s) \ {c}
  BY DEF At, Becomes, PoolTypeOK
<1>3. c \in At(s) <=> s = use[c]
  BY DEF At
<1>4. /\ Cardinality(At(s) \cup {c}) =
           IF c \in At(s) THEN Cardinality(At(s)) ELSE Cardinality(At(s)) + 1
      /\ Cardinality(At(s) \ {c}) =
           IF c \in At(s) THEN Cardinality(At(s)) - 1 ELSE Cardinality(At(s))
  BY <1>1, FS_AddElement, FS_RemoveElement
<1>5. Cardinality(At(s)) \in Nat /\ Cardinality(At(s)') \in Nat
  BY <1>1, FS_CardinalityType
<1> QED  BY <1>2, <1>3, <1>4, <1>5

\* What the handlers hold after one of them goes on.
LEMMA TakenAfter ==
  ASSUME PoolTypeOK, NEW c \in DbCall, NEW next \in Uses, next # use[c],
         Becomes(c, next)
  PROVE  /\ Taken \in Nat
         /\ Taken' \in Nat
         /\ Taken' = Taken + Holds(next) - Holds(use[c])
<1> DEFINE one == Cardinality(At("one"))
           second == Cardinality(At("second"))
           two == Cardinality(At("two"))
<1>1. use[c] \in Uses
  BY DEF PoolTypeOK
<1>2. /\ one \in Nat /\ Cardinality(At("one")') \in Nat
      /\ Cardinality(At("one")') =
           IF next = "one" THEN one + 1
           ELSE IF use[c] = "one" THEN one - 1 ELSE one
  BY HandlersCounted DEF Uses
<1>3. /\ second \in Nat /\ Cardinality(At("second")') \in Nat
      /\ Cardinality(At("second")') =
           IF next = "second" THEN second + 1
           ELSE IF use[c] = "second" THEN second - 1 ELSE second
  BY HandlersCounted DEF Uses
<1>4. /\ two \in Nat /\ Cardinality(At("two")') \in Nat
      /\ Cardinality(At("two")') =
           IF next = "two" THEN two + 1
           ELSE IF use[c] = "two" THEN two - 1 ELSE two
  BY HandlersCounted DEF Uses
<1> QED  BY <1>1, <1>2, <1>3, <1>4 DEF Uses, Taken, Holds

\* A step that gives back what its handler no longer holds, and takes what it
\* holds from then on, keeps the count and the pool in its range.
LEMMA ConnsKept ==
  ASSUME PoolTypeOK, ConnsCounted, NEW c \in DbCall, NEW next \in Uses,
         next # use[c], Becomes(c, next), free' \in Nat,
         free' = free + Holds(use[c]) - Holds(next)
  PROVE  ConnsCounted' /\ free' \in 0..MaxConns
<1> DEFINE before == Holds(use[c])
           after == Holds(next)
<1>1. /\ free \in Nat /\ MaxConns \in Nat
      /\ free + Taken = MaxConns
      /\ free' = free + before - after
  BY ConnsAssumption DEF PoolTypeOK, ConnsCounted
<1>2. before \in Nat /\ after \in Nat
  BY DEF Holds, Uses, PoolTypeOK
<1>3. Taken \in Nat /\ Taken' \in Nat /\ Taken' = Taken + after - before
  BY TakenAfter
<1> HIDE DEF before, after
<1>4. free' + Taken' = MaxConns
  BY <1>1, <1>2, <1>3
<1> QED  BY <1>1, <1>3, <1>4 DEF ConnsCounted

\* No handler and no connection taken.
LEMMA PoolInitInv == PoolInit => PoolInv
<1> SUFFICES ASSUME PoolInit  PROVE PoolInv
  OBVIOUS
<1>1. MaxConns \in Nat /\ MaxRows \in Nat
  BY ConnsAssumption
<1>2. PoolTypeOK
  BY <1>1 DEF PoolInit, PoolTypeOK, Uses
<1>3. At("one") = {} /\ At("second") = {} /\ At("two") = {}
  BY DEF PoolInit, At
<1>4. ConnsCounted
  BY <1>1, <1>3, FS_EmptySet DEF ConnsCounted, Taken, PoolInit
<1>5. RowsOfListings
  BY DEF RowsOfListings, PoolInit
<1> QED  BY <1>2, <1>4, <1>5 DEF PoolInv

\* Every step keeps the invariant.
LEMMA PoolNextInv == PoolInv /\ [PoolNext]_poolVars => PoolInv'
<1> SUFFICES ASSUME PoolInv, [PoolNext]_poolVars
             PROVE  PoolInv'
  OBVIOUS
<1>0. /\ PoolTypeOK /\ ConnsCounted /\ RowsOfListings
      /\ free \in Nat /\ MaxConns \in Nat /\ MaxRows \in Nat
  BY ConnsAssumption DEF PoolInv, PoolTypeOK
<1>a. ASSUME NEW c \in DbCall, NEW next \in Uses, next # use[c],
             Becomes(c, next), free' \in Nat,
             free' = free + Holds(use[c]) - Holds(next),
             rows' \in [DbCall -> 0..MaxRows]
      PROVE  PoolTypeOK' /\ ConnsCounted'
  <2>1. ConnsCounted' /\ free' \in 0..MaxConns
    BY <1>0, <1>a, ConnsKept
  <2>2. use' \in [DbCall -> Uses]
    BY <1>0, <1>a DEF Becomes, PoolTypeOK
  <2> QED  BY <1>a, <2>1, <2>2 DEF PoolTypeOK
<1>1. ASSUME NEW c \in DbCall, BeginStatement(c)
      PROVE  PoolInv'
  <2>1. use[c] = "idle" /\ Becomes(c, "first") /\ free' = free /\ rows' = rows
    BY <1>1 DEF BeginStatement
  <2>2. free' \in Nat /\ free' = free + Holds(use[c]) - Holds("first")
    BY <1>0, <2>1 DEF Holds
  <2>3. PoolTypeOK' /\ ConnsCounted'
    BY <1>0, <1>a, <2>1, <2>2 DEF PoolTypeOK, Uses
  <2>4. RowsOfListings'
    BY <1>0, <2>1 DEF RowsOfListings, PoolTypeOK, Becomes
  <2> QED  BY <2>3, <2>4 DEF PoolInv
<1>2. ASSUME NEW c \in DbCall, AcquireFirst(c)
      PROVE  PoolInv'
  <2>1. PICK n \in IF c \in Listing THEN 0..MaxRows ELSE {0} :
          rows' = [rows EXCEPT ![c] = n]
    BY <1>2 DEF AcquireFirst
  <2>2. use[c] = "first" /\ Becomes(c, "one") /\ free > 0 /\ free' = free - 1
    BY <1>2 DEF AcquireFirst
  <2>3. free' \in Nat /\ free' = free + Holds(use[c]) - Holds("one")
    BY <1>0, <2>2 DEF Holds
  <2>4. rows' \in [DbCall -> 0..MaxRows]
    BY <1>0, <2>1 DEF PoolTypeOK
  <2>5. PoolTypeOK' /\ ConnsCounted'
    BY <1>0, <1>a, <2>2, <2>3, <2>4 DEF Uses
  <2>6. RowsOfListings'
    BY <1>0, <2>1, <2>2 DEF RowsOfListings, PoolTypeOK, Becomes
  <2> QED  BY <2>5, <2>6 DEF PoolInv
<1>3. ASSUME NEW c \in DbCall, NextRow(c)
      PROVE  PoolInv'
  <2>1. /\ use[c] = "one" /\ Becomes(c, "second") /\ free' = free
        /\ rows[c] > 0 /\ rows' = [rows EXCEPT ![c] = @ - 1]
    BY <1>3 DEF NextRow
  <2>2. free' \in Nat /\ free' = free + Holds(use[c]) - Holds("second")
    BY <1>0, <2>1 DEF Holds
  <2>3. rows' \in [DbCall -> 0..MaxRows]
    BY <1>0, <2>1 DEF PoolTypeOK
  <2>4. PoolTypeOK' /\ ConnsCounted'
    BY <1>0, <1>a, <2>1, <2>2, <2>3 DEF Uses
  <2>5. RowsOfListings'
    BY <1>0, <2>1 DEF RowsOfListings, PoolTypeOK, Becomes
  <2> QED  BY <2>4, <2>5 DEF PoolInv
<1>4. ASSUME NEW c \in DbCall, AcquireSecond(c)
      PROVE  PoolInv'
  <2>1. /\ use[c] = "second" /\ Becomes(c, "two") /\ free > 0
        /\ free' = free - 1 /\ rows' = rows
    BY <1>4 DEF AcquireSecond
  <2>2. free' \in Nat /\ free' = free + Holds(use[c]) - Holds("two")
    BY <1>0, <2>1 DEF Holds
  <2>3. PoolTypeOK' /\ ConnsCounted'
    BY <1>0, <1>a, <2>1, <2>2 DEF PoolTypeOK, Uses
  <2>4. RowsOfListings'
    BY <1>0, <2>1 DEF RowsOfListings, PoolTypeOK, Becomes
  <2> QED  BY <2>3, <2>4 DEF PoolInv
<1>5. ASSUME NEW c \in DbCall, InnerQueryEnds(c)
      PROVE  PoolInv'
  <2>1. use[c] = "two" /\ Becomes(c, "one") /\ free' = free + 1 /\ rows' = rows
    BY <1>5 DEF InnerQueryEnds
  <2>2. free' \in Nat /\ free' = free + Holds(use[c]) - Holds("one")
    BY <1>0, <2>1 DEF Holds
  <2>3. PoolTypeOK' /\ ConnsCounted'
    BY <1>0, <1>a, <2>1, <2>2 DEF PoolTypeOK, Uses
  <2>4. RowsOfListings'
    BY <1>0, <2>1 DEF RowsOfListings, PoolTypeOK, Becomes
  <2> QED  BY <2>3, <2>4 DEF PoolInv
<1>6. ASSUME NEW c \in DbCall, InnerQueryFails(c)
      PROVE  PoolInv'
  <2>1. /\ use[c] = "two" /\ Becomes(c, "idle") /\ free' = free + 2
        /\ rows' = [rows EXCEPT ![c] = 0]
    BY <1>6 DEF InnerQueryFails
  <2>2. free' \in Nat /\ free' = free + Holds(use[c]) - Holds("idle")
    BY <1>0, <2>1 DEF Holds
  <2>3. rows' \in [DbCall -> 0..MaxRows]
    BY <1>0, <2>1 DEF PoolTypeOK
  <2>4. PoolTypeOK' /\ ConnsCounted'
    BY <1>0, <1>a, <2>1, <2>2, <2>3 DEF Uses
  <2>5. RowsOfListings'
    BY <1>0, <2>1 DEF RowsOfListings, PoolTypeOK, Becomes
  <2> QED  BY <2>4, <2>5 DEF PoolInv
<1>7. ASSUME NEW c \in DbCall, StatementEnds(c)
      PROVE  PoolInv'
  <2>1. use[c] = "one" /\ Becomes(c, "idle") /\ free' = free + 1 /\ rows' = rows
    BY <1>7 DEF StatementEnds
  <2>2. free' \in Nat /\ free' = free + Holds(use[c]) - Holds("idle")
    BY <1>0, <2>1 DEF Holds
  <2>3. PoolTypeOK' /\ ConnsCounted'
    BY <1>0, <1>a, <2>1, <2>2 DEF PoolTypeOK, Uses
  <2>4. RowsOfListings'
    BY <1>0, <2>1 DEF RowsOfListings, PoolTypeOK, Becomes
  <2> QED  BY <2>3, <2>4 DEF PoolInv
<1>8. ASSUME NEW c \in DbCall, GiveUp(c)
      PROVE  PoolInv'
  <2>1. /\ use[c] \in {"first", "second"} /\ Becomes(c, "idle")
        /\ free' = IF use[c] = "second" THEN free + 1 ELSE free
        /\ rows' = [rows EXCEPT ![c] = 0]
    BY <1>8 DEF GiveUp
  <2>2. free' \in Nat /\ free' = free + Holds(use[c]) - Holds("idle")
    BY <1>0, <2>1 DEF Holds
  <2>3. rows' \in [DbCall -> 0..MaxRows]
    BY <1>0, <2>1 DEF PoolTypeOK
  <2>4. PoolTypeOK' /\ ConnsCounted'
    BY <1>0, <1>a, <2>1, <2>2, <2>3 DEF Uses
  <2>5. RowsOfListings'
    BY <1>0, <2>1 DEF RowsOfListings, PoolTypeOK, Becomes
  <2> QED  BY <2>4, <2>5 DEF PoolInv
<1>9. CASE UNCHANGED poolVars
  BY <1>9 DEF PoolInv, poolVars, PoolTypeOK, ConnsCounted, Taken, RowsOfListings, At
<1> QED  BY <1>1, <1>2, <1>3, <1>4, <1>5, <1>6, <1>7, <1>8, <1>9
         DEF PoolNext, Acquire, Work

\* The types of the variables of ConnPool: the pool never holds more
\* connections than it has, nor gives out one it has not.
THEOREM PoolTypeCorrect == PoolSpec => []PoolTypeOK
<1>1. PoolInv => PoolTypeOK
  BY DEF PoolInv
<1> QED  BY <1>1, PoolInitInv, PoolNextInv, PTL DEF PoolSpec

\* A standstill takes as many listings at work as there are connections, for
\* any size of the pool.
THEOREM StandstillsAreListings == PoolSpec => []StandstillIsListings
<1>1. PoolInv => StandstillIsListings
  <2> SUFFICES ASSUME PoolInv, Standstill
               PROVE  /\ At("second") \subseteq Listing
                      /\ Cardinality(At("second")) = MaxConns
    BY DEF StandstillIsListings
  <2>1. At("second") \subseteq Listing
    BY DEF PoolInv, RowsOfListings, At
  <2>2. IsFiniteSet(At("second"))
    BY FS_Subset, ListingAssumption DEF At
  <2>3. Cardinality(At("second")) \in Nat
    BY <2>2, FS_CardinalityType
  <2>4. Cardinality(At("second")) = MaxConns
    BY <2>3, FS_EmptySet, ConnsAssumption DEF PoolInv, ConnsCounted, Taken, Standstill
  <2> QED  BY <2>1, <2>4
<1> QED  BY <1>1, PoolInitInv, PoolNextInv, PTL DEF PoolSpec

-----------------------------------------------------------------------------
(* The three together *)

\* A behaviour of MCEnds is a behaviour of each of its parts, fairness of the
\* pool included: what is proved of a part holds in the run of all three.
THEOREM EndsIsEveryPart == EndsSpec => Spec /\ DiscoverySpec /\ PoolSpec
<1>1. EndsInit => Init /\ DiscoveryInit /\ PoolInit
  BY DEF EndsInit
<1>2. [EndsNext]_<<part, vars, discoveryVars, poolVars>>
        => [Next]_vars /\ [DiscoveryNext]_discoveryVars /\ [PoolNext]_poolVars
  BY DEF EndsNext, SimplificationMoves, DiscoveryMoves, PoolMoves
<1> QED  BY <1>1, <1>2, PTL DEF EndsSpec, Spec, DiscoverySpec, PoolSpec

=============================================================================
