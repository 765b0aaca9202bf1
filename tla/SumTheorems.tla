----------------------------- MODULE SumTheorems -----------------------------
(***************************************************************************)
(* Facts about SumFunctionOnSet, the sum of a function over a finite set:  *)
(* totals of contributions, of transfers, of splits and of balances are    *)
(* all written with it.                                                    *)
(*                                                                         *)
(* Its definition is a recursive function on the subsets of a set, chosen  *)
(* by MapThenFoldSet.  The first part shows that such a function exists    *)
(* and that any two agree, by induction on the size of a subset, which     *)
(* gives the one equation the rest uses (SumUnfolds).  The library states  *)
(* its induction theorems for a predicate, which no prover here can        *)
(* instantiate: the inductions below are over sets instead, and come from  *)
(* the well-foundedness of < on the naturals.                              *)
(***************************************************************************)
EXTENDS Integers, FiniteSets, Functions, FiniteSetTheorems,
        WellFoundedInduction, TLAPS

\* A set with zero and with the successor of each of its naturals has them all.
LEMMA NatInductionOnSets ==
  ASSUME NEW P, 0 \in P, \A n \in Nat : n \in P => n + 1 \in P
  PROVE  Nat \subseteq P
<1> DEFINE Bad == {n \in Nat : n \notin P}
<1> SUFFICES ASSUME Bad # {} PROVE FALSE
  OBVIOUS
<1>1. PICK m \in Bad : \A k \in Bad : ~(<<k, m>> \in OpToRel(<, Nat))
  BY NatLessThanWellFounded, WFMin, Zenon
<1>2. \A k \in Bad : ~(k < m)
  BY <1>1 DEF OpToRel
<1>3. m - 1 \in Nat
  OBVIOUS
<1>4. m - 1 \in P
  BY <1>2, <1>3
<1>5. QED
  BY <1>3, <1>4

\* A set of subsets of S that has the empty one and, with a subset, the one
\* with one element more, has S if S is finite.
LEMMA SubsetInduction ==
  ASSUME NEW S, IsFiniteSet(S),
         NEW Q, {} \in Q,
         \A T \in SUBSET S : \A x \in S : T \in Q /\ x \notin T => T \cup {x} \in Q
  PROVE  S \in Q
<1> DEFINE P == {n \in Nat : \A T \in SUBSET S : Cardinality(T) = n => T \in Q}
<1>1. \A T \in SUBSET S : IsFiniteSet(T) /\ Cardinality(T) \in Nat
  BY FS_Subset, FS_CardinalityType
<1>2. 0 \in P
  BY <1>1, FS_EmptySet
<1>3. ASSUME NEW n \in Nat, n \in P PROVE n + 1 \in P
  <2>1. SUFFICES ASSUME NEW T \in SUBSET S, Cardinality(T) = n + 1
                 PROVE  T \in Q
    OBVIOUS
  <2>2. PICK x : x \in T
    BY <2>1, FS_EmptySet
  <2>3. Cardinality(T \ {x}) = Cardinality(T) - 1
    BY <1>1, <2>2, FS_RemoveElement
  <2>4. T \ {x} \in Q
    BY <1>3, <2>1, <2>3
  <2>5. T = (T \ {x}) \cup {x}
    BY <2>2
  <2>6. QED
    BY <2>2, <2>4, <2>5
<1> HIDE DEF P
<1>4. Nat \subseteq P
  BY <1>2, <1>3, NatInductionOnSets
<1>5. QED
  BY <1>1, <1>4 DEF P

-----------------------------------------------------------------------------
(* What SumFunctionOnSet is *)

\* The element summed first, one step of the recursion, and a function that
\* obeys it on the subsets of S.
Elem(s) == CHOOSE x \in s : TRUE

Unfold(fun, g, s) == IF s = {} THEN 0 ELSE fun[Elem(s)] + g[s \ {Elem(s)}]

SumsUp(fun, g, S) == g = [s \in SUBSET S |-> Unfold(fun, g, s)]

\* The sum is the value at S of a chosen function that sums up.
LEMMA SumIsChosen ==
  ASSUME NEW fun, NEW S
  PROVE  SumFunctionOnSet(fun, S) = (CHOOSE g : SumsUp(fun, g, S))[S]
BY DEF SumFunctionOnSet, FoldFunctionOnSet, MapThenFoldSet, SumsUp, Unfold, Elem

\* The element that is summed first.
LEMMA ElemInSet ==
  ASSUME NEW s, s # {}
  PROVE  Elem(s) \in s
BY DEF Elem

\* There is a function that sums up.
LEMMA SumExists ==
  ASSUME NEW fun, NEW S, IsFiniteSet(S)
  PROVE  \E g : SumsUp(fun, g, S)
<1> DEFINE P == {n \in Nat : \E g : \A s \in SUBSET S :
                    Cardinality(s) <= n => g[s] = Unfold(fun, g, s)}
<1>1. \A s \in SUBSET S : IsFiniteSet(s) /\ Cardinality(s) \in Nat
  BY FS_Subset, FS_CardinalityType
<1>2. 0 \in P
  <2> DEFINE g == [s \in SUBSET S |-> 0]
  <2>1. \A s \in SUBSET S : Cardinality(s) <= 0 => g[s] = Unfold(fun, g, s)
    BY <1>1, FS_EmptySet DEF Unfold
  <2>2. QED
    BY <2>1
<1>3. ASSUME NEW n \in Nat, n \in P PROVE n + 1 \in P
  <2>1. PICK g : \A s \in SUBSET S :
                    Cardinality(s) <= n => g[s] = Unfold(fun, g, s)
    BY <1>3
  <2> DEFINE h == [s \in SUBSET S |-> Unfold(fun, g, s)]
  <2>2. ASSUME NEW s \in SUBSET S, Cardinality(s) <= n + 1
        PROVE  h[s] = Unfold(fun, h, s)
    <3>1. CASE s = {}
      BY <3>1 DEF Unfold
    <3>2. CASE s # {}
      <4> DEFINE r == s \ {Elem(s)}
      <4>1. Elem(s) \in s
        BY <3>2, ElemInSet
      <4>2. Cardinality(r) = Cardinality(s) - 1
        BY <1>1, <4>1, FS_RemoveElement
      <4>3. g[r] = h[r]
        BY <1>1, <2>1, <2>2, <4>2
      <4>4. QED
        BY <3>2, <4>3 DEF Unfold
    <3>3. QED
      BY <3>1, <3>2
  <2> HIDE DEF h
  <2>3. QED
    BY <2>2
<1> HIDE DEF P
<1>4. Cardinality(S) \in P
  BY <1>1, <1>2, <1>3, NatInductionOnSets
<1>5. PICK g : \A s \in SUBSET S :
                  Cardinality(s) <= Cardinality(S) => g[s] = Unfold(fun, g, s)
  BY <1>4 DEF P
<1>6. \A s \in SUBSET S : g[s] = Unfold(fun, g, s)
  BY <1>5, FS_Subset
<1> DEFINE h == [s \in SUBSET S |-> g[s]]
<1>7. \A s \in SUBSET S : Unfold(fun, g, s) = Unfold(fun, h, s)
  BY DEF Unfold
<1>8. SumsUp(fun, h, S)
  BY <1>6, <1>7 DEF SumsUp
<1>9. QED
  BY <1>8

\* Two functions that sum up agree where both are defined.
LEMMA SumsUpAgree ==
  ASSUME NEW fun, NEW S, IsFiniteSet(S), NEW T \in SUBSET S,
         NEW g, SumsUp(fun, g, S), NEW h, SumsUp(fun, h, T)
  PROVE  \A s \in SUBSET T : g[s] = h[s]
<1> DEFINE P == {n \in Nat : \A s \in SUBSET T : Cardinality(s) = n => g[s] = h[s]}
<1>1. \A s \in SUBSET T : IsFiniteSet(s) /\ Cardinality(s) \in Nat
  BY FS_Subset, FS_CardinalityType
<1>2. \A s \in SUBSET T : g[s] = Unfold(fun, g, s) /\ h[s] = Unfold(fun, h, s)
  BY DEF SumsUp
<1>3. 0 \in P
  <2>1. SUFFICES ASSUME NEW s \in SUBSET T, Cardinality(s) = 0
                 PROVE  g[s] = h[s]
    OBVIOUS
  <2>2. s = {}
    BY <1>1, <2>1, FS_EmptySet
  <2>3. QED
    BY <1>2, <2>2 DEF Unfold
<1>4. ASSUME NEW n \in Nat, n \in P PROVE n + 1 \in P
  <2>1. SUFFICES ASSUME NEW s \in SUBSET T, Cardinality(s) = n + 1
                 PROVE  g[s] = h[s]
    OBVIOUS
  <2>2. s # {}
    BY <2>1, FS_EmptySet
  <2>3. Elem(s) \in s
    BY <2>2, ElemInSet
  <2>4. Cardinality(s \ {Elem(s)}) = n
    BY <1>1, <2>1, <2>3, FS_RemoveElement
  <2>5. g[s \ {Elem(s)}] = h[s \ {Elem(s)}]
    BY <1>4, <2>4
  <2>6. QED
    BY <1>2, <2>2, <2>5 DEF Unfold
<1> HIDE DEF P
<1>5. Nat \subseteq P
  BY <1>3, <1>4, NatInductionOnSets
<1>6. QED
  BY <1>1, <1>5 DEF P

\* The same with all smaller subsets at hand.
LEMMA StrictSubsetInduction ==
  ASSUME NEW S, IsFiniteSet(S), NEW Q,
         \A T \in SUBSET S : (\A U \in SUBSET T : U # T => U \in Q) => T \in Q
  PROVE  S \in Q
<1> DEFINE P == {n \in Nat : \A T \in SUBSET S : Cardinality(T) <= n => T \in Q}
<1>1. \A T \in SUBSET S : IsFiniteSet(T) /\ Cardinality(T) \in Nat
  BY FS_Subset, FS_CardinalityType
<1>2. \A T \in SUBSET S : \A U \in SUBSET T :
         U # T => U \in SUBSET S /\ Cardinality(U) < Cardinality(T)
  <2> SUFFICES ASSUME NEW T \in SUBSET S, NEW U \in SUBSET T, U # T
               PROVE  U \in SUBSET S /\ Cardinality(U) < Cardinality(T)
    OBVIOUS
  <2>1. Cardinality(U) <= Cardinality(T) /\ Cardinality(U) # Cardinality(T)
    BY <1>1, FS_Subset
  <2>2. QED
    BY <1>1, <2>1
<1>3. 0 \in P
  BY <1>1, <1>2
<1>4. ASSUME NEW n \in Nat, n \in P PROVE n + 1 \in P
  <2>1. SUFFICES ASSUME NEW T \in SUBSET S, Cardinality(T) <= n + 1
                 PROVE  T \in Q
    OBVIOUS
  <2>2. \A U \in SUBSET T : U # T => U \in Q
    BY <1>1, <1>2, <1>4, <2>1
  <2>3. QED
    BY <2>2
<1> HIDE DEF P
<1>5. Nat \subseteq P
  BY <1>3, <1>4, NatInductionOnSets
<1>6. QED
  BY <1>1, <1>5 DEF P

\* The empty sum is zero.
LEMMA SumOfNothing ==
  ASSUME NEW fun
  PROVE  SumFunctionOnSet(fun, {}) = 0
<1>1. IsFiniteSet({})
  BY FS_EmptySet
<1>2. SumsUp(fun, CHOOSE g : SumsUp(fun, g, {}), {})
  BY <1>1, SumExists
<1>3. QED
  BY <1>2, SumIsChosen DEF SumsUp, Unfold

\* A sum is one of its terms and the sum of the others.
LEMMA SumUnfolds ==
  ASSUME NEW fun, NEW S, IsFiniteSet(S), S # {}
  PROVE  SumFunctionOnSet(fun, S)
           = fun[Elem(S)] + SumFunctionOnSet(fun, S \ {Elem(S)})
<1> DEFINE T == S \ {Elem(S)}
           g == CHOOSE iter : SumsUp(fun, iter, S)
           h == CHOOSE iter : SumsUp(fun, iter, T)
<1>1. IsFiniteSet(T)
  BY FS_RemoveElement
<1>2. SumsUp(fun, g, S)
  BY SumExists
<1>3. SumsUp(fun, h, T)
  BY <1>1, SumExists
<1>4. SumFunctionOnSet(fun, S) = g[S] /\ SumFunctionOnSet(fun, T) = h[T]
  BY SumIsChosen
<1> HIDE DEF g, h
<1>5. g[T] = h[T]
  BY <1>2, <1>3, SumsUpAgree
<1>6. g[S] = fun[Elem(S)] + g[T]
  BY <1>2 DEF SumsUp, Unfold
<1>7. QED
  BY <1>4, <1>5, <1>6

\* A sum of integers is an integer.
THEOREM SumIsInt ==
  ASSUME NEW S, IsFiniteSet(S), NEW fun, \A x \in S : fun[x] \in Int
  PROVE  SumFunctionOnSet(fun, S) \in Int
<1> DEFINE Q == {T \in SUBSET S : SumFunctionOnSet(fun, T) \in Int}
<1>1. ASSUME NEW T \in SUBSET S, \A U \in SUBSET T : U # T => U \in Q
      PROVE  T \in Q
  <2>1. CASE T = {}
    BY <2>1, SumOfNothing
  <2>2. CASE T # {}
    <3>1. Elem(T) \in T
      BY <2>2, ElemInSet
    <3>2. IsFiniteSet(T)
      BY FS_Subset
    <3>3. T \ {Elem(T)} \in Q
      BY <1>1, <3>1
    <3>4. QED
      BY <2>2, <3>1, <3>2, <3>3, SumUnfolds
  <2>3. QED
    BY <2>1, <2>2
<1> HIDE DEF Q
<1>2. S \in Q
  BY <1>1, StrictSubsetInduction
<1>3. QED
  BY <1>2 DEF Q

\* Any term can be taken out of a sum.
THEOREM SumWithout ==
  ASSUME NEW S, IsFiniteSet(S), NEW fun, \A x \in S : fun[x] \in Int, NEW x \in S
  PROVE  SumFunctionOnSet(fun, S) = fun[x] + SumFunctionOnSet(fun, S \ {x})
<1> DEFINE Sum(T) == SumFunctionOnSet(fun, T)
           Q == {T \in SUBSET S : \A y \in T : Sum(T) = fun[y] + Sum(T \ {y})}
<1>1. \A T \in SUBSET S : IsFiniteSet(T) /\ Sum(T) \in Int
  BY FS_Subset, SumIsInt
<1>2. \A T \in SUBSET S : T # {} => Sum(T) = fun[Elem(T)] + Sum(T \ {Elem(T)})
  BY <1>1, SumUnfolds
<1> HIDE DEF Sum
<1>3. ASSUME NEW T \in SUBSET S, \A U \in SUBSET T : U # T => U \in Q
      PROVE  T \in Q
  <2> SUFFICES ASSUME NEW y \in T
               PROVE  Sum(T) = fun[y] + Sum(T \ {y})
    OBVIOUS
  <2> DEFINE e == Elem(T)
  <2>1. e \in T
    BY ElemInSet
  <2> HIDE DEF e
  <2>2. Sum(T) = fun[e] + Sum(T \ {e})
    BY <1>2 DEF e
  <2>3. CASE y = e
    BY <2>2, <2>3
  <2>4. CASE y # e
    <3>1. T \ {e} \in Q /\ T \ {y} \in Q /\ y \in T \ {e} /\ e \in T \ {y}
      BY <1>3, <2>1, <2>4
    <3>2. Sum(T \ {e}) = fun[y] + Sum((T \ {e}) \ {y})
      BY <3>1
    <3>3. Sum(T \ {y}) = fun[e] + Sum((T \ {y}) \ {e})
      BY <3>1
    <3>4. Sum((T \ {e}) \ {y}) = Sum((T \ {y}) \ {e})
      <4>1. (T \ {e}) \ {y} = (T \ {y}) \ {e}
        OBVIOUS
      <4>2. QED
        BY <4>1
    <3>5. Sum((T \ {y}) \ {e}) \in Int /\ fun[e] \in Int /\ fun[y] \in Int
      BY <1>1, <2>1
    <3>6. QED
      BY <2>2, <3>2, <3>3, <3>4, <3>5
  <2>5. QED
    BY <2>3, <2>4
<1> HIDE DEF Q
<1>4. S \in Q
  BY <1>3, StrictSubsetInduction
<1>5. QED
  BY <1>4 DEF Q, Sum

\* One more term adds itself to a sum.
THEOREM SumWith ==
  ASSUME NEW S, IsFiniteSet(S), NEW x, x \notin S,
         NEW fun, \A y \in S \cup {x} : fun[y] \in Int
  PROVE  SumFunctionOnSet(fun, S \cup {x}) = SumFunctionOnSet(fun, S) + fun[x]
<1>1. IsFiniteSet(S \cup {x})
  BY FS_AddElement
<1>2. (S \cup {x}) \ {x} = S
  OBVIOUS
<1>3. SumFunctionOnSet(fun, S \cup {x}) = fun[x] + SumFunctionOnSet(fun, S)
  BY <1>1, <1>2, SumWithout
<1>4. SumFunctionOnSet(fun, S) \in Int /\ fun[x] \in Int
  BY SumIsInt
<1>5. QED
  BY <1>3, <1>4

\* Sums of functions that agree on the summed elements are equal.
THEOREM SumAgrees ==
  ASSUME NEW S, IsFiniteSet(S), NEW fun, \A x \in S : fun[x] \in Int,
         NEW hun, \A x \in S : fun[x] = hun[x]
  PROVE  SumFunctionOnSet(fun, S) = SumFunctionOnSet(hun, S)
<1> DEFINE Q == {T \in SUBSET S :
                   SumFunctionOnSet(fun, T) = SumFunctionOnSet(hun, T)}
<1>1. {} \in Q
  BY SumOfNothing
<1>2. ASSUME NEW T \in SUBSET S, NEW x \in S, T \in Q, x \notin T
      PROVE  T \cup {x} \in Q
  <2>1. IsFiniteSet(T)
    BY FS_Subset
  <2>2. SumFunctionOnSet(fun, T \cup {x}) = SumFunctionOnSet(fun, T) + fun[x]
    BY <1>2, <2>1, SumWith
  <2>3. \A y \in T \cup {x} : hun[y] \in Int
    OBVIOUS
  <2>4. SumFunctionOnSet(hun, T \cup {x}) = SumFunctionOnSet(hun, T) + hun[x]
    BY <1>2, <2>1, <2>3, SumWith
  <2>5. QED
    BY <1>2, <2>2, <2>4
<1> HIDE DEF Q
<1>3. S \in Q
  BY <1>1, <1>2, SubsetInduction
<1>4. QED
  BY <1>3 DEF Q

\* A sum of terms that are no less is no less.
THEOREM SumMonotone ==
  ASSUME NEW S, IsFiniteSet(S),
         NEW fun, \A x \in S : fun[x] \in Int,
         NEW hun, \A x \in S : hun[x] \in Int /\ fun[x] <= hun[x]
  PROVE  SumFunctionOnSet(fun, S) <= SumFunctionOnSet(hun, S)
<1> DEFINE Q == {T \in SUBSET S :
                   SumFunctionOnSet(fun, T) <= SumFunctionOnSet(hun, T)}
<1>1. {} \in Q
  BY SumOfNothing
<1>2. ASSUME NEW T \in SUBSET S, NEW x \in S, T \in Q, x \notin T
      PROVE  T \cup {x} \in Q
  <2>1. IsFiniteSet(T)
    BY FS_Subset
  <2>2. SumFunctionOnSet(fun, T \cup {x}) = SumFunctionOnSet(fun, T) + fun[x]
    BY <1>2, <2>1, SumWith
  <2>3. SumFunctionOnSet(hun, T \cup {x}) = SumFunctionOnSet(hun, T) + hun[x]
    BY <1>2, <2>1, SumWith
  <2>4. SumFunctionOnSet(fun, T) \in Int /\ SumFunctionOnSet(hun, T) \in Int
    BY <2>1, SumIsInt
  <2>5. fun[x] \in Int /\ hun[x] \in Int /\ fun[x] <= hun[x]
    OBVIOUS
  <2>6. SumFunctionOnSet(fun, T) <= SumFunctionOnSet(hun, T)
    BY <1>2
  <2>7. SumFunctionOnSet(fun, T \cup {x}) <= SumFunctionOnSet(hun, T \cup {x})
    BY <2>2, <2>3, <2>4, <2>5, <2>6
  <2>8. QED
    BY <2>7
<1> HIDE DEF Q
<1>3. S \in Q
  BY <1>1, <1>2, SubsetInduction
<1>4. QED
  BY <1>3 DEF Q

\* The sum of the sums is the sum of two functions taken together.
THEOREM SumOfTwo ==
  ASSUME NEW S, IsFiniteSet(S),
         NEW fun, \A x \in S : fun[x] \in Int,
         NEW hun, \A x \in S : hun[x] \in Int,
         NEW both, \A x \in S : both[x] = fun[x] + hun[x]
  PROVE  SumFunctionOnSet(both, S)
           = SumFunctionOnSet(fun, S) + SumFunctionOnSet(hun, S)
<1> DEFINE Q == {T \in SUBSET S :
                   SumFunctionOnSet(both, T)
                     = SumFunctionOnSet(fun, T) + SumFunctionOnSet(hun, T)}
<1>1. {} \in Q
  BY SumOfNothing
<1>2. ASSUME NEW T \in SUBSET S, NEW x \in S, T \in Q, x \notin T
      PROVE  T \cup {x} \in Q
  <2>1. IsFiniteSet(T)
    BY FS_Subset
  <2>2. \A y \in T \cup {x} :
          fun[y] \in Int /\ hun[y] \in Int /\ both[y] \in Int
    OBVIOUS
  <2>3. SumFunctionOnSet(fun, T \cup {x}) = SumFunctionOnSet(fun, T) + fun[x]
    BY <1>2, <2>1, <2>2, SumWith
  <2>4. SumFunctionOnSet(hun, T \cup {x}) = SumFunctionOnSet(hun, T) + hun[x]
    BY <1>2, <2>1, <2>2, SumWith
  <2>5. SumFunctionOnSet(both, T \cup {x}) = SumFunctionOnSet(both, T) + both[x]
    BY <1>2, <2>1, <2>2, SumWith
  <2>6. SumFunctionOnSet(fun, T) \in Int /\ SumFunctionOnSet(hun, T) \in Int
    BY <2>1, SumIsInt
  <2>7. both[x] = fun[x] + hun[x] /\ fun[x] \in Int /\ hun[x] \in Int
    OBVIOUS
  <2>8. SumFunctionOnSet(both, T)
          = SumFunctionOnSet(fun, T) + SumFunctionOnSet(hun, T)
    BY <1>2
  <2>9. SumFunctionOnSet(both, T \cup {x})
          = SumFunctionOnSet(fun, T \cup {x}) + SumFunctionOnSet(hun, T \cup {x})
    BY <2>3, <2>4, <2>5, <2>6, <2>7, <2>8
  <2>10. QED
    BY <2>9
<1> HIDE DEF Q
<1>3. S \in Q
  BY <1>1, <1>2, SubsetInduction
<1>4. QED
  BY <1>3 DEF Q

\* A sum of zeros is zero.
THEOREM SumOfZeros ==
  ASSUME NEW S, IsFiniteSet(S), NEW fun, \A x \in S : fun[x] = 0
  PROVE  SumFunctionOnSet(fun, S) = 0
<1> DEFINE Q == {T \in SUBSET S : SumFunctionOnSet(fun, T) = 0}
<1>1. {} \in Q
  BY SumOfNothing
<1>2. ASSUME NEW T \in SUBSET S, NEW x \in S, T \in Q, x \notin T
      PROVE  T \cup {x} \in Q
  <2>1. IsFiniteSet(T)
    BY FS_Subset
  <2>2. \A y \in T \cup {x} : fun[y] \in Int /\ fun[x] = 0
    OBVIOUS
  <2>3. SumFunctionOnSet(fun, T \cup {x}) = SumFunctionOnSet(fun, T) + fun[x]
    BY <1>2, <2>1, <2>2, SumWith
  <2>4. QED
    BY <1>2, <2>2, <2>3
<1> HIDE DEF Q
<1>3. S \in Q
  BY <1>1, <1>2, SubsetInduction
<1>4. QED
  BY <1>3 DEF Q

\* No term of a sum of naturals exceeds the sum, which is a natural.
THEOREM SumBoundsTerms ==
  ASSUME NEW S, IsFiniteSet(S), NEW fun, \A x \in S : fun[x] \in Nat
  PROVE  /\ SumFunctionOnSet(fun, S) \in Nat
         /\ \A x \in S : fun[x] <= SumFunctionOnSet(fun, S)
<1> DEFINE zero == [x \in S |-> 0]
<1>1. \A T \in SUBSET S : SumFunctionOnSet(fun, T) \in Nat
  <2> SUFFICES ASSUME NEW T \in SUBSET S
               PROVE  SumFunctionOnSet(fun, T) \in Nat
    OBVIOUS
  <2>1. IsFiniteSet(T)
    BY FS_Subset
  <2>2. SumFunctionOnSet(zero, T) = 0
    BY <2>1, SumOfZeros
  <2>3. SumFunctionOnSet(zero, T) <= SumFunctionOnSet(fun, T)
    BY <2>1, SumMonotone
  <2>4. SumFunctionOnSet(fun, T) \in Int
    BY <2>1, SumIsInt
  <2>5. QED
    BY <2>2, <2>3, <2>4
<1>2. ASSUME NEW x \in S PROVE fun[x] <= SumFunctionOnSet(fun, S)
  <2>1. SumFunctionOnSet(fun, S) = fun[x] + SumFunctionOnSet(fun, S \ {x})
    BY SumWithout
  <2>2. SumFunctionOnSet(fun, S \ {x}) \in Nat /\ fun[x] \in Nat
    BY <1>1
  <2>3. QED
    BY <2>1, <2>2
<1>3. QED
  BY <1>1, <1>2

\* Sums over sets that share nothing add up.
THEOREM SumOfParts ==
  ASSUME NEW S, IsFiniteSet(S), NEW T, IsFiniteSet(T), S \cap T = {},
         NEW fun, \A x \in S \cup T : fun[x] \in Int
  PROVE  SumFunctionOnSet(fun, S \cup T)
           = SumFunctionOnSet(fun, S) + SumFunctionOnSet(fun, T)
<1> DEFINE Q == {U \in SUBSET T :
                   SumFunctionOnSet(fun, S \cup U)
                     = SumFunctionOnSet(fun, S) + SumFunctionOnSet(fun, U)}
<1>1. SumFunctionOnSet(fun, S) \in Int
  BY SumIsInt
<1>2. {} \in Q
  <2>1. S \cup {} = S
    OBVIOUS
  <2>2. SumFunctionOnSet(fun, S \cup {}) = SumFunctionOnSet(fun, S) + 0
    BY <1>1, <2>1
  <2>3. QED
    BY <2>2, SumOfNothing
<1>3. ASSUME NEW U \in SUBSET T, NEW x \in T, U \in Q, x \notin U
      PROVE  U \cup {x} \in Q
  <2>1. IsFiniteSet(U) /\ IsFiniteSet(S \cup U)
    BY FS_Subset, FS_Union
  <2>2. SumFunctionOnSet(fun, U \cup {x}) = SumFunctionOnSet(fun, U) + fun[x]
    BY <1>3, <2>1, SumWith
  <2>3. x \notin S \cup U /\ S \cup (U \cup {x}) = (S \cup U) \cup {x}
    BY <1>3
  <2>4. SumFunctionOnSet(fun, (S \cup U) \cup {x})
          = SumFunctionOnSet(fun, S \cup U) + fun[x]
    BY <2>1, <2>3, SumWith
  <2>5. SumFunctionOnSet(fun, S \cup (U \cup {x}))
          = SumFunctionOnSet(fun, S \cup U) + fun[x]
    BY <2>3, <2>4
  <2>6. SumFunctionOnSet(fun, U) \in Int /\ fun[x] \in Int
    BY <2>1, SumIsInt
  <2>7. SumFunctionOnSet(fun, S \cup U)
          = SumFunctionOnSet(fun, S) + SumFunctionOnSet(fun, U)
    BY <1>3
  <2>8. SumFunctionOnSet(fun, S \cup (U \cup {x}))
          = SumFunctionOnSet(fun, S) + SumFunctionOnSet(fun, U \cup {x})
    BY <1>1, <2>2, <2>5, <2>6, <2>7
  <2>9. QED
    BY <2>8
<1> HIDE DEF Q
<1>4. T \in Q
  BY <1>2, <1>3, SubsetInduction
<1>5. QED
  BY <1>4 DEF Q

\* Summing a table row by row or column by column gives the same.
THEOREM SumSwaps ==
  ASSUME NEW S, IsFiniteSet(S), NEW T, IsFiniteSet(T),
         NEW cell, \A x \in S, y \in T : cell[x][y] \in Int
  PROVE  SumFunctionOnSet([x \in S |-> SumFunctionOnSet([y \in T |-> cell[x][y]], T)], S)
       = SumFunctionOnSet([y \in T |-> SumFunctionOnSet([x \in S |-> cell[x][y]], S)], T)
<1> DEFINE Row(x) == SumFunctionOnSet([y \in T |-> cell[x][y]], T)
           rows == [x \in S |-> Row(x)]
           column(y) == [x \in S |-> cell[x][y]]
           columns(U) == [y \in T |-> SumFunctionOnSet(column(y), U)]
           Q == {U \in SUBSET S : SumFunctionOnSet(rows, U)
                                    = SumFunctionOnSet(columns(U), T)}
<1>1. \A x \in S : Row(x) \in Int
  <2> SUFFICES ASSUME NEW x \in S PROVE Row(x) \in Int
    OBVIOUS
  <2> DEFINE row == [y \in T |-> cell[x][y]]
  <2>1. \A y \in T : row[y] \in Int
    OBVIOUS
  <2> HIDE DEF row
  <2>2. SumFunctionOnSet(row, T) \in Int
    BY <2>1, SumIsInt
  <2>3. QED
    BY <2>2 DEF row
<1>2. \A y \in T : \A x \in S : column(y)[x] \in Int /\ column(y)[x] = cell[x][y]
  OBVIOUS
<1>3. \A x \in S : rows[x] \in Int /\ rows[x] = Row(x)
  BY <1>1
<1> HIDE DEF rows, column
<1>4. \A U \in SUBSET S : \A y \in T : SumFunctionOnSet(column(y), U) \in Int
  BY <1>2, SumIsInt, FS_Subset
<1>5. {} \in Q
  <2>1. \A y \in T : columns({})[y] = 0
    BY SumOfNothing
  <2>2. SumFunctionOnSet(columns({}), T) = 0
    BY <2>1, SumOfZeros
  <2>3. QED
    BY <2>2, SumOfNothing
<1>6. ASSUME NEW U \in SUBSET S, NEW x \in S, U \in Q, x \notin U
      PROVE  U \cup {x} \in Q
  <2> DEFINE row == [y \in T |-> cell[x][y]]
             before == columns(U)
             after == columns(U \cup {x})
  <2>1. IsFiniteSet(U)
    BY FS_Subset
  <2>2. SumFunctionOnSet(rows, U \cup {x}) = SumFunctionOnSet(rows, U) + rows[x]
    BY <1>3, <1>6, <2>1, SumWith
  <2>3. \A y \in T : before[y] \in Int /\ row[y] \in Int
    BY <1>4
  <2>4. \A y \in T : after[y] = before[y] + row[y]
    <3> SUFFICES ASSUME NEW y \in T PROVE after[y] = before[y] + row[y]
      OBVIOUS
    <3>1. SumFunctionOnSet(column(y), U \cup {x})
            = SumFunctionOnSet(column(y), U) + column(y)[x]
      BY <1>2, <1>6, <2>1, SumWith
    <3>2. QED
      BY <1>2, <3>1
  <2> HIDE DEF before, after, row
  <2>5. SumFunctionOnSet(after, T)
          = SumFunctionOnSet(before, T) + SumFunctionOnSet(row, T)
    BY <2>3, <2>4, SumOfTwo
  <2>6. SumFunctionOnSet(row, T) = rows[x]
    BY <1>3 DEF row
  <2>7. SumFunctionOnSet(rows, U) = SumFunctionOnSet(before, T)
    BY <1>6 DEF before
  <2>8. SumFunctionOnSet(rows, U \cup {x}) = SumFunctionOnSet(after, T)
    BY <2>2, <2>5, <2>6, <2>7
  <2>9. QED
    BY <2>8 DEF after
<1> HIDE DEF Q
<1>7. S \in Q
  BY <1>5, <1>6, SubsetInduction
<1>8. QED
  BY <1>7 DEF Q, rows, column

\* A function that is defined at one more place has a sum that is greater by
\* its value there.
THEOREM SumGrows ==
  ASSUME NEW S, IsFiniteSet(S), NEW x, x \notin S,
         NEW fun, DOMAIN fun = S, \A y \in S : fun[y] \in Int,
         NEW hun, DOMAIN hun = S \cup {x}, hun[x] \in Int,
         \A y \in S : hun[y] = fun[y]
  PROVE  SumFunction(hun) = SumFunction(fun) + hun[x]
<1>1. SumFunctionOnSet(hun, S \cup {x}) = SumFunctionOnSet(hun, S) + hun[x]
  BY SumWith
<1>2. SumFunctionOnSet(fun, S) = SumFunctionOnSet(hun, S)
  BY SumAgrees
<1>3. QED
  BY <1>1, <1>2 DEF SumFunction

\* Moving an amount from one term to another leaves the sum as it is.
THEOREM SumOfTransfer ==
  ASSUME NEW S, IsFiniteSet(S), NEW c \in S, NEW d \in S, c # d, NEW a \in Int,
         NEW fun, \A x \in S : fun[x] \in Int,
         NEW hun, hun[c] = fun[c] - a, hun[d] = fun[d] + a,
         \A x \in S \ {c, d} : hun[x] = fun[x]
  PROVE  SumFunctionOnSet(hun, S) = SumFunctionOnSet(fun, S)
<1> DEFINE T == S \ {c}
           U == T \ {d}
<1>1. IsFiniteSet(T) /\ IsFiniteSet(U) /\ d \in T /\ U = S \ {c, d}
  BY FS_Subset
<1>2. \A x \in S : hun[x] \in Int
  <2> SUFFICES ASSUME NEW x \in S PROVE hun[x] \in Int
    OBVIOUS
  <2>1. CASE x = c
    BY <2>1
  <2>2. CASE x = d
    BY <2>2
  <2>3. CASE x # c /\ x # d
    BY <2>3
  <2> QED  BY <2>1, <2>2, <2>3
<1>3. /\ SumFunctionOnSet(hun, S) = hun[c] + SumFunctionOnSet(hun, T)
      /\ SumFunctionOnSet(fun, S) = fun[c] + SumFunctionOnSet(fun, T)
  BY <1>2, SumWithout
<1>4. /\ SumFunctionOnSet(hun, T) = hun[d] + SumFunctionOnSet(hun, U)
      /\ SumFunctionOnSet(fun, T) = fun[d] + SumFunctionOnSet(fun, U)
  BY <1>1, <1>2, SumWithout
<1>5. SumFunctionOnSet(fun, U) = SumFunctionOnSet(hun, U)
  BY <1>1, SumAgrees
<1>6. SumFunctionOnSet(fun, U) \in Int /\ fun[c] \in Int /\ fun[d] \in Int
  BY <1>1, SumIsInt
<1> HIDE DEF T, U
<1> QED  BY <1>3, <1>4, <1>5, <1>6

\* Terms of one sign that sum up to zero are all zero.
THEOREM SumOfOneSign ==
  ASSUME NEW S, IsFiniteSet(S), NEW fun, \A x \in S : fun[x] \in Int,
         \/ \A x \in S : fun[x] <= 0
         \/ \A x \in S : fun[x] >= 0,
         SumFunctionOnSet(fun, S) = 0
  PROVE  \A x \in S : fun[x] = 0
<1> SUFFICES ASSUME NEW x \in S PROVE fun[x] = 0
  OBVIOUS
<1> DEFINE T == S \ {x}
           zero == [y \in T |-> 0]
<1>1. IsFiniteSet(T) /\ \A y \in T : y \in S
  BY FS_Subset
<1>2. 0 = fun[x] + SumFunctionOnSet(fun, T) /\ SumFunctionOnSet(fun, T) \in Int
  BY <1>1, SumWithout, SumIsInt
<1>3. \A y \in T : zero[y] = 0 /\ zero[y] \in Int
  OBVIOUS
<1> HIDE DEF T, zero
<1>4. SumFunctionOnSet(zero, T) = 0
  BY <1>1, <1>3, SumOfZeros
<1>5. CASE \A y \in S : fun[y] <= 0
  <2>1. \A y \in T : fun[y] \in Int /\ zero[y] \in Int /\ fun[y] <= zero[y]
    BY <1>1, <1>3, <1>5
  <2>2. SumFunctionOnSet(fun, T) <= SumFunctionOnSet(zero, T)
    BY <1>1, <2>1, SumMonotone
  <2> QED  BY <1>2, <1>4, <1>5, <2>2
<1>6. CASE \A y \in S : fun[y] >= 0
  <2>1. \A y \in T : fun[y] \in Int /\ zero[y] \in Int /\ zero[y] <= fun[y]
    BY <1>1, <1>3, <1>6
  <2>2. SumFunctionOnSet(zero, T) <= SumFunctionOnSet(fun, T)
    BY <1>1, <2>1, SumMonotone
  <2> QED  BY <1>2, <1>4, <1>6, <2>2
<1> QED  BY <1>5, <1>6



\* Equal terms sum to their number times each.
THEOREM SumOfEqualTerms ==
  ASSUME NEW S, IsFiniteSet(S), NEW q \in Int, NEW fun, \A x \in S : fun[x] = q
  PROVE  SumFunctionOnSet(fun, S) = Cardinality(S) * q
<1> DEFINE Sum(T) == SumFunctionOnSet(fun, T)
           Q == {T \in SUBSET S : Sum(T) = Cardinality(T) * q}
<1>1. {} \in Q
  BY SumOfNothing, FS_EmptySet
<1>2. ASSUME NEW T \in SUBSET S, NEW x \in S, T \in Q, x \notin T
      PROVE  T \cup {x} \in Q
  <2>1. /\ IsFiniteSet(T) /\ Cardinality(T \cup {x}) = Cardinality(T) + 1
        /\ Cardinality(T) \in Nat
    BY <1>2, FS_Subset, FS_AddElement, FS_CardinalityType
  <2>2. Sum(T \cup {x}) = Sum(T) + fun[x]
    <3>1. \A y \in T \cup {x} : fun[y] \in Int
      BY <1>2
    <3> QED  BY <1>2, <2>1, <3>1, SumWith
  <2>3. Sum(T) = Cardinality(T) * q /\ fun[x] = q
    BY <1>2
  <2> DEFINE n == Cardinality(T)
  <2> HIDE DEF Sum, n
  <2>4. (n + 1) * q = n * q + q
    BY <2>1 DEF n
  <2>5. Sum(T \cup {x}) = Cardinality(T \cup {x}) * q
    BY <2>1, <2>2, <2>3, <2>4 DEF n
  <2> QED  BY <2>5 DEF Sum
<1> HIDE DEF Q
<1>3. S \in Q
  BY <1>1, <1>2, SubsetInduction
<1> QED  BY <1>3 DEF Q

\* Terms that are zero outside T may be left out.
THEOREM SumOfPart ==
  ASSUME NEW S, IsFiniteSet(S), NEW T \in SUBSET S, NEW fun,
         \A x \in T : fun[x] \in Int, \A x \in S \ T : fun[x] = 0
  PROVE  SumFunctionOnSet(fun, S) = SumFunctionOnSet(fun, T)
<1>1. IsFiniteSet(T) /\ IsFiniteSet(S \ T)
  BY FS_Subset
<1>2. S = T \cup (S \ T) /\ T \cap (S \ T) = {}
  OBVIOUS
<1>3. \A x \in T \cup (S \ T) : fun[x] \in Int
  OBVIOUS
<1>4. SumFunctionOnSet(fun, T \cup (S \ T))
        = SumFunctionOnSet(fun, T) + SumFunctionOnSet(fun, S \ T)
  BY ONLY <1>1, <1>2, <1>3, SumOfParts
<1>5. SumFunctionOnSet(fun, S \ T) = 0
  BY <1>1, SumOfZeros
<1>6. SumFunctionOnSet(fun, T) \in Int
  BY <1>1, SumIsInt
<1>7. SumFunctionOnSet(fun, S) = SumFunctionOnSet(fun, T \cup (S \ T))
  BY <1>2
<1> QED  BY <1>4, <1>5, <1>6, <1>7

\* A sum with a single term.
THEOREM SumOfOneTerm ==
  ASSUME NEW S, IsFiniteSet(S), NEW k \in S, NEW fun, fun[k] \in Int,
         \A x \in S : x # k => fun[x] = 0
  PROVE  SumFunctionOnSet(fun, S) = fun[k]
<1>1. SumFunctionOnSet(fun, S) = SumFunctionOnSet(fun, {k})
  BY SumOfPart
<1>2. IsFiniteSet({k}) /\ {k} \ {k} = {}
  BY FS_Singleton
<1>3. SumFunctionOnSet(fun, {k}) = fun[k] + SumFunctionOnSet(fun, {k} \ {k})
  BY <1>2, SumWithout
<1> QED  BY <1>1, <1>2, <1>3, SumOfNothing

\* The sum of differences.
THEOREM SumOfDifferences ==
  ASSUME NEW S, IsFiniteSet(S),
         NEW fun, \A x \in S : fun[x] \in Int,
         NEW hun, \A x \in S : hun[x] \in Int,
         NEW diff, \A x \in S : diff[x] = fun[x] - hun[x]
  PROVE  SumFunctionOnSet(diff, S)
           = SumFunctionOnSet(fun, S) - SumFunctionOnSet(hun, S)
<1>1. \A x \in S : diff[x] \in Int /\ fun[x] = diff[x] + hun[x]
  OBVIOUS
<1>2. SumFunctionOnSet(fun, S) = SumFunctionOnSet(diff, S) + SumFunctionOnSet(hun, S)
  BY <1>1, SumOfTwo
<1>3. SumFunctionOnSet(diff, S) \in Int /\ SumFunctionOnSet(hun, S) \in Int
  BY <1>1, SumIsInt
<1> QED  BY <1>2, <1>3

\* Terms of at most b each, on either side of zero, sum to at most b times
\* their number.
THEOREM SumOfSmallTerms ==
  ASSUME NEW S, IsFiniteSet(S), NEW fun, NEW b \in Nat,
         \A x \in S : fun[x] \in Int /\ -b <= fun[x] /\ fun[x] <= b
  PROVE  /\ SumFunctionOnSet(fun, S) \in Int
         /\ -(Cardinality(S) * b) <= SumFunctionOnSet(fun, S)
         /\ SumFunctionOnSet(fun, S) <= Cardinality(S) * b
<1> DEFINE up == [x \in S |-> b]
           dn == [x \in S |-> -b]
<1>1. \A x \in S : up[x] = b /\ dn[x] = -b /\ up[x] \in Int /\ dn[x] \in Int
                   /\ fun[x] <= up[x] /\ dn[x] <= fun[x] /\ fun[x] \in Int
  OBVIOUS
<1> HIDE DEF up, dn
<1>2. SumFunctionOnSet(up, S) = Cardinality(S) * b
  BY <1>1, SumOfEqualTerms
<1>3. SumFunctionOnSet(dn, S) = Cardinality(S) * (-b)
  <2>1. -b \in Int
    OBVIOUS
  <2> QED  BY <1>1, <2>1, SumOfEqualTerms
<1>4. SumFunctionOnSet(fun, S) <= SumFunctionOnSet(up, S)
      /\ SumFunctionOnSet(dn, S) <= SumFunctionOnSet(fun, S)
  BY <1>1, SumMonotone
<1>5. Cardinality(S) \in Nat /\ SumFunctionOnSet(fun, S) \in Int
  BY <1>1, FS_CardinalityType, SumIsInt
<1>6. Cardinality(S) * (-b) = -(Cardinality(S) * b)
  <2> DEFINE n == Cardinality(S)
  <2> HIDE DEF n
  <2>1. n \in Nat
    BY <1>5 DEF n
  <2>2. n * (-b) = -(n * b)
    BY ONLY <2>1, b \in Nat
  <2> QED  BY <2>2 DEF n
<1> QED  BY <1>2, <1>3, <1>4, <1>5, <1>6

\* A common factor comes out of a sum.
THEOREM SumScaled ==
  ASSUME NEW S, IsFiniteSet(S), NEW k \in Int,
         NEW fun, \A x \in S : fun[x] \in Int,
         NEW hun, \A x \in S : hun[x] = k * fun[x]
  PROVE  SumFunctionOnSet(hun, S) = k * SumFunctionOnSet(fun, S)
<1> DEFINE Q == {T \in SUBSET S :
                   SumFunctionOnSet(hun, T) = k * SumFunctionOnSet(fun, T)}
<1>1. {} \in Q
  BY SumOfNothing
<1>2. ASSUME NEW T \in SUBSET S, NEW x \in S, T \in Q, x \notin T
      PROVE  T \cup {x} \in Q
  <2>1. IsFiniteSet(T)
    BY FS_Subset
  <2>2. \A y \in T \cup {x} : fun[y] \in Int /\ hun[y] \in Int
    BY <1>2
  <2>3. SumFunctionOnSet(fun, T \cup {x}) = SumFunctionOnSet(fun, T) + fun[x]
    BY <1>2, <2>1, <2>2, SumWith
  <2>4. SumFunctionOnSet(hun, T \cup {x}) = SumFunctionOnSet(hun, T) + hun[x]
    BY <1>2, <2>1, <2>2, SumWith
  <2>5. SumFunctionOnSet(fun, T) \in Int
    BY <2>1, <2>2, SumIsInt
  <2> DEFINE s == SumFunctionOnSet(fun, T)
             a == fun[x]
  <2>6. hun[x] = k * a /\ SumFunctionOnSet(hun, T) = k * s /\ a \in Int
    BY <1>2, <2>2
  <2> HIDE DEF s, a
  <2>7. k * (s + a) = k * s + k * a
    BY <2>5, <2>6 DEF s
  <2>8. SumFunctionOnSet(hun, T \cup {x}) = k * SumFunctionOnSet(fun, T \cup {x})
    BY <2>3, <2>4, <2>6, <2>7 DEF s, a
  <2> QED  BY <1>2, <2>8
<1> HIDE DEF Q
<1>3. S \in Q
  BY <1>1, <1>2, SubsetInduction
<1> QED  BY <1>3 DEF Q

\* A table of numbers, given by its rows and by its columns, with the sum of
\* each row and of each column.
Tabulated(S, T, row, column, rows, columns) ==
  /\ IsFiniteSet(S) /\ IsFiniteSet(T)
  /\ \A x \in S : \A y \in T : row[x][y] \in Int /\ column[y][x] = row[x][y]
  /\ \A x \in S : rows[x] = SumFunctionOnSet(row[x], T)
  /\ \A y \in T : columns[y] = SumFunctionOnSet(column[y], S)

\* Both orders of summing it.
THEOREM SumOfTable ==
  ASSUME NEW S, NEW T, NEW row, NEW column, NEW rows, NEW columns,
         Tabulated(S, T, row, column, rows, columns)
  PROVE  SumFunctionOnSet(rows, S) = SumFunctionOnSet(columns, T)
<1> USE DEF Tabulated
<1> DEFINE Row(x) == [y \in T |-> row[x][y]]
           Column(y) == [x \in S |-> row[x][y]]
           r == [x \in S |-> SumFunctionOnSet(Row(x), T)]
           c == [y \in T |-> SumFunctionOnSet(Column(y), S)]
<1>1. SumFunctionOnSet(r, S) = SumFunctionOnSet(c, T)
  <2>1. \A x \in S, y \in T : row[x][y] \in Int
    OBVIOUS
  <2>2. IsFiniteSet(S) /\ IsFiniteSet(T)
    OBVIOUS
  <2> QED  BY ONLY <2>1, <2>2, SumSwaps
<1>2. ASSUME NEW x \in S PROVE r[x] \in Int /\ r[x] = rows[x]
  <2> DEFINE f == row[x]
  <2>1. \A y \in T : f[y] \in Int /\ Row(x)[y] = f[y] /\ Row(x)[y] \in Int
    OBVIOUS
  <2>2. r[x] = SumFunctionOnSet(Row(x), T) /\ rows[x] = SumFunctionOnSet(f, T)
    OBVIOUS
  <2> HIDE DEF Row, r, f
  <2>3. SumFunctionOnSet(Row(x), T) \in Int
    BY <2>1, SumIsInt
  <2>4. SumFunctionOnSet(Row(x), T) = SumFunctionOnSet(f, T)
    BY <2>1, SumAgrees
  <2> QED  BY <2>2, <2>3, <2>4
<1>3. ASSUME NEW y \in T PROVE c[y] \in Int /\ c[y] = columns[y]
  <2> DEFINE f == column[y]
  <2>1. \A x \in S : f[x] \in Int /\ Column(y)[x] = f[x] /\ Column(y)[x] \in Int
    OBVIOUS
  <2>2. c[y] = SumFunctionOnSet(Column(y), S) /\ columns[y] = SumFunctionOnSet(f, S)
    OBVIOUS
  <2> HIDE DEF Column, c, f
  <2>3. SumFunctionOnSet(Column(y), S) \in Int
    BY <2>1, SumIsInt
  <2>4. SumFunctionOnSet(Column(y), S) = SumFunctionOnSet(f, S)
    BY <2>1, SumAgrees
  <2> QED  BY <2>2, <2>3, <2>4
<1> HIDE DEF r, c
<1>4. SumFunctionOnSet(r, S) = SumFunctionOnSet(rows, S)
  BY <1>2, SumAgrees
<1>5. SumFunctionOnSet(c, T) = SumFunctionOnSet(columns, T)
  BY <1>3, SumAgrees
<1> QED  BY <1>1, <1>4, <1>5

\* R in parts, one for each key, and the sum of every part.
Grouped(R, V, key, val, part, group) ==
  /\ IsFiniteSet(R) /\ IsFiniteSet(V)
  /\ \A e \in R : key[e] \in V /\ val[e] \in Int
  /\ \A v \in V : \A e : e \in part[v] <=> e \in R /\ key[e] = v
  /\ \A v \in V : group[v] = SumFunctionOnSet(val, part[v])

\* Summing part by part.
THEOREM SumOfGroups ==
  ASSUME NEW R, NEW V, NEW key, NEW val, NEW part, NEW group,
         Grouped(R, V, key, val, part, group)
  PROVE  SumFunctionOnSet(group, V) = SumFunctionOnSet(val, R)
<1> USE DEF Grouped
<1> DEFINE row == [v \in V |-> [e \in R |-> IF key[e] = v THEN val[e] ELSE 0]]
           column == [e \in R |-> [v \in V |-> IF key[e] = v THEN val[e] ELSE 0]]
<1>1. \A v \in V, e \in R : row[v][e] \in Int /\ column[e][v] = row[v][e]
  OBVIOUS
<1>2. ASSUME NEW v \in V PROVE group[v] = SumFunctionOnSet(row[v], R)
  <2> DEFINE G == part[v]
  <2>1. G \in SUBSET R /\ IsFiniteSet(G)
    BY FS_Subset
  <2>2. /\ \A e \in G : row[v][e] = val[e] /\ val[e] \in Int /\ row[v][e] \in Int
        /\ \A e \in R \ G : row[v][e] = 0
    OBVIOUS
  <2>3. group[v] = SumFunctionOnSet(val, G)
    OBVIOUS
  <2> HIDE DEF row, G
  <2>4. SumFunctionOnSet(row[v], R) = SumFunctionOnSet(row[v], G)
    BY <2>1, <2>2, SumOfPart
  <2>5. SumFunctionOnSet(val, G) = SumFunctionOnSet(row[v], G)
    BY <2>1, <2>2, SumAgrees
  <2> QED  BY <2>3, <2>4, <2>5
<1>3. ASSUME NEW e \in R PROVE val[e] = SumFunctionOnSet(column[e], V)
  <2> DEFINE k == key[e]
  <2>1. k \in V /\ column[e][k] = val[e] /\ val[e] \in Int
        /\ \A v \in V : v # k => column[e][v] = 0
    OBVIOUS
  <2> HIDE DEF column, k
  <2> QED  BY <2>1, SumOfOneTerm
<1> HIDE DEF row, column
<1>4. Tabulated(V, R, row, column, group, val)
  BY <1>1, <1>2, <1>3 DEF Tabulated
<1> QED  BY ONLY <1>4, SumOfTable, SMT

=============================================================================
