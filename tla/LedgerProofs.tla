----------------------------- MODULE LedgerProofs -----------------------------
(***************************************************************************)
(* Proofs about Ledger and Balances, for any users, expenses and calls,    *)
(* and requests for any amounts, with any fraction.                        *)
(*                                                                         *)
(* The inductive invariant LedgerInv adds to the types what a call has     *)
(* computed and not yet written: a row and splits that fit each other.     *)
(* They may be stale by the time they are written, but they are written    *)
(* together, so that they still fit in the table.  That the computed       *)
(* splits fit is arithmetic: a rounded quotient is off by half a cent at   *)
(* most, the errors of the shares add up, and to them come the error of    *)
(* the amount itself and what the request was allowed to miss (SplitsFit). *)
(*                                                                         *)
(* The two statements about balances need nothing more.  They are about    *)
(* sums over the same table taken in two orders, by expense and by user.   *)
(***************************************************************************)
EXTENDS Ledger, SumTheorems

-----------------------------------------------------------------------------
(* How an expense is shared out *)

\* A positive factor keeps an order.
LEMMA TimesFactor ==
  ASSUME NEW k \in Int, k >= 0, NEW x \in Int, NEW y \in Int, x <= y
  PROVE  k * x <= k * y
<1> DEFINE z == y - x
<1>1. z \in Nat /\ k \in Nat /\ y = x + z
  OBVIOUS
<1> HIDE DEF z
<1>2. k * z \in Nat
  BY <1>1
<1>3. k * y = k * x + k * z
  BY <1>1
<1> DEFINE kx == k * x
           ky == k * y
           kz == k * z
<1>4. kx \in Int /\ kz \in Nat /\ ky = kx + kz
  BY <1>1, <1>2, <1>3
<1> HIDE DEF kx, ky, kz
<1>5. kx <= ky
  BY <1>4
<1> QED  BY <1>5 DEF kx, ky

\* It can be dropped from one.
LEMMA CancelFactor ==
  ASSUME NEW k \in Int, k > 0, NEW x \in Int, NEW y \in Int, k * x <= k * y
  PROVE  x <= y
<1> SUFFICES ASSUME y + 1 <= x PROVE FALSE
  OBVIOUS
<1>1. k * (y + 1) <= k * x
  BY TimesFactor
<1>2. k * (y + 1) = k * y + k /\ k * y \in Int /\ k * x \in Int
  OBVIOUS
<1> DEFINE kx == k * x
           ky == k * y
<1>3. kx \in Int /\ ky \in Int /\ ky + k <= kx /\ kx <= ky
  BY <1>1, <1>2
<1> HIDE DEF kx, ky
<1> QED  BY <1>3

\* The quotient of a natural is off by half of the unit at most.
LEMMA RoundedNatural ==
  ASSUME NEW n \in Int, NEW d \in Int, d > 0,
         NEW q, q = (2 * n + d) \div (2 * d)
  PROVE  /\ q \in Int
         /\ -d <= 2 * (d * q) - 2 * n
         /\ 2 * (d * q) - 2 * n <= d
<1> DEFINE m == 2 * n + d
           k == 2 * d
<1>1. m \in Int /\ k \in Int /\ k > 0 /\ q = m \div k
  OBVIOUS
<1> HIDE DEF m, k
<1>2. q \in Int /\ k * q <= m /\ m < k * q + k
  BY <1>1, Z3
<1>3. k * q = 2 * (d * q)
  BY <1>2 DEF k
<1>4. d * q \in Int
  BY <1>2
<1>5. 2 * (d * q) <= 2 * n + d /\ 2 * n + d < 2 * (d * q) + 2 * d
  BY <1>2, <1>3 DEF m, k
<1> QED  BY <1>2, <1>4, <1>5

\* So is a rounded quotient of either sign.
LEMMA RoundDivIsNear ==
  ASSUME NEW n \in Int, NEW d \in Int, d > 0
  PROVE  /\ RoundDiv(n, d) \in Int
         /\ -d <= 2 * (d * RoundDiv(n, d)) - 2 * n
         /\ 2 * (d * RoundDiv(n, d)) - 2 * n <= d
<1>1. CASE n >= 0
  BY <1>1, RoundedNatural DEF RoundDiv
<1>2. CASE n < 0
  <2> DEFINE q == (2 * (-n) + d) \div (2 * d)
             r == RoundDiv(n, d)
  <2>1. -n \in Int
    OBVIOUS
  <2>2. q \in Int /\ -d <= 2 * (d * q) - 2 * (-n) /\ 2 * (d * q) - 2 * (-n) <= d
    BY <2>1, RoundedNatural
  <2>3. r = -q
    BY <1>2 DEF RoundDiv
  <2> HIDE DEF q, r
  <2>4. r \in Int /\ d * r = -(d * q) /\ d * q \in Int
    BY <2>2, <2>3
  <2>5. /\ -d <= 2 * (d * r) - 2 * n
        /\ 2 * (d * r) - 2 * n <= d
    BY <2>2, <2>4
  <2> QED  BY <2>4, <2>5 DEF r
<1> QED  BY <1>1, <1>2

\* An amount is off by half a cent at most once it is stored.
LEMMA InCentsIsNear ==
  ASSUME NEW a \in Int
  PROVE  /\ InCents(a) \in Int
         /\ -Parts <= 2 * (Parts * InCents(a)) - 2 * a
         /\ 2 * (Parts * InCents(a)) - 2 * a <= Parts
BY PartsAssumption, RoundDivIsNear DEF InCents

\* The errors of rounded terms add up, to half of the unit for each.
LEMMA RoundedSum ==
  ASSUME NEW D, IsFiniteSet(D), NEW d \in Int, d > 0,
         NEW x, \A u \in D : x[u] \in Int,
         NEW s, \A u \in D : s[u] = RoundDiv(x[u], d)
  PROVE  /\ \A u \in D : s[u] \in Int
         /\ SumFunctionOnSet(s, D) \in Int /\ SumFunctionOnSet(x, D) \in Int
         /\ -(Cardinality(D) * d)
              <= 2 * (d * SumFunctionOnSet(s, D)) - 2 * SumFunctionOnSet(x, D)
         /\ 2 * (d * SumFunctionOnSet(s, D)) - 2 * SumFunctionOnSet(x, D)
              <= Cardinality(D) * d
<1> DEFINE scaled == [u \in D |-> (2 * d) * s[u]]
           whole == [u \in D |-> 2 * x[u]]
           error == [u \in D |-> scaled[u] - whole[u]]
           Sum(f) == SumFunctionOnSet(f, D)
<1>1. \A u \in D : /\ s[u] \in Int /\ scaled[u] \in Int /\ whole[u] \in Int
                   /\ error[u] \in Int /\ -d <= error[u] /\ error[u] <= d
  <2> SUFFICES ASSUME NEW u \in D
               PROVE  /\ s[u] \in Int /\ scaled[u] \in Int /\ whole[u] \in Int
                      /\ error[u] \in Int /\ -d <= error[u] /\ error[u] <= d
    OBVIOUS
  <2> DEFINE a == x[u]
             q == s[u]
  <2>1. a \in Int /\ q = RoundDiv(a, d)
    OBVIOUS
  <2>2. scaled[u] = (2 * d) * q /\ whole[u] = 2 * a /\ error[u] = scaled[u] - whole[u]
    OBVIOUS
  <2> HIDE DEF a, q, scaled, whole, error
  <2>3. q \in Int /\ -d <= 2 * (d * q) - 2 * a /\ 2 * (d * q) - 2 * a <= d
    BY <2>1, RoundDivIsNear
  <2>4. (2 * d) * q = 2 * (d * q) /\ d * q \in Int
    BY <2>3
  <2>5. scaled[u] \in Int /\ whole[u] \in Int /\ error[u] = 2 * (d * q) - 2 * a
    BY <2>1, <2>2, <2>4
  <2> QED  BY <2>1, <2>3, <2>4, <2>5 DEF q
<1>2. Sum(scaled) = (2 * d) * Sum(s)
  <2>1. \A u \in D : s[u] \in Int /\ scaled[u] = (2 * d) * s[u]
    BY <1>1
  <2>2. 2 * d \in Int
    OBVIOUS
  <2> HIDE DEF scaled
  <2> QED  BY <2>1, <2>2, SumScaled
<1>3. Sum(whole) = 2 * Sum(x)
  <2>1. \A u \in D : whole[u] = 2 * x[u]
    OBVIOUS
  <2> HIDE DEF whole
  <2> QED  BY <2>1, SumScaled
<1>4. Sum(error) = Sum(scaled) - Sum(whole)
  <2>1. \A u \in D : error[u] = scaled[u] - whole[u]
    OBVIOUS
  <2> HIDE DEF scaled, whole, error
  <2> QED  BY <1>1, <2>1, SumOfDifferences
<1>5. -(Cardinality(D) * d) <= Sum(error) /\ Sum(error) <= Cardinality(D) * d
  <2>1. d \in Nat
    OBVIOUS
  <2> HIDE DEF error
  <2> QED  BY <1>1, <2>1, SumOfSmallTerms
<1>6. Sum(s) \in Int /\ Sum(x) \in Int
  BY <1>1, SumIsInt
<1> DEFINE S == Sum(s)
           X == Sum(x)
<1> HIDE DEF S, X
<1>7. Sum(error) = 2 * (d * S) - 2 * X
  <2>1. S \in Int /\ X \in Int /\ Sum(error) = (2 * d) * S - 2 * X
    BY <1>2, <1>3, <1>4, <1>6 DEF S, X
  <2> QED  BY <2>1
<1> QED  BY <1>1, <1>5, <1>6, <1>7 DEF S, X

-----------------------------------------------------------------------------

\* Splits as they belong to an expense of this kind and amount, if the table
\* takes the amount at all.
Fits(type, amount, shares) ==
  amount > 0 =>
    IF type = "payer_only" THEN shares = NoShares
    ELSE Missing(amount, shares) <= Tolerance(type, amount, shares)

\* Splits that miss the amount by so many halves of a cent at most miss it by
\* what Missing says of them.
LEMMA MissingHalves ==
  ASSUME NEW amount \in Int, NEW shares, NEW total \in Int, NEW bound \in Int,
         total = SumFunction(shares),
         -bound <= 2 * (total - amount), 2 * (total - amount) <= bound
  PROVE  Missing(amount, shares) <= HalfCent * bound
<1>1. Missing(amount, shares) = 20000 * Magnitude(amount - total)
  BY DEF Missing, HalfCent
<1>2. 20000 * Magnitude(amount - total) <= 10000 * bound
  BY DEF Magnitude
<1> QED  BY <1>1, <1>2 DEF HalfCent

\* An equal share for each covers the amount, up to half a cent for each and
\* for the amount.
LEMMA EqualSplitsFit ==
  ASSUME NEW amount \in Int, NEW input, IsAmounts(input),
         NEW M \in SUBSET User, M # {}
  PROVE  /\ IsAmounts(calculateEqualSplits(amount, input, M))
         /\ Fits("equal", InCents(amount), calculateEqualSplits(amount, input, M))
<1> DEFINE among == IF DOMAIN input = {} THEN M ELSE DOMAIN input
           n == Cardinality(among)
           q == RoundDiv(amount, Parts * n)
           s == [u \in among |-> q]
           A == InCents(amount)
<1>1. among \in SUBSET User /\ among # {}
  BY DEF IsAmounts
<1>2. calculateEqualSplits(amount, input, M) = s
  BY DEF calculateEqualSplits
<1> HIDE DEF among
<1>3. IsFiniteSet(among) /\ n \in Nat /\ n > 0
  <2>1. IsFiniteSet(among)
    BY <1>1, UsersAssumption, FS_Subset
  <2> QED  BY <1>1, <2>1, FS_CardinalityType, FS_EmptySet
<1>4. /\ q \in Int
      /\ -(Parts * n) <= 2 * ((Parts * n) * q) - 2 * amount
      /\ 2 * ((Parts * n) * q) - 2 * amount <= Parts * n
  <2> DEFINE d == Parts * n
  <2>1. d \in Int /\ d > 0
    <3> HIDE DEF n
    <3>1. n \in Nat \ {0} /\ Parts \in Nat \ {0}
      BY <1>3, PartsAssumption
    <3> QED  BY <3>1
  <2>2. q = RoundDiv(amount, d)
    OBVIOUS
  <2> HIDE DEF d, q
  <2>3. q \in Int /\ -d <= 2 * (d * q) - 2 * amount /\ 2 * (d * q) - 2 * amount <= d
    BY <2>1, <2>2, RoundDivIsNear
  <2> QED  BY <2>3 DEF d
<1>5. SumFunction(s) = n * q
  <2>1. \A u \in among : s[u] = q
    OBVIOUS
  <2>2. DOMAIN s = among /\ SumFunction(s) = SumFunctionOnSet(s, among)
    BY DEF SumFunction
  <2> HIDE DEF s, q
  <2> QED  BY <1>3, <1>4, <2>1, <2>2, SumOfEqualTerms
<1>6. DOMAIN s = among /\ IsAmounts(s)
  BY <1>1, <1>4 DEF IsAmounts
<1>7. Cardinality(DOMAIN s) = n
  BY <1>6
<1>8. A \in Int /\ -Parts <= 2 * (Parts * A) - 2 * amount
      /\ 2 * (Parts * A) - 2 * amount <= Parts
  BY InCentsIsNear
<1> HIDE DEF s, q, n, A
<1>9. n * q \in Int /\ n \in Int /\ Parts \in Int /\ Parts > 0
  BY <1>3, <1>4, PartsAssumption
<1>10. -(n + 1) <= 2 * (n * q - A) /\ 2 * (n * q - A) <= n + 1
  <2> DEFINE t == n * q
             x == 2 * (t - A)
  <2>1. t \in Int /\ (Parts * n) * q = Parts * t
    BY <1>3, <1>4, <1>9
  <2> HIDE DEF t
  <2>2. /\ Parts * x = 2 * (Parts * t) - 2 * (Parts * A)
        /\ Parts * (n + 1) = Parts * n + Parts
        /\ Parts * (-(n + 1)) = -(Parts * n) - Parts
    BY <1>8, <1>9, <2>1
  <2>3. Parts * (-(n + 1)) <= Parts * x /\ Parts * x <= Parts * (n + 1)
    <3> DEFINE Pn == Parts * n
               Pt == Parts * t
               PA == Parts * A
    <3>1. Pn \in Int /\ Pt \in Int /\ PA \in Int
      BY <1>8, <1>9, <2>1
    <3>2. /\ -Pn <= 2 * Pt - 2 * amount /\ 2 * Pt - 2 * amount <= Pn
          /\ -Parts <= 2 * PA - 2 * amount /\ 2 * PA - 2 * amount <= Parts
      BY <1>4, <1>8, <2>1
    <3>3. /\ Parts * x = 2 * Pt - 2 * PA
          /\ Parts * (n + 1) = Pn + Parts
          /\ Parts * (-(n + 1)) = -Pn - Parts
      BY <2>2
    <3> HIDE DEF Pn, Pt, PA, x
    <3>4. -Pn - Parts <= 2 * Pt - 2 * PA /\ 2 * Pt - 2 * PA <= Pn + Parts
      BY <1>9, <3>1, <3>2
    <3> QED  BY <3>3, <3>4
  <2>4. x \in Int /\ n + 1 \in Int /\ -(n + 1) \in Int
    BY <1>8, <1>9, <2>1
  <2> HIDE DEF x
  <2>5. -(n + 1) <= x /\ x <= n + 1
    BY <1>9, <2>3, <2>4, CancelFactor
  <2> QED  BY <2>5 DEF x, t
<1>11. Missing(A, s) <= HalfCent * (n + 1)
  <2> DEFINE total == n * q
  <2>1. total \in Int /\ total = SumFunction(s) /\ n + 1 \in Int
        /\ -(n + 1) <= 2 * (total - A) /\ 2 * (total - A) <= n + 1
    BY <1>5, <1>9, <1>10
  <2> HIDE DEF total
  <2> QED  BY <1>8, <2>1, MissingHalves
<1>12. Fits("equal", A, s)
  BY <1>7, <1>11 DEF Fits, Tolerance
<1> QED  BY <1>2, <1>6, <1>12 DEF A

\* Custom amounts within a cent of the total cover it, up to that cent and
\* half a cent for each and for the amount.
LEMMA CustomSplitsFit ==
  ASSUME NEW amount \in Int, NEW input, IsAmounts(input),
         validateAmountTotal(amount, input)
  PROVE  /\ IsAmounts(calculateCustomSplits(input))
         /\ Fits("custom", InCents(amount), calculateCustomSplits(input))
<1> DEFINE D == DOMAIN input
           s == [u \in D |-> RoundDiv(input[u], Parts)]
           n == Cardinality(D)
           A == InCents(amount)
           S == SumFunctionOnSet(s, D)
           X == SumFunctionOnSet(input, D)
<1>1. D \in SUBSET User /\ IsFiniteSet(D) /\ n \in Nat /\ \A u \in D : input[u] \in Int
  <2>1. D \in SUBSET User /\ \A u \in D : input[u] \in Int
    BY DEF IsAmounts
  <2> QED  BY <2>1, UsersAssumption, FS_Subset, FS_CardinalityType
<1>2. calculateCustomSplits(input) = s
  BY DEF calculateCustomSplits, InCents
<1>3. Parts \in Int /\ Parts > 0
  BY PartsAssumption
<1>4. /\ \A u \in D : s[u] \in Int
      /\ S \in Int /\ X \in Int
      /\ -(n * Parts) <= 2 * (Parts * S) - 2 * X
      /\ 2 * (Parts * S) - 2 * X <= n * Parts
  <2>1. \A u \in D : s[u] = RoundDiv(input[u], Parts)
    OBVIOUS
  <2> HIDE DEF s, D
  <2> QED  BY <1>1, <1>3, <2>1, RoundedSum
<1>5. -Parts <= X - amount /\ X - amount <= Parts
  <2>1. Magnitude(X - amount) <= Parts
    BY DEF validateAmountTotal, SumFunction
  <2> HIDE DEF X
  <2> QED  BY <1>3, <1>4, <2>1 DEF Magnitude
<1>6. A \in Int /\ -Parts <= 2 * (Parts * A) - 2 * amount
      /\ 2 * (Parts * A) - 2 * amount <= Parts
  BY InCentsIsNear
<1>7. DOMAIN s = D /\ IsAmounts(s) /\ SumFunction(s) = S /\ Cardinality(DOMAIN s) = n
  BY <1>1, <1>4 DEF IsAmounts, SumFunction
<1> HIDE DEF s, D, n, A, S, X
<1>8. -(n + 3) <= 2 * (S - A) /\ 2 * (S - A) <= n + 3
  <2> DEFINE x == 2 * (S - A)
             Pn == n * Parts
             PS == Parts * S
             PA == Parts * A
  <2>1. Pn \in Int /\ PS \in Int /\ PA \in Int
    BY <1>1, <1>3, <1>4, <1>6
  <2>2. /\ Parts * x = 2 * PS - 2 * PA
        /\ Parts * (n + 3) = Pn + 3 * Parts
        /\ Parts * (-(n + 3)) = -Pn - 3 * Parts
    BY <1>1, <1>3, <1>4, <1>6
  <2>3. x \in Int /\ n + 3 \in Int /\ -(n + 3) \in Int
    BY <1>1, <1>4, <1>6
  <2>4. /\ -Pn <= 2 * PS - 2 * X /\ 2 * PS - 2 * X <= Pn
        /\ -Parts <= 2 * PA - 2 * amount /\ 2 * PA - 2 * amount <= Parts
    BY <1>4, <1>6
  <2> HIDE DEF x, Pn, PS, PA
  <2>5. /\ -Pn - 3 * Parts <= 2 * PS - 2 * PA
        /\ 2 * PS - 2 * PA <= Pn + 3 * Parts
    BY <1>3, <1>4, <1>5, <2>1, <2>4
  <2>6. Parts * (-(n + 3)) <= Parts * x /\ Parts * x <= Parts * (n + 3)
    BY <2>2, <2>5
  <2>7. -(n + 3) <= x /\ x <= n + 3
    BY <1>3, <2>3, <2>6, CancelFactor
  <2> QED  BY <2>7 DEF x
<1>9. Missing(A, s) <= HalfCent * (n + 3)
  <2>1. n + 3 \in Int /\ S = SumFunction(s)
    BY <1>1, <1>7
  <2> QED  BY <1>4, <1>6, <1>8, <2>1, MissingHalves
<1>10. HalfCent * (n + 3) = HalfCent * (n + 1) + 2 * HalfCent
  BY <1>1 DEF HalfCent
<1>11. Fits("custom", A, s)
  BY <1>7, <1>9, <1>10 DEF Fits, Tolerance
<1> QED  BY <1>2, <1>7, <1>11 DEF A

\* What percentages p that total t leave of an amount a, in parts, when it is
\* stored as A and the n shares sum up to S.
LEMMA PercentageMisses ==
  ASSUME NEW P \in Int, P > 0, NEW a \in Int, a >= 0, NEW A \in Int,
         NEW S \in Int, NEW n \in Int, NEW t \in Int,
         -P <= 2 * (P * A) - 2 * a, 2 * (P * A) - 2 * a <= P,
         -P <= t - 10000 * P, t - 10000 * P <= P,
         -(n * (P * (10000 * P))) <= 2 * ((P * (10000 * P)) * S) - 2 * (a * t),
         2 * ((P * (10000 * P)) * S) - 2 * (a * t) <= n * (P * (10000 * P))
  PROVE  /\ -(10000 * (n + 1) + 2 * A + 1) <= 20000 * (S - A)
         /\ 20000 * (S - A) <= 10000 * (n + 1) + 2 * A + 1
<1> DEFINE K == P * P
           aP == a * P
           at == a * t
           PA == P * A
           KA == K * A
           KS == K * S
           Kn == K * n
           x == 20000 * (S - A)
           y == 10000 * (n + 1) + 2 * A + 1
<1>1. K \in Int /\ K > 0 /\ P * (10000 * P) = 10000 * K
  BY TimesFactor
<1>2. aP \in Int /\ at \in Int /\ PA \in Int /\ P * PA = KA
  OBVIOUS
<1>3. -aP <= at - 10000 * aP /\ at - 10000 * aP <= aP
  <2>1. a * (9999 * P) <= a * t /\ a * t <= a * (10001 * P)
    <3>1. 9999 * P \in Int /\ 10001 * P \in Int /\ 9999 * P <= t /\ t <= 10001 * P
      OBVIOUS
    <3> QED  BY <3>1, TimesFactor
  <2>2. a * (9999 * P) = 9999 * aP /\ a * (10001 * P) = 10001 * aP
    OBVIOUS
  <2>3. 9999 * aP <= at /\ at <= 10001 * aP
    BY <2>1, <2>2
  <2> HIDE DEF aP, at
  <2> QED  BY <1>2, <2>3
<1>4. -K <= 2 * KA - 2 * aP /\ 2 * KA - 2 * aP <= K
  <2> DEFINE z == 2 * PA - 2 * a
  <2>1. z \in Int /\ -P <= z /\ z <= P /\ -P \in Int
    BY <1>2
  <2>2. P * z = 2 * KA - 2 * aP
    BY <1>2
  <2> HIDE DEF z
  <2>3. P * (-P) <= P * z /\ P * z <= P * P
    BY <2>1, TimesFactor
  <2>4. P * (-P) = -K
    OBVIOUS
  <2> QED  BY <2>2, <2>3, <2>4
<1> HIDE DEF K, aP, at, PA
<1>5. KA \in Int /\ KS \in Int /\ Kn \in Int
  BY <1>1
<1>6. -(10000 * Kn) <= 20000 * KS - 2 * at /\ 20000 * KS - 2 * at <= 10000 * Kn
  <2>1. n * (P * (10000 * P)) = 10000 * Kn
    BY <1>1
  <2>2. 2 * ((P * (10000 * P)) * S) = 20000 * KS
    BY <1>1
  <2>3. -(n * (P * (10000 * P))) <= 2 * ((P * (10000 * P)) * S) - 2 * at
        /\ 2 * ((P * (10000 * P)) * S) - 2 * at <= n * (P * (10000 * P))
    BY DEF at
  <2> QED  BY <2>1, <2>2, <2>3
<1>7. K * x = 20000 * KS - 20000 * KA
  BY <1>1
<1>8. /\ K * y = 10000 * Kn + 10001 * K + 2 * KA
      /\ K * (-y) = -(10000 * Kn + 10001 * K + 2 * KA)
  BY <1>1
<1>9. x \in Int /\ y \in Int /\ -y \in Int
  OBVIOUS
<1> HIDE DEF KA, KS, Kn, x, y
<1>10. /\ -(10000 * Kn + 10001 * K + 2 * KA) <= 20000 * KS - 20000 * KA
       /\ 20000 * KS - 20000 * KA <= 10000 * Kn + 10001 * K + 2 * KA
  BY <1>1, <1>2, <1>3, <1>4, <1>5, <1>6
<1>11. K * (-y) <= K * x /\ K * x <= K * y
  BY <1>7, <1>8, <1>10
<1>12. -y <= x /\ x <= y
  BY <1>1, <1>9, <1>11, CancelFactor
<1> QED  BY <1>12 DEF x, y

\* Percentages within a hundredth of 100 cover the amount, up to a hundredth
\* of a percent of it and half a cent for each and for the amount.
LEMMA PercentageSplitsFit ==
  ASSUME NEW amount \in Int, NEW input, IsAmounts(input),
         validatePercentageTotal(input)
  PROVE  /\ IsAmounts(calculatePercentageSplits(amount, input))
         /\ Fits("percentage", InCents(amount), calculatePercentageSplits(amount, input))
<1> DEFINE D == DOMAIN input
           d == Parts * (10000 * Parts)
           x == [u \in D |-> amount * input[u]]
           s == [u \in D |-> RoundDiv(x[u], d)]
           n == Cardinality(D)
           A == InCents(amount)
           S == SumFunctionOnSet(s, D)
           t == SumFunctionOnSet(input, D)
<1>1. D \in SUBSET User /\ IsFiniteSet(D) /\ n \in Nat /\ \A u \in D : input[u] \in Int
  <2>1. D \in SUBSET User /\ \A u \in D : input[u] \in Int
    BY DEF IsAmounts
  <2> QED  BY <2>1, UsersAssumption, FS_Subset, FS_CardinalityType
<1>2. calculatePercentageSplits(amount, input) = s
  BY DEF calculatePercentageSplits, Whole
<1>3. Parts \in Int /\ Parts > 0 /\ d \in Int /\ d > 0
  <2>1. Parts \in Nat \ {0}
    BY PartsAssumption
  <2> QED  BY <2>1
<1>4. \A u \in D : x[u] \in Int
  <2> SUFFICES ASSUME NEW u \in D PROVE x[u] \in Int
    OBVIOUS
  <2>1. input[u] \in Int /\ x[u] = amount * input[u]
    BY <1>1
  <2> HIDE DEF x
  <2> QED  BY <2>1
<1>5. t \in Int /\ SumFunctionOnSet(x, D) = amount * t
  <2>1. \A u \in D : x[u] = amount * input[u]
    OBVIOUS
  <2> HIDE DEF x, D
  <2> QED  BY <1>1, <2>1, SumScaled, SumIsInt
<1>6. /\ \A u \in D : s[u] \in Int
      /\ S \in Int
      /\ -(n * d) <= 2 * (d * S) - 2 * (amount * t)
      /\ 2 * (d * S) - 2 * (amount * t) <= n * d
  <2>1. \A u \in D : s[u] = RoundDiv(x[u], d)
    OBVIOUS
  <2> HIDE DEF s, x, d, D
  <2> QED  BY <1>1, <1>3, <1>4, <1>5, <2>1, RoundedSum
<1>7. -Parts <= t - 10000 * Parts /\ t - 10000 * Parts <= Parts
  <2>1. Magnitude(t - 10000 * Parts) <= Parts
    BY DEF validatePercentageTotal, Whole, SumFunction
  <2> HIDE DEF t
  <2> QED  BY <1>3, <1>5, <2>1 DEF Magnitude
<1>8. A \in Int /\ -Parts <= 2 * (Parts * A) - 2 * amount
      /\ 2 * (Parts * A) - 2 * amount <= Parts
  BY InCentsIsNear
<1>9. DOMAIN s = D /\ IsAmounts(s) /\ SumFunction(s) = S /\ Cardinality(DOMAIN s) = n
  BY <1>1, <1>6 DEF IsAmounts, SumFunction
<1> HIDE DEF D, x, s, n, A, S, t
<1>10. ASSUME A > 0
       PROVE  Missing(A, s) <= HalfCent * (n + 1) + 2 * A + 1
  <2>1. amount >= 0
    <3> DEFINE PA == Parts * A
    <3>1. Parts * 1 <= PA
      BY <1>3, <1>8, <1>10, TimesFactor
    <3>2. PA \in Int /\ Parts <= PA /\ 2 * PA - 2 * amount <= Parts
      BY <1>3, <1>8, <3>1
    <3> HIDE DEF PA
    <3> QED  BY <1>3, <3>2
  <2>2. n \in Int
    BY <1>1
  <2>3. /\ -(10000 * (n + 1) + 2 * A + 1) <= 20000 * (S - A)
        /\ 20000 * (S - A) <= 10000 * (n + 1) + 2 * A + 1
    BY <1>3, <1>5, <1>6, <1>7, <1>8, <2>1, <2>2, PercentageMisses
  <2>4. Missing(A, s) = 20000 * Magnitude(A - S)
    BY <1>9 DEF Missing, HalfCent
  <2>5. 20000 * Magnitude(A - S) <= 10000 * (n + 1) + 2 * A + 1
    BY <1>6, <1>8, <2>2, <2>3 DEF Magnitude
  <2> QED  BY <2>4, <2>5 DEF HalfCent
<1>11. Fits("percentage", A, s)
  BY <1>9, <1>10 DEF Fits, Tolerance
<1> QED  BY <1>2, <1>9, <1>11 DEF A

\* Accepted splits, as they are calculated, fit the amount as it is stored.
LEMMA SplitsFit ==
  ASSUME NEW type, NEW amount \in Int, NEW input, IsAmounts(input),
         NEW M \in SUBSET User, SplitsAccepted(type, amount, input, M)
  PROVE  /\ type \in SplitType
         /\ IsAmounts(calculateSplits(type, amount, input, M))
         /\ Fits(type, InCents(amount), calculateSplits(type, amount, input, M))
<1>1. type \in SplitType /\ M # {}
  BY DEF SplitsAccepted
<1>2. CASE type = "equal"
  BY <1>1, <1>2, EqualSplitsFit DEF calculateSplits
<1>3. CASE type = "percentage"
  <2>1. validatePercentageTotal(input)
    BY <1>3 DEF SplitsAccepted
  <2> QED  BY <1>1, <1>3, <2>1, PercentageSplitsFit DEF calculateSplits
<1>4. CASE type = "custom"
  <2>1. validateAmountTotal(amount, input)
    BY <1>4 DEF SplitsAccepted
  <2> QED  BY <1>1, <1>4, <2>1, CustomSplitsFit DEF calculateSplits
<1>5. CASE type = "payer_only"
  <2>1. calculateSplits(type, amount, input, M) = NoShares
    BY <1>5 DEF calculateSplits
  <2>2. IsAmounts(NoShares)
    BY DEF NoShares, IsAmounts
  <2> QED  BY <1>1, <1>5, <2>1, <2>2 DEF Fits
<1> QED  BY <1>1, <1>2, <1>3, <1>4, <1>5 DEF SplitType

-----------------------------------------------------------------------------
(* The inductive invariant *)

\* Amounts for some of the users
Amounts == {s \in UNION {[T -> Int] : T \in SUBSET User} : IsAmounts(s)}

\* the local state of a handler execution
Local == [at : {"idle", "write", "readback"},
          op : {"none", "create", "update", "delete"},
          eid : ExpenseId \cup {None},
          row : Draft \cup {Absent},
          shares : Amounts,
          inRange : BOOLEAN]

\* The types, with functions and records that are nothing but that.
LedgerTypes ==
  /\ members \in SUBSET User
  /\ expenses \in [ExpenseId -> Expense \cup {Absent}]
  /\ splits \in [ExpenseId -> Amounts]
  /\ used \in SUBSET ExpenseId
  /\ confirmed \in [User -> [User -> Nat]]
  /\ call \in [Call -> Local]

\* What a call holds when it is about to write or to read back.
Prepared(l) ==
  /\ l.op \in {"create", "update"} =>
       l.row \in Draft /\ Fits(l.row.type, l.row.amount, l.shares)
  /\ l.op \in {"update", "delete"} \/ l.at = "readback" => l.eid \in ExpenseId

\* What a row of the table and its splits are.
Booked(e) ==
  /\ IsShares(splits[e])
  /\ IF expenses[e] = Absent THEN splits[e] = NoShares
     ELSE Fits(expenses[e].type, expenses[e].amount, splits[e])

LedgerInv ==
  /\ LedgerTypes
  /\ \A c \in Call : Prepared(call[c])
  /\ \A e \in ExpenseId : Booked(e)

\* Amounts is the set of what IsAmounts says.
LEMMA AmountsAre ==
  ASSUME NEW s
  PROVE  s \in Amounts <=> IsAmounts(s)
BY DEF Amounts, IsAmounts

\* No splits at all are splits.
LEMMA NoSharesAre == NoShares \in Amounts /\ IsShares(NoShares)
BY AmountsAre DEF NoShares, IsShares, IsAmounts

\* No row is Absent.
LEMMA DraftsAreRows == Absent \notin Draft /\ Absent \notin Expense
BY DEF Absent, Draft, Expense, SplitType

\* An idle call is about to write nothing.
LEMMA IdleIsPrepared == Idle \in Local /\ Prepared(Idle)
<1>1. NoShares \in Amounts
  BY NoSharesAre
<1>2. Idle \in Local
  BY <1>1 DEF Idle, Local
<1>3. Prepared(Idle)
  BY DEF Idle, Prepared
<1> QED  BY <1>2, <1>3

\* The empty tables and idle calls.
LEMMA LedgerInitInv == Init => LedgerInv
<1> SUFFICES ASSUME Init PROVE LedgerInv
  OBVIOUS
<1>1. LedgerTypes
  BY IdleIsPrepared, NoSharesAre DEF Init, LedgerTypes
<1>2. \A c \in Call : Prepared(call[c])
  BY IdleIsPrepared DEF Init
<1>3. \A e \in ExpenseId : Booked(e)
  BY NoSharesAre DEF Init, Booked
<1> QED  BY <1>1, <1>2, <1>3 DEF LedgerInv

-----------------------------------------------------------------------------

\* A step that changes nothing but one call, to a prepared state, or to idle.
LEMMA CallOnly ==
  ASSUME LedgerInv, NEW c \in Call, NEW l \in Local, Prepared(l),
         call' = [call EXCEPT ![c] = l]
  PROVE  call' \in [Call -> Local] /\ \A d \in Call : Prepared(call'[d])
BY DEF LedgerInv, LedgerTypes

\* A step that does not touch the tables keeps what they hold.
LEMMA TablesKept ==
  ASSUME LedgerInv, UNCHANGED <<expenses, splits>>
  PROVE  \A e \in ExpenseId : Booked(e)'
BY DEF LedgerInv, Booked

\* What a handler will write is a row, as the table holds it, with splits that
\* fit it.
LEMMA ToWritePrepared ==
  ASSUME LedgerInv, NEW op \in {"create", "update"},
         NEW eid \in ExpenseId \cup {None}, op = "update" => eid \in ExpenseId,
         NEW row, row = [paidBy |-> row.paidBy, amount |-> row.amount, type |-> row.type],
         row.paidBy \in User, row.amount \in Int,
         NEW input, IsAmounts(input),
         SplitsAccepted(row.type, row.amount, input, members)
  PROVE  ToWrite(op, eid, row, input) \in Local /\ Prepared(ToWrite(op, eid, row, input))
<1> DEFINE t == row.type
           a == row.amount
           shares == calculateSplits(t, a, input, members)
           stored == [paidBy |-> row.paidBy, amount |-> InCents(a), type |-> t]
           l == [at |-> "write", op |-> op, eid |-> eid, row |-> stored,
                 shares |-> shares, inRange |-> PercentagesAccepted(t, a, input)]
<1>1. ToWrite(op, eid, row, input) = l
  <2>1. [row EXCEPT !.amount = InCents(@)] = stored
    OBVIOUS
  <2> QED  BY <2>1 DEF ToWrite
<1>2. t \in SplitType /\ IsAmounts(shares) /\ Fits(t, InCents(a), shares)
  <2>1. members \in SUBSET User
    BY DEF LedgerInv, LedgerTypes
  <2> HIDE DEF t, a
  <2>2. SplitsAccepted(t, a, input, members) /\ a \in Int
    BY DEF t, a
  <2> QED  BY <2>1, <2>2, SplitsFit
<1>3. stored \in Draft
  <2>1. InCents(a) \in Int
    BY InCentsIsNear
  <2> QED  BY <1>2, <2>1 DEF Draft
<1>4. PercentagesAccepted(t, a, input) \in BOOLEAN
  BY DEF PercentagesAccepted
<1>5. shares \in Amounts
  BY <1>2, AmountsAre
<1>6. stored.type = t /\ stored.amount = InCents(a)
  OBVIOUS
<1> HIDE DEF shares, stored, t, a
<1>7. l \in Local
  BY <1>3, <1>4, <1>5 DEF Local
<1>8. Prepared(l)
  BY <1>2, <1>3, <1>6 DEF Prepared
<1> QED  BY <1>1, <1>7, <1>8

\* A create computes splits that fit.
LEMMA CreateReadsInv ==
  ASSUME LedgerInv, NEW c \in Call, NEW u \in Caller,
         NEW named \in Designated \cup {None}, NEW req \in NewExpense,
         CreateReads(c, u, named, req)
  PROVE  LedgerInv'
<1> DEFINE row == [paidBy |-> Given(named, u), amount |-> req.amount, type |-> req.type]
           input == req.input
           l == ToWrite("create", None, row, input)
<1>1. /\ req.amount \in Int /\ IsAmounts(input)
      /\ SplitsAccepted(row.type, row.amount, input, members)
  BY RequestsAssumption DEF CreateReads
<1>2. Given(named, u) \in User
  BY UsersAssumption DEF Given
<1>3. /\ row = [paidBy |-> row.paidBy, amount |-> row.amount, type |-> row.type]
      /\ row.paidBy \in User /\ row.amount \in Int
  BY <1>1, <1>2
<1>4. call' = [call EXCEPT ![c] = l] /\ UNCHANGED <<members, expenses, splits, used, confirmed>>
  BY DEF CreateReads
<1> HIDE DEF row, input
<1>5. l \in Local /\ Prepared(l)
  BY <1>1, <1>3, ToWritePrepared
<1> HIDE DEF l
<1>6. call' \in [Call -> Local] /\ \A d \in Call : Prepared(call'[d])
  BY <1>4, <1>5, CallOnly
<1> QED  BY <1>4, <1>6, TablesKept DEF LedgerInv, LedgerTypes

\* An edited expense is a row but for its kind, which is checked after.
LEMMA EditedIsRow ==
  ASSUME LedgerInv, NEW e \in ExpenseId, NEW named \in Designated \cup {None},
         NEW ch \in Change, Exists(e),
         NEW row, row = Edited(e, named, ch)
  PROVE  /\ row = [paidBy |-> row.paidBy, amount |-> row.amount, type |-> row.type]
         /\ row.paidBy \in User /\ row.amount \in Int
<1>1. expenses[e] \in Expense
  BY DEF LedgerInv, LedgerTypes, Exists
<1> DEFINE p == expenses[e].paidBy
           a == Parts * expenses[e].amount
<1>2. p \in User /\ a \in Int
  BY <1>1, PartsAssumption DEF Expense
<1>3. Given(named, p) \in User
  BY <1>2, UsersAssumption DEF Given
<1>4. Given(ch.amount, a) \in Int
  BY <1>2, RequestsAssumption DEF Given
<1>5. row = [paidBy |-> Given(named, p), amount |-> Given(ch.amount, a),
             type |-> Given(ch.type, expenses[e].type)]
  BY DEF Edited
<1> HIDE DEF p, a
<1> QED  BY <1>3, <1>4, <1>5

\* An update computes splits that fit the edited row.
LEMMA UpdateReadsInv ==
  ASSUME LedgerInv, NEW c \in Call, NEW u \in Caller, NEW e \in ExpenseId,
         NEW named \in Designated \cup {None}, NEW ch \in Change,
         UpdateReads(c, u, e, named, ch)
  PROVE  LedgerInv'
<1> DEFINE row == Edited(e, named, ch)
           input == ch.input
           l == ToWrite("update", e, row, input)
<1>1. /\ Exists(e) /\ SplitsAccepted(row.type, row.amount, input, members)
      /\ call' = [call EXCEPT ![c] = l]
      /\ UNCHANGED <<members, expenses, splits, used, confirmed>>
  BY DEF UpdateReads
<1>2. IsAmounts(input)
  BY RequestsAssumption
<1>3. /\ row = [paidBy |-> row.paidBy, amount |-> row.amount, type |-> row.type]
      /\ row.paidBy \in User /\ row.amount \in Int
  BY <1>1, EditedIsRow
<1> HIDE DEF row, input
<1>4. l \in Local /\ Prepared(l)
  BY <1>1, <1>2, <1>3, ToWritePrepared
<1> HIDE DEF l
<1>5. call' \in [Call -> Local] /\ \A d \in Call : Prepared(call'[d])
  BY <1>1, <1>4, CallOnly
<1> QED  BY <1>1, <1>5, TablesKept DEF LedgerInv, LedgerTypes

\* A delete has its expense in hand.
LEMMA DeleteReadsInv ==
  ASSUME LedgerInv, NEW c \in Call, NEW u \in Caller, NEW e \in ExpenseId,
         DeleteReads(c, u, e)
  PROVE  LedgerInv'
<1> DEFINE l == [Idle EXCEPT !.at = "write", !.op = "delete", !.eid = e]
<1>1. l \in Local /\ Prepared(l)
  BY NoSharesAre DEF Idle, Local, Prepared
<1>2. call' = [call EXCEPT ![c] = l] /\ UNCHANGED <<members, expenses, splits, used, confirmed>>
  BY DEF DeleteReads
<1> HIDE DEF l
<1>3. call' \in [Call -> Local] /\ \A d \in Call : Prepared(call'[d])
  BY <1>1, <1>2, CallOnly
<1> QED  BY <1>2, <1>3, TablesKept DEF LedgerInv, LedgerTypes

-----------------------------------------------------------------------------

\* A call that returns is idle.
LEMMA ReturnInv ==
  ASSUME LedgerInv, NEW c \in Call, Return(c)
  PROVE  call' \in [Call -> Local] /\ \A d \in Call : Prepared(call'[d])
BY CallOnly, IdleIsPrepared DEF Return

\* An accepted row and its splits, written for the expense e.
LEMMA WriteKeepsBooked ==
  ASSUME LedgerInv, NEW e \in ExpenseId, NEW c \in Call,
         call[c].row \in Draft, RowAccepted(call[c]),
         Fits(call[c].row.type, call[c].row.amount, call[c].shares),
         NEW r \in Expense, r.type = call[c].row.type, r.amount = call[c].row.amount,
         expenses' = [expenses EXCEPT ![e] = r],
         splits' = [splits EXCEPT ![e] = call[c].shares]
  PROVE  /\ expenses' \in [ExpenseId -> Expense \cup {Absent}]
         /\ splits' \in [ExpenseId -> Amounts]
         /\ \A f \in ExpenseId : Booked(f)'
<1> DEFINE s == call[c].shares
<1>1. s \in Amounts
  BY DEF LedgerInv, LedgerTypes, Local
<1>2. IsShares(s)
  BY <1>1, AmountsAre DEF IsShares, RowAccepted
<1>3. Fits(r.type, r.amount, s)
  OBVIOUS
<1>4. /\ expenses \in [ExpenseId -> Expense \cup {Absent}] /\ splits \in [ExpenseId -> Amounts]
      /\ splits' = [splits EXCEPT ![e] = s]
  BY DEF LedgerInv, LedgerTypes
<1> HIDE DEF s
<1>5. /\ expenses' \in [ExpenseId -> Expense \cup {Absent}]
      /\ splits' \in [ExpenseId -> Amounts]
  BY <1>1, <1>4
<1>6. ASSUME NEW f \in ExpenseId PROVE Booked(f)'
  <2>1. CASE f = e
    <3>1. expenses'[f] = r /\ splits'[f] = s
      BY <1>4, <2>1
    <3> QED  BY <1>2, <1>3, <3>1, DraftsAreRows DEF Booked
  <2>2. CASE f # e
    <3>1. expenses'[f] = expenses[f] /\ splits'[f] = splits[f]
      BY <1>4, <2>2
    <3>2. Booked(f)
      BY DEF LedgerInv
    <3> QED  BY <3>1, <3>2 DEF Booked
  <2> QED  BY <2>1, <2>2
<1> QED  BY <1>5, <1>6

\* The write is done; the call goes on to read back the expense e.
LEMMA ReadbackPrepared ==
  ASSUME LedgerInv, NEW c \in Call, NEW e \in ExpenseId,
         call[c].op \in {"create", "update"},
         NEW l, l = [call[c] EXCEPT !.at = "readback", !.eid = e]
  PROVE  l \in Local /\ Prepared(l)
<1>1. call[c] \in Local /\ Prepared(call[c])
  BY DEF LedgerInv, LedgerTypes
<1>2. l \in Local
  BY <1>1 DEF Local
<1>3. l.op = call[c].op /\ l.eid = e /\ l.at = "readback" /\ l.row = call[c].row
      /\ l.shares = call[c].shares
  BY <1>1 DEF Local
<1>4. Prepared(l)
  BY <1>1, <1>3 DEF Prepared
<1> QED  BY <1>2, <1>4

\* What a create writes is accepted, or nothing.
LEMMA CreateInv ==
  ASSUME LedgerInv, NEW c \in Call, Create(c)
  PROVE  LedgerInv'
<1>1. call[c].op = "create" /\ call[c] \in Local /\ Prepared(call[c])
  BY DEF Create, LedgerInv, LedgerTypes
<1>2. call[c].row \in Draft /\ Fits(call[c].row.type, call[c].row.amount, call[c].shares)
  BY <1>1 DEF Prepared
<1>3. CASE RowAccepted(call[c])
  <2>1. PICK e \in ExpenseId \ used :
          /\ expenses' = [expenses EXCEPT ![e] = call[c].row]
          /\ splits' = [splits EXCEPT ![e] = call[c].shares]
          /\ used' = used \cup {e}
          /\ call' = [call EXCEPT ![c].at = "readback", ![c].eid = e]
    BY <1>3 DEF Create
  <2>2. call[c].row \in Expense
    BY <1>2, <1>3 DEF RowAccepted, Draft, Expense
  <2>3. /\ expenses' \in [ExpenseId -> Expense \cup {Absent}]
        /\ splits' \in [ExpenseId -> Amounts]
        /\ \A f \in ExpenseId : Booked(f)'
    <3> DEFINE r == call[c].row
    <3>1. r \in Expense /\ r.type = call[c].row.type /\ r.amount = call[c].row.amount
          /\ expenses' = [expenses EXCEPT ![e] = r]
      BY <2>1, <2>2
    <3> HIDE DEF r
    <3> QED  BY <1>2, <1>3, <2>1, <3>1, WriteKeepsBooked
  <2> DEFINE l == [call[c] EXCEPT !.at = "readback", !.eid = e]
  <2>4. l \in Local /\ Prepared(l)
    BY <1>1, ReadbackPrepared
  <2>5. call' = [call EXCEPT ![c] = l]
    BY <2>1 DEF LedgerInv, LedgerTypes
  <2> HIDE DEF l
  <2>6. call' \in [Call -> Local] /\ \A d \in Call : Prepared(call'[d])
    BY <2>4, <2>5, CallOnly
  <2> QED  BY <2>1, <2>3, <2>6 DEF LedgerInv, LedgerTypes, Create
<1>4. CASE ~RowAccepted(call[c])
  <2>1. Return(c) /\ UNCHANGED <<members, expenses, splits, used, confirmed>>
    BY <1>4 DEF Create
  <2> QED  BY <2>1, ReturnInv, TablesKept DEF LedgerInv, LedgerTypes
<1> QED  BY <1>3, <1>4

\* What an update writes replaces amount, kind and splits together.
LEMMA UpdateInv ==
  ASSUME LedgerInv, NEW c \in Call, Update(c)
  PROVE  LedgerInv'
<1> DEFINE e == call[c].eid
           l == [call[c] EXCEPT !.at = "readback", !.eid = e]
<1>1. call[c].op = "update" /\ call[c] \in Local /\ Prepared(call[c])
      /\ UNCHANGED <<members, used, confirmed>>
  BY DEF Update, LedgerInv, LedgerTypes
<1>2. /\ e \in ExpenseId
      /\ call[c].row \in Draft
      /\ Fits(call[c].row.type, call[c].row.amount, call[c].shares)
  BY <1>1 DEF Prepared
<1>3. l \in Local /\ Prepared(l)
  BY <1>1, <1>2, ReadbackPrepared
<1>4. [call EXCEPT ![c].at = "readback"] = [call EXCEPT ![c] = l]
  <2>1. [call[c] EXCEPT !.at = "readback"] = l
    BY <1>1 DEF Local
  <2> QED  BY <2>1 DEF LedgerInv, LedgerTypes
<1> HIDE DEF l
<1>5. ASSUME call' = [call EXCEPT ![c].at = "readback"]
      PROVE  call' \in [Call -> Local] /\ \A d \in Call : Prepared(call'[d])
  BY <1>3, <1>4, <1>5, CallOnly
<1>6. CASE /\ Exists(call[c].eid)
           /\ RowAccepted(call[c])
           /\ Rewrite(call[c].eid, call[c].row, call[c].shares)
           /\ call' = [call EXCEPT ![c].at = "readback"]
  <2> DEFINE r == [expenses[e] EXCEPT !.amount = call[c].row.amount,
                                      !.type = call[c].row.type]
  <2>1. expenses[e] \in Expense
    BY <1>2, <1>6 DEF LedgerInv, LedgerTypes, Exists
  <2>2. call[c].row.amount \in Nat \ {0} /\ call[c].row.type \in SplitType
    BY <1>2, <1>6 DEF RowAccepted, Draft
  <2>3. r \in Expense /\ r.type = call[c].row.type /\ r.amount = call[c].row.amount
    BY <2>1, <2>2 DEF Expense
  <2>4. /\ expenses' = [expenses EXCEPT ![e] = r]
        /\ splits' = [splits EXCEPT ![e] = call[c].shares]
    BY <1>6 DEF Rewrite, LedgerInv, LedgerTypes
  <2> HIDE DEF r, e
  <2>5. /\ expenses' \in [ExpenseId -> Expense \cup {Absent}]
        /\ splits' \in [ExpenseId -> Amounts]
        /\ \A f \in ExpenseId : Booked(f)'
    BY <1>2, <1>6, <2>3, <2>4, WriteKeepsBooked
  <2> QED  BY <1>1, <1>5, <1>6, <2>5 DEF LedgerInv, LedgerTypes
<1>7. CASE /\ ~Exists(call[c].eid)
           /\ call[c].shares = NoShares
           /\ call' = [call EXCEPT ![c].at = "readback"]
           /\ UNCHANGED <<expenses, splits>>
  BY <1>1, <1>5, <1>7, TablesKept DEF LedgerInv, LedgerTypes
<1>8. CASE Return(c) /\ UNCHANGED <<expenses, splits>>
  BY <1>1, <1>8, ReturnInv, TablesKept DEF LedgerInv, LedgerTypes
<1> QED  BY <1>6, <1>7, <1>8 DEF Update

\* A delete takes the splits with the expense.
LEMMA DeleteInv ==
  ASSUME LedgerInv, NEW c \in Call, Delete(c)
  PROVE  LedgerInv'
<1> DEFINE e == call[c].eid
<1>1. e \in ExpenseId
  BY DEF Delete, LedgerInv, Prepared
<1>2. /\ expenses' = [expenses EXCEPT ![e] = Absent]
      /\ splits' = [splits EXCEPT ![e] = NoShares]
      /\ Return(c) /\ UNCHANGED <<members, used, confirmed>>
  BY DEF Delete
<1> HIDE DEF e
<1>3. \A f \in ExpenseId : Booked(f)'
  <2> SUFFICES ASSUME NEW f \in ExpenseId PROVE Booked(f)'
    OBVIOUS
  <2>1. CASE f = e
    <3>1. expenses'[f] = Absent /\ splits'[f] = NoShares
      BY <1>2, <2>1 DEF LedgerInv, LedgerTypes
    <3> QED  BY <3>1, NoSharesAre DEF Booked
  <2>2. CASE f # e
    <3>1. expenses'[f] = expenses[f] /\ splits'[f] = splits[f]
      BY <1>2, <2>2 DEF LedgerInv, LedgerTypes
    <3>2. Booked(f)
      BY DEF LedgerInv
    <3> QED  BY <3>1, <3>2 DEF Booked
  <2> QED  BY <2>1, <2>2
<1>4. /\ expenses' \in [ExpenseId -> Expense \cup {Absent}]
      /\ splits' \in [ExpenseId -> Amounts]
  BY <1>2, NoSharesAre DEF LedgerInv, LedgerTypes
<1> QED  BY <1>2, <1>3, <1>4, ReturnInv DEF LedgerInv, LedgerTypes

\* A read-back changes calls only.
LEMMA ReadBackInv ==
  ASSUME LedgerInv, NEW c \in Call, ReadBack(c)
  PROVE  LedgerInv'
<1>1. UNCHANGED <<members, expenses, splits, used, confirmed>>
  BY DEF ReadBack
<1>2. CASE Exists(call[c].eid)
  BY <1>1, <1>2, ReturnInv, TablesKept DEF ReadBack, LedgerInv, LedgerTypes
<1>3. CASE ~Exists(call[c].eid)
  <2>1. call' = [d \in Call |-> Idle]
    BY <1>3 DEF ReadBack
  <2>2. call' \in [Call -> Local] /\ \A d \in Call : Prepared(call'[d])
    BY <2>1, IdleIsPrepared
  <2> QED  BY <1>1, <2>2, TablesKept DEF LedgerInv, LedgerTypes
<1> QED  BY <1>2, <1>3

\* The rest of the application changes no expense and no call but to idle.
LEMMA OthersInv ==
  ASSUME LedgerInv,
         \/ \E c \in Call : Abandon(c)
         \/ \E u \in Movers : JoinOrLeave(u)
         \/ \E p \in Paying, n \in 0..MaxPaid : SetConfirmed(p[1], p[2], n)
         \/ UNCHANGED vars
  PROVE  LedgerInv'
<1>1. ASSUME NEW c \in Call, Abandon(c) PROVE LedgerInv'
  BY <1>1, ReturnInv, TablesKept DEF Abandon, LedgerInv, LedgerTypes
<1>2. ASSUME NEW u \in Movers, JoinOrLeave(u) PROVE LedgerInv'
  BY <1>2, UsersAssumption, TablesKept DEF JoinOrLeave, LedgerInv, LedgerTypes
<1>3. ASSUME NEW p \in Paying, NEW n \in 0..MaxPaid, SetConfirmed(p[1], p[2], n)
      PROVE  LedgerInv'
  <2>1. confirmed' = [confirmed EXCEPT ![p[1]][p[2]] = n]
        /\ UNCHANGED <<members, expenses, splits, used, call>>
    BY <1>3 DEF SetConfirmed
  <2>2. p[1] \in User /\ p[2] \in User /\ n \in Nat
    BY UsersAssumption
  <2>3. confirmed' \in [User -> [User -> Nat]]
    BY <2>1, <2>2 DEF LedgerInv, LedgerTypes
  <2> QED  BY <2>1, <2>3, TablesKept DEF LedgerInv, LedgerTypes
<1>4. ASSUME UNCHANGED vars PROVE LedgerInv'
  BY <1>4, TablesKept DEF vars, LedgerInv, LedgerTypes
<1> QED  BY <1>1, <1>2, <1>3, <1>4

\* Every step keeps the invariant.
LEMMA LedgerNextInv == LedgerInv /\ [Next]_vars => LedgerInv'
<1> SUFFICES ASSUME LedgerInv, [Next]_vars PROVE LedgerInv'
  OBVIOUS
<1> QED
  BY CreateReadsInv, UpdateReadsInv, DeleteReadsInv, CreateInv, UpdateInv,
     DeleteInv, ReadBackInv, OthersInv DEF Next

\* The invariant holds at all times.
LEMMA LedgerInvHolds == Spec => []LedgerInv
<1> QED  BY LedgerInitInv, LedgerNextInv, PTL DEF Spec

-----------------------------------------------------------------------------

\* The invariant gives the types.
LEMMA TypesFromInv == LedgerInv => TypeOK
<1> SUFFICES ASSUME LedgerInv PROVE TypeOK
  OBVIOUS
<1>1. ASSUME NEW c \in Call PROVE IsLocal(call[c])
  <2>1. call[c] \in Local
    BY DEF LedgerInv, LedgerTypes
  <2>2. call[c].shares \in Amounts
    BY <2>1 DEF Local
  <2>3. IsAmounts(call[c].shares)
    BY <2>2, AmountsAre
  <2> QED  BY <2>1, <2>3 DEF IsLocal, Local
<1>2. \A e \in ExpenseId : IsShares(splits[e])
  BY DEF LedgerInv, Booked
<1> QED  BY <1>1, <1>2 DEF TypeOK, LedgerInv, LedgerTypes

\* The invariant gives the fit of rows and splits.
LEMMA FitFromInv == LedgerInv => SplitsFitExpense
<1> SUFFICES ASSUME LedgerInv, NEW e \in ExpenseId
             PROVE  IF ~Exists(e) \/ expenses[e].type = "payer_only"
                    THEN splits[e] = NoShares
                    ELSE Missing(expenses[e].amount, splits[e])
                           <= Tolerance(expenses[e].type, expenses[e].amount, splits[e])
  BY DEF SplitsFitExpense
<1>1. Booked(e)
  BY DEF LedgerInv
<1>2. CASE ~Exists(e)
  BY <1>1, <1>2 DEF Exists, Booked
<1>3. CASE Exists(e)
  <2>1. Fits(expenses[e].type, expenses[e].amount, splits[e])
    BY <1>1, <1>3 DEF Exists, Booked
  <2>2. expenses[e].amount > 0
    BY <1>3 DEF Exists, LedgerInv, LedgerTypes, Expense
  <2> QED  BY <1>3, <2>1, <2>2 DEF Fits
<1> QED  BY <1>2, <1>3

\* The tables and the calls in flight always hold what their columns and
\* fields can, whatever amounts requests ask for.
THEOREM LedgerTypeCorrect == Spec => []TypeOK
BY LedgerInvHolds, TypesFromInv, PTL

\* Whatever creates, updates and deletes race, the splits of every expense
\* are those of its amount and kind: what they miss of it comes from rounding
\* and from what the tests of percentages and custom amounts let pass, for
\* requests with any fractions.
THEOREM SplitsAlwaysFit == Spec => []SplitsFitExpense
BY LedgerInvHolds, FitFromInv, PTL

-----------------------------------------------------------------------------
(* Sums over the table of splits *)

\* the expenses that exist
Book == Rows(expenses)

\* Finitely many, each with numbers for what was paid and shared.
LEMMA BookIs ==
  ASSUME LedgerInv
  PROVE  /\ IsFiniteSet(Book) /\ Book \in SUBSET ExpenseId
         /\ \A e \in Book : /\ expenses[e] \in Expense
                            /\ expenses[e].paidBy \in User
                            /\ expenses[e].amount \in Int
                            /\ IsAmounts(splits[e])
                            /\ SumFunction(splits[e]) \in Int
                            /\ Kept(e) \in Int
<1>1. Book \in SUBSET ExpenseId /\ \A e \in Book : expenses[e] \in Expense
  BY DEF LedgerInv, LedgerTypes, Book, Rows
<1>2. IsFiniteSet(Book)
  BY <1>1, UsersAssumption, FS_Subset
<1>3. \A e \in Book : expenses[e].paidBy \in User /\ expenses[e].amount \in Int
  BY <1>1 DEF Expense
<1>4. ASSUME NEW e \in Book PROVE IsAmounts(splits[e]) /\ SumFunction(splits[e]) \in Int
  <2>1. splits[e] \in Amounts
    BY <1>1 DEF LedgerInv, LedgerTypes
  <2>2. IsAmounts(splits[e])
    BY <2>1, AmountsAre
  <2>3. IsFiniteSet(DOMAIN splits[e]) /\ \A u \in DOMAIN splits[e] : splits[e][u] \in Int
    BY <2>2, UsersAssumption, FS_Subset DEF IsAmounts
  <2> QED  BY <2>2, <2>3, SumIsInt DEF SumFunction
<1> QED  BY <1>1, <1>2, <1>3, <1>4 DEF Kept

\* Every share is a natural, zero for a user without one.
LEMMA ShareIs ==
  ASSUME LedgerInv, NEW e \in ExpenseId, NEW u
  PROVE  ShareOf(splits, e, u) \in Nat
<1>1. IsShares(splits[e])
  BY DEF LedgerInv, Booked
<1> QED  BY <1>1 DEF IsShares, IsAmounts, ShareOf

\* What a user paid, as a sum over the rows that name him.
LEMMA PaidByPayers ==
  ASSUME LedgerInv, NEW V \in SUBSET User, \A e \in Book : expenses[e].paidBy \in V,
         NEW val, \A e \in Book : val[e] \in Int,
         NEW group,
         \A v \in V : group[v] = SumFunction([e \in RowsPaidBy(expenses, v) |-> val[e]])
  PROVE  SumFunctionOnSet(group, V) = SumFunctionOnSet(val, Book)
<1> DEFINE key == [e \in Book |-> expenses[e].paidBy]
           part == [v \in V |-> {e \in Book : key[e] = v}]
<1>1. IsFiniteSet(Book) /\ IsFiniteSet(V) /\ \A e \in Book : key[e] \in V
  BY BookIs, UsersAssumption, FS_Subset
<1>2. ASSUME NEW v \in V
      PROVE  group[v] = SumFunctionOnSet(val, part[v])
  <2> DEFINE G == {e \in Book : key[e] = v}
             g == [e \in G |-> val[e]]
  <2>1. RowsPaidBy(expenses, v) = G
    BY DEF RowsPaidBy, Book
  <2>2. group[v] = SumFunction(g)
    BY <2>1
  <2>3. IsFiniteSet(G)
    BY <1>1, FS_Subset
  <2>4. DOMAIN g = G /\ \A e \in G : g[e] \in Int /\ g[e] = val[e]
    OBVIOUS
  <2>6. G = part[v]
    OBVIOUS
  <2> HIDE DEF g, G, part
  <2>5. SumFunction(g) = SumFunctionOnSet(val, G)
    BY <2>3, <2>4, SumAgrees DEF SumFunction
  <2> QED  BY <2>2, <2>5, <2>6
<1>3. \A v \in V : \A e : e \in part[v] <=> e \in Book /\ key[e] = v
  OBVIOUS
<1> HIDE DEF key, part
<1>4. Grouped(Book, V, key, val, part, group)
  BY <1>1, <1>2, <1>3 DEF Grouped
<1> QED  BY ONLY <1>4, SumOfGroups, SMT

\* What the splits of some expenses sum to, user by user.
LEMMA SharesBySharers ==
  ASSUME LedgerInv, NEW T \in SUBSET Book, NEW V \in SUBSET User,
         \A e \in T : DOMAIN splits[e] \subseteq V,
         NEW group,
         \A v \in V : group[v] = SumFunction([e \in T |-> ShareOf(splits, e, v)]),
         NEW total, \A e \in T : total[e] = SumFunction(splits[e])
  PROVE  SumFunctionOnSet(group, V) = SumFunctionOnSet(total, T)
<1> DEFINE row == [v \in V |-> [e \in T |-> ShareOf(splits, e, v)]]
           column == [e \in T |-> [v \in V |-> ShareOf(splits, e, v)]]
<1>1. IsFiniteSet(T) /\ IsFiniteSet(V)
  BY BookIs, UsersAssumption, FS_Subset
<1>2. \A v \in V, e \in T : row[v][e] \in Int /\ column[e][v] = row[v][e]
  <2> SUFFICES ASSUME NEW v \in V, NEW e \in T
               PROVE  row[v][e] \in Int /\ column[e][v] = row[v][e]
    OBVIOUS
  <2>1. e \in ExpenseId
    BY BookIs
  <2> QED  BY <2>1, ShareIs
<1>3. ASSUME NEW v \in V PROVE group[v] = SumFunctionOnSet(row[v], T)
  <2>1. [e \in T |-> ShareOf(splits, e, v)] = row[v] /\ DOMAIN row[v] = T
    OBVIOUS
  <2> QED  BY <2>1 DEF SumFunction
<1>4. ASSUME NEW e \in T PROVE total[e] = SumFunctionOnSet(column[e], V)
  <2> DEFINE s == splits[e]
             D == DOMAIN s
  <2>1. D \in SUBSET V /\ IsFiniteSet(D) /\ \A u \in D : s[u] \in Int
    BY <1>1, BookIs, FS_Subset DEF IsAmounts
  <2>2. /\ \A u \in D : column[e][u] = s[u] /\ column[e][u] \in Int
        /\ \A u \in V \ D : column[e][u] = 0
    BY <2>1 DEF ShareOf
  <2>3. total[e] = SumFunctionOnSet(s, D)
    BY DEF SumFunction
  <2> HIDE DEF s, D, column
  <2>4. SumFunctionOnSet(column[e], V) = SumFunctionOnSet(column[e], D)
    BY <1>1, <2>1, <2>2, SumOfPart
  <2>5. SumFunctionOnSet(s, D) = SumFunctionOnSet(column[e], D)
    BY <2>1, <2>2, SumAgrees
  <2> QED  BY <2>3, <2>4, <2>5
<1> HIDE DEF row, column
<1>5. Tabulated(V, T, row, column, group, total)
  BY <1>1, <1>2, <1>3, <1>4 DEF Tabulated
<1> QED  BY ONLY <1>5, SumOfTable, SMT

\* Payments among V cancel out.
LEMMA PaymentsCancel ==
  ASSUME LedgerInv, NEW V \in SUBSET User,
         \A u, v \in User : u \notin V \/ v \notin V => confirmed[u][v] = 0,
         NEW made, \A u \in V : made[u] = PaymentsMade(confirmed, u),
         NEW received, \A u \in V : received[u] = PaymentsReceived(confirmed, u)
  PROVE  SumFunctionOnSet(made, V) = SumFunctionOnSet(received, V)
<1> DEFINE row == [u \in V |-> [v \in V |-> confirmed[u][v]]]
           column == [v \in V |-> [u \in V |-> confirmed[u][v]]]
<1>1. IsFiniteSet(V) /\ IsFiniteSet(User) /\ V \in SUBSET User
  BY UsersAssumption, FS_Subset
<1>2. \A u, v \in User : confirmed[u][v] \in Int
  BY DEF LedgerInv, LedgerTypes
<1>3. ASSUME NEW u \in V PROVE made[u] = SumFunctionOnSet(row[u], V)
  <2> DEFINE f == confirmed[u]
  <2>1. DOMAIN f = User
    BY DEF LedgerInv, LedgerTypes
  <2>2. /\ \A v \in V : row[u][v] = f[v] /\ f[v] \in Int /\ row[u][v] \in Int
        /\ \A v \in User \ V : f[v] = 0
    BY <1>2
  <2>3. made[u] = SumFunctionOnSet(f, User)
    BY <2>1 DEF PaymentsMade, SumFunction
  <2> HIDE DEF f, row
  <2>4. SumFunctionOnSet(f, User) = SumFunctionOnSet(f, V)
    BY <1>1, <2>2, SumOfPart
  <2>5. SumFunctionOnSet(f, V) = SumFunctionOnSet(row[u], V)
    BY <1>1, <2>2, SumAgrees
  <2> QED  BY <2>3, <2>4, <2>5
<1>4. ASSUME NEW u \in V PROVE received[u] = SumFunctionOnSet(column[u], V)
  <2> DEFINE f == [v \in User |-> confirmed[v][u]]
  <2>1. DOMAIN f = User
    OBVIOUS
  <2>2. /\ \A v \in V : column[u][v] = f[v] /\ f[v] \in Int /\ column[u][v] \in Int
        /\ \A v \in User \ V : f[v] = 0
    BY <1>2
  <2>3. received[u] = SumFunctionOnSet(f, User)
    BY <2>1 DEF PaymentsReceived, SumFunction
  <2> HIDE DEF f, column
  <2>4. SumFunctionOnSet(f, User) = SumFunctionOnSet(f, V)
    BY <1>1, <2>2, SumOfPart
  <2>5. SumFunctionOnSet(f, V) = SumFunctionOnSet(column[u], V)
    BY <1>1, <2>2, SumAgrees
  <2> QED  BY <2>3, <2>4, <2>5
<1>5. \A u \in V, v \in V : row[u][v] \in Int /\ column[v][u] = row[u][v]
  BY <1>2
<1> HIDE DEF row, column
<1>6. Tabulated(V, V, row, column, made, received)
  BY <1>1, <1>3, <1>4, <1>5 DEF Tabulated
<1> QED  BY ONLY <1>6, SumOfTable, SMT

-----------------------------------------------------------------------------
(* The balances *)

\* The four terms of a net balance are numbers.
LEMMA NetTerms ==
  ASSUME LedgerInv, NEW u \in User
  PROVE  /\ TotalPaid(expenses, u) \in Int
         /\ TotalOwed(expenses, splits, u) \in Int
         /\ PaymentsMade(confirmed, u) \in Nat
         /\ PaymentsReceived(confirmed, u) \in Nat
<1>1. TotalPaid(expenses, u) \in Int
  <2> DEFINE G == RowsPaidBy(expenses, u)
             g == [e \in G |-> expenses[e].amount]
  <2>1. G \in SUBSET Book /\ IsFiniteSet(G)
    BY BookIs, FS_Subset DEF RowsPaidBy, Book
  <2>2. DOMAIN g = G /\ \A e \in G : g[e] \in Int
    BY <2>1, BookIs
  <2>3. TotalPaid(expenses, u) = SumFunction(g)
    BY DEF TotalPaid
  <2> HIDE DEF g, G
  <2> QED  BY <2>1, <2>2, <2>3, SumIsInt DEF SumFunction
<1>2. TotalOwed(expenses, splits, u) \in Int
  <2> DEFINE g == [e \in Book |-> ShareOf(splits, e, u)]
  <2>1. DOMAIN g = Book /\ \A e \in Book : g[e] \in Int
    BY BookIs, ShareIs
  <2>2. TotalOwed(expenses, splits, u) = SumFunction(g)
    BY DEF TotalOwed, Book
  <2> HIDE DEF g
  <2> QED  BY <2>1, <2>2, BookIs, SumIsInt DEF SumFunction
<1>3. PaymentsMade(confirmed, u) \in Nat
  <2> DEFINE f == confirmed[u]
  <2>1. DOMAIN f = User /\ \A v \in User : f[v] \in Nat
    BY DEF LedgerInv, LedgerTypes
  <2>2. PaymentsMade(confirmed, u) = SumFunction(f)
    BY DEF PaymentsMade
  <2> HIDE DEF f
  <2> QED  BY <2>1, <2>2, UsersAssumption, SumBoundsTerms DEF SumFunction
<1>4. PaymentsReceived(confirmed, u) \in Nat
  <2> DEFINE f == [v \in User |-> confirmed[v][u]]
  <2>1. DOMAIN f = User /\ \A v \in User : f[v] \in Nat
    BY DEF LedgerInv, LedgerTypes
  <2>2. PaymentsReceived(confirmed, u) = SumFunction(f)
    BY DEF PaymentsReceived
  <2> HIDE DEF f
  <2> QED  BY <2>1, <2>2, UsersAssumption, SumBoundsTerms DEF SumFunction
<1> QED  BY <1>1, <1>2, <1>3, <1>4

\* While everyone involved is a member, payers, sharers and those who paid
\* each other are members.
LEMMA NoStrangers ==
  ASSUME LedgerInv, Involved \subseteq members
  PROVE  /\ \A e \in Book : expenses[e].paidBy \in members
                            /\ DOMAIN splits[e] \subseteq members
         /\ \A u, v \in User : u \notin members \/ v \notin members
                               => confirmed[u][v] = 0
<1>1. \A e \in Book : {expenses[e].paidBy} \cup DOMAIN splits[e] \subseteq Involved
  BY DEF Involved, Book
<1>2. ASSUME NEW u \in User, NEW v \in User, confirmed[u][v] # 0
      PROVE  u \in members /\ v \in members
  <2>1. confirmed[u][v] \in Nat /\ confirmed[v][u] \in Nat
    BY DEF LedgerInv, LedgerTypes
  <2>2. confirmed[u][v] + confirmed[v][u] > 0 /\ confirmed[v][u] + confirmed[u][v] > 0
    BY <1>2, <2>1
  <2> DEFINE Payers == {x \in User : \E y \in User : confirmed[x][y] + confirmed[y][x] > 0}
  <2>3. u \in Payers /\ v \in Payers
    BY <2>2
  <2> HIDE DEF Payers
  <2> DEFINE Named == UNION {{expenses[e].paidBy} \cup DOMAIN splits[e] : e \in Rows(expenses)}
  <2>4. Involved = Named \cup Payers
    BY Zenon DEF Involved, Payers
  <2> HIDE DEF Named
  <2> QED  BY <2>3, <2>4
<1> QED  BY <1>1, <1>2

\* The paid amounts sum up by expense as they do by payer, the shares as they
\* do by user, and payments cancel.
LEMMA BalancesCancelFromInv == LedgerInv => BalancesCancel
<1> SUFFICES ASSUME LedgerInv, Involved \subseteq members
             PROVE  SumFunction([u \in members |-> Net(u)])
                      = SumFunction([e \in Rows(expenses) |-> Kept(e)])
  BY DEF BalancesCancel
<1> DEFINE M == members
           paid == [u \in M |-> TotalPaid(expenses, u)]
           owed == [u \in M |-> TotalOwed(expenses, splits, u)]
           made == [u \in M |-> PaymentsMade(confirmed, u)]
           received == [u \in M |-> PaymentsReceived(confirmed, u)]
           own == [u \in M |-> paid[u] - owed[u]]
           flow == [u \in M |-> made[u] - received[u]]
           net == [u \in M |-> Net(u)]
           amount == [e \in Book |-> expenses[e].amount]
           total == [e \in Book |-> SumFunction(splits[e])]
           kept == [e \in Book |-> Kept(e)]
           Sum(f, S) == SumFunctionOnSet(f, S)
<1>1. M \in SUBSET User /\ IsFiniteSet(M) /\ IsFiniteSet(Book)
  BY UsersAssumption, FS_Subset, BookIs DEF LedgerInv, LedgerTypes
<1>2. \A u \in M : /\ paid[u] \in Int /\ owed[u] \in Int
                   /\ made[u] \in Int /\ received[u] \in Int
                   /\ own[u] \in Int /\ flow[u] \in Int /\ net[u] \in Int
                   /\ own[u] = paid[u] - owed[u]
                   /\ flow[u] = made[u] - received[u]
                   /\ net[u] = own[u] + flow[u]
  BY <1>1, NetTerms DEF Net, NetBalance
<1>3. \A e \in Book : /\ amount[e] \in Int /\ total[e] \in Int /\ kept[e] \in Int
                      /\ kept[e] = amount[e] - total[e]
  BY BookIs DEF Kept
<1>4. Sum(paid, M) = Sum(amount, Book)
  <2>1. \A u \in M : paid[u] = SumFunction([e \in RowsPaidBy(expenses, u) |-> amount[e]])
    BY DEF TotalPaid, RowsPaidBy, Book
  <2>2. \A e \in Book : expenses[e].paidBy \in M
    BY NoStrangers
  <2>3. M \in SUBSET User /\ \A e \in Book : amount[e] \in Int
    BY <1>1, <1>3
  <2> HIDE DEF paid, amount, M
  <2> QED  BY <2>1, <2>2, <2>3, PaidByPayers
<1>5. Sum(owed, M) = Sum(total, Book)
  <2>1. \A u \in M : owed[u] = SumFunction([e \in Book |-> ShareOf(splits, e, u)])
    BY DEF TotalOwed, Book
  <2>2. \A e \in Book : total[e] = SumFunction(splits[e])
    OBVIOUS
  <2>3. M \in SUBSET User /\ \A e \in Book : DOMAIN splits[e] \subseteq M
    BY <1>1, NoStrangers
  <2>4. Book \in SUBSET Book
    OBVIOUS
  <2> HIDE DEF owed, total, M
  <2> QED  BY <2>1, <2>2, <2>3, <2>4, SharesBySharers
<1>6. Sum(made, M) = Sum(received, M)
  <2>1. /\ \A u \in M : made[u] = PaymentsMade(confirmed, u)
        /\ \A u \in M : received[u] = PaymentsReceived(confirmed, u)
    OBVIOUS
  <2>2. /\ M \in SUBSET User
        /\ \A u, v \in User : u \notin M \/ v \notin M => confirmed[u][v] = 0
    BY <1>1, NoStrangers
  <2> HIDE DEF made, received, M
  <2> QED  BY <2>1, <2>2, PaymentsCancel
<1>7. SumFunction([u \in members |-> Net(u)]) = Sum(net, M)
  BY DEF SumFunction
<1>8. SumFunction([e \in Rows(expenses) |-> Kept(e)]) = Sum(kept, Book)
  BY DEF SumFunction, Book
<1> HIDE DEF M, paid, owed, made, received, own, flow, net, amount, total, kept
<1>9. Sum(net, M) = Sum(own, M) + Sum(flow, M)
  BY <1>1, <1>2, SumOfTwo
<1>10. Sum(own, M) = Sum(paid, M) - Sum(owed, M)
  BY <1>1, <1>2, SumOfDifferences
<1>11. Sum(flow, M) = Sum(made, M) - Sum(received, M)
  BY <1>1, <1>2, SumOfDifferences
<1>12. Sum(kept, Book) = Sum(amount, Book) - Sum(total, Book)
  BY <1>1, <1>3, SumOfDifferences
<1>13. /\ Sum(made, M) \in Int /\ Sum(received, M) \in Int
       /\ Sum(paid, M) \in Int /\ Sum(owed, M) \in Int
  BY <1>1, <1>2, SumIsInt
<1> HIDE DEF Sum
<1> QED  BY <1>4, <1>5, <1>6, <1>7, <1>8, <1>9, <1>10, <1>11, <1>12, <1>13

-----------------------------------------------------------------------------

\* What a user owes another is a natural.
LEMMA OwedIs ==
  ASSUME LedgerInv, NEW u, NEW v
  PROVE  SplitsOwed(expenses, splits, u, v) \in Nat
<1> DEFINE G == RowsPaidBy(expenses, v)
           g == [e \in G |-> ShareOf(splits, e, u)]
<1>1. G \in SUBSET ExpenseId /\ IsFiniteSet(G)
  BY BookIs, FS_Subset DEF RowsPaidBy, Book
<1>2. DOMAIN g = G /\ \A e \in G : g[e] \in Nat
  BY <1>1, ShareIs
<1>3. SplitsOwed(expenses, splits, u, v) = SumFunction(g)
  BY DEF SplitsOwed
<1> HIDE DEF g, G
<1> QED  BY <1>1, <1>2, <1>3, SumBoundsTerms DEF SumFunction

\* A raw debt is short of what the splits owe by one cent at most.
LEMMA DebtIsShort ==
  ASSUME LedgerInv, NEW u, NEW v, u # v
  PROVE  /\ Debt(u, v) \in Nat
         /\ 0 <= SplitsOwed(expenses, splits, u, v) - Debt(u, v)
         /\ SplitsOwed(expenses, splits, u, v) - Debt(u, v) <= 1
<1> DEFINE o == SplitsOwed(expenses, splits, u, v)
<1>1. o \in Nat
  BY OwedIs
<1>2. Debt(u, v) = IF o > 1 THEN o ELSE 0
  BY DEF Debt, RawDebt
<1> HIDE DEF o
<1>3. Debt(u, v) \in Nat /\ 0 <= o - Debt(u, v) /\ o - Debt(u, v) <= 1
  BY <1>1, <1>2
<1> QED  BY <1>3 DEF o

\* A total of zero leaves no payment that is not zero.
LEMMA NoPayments ==
  ASSUME LedgerInv, TotalConfirmed = 0, NEW u \in User
  PROVE  PaymentsMade(confirmed, u) = 0 /\ PaymentsReceived(confirmed, u) = 0
<1> DEFINE made == [v \in User |-> PaymentsMade(confirmed, v)]
<1>1. ASSUME NEW v \in User PROVE made[v] = 0
  <2>1. DOMAIN made = User /\ \A w \in User : made[w] \in Int /\ made[w] >= 0
    BY NetTerms
  <2>2. SumFunction(made) = 0
    BY DEF TotalConfirmed
  <2> HIDE DEF made
  <2>3. SumFunctionOnSet(made, User) = 0
    BY <2>1, <2>2 DEF SumFunction
  <2> QED  BY <2>1, <2>3, UsersAssumption, SumOfOneSign
<1>2. ASSUME NEW v \in User, NEW w \in User PROVE confirmed[v][w] = 0
  <2> DEFINE f == confirmed[v]
  <2>1. DOMAIN f = User /\ \A x \in User : f[x] \in Int /\ f[x] >= 0
    BY DEF LedgerInv, LedgerTypes
  <2>2. SumFunction(f) = 0
    BY <1>1 DEF PaymentsMade
  <2> HIDE DEF f
  <2>3. SumFunctionOnSet(f, User) = 0
    BY <2>1, <2>2 DEF SumFunction
  <2>4. f[w] = 0
    BY <2>1, <2>3, UsersAssumption, SumOfOneSign
  <2> QED  BY <2>4 DEF f
<1>3. PaymentsReceived(confirmed, u) = 0
  <2> DEFINE f == [v \in User |-> confirmed[v][u]]
  <2>1. DOMAIN f = User /\ \A v \in User : f[v] = 0
    BY <1>2
  <2>2. PaymentsReceived(confirmed, u) = SumFunction(f)
    BY DEF PaymentsReceived
  <2> HIDE DEF f
  <2> QED  BY <2>1, <2>2, UsersAssumption, SumOfZeros DEF SumFunction
<1> QED  BY <1>1, <1>3

\* What the others owe u by the splits of the expenses u paid.
LEMMA OwedToPayer ==
  ASSUME LedgerInv, NEW u \in User,
         NEW owing, \A v \in User : owing[v] = SplitsOwed(expenses, splits, v, u),
         NEW total, \A e \in Book : total[e] = SumFunction(splits[e])
  PROVE  SumFunctionOnSet(owing, User)
           = SumFunctionOnSet(total, RowsPaidBy(expenses, u))
<1> DEFINE G == RowsPaidBy(expenses, u)
<1>1. G \in SUBSET Book
  BY DEF RowsPaidBy, Book
<1>2. \A v \in User : owing[v] = SumFunction([e \in G |-> ShareOf(splits, e, v)])
  BY DEF SplitsOwed
<1>3. User \in SUBSET User /\ \A e \in G : DOMAIN splits[e] \subseteq User
  BY <1>1, BookIs DEF IsAmounts
<1>4. \A e \in G : total[e] = SumFunction(splits[e])
  BY <1>1
<1> HIDE DEF G
<1>5. SumFunctionOnSet(owing, User) = SumFunctionOnSet(total, G)
  BY <1>1, <1>2, <1>3, <1>4, SharesBySharers
<1> QED  BY <1>5 DEF G

\* What u owes, payer by payer.
LEMMA OwedByPayers ==
  ASSUME LedgerInv, NEW u \in User,
         NEW owes, \A v \in User : owes[v] = SplitsOwed(expenses, splits, u, v)
  PROVE  SumFunctionOnSet(owes, User) = TotalOwed(expenses, splits, u)
<1> DEFINE share == [e \in Book |-> ShareOf(splits, e, u)]
<1>1. \A e \in Book : share[e] \in Int
  BY BookIs, ShareIs
<1>2. \A v \in User : owes[v] = SumFunction([e \in RowsPaidBy(expenses, v) |-> share[e]])
  BY DEF SplitsOwed, RowsPaidBy, Book
<1>3. User \in SUBSET User /\ \A e \in Book : expenses[e].paidBy \in User
  BY BookIs
<1>4. TotalOwed(expenses, splits, u) = SumFunctionOnSet(share, Book)
  BY DEF TotalOwed, Book, SumFunction
<1> HIDE DEF share
<1>5. SumFunctionOnSet(owes, User) = SumFunctionOnSet(share, Book)
  BY <1>1, <1>2, <1>3, PaidByPayers
<1> QED  BY <1>4, <1>5

\* A user is owed and owes, payer by payer, what the splits sum to; the raw
\* debts miss one cent at most for every other user.
LEMMA DebtsExplainFromInv == LedgerInv => DebtsExplainBalances
<1> SUFFICES ASSUME LedgerInv, TotalConfirmed = 0, NEW u \in User
             PROVE  Magnitude(Net(u)
                      - SumFunction([v \in User |-> Debt(v, u) - Debt(u, v)])
                      - SumFunction([e \in RowsPaidBy(expenses, u) |-> Kept(e)]))
                      <= Cardinality(User) - 1
  BY DEF DebtsExplainBalances
<1> DEFINE G == RowsPaidBy(expenses, u)
           owing == [v \in User |-> SplitsOwed(expenses, splits, v, u)]
           owes == [v \in User |-> SplitsOwed(expenses, splits, u, v)]
           told == [v \in User |-> Debt(v, u) - Debt(u, v)]
           real == [v \in User |-> owing[v] - owes[v]]
           gap == [v \in User |-> real[v] - told[v]]
           amount == [e \in Book |-> expenses[e].amount]
           total == [e \in Book |-> SumFunction(splits[e])]
           kept == [e \in G |-> Kept(e)]
           W == User \ {u}
           Sum(f, S) == SumFunctionOnSet(f, S)
<1>1. /\ IsFiniteSet(User) /\ IsFiniteSet(G) /\ G \in SUBSET Book /\ IsFiniteSet(W)
      /\ W \in SUBSET User
      /\ Cardinality(W) = Cardinality(User) - 1 /\ Cardinality(W) \in Nat
  <2>1. G \in SUBSET Book
    BY DEF RowsPaidBy, Book
  <2>2. IsFiniteSet(G)
    BY <2>1, BookIs, FS_Subset
  <2>3. IsFiniteSet(W) /\ Cardinality(W) = Cardinality(User) - 1
    BY UsersAssumption, FS_RemoveElement
  <2> QED  BY <2>1, <2>2, <2>3, UsersAssumption, FS_CardinalityType
<1>2. ASSUME NEW v \in User, v # u
      PROVE  /\ owing[v] \in Int /\ owes[v] \in Int /\ told[v] \in Int
             /\ real[v] \in Int /\ gap[v] \in Int
             /\ -1 <= gap[v] /\ gap[v] <= 1
  <2> DEFINE a == SplitsOwed(expenses, splits, v, u)
             b == SplitsOwed(expenses, splits, u, v)
             x == Debt(v, u)
             y == Debt(u, v)
  <2>1. a \in Nat /\ b \in Nat
    BY OwedIs
  <2>2. /\ x \in Nat /\ 0 <= a - x /\ a - x <= 1
        /\ y \in Nat /\ 0 <= b - y /\ b - y <= 1
    BY <1>2, DebtIsShort
  <2>3. owing[v] = a /\ owes[v] = b /\ told[v] = x - y /\ real[v] = a - b
        /\ gap[v] = (a - b) - (x - y)
    OBVIOUS
  <2> HIDE DEF a, b, x, y, owing, owes, told, real, gap
  <2> QED  BY <2>1, <2>2, <2>3
<1>3. /\ owing[u] \in Int /\ owes[u] \in Int /\ told[u] \in Int
      /\ real[u] \in Int /\ gap[u] = 0
  <2>1. owing[u] \in Nat /\ owes[u] = owing[u]
    BY OwedIs
  <2>2. told[u] = 0
    BY DEF Debt, RawDebt
  <2>3. real[u] = owing[u] - owes[u] /\ gap[u] = real[u] - told[u]
    OBVIOUS
  <2> HIDE DEF owing, owes, told, real, gap
  <2> QED  BY <2>1, <2>2, <2>3
<1>4. \A v \in User : real[v] = owing[v] - owes[v] /\ gap[v] = real[v] - told[v]
  OBVIOUS
<1>5. \A e \in G : /\ amount[e] \in Int /\ total[e] \in Int
                   /\ kept[e] = amount[e] - total[e]
  BY <1>1, BookIs DEF Kept
<1>6. Net(u) = TotalPaid(expenses, u) - TotalOwed(expenses, splits, u)
      /\ TotalPaid(expenses, u) \in Int /\ TotalOwed(expenses, splits, u) \in Int
  <2> DEFINE p == TotalPaid(expenses, u)
             o == TotalOwed(expenses, splits, u)
             m == PaymentsMade(confirmed, u)
             r == PaymentsReceived(confirmed, u)
  <2>1. Net(u) = p - o + m - r
    BY DEF Net, NetBalance
  <2>2. p \in Int /\ o \in Int /\ m = 0 /\ r = 0
    BY NetTerms, NoPayments
  <2> HIDE DEF p, o, m, r
  <2>3. Net(u) = p - o
    BY <2>1, <2>2
  <2> QED  BY <2>2, <2>3 DEF p, o
<1>7. TotalPaid(expenses, u) = Sum(amount, G)
  <2> DEFINE g == [e \in G |-> expenses[e].amount]
  <2>1. TotalPaid(expenses, u) = SumFunction(g) /\ DOMAIN g = G
    BY DEF TotalPaid
  <2>2. \A e \in G : g[e] = amount[e] /\ g[e] \in Int
    BY <1>1, <1>5
  <2> HIDE DEF g, G, amount
  <2>3. SumFunctionOnSet(g, G) = SumFunctionOnSet(amount, G)
    BY <1>1, <2>2, SumAgrees
  <2> QED  BY <2>1, <2>3 DEF SumFunction
<1>8. TotalOwed(expenses, splits, u) = Sum(owes, User)
  <2>1. \A v \in User : owes[v] = SplitsOwed(expenses, splits, u, v)
    OBVIOUS
  <2> HIDE DEF owes
  <2> QED  BY <2>1, OwedByPayers
<1>9. Sum(owing, User) = Sum(total, G)
  <2>1. \A v \in User : owing[v] = SplitsOwed(expenses, splits, v, u)
    OBVIOUS
  <2>2. \A e \in Book : total[e] = SumFunction(splits[e])
    OBVIOUS
  <2> HIDE DEF owing, total
  <2> QED  BY <2>1, <2>2, OwedToPayer
<1>10. SumFunction([v \in User |-> Debt(v, u) - Debt(u, v)]) = Sum(told, User)
  BY DEF SumFunction
<1>11. SumFunction([e \in RowsPaidBy(expenses, u) |-> Kept(e)]) = Sum(kept, G)
  BY DEF SumFunction
<1> HIDE DEF owing, owes, told, real, gap, amount, total, kept, G
<1>12. \A v \in User : /\ owing[v] \in Int /\ owes[v] \in Int /\ told[v] \in Int
                       /\ real[v] \in Int /\ gap[v] \in Int
  BY <1>2, <1>3
<1>13. Sum(kept, G) = Sum(amount, G) - Sum(total, G)
  BY <1>1, <1>5, SumOfDifferences
<1>14. Sum(real, User) = Sum(owing, User) - Sum(owes, User)
  BY <1>1, <1>4, <1>12, SumOfDifferences
<1>15. Sum(gap, User) = Sum(real, User) - Sum(told, User)
  BY <1>1, <1>4, <1>12, SumOfDifferences
<1>16. Sum(gap, User) = Sum(gap, W)
  <2>1. \A v \in User \ W : gap[v] = 0
    BY <1>3
  <2>2. \A v \in W : gap[v] \in Int
    BY <1>2
  <2> HIDE DEF W
  <2> QED  BY <1>1, <2>1, <2>2, SumOfPart
<1>17. /\ Sum(gap, W) \in Int
       /\ -(Cardinality(W) * 1) <= Sum(gap, W) /\ Sum(gap, W) <= Cardinality(W) * 1
  <2>1. \A v \in W : gap[v] \in Int /\ -1 <= gap[v] /\ gap[v] <= 1
    BY <1>2
  <2> HIDE DEF W
  <2> QED  BY <1>1, <2>1, SumOfSmallTerms
<1>18. /\ Sum(amount, G) \in Int /\ Sum(total, G) \in Int /\ Sum(owing, User) \in Int
       /\ Sum(owes, User) \in Int /\ Sum(told, User) \in Int /\ Sum(real, User) \in Int
  BY <1>1, <1>5, <1>12, SumIsInt
<1>19. Net(u) - Sum(told, User) - Sum(kept, G) = Sum(gap, W)
  <2> HIDE DEF Sum, W
  <2> QED  BY <1>6, <1>7, <1>8, <1>9, <1>13, <1>14, <1>15, <1>16, <1>18
<1>20. Magnitude(Sum(gap, W)) <= Cardinality(User) - 1
  <2> HIDE DEF Sum, W
  <2>1. Cardinality(W) * 1 = Cardinality(W)
    BY <1>1
  <2> QED  BY <1>1, <1>17, <2>1 DEF Magnitude
<1> QED  BY <1>10, <1>11, <1>19, <1>20

-----------------------------------------------------------------------------

\* While everyone involved is a member, the balances of the members sum up
\* to what the splits leave to the payers.
THEOREM BalancesAlwaysCancel == Spec => []BalancesCancel
BY LedgerInvHolds, BalancesCancelFromInv, PTL

\* Before any payment the net balances and the raw debts of GetBalances tell
\* the same, but for a cent from each other user.
THEOREM DebtsAlwaysExplain == Spec => []DebtsExplainBalances
BY LedgerInvHolds, DebtsExplainFromInv, PTL

=============================================================================
