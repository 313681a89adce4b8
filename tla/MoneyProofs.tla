---------------------------- MODULE MoneyProofs ----------------------------
(***************************************************************************)
(* What core.money promises, for every amount, every policy and every size  *)
(* of a whole.  Of two buckets everything follows from one fact about        *)
(* integers: two remainders of the same divisor sum to less than twice the   *)
(* divisor, so that flooring two complementary products sheds at most one    *)
(* unit.  Of any number of buckets it follows from the sum of what flooring  *)
(* sheds, and from the ranking being one.                                   *)
(***************************************************************************)
EXTENDS Money, SumProofs

\* A multiple of f that lies in 0 .. 2f - 1 is 0 or f.
LEMMA SmallMultiple ==
    ASSUME NEW f \in Nat \ {0}, NEW k \in Int, 0 <= f * k, f * k < 2 * f
    PROVE  k \in {0, 1}
<1>1. CASE k < 0
  <2>1. f * k < 0  BY <1>1, SMT
  <2>. QED  BY <2>1
<1>2. CASE k >= 2
  <2>1. f * k >= 2 * f  BY <1>2, SMT
  <2>. QED  BY <2>1
<1>. QED  BY <1>1, <1>2

\* Division with remainder by f.
LEMMA Euclid ==
    ASSUME NEW f \in Nat \ {0}, NEW x \in Int
    PROVE  /\ x \div f \in Int /\ (x % f) \in Int
           /\ x = f * (x \div f) + (x % f)
           /\ 0 <= (x % f) /\ (x % f) < f
  OBVIOUS

\* What split_bps sheds when it floors two
\* complementary parts of m is nothing when m * s is a multiple of the whole,
\* one unit otherwise, and then the two remainders make up exactly one whole.
LEMMA ComplementaryFloors ==
    ASSUME NEW m \in Nat, NEW s \in 0 .. FullBps,
           NEW d, d = FullBps - s, NEW left,
           left = m - PairFloor(m, s) - PairFloor(m, d)
    PROVE  /\ PairFloor(m, s) \in Int /\ PairFloor(m, d) \in Int
           /\ m * s = FullBps * PairFloor(m, s) + PairRest(m, s)
           /\ m * d = FullBps * PairFloor(m, d) + PairRest(m, d)
           /\ PairRest(m, s) \in 0 .. FullBps - 1 /\ PairRest(m, d) \in 0 .. FullBps - 1
           /\ PairRest(m, s) + PairRest(m, d) = FullBps * left
           /\ left \in {0, 1}
<1>0. FullBps \in Nat \ {0} /\ s \in Int /\ d \in Int  BY FullBpsIsPositive
<1>1. m * s \in Int /\ m * d \in Int  BY <1>0
<1>2. m * s + m * d = FullBps * m  BY <1>0, SMT
<1>. DEFINE qs == PairFloor(m, s)
            qd == PairFloor(m, d)
            rs == PairRest(m, s)
            rd == PairRest(m, d)
<1>3. /\ qs \in Int /\ rs \in Int
      /\ m * s = FullBps * qs + rs
      /\ 0 <= rs /\ rs < FullBps
  BY <1>0, <1>1, Euclid DEF PairFloor, PairRest
<1>4. /\ qd \in Int /\ rd \in Int
      /\ m * d = FullBps * qd + rd
      /\ 0 <= rd /\ rd < FullBps
  BY <1>0, <1>1, Euclid DEF PairFloor, PairRest
<1>. HIDE DEF qs, qd, rs, rd
<1>5. left = m - qs - qd  BY DEF qs, qd
<1>6. left \in Int  BY <1>3, <1>4, <1>5
<1>7. rs + rd = FullBps * left
  <2>1. FullBps * left = FullBps * m - FullBps * qs - FullBps * qd
    BY <1>0, <1>3, <1>4, <1>5
  <2>2. FullBps * qs \in Int /\ FullBps * qd \in Int /\ FullBps * m \in Int
    BY <1>0, <1>3, <1>4
  <2>. QED  BY <1>1, <1>2, <1>3, <1>4, <2>1, <2>2
<1>8. left \in {0, 1}
  <2>1. 0 <= FullBps * left /\ FullBps * left < 2 * FullBps
    BY <1>0, <1>3, <1>4, <1>7
  <2>. QED  BY <1>0, <1>6, <2>1, SmallMultiple
<1>9. rs \in 0 .. FullBps - 1 /\ rd \in 0 .. FullBps - 1  BY <1>0, <1>3, <1>4
<1>. QED  BY <1>3, <1>4, <1>7, <1>8, <1>9 DEF qs, qd, rs, rd

-----------------------------------------------------------------------------
\* The two shares of a magnitude: they sum to it, neither is negative, and
\* the savings share is m * s / FullBps rounded to the nearest unit, halves up.
LEMMA PairIsRounded ==
    ASSUME NEW m \in Nat, NEW s \in 0 .. FullBps
    PROVE  LET pair == PairShares(m, s)
           IN  /\ pair.savings \in Nat /\ pair.discretionary \in Nat
               /\ pair.savings + pair.discretionary = m
               /\ 2 * (m * s) - FullBps < 2 * (FullBps * pair.savings)
               /\ 2 * (FullBps * pair.savings) <= 2 * (m * s) + FullBps
<1>. DEFINE d == FullBps - s
            qs == PairFloor(m, s)
            qd == PairFloor(m, d)
            rs == PairRest(m, s)
            rd == PairRest(m, d)
            left == m - qs - qd
            pair == PairShares(m, s)
<1>0. FullBps \in Nat \ {0} /\ s \in Int /\ d \in 0 .. FullBps  BY FullBpsIsPositive
<1>1. /\ qs \in Int /\ qd \in Int
      /\ m * s = FullBps * qs + rs
      /\ m * d = FullBps * qd + rd
      /\ rs \in 0 .. FullBps - 1 /\ rd \in 0 .. FullBps - 1
      /\ rs + rd = FullBps * left
      /\ left \in {0, 1}
  BY ComplementaryFloors
<1>2. m * s \in Nat /\ m * d \in Nat  BY <1>0
<1>3. qs \in Nat /\ qd \in Nat
  <2>. HIDE DEF d, qs, qd, rs, rd, left
  <2>1. ASSUME NEW q \in Int, NEW r \in 0 .. FullBps - 1, FullBps * q + r >= 0
        PROVE  q \in Nat
    <3>1. CASE q <= -1
      <4>1. FullBps * q <= -FullBps  BY <3>1, <1>0, SMT
      <4>2. FullBps * q \in Int  BY <1>0
      <4>. QED  BY <1>0, <4>1, <4>2, <2>1
    <3>. QED  BY <3>1
  <2>. QED  BY <1>1, <1>2, <2>1
<1>4. pair = [savings |-> qs + (IF left > (IF rd <= rs THEN 0 ELSE 1) THEN 1 ELSE 0),
              discretionary |-> qd + (IF left > (IF rd <= rs THEN 1 ELSE 0) THEN 1 ELSE 0)]
  BY DEF PairShares
<1>5. left = m - qs - qd  OBVIOUS
<1>6. FullBps * (qs + 1) = FullBps * qs + FullBps /\ FullBps * qs \in Int
  BY <1>0, <1>3
<1>. HIDE DEF d, qs, qd, rs, rd, left, pair
<1>7. CASE left = 0
  <2>1. rs = 0 /\ rd = 0  BY <1>0, <1>1, <1>7
  <2>2. pair.savings = qs /\ pair.discretionary = qd  BY <1>4, <1>7, <1>3, <1>1
  <2>. QED  BY <1>0, <1>1, <1>2, <1>3, <1>5, <1>7, <2>1, <2>2, <1>6 DEF pair
<1>8. CASE left = 1 /\ rd <= rs
  <2>1. pair.savings = qs + 1 /\ pair.discretionary = qd  BY <1>4, <1>8, <1>3, <1>1
  <2>2. FullBps <= 2 * rs  BY <1>0, <1>1, <1>8
  <2>. QED  BY <1>0, <1>1, <1>2, <1>3, <1>5, <1>8, <2>1, <2>2, <1>6 DEF pair
<1>9. CASE left = 1 /\ ~(rd <= rs)
  <2>1. pair.savings = qs /\ pair.discretionary = qd + 1  BY <1>4, <1>9, <1>3, <1>1
  <2>2. 2 * rs < FullBps  BY <1>0, <1>1, <1>9
  <2>. QED  BY <1>0, <1>1, <1>2, <1>3, <1>5, <1>9, <2>1, <2>2, <1>6 DEF pair
<1>. QED  BY <1>1, <1>7, <1>8, <1>9

-----------------------------------------------------------------------------
\* allocate_period: for every income, every total of fixed costs, every policy
\* and every size of a whole, what is due, saved and left to spend adds up to
\* the income to the unit, a shortfall included; and the savings are the exact
\* proportion rounded to the nearest unit.
THEOREM AllocationIsExact ==
    ASSUME NEW income \in Int, NEW due \in Int, NEW s \in 0 .. FullBps
    PROVE  LET a == AllocatePeriod(income, due, s)
           IN  /\ due + a.savings + a.discretionary = income
               /\ 2 * Abs(FullBps * a.savings - (income - due) * s) <= FullBps
<1>. DEFINE t == income - due
            m == Abs(t)
            pair == PairShares(m, s)
            a == AllocatePeriod(income, due, s)
<1>0. FullBps \in Nat \ {0} /\ s \in Int  BY FullBpsIsPositive
<1>1. t \in Int /\ m \in Nat  BY DEF Abs
<1>2. /\ pair.savings \in Nat /\ pair.discretionary \in Nat
      /\ pair.savings + pair.discretionary = m
      /\ 2 * (m * s) - FullBps < 2 * (FullBps * pair.savings)
      /\ 2 * (FullBps * pair.savings) <= 2 * (m * s) + FullBps
  <2>. HIDE DEF m
  <2>. QED  BY <1>1, PairIsRounded
<1>3. /\ a.savings = Sign(t) * pair.savings
      /\ a.discretionary = Sign(t) * pair.discretionary
  BY DEF AllocatePeriod, SplitPair
<1>4. m * s \in Int /\ FullBps * pair.savings \in Int  BY <1>0, <1>1, <1>2
<1>5. due + t = income  OBVIOUS
<1>6. CASE t >= 0
  <2>1. m = t /\ Sign(t) = 1  BY <1>1, <1>6 DEF Abs, Sign
  <2>2. a.savings = pair.savings /\ a.discretionary = pair.discretionary
    BY <1>2, <1>3, <2>1
  <2>. HIDE DEF t, m, pair, a
  <2>3. due + a.savings + a.discretionary = income  BY <1>1, <1>2, <1>5, <2>1, <2>2
  <2>4. 2 * Abs(FullBps * a.savings - t * s) <= FullBps
    BY <1>0, <1>2, <1>4, <2>1, <2>2 DEF Abs
  <2>. QED  BY <2>3, <2>4 DEF t, a
<1>7. CASE t < 0
  <2>1. m = -t /\ Sign(t) = -1  BY <1>1, <1>7 DEF Abs, Sign
  <2>2. a.savings = -pair.savings /\ a.discretionary = -pair.discretionary
    BY <1>2, <1>3, <2>1
  <2>. HIDE DEF t, m, pair, a
  <2>3. due + a.savings + a.discretionary = income  BY <1>1, <1>2, <1>5, <2>1, <2>2
  <2>4. FullBps * a.savings = -(FullBps * pair.savings) /\ t * s = -(m * s)
    BY <1>0, <1>1, <1>2, <2>1, <2>2
  <2>5. 2 * Abs(FullBps * a.savings - t * s) <= FullBps
    BY <1>0, <1>2, <1>4, <2>4 DEF Abs
  <2>. QED  BY <2>3, <2>5 DEF t, a
<1>. QED  BY <1>1, <1>6, <1>7

-----------------------------------------------------------------------------
(* split_bps in general.                                                   *)

\* A call that passes the checks.
IsCall(t, b) ==
    /\ t \in Int
    /\ Len(b) \in Nat /\ DOMAIN b = 1 .. Len(b) /\ \A i \in DOMAIN b : b[i].bps \in Int
    /\ Error(b) = "none"

LEMMA CallsAreValid ==
    ASSUME NEW t, NEW b, IsCall(t, b)
    PROVE  /\ Abs(t) \in Nat /\ FullBps \in Nat \ {0}
           /\ Len(b) \in Nat /\ IsFiniteSet(DOMAIN b) /\ Cardinality(DOMAIN b) = Len(b)
           /\ \A i \in DOMAIN b : i \in Nat /\ b[i].bps \in Nat
           /\ SumFunctionOnSet(Bps(b), DOMAIN b) = FullBps
<1>1. Abs(t) \in Nat  BY DEF IsCall, Abs
<1>2. Len(b) \in Nat /\ DOMAIN b = 1 .. Len(b)  BY DEF IsCall
<1>3. IsFiniteSet(DOMAIN b) /\ Cardinality(DOMAIN b) = Len(b)
  <2>. DEFINE n == Len(b)
  <2>1. n \in Int /\ 1 \in Int /\ n >= 0  BY <1>2
  <2>. HIDE DEF n
  <2>2. IsFiniteSet(1 .. n) /\ Cardinality(1 .. n) = IF 1 > n THEN 0 ELSE n - 1 + 1
    BY <2>1, FS_Interval
  <2>. QED  BY <1>2, <2>1, <2>2 DEF n
<1>4. SumsToFull(b) /\ NoneNegative(b)  BY DEF IsCall, Error
<1>5. \A i \in DOMAIN b : i \in Nat /\ b[i].bps \in Nat
  BY <1>2, <1>4 DEF NoneNegative, IsCall
<1>6. DOMAIN Bps(b) = DOMAIN b  BY DEF Bps
<1>. QED  BY <1>1, <1>2, <1>3, <1>4, <1>5, <1>6, FullBpsIsPositive DEF SumsToFull, SumFunction

\* What each bucket is floored to, and what that sheds.
LEMMA FloorsAndRemainders ==
    ASSUME NEW t, NEW b, IsCall(t, b), NEW i \in DOMAIN b
    PROVE  /\ Floors(t, b)[i] \in Nat
           /\ Remainders(t, b)[i] \in 0 .. FullBps - 1
           /\ Abs(t) * b[i].bps = FullBps * Floors(t, b)[i] + Remainders(t, b)[i]
<1>. DEFINE m == Abs(t)
            x == m * b[i].bps
            q == x \div FullBps
            r == x % FullBps
<1>1. m \in Nat /\ b[i].bps \in Nat /\ FullBps \in Nat \ {0}  BY CallsAreValid
<1>2. Floors(t, b)[i] = q /\ Remainders(t, b)[i] = r  BY DEF Floors, Remainders
<1>. HIDE DEF m
<1>3. x \in Nat  BY <1>1
<1>. HIDE DEF x
<1>4. /\ q \in Int /\ r \in Int /\ x = FullBps * q + r
      /\ 0 <= r /\ r < FullBps
  BY <1>1, <1>3, Euclid
<1>. HIDE DEF q, r
<1>5. q \in Nat
  <2>1. CASE q <= -1
    <3>1. FullBps * q <= -FullBps  BY <1>1, <2>1, <1>4, SMT
    <3>2. FullBps * q \in Int  BY <1>1, <1>4
    <3>. QED  BY <1>1, <1>3, <1>4, <3>1, <3>2
  <2>. QED  BY <1>4, <2>1
<1>6. r \in 0 .. FullBps - 1  BY <1>1, <1>4
<1>. QED  BY <1>2, <1>4, <1>5, <1>6 DEF x, m

\* The units left over make up the remainders, so that there are fewer of them
\* than buckets.
LEMMA LeftoverIsShed ==
    ASSUME NEW t, NEW b, IsCall(t, b)
    PROVE  /\ SumFunctionOnSet(Floors(t, b), DOMAIN b) \in Int
           /\ Leftover(t, b) = Abs(t) - SumFunctionOnSet(Floors(t, b), DOMAIN b)
           /\ Leftover(t, b) \in 0 .. Len(b)
           /\ SumFunctionOnSet(Remainders(t, b), DOMAIN b) = FullBps * Leftover(t, b)
<1>. DEFINE D == DOMAIN b
            m == Abs(t)
            F == Floors(t, b)
            R == Remainders(t, b)
            B == Bps(b)
            zero == [i \in D |-> 0]
            h == [i \in D |-> m * b[i].bps]
            left == Leftover(t, b)
            n == Len(b)
            sf == SumFunctionOnSet(F, D)
            sr == SumFunctionOnSet(R, D)
<1>1. /\ m \in Nat /\ FullBps \in Nat \ {0}
      /\ n \in Nat /\ IsFiniteSet(D) /\ Cardinality(D) = n
      /\ \A i \in D : i \in Nat /\ b[i].bps \in Nat
      /\ SumFunctionOnSet(B, D) = FullBps
  BY CallsAreValid
<1>2. \A i \in D : /\ F[i] \in Nat /\ R[i] \in 0 .. FullBps - 1
                   /\ m * b[i].bps = FullBps * F[i] + R[i]
  BY FloorsAndRemainders
<1>3. \A i \in D : B[i] = b[i].bps /\ zero[i] = 0 /\ h[i] = m * b[i].bps  BY DEF Bps
<1>4. left = m - sf
  <2>1. DOMAIN F = D  BY DEF Floors
  <2>. QED  BY <2>1 DEF Leftover, SumFunction
<1>. HIDE DEF D, m, F, R, B, zero, h, left, n
<1>5. SumFunctionOnSet(h, D) = m * FullBps
  <2>1. m \in Int /\ Linear(h, m, B, zero, D)
    BY <1>1, <1>3 DEF Linear
  <2>2. SumFunctionOnSet(h, D) = m * SumFunctionOnSet(B, D) + SumFunctionOnSet(zero, D)
    BY <1>1, <2>1, SumIsLinear
  <2>3. SumFunctionOnSet(zero, D) = 0
    <3>1. SumFunctionOnSet(zero, D) = 0 * Cardinality(D)
      <4>1. 0 \in Int /\ IsFiniteSet(D) /\ \A i \in D : zero[i] = 0  BY <1>1, <1>3
      <4>. QED  BY <4>1, SumIsConstant
    <3>. QED  BY <1>1, <3>1
  <2>. QED  BY <1>1, <2>2, <2>3
<1>6. SumFunctionOnSet(h, D) = FullBps * sf + sr
  <2>1. Linear(h, FullBps, F, R, D)
    BY <1>2, <1>3 DEF Linear
  <2>. QED  BY <1>1, <2>1, SumIsLinear
<1>7. sf \in Int  BY <1>1, <1>2, SumIsInt
<1>8. /\ sr \in Int /\ 0 <= sr /\ sr <= (FullBps - 1) * n
  <2>. DEFINE top == FullBps - 1
              low == 0
  <2>1. top \in Int /\ low \in Int /\ Between(R, D, low, top)
    BY <1>1, <1>2 DEF Between
  <2>2. IsFiniteSet(D)  BY <1>1
  <2>. HIDE DEF top, low
  <2>3. sr \in Int /\ low * Cardinality(D) <= sr /\ sr <= top * Cardinality(D)
    BY <2>1, <2>2, SumIsBounded
  <2>4. low * n = 0  BY <1>1 DEF low
  <2>. QED  BY <1>1, <2>3, <2>4 DEF top
<1>. HIDE DEF sf, sr
<1>9. left \in Int /\ sr = FullBps * left
  <2>1. FullBps * left = FullBps * m - FullBps * sf  BY <1>1, <1>4, <1>7
  <2>2. FullBps * m \in Int /\ FullBps * sf \in Int /\ m * FullBps = FullBps * m
    BY <1>1, <1>7
  <2>. QED  BY <1>1, <1>4, <1>5, <1>6, <1>7, <1>8, <2>1, <2>2
<1>10. left >= 0
  <2>1. CASE left <= -1
    <3>1. FullBps * left <= -FullBps  BY <1>1, <1>9, <2>1, SMT
    <3>2. 0 <= sr  BY <1>1, <1>8
    <3>. QED  BY <1>1, <1>8, <1>9, <3>1, <3>2
  <2>. QED  BY <1>9, <2>1
<1>11. left <= n
  <2>1. CASE left >= n + 1
    <3>1. FullBps * left >= FullBps * n + FullBps
      <4>1. FullBps * left >= FullBps * (n + 1)  BY <1>1, <1>9, <2>1, SMT
      <4>. QED  BY <1>1, <4>1
    <3>2. (FullBps - 1) * n = FullBps * n - n /\ FullBps * n \in Int  BY <1>1
    <3>. QED  BY <1>1, <1>8, <1>9, <3>1, <3>2
  <2>. QED  BY <1>1, <1>9, <2>1
<1>. QED  BY <1>1, <1>4, <1>7, <1>9, <1>10, <1>11 DEF left, n, sf, sr, D, F, R, m

-----------------------------------------------------------------------------
(* The ranking: k buckets have fewer than k before them.                   *)

Before(rem, D, i) == {j \in D : RankedBefore(rem, j, i)}

LEMMA RanksCount ==
    ASSUME NEW D \in SUBSET Int, IsFiniteSet(D), NEW rem, \A i \in D : rem[i] \in Int,
           NEW k \in 0 .. Cardinality(D)
    PROVE  LET first == {i \in D : Cardinality(Before(rem, D, i)) < k}
           IN  IsFiniteSet(first) /\ Cardinality(first) = k
<1>. DEFINE n == Cardinality(D)
            r == [i \in D |-> Cardinality(Before(rem, D, i))]
            first == {i \in D : r[i] < k}
<1>1. n \in Nat  BY FS_CardinalityType
<1>2. ASSUME NEW i \in D
      PROVE  IsFiniteSet(Before(rem, D, i)) /\ r[i] \in 0 .. n - 1
  <2>. DEFINE before == Before(rem, D, i)
  <2>1. before \in SUBSET (D \ {i})  BY DEF Before, RankedBefore
  <2>2. IsFiniteSet(D \ {i}) /\ Cardinality(D \ {i}) = n - 1  BY FS_RemoveElement
  <2>. HIDE DEF before
  <2>3. IsFiniteSet(before) /\ Cardinality(before) <= n - 1 /\ Cardinality(before) \in Nat
    BY <2>1, <2>2, FS_Subset, FS_CardinalityType
  <2>. QED  BY <1>1, <2>3 DEF before
<1>3. ASSUME NEW i \in D, NEW j \in D, RankedBefore(rem, i, j) PROVE r[i] < r[j]
  <2>. DEFINE A == Before(rem, D, i)
              B == Before(rem, D, j)
  <2>1. A \cup {i} \in SUBSET B /\ i \notin A
    <3>1. \A x \in A : x \in B
      <4>. SUFFICES ASSUME NEW x \in A PROVE x \in B
        OBVIOUS
      <4>1. x \in D /\ RankedBefore(rem, x, i)  BY DEF Before
      <4>2. /\ rem[x] \in Int /\ rem[i] \in Int /\ rem[j] \in Int
            /\ x \in Int /\ i \in Int /\ j \in Int
        BY <4>1
      <4>3. RankedBefore(rem, x, j)  BY <1>3, <4>1, <4>2 DEF RankedBefore
      <4>. QED  BY <4>1, <4>3 DEF Before
    <3>2. i \in B  BY <1>3 DEF Before
    <3>3. i \notin A
      <4>1. rem[i] \in Int /\ i \in Int  OBVIOUS
      <4>. QED  BY <4>1 DEF Before, RankedBefore
    <3>4. A \subseteq D /\ B \subseteq D  BY DEF Before
    <3>. HIDE DEF A, B
    <3>. QED  BY <3>1, <3>2, <3>3
  <2>2. IsFiniteSet(A) /\ IsFiniteSet(B)  BY <1>2
  <2>3. r[i] = Cardinality(A) /\ r[j] = Cardinality(B)  OBVIOUS
  <2>4. r[i] \in Int /\ r[j] \in Int  BY <1>1, <1>2
  <2>. HIDE DEF A, B, r
  <2>5. Cardinality(A \cup {i}) = Cardinality(A) + 1  BY <2>1, <2>2, FS_AddElement
  <2>6. Cardinality(A \cup {i}) <= Cardinality(B)  BY <2>1, <2>2, FS_Subset
  <2>. QED  BY <2>3, <2>4, <2>5, <2>6
<1>4. ASSUME NEW i \in D, NEW j \in D, i # j PROVE r[i] # r[j]
  <2>1. RankedBefore(rem, i, j) \/ RankedBefore(rem, j, i)
    BY <1>4 DEF RankedBefore
  <2>2. r[i] < r[j] \/ r[j] < r[i]  BY <1>3, <2>1
  <2>3. r[i] \in Int /\ r[j] \in Int  BY <1>1, <1>2
  <2>. HIDE DEF r
  <2>. QED  BY <2>2, <2>3
<1>5. IsFiniteSet(0 .. n - 1) /\ Cardinality(0 .. n - 1) = n
  <2>1. 0 \in Int /\ n - 1 \in Int  BY <1>1
  <2>2. Cardinality(0 .. n - 1) = IF 0 > n - 1 THEN 0 ELSE n - 1 - 0 + 1
    BY <2>1, FS_Interval
  <2>. QED  BY <1>1, <2>1, <2>2, FS_Interval
<1>6. r \in Injection(D, 0 .. n - 1)
  <2>1. r \in [D -> 0 .. n - 1]  BY <1>2
  <2>. HIDE DEF r
  <2>. QED  BY <1>4, <2>1 DEF Injection, IsInjective
<1>. HIDE DEF r
<1>7. r \in Surjection(D, 0 .. n - 1)  BY <1>5, <1>6, FS_Injection
<1>. DEFINE f == [i \in first |-> r[i]]
<1>8. f \in Bijection(first, 0 .. k - 1)
  <2>1. k \in Int /\ k <= n  BY <1>1
  <2>2. \A i \in D : r[i] \in 0 .. n - 1  BY <1>2
  <2>3. f \in [first -> 0 .. k - 1]
    <3>1. \A i \in first : r[i] \in 0 .. k - 1  BY <1>1, <2>1, <2>2
    <3>. HIDE DEF first
    <3>. QED  BY <3>1
  <2>4. \A i, j \in first : f[i] = f[j] => i = j  BY <1>4
  <2>5. \A y \in 0 .. k - 1 : \E i \in first : f[i] = y
    <3>. SUFFICES ASSUME NEW y \in 0 .. k - 1 PROVE \E i \in first : f[i] = y
      OBVIOUS
    <3>1. y \in 0 .. n - 1 /\ y < k  BY <1>1, <2>1
    <3>2. PICK i \in D : r[i] = y  BY <1>7, <3>1 DEF Surjection
    <3>. QED  BY <3>1, <3>2
  <2>. HIDE DEF f, first
  <2>. QED  BY <2>3, <2>4, <2>5 DEF Bijection, Injection, Surjection, IsInjective
<1>9. IsFiniteSet(first)
  <2>1. first \in SUBSET D  OBVIOUS
  <2>. HIDE DEF first
  <2>. QED  BY <2>1, FS_Subset
<1>10. Cardinality(0 .. k - 1) = k
  <2>1. 0 \in Int /\ k - 1 \in Int /\ k >= 0  BY <1>1
  <2>2. Cardinality(0 .. k - 1) = IF 0 > k - 1 THEN 0 ELSE k - 1 - 0 + 1
    BY <2>1, FS_Interval
  <2>. QED  BY <2>1, <2>2
<1>11. Cardinality(first) = k
  <2>. HIDE DEF first, f
  <2>1. ExistsBijection(first, 0 .. k - 1)  BY <1>8 DEF ExistsBijection
  <2>. QED  BY <1>9, <1>10, <2>1, FS_Bijection
<1>12. first = {i \in D : Cardinality(Before(rem, D, i)) < k}  BY DEF r
<1>. QED  BY <1>9, <1>11, <1>12

\* As many buckets get a unit more as units are left over.
LEMMA PromotedAreLeftover ==
    ASSUME NEW t, NEW b, IsCall(t, b)
    PROVE  /\ Promoted(t, b) \in SUBSET DOMAIN b
           /\ Cardinality(Promoted(t, b)) = Leftover(t, b)
<1>. DEFINE D == DOMAIN b
            rem == Remainders(t, b)
            left == Leftover(t, b)
<1>1. D \in SUBSET Int /\ IsFiniteSet(D) /\ Cardinality(D) = Len(b)  BY CallsAreValid
<1>2. \A i \in D : rem[i] \in Int
  <2>1. \A i \in D : rem[i] \in 0 .. FullBps - 1  BY FloorsAndRemainders
  <2>. QED  BY <2>1, FullBpsIsPositive
<1>3. left \in 0 .. Cardinality(D)  BY <1>1, LeftoverIsShed
<1>4. Promoted(t, b) = {i \in D : Cardinality(Before(rem, D, i)) < left}
  BY DEF Promoted, Before
<1>. HIDE DEF D, rem, left
<1>5. Cardinality({i \in D : Cardinality(Before(rem, D, i)) < left}) = left
  BY <1>1, <1>2, <1>3, RanksCount
<1>. QED  BY <1>4, <1>5 DEF D, left

\* A bucket that needs no rounding gets no unit more: the others with a
\* remainder come first, and they are enough.
LEMMA PromotedHaveRests ==
    ASSUME NEW t, NEW b, IsCall(t, b), NEW i \in Promoted(t, b)
    PROVE  Remainders(t, b)[i] > 0
<1>. DEFINE D == DOMAIN b
            rem == Remainders(t, b)
            left == Leftover(t, b)
            P == {j \in D : rem[j] > 0}
            Z == D \ P
            top == FullBps - 1
            low == 0
<1>1. /\ D \in SUBSET Int /\ IsFiniteSet(D) /\ i \in D /\ FullBps \in Nat \ {0}
      /\ \A j \in D : rem[j] \in 0 .. FullBps - 1
      /\ left \in Nat /\ SumFunctionOnSet(rem, D) = FullBps * left
  <2>1. i \in D  BY DEF Promoted
  <2>2. D \in SUBSET Int /\ IsFiniteSet(D) /\ FullBps \in Nat \ {0} /\ Len(b) \in Nat
    BY CallsAreValid
  <2>3. \A j \in D : rem[j] \in 0 .. FullBps - 1  BY FloorsAndRemainders
  <2>4. left \in 0 .. Len(b) /\ SumFunctionOnSet(rem, D) = FullBps * left
    BY LeftoverIsShed
  <2>. HIDE DEF left, D, rem
  <2>. QED  BY <2>1, <2>2, <2>3, <2>4
<1>2. Cardinality(Before(rem, D, i)) < left  BY DEF Promoted, Before
<1>. SUFFICES ASSUME ~(rem[i] > 0) PROVE FALSE
  OBVIOUS
<1>. HIDE DEF D, rem, left
<1>3. rem[i] = 0  BY <1>1
<1>4. P \in SUBSET Before(rem, D, i) /\ Before(rem, D, i) \in SUBSET D
  BY <1>1, <1>3 DEF Before, RankedBefore
<1>5. /\ IsFiniteSet(P) /\ IsFiniteSet(Z) /\ Cardinality(P) \in Nat
      /\ Cardinality(P) <= left - 1
  <2>1. IsFiniteSet(Before(rem, D, i))  BY <1>1, <1>4, FS_Subset
  <2>. DEFINE B == Before(rem, D, i)
  <2>. HIDE DEF B, P
  <2>2. IsFiniteSet(P) /\ Cardinality(P) <= Cardinality(B)
    BY <1>4, <2>1, FS_Subset DEF B
  <2>3. Cardinality(P) \in Nat /\ Cardinality(B) \in Nat
    BY <2>1, <2>2, FS_CardinalityType DEF B
  <2>4. IsFiniteSet(Z)  BY <1>1, FS_Difference
  <2>5. Cardinality(B) < left /\ left \in Nat  BY <1>1, <1>2 DEF B
  <2>. QED  BY <2>2, <2>3, <2>4, <2>5
<1>6. SumFunctionOnSet(rem, D) = SumFunctionOnSet(rem, P) + SumFunctionOnSet(rem, Z)
  <2>1. P \cap Z = {} /\ P \cup Z = D /\ \A j \in P \cup Z : rem[j] \in Int
    BY <1>1
  <2>. HIDE DEF P, Z
  <2>2. SumFunctionOnSet(rem, P \cup Z) = SumFunctionOnSet(rem, P) + SumFunctionOnSet(rem, Z)
    BY <1>5, <2>1, SumSplits
  <2>. QED  BY <2>1, <2>2
<1>7. SumFunctionOnSet(rem, Z) = 0
  <2>1. low \in Int /\ \A j \in Z : rem[j] = low  BY <1>1
  <2>. HIDE DEF low, Z
  <2>2. SumFunctionOnSet(rem, Z) = low * Cardinality(Z)
    BY <1>5, <2>1, SumIsConstant
  <2>3. Cardinality(Z) \in Nat  BY <1>5, FS_CardinalityType
  <2>. QED  BY <2>2, <2>3 DEF low
<1>8. /\ SumFunctionOnSet(rem, P) \in Int
      /\ SumFunctionOnSet(rem, P) <= top * Cardinality(P)
  <2>1. top \in Int /\ low \in Int /\ Between(rem, P, low, top)
    BY <1>1 DEF Between
  <2>. HIDE DEF low, top, P
  <2>. QED  BY <1>5, <2>1, SumIsBounded
<1>. DEFINE c == Cardinality(P)
<1>9. FullBps * left <= top * c
  <2>. DEFINE sp == SumFunctionOnSet(rem, P)
              sz == SumFunctionOnSet(rem, Z)
  <2>1. FullBps * left = sp + sz /\ sz = 0 /\ sp \in Int /\ sp <= top * c
    BY <1>1, <1>6, <1>7, <1>8
  <2>2. top * c \in Int /\ FullBps * left \in Int  BY <1>1, <1>5
  <2>. HIDE DEF sp, sz, c, top
  <2>. QED  BY <2>1, <2>2
<1>10. c \in Nat /\ c <= left - 1 /\ top \in Nat /\ FullBps = top + 1  BY <1>1, <1>5
<1>. HIDE DEF c, top
<1>11. top * c <= top * (left - 1)  BY <1>1, <1>10, SMT
<1>12. top * (left - 1) = top * left - top /\ FullBps * left = top * left + left
       /\ top * left \in Int
  BY <1>1, <1>10
<1>13. top * c \in Int  BY <1>10
<1>. QED  BY <1>1, <1>9, <1>10, <1>11, <1>12, <1>13

\* What a bucket gets, up to the sign of the total.
Units(t, b, i) == Floors(t, b)[i] + (IF i \in Promoted(t, b) THEN 1 ELSE 0)

LEMMA UnitsAreNatural ==
    ASSUME NEW t, NEW b, IsCall(t, b), NEW i \in DOMAIN b
    PROVE  /\ Units(t, b, i) \in Nat
           /\ SplitBps(t, b)[i] = Sign(t) * Units(t, b, i)
  BY FloorsAndRemainders DEF Units, SplitBps

LEMMA SharesSumUp ==
    ASSUME NEW t, NEW b, IsCall(t, b)
    PROVE  SumFunction(SplitBps(t, b)) = t
<1>. DEFINE D == DOMAIN b
            m == Abs(t)
            s == Sign(t)
            F == Floors(t, b)
            one == [i \in D |-> IF i \in Promoted(t, b) THEN 1 ELSE 0]
            unit == [i \in D |-> Units(t, b, i)]
            zero == [i \in D |-> 0]
            shares1 == SplitBps(t, b)
            sf == SumFunctionOnSet(F, D)
<1>1. IsFiniteSet(D) /\ m \in Nat  BY CallsAreValid
<1>2. s \in {1, -1} /\ s * m = t  BY DEF IsCall, Sign, Abs
<1>3. \A i \in D : F[i] \in Nat  BY FloorsAndRemainders
<1>4. \A i \in D : /\ one[i] = (IF i \in Promoted(t, b) THEN 1 ELSE 0)
                   /\ unit[i] = F[i] + one[i] /\ zero[i] = 0
  BY DEF Units
<1>5. \A i \in D : unit[i] \in Nat /\ shares1[i] = s * unit[i]  BY UnitsAreNatural
<1>6. DOMAIN shares1 = D  BY DEF SplitBps
<1>7. sf \in Int /\ Leftover(t, b) = m - sf  BY LeftoverIsShed
<1>8. SumFunctionOnSet(one, D) = m - sf
  <2>1. Promoted(t, b) \in SUBSET D /\ Cardinality(Promoted(t, b)) = m - sf
    BY <1>7, PromotedAreLeftover
  <2>. HIDE DEF one, D, sf, m
  <2>. QED  BY <1>1, <1>4, <2>1, SumCounts
<1>. HIDE DEF D, m, s, F, one, unit, zero, shares1, sf
<1>9. SumFunctionOnSet(unit, D) = m
  <2>1. 1 \in Int /\ Linear(unit, 1, F, one, D)  BY <1>3, <1>4 DEF Linear
  <2>2. SumFunctionOnSet(unit, D) = 1 * SumFunctionOnSet(F, D) + SumFunctionOnSet(one, D)
    BY <1>1, <2>1, SumIsLinear
  <2>. QED  BY <1>1, <1>7, <1>8, <2>2 DEF sf
<1>10. SumFunctionOnSet(shares1, D) = s * m
  <2>1. s \in Int /\ Linear(shares1, s, unit, zero, D)
    BY <1>2, <1>4, <1>5 DEF Linear
  <2>2. SumFunctionOnSet(shares1, D)
          = s * SumFunctionOnSet(unit, D) + SumFunctionOnSet(zero, D)
    BY <1>1, <2>1, SumIsLinear
  <2>3. SumFunctionOnSet(zero, D) = 0
    <3>. DEFINE low == 0
    <3>1. low \in Int /\ \A i \in D : zero[i] = low  BY <1>4
    <3>. HIDE DEF low
    <3>2. SumFunctionOnSet(zero, D) = low * Cardinality(D)  BY <1>1, <3>1, SumIsConstant
    <3>3. Cardinality(D) \in Nat  BY <1>1, FS_CardinalityType
    <3>. QED  BY <3>2, <3>3 DEF low
  <2>4. s * m \in Int  BY <1>1, <2>1
  <2>. QED  BY <1>9, <2>2, <2>3, <2>4
<1>. QED  BY <1>2, <1>6, <1>10 DEF shares1, SumFunction

\* No share is a whole unit away from the exact proportion.
LEMMA SharesAreClose ==
    ASSUME NEW t, NEW b, IsCall(t, b), NEW i \in DOMAIN b
    PROVE  Abs(SplitBps(t, b)[i] * FullBps - t * b[i].bps) < FullBps
<1>. DEFINE m == Abs(t)
            s == Sign(t)
            bps == b[i].bps
            fl == Floors(t, b)[i]
            r == Remainders(t, b)[i]
            one == IF i \in Promoted(t, b) THEN 1 ELSE 0
            share == SplitBps(t, b)[i]
            d == FullBps * one - r
<1>1. /\ m \in Nat /\ bps \in Nat /\ FullBps \in Nat \ {0}
      /\ t \in Int /\ s \in {1, -1} /\ t = s * m
  BY CallsAreValid DEF IsCall, Sign, Abs
<1>2. fl \in Nat /\ r \in 0 .. FullBps - 1 /\ m * bps = FullBps * fl + r
  BY FloorsAndRemainders
<1>3. one \in {0, 1} /\ (one = 1 => r > 0)  BY PromotedHaveRests
<1>4. share = s * (fl + one)  BY UnitsAreNatural DEF Units
<1>. HIDE DEF m, s, bps, fl, r, one, share
<1>5. share * FullBps - t * bps = s * d
  <2>1. share * FullBps = s * (FullBps * fl + FullBps * one)
    <3>1. (fl + one) * FullBps = FullBps * fl + FullBps * one  BY <1>1, <1>2, <1>3
    <3>2. share * FullBps = s * ((fl + one) * FullBps)  BY <1>1, <1>2, <1>3, <1>4
    <3>. QED  BY <3>1, <3>2
  <2>2. t * bps = s * (FullBps * fl + r)
    <3>1. t * bps = s * (m * bps)  BY <1>1
    <3>. QED  BY <1>2, <3>1
  <2>3. FullBps * fl \in Int /\ FullBps * one \in Int /\ r \in Int  BY <1>1, <1>2, <1>3
  <2>. QED  BY <1>1, <2>1, <2>2, <2>3
<1>6. d \in Int /\ -FullBps < d /\ d < FullBps
  <2>1. FullBps * one = IF one = 1 THEN FullBps ELSE 0  BY <1>1, <1>3
  <2>. QED  BY <1>1, <1>2, <1>3, <2>1
<1>. HIDE DEF d
<1>7. Abs(s * d) < FullBps  BY <1>1, <1>6 DEF Abs
<1>. QED  BY <1>5, <1>7 DEF share, bps

\* The larger bucket is floored no lower, and ranks first where both are
\* floored alike.
LEMMA LargerAreServed ==
    ASSUME NEW t, NEW b, IsCall(t, b), NEW i \in DOMAIN b, NEW j \in DOMAIN b,
           b[i].bps > b[j].bps \/ (b[i].bps = b[j].bps /\ i < j)
    PROVE  Units(t, b, j) <= Units(t, b, i)
<1>. DEFINE m == Abs(t)
            D == DOMAIN b
            rem == Remainders(t, b)
            left == Leftover(t, b)
            x == b[i].bps
            y == b[j].bps
            fi == Floors(t, b)[i]
            fj == Floors(t, b)[j]
            ri == rem[i]
            rj == rem[j]
<1>1. /\ m \in Nat /\ FullBps \in Nat \ {0} /\ x \in Nat /\ y \in Nat
      /\ i \in Nat /\ j \in Nat /\ IsFiniteSet(D) /\ D \in SUBSET Int
  BY CallsAreValid
<1>2. /\ fi \in Nat /\ ri \in 0 .. FullBps - 1 /\ m * x = FullBps * fi + ri
      /\ fj \in Nat /\ rj \in 0 .. FullBps - 1 /\ m * y = FullBps * fj + rj
  BY FloorsAndRemainders
<1>3. x > y \/ (x = y /\ i < j)  OBVIOUS
<1>4. ASSUME NEW k \in D
      PROVE  /\ k \in Promoted(t, b) <=> Cardinality(Before(rem, D, k)) < left
             /\ k \in Promoted(t, b) => rem[k] > 0
             /\ rem[k] \in Int
  <2>1. k \in Promoted(t, b) <=> Cardinality(Before(rem, D, k)) < left
    BY DEF Promoted, Before
  <2>2. k \in Promoted(t, b) => rem[k] > 0  BY PromotedHaveRests
  <2>3. rem[k] \in 0 .. FullBps - 1  BY FloorsAndRemainders
  <2>. HIDE DEF rem, D, left
  <2>. QED  BY <1>1, <2>1, <2>2, <2>3
<1>5. left \in Int
  <2>1. left \in 0 .. Len(b) /\ Len(b) \in Nat  BY LeftoverIsShed, CallsAreValid
  <2>. HIDE DEF left
  <2>. QED  BY <2>1
<1>6. /\ Units(t, b, i) = fi + (IF i \in Promoted(t, b) THEN 1 ELSE 0)
      /\ Units(t, b, j) = fj + (IF j \in Promoted(t, b) THEN 1 ELSE 0)
  BY DEF Units
<1>7. i \in D /\ j \in D  OBVIOUS
<1>. HIDE DEF m, x, y, fi, fj, left, D
<1>8. m * y <= m * x
  <2>1. y <= x  BY <1>1, <1>3
  <2>. QED  BY <1>1, <2>1, SMT
<1>9. fj <= fi
  <2>1. CASE fi <= fj - 1
    <3>1. FullBps * fi <= FullBps * (fj - 1)  BY <1>1, <1>2, <2>1, SMT
    <3>2. FullBps * (fj - 1) = FullBps * fj - FullBps  BY <1>1, <1>2
    <3>3. FullBps * fi \in Int /\ FullBps * fj \in Int  BY <1>1, <1>2
    <3>. QED  BY <1>1, <1>2, <1>8, <3>1, <3>2, <3>3
  <2>. QED  BY <1>2, <2>1
<1>10. CASE fj < fi
  BY <1>2, <1>6, <1>10
<1>11. CASE fj = fi
  <2>1. ASSUME j \in Promoted(t, b) PROVE i \in Promoted(t, b)
    <3>1. rj > 0 /\ Cardinality(Before(rem, D, j)) < left  BY <1>4, <1>7, <2>1
    <3>2. m # 0
      <4>1. CASE m = 0
        <5>1. m * y = 0 /\ FullBps * fj \in Nat  BY <1>1, <1>2, <4>1
        <5>. QED  BY <1>1, <1>2, <3>1, <5>1
      <4>. QED  BY <4>1
    <3>3. ri > rj \/ (ri = rj /\ i < j)
      <4>. DEFINE mx == m * x
                  my == m * y
                  base == FullBps * fi
      <4>1. mx = base + ri /\ my = base + rj  BY <1>2, <1>11
      <4>2. base \in Int /\ ri \in Int /\ rj \in Int /\ mx \in Int /\ my \in Int
        BY <1>1, <1>2
      <4>3. x > y => my < mx  BY <1>1, <3>2, SMT
      <4>4. x = y => mx = my  OBVIOUS
      <4>. HIDE DEF mx, my, base, ri, rj
      <4>5. (x > y => rj < ri) /\ (x = y => ri = rj)  BY <4>1, <4>2, <4>3, <4>4
      <4>. QED  BY <1>3, <4>2, <4>5
    <3>4. Before(rem, D, i) \subseteq Before(rem, D, j)
      <4>. SUFFICES ASSUME NEW k \in Before(rem, D, i) PROVE k \in Before(rem, D, j)
        OBVIOUS
      <4>1. k \in D /\ RankedBefore(rem, k, i)  BY DEF Before
      <4>2. rem[k] \in Int /\ rem[i] \in Int /\ rem[j] \in Int /\ k \in Int
        BY <1>1, <1>4, <1>7, <4>1
      <4>3. rem[i] > rem[j] \/ (rem[i] = rem[j] /\ i < j)  BY <3>3
      <4>. HIDE DEF rem
      <4>4. RankedBefore(rem, k, j)  BY <1>1, <4>1, <4>2, <4>3 DEF RankedBefore
      <4>. QED  BY <4>1, <4>4 DEF Before
    <3>5. Cardinality(Before(rem, D, i)) < left
      <4>. DEFINE A == Before(rem, D, i)
                  B == Before(rem, D, j)
      <4>1. B \in SUBSET D  BY DEF Before
      <4>. HIDE DEF A, B
      <4>2. IsFiniteSet(B) /\ A \in SUBSET B  BY <1>1, <3>4, <4>1, FS_Subset DEF A, B
      <4>3. IsFiniteSet(A) /\ Cardinality(A) <= Cardinality(B)  BY <4>2, FS_Subset
      <4>4. Cardinality(A) \in Nat /\ Cardinality(B) \in Nat
        BY <4>2, <4>3, FS_CardinalityType
      <4>5. Cardinality(B) < left  BY <3>1 DEF B
      <4>6. Cardinality(A) < left  BY <1>5, <4>3, <4>4, <4>5
      <4>. QED  BY <4>6 DEF A
    <3>. QED  BY <1>4, <1>7, <3>5
  <2>. QED  BY <1>2, <1>6, <1>11, <2>1
<1>. QED  BY <1>2, <1>9, <1>10, <1>11

-----------------------------------------------------------------------------
(* Behaviours: single calls, of which those that pass the checks return.   *)

MoneyInv == Returned => IsCall(total, buckets) /\ shares = SplitBps(total, buckets)

LEMMA MoneyInvHolds == Spec => []MoneyInv
<1>. DEFINE Typed == total \in Totals /\ buckets \in Buckets
<1>1. Init => Typed /\ MoneyInv  BY DEF Init, MoneyInv, Returned
<1>2. Typed /\ MoneyInv /\ [Next]_vars => (Typed /\ MoneyInv)'
  <2>. SUFFICES ASSUME Typed, MoneyInv, [Next]_vars PROVE (Typed /\ MoneyInv)'
    OBVIOUS
  <2>1. CASE Raise
    <3>1. outcome' # "returned"  BY <2>1 DEF Raise, Error
    <3>. QED  BY <2>1, <3>1 DEF Raise, MoneyInv, Returned
  <2>2. CASE Return
    <3>1. total \in Int  BY TotalsAreMinor
    <3>2. /\ Len(buckets) \in Nat /\ DOMAIN buckets = 1 .. Len(buckets)
          /\ \A i \in DOMAIN buckets : buckets[i].bps \in Int
      BY BucketsAreSequences
    <3>3. IsCall(total, buckets)  BY <2>2, <3>1, <3>2 DEF Return, IsCall
    <3>. QED  BY <2>2, <3>3 DEF Return, MoneyInv
  <2>3. CASE UNCHANGED vars  BY <2>3 DEF vars, MoneyInv, Returned
  <2>. QED  BY <2>1, <2>2, <2>3 DEF Next
<1>. HIDE DEF Typed
<1>. QED  BY <1>1, <1>2, PTL DEF Spec

\* split_bps: whatever it is called with, the shares it returns sum to the
\* total, and none is a whole unit away from its exact proportion.
THEOREM SplitsAreExact == Spec => []SharesAreExact
<1>1. MoneyInv => SharesAreExact
  <2>. SUFFICES ASSUME MoneyInv, Returned
       PROVE  /\ SumFunction(shares) = total
              /\ \A i \in DOMAIN buckets :
                    Abs(shares[i] * FullBps - total * buckets[i].bps) < FullBps
    BY DEF SharesAreExact
  <2>1. IsCall(total, buckets) /\ shares = SplitBps(total, buckets)  BY DEF MoneyInv
  <2>. QED  BY <2>1, SharesSumUp, SharesAreClose
<1>. QED  BY <1>1, MoneyInvHolds, PTL

\* split_bps: the leftover units never put a bucket behind one that is smaller,
\* or that is as large and later.
THEOREM ProportionsAreKept == Spec => []LargerBucketsGetMore
<1>1. MoneyInv => LargerBucketsGetMore
  <2>. SUFFICES ASSUME MoneyInv, Returned, NEW i \in DOMAIN buckets, NEW j \in DOMAIN buckets,
                       \/ buckets[i].bps > buckets[j].bps
                       \/ buckets[i].bps = buckets[j].bps /\ i < j
       PROVE  Abs(shares[i]) >= Abs(shares[j])
    BY DEF LargerBucketsGetMore
  <2>1. IsCall(total, buckets) /\ shares = SplitBps(total, buckets)  BY DEF MoneyInv
  <2>. DEFINE ui == Units(total, buckets, i)
              uj == Units(total, buckets, j)
  <2>2. /\ ui \in Nat /\ shares[i] = Sign(total) * ui
        /\ uj \in Nat /\ shares[j] = Sign(total) * uj
    BY <2>1, UnitsAreNatural
  <2>3. uj <= ui  BY <2>1, LargerAreServed
  <2>4. Sign(total) \in {1, -1}  BY DEF Sign
  <2>. HIDE DEF ui, uj
  <2>. QED  BY <2>2, <2>3, <2>4 DEF Abs
<1>. QED  BY <1>1, MoneyInvHolds, PTL

-----------------------------------------------------------------------------
(* The two buckets of a policy.                                            *)

LEMMA SumOfTwo ==
    ASSUME NEW f, f[1] \in Int, f[2] \in Int
    PROVE  SumFunctionOnSet(f, 1 .. 2) = f[1] + f[2]
<1>. DEFINE S == {1, 2}
<1>1. IsFiniteSet(S) /\ \A y \in S : f[y] \in Int
  <2>1. S = {1} \cup {2} /\ IsFiniteSet({1})  BY FS_Singleton
  <2>2. IsFiniteSet(S)  BY <2>1, FS_AddElement
  <2>. QED  BY <2>2
<1>2. S = 1 .. 2 /\ {} \cup {1} = {1} /\ {1} \cup {2} = S  OBVIOUS
<1>3. {} \in SUBSET S /\ {1} \in SUBSET S /\ 1 \in S /\ 2 \in S /\ 1 \notin {} /\ 2 \notin {1}
  OBVIOUS
<1>. HIDE DEF S
<1>4. SumFunctionOnSet(f, {} \cup {1}) = f[1] + SumFunctionOnSet(f, {})
  BY <1>1, <1>3, SumWithOneMore
<1>5. SumFunctionOnSet(f, {1} \cup {2}) = f[2] + SumFunctionOnSet(f, {1})
  <2>. DEFINE A == {1}
  <2>1. A \in SUBSET S /\ 2 \in S /\ 2 \notin A  BY <1>3
  <2>. HIDE DEF A
  <2>2. SumFunctionOnSet(f, A \cup {2}) = f[2] + SumFunctionOnSet(f, A)
    BY <1>1, <2>1, SumWithOneMore
  <2>. QED  BY <2>2 DEF A
<1>6. SumFunctionOnSet(f, {}) = 0  BY SumOfNothing
<1>7. SumFunctionOnSet(f, S) = f[2] + (f[1] + 0)  BY <1>2, <1>4, <1>5, <1>6
<1>8. f[2] + (f[1] + 0) = f[1] + f[2]  OBVIOUS
<1>. QED  BY <1>2, <1>7, <1>8

\* Of two buckets, the first is ranked behind the second only with less to round.
LEMMA RanksOfTwo ==
    ASSUME NEW rem, rem[1] \in Int, rem[2] \in Int
    PROVE  /\ Cardinality({j \in 1 .. 2 : RankedBefore(rem, j, 1)})
                 = IF rem[2] <= rem[1] THEN 0 ELSE 1
           /\ Cardinality({j \in 1 .. 2 : RankedBefore(rem, j, 2)})
                 = IF rem[2] <= rem[1] THEN 1 ELSE 0
<1>1. \A j \in 1 .. 2 : j = 1 \/ j = 2  OBVIOUS
<1>2. ~RankedBefore(rem, 1, 1) /\ ~RankedBefore(rem, 2, 2)  BY DEF RankedBefore
<1>3. Cardinality({}) = 0 /\ Cardinality({1}) = 1 /\ Cardinality({2}) = 1
  BY FS_EmptySet, FS_Singleton
<1>. HIDE DEF RankedBefore
<1>4. CASE rem[2] <= rem[1]
  <2>1. ~RankedBefore(rem, 2, 1) /\ RankedBefore(rem, 1, 2)  BY <1>4 DEF RankedBefore
  <2>2. {j \in 1 .. 2 : RankedBefore(rem, j, 1)} = {}  BY <1>1, <1>2, <2>1
  <2>3. {j \in 1 .. 2 : RankedBefore(rem, j, 2)} = {1}  BY <1>1, <1>2, <2>1
  <2>. QED  BY <1>3, <1>4, <2>2, <2>3
<1>5. CASE ~(rem[2] <= rem[1])
  <2>1. RankedBefore(rem, 2, 1) /\ ~RankedBefore(rem, 1, 2)  BY <1>5 DEF RankedBefore
  <2>2. {j \in 1 .. 2 : RankedBefore(rem, j, 1)} = {2}  BY <1>1, <1>2, <2>1
  <2>3. {j \in 1 .. 2 : RankedBefore(rem, j, 2)} = {}  BY <1>1, <1>2, <2>1
  <2>. QED  BY <1>3, <1>5, <2>2, <2>3
<1>. QED  BY <1>4, <1>5

LEMMA SplitOfTwo ==
    ASSUME NEW t \in Int, NEW s \in 0 .. FullBps
    PROVE  LET pair == SplitPair(t, s)
           IN  SplitBps(t, PolicyBuckets(s)) = <<pair.savings, pair.discretionary>>
<1>. DEFINE b == PolicyBuckets(s)
            m == Abs(t)
            d == FullBps - s
            qs == PairFloor(m, s)
            qd == PairFloor(m, d)
            rs == PairRest(m, s)
            rd == PairRest(m, d)
            F == Floors(t, b)
            R == Remainders(t, b)
            left == m - qs - qd
            P == Promoted(t, b)
<1>1. DOMAIN b = 1 .. 2 /\ b[1].bps = s /\ b[2].bps = d  BY DEF PolicyBuckets
<1>2. m \in Nat /\ FullBps \in Nat \ {0} /\ d = FullBps - s  BY FullBpsIsPositive DEF Abs
<1>3. qs \in Int /\ qd \in Int /\ rs \in Int /\ rd \in Int
  <2>1. /\ qs \in Int /\ qd \in Int
        /\ rs \in 0 .. FullBps - 1 /\ rd \in 0 .. FullBps - 1
    <3>. HIDE DEF m
    <3>. QED  BY <1>2, ComplementaryFloors
  <2>. HIDE DEF qs, qd, rs, rd
  <2>. QED  BY <1>2, <2>1
<1>4. /\ DOMAIN F = 1 .. 2 /\ F[1] = qs /\ F[2] = qd
      /\ R[1] = rs /\ R[2] = rd
  BY <1>1 DEF Floors, Remainders, PairFloor, PairRest
<1>5. Leftover(t, b) = left
  <2>1. Leftover(t, b) = m - SumFunctionOnSet(F, 1 .. 2)
    BY <1>4 DEF Leftover, SumFunction
  <2>. HIDE DEF F, m, qs, qd
  <2>2. SumFunctionOnSet(F, 1 .. 2) = qs + qd  BY <1>3, <1>4, SumOfTwo
  <2>. QED  BY <1>2, <1>3, <2>1, <2>2
<1>6. \A i \in 1 .. 2 :
        i \in P <=> Cardinality({j \in 1 .. 2 : RankedBefore(R, j, i)}) < left
  BY <1>1, <1>5 DEF Promoted
<1>7. SplitBps(t, b)
        = [i \in 1 .. 2 |-> Sign(t) * (F[i] + (IF i \in P THEN 1 ELSE 0))]
  BY <1>1 DEF SplitBps
<1>. DEFINE pair == PairShares(m, s)
<1>8. /\ pair.savings = qs + (IF left > (IF rd <= rs THEN 0 ELSE 1) THEN 1 ELSE 0)
      /\ pair.discretionary = qd + (IF left > (IF rd <= rs THEN 1 ELSE 0) THEN 1 ELSE 0)
  BY DEF PairShares
<1>9. /\ SplitPair(t, s).savings = Sign(t) * pair.savings
      /\ SplitPair(t, s).discretionary = Sign(t) * pair.discretionary
  BY DEF SplitPair
<1>10. left \in Int  BY <1>2, <1>3
<1>. HIDE DEF b, m, d, qs, qd, rs, rd, F, R, left, P, pair
<1>11. /\ 1 \in P <=> (IF rd <= rs THEN 0 ELSE 1) < left
       /\ 2 \in P <=> (IF rd <= rs THEN 1 ELSE 0) < left
  <2>1. /\ Cardinality({j \in 1 .. 2 : RankedBefore(R, j, 1)}) = (IF rd <= rs THEN 0 ELSE 1)
        /\ Cardinality({j \in 1 .. 2 : RankedBefore(R, j, 2)}) = (IF rd <= rs THEN 1 ELSE 0)
    BY <1>3, <1>4, RanksOfTwo
  <2>2. 1 \in 1 .. 2 /\ 2 \in 1 .. 2  OBVIOUS
  <2>. QED  BY <1>6, <2>1, <2>2
<1>12. /\ F[1] + (IF 1 \in P THEN 1 ELSE 0) = pair.savings
       /\ F[2] + (IF 2 \in P THEN 1 ELSE 0) = pair.discretionary
  <2>1. 1 \in P <=> left > (IF rd <= rs THEN 0 ELSE 1)  BY <1>3, <1>10, <1>11
  <2>2. 2 \in P <=> left > (IF rd <= rs THEN 1 ELSE 0)  BY <1>3, <1>10, <1>11
  <2>. QED  BY <1>4, <1>8, <2>1, <2>2
<1>. DEFINE g == [i \in 1 .. 2 |-> Sign(t) * (F[i] + (IF i \in P THEN 1 ELSE 0))]
<1>13. g = <<g[1], g[2]>>  OBVIOUS
<1>14. g[1] = SplitPair(t, s).savings /\ g[2] = SplitPair(t, s).discretionary
  BY <1>9, <1>12
<1>. HIDE DEF g
<1>15. SplitBps(t, b) = <<SplitPair(t, s).savings, SplitPair(t, s).discretionary>>
  BY <1>7, <1>13, <1>14 DEF g
<1>. QED  BY <1>15 DEF b

\* allocate_period: the two-bucket split of Allocation, of which AllocationIsExact
\* speaks, is what split_bps computes for the buckets of every policy.
THEOREM PolicySplitIsGeneral == Spec => []PairIsTheSplit
<1>1. MoneyInv => PairIsTheSplit
  <2>1. MoneyInv /\ Returned => total \in Int  BY DEF MoneyInv, IsCall
  <2>. QED  BY <2>1, SplitOfTwo DEF PairIsTheSplit
<1>. QED  BY <1>1, MoneyInvHolds, PTL

=============================================================================
