----------------------------- MODULE Allocation -----------------------------
(***************************************************************************)
(* core.money.allocate_period: fixed costs off the top, the rest split over *)
(* two buckets, savings first.  SplitPair is split_bps for those buckets,   *)
(* without the fold and the ranking: a unit is left over for the bucket     *)
(* with the larger remainder, and savings wins the tie.                     *)
(***************************************************************************)
EXTENDS Integers

CONSTANT FullBps  \* one whole in basis points: 10_000 in the code

ASSUME FullBpsIsPositive == FullBps \in Nat \ {0}

Abs(n) == IF n < 0 THEN -n ELSE n
Sign(n) == IF n < 0 THEN -1 ELSE 1

PairFloor(m, bps) == (m * bps) \div FullBps
PairRest(m, bps) == (m * bps) % FullBps

PairShares(m, s) ==
    LET d == FullBps - s
        left == m - PairFloor(m, s) - PairFloor(m, d)
        savingsFirst == PairRest(m, d) <= PairRest(m, s)
    IN  [savings |->
            PairFloor(m, s) + (IF left > (IF savingsFirst THEN 0 ELSE 1) THEN 1 ELSE 0),
         discretionary |->
            PairFloor(m, d) + (IF left > (IF savingsFirst THEN 1 ELSE 0) THEN 1 ELSE 0)]

SplitPair(t, s) ==
    LET pair == PairShares(Abs(t), s)
    IN  [savings |-> Sign(t) * pair.savings,
         discretionary |-> Sign(t) * pair.discretionary]

AllocatePeriod(income, due, s) == SplitPair(income - due, s)
=============================================================================
