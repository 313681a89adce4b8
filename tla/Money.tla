------------------------------- MODULE Money -------------------------------
(***************************************************************************)
(* core.money: splitting an integer amount over buckets of basis points,    *)
(* and the allocation of a period's income.  The behaviours are single      *)
(* calls of split_bps: it raises, or returns one share per bucket.          *)
(***************************************************************************)
EXTENDS Allocation, Sequences, FiniteSets, Functions

CONSTANTS
    Totals,   \* the amounts a caller may pass
    Buckets   \* the bucket sequences a caller may pass

ASSUME TotalsAreMinor == Totals \subseteq Int
ASSUME BucketsAreSequences ==
    \A b \in Buckets : /\ Len(b) \in Nat /\ DOMAIN b = 1 .. Len(b)
                       /\ \A i \in DOMAIN b : b[i].bps \in Int

VARIABLES
    total,    \* total_minor
    buckets,  \* the ordered sequence of [name, bps]
    outcome,  \* "called", "returned", or the code it raised
    shares    \* per bucket, by position: what the returned dict maps it to

vars == <<total, buckets, outcome, shares>>

-----------------------------------------------------------------------------
(* _validate_buckets: the three checks, in order.                          *)

Bps(b) == [i \in DOMAIN b |-> b[i].bps]
SumsToFull(b) == SumFunction(Bps(b)) = FullBps
NoneNegative(b) == \A i \in DOMAIN b : b[i].bps >= 0
NamesAreUnique(b) == \A i, j \in DOMAIN b : b[i].name = b[j].name => i = j

Error(b) ==
    IF ~SumsToFull(b) \/ ~NoneNegative(b) THEN "POLICY_BPS_NOT_10000"
    ELSE IF ~NamesAreUnique(b) THEN "VALIDATION_FAILED"
    ELSE "none"

-----------------------------------------------------------------------------
(* split_bps.                                                              *)

Floors(t, b) == [i \in DOMAIN b |-> (Abs(t) * b[i].bps) \div FullBps]
Remainders(t, b) == [i \in DOMAIN b |-> (Abs(t) * b[i].bps) % FullBps]
Leftover(t, b) == Abs(t) - SumFunction(Floors(t, b))

\* Mutant: ties go to the last position.
RankedTiesLast(rem, i, j) == rem[i] > rem[j] \/ (rem[i] = rem[j] /\ j < i)

\* The order leftover units are handed out in.
RankedBefore(rem, i, j) == rem[i] > rem[j] \/ (rem[i] = rem[j] /\ i < j)

\* Mutant: ranked[:leftover + 1].
PromotedOneMore(t, b) ==
    LET rem == Remainders(t, b)
    IN  {i \in DOMAIN b :
            Cardinality({j \in DOMAIN b : RankedBefore(rem, j, i)}) <= Leftover(t, b)}

\* Mutant: the leftover units go to the first buckets.
PromotedByPosition(t, b) == {i \in DOMAIN b : i <= Leftover(t, b)}

Promoted(t, b) ==
    LET rem == Remainders(t, b)
    IN  {i \in DOMAIN b :
            Cardinality({j \in DOMAIN b : RankedBefore(rem, j, i)}) < Leftover(t, b)}

SplitBps(t, b) ==
    [i \in DOMAIN b |->
        Sign(t) * (Floors(t, b)[i] + (IF i \in Promoted(t, b) THEN 1 ELSE 0))]

-----------------------------------------------------------------------------
(* The buckets that allocate_period passes for a policy.                   *)

PolicyBuckets(s) == <<[name |-> "savings", bps |-> s],
                      [name |-> "discretionary", bps |-> FullBps - s]>>

-----------------------------------------------------------------------------
Init ==
    /\ total \in Totals
    /\ buckets \in Buckets
    /\ outcome = "called"
    /\ shares = << >>

Raise ==
    /\ outcome = "called"
    /\ Error(buckets) # "none"
    /\ outcome' = Error(buckets)
    /\ UNCHANGED <<total, buckets, shares>>

Return ==
    /\ outcome = "called"
    /\ Error(buckets) = "none"
    /\ shares' = SplitBps(total, buckets)
    /\ outcome' = "returned"
    /\ UNCHANGED <<total, buckets>>

Next == Raise \/ Return

Spec == Init /\ [][Next]_vars

-----------------------------------------------------------------------------
(* Properties.                                                             *)

Returned == outcome = "returned"

\* split_bps: the shares sum to the total exactly, whatever its sign, and no
\* bucket is a whole unit away from its exact proportion.
SharesAreExact ==
    Returned =>
        /\ SumFunction(shares) = total
        /\ \A i \in DOMAIN buckets : Abs(shares[i] * FullBps - total * buckets[i].bps) < FullBps

\* The leftover units never overturn the proportions: of two buckets the one
\* with more basis points, or the earlier of two equal ones, gets no less.
LargerBucketsGetMore ==
    Returned =>
        \A i, j \in DOMAIN buckets :
            buckets[i].bps > buckets[j].bps \/ (buckets[i].bps = buckets[j].bps /\ i < j)
                => Abs(shares[i]) >= Abs(shares[j])

\* allocate_period's two buckets: SplitPair is what split_bps computes, so
\* what is proved of SplitPair holds of the code's general algorithm.
PairIsTheSplit ==
    Returned =>
        \A s \in 0 .. FullBps :
            LET pair == SplitPair(total, s)
            IN  SplitBps(total, PolicyBuckets(s)) = <<pair.savings, pair.discretionary>>
=============================================================================
