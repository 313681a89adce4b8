------------------------------ MODULE MCMoney ------------------------------
(***************************************************************************)
(* Every call of split_bps with up to three buckets over a small whole.     *)
(***************************************************************************)
EXTENDS Money

SmallTotals == -9 .. 9
SmallBuckets ==
    UNION {[1 .. n -> [name: {"a", "b", "c"}, bps: -1 .. FullBps]] : n \in 0 .. 2}
    \cup {b \in [1 .. 3 -> [name: {"a", "b", "c"}, bps: 0 .. FullBps]] :
             b[1].name = "a" /\ b[2].name = "b"}
=============================================================================
