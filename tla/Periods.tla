------------------------------ MODULE Periods ------------------------------
(***************************************************************************)
(* core.periods: half-open calendar months over days, which are integers.   *)
(* Only where each month begins matters to the rest of the system, so a     *)
(* calendar is the function MonthStart; the months are consecutive and each *)
(* has at least one day.  Periods are numbered instead of named "YYYY-MM".  *)
(***************************************************************************)
EXTENDS Integers

CONSTANTS
    Months,     \* the number of months of the instance
    MonthStart  \* the first day of each of them, and of the one that follows

ASSUME MonthsAreConsecutive ==
    /\ Months \in Nat \ {0}
    /\ MonthStart \in [1 .. Months + 1 -> Int]
    /\ \A p, q \in 1 .. Months + 1 : p < q => MonthStart[p] < MonthStart[q]

PeriodIds == 1 .. Months
Days == MonthStart[1] .. MonthStart[Months + 1] - 1

\* The first day of a period, and the first day after it.
Start(p) == MonthStart[p]
EndExclusive(p) == MonthStart[p + 1]

PeriodFor(d) == CHOOSE p \in PeriodIds : Start(p) <= d /\ d < EndExclusive(p)

Smaller(a, b) == IF a < b THEN a ELSE b
Larger(a, b) == IF a < b THEN b ELSE a

\* clamp_day_to_month: the 31st of a short month is its last day.
ClampDay(p, day) == Smaller(Start(p) + day - 1, EndExclusive(p) - 1)

\* periods_between: ascending, so a set of numbers; none when start > end.
PeriodsBetween(a, b) == IF a > b THEN {} ELSE PeriodFor(a) .. PeriodFor(b)
=============================================================================
