----------------------------- MODULE CycleFold -----------------------------
(***************************************************************************)
(* The statement cycles of one account: core.interest enumerates them and   *)
(* domain.accounts folds the ledger over them, in order, carrying estimated *)
(* interest and whether the last statement was paid.  Pure operators: V are *)
(* the versions of the account, K the events known to the read.             *)
(***************************************************************************)
EXTENDS Periods, FiniteSets, FiniteSetsExt

CONSTANTS
    Basis,  \* 10_000 * 365, the divisor of the interest
    None    \* absent value

ASSUME BasisIsPositive == Basis \in Nat \ {0}

Kinds == {"CREDIT_CARD", "LOAN", "SAVINGS"}
Forever == Days \cup {None}
Versions == [kind: Kinds, apr: Nat, closeDay: (1 .. 31) \cup {None},
             dueDay: (1 .. 31) \cup {None}, from: Days, to: Forever]

-----------------------------------------------------------------------------
(* core.interest                                                           *)

\* Mutant: the close day is not clamped into a short month.
CycleEndUnclamped(a, p) ==
    IF a.closeDay = None THEN EndExclusive(p) ELSE Start(p) + a.closeDay

\* _cycle_end_exclusive: the day after the close, or the end of the period.
CycleEnd(a, p) ==
    IF a.closeDay = None THEN EndExclusive(p) ELSE ClampDay(p, a.closeDay) + 1

\* build_statement_cycles.  The cursor stands at the genesis or at the previous
\* boundary; periods that closed before the genesis, or whose cycle would begin
\* after the read, contribute none.  The period after the read's closes the
\* cycle in progress.
CycleStart(a, genesis, p) ==
    IF p = 1 THEN genesis ELSE Larger(genesis, CycleEnd(a, p - 1))
PeriodsCovering(genesis, t) == PeriodsBetween(genesis, t) \cup {PeriodFor(t) + 1}
CyclePeriods(a, genesis, t) ==
    {p \in PeriodsCovering(genesis, t) :
        CycleEnd(a, p) > genesis /\ CycleStart(a, genesis, p) <= t}
BuildCycles(a, genesis, t) ==
    [p \in CyclePeriods(a, genesis, t) |->
        [start |-> CycleStart(a, genesis, p), end |-> Smaller(CycleEnd(a, p), t + 1)]]

InterestForCycle(outstanding, apr, days) == (outstanding * apr * days) \div Basis

-----------------------------------------------------------------------------
(* domain.accounts                                                         *)

IsLiability(a) == a.kind \in {"CREDIT_CARD", "LOAN"}

IsInterest(e) == e.type \in {"charged", "earned"}

\* _account_delta: the signed effect of an event on the balance.
Delta(e) ==
    CASE e.type \in {"movement", "earned"} -> e.amount
      [] e.type = "charged" -> -e.amount
      [] e.type = "foreign" -> 0
Moved(K) == MapThenSumSet(LAMBDA e : Delta(e), K)

\* Mutant: a balance in credit is charged like a debt.
AccrualBaseUnclamped(a, balance) == IF balance < 0 THEN -balance ELSE balance

\* What interest accrues on: what is owed, or what is held; never negative.
AccrualBase(a, balance) == Larger(0, IF IsLiability(a) THEN -balance ELSE balance)

\* _payment_due_date: the first due day strictly after the close.
DueDate(close, dueDay) ==
    LET p == PeriodFor(close)
    IN  IF ClampDay(p, dueDay) > close THEN ClampDay(p, dueDay) ELSE ClampDay(p + 1, dueDay)

\* Mutant: a payment counts however late it comes.
PaidInFullEver(a, K, balance, end) ==
    /\ IsLiability(a) /\ a.dueDay # None
    /\ Moved({e \in K : end <= e.date /\ Delta(e) > 0}) >= AccrualBase(a, balance)

\* _is_paid_in_full: the credits between the close and the due date cover what
\* was owed.  Without a due day, or for an asset, the answer is no.
PaidInFull(a, K, balance, end) ==
    /\ IsLiability(a) /\ a.dueDay # None
    /\ Moved({e \in K : /\ end <= e.date /\ e.date <= DueDate(end - 1, a.dueDay)
                           /\ Delta(e) > 0})
          >= AccrualBase(a, balance)

\* pins: the recorded interest of a cycle, the last one in ledger order.
Pins(K, p) == {e \in K : IsInterest(e) /\ e.cycle = p}
LastPin(K, p) == CHOOSE e \in Pins(K, p) : \A f \in Pins(K, p) : f.date <= e.date

IsEffectiveAt(v, d) == v.from <= d /\ (v.to = None \/ d < v.to)
InForce(V, d) == {v \in V : IsEffectiveAt(v, d)}
LatestOf(V) == CHOOSE v \in V : \A w \in V : w.from <= v.from

\* resolve_version, with a fallback where no version is effective.
VersionAt(V, d, fallback) ==
    IF InForce(V, d) = {} THEN fallback ELSE LatestOf(InForce(V, d))

\* Mutant: the version in force when the cycle ends.
CycleVersionAtEnd(V, cycle, account) == VersionAt(V, cycle.end, account)

\* The version that governs a cycle: the one at its start.
CycleVersion(V, cycle, account) == VersionAt(V, cycle.start, account)

\* Mutant: a recorded interest enters the carry as an estimate does.
CarryOfAny(a, estimated, isEstimate, interest) ==
    estimated + (IF IsLiability(a) THEN -interest ELSE interest)

\* The balance effect of the interest estimated so far: recorded interest is in
\* the ledger already.
Carry(a, estimated, isEstimate, interest) ==
    IF ~isEstimate THEN estimated
    ELSE estimated + (IF IsLiability(a) THEN -interest ELSE interest)

\* Mutant: a graced cycle ignores the interest that was recorded for it.
InterestGraceFirst(a, K, p, graced, close, days) ==
    IF graced THEN 0
    ELSE IF Pins(K, p) # {} THEN LastPin(K, p).amount
    ELSE InterestForCycle(AccrualBase(a, close), a.apr, days)

\* A recorded interest outranks grace, and grace the estimate.
Interest(a, K, p, graced, close, days) ==
    IF Pins(K, p) # {} THEN LastPin(K, p).amount
    ELSE IF graced THEN 0
    ELSE InterestForCycle(AccrualBase(a, close), a.apr, days)

\* step of fold_statement_cycles: `before` is the statement of the previous
\* cycle, of which it reads what was carried and whether it was paid.
Statement(V, K, account, p, cycle, before) ==
    LET a == CycleVersion(V, cycle, account)
        graced == before.paid /\ IsLiability(a)
        close == Moved({e \in K : e.date < cycle.end}) + before.estimated
        interest == Interest(a, K, p, graced, close, cycle.end - cycle.start)
        isEstimate == Pins(K, p) = {}
    IN  [start |-> cycle.start, end |-> cycle.end, close |-> close,
         interest |-> interest, isEstimate |-> isEstimate,
         graced |-> graced /\ (isEstimate \/ interest = 0),
         paid |-> PaidInFull(a, K, close, cycle.end),
         estimated |-> Carry(a, before.estimated, isEstimate, interest)]

\* Nothing was estimated before the first cycle, and no statement was unpaid.
Seed == [estimated |-> 0, paid |-> TRUE]

FoldCycles(V, K, account, cycles) ==
    LET s[p \in DOMAIN cycles] ==
            Statement(V, K, account, p, cycles[p],
                      IF p - 1 \in DOMAIN cycles THEN s[p - 1] ELSE Seed)
    IN  s

-----------------------------------------------------------------------------
(* domain.projection, as far as it feeds the cycles.                       *)

\* Mutant: a read's date cuts the report and not what is known.
KnownEver(E, t) == E

\* What is known on a date is what is dated by then.
Known(E, t) == {e \in E : e.date <= t}

\* _resolve_account: the version at a date, the last one where there is none.
Account(V, t) == VersionAt(V, t, LatestOf(V))
=============================================================================
