------------------------------- MODULE Reads -------------------------------
(***************************************************************************)
(* What the read endpoints select from a State: the periods of a window,    *)
(* one period in detail, and every chart.  Charts fold what the projection  *)
(* decided and never the ledger; only balances, which are values at an      *)
(* instant, are projected again at the close of each bucket.                *)
(***************************************************************************)
EXTENDS Projection

\* load_state: the ledger is listed first, then the definitions are loaded, each
\* as committed at its own moment; `early` and `late` are the database then.

\* Mutant: the definitions are loaded first.
LoadDefinitionsFirst(early, late) ==
    [ledger |-> late.ledger, definitions |-> early.definitions]
LoadState(early, late) == [ledger |-> early.ledger, definitions |-> late.definitions]

\* A window is [from, to], both days included; None leaves an end open.
Overlaps(start, end, window) ==
    /\ window.to = None \/ start <= window.to
    /\ window.from = None \/ window.from < end

\* read_periods, and the buckets of a chart.
PeriodsIn(S, window) ==
    {p \in DOMAIN S.periods : Overlaps(Start(p), EndExclusive(p), window)}

\* VALIDATION_FAILED, the answer to what a State has no figure for.
ValidationFailed == [code |-> "VALIDATION_FAILED"]

\* read_period: the rows and the warnings that belong to one period; those about
\* a cycle or an account belong to none.
PeriodDetail(S, p) ==
    IF p \notin DOMAIN S.periods THEN ValidationFailed ELSE
    [period |-> S.periods[p],
     obligations |-> {r \in S.rows : r.period = p},
     warnings |->
        {w \in DOMAIN S.warnings :
            CASE w = "NEGATIVE_ALLOCATION" -> p \in S.warnings[w]
              [] w \in {"OBLIGATION_OVERPAID", "OBLIGATION_PAST_DUE_UNPAID"} ->
                    \E r \in S.warnings[w] : r.period = p
              [] w \in {"SAVINGS_DRAW_EXCEEDS_BALANCE", "PAYMENT_WITHOUT_OBLIGATION"} ->
                    \E e \in S.warnings[w] : PeriodFor(e.date) = p
              [] w \in {"ESTIMATED_INTEREST", "CHECKING_OVERDRAWN"} -> FALSE}]

-----------------------------------------------------------------------------
(* Charts: a chart is a function from <<bucket, series>> to a value.        *)

\* TOTAL_SERIES, beside which series are accounts, categories or payees.
Total == 0

FixedMetrics == {"due", "paid", "outstanding"}
PeriodMetrics == FixedMetrics \cup {"income", "allocatable", "savings", "discretionary",
                                    "spent", "remaining"}
InterestMetrics == {"interest_charged", "interest_earned"}

\* What build_points answers with points.
IsSupported(q) ==
    \/ /\ q.grain = "cycle" /\ q.group \in {"none", "account"}
       /\ q.metric \in InterestMetrics \cup {"account_balance"}
    \/ /\ q.grain = "period"
       /\ CASE q.group = "none" ->
                  q.metric \in PeriodMetrics \cup InterestMetrics
                                  \cup {"savings_balance", "account_balance"}
            [] q.group = "account" -> q.metric \in InterestMetrics \cup {"account_balance"}
            [] q.group \in {"category", "payee"} -> q.metric \in FixedMetrics

\* Mutant: of the triples of one point the last one counts.
SummedLastWins(triples) ==
    LET key(x) == <<x.bucket, x.series>>
    IN  [k \in {key(x) : x \in triples} |->
            (CHOOSE x \in triples : key(x) = k).value]

\* _summed: the triples of one bucket and series add up; `of` tells them apart.
Summed(triples) ==
    LET key(x) == <<x.bucket, x.series>>
    IN  [k \in {key(x) : x \in triples} |->
            MapThenSumSet(LAMBDA x : x.value, {x \in triples : key(x) = k})]

PeriodPoints(S, metric, P) == [k \in P \X {Total} |-> S.periods[k[1]][metric]]

ObligationValue(row, metric) ==
    CASE metric = "due" -> row.amount
      [] metric = "paid" -> row.paid
      [] metric = "outstanding" -> row.remaining

\* _grouped_period_points: `group` names a field of the rows.
GroupedPeriodPoints(S, metric, group, P) ==
    Summed({[bucket |-> r.period, series |-> r[group], value |-> ObligationValue(r, metric),
             of |-> r] : r \in {x \in S.rows : x.period \in P}})

\* Mutant: what is owed adds to what is held.
TotalOutstanding(accounts) ==
    MapThenSumSet(LAMBDA a : IF accounts[a].outstanding = None THEN accounts[a].balance
                             ELSE accounts[a].outstanding, DOMAIN accounts)

\* Net worth: the signed balances.
NetWorth(accounts) == MapThenSumSet(LAMBDA a : accounts[a].balance, DOMAIN accounts)

\* The figure that a State has for one series of balances.
Balance(state, metric, series) ==
    CASE metric = "savings_balance" -> state.savings.balance
      [] metric = "account_balance" /\ series = Total -> NetWorth(state.accounts)
      [] metric = "account_balance" /\ series # Total -> state.accounts[series].balance

\* _state_at: every bucket loads the database anew, loads[p] for period p.
AtClose(S, loads, p) ==
    LET close == Smaller(EndExclusive(p) - 1, S.asOf)
    IN  IF close = S.asOf THEN S ELSE Project(loads[p].ledger, loads[p].definitions, close)

\* _balance_points: the balance at each period's close, or on the read's date
\* in the period that is not over.
BalancePoints(S, loads, metric, group, P) ==
    LET atClose == [p \in P |-> AtClose(S, loads, p)]
        series(p) == IF group = "account" THEN DOMAIN atClose[p].accounts ELSE {Total}
    IN  [k \in UNION {{p} \X series(p) : p \in P} |-> Balance(atClose[k[1]], metric, k[2])]

\* _cycle_matches: liabilities are charged interest and assets earn it.
CycleMatches(S, metric, cycle) ==
    CASE metric = "interest_charged" -> IsLiability(S.accounts[cycle.account])
      [] metric = "interest_earned" -> ~IsLiability(S.accounts[cycle.account])
      [] metric = "account_balance" -> TRUE
MatchingCycles(S, metric) == {c \in S.statements : CycleMatches(S, metric, c)}

CycleValue(metric, cycle) ==
    IF metric = "account_balance" THEN cycle.close ELSE cycle.interest
CycleSeries(group, cycle) == IF group = "account" THEN cycle.account ELSE Total

\* _cycle_points: a bucket for each statement cycle that the window touches.
CyclePoints(S, metric, group, window) ==
    Summed({[bucket |-> <<c.account, c.period>>, series |-> CycleSeries(group, c),
             value |-> CycleValue(metric, c)] :
                c \in {x \in MatchingCycles(S, metric) : Overlaps(x.start, x.end, window)}})

\* Mutant: interest is charted where its cycle begins.
OpenPeriod(cycle) == PeriodFor(cycle.start)
CyclePeriodPointsByStart(S, metric, group, P) ==
    Summed({[bucket |-> OpenPeriod(c), series |-> CycleSeries(group, c),
             value |-> CycleValue(metric, c), of |-> c] :
                c \in {x \in MatchingCycles(S, metric) : OpenPeriod(x) \in P}})

\* _cycle_period_points: interest belongs to the period its cycle is cut in.
CyclePeriodPoints(S, metric, group, P) ==
    Summed({[bucket |-> ClosePeriod(c), series |-> CycleSeries(group, c),
             value |-> CycleValue(metric, c), of |-> c] :
                c \in {x \in MatchingCycles(S, metric) : ClosePeriod(x) \in P}})

\* build_points.
BuildPoints(S, loads, q) ==
    LET P == PeriodsIn(S, q.window)
    IN  IF ~IsSupported(q) THEN ValidationFailed ELSE
        CASE q.grain = "cycle" -> CyclePoints(S, q.metric, q.group, q.window)
          [] q.grain = "period" /\ q.metric \in {"savings_balance", "account_balance"} ->
                BalancePoints(S, loads, q.metric, q.group, P)
          [] q.grain = "period" /\ q.metric \in InterestMetrics ->
                CyclePeriodPoints(S, q.metric, q.group, P)
          [] q.grain = "period" /\ q.metric \in PeriodMetrics /\ q.group # "none" ->
                GroupedPeriodPoints(S, q.metric, q.group, P)
          [] q.grain = "period" /\ q.metric \in PeriodMetrics /\ q.group = "none" ->
                PeriodPoints(S, q.metric, P)
=============================================================================
