----------------------------- MODULE Projection -----------------------------
(***************************************************************************)
(* domain.projection.project: the fold of a ledger and of the definitions   *)
(* into what the program shows as of a date.  Pure operators; K are the     *)
(* events known to the read and D the versions of the definitions           *)
(* [policies, costs, accounts], each with the `entity` it is a version of.  *)
(* The numbers of the accounts follow the order of their ids.               *)
(* Allocation and CycleFold are the parts it is composed of.                *)
(***************************************************************************)
EXTENDS Allocation, CycleFold

(* Steps 1 to 3: the events, their order and their periods.                *)

\* Mutant: a void that is voided itself no longer counts.
IsVoidedUnlessUndone(e, L) ==
    \E v \in L : /\ v.type = "void" /\ v.target = e.id
                 /\ \A w \in L : w.type = "void" => w.target # v.id

\* Voids take effect whatever their own date, and whatever becomes of them.
IsVoided(e, L) == \E v \in L : v.type = "void" /\ v.target = e.id

Surviving(L) == {e \in L : e.type # "void" /\ ~IsVoided(e, L)}

\* _ledger_key: recorded_at and the event's id, here the id, break the ties.
Before(e, f) == e.date < f.date \/ (e.date = f.date /\ e.id < f.id)

\* A bill belongs to the period it is due in, anything else to that of its date.
PeriodDate(e) == IF e.type = "raised" THEN e.due ELSE e.date
FirstDate(K, t) == Min({t} \cup {PeriodDate(e) : e \in K})
Window(K, t) == PeriodsBetween(FirstDate(K, t), t)

Amounts(K) == MapThenSumSet(LAMBDA e : e.amount, K)
Of(K, type, p) == {e \in K : e.type = type /\ PeriodFor(e.date) = p}

-----------------------------------------------------------------------------
(* Definitions, resolved at the date that governs each use.                *)

Entities(V) == {v.entity : v \in V}
VersionsOf(V, entity) == {v \in V : v.entity = entity}

FallbackPolicy == [savings |-> FullBps \div 2]

\* Mutant: the policy in force as the period ends.
PolicyAtEnd(D, p) == VersionAt(D.policies, EndExclusive(p), FallbackPolicy)

\* _resolve_policy: the policy of a period is the one in force as it starts,
\* the latest to begin if there are policies of several entities.
Policy(D, p) == VersionAt(D.policies, Start(p), FallbackPolicy)

\* _resolve_account, of an account that is defined.
AccountAt(D, a, d) == Account(VersionsOf(D.accounts, a), d)

\* _card_budget_timing, of whatever account an event names.
Timing(D, a, d) ==
    IF a \in Entities(D.accounts) /\ AccountAt(D, a, d).kind = "CREDIT_CARD"
    THEN AccountAt(D, a, d).timing ELSE "NOT_A_CARD"

\* _first_account_of_kind, as of the read's date.
FirstOfKind(D, kind, t) ==
    LET alike == {a \in Entities(D.accounts) : AccountAt(D, a, t).kind = kind}
    IN  IF alike = {} THEN None ELSE Min(alike)

-----------------------------------------------------------------------------
(* Step 4: obligations.                                                    *)

\* derive_obligation_status.
ObligationStatus(amount, paid) ==
    CASE paid <= 0 -> "UNPAID"
      [] 0 < paid /\ paid < amount -> "PARTIALLY_PAID"
      [] 0 < paid /\ paid = amount -> "PAID"
      [] 0 < paid /\ paid > amount -> "OVERPAID"

\* What is paid against an obligation counts whenever it is paid.
Paid(K, obligation) == Amounts({e \in K : e.type = "paid" /\ e.obligation = obligation})

\* A row of a bill, whether raised or expected.
Row(K, source, bill) ==
    LET paid == Paid(K, bill.obligation)
    IN  [source |-> source, obligation |-> bill.obligation, recurring |-> bill.recurring,
         period |-> PeriodFor(bill.due), due |-> bill.due,
         payee |-> bill.payee, category |-> bill.category,
         amount |-> bill.amount, paid |-> paid, remaining |-> bill.amount - paid,
         status |-> ObligationStatus(bill.amount, paid)]

Forecast(cost, p) ==
    [obligation |-> <<cost.entity, p>>, recurring |-> cost.entity,
     due |-> ClampDay(p, cost.dueDay), amount |-> cost.amount,
     payee |-> cost.payee, category |-> cost.category]

\* expand_fixed_costs: a bill is expected where a version of its cost is in
\* force as the period starts.
Expected(D, p) ==
    LET current == InForce(D.costs, Start(p))
    IN  {Forecast(LatestOf(VersionsOf(current, c)), p) : c \in Entities(current)}

\* _match_key: the same recurring cost in the same period, or the same bill.
Matches(x, y) ==
    /\ x.recurring = y.recurring
    /\ IF x.recurring = None THEN x.obligation = y.obligation
                             ELSE PeriodFor(x.due) = PeriodFor(y.due)

\* _obligation_rows with supersede_expected: a bill replaces the forecast that
\* it matches, and of several bills that match, the last one counts.
ObligationRows(D, K, t) ==
    LET raised == {e \in K : e.type = "raised" /\ PeriodFor(e.due) \in Window(K, t)}
        last == {e \in raised : \A f \in raised : Before(e, f) => ~Matches(e, f)}
        expected == {x \in UNION {Expected(D, p) : p \in Window(K, t)} :
                        \A e \in last : ~Matches(x, e)}
    IN  {Row(K, "EXPECTED", x) : x \in expected} \cup {Row(K, "RAISED", e) : e \in last}

-----------------------------------------------------------------------------
(* Step 5: the statement cycles of every account.                          *)

\* _account_delta: the signed effect of an event on an account's balance.
AccountDelta(e, a) ==
    CASE e.type \in {"income", "gift", "opening", "earned"} ->
            IF e.account = a THEN e.amount ELSE 0
      [] e.type \in {"expense", "paid", "charged"} -> IF e.account = a THEN -e.amount ELSE 0
      [] e.type = "transfer" ->
            IF e.account = a THEN -e.amount ELSE IF e.into = a THEN e.amount ELSE 0
      [] e.type \in {"raised", "drawn"} -> 0

\* Either type of interest may name either kind of account.
RecordsInterest(e, a) == e.type \in {"charged", "earned"} /\ e.account = a

\* The ledger as the fold of one account's cycles reads it.
AccountView(K, a) ==
    {[id |-> e.id, date |-> e.date, cycle |-> e.cycle,
      type |-> IF RecordsInterest(e, a) THEN e.type ELSE "movement",
      amount |-> IF RecordsInterest(e, a) THEN e.amount ELSE AccountDelta(e, a)] :
        e \in {f \in K : RecordsInterest(f, a) \/ AccountDelta(f, a) # 0}}

AccountStatements(D, K, a, t) ==
    FoldCycles(VersionsOf(D.accounts, a), AccountView(K, a), AccountAt(D, a, t),
               BuildCycles(AccountAt(D, a, t), FirstDate(K, t), t))

\* _statement_cycles: the cycles of every account, each named for a period.
StatementRow(a, p, cycle) ==
    [account |-> a, period |-> p, start |-> cycle.start, end |-> cycle.end,
     close |-> cycle.close, interest |-> cycle.interest, isEstimate |-> cycle.isEstimate]
StatementRows(a, cycles) == {StatementRow(a, p, cycles[p]) : p \in DOMAIN cycles}
Statements(D, K, t) ==
    UNION {StatementRows(a, AccountStatements(D, K, a, t)) : a \in Entities(D.accounts)}

\* The period in which a cycle is cut.
ClosePeriod(cycle) == PeriodFor(cycle.end - 1)

-----------------------------------------------------------------------------
(* Step 6: periods.                                                        *)

\* Mutant: a card's purchases count when made, whatever its mode.
SpendingAlwaysAtPurchase(D, K, statements, p) ==
    Amounts(Of(K, "expense", p))
    + Amounts({e \in Of(K, "transfer", p) :
                  Timing(D, e.into, e.date) = "AT_STATEMENT_PAYMENT"})

\* _spend_pairs: purchases when made, unless on a card that counts its payments
\* instead; those payments; and the interest of a card that does not.
Spending(D, K, statements, p) ==
    LET purchases == {e \in Of(K, "expense", p) :
                        Timing(D, e.account, e.date) # "AT_STATEMENT_PAYMENT"}
        payments == {e \in Of(K, "transfer", p) :
                        Timing(D, e.into, e.date) = "AT_STATEMENT_PAYMENT"}
        bearing == {c \in statements : /\ ClosePeriod(c) = p
                                       /\ Timing(D, c.account, c.start) = "AT_PURCHASE"}
    IN  Amounts(purchases) + Amounts(payments)
        + MapThenSumSet(LAMBDA c : c.interest, bearing)

\* _build_period.
Period(D, K, t, rows, statements, p) ==
    LET income == Amounts(Of(K, "income", p))
        gifts == Amounts(Of(K, "gift", p))
        bills == {r \in rows : r.period = p}
        due == Amounts(bills)
        paid == MapThenSumSet(LAMBDA r : r.paid, bills)
        shares == AllocatePeriod(income + gifts, due, Policy(D, p).savings)
        drawn == Amounts(Of(K, "drawn", p))
        spent == Spending(D, K, statements, p)
    IN  [closed |-> EndExclusive(p) <= t,
         income |-> income, gifts |-> gifts, allocatable |-> income + gifts,
         due |-> due, paid |-> paid, outstanding |-> due - paid,
         savings |-> shares.savings, discretionary |-> shares.discretionary,
         drawn |-> drawn, spent |-> spent,
         remaining |-> shares.discretionary + drawn - spent]

-----------------------------------------------------------------------------
(* Step 7: balances, savings and warnings.                                 *)

\* Mutant: the period in progress transfers its allocation too.
ImpliedTransfersEarly(D, periods, t) ==
    IF None \in {FirstOfKind(D, "CHECKING", t), FirstOfKind(D, "SAVINGS", t)} THEN {}
    ELSE {[date |-> EndExclusive(p) - 1, amount |-> periods[p].savings,
           from |-> FirstOfKind(D, "CHECKING", t), into |-> FirstOfKind(D, "SAVINGS", t)] :
              p \in DOMAIN periods}

\* _implied_savings_transfers: a closed period moved its allocation on its last
\* day, from the first checking account to the first savings account.
ImpliedTransfers(D, periods, t) ==
    IF None \in {FirstOfKind(D, "CHECKING", t), FirstOfKind(D, "SAVINGS", t)} THEN {}
    ELSE {[date |-> EndExclusive(p) - 1, amount |-> periods[p].savings,
           from |-> FirstOfKind(D, "CHECKING", t), into |-> FirstOfKind(D, "SAVINGS", t)] :
              p \in {q \in DOMAIN periods : periods[q].closed /\ periods[q].savings # 0}}

ImpliedDelta(transfer, a) ==
    IF a = transfer.from THEN -transfer.amount
    ELSE IF a = transfer.into THEN transfer.amount ELSE 0

\* fold_account_balances and _build_balance, in the version of the read's date.
AccountRow(D, K, transfers, a, t) ==
    LET version == AccountAt(D, a, t)
        balance == MapThenSumSet(LAMBDA e : AccountDelta(e, a), K)
                   + MapThenSumSet(LAMBDA x : ImpliedDelta(x, a),
                                   {x \in transfers : x.date <= t})
    IN  [kind |-> version.kind, apr |-> version.apr, balance |-> balance,
         outstanding |-> IF IsLiability(version) THEN Abs(balance) ELSE None,
         interest |-> Amounts({e \in K : RecordsInterest(e, a)})]

\* What the ledger itself moved in or out of savings; draws are budgetary.
SavingsDelta(e, s) ==
    IF e.type \in {"opening", "earned", "transfer"} THEN AccountDelta(e, s) ELSE 0
SavingsMoved(K, s) == MapThenSumSet(LAMBDA e : SavingsDelta(e, s), K)
Allocated(periods, P) == MapThenSumSet(LAMBDA p : periods[p].savings, P)

\* _savings_summary, of savings account s or of none.
SavingsSummary(K, periods, s) ==
    LET posted == {p \in DOMAIN periods : periods[p].closed}
        drawn == Amounts({e \in K : e.type = "drawn"})
    IN  [balance |-> SavingsMoved(K, s) + Allocated(periods, posted) - drawn,
         allocated |-> Allocated(periods, posted), drawn |-> drawn,
         interest |-> Amounts({e \in K : e.type = "earned" /\ e.account = s}),
         pending |-> Allocated(periods, DOMAIN periods \ posted)]

\* Mutant: a draw is judged alone.
AvailableToAnyDraw(K, periods, s, e) ==
    SavingsMoved({f \in K : f.date <= e.date}, s)
    + Allocated(periods, {p \in DOMAIN periods : EndExclusive(p) <= e.date + 1})

\* _draw_warnings: what savings held on the day of a draw, less earlier draws.
Available(K, periods, s, e) ==
    SavingsMoved({f \in K : f.date <= e.date}, s)
    + Allocated(periods, {p \in DOMAIN periods : EndExclusive(p) <= e.date + 1})
    - Amounts({f \in K : f.type = "drawn" /\ Before(f, e)})

DrawsBeyond(K, periods, s) ==
    {e \in K : e.type = "drawn" /\ e.amount > Available(K, periods, s, e)}

\* Mutant: whoever names an expected bill named a bill.
OrphansOfNoForecast(K, rows) ==
    {e \in K : /\ e.type = "paid" /\ e.obligation[2] \notin PeriodIds
               /\ \A f \in K : f.type = "raised" => f.obligation # e.obligation}

\* PAYMENT_WITHOUT_OBLIGATION: neither a row nor any known bill has its name.
Orphans(K, rows) ==
    {e \in K : /\ e.type = "paid"
               /\ \A r \in rows : r.obligation # e.obligation
               /\ \A f \in K : f.type = "raised" => f.obligation # e.obligation}

\* Mutant: a bill that was paid in part is not past due.
PastDueIfUntouched(rows, t) == {r \in rows : r.due < t /\ r.status = "UNPAID"}

\* OBLIGATION_PAST_DUE_UNPAID.
PastDue(rows, t) == {r \in rows : r.due < t /\ r.status \in {"UNPAID", "PARTIALLY_PAID"}}

\* _build_warnings: what each code is raised for.
Warnings(K, periods, rows, accounts, statements, s, t) ==
    [NEGATIVE_ALLOCATION |->
        {p \in DOMAIN periods : periods[p].savings < 0 \/ periods[p].discretionary < 0},
     OBLIGATION_OVERPAID |-> {r \in rows : r.status = "OVERPAID"},
     OBLIGATION_PAST_DUE_UNPAID |-> PastDue(rows, t),
     SAVINGS_DRAW_EXCEEDS_BALANCE |-> DrawsBeyond(K, periods, s),
     PAYMENT_WITHOUT_OBLIGATION |-> Orphans(K, rows),
     ESTIMATED_INTEREST |-> {c \in statements : c.isEstimate /\ c.interest # 0},
     CHECKING_OVERDRAWN |->
        {a \in DOMAIN accounts : accounts[a].kind = "CHECKING" /\ accounts[a].balance < 0}]

-----------------------------------------------------------------------------
(* project: each step on the results of the ones before.                   *)

\* Step 7: what there is to tell; s is the first savings account, or none.
StateOf(K, t, rows, statements, periods, accounts, s) ==
    [asOf |-> t, periods |-> periods, rows |-> rows, accounts |-> accounts,
     statements |-> statements, savings |-> SavingsSummary(K, periods, s),
     warnings |-> Warnings(K, periods, rows, accounts, statements, s, t)]

AccountRows(D, K, transfers, t) ==
    [a \in Entities(D.accounts) |-> AccountRow(D, K, transfers, a, t)]

WithBalances(D, K, t, rows, statements, periods) ==
    StateOf(K, t, rows, statements, periods,
            AccountRows(D, K, ImpliedTransfers(D, periods, t), t), FirstOfKind(D, "SAVINGS", t))

\* Step 6.
WithPeriods(D, K, t, rows, statements) ==
    WithBalances(D, K, t, rows, statements,
                 [p \in Window(K, t) |-> Period(D, K, t, rows, statements, p)])

\* Steps 4 and 5.
FoldLedger(D, K, t) == WithPeriods(D, K, t, ObligationRows(D, K, t), Statements(D, K, t))

\* The State of ledger L under definitions D, as of t.
Project(L, D, t) == FoldLedger(D, Known(Surviving(L), t), t)
=============================================================================
