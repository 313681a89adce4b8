----------------------------- MODULE Household -----------------------------
(***************************************************************************)
(* A household's ledger and definitions as they grow, read after every      *)
(* change and between two: `shown` is the State of the latest read, as of   *)
(* whatever date the reader asks for.  Events arrive in any order of their  *)
(* dates; definitions are superseded, never rewritten.                      *)
(***************************************************************************)
EXTENDS Reads

CONSTANTS
    Homes,      \* definitions to begin with: [policies, costs, accounts]
    Candidates, \* events that may be recorded, each with its id
    Edits,      \* [kind, closeAt, version]: versions that may be created
    Windows,    \* the windows a chart is asked for
    VoidDates,  \* the dates a void may bear
    MaxChanges  \* bound on recorded events, voids and versions together

ASSUME CandidatesAreIdentified ==
    \A e, f \in Candidates : e.id \in 1 .. 98 /\ (e.id = f.id => e = f)

\* A void bears neither an amount nor an account; every other event has one of
\* these types.  Money moves from or to an account, or between two (account_id,
\* TRANSFER_SAME_ACCOUNT); a bill and a draw move none.  The calendar is long
\* enough for every date the instance uses.
EventTypes == {"income", "gift", "opening", "earned", "expense", "paid", "charged",
               "transfer", "raised", "drawn"}

ASSUME CandidatesAreEvents ==
    \A e \in Candidates : /\ e.type \in EventTypes
                          /\ e.date \in Days /\ e.amount \in Int
                          /\ e.type = "raised" => e.due \in Days
                          /\ e.type \in {"income", "gift", "opening", "earned", "expense",
                                          "paid", "charged", "transfer"} => e.account # None
                          /\ e.type = "transfer" => e.into \notin {None, e.account}

DefinitionKinds == {"policies", "costs", "accounts"}

\* What the DTOs and the schema hold of a version, whatever its kind, and what
\* build_statement_cycles requires of a card: reads without a close day fail.
IsDefinition(kind, v) ==
    /\ {"entity", "from", "to"} \subseteq DOMAIN v
    /\ v.from \in Days /\ (v.to = None \/ v.to \in Int)
    /\ kind = "policies" => "savings" \in DOMAIN v /\ v.savings \in 0 .. FullBps
    /\ kind = "costs" => /\ {"amount", "dueDay", "payee", "category"} \subseteq DOMAIN v
                         /\ v.amount \in Int /\ v.dueDay \in 1 .. 31 /\ v.entity # None
    /\ kind = "accounts" => /\ {"kind", "apr", "closeDay", "timing"} \subseteq DOMAIN v
                            /\ v.entity \in Int /\ v.apr \in Nat
                            /\ v.timing \in {"AT_PURCHASE", "AT_STATEMENT_PAYMENT"}
                            /\ v.closeDay \in (1 .. 31) \cup {None}
                            /\ v.kind = "CREDIT_CARD" => v.closeDay # None

AreDefinitions(D) ==
    /\ DOMAIN D = DefinitionKinds
    /\ \A k \in DefinitionKinds : IsFiniteSet(D[k]) /\ \A v \in D[k] : IsDefinition(k, v)

ASSUME HomesAreDefinitions == \A D \in Homes : AreDefinitions(D)

ASSUME EditsAreDefinitions ==
    \A edit \in Edits : /\ edit.kind \in DefinitionKinds /\ IsDefinition(edit.kind, edit.version)
                        /\ edit.closeAt = None \/ edit.closeAt \in Int

VARIABLES
    ledger,       \* the stored events, voids included
    definitions,  \* all versions of all definitions
    asOf,         \* the date of the latest read
    listed,       \* the ledger as that read listed it
    shown         \* its answer

vars == <<ledger, definitions, asOf, listed, shown>>

Changes == Cardinality(ledger) + MapThenSumSet(LAMBDA k : Cardinality(definitions[k]), DefinitionKinds)

\* Dates a reader may ask for: the month after is still on the calendar.
ReadDates == MonthStart[1] .. MonthStart[Months] - 1

\* check_references: the accounts of an event are defined, by whatever version,
\* and a payment names an obligation that exists once the payment is in the
\* ledger, on the later of its date and today.
AccountsOf(e) == {e.account, e.into} \ {None}
KnownAccounts(D, e) == AccountsOf(e) \subseteq Entities(D.accounts)
KnownObligation(L, D, e, today) ==
    LET horizon == Larger(today, e.date)
    IN  \E r \in ObligationRows(D, Known(Surviving(L \cup {e}), horizon), horizon) :
           r.obligation = e.obligation
CanRecord(L, D, e) ==
    /\ e \notin L
    /\ KnownAccounts(D, e)
    /\ e.type = "paid" => \E today \in ReadDates : KnownObligation(L, D, e, today)

\* An EventVoided names any stored event, or one that is not there.
VoidOf(id, d) == [id |-> 100 * id + d + 1, type |-> "void", target |-> id, date |-> d]
Nowhere == 99

\* create_definition_version: the open version of the entity is closed if the
\* body says so, and the new one overlaps no version that is left.
Overlapping(v, w) == /\ v.to = None \/ w.from < v.to
                     /\ w.to = None \/ v.from < w.to
AreApart(V) == \A v, w \in V : v.entity = w.entity /\ v # w => ~Overlapping(v, w)
ASSUME HomesDoNotOverlap == \A D \in Homes : \A k \in DefinitionKinds : AreApart(D[k])

Closed(V, edit) ==
    {v \in V : v.entity = edit.version.entity /\ v.to = None /\ edit.closeAt # None}
Edited(V, edit) ==
    (V \ Closed(V, edit)) \cup {[v EXCEPT !.to = edit.closeAt] : v \in Closed(V, edit)}
        \cup {edit.version}
CanEdit(V, edit) ==
    /\ edit.version \notin V
    /\ edit.closeAt # None => Closed(V, edit) # {}
    /\ \A v \in Closed(V, edit) : v.from < edit.closeAt
    /\ \A v, w \in VersionsOf(Edited(V, edit), edit.version.entity) :
          v # w => ~Overlapping(v, w)

-----------------------------------------------------------------------------
Database == [ledger |-> ledger, definitions |-> definitions]

ReadBetween(early, late) ==
    LET load == LoadState(early, late)
    IN  /\ listed' = load.ledger
        /\ shown' = Project(load.ledger, load.definitions, asOf')
Read == ReadBetween(Database', Database')

Init ==
    /\ ledger = {}
    /\ definitions \in Homes
    /\ asOf \in ReadDates
    /\ listed = {}
    /\ shown = Project(ledger, definitions, asOf)

\* An event is recorded, on any day, backdated or dated ahead.
Record ==
    /\ Changes < MaxChanges
    /\ \E e \in Candidates : CanRecord(ledger, definitions, e) /\ ledger' = ledger \cup {e}
    /\ UNCHANGED <<definitions, asOf>>
    /\ Read

\* void_event, or an EventVoided posted to /events: that one may name an event
\* that is voided already, a void, or none.  Reads before, on and after its date
\* follow.
Void ==
    /\ Changes < MaxChanges
    /\ \E id \in {e.id : e \in ledger} \cup {Nowhere}, d \in VoidDates :
           /\ VoidOf(id, d) \notin ledger
           /\ ledger' = ledger \cup {VoidOf(id, d)}
    /\ UNCHANGED <<definitions, asOf>>
    /\ Read

EditDefinition ==
    /\ Changes < MaxChanges
    /\ \E edit \in Edits :
           /\ CanEdit(definitions[edit.kind], edit)
           /\ definitions' = [definitions EXCEPT ![edit.kind] = Edited(@, edit)]
    /\ UNCHANGED <<ledger, asOf>>
    /\ Read

\* A definition and then an event that may rest on it are committed while one
\* read lists the ledger and loads the definitions.
ReadWhileWriting ==
    /\ Changes + 1 < MaxChanges
    /\ \E edit \in Edits, e \in Candidates :
           /\ CanEdit(definitions[edit.kind], edit)
           /\ definitions' = [definitions EXCEPT ![edit.kind] = Edited(@, edit)]
           /\ CanRecord(ledger, definitions', e)
           /\ ledger' = ledger \cup {e}
    /\ UNCHANGED asOf
    /\ ReadBetween(Database, Database')

\* A read as of another date, earlier or later.
ReadAsOf ==
    /\ asOf' \in ReadDates \ {asOf}
    /\ UNCHANGED <<ledger, definitions>>
    /\ Read

Next == Record \/ Void \/ EditDefinition \/ ReadWhileWriting \/ ReadAsOf

Spec == Init /\ [][Next]_vars

-----------------------------------------------------------------------------
\* Hypothesis: no bill, forecast or payment is of a negative amount.  The fields
\* say "> 0"; no validator holds them to it.
BillsArePositive ==
    /\ \A e \in Candidates : e.type \in {"raised", "paid"} => e.amount >= 0
    /\ \A D \in Homes : \A v \in D.costs : v.amount >= 0
    /\ \A edit \in Edits : edit.kind = "costs" => edit.version.amount >= 0

\* Hypothesis: a bill of no recurring cost keeps its period when it is raised
\* again: the id of an obligation is the client's, and the later bill counts.
OneOffsKeepTheirPeriod ==
    \A e, f \in Candidates :
        /\ e.type = "raised" /\ f.type = "raised"
        /\ e.recurring = None /\ f.recurring = None /\ e.obligation = f.obligation
        => PeriodFor(e.due) = PeriodFor(f.due)

\* Hypothesis: no two policies begin on one day.  Of several, the code prefers
\* the one recorded last, of which the model says nothing.
PolicyDrafts == {edit.version : edit \in {x \in Edits : x.kind = "policies"}}
BeginApart(V) == \A v, w \in V : v.from = w.from => v.entity = w.entity
PoliciesBeginApart == \A D \in Homes : BeginApart(D.policies \cup PolicyDrafts)

\* Hypothesis: a card stays a card, and of one mode.  A purchase counts in the mode
\* of its day and the payment of it in that of its own, so a switch in between
\* counts it twice, or never (mode_switch).
AccountDrafts == {edit.version : edit \in {x \in Edits : x.kind = "accounts"}}
KeepMode(V) ==
    \A v, w \in V : v.entity = w.entity /\ v.kind = "CREDIT_CARD"
                      => w.kind = v.kind /\ w.timing = v.timing
CardsKeepTheirMode == \A D \in Homes : KeepMode(D.accounts \cup AccountDrafts)

\* Hypothesis: interest is charged to cards and earned on other accounts, and a card
\* that counts its payments bears purchases and interest alone: a bill paid with it
\* is counted as a bill, and as spent when the card is paid (card_bill).
Cards(V) == {v \in V : v.kind = "CREDIT_CARD"}
OnlySpend(V) ==
    LET deferring == {v \in Cards(V) : v.timing = "AT_STATEMENT_PAYMENT"}
    IN  \A e \in Candidates :
           /\ e.type = "charged" => e.account \notin Entities(V) \ Entities(Cards(V))
           /\ e.type = "earned" => e.account \notin Entities(Cards(V))
           /\ e.type \notin {"expense", "charged"} => e.account \notin Entities(deferring)
CardsOnlySpend == \A D \in Homes : OnlySpend(D.accounts \cup AccountDrafts)

-----------------------------------------------------------------------------
(* Properties.                                                             *)

Facts == Known(Surviving(listed), asOf)
Changed == (Facts \ Facts') \cup (Facts' \ Facts)

\* The dates from which a step changes what is in force: a version begins at its
\* start, unless it is an older one that is closed now, and leaves off at its end.
Begun(V, W) == {v \in W \ V : [v EXCEPT !.to = None] \notin V}
Touched(D, E) ==
    UNION {{v.from : v \in Begun(D[k], E[k])} \cup ({v.to : v \in E[k] \ D[k]} \ {None}) :
              k \in DefinitionKinds}

\* What the buckets of a chart load: the event committed since the ledger was
\* listed is found by the buckets from `cut` on.
LoadsUpto(cut) ==
    [p \in PeriodIds |-> [ledger |-> IF p < cut THEN listed ELSE ledger,
                          definitions |-> definitions]]
ChartFrom(cut, metric, grain, group, window) ==
    BuildPoints(shown, LoadsUpto(cut),
                [metric |-> metric, grain |-> grain, group |-> group, window |-> window])
Chart(metric, grain, group, window) == ChartFrom(1, metric, grain, group, window)
Always == [from |-> None, to |-> None]
\* The sum of a chart's points, and of those whose bucket is in B.
SumOfAll(points) == MapThenSumSet(LAMBDA k : points[k], DOMAIN points)
SumIn(points, B) ==
    MapThenSumSet(LAMBDA k : points[k], {k \in DOMAIN points : k[1] \in B})

\* PLAN.md 1: an outflow affects the budget exactly once.  Once the cards are
\* settled and bear no estimate, what the periods counted as spent is what was
\* spent and charged, on whatever account and in either mode of the card.
CardsAreSettled ==
    \A a \in DOMAIN shown.accounts : shown.accounts[a].kind = "CREDIT_CARD" =>
        /\ shown.accounts[a].balance = 0
        /\ \A c \in shown.statements :
              c.account = a => c \notin shown.warnings.ESTIMATED_INTEREST
\* Interest is charged for a cycle of its account, and once.
ChargesPinCycles ==
    \A e \in Facts : e.type = "charged" =>
        /\ \E c \in shown.statements : c.account = e.account /\ c.period = e.cycle
        /\ \A f \in Facts :
              f.type = "charged" /\ f.account = e.account /\ f.cycle = e.cycle => f = e
RecognizedOnce ==
    CardsAreSettled /\ ChargesPinCycles =>
        MapThenSumSet(LAMBDA p : shown.periods[p].spent, DOMAIN shown.periods)
            = Amounts({e \in Facts : e.type \in {"expense", "charged"}})

\* _savings_summary: the budget's view of savings is the first savings account
\* less the draws, on every day of a period and whichever account comes first,
\* as long as there is a checking account and nothing is paid into or out of
\* that account but by transfers.
SavingsAgree ==
    LET s == FirstOfKind(definitions, "SAVINGS", asOf)
    IN  /\ s # None
        /\ FirstOfKind(definitions, "CHECKING", asOf) # None
        /\ \A e \in Facts :
              e.type \in {"income", "gift", "expense", "paid", "charged"} => e.account # s
        => shown.accounts[s].balance = shown.savings.balance + shown.savings.drawn

\* PLAN.md 6.2: a draw beyond what savings held is warned of.  Before the last
\* day of a period, the latest draw of the day is warned of exactly if the
\* balance that the same read shows is below zero.
DrawsAreJudgedByTheBalance ==
    \A e \in Facts :
        /\ e.type = "drawn" /\ e.date = asOf
        /\ asOf + 1 # EndExclusive(PeriodFor(asOf))
        /\ \A f \in Facts : f.type = "drawn" => f = e \/ Before(f, e)
        => (e \in shown.warnings.SAVINGS_DRAW_EXCEEDS_BALANCE <=> shown.savings.balance < 0)

\* _obligation_rows and PAYMENT_WITHOUT_OBLIGATION: a payment counts against a
\* bill shown, or is warned of, or its bill is due after the last period shown, or
\* a later bill for the same cost and period took the place of its bill.
NothingPaidIsLost ==
    \A e \in Facts : e.type = "paid" =>
        \/ e \in shown.warnings.PAYMENT_WITHOUT_OBLIGATION
        \/ \E r \in shown.rows : r.obligation = e.obligation /\ r.paid >= e.amount
        \/ \E f \in Facts : /\ f.type = "raised" /\ f.obligation = e.obligation
                            /\ \/ PeriodFor(f.due) > PeriodFor(asOf)
                               \/ \E g \in Facts : /\ g.type = "raised"
                                                   /\ Before(f, g) /\ Matches(f, g)

\* fixed_outstanding nets the bills of a period, so one overpaid may hide one
\* unpaid: the detail of a period that is over warns of either all the same.
ArrearsAreWarnedOf ==
    \A r \in shown.rows : shown.periods[r.period].closed =>
        LET warnings == PeriodDetail(shown, r.period).warnings
        IN  /\ r.paid < r.amount => "OBLIGATION_PAST_DUE_UNPAID" \in warnings
            /\ r.paid > r.amount => "OBLIGATION_OVERPAID" \in warnings

\* api.charts: the points of a fixed-cost chart by category or by payee add up
\* to the period's own figure, in whatever window they are asked for.
BreakdownsAddUp ==
    \A window \in Windows, metric \in FixedMetrics, group \in {"category", "payee"} :
        LET whole == Chart(metric, "period", "none", window)
            parts == Chart(metric, "period", group, window)
        IN  /\ \A k \in DOMAIN whole : SumIn(parts, {k[1]}) = whole[k]
            /\ SumIn(parts, PeriodIds) = SumIn(whole, PeriodIds)

\* api.charts and _spend_pairs: interest is charted in the period whose spending
\* counts it, where every liability is and was a card that recognises purchases;
\* each cycle is charted once, whatever the grain and the grouping.
InterestIsChartedWhereItCounts ==
    /\ \A metric \in InterestMetrics, group \in {"none", "account"} :
          SumIn(Chart(metric, "period", group, Always), PeriodIds)
              = SumOfAll(Chart(metric, "cycle", "account", Always))
    /\ (\A v \in definitions.accounts : IsLiability(v) =>
            /\ v.kind = "CREDIT_CARD" /\ v.timing = "AT_PURCHASE"
            /\ \A w \in VersionsOf(definitions.accounts, v.entity) : w.kind = v.kind)
       => \A p \in DOMAIN shown.periods :
             shown.periods[p].spent
                 = Amounts(Of(Facts, "expense", p))
                   + SumIn(Chart("interest_charged", "period", "none", Always), {p})

\* api.charts, load_state: the net worth charted for a period is what the events
\* known at its close brought in, less what they took out.  Transfers between
\* accounts, implied ones included, move none of it; and no event is left out
\* because its account is missing from the answer, even if both were committed
\* while the read was under way.  A period that is over is charted from the ledger
\* that its own bucket found, whichever bucket was the first to find the event.
Worth(e) == CASE e.type \in {"income", "gift", "opening", "earned"} -> e.amount
              [] e.type \in {"expense", "paid", "charged"} -> -e.amount
              [] e.type \in {"transfer", "raised", "drawn"} -> 0
NetWorthIsExplained ==
    \A cut \in PeriodIds :
        LET points == ChartFrom(cut, "account_balance", "period", "none", Always)
            found(p) == IF p < cut \/ asOf < EndExclusive(p) THEN listed ELSE ledger
            facts(p) == {e \in Known(Surviving(found(p)), asOf) : e.date < EndExclusive(p)}
        IN  \A k \in DOMAIN points : points[k] = MapThenSumSet(Worth, facts(k[1]))

\* PLAN.md 6.3 and 8.3: a period's allocation depends on its own income, its own
\* bills, and the definitions in force as it starts.  No other event moves it,
\* nor a void of one, a later read, or a version that begins or ends after its
\* start.
AllocationIsLocal ==
    [][\A p \in DOMAIN shown.periods \cap DOMAIN shown'.periods :
          /\ \A e \in Changed :
                e.type \in {"income", "gift", "raised"} => PeriodFor(PeriodDate(e)) # p
          /\ \A d \in Touched(definitions, definitions') : Start(p) < d
          => \A field \in {"allocatable", "due", "savings", "discretionary"} :
                shown'.periods[p][field] = shown.periods[p][field]]_vars

\* project: asked again about the same day, it answers the same, whatever has
\* been recorded since with a later date, or entered of policies and costs.
\* (Voids excepted: they take effect whatever their date.)
ReadsAreReproducible ==
    [][/\ asOf' = asOf
       /\ \A e \in (listed \ listed') \cup (listed' \ listed) : e.type # "void" /\ asOf < e.date
       /\ definitions'.accounts = definitions.accounts
       /\ \A d \in Touched(definitions, definitions') : asOf < d
       => shown' = shown]_vars

\* PLAN.md 8.4: voiding is for good.  A void of a void, of an event that is voided
\* already or of nothing at all, which /events accepts, changes no answer.
VoidsAreFinal ==
    [][/\ asOf' = asOf /\ definitions' = definitions
       /\ \A v \in listed' \ listed :
             v.type = "void" /\ \A e \in Surviving(listed) : e.id # v.target
       => shown' = shown]_vars
=============================================================================
