-------------------------- MODULE StatementCycles --------------------------
(***************************************************************************)
(* The statement cycles of one account in a ledger that changes.  The fold  *)
(* runs again on every read, over whatever the ledger and the account's     *)
(* versions hold by then: `shown` is what the latest read answered.         *)
(***************************************************************************)
EXTENDS CycleFold

CONSTANTS
    Accounts,    \* first versions an account may have
    Candidates,  \* events that may be recorded
    Edits,       \* [from, apr]: new rates the user may enter
    FirstRead,   \* the date of the first read
    MaxChanges   \* bound on recorded events and edits together

\* A movement of this account's balance, recorded interest (which names the
\* cycle it is the interest of; either type may name either kind of account), or
\* an event of another account, which counts for the genesis alone.
Events == [type: {"movement", "charged", "earned", "foreign"}, date: Days, amount: Int,
           cycle: PeriodIds \cup {None}]

ASSUME NoneIsAbsent == None \notin Int
ASSUME AccountsAreTyped == Accounts \subseteq Versions

\* What build_statement_cycles requires of a card.  No write asks for the day; until
\* it is entered, every read fails.
ASSUME CardsDeclareTheirCloseDay ==
    \A a \in Accounts : a.kind = "CREDIT_CARD" => a.closeDay # None

ASSUME CandidatesAreTyped == Candidates \subseteq Events
ASSUME EditsAreTyped == Edits \subseteq [from: Days, apr: Nat]
ASSUME FirstReadIsOnCalendar == FirstRead \in MonthStart[1] .. MonthStart[Months] - 1

VARIABLES
    events,    \* the stored events that are not voided
    versions,  \* the versions of the account
    asOf,      \* the date of the latest read
    shown      \* the statements it answered, a function on the cycles' periods

vars == <<events, versions, asOf, shown>>

-----------------------------------------------------------------------------
(* domain.projection                                                       *)

\* _genesis: the earliest event of the whole ledger, the read's date without one.
Genesis(K, t) == IF K = {} THEN t ELSE Min({e.date : e \in K})

\* The account as of the read decides the shape of the cycles.
Cycles(E, V, t) == BuildCycles(Account(V, t), Genesis(Known(E, t), t), t)
Statements(E, V, t) == FoldCycles(V, Known(E, t), Account(V, t), Cycles(E, V, t))

-----------------------------------------------------------------------------
Changes == Cardinality(events) + Cardinality(versions) - 1

\* Every step ends in a read.
Read == shown' = Statements(events', versions', asOf')

Init ==
    /\ events = {}
    /\ \E a \in Accounts : versions = {a}
    /\ asOf = FirstRead
    /\ shown = Statements(events, versions, asOf)

\* An event is recorded, backdated or dated ahead.  The order of two interest
\* events of one cycle on one date, which recorded_at decides, is left out.
Record ==
    /\ Changes < MaxChanges
    /\ \E e \in Candidates \ events :
           /\ IsInterest(e) => \A f \in Pins(events, e.cycle) : f.date # e.date
           /\ events' = events \cup {e}
    /\ UNCHANGED <<versions, asOf>>
    /\ Read

\* An event is voided, at whatever date.
Void ==
    /\ \E e \in events : events' = events \ {e}
    /\ UNCHANGED <<versions, asOf>>
    /\ Read

\* A new rate: the open version is closed where its successor begins.
EditRate ==
    /\ Changes < MaxChanges
    /\ \E v \in versions, new \in Edits :
           /\ v.to = None /\ v.from < new.from
           /\ versions' = (versions \ {v}) \cup
                  {[v EXCEPT !.to = new.from], [v EXCEPT !.from = new.from, !.apr = new.apr]}
    /\ UNCHANGED <<events, asOf>>
    /\ Read

\* A read on a later date.  The month after the read's is still on the calendar.
Advance ==
    /\ asOf + 1 < MonthStart[Months]
    /\ asOf' = asOf + 1
    /\ UNCHANGED <<events, versions>>
    /\ Read

Next == Record \/ Void \/ EditRate \/ Advance

Spec == Init /\ [][Next]_vars

-----------------------------------------------------------------------------
\* Hypothesis: the account begins by the first event and the first read, and is
\* not closed.  A cycle that starts before the account falls back on the version
\* of the read's date.
AccountsBeginFirst ==
    \A a \in Accounts : /\ a.to = None /\ a.from <= FirstRead
                        /\ \A e \in Candidates : a.from <= e.date

-----------------------------------------------------------------------------
(* Properties.                                                             *)

\* build_statement_cycles: the cycles of a read cover the days from the genesis
\* to the read's date, each once, in the order of their periods; none is empty,
\* and each closes in the month it is named after.
Tiles(cycles, first, last) ==
    /\ \A d \in first .. last : \E p \in DOMAIN cycles : cycles[p].start <= d /\ d < cycles[p].end
    /\ \A p \in DOMAIN cycles :
          /\ first <= cycles[p].start /\ cycles[p].start < cycles[p].end
          /\ cycles[p].end <= last + 1 /\ cycles[p].end <= EndExclusive(p)
    /\ \A p, q \in DOMAIN cycles : p < q => cycles[p].end <= cycles[q].start
CyclesTile == Tiles(Cycles(events, versions, asOf), Genesis(Known(events, asOf), asOf), asOf)

\* fold_statement_cycles: one statement opens where the last one closed.  What
\* the balance gains in between is what moved then and the interest that was
\* estimated; recorded interest is never counted a second time.
InterestIsCountedOnce ==
    \A p \in DOMAIN shown : p - 1 \in DOMAIN shown =>
        LET last == shown[p - 1]
            account == Account(versions, asOf)
            moved == {e \in Known(events, asOf) : last.end <= e.date /\ e.date < shown[p].end}
            effect == IF IsLiability(account) THEN -last.interest ELSE last.interest
        IN  shown[p].close - last.close
                = Moved(moved) + (IF last.isEstimate THEN effect ELSE 0)

\* The facts that a step makes known to the reader, or takes away.
SymmetricDifference(K, L) == (K \ L) \cup (L \ K)
Changed == SymmetricDifference(Known(events, asOf), Known(events', asOf'))

\* PLAN.md 7.3: "actual beats forecast".  Once the interest of a cycle is
\* recorded, nothing but another record for that cycle moves it: no backdated
\* movement, void, payment, rate edit or later read.
PinnedInterestStands ==
    [][\A p \in DOMAIN shown \cap DOMAIN shown' :
          /\ ~shown[p].isEstimate
          /\ \A e \in Changed : IsInterest(e) => e.cycle # p
          => /\ ~shown'[p].isEstimate
             /\ shown'[p].interest = shown[p].interest]_vars

\* What may still move a statement after its close: a fact dated before it,
\* interest recorded for it or an earlier cycle, or a payment within the window
\* of the statement before it, which decides its grace.
Touches(e, p) ==
    LET a == CycleVersion(versions, shown[p - 1], Account(versions, asOf))
    IN  \/ e.date < shown[p].end
        \/ IsInterest(e) /\ e.cycle <= p
        \/ /\ p - 1 \in DOMAIN shown /\ a.dueDay # None
           /\ e.date <= DueDate(shown[p - 1].end - 1, a.dueDay)

\* A closed statement does not change by later facts or later reads: not its
\* dates, its balance, its interest or its grace.
ClosedStatementsStand ==
    [][versions' = versions =>
          \A p \in DOMAIN shown :
              /\ Known(events, asOf) # {}
              /\ shown[p].end = CycleEnd(Account(versions, asOf), p)
              /\ \A e \in Changed : ~Touches(e, p)
              => /\ p \in DOMAIN shown'
                 /\ \A field \in {"start", "end", "close", "interest", "graced"} :
                       shown'[p][field] = shown[p][field]]_vars

\* On a card, recording money paid in never costs: no estimate of any cycle
\* rises, and no statement that was paid in full ceases to be.
PaymentsNeverCost ==
    [][\A e \in events' \ events :
          /\ e.type = "movement" /\ e.amount > 0
          /\ \A v \in versions : v.kind = "CREDIT_CARD" /\ v.dueDay # None
          => \A p \in DOMAIN shown \cap DOMAIN shown' :
                /\ shown'[p].isEstimate => shown'[p].interest <= shown[p].interest
                /\ shown[p].paid => shown'[p].paid]_vars

\* PLAN.md 7.4: a new rate applies from the first cycle that starts under it;
\* the interest of cycles that started before never moves.
RateEditsKeepThePast ==
    [][\A new \in versions' \ versions, p \in DOMAIN shown :
          shown[p].start < new.from /\ new.to = None
          => shown'[p].interest = shown[p].interest]_vars
=============================================================================
