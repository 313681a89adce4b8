-------------------------- MODULE HouseholdProofs --------------------------
(***************************************************************************)
(* What every read of a household shows, for every calendar, every ledger   *)
(* and every history of the definitions: arrears, orphaned payments, what    *)
(* savings hold, what counts as spent, and that voids are final.            *)
(***************************************************************************)
EXTENDS Household, FoldProofs

-----------------------------------------------------------------------------
(* The sums of the projection are sums over finite sets.                   *)

LEMMA AmountsIsSum ==
    ASSUME NEW K, IsFiniteSet(K)
    PROVE  Amounts(K) = SumFunctionOnSet([e \in K |-> e.amount], K)
<1>. DEFINE f == [e \in K |-> e.amount]
            Folds(g) == g = [s \in SUBSET K |->
                               IF s = {} THEN 0 ELSE Pick(s).amount + g[s \ {Pick(s)}]]
            h == CHOOSE g : Folds(g)
<1>1. ASSUME NEW s \in SUBSET K, s # {} PROVE f[Pick(s)] = Pick(s).amount
  BY <1>1, PickIsIn
<1>2. ASSUME NEW g PROVE Folds(g) <=> IsFold(g, f, K)
  <2>. HIDE DEF f
  <2>. QED  BY <1>1 DEF IsFold
<1>. HIDE DEF f
<1>3. \E g : Folds(g)  BY <1>2, FoldExists
<1>4. IsFold(h, f, K)  BY <1>2, <1>3
<1>5. Amounts(K) = h[K]  BY DEF Amounts, MapThenSumSet, MapThenFoldSet, Pick
<1>. HIDE DEF h
<1>. QED  BY <1>4, <1>5, FoldIsSum DEF f

LEMMA MovementsAreSummed ==
    ASSUME NEW K, NEW a, IsFiniteSet(K)
    PROVE  MapThenSumSet(LAMBDA e : AccountDelta(e, a), K) = SumFunctionOnSet([e \in K |-> AccountDelta(e, a)], K)
<1>. DEFINE f == [e \in K |-> AccountDelta(e, a)]
            Folds(g) == g = [s \in SUBSET K |->
                               IF s = {} THEN 0 ELSE AccountDelta(Pick(s), a) + g[s \ {Pick(s)}]]
            h == CHOOSE g : Folds(g)
<1>1. ASSUME NEW s \in SUBSET K, s # {} PROVE f[Pick(s)] = AccountDelta(Pick(s), a)
  BY <1>1, PickIsIn
<1>2. ASSUME NEW g PROVE Folds(g) <=> IsFold(g, f, K)
  <2>. HIDE DEF f
  <2>. QED  BY <1>1 DEF IsFold
<1>. HIDE DEF f
<1>3. \E g : Folds(g)  BY <1>2, FoldExists
<1>4. IsFold(h, f, K)  BY <1>2, <1>3
<1>5. MapThenSumSet(LAMBDA e : AccountDelta(e, a), K) = h[K]  BY DEF MapThenSumSet, MapThenFoldSet, Pick
<1>. HIDE DEF h
<1>. QED  BY <1>4, <1>5, FoldIsSum DEF f

LEMMA ImpliedAreSummed ==
    ASSUME NEW T, NEW a, IsFiniteSet(T)
    PROVE  MapThenSumSet(LAMBDA x : ImpliedDelta(x, a), T) = SumFunctionOnSet([x \in T |-> ImpliedDelta(x, a)], T)
<1>. DEFINE f == [x \in T |-> ImpliedDelta(x, a)]
            Folds(g) == g = [s \in SUBSET T |->
                               IF s = {} THEN 0 ELSE ImpliedDelta(Pick(s), a) + g[s \ {Pick(s)}]]
            h == CHOOSE g : Folds(g)
<1>1. ASSUME NEW s \in SUBSET T, s # {} PROVE f[Pick(s)] = ImpliedDelta(Pick(s), a)
  BY <1>1, PickIsIn
<1>2. ASSUME NEW g PROVE Folds(g) <=> IsFold(g, f, T)
  <2>. HIDE DEF f
  <2>. QED  BY <1>1 DEF IsFold
<1>. HIDE DEF f
<1>3. \E g : Folds(g)  BY <1>2, FoldExists
<1>4. IsFold(h, f, T)  BY <1>2, <1>3
<1>5. MapThenSumSet(LAMBDA x : ImpliedDelta(x, a), T) = h[T]  BY DEF MapThenSumSet, MapThenFoldSet, Pick
<1>. HIDE DEF h
<1>. QED  BY <1>4, <1>5, FoldIsSum DEF f

LEMMA SavingsAreSummed ==
    ASSUME NEW K, NEW a, IsFiniteSet(K)
    PROVE  SavingsMoved(K, a) = SumFunctionOnSet([e \in K |-> SavingsDelta(e, a)], K)
<1>. DEFINE f == [e \in K |-> SavingsDelta(e, a)]
            Folds(g) == g = [s \in SUBSET K |->
                               IF s = {} THEN 0 ELSE SavingsDelta(Pick(s), a) + g[s \ {Pick(s)}]]
            h == CHOOSE g : Folds(g)
<1>1. ASSUME NEW s \in SUBSET K, s # {} PROVE f[Pick(s)] = SavingsDelta(Pick(s), a)
  BY <1>1, PickIsIn
<1>2. ASSUME NEW g PROVE Folds(g) <=> IsFold(g, f, K)
  <2>. HIDE DEF f
  <2>. QED  BY <1>1 DEF IsFold
<1>. HIDE DEF f
<1>3. \E g : Folds(g)  BY <1>2, FoldExists
<1>4. IsFold(h, f, K)  BY <1>2, <1>3
<1>5. SavingsMoved(K, a) = h[K]  BY DEF SavingsMoved, MapThenSumSet, MapThenFoldSet, Pick
<1>. HIDE DEF h
<1>. QED  BY <1>4, <1>5, FoldIsSum DEF f

LEMMA AllocatedIsSum ==
    ASSUME NEW P, NEW periods, IsFiniteSet(P)
    PROVE  Allocated(periods, P) = SumFunctionOnSet([p \in P |-> periods[p].savings], P)
<1>. DEFINE f == [p \in P |-> periods[p].savings]
            Folds(g) == g = [s \in SUBSET P |->
                               IF s = {} THEN 0 ELSE periods[Pick(s)].savings + g[s \ {Pick(s)}]]
            h == CHOOSE g : Folds(g)
<1>1. ASSUME NEW s \in SUBSET P, s # {} PROVE f[Pick(s)] = periods[Pick(s)].savings
  BY <1>1, PickIsIn
<1>2. ASSUME NEW g PROVE Folds(g) <=> IsFold(g, f, P)
  <2>. HIDE DEF f
  <2>. QED  BY <1>1 DEF IsFold
<1>. HIDE DEF f
<1>3. \E g : Folds(g)  BY <1>2, FoldExists
<1>4. IsFold(h, f, P)  BY <1>2, <1>3
<1>5. Allocated(periods, P) = h[P]  BY DEF Allocated, MapThenSumSet, MapThenFoldSet, Pick
<1>. HIDE DEF h
<1>. QED  BY <1>4, <1>5, FoldIsSum DEF f

LEMMA AmountsAreInt ==
    ASSUME NEW K, IsFiniteSet(K), \A e \in K : e.amount \in Int
    PROVE  Amounts(K) \in Int
<1>. DEFINE f == [e \in K |-> e.amount]
<1>1. \A e \in K : f[e] \in Int  OBVIOUS
<1>. HIDE DEF f
<1>2. SumFunctionOnSet(f, K) \in Int  BY <1>1, SumIsInt
<1>. QED  BY <1>2, AmountsIsSum DEF f

\* What one event of many amounts to can be taken out of the sum.
LEMMA AmountsPeel ==
    ASSUME NEW K, IsFiniteSet(K), \A e \in K : e.amount \in Int, NEW x \in K
    PROVE  /\ Amounts(K) \in Int /\ Amounts(K \ {x}) \in Int
           /\ Amounts(K) = x.amount + Amounts(K \ {x})
<1>. DEFINE f == [e \in K |-> e.amount]
            R == K \ {x}
            k == [e \in R |-> e.amount]
<1>1. \A e \in K : f[e] \in Int  OBVIOUS
<1>2. IsFiniteSet(R) /\ \A e \in R : e.amount \in Int  BY FS_RemoveElement
<1>3. \A e \in R : f[e] = k[e]  OBVIOUS
<1>4. f[x] = x.amount  OBVIOUS
<1>5. /\ Amounts(K) = SumFunctionOnSet(f, K) /\ Amounts(R) = SumFunctionOnSet(k, R)
  BY <1>2, AmountsIsSum
<1>. HIDE DEF f, k
<1>6. SumFunctionOnSet(f, R) = SumFunctionOnSet(k, R)  BY <1>2, <1>3, SumsAgree
<1>7. SumFunctionOnSet(f, K) = f[x] + SumFunctionOnSet(f, R)  BY <1>1, SumPeels DEF IsSummed
<1>. QED  BY <1>2, <1>4, <1>5, <1>6, <1>7, AmountsAreInt

LEMMA AmountsAreNatural ==
    ASSUME NEW K, IsFiniteSet(K), \A e \in K : e.amount \in Nat
    PROVE  Amounts(K) \in Nat
<1>. DEFINE f == [e \in K |-> e.amount]
<1>1. \A e \in K : f[e] \in Nat  OBVIOUS
<1>. HIDE DEF f
<1>2. SumFunctionOnSet(f, K) \in Nat  BY <1>1, SumIsNatural
<1>. QED  BY <1>2, AmountsIsSum DEF f

-----------------------------------------------------------------------------
(* The calendar and the window of a read.                                  *)

LEMMA PeriodForIsUnique ==
    ASSUME NEW d \in Days, NEW p \in PeriodIds, Start(p) <= d, d < EndExclusive(p)
    PROVE  PeriodFor(d) = p
<1>. DEFINE q == PeriodFor(d)
<1>1. q \in PeriodIds /\ Start(q) <= d /\ d < EndExclusive(q)  BY PeriodForIsRight
<1>. HIDE DEF q
<1>2. ASSUME NEW x \in PeriodIds, NEW y \in PeriodIds, x < y
      PROVE  EndExclusive(x) <= Start(y)
  BY <1>2, CalendarIsTyped DEF PeriodIds, Start, EndExclusive
<1>3. \A x \in PeriodIds : Start(x) \in Int /\ EndExclusive(x) \in Int /\ x \in Int
  BY CalendarIsTyped DEF PeriodIds, Start, EndExclusive
<1>4. d \in Int  BY CalendarIsTyped DEF Days
<1>5. ~ (q < p)  BY <1>1, <1>2, <1>3, <1>4
<1>6. ~ (p < q)  BY <1>1, <1>2, <1>3, <1>4
<1>7. p = q  BY <1>1, <1>3, <1>5, <1>6
<1>. QED  BY <1>7 DEF q

LEMMA PeriodForIsMonotone ==
    ASSUME NEW d \in Days, NEW e \in Days, d <= e
    PROVE  PeriodFor(d) <= PeriodFor(e)
<1>. DEFINE p == PeriodFor(d)
            q == PeriodFor(e)
<1>1. /\ p \in PeriodIds /\ Start(p) <= d
      /\ q \in PeriodIds /\ e < EndExclusive(q)
  BY PeriodForIsRight
<1>. HIDE DEF p, q
<1>2. q < p => EndExclusive(q) <= Start(p)
  BY <1>1, CalendarIsTyped DEF PeriodIds, Start, EndExclusive
<1>3. Start(p) \in Int /\ EndExclusive(q) \in Int /\ p \in Int /\ q \in Int
  BY <1>1, CalendarIsTyped DEF PeriodIds, Start, EndExclusive
<1>4. d \in Int /\ e \in Int  BY CalendarIsTyped DEF Days
<1>5. p <= q  BY <1>1, <1>2, <1>3, <1>4
<1>. QED  BY <1>5 DEF p, q

\* The events of a read bear dates of the calendar.
Placed(K) == \A e \in K : PeriodDate(e) \in Days

\* The earliest date of a read: of an event, or that of the read itself.
LEMMA FirstDateIsRight ==
    ASSUME NEW K, Placed(K), NEW t \in Days
    PROVE  /\ FirstDate(K, t) \in Days /\ FirstDate(K, t) <= t
           /\ \A e \in K : PeriodDate(e) \in Days /\ FirstDate(K, t) <= PeriodDate(e)
           /\ Window(K, t) = PeriodFor(FirstDate(K, t)) .. PeriodFor(t)
<1>. DEFINE T == {t} \cup {PeriodDate(e) : e \in K}
            g == FirstDate(K, t)
<1>1. T \in SUBSET Days /\ T # {}  BY DEF Placed
<1>2. g = Min(T)  BY DEF FirstDate
<1>3. t \in T /\ \A e \in K : PeriodDate(e) \in T  OBVIOUS
<1>. HIDE DEF T
<1>4. T \in SUBSET Int /\ (\A y \in T : MonthStart[1] <= y) /\ MonthStart[1] \in Int
  BY <1>1, CalendarIsTyped DEF Days
<1>5. \E x \in T : \A y \in T : x <= y  BY <1>1, <1>4, LeastOf
<1>6. g \in T /\ \A y \in T : g <= y  BY <1>2, <1>5 DEF Min
<1>7. Window(K, t) = PeriodFor(g) .. PeriodFor(t)
  <2>1. Window(K, t) = PeriodsBetween(g, t)  BY DEF Window
  <2>. HIDE DEF g
  <2>2. g \in Int /\ t \in Int /\ g <= t  BY <1>3, <1>4, <1>6
  <2>. QED  BY <2>1, <2>2 DEF PeriodsBetween
<1>. HIDE DEF g
<1>. QED  BY <1>1, <1>3, <1>6, <1>7 DEF g

\* The window of a read runs from the month of the earliest event, whether due or
\* dated then, to that of the read.
LEMMA WindowIsRight ==
    ASSUME NEW K, Placed(K), NEW t \in Days
    PROVE  /\ Window(K, t) \subseteq PeriodIds
           /\ \A p \in Window(K, t) : p <= PeriodFor(t)
           /\ \A e \in K : PeriodFor(PeriodDate(e)) <= PeriodFor(t)
                             => PeriodFor(PeriodDate(e)) \in Window(K, t)
<1>. DEFINE g == FirstDate(K, t)
<1>1. /\ Window(K, t) = PeriodFor(g) .. PeriodFor(t) /\ g \in Days
      /\ \A e \in K : PeriodDate(e) \in Days /\ g <= PeriodDate(e)
  BY FirstDateIsRight
<1>. HIDE DEF g
<1>2. PeriodFor(g) \in PeriodIds /\ PeriodFor(t) \in PeriodIds  BY <1>1, PeriodForIsRight
<1>3. Window(K, t) \subseteq PeriodIds
  BY <1>1, <1>2, CalendarIsTyped DEF PeriodIds
<1>4. ASSUME NEW e \in K, PeriodFor(PeriodDate(e)) <= PeriodFor(t)
       PROVE  PeriodFor(PeriodDate(e)) \in Window(K, t)
  <2>. DEFINE d == PeriodDate(e)
  <2>1. d \in Days /\ g <= d  BY <1>1
  <2>. HIDE DEF d
  <2>2. PeriodFor(g) <= PeriodFor(d) /\ PeriodFor(d) \in PeriodIds
    BY <1>1, <1>2, <2>1, PeriodForIsMonotone, PeriodForIsRight
  <2>3. PeriodFor(d) <= PeriodFor(t)  BY <1>4 DEF d
  <2>4. PeriodFor(d) \in Window(K, t)
    BY <1>1, <1>2, <2>2, <2>3, CalendarIsTyped DEF PeriodIds
  <2>. QED  BY <2>4 DEF d
<1>5. \A p \in Window(K, t) : p <= PeriodFor(t)  BY <1>1, <1>2
<1>. QED  BY <1>3, <1>4, <1>5

-----------------------------------------------------------------------------
(* Behaviours.                                                             *)

\* What is shown is the projection of what the latest read listed, and of the
\* definitions of today: a read may miss the latest events, never a definition.
HouseInv ==
    /\ \A e \in ledger : e.type = "void" \/ e \in Candidates
    /\ IsFiniteSet(ledger) /\ listed \subseteq ledger
    /\ AreDefinitions(definitions)
    /\ asOf \in ReadDates
    /\ shown = Project(listed, definitions, asOf)

\* A definition is superseded by definitions.
LEMMA EditsKeepDefinitions ==
    ASSUME NEW D, AreDefinitions(D), NEW edit \in Edits
    PROVE  AreDefinitions([D EXCEPT ![edit.kind] = Edited(@, edit)])
<1>. DEFINE k == edit.kind
            V == D[k]
            E == [D EXCEPT ![edit.kind] = Edited(@, edit)]
            closed == {[v EXCEPT !.to = edit.closeAt] : v \in Closed(V, edit)}
<1>1. k \in DefinitionKinds /\ IsDefinition(k, edit.version)  BY EditsAreDefinitions
<1>2. IsFiniteSet(V) /\ \A v \in V : IsDefinition(k, v)  BY <1>1 DEF AreDefinitions
<1>3. IsFiniteSet(Closed(V, edit)) /\ Closed(V, edit) \subseteq V
  BY <1>2, FS_Subset DEF Closed
<1>4. IsFiniteSet(closed)
  <2>. DEFINE f == [v \in Closed(V, edit) |-> [v EXCEPT !.to = edit.closeAt]]
  <2>1. closed = {f[v] : v \in Closed(V, edit)}  OBVIOUS
  <2>. HIDE DEF f, closed
  <2>. QED  BY <1>3, <2>1, ImageIsFinite
<1>5. \A v \in closed : IsDefinition(k, v)
  <2>1. ASSUME NEW v \in Closed(V, edit)
        PROVE  IsDefinition(k, [v EXCEPT !.to = edit.closeAt])
    <3>1. IsDefinition(k, v)  BY <1>2, <1>3
    <3>2. edit.closeAt # None /\ edit.closeAt \in Int  BY EditsAreDefinitions DEF Closed
    <3>. DEFINE w == [v EXCEPT !.to = edit.closeAt]
    <3>3. /\ DOMAIN w = DOMAIN v /\ "to" \in DOMAIN v /\ w.to = edit.closeAt
          /\ \A field \in DOMAIN v : field # "to" => w[field] = v[field]
      BY <3>1 DEF IsDefinition
    <3>. HIDE DEF w
    <3>. QED  BY <3>1, <3>2, <3>3 DEF IsDefinition
  <2>. QED  BY <2>1
<1>6. Edited(V, edit) = (V \ Closed(V, edit)) \cup closed \cup {edit.version}  BY DEF Edited
<1>. HIDE DEF closed
<1>7. IsFiniteSet(Edited(V, edit))
  <2>. DEFINE rest == V \ Closed(V, edit)
  <2>1. IsFiniteSet(rest)  BY <1>2, FS_Difference
  <2>. HIDE DEF rest
  <2>2. IsFiniteSet(rest \cup closed)  BY <1>4, <2>1, FS_Union
  <2>3. IsFiniteSet((rest \cup closed) \cup {edit.version})  BY <2>2, FS_AddElement
  <2>. QED  BY <1>6, <2>3 DEF rest
<1>8. \A v \in Edited(V, edit) : IsDefinition(k, v)  BY <1>1, <1>2, <1>5, <1>6
<1>9. DOMAIN D = DefinitionKinds  BY DEF AreDefinitions
<1>10. /\ DOMAIN E = DefinitionKinds /\ E[k] = Edited(V, edit)
       /\ \A j \in DefinitionKinds : j # k => E[j] = D[j]
  BY <1>1, <1>9
<1>. HIDE DEF E, V, k
<1>11. ASSUME NEW j \in DefinitionKinds
       PROVE  IsFiniteSet(E[j]) /\ \A v \in E[j] : IsDefinition(j, v)
  BY <1>7, <1>8, <1>10 DEF AreDefinitions
<1>. QED  BY <1>10, <1>11 DEF AreDefinitions, E

\* A read lists the ledger of the step before or of this one.
LEMMA ReadsListTheLedger ==
    ASSUME NEW early, NEW late, late.definitions = definitions', ReadBetween(early, late)
    PROVE  listed' = early.ledger /\ shown' = Project(listed', definitions', asOf')
  BY DEF ReadBetween, LoadState

LEMMA HouseInvHolds == Spec => []HouseInv
<1>1. Init => HouseInv
  BY FS_EmptySet, HomesAreDefinitions DEF Init, HouseInv
<1>2. HouseInv /\ [Next]_vars => HouseInv'
  <2>. SUFFICES ASSUME HouseInv, [Next]_vars PROVE HouseInv'
    OBVIOUS
  <2>. USE DEF HouseInv
  <2>1. ASSUME Read PROVE listed' = ledger' /\ shown' = Project(listed', definitions', asOf')
    <3>1. /\ Database'.definitions = definitions' /\ Database'.ledger = ledger'
          /\ ReadBetween(Database', Database')
      BY <2>1 DEF Read, Database
    <3>. DEFINE db == Database'
    <3>2. db.definitions = definitions' /\ db.ledger = ledger' /\ ReadBetween(db, db)  BY <3>1
    <3>. HIDE DEF db
    <3>3. listed' = db.ledger /\ shown' = Project(listed', definitions', asOf')
      BY <3>2, ReadsListTheLedger
    <3>. QED  BY <3>2, <3>3
  <2>2. CASE Record
    <3>1. PICK e \in Candidates : ledger' = ledger \cup {e}  BY <2>2 DEF Record
    <3>2. IsFiniteSet(ledger')  BY <3>1, FS_AddElement
    <3>. QED  BY <2>1, <2>2, <3>1, <3>2 DEF Record
  <2>3. CASE Void
    <3>1. PICK id, d : ledger' = ledger \cup {VoidOf(id, d)}  BY <2>3 DEF Void
    <3>2. VoidOf(id, d).type = "void"  BY DEF VoidOf
    <3>3. IsFiniteSet(ledger')  BY <3>1, FS_AddElement
    <3>. QED  BY <2>1, <2>3, <3>1, <3>2, <3>3 DEF Void
  <2>4. CASE EditDefinition
    <3>1. PICK edit \in Edits :
              definitions' = [definitions EXCEPT ![edit.kind] = Edited(@, edit)]
      BY <2>4 DEF EditDefinition
    <3>2. AreDefinitions(definitions')  BY <3>1, EditsKeepDefinitions
    <3>. QED  BY <2>1, <2>4, <3>2 DEF EditDefinition
  <2>5. CASE ReadWhileWriting
    <3>1. PICK edit \in Edits, e \in Candidates :
              /\ definitions' = [definitions EXCEPT ![edit.kind] = Edited(@, edit)]
              /\ ledger' = ledger \cup {e}
      BY <2>5 DEF ReadWhileWriting
    <3>2. AreDefinitions(definitions')  BY <3>1, EditsKeepDefinitions
    <3>3. IsFiniteSet(ledger')  BY <3>1, FS_AddElement
    <3>. DEFINE db == Database
                later == Database'
    <3>4. db.ledger = ledger /\ later.definitions = definitions' /\ ReadBetween(db, later)
      BY <2>5 DEF ReadWhileWriting, Database
    <3>. HIDE DEF db, later
    <3>5. listed' = db.ledger /\ shown' = Project(listed', definitions', asOf')
      BY <3>4, ReadsListTheLedger
    <3>. QED  BY <2>5, <3>1, <3>2, <3>3, <3>4, <3>5 DEF ReadWhileWriting
  <2>6. CASE ReadAsOf  BY <2>1, <2>6 DEF ReadAsOf
  <2>7. CASE UNCHANGED vars  BY <2>7 DEF vars
  <2>. QED  BY <2>2, <2>3, <2>4, <2>5, <2>6, <2>7 DEF Next
<1>. QED  BY <1>1, <1>2, PTL DEF Spec

\* What a read shows is made of, step by step.
LEMMA ShownIsProjected ==
    ASSUME HouseInv
    PROVE  /\ shown.asOf = asOf
           /\ shown.rows = ObligationRows(definitions, Facts, asOf)
           /\ shown.periods =
                 [p \in Window(Facts, asOf) |->
                     Period(definitions, Facts, asOf, shown.rows, shown.statements, p)]
           /\ shown.accounts =
                 AccountRows(definitions, Facts,
                             ImpliedTransfers(definitions, shown.periods, asOf), asOf)
           /\ shown.savings = SavingsSummary(Facts, shown.periods,
                                             FirstOfKind(definitions, "SAVINGS", asOf))
           /\ shown.warnings = Warnings(Facts, shown.periods, shown.rows, shown.accounts,
                                        shown.statements,
                                        FirstOfKind(definitions, "SAVINGS", asOf), asOf)
<1>. DEFINE rows == ObligationRows(definitions, Facts, asOf)
            statements == Statements(definitions, Facts, asOf)
            periods == [p \in Window(Facts, asOf) |->
                           Period(definitions, Facts, asOf, rows, statements, p)]
            accounts == AccountRows(definitions, Facts,
                                    ImpliedTransfers(definitions, periods, asOf), asOf)
            s == FirstOfKind(definitions, "SAVINGS", asOf)
<1>1. shown = WithPeriods(definitions, Facts, asOf, rows, statements)
  BY DEF HouseInv, Project, FoldLedger, Facts
<1>. HIDE DEF rows, statements
<1>2. shown = WithBalances(definitions, Facts, asOf, rows, statements, periods)
  BY <1>1 DEF WithPeriods
<1>. HIDE DEF periods
<1>3. shown = StateOf(Facts, asOf, rows, statements, periods, accounts, s)
  BY <1>2 DEF WithBalances
<1>. HIDE DEF accounts, s
<1>4. /\ shown.asOf = asOf /\ shown.rows = rows /\ shown.statements = statements
      /\ shown.periods = periods /\ shown.accounts = accounts
      /\ shown.savings = SavingsSummary(Facts, periods, s)
      /\ shown.warnings = Warnings(Facts, periods, rows, accounts, statements, s, asOf)
  BY <1>3 DEF StateOf
<1>. QED  BY <1>4 DEF rows, periods, accounts, s

\* The facts are events, finitely many, dated by the read's date.
LEMMA FactsAreEvents ==
    ASSUME HouseInv
    PROVE  /\ Facts \subseteq Candidates /\ IsFiniteSet(Facts)
           /\ Placed(Facts) /\ asOf \in Days
           /\ \A e \in Facts : e.date <= asOf /\ e.date \in Int /\ e.amount \in Int
<1>1. Facts \subseteq listed /\ \A e \in Facts : e.type # "void" /\ e.date <= asOf
  BY DEF Facts, Known, Surviving
<1>2. Facts \subseteq Candidates  BY <1>1 DEF HouseInv
<1>3. IsFiniteSet(Facts)  BY <1>1, FS_Subset DEF HouseInv
<1>4. asOf \in Days  BY CalendarIsTyped DEF HouseInv, ReadDates, Days
<1>5. Placed(Facts)  BY <1>2, CandidatesAreEvents DEF Placed, PeriodDate
<1>6. \A d \in Days : d \in Int  BY CalendarIsTyped DEF Days
<1>. QED  BY <1>1, <1>2, <1>3, <1>4, <1>5, <1>6, CandidatesAreEvents

-----------------------------------------------------------------------------
(* Voids.                                                                  *)

LEMMA ListedGrows ==
    ASSUME HouseInv, Next
    PROVE  listed \subseteq listed'
<1>. USE DEF HouseInv
<1>1. ASSUME Read PROVE listed' = ledger'
  BY <1>1 DEF Read, ReadBetween, LoadState, Database
<1>2. CASE Record  BY <1>1, <1>2 DEF Record
<1>3. CASE Void  BY <1>1, <1>3 DEF Void
<1>4. CASE EditDefinition  BY <1>1, <1>4 DEF EditDefinition
<1>5. CASE ReadWhileWriting
  BY <1>5 DEF ReadWhileWriting, ReadBetween, LoadState, Database
<1>6. CASE ReadAsOf  BY <1>1, <1>6 DEF ReadAsOf
<1>. QED  BY <1>2, <1>3, <1>4, <1>5, <1>6 DEF Next

\* Voids that hit nothing that survives leave all that survives.
LEMMA HollowVoids ==
    ASSUME NEW L, NEW M, L \subseteq M,
           \A v \in M \ L : v.type = "void" /\ \A e \in Surviving(L) : e.id # v.target
    PROVE  Surviving(M) = Surviving(L)
<1>1. ASSUME NEW e \in Surviving(M) PROVE e \in Surviving(L)
  BY <1>1 DEF Surviving, IsVoided
<1>2. ASSUME NEW e \in Surviving(L) PROVE e \in Surviving(M)
  <2>1. e \in M /\ e.type # "void" /\ ~IsVoided(e, L)  BY DEF Surviving
  <2>2. ASSUME NEW v \in M, v.type = "void", v.target = e.id PROVE FALSE
    <3>1. CASE v \in L  BY <2>1, <2>2, <3>1 DEF IsVoided
    <3>2. CASE v \notin L  BY <2>2, <3>2
    <3>. QED  BY <3>1, <3>2
  <2>. QED  BY <2>1, <2>2 DEF Surviving, IsVoided
<1>. QED  BY <1>1, <1>2

\* Voiding is for good: a void of a void, of what is voided already or of nothing
\* changes no answer (PLAN.md 8.4, step 1 of domain.projection.project), in every
\* household and after every history.
THEOREM VoidsStayVoided == Spec => VoidsAreFinal
<1>. DEFINE A == /\ asOf' = asOf /\ definitions' = definitions
                 /\ \A v \in listed' \ listed :
                       v.type = "void" /\ \A e \in Surviving(listed) : e.id # v.target
                 => shown' = shown
<1>1. HouseInv /\ HouseInv' /\ [Next]_vars => [A]_vars
  <2>. SUFFICES ASSUME HouseInv, HouseInv', [Next]_vars, vars' # vars PROVE A
    OBVIOUS
  <2>1. Next  OBVIOUS
  <2>. SUFFICES ASSUME asOf' = asOf, definitions' = definitions,
                       \A v \in listed' \ listed :
                          v.type = "void" /\ \A e \in Surviving(listed) : e.id # v.target
                PROVE  shown' = shown
    OBVIOUS
  <2>2. listed \subseteq listed'  BY <2>1, ListedGrows
  <2>3. Surviving(listed') = Surviving(listed)
    <3>. DEFINE M == listed'
    <3>1. listed \subseteq M /\ \A v \in M \ listed :
              v.type = "void" /\ \A e \in Surviving(listed) : e.id # v.target
      BY <2>2
    <3>. HIDE DEF M
    <3>2. Surviving(M) = Surviving(listed)  BY <3>1, HollowVoids
    <3>. QED  BY <3>2 DEF M
  <2>4. shown = Project(listed, definitions, asOf)  BY DEF HouseInv
  <2>5. shown' = Project(listed', definitions', asOf')  BY DEF HouseInv
  <2>. QED  BY <2>3, <2>4, <2>5 DEF Project
<1>2. VoidsAreFinal <=> [][A]_vars  BY DEF VoidsAreFinal
<1>. HIDE DEF A
<1>. QED  BY <1>1, <1>2, HouseInvHolds, PTL DEF Spec

-----------------------------------------------------------------------------
(* The rows: bills raised and expected.                                    *)

LEMMA ForecastsAreBills ==
    ASSUME NEW D, AreDefinitions(D), NEW p \in PeriodIds, NEW x \in Expected(D, p)
    PROVE  /\ \E cost \in D.costs : x = Forecast(cost, p)
           /\ x.amount \in Int /\ x.due \in Days /\ PeriodFor(x.due) = p
<1>. DEFINE V(c) == VersionsOf(InForce(D.costs, Start(p)), c)
<1>1. \A v \in D.costs : IsDefinition("costs", v)  BY DEF AreDefinitions, DefinitionKinds
<1>2. PICK c : x = Forecast(LatestOf(V(c)), p) /\ c \in Entities(InForce(D.costs, Start(p)))
  BY DEF Expected
<1>3. Dated(V(c)) /\ V(c) \subseteq D.costs /\ V(c) # {}
  BY <1>1, <1>2 DEF Dated, VersionsOf, InForce, IsDefinition, Entities
<1>. DEFINE cost == LatestOf(V(c))
<1>. HIDE DEF V
<1>4. cost \in D.costs  BY <1>3, LatestIsIn
<1>5. x = Forecast(cost, p)  BY <1>2
<1>. HIDE DEF cost
<1>6. cost.amount \in Int /\ cost.dueDay \in 1 .. 31  BY <1>1, <1>4 DEF IsDefinition
<1>7. x.amount = cost.amount /\ x.due = ClampDay(p, cost.dueDay)  BY <1>5 DEF Forecast
<1>8. x.due \in Start(p) .. EndExclusive(p) - 1  BY <1>6, <1>7, ClampStaysInMonth
<1>9. x.due \in Days /\ Start(p) <= x.due /\ x.due < EndExclusive(p)
  <2>1. /\ MonthStart[1] \in Int /\ MonthStart[Months + 1] \in Int
        /\ Start(p) \in Int /\ EndExclusive(p) \in Int
        /\ MonthStart[1] <= Start(p) /\ EndExclusive(p) <= MonthStart[Months + 1]
    BY CalendarIsTyped DEF PeriodIds, Start, EndExclusive
  <2>. QED  BY <1>8, <2>1 DEF Days
<1>. QED  BY <1>4, <1>5, <1>6, <1>7, <1>9, PeriodForIsUnique

\* A row of a bill is either that of a forecast or that of a bill raised.
IsRowOf(r, D, K, t) ==
    \/ \E p \in Window(K, t) : \E x \in Expected(D, p) : r = Row(K, "EXPECTED", x)
    \/ \E e \in K : /\ e.type = "raised" /\ PeriodFor(e.due) \in Window(K, t)
                    /\ r = Row(K, "RAISED", e)

LEMMA RowsAreOfBills ==
    ASSUME NEW D, NEW K, NEW t, NEW r \in ObligationRows(D, K, t)
    PROVE  IsRowOf(r, D, K, t)
<1>. DEFINE raised == {e \in K : e.type = "raised" /\ PeriodFor(e.due) \in Window(K, t)}
            last == {e \in raised : \A f \in raised : Before(e, f) => ~Matches(e, f)}
            expected == {x \in UNION {Expected(D, p) : p \in Window(K, t)} :
                            \A e \in last : ~Matches(x, e)}
<1>1. \/ \E x \in expected : r = Row(K, "EXPECTED", x)
      \/ \E e \in last : r = Row(K, "RAISED", e)
  BY DEF ObligationRows
<1>2. CASE \E x \in expected : r = Row(K, "EXPECTED", x)
  <2>1. \A x \in expected : \E p \in Window(K, t) : x \in Expected(D, p)  OBVIOUS
  <2>. HIDE DEF expected
  <2>. QED  BY <1>2, <2>1 DEF IsRowOf
<1>3. CASE \E e \in last : r = Row(K, "RAISED", e)  BY <1>3 DEF IsRowOf
<1>. QED  BY <1>1, <1>2, <1>3

\* The window, the definitions and the events of a read.
IsRead(D, K, t) ==
    /\ AreDefinitions(D)
    /\ K \subseteq Candidates /\ IsFiniteSet(K) /\ Placed(K)
    /\ t \in Days

LEMMA FactsAreRead == ASSUME HouseInv PROVE IsRead(definitions, Facts, asOf)
  BY FactsAreEvents DEF IsRead, HouseInv

\* A row is of a bill of a month of the window, with what was paid against it.
LEMMA RowsAreTyped ==
    ASSUME NEW D, NEW K, NEW t, IsRead(D, K, t), NEW r \in ObligationRows(D, K, t)
    PROVE  /\ r.amount \in Int /\ r.paid = Paid(K, r.obligation) /\ r.paid \in Int
           /\ r.status = ObligationStatus(r.amount, r.paid)
           /\ r.due \in Days /\ r.period = PeriodFor(r.due) /\ r.period \in Window(K, t)
<1>. USE DEF IsRead
<1>1. ASSUME NEW source, NEW b, r = Row(K, source, b), b.amount \in Int, b.due \in Days,
             PeriodFor(b.due) \in Window(K, t)
      PROVE  /\ r.amount \in Int /\ r.paid = Paid(K, r.obligation) /\ r.paid \in Int
             /\ r.status = ObligationStatus(r.amount, r.paid)
             /\ r.due \in Days /\ r.period = PeriodFor(r.due) /\ r.period \in Window(K, t)
  <2>1. /\ r.amount = b.amount /\ r.obligation = b.obligation /\ r.due = b.due
        /\ r.period = PeriodFor(b.due) /\ r.paid = Paid(K, b.obligation)
        /\ r.status = ObligationStatus(b.amount, r.paid)
    BY <1>1 DEF Row
  <2>. DEFINE P == {e \in K : e.type = "paid" /\ e.obligation = b.obligation}
  <2>2. IsFiniteSet(P) /\ \A e \in P : e.amount \in Int
    BY FS_Subset, CandidatesAreEvents
  <2>. HIDE DEF P
  <2>3. Amounts(P) \in Int  BY <2>2, AmountsAreInt
  <2>4. Paid(K, b.obligation) = Amounts(P)  BY DEF Paid, P
  <2>. QED  BY <1>1, <2>1, <2>3, <2>4
<1>2. CASE \E p \in Window(K, t) : \E x \in Expected(D, p) : r = Row(K, "EXPECTED", x)
  <2>1. PICK p \in Window(K, t) : \E x \in Expected(D, p) : r = Row(K, "EXPECTED", x)  BY <1>2
  <2>2. PICK x \in Expected(D, p) : r = Row(K, "EXPECTED", x)  BY <2>1
  <2>3. p \in PeriodIds  BY WindowIsRight
  <2>4. x.amount \in Int /\ x.due \in Days /\ PeriodFor(x.due) = p  BY <2>3, ForecastsAreBills
  <2>. QED  BY <1>1, <2>2, <2>4
<1>3. CASE \E e \in K : /\ e.type = "raised" /\ PeriodFor(e.due) \in Window(K, t)
                        /\ r = Row(K, "RAISED", e)
  <2>1. PICK e \in K : /\ e.type = "raised" /\ PeriodFor(e.due) \in Window(K, t)
                       /\ r = Row(K, "RAISED", e)
    BY <1>3
  <2>2. e.amount \in Int /\ e.due \in Days  BY <2>1, CandidatesAreEvents
  <2>. QED  BY <1>1, <2>1, <2>2
<1>. QED  BY <1>2, <1>3, RowsAreOfBills DEF IsRowOf

-----------------------------------------------------------------------------
(* Arrears.                                                                *)

\* No forecast is of a negative amount.
CostInv == HouseInv /\ \A v \in definitions.costs : v.amount >= 0

LEMMA CostInvHolds == BillsArePositive => (Spec => []CostInv)
<1>. DEFINE Rest == \A v \in definitions.costs : v.amount >= 0
<1>. SUFFICES ASSUME BillsArePositive PROVE Spec => []CostInv
  OBVIOUS
<1>1. Init => Rest  BY DEF BillsArePositive, Init
<1>2. HouseInv /\ Rest /\ [Next]_vars => Rest'
  <2>. SUFFICES ASSUME HouseInv, Rest, [Next]_vars PROVE Rest'
    OBVIOUS
  <2>1. ASSUME NEW edit \in Edits,
               definitions' = [definitions EXCEPT ![edit.kind] = Edited(@, edit)]
        PROVE  Rest'
    <3>1. AreDefinitions(definitions)  BY DEF HouseInv
    <3>2. "costs" \in DOMAIN definitions /\ \A v \in definitions.costs : IsDefinition("costs", v)
      BY <3>1 DEF AreDefinitions, DefinitionKinds
    <3>3. CASE edit.kind # "costs"  BY <2>1, <3>2, <3>3
    <3>4. CASE edit.kind = "costs"
      <4>. DEFINE V == definitions.costs
      <4>1. definitions'.costs = Edited(V, edit)  BY <2>1, <3>2, <3>4
      <4>2. \A v \in V : IsDefinition("costs", v) /\ v.amount >= 0  BY <3>2
      <4>3. edit.version.amount >= 0  BY <3>4 DEF BillsArePositive
      <4>. HIDE DEF V
      <4>4. ASSUME NEW v \in Closed(V, edit) PROVE [v EXCEPT !.to = edit.closeAt].amount >= 0
        <5>1. v \in V  BY DEF Closed
        <5>. QED  BY <4>2, <5>1 DEF IsDefinition
      <4>5. \A v \in Edited(V, edit) : v.amount >= 0  BY <4>2, <4>3, <4>4 DEF Edited
      <4>. QED  BY <4>1, <4>5
    <3>. QED  BY <3>3, <3>4
  <2>2. CASE Record \/ Void \/ ReadAsOf \/ UNCHANGED vars
    BY <2>2 DEF Record, Void, ReadAsOf, vars
  <2>3. CASE EditDefinition  BY <2>1, <2>3 DEF EditDefinition
  <2>4. CASE ReadWhileWriting  BY <2>1, <2>4 DEF ReadWhileWriting
  <2>. QED  BY <2>2, <2>3, <2>4 DEF Next
<1>3. HouseInv /\ Rest <=> CostInv  BY DEF CostInv
<1>. HIDE DEF Rest
<1>. QED  BY <1>1, <1>2, <1>3, HouseInvHolds, PTL DEF Spec

LEMMA PeriodIsClosed ==
    ASSUME NEW D, NEW K, NEW t, NEW rows, NEW statements, NEW p
    PROVE  Period(D, K, t, rows, statements, p).closed = (EndExclusive(p) <= t)
  BY Zenon DEF Period

\* No row is of a negative amount.
LEMMA RowsAreNotNegative ==
    ASSUME BillsArePositive, CostInv, NEW r \in shown.rows
    PROVE  r.amount >= 0
<1>. DEFINE K == Facts
            D == definitions
<1>1. IsRead(D, K, asOf) /\ r \in ObligationRows(D, K, asOf)
  BY FactsAreRead, ShownIsProjected DEF CostInv
<1>2. \A v \in D.costs : v.amount >= 0  BY DEF CostInv
<1>. HIDE DEF K, D
<1>3. ASSUME NEW p \in Window(K, asOf), NEW x \in Expected(D, p), r = Row(K, "EXPECTED", x)
      PROVE  r.amount >= 0
  <2>1. p \in PeriodIds  BY <1>1, WindowIsRight DEF IsRead
  <2>2. PICK cost \in D.costs : x = Forecast(cost, p)  BY <1>1, <2>1, ForecastsAreBills DEF IsRead
  <2>3. r.amount = cost.amount  BY <1>3, <2>2 DEF Row, Forecast
  <2>. QED  BY <1>2, <2>3
<1>4. ASSUME NEW e \in K, e.type = "raised", r = Row(K, "RAISED", e) PROVE r.amount >= 0
  <2>1. r.amount = e.amount  BY <1>4 DEF Row
  <2>2. e \in Candidates  BY <1>1 DEF IsRead
  <2>. QED  BY <1>4, <2>1, <2>2 DEF BillsArePositive
<1>. QED  BY <1>1, <1>3, <1>4, RowsAreOfBills DEF IsRowOf

\* The detail of a period that is over warns of every bill of it that is unpaid or
\* overpaid, whatever the netting of the period's figures hides (read_period and
\* domain.projection._build_warnings), as long as no bill is of a negative amount.
THEOREM ArrearsAreNoticed == BillsArePositive => (Spec => []ArrearsAreWarnedOf)
<1>. SUFFICES ASSUME BillsArePositive PROVE Spec => []ArrearsAreWarnedOf
  OBVIOUS
<1>1. CostInv => ArrearsAreWarnedOf
  <2>. SUFFICES ASSUME CostInv,
                       NEW r \in shown.rows, shown.periods[r.period].closed
                PROVE  LET warnings == PeriodDetail(shown, r.period).warnings
                       IN  /\ r.paid < r.amount => "OBLIGATION_PAST_DUE_UNPAID" \in warnings
                           /\ r.paid > r.amount => "OBLIGATION_OVERPAID" \in warnings
    BY DEF ArrearsAreWarnedOf
  <2>1. HouseInv  BY DEF CostInv
  <2>2. IsRead(definitions, Facts, asOf) /\ r \in ObligationRows(definitions, Facts, asOf)
    BY <2>1, FactsAreRead, ShownIsProjected
  <2>3. /\ r.amount \in Int /\ r.paid \in Int
        /\ r.status = ObligationStatus(r.amount, r.paid)
        /\ r.due \in Days /\ r.period = PeriodFor(r.due) /\ r.period \in Window(Facts, asOf)
    BY <2>2, RowsAreTyped
  <2>4. r.amount >= 0  BY RowsAreNotNegative
  <2>5. DOMAIN shown.periods = Window(Facts, asOf) /\ EndExclusive(r.period) <= asOf
    <3>. DEFINE period == Period(definitions, Facts, asOf, shown.rows, shown.statements, r.period)
    <3>1. DOMAIN shown.periods = Window(Facts, asOf) /\ shown.periods[r.period] = period
      BY <2>1, <2>3, ShownIsProjected
    <3>2. period.closed = (EndExclusive(r.period) <= asOf)  BY PeriodIsClosed
    <3>. HIDE DEF period
    <3>3. EndExclusive(r.period) <= asOf  BY <3>1, <3>2, Zenon
    <3>. QED  BY <3>1, <3>3
  <2>6. r.due < asOf
    <3>1. r.period \in PeriodIds /\ r.due < EndExclusive(r.period)  BY <2>3, PeriodForIsRight
    <3>2. r.due \in Int /\ EndExclusive(r.period) \in Int /\ asOf \in Int
      BY <2>2, <2>3, <3>1, CalendarIsTyped DEF IsRead, Days, PeriodIds, EndExclusive
    <3>. QED  BY <2>5, <3>1, <3>2
  <2>. DEFINE W == shown.warnings
  <2>7. /\ {"OBLIGATION_PAST_DUE_UNPAID", "OBLIGATION_OVERPAID"} \subseteq DOMAIN W
        /\ W["OBLIGATION_PAST_DUE_UNPAID"] = PastDue(shown.rows, asOf)
        /\ W["OBLIGATION_OVERPAID"] = {x \in shown.rows : x.status = "OVERPAID"}
    BY <2>1, ShownIsProjected DEF Warnings
  <2>. HIDE DEF W
  <2>8. ASSUME NEW w \in {"OBLIGATION_PAST_DUE_UNPAID", "OBLIGATION_OVERPAID"}, r \in W[w]
        PROVE  w \in PeriodDetail(shown, r.period).warnings
    <3>1. w \in DOMAIN shown.warnings /\ r \in shown.warnings[w]  BY <2>7, <2>8 DEF W
    <3>2. r.period \in DOMAIN shown.periods  BY <2>3, <2>5
    <3>. QED  BY <2>8, <3>1, <3>2 DEF PeriodDetail
  <2>9. r.paid < r.amount => r \in W["OBLIGATION_PAST_DUE_UNPAID"]
    BY <2>3, <2>6, <2>7 DEF ObligationStatus, PastDue
  <2>10. r.paid > r.amount => r \in W["OBLIGATION_OVERPAID"]
    BY <2>3, <2>4, <2>7 DEF ObligationStatus
  <2>. QED  BY <2>8, <2>9, <2>10
<1>. QED  BY <1>1, CostInvHolds, PTL

-----------------------------------------------------------------------------
(* Payments.                                                               *)

\* A row shows at least each payment against its bill.
LEMMA RowsCountPayments ==
    ASSUME BillsArePositive, NEW D, NEW K, NEW t, IsRead(D, K, t),
           NEW r \in ObligationRows(D, K, t),
           NEW e \in K, e.type = "paid", e.obligation = r.obligation
    PROVE  r.paid >= e.amount
<1>. DEFINE P == {x \in K : x.type = "paid" /\ x.obligation = r.obligation}
<1>1. P \subseteq Candidates /\ IsFiniteSet(P)  BY FS_Subset DEF IsRead
<1>2. \A x \in P : x.amount \in Int /\ x.amount >= 0
  BY <1>1, CandidatesAreEvents DEF BillsArePositive
<1>3. e \in P  OBVIOUS
<1>4. r.paid = Amounts(P)  BY RowsAreTyped DEF Paid
<1>. HIDE DEF P
<1>5. Amounts(P) = e.amount + Amounts(P \ {e})  BY <1>1, <1>2, <1>3, AmountsPeel
<1>6. Amounts(P \ {e}) \in Nat
  <2>1. IsFiniteSet(P \ {e})  BY <1>1, FS_RemoveElement
  <2>2. \A x \in P \ {e} : x.amount \in Nat  BY <1>2
  <2>. QED  BY <2>1, <2>2, AmountsAreNatural
<1>. QED  BY <1>2, <1>3, <1>4, <1>5, <1>6

\* A bill that is raised for a month of the window has a row of its name, or a
\* later bill took its place.
LEMMA BillsAreShown ==
    ASSUME NEW D, NEW K, NEW t, NEW f \in K, f.type = "raised", PeriodFor(f.due) \in Window(K, t)
    PROVE  \/ \E r \in ObligationRows(D, K, t) : r.obligation = f.obligation
           \/ \E g \in K : g.type = "raised" /\ Before(f, g) /\ Matches(f, g)
<1>. DEFINE raised == {e \in K : e.type = "raised" /\ PeriodFor(e.due) \in Window(K, t)}
            last == {e \in raised : \A g \in raised : Before(e, g) => ~Matches(e, g)}
<1>1. CASE f \in last
  <2>1. Row(K, "RAISED", f) \in ObligationRows(D, K, t)
    <3>1. Row(K, "RAISED", f) \in {Row(K, "RAISED", e) : e \in last}  BY <1>1
    <3>. QED  BY <3>1 DEF ObligationRows
  <2>2. Row(K, "RAISED", f).obligation = f.obligation  BY DEF Row
  <2>. QED  BY <2>1, <2>2
<1>2. CASE f \notin last  BY <1>2
<1>. QED  BY <1>1, <1>2

\* Every payment counts against a bill shown, or is warned of, or its bill falls due
\* after the last period shown or gave way to a later one (_obligation_rows and
\* the PAYMENT_WITHOUT_OBLIGATION of _build_warnings): no payment vanishes.
THEOREM PaymentsAreAccountedFor == BillsArePositive => (Spec => []NothingPaidIsLost)
<1>. SUFFICES ASSUME BillsArePositive PROVE Spec => []NothingPaidIsLost
  OBVIOUS
<1>1. HouseInv => NothingPaidIsLost
  <2>. SUFFICES ASSUME HouseInv, NEW e \in Facts, e.type = "paid",
                       e \notin shown.warnings.PAYMENT_WITHOUT_OBLIGATION,
                       ~ \E r \in shown.rows : r.obligation = e.obligation /\ r.paid >= e.amount
                PROVE  \E f \in Facts :
                          /\ f.type = "raised" /\ f.obligation = e.obligation
                          /\ \/ PeriodFor(f.due) > PeriodFor(asOf)
                             \/ \E g \in Facts : /\ g.type = "raised"
                                                 /\ Before(f, g) /\ Matches(f, g)
    BY DEF NothingPaidIsLost
  <2>1. IsRead(definitions, Facts, asOf)  BY FactsAreRead
  <2>2. shown.rows = ObligationRows(definitions, Facts, asOf)  BY ShownIsProjected
  <2>3. shown.warnings.PAYMENT_WITHOUT_OBLIGATION = Orphans(Facts, shown.rows)
    BY ShownIsProjected DEF Warnings
  <2>4. \A r \in shown.rows : r.obligation # e.obligation  BY <2>1, <2>2, RowsCountPayments
  <2>5. PICK f \in Facts : f.type = "raised" /\ f.obligation = e.obligation
    BY <2>3, <2>4 DEF Orphans
  <2>6. CASE PeriodFor(f.due) \in Window(Facts, asOf)
    BY <2>2, <2>4, <2>5, <2>6, BillsAreShown
  <2>7. CASE PeriodFor(f.due) \notin Window(Facts, asOf)
    <3>1. PeriodDate(f) = f.due /\ f.due \in Days /\ asOf \in Days
      BY <2>1, <2>5 DEF PeriodDate, IsRead, Placed
    <3>2. ~ (PeriodFor(f.due) <= PeriodFor(asOf))
      BY <2>1, <2>5, <2>7, <3>1, WindowIsRight DEF IsRead
    <3>3. PeriodFor(f.due) \in Int /\ PeriodFor(asOf) \in Int
      BY <3>1, PeriodForIsRight DEF PeriodIds
    <3>. QED  BY <2>5, <3>2, <3>3
  <2>. QED  BY <2>6, <2>7
<1>. QED  BY <1>1, HouseInvHolds, PTL

-----------------------------------------------------------------------------
(* What savings hold.                                                      *)

LEMMA SharesAreInt ==
    ASSUME NEW m \in Int, NEW s \in Int
    PROVE  SplitPair(m, s).savings \in Int
<1>. DEFINE n == Abs(m)
            d == FullBps - s
            x == n * s
            y == n * d
            pair == PairShares(n, s)
<1>1. n \in Int /\ d \in Int /\ FullBps \in Nat \ {0}  BY FullBpsIsPositive DEF Abs
<1>2. PairFloor(n, s) = x \div FullBps  BY DEF PairFloor
<1>. HIDE DEF n, d
<1>3. x \in Int  BY <1>1
<1>. HIDE DEF x
<1>4. PairFloor(n, s) \in Int  BY <1>1, <1>2, <1>3
<1>5. pair.savings \in {PairFloor(n, s), PairFloor(n, s) + 1}
  <2>. DEFINE floor == PairFloor(n, s)
  <2>. HIDE DEF floor
  <2>1. floor \in Int  BY <1>4 DEF floor
  <2>2. pair.savings = floor + 1 \/ pair.savings = floor + 0
    BY DEF PairShares, floor
  <2>. QED  BY <2>1, <2>2 DEF floor
<1>6. SplitPair(m, s).savings = Sign(m) * pair.savings  BY DEF SplitPair, n
<1>. DEFINE share == pair.savings
            sign == Sign(m)
<1>7. share \in Int /\ sign \in Int  BY <1>4, <1>5 DEF Sign
<1>8. SplitPair(m, s).savings = sign * share  BY <1>6
<1>. HIDE DEF share, sign
<1>. QED  BY <1>7, <1>8

LEMMA RowsAreFinite ==
    ASSUME NEW D, NEW K, NEW t, IsRead(D, K, t)
    PROVE  IsFiniteSet(ObligationRows(D, K, t))
<1>. DEFINE raised == {e \in K : e.type = "raised" /\ PeriodFor(e.due) \in Window(K, t)}
            last == {e \in raised : \A f \in raised : Before(e, f) => ~Matches(e, f)}
            expected == {x \in UNION {Expected(D, p) : p \in Window(K, t)} :
                            \A e \in last : ~Matches(x, e)}
            pairs == D.costs \X PeriodIds
            forecast == [x \in pairs |-> Forecast(x[1], x[2])]
            fromExpected == [x \in expected |-> Row(K, "EXPECTED", x)]
            fromRaised == [e \in last |-> Row(K, "RAISED", e)]
<1>1. ObligationRows(D, K, t) = {Row(K, "EXPECTED", x) : x \in expected}
                                    \cup {Row(K, "RAISED", e) : e \in last}
  BY DEF ObligationRows
<1>2. ObligationRows(D, K, t) = {fromExpected[x] : x \in expected}
                                    \cup {fromRaised[e] : e \in last}
  <2>. HIDE DEF expected, last
  <2>. QED  BY <1>1
<1>3. IsFiniteSet(last)  BY FS_Subset DEF IsRead
<1>4. IsFiniteSet(pairs)
  <2>1. IsFiniteSet(D.costs)  BY DEF IsRead, AreDefinitions, DefinitionKinds
  <2>2. IsFiniteSet(1 .. Months)
    <3>. DEFINE n == Months
    <3>1. n \in Int  BY CalendarIsTyped
    <3>. HIDE DEF n
    <3>2. IsFiniteSet(1 .. n)  BY <3>1, FS_Interval
    <3>. QED  BY <3>2 DEF n
  <2>. QED  BY <2>1, <2>2, FS_Product DEF PeriodIds
<1>5. expected \subseteq {forecast[x] : x \in pairs}
  <2>1. ASSUME NEW x \in expected PROVE x \in {forecast[y] : y \in pairs}
    <3>1. PICK p \in Window(K, t) : x \in Expected(D, p)  OBVIOUS
    <3>2. p \in PeriodIds  BY WindowIsRight DEF IsRead
    <3>3. PICK cost \in D.costs : x = Forecast(cost, p)
      BY <3>1, <3>2, ForecastsAreBills DEF IsRead
    <3>. DEFINE y == <<cost, p>>
    <3>4. y \in pairs /\ y[1] = cost /\ y[2] = p  BY <3>2, <3>3
    <3>. HIDE DEF y
    <3>5. forecast[y] = Forecast(y[1], y[2])  BY <3>4
    <3>6. forecast[y] = x  BY <3>3, <3>4, <3>5
    <3>. HIDE DEF forecast, pairs
    <3>. QED  BY <3>4, <3>6
  <2>. QED  BY <2>1
<1>. HIDE DEF expected, last, fromExpected, fromRaised, forecast, pairs
<1>6. IsFiniteSet(expected)
  <2>1. IsFiniteSet({forecast[x] : x \in pairs})  BY <1>4, ImageIsFinite
  <2>. QED  BY <1>5, <2>1, FS_Subset
<1>7. /\ IsFiniteSet({fromExpected[x] : x \in expected})
      /\ IsFiniteSet({fromRaised[e] : e \in last})
  BY <1>3, <1>6, ImageIsFinite
<1>. QED  BY <1>2, <1>7, FS_Union

LEMMA PolicyIsInt ==
    ASSUME NEW D, AreDefinitions(D), NEW p
    PROVE  Policy(D, p).savings \in Int
<1>. DEFINE V == D.policies
<1>1. \A v \in V : IsDefinition("policies", v)  BY DEF AreDefinitions, DefinitionKinds
<1>2. Dated(V) /\ \A v \in V : v.savings \in Int
  BY <1>1, FullBpsIsPositive DEF Dated, IsDefinition
<1>3. FallbackPolicy.savings \in Int  BY FullBpsIsPositive DEF FallbackPolicy
<1>4. Policy(D, p) = VersionAt(V, Start(p), FallbackPolicy)  BY DEF Policy
<1>. HIDE DEF V
<1>. QED  BY <1>2, <1>3, <1>4, VersionIsKnown

\* What a period sets aside is a number, whatever came in and fell due.
LEMMA SavingsAreInt ==
    ASSUME NEW D, NEW K, NEW t, IsRead(D, K, t), NEW statements, NEW p
    PROVE  Period(D, K, t, ObligationRows(D, K, t), statements, p).savings \in Int
<1>. DEFINE rows == ObligationRows(D, K, t)
            bills == {r \in rows : r.period = p}
            income == Amounts(Of(K, "income", p)) + Amounts(Of(K, "gift", p))
            due == Amounts(bills)
            share == Policy(D, p).savings
<1>1. Period(D, K, t, rows, statements, p).savings = AllocatePeriod(income, due, share).savings
  BY Zenon DEF Period
<1>2. income \in Int
  <2>1. ASSUME NEW type PROVE Amounts(Of(K, type, p)) \in Int
    <3>. DEFINE O == Of(K, type, p)
    <3>1. IsFiniteSet(O) /\ \A e \in O : e.amount \in Int
      BY FS_Subset, CandidatesAreEvents DEF IsRead, Of
    <3>. HIDE DEF O
    <3>. QED  BY <3>1, AmountsAreInt DEF O
  <2>. QED  BY <2>1
<1>3. due \in Int
  <2>1. IsFiniteSet(bills)  BY RowsAreFinite, FS_Subset
  <2>2. \A r \in bills : r.amount \in Int  BY RowsAreTyped
  <2>. HIDE DEF bills
  <2>. QED  BY <2>1, <2>2, AmountsAreInt
<1>4. share \in Int  BY PolicyIsInt DEF IsRead
<1>. HIDE DEF income, due, share
<1>5. AllocatePeriod(income, due, share).savings \in Int
  <2>1. income - due \in Int  BY <1>2, <1>3
  <2>. QED  BY <1>4, <2>1, SharesAreInt DEF AllocatePeriod
<1>. QED  BY <1>1, <1>5

LEMMA DeltasAreInt ==
    ASSUME NEW e \in Candidates, NEW a
    PROVE  AccountDelta(e, a) \in Int /\ SavingsDelta(e, a) \in Int
<1>1. e.type \in EventTypes /\ e.amount \in Int  BY CandidatesAreEvents
<1>2. AccountDelta(e, a) \in Int  BY <1>1 DEF AccountDelta, EventTypes
<1>. QED  BY <1>2 DEF SavingsDelta

LEMMA SavingsMovedIsInt ==
    ASSUME NEW K, K \subseteq Candidates, IsFiniteSet(K), NEW a
    PROVE  SavingsMoved(K, a) \in Int
<1>. DEFINE f == [e \in K |-> SavingsDelta(e, a)]
<1>1. \A e \in K : f[e] \in Int  BY DeltasAreInt
<1>. HIDE DEF f
<1>2. SumFunctionOnSet(f, K) \in Int  BY <1>1, SumIsInt
<1>. QED  BY <1>2, SavingsAreSummed DEF f

LEMMA AllocatedIsInt ==
    ASSUME NEW periods, NEW P, IsFiniteSet(P), \A p \in P : periods[p].savings \in Int
    PROVE  Allocated(periods, P) \in Int
<1>. DEFINE f == [p \in P |-> periods[p].savings]
<1>1. \A p \in P : f[p] \in Int  OBVIOUS
<1>. HIDE DEF f
<1>2. SumFunctionOnSet(f, P) \in Int  BY <1>1, SumIsInt
<1>. QED  BY <1>2, AllocatedIsSum DEF f

LEMMA PeriodIdsAreFinite == ASSUME NEW P \in SUBSET PeriodIds PROVE IsFiniteSet(P)
<1>. DEFINE n == Months
<1>1. n \in Int  BY CalendarIsTyped
<1>. HIDE DEF n
<1>2. IsFiniteSet(1 .. n)  BY <1>1, FS_Interval
<1>. QED  BY <1>2, FS_Subset DEF PeriodIds, n

\* The periods that are over, as of a read.
Posted(periods) == {p \in DOMAIN periods : periods[p].closed}

LEMMA PeriodsAreShown ==
    ASSUME HouseInv
    PROVE  /\ DOMAIN shown.periods = Window(Facts, asOf)
           /\ DOMAIN shown.periods \subseteq PeriodIds
           /\ \A p \in DOMAIN shown.periods : shown.periods[p].savings \in Int
           /\ Posted(shown.periods) = {p \in DOMAIN shown.periods : EndExclusive(p) <= asOf}
<1>. DEFINE P == DOMAIN shown.periods
            period(p) == Period(definitions, Facts, asOf, shown.rows, shown.statements, p)
<1>1. P = Window(Facts, asOf) /\ \A p \in P : shown.periods[p] = period(p)
  BY ShownIsProjected
<1>2. IsRead(definitions, Facts, asOf)  BY FactsAreRead
<1>3. P \subseteq PeriodIds  BY <1>1, <1>2, WindowIsRight DEF IsRead
<1>4. ASSUME NEW p PROVE period(p).savings \in Int
  BY <1>2, ShownIsProjected, SavingsAreInt
<1>5. ASSUME NEW p PROVE period(p).closed = (EndExclusive(p) <= asOf)
  BY PeriodIsClosed
<1>. HIDE DEF period, P
<1>6. ASSUME NEW p \in P PROVE shown.periods[p].closed <=> EndExclusive(p) <= asOf
  <2>1. shown.periods[p].closed = (EndExclusive(p) <= asOf)  BY <1>1, <1>5, Zenon
  <2>. QED  BY <2>1, Zenon
<1>7. Posted(shown.periods) = {p \in P : EndExclusive(p) <= asOf}
  BY <1>6, Zenon DEF Posted, P
<1>. QED  BY <1>1, <1>3, <1>4, <1>7 DEF P

\* Of the latest draw of the day, before the last day of a period, what is left for
\* it is the balance shown without it: it is warned of exactly if that balance is
\* below zero (PLAN.md 6.2, _draw_warnings and _savings_summary).
THEOREM DrawsAgreeWithTheBalance == Spec => []DrawsAreJudgedByTheBalance
<1>1. HouseInv => DrawsAreJudgedByTheBalance
  <2>. DEFINE K == Facts
              periods == shown.periods
              s == FirstOfKind(definitions, "SAVINGS", asOf)
              drawn == {f \in K : f.type = "drawn"}
              posted == Posted(periods)
  <2>. SUFFICES ASSUME HouseInv, NEW e \in K, e.type = "drawn", e.date = asOf,
                       asOf + 1 # EndExclusive(PeriodFor(asOf)),
                       \A f \in K : f.type = "drawn" => f = e \/ Before(f, e)
                PROVE  e \in shown.warnings.SAVINGS_DRAW_EXCEEDS_BALANCE
                           <=> shown.savings.balance < 0
    BY DEF DrawsAreJudgedByTheBalance
  <2>1. /\ K \subseteq Candidates /\ IsFiniteSet(K) /\ asOf \in Days
        /\ \A f \in K : f.date <= asOf /\ f.date \in Int /\ f.amount \in Int /\ f.id \in Int
    BY FactsAreEvents, CandidatesAreIdentified
  <2>2. /\ DOMAIN periods \subseteq PeriodIds
        /\ \A p \in DOMAIN periods : periods[p].savings \in Int
        /\ posted = {p \in DOMAIN periods : EndExclusive(p) <= asOf}
    BY PeriodsAreShown
  <2>3. shown.savings.balance = SavingsMoved(K, s) + Allocated(periods, posted) - Amounts(drawn)
    <3>1. shown.savings = SavingsSummary(K, periods, s)  BY ShownIsProjected
    <3>. HIDE DEF K, periods, s
    <3>. QED  BY <3>1 DEF SavingsSummary, Posted
  <2>4. e \in shown.warnings.SAVINGS_DRAW_EXCEEDS_BALANCE
            <=> e.amount > Available(K, periods, s, e)
    <3>1. shown.warnings.SAVINGS_DRAW_EXCEEDS_BALANCE = DrawsBeyond(K, periods, s)
      BY ShownIsProjected DEF Warnings
    <3>. HIDE DEF K, periods, s
    <3>. QED  BY <3>1 DEF DrawsBeyond
  <2>. HIDE DEF K, periods, s, posted
  <2>5. {f \in K : f.date <= e.date} = K  BY <2>1
  <2>6. {p \in DOMAIN periods : EndExclusive(p) <= e.date + 1} = posted
    <3>1. ASSUME NEW p \in DOMAIN periods PROVE EndExclusive(p) <= asOf + 1 <=> EndExclusive(p) <= asOf
      <4>1. /\ p \in PeriodIds /\ Start(p) \in Int /\ EndExclusive(p) \in Int
            /\ Start(p) < EndExclusive(p)
        BY <2>2, CalendarIsTyped DEF PeriodIds, Start, EndExclusive
      <4>2. asOf \in Int  BY <2>1, CalendarIsTyped DEF Days
      <4>3. EndExclusive(p) # asOf + 1
        <5>. SUFFICES ASSUME EndExclusive(p) = asOf + 1 PROVE FALSE
          OBVIOUS
        <5>1. Start(p) <= asOf /\ asOf < EndExclusive(p)  BY <4>1, <4>2
        <5>2. PeriodFor(asOf) = p  BY <2>1, <4>1, <5>1, PeriodForIsUnique
        <5>. QED  BY <5>2
      <4>. QED  BY <4>1, <4>2, <4>3
    <3>. QED  BY <2>2, <3>1
  <2>7. {f \in K : f.type = "drawn" /\ Before(f, e)} = drawn \ {e}
    BY <2>1 DEF Before
  <2>8. Available(K, periods, s, e)
            = SavingsMoved(K, s) + Allocated(periods, posted) - Amounts(drawn \ {e})
    BY <2>5, <2>6, <2>7 DEF Available
  <2>9. /\ e \in drawn /\ IsFiniteSet(drawn)
        /\ \A f \in drawn : f.amount \in Int
    BY <2>1, FS_Subset
  <2>. HIDE DEF drawn
  <2>10. /\ Amounts(drawn) \in Int /\ Amounts(drawn \ {e}) \in Int
         /\ Amounts(drawn) = e.amount + Amounts(drawn \ {e})
    BY <2>9, AmountsPeel
  <2>11. SavingsMoved(K, s) \in Int  BY <2>1, SavingsMovedIsInt
  <2>12. Allocated(periods, posted) \in Int
    <3>1. posted \in SUBSET PeriodIds /\ \A p \in posted : periods[p].savings \in Int  BY <2>2
    <3>2. IsFiniteSet(posted)  BY <3>1, PeriodIdsAreFinite
    <3>. QED  BY <3>1, <3>2, AllocatedIsInt
  <2>13. e.amount \in Int  BY <2>1
  <2>. QED  BY <2>3, <2>4, <2>8, <2>10, <2>11, <2>12, <2>13
<1>. QED  BY <1>1, HouseInvHolds, PTL

LEMMA BalanceIsSum ==
    ASSUME NEW D, NEW K, IsFiniteSet(K), NEW T, IsFiniteSet(T), NEW a, NEW t
    PROVE  LET booked == {x \in T : x.date <= t}
           IN  AccountRow(D, K, T, a, t).balance
                   = SumFunctionOnSet([e \in K |-> AccountDelta(e, a)], K)
                     + SumFunctionOnSet([x \in booked |-> ImpliedDelta(x, a)], booked)
<1>. DEFINE booked == {x \in T : x.date <= t}
<1>1. IsFiniteSet(booked)  BY FS_Subset
<1>2. AccountRow(D, K, T, a, t).balance
          = MapThenSumSet(LAMBDA e : AccountDelta(e, a), K)
            + MapThenSumSet(LAMBDA x : ImpliedDelta(x, a), booked)
  BY Zenon DEF AccountRow
<1>. HIDE DEF booked
<1>3. MapThenSumSet(LAMBDA e : AccountDelta(e, a), K)
          = SumFunctionOnSet([e \in K |-> AccountDelta(e, a)], K)
  BY MovementsAreSummed
<1>4. MapThenSumSet(LAMBDA x : ImpliedDelta(x, a), booked)
          = SumFunctionOnSet([x \in booked |-> ImpliedDelta(x, a)], booked)
  BY <1>1, ImpliedAreSummed
<1>. QED  BY <1>2, <1>3, <1>4, Zenon DEF booked

\* The first account of a kind is an account, and of that kind.
LEMMA FirstIsOfKind ==
    ASSUME NEW D, AreDefinitions(D), NEW kind, NEW t, FirstOfKind(D, kind, t) # None
    PROVE  LET a == FirstOfKind(D, kind, t)
           IN  a \in Entities(D.accounts) /\ AccountAt(D, a, t).kind = kind
<1>. DEFINE E == Entities(D.accounts)
            alike == {a \in E : AccountAt(D, a, t).kind = kind}
            entity == [v \in D.accounts |-> v.entity]
<1>1. alike # {} /\ FirstOfKind(D, kind, t) = Min(alike)  BY DEF FirstOfKind
<1>2. IsFiniteSet(D.accounts) /\ \A v \in D.accounts : v.entity \in Int
  BY DEF AreDefinitions, DefinitionKinds, IsDefinition
<1>3. E = {entity[v] : v \in D.accounts}  BY DEF Entities
<1>4. IsFiniteSet(E)
  <2>. HIDE DEF E, entity
  <2>. QED  BY <1>2, <1>3, ImageIsFinite
<1>5. E \subseteq Int  BY <1>2 DEF Entities
<1>6. alike \in SUBSET Int /\ IsFiniteSet(alike)  BY <1>4, <1>5, FS_Subset
<1>7. alike \subseteq E /\ \A a \in alike : AccountAt(D, a, t).kind = kind  OBVIOUS
<1>. HIDE DEF alike, E
<1>8. \E x \in alike : \A y \in alike : x <= y  BY <1>1, <1>6, LeastOfFinite
<1>9. Min(alike) \in alike  BY <1>8 DEF Min
<1>. QED  BY <1>1, <1>7, <1>9 DEF E

\* What is paid into and out of savings by transfers alone is all that moves.
LEMMA SavingsMoveByTransfer ==
    ASSUME NEW K, K \subseteq Candidates, IsFiniteSet(K), NEW s,
           \A e \in K : e.type \in {"income", "gift", "expense", "paid", "charged"}
                            => e.account # s
    PROVE  SumFunctionOnSet([e \in K |-> AccountDelta(e, s)], K) = SavingsMoved(K, s)
<1>. DEFINE f == [e \in K |-> AccountDelta(e, s)]
            g == [e \in K |-> SavingsDelta(e, s)]
<1>1. ASSUME NEW e \in K PROVE f[e] = g[e]
  <2>1. e.type \in EventTypes  BY CandidatesAreEvents
  <2>2. CASE e.type \in {"opening", "earned", "transfer"}  BY <2>2 DEF SavingsDelta
  <2>3. CASE e.type \in {"income", "gift"}
    <3>1. e.account # s  BY <2>3
    <3>2. AccountDelta(e, s) = 0  BY <2>3, <3>1 DEF AccountDelta
    <3>. QED  BY <2>3, <3>2 DEF SavingsDelta
  <2>4. CASE e.type \in {"expense", "paid", "charged"}
    <3>1. e.account # s  BY <2>4
    <3>2. AccountDelta(e, s) = 0  BY <2>4, <3>1 DEF AccountDelta
    <3>. QED  BY <2>4, <3>2 DEF SavingsDelta
  <2>5. CASE e.type \in {"raised", "drawn"}
    <3>1. AccountDelta(e, s) = 0  BY <2>5 DEF AccountDelta
    <3>. QED  BY <2>5, <3>1 DEF SavingsDelta
  <2>. QED  BY <2>1, <2>2, <2>3, <2>4, <2>5 DEF EventTypes
<1>. HIDE DEF f, g
<1>2. SumFunctionOnSet(f, K) = SumFunctionOnSet(g, K)  BY <1>1, SumsAgree
<1>. QED  BY <1>2, SavingsAreSummed DEF f, g

\* The transfers implied move into savings what the periods that are over set
\* aside, each once.
LEMMA TransfersMoveAllocations ==
    ASSUME NEW D, NEW periods, DOMAIN periods \subseteq PeriodIds,
           \A p \in DOMAIN periods : periods[p].savings \in Int, NEW t \in Days,
           Posted(periods) = {p \in DOMAIN periods : EndExclusive(p) <= t},
           NEW s, NEW c, s # c, s # None, c # None,
           s = FirstOfKind(D, "SAVINGS", t), c = FirstOfKind(D, "CHECKING", t)
    PROVE  LET T == ImpliedTransfers(D, periods, t)
               booked == {x \in T : x.date <= t}
           IN  /\ IsFiniteSet(T)
               /\ SumFunctionOnSet([x \in booked |-> ImpliedDelta(x, s)], booked)
                      = Allocated(periods, Posted(periods))
<1>. DEFINE posted == Posted(periods)
            Q == {p \in posted : periods[p].savings # 0}
            g == [p \in Q |-> [date |-> EndExclusive(p) - 1, amount |-> periods[p].savings,
                               from |-> c, into |-> s]]
            T == ImpliedTransfers(D, periods, t)
            booked == {x \in T : x.date <= t}
            h == [x \in booked |-> ImpliedDelta(x, s)]
            f == [p \in posted |-> periods[p].savings]
<1>1. T = {g[p] : p \in Q}
  <2>1. Q = {q \in DOMAIN periods : periods[q].closed /\ periods[q].savings # 0}
    BY Zenon DEF Posted
  <2>2. T = {[date |-> EndExclusive(p) - 1, amount |-> periods[p].savings,
              from |-> c, into |-> s] : p \in Q}
    BY <2>1 DEF ImpliedTransfers
  <2>. HIDE DEF Q
  <2>. QED  BY <2>2
<1>2. posted \in SUBSET PeriodIds /\ Q \subseteq posted  OBVIOUS
<1>3. IsFiniteSet(posted) /\ IsFiniteSet(Q)  BY <1>2, PeriodIdsAreFinite, FS_Subset
<1>4. \A p \in posted : periods[p].savings \in Int /\ EndExclusive(p) <= t
                         /\ EndExclusive(p) \in Int
  BY <1>2, CalendarIsTyped DEF PeriodIds, EndExclusive
<1>5. IsFiniteSet(T)
  <2>. HIDE DEF T, Q, g
  <2>. QED  BY <1>1, <1>3, ImageIsFinite
<1>6. t \in Int  BY CalendarIsTyped DEF Days
<1>. HIDE DEF posted
<1>7. \A p \in Q : /\ g[p].date = EndExclusive(p) - 1 /\ g[p].amount = periods[p].savings
                   /\ g[p].from = c /\ g[p].into = s
  OBVIOUS
<1>8. \A p \in Q : p \in posted /\ p \in PeriodIds /\ f[p] = periods[p].savings  BY <1>2
<1>. HIDE DEF Q, g, T
<1>9. booked = {g[p] : p \in Q}
  <2>1. ASSUME NEW p \in Q PROVE g[p].date <= t
    <3>. DEFINE end == EndExclusive(p)
                day == g[p].date
    <3>1. end \in Int /\ end <= t  BY Zenon, <1>4, <1>8
    <3>2. day = end - 1  BY Zenon, <1>7
    <3>. HIDE DEF end, day
    <3>3. day <= t  BY <1>6, <3>1, <3>2
    <3>. QED  BY <3>3 DEF day
  <2>. QED  BY Zenon, <1>1, <2>1
<1>10. \A p, q \in Q : g[p] = g[q] => p = q
  <2>. SUFFICES ASSUME NEW p \in Q, NEW q \in Q, g[p] = g[q] PROVE p = q
    OBVIOUS
  <2>1. EndExclusive(p) = EndExclusive(q)
    <3>. DEFINE a == EndExclusive(p)
                b == EndExclusive(q)
    <3>1. a \in Int /\ b \in Int  BY Zenon, <1>4, <1>8
    <3>2. a - 1 = b - 1  BY Zenon, <1>7
    <3>. HIDE DEF a, b
    <3>3. a = b  BY <3>1, <3>2
    <3>. QED  BY <3>3 DEF a, b
  <2>2. p \in PeriodIds /\ q \in PeriodIds  BY Zenon, <1>8
  <2>. QED  BY <2>1, <2>2, CalendarIsTyped DEF PeriodIds, EndExclusive
<1>11. \A p \in Q : f[p] \in Int /\ h[g[p]] = f[p]
  <2>. SUFFICES ASSUME NEW p \in Q PROVE f[p] \in Int /\ h[g[p]] = f[p]
    OBVIOUS
  <2>1. g[p] \in booked  BY <1>9
  <2>2. h[g[p]] = ImpliedDelta(g[p], s)  BY <2>1
  <2>3. ImpliedDelta(g[p], s) = periods[p].savings  BY <1>7 DEF ImpliedDelta
  <2>. QED  BY <1>4, <1>8, <2>2, <2>3
<1>. HIDE DEF booked, h
<1>12. SumFunctionOnSet(h, booked) = SumFunctionOnSet(f, Q)
  <2>. HIDE DEF f
  <2>. QED  BY <1>3, <1>9, <1>10, <1>11, SumOverImage
<1>13. SumFunctionOnSet(f, posted) = SumFunctionOnSet(f, Q)
  <2>. DEFINE R == posted \ Q
  <2>1. Q \cup R = posted /\ Q \cap R = {}  BY <1>2
  <2>2. IsFiniteSet(R)  BY <1>3, FS_Difference
  <2>3. \A p \in R : f[p] = 0  BY <1>4 DEF Q
  <2>4. \A p \in posted : f[p] \in Int  BY <1>4
  <2>. HIDE DEF R, f
  <2>5. SumFunctionOnSet(f, Q \cup R) = SumFunctionOnSet(f, Q) + SumFunctionOnSet(f, R)
    BY <1>3, <2>1, <2>2, <2>4, SumSplits
  <2>. DEFINE zero == 0
  <2>6. zero \in Int /\ \A p \in R : f[p] = zero  BY <2>3
  <2>7. zero * Cardinality(R) = 0  BY <2>2, FS_CardinalityType
  <2>. HIDE DEF zero
  <2>8. SumFunctionOnSet(f, R) = 0  BY <2>2, <2>6, <2>7, SumIsConstant
  <2>9. SumFunctionOnSet(f, Q) \in Int
    <3>1. \A p \in Q : f[p] \in Int  BY <1>8, <2>4
    <3>. QED  BY <1>3, <3>1, SumIsInt
  <2>. QED  BY <2>1, <2>5, <2>8, <2>9
<1>14. Allocated(periods, posted) = SumFunctionOnSet(f, posted)  BY <1>3, AllocatedIsSum
<1>. HIDE DEF f
<1>. QED  BY <1>5, <1>12, <1>13, <1>14 DEF T, booked, h, posted

\* With a savings and a checking account, and savings touched by transfers alone,
\* the account's balance and the summary's tell the same money: the summary takes
\* the draws off, the account does not (_savings_summary, fold_account_balances).
THEOREM SavingsAlwaysAgree == Spec => []SavingsAgree
<1>1. HouseInv => SavingsAgree
  <2>. DEFINE D == definitions
              K == Facts
              periods == shown.periods
              s == FirstOfKind(D, "SAVINGS", asOf)
              c == FirstOfKind(D, "CHECKING", asOf)
              T == ImpliedTransfers(D, periods, asOf)
              booked == {x \in T : x.date <= asOf}
              drawn == Amounts({e \in K : e.type = "drawn"})
              posted == Posted(periods)
              moved == SavingsMoved(K, s)
              put == Allocated(periods, posted)
  <2>. SUFFICES ASSUME HouseInv, s # None, c # None,
                       \A e \in K : e.type \in {"income", "gift", "expense", "paid", "charged"}
                                        => e.account # s
                PROVE  shown.accounts[s].balance = shown.savings.balance + shown.savings.drawn
    BY DEF SavingsAgree
  <2>1. /\ K \subseteq Candidates /\ IsFiniteSet(K) /\ asOf \in Days
        /\ \A f \in K : f.amount \in Int
    BY FactsAreEvents
  <2>2. /\ DOMAIN periods \subseteq PeriodIds
        /\ \A p \in DOMAIN periods : periods[p].savings \in Int
        /\ posted = {p \in DOMAIN periods : EndExclusive(p) <= asOf}
    BY PeriodsAreShown
  <2>3. AreDefinitions(D)  BY DEF HouseInv
  <2>4. /\ shown.accounts = AccountRows(D, K, T, asOf)
        /\ shown.savings = SavingsSummary(K, periods, s)
    BY ShownIsProjected
  <2>. HIDE DEF D, K, periods, T
  <2>5. s \in Entities(D.accounts) /\ AccountAt(D, s, asOf).kind = "SAVINGS"
    BY <2>3, FirstIsOfKind
  <2>6. AccountAt(D, c, asOf).kind = "CHECKING"  BY <2>3, FirstIsOfKind
  <2>7. s # c  BY <2>5, <2>6
  <2>8. shown.accounts[s] = AccountRow(D, K, T, s, asOf)
    <3>. HIDE DEF s
    <3>. QED  BY <2>4, <2>5 DEF AccountRows
  <2>9. shown.savings.balance = moved + put - drawn /\ shown.savings.drawn = drawn
    <3>. HIDE DEF s
    <3>. QED  BY <2>4 DEF SavingsSummary, Posted
  <2>10. /\ IsFiniteSet(T)
         /\ SumFunctionOnSet([x \in booked |-> ImpliedDelta(x, s)], booked) = put
    BY <2>1, <2>2, <2>7, TransfersMoveAllocations DEF T
  <2>. HIDE DEF s, c
  <2>11. AccountRow(D, K, T, s, asOf).balance
             = SumFunctionOnSet([e \in K |-> AccountDelta(e, s)], K)
               + SumFunctionOnSet([x \in booked |-> ImpliedDelta(x, s)], booked)
    BY <2>1, <2>10, BalanceIsSum
  <2>12. SumFunctionOnSet([e \in K |-> AccountDelta(e, s)], K) = moved
    BY <2>1, SavingsMoveByTransfer
  <2>13. moved \in Int  BY <2>1, SavingsMovedIsInt
  <2>14. put \in Int
    <3>1. posted \in SUBSET PeriodIds /\ \A p \in posted : periods[p].savings \in Int  BY <2>2
    <3>2. IsFiniteSet(posted)  BY <3>1, PeriodIdsAreFinite
    <3>. QED  BY <3>1, <3>2, AllocatedIsInt
  <2>15. drawn \in Int  BY <2>1, FS_Subset, AmountsAreInt
  <2>. DEFINE balance == shown.accounts[s].balance
  <2>16. balance = moved + put  BY <2>8, <2>10, <2>11, <2>12
  <2>. HIDE DEF moved, put, drawn, balance
  <2>17. balance = moved + put - drawn + drawn  BY <2>13, <2>14, <2>15, <2>16
  <2>. QED  BY <2>9, <2>17 DEF balance
<1>. QED  BY <1>1, HouseInvHolds, PTL

-----------------------------------------------------------------------------
(* Versions in force: an edit that begins and ends nothing by a day leaves   *)
(* what is in force on that day.                                            *)

\* Two versions that differ in their end alone.
SameTerms(k, v, w) ==
    /\ v.entity = w.entity /\ v.from = w.from
    /\ k = "policies" => v.savings = w.savings
    /\ k = "costs" => /\ v.amount = w.amount /\ v.dueDay = w.dueDay
                      /\ v.payee = w.payee /\ v.category = w.category
Covered(k, V, W, d) ==
    \A v \in InForce(V, d) : \E w \in InForce(W, d) : SameTerms(k, v, w)
InForceAlike(k, V, W, d) == Covered(k, V, W, d) /\ Covered(k, W, V, d)

LEMMA ClosingKeepsTerms ==
    ASSUME NEW k, NEW v, IsDefinition(k, v), NEW end
    PROVE  LET w == [v EXCEPT !.to = end]
           IN  SameTerms(k, v, w) /\ SameTerms(k, w, v) /\ w.to = end
<1>. DEFINE w == [v EXCEPT !.to = end]
<1>1. /\ "to" \in DOMAIN v /\ w.to = end
      /\ \A field \in DOMAIN v : field # "to" => w[field] = v[field]
  BY DEF IsDefinition
<1>. HIDE DEF w
<1>2. SameTerms(k, v, w) /\ SameTerms(k, w, v)  BY <1>1 DEF IsDefinition, SameTerms
<1>. QED  BY <1>1, <1>2 DEF w

\* Of one entity at most one version is in force.
LEMMA OneIsInForce ==
    ASSUME NEW V, AreApart(V), NEW d \in Int, NEW k, \A v \in V : IsDefinition(k, v),
           NEW v \in InForce(V, d), NEW w \in InForce(V, d), v.entity = w.entity
    PROVE  v = w
<1>1. /\ v \in V /\ w \in V /\ v.from \in Int /\ w.from \in Int
      /\ v.to = None \/ v.to \in Int
      /\ w.to = None \/ w.to \in Int
  BY CalendarIsTyped DEF InForce, IsDefinition, Days
<1>2. Overlapping(v, w)  BY <1>1 DEF InForce, IsEffectiveAt, Overlapping
<1>. QED  BY <1>1, <1>2 DEF AreApart

LEMMA EditsLeaveThePast ==
    ASSUME NEW k, NEW V, \A v \in V : IsDefinition(k, v), AreApart(V),
           NEW edit \in Edits, edit.kind = k, CanEdit(V, edit), NEW d \in Int,
           \A v \in Begun(V, Edited(V, edit)) : d < v.from,
           \A v \in Edited(V, edit) \ V : v.to # None => d < v.to
    PROVE  InForceAlike(k, V, Edited(V, edit), d)
<1>. DEFINE W == Edited(V, edit)
            new == edit.version
            end == edit.closeAt
<1>1. /\ IsDefinition(k, new) /\ new \notin V /\ new \in W
      /\ end = None \/ end \in Int
  BY EditsAreDefinitions DEF CanEdit, Edited
<1>2. ASSUME NEW v \in Closed(V, edit)
      PROVE  /\ v \in V /\ v.to = None /\ end \in Int /\ end # None /\ v.from < end
             /\ [v EXCEPT !.to = end] \in W \ V
             /\ SameTerms(k, v, [v EXCEPT !.to = end])
             /\ SameTerms(k, [v EXCEPT !.to = end], v)
  <2>. DEFINE w == [v EXCEPT !.to = end]
  <2>1. /\ v \in V /\ v.to = None /\ end \in Int /\ end # None /\ v.from < end
        /\ v.from \in Int
    BY <1>1, CalendarIsTyped DEF Closed, CanEdit, IsDefinition, Days
  <2>2. w \in W  BY DEF Edited
  <2>3. SameTerms(k, v, w) /\ SameTerms(k, w, v) /\ w.to = end  BY <2>1, ClosingKeepsTerms
  <2>. HIDE DEF w
  <2>4. w \notin V
    <3>. SUFFICES ASSUME w \in V PROVE FALSE
      OBVIOUS
    <3>1. w # v /\ w.entity = v.entity /\ w.from = v.from  BY <2>1, <2>3 DEF SameTerms
    <3>2. Overlapping(v, w)  BY <2>1, <2>3, <3>1 DEF Overlapping
    <3>. QED  BY <2>1, <3>1, <3>2 DEF AreApart
  <2>. QED  BY <2>1, <2>2, <2>3, <2>4 DEF w
<1>3. ASSUME NEW v \in InForce(V, d)
      PROVE  \E w \in InForce(W, d) : SameTerms(k, v, w)
  <2>1. v \in V /\ IsEffectiveAt(v, d)  BY DEF InForce
  <2>2. CASE v \notin Closed(V, edit)
    <3>1. v \in W  BY <2>1, <2>2 DEF Edited
    <3>2. v \in InForce(W, d)  BY <2>1, <3>1 DEF InForce
    <3>. QED  BY <3>2 DEF SameTerms
  <2>3. CASE v \in Closed(V, edit)
    <3>. DEFINE w == [v EXCEPT !.to = end]
    <3>1. w \in W /\ w \notin V /\ SameTerms(k, v, w) /\ w.to = end /\ end # None
      BY <1>2, <2>1, <2>3, ClosingKeepsTerms
    <3>. HIDE DEF w
    <3>2. d < end  BY <3>1
    <3>3. IsEffectiveAt(w, d)  BY <2>1, <3>1, <3>2 DEF IsEffectiveAt, SameTerms
    <3>. QED  BY <3>1, <3>3 DEF InForce
  <2>. QED  BY <2>2, <2>3
<1>4. ASSUME NEW w \in InForce(W, d)
      PROVE  \E v \in InForce(V, d) : SameTerms(k, w, v)
  <2>1. w \in W /\ IsEffectiveAt(w, d)  BY DEF InForce
  <2>2. CASE w \in V
    <3>1. w \in InForce(V, d)  BY <2>1, <2>2 DEF InForce
    <3>. QED  BY <3>1 DEF SameTerms
  <2>3. ASSUME NEW v \in Closed(V, edit), w = [v EXCEPT !.to = end]
        PROVE  \E u \in InForce(V, d) : SameTerms(k, w, u)
    <3>1. v \in V /\ v.to = None /\ SameTerms(k, w, v)  BY <1>2, <2>3
    <3>2. IsEffectiveAt(v, d)  BY <2>1, <3>1 DEF IsEffectiveAt, SameTerms
    <3>. QED  BY <3>1, <3>2 DEF InForce
  <2>4. CASE w = new /\ \A v \in Closed(V, edit) : w # [v EXCEPT !.to = end]
    <3>. DEFINE u == [w EXCEPT !.to = None]
    <3>1. u \in V
      <4>1. w.from <= d /\ w.from \in Int  BY <1>1, <2>1, <2>4, CalendarIsTyped DEF IsEffectiveAt, IsDefinition, Days
      <4>2. w \notin Begun(V, W)  BY <4>1
      <4>. QED  BY <1>1, <2>4, <4>2 DEF Begun
    <3>2. SameTerms(k, w, u) /\ u.to = None  BY <1>1, <2>4, ClosingKeepsTerms
    <3>. HIDE DEF u
    <3>3. /\ w.from \in Int /\ w.from <= d /\ (w.to = None \/ (w.to \in Int /\ d < w.to))
          /\ u.from = w.from /\ u.entity = w.entity /\ w # u
      BY <1>1, <2>1, <2>4, <3>1, <3>2, CalendarIsTyped
      DEF IsEffectiveAt, IsDefinition, Days, SameTerms
    <3>4. CASE u \notin Closed(V, edit)
      <4>1. u \in W  BY <3>1, <3>4 DEF Edited
      <4>2. Overlapping(u, w)  BY <3>2, <3>3 DEF Overlapping
      <4>. QED  BY <2>1, <2>4, <3>3, <4>1, <4>2 DEF CanEdit, VersionsOf
    <3>5. CASE u \in Closed(V, edit)
      <4>. DEFINE x == [u EXCEPT !.to = end]
      <4>1. /\ x \in W /\ SameTerms(k, u, x) /\ x.to = end
            /\ end \in Int /\ end # None /\ u.from < end
        BY <1>2, <3>1, <3>5, ClosingKeepsTerms
      <4>2. x # w  BY <2>4, <3>5
      <4>. HIDE DEF x
      <4>3. x.from = w.from /\ x.entity = w.entity  BY <3>3, <4>1 DEF SameTerms
      <4>4. Overlapping(x, w)  BY <3>3, <4>1, <4>3 DEF Overlapping
      <4>. QED  BY <2>1, <2>4, <4>1, <4>2, <4>3, <4>4 DEF CanEdit, VersionsOf
    <3>. QED  BY <3>4, <3>5
  <2>. QED  BY <2>1, <2>2, <2>3, <2>4 DEF Edited
<1>. QED  BY <1>3, <1>4 DEF InForceAlike, Covered

LEMMA EditsStayApart ==
    ASSUME NEW k, NEW V, \A v \in V : IsDefinition(k, v), AreApart(V),
           NEW edit \in Edits, CanEdit(V, edit)
    PROVE  AreApart(Edited(V, edit))
<1>. DEFINE W == Edited(V, edit)
            c == edit.version.entity
<1>1. ASSUME NEW v \in W, v.entity # c PROVE v \in V
  <2>1. ASSUME NEW u \in Closed(V, edit), v = [u EXCEPT !.to = edit.closeAt] PROVE FALSE
    <3>1. u \in V /\ u.entity = c  BY DEF Closed
    <3>2. SameTerms(k, u, v)  BY <2>1, <3>1, ClosingKeepsTerms
    <3>. QED  BY <1>1, <3>1, <3>2 DEF SameTerms
  <2>. QED  BY <1>1, <2>1 DEF Edited
<1>2. ASSUME NEW v \in W, NEW w \in W, v.entity = w.entity, v # w
      PROVE  ~Overlapping(v, w)
  <2>1. CASE v.entity = c  BY <1>2, <2>1 DEF CanEdit, VersionsOf
  <2>2. CASE v.entity # c  BY <1>1, <1>2, <2>2 DEF AreApart
  <2>. QED  BY <2>1, <2>2
<1>. QED  BY <1>2 DEF AreApart

LEMMA EditsBeginApart ==
    ASSUME NEW V, \A v \in V : IsDefinition("policies", v), BeginApart(V \cup PolicyDrafts),
           NEW edit \in Edits, edit.kind = "policies"
    PROVE  BeginApart(Edited(V, edit) \cup PolicyDrafts)
<1>. DEFINE W == Edited(V, edit) \cup PolicyDrafts
<1>1. ASSUME NEW w \in W
      PROVE  \E v \in V \cup PolicyDrafts : v.from = w.from /\ v.entity = w.entity
  <2>1. ASSUME NEW u \in Closed(V, edit), w = [u EXCEPT !.to = edit.closeAt]
        PROVE  u \in V /\ u.from = w.from /\ u.entity = w.entity
    <3>1. u \in V  BY DEF Closed
    <3>2. SameTerms("policies", u, w)  BY <2>1, <3>1, ClosingKeepsTerms
    <3>. QED  BY <3>1, <3>2 DEF SameTerms
  <2>2. edit.version \in PolicyDrafts  BY DEF PolicyDrafts
  <2>. QED  BY <2>1, <2>2 DEF Edited
<1>. QED  BY <1>1 DEF BeginApart

\* Versions of one definition never overlap.
ApartInv == \A k \in DefinitionKinds : AreApart(definitions[k])
BeginInv == BeginApart(definitions.policies \cup PolicyDrafts)

\* A step leaves the definitions, or makes one edit that is allowed.
StepEdits ==
    \/ definitions' = definitions
    \/ \E edit \in Edits :
          /\ CanEdit(definitions[edit.kind], edit)
          /\ definitions' = [definitions EXCEPT ![edit.kind] = Edited(@, edit)]

LEMMA StepsEdit == ASSUME [Next]_vars PROVE StepEdits
<1>1. CASE Record  BY <1>1 DEF Record, StepEdits
<1>2. CASE Void  BY <1>2 DEF Void, StepEdits
<1>3. CASE EditDefinition  BY <1>3 DEF EditDefinition, StepEdits
<1>4. CASE ReadWhileWriting  BY <1>4 DEF ReadWhileWriting, StepEdits
<1>5. CASE ReadAsOf  BY <1>5 DEF ReadAsOf, StepEdits
<1>6. CASE UNCHANGED vars  BY <1>6 DEF vars, StepEdits
<1>. QED  BY <1>1, <1>2, <1>3, <1>4, <1>5, <1>6 DEF Next

LEMMA ApartInvHolds == Spec => []ApartInv
<1>1. Init => ApartInv  BY HomesDoNotOverlap DEF Init, ApartInv
<1>2. HouseInv /\ ApartInv /\ [Next]_vars => ApartInv'
  <2>. SUFFICES ASSUME HouseInv, ApartInv, [Next]_vars PROVE ApartInv'
    OBVIOUS
  <2>1. CASE definitions' = definitions  BY <2>1 DEF ApartInv
  <2>2. ASSUME NEW edit \in Edits, CanEdit(definitions[edit.kind], edit),
               definitions' = [definitions EXCEPT ![edit.kind] = Edited(@, edit)]
        PROVE  ApartInv'
    <3>. DEFINE k == edit.kind
                V == definitions[k]
    <3>1. k \in DefinitionKinds  BY EditsAreDefinitions
    <3>2. \A v \in V : IsDefinition(k, v)  BY <3>1 DEF HouseInv, AreDefinitions
    <3>3. AreApart(V)  BY <3>1 DEF ApartInv
    <3>4. AreApart(Edited(V, edit))  BY <2>2, <3>2, <3>3, EditsStayApart
    <3>5. /\ definitions'[k] = Edited(V, edit)
          /\ \A j \in DefinitionKinds : j # k => definitions'[j] = definitions[j]
      BY <2>2, <3>1 DEF HouseInv, AreDefinitions
    <3>. HIDE DEF k, V
    <3>. QED  BY <3>4, <3>5 DEF ApartInv
  <2>. QED  BY <2>1, <2>2, StepsEdit DEF StepEdits
<1>. QED  BY <1>1, <1>2, HouseInvHolds, PTL DEF Spec

LEMMA BeginInvHolds == PoliciesBeginApart => (Spec => []BeginInv)
<1>. SUFFICES ASSUME PoliciesBeginApart PROVE Spec => []BeginInv
  OBVIOUS
<1>1. Init => BeginInv  BY DEF Init, BeginInv, PoliciesBeginApart
<1>2. HouseInv /\ BeginInv /\ [Next]_vars => BeginInv'
  <2>. SUFFICES ASSUME HouseInv, BeginInv, [Next]_vars PROVE BeginInv'
    OBVIOUS
  <2>1. CASE definitions' = definitions  BY <2>1 DEF BeginInv
  <2>2. ASSUME NEW edit \in Edits,
               definitions' = [definitions EXCEPT ![edit.kind] = Edited(@, edit)]
        PROVE  BeginInv'
    <3>. DEFINE V == definitions.policies
    <3>1. /\ edit.kind \in DefinitionKinds /\ DOMAIN definitions = DefinitionKinds
          /\ \A v \in V : IsDefinition("policies", v)
      BY EditsAreDefinitions DEF HouseInv, AreDefinitions, DefinitionKinds
    <3>2. CASE edit.kind = "policies"
      <4>1. definitions'.policies = Edited(V, edit)  BY <2>2, <3>1, <3>2 DEF DefinitionKinds
      <4>2. BeginApart(Edited(V, edit) \cup PolicyDrafts)
        BY <3>1, <3>2, EditsBeginApart DEF BeginInv
      <4>. QED  BY <4>1, <4>2 DEF BeginInv
    <3>3. CASE edit.kind # "policies"
      <4>1. definitions'.policies = V  BY <2>2, <3>1, <3>3 DEF DefinitionKinds
      <4>. QED  BY <4>1 DEF BeginInv
    <3>. QED  BY <3>2, <3>3
  <2>. QED  BY <2>1, <2>2, StepsEdit DEF StepEdits
<1>. QED  BY <1>1, <1>2, HouseInvHolds, PTL DEF Spec

LEMMA StepsLeaveThePast ==
    ASSUME HouseInv, ApartInv, [Next]_vars, NEW d \in Int,
           \A x \in Touched(definitions, definitions') : d < x,
           NEW k \in DefinitionKinds
    PROVE  InForceAlike(k, definitions[k], definitions'[k], d)
<1>. DEFINE V == definitions[k]
            W == definitions'[k]
<1>1. CASE W = V
  <2>. HIDE DEF V, W
  <2>1. \A v \in InForce(V, d) : SameTerms(k, v, v)  BY DEF SameTerms
  <2>2. InForceAlike(k, V, V, d)  BY <2>1 DEF InForceAlike, Covered
  <2>. QED  BY <1>1, <2>2 DEF V, W
<1>2. ASSUME NEW edit \in Edits, edit.kind = k, CanEdit(V, edit), W = Edited(V, edit)
      PROVE  InForceAlike(k, V, W, d)
  <2>1. \A v \in V : IsDefinition(k, v)  BY DEF HouseInv, AreDefinitions
  <2>2. AreApart(V)  BY DEF ApartInv
  <2>3. \A v \in Begun(V, W) : d < v.from
    <3>1. ASSUME NEW v \in Begun(V, W) PROVE v.from \in Touched(definitions, definitions')
      <4>1. v.from \in {u.from : u \in Begun(V, W)} \cup ({u.to : u \in W \ V} \ {None})
        OBVIOUS
      <4>. QED  BY <4>1 DEF Touched
    <3>. QED  BY <3>1
  <2>4. \A v \in W \ V : v.to # None => d < v.to
    <3>1. ASSUME NEW v \in W \ V, v.to # None PROVE v.to \in Touched(definitions, definitions')
      <4>1. v.to \in {u.from : u \in Begun(V, W)} \cup ({u.to : u \in W \ V} \ {None})
        BY <3>1
      <4>. QED  BY <4>1 DEF Touched
    <3>. QED  BY <3>1
  <2>. HIDE DEF V, W
  <2>. QED  BY <1>2, <2>1, <2>2, <2>3, <2>4, EditsLeaveThePast
<1>3. \/ W = V
      \/ \E edit \in Edits : edit.kind = k /\ CanEdit(V, edit) /\ W = Edited(V, edit)
  <2>1. DOMAIN definitions = DefinitionKinds  BY DEF HouseInv, AreDefinitions
  <2>2. CASE definitions' = definitions  BY <2>2
  <2>3. ASSUME NEW edit \in Edits, CanEdit(definitions[edit.kind], edit),
               definitions' = [definitions EXCEPT ![edit.kind] = Edited(@, edit)]
        PROVE  \/ W = V
               \/ edit.kind = k /\ CanEdit(V, edit) /\ W = Edited(V, edit)
    BY <2>1, <2>3
  <2>. QED  BY <2>2, <2>3, StepsEdit DEF StepEdits
<1>. QED  BY <1>1, <1>2, <1>3

\* What is expected of a month is what the costs in force as it starts call for.
LEMMA CostsInForceAreExpected ==
    ASSUME NEW D, AreDefinitions(D), AreApart(D.costs), NEW p \in PeriodIds
    PROVE  Expected(D, p) = {Forecast(v, p) : v \in InForce(D.costs, Start(p))}
<1>. DEFINE d == Start(p)
            current == InForce(D.costs, d)
<1>1. d \in Int  BY CalendarIsTyped DEF PeriodIds, Start
<1>2. \A v \in D.costs : IsDefinition("costs", v)  BY DEF AreDefinitions, DefinitionKinds
<1>3. Dated(current)  BY <1>2 DEF Dated, InForce, IsDefinition
<1>4. Expected(D, p) = {Forecast(LatestOf(VersionsOf(current, c)), p) : c \in Entities(current)}
  BY DEF Expected
<1>5. ASSUME NEW v \in current PROVE LatestOf(VersionsOf(current, v.entity)) = v
  <2>. DEFINE W == VersionsOf(current, v.entity)
              w == LatestOf(W)
  <2>1. v \in W /\ W \subseteq current /\ \A u \in W : u.entity = v.entity  BY DEF VersionsOf
  <2>2. Dated(W)  BY <1>3, <2>1 DEF Dated
  <2>. HIDE DEF W
  <2>3. w \in W  BY <2>1, <2>2, LatestIsIn
  <2>. HIDE DEF w
  <2>4. w \in current /\ w.entity = v.entity  BY <2>1, <2>3
  <2>. HIDE DEF d
  <2>5. w = v  BY <1>1, <1>2, <2>4, OneIsInForce
  <2>. QED  BY <2>5 DEF w, W
<1>. HIDE DEF current
<1>6. Entities(current) = {v.entity : v \in current}  BY DEF Entities
<1>7. Expected(D, p) = {Forecast(v, p) : v \in current}
  <2>1. ASSUME NEW x \in Expected(D, p) PROVE \E v \in current : x = Forecast(v, p)
    <3>1. PICK c \in Entities(current) : x = Forecast(LatestOf(VersionsOf(current, c)), p)
      BY <1>4
    <3>2. PICK v \in current : c = v.entity  BY <1>6
    <3>. QED  BY <1>5, <3>1, <3>2
  <2>2. ASSUME NEW v \in current PROVE Forecast(v, p) \in Expected(D, p)
    <3>1. v.entity \in Entities(current)  BY <1>6
    <3>. QED  BY <1>4, <1>5, <3>1
  <2>. QED  BY <2>1, <2>2
<1>. QED  BY <1>7 DEF current

LEMMA ForecastsAgree ==
    ASSUME NEW D, NEW E, AreDefinitions(D), AreDefinitions(E),
           AreApart(D.costs), AreApart(E.costs), NEW p \in PeriodIds,
           InForceAlike("costs", D.costs, E.costs, Start(p))
    PROVE  Expected(D, p) = Expected(E, p)
<1>1. /\ Expected(D, p) = {Forecast(v, p) : v \in InForce(D.costs, Start(p))}
      /\ Expected(E, p) = {Forecast(v, p) : v \in InForce(E.costs, Start(p))}
  BY CostsInForceAreExpected
<1>2. ASSUME NEW v, NEW w, SameTerms("costs", v, w) PROVE Forecast(v, p) = Forecast(w, p)
  BY <1>2 DEF SameTerms, Forecast
<1>. QED  BY <1>1, <1>2 DEF InForceAlike, Covered

LEMMA PoliciesAgree ==
    ASSUME NEW D, NEW E, AreDefinitions(D), AreDefinitions(E), AreApart(D.policies),
           BeginApart(D.policies), NEW p \in PeriodIds,
           InForceAlike("policies", D.policies, E.policies, Start(p))
    PROVE  Policy(D, p).savings = Policy(E, p).savings
<1>. DEFINE d == Start(p)
            V == InForce(D.policies, d)
            W == InForce(E.policies, d)
<1>1. /\ Policy(D, p) = IF V = {} THEN FallbackPolicy ELSE LatestOf(V)
      /\ Policy(E, p) = IF W = {} THEN FallbackPolicy ELSE LatestOf(W)
  BY DEF Policy, VersionAt
<1>2. /\ \A v \in D.policies : IsDefinition("policies", v)
      /\ \A v \in E.policies : IsDefinition("policies", v)
  BY DEF AreDefinitions, DefinitionKinds
<1>3. Dated(V) /\ Dated(W)  BY <1>2 DEF Dated, InForce, IsDefinition
<1>4. /\ \A v \in V : \E w \in W : SameTerms("policies", v, w)
      /\ \A w \in W : \E v \in V : SameTerms("policies", w, v)
  BY DEF InForceAlike, Covered
<1>5. \A v, w \in V : v.from = w.from => v = w
  <2>1. d \in Int  BY CalendarIsTyped DEF PeriodIds, Start
  <2>2. V \subseteq D.policies  BY DEF InForce
  <2>. HIDE DEF d
  <2>3. ASSUME NEW v \in V, NEW w \in V, v.from = w.from PROVE v = w
    <3>1. v.entity = w.entity  BY <2>2, <2>3 DEF BeginApart
    <3>. QED  BY <1>2, <2>1, <3>1, OneIsInForce
  <2>. QED  BY <2>3
<1>. HIDE DEF V, W
<1>6. CASE V = {}  BY <1>1, <1>4, <1>6
<1>7. CASE V # {}
  <2>1. W # {}  BY <1>4, <1>7
  <2>. DEFINE v == LatestOf(V)
              w == LatestOf(W)
  <2>2. /\ v \in V /\ \A x \in V : x.from <= v.from
        /\ w \in W /\ \A x \in W : x.from <= w.from
    BY <1>3, <1>7, <2>1, LatestIsIn
  <2>. HIDE DEF v, w
  <2>3. PICK x \in V : SameTerms("policies", w, x)  BY <1>4, <2>2
  <2>4. PICK y \in W : SameTerms("policies", v, y)  BY <1>4, <2>2
  <2>5. \A u \in V : u.from \in Int  BY <1>3, CalendarIsTyped DEF Dated, Days
  <2>6. x.from = v.from
    <3>1. x.from <= v.from /\ w.from = x.from  BY <2>2, <2>3 DEF SameTerms
    <3>2. v.from = y.from /\ y.from <= w.from  BY <2>2, <2>4 DEF SameTerms
    <3>. QED  BY <2>2, <2>5, <3>1, <3>2
  <2>7. x = v  BY <1>5, <2>2, <2>6
  <2>8. w.savings = v.savings  BY <2>3, <2>7 DEF SameTerms
  <2>. QED  BY <1>1, <1>7, <2>1, <2>8 DEF v, w
<1>. QED  BY <1>6, <1>7

-----------------------------------------------------------------------------
(* What falls due in a month depends on the bills of that month alone.      *)

RaisedIn(K, p) == {e \in K : e.type = "raised" /\ PeriodFor(e.due) = p}
LastIn(K, p) == {e \in RaisedIn(K, p) : \A f \in RaisedIn(K, p) : Before(e, f) => ~Matches(e, f)}
ExpectedIn(D, K, p) == {x \in Expected(D, p) : \A e \in LastIn(K, p) : ~Matches(x, e)}

\* A row without what was paid.
Bare(source, b) ==
    [source |-> source, obligation |-> b.obligation, recurring |-> b.recurring, due |-> b.due,
     payee |-> b.payee, category |-> b.category, amount |-> b.amount]
BareRows(D, K, p) == {Bare("EXPECTED", x) : x \in ExpectedIn(D, K, p)}
                        \cup {Bare("RAISED", e) : e \in LastIn(K, p)}

LEMMA BareRowsAreRows ==
    ASSUME NEW K, NEW source, NEW b
    PROVE  /\ Row(K, source, b) = Row(K, Bare(source, b).source, Bare(source, b))
           /\ Bare(source, b) = Bare(Row(K, source, b).source, Row(K, source, b))
  BY DEF Bare, Row

LEMMA MonthsKeepTheirBills ==
    ASSUME OneOffsKeepTheirPeriod, NEW D, NEW K, NEW t, IsRead(D, K, t),
           NEW p \in Window(K, t), NEW r
    PROVE  r \in ObligationRows(D, K, t) /\ r.period = p
              <=> \/ \E x \in ExpectedIn(D, K, p) : r = Row(K, "EXPECTED", x)
                  \/ \E e \in LastIn(K, p) : r = Row(K, "RAISED", e)
<1>. DEFINE raised == {e \in K : e.type = "raised" /\ PeriodFor(e.due) \in Window(K, t)}
            last == {e \in raised : \A f \in raised : Before(e, f) => ~Matches(e, f)}
            expected == {x \in UNION {Expected(D, q) : q \in Window(K, t)} :
                            \A e \in last : ~Matches(x, e)}
<1>1. r \in ObligationRows(D, K, t) <=>
          \/ \E x \in expected : r = Row(K, "EXPECTED", x)
          \/ \E e \in last : r = Row(K, "RAISED", e)
  BY DEF ObligationRows
<1>2. \A source, b : Row(K, source, b).period = PeriodFor(b.due)  BY DEF Row
<1>3. RaisedIn(K, p) \subseteq raised  BY DEF RaisedIn
<1>4. \A e \in RaisedIn(K, p) : \A f \in raised : Matches(e, f) => f \in RaisedIn(K, p)
  <2>. SUFFICES ASSUME NEW e \in RaisedIn(K, p), NEW f \in raised, Matches(e, f)
                PROVE  PeriodFor(f.due) = p
    BY DEF RaisedIn
  <2>1. e \in Candidates /\ f \in Candidates /\ PeriodFor(e.due) = p
    BY DEF RaisedIn, IsRead
  <2>. QED  BY <2>1 DEF Matches, OneOffsKeepTheirPeriod, RaisedIn
<1>5. \A e : e \in LastIn(K, p) <=> e \in last /\ PeriodFor(e.due) = p
  <2>1. ASSUME NEW e \in LastIn(K, p) PROVE e \in last /\ PeriodFor(e.due) = p
    <3>1. e \in RaisedIn(K, p) /\ e \in raised /\ PeriodFor(e.due) = p
      BY <1>3 DEF LastIn, RaisedIn
    <3>2. \A f \in raised : Before(e, f) => ~Matches(e, f)  BY <1>4, <3>1 DEF LastIn
    <3>. QED  BY <3>1, <3>2
  <2>2. ASSUME NEW e \in last, PeriodFor(e.due) = p PROVE e \in LastIn(K, p)
    BY <1>3, <2>2 DEF LastIn, RaisedIn
  <2>. QED  BY <2>1, <2>2
<1>6. \A q \in Window(K, t) : \A x \in Expected(D, q) :
          /\ PeriodFor(x.due) = q /\ x.recurring # None
  <2>. SUFFICES ASSUME NEW q \in Window(K, t), NEW x \in Expected(D, q)
                PROVE  PeriodFor(x.due) = q /\ x.recurring # None
    OBVIOUS
  <2>1. q \in PeriodIds /\ AreDefinitions(D)  BY WindowIsRight DEF IsRead
  <2>2. PICK cost \in D.costs : x = Forecast(cost, q)  BY <2>1, ForecastsAreBills
  <2>3. IsDefinition("costs", cost)  BY <2>1 DEF AreDefinitions, DefinitionKinds
  <2>4. x.recurring # None  BY <2>2, <2>3 DEF Forecast, IsDefinition
  <2>. QED  BY <2>1, <2>4, ForecastsAreBills
<1>7. \A x : x \in ExpectedIn(D, K, p) <=> x \in expected /\ PeriodFor(x.due) = p
  <2>1. ASSUME NEW x \in ExpectedIn(D, K, p) PROVE x \in expected /\ PeriodFor(x.due) = p
    <3>1. x \in Expected(D, p) /\ \A e \in LastIn(K, p) : ~Matches(x, e)  BY DEF ExpectedIn
    <3>2. PeriodFor(x.due) = p /\ x.recurring # None  BY <1>6, <3>1
    <3>3. \A e \in last : ~Matches(x, e)  BY <1>5, <3>1, <3>2 DEF Matches
    <3>. QED  BY <3>1, <3>2, <3>3
  <2>2. ASSUME NEW x \in expected, PeriodFor(x.due) = p PROVE x \in ExpectedIn(D, K, p)
    <3>1. PICK q \in Window(K, t) : x \in Expected(D, q)  OBVIOUS
    <3>2. q = p  BY <1>6, <2>2, <3>1
    <3>3. \A e \in LastIn(K, p) : ~Matches(x, e)  BY <1>5
    <3>. QED  BY <3>1, <3>2, <3>3 DEF ExpectedIn
  <2>. QED  BY <2>1, <2>2
<1>. HIDE DEF raised, last, expected
<1>. QED  BY <1>1, <1>2, <1>5, <1>7

\* What falls due in a month is the sum of its bills, paid or not.
LEMMA DueIsOfTheMonth ==
    ASSUME OneOffsKeepTheirPeriod, NEW D, NEW K, NEW t, IsRead(D, K, t), NEW p \in Window(K, t)
    PROVE  Amounts({r \in ObligationRows(D, K, t) : r.period = p})
               = SumFunctionOnSet([c \in BareRows(D, K, p) |-> c.amount], BareRows(D, K, p))
<1>. DEFINE bills == {r \in ObligationRows(D, K, t) : r.period = p}
            C == BareRows(D, K, p)
            f == [r \in bills |-> r.amount]
            g == [r \in bills |-> Bare(r.source, r)]
            h == [c \in C |-> c.amount]
<1>1. IsFiniteSet(bills)  BY RowsAreFinite, FS_Subset
<1>2. \A r \in bills : r.amount \in Int  BY RowsAreTyped
<1>3. ASSUME NEW r \in bills
      PROVE  /\ Bare(r.source, r) \in C
             /\ r = Row(K, Bare(r.source, r).source, Bare(r.source, r))
  <2>1. CASE \E x \in ExpectedIn(D, K, p) : r = Row(K, "EXPECTED", x)
    <3>1. PICK x \in ExpectedIn(D, K, p) : r = Row(K, "EXPECTED", x)  BY <2>1
    <3>2. Bare(r.source, r) = Bare("EXPECTED", x)  BY <3>1, BareRowsAreRows
    <3>3. Bare("EXPECTED", x) \in C  BY DEF BareRows
    <3>. QED  BY <3>1, <3>2, <3>3, BareRowsAreRows
  <2>2. CASE \E e \in LastIn(K, p) : r = Row(K, "RAISED", e)
    <3>1. PICK e \in LastIn(K, p) : r = Row(K, "RAISED", e)  BY <2>2
    <3>2. Bare(r.source, r) = Bare("RAISED", e)  BY <3>1, BareRowsAreRows
    <3>3. Bare("RAISED", e) \in C  BY DEF BareRows
    <3>. QED  BY <3>1, <3>2, <3>3, BareRowsAreRows
  <2>. QED  BY <2>1, <2>2, MonthsKeepTheirBills
<1>4. ASSUME NEW c \in C PROVE \E r \in bills : c = Bare(r.source, r)
  <2>1. CASE \E x \in ExpectedIn(D, K, p) : c = Bare("EXPECTED", x)
    <3>1. PICK x \in ExpectedIn(D, K, p) : c = Bare("EXPECTED", x)  BY <2>1
    <3>2. Row(K, "EXPECTED", x) \in bills  BY MonthsKeepTheirBills
    <3>. QED  BY <3>1, <3>2, BareRowsAreRows
  <2>2. CASE \E e \in LastIn(K, p) : c = Bare("RAISED", e)
    <3>1. PICK e \in LastIn(K, p) : c = Bare("RAISED", e)  BY <2>2
    <3>2. Row(K, "RAISED", e) \in bills  BY MonthsKeepTheirBills
    <3>. QED  BY <3>1, <3>2, BareRowsAreRows
  <2>. QED  BY <2>1, <2>2 DEF BareRows
<1>5. \A r \in bills : Bare(r.source, r).amount = r.amount  BY DEF Bare
<1>. HIDE DEF bills, C
<1>6. C = {g[r] : r \in bills}  BY <1>3, <1>4
<1>7. \A r, q \in bills : g[r] = g[q] => r = q
  <2>. SUFFICES ASSUME NEW r \in bills, NEW q \in bills, g[r] = g[q] PROVE r = q
    OBVIOUS
  <2>1. Bare(r.source, r) = Bare(q.source, q)  OBVIOUS
  <2>. QED  BY <1>3, <2>1
<1>8. \A r \in bills : f[r] \in Int /\ h[g[r]] = f[r]  BY <1>2, <1>3, <1>5
<1>. HIDE DEF f, g, h
<1>9. SumFunctionOnSet(h, C) = SumFunctionOnSet(f, bills)
  BY <1>1, <1>6, <1>7, <1>8, SumOverImage
<1>10. Amounts(bills) = SumFunctionOnSet(f, bills)  BY <1>1, AmountsIsSum DEF f
<1>. QED  BY <1>9, <1>10 DEF bills, C, h

\* What a period divides: what came in, and what fell due.
CameIn(K, p) == Amounts(Of(K, "income", p)) + Amounts(Of(K, "gift", p))
FallsDue(D, K, p) ==
    SumFunctionOnSet([c \in BareRows(D, K, p) |-> c.amount], BareRows(D, K, p))

HasFigures(period, income, due, share) ==
    /\ period.allocatable = income /\ period.due = due
    /\ period.savings = AllocatePeriod(income, due, share).savings
    /\ period.discretionary = AllocatePeriod(income, due, share).discretionary

\* The figures of every period shown are those of its own month.
FiguresInv ==
    /\ IsRead(definitions, Facts, asOf)
    /\ DOMAIN shown.periods = Window(Facts, asOf)
    /\ \A p \in DOMAIN shown.periods :
          HasFigures(shown.periods[p], CameIn(Facts, p), FallsDue(definitions, Facts, p),
                     Policy(definitions, p).savings)

LEMMA PeriodsHaveFigures ==
    ASSUME NEW D, NEW K, NEW t, NEW rows, NEW statements, NEW p
    PROVE  HasFigures(Period(D, K, t, rows, statements, p), CameIn(K, p),
                      Amounts({r \in rows : r.period = p}), Policy(D, p).savings)
<1>. DEFINE period == Period(D, K, t, rows, statements, p)
            income == Amounts(Of(K, "income", p))
            gifts == Amounts(Of(K, "gift", p))
            bills == {r \in rows : r.period = p}
            shares == AllocatePeriod(income + gifts, Amounts(bills), Policy(D, p).savings)
<1>1. /\ period.allocatable = income + gifts /\ period.due = Amounts(bills)
      /\ period.savings = shares.savings /\ period.discretionary = shares.discretionary
  BY Zenon DEF Period
<1>2. income + gifts = CameIn(K, p)  BY DEF CameIn
<1>. HIDE DEF period, income, gifts, bills
<1>3. HasFigures(period, CameIn(K, p), Amounts(bills), Policy(D, p).savings)
  BY <1>1, <1>2, Zenon DEF HasFigures
<1>. QED  BY <1>3 DEF period, bills

LEMMA FiguresAreShown == ASSUME OneOffsKeepTheirPeriod, HouseInv PROVE FiguresInv
<1>1. IsRead(definitions, Facts, asOf)  BY FactsAreRead
<1>. DEFINE rows == ObligationRows(definitions, Facts, asOf)
<1>2. /\ DOMAIN shown.periods = Window(Facts, asOf)
      /\ \A p \in DOMAIN shown.periods :
            shown.periods[p] = Period(definitions, Facts, asOf, rows, shown.statements, p)
  BY ShownIsProjected
<1>3. ASSUME NEW p \in DOMAIN shown.periods
      PROVE  HasFigures(shown.periods[p], CameIn(Facts, p), FallsDue(definitions, Facts, p),
                        Policy(definitions, p).savings)
  <2>1. Amounts({r \in rows : r.period = p}) = FallsDue(definitions, Facts, p)
    BY <1>1, <1>2, <1>3, DueIsOfTheMonth DEF FallsDue
  <2>. HIDE DEF rows
  <2>2. HasFigures(shown.periods[p], CameIn(Facts, p), Amounts({r \in rows : r.period = p}),
                   Policy(definitions, p).savings)
    BY <1>2, <1>3, PeriodsHaveFigures
  <2>. QED  BY <2>1, <2>2
<1>. QED  BY <1>1, <1>2, <1>3 DEF FiguresInv

LEMMA FiguresInvHolds == OneOffsKeepTheirPeriod => (Spec => []FiguresInv)
<1>. SUFFICES ASSUME OneOffsKeepTheirPeriod PROVE Spec => []FiguresInv
  OBVIOUS
<1>1. HouseInv => FiguresInv  BY FiguresAreShown
<1>. QED  BY <1>1, HouseInvHolds, PTL

\* Events and definitions that agree about a month agree about its figures.
LEMMA FiguresAgree ==
    ASSUME NEW D, NEW E, NEW K, NEW L, NEW p, Expected(D, p) = Expected(E, p),
           \A type \in {"income", "gift"} : Of(K, type, p) = Of(L, type, p),
           RaisedIn(K, p) = RaisedIn(L, p)
    PROVE  CameIn(K, p) = CameIn(L, p) /\ FallsDue(D, K, p) = FallsDue(E, L, p)
<1>1. CameIn(K, p) = CameIn(L, p)  BY DEF CameIn
<1>2. LastIn(K, p) = LastIn(L, p)  BY DEF LastIn
<1>3. ExpectedIn(D, K, p) = ExpectedIn(E, L, p)  BY <1>2 DEF ExpectedIn
<1>4. BareRows(D, K, p) = BareRows(E, L, p)  BY <1>2, <1>3 DEF BareRows
<1>. QED  BY <1>1, <1>4 DEF FallsDue

\* A period's allocation is its own (PLAN.md 6.3 and 8.3): no event but its income,
\* its gifts and its bills moves it, nor a void of another, a later read, or a
\* version that begins or ends after its start, whatever the history.
THEOREM AllocationsAreLocal ==
    OneOffsKeepTheirPeriod /\ PoliciesBeginApart => (Spec => AllocationIsLocal)
<1>. SUFFICES ASSUME OneOffsKeepTheirPeriod, PoliciesBeginApart PROVE Spec => AllocationIsLocal
  OBVIOUS
<1>. DEFINE A == \A p \in DOMAIN shown.periods \cap DOMAIN shown'.periods :
                    /\ \A e \in Changed :
                          e.type \in {"income", "gift", "raised"} => PeriodFor(PeriodDate(e)) # p
                    /\ \A d \in Touched(definitions, definitions') : Start(p) < d
                    => \A field \in {"allocatable", "due", "savings", "discretionary"} :
                          shown'.periods[p][field] = shown.periods[p][field]
<1>1. /\ HouseInv /\ ApartInv /\ BeginInv /\ FiguresInv /\ ApartInv' /\ FiguresInv'
      /\ [Next]_vars
      => [A]_vars
  <2>. SUFFICES ASSUME HouseInv, ApartInv, BeginInv, FiguresInv, ApartInv', FiguresInv',
                       [Next]_vars,
                       NEW p \in DOMAIN shown.periods \cap DOMAIN shown'.periods,
                       \A e \in Changed :
                          e.type \in {"income", "gift", "raised"} => PeriodFor(PeriodDate(e)) # p,
                       \A d \in Touched(definitions, definitions') : Start(p) < d
                PROVE  \A field \in {"allocatable", "due", "savings", "discretionary"} :
                          shown'.periods[p][field] = shown.periods[p][field]
    OBVIOUS
  <2>. DEFINE K == Facts
              L == Facts'
              D == definitions
              E == definitions'
  <2>1. p \in PeriodIds /\ Start(p) \in Int
    <3>1. p \in Window(Facts, asOf)  BY DEF FiguresInv
    <3>2. p \in PeriodIds  BY <3>1, WindowIsRight DEF FiguresInv, IsRead
    <3>. QED  BY <3>2, CalendarIsTyped DEF PeriodIds, Start
  <2>2. /\ InForceAlike("costs", D.costs, E.costs, Start(p))
        /\ InForceAlike("policies", D.policies, E.policies, Start(p))
    BY <2>1, StepsLeaveThePast DEF DefinitionKinds
  <2>3. AreDefinitions(D) /\ AreDefinitions(E)  BY DEF FiguresInv, IsRead
  <2>4. AreApart(D.costs) /\ AreApart(E.costs) /\ AreApart(D.policies)
    BY DEF ApartInv, DefinitionKinds
  <2>5. BeginApart(D.policies)  BY DEF BeginInv, BeginApart
  <2>6. \A e \in (K \ L) \cup (L \ K) :
            e.type \in {"income", "gift", "raised"} => PeriodFor(PeriodDate(e)) # p
    BY DEF Changed
  <2>7. /\ HasFigures(shown.periods[p], CameIn(K, p), FallsDue(D, K, p), Policy(D, p).savings)
        /\ HasFigures(shown'.periods[p], CameIn(L, p), FallsDue(E, L, p), Policy(E, p).savings)
    BY DEF FiguresInv
  <2>. HIDE DEF K, L, D, E
  <2>8. \A type \in {"income", "gift"} : Of(K, type, p) = Of(L, type, p)
    BY <2>6 DEF Of, PeriodDate
  <2>9. RaisedIn(K, p) = RaisedIn(L, p)  BY <2>6 DEF RaisedIn, PeriodDate
  <2>10. Expected(D, p) = Expected(E, p)  BY <2>1, <2>2, <2>3, <2>4, ForecastsAgree
  <2>11. Policy(D, p).savings = Policy(E, p).savings
    BY <2>1, <2>2, <2>3, <2>4, <2>5, PoliciesAgree
  <2>12. CameIn(K, p) = CameIn(L, p) /\ FallsDue(D, K, p) = FallsDue(E, L, p)
    BY <2>8, <2>9, <2>10, FiguresAgree
  <2>. QED  BY <2>7, <2>11, <2>12 DEF HasFigures
<1>2. AllocationIsLocal <=> [][A]_vars  BY DEF AllocationIsLocal
<1>. HIDE DEF A
<1>. QED  BY <1>1, <1>2, HouseInvHolds, ApartInvHolds, BeginInvHolds, FiguresInvHolds, PTL DEF Spec

-----------------------------------------------------------------------------
(* The same day asked for again.                                           *)

\* Of the accounts alone the projection reads more than what is in force.
LEMMA AccountsDecide ==
    ASSUME NEW D, NEW E, D.accounts = E.accounts
    PROVE  /\ Entities(D.accounts) = Entities(E.accounts)
           /\ \A a, d : AccountAt(D, a, d) = AccountAt(E, a, d) /\ Timing(D, a, d) = Timing(E, a, d)
           /\ \A kind, d : FirstOfKind(D, kind, d) = FirstOfKind(E, kind, d)
<1>1. \A a, d : AccountAt(D, a, d) = AccountAt(E, a, d)  BY DEF AccountAt
<1>2. \A a, d : Timing(D, a, d) = Timing(E, a, d)  BY <1>1 DEF Timing
<1>3. ASSUME NEW kind, NEW d PROVE FirstOfKind(D, kind, d) = FirstOfKind(E, kind, d)
  <2>1. {a \in Entities(D.accounts) : AccountAt(D, a, d).kind = kind}
            = {a \in Entities(E.accounts) : AccountAt(E, a, d).kind = kind}
    BY <1>1
  <2>. QED  BY <2>1, Zenon DEF FirstOfKind
<1>. QED  BY <1>1, <1>2, <1>3

LEMMA StatementsAgree ==
    ASSUME NEW D, NEW E, D.accounts = E.accounts, NEW K, NEW t
    PROVE  Statements(D, K, t) = Statements(E, K, t)
<1>1. \A a : AccountStatements(D, K, a, t) = AccountStatements(E, K, a, t)
  <2>1. \A a : AccountAt(D, a, t) = AccountAt(E, a, t)  BY AccountsDecide
  <2>. QED  BY <2>1 DEF AccountStatements
<1>. DEFINE rows(F, a) == StatementRows(a, AccountStatements(F, K, a, t))
<1>2. \A a : rows(D, a) = rows(E, a)  BY <1>1
<1>3. /\ Statements(D, K, t) = UNION {rows(D, a) : a \in Entities(D.accounts)}
      /\ Statements(E, K, t) = UNION {rows(E, a) : a \in Entities(E.accounts)}
  BY Zenon DEF Statements
<1>4. Entities(D.accounts) = Entities(E.accounts)  BY AccountsDecide
<1>. HIDE DEF rows
<1>. QED  BY <1>2, <1>3, <1>4

LEMMA SpendingAgrees ==
    ASSUME NEW D, NEW E, D.accounts = E.accounts, NEW K, NEW statements, NEW p
    PROVE  Spending(D, K, statements, p) = Spending(E, K, statements, p)
<1>. DEFINE purchases(F) == {e \in Of(K, "expense", p) :
                                Timing(F, e.account, e.date) # "AT_STATEMENT_PAYMENT"}
            payments(F) == {e \in Of(K, "transfer", p) :
                                Timing(F, e.into, e.date) = "AT_STATEMENT_PAYMENT"}
            bearing(F) == {c \in statements : /\ ClosePeriod(c) = p
                                              /\ Timing(F, c.account, c.start) = "AT_PURCHASE"}
<1>1. /\ purchases(D) = purchases(E) /\ payments(D) = payments(E) /\ bearing(D) = bearing(E)
  BY AccountsDecide
<1>2. \A F : Spending(F, K, statements, p)
                 = Amounts(purchases(F)) + Amounts(payments(F))
                   + MapThenSumSet(LAMBDA c : c.interest, bearing(F))
  BY Zenon DEF Spending
<1>. HIDE DEF purchases, payments, bearing
<1>. QED  BY <1>1, <1>2, Zenon

LEMMA PeriodsAgree ==
    ASSUME NEW D, NEW E, D.accounts = E.accounts, NEW K, NEW t, NEW rows, NEW statements,
           NEW p, Policy(D, p).savings = Policy(E, p).savings
    PROVE  Period(D, K, t, rows, statements, p) = Period(E, K, t, rows, statements, p)
<1>1. Spending(D, K, statements, p) = Spending(E, K, statements, p)  BY SpendingAgrees
<1>. QED  BY <1>1, Zenon DEF Period

LEMMA RowsAgree ==
    ASSUME NEW D, NEW E, NEW K, NEW t, \A p \in Window(K, t) : Expected(D, p) = Expected(E, p)
    PROVE  ObligationRows(D, K, t) = ObligationRows(E, K, t)
<1>1. UNION {Expected(D, p) : p \in Window(K, t)} = UNION {Expected(E, p) : p \in Window(K, t)}
  OBVIOUS
<1>. QED  BY <1>1, Zenon DEF ObligationRows

\* What a read answers is decided by the accounts, and by what the policies and
\* the costs come to in the months of its window.
LEMMA ReadsAgree ==
    ASSUME NEW D, NEW E, D.accounts = E.accounts, NEW K, NEW t,
           \A p \in Window(K, t) : /\ Expected(D, p) = Expected(E, p)
                                   /\ Policy(D, p).savings = Policy(E, p).savings
    PROVE  FoldLedger(D, K, t) = FoldLedger(E, K, t)
<1>. DEFINE rows == ObligationRows(D, K, t)
            statements == Statements(D, K, t)
            periods == [p \in Window(K, t) |-> Period(D, K, t, rows, statements, p)]
            transfers == ImpliedTransfers(D, periods, t)
            accounts == AccountRows(D, K, transfers, t)
<1>1. rows = ObligationRows(E, K, t) /\ statements = Statements(E, K, t)
  BY RowsAgree, StatementsAgree
<1>. HIDE DEF rows, statements
<1>2. periods = [p \in Window(K, t) |-> Period(E, K, t, rows, statements, p)]
  BY PeriodsAgree
<1>. HIDE DEF periods
<1>3. transfers = ImpliedTransfers(E, periods, t)
  <2>1. \A kind : FirstOfKind(D, kind, t) = FirstOfKind(E, kind, t)  BY AccountsDecide
  <2>. QED  BY <2>1 DEF ImpliedTransfers
<1>. HIDE DEF transfers
<1>4. accounts = AccountRows(E, K, transfers, t)
  <2>1. \A a : AccountRow(D, K, transfers, a, t) = AccountRow(E, K, transfers, a, t)
    <3>1. \A a : AccountAt(D, a, t) = AccountAt(E, a, t)  BY AccountsDecide
    <3>. QED  BY <3>1, Zenon DEF AccountRow
  <2>. QED  BY <2>1, AccountsDecide DEF AccountRows
<1>. HIDE DEF accounts
<1>5. /\ FoldLedger(D, K, t) = WithPeriods(D, K, t, rows, statements)
      /\ FoldLedger(E, K, t) = WithPeriods(E, K, t, rows, statements)
  BY <1>1, Zenon DEF FoldLedger, rows, statements
<1>6. /\ WithPeriods(D, K, t, rows, statements) = WithBalances(D, K, t, rows, statements, periods)
      /\ WithPeriods(E, K, t, rows, statements) = WithBalances(E, K, t, rows, statements, periods)
  BY <1>2, Zenon DEF WithPeriods, periods
<1>7. WithBalances(D, K, t, rows, statements, periods) = WithBalances(E, K, t, rows, statements, periods)
  <2>1. FirstOfKind(D, "SAVINGS", t) = FirstOfKind(E, "SAVINGS", t)  BY AccountsDecide
  <2>2. AccountRows(D, K, ImpliedTransfers(D, periods, t), t)
            = AccountRows(E, K, ImpliedTransfers(E, periods, t), t)
    BY <1>3, <1>4, Zenon DEF transfers, accounts
  <2>. QED  BY <2>1, <2>2, Zenon DEF WithBalances
<1>. QED  BY <1>5, <1>6, <1>7

\* The months of a read begin by its day.
LEMMA WindowsHaveBegun ==
    ASSUME NEW D, NEW K, NEW t, IsRead(D, K, t), NEW p \in Window(K, t)
    PROVE  p \in PeriodIds /\ Start(p) \in Int /\ Start(p) <= t
<1>. DEFINE q == PeriodFor(t)
<1>1. p \in PeriodIds /\ p <= q  BY WindowIsRight DEF IsRead
<1>2. q \in PeriodIds /\ Start(q) <= t /\ t \in Int
  BY PeriodForIsRight, CalendarIsTyped DEF IsRead, Days
<1>. HIDE DEF q
<1>3. /\ Start(p) \in Int /\ Start(q) \in Int /\ p \in Int /\ q \in Int
      /\ p < q => Start(p) < Start(q)
  BY <1>1, <1>2, CalendarIsTyped DEF PeriodIds, Start
<1>. QED  BY <1>1, <1>2, <1>3

\* Events dated later, voids excepted, are not known to a read.
LEMMA LaterEventsAreUnknown ==
    ASSUME NEW L, NEW M, NEW t \in Int,
           \A e \in L \cup M : e.type = "void" \/ e.date \in Int,
           \A e \in (L \ M) \cup (M \ L) : e.type # "void" /\ t < e.date
    PROVE  Known(Surviving(L), t) = Known(Surviving(M), t)
<1>1. \A e : IsVoided(e, L) <=> IsVoided(e, M)  BY DEF IsVoided
<1>2. ASSUME NEW e PROVE e \in Known(Surviving(L), t) <=> e \in Known(Surviving(M), t)
  BY <1>1 DEF Known, Surviving
<1>. QED  BY <1>2 DEF Known, Surviving

\* The days from which a step changes what is in force are days.
LEMMA TouchedAreDays ==
    ASSUME NEW D, NEW E, AreDefinitions(E)
    PROVE  Touched(D, E) \subseteq Int
<1>1. \A k \in DefinitionKinds : \A v \in E[k] :
          v.from \in Int /\ (v.to = None \/ v.to \in Int)
  BY CalendarIsTyped DEF AreDefinitions, IsDefinition, Days
<1>2. ASSUME NEW k \in DefinitionKinds
      PROVE  {v.from : v \in Begun(D[k], E[k])} \cup ({v.to : v \in E[k] \ D[k]} \ {None})
                 \subseteq Int
  BY <1>1 DEF Begun
<1>. QED  BY <1>2 DEF Touched

\* A day asked for again is answered as before, whatever was recorded since with a
\* later date, or entered of policies and costs from a later day on (the contract
\* of domain.projection.project, PLAN.md 8.3), whatever the history.
THEOREM ReadsCanBeRepeated == PoliciesBeginApart => (Spec => ReadsAreReproducible)
<1>. SUFFICES ASSUME PoliciesBeginApart PROVE Spec => ReadsAreReproducible
  OBVIOUS
<1>. DEFINE A == /\ asOf' = asOf
                 /\ \A e \in (listed \ listed') \cup (listed' \ listed) :
                       e.type # "void" /\ asOf < e.date
                 /\ definitions'.accounts = definitions.accounts
                 /\ \A d \in Touched(definitions, definitions') : asOf < d
                 => shown' = shown
<1>1. /\ HouseInv /\ HouseInv' /\ ApartInv /\ BeginInv /\ ApartInv' /\ [Next]_vars
      => [A]_vars
  <2>. SUFFICES ASSUME HouseInv, HouseInv', ApartInv, BeginInv, ApartInv', [Next]_vars,
                       asOf' = asOf,
                       \A e \in (listed \ listed') \cup (listed' \ listed) :
                          e.type # "void" /\ asOf < e.date,
                       definitions'.accounts = definitions.accounts,
                       \A d \in Touched(definitions, definitions') : asOf < d
                PROVE  shown' = shown
    OBVIOUS
  <2>. DEFINE K == Facts
              D == definitions
              E == definitions'
              L == listed
              M == listed'
  <2>1. IsRead(D, K, asOf) /\ asOf \in Int
    BY FactsAreRead, CalendarIsTyped DEF IsRead, Days
  <2>2. /\ shown = FoldLedger(D, Known(Surviving(L), asOf), asOf)
        /\ shown' = FoldLedger(E, Known(Surviving(M), asOf), asOf)
        /\ K = Known(Surviving(L), asOf)
    BY DEF HouseInv, Project, Facts
  <2>3. \A e \in L \cup M : e.type = "void" \/ e.date \in Int
    BY CandidatesAreEvents, CalendarIsTyped DEF HouseInv, Days
  <2>4. \A e \in (L \ M) \cup (M \ L) : e.type # "void" /\ asOf < e.date  OBVIOUS
  <2>5. D.accounts = E.accounts  OBVIOUS
  <2>6. AreDefinitions(D) /\ AreDefinitions(E)  BY DEF HouseInv
  <2>7. AreApart(D.costs) /\ AreApart(E.costs) /\ AreApart(D.policies)
    BY DEF ApartInv, DefinitionKinds
  <2>8. BeginApart(D.policies)  BY DEF BeginInv, BeginApart
  <2>9. ASSUME NEW p \in Window(K, asOf)
        PROVE  Expected(D, p) = Expected(E, p) /\ Policy(D, p).savings = Policy(E, p).savings
    <3>1. p \in PeriodIds /\ Start(p) \in Int /\ Start(p) <= asOf
      BY <2>1, WindowsHaveBegun
    <3>2. \A d \in Touched(definitions, definitions') : Start(p) < d
      <4>1. ASSUME NEW d \in Touched(definitions, definitions') PROVE Start(p) < d
        <5>1. d \in Int
          <6>1. Touched(D, E) \subseteq Int  BY <2>6, TouchedAreDays
          <6>. QED  BY <4>1, <6>1
        <5>. QED  BY <2>1, <3>1, <5>1
      <4>. QED  BY <4>1
    <3>3. /\ InForceAlike("costs", D.costs, E.costs, Start(p))
          /\ InForceAlike("policies", D.policies, E.policies, Start(p))
      BY <3>1, <3>2, StepsLeaveThePast DEF DefinitionKinds
    <3>. HIDE DEF D, E, K
    <3>. QED  BY <2>6, <2>7, <2>8, <3>1, <3>3, ForecastsAgree, PoliciesAgree
  <2>. HIDE DEF D, E, K, L, M
  <2>10. K = Known(Surviving(M), asOf)  BY <2>1, <2>2, <2>3, <2>4, LaterEventsAreUnknown
  <2>11. FoldLedger(D, K, asOf) = FoldLedger(E, K, asOf)  BY <2>5, <2>9, ReadsAgree
  <2>. QED  BY <2>2, <2>10, <2>11
<1>2. ReadsAreReproducible <=> [][A]_vars  BY DEF ReadsAreReproducible
<1>. HIDE DEF A
<1>. QED  BY <1>1, <1>2, HouseInvHolds, ApartInvHolds, BeginInvHolds, PTL DEF Spec

-----------------------------------------------------------------------------
(* Charts: what the rows of a breakdown add up to.                         *)

LEMMA PointsAreSummed ==
    ASSUME NEW points, NEW B, IsFiniteSet(DOMAIN points)
    PROVE  SumIn(points, B) = SumFunctionOnSet(points, {k \in DOMAIN points : k[1] \in B})
<1>. DEFINE K == {k \in DOMAIN points : k[1] \in B}
            Folds(g) == g = [s \in SUBSET K |->
                               IF s = {} THEN 0 ELSE points[Pick(s)] + g[s \ {Pick(s)}]]
            h == CHOOSE g : Folds(g)
<1>1. IsFiniteSet(K)  BY FS_Subset
<1>2. SumIn(points, B) = h[K]  BY DEF SumIn, MapThenSumSet, MapThenFoldSet, Pick
<1>. HIDE DEF K
<1>3. ASSUME NEW g PROVE Folds(g) <=> IsFold(g, points, K)  BY DEF IsFold
<1>4. \E g : Folds(g)  BY <1>1, <1>3, FoldExists
<1>5. IsFold(h, points, K)  BY <1>3, <1>4
<1>. HIDE DEF h
<1>6. h[K] = SumFunctionOnSet(points, K)  BY <1>1, <1>5, FoldIsSum
<1>. QED  BY <1>2, <1>6 DEF K

LEMMA ValuesAreSummed ==
    ASSUME NEW K, IsFiniteSet(K)
    PROVE  MapThenSumSet(LAMBDA x : x.value, K) = SumFunctionOnSet([x \in K |-> x.value], K)
<1>. DEFINE f == [x \in K |-> x.value]
            Folds(g) == g = [s \in SUBSET K |->
                               IF s = {} THEN 0 ELSE Pick(s).value + g[s \ {Pick(s)}]]
            h == CHOOSE g : Folds(g)
<1>1. ASSUME NEW s \in SUBSET K, s # {} PROVE f[Pick(s)] = Pick(s).value
  BY <1>1, PickIsIn
<1>2. ASSUME NEW g PROVE Folds(g) <=> IsFold(g, f, K)
  <2>. HIDE DEF f
  <2>. QED  BY <1>1 DEF IsFold
<1>. HIDE DEF f
<1>3. \E g : Folds(g)  BY <1>2, FoldExists
<1>4. IsFold(h, f, K)  BY <1>2, <1>3
<1>5. MapThenSumSet(LAMBDA x : x.value, K) = h[K]  BY DEF MapThenSumSet, MapThenFoldSet, Pick
<1>. HIDE DEF h
<1>. QED  BY <1>4, <1>5, FoldIsSum DEF f

LEMMA PaymentsAreSummed ==
    ASSUME NEW K, IsFiniteSet(K)
    PROVE  MapThenSumSet(LAMBDA r : r.paid, K) = SumFunctionOnSet([r \in K |-> r.paid], K)
<1>. DEFINE f == [r \in K |-> r.paid]
            Folds(g) == g = [s \in SUBSET K |->
                               IF s = {} THEN 0 ELSE Pick(s).paid + g[s \ {Pick(s)}]]
            h == CHOOSE g : Folds(g)
<1>1. ASSUME NEW s \in SUBSET K, s # {} PROVE f[Pick(s)] = Pick(s).paid
  BY <1>1, PickIsIn
<1>2. ASSUME NEW g PROVE Folds(g) <=> IsFold(g, f, K)
  <2>. HIDE DEF f
  <2>. QED  BY <1>1 DEF IsFold
<1>. HIDE DEF f
<1>3. \E g : Folds(g)  BY <1>2, FoldExists
<1>4. IsFold(h, f, K)  BY <1>2, <1>3
<1>5. MapThenSumSet(LAMBDA r : r.paid, K) = h[K]  BY DEF MapThenSumSet, MapThenFoldSet, Pick
<1>. HIDE DEF h
<1>. QED  BY <1>4, <1>5, FoldIsSum DEF f

\* The points of some buckets of a chart are worth the triples of these buckets.
LEMMA SummedAddsUp ==
    ASSUME NEW T, IsFiniteSet(T), \A x \in T : x.value \in Int, NEW B
    PROVE  SumIn(Summed(T), B)
               = SumFunctionOnSet([x \in T |-> x.value], {x \in T : x.bucket \in B})
<1>. DEFINE points == Summed(T)
            key == [x \in T |-> <<x.bucket, x.series>>]
            value == [x \in T |-> x.value]
            with(k) == {x \in T : <<x.bucket, x.series>> = k}
            S == {x \in T : x.bucket \in B}
            Q == {k \in DOMAIN points : k[1] \in B}
<1>1. /\ DOMAIN points = {<<x.bucket, x.series>> : x \in T}
      /\ \A k \in DOMAIN points : points[k] = MapThenSumSet(LAMBDA x : x.value, with(k))
  <2>1. points = [k \in {<<x.bucket, x.series>> : x \in T} |->
                     MapThenSumSet(LAMBDA x : x.value, with(k))]
    BY DEF Summed
  <2>. HIDE DEF points
  <2>2. DOMAIN points = {<<x.bucket, x.series>> : x \in T}  BY <2>1, Zenon
  <2>3. ASSUME NEW k \in {<<x.bucket, x.series>> : x \in T}
        PROVE  points[k] = MapThenSumSet(LAMBDA x : x.value, with(k))
    BY <2>1, Zenon
  <2>. QED  BY <2>2, <2>3, Zenon
<1>2. DOMAIN points = {key[x] : x \in T}  BY <1>1
<1>3. \A x \in T : key[x] = <<x.bucket, x.series>> /\ value[x] = x.value /\ value[x] \in Int
  OBVIOUS
<1>4. ASSUME NEW k PROVE MapThenSumSet(LAMBDA x : x.value, with(k)) = SumFunctionOnSet(value, with(k))
  <2>. DEFINE W == with(k)
              inW == [x \in W |-> x.value]
  <2>1. IsFiniteSet(W) /\ W \subseteq T  BY FS_Subset
  <2>2. \A x \in W : value[x] = inW[x]  BY <2>1
  <2>. HIDE DEF W
  <2>3. MapThenSumSet(LAMBDA x : x.value, W) = SumFunctionOnSet(inW, W)  BY <2>1, ValuesAreSummed
  <2>. HIDE DEF inW, value
  <2>4. SumFunctionOnSet(value, W) = SumFunctionOnSet(inW, W)  BY <2>1, <2>2, SumsAgree
  <2>5. MapThenSumSet(LAMBDA x : x.value, W) = SumFunctionOnSet(value, W)  BY <2>3, <2>4, Zenon
  <2>. QED  BY <2>5 DEF W
<1>5. \A k \in DOMAIN points : points[k] = SumFunctionOnSet(value, with(k))
  <2>. HIDE DEF points, value, with
  <2>. QED  BY <1>1, <1>4, Zenon
<1>. HIDE DEF points, key, value
<1>6. IsFiniteSet(DOMAIN points)  BY <1>2, ImageIsFinite
<1>7. IsFiniteSet(S) /\ IsFiniteSet(Q)  BY <1>6, FS_Subset
<1>8. \A x \in S : key[x] \in Q /\ value[x] \in Int  BY <1>2, <1>3
<1>9. \A k \in Q : points[k] = SumFunctionOnSet(value, WithKey(S, key, k))
  <2>1. ASSUME NEW k \in Q PROVE with(k) = WithKey(S, key, k)  BY <1>3 DEF WithKey
  <2>2. \A k \in Q : k \in DOMAIN points  OBVIOUS
  <2>. HIDE DEF with, S, Q
  <2>. QED  BY <1>5, <2>1, <2>2
<1>10. SumIn(points, B) = SumFunctionOnSet(points, Q)  BY <1>6, PointsAreSummed
<1>. HIDE DEF S, Q
<1>11. SumFunctionOnSet(points, Q) = SumFunctionOnSet(value, S)
  <2>1. \A x \in S : key[x] \in Q  BY <1>8
  <2>2. \A x \in S : value[x] \in Int  BY <1>8
  <2>3. IsFiniteSet(S)  BY <1>7
  <2>4. IsFiniteSet(Q)  BY <1>7
  <2>. QED  BY <1>9, <2>1, <2>2, <2>3, <2>4, SumByKey
<1>. QED  BY <1>10, <1>11 DEF points, value, S

\* A breakdown, in some buckets, is worth the rows of their periods.
LEMMA BreakdownIsOfRows ==
    ASSUME NEW S, IsFiniteSet(S.rows), NEW metric, NEW group, NEW P, NEW B,
           \A r \in S.rows : ObligationValue(r, metric) \in Int
    PROVE  SumIn(GroupedPeriodPoints(S, metric, group, P), B)
               = SumFunctionOnSet([r \in S.rows |-> ObligationValue(r, metric)],
                                  {r \in S.rows : r.period \in P /\ r.period \in B})
<1>. DEFINE rows == S.rows
            R == {r \in rows : r.period \in P}
            shownIn == {r \in rows : r.period \in P /\ r.period \in B}
            figure == [r \in rows |-> ObligationValue(r, metric)]
            triple == [r \in R |-> [bucket |-> r.period, series |-> r[group],
                                    value |-> ObligationValue(r, metric), of |-> r]]
            T == {triple[r] : r \in R}
            value == [x \in T |-> x.value]
            U == {x \in T : x.bucket \in B}
<1>1. IsFiniteSet(R) /\ IsFiniteSet(shownIn) /\ R \subseteq rows /\ shownIn \subseteq R
  BY FS_Subset
<1>2. \A r \in R : /\ triple[r].bucket = r.period /\ triple[r].of = r
                   /\ triple[r].value = figure[r] /\ figure[r] \in Int
  OBVIOUS
<1>3. GroupedPeriodPoints(S, metric, group, P) = Summed(T)
  <2>1. {[bucket |-> r.period, series |-> r[group], value |-> ObligationValue(r, metric),
          of |-> r] : r \in {x \in S.rows : x.period \in P}} = T
    OBVIOUS
  <2>. HIDE DEF T
  <2>. QED  BY <2>1 DEF GroupedPeriodPoints
<1>4. \A r \in R : r \in shownIn <=> r.period \in B  OBVIOUS
<1>. HIDE DEF rows, R, shownIn, figure, triple
<1>5. IsFiniteSet(T)  BY <1>1, ImageIsFinite
<1>6. \A x \in T : x.value \in Int  BY <1>2
<1>7. U = {triple[r] : r \in shownIn}  BY <1>1, <1>2, <1>4
<1>8. \A r \in shownIn : figure[r] \in Int /\ value[triple[r]] = figure[r]  BY <1>1, <1>2
<1>9. \A q, r \in shownIn : triple[q] = triple[r] => q = r  BY <1>1, <1>2
<1>. HIDE DEF T, value, U
<1>10. SumIn(Summed(T), B) = SumFunctionOnSet(value, U)  BY <1>5, <1>6, SummedAddsUp DEF value, U
<1>11. SumFunctionOnSet(value, {triple[r] : r \in shownIn}) = SumFunctionOnSet(figure, shownIn)
  BY <1>1, <1>8, <1>9, SumOverImage
<1>. QED  BY <1>3, <1>7, <1>10, <1>11 DEF figure, shownIn, rows

\* What a metric of the fixed costs takes from each row.
RowFigures(rows, metric) == [r \in rows |-> ObligationValue(r, metric)]

\* The figure of a period is worth the rows of that period.
LEMMA FiguresAreOfRows ==
    ASSUME NEW D, NEW K, NEW t, NEW statements, NEW p, NEW rows, IsFiniteSet(rows),
           \A r \in rows : r.amount \in Int /\ r.paid \in Int /\ r.remaining = r.amount - r.paid,
           NEW metric \in FixedMetrics
    PROVE  Period(D, K, t, rows, statements, p)[metric]
               = SumFunctionOnSet(RowFigures(rows, metric), {r \in rows : r.period = p})
<1>. DEFINE period == Period(D, K, t, rows, statements, p)
            R == {r \in rows : r.period = p}
            amount == [r \in R |-> r.amount]
            paid == [r \in R |-> r.paid]
            figure == RowFigures(rows, metric)
            due == SumFunctionOnSet(amount, R)
            settled == SumFunctionOnSet(paid, R)
<1>1. IsFiniteSet(R) /\ R \subseteq rows  BY FS_Subset
<1>2. period.due = due /\ period.paid = settled /\ period.outstanding = due - settled
  <2>. DEFINE sumPaid == MapThenSumSet(LAMBDA r : r.paid, R)
  <2>1. /\ period.due = Amounts(R) /\ period.paid = sumPaid
        /\ period.outstanding = Amounts(R) - sumPaid
    BY Zenon DEF Period
  <2>. HIDE DEF R, period
  <2>2. Amounts(R) = due  BY <1>1, AmountsIsSum
  <2>3. sumPaid = settled  BY <1>1, PaymentsAreSummed
  <2>. HIDE DEF sumPaid, due, settled
  <2>. QED  BY <2>1, <2>2, <2>3
<1>3. \A r \in R : /\ amount[r] = r.amount /\ paid[r] = r.paid
                   /\ amount[r] \in Int /\ paid[r] \in Int
                   /\ r.remaining = amount[r] - paid[r]
  OBVIOUS
<1>4. \A r \in R : figure[r] = ObligationValue(r, metric)  BY <1>1 DEF RowFigures
<1>. HIDE DEF period, R, amount, paid, figure
<1>5. CASE metric = "due"
  <2>1. \A r \in R : figure[r] = amount[r]  BY <1>3, <1>4, <1>5 DEF ObligationValue
  <2>. QED  BY <1>1, <1>2, <1>5, <2>1, SumsAgree DEF period, R, figure
<1>6. CASE metric = "paid"
  <2>1. \A r \in R : figure[r] = paid[r]  BY <1>3, <1>4, <1>6 DEF ObligationValue
  <2>. QED  BY <1>1, <1>2, <1>6, <2>1, SumsAgree DEF period, R, figure
<1>7. CASE metric = "outstanding"
  <2>1. \A r \in R : /\ amount[r] \in Int /\ paid[r] \in Int
                     /\ figure[r] = amount[r] - paid[r]
    BY <1>3, <1>4, <1>7 DEF ObligationValue
  <2>2. SumFunctionOnSet(figure, R) = due - settled  BY <1>1, <2>1, SumOfDifference
  <2>. QED  BY <1>2, <1>7, <2>2 DEF period, R, figure
<1>. QED  BY <1>5, <1>6, <1>7 DEF FixedMetrics

LEMMA ChartsOfFixedCosts ==
    ASSUME NEW metric \in FixedMetrics, NEW window
    PROVE  /\ Chart(metric, "period", "none", window)
                  = PeriodPoints(shown, metric, PeriodsIn(shown, window))
           /\ \A group \in {"category", "payee"} :
                 Chart(metric, "period", group, window)
                     = GroupedPeriodPoints(shown, metric, group, PeriodsIn(shown, window))
<1>1. ASSUME NEW group \in {"none", "category", "payee"}
      PROVE  Chart(metric, "period", group, window)
                 = IF group = "none" THEN PeriodPoints(shown, metric, PeriodsIn(shown, window))
                   ELSE GroupedPeriodPoints(shown, metric, group, PeriodsIn(shown, window))
  <2>. DEFINE q == [metric |-> metric, grain |-> "period", group |-> group, window |-> window]
              P == PeriodsIn(shown, window)
  <2>1. q.metric = metric /\ q.grain = "period" /\ q.group = group /\ q.window = window
    OBVIOUS
  <2>2. Chart(metric, "period", group, window) = BuildPoints(shown, LoadsUpto(1), q)
    BY DEF Chart, ChartFrom
  <2>. HIDE DEF q
  <2>3. /\ metric \in PeriodMetrics /\ metric \notin InterestMetrics
        /\ metric \notin {"savings_balance", "account_balance"}
    BY DEF FixedMetrics, PeriodMetrics, InterestMetrics
  <2>4. IsSupported(q)  BY <2>1, <2>3 DEF IsSupported
  <2>5. CASE group = "none"
    BY <2>1, <2>2, <2>3, <2>4, <2>5 DEF BuildPoints
  <2>6. CASE group # "none"
    BY <2>1, <2>2, <2>3, <2>4, <2>6 DEF BuildPoints
  <2>. QED  BY <2>5, <2>6
<1>. QED  BY <1>1

LEMMA RowsHaveRemainders ==
    ASSUME NEW D, NEW K, NEW t, NEW r \in ObligationRows(D, K, t)
    PROVE  r.remaining = r.amount - r.paid
<1>1. ASSUME NEW source, NEW b PROVE LET r0 == Row(K, source, b) IN r0.remaining = r0.amount - r0.paid
  BY DEF Row
<1>. QED  BY <1>1, RowsAreOfBills DEF IsRowOf

\* The points of a fixed-cost chart by category or by payee add up to the period's
\* own figure, and those of a window to the figures of its periods (api.charts).
THEOREM BreakdownsAlwaysAddUp == Spec => []BreakdownsAddUp
<1>1. HouseInv => BreakdownsAddUp
  <2>. SUFFICES ASSUME HouseInv, NEW window \in Windows, NEW metric \in FixedMetrics,
                       NEW group \in {"category", "payee"}
                PROVE  /\ \A k \in DOMAIN Chart(metric, "period", "none", window) :
                             SumIn(Chart(metric, "period", group, window), {k[1]})
                                 = Chart(metric, "period", "none", window)[k]
                       /\ SumIn(Chart(metric, "period", group, window), PeriodIds)
                             = SumIn(Chart(metric, "period", "none", window), PeriodIds)
    BY DEF BreakdownsAddUp
  <2>. DEFINE P == PeriodsIn(shown, window)
              rows == shown.rows
              whole == Chart(metric, "period", "none", window)
              parts == Chart(metric, "period", group, window)
              figure == RowFigures(rows, metric)
              perPeriod == [p \in P |-> shown.periods[p][metric]]
              period == [r \in rows |-> r.period]
              inP == {r \in rows : r.period \in P}
  <2>1. IsRead(definitions, Facts, asOf) /\ rows = ObligationRows(definitions, Facts, asOf)
    BY FactsAreRead, ShownIsProjected
  <2>2. IsFiniteSet(rows)  BY <2>1, RowsAreFinite
  <2>3. \A r \in rows : /\ r.amount \in Int /\ r.paid \in Int
                        /\ r.remaining = r.amount - r.paid
                        /\ r.period \in DOMAIN shown.periods
    BY <2>1, RowsAreTyped, RowsHaveRemainders, ShownIsProjected
  <2>4. P \subseteq DOMAIN shown.periods /\ P \subseteq PeriodIds /\ IsFiniteSet(P)
    <3>1. P \subseteq DOMAIN shown.periods  BY DEF PeriodsIn
    <3>2. DOMAIN shown.periods \subseteq PeriodIds  BY PeriodsAreShown
    <3>. HIDE DEF P
    <3>. QED  BY <3>1, <3>2, PeriodIdsAreFinite
  <2>5. ASSUME NEW r \in rows
        PROVE  figure[r] = ObligationValue(r, metric) /\ figure[r] \in Int
    <3>1. figure[r] = ObligationValue(r, metric)  BY DEF RowFigures
    <3>2. r.amount \in Int /\ r.paid \in Int /\ r.remaining \in Int  BY <2>3
    <3>. HIDE DEF figure
    <3>. QED  BY <3>1, <3>2 DEF ObligationValue, FixedMetrics
  <2>6. ASSUME NEW p \in P
        PROVE  perPeriod[p] = SumFunctionOnSet(figure, {r \in rows : r.period = p})
    <3>1. p \in DOMAIN shown.periods  BY <2>4
    <3>2. shown.periods[p] = Period(definitions, Facts, asOf, rows, shown.statements, p)
      BY <3>1, ShownIsProjected
    <3>3. perPeriod[p] = shown.periods[p][metric]  OBVIOUS
    <3>4. \A r \in rows : r.amount \in Int /\ r.paid \in Int /\ r.remaining = r.amount - r.paid
      BY <2>3
    <3>. HIDE DEF perPeriod, rows
    <3>5. Period(definitions, Facts, asOf, rows, shown.statements, p)[metric]
             = SumFunctionOnSet(figure, {r \in rows : r.period = p})
      BY <2>2, <3>4, FiguresAreOfRows
    <3>. QED  BY <3>2, <3>3, <3>5
  <2>7. whole = PeriodPoints(shown, metric, P) /\ parts = GroupedPeriodPoints(shown, metric, group, P)
    BY ChartsOfFixedCosts
  <2>8. ASSUME NEW B
        PROVE  SumIn(parts, B)
                   = SumFunctionOnSet(figure, {r \in rows : r.period \in P /\ r.period \in B})
    <3>. HIDE DEF P, parts, figure
    <3>1. \A r \in shown.rows : ObligationValue(r, metric) \in Int  BY <2>5
    <3>2. SumIn(GroupedPeriodPoints(shown, metric, group, P), B)
             = SumFunctionOnSet([r \in shown.rows |-> ObligationValue(r, metric)],
                                {r \in shown.rows : r.period \in P /\ r.period \in B})
      BY <2>2, <3>1, BreakdownIsOfRows
    <3>. QED  BY <2>7, <3>2 DEF figure, RowFigures
  <2>9. /\ DOMAIN whole = {<<p, Total>> : p \in P}
        /\ \A p \in P : whole[<<p, Total>>] = perPeriod[p]
    <3>. HIDE DEF P, whole
    <3>. QED  BY <2>7 DEF PeriodPoints
  <2>10. ASSUME NEW k \in DOMAIN whole PROVE SumIn(parts, {k[1]}) = whole[k]
    <3>1. PICK p \in P : k = <<p, Total>>  BY <2>9
    <3>2. {r \in rows : r.period \in P /\ r.period \in {p}} = {r \in rows : r.period = p}
      OBVIOUS
    <3>3. SumIn(parts, {p}) = SumFunctionOnSet(figure, {r \in rows : r.period = p})
      BY <2>8, <3>2
    <3>4. whole[k] = perPeriod[p]  BY <2>9, <3>1
    <3>5. k[1] = p  BY <3>1
    <3>. HIDE DEF whole, parts, perPeriod, figure
    <3>. QED  BY <2>6, <3>3, <3>4, <3>5
  <2>11. SumIn(parts, PeriodIds) = SumFunctionOnSet(figure, inP)
    <3>1. {r \in rows : r.period \in P /\ r.period \in PeriodIds} = inP  BY <2>4
    <3>. HIDE DEF parts, figure
    <3>. QED  BY <2>8, <3>1
  <2>12. SumFunctionOnSet(perPeriod, P) = SumFunctionOnSet(figure, inP)
    <3>1. IsFiniteSet(inP) /\ \A r \in inP : r \in rows /\ period[r] \in P  BY <2>2, FS_Subset
    <3>2. \A p \in P : {r \in rows : r.period = p} = WithKey(inP, period, p)
      BY DEF WithKey
    <3>. HIDE DEF inP, figure, perPeriod, period, P, rows
    <3>3. \A r \in inP : figure[r] \in Int  BY <2>5, <3>1
    <3>4. \A r \in inP : period[r] \in P  BY <3>1
    <3>5. \A p \in P : perPeriod[p] = SumFunctionOnSet(figure, WithKey(inP, period, p))
      BY <2>6, <3>2
    <3>6. IsFiniteSet(inP) /\ IsFiniteSet(P)  BY <2>4, <3>1
    <3>. QED  BY <3>3, <3>4, <3>5, <3>6, SumByKey
  <2>13. SumIn(whole, PeriodIds) = SumFunctionOnSet(perPeriod, P)
    <3>. DEFINE point == [p \in P |-> <<p, Total>>]
    <3>1. DOMAIN whole = {point[p] : p \in P}  BY <2>9
    <3>2. \A p \in P : point[p][1] = p /\ whole[point[p]] = perPeriod[p]  BY <2>9
    <3>3. \A p \in P : perPeriod[p] \in Int
      <4>1. ASSUME NEW p \in P PROVE perPeriod[p] \in Int
        <5>. DEFINE R == {r \in rows : r.period = p}
        <5>1. IsFiniteSet(R) /\ \A r \in R : figure[r] \in Int  BY <2>2, <2>5, FS_Subset
        <5>2. perPeriod[p] = SumFunctionOnSet(figure, R)  BY <2>6
        <5>. HIDE DEF R, figure, perPeriod
        <5>. QED  BY <5>1, <5>2, SumIsInt
      <4>. QED  BY <4>1
    <3>. HIDE DEF whole, point, P, perPeriod
    <3>4. IsFiniteSet(DOMAIN whole)  BY <2>4, <3>1, ImageIsFinite
    <3>5. {k \in DOMAIN whole : k[1] \in PeriodIds} = {point[p] : p \in P}
      BY <2>4, <3>1, <3>2
    <3>6. SumIn(whole, PeriodIds) = SumFunctionOnSet(whole, {point[p] : p \in P})
      BY <3>4, <3>5, PointsAreSummed
    <3>7. \A p, q \in P : point[p] = point[q] => p = q  BY <3>2
    <3>8. \A p \in P : perPeriod[p] \in Int /\ whole[point[p]] = perPeriod[p]  BY <3>2, <3>3
    <3>9. SumFunctionOnSet(whole, {point[p] : p \in P}) = SumFunctionOnSet(perPeriod, P)
      BY <2>4, <3>7, <3>8, SumOverImage
    <3>. QED  BY <3>6, <3>9
  <2>14. SumIn(parts, PeriodIds) = SumIn(whole, PeriodIds)  BY <2>11, <2>12, <2>13
  <2>. QED  BY <2>10, <2>14
<1>. QED  BY <1>1, HouseInvHolds, PTL

-----------------------------------------------------------------------------
(* Charts: what the cycles of a chart add up to.                           *)

LEMMA AllPointsAreSummed ==
    ASSUME NEW points, IsFiniteSet(DOMAIN points)
    PROVE  SumOfAll(points) = SumFunctionOnSet(points, DOMAIN points)
<1>. DEFINE K == DOMAIN points
            Folds(g) == g = [s \in SUBSET K |->
                               IF s = {} THEN 0 ELSE points[Pick(s)] + g[s \ {Pick(s)}]]
            h == CHOOSE g : Folds(g)
<1>1. SumOfAll(points) = h[K]  BY DEF SumOfAll, MapThenSumSet, MapThenFoldSet, Pick
<1>. HIDE DEF K
<1>2. ASSUME NEW g PROVE Folds(g) <=> IsFold(g, points, K)  BY DEF IsFold
<1>3. IsFiniteSet(K)  BY DEF K
<1>4. \E g : Folds(g)  BY <1>2, <1>3, FoldExists
<1>5. IsFold(h, points, K)  BY <1>2, <1>4
<1>. HIDE DEF h
<1>6. h[K] = SumFunctionOnSet(points, K)  BY <1>3, <1>5, FoldIsSum
<1>. QED  BY <1>1, <1>6 DEF K

LEMMA InterestIsSummed ==
    ASSUME NEW K, IsFiniteSet(K)
    PROVE  MapThenSumSet(LAMBDA c : c.interest, K) = SumFunctionOnSet([c \in K |-> c.interest], K)
<1>. DEFINE f == [c \in K |-> c.interest]
            Folds(g) == g = [s \in SUBSET K |->
                               IF s = {} THEN 0 ELSE Pick(s).interest + g[s \ {Pick(s)}]]
            h == CHOOSE g : Folds(g)
<1>1. ASSUME NEW s \in SUBSET K, s # {} PROVE f[Pick(s)] = Pick(s).interest
  BY <1>1, PickIsIn
<1>2. ASSUME NEW g PROVE Folds(g) <=> IsFold(g, f, K)
  <2>. HIDE DEF f
  <2>. QED  BY <1>1 DEF IsFold
<1>. HIDE DEF f
<1>3. \E g : Folds(g)  BY <1>2, FoldExists
<1>4. IsFold(h, f, K)  BY <1>2, <1>3
<1>5. MapThenSumSet(LAMBDA c : c.interest, K) = h[K]
  BY DEF MapThenSumSet, MapThenFoldSet, Pick
<1>. HIDE DEF h
<1>. QED  BY <1>4, <1>5, FoldIsSum DEF f

LEMMA StatementsAreShown ==
    ASSUME HouseInv
    PROVE  shown.statements = Statements(definitions, Facts, asOf)
<1>. DEFINE rows == ObligationRows(definitions, Facts, asOf)
            statements == Statements(definitions, Facts, asOf)
            periods == [p \in Window(Facts, asOf) |->
                           Period(definitions, Facts, asOf, rows, statements, p)]
<1>1. shown = WithPeriods(definitions, Facts, asOf, rows, statements)
  BY DEF HouseInv, Project, FoldLedger, Facts
<1>. HIDE DEF rows, statements
<1>2. shown = WithBalances(definitions, Facts, asOf, rows, statements, periods)
  BY <1>1 DEF WithPeriods
<1>. HIDE DEF periods
<1>. QED  BY <1>2 DEF WithBalances, StateOf, statements

\* What the cycles of an account read of the ledger.
LEMMA ViewsAreEntries ==
    ASSUME NEW D, NEW K, NEW t, IsRead(D, K, t), NEW a
    PROVE  IsFiniteSet(AccountView(K, a)) /\ \A e \in AccountView(K, a) : IsEntry(e)
<1>. DEFINE R == {f \in K : RecordsInterest(f, a) \/ AccountDelta(f, a) # 0}
            entry == [e \in R |->
                        [id |-> e.id, date |-> e.date, cycle |-> e.cycle,
                         type |-> IF RecordsInterest(e, a) THEN e.type ELSE "movement",
                         amount |-> IF RecordsInterest(e, a) THEN e.amount ELSE AccountDelta(e, a)]]
<1>1. AccountView(K, a) = {entry[e] : e \in R}
  <2>1. \A e \in R : entry[e] =
           [id |-> e.id, date |-> e.date, cycle |-> e.cycle,
            type |-> IF RecordsInterest(e, a) THEN e.type ELSE "movement",
            amount |-> IF RecordsInterest(e, a) THEN e.amount ELSE AccountDelta(e, a)]
    OBVIOUS
  <2>. HIDE DEF entry
  <2>. QED  BY <2>1 DEF AccountView
<1>2. IsFiniteSet(R)  BY FS_Subset DEF IsRead
<1>3. ASSUME NEW e \in R PROVE IsEntry(entry[e])
  <2>1. e \in Candidates /\ e.date \in Days /\ e.amount \in Int
    BY CandidatesAreEvents DEF IsRead
  <2>2. AccountDelta(e, a) \in Int  BY <2>1, DeltasAreInt
  <2>3. /\ entry[e].type \in {"movement", "charged", "earned"} /\ entry[e].date = e.date
        /\ entry[e].amount \in {e.amount, AccountDelta(e, a)}
    BY DEF RecordsInterest
  <2>. HIDE DEF entry
  <2>. QED  BY <2>1, <2>2, <2>3 DEF IsEntry
<1>. HIDE DEF R, entry
<1>4. IsFiniteSet({entry[e] : e \in R})  BY <1>2, ImageIsFinite
<1>. QED  BY <1>1, <1>3, <1>4

\* The statements of an account, each of a cycle that is cut in the window.
LEMMA AccountStatementsAreTyped ==
    ASSUME NEW D, NEW K, NEW t, IsRead(D, K, t), t < MonthStart[Months],
           NEW a \in Entities(D.accounts)
    PROVE  LET s == AccountStatements(D, K, a, t)
           IN  /\ DOMAIN s \subseteq PeriodIds
               /\ \A p \in DOMAIN s : /\ s[p].interest \in Int
                                      /\ PeriodFor(s[p].end - 1) \in Window(K, t)
<1>. DEFINE V == VersionsOf(D.accounts, a)
            account == Account(V, t)
            view == AccountView(K, a)
            g == FirstDate(K, t)
            cycles == BuildCycles(account, g, t)
            s == AccountStatements(D, K, a, t)
<1>1. Placed(K) /\ t \in Days /\ AreDefinitions(D)  BY DEF IsRead
<1>2. \A v \in D.accounts : v.from \in Days /\ HasTerms(v)
  BY <1>1 DEF AreDefinitions, DefinitionKinds, IsDefinition, HasTerms
<1>3. Dated(V) /\ V # {} /\ \A v \in V : HasTerms(v)
  BY <1>2 DEF Dated, VersionsOf, Entities
<1>4. HasTerms(account)  BY <1>3, AccountIsVersion
<1>5. IsFiniteSet(view) /\ \A e \in view : IsEntry(e)  BY ViewsAreEntries
<1>6. /\ g \in Days /\ g <= t /\ Window(K, t) = PeriodFor(g) .. PeriodFor(t)
  BY <1>1, FirstDateIsRight
<1>7. s = FoldCycles(V, view, account, cycles)  BY DEF AccountStatements, AccountAt
<1>8. \A p \in DOMAIN cycles : g < cycles[p].end /\ cycles[p].end <= t + 1
  <2>1. g \in Int /\ t \in Int  BY <1>1, <1>6, CalendarIsTyped DEF Days
  <2>. HIDE DEF g, account
  <2>2. /\ DOMAIN cycles = CyclePeriods(account, g, t)
        /\ \A p \in DOMAIN cycles : cycles[p].end = Smaller(CycleEnd(account, p), t + 1)
    BY DEF BuildCycles
  <2>3. DOMAIN cycles \subseteq PeriodIds  BY <1>1, <1>4, <1>6, CyclesAreOnCalendar
  <2>4. \A p \in DOMAIN cycles : CycleEnd(account, p) \in Int /\ g < CycleEnd(account, p)
    BY <1>4, <2>1, <2>2, <2>3, BoundaryIsInMonth DEF CyclePeriods
  <2>. HIDE DEF cycles
  <2>. QED  BY <1>6, <2>1, <2>2, <2>4 DEF Smaller
<1>9. /\ DOMAIN cycles \subseteq PeriodIds
      /\ \A p \in DOMAIN cycles : cycles[p].start \in Int /\ cycles[p].end \in Int
  <2>. HIDE DEF g, account
  <2>. QED  BY <1>1, <1>4, <1>6, CyclesAreOnCalendar
<1>. HIDE DEF V, account, view, g, cycles
<1>10. /\ DOMAIN s = DOMAIN cycles
       /\ \A p \in DOMAIN cycles :
             /\ s[p] = Statement(V, view, account, p, cycles[p],
                                 IF p - 1 \in DOMAIN cycles THEN s[p - 1] ELSE Seed)
             /\ s[p].interest \in Int
  BY <1>3, <1>4, <1>5, <1>7, <1>9, FoldIsTyped
<1>. HIDE DEF s
<1>11. ASSUME NEW p \in DOMAIN cycles PROVE PeriodFor(s[p].end - 1) \in Window(K, t)
  <2>1. s[p].end = cycles[p].end
    <3>. DEFINE before == IF p - 1 \in DOMAIN cycles THEN s[p - 1] ELSE Seed
    <3>1. s[p] = Statement(V, view, account, p, cycles[p], before)  BY <1>10
    <3>. HIDE DEF before
    <3>. QED  BY <3>1 DEF Statement
  <2>. DEFINE d == cycles[p].end - 1
  <2>2. d \in Days /\ g <= d /\ d <= t
    <3>. DEFINE e == cycles[p].end
    <3>1. e \in Int /\ g < e /\ e <= t + 1  BY <1>8, <1>9
    <3>2. /\ MonthStart[1] \in Int /\ MonthStart[Months + 1] \in Int
          /\ g \in MonthStart[1] .. MonthStart[Months + 1] - 1
          /\ t \in MonthStart[1] .. MonthStart[Months + 1] - 1
      BY <1>1, <1>6, CalendarIsTyped DEF Days
    <3>. HIDE DEF e
    <3>3. e - 1 \in MonthStart[1] .. MonthStart[Months + 1] - 1 /\ g <= e - 1 /\ e - 1 <= t
      BY <3>1, <3>2
    <3>. QED  BY <3>3 DEF Days, e
  <2>. HIDE DEF d
  <2>3. PeriodFor(g) <= PeriodFor(d) /\ PeriodFor(d) <= PeriodFor(t)
    BY <1>1, <1>6, <2>2, PeriodForIsMonotone
  <2>4. PeriodFor(d) \in Int /\ PeriodFor(g) \in Int /\ PeriodFor(t) \in Int
    BY <1>1, <1>6, <2>2, PeriodForIsRight, CalendarIsTyped DEF PeriodIds
  <2>5. PeriodFor(d) \in Window(K, t)  BY <1>6, <2>3, <2>4
  <2>. QED  BY <2>1, <2>5 DEF d
<1>. QED  BY <1>9, <1>10, <1>11 DEF s

\* The statements of a read are finitely many, one for each account and period.
LEMMA StatementsAreTyped ==
    ASSUME NEW D, NEW K, NEW t, IsRead(D, K, t), t < MonthStart[Months]
    PROVE  /\ IsFiniteSet(Statements(D, K, t))
           /\ \A c \in Statements(D, K, t) : /\ c.account \in Entities(D.accounts)
                                             /\ c.interest \in Int
                                             /\ ClosePeriod(c) \in Window(K, t)
           /\ \A c, d \in Statements(D, K, t) :
                 c.account = d.account /\ c.period = d.period => c = d
<1>. DEFINE A == Entities(D.accounts)
            s(a) == AccountStatements(D, K, a, t)
            row(a, p) == StatementRow(a, p, s(a)[p])
            pairs == A \X PeriodIds
            rowOf == [x \in pairs |-> row(x[1], x[2])]
            S == Statements(D, K, t)
<1>1. ASSUME NEW a \in A, NEW p \in DOMAIN s(a)
      PROVE  /\ p \in PeriodIds /\ row(a, p).account = a /\ row(a, p).period = p
             /\ row(a, p).interest \in Int /\ ClosePeriod(row(a, p)) \in Window(K, t)
  <2>. DEFINE x == s(a)[p]
  <2>1. /\ p \in PeriodIds
        /\ x.interest \in Int /\ PeriodFor(x.end - 1) \in Window(K, t)
    BY <1>1, AccountStatementsAreTyped
  <2>. HIDE DEF x
  <2>2. LET r == StatementRow(a, p, x)
        IN  r.account = a /\ r.period = p /\ r.interest = x.interest /\ r.end = x.end
    BY DEF StatementRow
  <2>. QED  BY <2>1, <2>2 DEF ClosePeriod, x
<1>2. ASSUME NEW c \in S PROVE \E a \in A : \E p \in DOMAIN s(a) : c = row(a, p)
  <2>. HIDE DEF A
  <2>. QED  BY DEF Statements, StatementRows, A
<1>. HIDE DEF s, row, A, S
<1>3. \A c \in S : /\ c.account \in A /\ c.interest \in Int /\ ClosePeriod(c) \in Window(K, t)
                   /\ c.period \in PeriodIds /\ c = row(c.account, c.period)
  BY <1>1, <1>2
<1>4. IsFiniteSet(S)
  <2>1. IsFiniteSet(A)
    <3>. DEFINE V == D.accounts
                entity == [v \in V |-> v.entity]
    <3>1. IsFiniteSet(V)  BY DEF IsRead, AreDefinitions, DefinitionKinds
    <3>2. A = {entity[v] : v \in V}  BY DEF A, Entities
    <3>. HIDE DEF V, entity
    <3>. QED  BY <3>1, <3>2, ImageIsFinite
  <2>2. IsFiniteSet(pairs)
    <3>1. IsFiniteSet(PeriodIds)  BY PeriodIdsAreFinite
    <3>. QED  BY <2>1, <3>1, FS_Product
  <2>3. S \subseteq {rowOf[x] : x \in pairs}
    <3>1. ASSUME NEW c \in S PROVE \E x \in pairs : c = rowOf[x]
      <4>. DEFINE x == <<c.account, c.period>>
      <4>1. x \in pairs /\ x[1] = c.account /\ x[2] = c.period  BY <1>3
      <4>. HIDE DEF x
      <4>2. rowOf[x] = row(x[1], x[2])  BY <4>1
      <4>3. c = row(c.account, c.period)  BY <1>3
      <4>4. rowOf[x] = c  BY <4>1, <4>2, <4>3, Zenon
      <4>. QED  BY <4>1, <4>4
    <3>. HIDE DEF pairs, rowOf
    <3>. QED  BY <3>1
  <2>. HIDE DEF pairs, rowOf
  <2>4. IsFiniteSet({rowOf[x] : x \in pairs})  BY <2>2, ImageIsFinite
  <2>. QED  BY <2>3, <2>4, FS_Subset
<1>5. ASSUME NEW c \in S, NEW d \in S, c.account = d.account, c.period = d.period
      PROVE  c = d
  <2>1. c = row(c.account, c.period) /\ d = row(d.account, d.period)  BY <1>3
  <2>. QED  BY <1>5, <2>1, Zenon
<1>. QED  BY <1>3, <1>4, <1>5 DEF S, A

LEMMA ChartsOfInterest ==
    ASSUME NEW metric \in InterestMetrics, NEW window
    PROVE  /\ \A group \in {"none", "account"} :
                 Chart(metric, "period", group, window)
                     = CyclePeriodPoints(shown, metric, group, PeriodsIn(shown, window))
           /\ Chart(metric, "cycle", "account", window)
                  = CyclePoints(shown, metric, "account", window)
<1>1. ASSUME NEW group \in {"none", "account"}, NEW grain \in {"period", "cycle"}
      PROVE  Chart(metric, grain, group, window)
                 = IF grain = "cycle" THEN CyclePoints(shown, metric, group, window)
                   ELSE CyclePeriodPoints(shown, metric, group, PeriodsIn(shown, window))
  <2>. DEFINE q == [metric |-> metric, grain |-> grain, group |-> group, window |-> window]
  <2>1. q.metric = metric /\ q.grain = grain /\ q.group = group /\ q.window = window
    OBVIOUS
  <2>2. Chart(metric, grain, group, window) = BuildPoints(shown, LoadsUpto(1), q)
    BY DEF Chart, ChartFrom
  <2>. HIDE DEF q
  <2>3. /\ metric \notin PeriodMetrics
        /\ metric \notin {"savings_balance", "account_balance"}
    BY DEF FixedMetrics, PeriodMetrics, InterestMetrics
  <2>4. IsSupported(q)  BY <2>1, <2>3 DEF IsSupported
  <2>5. CASE grain = "cycle"
    BY <2>1, <2>2, <2>3, <2>4, <2>5 DEF BuildPoints
  <2>6. CASE grain = "period"
    BY <2>1, <2>2, <2>3, <2>4, <2>6 DEF BuildPoints
  <2>. QED  BY <2>5, <2>6
<1>. QED  BY <1>1

InterestOf(S) == [c \in S |-> c.interest]

CutIn(S, metric, P, B) ==
    {c \in MatchingCycles(S, metric) : ClosePeriod(c) \in P /\ ClosePeriod(c) \in B}

\* A chart of interest by period is worth the cycles cut in the periods asked for.
LEMMA PeriodsChartTheirCycles ==
    ASSUME NEW S, IsFiniteSet(S.statements), \A c \in S.statements : c.interest \in Int,
           NEW metric \in InterestMetrics, NEW group, NEW P, NEW B
    PROVE  SumIn(CyclePeriodPoints(S, metric, group, P), B)
               = SumFunctionOnSet(InterestOf(S.statements), CutIn(S, metric, P, B))
<1>. DEFINE M == MatchingCycles(S, metric)
            R == {c \in M : ClosePeriod(c) \in P}
            shownIn == {c \in M : ClosePeriod(c) \in P /\ ClosePeriod(c) \in B}
            interest == InterestOf(S.statements)
            triple == [c \in R |-> [bucket |-> ClosePeriod(c), series |-> CycleSeries(group, c),
                                    value |-> CycleValue(metric, c), of |-> c]]
            T == {triple[c] : c \in R}
            value == [x \in T |-> x.value]
            U == {x \in T : x.bucket \in B}
<1>1. M \subseteq S.statements  BY DEF MatchingCycles
<1>2. /\ IsFiniteSet(R) /\ IsFiniteSet(shownIn) /\ shownIn \subseteq R
      /\ \A c \in R : c \in shownIn <=> ClosePeriod(c) \in B
  <2>. HIDE DEF M
  <2>1. R \subseteq S.statements /\ shownIn \subseteq S.statements  BY <1>1
  <2>2. shownIn \subseteq R /\ \A c \in R : c \in shownIn <=> ClosePeriod(c) \in B  OBVIOUS
  <2>. HIDE DEF R, shownIn
  <2>. QED  BY <2>1, <2>2, FS_Subset
<1>3. ASSUME NEW c \in R
      PROVE  /\ triple[c].bucket = ClosePeriod(c) /\ triple[c].of = c
             /\ triple[c].value = interest[c] /\ interest[c] \in Int
  <2>1. c \in S.statements  BY <1>1
  <2>2. CycleValue(metric, c) = c.interest  BY DEF CycleValue, InterestMetrics
  <2>3. /\ triple[c].bucket = ClosePeriod(c) /\ triple[c].of = c
        /\ triple[c].value = CycleValue(metric, c)
    OBVIOUS
  <2>. HIDE DEF triple, R
  <2>. QED  BY <2>1, <2>2, <2>3 DEF InterestOf
<1>4. CyclePeriodPoints(S, metric, group, P) = Summed(T)
  <2>1. {[bucket |-> ClosePeriod(c), series |-> CycleSeries(group, c),
          value |-> CycleValue(metric, c), of |-> c] :
             c \in {x \in MatchingCycles(S, metric) : ClosePeriod(x) \in P}} = T
    OBVIOUS
  <2>. HIDE DEF T
  <2>. QED  BY <2>1 DEF CyclePeriodPoints
<1>. HIDE DEF M, R, shownIn, interest, triple
<1>5. IsFiniteSet(T)  BY <1>2, ImageIsFinite
<1>6. \A x \in T : x.value \in Int  BY <1>3
<1>7. U = {triple[c] : c \in shownIn}  BY <1>2, <1>3
<1>8. \A c \in shownIn : interest[c] \in Int /\ value[triple[c]] = interest[c]  BY <1>2, <1>3
<1>9. \A c, d \in shownIn : triple[c] = triple[d] => c = d  BY <1>2, <1>3
<1>. HIDE DEF T, value, U
<1>10. SumIn(Summed(T), B) = SumFunctionOnSet(value, U)  BY <1>5, <1>6, SummedAddsUp DEF value, U
<1>11. SumFunctionOnSet(value, {triple[c] : c \in shownIn}) = SumFunctionOnSet(interest, shownIn)
  BY <1>2, <1>8, <1>9, SumOverImage
<1>. QED  BY <1>4, <1>7, <1>10, <1>11 DEF interest, shownIn, M, CutIn

\* A chart of interest by cycle is worth its cycles, each of which has its bucket.
LEMMA CyclesAreChartedOnce ==
    ASSUME NEW S, IsFiniteSet(S.statements), \A c \in S.statements : c.interest \in Int,
           \A c, d \in S.statements : c.account = d.account /\ c.period = d.period => c = d,
           NEW metric \in InterestMetrics
    PROVE  SumOfAll(CyclePoints(S, metric, "account", Always))
               = SumFunctionOnSet(InterestOf(S.statements), MatchingCycles(S, metric))
<1>. DEFINE M == MatchingCycles(S, metric)
            interest == InterestOf(S.statements)
            triple == [c \in M |-> [bucket |-> <<c.account, c.period>>,
                                    series |-> CycleSeries("account", c),
                                    value |-> CycleValue(metric, c)]]
            T == {triple[c] : c \in M}
            value == [x \in T |-> x.value]
            points == Summed(T)
            B == {x.bucket : x \in T}
<1>1. M \subseteq S.statements /\ IsFiniteSet(M)  BY FS_Subset DEF MatchingCycles
<1>2. ASSUME NEW c \in M
      PROVE  /\ triple[c].bucket = <<c.account, c.period>>
             /\ triple[c].value = interest[c] /\ interest[c] \in Int
  <2>1. c \in S.statements  BY <1>1
  <2>2. CycleValue(metric, c) = c.interest  BY DEF CycleValue, InterestMetrics
  <2>3. /\ triple[c].bucket = <<c.account, c.period>>
        /\ triple[c].value = CycleValue(metric, c)
    OBVIOUS
  <2>. HIDE DEF triple, M
  <2>. QED  BY <2>1, <2>2, <2>3 DEF InterestOf
<1>3. CyclePoints(S, metric, "account", Always) = points
  <2>1. {x \in M : Overlaps(x.start, x.end, Always)} = M  BY DEF Overlaps, Always
  <2>2. {[bucket |-> <<c.account, c.period>>, series |-> CycleSeries("account", c),
          value |-> CycleValue(metric, c)] :
             c \in {x \in M : Overlaps(x.start, x.end, Always)}} = T
    <3>. DEFINE N == {x \in M : Overlaps(x.start, x.end, Always)}
    <3>1. N = M  BY <2>1
    <3>. HIDE DEF N, M
    <3>2. {[bucket |-> <<c.account, c.period>>, series |-> CycleSeries("account", c),
            value |-> CycleValue(metric, c)] : c \in N} = T
      BY <3>1
    <3>. QED  BY <3>2 DEF N
  <2>. HIDE DEF T
  <2>. QED  BY <2>2 DEF CyclePoints
<1>4. \A c, d \in M : triple[c] = triple[d] => c = d  BY <1>1, <1>2
<1>. HIDE DEF M, interest, triple
<1>5. IsFiniteSet(T)  BY <1>1, ImageIsFinite
<1>6. \A x \in T : x.value \in Int  BY <1>2
<1>7. \A c \in M : interest[c] \in Int /\ value[triple[c]] = interest[c]  BY <1>2
<1>8. SumFunctionOnSet(value, T) = SumFunctionOnSet(interest, M)
  <2>. HIDE DEF value
  <2>. QED  BY <1>1, <1>4, <1>7, SumOverImage
<1>9. {x \in T : x.bucket \in B} = T  OBVIOUS
<1>10. SumIn(points, B) = SumFunctionOnSet(value, T)
  <2>. HIDE DEF T, B
  <2>1. SumIn(points, B) = SumFunctionOnSet(value, {x \in T : x.bucket \in B})
    BY <1>5, <1>6, SummedAddsUp
  <2>. QED  BY <1>9, <2>1
<1>11. IsFiniteSet(DOMAIN points) /\ {k \in DOMAIN points : k[1] \in B} = DOMAIN points
  <2>. DEFINE key == [x \in T |-> <<x.bucket, x.series>>]
  <2>1. DOMAIN points = {<<x.bucket, x.series>> : x \in T}  BY DEF Summed
  <2>2. DOMAIN points = {key[x] : x \in T} /\ \A x \in T : key[x][1] \in B  BY <2>1
  <2>. HIDE DEF points, key, T, B
  <2>. QED  BY <1>5, <2>2, ImageIsFinite
<1>. HIDE DEF points, B, T
<1>12. SumOfAll(points) = SumFunctionOnSet(points, DOMAIN points)  BY <1>11, AllPointsAreSummed
<1>13. SumIn(points, B) = SumFunctionOnSet(points, DOMAIN points)  BY <1>11, PointsAreSummed
<1>. QED  BY <1>3, <1>8, <1>10, <1>12, <1>13 DEF interest, M

\* The version of an account that a read uses is one of those of the account.
LEMMA VersionsAreOfTheAccount ==
    ASSUME NEW D, AreDefinitions(D), NEW a \in Entities(D.accounts), NEW d
    PROVE  AccountAt(D, a, d) \in D.accounts /\ AccountAt(D, a, d).entity = a
<1>. DEFINE V == VersionsOf(D.accounts, a)
<1>1. \A v \in D.accounts : v.from \in Days
  BY DEF AreDefinitions, DefinitionKinds, IsDefinition
<1>2. Dated(V) /\ V # {}  BY <1>1 DEF Dated, VersionsOf, Entities
<1>3. \A v \in V : v \in D.accounts /\ v.entity = a  BY DEF VersionsOf
<1>. HIDE DEF V
<1>4. Account(V, d) \in V  BY <1>2, AccountIsVersion
<1>. QED  BY <1>3, <1>4 DEF AccountAt, V

\* Where liabilities are cards that recognise purchases, spending is what was spent
\* and the interest of the liabilities.
LEMMA SpendingOfCards ==
    ASSUME NEW D, NEW K, NEW t, IsRead(D, K, t), NEW statements, IsFiniteSet(statements),
           \A c \in statements : c.account \in Entities(D.accounts),
           \A v \in D.accounts : IsLiability(v) =>
               /\ v.kind = "CREDIT_CARD" /\ v.timing = "AT_PURCHASE"
               /\ \A w \in VersionsOf(D.accounts, v.entity) : w.kind = v.kind,
           NEW p
    PROVE  Spending(D, K, statements, p)
               = Amounts(Of(K, "expense", p))
                 + SumFunctionOnSet(InterestOf(statements),
                       {c \in statements : ClosePeriod(c) = p
                                           /\ IsLiability(AccountAt(D, c.account, t))})
<1>1. AreDefinitions(D)  BY DEF IsRead
<1>2. ASSUME NEW a \in Entities(D.accounts), NEW d
      PROVE  AccountAt(D, a, d) \in D.accounts /\ AccountAt(D, a, d).entity = a
  BY <1>1, VersionsAreOfTheAccount
<1>3. ASSUME NEW a, NEW d PROVE Timing(D, a, d) # "AT_STATEMENT_PAYMENT"
  <2>1. CASE a \in Entities(D.accounts) /\ AccountAt(D, a, d).kind = "CREDIT_CARD"
    <3>1. AccountAt(D, a, d) \in D.accounts  BY <1>2, <2>1
    <3>2. AccountAt(D, a, d).timing = "AT_PURCHASE"  BY <2>1, <3>1 DEF IsLiability
    <3>. QED  BY <2>1, <3>2 DEF Timing
  <2>2. CASE ~(a \in Entities(D.accounts) /\ AccountAt(D, a, d).kind = "CREDIT_CARD")
    BY <2>2 DEF Timing
  <2>. QED  BY <2>1, <2>2
<1>4. ASSUME NEW c \in statements
      PROVE  Timing(D, c.account, c.start) = "AT_PURCHASE"
                 <=> IsLiability(AccountAt(D, c.account, t))
  <2>. DEFINE a == c.account
              v == AccountAt(D, a, c.start)
              w == AccountAt(D, a, t)
  <2>1. a \in Entities(D.accounts)  OBVIOUS
  <2>2. v \in D.accounts /\ w \in D.accounts /\ v.entity = a /\ w.entity = a
    BY <1>2, <2>1
  <2>3. Timing(D, a, c.start) = IF v.kind = "CREDIT_CARD" THEN v.timing ELSE "NOT_A_CARD"
    BY <2>1 DEF Timing
  <2>. HIDE DEF a, v, w
  <2>4. ASSUME NEW x \in D.accounts, NEW y \in D.accounts, x.entity = y.entity, IsLiability(x)
        PROVE  /\ x.kind = "CREDIT_CARD" /\ x.timing = "AT_PURCHASE"
               /\ y.kind = "CREDIT_CARD" /\ IsLiability(y)
    <3>1. y \in VersionsOf(D.accounts, x.entity)  BY <2>4 DEF VersionsOf
    <3>2. y.kind = x.kind /\ x.kind = "CREDIT_CARD" /\ x.timing = "AT_PURCHASE"  BY <2>4, <3>1
    <3>. QED  BY <3>2 DEF IsLiability
  <2>5. IsLiability(w) => Timing(D, a, c.start) = "AT_PURCHASE"
    <3>1. IsLiability(w) => v.kind = "CREDIT_CARD" /\ IsLiability(v)  BY <2>2, <2>4
    <3>2. IsLiability(v) => v.timing = "AT_PURCHASE"  BY <2>2, <2>4
    <3>. QED  BY <2>3, <3>1, <3>2
  <2>6. Timing(D, a, c.start) = "AT_PURCHASE" => IsLiability(w)
    <3>1. v.kind = "CREDIT_CARD" => IsLiability(v)  BY DEF IsLiability
    <3>2. IsLiability(v) => IsLiability(w)  BY <2>2, <2>4
    <3>. QED  BY <2>3, <3>1, <3>2
  <2>. QED  BY <2>5, <2>6 DEF a, w
<1>. DEFINE purchases == {e \in Of(K, "expense", p) : Timing(D, e.account, e.date) # "AT_STATEMENT_PAYMENT"}
            payments == {e \in Of(K, "transfer", p) : Timing(D, e.into, e.date) = "AT_STATEMENT_PAYMENT"}
            bearing == {c \in statements : /\ ClosePeriod(c) = p
                                           /\ Timing(D, c.account, c.start) = "AT_PURCHASE"}
            owed == {c \in statements : ClosePeriod(c) = p
                                        /\ IsLiability(AccountAt(D, c.account, t))}
            borne == MapThenSumSet(LAMBDA c : c.interest, bearing)
            inBearing == [c \in bearing |-> c.interest]
            interest == InterestOf(statements)
<1>5. Spending(D, K, statements, p) = Amounts(purchases) + Amounts(payments) + borne
  BY Zenon DEF Spending
<1>6. purchases = Of(K, "expense", p) /\ payments = {}  BY <1>3
<1>7. bearing = owed  BY <1>4
<1>8. borne = SumFunctionOnSet(interest, owed)
  <2>1. IsFiniteSet(bearing) /\ bearing \subseteq statements  BY FS_Subset
  <2>2. \A c \in bearing : interest[c] = inBearing[c]  BY <2>1 DEF InterestOf
  <2>. HIDE DEF bearing, owed, interest
  <2>3. borne = SumFunctionOnSet(inBearing, bearing)  BY <2>1, InterestIsSummed
  <2>. HIDE DEF inBearing, borne
  <2>4. SumFunctionOnSet(interest, bearing) = SumFunctionOnSet(inBearing, bearing)
    BY <2>1, <2>2, SumsAgree
  <2>. QED  BY <1>7, <2>3, <2>4
<1>9. Amounts({}) = 0
  <2>. DEFINE none == {}
              f == [e \in none |-> e.amount]
  <2>1. IsFiniteSet(none)  BY FS_EmptySet
  <2>2. SumFunctionOnSet(f, {}) = 0  BY SumOfNothing
  <2>. HIDE DEF none
  <2>3. Amounts(none) = SumFunctionOnSet(f, none)  BY <2>1, AmountsIsSum
  <2>. HIDE DEF f
  <2>. QED  BY <2>2, <2>3 DEF none
<1>10. Amounts(Of(K, "expense", p)) \in Int
  <2>. DEFINE E == Of(K, "expense", p)
  <2>1. IsFiniteSet(E) /\ \A e \in E : e.amount \in Int
    BY FS_Subset, CandidatesAreEvents DEF IsRead, Of
  <2>. HIDE DEF E
  <2>. QED  BY <2>1, AmountsAreInt DEF E
<1>. HIDE DEF purchases, payments, borne, owed, interest
<1>11. Amounts(purchases) + Amounts(payments) = Amounts(Of(K, "expense", p))
  BY <1>6, <1>9, <1>10
<1>. QED  BY <1>5, <1>8, <1>11 DEF owed, interest

LEMMA AccountRowsKeepKinds ==
    ASSUME NEW D, NEW K, NEW transfers, NEW a, NEW t
    PROVE  AccountRow(D, K, transfers, a, t).kind = AccountAt(D, a, t).kind
  BY Zenon DEF AccountRow

LEMMA PeriodSpends ==
    ASSUME NEW D, NEW K, NEW t, NEW rows, NEW statements, NEW p
    PROVE  Period(D, K, t, rows, statements, p).spent = Spending(D, K, statements, p)
  BY Zenon DEF Period

\* Interest is charted in the period whose spending counts it, where every liability
\* is and was a card that recognises purchases, and each cycle is charted once,
\* whatever the grain and the grouping (api.charts, _spend_pairs).
THEOREM InterestIsAlwaysChartedWhereItCounts == Spec => []InterestIsChartedWhereItCounts
<1>. DEFINE AllAreCards == \A v \in definitions.accounts : IsLiability(v) =>
                              /\ v.kind = "CREDIT_CARD" /\ v.timing = "AT_PURCHASE"
                              /\ \A w \in VersionsOf(definitions.accounts, v.entity) : w.kind = v.kind
            Once == \A metric \in InterestMetrics, group \in {"none", "account"} :
                       SumIn(Chart(metric, "period", group, Always), PeriodIds)
                           = SumOfAll(Chart(metric, "cycle", "account", Always))
            Counted(p) == shown.periods[p].spent
                              = Amounts(Of(Facts, "expense", p))
                                + SumIn(Chart("interest_charged", "period", "none", Always), {p})
            P == PeriodsIn(shown, Always)
            S == shown.statements
            interest == InterestOf(S)
            M(metric) == MatchingCycles(shown, metric)
<1>1. ASSUME HouseInv
      PROVE  /\ IsRead(definitions, Facts, asOf) /\ asOf < MonthStart[Months]
             /\ P = DOMAIN shown.periods /\ P = Window(Facts, asOf) /\ P \subseteq PeriodIds
             /\ IsFiniteSet(S)
             /\ \A c \in S : /\ c.account \in Entities(definitions.accounts)
                             /\ c.interest \in Int /\ ClosePeriod(c) \in P
             /\ \A c, d \in S : c.account = d.account /\ c.period = d.period => c = d
  <2>1. IsRead(definitions, Facts, asOf)  BY <1>1, FactsAreRead
  <2>2. asOf < MonthStart[Months]
    <3>1. asOf \in MonthStart[1] .. MonthStart[Months] - 1  BY <1>1 DEF HouseInv, ReadDates
    <3>2. MonthStart[1] \in Int /\ MonthStart[Months] \in Int  BY CalendarIsTyped
    <3>. QED  BY <3>1, <3>2
  <2>3. P = DOMAIN shown.periods  BY DEF PeriodsIn, Overlaps, Always
  <2>. HIDE DEF P
  <2>4. DOMAIN shown.periods = Window(Facts, asOf) /\ DOMAIN shown.periods \subseteq PeriodIds
    BY <1>1, PeriodsAreShown
  <2>5. S = Statements(definitions, Facts, asOf)  BY <1>1, StatementsAreShown
  <2>. HIDE DEF S
  <2>. QED  BY <2>1, <2>2, <2>3, <2>4, <2>5, StatementsAreTyped
<1>2. ASSUME HouseInv, NEW metric \in InterestMetrics, NEW group \in {"none", "account"}
      PROVE  SumIn(Chart(metric, "period", group, Always), PeriodIds)
                 = SumOfAll(Chart(metric, "cycle", "account", Always))
  <2>1. M(metric) \subseteq S  BY DEF MatchingCycles
  <2>. DEFINE C == M(metric)
              inP == CutIn(shown, metric, P, PeriodIds)
  <2>2. inP = C
    <3>1. \A c \in S : ClosePeriod(c) \in P  BY <1>1, <1>2
    <3>2. P \subseteq PeriodIds  BY <1>1, <1>2
    <3>3. C \subseteq S  BY <2>1
    <3>. HIDE DEF C, P, S
    <3>4. \A c \in C : ClosePeriod(c) \in P /\ ClosePeriod(c) \in PeriodIds  BY <3>1, <3>2, <3>3
    <3>. QED  BY <3>4 DEF CutIn, C
  <2>. HIDE DEF P
  <2>3. \A c \in shown.statements : c.interest \in Int  BY <1>1, <1>2
  <2>4. \A c, d \in shown.statements : c.account = d.account /\ c.period = d.period => c = d
    BY <1>1, <1>2
  <2>5. IsFiniteSet(shown.statements)  BY <1>1, <1>2
  <2>6. SumIn(CyclePeriodPoints(shown, metric, group, P), PeriodIds)
            = SumFunctionOnSet(interest, inP)
    BY <2>3, <2>5, PeriodsChartTheirCycles
  <2>7. SumOfAll(CyclePoints(shown, metric, "account", Always)) = SumFunctionOnSet(interest, C)
    BY <2>3, <2>4, <2>5, CyclesAreChartedOnce
  <2>. HIDE DEF inP, interest, C
  <2>8. /\ Chart(metric, "period", group, Always) = CyclePeriodPoints(shown, metric, group, P)
        /\ Chart(metric, "cycle", "account", Always) = CyclePoints(shown, metric, "account", Always)
    BY ChartsOfInterest DEF P
  <2>. QED  BY <2>2, <2>6, <2>7, <2>8
<1>3. ASSUME HouseInv, AllAreCards, NEW p \in DOMAIN shown.periods PROVE Counted(p)
  <2>. DEFINE charged == M("interest_charged")
              inP == CutIn(shown, "interest_charged", P, {p})
              owed == {c \in S : ClosePeriod(c) = p
                                 /\ IsLiability(AccountAt(definitions, c.account, asOf))}
              transfers == ImpliedTransfers(definitions, shown.periods, asOf)
  <2>1. inP = owed
    <3>1. ASSUME NEW c \in S
          PROVE  IsLiability(shown.accounts[c.account])
                     <=> IsLiability(AccountAt(definitions, c.account, asOf))
      <4>. DEFINE a == c.account
      <4>1. a \in Entities(definitions.accounts)  BY <1>1, <1>3
      <4>2. shown.accounts = AccountRows(definitions, Facts, transfers, asOf)
        BY <1>3, ShownIsProjected
      <4>. HIDE DEF a, transfers
      <4>3. shown.accounts[a] = AccountRow(definitions, Facts, transfers, a, asOf)
        BY <4>1, <4>2 DEF AccountRows
      <4>4. shown.accounts[a].kind = AccountAt(definitions, a, asOf).kind
        BY <4>3, AccountRowsKeepKinds
      <4>5. IsLiability(shown.accounts[a]) <=> IsLiability(AccountAt(definitions, a, asOf))
        BY <4>4 DEF IsLiability
      <4>. QED  BY <4>5 DEF a
    <3>2. charged = {c \in S : IsLiability(shown.accounts[c.account])}
      BY DEF MatchingCycles, CycleMatches
    <3>3. \A c \in S : ClosePeriod(c) \in P  BY <1>1, <1>3
    <3>. HIDE DEF charged, S, P
    <3>4. ASSUME NEW c PROVE c \in inP <=> c \in owed  BY <3>1, <3>2, <3>3 DEF CutIn, charged
    <3>. HIDE DEF inP, owed
    <3>. QED  BY <3>4
  <2>. HIDE DEF P
  <2>2. \A c \in shown.statements : c.interest \in Int  BY <1>1, <1>3
  <2>3. IsFiniteSet(shown.statements)  BY <1>1, <1>3
  <2>4. "interest_charged" \in InterestMetrics  BY DEF InterestMetrics
  <2>5. SumIn(CyclePeriodPoints(shown, "interest_charged", "none", P), {p})
            = SumFunctionOnSet(interest, inP)
    BY <2>2, <2>3, <2>4, PeriodsChartTheirCycles
  <2>6. Chart("interest_charged", "period", "none", Always)
            = CyclePeriodPoints(shown, "interest_charged", "none", P)
    BY <2>4, ChartsOfInterest DEF P
  <2>7. Spending(definitions, Facts, S, p)
            = Amounts(Of(Facts, "expense", p)) + SumFunctionOnSet(interest, owed)
    <3>1. \A c \in shown.statements : c.account \in Entities(definitions.accounts)
      BY <1>1, <1>3
    <3>2. IsRead(definitions, Facts, asOf)  BY <1>1, <1>3
    <3>3. AllAreCards  BY <1>3
    <3>. QED  BY <2>3, <3>1, <3>2, <3>3, SpendingOfCards
  <2>8. shown.periods[p].spent = Spending(definitions, Facts, S, p)
    <3>1. shown.periods[p] = Period(definitions, Facts, asOf, shown.rows, S, p)
      BY <1>3, ShownIsProjected
    <3>. HIDE DEF S
    <3>. QED  BY <3>1, PeriodSpends
  <2>. HIDE DEF inP, owed, interest, S
  <2>. QED  BY <2>1, <2>5, <2>6, <2>7, <2>8
<1>4. HouseInv => InterestIsChartedWhereItCounts
  <2>. HIDE DEF P, S, M, interest
  <2>. SUFFICES ASSUME HouseInv
                PROVE  Once /\ (AllAreCards => \A p \in DOMAIN shown.periods : Counted(p))
    BY DEF InterestIsChartedWhereItCounts
  <2>1. Once  BY <1>2
  <2>. HIDE DEF Once, Counted
  <2>2. AllAreCards => \A p \in DOMAIN shown.periods : Counted(p)  BY <1>3
  <2>. QED  BY <2>1, <2>2
<1>. QED  BY <1>4, HouseInvHolds, PTL

-----------------------------------------------------------------------------
(* Net worth.                                                              *)

LEMMA SumOfTwo ==
    ASSUME NEW S, IsFiniteSet(S), NEW f, NEW x \in S, NEW y \in S, x # y,
           f[x] \in Int, f[y] \in Int, \A z \in S : z \notin {x, y} => f[z] = 0
    PROVE  SumFunctionOnSet(f, S) = f[x] + f[y]
<1>. DEFINE T == {x, y}
            one == {x}
            other == {y}
<1>1. /\ T \in SUBSET S /\ one \cup other = T /\ one \cap other = {}
      /\ \A z \in T : f[z] \in Int
      /\ \A z \in S \ T : f[z] = 0
  OBVIOUS
<1>2. IsFiniteSet(one) /\ IsFiniteSet(other)  BY FS_Singleton
<1>3. SumFunctionOnSet(f, one) = f[x] /\ SumFunctionOnSet(f, other) = f[y]  BY SumOfOne
<1>. HIDE DEF T, one, other
<1>4. SumFunctionOnSet(f, S) = SumFunctionOnSet(f, T)  BY <1>1, SumOfPart
<1>5. \A z \in one \cup other : f[z] \in Int  BY <1>1
<1>6. SumFunctionOnSet(f, one \cup other) = SumFunctionOnSet(f, one) + SumFunctionOnSet(f, other)
  BY <1>1, <1>2, <1>5, SumSplits
<1>7. SumFunctionOnSet(f, one \cup other) = SumFunctionOnSet(f, T)  BY <1>1, Zenon
<1>. QED  BY <1>3, <1>4, <1>6, <1>7

LEMMA SumOfZeros ==
    ASSUME NEW S, IsFiniteSet(S), NEW f, \A x \in S : f[x] = 0
    PROVE  SumFunctionOnSet(f, S) = 0
<1>. DEFINE T == {}
<1>1. T \in SUBSET S /\ (\A x \in T : f[x] \in Int) /\ \A x \in S \ T : f[x] = 0  OBVIOUS
<1>2. SumFunctionOnSet(f, T) = 0  BY SumOfNothing
<1>. HIDE DEF T
<1>. QED  BY <1>1, <1>2, SumOfPart

\* Sums of sums.
LEMMA SumOfSum ==
    ASSUME NEW S, IsFiniteSet(S), NEW f, NEW g, NEW h,
           \A x \in S : f[x] \in Int /\ g[x] \in Int /\ h[x] = f[x] + g[x]
    PROVE  SumFunctionOnSet(h, S) = SumFunctionOnSet(f, S) + SumFunctionOnSet(g, S)
<1>. DEFINE one == 1
            F == SumFunctionOnSet(f, S)
            G == SumFunctionOnSet(g, S)
<1>1. one \in Int /\ Linear(h, one, f, g, S)  BY DEF Linear
<1>2. F \in Int  BY SumIsInt
<1>3. one * F = F  BY <1>2
<1>. HIDE DEF one, F
<1>4. SumFunctionOnSet(h, S) = one * F + G  BY <1>1, SumIsLinear DEF F
<1>. QED  BY <1>3, <1>4 DEF F

\* A sum of one amount and of nothing else.
LEMMA SumAtOne ==
    ASSUME NEW S, IsFiniteSet(S), NEW f, NEW x \in S, f[x] \in Int,
           \A y \in S : y # x => f[y] = 0
    PROVE  SumFunctionOnSet(f, S) = f[x]
<1>. DEFINE T == {x}
<1>1. T \in SUBSET S /\ (\A y \in T : f[y] \in Int) /\ \A y \in S \ T : f[y] = 0  OBVIOUS
<1>2. SumFunctionOnSet(f, T) = f[x]  BY SumOfOne
<1>. HIDE DEF T
<1>. QED  BY <1>1, <1>2, SumOfPart

\* A table whose columns each add up to nothing adds up to nothing by rows.
LEMMA RowsCancel ==
    ASSUME NEW S, IsFiniteSet(S), NEW Q, IsFiniteSet(Q), NEW d,
           \A x \in S, k \in Q : d[<<x, k>>] \in Int,
           NEW F, \A x \in S : F[x] = RowSum(d, x, Q),
           \A k \in Q : ColumnSum(d, S, k) = 0
    PROVE  SumFunctionOnSet(F, S) = 0
<1>. DEFINE none == [k \in Q |-> 0]
<1>1. \A k \in Q : none[k] = 0  OBVIOUS
<1>. HIDE DEF none
<1>2. \A k \in Q : none[k] = ColumnSum(d, S, k)  BY <1>1
<1>3. SumFunctionOnSet(F, S) = SumFunctionOnSet(none, Q)  BY <1>2, SumsExchange
<1>. QED  BY <1>1, <1>3, SumOfZeros

LEMMA WorthsAreSummed ==
    ASSUME NEW K, IsFiniteSet(K)
    PROVE  MapThenSumSet(Worth, K) = SumFunctionOnSet([e \in K |-> Worth(e)], K)
<1>. DEFINE f == [e \in K |-> Worth(e)]
            Folds(g) == g = [s \in SUBSET K |->
                               IF s = {} THEN 0 ELSE Worth(Pick(s)) + g[s \ {Pick(s)}]]
            h == CHOOSE g : Folds(g)
<1>1. ASSUME NEW s \in SUBSET K, s # {} PROVE f[Pick(s)] = Worth(Pick(s))
  BY <1>1, PickIsIn
<1>2. ASSUME NEW g PROVE Folds(g) <=> IsFold(g, f, K)
  <2>. HIDE DEF f
  <2>. QED  BY <1>1 DEF IsFold
<1>. HIDE DEF f
<1>3. \E g : Folds(g)  BY <1>2, FoldExists
<1>4. IsFold(h, f, K)  BY <1>2, <1>3
<1>5. MapThenSumSet(Worth, K) = h[K]  BY DEF MapThenSumSet, MapThenFoldSet, Pick
<1>. HIDE DEF h
<1>. QED  BY <1>4, <1>5, FoldIsSum DEF f

LEMMA NetWorthIsSum ==
    ASSUME NEW accounts, NEW A, A = DOMAIN accounts, IsFiniteSet(A)
    PROVE  NetWorth(accounts) = SumFunctionOnSet([a \in A |-> accounts[a].balance], A)
<1>. DEFINE f == [a \in A |-> accounts[a].balance]
            Folds(g) == g = [s \in SUBSET A |->
                               IF s = {} THEN 0 ELSE accounts[Pick(s)].balance + g[s \ {Pick(s)}]]
            h == CHOOSE g : Folds(g)
<1>1. ASSUME NEW s \in SUBSET A, s # {} PROVE f[Pick(s)] = accounts[Pick(s)].balance
  BY <1>1, PickIsIn
<1>2. ASSUME NEW g PROVE Folds(g) <=> IsFold(g, f, A)
  <2>. HIDE DEF f
  <2>. QED  BY <1>1 DEF IsFold
<1>. HIDE DEF f
<1>3. \E g : Folds(g)  BY <1>2, FoldExists
<1>4. IsFold(h, f, A)  BY <1>2, <1>3
<1>5. NetWorth(accounts) = h[A]  BY DEF NetWorth, MapThenSumSet, MapThenFoldSet, Pick
<1>. HIDE DEF h
<1>. QED  BY <1>4, <1>5, FoldIsSum DEF f

\* An event moves the accounts it names by what it is worth, and no others.
LEMMA EventsMoveTheirWorth ==
    ASSUME NEW e \in Candidates, NEW A, IsFiniteSet(A), AccountsOf(e) \subseteq A
    PROVE  SumFunctionOnSet([a \in A |-> AccountDelta(e, a)], A) = Worth(e)
<1>. DEFINE f == [a \in A |-> AccountDelta(e, a)]
<1>1. e.type \in EventTypes /\ e.amount \in Int  BY CandidatesAreEvents
<1>2. \A a \in A : f[a] = AccountDelta(e, a)  OBVIOUS
<1>. HIDE DEF f
<1>3. ASSUME NEW m \in Int, e.account \in A, f[e.account] = m,
             \A a \in A : a # e.account => f[a] = 0
      PROVE  SumFunctionOnSet(f, A) = m
  <2>. DEFINE T == {e.account}
  <2>1. /\ T \in SUBSET A /\ \A a \in T : f[a] \in Int
        /\ \A a \in A \ T : f[a] = 0
    BY <1>3
  <2>2. SumFunctionOnSet(f, T) = f[e.account]  BY <1>3, SumOfOne
  <2>. HIDE DEF T
  <2>. QED  BY <1>3, <2>1, <2>2, SumOfPart
<1>4. CASE e.type \in {"income", "gift", "opening", "earned"}
  <2>1. e.account \in A  BY <1>4, CandidatesAreEvents DEF AccountsOf
  <2>2. \A a \in A : f[a] = IF e.account = a THEN e.amount ELSE 0
    BY <1>2, <1>4 DEF AccountDelta
  <2>3. SumFunctionOnSet(f, A) = e.amount  BY <1>1, <1>3, <2>1, <2>2
  <2>. QED  BY <1>4, <2>3 DEF Worth, f
<1>5. CASE e.type \in {"expense", "paid", "charged"}
  <2>1. e.account \in A  BY <1>5, CandidatesAreEvents DEF AccountsOf
  <2>2. \A a \in A : f[a] = IF e.account = a THEN -e.amount ELSE 0
    BY <1>2, <1>5 DEF AccountDelta
  <2>3. SumFunctionOnSet(f, A) = -e.amount  BY <1>1, <1>3, <2>1, <2>2
  <2>. QED  BY <1>5, <2>3 DEF Worth, f
<1>6. CASE e.type = "transfer"
  <2>1. /\ e.account \in A /\ e.into \in A /\ e.account # e.into
    BY <1>6, CandidatesAreEvents DEF AccountsOf
  <2>2. /\ f[e.account] = -e.amount /\ f[e.into] = e.amount
        /\ \A a \in A : a \notin {e.account, e.into} => f[a] = 0
    BY <1>2, <1>6, <2>1 DEF AccountDelta
  <2>3. SumFunctionOnSet(f, A) = f[e.account] + f[e.into]
    BY <1>1, <2>1, <2>2, SumOfTwo
  <2>4. SumFunctionOnSet(f, A) = 0  BY <1>1, <2>2, <2>3
  <2>. QED  BY <1>6, <2>4 DEF Worth, f
<1>7. CASE e.type \in {"raised", "drawn"}
  <2>1. \A a \in A : f[a] = 0  BY <1>2, <1>7 DEF AccountDelta
  <2>2. SumFunctionOnSet(f, A) = 0  BY <2>1, SumOfZeros
  <2>. QED  BY <1>7, <2>2 DEF Worth, f
<1>. QED  BY <1>1, <1>4, <1>5, <1>6, <1>7 DEF EventTypes

\* The deltas of all events on all accounts, summed either way.
LEMMA MovementsAreWorth ==
    ASSUME NEW K, K \subseteq Candidates, IsFiniteSet(K), NEW A, IsFiniteSet(A),
           \A e \in K : AccountsOf(e) \subseteq A,
           NEW M, \A a \in A : M[a] = SumFunctionOnSet([e \in K |-> AccountDelta(e, a)], K)
    PROVE  SumFunctionOnSet(M, A) = SumFunctionOnSet([e \in K |-> Worth(e)], K)
<1>. DEFINE d == [z \in K \X A |-> AccountDelta(z[1], z[2])]
            worth == [e \in K |-> Worth(e)]
<1>1. \A e \in K, a \in A : d[<<e, a>>] = AccountDelta(e, a)  OBVIOUS
<1>2. \A e \in K : worth[e] = Worth(e)  OBVIOUS
<1>. HIDE DEF d, worth
<1>3. \A e \in K, a \in A : d[<<e, a>>] \in Int  BY <1>1, DeltasAreInt
<1>4. ASSUME NEW e \in K
      PROVE  worth[e] = RowSum(d, e, A)
  <2>1. [a \in A |-> d[<<e, a>>]] = [a \in A |-> AccountDelta(e, a)]  BY <1>1
  <2>2. SumFunctionOnSet([a \in A |-> AccountDelta(e, a)], A) = Worth(e)
    BY EventsMoveTheirWorth
  <2>. QED  BY <1>2, <2>1, <2>2 DEF RowSum
<1>5. ASSUME NEW a \in A
      PROVE  M[a] = ColumnSum(d, K, a)
  <2>1. [e \in K |-> d[<<e, a>>]] = [e \in K |-> AccountDelta(e, a)]  BY <1>1
  <2>. QED  BY <2>1 DEF ColumnSum
<1>6. SumFunctionOnSet(worth, K) = SumFunctionOnSet(M, A)
  BY <1>3, <1>4, <1>5, SumsExchange
<1>. QED  BY <1>6 DEF worth

\* A transfer that is implied takes from one account what it gives to another.
LEMMA TransfersAreNeutral ==
    ASSUME NEW T, IsFiniteSet(T), NEW A, IsFiniteSet(A),
           \A x \in T : /\ x.amount \in Int /\ x.from # x.into
                        /\ x.from \in A /\ x.into \in A,
           NEW M, \A a \in A : M[a] = SumFunctionOnSet([x \in T |-> ImpliedDelta(x, a)], T)
    PROVE  SumFunctionOnSet(M, A) = 0
<1>. DEFINE d == [z \in T \X A |-> ImpliedDelta(z[1], z[2])]
            zero == [x \in T |-> 0]
<1>1. \A x \in T, a \in A : d[<<x, a>>] = ImpliedDelta(x, a)  OBVIOUS
<1>2. \A x \in T : zero[x] = 0  OBVIOUS
<1>. HIDE DEF d, zero
<1>3. \A x \in T, a \in A : d[<<x, a>>] \in Int
  <2>. SUFFICES ASSUME NEW x \in T, NEW a \in A
                PROVE  d[<<x, a>>] \in Int
    OBVIOUS
  <2>. DEFINE amount == x.amount
  <2>1. ImpliedDelta(x, a) \in {amount, -amount, 0}  BY DEF ImpliedDelta
  <2>2. amount \in Int  OBVIOUS
  <2>3. d[<<x, a>>] = ImpliedDelta(x, a)  BY <1>1
  <2>. HIDE DEF amount
  <2>. QED  BY <2>1, <2>2, <2>3
<1>4. ASSUME NEW x \in T
      PROVE  zero[x] = RowSum(d, x, A)
  <2>. DEFINE f == [a \in A |-> d[<<x, a>>]]
  <2>1. \A a \in A : f[a] = ImpliedDelta(x, a)  BY <1>1
  <2>2. RowSum(d, x, A) = SumFunctionOnSet(f, A)  BY DEF RowSum
  <2>. HIDE DEF f
  <2>3. /\ f[x.from] = -x.amount /\ f[x.into] = x.amount
        /\ \A a \in A : a \notin {x.from, x.into} => f[a] = 0
    BY <2>1 DEF ImpliedDelta
  <2>4. SumFunctionOnSet(f, A) = f[x.from] + f[x.into]  BY <2>3, SumOfTwo
  <2>. QED  BY <1>2, <2>2, <2>3, <2>4
<1>5. ASSUME NEW a \in A
      PROVE  M[a] = ColumnSum(d, T, a)
  <2>1. [x \in T |-> d[<<x, a>>]] = [x \in T |-> ImpliedDelta(x, a)]  BY <1>1
  <2>. QED  BY <2>1 DEF ColumnSum
<1>6. SumFunctionOnSet(zero, T) = SumFunctionOnSet(M, A)
  BY <1>3, <1>4, <1>5, SumsExchange
<1>7. SumFunctionOnSet(zero, T) = 0  BY <1>2, SumOfZeros
<1>. QED  BY <1>6, <1>7

LEMMA AccountsAreFinite ==
    ASSUME NEW D, AreDefinitions(D)
    PROVE  IsFiniteSet(Entities(D.accounts))
<1>. DEFINE V == D.accounts
            entity == [v \in V |-> v.entity]
<1>1. IsFiniteSet(V)  BY DEF AreDefinitions, DefinitionKinds
<1>2. Entities(V) = {entity[v] : v \in V}  BY DEF Entities
<1>. HIDE DEF V, entity
<1>3. IsFiniteSet(Entities(V))  BY <1>1, <1>2, ImageIsFinite
<1>. QED  BY <1>3 DEF V

\* Transfers are implied between two accounts that are defined.
LEMMA TransfersAreBetween ==
    ASSUME NEW D, AreDefinitions(D), NEW periods, DOMAIN periods \subseteq PeriodIds,
           \A p \in DOMAIN periods : periods[p].savings \in Int, NEW t
    PROVE  LET T == ImpliedTransfers(D, periods, t)
               A == Entities(D.accounts)
           IN  /\ IsFiniteSet(T)
               /\ \A x \in T : /\ x.amount \in Int /\ x.from # x.into
                               /\ x.from \in A /\ x.into \in A
<1>. DEFINE c == FirstOfKind(D, "CHECKING", t)
            s == FirstOfKind(D, "SAVINGS", t)
            Q == {q \in DOMAIN periods : periods[q].closed /\ periods[q].savings # 0}
            g == [p \in Q |-> [date |-> EndExclusive(p) - 1, amount |-> periods[p].savings,
                               from |-> c, into |-> s]]
            T == ImpliedTransfers(D, periods, t)
<1>1. CASE None \in {c, s}
  <2>1. T = {}  BY <1>1 DEF ImpliedTransfers
  <2>. QED  BY <2>1, FS_EmptySet
<1>2. CASE None \notin {c, s}
  <2>1. T = {g[p] : p \in Q}  BY <1>2 DEF ImpliedTransfers
  <2>2. Q \in SUBSET PeriodIds  OBVIOUS
  <2>3. IsFiniteSet(Q)  BY <2>2, PeriodIdsAreFinite
  <2>4. \A p \in Q : g[p].amount \in Int /\ g[p].from = c /\ g[p].into = s  OBVIOUS
  <2>5. /\ c \in Entities(D.accounts) /\ AccountAt(D, c, t).kind = "CHECKING"
        /\ s \in Entities(D.accounts) /\ AccountAt(D, s, t).kind = "SAVINGS"
    BY <1>2, FirstIsOfKind
  <2>. HIDE DEF Q, g, T, c, s
  <2>6. IsFiniteSet(T)  BY <2>1, <2>3, ImageIsFinite
  <2>7. c # s  BY <2>5
  <2>8. \A x \in T : x.amount \in Int /\ x.from = c /\ x.into = s  BY <2>1, <2>4
  <2>. QED  BY <2>5, <2>6, <2>7, <2>8 DEF T
<1>. QED  BY <1>1, <1>2

\* What the accounts of a State add up to is what its events are worth.
LEMMA NetWorthIsOfEvents ==
    ASSUME NEW L, NEW D, NEW K, NEW t, K = Known(Surviving(L), t), IsRead(D, K, t),
           \A e \in K : KnownAccounts(D, e)
    PROVE  NetWorth(Project(L, D, t).accounts) = MapThenSumSet(Worth, K)
<1>. DEFINE rows == ObligationRows(D, K, t)
            statements == Statements(D, K, t)
            period(p) == Period(D, K, t, rows, statements, p)
            periods == [p \in Window(K, t) |-> period(p)]
            T == ImpliedTransfers(D, periods, t)
            accounts == AccountRows(D, K, T, t)
            A == Entities(D.accounts)
            booked == {x \in T : x.date <= t}
            balances == [a \in A |-> accounts[a].balance]
            moved == [a \in A |-> SumFunctionOnSet([e \in K |-> AccountDelta(e, a)], K)]
            implied == [a \in A |->
                          SumFunctionOnSet([x \in booked |-> ImpliedDelta(x, a)], booked)]
<1>1. Project(L, D, t).accounts = accounts
  <2>1. Project(L, D, t) = WithPeriods(D, K, t, rows, statements)  BY DEF Project, FoldLedger
  <2>. HIDE DEF rows, statements
  <2>2. Project(L, D, t) = WithBalances(D, K, t, rows, statements, periods)
    BY <2>1 DEF WithPeriods
  <2>. HIDE DEF periods
  <2>3. Project(L, D, t)
            = StateOf(K, t, rows, statements, periods, accounts, FirstOfKind(D, "SAVINGS", t))
    BY <2>2 DEF WithBalances
  <2>. HIDE DEF accounts
  <2>. QED  BY <2>3 DEF StateOf
<1>2. /\ DOMAIN periods \subseteq PeriodIds
      /\ \A p \in DOMAIN periods : periods[p].savings \in Int
  <2>1. Window(K, t) \subseteq PeriodIds  BY WindowIsRight DEF IsRead
  <2>2. \A p : period(p).savings \in Int  BY SavingsAreInt
  <2>. HIDE DEF period
  <2>. QED  BY <2>1, <2>2
<1>3. AreDefinitions(D) /\ IsFiniteSet(A) /\ K \subseteq Candidates /\ IsFiniteSet(K)
  BY AccountsAreFinite DEF IsRead
<1>. HIDE DEF periods
<1>4. /\ IsFiniteSet(T)
      /\ \A x \in T : /\ x.amount \in Int /\ x.from # x.into
                      /\ x.from \in A /\ x.into \in A
  BY <1>2, <1>3, TransfersAreBetween
<1>. HIDE DEF T
<1>5. IsFiniteSet(booked) /\ booked \subseteq T  BY <1>4, FS_Subset
<1>6. DOMAIN accounts = A /\ \A a \in A : accounts[a] = AccountRow(D, K, T, a, t)
  BY DEF AccountRows
<1>. HIDE DEF accounts
<1>7. ASSUME NEW a \in A
      PROVE  balances[a] = moved[a] + implied[a]
  <2>1. accounts[a].balance
            = SumFunctionOnSet([e \in K |-> AccountDelta(e, a)], K)
              + SumFunctionOnSet([x \in booked |-> ImpliedDelta(x, a)], booked)
    BY <1>3, <1>4, <1>6, BalanceIsSum
  <2>. QED  BY <2>1
<1>8. ASSUME NEW a \in A
      PROVE  moved[a] \in Int /\ implied[a] \in Int
  <2>. DEFINE f == [e \in K |-> AccountDelta(e, a)]
              h == [x \in booked |-> ImpliedDelta(x, a)]
  <2>1. \A e \in K : f[e] \in Int  BY <1>3, DeltasAreInt
  <2>2. \A x \in booked : h[x] \in Int
    <3>1. \A x \in booked : h[x] = ImpliedDelta(x, a) /\ x.amount \in Int  BY <1>4, <1>5
    <3>. HIDE DEF h, booked
    <3>. QED  BY <3>1 DEF ImpliedDelta
  <2>3. moved[a] = SumFunctionOnSet(f, K) /\ implied[a] = SumFunctionOnSet(h, booked)
    OBVIOUS
  <2>. HIDE DEF f, h, booked, moved, implied
  <2>. QED  BY <1>3, <1>5, <2>1, <2>2, <2>3, SumIsInt
<1>9. \A a \in A : moved[a] = SumFunctionOnSet([e \in K |-> AccountDelta(e, a)], K)
  OBVIOUS
<1>10. \A a \in A :
          implied[a] = SumFunctionOnSet([x \in booked |-> ImpliedDelta(x, a)], booked)
  OBVIOUS
<1>11. NetWorth(accounts) = SumFunctionOnSet(balances, A)
  BY <1>3, <1>6, NetWorthIsSum
<1>. HIDE DEF balances, moved, implied, booked, A
<1>12. SumFunctionOnSet(moved, A) = SumFunctionOnSet([e \in K |-> Worth(e)], K)
  <2>1. \A e \in K : AccountsOf(e) \subseteq A  BY DEF KnownAccounts, A
  <2>. QED  BY <1>3, <1>9, <2>1, MovementsAreWorth
<1>13. SumFunctionOnSet(implied, A) = 0
  <2>1. \A x \in booked : /\ x.amount \in Int /\ x.from # x.into
                          /\ x.from \in A /\ x.into \in A
    BY <1>4, <1>5
  <2>. QED  BY <1>3, <1>5, <1>10, <2>1, TransfersAreNeutral
<1>. DEFINE one == 1
            B == SumFunctionOnSet(balances, A)
            M == SumFunctionOnSet(moved, A)
            I == SumFunctionOnSet(implied, A)
<1>14. M \in Int /\ I \in Int  BY <1>3, <1>8, SumIsInt
<1>15. one \in Int /\ Linear(balances, one, moved, implied, A)
  BY <1>7, <1>8 DEF Linear
<1>16. B = one * M + I
  <2>. HIDE DEF one
  <2>. QED  BY <1>3, <1>15, SumIsLinear
<1>17. B = M
  <2>1. one * M = M  BY <1>14
  <2>. HIDE DEF B, one, M
  <2>. QED  BY <1>13, <1>14, <1>16, <2>1 DEF I
<1>18. MapThenSumSet(Worth, K) = SumFunctionOnSet([e \in K |-> Worth(e)], K)
  BY <1>3, WorthsAreSummed
<1>. QED  BY <1>1, <1>11, <1>12, <1>17, <1>18 DEF B, M

\* The accounts of every event in the ledger are defined, by whatever version.
KnownInv == \A e \in ledger : e.type = "void" \/ KnownAccounts(definitions, e)

\* No edit makes an account unknown.
LEMMA EditsKeepEntities ==
    ASSUME NEW k, NEW V, \A v \in V : IsDefinition(k, v), NEW edit
    PROVE  Entities(V) \subseteq Entities(Edited(V, edit))
<1>. DEFINE W == Edited(V, edit)
<1>1. ASSUME NEW v \in V PROVE \E w \in W : w.entity = v.entity
  <2>1. CASE v \in Closed(V, edit)
    <3>. DEFINE w == [v EXCEPT !.to = edit.closeAt]
    <3>1. w \in W  BY <2>1 DEF Edited
    <3>2. w.entity = v.entity  BY DEF IsDefinition
    <3>. QED  BY <3>1, <3>2
  <2>2. CASE v \notin Closed(V, edit)  BY <2>2 DEF Edited
  <2>. QED  BY <2>1, <2>2
<1>. HIDE DEF W
<1>2. Entities(V) \subseteq Entities(W)  BY <1>1 DEF Entities
<1>. QED  BY <1>2 DEF W

LEMMA StepsKeepAccounts ==
    ASSUME HouseInv, [Next]_vars
    PROVE  Entities(definitions.accounts) \subseteq Entities(definitions'.accounts)
<1>1. CASE definitions' = definitions  BY <1>1
<1>2. ASSUME NEW edit \in Edits,
             definitions' = [definitions EXCEPT ![edit.kind] = Edited(@, edit)]
      PROVE  Entities(definitions.accounts) \subseteq Entities(definitions'.accounts)
  <2>1. "accounts" \in DefinitionKinds  BY DEF DefinitionKinds
  <2>2. AreDefinitions(definitions)  BY DEF HouseInv
  <2>3. definitions'.accounts \in {definitions.accounts, Edited(definitions.accounts, edit)}
    BY <1>2, <2>1, <2>2 DEF AreDefinitions
  <2>4. \A v \in definitions.accounts : IsDefinition("accounts", v)
    BY <2>1, <2>2 DEF AreDefinitions
  <2>. QED  BY <2>3, <2>4, EditsKeepEntities
<1>. QED  BY <1>1, <1>2, StepsEdit DEF StepEdits

LEMMA KnownInvHolds == Spec => []KnownInv
<1>1. Init => KnownInv  BY DEF Init, KnownInv
<1>2. HouseInv /\ KnownInv /\ [Next]_vars => KnownInv'
  <2>. SUFFICES ASSUME HouseInv, KnownInv, [Next]_vars PROVE KnownInv'
    OBVIOUS
  <2>1. Entities(definitions.accounts) \subseteq Entities(definitions'.accounts)
    BY StepsKeepAccounts
  <2>2. ASSUME NEW e \in ledger PROVE e.type = "void" \/ KnownAccounts(definitions', e)
    BY <2>1 DEF KnownInv, KnownAccounts
  <2>3. CASE Record
    BY <2>2, <2>3 DEF Record, CanRecord, KnownInv
  <2>4. CASE Void
    <3>1. PICK id, d : ledger' = ledger \cup {VoidOf(id, d)}  BY <2>4 DEF Void
    <3>2. VoidOf(id, d).type = "void"  BY DEF VoidOf
    <3>. QED  BY <2>2, <3>1, <3>2 DEF KnownInv
  <2>5. CASE EditDefinition  BY <2>2, <2>5 DEF EditDefinition, KnownInv
  <2>6. CASE ReadWhileWriting
    BY <2>2, <2>6 DEF ReadWhileWriting, CanRecord, KnownInv
  <2>7. CASE ReadAsOf  BY <2>2, <2>7 DEF ReadAsOf, KnownInv
  <2>8. CASE UNCHANGED vars  BY <2>2, <2>8 DEF vars, KnownInv
  <2>. QED  BY <2>3, <2>4, <2>5, <2>6, <2>7, <2>8 DEF Next
<1>. QED  BY <1>1, <1>2, HouseInvHolds, PTL DEF Spec

LEMMA ChartsOfNetWorth ==
    ASSUME NEW cut, NEW window
    PROVE  ChartFrom(cut, "account_balance", "period", "none", window)
               = BalancePoints(shown, LoadsUpto(cut), "account_balance", "none",
                               PeriodsIn(shown, window))
<1>. DEFINE q == [metric |-> "account_balance", grain |-> "period", group |-> "none",
                  window |-> window]
<1>1. /\ q.metric = "account_balance" /\ q.grain = "period" /\ q.group = "none"
      /\ q.window = window
  OBVIOUS
<1>2. ChartFrom(cut, "account_balance", "period", "none", window)
          = BuildPoints(shown, LoadsUpto(cut), q)
  BY DEF ChartFrom
<1>. HIDE DEF q
<1>3. IsSupported(q)  BY <1>1 DEF IsSupported
<1>4. "account_balance" \notin InterestMetrics \cup PeriodMetrics
  BY DEF InterestMetrics, PeriodMetrics, FixedMetrics
<1>. QED  BY <1>1, <1>2, <1>3, <1>4 DEF BuildPoints

\* What any part of the ledger knows at the close of a month of the read is of a
\* read, and the accounts of its events are defined.
LEMMA ClosesAreReads ==
    ASSUME HouseInv, KnownInv, NEW p \in DOMAIN shown.periods, NEW L, L \subseteq ledger,
           NEW t, t = Smaller(EndExclusive(p) - 1, asOf)
    PROVE  LET K == {e \in Known(Surviving(L), asOf) : e.date < EndExclusive(p)}
           IN  /\ K = Known(Surviving(L), t)
               /\ IsRead(definitions, K, t)
               /\ \A e \in K : KnownAccounts(definitions, e)
<1>. DEFINE K == {e \in Known(Surviving(L), asOf) : e.date < EndExclusive(p)}
<1>1. p \in PeriodIds
  BY ShownIsProjected, FactsAreEvents, WindowIsRight
<1>2. EndExclusive(p) \in Int /\ EndExclusive(p) - 1 \in Days /\ asOf \in Days
  BY <1>1, FactsAreEvents, CalendarIsTyped DEF PeriodIds, EndExclusive, Days
<1>3. asOf \in Int  BY <1>2, CalendarIsTyped DEF Days
<1>4. t \in Days  BY <1>2 DEF Smaller
<1>5. ASSUME NEW e \in Surviving(L), e.date \in Int
      PROVE  e.date <= t <=> e.date <= asOf /\ e.date < EndExclusive(p)
  BY <1>2, <1>3, <1>5 DEF Smaller
<1>6. \A e \in Surviving(L) : e \in ledger /\ e.type # "void" /\ e \in Candidates
  BY DEF HouseInv, Surviving
<1>7. \A e \in Surviving(L) : e.date \in Int
  BY <1>6, CandidatesAreEvents, CalendarIsTyped DEF Days
<1>8. K = Known(Surviving(L), t)
  BY <1>5, <1>7 DEF Known
<1>9. K \subseteq Surviving(L)  BY DEF Known
<1>. HIDE DEF K
<1>10. K \subseteq Candidates /\ K \subseteq ledger  BY <1>6, <1>9
<1>11. IsRead(definitions, K, t)
  <2>1. IsFiniteSet(K)  BY <1>10, FS_Subset DEF HouseInv
  <2>2. Placed(K)  BY <1>10, CandidatesAreEvents, <1>6, <1>9 DEF Placed, PeriodDate
  <2>. QED  BY <1>4, <1>10, <2>1, <2>2 DEF IsRead, HouseInv
<1>12. \A e \in K : KnownAccounts(definitions, e)  BY <1>6, <1>9 DEF KnownInv
<1>. QED  BY <1>8, <1>11, <1>12 DEF K

\* The ledger that the bucket of a period found.
Found(cut, p) == IF p < cut \/ asOf < EndExclusive(p) THEN listed ELSE ledger

\* The State of a bucket is of the ledger it found.
LEMMA ClosesAreOfTheirLedger ==
    ASSUME HouseInv, NEW cut, NEW p \in DOMAIN shown.periods
    PROVE  AtClose(shown, LoadsUpto(cut), p)
               = Project(Found(cut, p), definitions, Smaller(EndExclusive(p) - 1, asOf))
<1>. DEFINE t == Smaller(EndExclusive(p) - 1, asOf)
<1>1. p \in PeriodIds
  BY ShownIsProjected, FactsAreEvents, WindowIsRight
<1>2. EndExclusive(p) \in Int /\ asOf \in Int
  BY <1>1, FactsAreEvents, CalendarIsTyped DEF PeriodIds, EndExclusive, Days
<1>3. shown.asOf = asOf /\ shown = Project(listed, definitions, asOf)
  BY ShownIsProjected DEF HouseInv
<1>4. /\ LoadsUpto(cut)[p].ledger = IF p < cut THEN listed ELSE ledger
      /\ LoadsUpto(cut)[p].definitions = definitions
  BY <1>1 DEF LoadsUpto
<1>5. AtClose(shown, LoadsUpto(cut), p)
          = IF t = asOf THEN shown
            ELSE Project(LoadsUpto(cut)[p].ledger, LoadsUpto(cut)[p].definitions, t)
  BY <1>3 DEF AtClose
<1>6. t = asOf <=> asOf < EndExclusive(p)  BY <1>2 DEF Smaller
<1>. HIDE DEF t
<1>7. CASE asOf < EndExclusive(p)
  BY <1>3, <1>5, <1>6, <1>7 DEF Found, t
<1>8. CASE ~(asOf < EndExclusive(p))
  BY <1>4, <1>5, <1>6, <1>8 DEF Found, t
<1>. QED  BY <1>7, <1>8

\* api.charts, load_state: what is charted as the net worth of a period is what the
\* events come to that its own bucket knows at its close: every account they name is
\* in the answer, and what one account gives another takes, moves the sum of neither.
THEOREM NetWorthIsAlwaysExplained == Spec => []NetWorthIsExplained
<1>1. HouseInv /\ KnownInv => NetWorthIsExplained
  <2>. SUFFICES ASSUME HouseInv, KnownInv PROVE NetWorthIsExplained
    OBVIOUS
  <2>. DEFINE points(cut) == ChartFrom(cut, "account_balance", "period", "none", Always)
              facts(cut, p) ==
                  {e \in Known(Surviving(Found(cut, p)), asOf) : e.date < EndExclusive(p)}
  <2>. SUFFICES ASSUME NEW cut \in PeriodIds, NEW k \in DOMAIN points(cut)
                PROVE  points(cut)[k] = MapThenSumSet(Worth, facts(cut, k[1]))
    BY DEF NetWorthIsExplained, Found
  <2>. DEFINE P == PeriodsIn(shown, Always)
              atClose == [p \in P |-> AtClose(shown, LoadsUpto(cut), p)]
              keys == UNION {{p} \X {Total} : p \in P}
              p == k[1]
              t == Smaller(EndExclusive(p) - 1, asOf)
              L == Found(cut, p)
              S == Project(L, definitions, t)
              K == facts(cut, p)
  <2>1. points(cut) = BalancePoints(shown, LoadsUpto(cut), "account_balance", "none", P)
    BY ChartsOfNetWorth
  <2>2. points(cut) = [x \in keys |-> Balance(atClose[x[1]], "account_balance", x[2])]
    BY <2>1 DEF BalancePoints
  <2>3. k \in keys /\ p \in P /\ k[2] = Total
    <3>1. k \in keys  BY <2>2
    <3>2. PICK x \in P : k \in {x} \X {Total}  BY <3>1
    <3>. QED  BY <3>1, <3>2
  <2>4. points(cut)[k] = Balance(atClose[p], "account_balance", Total)
    <3>. HIDE DEF points, keys, atClose, P
    <3>. QED  BY <2>2, <2>3
  <2>5. p \in DOMAIN shown.periods  BY <2>3 DEF PeriodsIn
  <2>6. atClose[p] = S
    <3>1. atClose[p] = AtClose(shown, LoadsUpto(cut), p)  BY <2>3
    <3>. HIDE DEF atClose, p
    <3>. QED  BY <2>5, <3>1, ClosesAreOfTheirLedger
  <2>. HIDE DEF points, P, keys, atClose, p
  <2>7. points(cut)[k] = NetWorth(S.accounts)  BY <2>4, <2>6 DEF Balance
  <2>8. L \subseteq ledger  BY DEF Found, HouseInv
  <2>. HIDE DEF L
  <2>9. /\ K = Known(Surviving(L), t)
        /\ IsRead(definitions, K, t)
        /\ \A e \in K : KnownAccounts(definitions, e)
    BY <2>5, <2>8, ClosesAreReads DEF L
  <2>. HIDE DEF K, t
  <2>10. NetWorth(S.accounts) = MapThenSumSet(Worth, K)
    BY <2>9, NetWorthIsOfEvents
  <2>. QED  BY <2>7, <2>10 DEF K, p
<1>. QED  BY <1>1, HouseInvHolds, KnownInvHolds, PTL

-----------------------------------------------------------------------------
(* Cards and their modes.                                                  *)

SameMode(v, w) == v.entity = w.entity /\ v.kind = w.kind /\ v.timing = w.timing
ModesWithin(V, W) == \A v \in V : \E w \in W : SameMode(v, w)

\* Whether cards keep their mode, and what they are used for, is a matter of the
\* modes of the versions alone.
LEMMA ModesDecide ==
    ASSUME NEW V, NEW W, ModesWithin(V, W), ModesWithin(W, V)
    PROVE  (KeepMode(V) => KeepMode(W)) /\ (OnlySpend(V) => OnlySpend(W))
<1>. DEFINE Deferring(U) == {v \in Cards(U) : v.timing = "AT_STATEMENT_PAYMENT"}
<1>1. ASSUME NEW X, NEW Y, ModesWithin(X, Y)
      PROVE  /\ Entities(X) \subseteq Entities(Y)
             /\ Entities(Cards(X)) \subseteq Entities(Cards(Y))
             /\ Entities(Deferring(X)) \subseteq Entities(Deferring(Y))
  <2>1. ASSUME NEW v \in X PROVE \E w \in Y : SameMode(v, w)  BY <1>1 DEF ModesWithin
  <2>. QED  BY <2>1 DEF SameMode, Entities, Cards
<1>2. KeepMode(V) => KeepMode(W)
  <2>. SUFFICES ASSUME KeepMode(V), NEW x \in W, NEW y \in W,
                       x.entity = y.entity, x.kind = "CREDIT_CARD"
                PROVE  y.kind = x.kind /\ y.timing = x.timing
    BY DEF KeepMode
  <2>1. PICK v \in V : SameMode(x, v)  BY DEF ModesWithin
  <2>2. PICK u \in V : SameMode(y, u)  BY DEF ModesWithin
  <2>. QED  BY <2>1, <2>2 DEF KeepMode, SameMode
<1>3. /\ Entities(V) = Entities(W) /\ Entities(Cards(V)) = Entities(Cards(W))
      /\ Entities(Deferring(V)) = Entities(Deferring(W))
  <2>. HIDE DEF Deferring
  <2>. QED  BY <1>1
<1>4. ASSUME NEW U
      PROVE  OnlySpend(U) <=>
                \A e \in Candidates :
                   /\ e.type = "charged" => e.account \notin Entities(U) \ Entities(Cards(U))
                   /\ e.type = "earned" => e.account \notin Entities(Cards(U))
                   /\ e.type \notin {"expense", "charged"} => e.account \notin Entities(Deferring(U))
  BY Zenon DEF OnlySpend
<1>. HIDE DEF Deferring
<1>. QED  BY <1>2, <1>3, <1>4

LEMMA EditsKeepModes ==
    ASSUME NEW V, \A v \in V : IsDefinition("accounts", v), NEW edit \in Edits, edit.kind = "accounts"
    PROVE  LET W == Edited(V, edit)
           IN  /\ ModesWithin(V \cup AccountDrafts, W \cup AccountDrafts)
               /\ ModesWithin(W \cup AccountDrafts, V \cup AccountDrafts)
<1>. DEFINE W == Edited(V, edit)
            end(v) == [v EXCEPT !.to = edit.closeAt]
<1>1. edit.version \in AccountDrafts  BY DEF AccountDrafts
<1>2. ASSUME NEW v \in V PROVE SameMode(v, end(v)) /\ SameMode(end(v), v)
  <2>. DEFINE w == end(v)
  <2>1. IsDefinition("accounts", v)  OBVIOUS
  <2>2. /\ {"entity", "kind", "timing", "to"} \subseteq DOMAIN v
        /\ \A field \in DOMAIN v : field # "to" => w[field] = v[field]
    BY <2>1 DEF IsDefinition
  <2>. HIDE DEF w
  <2>3. SameMode(v, w) /\ SameMode(w, v)  BY <2>2 DEF SameMode
  <2>. QED  BY <2>3 DEF w
<1>3. /\ Closed(V, edit) \subseteq V
      /\ W = (V \ Closed(V, edit)) \cup {end(v) : v \in Closed(V, edit)} \cup {edit.version}
  BY DEF Edited, Closed
<1>. HIDE DEF end, W
<1>4. \A v : SameMode(v, v)  BY DEF SameMode
<1>5. ModesWithin(V \cup AccountDrafts, W \cup AccountDrafts)
  <2>1. ASSUME NEW v \in V PROVE \E w \in W : SameMode(v, w)
    <3>1. CASE v \in Closed(V, edit)
      <4>1. end(v) \in W  BY <1>3, <3>1
      <4>. QED  BY <1>2, <4>1
    <3>2. CASE v \notin Closed(V, edit)
      <4>1. v \in W  BY <1>3, <3>2
      <4>. QED  BY <1>4, <4>1
    <3>. QED  BY <3>1, <3>2
  <2>. QED  BY <1>4, <2>1 DEF ModesWithin
<1>6. ModesWithin(W \cup AccountDrafts, V \cup AccountDrafts)
  <2>1. ASSUME NEW w \in W PROVE \E v \in V \cup AccountDrafts : SameMode(w, v)
    BY <1>1, <1>2, <1>3, <1>4
  <2>. QED  BY <1>4, <2>1 DEF ModesWithin
<1>. QED  BY <1>5, <1>6 DEF W

\* Cards keep their mode, and are used as the hypotheses say, whatever is edited.
CardsInv == KeepMode(definitions.accounts \cup AccountDrafts)
            /\ OnlySpend(definitions.accounts \cup AccountDrafts)

LEMMA CardsInvHolds == CardsKeepTheirMode /\ CardsOnlySpend => (Spec => []CardsInv)
<1>. SUFFICES ASSUME CardsKeepTheirMode, CardsOnlySpend PROVE Spec => []CardsInv
  OBVIOUS
<1>1. Init => CardsInv  BY DEF Init, CardsInv, CardsKeepTheirMode, CardsOnlySpend
<1>2. HouseInv /\ CardsInv /\ [Next]_vars => CardsInv'
  <2>. SUFFICES ASSUME HouseInv, CardsInv, [Next]_vars PROVE CardsInv'
    OBVIOUS
  <2>1. CASE definitions' = definitions  BY <2>1 DEF CardsInv
  <2>2. ASSUME NEW edit \in Edits,
               definitions' = [definitions EXCEPT ![edit.kind] = Edited(@, edit)]
        PROVE  CardsInv'
    <3>. DEFINE V == definitions.accounts
    <3>1. /\ edit.kind \in DefinitionKinds /\ DOMAIN definitions = DefinitionKinds
          /\ \A v \in V : IsDefinition("accounts", v)
      BY EditsAreDefinitions DEF HouseInv, AreDefinitions, DefinitionKinds
    <3>2. CASE edit.kind = "accounts"
      <4>1. definitions'.accounts = Edited(V, edit)  BY <2>2, <3>1, <3>2 DEF DefinitionKinds
      <4>. DEFINE before == V \cup AccountDrafts
                  after == Edited(V, edit) \cup AccountDrafts
      <4>2. ModesWithin(before, after) /\ ModesWithin(after, before)
        BY <3>1, <3>2, EditsKeepModes
      <4>3. KeepMode(before) /\ OnlySpend(before)  BY DEF CardsInv
      <4>. HIDE DEF before, after
      <4>4. KeepMode(after) /\ OnlySpend(after)  BY <4>2, <4>3, ModesDecide
      <4>. QED  BY <4>1, <4>4 DEF CardsInv, after
    <3>3. CASE edit.kind # "accounts"
      <4>1. definitions'.accounts = V  BY <2>2, <3>1, <3>3 DEF DefinitionKinds
      <4>. QED  BY <4>1 DEF CardsInv
    <3>. QED  BY <3>2, <3>3
  <2>. QED  BY <2>1, <2>2, StepsEdit DEF StepEdits
<1>. QED  BY <1>1, <1>2, HouseInvHolds, PTL DEF Spec

\* The mode of a card does not depend on the day it is asked for.
LEMMA ModesAreSteady ==
    ASSUME NEW D, AreDefinitions(D), NEW V, D.accounts \subseteq V, KeepMode(V),
           NEW a, NEW d, NEW t
    PROVE  Timing(D, a, d) = Timing(D, a, t)
<1>1. CASE a \in Entities(D.accounts)
  <2>. DEFINE v == AccountAt(D, a, d)
              w == AccountAt(D, a, t)
  <2>1. v \in V /\ w \in V /\ v.entity = w.entity  BY <1>1, VersionsAreOfTheAccount
  <2>2. /\ Timing(D, a, d) = IF v.kind = "CREDIT_CARD" THEN v.timing ELSE "NOT_A_CARD"
        /\ Timing(D, a, t) = IF w.kind = "CREDIT_CARD" THEN w.timing ELSE "NOT_A_CARD"
    BY <1>1 DEF Timing
  <2>. HIDE DEF v, w
  <2>. QED  BY <2>1, <2>2 DEF KeepMode
<1>2. CASE a \notin Entities(D.accounts)  BY <1>2 DEF Timing
<1>. QED  BY <1>1, <1>2

-----------------------------------------------------------------------------
(* What is spent, over all periods.                                        *)

\* The amounts of part of a set of events, as a sum over functions of the whole.
AmountOf(K) == [e \in K |-> e.amount]

LEMMA AmountsOfPart ==
    ASSUME NEW K, IsFiniteSet(K), NEW E \in SUBSET K
    PROVE  IsFiniteSet(E) /\ Amounts(E) = SumFunctionOnSet(AmountOf(K), E)
<1>. DEFINE f == [e \in E |-> e.amount]
<1>1. IsFiniteSet(E)  BY FS_Subset
<1>2. \A e \in E : f[e] = AmountOf(K)[e]  BY DEF AmountOf
<1>3. Amounts(E) = SumFunctionOnSet(f, E)  BY <1>1, AmountsIsSum
<1>. HIDE DEF f
<1>. QED  BY <1>1, <1>2, <1>3, SumsAgree

\* What is spent at once, what pays cards off that defer, what these bear, what is
\* charged on cards that do not, and the cycles it is charged for.
AtOnce(D, K, t) ==
    {e \in K : e.type = "expense" /\ Timing(D, e.account, t) # "AT_STATEMENT_PAYMENT"}
PaidOff(D, K, t) ==
    {e \in K : e.type = "transfer" /\ Timing(D, e.into, t) = "AT_STATEMENT_PAYMENT"}
PutOff(D, K, t) ==
    {e \in K : /\ e.type \in {"expense", "charged"}
               /\ Timing(D, e.account, t) = "AT_STATEMENT_PAYMENT"}
ChargedAtOnce(D, K, t) ==
    {e \in K : e.type = "charged" /\ Timing(D, e.account, t) = "AT_PURCHASE"}
BearingAtOnce(D, S, t) == {c \in S : Timing(D, c.account, t) = "AT_PURCHASE"}

\* Events that are known belong to a period of the window.
LEMMA EventsHavePeriods ==
    ASSUME NEW K, Placed(K), NEW t \in Days, \A e \in K : e.date <= t,
           NEW e \in K, e.type # "raised"
    PROVE  PeriodFor(e.date) \in Window(K, t)
<1>1. PeriodDate(e) = e.date /\ e.date \in Days /\ e.date <= t  BY DEF PeriodDate, Placed
<1>2. PeriodFor(e.date) <= PeriodFor(t)  BY <1>1, PeriodForIsMonotone
<1>. QED  BY <1>1, <1>2, WindowIsRight

\* The spending of the periods, summed: every purchase, payment and cycle counts in
\* the period it belongs to, and in no other.
LEMMA SpendingAddsUp ==
    ASSUME NEW D, NEW K, NEW t, IsRead(D, K, t), \A e \in K : e.date <= t,
           NEW S, IsFiniteSet(S),
           \A c \in S : c.interest \in Int /\ ClosePeriod(c) \in Window(K, t),
           \A a, d : Timing(D, a, d) = Timing(D, a, t),
           NEW spent, \A p \in Window(K, t) : spent[p] = Spending(D, K, S, p)
    PROVE  SumFunctionOnSet(spent, Window(K, t))
               = Amounts(AtOnce(D, K, t)) + Amounts(PaidOff(D, K, t))
                 + SumFunctionOnSet(InterestOf(S), BearingAtOnce(D, S, t))
<1>. DEFINE Q == Window(K, t)
            E == AtOnce(D, K, t)
            F == PaidOff(D, K, t)
            B == BearingAtOnce(D, S, t)
            amount == AmountOf(K)
            interest == InterestOf(S)
            period == [e \in K |-> PeriodFor(e.date)]
            cut == [c \in S |-> ClosePeriod(c)]
            bought == [p \in Q |-> SumFunctionOnSet(amount, WithKey(E, period, p))]
            paid == [p \in Q |-> SumFunctionOnSet(amount, WithKey(F, period, p))]
            borne == [p \in Q |-> SumFunctionOnSet(interest, WithKey(B, cut, p))]
            moved == [p \in Q |-> bought[p] + paid[p]]
<1>1. /\ IsFiniteSet(K) /\ IsFiniteSet(Q) /\ t \in Days /\ Placed(K)
      /\ \A e \in K : amount[e] \in Int /\ amount[e] = e.amount
  <2>1. Q \in SUBSET PeriodIds  BY WindowIsRight DEF IsRead
  <2>2. IsFiniteSet(Q)  BY <2>1, PeriodIdsAreFinite
  <2>. QED  BY <2>2, CandidatesAreEvents DEF IsRead, AmountOf
<1>2. /\ E \subseteq K /\ F \subseteq K /\ B \subseteq S
      /\ IsFiniteSet(E) /\ IsFiniteSet(F) /\ IsFiniteSet(B)
  BY <1>1, FS_Subset DEF AtOnce, PaidOff, BearingAtOnce
<1>3. \A e \in E \cup F : period[e] \in Q
  <2>1. \A e \in E \cup F : e \in K /\ e.type # "raised"  BY DEF AtOnce, PaidOff
  <2>2. \A e \in E \cup F : PeriodFor(e.date) \in Q  BY <1>1, <2>1, EventsHavePeriods
  <2>. QED  BY <2>1, <2>2
<1>4. \A c \in B : cut[c] \in Q /\ interest[c] \in Int  BY <1>2 DEF InterestOf
<1>5. ASSUME NEW p \in Q
      PROVE  spent[p] = moved[p] + borne[p]
  <2>. DEFINE purchases == {e \in Of(K, "expense", p) : Timing(D, e.account, e.date) # "AT_STATEMENT_PAYMENT"}
              payments == {e \in Of(K, "transfer", p) : Timing(D, e.into, e.date) = "AT_STATEMENT_PAYMENT"}
              bearing == {c \in S : /\ ClosePeriod(c) = p
                                    /\ Timing(D, c.account, c.start) = "AT_PURCHASE"}
              inBearing == [c \in bearing |-> c.interest]
              owed == MapThenSumSet(LAMBDA c : c.interest, bearing)
  <2>1. Spending(D, K, S, p) = Amounts(purchases) + Amounts(payments) + owed
    BY Zenon DEF Spending
  <2>2. purchases = WithKey(E, period, p)
    BY <1>2 DEF WithKey, Of, AtOnce
  <2>3. payments = WithKey(F, period, p)
    BY <1>2 DEF WithKey, Of, PaidOff
  <2>4. bearing = WithKey(B, cut, p)
    BY <1>2 DEF WithKey, BearingAtOnce
  <2>5. bearing \subseteq S /\ IsFiniteSet(bearing)  BY FS_Subset
  <2>6. owed = SumFunctionOnSet(interest, bearing)
    <3>1. \A c \in bearing : inBearing[c] = interest[c]  BY <2>5 DEF InterestOf
    <3>. HIDE DEF bearing, interest
    <3>2. owed = SumFunctionOnSet(inBearing, bearing)  BY <2>5, InterestIsSummed
    <3>. HIDE DEF inBearing, owed
    <3>. QED  BY <2>5, <3>1, <3>2, SumsAgree
  <2>7. purchases \in SUBSET K /\ payments \in SUBSET K  BY DEF Of
  <2>. HIDE DEF purchases, payments, bearing, owed, E, F, B, period, cut, interest, amount
  <2>8. /\ Amounts(purchases) = SumFunctionOnSet(amount, purchases)
        /\ Amounts(payments) = SumFunctionOnSet(amount, payments)
    BY <1>1, <2>7, AmountsOfPart DEF amount
  <2>9. /\ Amounts(purchases) = bought[p] /\ Amounts(payments) = paid[p]
        /\ owed = borne[p] /\ moved[p] = bought[p] + paid[p]
    BY <2>2, <2>3, <2>4, <2>6, <2>8
  <2>. HIDE DEF bought, paid, borne, moved
  <2>. QED  BY <2>1, <2>9
<1>6. /\ \A p \in Q : bought[p] = SumFunctionOnSet(amount, WithKey(E, period, p))
      /\ \A p \in Q : paid[p] = SumFunctionOnSet(amount, WithKey(F, period, p))
      /\ \A p \in Q : borne[p] = SumFunctionOnSet(interest, WithKey(B, cut, p))
      /\ \A p \in Q : moved[p] = bought[p] + paid[p]
  OBVIOUS
<1>. HIDE DEF bought, paid, borne, moved, E, F, B, Q, period, cut, amount, interest
<1>7. ASSUME NEW p \in Q
      PROVE  bought[p] \in Int /\ paid[p] \in Int /\ borne[p] \in Int /\ moved[p] \in Int
  <2>. DEFINE X == WithKey(E, period, p)
              Y == WithKey(F, period, p)
              Z == WithKey(B, cut, p)
  <2>1. X \subseteq E /\ Y \subseteq F /\ Z \subseteq B  BY DEF WithKey
  <2>. HIDE DEF X, Y, Z
  <2>2. IsFiniteSet(X) /\ IsFiniteSet(Y) /\ IsFiniteSet(Z)  BY <1>2, <2>1, FS_Subset
  <2>3. /\ SumFunctionOnSet(amount, X) \in Int /\ SumFunctionOnSet(amount, Y) \in Int
        /\ SumFunctionOnSet(interest, Z) \in Int
    BY <1>1, <1>2, <1>4, <2>1, <2>2, SumIsInt
  <2>4. bought[p] \in Int /\ paid[p] \in Int /\ borne[p] \in Int
    BY <1>6, <2>3 DEF X, Y, Z
  <2>. QED  BY <1>6, <2>4
<1>8. SumFunctionOnSet(bought, Q) = SumFunctionOnSet(amount, E)
  BY <1>1, <1>2, <1>3, <1>6, SumByKey
<1>9. SumFunctionOnSet(paid, Q) = SumFunctionOnSet(amount, F)
  BY <1>1, <1>2, <1>3, <1>6, SumByKey
<1>10. SumFunctionOnSet(borne, Q) = SumFunctionOnSet(interest, B)
  <2>1. (\A c \in B : cut[c] \in Q) /\ \A c \in B : interest[c] \in Int  BY <1>4
  <2>2. \A p \in Q : borne[p] = SumFunctionOnSet(interest, WithKey(B, cut, p))  BY <1>6
  <2>. QED  BY <1>1, <1>2, <2>1, <2>2, SumByKey
<1>11. SumFunctionOnSet(moved, Q) = SumFunctionOnSet(bought, Q) + SumFunctionOnSet(paid, Q)
  BY <1>1, <1>6, <1>7, SumOfSum
<1>12. SumFunctionOnSet(spent, Q) = SumFunctionOnSet(moved, Q) + SumFunctionOnSet(borne, Q)
  BY <1>1, <1>5, <1>7, SumOfSum
<1>13. /\ Amounts(E) = SumFunctionOnSet(amount, E)
       /\ Amounts(F) = SumFunctionOnSet(amount, F)
  BY <1>1, <1>2, AmountsOfPart DEF amount
<1>. DEFINE x == SumFunctionOnSet(bought, Q)
            y == SumFunctionOnSet(paid, Q)
            z == SumFunctionOnSet(borne, Q)
            all == SumFunctionOnSet(spent, Q)
<1>14. all = (x + y) + z  BY <1>11, <1>12
<1>. HIDE DEF x, y, z, all
<1>. QED  BY <1>8, <1>9, <1>10, <1>13, <1>14 DEF x, y, z, all, E, F, B, Q, interest

\* The amounts of a part of the events, as a sum over all of them.
PartOf(K, E) == [e \in K |-> IF e \in E THEN e.amount ELSE 0]

LEMMA PartsAreSummed ==
    ASSUME NEW K, K \subseteq Candidates, IsFiniteSet(K), NEW E \in SUBSET K
    PROVE  /\ Amounts(E) = SumFunctionOnSet(PartOf(K, E), K)
           /\ Amounts(E) \in Int
           /\ \A e \in K : /\ PartOf(K, E)[e] = (IF e \in E THEN e.amount ELSE 0)
                           /\ PartOf(K, E)[e] \in Int /\ e.amount \in Int
<1>. DEFINE f == PartOf(K, E)
<1>1. \A e \in K : e.amount \in Int  BY CandidatesAreEvents
<1>2. \A e \in K : f[e] = IF e \in E THEN e.amount ELSE 0  BY DEF PartOf
<1>3. /\ \A e \in E : f[e] = AmountOf(K)[e] /\ f[e] \in Int
      /\ \A e \in K \ E : f[e] = 0
  BY <1>1, <1>2 DEF AmountOf
<1>. HIDE DEF f
<1>4. IsFiniteSet(E) /\ Amounts(E) = SumFunctionOnSet(AmountOf(K), E)  BY AmountsOfPart
<1>5. SumFunctionOnSet(f, E) = SumFunctionOnSet(AmountOf(K), E)  BY <1>3, <1>4, SumsAgree
<1>6. SumFunctionOnSet(f, K) = SumFunctionOnSet(f, E)  BY <1>3, SumOfPart
<1>7. SumFunctionOnSet(f, E) \in Int  BY <1>3, <1>4, SumIsInt
<1>. QED  BY <1>1, <1>2, <1>4, <1>5, <1>6, <1>7 DEF f

\* On cards that defer their purchases nothing is booked but these and interest.
LEMMA DeferringCardsOnlySpend ==
    ASSUME NEW D, AreDefinitions(D), NEW V, D.accounts \subseteq V, OnlySpend(V),
           NEW e \in Candidates, NEW t, Timing(D, e.account, t) = "AT_STATEMENT_PAYMENT"
    PROVE  e.type \in {"expense", "charged"}
<1>. DEFINE a == e.account
            v == AccountAt(D, a, t)
            deferring == {w \in Cards(V) : w.timing = "AT_STATEMENT_PAYMENT"}
<1>1. /\ a \in Entities(D.accounts) /\ v.kind = "CREDIT_CARD"
      /\ v.timing = "AT_STATEMENT_PAYMENT"
  BY DEF Timing
<1>2. v \in V /\ v.entity = a  BY <1>1, VersionsAreOfTheAccount
<1>3. e.type \notin {"expense", "charged"} => a \notin Entities(deferring)
  BY Zenon DEF OnlySpend
<1>. HIDE DEF v, a
<1>4. a \in Entities(deferring)  BY <1>1, <1>2 DEF Cards, Entities
<1>. QED  BY <1>3, <1>4 DEF a

\* What was put off on cards that are settled is what paid them off.
LEMMA SettledCardsArePaid ==
    ASSUME NEW D, NEW K, NEW t, IsRead(D, K, t), NEW V, D.accounts \subseteq V, OnlySpend(V),
           NEW T, IsFiniteSet(T),
           \A x \in T : /\ AccountAt(D, x.from, t).kind # "CREDIT_CARD"
                        /\ AccountAt(D, x.into, t).kind # "CREDIT_CARD",
           \A a \in Entities(D.accounts) :
              AccountAt(D, a, t).kind = "CREDIT_CARD" => AccountRow(D, K, T, a, t).balance = 0
    PROVE  Amounts(PaidOff(D, K, t)) = Amounts(PutOff(D, K, t))
<1>. DEFINE A == {a \in Entities(D.accounts) : Timing(D, a, t) = "AT_STATEMENT_PAYMENT"}
            paid == PartOf(K, PaidOff(D, K, t))
            put == PartOf(K, PutOff(D, K, t))
            net == [e \in K |-> paid[e] - put[e]]
            d == [z \in K \X A |-> AccountDelta(z[1], z[2])]
            inPaid(e) == e.type = "transfer" /\ e.into \in A
            inPut(e) == e.type \in {"expense", "charged"} /\ e.account \in A
<1>1. AreDefinitions(D) /\ K \subseteq Candidates /\ IsFiniteSet(K)  BY DEF IsRead
<1>2. IsFiniteSet(A)
  <2>1. IsFiniteSet(Entities(D.accounts))  BY <1>1, AccountsAreFinite
  <2>. QED  BY <2>1, FS_Subset
<1>3. \A a : a \in A <=> Timing(D, a, t) = "AT_STATEMENT_PAYMENT"
  BY DEF Timing
<1>4. \A a \in A : a \in Entities(D.accounts) /\ AccountAt(D, a, t).kind = "CREDIT_CARD"
  BY DEF Timing
<1>5. \A e \in K : (e \in PaidOff(D, K, t) <=> inPaid(e)) /\ (e \in PutOff(D, K, t) <=> inPut(e))
  BY <1>3 DEF PaidOff, PutOff
<1>6. /\ Amounts(PaidOff(D, K, t)) = SumFunctionOnSet(paid, K)
      /\ Amounts(PutOff(D, K, t)) = SumFunctionOnSet(put, K)
      /\ Amounts(PaidOff(D, K, t)) \in Int /\ Amounts(PutOff(D, K, t)) \in Int
  BY <1>1, PartsAreSummed DEF PaidOff, PutOff
<1>7. \A e \in K : /\ paid[e] = (IF inPaid(e) THEN e.amount ELSE 0) /\ paid[e] \in Int
                   /\ put[e] = (IF inPut(e) THEN e.amount ELSE 0) /\ put[e] \in Int
                   /\ e.amount \in Int
  <2>1. PaidOff(D, K, t) \in SUBSET K /\ PutOff(D, K, t) \in SUBSET K  BY DEF PaidOff, PutOff
  <2>2. \A e \in K : /\ paid[e] = (IF e \in PaidOff(D, K, t) THEN e.amount ELSE 0)
                     /\ paid[e] \in Int /\ e.amount \in Int
    BY <1>1, <2>1, PartsAreSummed
  <2>3. \A e \in K : /\ put[e] = (IF e \in PutOff(D, K, t) THEN e.amount ELSE 0)
                     /\ put[e] \in Int
    BY <1>1, <2>1, PartsAreSummed
  <2>. HIDE DEF paid, put, inPaid, inPut
  <2>. QED  BY <1>5, <2>2, <2>3
<1>8. \A e \in K : e.account \in A => e.type \in {"expense", "charged"}
  BY <1>1, <1>3, DeferringCardsOnlySpend
<1>9. /\ \A e \in K : net[e] = paid[e] - put[e]
      /\ \A e \in K, a \in A : d[<<e, a>>] = AccountDelta(e, a)
  OBVIOUS
<1>. HIDE DEF A, paid, put, net, d
<1>10. \A e \in K, a \in A : d[<<e, a>>] \in Int  BY <1>1, <1>9, DeltasAreInt
<1>11. ASSUME NEW e \in K
       PROVE  net[e] = RowSum(d, e, A)
  <2>. DEFINE f == [a \in A |-> d[<<e, a>>]]
              m == e.amount
  <2>1. \A a \in A : f[a] = AccountDelta(e, a)  BY <1>9
  <2>2. RowSum(d, e, A) = SumFunctionOnSet(f, A)  BY DEF RowSum
  <2>3. e.type \in EventTypes /\ m \in Int  BY <1>1, CandidatesAreEvents
  <2>. HIDE DEF f
  <2>4. CASE inPaid(e)
    <3>1. e.account \notin A  BY <1>8, <2>4
    <3>2. f[e.into] = m  BY <2>1, <2>4, <3>1 DEF AccountDelta
    <3>3. \A a \in A : a # e.into => f[a] = 0  BY <2>1, <2>4, <3>1 DEF AccountDelta
    <3>4. SumFunctionOnSet(f, A) = m  BY <1>2, <2>3, <2>4, <3>2, <3>3, SumAtOne
    <3>5. paid[e] = m /\ put[e] = 0  BY <1>7, <2>4
    <3>. HIDE DEF m
    <3>. QED  BY <1>9, <2>2, <2>3, <3>4, <3>5
  <2>5. CASE inPut(e)
    <3>1. f[e.account] = -m  BY <2>1, <2>5 DEF AccountDelta
    <3>2. \A a \in A : a # e.account => f[a] = 0  BY <2>1, <2>5 DEF AccountDelta
    <3>3. SumFunctionOnSet(f, A) = -m  BY <1>2, <2>3, <2>5, <3>1, <3>2, SumAtOne
    <3>4. paid[e] = 0 /\ put[e] = m  BY <1>7, <2>5
    <3>. HIDE DEF m
    <3>. QED  BY <1>9, <2>2, <2>3, <3>3, <3>4
  <2>6. CASE ~inPaid(e) /\ ~inPut(e)
    <3>1. e.account \notin A  BY <1>8, <2>6
    <3>2. \A a \in A : f[a] = 0  BY <2>1, <2>3, <2>6, <3>1 DEF AccountDelta, EventTypes
    <3>3. SumFunctionOnSet(f, A) = 0  BY <1>2, <3>2, SumOfZeros
    <3>4. paid[e] = 0 /\ put[e] = 0  BY <1>7, <2>6
    <3>. QED  BY <1>9, <2>2, <3>3, <3>4
  <2>. QED  BY <2>4, <2>5, <2>6
<1>12. ASSUME NEW a \in A
       PROVE  ColumnSum(d, K, a) = 0
  <2>. DEFINE booked == {x \in T : x.date <= t}
              implied == [x \in booked |-> ImpliedDelta(x, a)]
              moved == [e \in K |-> AccountDelta(e, a)]
              M == SumFunctionOnSet(moved, K)
              I == SumFunctionOnSet(implied, booked)
  <2>1. AccountRow(D, K, T, a, t).balance = M + I  BY <1>1, BalanceIsSum
  <2>2. AccountRow(D, K, T, a, t).balance = 0  BY <1>4
  <2>3. I = 0
    <3>1. IsFiniteSet(booked)  BY FS_Subset
    <3>2. \A x \in booked : x.from # a /\ x.into # a  BY <1>4
    <3>3. \A x \in booked : implied[x] = 0  BY <3>2 DEF ImpliedDelta
    <3>. HIDE DEF booked, implied
    <3>. QED  BY <3>1, <3>3, SumOfZeros
  <2>4. M \in Int
    <3>1. \A e \in K : moved[e] \in Int  BY <1>1, DeltasAreInt
    <3>. HIDE DEF moved
    <3>. QED  BY <1>1, <3>1, SumIsInt
  <2>5. ColumnSum(d, K, a) = M
    <3>1. [e \in K |-> d[<<e, a>>]] = moved  BY <1>9
    <3>. HIDE DEF moved
    <3>. QED  BY <3>1 DEF ColumnSum
  <2>. HIDE DEF M, I
  <2>. QED  BY <2>1, <2>2, <2>3, <2>4, <2>5
<1>13. SumFunctionOnSet(net, K) = 0
  <2>1. \A e \in K : net[e] = RowSum(d, e, A)  BY <1>11
  <2>2. \A a \in A : ColumnSum(d, K, a) = 0  BY <1>12
  <2>3. IsFiniteSet(K)  BY <1>1
  <2>. QED  BY <1>2, <1>10, <2>1, <2>2, <2>3, RowsCancel
<1>14. SumFunctionOnSet(net, K) = SumFunctionOnSet(paid, K) - SumFunctionOnSet(put, K)
  BY <1>1, <1>7, <1>9, SumOfDifference
<1>. DEFINE x == Amounts(PaidOff(D, K, t))
            y == Amounts(PutOff(D, K, t))
<1>15. x - y = 0 /\ x \in Int /\ y \in Int  BY <1>6, <1>13, <1>14
<1>. HIDE DEF x, y
<1>16. x = y  BY <1>15
<1>. QED  BY <1>16 DEF x, y

-----------------------------------------------------------------------------
(* The interest that cards bear.                                           *)

\* The cycles' fold reads recorded interest of an account, and no other, as pins.
LEMMA PinsAreRecords ==
    ASSUME NEW K, NEW a, NEW p
    PROVE  LET pins == Pins(AccountView(K, a), p)
           IN  /\ \A x \in pins : \E e \in K : /\ RecordsInterest(e, a) /\ e.cycle = p
                                               /\ x.amount = e.amount
               /\ \A e \in K : RecordsInterest(e, a) /\ e.cycle = p => pins # {}
<1>. DEFINE R == {f \in K : RecordsInterest(f, a) \/ AccountDelta(f, a) # 0}
            entry(e) == [id |-> e.id, date |-> e.date, cycle |-> e.cycle,
                         type |-> IF RecordsInterest(e, a) THEN e.type ELSE "movement",
                         amount |-> IF RecordsInterest(e, a) THEN e.amount ELSE AccountDelta(e, a)]
            pins == Pins(AccountView(K, a), p)
<1>1. AccountView(K, a) = {entry(e) : e \in R}
  <2>. HIDE DEF R
  <2>. QED  BY Zenon DEF AccountView, R
<1>2. \A e : /\ entry(e).type = (IF RecordsInterest(e, a) THEN e.type ELSE "movement")
             /\ entry(e).cycle = e.cycle
             /\ RecordsInterest(e, a) => entry(e).amount = e.amount
  OBVIOUS
<1>3. /\ \A e \in R : e \in K
      /\ \A e \in K : RecordsInterest(e, a) => e \in R
  OBVIOUS
<1>. HIDE DEF entry, R
<1>4. pins = {x \in {entry(e) : e \in R} : IsInterest(x) /\ x.cycle = p}
  BY <1>1 DEF Pins
<1>. HIDE DEF pins
<1>5. ASSUME NEW x \in pins
      PROVE  \E e \in K : RecordsInterest(e, a) /\ e.cycle = p /\ x.amount = e.amount
  <2>1. PICK e \in R : x = entry(e)  BY <1>4
  <2>2. IsInterest(x) /\ x.cycle = p  BY <1>4
  <2>3. RecordsInterest(e, a)  BY <1>2, <2>1, <2>2 DEF IsInterest
  <2>. QED  BY <1>2, <1>3, <2>1, <2>2, <2>3
<1>6. ASSUME NEW e \in K, RecordsInterest(e, a), e.cycle = p
      PROVE  pins # {}
  <2>1. IsInterest(entry(e)) /\ entry(e).cycle = p /\ e \in R
    BY <1>2, <1>3, <1>6 DEF IsInterest, RecordsInterest
  <2>2. entry(e) \in pins  BY <1>4, <2>1
  <2>. QED  BY <2>2
<1>. QED  BY <1>5, <1>6 DEF pins

\* A cycle bears the interest last recorded for it, and an estimate else.
LEMMA StatementsBearTheirPins ==
    ASSUME NEW D, NEW K, NEW t, IsRead(D, K, t), t < MonthStart[Months],
           NEW c \in Statements(D, K, t)
    PROVE  LET view == AccountView(K, c.account)
           IN  /\ c.isEstimate <=> Pins(view, c.period) = {}
               /\ Pins(view, c.period) # {} => c.interest = LastPin(view, c.period).amount
<1>1. PICK a \in Entities(D.accounts) :
         \E p \in DOMAIN AccountStatements(D, K, a, t) :
            c = StatementRow(a, p, AccountStatements(D, K, a, t)[p])
  BY DEF Statements, StatementRows
<1>. DEFINE V == VersionsOf(D.accounts, a)
            account == Account(V, t)
            view == AccountView(K, a)
            g == FirstDate(K, t)
            cycles == BuildCycles(account, g, t)
            s == AccountStatements(D, K, a, t)
<1>2. PICK p \in DOMAIN s : c = StatementRow(a, p, s[p])  BY <1>1
<1>3. Placed(K) /\ t \in Days /\ AreDefinitions(D)  BY DEF IsRead
<1>4. \A v \in D.accounts : v.from \in Days /\ HasTerms(v)
  BY <1>3 DEF AreDefinitions, DefinitionKinds, IsDefinition, HasTerms
<1>5. Dated(V) /\ V # {} /\ \A v \in V : HasTerms(v)
  BY <1>4 DEF Dated, VersionsOf, Entities
<1>6. HasTerms(account)  BY <1>5, AccountIsVersion
<1>7. IsFiniteSet(view) /\ \A e \in view : IsEntry(e)  BY ViewsAreEntries
<1>8. g \in Days /\ g <= t  BY <1>3, FirstDateIsRight
<1>9. s = FoldCycles(V, view, account, cycles)  BY DEF AccountStatements, AccountAt
<1>10. /\ DOMAIN cycles \subseteq PeriodIds
       /\ \A q \in DOMAIN cycles : cycles[q].start \in Int /\ cycles[q].end \in Int
  <2>. HIDE DEF g, account
  <2>. QED  BY <1>3, <1>6, <1>8, CyclesAreOnCalendar
<1>. HIDE DEF V, account, view, g, cycles
<1>11. /\ DOMAIN s = DOMAIN cycles
       /\ \A q \in DOMAIN cycles :
             s[q] = Statement(V, view, account, q, cycles[q],
                              IF q - 1 \in DOMAIN cycles THEN s[q - 1] ELSE Seed)
  BY <1>5, <1>6, <1>7, <1>9, <1>10, FoldIsTyped
<1>. HIDE DEF s
<1>. DEFINE before == IF p - 1 \in DOMAIN cycles THEN s[p - 1] ELSE Seed
            none == Pins(view, p) = {}
<1>12. s[p] = Statement(V, view, account, p, cycles[p], before)  BY <1>2, <1>11
<1>. HIDE DEF before
<1>13. /\ s[p].isEstimate <=> none
       /\ ~none => s[p].interest = LastPin(view, p).amount
  <2>. DEFINE governing == CycleVersion(V, cycles[p], account)
              graced == before.paid /\ IsLiability(governing)
              close == Moved({e \in view : e.date < cycles[p].end}) + before.estimated
              days == cycles[p].end - cycles[p].start
  <2>1. Statement(V, view, account, p, cycles[p], before).interest
            = Interest(governing, view, p, graced, close, days)
    BY Zenon DEF Statement
  <2>2. Statement(V, view, account, p, cycles[p], before).isEstimate = none
    BY Zenon DEF Statement
  <2>. HIDE DEF governing, graced, close, days, none
  <2>3. Interest(governing, view, p, graced, close, days)
            = IF none THEN IF graced THEN 0
                           ELSE InterestForCycle(AccrualBase(governing, close), governing.apr, days)
              ELSE LastPin(view, p).amount
    BY Zenon DEF Interest, none
  <2>4. s[p].isEstimate = none  BY <1>12, <2>2, Zenon
  <2>5. s[p].interest = Interest(governing, view, p, graced, close, days)  BY <1>12, <2>1, Zenon
  <2>6. ~none => s[p].interest = LastPin(view, p).amount  BY <2>3, <2>5, Zenon
  <2>. QED  BY <2>4, <2>6
<1>14. /\ c.account = a /\ c.period = p /\ c.interest = s[p].interest
       /\ c.isEstimate = s[p].isEstimate
  BY <1>2 DEF StatementRow
<1>. QED  BY <1>13, <1>14 DEF view

\* Interest is charged for a cycle, once.
ArePinned(K, S) ==
    \A e \in K : e.type = "charged" =>
        /\ \E c \in S : c.account = e.account /\ c.period = e.cycle
        /\ \A f \in K : f.type = "charged" /\ f.account = e.account /\ f.cycle = e.cycle => f = e

\* What cards bear that recognise purchases is what was charged on them, once no
\* cycle of theirs is estimated.
LEMMA CardsBearTheirCharges ==
    ASSUME NEW D, NEW K, NEW t, IsRead(D, K, t), t < MonthStart[Months],
           NEW V, D.accounts \subseteq V, OnlySpend(V),
           NEW S, S = Statements(D, K, t), ArePinned(K, S),
           \A c \in BearingAtOnce(D, S, t) : c.isEstimate => c.interest = 0
    PROVE  SumFunctionOnSet(InterestOf(S), BearingAtOnce(D, S, t)) = Amounts(ChargedAtOnce(D, K, t))
<1>. DEFINE B == BearingAtOnce(D, S, t)
            E == ChargedAtOnce(D, K, t)
            interest == InterestOf(S)
            amount == AmountOf(K)
            IsOf(c, e) == c.account = e.account /\ c.period = e.cycle
            g == [e \in E |-> CHOOSE c \in S : IsOf(c, e)]
            T == {g[e] : e \in E}
<1>1. /\ AreDefinitions(D) /\ K \subseteq Candidates /\ IsFiniteSet(K)
      /\ IsFiniteSet(S) /\ \A c \in S : c.interest \in Int
  BY StatementsAreTyped DEF IsRead
<1>2. /\ B \subseteq S /\ IsFiniteSet(B)
      /\ \A c \in B : interest[c] = c.interest /\ interest[c] \in Int
  BY <1>1, FS_Subset DEF BearingAtOnce, InterestOf
<1>3. /\ E \subseteq K /\ IsFiniteSet(E)
      /\ \A e \in E : amount[e] = e.amount /\ amount[e] \in Int /\ e.type = "charged"
  BY <1>1, FS_Subset, CandidatesAreEvents DEF ChargedAtOnce, AmountOf
<1>4. ASSUME NEW e \in E
      PROVE  g[e] \in B /\ IsOf(g[e], e)
  <2>1. \E c \in S : IsOf(c, e)  BY <1>3 DEF ArePinned
  <2>2. g[e] = CHOOSE c \in S : IsOf(c, e)  OBVIOUS
  <2>. HIDE DEF g
  <2>3. g[e] \in S /\ IsOf(g[e], e)
    <3>. HIDE DEF IsOf
    <3>. QED  BY <2>1, <2>2
  <2>. QED  BY <2>3 DEF ChargedAtOnce, BearingAtOnce
<1>. HIDE DEF g
<1>5. ASSUME NEW a, Timing(D, a, t) = "AT_PURCHASE", NEW e \in K, RecordsInterest(e, a)
      PROVE  e \in E /\ e.account = a
  <2>. DEFINE v == AccountAt(D, a, t)
  <2>1. a \in Entities(D.accounts) /\ v.kind = "CREDIT_CARD"  BY <1>5 DEF Timing
  <2>2. v \in V /\ v.entity = a  BY <1>1, <2>1, VersionsAreOfTheAccount
  <2>. HIDE DEF v
  <2>3. a \in Entities(Cards(V))  BY <2>1, <2>2 DEF Cards, Entities
  <2>4. e \in Candidates /\ e.account = a /\ e.type \in {"charged", "earned"}
    BY <1>1, <1>5 DEF RecordsInterest
  <2>5. e.type = "earned" => e.account \notin Entities(Cards(V))  BY <2>4, Zenon DEF OnlySpend
  <2>6. e.type = "charged"  BY <2>3, <2>4, <2>5
  <2>. QED  BY <1>5, <2>4, <2>6 DEF ChargedAtOnce
<1>6. ASSUME NEW c \in B
      PROVE  \/ \E e \in E : IsOf(c, e) /\ c.interest = e.amount
             \/ /\ c.interest = 0 /\ \A e \in E : ~IsOf(c, e)
  <2>. DEFINE a == c.account
              p == c.period
              view == AccountView(K, a)
  <2>1. Timing(D, a, t) = "AT_PURCHASE" /\ c \in Statements(D, K, t)
    BY DEF BearingAtOnce
  <2>2. /\ c.isEstimate <=> Pins(view, p) = {}
        /\ Pins(view, p) # {} => c.interest = LastPin(view, p).amount
    BY <2>1, StatementsBearTheirPins
  <2>3. \A e \in view : IsEntry(e)  BY ViewsAreEntries
  <2>4. /\ \A x \in Pins(view, p) : \E e \in K : /\ RecordsInterest(e, a) /\ e.cycle = p
                                                 /\ x.amount = e.amount
        /\ \A e \in K : RecordsInterest(e, a) /\ e.cycle = p => Pins(view, p) # {}
    BY PinsAreRecords
  <2>. HIDE DEF view
  <2>5. CASE Pins(view, p) # {}
    <3>1. LastPin(view, p) \in Pins(view, p)  BY <2>3, <2>5, PinIsRecorded
    <3>2. PICK e \in K : /\ RecordsInterest(e, a) /\ e.cycle = p
                         /\ LastPin(view, p).amount = e.amount
      BY <2>4, <3>1
    <3>3. e \in E /\ e.account = a  BY <1>5, <2>1, <3>2
    <3>. QED  BY <2>2, <2>5, <3>2, <3>3
  <2>6. CASE Pins(view, p) = {}
    <3>1. c.interest = 0  BY <2>2, <2>6
    <3>2. ASSUME NEW e \in E, IsOf(c, e) PROVE FALSE
      <4>1. e \in K /\ RecordsInterest(e, a) /\ e.cycle = p  BY <1>3, <3>2 DEF RecordsInterest
      <4>. QED  BY <2>4, <2>6, <4>1
    <3>. QED  BY <3>1, <3>2
  <2>. QED  BY <2>5, <2>6
<1>7. ASSUME NEW e \in E, NEW f \in E, f.account = e.account, f.cycle = e.cycle PROVE f = e
  BY <1>3, <1>7 DEF ArePinned
<1>8. \A e \in E : interest[g[e]] = amount[e]
  <2>1. ASSUME NEW e \in E PROVE g[e].interest = e.amount
    <3>1. g[e] \in B /\ IsOf(g[e], e)  BY <1>4
    <3>2. PICK f \in E : IsOf(g[e], f) /\ g[e].interest = f.amount  BY <1>6, <3>1
    <3>3. f = e  BY <1>7, <3>1, <3>2
    <3>. QED  BY <3>2, <3>3
  <2>. QED  BY <1>2, <1>3, <1>4, <2>1
<1>9. \A e, f \in E : g[e] = g[f] => e = f  BY <1>4, <1>7
<1>10. T \in SUBSET B /\ \A c \in B \ T : interest[c] = 0
  <2>1. T \in SUBSET B  BY <1>4
  <2>2. ASSUME NEW c \in B, NEW e \in E, IsOf(c, e) PROVE c \in T
    <3>1. g[e] \in B /\ IsOf(g[e], e)  BY <1>4
    <3>2. c \in S /\ g[e] \in S /\ c.account = g[e].account /\ c.period = g[e].period
      BY <1>2, <2>2, <3>1
    <3>3. c = g[e]  BY <3>2, StatementsAreTyped
    <3>. QED  BY <3>3
  <2>. HIDE DEF IsOf
  <2>3. \A c \in B \ T : c.interest = 0  BY <1>6, <2>2
  <2>. QED  BY <1>2, <2>1, <2>3
<1>. HIDE DEF B, E, interest, amount, IsOf
<1>11. SumFunctionOnSet(interest, T) = SumFunctionOnSet(amount, E)
  <2>1. \A e \in E : amount[e] \in Int /\ interest[g[e]] = amount[e]  BY <1>3, <1>8
  <2>. QED  BY <1>3, <1>9, <2>1, SumOverImage
<1>12. SumFunctionOnSet(interest, B) = SumFunctionOnSet(interest, T)
  <2>1. \A c \in T : interest[c] \in Int  BY <1>2, <1>10
  <2>. HIDE DEF T
  <2>. QED  BY <1>2, <1>10, <2>1, SumOfPart
<1>13. Amounts(E) = SumFunctionOnSet(amount, E)  BY <1>1, <1>3, AmountsOfPart DEF amount
<1>. QED  BY <1>11, <1>12, <1>13 DEF B, E, interest

-----------------------------------------------------------------------------
(* Outflows count once.                                                    *)

LEMMA SpentIsSummed ==
    ASSUME NEW periods, NEW P, IsFiniteSet(P)
    PROVE  MapThenSumSet(LAMBDA p : periods[p].spent, P)
               = SumFunctionOnSet([p \in P |-> periods[p].spent], P)
<1>. DEFINE f == [p \in P |-> periods[p].spent]
            Folds(g) == g = [s \in SUBSET P |->
                               IF s = {} THEN 0 ELSE periods[Pick(s)].spent + g[s \ {Pick(s)}]]
            h == CHOOSE g : Folds(g)
<1>1. ASSUME NEW s \in SUBSET P, s # {} PROVE f[Pick(s)] = periods[Pick(s)].spent
  BY <1>1, PickIsIn
<1>2. ASSUME NEW g PROVE Folds(g) <=> IsFold(g, f, P)
  <2>. HIDE DEF f
  <2>. QED  BY <1>1 DEF IsFold
<1>. HIDE DEF f
<1>3. \E g : Folds(g)  BY <1>2, FoldExists
<1>4. IsFold(h, f, P)  BY <1>2, <1>3
<1>5. MapThenSumSet(LAMBDA p : periods[p].spent, P) = h[P]
  BY DEF MapThenSumSet, MapThenFoldSet, Pick
<1>. HIDE DEF h
<1>. QED  BY <1>4, <1>5, FoldIsSum DEF f

\* Transfers are implied between a checking and a savings account, never a card.
LEMMA TransfersAreOfNoCard ==
    ASSUME NEW D, AreDefinitions(D), NEW periods, NEW t,
           NEW x \in ImpliedTransfers(D, periods, t)
    PROVE  /\ AccountAt(D, x.from, t).kind # "CREDIT_CARD"
           /\ AccountAt(D, x.into, t).kind # "CREDIT_CARD"
<1>. DEFINE c == FirstOfKind(D, "CHECKING", t)
            s == FirstOfKind(D, "SAVINGS", t)
            Q == {q \in DOMAIN periods : periods[q].closed /\ periods[q].savings # 0}
            transfer(p) == [date |-> EndExclusive(p) - 1, amount |-> periods[p].savings,
                            from |-> c, into |-> s]
<1>1. None \notin {c, s} /\ x \in {transfer(p) : p \in Q}  BY DEF ImpliedTransfers
<1>2. x.from = c /\ x.into = s
  <2>. HIDE DEF Q
  <2>. QED  BY <1>1
<1>3. AccountAt(D, c, t).kind = "CHECKING" /\ AccountAt(D, s, t).kind = "SAVINGS"
  BY <1>1, FirstIsOfKind
<1>. HIDE DEF c, s
<1>. QED  BY <1>2, <1>3

\* Interest is charged on a card of either mode.
LEMMA ChargesAreOnCards ==
    ASSUME NEW D, AreDefinitions(D), NEW V, D.accounts \subseteq V, KeepMode(V), OnlySpend(V),
           NEW e \in Candidates, e.type = "charged", KnownAccounts(D, e), NEW t
    PROVE  Timing(D, e.account, t) \in {"AT_PURCHASE", "AT_STATEMENT_PAYMENT"}
<1>. DEFINE a == e.account
            w == AccountAt(D, a, t)
<1>1. a \in Entities(D.accounts)  BY CandidatesAreEvents DEF KnownAccounts, AccountsOf
<1>2. a \in Entities(V)  BY <1>1 DEF Entities
<1>3. a \notin Entities(V) \ Entities(Cards(V))  BY Zenon DEF OnlySpend
<1>4. PICK v \in V : v.entity = a /\ v.kind = "CREDIT_CARD"
  BY <1>2, <1>3 DEF Entities, Cards
<1>5. w \in D.accounts /\ w.entity = a  BY <1>1, VersionsAreOfTheAccount
<1>6. w.timing \in {"AT_PURCHASE", "AT_STATEMENT_PAYMENT"}
  BY <1>5 DEF AreDefinitions, DefinitionKinds, IsDefinition
<1>7. Timing(D, a, t) = IF w.kind = "CREDIT_CARD" THEN w.timing ELSE "NOT_A_CARD"
  BY <1>1 DEF Timing
<1>. HIDE DEF w, a
<1>8. w.kind = "CREDIT_CARD"  BY <1>4, <1>5 DEF KeepMode
<1>. QED  BY <1>6, <1>7, <1>8 DEF a

\* What is spent and charged is what is spent at once, put off, and charged at once.
LEMMA OutflowsAreOfThreeKinds ==
    ASSUME NEW D, NEW K, NEW t, IsRead(D, K, t),
           \A e \in K : e.type = "charged" =>
              Timing(D, e.account, t) \in {"AT_PURCHASE", "AT_STATEMENT_PAYMENT"}
    PROVE  Amounts({e \in K : e.type \in {"expense", "charged"}})
               = Amounts(AtOnce(D, K, t)) + Amounts(PutOff(D, K, t)) + Amounts(ChargedAtOnce(D, K, t))
<1>. DEFINE all == {e \in K : e.type \in {"expense", "charged"}}
            X == AtOnce(D, K, t)
            Y == PutOff(D, K, t)
            Z == ChargedAtOnce(D, K, t)
            amount == AmountOf(K)
<1>1. IsFiniteSet(K) /\ \A e \in K : amount[e] \in Int
  BY CandidatesAreEvents DEF IsRead, AmountOf
<1>2. X \in SUBSET K /\ Y \in SUBSET K /\ Z \in SUBSET K /\ all \in SUBSET K
  BY DEF AtOnce, PutOff, ChargedAtOnce
<1>3. all = (X \cup Y) \cup Z /\ X \cap Y = {} /\ (X \cup Y) \cap Z = {}
  BY DEF AtOnce, PutOff, ChargedAtOnce
<1>. HIDE DEF all, X, Y, Z, amount
<1>4. IsFiniteSet(X) /\ IsFiniteSet(Y) /\ IsFiniteSet(Z) /\ IsFiniteSet(X \cup Y)
  BY <1>1, <1>2, FS_Subset, FS_Union
<1>5. SumFunctionOnSet(amount, X \cup Y) = SumFunctionOnSet(amount, X) + SumFunctionOnSet(amount, Y)
  <2>1. \A e \in X \cup Y : amount[e] \in Int  BY <1>1, <1>2
  <2>. QED  BY <1>3, <1>4, <2>1, SumSplits
<1>6. SumFunctionOnSet(amount, all)
          = SumFunctionOnSet(amount, X \cup Y) + SumFunctionOnSet(amount, Z)
  <2>. DEFINE W == X \cup Y
  <2>1. \A e \in W \cup Z : amount[e] \in Int  BY <1>1, <1>2
  <2>2. all = W \cup Z /\ W \cap Z = {} /\ IsFiniteSet(W)  BY <1>3, <1>4
  <2>. HIDE DEF W
  <2>3. SumFunctionOnSet(amount, W \cup Z) = SumFunctionOnSet(amount, W) + SumFunctionOnSet(amount, Z)
    BY <1>4, <2>1, <2>2, SumSplits
  <2>. QED  BY <2>2, <2>3 DEF W
<1>7. /\ Amounts(all) = SumFunctionOnSet(amount, all)
      /\ Amounts(X) = SumFunctionOnSet(amount, X)
      /\ Amounts(Y) = SumFunctionOnSet(amount, Y)
      /\ Amounts(Z) = SumFunctionOnSet(amount, Z)
  BY <1>1, <1>2, AmountsOfPart DEF amount
<1>8. Amounts(all) = Amounts(X) + Amounts(Y) + Amounts(Z)
  BY <1>5, <1>6, <1>7
<1>. QED  BY <1>8 DEF all, X, Y, Z

\* An outflow affects the budget exactly once: once the cards are settled, what the
\* periods count as spent is what was spent and charged, in either mode of the cards
\* and on whatever account (_spend_pairs, PLAN.md 1), where cards keep their mode
\* and nothing but purchases is booked on those that count their payments.
THEOREM OutflowsCountOnce ==
    CardsKeepTheirMode /\ CardsOnlySpend => (Spec => []RecognizedOnce)
<1>. DEFINE D == definitions
            K == Facts
            S == shown.statements
            V == D.accounts \cup AccountDrafts
            Q == DOMAIN shown.periods
            T == ImpliedTransfers(D, shown.periods, asOf)
            spent == [p \in Q |-> shown.periods[p].spent]
<1>1. ASSUME HouseInv, KnownInv, CardsInv, CardsAreSettled, ChargesPinCycles
      PROVE  SumFunctionOnSet(spent, Q) = Amounts({e \in K : e.type \in {"expense", "charged"}})
  <2>1. IsRead(D, K, asOf) /\ AreDefinitions(D) /\ \A e \in K : e.date <= asOf
    BY <1>1, FactsAreRead, FactsAreEvents DEF IsRead
  <2>2. asOf < MonthStart[Months]
    <3>1. asOf \in MonthStart[1] .. MonthStart[Months] - 1  BY <1>1 DEF HouseInv, ReadDates
    <3>2. MonthStart[1] \in Int /\ MonthStart[Months] \in Int  BY CalendarIsTyped
    <3>. QED  BY <3>1, <3>2
  <2>3. S = Statements(D, K, asOf)  BY <1>1, StatementsAreShown
  <2>4. /\ IsFiniteSet(S)
        /\ \A c \in S : /\ c.account \in Entities(D.accounts) /\ c.interest \in Int
                        /\ ClosePeriod(c) \in Window(K, asOf)
    BY <2>1, <2>2, <2>3, StatementsAreTyped
  <2>5. KeepMode(V) /\ OnlySpend(V) /\ D.accounts \subseteq V  BY <1>1 DEF CardsInv
  <2>6. /\ Q = Window(K, asOf) /\ Q \subseteq PeriodIds
        /\ \A p \in Q : shown.periods[p].savings \in Int
    BY <1>1, PeriodsAreShown
  <2>7. \A p \in Q : spent[p] = Spending(D, K, S, p)
    <3>1. \A p \in Q : shown.periods[p] = Period(D, K, asOf, shown.rows, S, p)
      BY <1>1, ShownIsProjected
    <3>2. \A p \in Q : spent[p] = shown.periods[p].spent  OBVIOUS
    <3>. HIDE DEF spent, S, Q
    <3>. QED  BY <3>1, <3>2, PeriodSpends
  <2>8. shown.accounts = AccountRows(D, K, T, asOf)  BY <1>1, ShownIsProjected
  <2>9. shown.warnings.ESTIMATED_INTEREST = {c \in S : c.isEstimate /\ c.interest # 0}
    <3>1. shown.warnings = Warnings(K, shown.periods, shown.rows, shown.accounts, S,
                                    FirstOfKind(D, "SAVINGS", asOf), asOf)
      BY <1>1, ShownIsProjected
    <3>. HIDE DEF S, K
    <3>. QED  BY <3>1 DEF Warnings
  <2>10. /\ IsFiniteSet(T)
         /\ \A x \in T : /\ AccountAt(D, x.from, asOf).kind # "CREDIT_CARD"
                         /\ AccountAt(D, x.into, asOf).kind # "CREDIT_CARD"
    BY <2>1, <2>6, TransfersAreBetween, TransfersAreOfNoCard
  <2>. HIDE DEF D, K, S, V, Q, T, spent
  <2>11. ASSUME NEW a \in Entities(D.accounts), AccountAt(D, a, asOf).kind = "CREDIT_CARD"
         PROVE  /\ AccountRow(D, K, T, a, asOf).balance = 0
                /\ \A c \in S : c.account = a /\ c.isEstimate => c.interest = 0
    <3>1. a \in DOMAIN shown.accounts /\ shown.accounts[a] = AccountRow(D, K, T, a, asOf)
      BY <2>8 DEF AccountRows
    <3>2. shown.accounts[a].kind = "CREDIT_CARD"  BY <2>11, <3>1, AccountRowsKeepKinds
    <3>3. /\ shown.accounts[a].balance = 0
          /\ \A c \in S : c.account = a => c \notin shown.warnings.ESTIMATED_INTEREST
      BY <1>1, <3>1, <3>2 DEF CardsAreSettled, S
    <3>. QED  BY <2>9, <3>1, <3>3
  <2>12. ArePinned(K, S)  BY <1>1 DEF ChargesPinCycles, ArePinned, K, S
  <2>13. \A a, d : Timing(D, a, d) = Timing(D, a, asOf)
    BY <2>1, <2>5, ModesAreSteady
  <2>14. SumFunctionOnSet(spent, Q)
             = Amounts(AtOnce(D, K, asOf)) + Amounts(PaidOff(D, K, asOf))
               + SumFunctionOnSet(InterestOf(S), BearingAtOnce(D, S, asOf))
    BY <2>1, <2>4, <2>6, <2>7, <2>13, SpendingAddsUp
  <2>15. Amounts(PaidOff(D, K, asOf)) = Amounts(PutOff(D, K, asOf))
    BY <2>1, <2>5, <2>10, <2>11, SettledCardsArePaid
  <2>16. SumFunctionOnSet(InterestOf(S), BearingAtOnce(D, S, asOf))
             = Amounts(ChargedAtOnce(D, K, asOf))
    <3>1. ASSUME NEW c \in BearingAtOnce(D, S, asOf), c.isEstimate PROVE c.interest = 0
      <4>1. /\ c \in S /\ c.account \in Entities(D.accounts)
            /\ AccountAt(D, c.account, asOf).kind = "CREDIT_CARD"
        BY DEF BearingAtOnce, Timing
      <4>. QED  BY <2>11, <3>1, <4>1
    <3>. QED  BY <2>1, <2>2, <2>3, <2>5, <2>12, <3>1, CardsBearTheirCharges
  <2>17. Amounts({e \in K : e.type \in {"expense", "charged"}})
             = Amounts(AtOnce(D, K, asOf)) + Amounts(PutOff(D, K, asOf))
               + Amounts(ChargedAtOnce(D, K, asOf))
    <3>1. K \subseteq Candidates  BY <2>1 DEF IsRead
    <3>2. ASSUME NEW e \in K PROVE KnownAccounts(D, e)
      <4>1. e \in ledger /\ e.type # "void"
        BY <1>1 DEF HouseInv, K, Facts, Known, Surviving
      <4>. QED  BY <1>1, <4>1 DEF KnownInv, D
    <3>3. \A e \in K : e.type = "charged" =>
             Timing(D, e.account, asOf) \in {"AT_PURCHASE", "AT_STATEMENT_PAYMENT"}
      BY <2>1, <2>5, <3>1, <3>2, ChargesAreOnCards
    <3>. QED  BY <2>1, <3>3, OutflowsAreOfThreeKinds
  <2>. QED  BY <2>14, <2>15, <2>16, <2>17
<1>2. HouseInv /\ KnownInv /\ CardsInv => RecognizedOnce
  <2>. SUFFICES ASSUME HouseInv, KnownInv, CardsInv, CardsAreSettled, ChargesPinCycles
                PROVE  MapThenSumSet(LAMBDA p : shown.periods[p].spent, DOMAIN shown.periods)
                           = Amounts({e \in Facts : e.type \in {"expense", "charged"}})
    BY Zenon DEF RecognizedOnce
  <2>1. IsFiniteSet(Q)
    <3>1. Q \in SUBSET PeriodIds  BY PeriodsAreShown
    <3>. QED  BY <3>1, PeriodIdsAreFinite
  <2>2. MapThenSumSet(LAMBDA p : shown.periods[p].spent, Q) = SumFunctionOnSet(spent, Q)
    BY <2>1, SpentIsSummed
  <2>3. SumFunctionOnSet(spent, Q) = Amounts({e \in K : e.type \in {"expense", "charged"}})
    BY <1>1
  <2>. HIDE DEF spent
  <2>. QED  BY <2>2, <2>3, Zenon
<1>. SUFFICES ASSUME CardsKeepTheirMode, CardsOnlySpend PROVE Spec => []RecognizedOnce
  OBVIOUS
<1>3. Spec => []CardsInv  BY CardsInvHolds
<1>. QED  BY <1>2, <1>3, HouseInvHolds, KnownInvHolds, PTL

=============================================================================
