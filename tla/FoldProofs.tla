----------------------------- MODULE FoldProofs -----------------------------
(***************************************************************************)
(* What the proofs about reads share: the calendar finds the month of every *)
(* day, a definition has a version that counts, and the fold over the       *)
(* statement cycles computes what its step says of each.                    *)
(***************************************************************************)
EXTENDS CycleFold, SumProofs

-----------------------------------------------------------------------------
(* The calendar.                                                           *)

LEMMA CalendarIsTyped ==
    /\ Months \in Nat \ {0}
    /\ \A p \in 1 .. Months + 1 : MonthStart[p] \in Int
    /\ \A p, q \in 1 .. Months + 1 : p < q => MonthStart[p] < MonthStart[q]
  BY MonthsAreConsecutive

\* Every day of the calendar lies in the month that PeriodFor names.
LEMMA PeriodForIsRight ==
    ASSUME NEW d \in Days
    PROVE  /\ PeriodFor(d) \in PeriodIds
           /\ Start(PeriodFor(d)) <= d /\ d < EndExclusive(PeriodFor(d))
<1>. DEFINE T == {p \in PeriodIds : d < EndExclusive(p)}
<1>1. d \in Int /\ MonthStart[1] <= d /\ d < MonthStart[Months + 1]
  BY CalendarIsTyped DEF Days
<1>2. Months \in T  BY <1>1, CalendarIsTyped DEF PeriodIds, EndExclusive
<1>3. PICK p \in T : \A q \in T : p <= q
  <2>1. T \in SUBSET Nat  BY CalendarIsTyped DEF PeriodIds
  <2>. HIDE DEF T
  <2>. QED  BY <1>2, <2>1, LeastNatural
<1>4. p \in PeriodIds /\ d < EndExclusive(p)  BY <1>3
<1>5. Start(p) <= d
  <2>1. CASE p = 1  BY <1>1, <2>1 DEF Start
  <2>2. CASE p # 1
    <3>1. p - 1 \in PeriodIds /\ EndExclusive(p - 1) = Start(p)
      BY <1>4, <2>2, CalendarIsTyped DEF PeriodIds, EndExclusive, Start
    <3>2. p - 1 \notin T  BY <1>3, <1>4, CalendarIsTyped DEF PeriodIds
    <3>3. Start(p) \in Int  BY <1>4, CalendarIsTyped DEF PeriodIds, Start
    <3>. QED  BY <1>1, <3>1, <3>2, <3>3
  <2>. QED  BY <2>1, <2>2
<1>. HIDE DEF T
<1>. QED  BY <1>4, <1>5 DEF PeriodFor

\* A clamped day lies in its month.
LEMMA ClampStaysInMonth ==
    ASSUME NEW p \in PeriodIds, NEW day \in 1 .. 31
    PROVE  ClampDay(p, day) \in Start(p) .. EndExclusive(p) - 1
  BY CalendarIsTyped DEF PeriodIds, ClampDay, Smaller, Start, EndExclusive

-----------------------------------------------------------------------------
(* Versions.                                                               *)

\* Each of the versions begins on a day of the calendar.
Dated(V) == \A v \in V : v.from \in Days

LEMMA LatestIsIn ==
    ASSUME NEW W, Dated(W), W # {}
    PROVE  LatestOf(W) \in W /\ \A w \in W : w.from <= LatestOf(W).from
<1>. DEFINE T == {v.from : v \in W}
<1>1. T \in SUBSET Days /\ T # {}  BY DEF Dated
<1>2. MonthStart[Months + 1] \in Int  BY CalendarIsTyped
<1>. HIDE DEF T
<1>3. T \in SUBSET Int /\ \A y \in T : y <= MonthStart[Months + 1]
  BY <1>1, <1>2, CalendarIsTyped DEF Days
<1>4. PICK x \in T : \A y \in T : y <= x  BY <1>1, <1>2, <1>3, GreatestOf
<1>5. \E v \in W : \A w \in W : w.from <= v.from  BY <1>4 DEF T
<1>. QED  BY <1>5 DEF LatestOf

\* resolve_version answers one of the versions, in force on the day, or the
\* fallback.
LEMMA VersionIsKnown ==
    ASSUME NEW V, Dated(V), NEW d, NEW fallback
    PROVE  \/ VersionAt(V, d, fallback) = fallback
           \/ VersionAt(V, d, fallback) \in V /\ IsEffectiveAt(VersionAt(V, d, fallback), d)
<1>. DEFINE E == {v \in V : IsEffectiveAt(v, d)}
<1>1. Dated(E)  BY DEF Dated
<1>2. E # {} => LatestOf(E) \in E  BY <1>1, LatestIsIn
<1>3. VersionAt(V, d, fallback) = IF E = {} THEN fallback ELSE LatestOf(E)  BY DEF VersionAt, InForce
<1>4. \A v \in E : v \in V /\ IsEffectiveAt(v, d)  OBVIOUS
<1>. HIDE DEF E
<1>. QED  BY <1>2, <1>3, <1>4

\* The account a read uses is one of its versions.
LEMMA AccountIsVersion ==
    ASSUME NEW V, Dated(V), V # {}, NEW t
    PROVE  Account(V, t) \in V
<1>. DEFINE last == LatestOf(V)
<1>1. last \in V  BY LatestIsIn
<1>2. Account(V, t) = VersionAt(V, t, last)  BY DEF Account
<1>. HIDE DEF last
<1>. QED  BY <1>1, <1>2, VersionIsKnown

LEMMA VersionsAreDated == ASSUME NEW V \in SUBSET Versions PROVE Dated(V)
  BY DEF Dated, Versions

-----------------------------------------------------------------------------
(* The fold over the cycles exists: statement after statement.             *)

\* s holds the statements of the cycles up to period n.
FoldedUpto(s, V, K, account, cycles, n) ==
    s = [p \in {q \in DOMAIN cycles : q <= n} |->
            Statement(V, K, account, p, cycles[p],
                      IF p - 1 \in DOMAIN cycles THEN s[p - 1] ELSE Seed)]

LEMMA FoldGoesOn ==
    ASSUME NEW V, NEW K, NEW account, NEW cycles, DOMAIN cycles \subseteq Nat,
           NEW n \in Nat, NEW s, FoldedUpto(s, V, K, account, cycles, n)
    PROVE  \E r : FoldedUpto(r, V, K, account, cycles, n + 1)
<1>. DEFINE P(m) == {q \in DOMAIN cycles : q <= m}
            Next1(p, before) == Statement(V, K, account, p, cycles[p], before)
            r == [p \in P(n + 1) |->
                    Next1(p, IF p - 1 \in DOMAIN cycles THEN s[p - 1] ELSE Seed)]
<1>1. ASSUME NEW p \in P(n) PROVE p \in P(n + 1)
  OBVIOUS
<1>2. ASSUME NEW p \in P(n + 1), p - 1 \in DOMAIN cycles PROVE p - 1 \in P(n)
  BY <1>2
<1>. HIDE DEF Next1
<1>3. ASSUME NEW p \in P(n) PROVE r[p] = s[p]
  <2>1. s[p] = Next1(p, IF p - 1 \in DOMAIN cycles THEN s[p - 1] ELSE Seed)
    BY DEF FoldedUpto, Next1
  <2>. HIDE DEF P
  <2>. QED  BY <1>1, <2>1
<1>. HIDE DEF P
<1>4. ASSUME NEW p \in P(n + 1)
      PROVE  r[p] = Next1(p, IF p - 1 \in DOMAIN cycles THEN r[p - 1] ELSE Seed)
  BY <1>2, <1>3
<1>5. r = [p \in P(n + 1) |-> r[p]]  OBVIOUS
<1>. HIDE DEF r
<1>6. r = [p \in P(n + 1) |->
             Next1(p, IF p - 1 \in DOMAIN cycles THEN r[p - 1] ELSE Seed)]
  BY <1>4, <1>5
<1>. QED  BY <1>6 DEF FoldedUpto, P, Next1

\* fold_statement_cycles computes what its step says of every cycle.
LEMMA FoldIsStepwise ==
    ASSUME NEW V, NEW K, NEW account, NEW cycles, NEW bound \in Nat, DOMAIN cycles \subseteq 1 .. bound
    PROVE  LET s == FoldCycles(V, K, account, cycles)
           IN  /\ DOMAIN s = DOMAIN cycles
               /\ \A p \in DOMAIN cycles :
                     s[p] = Statement(V, K, account, p, cycles[p],
                                      IF p - 1 \in DOMAIN cycles THEN s[p - 1] ELSE Seed)
<1>. DEFINE Good(n) == \E s : FoldedUpto(s, V, K, account, cycles, n)
            Bad == {n \in Nat : ~Good(n)}
<1>0. DOMAIN cycles \subseteq Nat  OBVIOUS
<1>1. Bad = {}
  <2>. SUFFICES ASSUME Bad # {} PROVE FALSE
    OBVIOUS
  <2>1. PICK n \in Bad : \A m \in Bad : n <= m
    <3>1. Bad \in SUBSET Nat  OBVIOUS
    <3>. HIDE DEF Bad
    <3>. QED  BY <3>1, LeastNatural
  <2>2. n \in Nat /\ ~Good(n)  OBVIOUS
  <2>3. n # 0
    <3>1. {q \in DOMAIN cycles : q <= 0} = {}  OBVIOUS
    <3>. DEFINE none == [p \in {q \in DOMAIN cycles : q <= 0} |-> 0]
    <3>2. FoldedUpto(none, V, K, account, cycles, 0)  BY <3>1 DEF FoldedUpto
    <3>3. Good(0)  BY <3>2
    <3>. QED  BY <2>2, <3>3
  <2>4. n - 1 \in Nat /\ n - 1 \notin Bad
    <3>. HIDE DEF Bad, Good
    <3>. QED  BY <2>1, <2>2, <2>3
  <2>5. PICK s : FoldedUpto(s, V, K, account, cycles, n - 1)  BY <2>4
  <2>6. \E r : FoldedUpto(r, V, K, account, cycles, (n - 1) + 1)
    BY <1>0, <2>4, <2>5, FoldGoesOn
  <2>. QED  BY <2>2, <2>6
<1>. DEFINE IsAll(s) == s = [p \in DOMAIN cycles |->
                               Statement(V, K, account, p, cycles[p],
                                         IF p - 1 \in DOMAIN cycles THEN s[p - 1] ELSE Seed)]
            all == CHOOSE s : IsAll(s)
<1>2. \E s : IsAll(s)
  <2>1. PICK s : FoldedUpto(s, V, K, account, cycles, bound)  BY <1>1
  <2>2. {q \in DOMAIN cycles : q <= bound} = DOMAIN cycles  OBVIOUS
  <2>. QED  BY <2>1, <2>2 DEF FoldedUpto
<1>3. IsAll(all)  BY <1>2
<1>4. FoldCycles(V, K, account, cycles) = all  BY DEF FoldCycles
<1>. HIDE DEF all
<1>. QED  BY <1>3, <1>4
-----------------------------------------------------------------------------
(* The cycles and their statements, whatever else a version or an event says. *)

HasTerms(a) == a.apr \in Int /\ a.closeDay \in (1 .. 31) \cup {None}
IsEntry(e) ==
    e.type \in {"movement", "charged", "earned", "foreign"} /\ e.amount \in Int /\ e.date \in Days

\* A cycle's boundary lies in its month, the first day after it included.
LEMMA BoundaryIsInMonth ==
    ASSUME NEW a, HasTerms(a), NEW p \in PeriodIds
    PROVE  /\ CycleEnd(a, p) \in Int
           /\ Start(p) < CycleEnd(a, p) /\ CycleEnd(a, p) <= EndExclusive(p)
<1>1. Start(p) \in Int /\ EndExclusive(p) \in Int /\ Start(p) < EndExclusive(p)
  BY CalendarIsTyped DEF PeriodIds, Start, EndExclusive
<1>2. CASE a.closeDay = None  BY <1>1, <1>2 DEF CycleEnd
<1>3. CASE a.closeDay # None
  <2>1. a.closeDay \in 1 .. 31  BY <1>3 DEF HasTerms
  <2>2. ClampDay(p, a.closeDay) \in Start(p) .. EndExclusive(p) - 1
    BY <2>1, ClampStaysInMonth
  <2>. QED  BY <1>1, <1>3, <2>2 DEF CycleEnd
<1>. QED  BY <1>2, <1>3

\* The cycle of month p starts no later than the month, or at the genesis.
LEMMA StartIsBounded ==
    ASSUME NEW a, HasTerms(a), NEW g \in Int, NEW p \in PeriodIds
    PROVE  /\ CycleStart(a, g, p) \in Int
           /\ g <= CycleStart(a, g, p)
           /\ \/ CycleStart(a, g, p) = g
              \/ p # 1 /\ CycleStart(a, g, p) = CycleEnd(a, p - 1)
           /\ p # 1 => /\ p - 1 \in PeriodIds
                       /\ CycleEnd(a, p - 1) <= CycleStart(a, g, p)
                       /\ CycleEnd(a, p - 1) <= Start(p)
<1>1. CASE p = 1  BY <1>1 DEF CycleStart
<1>2. CASE p # 1
  <2>1. p - 1 \in PeriodIds /\ EndExclusive(p - 1) = Start(p)
    BY <1>2, CalendarIsTyped DEF PeriodIds, EndExclusive, Start
  <2>2. CycleEnd(a, p - 1) \in Int /\ CycleEnd(a, p - 1) <= Start(p)
    BY <2>1, BoundaryIsInMonth
  <2>. QED  BY <1>2, <2>1, <2>2 DEF CycleStart, Larger
<1>. QED  BY <1>1, <1>2

\* The read's month and the one after it are on the calendar.
LEMMA CyclesAreOnCalendar ==
    ASSUME NEW a, HasTerms(a), NEW g \in Days, NEW t \in Days, g <= t,
           t < MonthStart[Months]
    PROVE  LET cycles == BuildCycles(a, g, t)
           IN  /\ DOMAIN cycles \subseteq PeriodIds
               /\ \A p \in DOMAIN cycles : cycles[p].start \in Int /\ cycles[p].end \in Int
<1>1. g \in Int /\ t \in Int  BY CalendarIsTyped DEF Days
<1>2. /\ PeriodFor(g) \in PeriodIds
      /\ PeriodFor(t) \in PeriodIds /\ Start(PeriodFor(t)) <= t
  BY PeriodForIsRight
<1>3. PeriodFor(t) + 1 \in PeriodIds
  <2>1. CASE PeriodFor(t) = Months  BY <1>1, <1>2, <2>1, CalendarIsTyped DEF Start
  <2>2. CASE PeriodFor(t) # Months  BY <1>2, <2>2, CalendarIsTyped DEF PeriodIds
  <2>. QED  BY <2>1, <2>2
<1>4. ASSUME NEW p \in CyclePeriods(a, g, t)
      PROVE  /\ p \in PeriodIds
             /\ CycleStart(a, g, p) \in Int
             /\ Smaller(CycleEnd(a, p), t + 1) \in Int
  <2>1. p \in PeriodIds
    BY <1>1, <1>2, <1>3, CalendarIsTyped
       DEF CyclePeriods, PeriodsCovering, PeriodsBetween, PeriodIds
  <2>. QED  BY <1>1, <2>1, StartIsBounded, BoundaryIsInMonth DEF Smaller
<1>. QED  BY <1>4 DEF BuildCycles

LEMMA DeltaIsInt == ASSUME NEW e, IsEntry(e) PROVE Delta(e) \in Int
  BY DEF Delta, IsEntry

LEMMA MovedIsSum ==
    ASSUME NEW K, IsFiniteSet(K)
    PROVE  Moved(K) = SumFunctionOnSet([e \in K |-> Delta(e)], K)
<1>. DEFINE f == [e \in K |-> Delta(e)]
            Folds(g) == g = [s \in SUBSET K |->
                               IF s = {} THEN 0
                               ELSE Delta(CHOOSE x \in s : TRUE)
                                    + g[s \ {CHOOSE x \in s : TRUE}]]
            h == CHOOSE g : Folds(g)
<1>1. PICK g : IsFold(g, f, K) /\ SumFunctionOnSet(f, K) = g[K]  BY SumIsFold
<1>2. ASSUME NEW s \in SUBSET K, s # {} PROVE f[Pick(s)] = Delta(CHOOSE x \in s : TRUE)
  BY <1>2, PickIsIn DEF Pick
<1>. HIDE DEF f
<1>3. Folds(g)
  <2>1. g = [s \in SUBSET K |-> IF s = {} THEN 0 ELSE f[Pick(s)] + g[s \ {Pick(s)}]]
    BY <1>1 DEF IsFold
  <2>. QED  BY <1>2, <2>1 DEF Pick
<1>4. Folds(h)  BY <1>3
<1>5. IsFold(h, f, K)
  <2>. HIDE DEF h
  <2>1. h = [s \in SUBSET K |-> IF s = {} THEN 0 ELSE f[Pick(s)] + h[s \ {Pick(s)}]]
    BY <1>2, <1>4 DEF Pick
  <2>. QED  BY <2>1 DEF IsFold
<1>6. Moved(K) = h[K]  BY DEF Moved, MapThenSumSet, MapThenFoldSet
<1>. HIDE DEF h
<1>7. g[K] = h[K]  BY <1>1, <1>5, FoldIsUnique
<1>. QED  BY <1>1, <1>6, <1>7 DEF f

LEMMA MovedIsInt ==
    ASSUME NEW K, IsFiniteSet(K), \A e \in K : IsEntry(e)
    PROVE  Moved(K) \in Int
<1>. DEFINE f == [e \in K |-> Delta(e)]
<1>1. \A e \in K : f[e] \in Int  BY DeltaIsInt
<1>. HIDE DEF f
<1>2. SumFunctionOnSet(f, K) \in Int  BY <1>1, SumIsInt
<1>. QED  BY <1>2, MovedIsSum DEF f

\* A recorded interest is that of the last record.
LEMMA PinIsRecorded ==
    ASSUME NEW K, \A e \in K : IsEntry(e), NEW p, Pins(K, p) # {}
    PROVE  LastPin(K, p) \in Pins(K, p) /\ LastPin(K, p).amount \in Int
<1>. DEFINE T == {e.date : e \in Pins(K, p)}
<1>1. T \in SUBSET Days /\ T # {}  BY DEF IsEntry, Pins
<1>. HIDE DEF T
<1>2. MonthStart[Months + 1] \in Int  BY CalendarIsTyped
<1>3. T \in SUBSET Int /\ \A y \in T : y <= MonthStart[Months + 1]
  BY <1>1, <1>2, CalendarIsTyped DEF Days
<1>4. PICK x \in T : \A y \in T : y <= x  BY <1>1, <1>2, <1>3, GreatestOf
<1>5. \E e \in Pins(K, p) : \A f \in Pins(K, p) : f.date <= e.date  BY <1>4 DEF T
<1>6. LastPin(K, p) \in Pins(K, p)  BY <1>5 DEF LastPin
<1>7. IsEntry(LastPin(K, p))  BY <1>6 DEF Pins
<1>. QED  BY <1>6, <1>7 DEF IsEntry

LEMMA InterestIsInt ==
    ASSUME NEW a, HasTerms(a), NEW K, \A e \in K : IsEntry(e), NEW p, NEW graced,
           NEW close \in Int, NEW days \in Int
    PROVE  Interest(a, K, p, graced, close, days) \in Int
<1>1. AccrualBase(a, close) \in Int  BY DEF AccrualBase, Larger
<1>2. a.apr \in Int  BY DEF HasTerms
<1>3. InterestForCycle(AccrualBase(a, close), a.apr, days) \in Int
  <2>. DEFINE base == AccrualBase(a, close)
              rate == a.apr
              owed == base * rate * days
  <2>1. base \in Int /\ rate \in Int  BY <1>1, <1>2
  <2>. HIDE DEF base, rate
  <2>2. owed \in Int  BY <2>1
  <2>. HIDE DEF owed
  <2>3. owed \div Basis \in Int  BY <2>2, BasisIsPositive
  <2>. QED  BY <2>3 DEF InterestForCycle, base, rate, owed
<1>. QED  BY <1>3, PinIsRecorded DEF Interest

\* A statement's amounts are integers when those carried into it are.
LEMMA StatementIsTyped ==
    ASSUME NEW V, Dated(V), \A v \in V : HasTerms(v),
           NEW K, IsFiniteSet(K), \A e \in K : IsEntry(e),
           NEW account, HasTerms(account), NEW p, NEW cycle,
           cycle.start \in Int, cycle.end \in Int, NEW before, before.estimated \in Int
    PROVE  LET s == Statement(V, K, account, p, cycle, before)
           IN  s.close \in Int /\ s.interest \in Int /\ s.estimated \in Int
<1>. DEFINE a == CycleVersion(V, cycle, account)
            graced == before.paid /\ IsLiability(a)
            past == {e \in K : e.date < cycle.end}
            close == Moved(past) + before.estimated
            days == cycle.end - cycle.start
            interest == Interest(a, K, p, graced, close, days)
            isEstimate == Pins(K, p) = {}
<1>1. HasTerms(a)  BY VersionIsKnown DEF CycleVersion
<1>2. past \subseteq K /\ IsFiniteSet(past)  BY FS_Subset
<1>. HIDE DEF a, past
<1>3. close \in Int /\ days \in Int  BY <1>2, MovedIsInt
<1>. HIDE DEF close, days, graced
<1>4. interest \in Int  BY <1>1, <1>3, InterestIsInt
<1>5. /\ Statement(V, K, account, p, cycle, before).close = close
      /\ Statement(V, K, account, p, cycle, before).interest = interest
      /\ Statement(V, K, account, p, cycle, before).estimated
             = Carry(a, before.estimated, isEstimate, interest)
  BY DEF Statement, a, past, close, days, graced
<1>. HIDE DEF interest, isEstimate
<1>6. Carry(a, before.estimated, isEstimate, interest) \in Int  BY <1>4 DEF Carry
<1>. QED  BY <1>3, <1>4, <1>5, <1>6

\* Every amount of a fold is an integer: the fold types it on the way.
LEMMA FoldIsTyped ==
    ASSUME NEW V, Dated(V), \A v \in V : HasTerms(v),
           NEW K, IsFiniteSet(K), \A e \in K : IsEntry(e),
           NEW account, HasTerms(account),
           NEW cycles, DOMAIN cycles \subseteq PeriodIds,
           \A p \in DOMAIN cycles : cycles[p].start \in Int /\ cycles[p].end \in Int
    PROVE  LET s == FoldCycles(V, K, account, cycles)
           IN  /\ DOMAIN s = DOMAIN cycles
               /\ \A p \in DOMAIN cycles :
                     /\ s[p] = Statement(V, K, account, p, cycles[p],
                                         IF p - 1 \in DOMAIN cycles THEN s[p - 1] ELSE Seed)
                     /\ s[p].close \in Int /\ s[p].interest \in Int /\ s[p].estimated \in Int
<1>. DEFINE s == FoldCycles(V, K, account, cycles)
            Typed(x) == x.close \in Int /\ x.interest \in Int /\ x.estimated \in Int
            Bad == {p \in DOMAIN cycles : ~Typed(s[p])}
            statement(p, before) == Statement(V, K, account, p, cycles[p], before)
<1>1. /\ DOMAIN s = DOMAIN cycles
      /\ \A p \in DOMAIN cycles :
            s[p] = statement(p, IF p - 1 \in DOMAIN cycles THEN s[p - 1] ELSE Seed)
  <2>1. Months \in Nat /\ DOMAIN cycles \subseteq 1 .. Months  BY CalendarIsTyped DEF PeriodIds
  <2>. QED  BY <2>1, FoldIsStepwise
<1>2. ASSUME NEW p \in DOMAIN cycles, NEW before, before.estimated \in Int
      PROVE  Typed(statement(p, before))
  <2>1. cycles[p].start \in Int /\ cycles[p].end \in Int  OBVIOUS
  <2>. DEFINE cycle == cycles[p]
  <2>. HIDE DEF cycle
  <2>2. LET x == Statement(V, K, account, p, cycle, before)
        IN  x.close \in Int /\ x.interest \in Int /\ x.estimated \in Int
    BY <1>2, <2>1, StatementIsTyped DEF cycle
  <2>. QED  BY <2>2 DEF cycle
<1>. HIDE DEF s, statement
<1>3. Bad = {}
  <2>. SUFFICES ASSUME Bad # {} PROVE FALSE
    OBVIOUS
  <2>1. PICK p \in Bad : \A q \in Bad : p <= q
    <3>1. Bad \in SUBSET Nat  BY CalendarIsTyped DEF PeriodIds
    <3>. HIDE DEF Bad
    <3>. QED  BY <3>1, LeastNatural
  <2>2. p \in DOMAIN cycles /\ p \in Nat /\ ~Typed(s[p])
    BY CalendarIsTyped DEF PeriodIds
  <2>. DEFINE before == IF p - 1 \in DOMAIN cycles THEN s[p - 1] ELSE Seed
  <2>3. before.estimated \in Int
    <3>1. CASE p - 1 \in DOMAIN cycles
      <4>1. p - 1 \notin Bad
        <5>1. p - 1 \in Bad => p <= p - 1  BY <2>1
        <5>. HIDE DEF Bad
        <5>. QED  BY <2>2, <5>1
      <4>. QED  BY <3>1, <4>1
    <3>2. CASE p - 1 \notin DOMAIN cycles  BY <3>2 DEF Seed
    <3>. QED  BY <3>1, <3>2
  <2>4. s[p] = statement(p, before)  BY <1>1, <2>2
  <2>. HIDE DEF before, Typed
  <2>. QED  BY <1>2, <2>2, <2>3, <2>4
<1>4. \A p \in DOMAIN cycles : Typed(s[p])  BY <1>3
<1>. QED  BY <1>1, <1>4 DEF s, statement

=============================================================================
