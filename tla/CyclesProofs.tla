---------------------------- MODULE CyclesProofs ----------------------------
(***************************************************************************)
(* The cycles of every read tile the days it covers, its statements count    *)
(* interest once, and what is recorded or closed stands; a new rate moves no *)
(* past interest and a payment never costs: for every calendar, every       *)
(* account and every history.                                               *)
(***************************************************************************)
EXTENDS StatementCycles, FoldProofs

-----------------------------------------------------------------------------
(* The cycles.                                                             *)

LEMMA VersionsHaveTerms == ASSUME NEW a \in Versions PROVE HasTerms(a)
  BY DEF HasTerms, Versions

LEMMA EventsAreEntries == ASSUME NEW e \in Events PROVE IsEntry(e)
  BY DEF IsEntry, Events

\* build_statement_cycles covers what it is to cover, without overlap.
LEMMA BuildTiles ==
    ASSUME NEW a, HasTerms(a), NEW g \in Days, NEW t \in Days, g <= t,
           t < MonthStart[Months]
    PROVE  Tiles(BuildCycles(a, g, t), g, t)
<1>. DEFINE P == CyclePeriods(a, g, t)
            cycles == BuildCycles(a, g, t)
            pg == PeriodFor(g)
            pt == PeriodFor(t)
<1>1. g \in Int /\ t \in Int  BY CalendarIsTyped DEF Days
<1>2. /\ pg \in PeriodIds /\ Start(pg) <= g /\ g < EndExclusive(pg)
      /\ pt \in PeriodIds /\ Start(pt) <= t /\ t < EndExclusive(pt)
  BY PeriodForIsRight
<1>3. pt + 1 \in PeriodIds
  <2>1. CASE pt = Months  BY <1>1, <1>2, <2>1, CalendarIsTyped DEF Start
  <2>2. CASE pt # Months  BY <1>2, <2>2, CalendarIsTyped DEF PeriodIds
  <2>. QED  BY <2>1, <2>2
<1>. HIDE DEF pg, pt
<1>4. \A p \in P : p \in PeriodIds /\ CycleEnd(a, p) > g /\ CycleStart(a, g, p) <= t
  BY <1>1, <1>2, <1>3, CalendarIsTyped
     DEF CyclePeriods, PeriodsCovering, PeriodsBetween, PeriodIds, pg, pt
<1>5. /\ DOMAIN cycles = P
      /\ \A p \in P : /\ cycles[p].start = CycleStart(a, g, p)
                      /\ cycles[p].end = Smaller(CycleEnd(a, p), t + 1)
  BY DEF BuildCycles
<1>. HIDE DEF P, cycles
<1>6. ASSUME NEW d \in g .. t
      PROVE  \E p \in P : cycles[p].start <= d /\ d < cycles[p].end
  <2>. DEFINE T == {p \in pg .. pt + 1 : d < CycleEnd(a, p)}
  <2>1. pg \in Nat /\ pt \in Nat  BY <1>2, CalendarIsTyped DEF PeriodIds
  <2>2. pg <= pt + 1
    <3>1. SUFFICES ASSUME pg > pt + 1 PROVE FALSE  BY <2>1
    <3>2. EndExclusive(pt) < Start(pg)
      BY <1>2, <2>1, <3>1, CalendarIsTyped DEF PeriodIds, Start, EndExclusive
    <3>3. Start(pg) \in Int /\ EndExclusive(pt) \in Int
      BY <1>2, CalendarIsTyped DEF PeriodIds, Start, EndExclusive
    <3>. QED  BY <1>1, <1>2, <3>2, <3>3
  <2>3. pt + 1 \in T
    <3>1. Start(pt + 1) = EndExclusive(pt) /\ EndExclusive(pt) \in Int
      BY <1>2, CalendarIsTyped DEF PeriodIds, Start, EndExclusive
    <3>2. EndExclusive(pt) < CycleEnd(a, pt + 1) /\ CycleEnd(a, pt + 1) \in Int
      BY <1>3, <3>1, BoundaryIsInMonth
    <3>. QED  BY <1>1, <1>2, <2>1, <2>2, <3>1, <3>2
  <2>4. PICK p \in T : \A q \in T : p <= q
    <3>1. T \in SUBSET Nat  BY <2>1
    <3>. HIDE DEF T
    <3>. QED  BY <2>3, <3>1, LeastNatural
  <2>5. p \in pg .. pt + 1 /\ d < CycleEnd(a, p)  BY <2>4
  <2>6. p \in PeriodIds  BY <1>2, <1>3, <2>1, <2>5, CalendarIsTyped DEF PeriodIds
  <2>7. CycleStart(a, g, p) <= d
    <3>1. CASE CycleStart(a, g, p) = g  BY <1>1, <3>1
    <3>2. CASE p # 1 /\ CycleStart(a, g, p) = CycleEnd(a, p - 1)
      <4>1. p - 1 \in PeriodIds /\ CycleEnd(a, p - 1) <= Start(p) /\ CycleEnd(a, p - 1) \in Int
        BY <1>1, <2>6, <3>2, StartIsBounded, BoundaryIsInMonth
      <4>2. CASE p = pg
        <5>1. Start(p) \in Int  BY <2>6, CalendarIsTyped DEF PeriodIds, Start
        <5>. QED  BY <1>1, <1>2, <3>2, <4>1, <4>2, <5>1
      <4>3. CASE p # pg
        <5>1. p - 1 \notin T /\ p - 1 \in pg .. pt + 1  BY <2>1, <2>4, <2>5, <4>3
        <5>. QED  BY <1>1, <3>2, <4>1, <5>1
      <4>. QED  BY <4>2, <4>3
    <3>. QED  BY <1>1, <2>6, <3>1, <3>2, StartIsBounded
  <2>8. CycleEnd(a, p) \in Int /\ CycleStart(a, g, p) \in Int
    BY <1>1, <2>6, BoundaryIsInMonth, StartIsBounded
  <2>9. p \in P
    BY <1>1, <1>2, <2>1, <2>5, <2>7, <2>8
       DEF P, CyclePeriods, PeriodsCovering, PeriodsBetween, pg, pt
  <2>. QED  BY <1>1, <1>5, <2>5, <2>7, <2>8, <2>9 DEF Smaller
<1>7. ASSUME NEW p \in P
      PROVE  /\ g <= cycles[p].start /\ cycles[p].start < cycles[p].end
             /\ cycles[p].end <= t + 1 /\ cycles[p].end <= EndExclusive(p)
  <2>1. p \in PeriodIds /\ CycleEnd(a, p) > g /\ CycleStart(a, g, p) <= t  BY <1>4
  <2>2. /\ CycleEnd(a, p) \in Int /\ Start(p) < CycleEnd(a, p)
        /\ CycleEnd(a, p) <= EndExclusive(p)
    BY <2>1, BoundaryIsInMonth
  <2>3. /\ CycleStart(a, g, p) \in Int /\ g <= CycleStart(a, g, p)
        /\ \/ CycleStart(a, g, p) = g
           \/ /\ CycleEnd(a, p - 1) \in Int /\ CycleEnd(a, p - 1) <= Start(p)
              /\ CycleStart(a, g, p) = CycleEnd(a, p - 1)
    BY <1>1, <2>1, StartIsBounded, BoundaryIsInMonth
  <2>4. Start(p) \in Int /\ EndExclusive(p) \in Int
    BY <2>1, CalendarIsTyped DEF PeriodIds, Start, EndExclusive
  <2>5. CycleStart(a, g, p) < CycleEnd(a, p)  BY <1>1, <2>1, <2>2, <2>3, <2>4
  <2>. QED  BY <1>1, <1>5, <2>1, <2>2, <2>3, <2>4, <2>5 DEF Smaller
<1>8. ASSUME NEW p \in P, NEW q \in P, p < q
      PROVE  cycles[p].end <= cycles[q].start
  <2>1. p \in PeriodIds /\ q \in PeriodIds /\ q # 1 /\ p \in Int /\ q \in Int
    BY <1>4, <1>8, CalendarIsTyped DEF PeriodIds
  <2>2. /\ q - 1 \in PeriodIds /\ CycleEnd(a, q - 1) <= CycleStart(a, g, q)
        /\ CycleEnd(a, q - 1) \in Int /\ CycleStart(a, g, q) \in Int
    BY <1>1, <2>1, StartIsBounded, BoundaryIsInMonth
  <2>3. CycleEnd(a, p) \in Int /\ CycleEnd(a, p) <= CycleEnd(a, q - 1)
    <3>1. CASE p = q - 1  BY <2>2, <3>1
    <3>2. CASE p < q - 1
      <4>1. /\ EndExclusive(p) \in Int /\ Start(q - 1) \in Int
            /\ EndExclusive(p) <= Start(q - 1)
        BY <2>1, <2>2, <3>2, CalendarIsTyped DEF PeriodIds, Start, EndExclusive
      <4>. QED  BY <2>1, <2>2, <4>1, BoundaryIsInMonth
    <3>. QED  BY <1>8, <2>1, <3>1, <3>2
  <2>. QED  BY <1>1, <1>5, <2>2, <2>3 DEF Smaller
<1>. QED  BY <1>5, <1>6, <1>7, <1>8 DEF Tiles, cycles

-----------------------------------------------------------------------------
(* Behaviours.                                                             *)

\* The reader's date leaves a month to spare, and the account has a version.
ReadInv ==
    /\ events \in SUBSET Events
    /\ versions \in SUBSET Versions /\ versions # {}
    /\ asOf \in MonthStart[1] .. MonthStart[Months] - 1

LEMMA ReadInvHolds == Spec => []ReadInv
<1>1. Init => ReadInv
  BY AccountsAreTyped, FirstReadIsOnCalendar DEF Init, ReadInv
<1>2. ReadInv /\ [Next]_vars => ReadInv'
  <2> SUFFICES ASSUME ReadInv, [Next]_vars PROVE ReadInv'
    OBVIOUS
  <2>. USE DEF ReadInv
  <2>1. CASE Record  BY <2>1, CandidatesAreTyped DEF Record
  <2>2. CASE Void  BY <2>2 DEF Void
  <2>3. CASE EditRate
    <3>1. PICK v \in versions, new \in Edits :
              versions' = (versions \ {v}) \cup
                  {[v EXCEPT !.to = new.from], [v EXCEPT !.from = new.from, !.apr = new.apr]}
      BY <2>3 DEF EditRate
    <3>2. new.from \in Days /\ new.apr \in Nat  BY EditsAreTyped
    <3>3. /\ [v EXCEPT !.to = new.from] \in Versions
          /\ [v EXCEPT !.from = new.from, !.apr = new.apr] \in Versions
      BY <3>2 DEF Versions, Forever
    <3>. QED  BY <2>3, <3>1, <3>3 DEF EditRate
  <2>4. CASE Advance
    <3>1. MonthStart[1] \in Int /\ MonthStart[Months] \in Int  BY CalendarIsTyped
    <3>. QED  BY <2>4, <3>1 DEF Advance
  <2>5. CASE UNCHANGED vars  BY <2>5 DEF vars
  <2>. QED  BY <2>1, <2>2, <2>3, <2>4, <2>5 DEF Next
<1>. QED  BY <1>1, <1>2, PTL DEF Spec

\* The genesis is a day of the calendar, on or before the read's date.
LEMMA GenesisIsRead ==
    ASSUME NEW t \in MonthStart[1] .. MonthStart[Months] - 1, NEW K \in SUBSET Events,
           \A e \in K : e.date <= t
    PROVE  Genesis(K, t) \in Days /\ Genesis(K, t) <= t /\ t \in Days
<1>1. /\ MonthStart[1] \in Int /\ MonthStart[Months] \in Int
      /\ MonthStart[Months + 1] \in Int /\ MonthStart[Months] < MonthStart[Months + 1]
  BY CalendarIsTyped
<1>2. t \in Days  BY <1>1 DEF Days
<1>3. CASE K = {}  BY <1>1, <1>2, <1>3 DEF Genesis
<1>4. CASE K # {}
  <2>. DEFINE T == {e.date : e \in K}
  <2>1. T \in SUBSET Days /\ T # {}  BY <1>4 DEF Events
  <2>2. \A y \in T : y <= t  OBVIOUS
  <2>. HIDE DEF T
  <2>3. T \in SUBSET Int /\ \A y \in T : MonthStart[1] <= y  BY <1>1, <2>1 DEF Days
  <2>4. \E x \in T : \A y \in T : x <= y  BY <1>1, <2>1, <2>3, LeastOf
  <2>5. Min(T) \in T  BY <2>4 DEF Min
  <2>. QED  BY <1>2, <1>4, <2>1, <2>2, <2>5 DEF Genesis, T
<1>. QED  BY <1>3, <1>4

\* At every read of every history, on every calendar, the cycles cover the days
\* from the genesis to the read's date exactly once, in order, each within the
\* month that names it (core.interest.build_statement_cycles).
THEOREM CyclesAlwaysTile == Spec => []CyclesTile
<1>1. ReadInv => CyclesTile
  <2> SUFFICES ASSUME ReadInv PROVE CyclesTile
    OBVIOUS
  <2>. DEFINE K == Known(events, asOf)
  <2>1. K \in SUBSET Events /\ \A e \in K : e.date <= asOf  BY DEF ReadInv, Known
  <2>2. asOf \in MonthStart[1] .. MonthStart[Months] - 1  BY DEF ReadInv
  <2>3. asOf < MonthStart[Months]  BY <2>2, CalendarIsTyped
  <2>4. Account(versions, asOf) \in Versions
    <3>1. versions \in SUBSET Versions /\ versions # {}  BY DEF ReadInv
    <3>. QED  BY <3>1, VersionsAreDated, AccountIsVersion
  <2>. HIDE DEF K
  <2>5. Genesis(K, asOf) \in Days /\ Genesis(K, asOf) <= asOf /\ asOf \in Days
    BY <2>1, <2>2, GenesisIsRead
  <2>6. Tiles(BuildCycles(Account(versions, asOf), Genesis(K, asOf), asOf),
              Genesis(K, asOf), asOf)
    BY <2>3, <2>4, <2>5, BuildTiles, VersionsHaveTerms
  <2>. QED  BY <2>6 DEF CyclesTile, Cycles, K
<1>. QED  BY <1>1, ReadInvHolds, PTL

-----------------------------------------------------------------------------
(* What moved.                                                             *)

LEMMA MovedSplits ==
    ASSUME NEW K \in SUBSET Events, IsFiniteSet(K), NEW A, NEW B,
           K = A \cup B, A \cap B = {}
    PROVE  Moved(K) = Moved(A) + Moved(B)
<1>. DEFINE f == [e \in K |-> Delta(e)]
            fa == [e \in A |-> Delta(e)]
            fb == [e \in B |-> Delta(e)]
<1>1. IsFiniteSet(A) /\ IsFiniteSet(B)  BY FS_Subset
<1>2. \A e \in K : f[e] \in Int  BY DeltaIsInt, EventsAreEntries
<1>3. (\A e \in A : f[e] = fa[e]) /\ (\A e \in B : f[e] = fb[e])  OBVIOUS
<1>4. /\ Moved(K) = SumFunctionOnSet(f, K)
      /\ Moved(A) = SumFunctionOnSet(fa, A) /\ Moved(B) = SumFunctionOnSet(fb, B)
  BY <1>1, MovedIsSum
<1>. HIDE DEF f, fa, fb
<1>5. /\ SumFunctionOnSet(f, A) = SumFunctionOnSet(fa, A)
      /\ SumFunctionOnSet(f, B) = SumFunctionOnSet(fb, B)
  BY <1>1, <1>3, SumsAgree
<1>6. SumFunctionOnSet(f, A \cup B) = SumFunctionOnSet(f, A) + SumFunctionOnSet(f, B)
  BY <1>1, <1>2, SumSplits
<1>. QED  BY <1>4, <1>5, <1>6

-----------------------------------------------------------------------------
(* The statements of a read.                                               *)

\* All versions of an account are of one kind, and what is shown is what the
\* latest read computed.
StatementInv ==
    /\ ReadInv
    /\ IsFiniteSet(events)
    /\ \A v, w \in versions : /\ v.kind = w.kind
                              /\ v.closeDay = w.closeDay /\ v.dueDay = w.dueDay
    /\ shown = Statements(events, versions, asOf)

LEMMA StatementInvHolds == Spec => []StatementInv
<1>. DEFINE Same == \A v, w \in versions : /\ v.kind = w.kind
                                           /\ v.closeDay = w.closeDay /\ v.dueDay = w.dueDay
            Rest == IsFiniteSet(events) /\ Same /\ shown = Statements(events, versions, asOf)
<1>1. Init => Rest  BY FS_EmptySet DEF Init
<1>2. ReadInv /\ Rest /\ [Next]_vars => Rest'
  <2>. SUFFICES ASSUME ReadInv, Rest, [Next]_vars PROVE Rest'
    OBVIOUS
  <2>1. IsFiniteSet(events)'
    BY FS_AddElement, FS_RemoveElement DEF Next, Record, Void, EditRate, Advance, vars
  <2>2. Same'
    <3>1. CASE EditRate
      <4>1. PICK v \in versions, new \in Edits :
                versions' = (versions \ {v}) \cup
                  {[v EXCEPT !.to = new.from], [v EXCEPT !.from = new.from, !.apr = new.apr]}
        BY <3>1 DEF EditRate
      <4>2. \A w \in versions' : w.kind = v.kind /\ w.closeDay = v.closeDay /\ w.dueDay = v.dueDay
        <5>1. v \in Versions  BY DEF ReadInv
        <5>. QED  BY <4>1, <5>1 DEF Versions
      <4>. QED  BY <4>2
    <3>2. CASE ~EditRate
      BY <3>2 DEF Next, Record, Void, Advance, vars
    <3>. QED  BY <3>1, <3>2
  <2>3. (shown = Statements(events, versions, asOf))'
    <3>1. CASE UNCHANGED vars  BY <3>1 DEF vars
    <3>2. CASE Next  BY <3>2 DEF Next, Record, Void, EditRate, Advance, Read
    <3>. QED  BY <3>1, <3>2
  <2>. QED  BY <2>1, <2>2, <2>3
<1>3. ReadInv /\ Rest <=> StatementInv  BY DEF StatementInv
<1>. HIDE DEF Rest
<1>. QED  BY <1>1, <1>2, <1>3, ReadInvHolds, PTL DEF Spec

\* What the statements shown are made of: the fold's step, over cycles that tile.
LEMMA ShownIsFolded ==
    ASSUME StatementInv
    PROVE  LET K == Known(events, asOf)
               account == Account(versions, asOf)
               cycles == Cycles(events, versions, asOf)
           IN  /\ account \in versions
               /\ K \in SUBSET Events /\ IsFiniteSet(K) /\ (\A e \in K : e.date \in Int)
               /\ DOMAIN shown = DOMAIN cycles /\ DOMAIN cycles \subseteq PeriodIds
               /\ \A p \in DOMAIN shown :
                     /\ cycles[p].start \in Int /\ cycles[p].end \in Int
                     /\ shown[p] = Statement(versions, K, account, p, cycles[p],
                                             IF p - 1 \in DOMAIN shown THEN shown[p - 1] ELSE Seed)
               /\ Tiles(cycles, Genesis(K, asOf), asOf)
<1>. DEFINE K == Known(events, asOf)
            account == Account(versions, asOf)
            g == Genesis(K, asOf)
            cycles == Cycles(events, versions, asOf)
<1>1. /\ events \in SUBSET Events /\ IsFiniteSet(events)
      /\ versions \in SUBSET Versions /\ versions # {}
      /\ asOf \in MonthStart[1] .. MonthStart[Months] - 1
  BY DEF StatementInv, ReadInv
<1>2. /\ K \in SUBSET Events /\ \A e \in K : e.date <= asOf
      /\ IsFiniteSet(K)
  BY <1>1, FS_Subset DEF Known
<1>3. account \in versions /\ account \in Versions  BY <1>1, VersionsAreDated, AccountIsVersion
<1>. HIDE DEF K, account
<1>4. asOf < MonthStart[Months]  BY <1>1, CalendarIsTyped
<1>5. g \in Days /\ g <= asOf /\ asOf \in Days  BY <1>1, <1>2, GenesisIsRead
<1>6. cycles = BuildCycles(account, g, asOf)  BY DEF Cycles, K, account
<1>. HIDE DEF g, cycles
<1>7. Tiles(cycles, g, asOf)  BY <1>3, <1>4, <1>5, <1>6, BuildTiles, VersionsHaveTerms
<1>8. /\ DOMAIN cycles \subseteq PeriodIds
      /\ \A p \in DOMAIN cycles : cycles[p].start \in Int /\ cycles[p].end \in Int
  BY <1>3, <1>4, <1>5, <1>6, CyclesAreOnCalendar, VersionsHaveTerms
<1>9. shown = FoldCycles(versions, K, account, cycles)
  BY DEF StatementInv, Statements, K, account, cycles
<1>10. /\ DOMAIN shown = DOMAIN cycles
       /\ \A p \in DOMAIN cycles :
             shown[p] = Statement(versions, K, account, p, cycles[p],
                                  IF p - 1 \in DOMAIN cycles THEN shown[p - 1] ELSE Seed)
  <2>1. Months \in Nat /\ DOMAIN cycles \subseteq 1 .. Months
    BY <1>8, CalendarIsTyped DEF PeriodIds
  <2>. QED  BY <1>9, <2>1, FoldIsStepwise
<1>11. \A e \in K : e.date \in Int  BY <1>2, CalendarIsTyped DEF Events, Days
<1>. QED  BY <1>2, <1>3, <1>7, <1>8, <1>10, <1>11 DEF K, account, g, cycles

\* Every amount that is shown is an integer: the fold types it on the way.
LEMMA ShownIsTyped ==
    ASSUME StatementInv
    PROVE  \A p \in DOMAIN shown : /\ shown[p].close \in Int /\ shown[p].interest \in Int
                                   /\ shown[p].estimated \in Int
<1>. DEFINE K == Known(events, asOf)
            account == Account(versions, asOf)
            cycles == Cycles(events, versions, asOf)
<1>1. /\ account \in versions /\ K \in SUBSET Events /\ IsFiniteSet(K)
      /\ DOMAIN shown = DOMAIN cycles /\ DOMAIN cycles \subseteq PeriodIds
      /\ \A p \in DOMAIN cycles : cycles[p].start \in Int /\ cycles[p].end \in Int
  BY ShownIsFolded
<1>2. versions \in SUBSET Versions  BY DEF StatementInv, ReadInv
<1>3. shown = FoldCycles(versions, K, account, cycles)  BY DEF StatementInv, Statements
<1>. HIDE DEF K, account, cycles
<1>4. Dated(versions) /\ HasTerms(account) /\ \A v \in versions : HasTerms(v)
  BY <1>1, <1>2, VersionsAreDated, VersionsHaveTerms
<1>5. \A e \in K : IsEntry(e)  BY <1>1, EventsAreEntries
<1>. QED  BY <1>1, <1>3, <1>4, <1>5, FoldIsTyped

\* One statement after another, as the fold makes them, and what is gained.
Follows(V, K, account, before, q, first, last, p, second, next) ==
    /\ V \in SUBSET Versions /\ account \in V /\ \A v, w \in V : v.kind = w.kind
    /\ K \in SUBSET Events /\ IsFiniteSet(K) /\ \A e \in K : e.date \in Int
    /\ first.end \in Int /\ second.end \in Int /\ first.end <= second.end
    /\ before.estimated \in Int
    /\ last = Statement(V, K, account, q, first, before)
    /\ last.close \in Int /\ last.interest \in Int /\ last.estimated \in Int
    /\ next = Statement(V, K, account, p, second, last)
Gains(K, account, last, next) ==
    LET moved == {e \in K : last.end <= e.date /\ e.date < next.end}
        effect == IF IsLiability(account) THEN -last.interest ELSE last.interest
    IN  next.close - last.close = Moved(moved) + (IF last.isEstimate THEN effect ELSE 0)

LEMMA StatementsFollow ==
    ASSUME NEW V, NEW K, NEW account, NEW before, NEW q, NEW first, NEW last,
           NEW p, NEW second, NEW next,
           Follows(V, K, account, before, q, first, last, p, second, next)
    PROVE  Gains(K, account, last, next)
<1>. DEFINE new == {e \in K : first.end <= e.date /\ e.date < second.end}
            effect == IF IsLiability(account) THEN -last.interest ELSE last.interest
<1>. USE DEF Follows
<1>. DEFINE old == {e \in K : e.date < first.end}
            all == {e \in K : e.date < second.end}
            a == CycleVersion(V, first, account)
            b == CycleVersion(V, second, account)
<1>1. /\ old \in SUBSET Events /\ IsFiniteSet(old) /\ new \in SUBSET Events /\ IsFiniteSet(new)
      /\ all \in SUBSET Events /\ IsFiniteSet(all)
  BY FS_Subset
<1>2. all = old \cup new /\ old \cap new = {}  OBVIOUS
<1>3. IsLiability(a) <=> IsLiability(account)
  <2>1. a \in V  BY VersionsAreDated, VersionIsKnown DEF CycleVersion
  <2>. HIDE DEF a
  <2>. QED  BY <2>1 DEF IsLiability
<1>4. IsLiability(b) <=> IsLiability(account)
  <2>1. b \in V  BY VersionsAreDated, VersionIsKnown DEF CycleVersion
  <2>. HIDE DEF b
  <2>. QED  BY <2>1 DEF IsLiability
<1>5. /\ last.close = Moved(old) + before.estimated
      /\ last.end = first.end
      /\ last.estimated = Carry(a, before.estimated, last.isEstimate, last.interest)
  BY DEF Statement
<1>6. next.close = Moved(all) + last.estimated /\ next.end = second.end
  BY DEF Statement
<1>. DEFINE close == next.close
<1>7. /\ last.close = Moved(old) + before.estimated
      /\ close = Moved(all) + last.estimated
  <2>. HIDE DEF a, b, old, all
  <2>. QED  BY <1>5, <1>6
<1>8. last.estimated = before.estimated + (IF last.isEstimate THEN effect ELSE 0)
  BY <1>3, <1>5 DEF Carry
<1>. HIDE DEF a, b, close, old, all, new, effect
<1>9. Moved(all) = Moved(old) + Moved(new)
  BY <1>1, <1>2, MovedSplits
<1>10. Moved(old) \in Int /\ Moved(new) \in Int
  BY <1>1, MovedIsInt, EventsAreEntries
<1>. DEFINE mo == Moved(old)
            mn == Moved(new)
            gain == IF last.isEstimate THEN effect ELSE 0
            carried == before.estimated
<1>11. gain \in Int /\ carried \in Int
  <2>1. last.interest \in Int /\ before.estimated \in Int  OBVIOUS
  <2>. HIDE DEF Follows
  <2>2. effect \in Int  BY <2>1 DEF effect
  <2>. QED  BY <2>1, <2>2
<1>. HIDE DEF Follows
<1>12. /\ last.close = mo + carried /\ close = (mo + mn) + (carried + gain)
       /\ mo \in Int /\ mn \in Int /\ gain \in Int /\ carried \in Int
  BY <1>7, <1>8, <1>9, <1>10, <1>11
<1>. HIDE DEF mo, mn, gain, carried
<1>13. close - last.close = mn + gain  BY <1>12
<1>. QED  BY <1>5, <1>6, <1>13 DEF Gains, close, mn, gain, new, effect

\* At every read, each statement opens where the last one closed: the balance
\* gained what moved in between and the interest that was estimated, and no
\* interest twice (domain.accounts.fold_statement_cycles).
THEOREM InterestCountsOnce == Spec => []InterestIsCountedOnce
<1>1. StatementInv => InterestIsCountedOnce
  <2>. SUFFICES ASSUME StatementInv, NEW p \in DOMAIN shown, p - 1 \in DOMAIN shown
       PROVE  LET last == shown[p - 1]
                  account == Account(versions, asOf)
                  moved == {e \in Known(events, asOf) : last.end <= e.date /\ e.date < shown[p].end}
                  effect == IF IsLiability(account) THEN -last.interest ELSE last.interest
              IN  shown[p].close - last.close
                      = Moved(moved) + (IF last.isEstimate THEN effect ELSE 0)
    BY DEF InterestIsCountedOnce
  <2>. DEFINE K == Known(events, asOf)
              account == Account(versions, asOf)
              cycles == Cycles(events, versions, asOf)
              before == IF (p - 1) - 1 \in DOMAIN shown THEN shown[(p - 1) - 1] ELSE Seed
  <2>1. /\ account \in versions /\ K \in SUBSET Events /\ IsFiniteSet(K)
        /\ \A e \in K : e.date \in Int
        /\ DOMAIN shown = DOMAIN cycles /\ DOMAIN shown \subseteq PeriodIds
        /\ cycles[p].end \in Int /\ cycles[p - 1].end \in Int
        /\ cycles[p].start \in Int /\ cycles[p].start < cycles[p].end
        /\ shown[p - 1] = Statement(versions, K, account, p - 1, cycles[p - 1], before)
        /\ shown[p] = Statement(versions, K, account, p, cycles[p], shown[p - 1])
        /\ p - 1 < p => cycles[p - 1].end <= cycles[p].start
    BY ShownIsFolded DEF Tiles
  <2>2. versions \in SUBSET Versions /\ \A v, w \in versions : v.kind = w.kind
    BY DEF StatementInv, ReadInv
  <2>3. p - 1 < p  BY <2>1, CalendarIsTyped DEF PeriodIds
  <2>4. before.estimated \in Int  BY ShownIsTyped DEF Seed
  <2>5. /\ shown[p - 1].close \in Int /\ shown[p - 1].interest \in Int
        /\ shown[p - 1].estimated \in Int
    BY ShownIsTyped
  <2>. HIDE DEF K, account, cycles, before
  <2>6. cycles[p - 1].end <= cycles[p].end  BY <2>1, <2>3
  <2>7. Follows(versions, K, account, before, p - 1, cycles[p - 1], shown[p - 1],
                p, cycles[p], shown[p])
    BY <2>1, <2>2, <2>4, <2>5, <2>6 DEF Follows
  <2>8. Gains(K, account, shown[p - 1], shown[p])  BY <2>7, StatementsFollow
  <2>. QED  BY <2>8 DEF Gains, K, account
<1>. QED  BY <1>1, StatementInvHolds, PTL

\* What is shown of a cycle whose interest is recorded.
PinsShown ==
    \A p \in DOMAIN shown :
        /\ shown[p].isEstimate <=> Pins(Known(events, asOf), p) = {}
        /\ ~shown[p].isEstimate => shown[p].interest = LastPin(Known(events, asOf), p).amount

LEMMA PinsAreShown == Spec => []PinsShown
<1>1. StatementInv => PinsShown
  <2>. SUFFICES ASSUME StatementInv, NEW p \in DOMAIN shown
       PROVE  /\ shown[p].isEstimate <=> Pins(Known(events, asOf), p) = {}
              /\ ~shown[p].isEstimate
                   => shown[p].interest = LastPin(Known(events, asOf), p).amount
    BY DEF PinsShown
  <2>. DEFINE before == IF p - 1 \in DOMAIN shown THEN shown[p - 1] ELSE Seed
              account == Account(versions, asOf)
              cycle == Cycles(events, versions, asOf)[p]
  <2>1. shown[p] = Statement(versions, Known(events, asOf), account, p, cycle, before)
    BY ShownIsFolded
  <2>. HIDE DEF before, account, cycle
  <2>. DEFINE K == Known(events, asOf)
              a == CycleVersion(versions, cycle, account)
              graced == before.paid /\ IsLiability(a)
              close == Moved({e \in K : e.date < cycle.end}) + before.estimated
              days == cycle.end - cycle.start
  <2>2. /\ shown[p].isEstimate = (Pins(K, p) = {})
        /\ shown[p].interest = Interest(a, K, p, graced, close, days)
    BY <2>1 DEF Statement
  <2>. HIDE DEF K, a, graced, close, days
  <2>3. shown[p].isEstimate <=> Pins(K, p) = {}  BY <2>2
  <2>4. Pins(K, p) # {} => shown[p].interest = LastPin(K, p).amount
    BY <2>2 DEF Interest
  <2>. QED  BY <2>3, <2>4 DEF K
<1>. QED  BY <1>1, StatementInvHolds, PTL

\* "Actual beats forecast": nothing but another record for its cycle moves an
\* interest that is recorded, nor makes an estimate of it again.
THEOREM RecordedInterestStands == Spec => PinnedInterestStands
<1>. DEFINE Stands ==
        \A p \in DOMAIN shown \cap DOMAIN shown' :
            /\ ~shown[p].isEstimate
            /\ \A e \in Changed : IsInterest(e) => e.cycle # p
            => /\ ~shown'[p].isEstimate
               /\ shown'[p].interest = shown[p].interest
<1>1. PinsShown /\ PinsShown' => Stands
  <2>. SUFFICES ASSUME PinsShown, PinsShown', NEW p \in DOMAIN shown \cap DOMAIN shown',
                       ~shown[p].isEstimate,
                       \A e \in Changed : IsInterest(e) => e.cycle # p
       PROVE  /\ ~shown'[p].isEstimate
              /\ shown'[p].interest = shown[p].interest
    OBVIOUS
  <2>. DEFINE K == Known(events, asOf)
              L == Known(events', asOf')
  <2>1. Pins(L, p) = Pins(K, p)
    <3>1. \A e \in K : e \notin L => ~(IsInterest(e) /\ e.cycle = p)
      BY DEF Changed, SymmetricDifference
    <3>2. \A e \in L : e \notin K => ~(IsInterest(e) /\ e.cycle = p)
      BY DEF Changed, SymmetricDifference
    <3>. HIDE DEF K, L
    <3>. QED  BY <3>1, <3>2 DEF Pins
  <2>2. LastPin(L, p) = LastPin(K, p)
    <3>. HIDE DEF K, L
    <3>. QED  BY <2>1 DEF LastPin
  <2>3. /\ shown[p].isEstimate <=> Pins(K, p) = {}
        /\ ~shown[p].isEstimate => shown[p].interest = LastPin(K, p).amount
        /\ shown'[p].isEstimate <=> Pins(L, p) = {}
        /\ ~shown'[p].isEstimate => shown'[p].interest = LastPin(L, p).amount
    BY DEF PinsShown
  <2>. HIDE DEF K, L
  <2>. QED  BY <2>1, <2>2, <2>3
<1>2. Stands => [Stands]_vars  OBVIOUS
<1>3. PinnedInterestStands <=> [][Stands]_vars  BY DEF PinnedInterestStands
<1>. HIDE DEF Stands
<1>. QED  BY <1>1, <1>2, <1>3, PinsAreShown, PTL

\* Boundaries ascend, and the cycles begin in their order.
LEMMA BoundariesAscend ==
    ASSUME NEW a, HasTerms(a), NEW g \in Int, NEW p \in PeriodIds, NEW q \in PeriodIds, p < q
    PROVE  /\ CycleEnd(a, p) < CycleEnd(a, q)
           /\ CycleEnd(a, p) <= CycleStart(a, g, q)
           /\ CycleStart(a, g, p) <= CycleStart(a, g, q)
<1>1. /\ p \in Int /\ q \in Int /\ q # 1
      /\ q - 1 \in PeriodIds /\ CycleEnd(a, q - 1) <= CycleStart(a, g, q)
      /\ g <= CycleStart(a, g, q) /\ CycleStart(a, g, q) \in Int
  BY StartIsBounded, CalendarIsTyped DEF PeriodIds
<1>2. /\ CycleEnd(a, p) \in Int /\ CycleEnd(a, p) <= EndExclusive(p)
      /\ CycleEnd(a, q) \in Int /\ Start(q) < CycleEnd(a, q)
      /\ CycleEnd(a, q - 1) \in Int /\ Start(q - 1) < CycleEnd(a, q - 1)
      /\ Start(p) < CycleEnd(a, p)
  BY <1>1, BoundaryIsInMonth
<1>3. /\ Start(p) \in Int /\ Start(q) \in Int /\ EndExclusive(p) \in Int /\ EndExclusive(p) <= Start(q)
      /\ Start(q - 1) \in Int
      /\ p # q - 1 => EndExclusive(p) <= Start(q - 1)
  BY <1>1, CalendarIsTyped DEF PeriodIds, Start, EndExclusive
<1>4. CycleEnd(a, p) < CycleEnd(a, q)  BY <1>2, <1>3
<1>5. CycleEnd(a, p) <= CycleEnd(a, q - 1)
  <2>1. CASE p = q - 1  BY <1>2, <2>1
  <2>2. CASE p # q - 1  BY <1>2, <1>3, <2>2
  <2>. QED  BY <2>1, <2>2
<1>6. CycleEnd(a, p) <= CycleStart(a, g, q)  BY <1>1, <1>2, <1>5
<1>7. /\ CycleStart(a, g, p) \in Int
      /\ \/ CycleStart(a, g, p) = g
         \/ CycleStart(a, g, p) = CycleEnd(a, p - 1) /\ CycleEnd(a, p - 1) <= Start(p)
            /\ CycleEnd(a, p - 1) \in Int
  BY StartIsBounded, BoundaryIsInMonth
<1>. QED  BY <1>1, <1>2, <1>3, <1>4, <1>6, <1>7

\* build_statement_cycles makes a cycle of each month whose boundary is after
\* the genesis and whose cycle begins by the read.
LEMMA PeriodsAreCut ==
    ASSUME NEW a, HasTerms(a), NEW g \in Days, NEW t \in Days, g <= t,
           t < MonthStart[Months]
    PROVE  CyclePeriods(a, g, t) =
               {p \in PeriodIds : CycleEnd(a, p) > g /\ CycleStart(a, g, p) <= t}
<1>1. g \in Int /\ t \in Int  BY CalendarIsTyped DEF Days
<1>2. /\ PeriodFor(g) \in PeriodIds /\ Start(PeriodFor(g)) <= g /\ g < EndExclusive(PeriodFor(g))
      /\ PeriodFor(t) \in PeriodIds /\ Start(PeriodFor(t)) <= t /\ t < EndExclusive(PeriodFor(t))
  BY PeriodForIsRight
<1>3. PeriodFor(t) + 1 \in PeriodIds
  <2>1. CASE PeriodFor(t) = Months  BY <1>1, <1>2, <2>1, CalendarIsTyped DEF Start
  <2>2. CASE PeriodFor(t) # Months  BY <1>2, <2>2, CalendarIsTyped DEF PeriodIds
  <2>. QED  BY <2>1, <2>2
<1>4. ASSUME NEW p \in PeriodIds, CycleEnd(a, p) > g, CycleStart(a, g, p) <= t
      PROVE  PeriodFor(g) <= p /\ p <= PeriodFor(t) + 1
  <2>1. CycleEnd(a, p) \in Int /\ CycleEnd(a, p) <= EndExclusive(p)  BY BoundaryIsInMonth
  <2>2. /\ p \in Int /\ PeriodFor(g) \in Int /\ PeriodFor(t) \in Int
        /\ EndExclusive(p) \in Int /\ Start(PeriodFor(g)) \in Int
        /\ EndExclusive(PeriodFor(t)) \in Int
    BY <1>2, CalendarIsTyped DEF PeriodIds, Start, EndExclusive
  <2>3. p < PeriodFor(g) => EndExclusive(p) <= Start(PeriodFor(g))
    BY <1>2, CalendarIsTyped DEF PeriodIds, Start, EndExclusive
  <2>4. PeriodFor(g) <= p  BY <1>1, <1>2, <1>4, <2>1, <2>2, <2>3
  <2>5. ASSUME p > PeriodFor(t) + 1 PROVE FALSE
    <3>1. p # 1 /\ p - 1 \in PeriodIds  BY <1>2, <2>2, <2>5, CalendarIsTyped DEF PeriodIds
    <3>2. CycleEnd(a, p - 1) <= t /\ CycleEnd(a, p - 1) \in Int /\ Start(p - 1) < CycleEnd(a, p - 1)
      BY <1>1, <1>4, <3>1, StartIsBounded, BoundaryIsInMonth
    <3>3. EndExclusive(PeriodFor(t)) <= Start(p - 1) /\ Start(p - 1) \in Int
      BY <1>2, <2>2, <2>5, <3>1, CalendarIsTyped DEF PeriodIds, Start, EndExclusive
    <3>. QED  BY <1>1, <1>2, <2>2, <3>2, <3>3
  <2>. QED  BY <2>2, <2>4, <2>5
<1>5. ASSUME NEW p \in PeriodsCovering(g, t)
      PROVE  p \in PeriodIds
  BY <1>1, <1>2, <1>3, CalendarIsTyped DEF PeriodsCovering, PeriodsBetween, PeriodIds
<1>6. ASSUME NEW p \in PeriodIds, PeriodFor(g) <= p, p <= PeriodFor(t) + 1
      PROVE  p \in PeriodsCovering(g, t)
  BY <1>1, <1>2, <1>3, <1>6, CalendarIsTyped DEF PeriodsCovering, PeriodsBetween, PeriodIds
<1>. QED  BY <1>4, <1>5, <1>6 DEF CyclePeriods

-----------------------------------------------------------------------------
(* One read.                                                               *)

\* The versions of one account: a rate may change, its kind and days do not.
OneAccount(V) ==
    /\ V \in SUBSET Versions /\ V # {}
    /\ \A v, w \in V : v.kind = w.kind /\ v.closeDay = w.closeDay /\ v.dueDay = w.dueDay

\* s is what a read as of t answers about V when it knows K.
IsRead(V, K, t, s) ==
    /\ OneAccount(V)
    /\ K \in SUBSET Events /\ IsFiniteSet(K) /\ \A e \in K : e.date <= t
    /\ t \in MonthStart[1] .. MonthStart[Months] - 1
    /\ s = FoldCycles(V, K, Account(V, t), BuildCycles(Account(V, t), Genesis(K, t), t))

\* The cycle of month p at such a read.
CycleOf(a, g, t, p) == [start |-> CycleStart(a, g, p), end |-> Smaller(CycleEnd(a, p), t + 1)]
CarriedInto(s, p) == IF p - 1 \in DOMAIN s THEN s[p - 1] ELSE Seed

\* What such an answer is made of: the fold's step, month after month.
IsFolded(V, K, a, g, t, s) ==
    /\ a \in V /\ a \in Versions
    /\ g \in Days /\ g \in Int /\ t \in Days /\ t \in Int /\ g <= t /\ t < MonthStart[Months]
    /\ DOMAIN s \subseteq PeriodIds
    /\ DOMAIN s = {p \in PeriodIds : CycleEnd(a, p) > g /\ CycleStart(a, g, p) <= t}
    /\ \A p \in DOMAIN s : s[p] = Statement(V, K, a, p, CycleOf(a, g, t, p), CarriedInto(s, p))

LEMMA ReadIsFolded ==
    ASSUME NEW V, NEW K, NEW t, NEW s, IsRead(V, K, t, s)
    PROVE  IsFolded(V, K, Account(V, t), Genesis(K, t), t, s)
<1>. DEFINE a == Account(V, t)
            g == Genesis(K, t)
            cycles == BuildCycles(a, g, t)
<1>1. V \in SUBSET Versions /\ V # {}  BY DEF IsRead, OneAccount
<1>2. a \in V /\ a \in Versions  BY <1>1, VersionsAreDated, AccountIsVersion
<1>3. t \in MonthStart[1] .. MonthStart[Months] - 1  BY DEF IsRead
<1>4. t < MonthStart[Months] /\ t \in Int  BY <1>3, CalendarIsTyped
<1>5. K \in SUBSET Events /\ \A e \in K : e.date <= t  BY DEF IsRead
<1>6. g \in Days /\ g <= t /\ t \in Days  BY <1>3, <1>5, GenesisIsRead
<1>7. g \in Int  BY <1>6, CalendarIsTyped DEF Days
<1>8. s = FoldCycles(V, K, a, cycles)  BY DEF IsRead
<1>. HIDE DEF a, g
<1>9. DOMAIN cycles = CyclePeriods(a, g, t)  BY DEF BuildCycles
<1>10. CyclePeriods(a, g, t) = {p \in PeriodIds : CycleEnd(a, p) > g /\ CycleStart(a, g, p) <= t}
  BY <1>2, <1>4, <1>6, PeriodsAreCut, VersionsHaveTerms
<1>11. \A p \in DOMAIN cycles : cycles[p] = CycleOf(a, g, t, p)
  BY DEF BuildCycles, CycleOf
<1>. HIDE DEF cycles
<1>12. /\ DOMAIN s = DOMAIN cycles
       /\ \A p \in DOMAIN cycles :
             s[p] = Statement(V, K, a, p, cycles[p], IF p - 1 \in DOMAIN cycles THEN s[p - 1] ELSE Seed)
  <2>1. Months \in Nat /\ DOMAIN cycles \subseteq 1 .. Months
    BY <1>9, <1>10, CalendarIsTyped DEF PeriodIds
  <2>. QED  BY <1>8, <2>1, FoldIsStepwise
<1>13. \A p \in DOMAIN s : s[p] = Statement(V, K, a, p, CycleOf(a, g, t, p), CarriedInto(s, p))
  BY <1>11, <1>12 DEF CarriedInto
<1>14. DOMAIN s \subseteq PeriodIds  BY <1>9, <1>10, <1>12
<1>. QED  BY <1>2, <1>4, <1>6, <1>7, <1>9, <1>10, <1>12, <1>13, <1>14 DEF IsFolded, a, g

-----------------------------------------------------------------------------
(* Two reads.                                                              *)

\* What of a version a statement depends on.
SameTerms(a, b) == a.kind = b.kind /\ a.apr = b.apr /\ a.dueDay = b.dueDay

\* What of the ledger it depends on, but for the payments after its close.
SameFacts(K, L, p, end) ==
    /\ {e \in K : e.date < end} = {e \in L : e.date < end}
    /\ Pins(K, p) = Pins(L, p)

\* The credits that PaidInFull counts.
Credits(a, K, end) ==
    {e \in K : end <= e.date /\ e.date <= DueDate(end - 1, a.dueDay) /\ Delta(e) > 0}

\* All but whether it was paid.
SameFigures(x, y) ==
    /\ x.start = y.start /\ x.end = y.end /\ x.close = y.close /\ x.interest = y.interest
    /\ x.isEstimate = y.isEstimate /\ x.graced = y.graced /\ x.estimated = y.estimated

LEMMA StatementsAgree ==
    ASSUME NEW V, NEW W, NEW K, IsFiniteSet(K), NEW L, NEW account, NEW other, NEW p, NEW cycle,
           NEW before, NEW last,
           SameTerms(CycleVersion(V, cycle, account), CycleVersion(W, cycle, other)),
           SameFacts(K, L, p, cycle.end),
           before.estimated = last.estimated, before.paid = last.paid
    PROVE  SameFigures(Statement(V, K, account, p, cycle, before),
                       Statement(W, L, other, p, cycle, last))
<1>. DEFINE a == CycleVersion(V, cycle, account)
            b == CycleVersion(W, cycle, other)
            past == {e \in K : e.date < cycle.end}
            days == cycle.end - cycle.start
            close == Moved(past) + before.estimated
            graced(x) == before.paid /\ IsLiability(x)
            isEstimate == Pins(K, p) = {}
            interest(x, M) == Interest(x, M, p, graced(x), close, days)
<1>1. IsLiability(a) <=> IsLiability(b)  BY DEF SameTerms, IsLiability
<1>3. past = {e \in L : e.date < cycle.end} /\ Pins(K, p) = Pins(L, p)  BY DEF SameFacts
<1>4. a.apr = b.apr  BY DEF SameTerms
<1>. DEFINE x == Statement(V, K, account, p, cycle, before)
            y == Statement(W, L, other, p, cycle, last)
<1>5. /\ x.start = cycle.start /\ x.end = cycle.end /\ x.close = close
      /\ x.interest = interest(a, K) /\ x.isEstimate = isEstimate
      /\ x.graced = (graced(a) /\ (isEstimate \/ interest(a, K) = 0))
      /\ x.estimated = Carry(a, before.estimated, isEstimate, interest(a, K))
  BY DEF Statement
<1>6. /\ y.start = cycle.start /\ y.end = cycle.end /\ y.close = close
      /\ y.interest = interest(b, L) /\ y.isEstimate = isEstimate
      /\ y.graced = (graced(b) /\ (isEstimate \/ interest(b, L) = 0))
      /\ y.estimated = Carry(b, before.estimated, isEstimate, interest(b, L))
  BY <1>3 DEF Statement
<1>. HIDE DEF a, b, past, x, y, days, isEstimate
<1>8. graced(a) = graced(b)  BY <1>1
<1>. HIDE DEF close, graced
<1>9. AccrualBase(a, close) = AccrualBase(b, close)  BY <1>1 DEF AccrualBase
<1>10. interest(a, K) = interest(b, L)
  <2>1. LastPin(K, p) = LastPin(L, p)  BY <1>3 DEF LastPin
  <2>. QED  BY <1>3, <1>4, <1>8, <1>9, <2>1 DEF Interest
<1>. HIDE DEF interest
<1>11. Carry(a, before.estimated, isEstimate, interest(a, K))
         = Carry(b, before.estimated, isEstimate, interest(b, L))
  BY <1>1, <1>10 DEF Carry
<1>. QED  BY <1>5, <1>6, <1>8, <1>10, <1>11 DEF SameFigures, x, y

\* Whether it was paid, given that its figures agree.
LEMMA PaymentsAgree ==
    ASSUME NEW V, NEW W, NEW K, IsFiniteSet(K), NEW L, NEW account, NEW other, NEW p, NEW cycle,
           NEW before, NEW last,
           SameTerms(CycleVersion(V, cycle, account), CycleVersion(W, cycle, other)),
           SameFigures(Statement(V, K, account, p, cycle, before),
                       Statement(W, L, other, p, cycle, last)),
           CycleVersion(V, cycle, account).dueDay # None
               => Credits(CycleVersion(V, cycle, account), K, cycle.end)
                    = Credits(CycleVersion(V, cycle, account), L, cycle.end)
    PROVE  Statement(V, K, account, p, cycle, before).paid
               = Statement(W, L, other, p, cycle, last).paid
<1>. DEFINE a == CycleVersion(V, cycle, account)
            b == CycleVersion(W, cycle, other)
            x == Statement(V, K, account, p, cycle, before)
            y == Statement(W, L, other, p, cycle, last)
            k == Credits(a, K, cycle.end)
            l == Credits(b, L, cycle.end)
<1>1. IsLiability(a) <=> IsLiability(b)  BY DEF SameTerms, IsLiability
<1>2. a.dueDay = b.dueDay  BY DEF SameTerms
<1>3. /\ x.paid = PaidInFull(a, K, x.close, cycle.end)
      /\ y.paid = PaidInFull(b, L, y.close, cycle.end)
  BY DEF Statement
<1>4. x.close = y.close  BY DEF SameFigures
<1>5. a.dueDay # None => k = l  BY <1>2 DEF Credits
<1>. HIDE DEF a, b, x, y
<1>7. /\ PaidInFull(a, K, x.close, cycle.end)
           = (IsLiability(a) /\ a.dueDay # None /\ Moved(k) >= AccrualBase(a, x.close))
      /\ PaidInFull(b, L, y.close, cycle.end)
           = (IsLiability(b) /\ b.dueDay # None /\ Moved(l) >= AccrualBase(b, y.close))
  BY DEF PaidInFull, Credits
<1>. HIDE DEF k, l
<1>8. a.dueDay # None => Moved(k) = Moved(l)  BY <1>5
<1>9. AccrualBase(a, x.close) = AccrualBase(b, y.close)  BY <1>1, <1>4 DEF AccrualBase
<1>. QED  BY <1>1, <1>2, <1>3, <1>7, <1>8, <1>9 DEF x, y

\* The cycle c of month q is the same at both reads, and so is what its statement
\* says of itself, and what it says of the payments.
AlikeAt(V, K, account, W, L, other, q, c) ==
    /\ SameTerms(CycleVersion(V, c, account), CycleVersion(W, c, other))
    /\ SameFacts(K, L, q, c.end)
PaidAlikeAt(V, K, account, L, c) ==
    LET a == CycleVersion(V, c, account)
    IN  a.dueDay # None => Credits(a, K, c.end) = Credits(a, L, c.end)
Alike(V, K, t, s, W, L, u, r, q) ==
    LET c == CycleOf(Account(V, t), Genesis(K, t), t, q)
    IN  /\ c = CycleOf(Account(W, u), Genesis(L, u), u, q)
        /\ AlikeAt(V, K, Account(V, t), W, L, Account(W, u), q, c)
PaidAlike(V, K, t, L, q) ==
    PaidAlikeAt(V, K, Account(V, t), L, CycleOf(Account(V, t), Genesis(K, t), t, q))

\* Two reads whose cycles are alike up to a month answer the same of it.
LEMMA ReadsAgree ==
    ASSUME NEW V, NEW K, NEW t, NEW s, IsRead(V, K, t, s),
           NEW W, NEW L, NEW u, NEW r, IsRead(W, L, u, r),
           NEW p \in DOMAIN s,
           \A q \in PeriodIds : q <= p => (q \in DOMAIN s <=> q \in DOMAIN r),
           \A q \in DOMAIN s : q <= p => Alike(V, K, t, s, W, L, u, r, q),
           \A q \in DOMAIN s : q < p => PaidAlike(V, K, t, L, q)
    PROVE  p \in DOMAIN r /\ SameFigures(s[p], r[p])
<1>. DEFINE a == Account(V, t)
            b == Account(W, u)
            cycle(q) == CycleOf(a, Genesis(K, t), t, q)
            other(q) == CycleOf(b, Genesis(L, u), u, q)
            Same(q) == SameFigures(s[q], r[q]) /\ (q < p => s[q].paid = r[q].paid)
            Bad == {q \in DOMAIN s : q <= p /\ ~Same(q)}
<1>1. /\ DOMAIN s \subseteq PeriodIds
      /\ \A q \in DOMAIN s : s[q] = Statement(V, K, a, q, cycle(q), CarriedInto(s, q))
  <2>1. IsFolded(V, K, a, Genesis(K, t), t, s)  BY ReadIsFolded
  <2>. QED  BY <2>1 DEF IsFolded
<1>2. /\ DOMAIN r \subseteq PeriodIds
      /\ \A q \in DOMAIN r : r[q] = Statement(W, L, b, q, other(q), CarriedInto(r, q))
  <2>1. IsFolded(W, L, b, Genesis(L, u), u, r)  BY ReadIsFolded
  <2>. QED  BY <2>1 DEF IsFolded
<1>3. PeriodIds \subseteq Nat  BY CalendarIsTyped DEF PeriodIds
<1>4. IsFiniteSet(K)  BY DEF IsRead
<1>5. \A q \in DOMAIN s : q <= p =>
         /\ cycle(q) = other(q)
         /\ SameTerms(CycleVersion(V, cycle(q), a), CycleVersion(W, cycle(q), b))
         /\ SameFacts(K, L, q, cycle(q).end)
  BY DEF Alike, AlikeAt
<1>6. \A q \in DOMAIN s : q < p =>
         (CycleVersion(V, cycle(q), a).dueDay # None =>
            Credits(CycleVersion(V, cycle(q), a), K, cycle(q).end)
                = Credits(CycleVersion(V, cycle(q), a), L, cycle(q).end))
  BY DEF PaidAlike, PaidAlikeAt
<1>. HIDE DEF a, b, cycle, other
<1>7. Bad = {}
  <2>. SUFFICES ASSUME Bad # {} PROVE FALSE
    OBVIOUS
  <2>1. PICK q \in Bad : \A x \in Bad : q <= x
    <3>1. Bad \in SUBSET Nat  BY <1>1, <1>3
    <3>. HIDE DEF Bad
    <3>. QED  BY <3>1, LeastNatural
  <2>2. q \in DOMAIN s /\ q \in Nat /\ q <= p /\ ~Same(q) /\ p \in Nat /\ q \in PeriodIds
    BY <1>1, <1>3
  <2>3. q \in DOMAIN r  BY <2>2
  <2>4. /\ CarriedInto(s, q).estimated = CarriedInto(r, q).estimated
        /\ CarriedInto(s, q).paid = CarriedInto(r, q).paid
    <3>1. CASE q - 1 \in DOMAIN s
      <4>1. q - 1 \in PeriodIds /\ q - 1 < p  BY <1>1, <2>2, <3>1
      <4>2. q - 1 \in DOMAIN r  BY <2>2, <3>1, <4>1
      <4>3. q - 1 \in Bad => q <= q - 1  BY <2>1
      <4>4. Same(q - 1)
        <5>. HIDE DEF Same
        <5>. QED  BY <2>2, <3>1, <4>3
      <4>5. s[q - 1].estimated = r[q - 1].estimated /\ s[q - 1].paid = r[q - 1].paid
        BY <4>1, <4>4 DEF SameFigures
      <4>. QED  BY <3>1, <4>2, <4>5 DEF CarriedInto
    <3>2. CASE q - 1 \notin DOMAIN s
      <4>1. q - 1 \notin DOMAIN r
        <5>1. q - 1 \in DOMAIN r => q - 1 \in PeriodIds /\ q - 1 <= p  BY <1>2, <2>2
        <5>. QED  BY <3>2, <5>1
      <4>. QED  BY <3>2, <4>1 DEF CarriedInto
    <3>. QED  BY <3>1, <3>2
  <2>. DEFINE x == CarriedInto(s, q)
              y == CarriedInto(r, q)
              c == cycle(q)
  <2>5. s[q] = Statement(V, K, a, q, c, x) /\ r[q] = Statement(W, L, b, q, c, y)
    BY <1>1, <1>2, <1>5, <2>2, <2>3
  <2>6. /\ SameTerms(CycleVersion(V, c, a), CycleVersion(W, c, b))
        /\ SameFacts(K, L, q, c.end)
    BY <1>5, <2>2
  <2>7. q < p => (CycleVersion(V, c, a).dueDay # None =>
                    Credits(CycleVersion(V, c, a), K, c.end)
                        = Credits(CycleVersion(V, c, a), L, c.end))
    BY <1>6, <2>2
  <2>8. x.estimated = y.estimated /\ x.paid = y.paid  BY <2>4
  <2>. HIDE DEF x, y, c
  <2>9. SameFigures(s[q], r[q])  BY <1>4, <2>5, <2>6, <2>8, StatementsAgree
  <2>10. q < p => s[q].paid = r[q].paid
    BY <1>4, <2>5, <2>6, <2>7, <2>9, PaymentsAgree
  <2>. QED  BY <2>2, <2>9, <2>10
<1>8. Same(p)
  <2>1. p \in Nat  BY <1>1, <1>3
  <2>. QED  BY <1>7, <2>1
<1>9. p \in DOMAIN r
  <2>1. p \in Nat /\ p \in PeriodIds  BY <1>1, <1>3
  <2>. QED  BY <2>1
<1>. QED  BY <1>8, <1>9

-----------------------------------------------------------------------------
(* The versions follow each other.                                         *)

\* No two begin on one day, and each but the last ends by the next.
Chained(V) ==
    \A v, w \in V : /\ v.from = w.from => v = w
                    /\ v.from < w.from => v.to # None /\ v.to <= w.from
BegunBy(V, d) == \E v \in V : v.from <= d
\* From the first of them on, one is in force.
Covers(V) == \A d \in Int : BegunBy(V, d) => \E v \in V : IsEffectiveAt(v, d)

LEMMA VersionInForce ==
    ASSUME NEW V \in SUBSET Versions, Chained(V), NEW d \in Int,
           NEW v \in V, IsEffectiveAt(v, d), NEW fallback
    PROVE  VersionAt(V, d, fallback) = v
<1>. DEFINE F == InForce(V, d)
<1>1. v \in F  BY DEF InForce
<1>2. ASSUME NEW w \in F PROVE w = v
  <2>1. w \in V /\ IsEffectiveAt(w, d)  BY DEF InForce
  <2>2. /\ w.from \in Int /\ v.from \in Int
        /\ w.to \in Int \cup {None} /\ v.to \in Int \cup {None}
    BY <2>1, CalendarIsTyped DEF Versions, Forever, Days
  <2>3. ~(w.from < v.from)  BY <2>1, <2>2 DEF Chained, IsEffectiveAt
  <2>4. ~(v.from < w.from)  BY <2>1, <2>2 DEF Chained, IsEffectiveAt
  <2>5. w.from = v.from  BY <2>2, <2>3, <2>4
  <2>. QED  BY <2>1, <2>5 DEF Chained
<1>3. LatestOf(F) \in F
  <2>1. Dated(F)  BY VersionsAreDated DEF Dated, InForce
  <2>. QED  BY <1>1, <2>1, LatestIsIn
<1>4. VersionAt(V, d, fallback) = LatestOf(F)  BY <1>1 DEF VersionAt
<1>. QED  BY <1>2, <1>3, <1>4

\* EditRate on the open version v.
Succeeded(V, v, n, apr) ==
    (V \ {v}) \cup {[v EXCEPT !.to = n], [v EXCEPT !.from = n, !.apr = apr]}

LEMMA EditsChain ==
    ASSUME NEW V \in SUBSET Versions, Chained(V), NEW v \in V, v.to = None,
           NEW n \in Days, NEW apr \in Nat, v.from < n
    PROVE  /\ Chained(Succeeded(V, v, n, apr))
           /\ Covers(V) => Covers(Succeeded(V, v, n, apr))
           /\ \A d \in Int : BegunBy(V, d) => BegunBy(Succeeded(V, v, n, apr), d)
<1>. DEFINE closed == [v EXCEPT !.to = n]
            opened == [v EXCEPT !.from = n, !.apr = apr]
            W == Succeeded(V, v, n, apr)
<1>1. n \in Int /\ n # None  BY CalendarIsTyped, NoneIsAbsent DEF Days
<1>2. /\ closed.from = v.from /\ closed.to = n
      /\ opened.from = n /\ opened.to = None
  BY DEF Versions
<1>3. \A w \in V : w.from \in Int /\ w.to \in Int \cup {None}
  BY CalendarIsTyped DEF Versions, Forever, Days
<1>4. \A w \in V : w # v => w.from < v.from /\ w.to # None /\ w.to <= v.from
  BY <1>3 DEF Chained
<1>5. W = (V \ {v}) \cup {closed, opened}  BY DEF Succeeded
<1>. HIDE DEF closed, opened, W
<1>6. ASSUME NEW x \in W, NEW y \in W
      PROVE  /\ x.from = y.from => x = y
             /\ x.from < y.from => x.to # None /\ x.to <= y.from
  <2>1. CASE x \in V \ {v} /\ y \in V \ {v}  BY <2>1 DEF Chained
  <2>2. CASE x \in V \ {v} /\ y \in {closed, opened}
    <3>1. /\ x.from \in Int /\ x.to \in Int \cup {None} /\ v.from \in Int
          /\ x.from < v.from /\ x.to # None /\ x.to <= v.from
      BY <1>3, <1>4, <2>2
    <3>2. y.from = v.from \/ y.from = n  BY <1>2, <2>2
    <3>. QED  BY <1>1, <3>1, <3>2
  <2>3. CASE x \in {closed, opened} /\ y \in V \ {v}
    <3>1. y.from \in Int /\ v.from \in Int /\ y.from < v.from  BY <1>3, <1>4, <2>3
    <3>2. x.from = v.from \/ x.from = n  BY <1>2, <2>3
    <3>. QED  BY <1>1, <3>1, <3>2
  <2>4. CASE x \in {closed, opened} /\ y \in {closed, opened}
    <3>1. v.from \in Int  BY <1>3
    <3>. QED  BY <1>1, <1>2, <2>4, <3>1
  <2>. QED  BY <1>5, <2>1, <2>2, <2>3, <2>4
<1>7. Chained(W)  BY <1>6 DEF Chained
<1>8. ASSUME NEW d \in Int, BegunBy(V, d) PROVE BegunBy(W, d)
  <2>1. PICK w \in V : w.from <= d  BY <1>8 DEF BegunBy
  <2>2. CASE w = v  BY <1>2, <1>5, <2>1, <2>2 DEF BegunBy
  <2>3. CASE w # v  BY <1>5, <2>1, <2>3 DEF BegunBy
  <2>. QED  BY <2>2, <2>3
<1>9. ASSUME Covers(V), NEW d \in Int, BegunBy(W, d) PROVE \E w \in W : IsEffectiveAt(w, d)
  <2>1. PICK x \in W : x.from <= d  BY <1>9 DEF BegunBy
  <2>2. BegunBy(V, d)
    <3>1. CASE x \in V  BY <2>1, <3>1 DEF BegunBy
    <3>2. CASE x \in {closed, opened}
      <4>1. v.from <= d  BY <1>1, <1>2, <1>3, <2>1, <3>2
      <4>. QED  BY <4>1 DEF BegunBy
    <3>. QED  BY <1>5, <3>1, <3>2
  <2>3. PICK w \in V : IsEffectiveAt(w, d)  BY <1>9, <2>2 DEF Covers
  <2>4. CASE w # v  BY <1>5, <2>3, <2>4
  <2>5. CASE w = v /\ d < n
    <3>1. IsEffectiveAt(closed, d)  BY <1>2, <2>3, <2>5 DEF IsEffectiveAt
    <3>. QED  BY <1>5, <3>1
  <2>6. CASE ~(d < n)
    <3>1. IsEffectiveAt(opened, d)  BY <1>1, <1>2, <2>6 DEF IsEffectiveAt
    <3>. QED  BY <1>5, <3>1
  <2>. QED  BY <2>4, <2>5, <2>6
<1>10. Covers(V) => Covers(W)  BY <1>9 DEF Covers
<1>. QED  BY <1>7, <1>8, <1>10 DEF W

\* A new rate changes no terms before it begins.
LEMMA EditsKeepTerms ==
    ASSUME NEW V \in SUBSET Versions, Chained(V), Covers(V), NEW v \in V, v.to = None,
           NEW n \in Days, NEW apr \in Nat, v.from < n,
           NEW d \in Int, BegunBy(V, d), d < n, NEW x, NEW y
    PROVE  SameTerms(VersionAt(V, d, x), VersionAt(Succeeded(V, v, n, apr), d, y))
<1>. DEFINE closed == [v EXCEPT !.to = n]
            W == Succeeded(V, v, n, apr)
<1>1. PICK w \in V : IsEffectiveAt(w, d)  BY DEF Covers
<1>2. VersionAt(V, d, x) = w  BY <1>1, VersionInForce
<1>3. Chained(W)  BY EditsChain
<1>4. W \in SUBSET Versions
  <2>1. closed \in Versions /\ [v EXCEPT !.from = n, !.apr = apr] \in Versions
    BY DEF Versions, Forever
  <2>. QED  BY <2>1 DEF Succeeded
<1>5. n \in Int /\ n # None  BY CalendarIsTyped, NoneIsAbsent DEF Days
<1>6. CASE w # v
  <2>1. w \in W  BY <1>6 DEF Succeeded
  <2>. HIDE DEF W
  <2>2. VersionAt(W, d, y) = w  BY <1>1, <1>3, <1>4, <2>1, VersionInForce
  <2>. QED  BY <1>2, <2>2 DEF SameTerms, W
<1>7. CASE w = v
  <2>1. closed \in W  BY DEF Succeeded
  <2>2. /\ closed.from = v.from /\ closed.to = n /\ closed.kind = v.kind
        /\ closed.apr = v.apr /\ closed.dueDay = v.dueDay
    BY DEF Versions
  <2>. HIDE DEF closed, W
  <2>3. IsEffectiveAt(closed, d)  BY <1>1, <1>7, <2>2 DEF IsEffectiveAt
  <2>4. VersionAt(W, d, y) = closed  BY <1>3, <1>4, <2>1, <2>3, VersionInForce
  <2>. QED  BY <1>2, <1>7, <2>2, <2>4 DEF SameTerms, W
<1>. QED  BY <1>6, <1>7

-----------------------------------------------------------------------------
(* What stands.                                                            *)

\* The genesis of a ledger with events is the date of its first.
LEMMA GenesisIsFirst ==
    ASSUME NEW t, NEW K \in SUBSET Events, K # {}
    PROVE  /\ \E e \in K : e.date = Genesis(K, t)
           /\ \A e \in K : Genesis(K, t) <= e.date
<1>. DEFINE T == {e.date : e \in K}
<1>1. MonthStart[1] \in Int  BY CalendarIsTyped
<1>2. T \in SUBSET Int /\ T # {} /\ \A y \in T : MonthStart[1] <= y
  BY CalendarIsTyped DEF Events, Days
<1>3. Genesis(K, t) = Min(T)  BY DEF Genesis
<1>. HIDE DEF T
<1>4. \E x \in T : \A y \in T : x <= y  BY <1>1, <1>2, LeastOf
<1>5. Min(T) \in T /\ \A y \in T : Min(T) <= y  BY <1>4 DEF Min
<1>. QED  BY <1>3, <1>5 DEF T

\* What is shown is the answer of a read of what is stored.
ReadNow == IsRead(versions, Known(events, asOf), asOf, shown)

LEMMA ShownIsRead == StatementInv => ReadNow
<1>. SUFFICES ASSUME StatementInv PROVE ReadNow
  OBVIOUS
<1>1. /\ events \in SUBSET Events /\ IsFiniteSet(events)
      /\ asOf \in MonthStart[1] .. MonthStart[Months] - 1
      /\ versions \in SUBSET Versions /\ versions # {}
  BY DEF StatementInv, ReadInv
<1>2. OneAccount(versions)  BY <1>1 DEF StatementInv, OneAccount
<1>3. /\ Known(events, asOf) \in SUBSET Events /\ IsFiniteSet(Known(events, asOf))
      /\ \A e \in Known(events, asOf) : e.date <= asOf
  BY <1>1, FS_Subset DEF Known
<1>4. shown = Statements(events, versions, asOf)  BY DEF StatementInv
<1>. QED  BY <1>1, <1>2, <1>3, <1>4 DEF ReadNow, IsRead, Statements, Cycles

\* Every day a cycle may start on has a version in force.
AccountInv ==
    /\ StatementInv
    /\ events \subseteq Candidates
    /\ Chained(versions) /\ Covers(versions)
    /\ BegunBy(versions, asOf)
    /\ \A e \in Candidates : BegunBy(versions, e.date)

LEMMA AccountInvHolds == AccountsBeginFirst => (Spec => []AccountInv)
<1>. SUFFICES ASSUME AccountsBeginFirst PROVE Spec => []AccountInv
  OBVIOUS
<1>. DEFINE Rest == /\ events \subseteq Candidates
                    /\ Chained(versions) /\ Covers(versions)
                    /\ BegunBy(versions, asOf)
                    /\ \A e \in Candidates : BegunBy(versions, e.date)
<1>1. Init => Rest
  <2>. SUFFICES ASSUME Init PROVE Rest
    OBVIOUS
  <2>1. PICK a \in Accounts : versions = {a}  BY DEF Init
  <2>2. /\ a.to = None /\ a.from <= FirstRead
        /\ \A e \in Candidates : a.from <= e.date
    BY DEF AccountsBeginFirst
  <2>3. a.from \in Int  BY AccountsAreTyped, CalendarIsTyped DEF Versions, Days
  <2>4. Chained(versions)  BY <2>1, <2>3 DEF Chained
  <2>5. Covers(versions)  BY <2>1, <2>2 DEF Covers, BegunBy, IsEffectiveAt
  <2>6. BegunBy(versions, asOf) /\ \A e \in Candidates : BegunBy(versions, e.date)
    BY <2>1, <2>2 DEF BegunBy, Init
  <2>7. events \subseteq Candidates  BY DEF Init
  <2>. QED  BY <2>4, <2>5, <2>6, <2>7
<1>2. StatementInv /\ Rest /\ [Next]_vars => Rest'
  <2>. SUFFICES ASSUME StatementInv, Rest, [Next]_vars PROVE Rest'
    OBVIOUS
  <2>1. asOf \in Int /\ versions \in SUBSET Versions /\ events \in SUBSET Events
    BY CalendarIsTyped DEF StatementInv, ReadInv
  <2>2. CASE Record \/ Void \/ UNCHANGED vars  BY <2>2 DEF Record, Void, vars
  <2>3. CASE EditRate
    <3>1. PICK v \in versions, new \in Edits :
              /\ v.to = None /\ v.from < new.from
              /\ versions' = Succeeded(versions, v, new.from, new.apr)
      BY <2>3 DEF EditRate, Succeeded
    <3>2. new.from \in Days /\ new.apr \in Nat  BY EditsAreTyped
    <3>3. /\ Chained(versions') /\ Covers(versions')
          /\ \A d \in Int : BegunBy(versions, d) => BegunBy(versions', d)
      BY <2>1, <3>1, <3>2, EditsChain
    <3>4. \A e \in Candidates : e.date \in Int
      BY CandidatesAreTyped, CalendarIsTyped DEF Events, Days
    <3>. QED  BY <2>1, <2>3, <3>3, <3>4 DEF EditRate
  <2>4. CASE Advance
    <3>1. \A v \in versions : v.from \in Int  BY <2>1, CalendarIsTyped DEF Versions, Days
    <3>2. BegunBy(versions, asOf + 1)  BY <2>1, <3>1 DEF BegunBy
    <3>. QED  BY <2>4, <3>2 DEF Advance
  <2>. QED  BY <2>2, <2>3, <2>4 DEF Next
<1>3. StatementInv /\ Rest <=> AccountInv  BY DEF AccountInv
<1>. HIDE DEF Rest
<1>. QED  BY <1>1, <1>2, <1>3, StatementInvHolds, PTL DEF Spec

\* A cycle starts when the account has begun.
LEMMA CyclesAreBegun ==
    ASSUME AccountInv, NEW p \in PeriodIds, NEW a \in Versions
    PROVE  BegunBy(versions, CycleStart(a, Genesis(Known(events, asOf), asOf), p))
<1>. DEFINE K == Known(events, asOf)
            g == Genesis(K, asOf)
<1>1. /\ events \in SUBSET Events /\ asOf \in MonthStart[1] .. MonthStart[Months] - 1
      /\ versions \in SUBSET Versions
  BY DEF AccountInv, StatementInv, ReadInv
<1>2. K \in SUBSET Events /\ K \subseteq Candidates /\ \A e \in K : e.date <= asOf
  BY <1>1 DEF Known, AccountInv
<1>. HIDE DEF K
<1>3. BegunBy(versions, g)
  <2>1. CASE K = {}  BY <2>1 DEF Genesis, AccountInv
  <2>2. CASE K # {}
    <3>1. PICK e \in K : e.date = g  BY <1>2, <2>2, GenesisIsFirst
    <3>. QED  BY <1>2, <3>1 DEF AccountInv
  <2>. QED  BY <2>1, <2>2
<1>4. g \in Int
  <2>1. g \in Days  BY <1>1, <1>2, GenesisIsRead
  <2>. QED  BY <2>1, CalendarIsTyped DEF Days
<1>. HIDE DEF g
<1>5. CycleStart(a, g, p) \in Int /\ g <= CycleStart(a, g, p)
  BY <1>4, StartIsBounded, VersionsHaveTerms
<1>6. PICK v \in versions : v.from <= g  BY <1>3 DEF BegunBy
<1>7. v.from \in Int  BY <1>1, CalendarIsTyped DEF Versions, Days
<1>8. v.from <= CycleStart(a, g, p)  BY <1>4, <1>5, <1>6, <1>7
<1>. QED  BY <1>8 DEF BegunBy, g, K

\* The shape of the cycles is that of any version.
LEMMA ShapeIsShared ==
    ASSUME NEW a, NEW b, a.closeDay = b.closeDay, NEW g, NEW t, NEW p
    PROVE  CycleEnd(a, p) = CycleEnd(b, p) /\ CycleStart(a, g, p) = CycleStart(b, g, p)
           /\ CycleOf(a, g, t, p) = CycleOf(b, g, t, p)
  BY DEF CycleEnd, CycleStart, CycleOf

LEMMA EditsKeepThePast ==
    ASSUME AccountInv, ReadNow, ReadNow', [Next]_vars,
           NEW new \in versions' \ versions, new.to = None,
           NEW p \in DOMAIN shown, shown[p].start < new.from
    PROVE  shown'[p].interest = shown[p].interest
<1>. DEFINE V == versions
            W == versions'
            K == Known(events, asOf)
            t == asOf
            g == Genesis(K, t)
            a == Account(V, t)
            b == Account(W, t)
            s == shown
            r == shown'
<1>1. EditRate  BY DEF Next, Record, Void, Advance, vars
<1>2. /\ IsRead(V, K, t, s) /\ IsRead(W, K, t, r)
  <2>1. events' = events /\ asOf' = asOf  BY <1>1 DEF EditRate
  <2>. QED  BY <2>1 DEF ReadNow
<1>3. PICK v \in V, edit \in Edits :
          /\ v.to = None /\ v.from < edit.from
          /\ W = Succeeded(V, v, edit.from, edit.apr)
  BY <1>1 DEF EditRate, Succeeded
<1>4. edit.from \in Days /\ edit.from \in Int /\ edit.apr \in Nat
  BY EditsAreTyped, CalendarIsTyped DEF Days
<1>5. V \in SUBSET Versions /\ Chained(V) /\ Covers(V)
  BY DEF AccountInv, StatementInv, ReadInv
<1>6. new.from = edit.from
  <2>1. v \in Versions  BY <1>5
  <2>2. edit.from # None  BY <1>4, NoneIsAbsent
  <2>3. CASE new = [v EXCEPT !.to = edit.from]  BY <2>1, <2>2, <2>3 DEF Versions
  <2>4. CASE new = [v EXCEPT !.from = edit.from, !.apr = edit.apr]  BY <2>1, <2>4 DEF Versions
  <2>. QED  BY <1>3, <2>3, <2>4 DEF Succeeded
<1>7. IsFolded(V, K, a, g, t, s) /\ IsFolded(W, K, b, g, t, r)  BY <1>2, ReadIsFolded
<1>8. a.closeDay = b.closeDay
  <2>1. a \in V /\ b \in W  BY <1>7 DEF IsFolded
  <2>2. \E w \in W : w.closeDay = v.closeDay
    <3>. DEFINE w == [v EXCEPT !.to = edit.from]
    <3>1. w \in W  BY <1>3 DEF Succeeded
    <3>2. w.closeDay = v.closeDay  BY <1>5 DEF Versions
    <3>. QED  BY <3>1, <3>2
  <2>3. /\ \A w \in V : w.closeDay = v.closeDay
        /\ \A w, x \in W : w.closeDay = x.closeDay
    BY <1>2 DEF IsRead, OneAccount
  <2>. QED  BY <2>1, <2>2, <2>3
<1>9. \A q \in PeriodIds : BegunBy(V, CycleStart(a, g, q))
  <2>1. a \in Versions  BY <1>7 DEF IsFolded
  <2>. QED  BY <2>1, CyclesAreBegun
<1>. HIDE DEF V, W, K, t, g, a, b, s, r
<1>10. \A q \in PeriodIds : q \in DOMAIN s <=> q \in DOMAIN r
  BY <1>7, <1>8, ShapeIsShared DEF IsFolded
<1>11. s[p].start = CycleStart(a, g, p) /\ p \in DOMAIN s /\ p \in PeriodIds
  <2>1. p \in DOMAIN s  BY DEF s
  <2>2. s[p] = Statement(V, K, a, p, CycleOf(a, g, t, p), CarriedInto(s, p)) /\ p \in PeriodIds
    BY <1>7, <2>1 DEF IsFolded
  <2>. QED  BY <2>1, <2>2 DEF Statement, CycleOf
<1>12. CycleStart(a, g, p) < edit.from  BY <1>6, <1>11 DEF s
<1>13. ASSUME NEW q \in DOMAIN s, q <= p
       PROVE  Alike(V, K, t, s, W, K, t, r, q)
  <2>. DEFINE c == CycleOf(a, g, t, q)
              d == CycleStart(a, g, q)
  <2>1. a \in Versions /\ g \in Int /\ q \in PeriodIds  BY <1>7 DEF IsFolded
  <2>2. d \in Int /\ d < edit.from
    <3>1. d \in Int /\ CycleStart(a, g, p) \in Int
      BY <1>11, <2>1, StartIsBounded, VersionsHaveTerms
    <3>2. q \in Int /\ p \in Int  BY <1>11, <2>1, CalendarIsTyped DEF PeriodIds
    <3>3. CASE q = p  BY <1>12, <3>1, <3>3
    <3>4. CASE q < p
      <4>1. d <= CycleStart(a, g, p)
        BY <1>11, <2>1, <3>4, BoundariesAscend, VersionsHaveTerms
      <4>. QED  BY <1>4, <1>12, <3>1, <4>1
    <3>. QED  BY <1>13, <3>2, <3>3, <3>4
  <2>3. c = CycleOf(b, g, t, q)  BY <1>8, ShapeIsShared
  <2>4. c.start = d  BY DEF CycleOf
  <2>5. BegunBy(V, d)  BY <1>9, <2>1
  <2>. HIDE DEF d, c
  <2>6. SameTerms(VersionAt(V, d, a), VersionAt(W, d, b))
    BY <1>3, <1>4, <1>5, <2>2, <2>5, EditsKeepTerms
  <2>7. SameTerms(CycleVersion(V, c, a), CycleVersion(W, c, b))
    BY <2>4, <2>6 DEF CycleVersion
  <2>8. SameFacts(K, K, q, c.end)  BY DEF SameFacts
  <2>. QED  BY <2>3, <2>7, <2>8 DEF Alike, AlikeAt, a, b, c, g
<1>14. \A q \in DOMAIN s : PaidAlike(V, K, t, K, q)  BY DEF PaidAlike, PaidAlikeAt
<1>15. SameFigures(s[p], r[p])  BY <1>2, <1>10, <1>11, <1>13, <1>14, ReadsAgree
<1>. QED  BY <1>15 DEF SameFigures, s, r

\* PLAN.md 7.4: a new rate moves the interest of no cycle that started before it.
THEOREM NewRatesKeepThePast == AccountsBeginFirst => (Spec => RateEditsKeepThePast)
<1>. SUFFICES ASSUME AccountsBeginFirst PROVE Spec => RateEditsKeepThePast
  OBVIOUS
<1>. DEFINE A == \A new \in versions' \ versions, p \in DOMAIN shown :
                    shown[p].start < new.from /\ new.to = None
                    => shown'[p].interest = shown[p].interest
<1>1. AccountInv /\ ReadNow /\ ReadNow' /\ [Next]_vars => [A]_vars
  BY EditsKeepThePast
<1>3. AccountInv => ReadNow  BY ShownIsRead DEF AccountInv
<1>2. RateEditsKeepThePast <=> [][A]_vars  BY DEF RateEditsKeepThePast
<1>. HIDE DEF A
<1>. QED  BY <1>1, <1>2, <1>3, AccountInvHolds, PTL DEF Spec

\* _payment_due_date: the later the close, the later the payment is due.
LEMMA DueDatesAscend ==
    ASSUME NEW c \in Days, NEW d \in Days, c <= d, d < MonthStart[Months], NEW day \in 1 .. 31
    PROVE  DueDate(c, day) \in Int /\ DueDate(d, day) \in Int /\ DueDate(c, day) <= DueDate(d, day)
<1>. DEFINE p == PeriodFor(c)
            q == PeriodFor(d)
<1>1. c \in Int /\ d \in Int  BY CalendarIsTyped DEF Days
<1>2. /\ p \in PeriodIds /\ Start(p) <= c /\ c < EndExclusive(p)
      /\ q \in PeriodIds /\ Start(q) <= d /\ d < EndExclusive(q)
  BY PeriodForIsRight
<1>3. /\ DueDate(c, day) = IF ClampDay(p, day) > c THEN ClampDay(p, day) ELSE ClampDay(p + 1, day)
      /\ DueDate(d, day) = IF ClampDay(q, day) > d THEN ClampDay(q, day) ELSE ClampDay(q + 1, day)
  BY DEF DueDate
<1>. HIDE DEF p, q
<1>4. p <= q /\ p \in Int /\ q \in Int
  <2>1. p \in Int /\ q \in Int /\ EndExclusive(q) \in Int /\ Start(p) \in Int
    BY <1>2, CalendarIsTyped DEF PeriodIds, Start, EndExclusive
  <2>2. q < p => EndExclusive(q) <= Start(p)
    BY <1>2, CalendarIsTyped DEF PeriodIds, Start, EndExclusive
  <2>. QED  BY <1>1, <1>2, <2>1, <2>2
<1>5. p + 1 \in PeriodIds /\ q + 1 \in PeriodIds
  <2>1. q # Months  BY <1>1, <1>2, CalendarIsTyped DEF Start
  <2>. QED  BY <1>2, <1>4, <2>1, CalendarIsTyped DEF PeriodIds
<1>6. ASSUME NEW i \in PeriodIds
      PROVE  /\ ClampDay(i, day) \in Int
             /\ Start(i) <= ClampDay(i, day) /\ ClampDay(i, day) < EndExclusive(i)
             /\ Start(i) \in Int /\ EndExclusive(i) \in Int
  <2>1. Start(i) \in Int /\ EndExclusive(i) \in Int
    BY CalendarIsTyped DEF PeriodIds, Start, EndExclusive
  <2>. QED  BY <2>1, ClampStaysInMonth
<1>7. ASSUME NEW i \in PeriodIds, NEW j \in PeriodIds, i < j
      PROVE  ClampDay(i, day) < ClampDay(j, day)
  <2>1. EndExclusive(i) <= Start(j)
    BY <1>7, CalendarIsTyped DEF PeriodIds, Start, EndExclusive
  <2>. QED  BY <1>6, <2>1
<1>. DEFINE cp == ClampDay(p, day)
            cp1 == ClampDay(p + 1, day)
            cq == ClampDay(q, day)
            cq1 == ClampDay(q + 1, day)
<1>8. cp \in Int /\ cp1 \in Int /\ cq \in Int /\ cq1 \in Int  BY <1>2, <1>5, <1>6
<1>9. cp < cp1 /\ cq < cq1  BY <1>2, <1>4, <1>5, <1>7
<1>10. CASE p = q
  <2>1. cp = cq /\ cp1 = cq1  BY <1>10
  <2>. HIDE DEF cp, cq, cp1, cq1
  <2>2. DueDate(c, day) = IF cp > c THEN cp ELSE cp1  BY <1>3 DEF cp, cp1
  <2>3. DueDate(d, day) = IF cq > d THEN cq ELSE cq1  BY <1>3 DEF cq, cq1
  <2>. QED  BY <1>1, <1>8, <1>9, <2>1, <2>2, <2>3
<1>11. CASE p < q
  <2>1. cp1 <= cq
    <3>1. CASE p + 1 = q  BY <1>8, <3>1
    <3>2. CASE p + 1 < q  BY <1>2, <1>5, <1>7, <1>8, <3>2
    <3>. QED  BY <1>4, <1>11, <3>1, <3>2
  <2>. HIDE DEF cp, cq, cp1, cq1
  <2>2. DueDate(c, day) = IF cp > c THEN cp ELSE cp1  BY <1>3 DEF cp, cp1
  <2>3. DueDate(d, day) = IF cq > d THEN cq ELSE cq1  BY <1>3 DEF cq, cq1
  <2>. QED  BY <1>1, <1>8, <1>9, <2>1, <2>2, <2>3
<1>. QED  BY <1>4, <1>10, <1>11

\* A version in force governs whatever the fallback.
LEMMA BegunVersionsGovern ==
    ASSUME NEW V \in SUBSET Versions, Chained(V), Covers(V), NEW c, c.start \in Int,
           BegunBy(V, c.start), NEW a, NEW b
    PROVE  CycleVersion(V, c, a) \in V /\ CycleVersion(V, c, a) = CycleVersion(V, c, b)
<1>1. PICK v \in V : IsEffectiveAt(v, c.start)  BY DEF Covers
<1>. QED  BY <1>1, VersionInForce DEF CycleVersion

LEMMA ClosedStatementsStay ==
    ASSUME AccountInv, ReadNow, ReadNow', [Next]_vars, versions' = versions,
           NEW p \in DOMAIN shown, Known(events, asOf) # {},
           shown[p].end = CycleEnd(Account(versions, asOf), p),
           \A e \in Changed : ~Touches(e, p)
    PROVE  p \in DOMAIN shown' /\ SameFigures(shown[p], shown'[p])
<1>. DEFINE V == versions
            K == Known(events, asOf)
            L == Known(events', asOf')
            t == asOf
            u == asOf'
            g == Genesis(K, t)
            h == Genesis(L, u)
            a == Account(V, t)
            b == Account(V, u)
            s == shown
            r == shown'
<1>1. IsRead(V, K, t, s) /\ IsRead(V, L, u, r)  BY DEF ReadNow
<1>2. IsFolded(V, K, a, g, t, s) /\ IsFolded(V, L, b, h, u, r)  BY <1>1, ReadIsFolded
<1>3. t <= u
  <2>1. t \in Int  BY <1>2 DEF IsFolded
  <2>2. asOf' = asOf \/ asOf' = asOf + 1
    <3>1. CASE Record \/ Void \/ UNCHANGED vars  BY <3>1 DEF Record, Void, vars
    <3>2. CASE EditRate  BY <3>2, Zenon DEF EditRate
    <3>3. CASE Advance  BY <3>3 DEF Advance
    <3>. QED  BY <3>1, <3>2, <3>3 DEF Next
  <2>. QED  BY <2>1, <2>2
<1>4. V \in SUBSET Versions /\ Chained(V) /\ Covers(V)
  BY DEF AccountInv, StatementInv, ReadInv
<1>5. \A q \in PeriodIds : BegunBy(V, CycleStart(a, g, q))
  <2>1. a \in Versions  BY <1>2 DEF IsFolded
  <2>. QED  BY <2>1, CyclesAreBegun
<1>6. \A v, w \in V : v.closeDay = w.closeDay /\ v.dueDay = w.dueDay
  BY <1>1 DEF IsRead, OneAccount
<1>7. ASSUME NEW e \in K \cup L, e \notin K \cap L
      PROVE  /\ ~(e.date < s[p].end)
             /\ ~(IsInterest(e) /\ e.cycle <= p)
             /\ p - 1 \in DOMAIN s /\ CycleVersion(V, s[p - 1], a).dueDay # None
                  => ~(e.date <= DueDate(s[p - 1].end - 1, CycleVersion(V, s[p - 1], a).dueDay))
  <2>1. e \in Changed  BY <1>7 DEF Changed, SymmetricDifference
  <2>2. ~Touches(e, p)  BY <2>1
  <2>. QED  BY <2>2 DEF Touches
<1>8. K # {} /\ s[p].end = CycleEnd(a, p) /\ p \in DOMAIN s  OBVIOUS
<1>. HIDE DEF V, K, L, t, u, g, h, a, b, s, r
<1>9. /\ t \in Int /\ u \in Int /\ g \in Int /\ h \in Int /\ p \in PeriodIds /\ g <= t
      /\ HasTerms(a) /\ a \in V /\ b \in V /\ t \in Days /\ t < MonthStart[Months] /\ g \in Days
  BY <1>2, <1>8, VersionsHaveTerms DEF IsFolded
<1>10. /\ K \in SUBSET Events /\ L \in SUBSET Events
       /\ \A e \in K \cup L : e.date \in Int
  <2>1. K \in SUBSET Events /\ L \in SUBSET Events  BY <1>1 DEF IsRead
  <2>. QED  BY <2>1, CalendarIsTyped DEF Events, Days
<1>11. \A q \in DOMAIN s : s[q].start = CycleStart(a, g, q) /\ s[q].end = Smaller(CycleEnd(a, q), t + 1)
  <2>. SUFFICES ASSUME NEW q \in DOMAIN s
                PROVE  s[q].start = CycleStart(a, g, q) /\ s[q].end = Smaller(CycleEnd(a, q), t + 1)
    OBVIOUS
  <2>1. s[q] = Statement(V, K, a, q, CycleOf(a, g, t, q), CarriedInto(s, q))  BY <1>2 DEF IsFolded
  <2>. QED  BY <2>1 DEF Statement, CycleOf
<1>12. /\ CycleEnd(a, p) > g /\ CycleEnd(a, p) <= t + 1 /\ CycleEnd(a, p) \in Int
       /\ CycleStart(a, g, p) <= t /\ CycleStart(a, g, p) \in Int
  <2>1. CycleEnd(a, p) \in Int /\ CycleStart(a, g, p) \in Int  BY <1>9, BoundaryIsInMonth, StartIsBounded
  <2>2. CycleEnd(a, p) = Smaller(CycleEnd(a, p), t + 1)  BY <1>8, <1>11
  <2>3. CycleEnd(a, p) > g /\ CycleStart(a, g, p) <= t  BY <1>2, <1>8 DEF IsFolded
  <2>. QED  BY <1>9, <2>1, <2>2, <2>3 DEF Smaller
<1>13. g = h
  <2>1. PICK e \in K : e.date = g  BY <1>8, <1>10, GenesisIsFirst DEF g
  <2>2. \A f \in K : g <= f.date  BY <1>8, <1>10, GenesisIsFirst DEF g
  <2>3. e \in L  BY <1>7, <1>8, <1>9, <1>12, <2>1
  <2>4. PICK f \in L : f.date = h  BY <1>10, <2>3, GenesisIsFirst DEF h
  <2>5. h <= g  BY <1>10, <2>1, <2>3, GenesisIsFirst DEF h
  <2>6. f \in K \/ g < f.date
    <3>1. f \in K \cap L \/ ~(f.date < s[p].end)  BY <1>7, <2>4
    <3>2. f.date \in Int  BY <1>10, <2>4
    <3>. QED  BY <1>8, <1>9, <1>12, <3>1, <3>2
  <2>. QED  BY <1>9, <2>2, <2>4, <2>5, <2>6
<1>14. ASSUME NEW q \in PeriodIds, q <= p
       PROVE  /\ CycleEnd(a, q) \in Int /\ CycleEnd(a, q) <= CycleEnd(a, p)
              /\ CycleStart(a, g, q) \in Int /\ CycleStart(a, g, q) <= CycleStart(a, g, p)
              /\ q # p => CycleEnd(a, q) < CycleEnd(a, p)
  <2>1. CycleEnd(a, q) \in Int /\ CycleStart(a, g, q) \in Int  BY <1>9, BoundaryIsInMonth, StartIsBounded
  <2>2. q \in Int /\ p \in Int  BY <1>9, CalendarIsTyped DEF PeriodIds
  <2>3. CASE q = p  BY <1>12, <2>1, <2>3
  <2>4. CASE q < p
    <3>1. CycleEnd(a, q) < CycleEnd(a, p) /\ CycleStart(a, g, q) <= CycleStart(a, g, p)
      BY <1>9, <2>4, BoundariesAscend
    <3>. QED  BY <1>12, <2>1, <3>1
  <2>. QED  BY <1>14, <2>2, <2>3, <2>4
<1>15. a.closeDay = b.closeDay  BY <1>6, <1>9
<1>16. \A q \in PeriodIds : q <= p => (q \in DOMAIN s <=> q \in DOMAIN r)
  <2>. SUFFICES ASSUME NEW q \in PeriodIds, q <= p PROVE q \in DOMAIN s <=> q \in DOMAIN r
    OBVIOUS
  <2>1. q \in DOMAIN s <=> CycleEnd(a, q) > g /\ CycleStart(a, g, q) <= t  BY <1>2 DEF IsFolded
  <2>2. q \in DOMAIN r <=> CycleEnd(b, q) > g /\ CycleStart(b, g, q) <= u  BY <1>2, <1>13 DEF IsFolded
  <2>3. CycleEnd(a, q) = CycleEnd(b, q) /\ CycleStart(a, g, q) = CycleStart(b, g, q)
    BY <1>15, ShapeIsShared
  <2>4. CycleStart(a, g, q) <= t /\ CycleStart(a, g, q) <= u  BY <1>3, <1>9, <1>12, <1>14
  <2>. QED  BY <2>1, <2>2, <2>3, <2>4
<1>17. ASSUME NEW q \in DOMAIN s, q <= p
       PROVE  Alike(V, K, t, s, V, L, u, r, q)
  <2>. DEFINE c == CycleOf(a, g, t, q)
  <2>1. q \in PeriodIds  BY <1>2 DEF IsFolded
  <2>2. c.start = CycleStart(a, g, q) /\ c.end = Smaller(CycleEnd(a, q), t + 1)  BY DEF CycleOf
  <2>3. CycleEnd(a, q) <= t + 1 /\ CycleEnd(a, q) <= u + 1 /\ CycleEnd(a, q) \in Int
    BY <1>3, <1>9, <1>12, <1>14, <1>17, <2>1
  <2>4. c = CycleOf(b, h, u, q)
    <3>1. Smaller(CycleEnd(a, q), t + 1) = Smaller(CycleEnd(a, q), u + 1)
      BY <1>9, <2>3 DEF Smaller
    <3>2. CycleEnd(a, q) = CycleEnd(b, q) /\ CycleStart(a, g, q) = CycleStart(b, g, q)
      BY <1>15, ShapeIsShared
    <3>. QED  BY <1>13, <3>1, <3>2 DEF CycleOf
  <2>5. c.end <= s[p].end /\ c.end \in Int  BY <1>8, <1>9, <1>14, <1>17, <2>1, <2>2, <2>3 DEF Smaller
  <2>6. BegunBy(V, c.start) /\ c.start \in Int  BY <1>5, <1>14, <1>17, <2>1, <2>2
  <2>. HIDE DEF c
  <2>7. SameTerms(CycleVersion(V, c, a), CycleVersion(V, c, b))
    BY <1>4, <2>6, BegunVersionsGovern DEF SameTerms
  <2>8. SameFacts(K, L, q, c.end)
    <3>1. s[p].end \in Int  BY <1>8, <1>12
    <3>2. \A e \in K \cup L : e.date < c.end => e \in K \cap L  BY <1>7, <1>10, <2>5, <3>1
    <3>3. p \in Int /\ q \in Int  BY <1>9, <2>1, CalendarIsTyped DEF PeriodIds
    <3>4. \A e \in K \cup L : IsInterest(e) /\ e.cycle = q => e \in K \cap L  BY <1>7, <1>17
    <3>5. {e \in K : e.date < c.end} = {e \in L : e.date < c.end}  BY <3>2
    <3>6. Pins(K, q) = Pins(L, q)  BY <3>4 DEF Pins
    <3>. QED  BY <3>5, <3>6 DEF SameFacts
  <2>. QED  BY <2>4, <2>7, <2>8 DEF Alike, AlikeAt, a, b, c, g, h
<1>18. ASSUME NEW q \in DOMAIN s, q < p
       PROVE  PaidAlike(V, K, t, L, q)
  <2>. DEFINE c == CycleOf(a, g, t, q)
              v == CycleVersion(V, c, a)
              w == CycleVersion(V, s[p - 1], a)
  <2>. SUFFICES ASSUME v.dueDay # None PROVE Credits(v, K, c.end) = Credits(v, L, c.end)
    BY DEF PaidAlike, PaidAlikeAt, a, g
  <2>1. q \in PeriodIds /\ q \in Int /\ p \in Int /\ q <= p
    BY <1>2, <1>9, <1>18, CalendarIsTyped DEF IsFolded, PeriodIds
  <2>2. p - 1 \in PeriodIds /\ q <= p - 1 /\ p - 1 <= p /\ p - 1 # p
    BY <1>9, <1>18, <2>1, CalendarIsTyped DEF PeriodIds
  <2>3. /\ CycleEnd(a, q) \in Int /\ CycleEnd(a, p - 1) \in Int
        /\ CycleEnd(a, p - 1) < CycleEnd(a, p)
        /\ CycleStart(a, g, p - 1) \in Int /\ CycleStart(a, g, p - 1) <= CycleStart(a, g, p)
    BY <1>14, <2>1, <2>2
  <2>4. CycleEnd(a, q) <= CycleEnd(a, p - 1)
    <3>1. CASE q = p - 1  BY <2>3, <3>1
    <3>2. CASE q < p - 1  BY <1>9, <2>1, <2>2, <2>3, <3>2, BoundariesAscend
    <3>. QED  BY <2>1, <2>2, <3>1, <3>2
  <2>5. CycleEnd(a, q) > g  BY <1>2 DEF IsFolded
  <2>6. p - 1 \in DOMAIN s
    <3>1. CycleEnd(a, p - 1) > g  BY <1>9, <2>3, <2>4, <2>5
    <3>2. CycleStart(a, g, p - 1) <= t  BY <1>9, <1>12, <2>3
    <3>. QED  BY <1>2, <2>2, <3>1, <3>2 DEF IsFolded
  <2>7. /\ c.end = CycleEnd(a, q) /\ c.start = CycleStart(a, g, q)
        /\ s[p - 1].end = CycleEnd(a, p - 1) /\ s[p - 1].start = CycleStart(a, g, p - 1)
    BY <1>9, <1>11, <1>12, <2>3, <2>4, <2>6 DEF CycleOf, Smaller
  <2>8. v \in V /\ w \in V
    <3>1. BegunBy(V, c.start) /\ c.start \in Int  BY <1>5, <1>14, <2>1, <2>7
    <3>2. BegunBy(V, s[p - 1].start) /\ s[p - 1].start \in Int  BY <1>5, <2>2, <2>3, <2>7
    <3>. HIDE DEF c
    <3>. QED  BY <1>4, <3>1, <3>2, BegunVersionsGovern
  <2>. HIDE DEF c, v, w
  <2>9. v.dueDay = w.dueDay  BY <1>6, <2>8
  <2>10. v.dueDay \in 1 .. 31  BY <1>4, <2>8 DEF Versions
  <2>. DEFINE i == CycleEnd(a, q) - 1
              j == CycleEnd(a, p - 1) - 1
  <2>11. i \in Days /\ j \in Days /\ i <= j /\ j < MonthStart[Months]
    <3>1. i <= j /\ i \in Int /\ j \in Int  BY <2>3, <2>4
    <3>2. g <= i /\ j < t  BY <1>9, <1>12, <2>3, <2>5
    <3>3. MonthStart[1] \in Int /\ MonthStart[Months] \in Int /\ MonthStart[Months + 1] \in Int
      BY CalendarIsTyped
    <3>4. MonthStart[1] <= g  BY <1>9, <3>3 DEF Days
    <3>5. t <= MonthStart[Months + 1] - 1  BY <1>9, <3>3 DEF Days
    <3>. QED  BY <1>9, <3>1, <3>2, <3>3, <3>4, <3>5 DEF Days
  <2>. HIDE DEF i, j
  <2>12. /\ DueDate(i, v.dueDay) \in Int /\ DueDate(j, v.dueDay) \in Int
         /\ DueDate(i, v.dueDay) <= DueDate(j, v.dueDay)
    BY <2>10, <2>11, DueDatesAscend
  <2>13. \A e \in K \cup L : e.date <= DueDate(i, v.dueDay) => e \in K \cap L
    <3>. SUFFICES ASSUME NEW e \in K \cup L, e \notin K \cap L, e.date <= DueDate(i, v.dueDay)
                  PROVE  FALSE
      OBVIOUS
    <3>1. ~(e.date <= DueDate(s[p - 1].end - 1, w.dueDay))  BY <1>7, <2>6, <2>9 DEF w
    <3>2. ~(e.date <= DueDate(j, v.dueDay))  BY <2>7, <2>9, <3>1 DEF j
    <3>. QED  BY <1>10, <2>12, <3>2
  <2>14. c.end - 1 = i  BY <2>7 DEF i
  <2>. QED  BY <2>13, <2>14 DEF Credits
<1>19. p \in DOMAIN r /\ SameFigures(s[p], r[p])
  BY <1>1, <1>8, <1>16, <1>17, <1>18, ReadsAgree
<1>. QED  BY <1>19 DEF s, r

\* A closed statement does not change by later facts or later reads.
THEOREM ClosedStatementsHold == AccountsBeginFirst => (Spec => ClosedStatementsStand)
<1>. SUFFICES ASSUME AccountsBeginFirst PROVE Spec => ClosedStatementsStand
  OBVIOUS
<1>. DEFINE A == versions' = versions =>
                   \A p \in DOMAIN shown :
                      /\ Known(events, asOf) # {}
                      /\ shown[p].end = CycleEnd(Account(versions, asOf), p)
                      /\ \A e \in Changed : ~Touches(e, p)
                      => /\ p \in DOMAIN shown'
                         /\ \A field \in {"start", "end", "close", "interest", "graced"} :
                               shown'[p][field] = shown[p][field]
<1>1. AccountInv /\ ReadNow /\ ReadNow' /\ [Next]_vars => [A]_vars
  <2>. SUFFICES ASSUME AccountInv, ReadNow, ReadNow', [Next]_vars, versions' = versions,
                       NEW p \in DOMAIN shown, Known(events, asOf) # {},
                       shown[p].end = CycleEnd(Account(versions, asOf), p),
                       \A e \in Changed : ~Touches(e, p)
                PROVE  /\ p \in DOMAIN shown'
                       /\ \A field \in {"start", "end", "close", "interest", "graced"} :
                             shown'[p][field] = shown[p][field]
    OBVIOUS
  <2>1. p \in DOMAIN shown' /\ SameFigures(shown[p], shown'[p])  BY ClosedStatementsStay
  <2>. QED  BY <2>1 DEF SameFigures
<1>2. ClosedStatementsStand <=> [][A]_vars  BY DEF ClosedStatementsStand
<1>3. AccountInv => ReadNow  BY ShownIsRead DEF AccountInv
<1>. HIDE DEF A
<1>. QED  BY <1>1, <1>2, <1>3, AccountInvHolds, PTL DEF Spec

-----------------------------------------------------------------------------
(* Payments.                                                               *)

LEMMA QuotientsAscend ==
    ASSUME NEW x \in Int, NEW y \in Int, x <= y
    PROVE  x \div Basis \in Int /\ y \div Basis \in Int /\ x \div Basis <= y \div Basis
<1>. DEFINE i == x \div Basis
            j == y \div Basis
<1>1. Basis \in Nat \ {0}  BY BasisIsPositive
<1>2. i \in Int /\ Basis * i <= x /\ x < Basis * (i + 1)  BY <1>1
<1>3. j \in Int /\ Basis * j <= y /\ y < Basis * (j + 1)  BY <1>1
<1>. HIDE DEF i, j
<1>4. ASSUME j < i PROVE FALSE
  <2>1. j + 1 <= i  BY <1>2, <1>3, <1>4
  <2>2. Basis * (j + 1) <= Basis * i  BY <1>1, <1>2, <1>3, <2>1
  <2>3. Basis * (j + 1) \in Int /\ Basis * i \in Int  BY <1>1, <1>2, <1>3
  <2>. QED  BY <1>2, <1>3, <2>2, <2>3
<1>5. i <= j  BY <1>2, <1>3, <1>4
<1>. QED  BY <1>2, <1>3, <1>5 DEF i, j

\* The less is owed, the less interest.
LEMMA InterestAscends ==
    ASSUME NEW x \in Nat, NEW y \in Nat, x <= y, NEW apr \in Nat, NEW days \in Nat
    PROVE  /\ InterestForCycle(x, apr, days) \in Int /\ InterestForCycle(y, apr, days) \in Int
           /\ 0 <= InterestForCycle(x, apr, days)
           /\ InterestForCycle(x, apr, days) <= InterestForCycle(y, apr, days)
<1>. DEFINE m == x * apr * days
            n == y * apr * days
<1>1. x * apr \in Nat /\ y * apr \in Nat /\ x * apr <= y * apr  OBVIOUS
<1>2. m \in Nat /\ n \in Nat /\ m <= n
  <2>. DEFINE k == x * apr
              l == y * apr
  <2>1. k \in Nat /\ l \in Nat /\ k <= l  BY <1>1
  <2>. HIDE DEF k, l
  <2>2. k * days \in Nat /\ l * days \in Nat /\ k * days <= l * days  BY <2>1
  <2>. QED  BY <2>2 DEF k, l
<1>. HIDE DEF m, n
<1>3. m \div Basis \in Int /\ n \div Basis \in Int /\ m \div Basis <= n \div Basis
  BY <1>2, QuotientsAscend
<1>4. 0 \div Basis <= m \div Basis  BY <1>2, QuotientsAscend
<1>5. 0 \div Basis = 0  BY BasisIsPositive
<1>. QED  BY <1>3, <1>4, <1>5 DEF InterestForCycle, m, n

LEMMA MovedGrows ==
    ASSUME NEW L \in SUBSET Events, IsFiniteSet(L), NEW K \in SUBSET L,
           \A e \in L \ K : Delta(e) >= 0
    PROVE  Moved(K) \in Int /\ Moved(L) \in Int /\ Moved(K) <= Moved(L)
<1>. DEFINE N == L \ K
            f == [e \in N |-> Delta(e)]
<1>1. IsFiniteSet(K) /\ IsFiniteSet(N)  BY FS_Subset
<1>2. Moved(L) = Moved(K) + Moved(N)  BY MovedSplits
<1>3. Moved(K) \in Int /\ Moved(N) \in Int  BY <1>1, MovedIsInt, EventsAreEntries
<1>4. \A e \in N : f[e] \in Nat
  <2>1. \A e \in N : Delta(e) \in Int  BY DeltaIsInt, EventsAreEntries
  <2>. QED  BY <2>1
<1>5. Moved(N) = SumFunctionOnSet(f, N)  BY <1>1, MovedIsSum
<1>. HIDE DEF N, f
<1>6. SumFunctionOnSet(f, N) \in Nat  BY <1>1, <1>4, SumIsNatural
<1>. QED  BY <1>2, <1>3, <1>5, <1>6

\* A card with a due day; what is paid into it.
IsCard(V) == \A v \in V : v.kind = "CREDIT_CARD" /\ v.dueDay # None
ArePayments(N) == \A e \in N : e.type = "movement" /\ e.amount > 0

LEMMA PaymentsMove ==
    ASSUME NEW e \in Events, e.type = "movement"
    PROVE  Delta(e) = e.amount
  BY DEF Delta

\* What a statement x on a card consists of; a governs its cycle.
CardFigures(x, a, account, K, p, c, before) ==
    /\ IsLiability(a) /\ IsLiability(account)
    /\ x.close = Moved({e \in K : e.date < c.end}) + before.estimated
    /\ x.isEstimate = (Pins(K, p) = {})
    /\ x.interest = IF Pins(K, p) # {} THEN LastPin(K, p).amount
                    ELSE IF before.paid /\ IsLiability(a) THEN 0
                    ELSE InterestForCycle(AccrualBase(a, x.close), a.apr, c.end - c.start)
    /\ x.estimated = IF Pins(K, p) # {} THEN before.estimated
                     ELSE before.estimated + (-x.interest)
    /\ x.paid = (Moved(Credits(account, K, c.end)) >= AccrualBase(a, x.close))

LEMMA CardStatement ==
    ASSUME NEW V, OneAccount(V), IsCard(V), NEW K, NEW account \in V, NEW p, NEW c, NEW before
    PROVE  /\ CycleVersion(V, c, account) \in V
           /\ CardFigures(Statement(V, K, account, p, c, before), CycleVersion(V, c, account),
                          account, K, p, c, before)
<1>. DEFINE x == Statement(V, K, account, p, c, before)
            a == CycleVersion(V, c, account)
<1>1. V \in SUBSET Versions  BY DEF OneAccount
<1>2. a \in V  BY <1>1, VersionsAreDated, VersionIsKnown DEF CycleVersion
<1>3. /\ x.close = Moved({e \in K : e.date < c.end}) + before.estimated
      /\ x.isEstimate = (Pins(K, p) = {})
      /\ x.interest = Interest(a, K, p, before.paid /\ IsLiability(a), x.close, c.end - c.start)
      /\ x.estimated = Carry(a, before.estimated, x.isEstimate, x.interest)
      /\ x.paid = PaidInFull(a, K, x.close, c.end)
  BY DEF Statement
<1>. HIDE DEF x, a
<1>4. IsLiability(a) /\ a.dueDay # None /\ IsLiability(account)  BY <1>2 DEF IsCard, IsLiability
<1>5. x.interest = IF Pins(K, p) # {} THEN LastPin(K, p).amount
                   ELSE IF before.paid /\ IsLiability(a) THEN 0
                   ELSE InterestForCycle(AccrualBase(a, x.close), a.apr, c.end - c.start)
  BY <1>3 DEF Interest
<1>6. x.estimated = IF Pins(K, p) # {} THEN before.estimated
                    ELSE before.estimated + (-x.interest)
  <2>1. x.isEstimate <=> Pins(K, p) = {}  BY <1>3
  <2>2. x.estimated = IF ~x.isEstimate THEN before.estimated
                      ELSE before.estimated + (IF IsLiability(a) THEN -x.interest ELSE x.interest)
    BY <1>3, Zenon DEF Carry
  <2>. QED  BY <1>4, <2>1, <2>2
<1>7. x.paid = (Moved(Credits(a, K, c.end)) >= AccrualBase(a, x.close))
  <2>1. PaidInFull(a, K, x.close, c.end)
            = (IsLiability(a) /\ a.dueDay # None
                 /\ Moved(Credits(a, K, c.end)) >= AccrualBase(a, x.close))
    BY DEF PaidInFull, Credits
  <2>. QED  BY <1>3, <1>4, <2>1
<1>8. Credits(a, K, c.end) = Credits(account, K, c.end)
  <2>1. a.dueDay = account.dueDay  BY <1>2 DEF OneAccount
  <2>. QED  BY <2>1 DEF Credits
<1>. QED  BY <1>2, <1>3, <1>4, <1>5, <1>6, <1>7, <1>8, Zenon DEF CardFigures, x, a

\* What is carried into the next statement after one more payment.
Eased(x, y) ==
    /\ x.estimated \in Int /\ y.estimated \in Int /\ x.estimated <= y.estimated
    /\ x.paid => y.paid

StatementEases(x, y) == Eased(x, y) /\ (y.isEstimate => y.interest <= x.interest)

\* A statement on a card when payments are added and what is carried into it eases.
\* (A graced cycle may begin earlier: an earlier payment moves the genesis.)
LEMMA StatementsEase ==
    ASSUME NEW V, OneAccount(V), IsCard(V),
           NEW L \in SUBSET Events, IsFiniteSet(L), NEW K \in SUBSET L, ArePayments(L \ K),
           NEW account \in V, NEW p, NEW c, NEW d,
           c.start \in Int, c.end \in Int, c.start <= c.end, d.end = c.end,
           NEW before, NEW last, Eased(before, last),
           d.start = c.start \/ before.paid
    PROVE  StatementEases(Statement(V, K, account, p, c, before), Statement(V, L, account, p, d, last))
<1>. DEFINE x == Statement(V, K, account, p, c, before)
            y == Statement(V, L, account, p, d, last)
            a == CycleVersion(V, c, account)
            b == CycleVersion(V, d, account)
            kp == {e \in K : e.date < c.end}
            lp == {e \in L : e.date < c.end}
            kc == Credits(account, K, c.end)
            lc == Credits(account, L, c.end)
            days == c.end - c.start
<1>1. a \in V /\ CardFigures(x, a, account, K, p, c, before)  BY CardStatement
<1>2. b \in V /\ CardFigures(y, b, account, L, p, d, last)  BY CardStatement
<1>3. {e \in L : e.date < d.end} = lp /\ Credits(account, L, d.end) = lc  OBVIOUS
<1>4. d.start = c.start => a = b /\ d.end - d.start = days  BY DEF CycleVersion
<1>5. a.apr \in Nat /\ days \in Nat
  <2>1. a \in Versions  BY <1>1 DEF OneAccount
  <2>. QED  BY <2>1 DEF Versions
<1>6. Pins(K, p) = Pins(L, p) /\ LastPin(K, p) = LastPin(L, p)
  <2>1. Pins(K, p) = Pins(L, p)  BY DEF Pins, IsInterest, ArePayments
  <2>. QED  BY <2>1 DEF LastPin
<1>7. Pins(K, p) # {} => LastPin(K, p).amount \in Int
  <2>1. \A e \in K : IsEntry(e)  BY EventsAreEntries
  <2>. QED  BY <2>1, PinIsRecorded
<1>8. \A e \in L \ K : Delta(e) > 0  BY PaymentsMove DEF ArePayments
<1>9. /\ lp \in SUBSET Events /\ IsFiniteSet(lp) /\ kp \in SUBSET lp
      /\ \A e \in lp \ kp : Delta(e) >= 0
      /\ lc \in SUBSET Events /\ IsFiniteSet(lc) /\ kc \in SUBSET lc
      /\ \A e \in lc \ kc : Delta(e) >= 0
      /\ IsFiniteSet(kp) /\ IsFiniteSet(kc)
  <2>1. lp \in SUBSET Events /\ kp \in SUBSET lp /\ lp \in SUBSET L /\ lp \ kp \subseteq L \ K
    OBVIOUS
  <2>2. lc \in SUBSET Events /\ kc \in SUBSET lc /\ lc \in SUBSET L /\ lc \ kc \subseteq L \ K
    BY DEF Credits
  <2>3. \A e \in L : Delta(e) \in Int  BY DeltaIsInt, EventsAreEntries
  <2>. HIDE DEF lp, kp, lc, kc
  <2>. QED  BY <1>8, <2>1, <2>2, <2>3, FS_Subset
<1>. HIDE DEF x, y, a, b, kp, lp, kc, lc, days
<1>. DEFINE mk == Moved(kp)
            ml == Moved(lp)
            pk == Moved(kc)
            pl == Moved(lc)
<1>11. mk \in Int /\ ml \in Int /\ mk <= ml  BY <1>9, MovedGrows
<1>12. pk \in Int /\ pl \in Int /\ pk <= pl  BY <1>9, MovedGrows
<1>13. /\ before.estimated \in Int /\ last.estimated \in Int /\ before.estimated <= last.estimated
       /\ before.paid => last.paid
  BY DEF Eased
<1>14. x.close = mk + before.estimated /\ y.close = ml + last.estimated
  <2>1. x.close = Moved(kp) + before.estimated  BY <1>1 DEF CardFigures, kp
  <2>2. y.close = Moved(lp) + last.estimated  BY <1>2, <1>3 DEF CardFigures
  <2>. QED  BY <2>1, <2>2
<1>. HIDE DEF mk, ml, pk, pl
<1>15. x.close \in Int /\ y.close \in Int /\ x.close <= y.close  BY <1>11, <1>13, <1>14
<1>. DEFINE bx == AccrualBase(a, x.close)
            by == AccrualBase(b, y.close)
<1>16. bx \in Nat /\ by \in Nat /\ by <= bx  BY <1>1, <1>2, <1>15 DEF CardFigures, AccrualBase, Larger
<1>17. x.paid => y.paid
  <2>. HIDE DEF bx, by
  <2>1. x.paid <=> pk >= bx
    <3>1. x.paid = (Moved(kc) >= AccrualBase(a, x.close))  BY <1>1 DEF CardFigures, kc
    <3>. QED  BY <3>1 DEF pk, bx
  <2>2. y.paid <=> pl >= by
    <3>1. y.paid = (Moved(lc) >= AccrualBase(b, y.close))  BY <1>2, <1>3 DEF CardFigures
    <3>. QED  BY <3>1 DEF pl, by
  <2>. QED  BY <1>12, <1>16, <2>1, <2>2
<1>. HIDE DEF bx, by
<1>18. CASE Pins(K, p) # {}
  <2>1. x.estimated = before.estimated /\ y.estimated = last.estimated
    BY <1>1, <1>2, <1>6, <1>18 DEF CardFigures
  <2>2. ~y.isEstimate  BY <1>2, <1>6, <1>18 DEF CardFigures
  <2>. QED  BY <1>13, <1>17, <2>1, <2>2 DEF StatementEases, Eased, x, y
<1>19. CASE Pins(K, p) = {}
  <2>1. x.estimated = before.estimated + (-x.interest) /\ y.estimated = last.estimated + (-y.interest)
    BY <1>1, <1>2, <1>6, <1>19 DEF CardFigures
  <2>2. /\ x.interest = IF before.paid THEN 0 ELSE InterestForCycle(bx, a.apr, days)
        /\ y.interest = IF last.paid THEN 0 ELSE InterestForCycle(by, b.apr, d.end - d.start)
    <3>1. x.interest = IF before.paid /\ IsLiability(a) THEN 0
                       ELSE InterestForCycle(AccrualBase(a, x.close), a.apr, c.end - c.start)
      BY <1>1, <1>19 DEF CardFigures
    <3>2. y.interest = IF last.paid /\ IsLiability(b) THEN 0
                       ELSE InterestForCycle(AccrualBase(b, y.close), b.apr, d.end - d.start)
      BY <1>2, <1>6, <1>19 DEF CardFigures
    <3>3. IsLiability(a) /\ IsLiability(b)  BY <1>1, <1>2 DEF CardFigures
    <3>. QED  BY <3>1, <3>2, <3>3 DEF bx, by, days
  <2>3. x.interest \in Int /\ y.interest \in Int /\ y.interest <= x.interest
    <3>1. /\ InterestForCycle(bx, a.apr, days) \in Int /\ InterestForCycle(by, a.apr, days) \in Int
          /\ 0 <= InterestForCycle(by, a.apr, days)
          /\ InterestForCycle(by, a.apr, days) <= InterestForCycle(bx, a.apr, days)
      BY <1>5, <1>16, InterestAscends
    <3>2. CASE before.paid  BY <1>13, <2>2, <3>2
    <3>3. CASE ~before.paid
      <4>1. a = b /\ d.end - d.start = days  BY <1>4, <3>3
      <4>2. y.interest = IF last.paid THEN 0 ELSE InterestForCycle(by, a.apr, days)  BY <2>2, <4>1
      <4>3. x.interest = InterestForCycle(bx, a.apr, days)  BY <2>2, <3>3
      <4>. QED  BY <3>1, <4>2, <4>3
    <3>. QED  BY <3>2, <3>3
  <2>4. x.estimated \in Int /\ y.estimated \in Int /\ x.estimated <= y.estimated
    BY <1>13, <2>1, <2>3
  <2>. QED  BY <1>17, <2>3, <2>4 DEF StatementEases, Eased, x, y
<1>. QED  BY <1>18, <1>19

\* A cycle of payments alone owes nothing.
LEMMA FirstPaymentsEase ==
    ASSUME NEW V, OneAccount(V), IsCard(V), NEW L \in SUBSET Events, IsFiniteSet(L),
           NEW account \in V, NEW p, NEW d,
           ArePayments({e \in L : e.date < d.end}),
           NEW last, Eased(Seed, last)
    PROVE  Eased(Seed, Statement(V, L, account, p, d, last))
<1>. DEFINE y == Statement(V, L, account, p, d, last)
            b == CycleVersion(V, d, account)
            past == {e \in L : e.date < d.end}
            credits == Credits(account, L, d.end)
<1>1. b \in V /\ CardFigures(y, b, account, L, p, d, last)  BY CardStatement
<1>2. last.estimated \in Int /\ last.estimated >= 0 /\ last.paid  BY DEF Eased, Seed
<1>3. /\ past \in SUBSET Events /\ IsFiniteSet(past)
      /\ \A e \in past \ {} : Delta(e) >= 0
  <2>1. \A e \in past : Delta(e) > 0 /\ Delta(e) \in Int
    BY PaymentsMove, DeltaIsInt, EventsAreEntries DEF ArePayments
  <2>. QED  BY <2>1, FS_Subset
<1>4. /\ credits \in SUBSET Events /\ IsFiniteSet(credits)
      /\ \A e \in credits \ {} : Delta(e) >= 0
  <2>1. \A e \in L : Delta(e) \in Int  BY DeltaIsInt, EventsAreEntries
  <2>. QED  BY <2>1, FS_Subset DEF Credits
<1>. HIDE DEF y, b, past, credits
<1>5. Moved({}) = 0
  <2>1. Moved({}) = SumFunctionOnSet([e \in {} |-> Delta(e)], {})
    BY FS_EmptySet, MovedIsSum
  <2>. QED  BY <2>1, SumOfNothing
<1>6. Moved(past) \in Int /\ Moved(past) >= 0
  <2>1. {} \in SUBSET past  OBVIOUS
  <2>. QED  BY <1>3, <1>5, <2>1, MovedGrows
<1>7. Moved(credits) \in Int /\ Moved(credits) >= 0
  <2>1. {} \in SUBSET credits  OBVIOUS
  <2>. QED  BY <1>4, <1>5, <2>1, MovedGrows
<1>9. y.close \in Int /\ y.close >= 0
  <2>. DEFINE m == Moved(past)
  <2>1. m \in Int /\ m >= 0  BY <1>6
  <2>2. y.close = m + last.estimated  BY <1>1 DEF CardFigures, past
  <2>. HIDE DEF m
  <2>. QED  BY <1>2, <2>1, <2>2
<1>10. AccrualBase(b, y.close) = 0  BY <1>1, <1>9 DEF CardFigures, AccrualBase, Larger
<1>11. y.paid
  <2>1. y.paid = (Moved(credits) >= AccrualBase(b, y.close))  BY <1>1 DEF CardFigures, credits
  <2>. QED  BY <1>7, <1>10, <2>1
<1>12. y.estimated = last.estimated
  <2>1. CASE Pins(L, p) # {}  BY <1>1, <2>1 DEF CardFigures
  <2>2. CASE Pins(L, p) = {}
    <3>1. y.interest = 0  BY <1>1, <1>2, <2>2 DEF CardFigures
    <3>2. y.estimated = last.estimated + (-y.interest)  BY <1>1, <2>2 DEF CardFigures
    <3>. QED  BY <1>2, <3>1, <3>2
  <2>. QED  BY <2>1, <2>2
<1>. QED  BY <1>2, <1>11, <1>12 DEF Eased, Seed, y

\* Payments that become known move the genesis back, if anything.
LEMMA PaymentsReachBack ==
    ASSUME NEW t \in MonthStart[1] .. MonthStart[Months] - 1,
           NEW L \in SUBSET Events, \A e \in L : e.date <= t, NEW K \in SUBSET L
    PROVE  /\ Genesis(L, t) <= Genesis(K, t)
           /\ \A e \in K : Genesis(K, t) <= e.date
<1>1. /\ Genesis(L, t) \in Days /\ Genesis(L, t) <= t
      /\ Genesis(K, t) \in Days /\ Genesis(K, t) <= t
  BY GenesisIsRead
<1>2. CASE K = {}  BY <1>1, <1>2 DEF Genesis
<1>3. CASE K # {}
  <2>1. PICK e \in K : e.date = Genesis(K, t)  BY <1>3, GenesisIsFirst
  <2>2. Genesis(L, t) <= e.date  BY GenesisIsFirst
  <2>. QED  BY <1>3, <2>1, <2>2, GenesisIsFirst
<1>. QED  BY <1>2, <1>3

\* Month q of a read before and after payments become known.
EasedAt(s, r, q) ==
    /\ q \in DOMAIN s => StatementEases(s[q], r[q])
    /\ q \notin DOMAIN s => Eased(Seed, r[q])

LEMMA ReadsEase ==
    ASSUME NEW V, NEW K, NEW L, NEW t, NEW s, NEW r, IsRead(V, K, t, s), IsRead(V, L, t, r),
           IsCard(V), K \subseteq L, ArePayments(L \ K)
    PROVE  \A p \in DOMAIN r : EasedAt(s, r, p)
<1>. DEFINE a == Account(V, t)
            g == Genesis(K, t)
            h == Genesis(L, t)
            Bad == {q \in DOMAIN r : ~EasedAt(s, r, q)}
<1>1. IsFolded(V, K, a, g, t, s) /\ IsFolded(V, L, a, h, t, r)  BY ReadIsFolded
<1>2. /\ OneAccount(V) /\ L \in SUBSET Events /\ IsFiniteSet(L) /\ K \in SUBSET L
      /\ \A e \in L : e.date <= t /\ e.date \in Int
      /\ t \in MonthStart[1] .. MonthStart[Months] - 1
  BY CalendarIsTyped DEF IsRead, Events, Days
<1>3. h <= g /\ \A e \in K : g <= e.date  BY <1>2, PaymentsReachBack
<1>. HIDE DEF a, g, h
<1>4. a \in V /\ HasTerms(a) /\ t \in Int /\ g \in Int /\ h \in Int /\ g <= t
  BY <1>1, VersionsHaveTerms DEF IsFolded
<1>5. /\ DOMAIN r \subseteq PeriodIds /\ PeriodIds \subseteq Nat
      /\ \A q \in PeriodIds : q \in DOMAIN s <=> CycleEnd(a, q) > g /\ CycleStart(a, g, q) <= t
      /\ \A q \in PeriodIds : q \in DOMAIN r <=> CycleEnd(a, q) > h /\ CycleStart(a, h, q) <= t
      /\ DOMAIN s \subseteq PeriodIds
  BY <1>1, CalendarIsTyped DEF IsFolded, PeriodIds
<1>6. ASSUME NEW q \in PeriodIds
      PROVE  /\ CycleEnd(a, q) \in Int /\ CycleStart(a, g, q) \in Int /\ CycleStart(a, h, q) \in Int
             /\ CycleStart(a, h, q) <= CycleStart(a, g, q)
             /\ CycleStart(a, g, q) = g \/ CycleStart(a, g, q) <= CycleStart(a, h, q)
  <2>1. CycleEnd(a, q) \in Int /\ CycleStart(a, g, q) \in Int /\ CycleStart(a, h, q) \in Int
    BY <1>4, BoundaryIsInMonth, StartIsBounded
  <2>2. CASE q = 1  BY <1>3, <1>4, <2>1, <2>2 DEF CycleStart
  <2>3. CASE q # 1
    <3>1. q - 1 \in PeriodIds  BY <1>4, <2>3, StartIsBounded
    <3>2. CycleEnd(a, q - 1) \in Int  BY <1>4, <3>1, BoundaryIsInMonth
    <3>. QED  BY <1>3, <1>4, <2>1, <2>3, <3>2 DEF CycleStart, Larger
  <2>. QED  BY <2>2, <2>3
<1>7. \A q \in DOMAIN s : q \in DOMAIN r
  <2>. SUFFICES ASSUME NEW q \in DOMAIN s PROVE q \in DOMAIN r
    OBVIOUS
  <2>1. q \in PeriodIds /\ CycleEnd(a, q) > g /\ CycleStart(a, g, q) <= t  BY <1>5
  <2>2. /\ CycleEnd(a, q) \in Int /\ CycleStart(a, g, q) \in Int /\ CycleStart(a, h, q) \in Int
        /\ CycleStart(a, h, q) <= CycleStart(a, g, q)
    BY <1>6, <2>1
  <2>3. CycleEnd(a, q) > h /\ CycleStart(a, h, q) <= t  BY <1>3, <1>4, <2>1, <2>2
  <2>. QED  BY <1>5, <2>1, <2>3
<1>8. ASSUME NEW q \in DOMAIN r, q \notin DOMAIN s
      PROVE  CycleEnd(a, q) <= g /\ q - 1 \notin DOMAIN s
  <2>1. q \in PeriodIds /\ CycleStart(a, h, q) <= t  BY <1>5
  <2>2. CycleStart(a, g, q) <= t
    <3>1. /\ CycleStart(a, g, q) \in Int /\ CycleStart(a, h, q) \in Int
          /\ CycleStart(a, g, q) = g \/ CycleStart(a, g, q) <= CycleStart(a, h, q)
      BY <1>6, <2>1
    <3>. QED  BY <1>4, <2>1, <3>1
  <2>3. CycleEnd(a, q) <= g
    <3>1. ~(CycleEnd(a, q) > g)  BY <1>5, <1>8, <2>1, <2>2
    <3>2. CycleEnd(a, q) \in Int  BY <1>6, <2>1
    <3>. QED  BY <1>4, <3>1, <3>2
  <2>4. ASSUME q - 1 \in DOMAIN s PROVE FALSE
    <3>1. q - 1 \in PeriodIds /\ CycleEnd(a, q - 1) > g  BY <1>5, <2>4
    <3>2. CycleEnd(a, q - 1) < CycleEnd(a, q)
      <4>1. q - 1 < q
        <5>1. q \in Nat  BY <1>5, <2>1
        <5>. QED  BY <5>1
      <4>. QED  BY <1>4, <2>1, <3>1, <4>1, BoundariesAscend
    <3>3. CycleEnd(a, q - 1) \in Int /\ CycleEnd(a, q) \in Int  BY <1>6, <2>1, <3>1
    <3>. QED  BY <1>4, <2>3, <3>1, <3>2, <3>3
  <2>. QED  BY <2>3, <2>4
<1>9. /\ \A q \in DOMAIN s : s[q] = Statement(V, K, a, q, CycleOf(a, g, t, q), CarriedInto(s, q))
      /\ \A q \in DOMAIN r : r[q] = Statement(V, L, a, q, CycleOf(a, h, t, q), CarriedInto(r, q))
  BY <1>1 DEF IsFolded
<1>10. ASSUME NEW q \in DOMAIN r, q - 1 \in DOMAIN r => EasedAt(s, r, q - 1)
       PROVE  EasedAt(s, r, q)
  <2>. DEFINE c == CycleOf(a, g, t, q)
              d == CycleOf(a, h, t, q)
              x == CarriedInto(s, q)
              y == CarriedInto(r, q)
  <2>1. q \in PeriodIds /\ q \in Nat  BY <1>5
  <2>2. /\ c.start = CycleStart(a, g, q) /\ c.end = Smaller(CycleEnd(a, q), t + 1)
        /\ d.start = CycleStart(a, h, q) /\ d.end = c.end
    BY DEF CycleOf
  <2>3. Eased(x, y)
    <3>1. CASE q - 1 \in DOMAIN s  BY <1>7, <1>10, <3>1 DEF EasedAt, StatementEases, CarriedInto
    <3>2. CASE q - 1 \notin DOMAIN s
      <4>1. x = Seed  BY <3>2 DEF CarriedInto
      <4>2. CASE q - 1 \in DOMAIN r  BY <1>10, <3>2, <4>1, <4>2 DEF EasedAt, CarriedInto
      <4>3. CASE q - 1 \notin DOMAIN r  BY <4>1, <4>3 DEF CarriedInto, Eased, Seed
      <4>. QED  BY <4>2, <4>3
    <3>. QED  BY <3>1, <3>2
  <2>4. r[q] = Statement(V, L, a, q, d, y)  BY <1>9
  <2>5. CASE q \in DOMAIN s
    <3>1. s[q] = Statement(V, K, a, q, c, x)  BY <1>9, <2>5
    <3>2. c.start \in Int /\ c.end \in Int /\ c.start <= c.end
      <4>1. CycleStart(a, g, q) <= t /\ CycleEnd(a, q) > g  BY <1>5, <2>1, <2>5
      <4>2. CycleStart(a, g, q) < CycleEnd(a, q)
        <5>1. CASE CycleStart(a, g, q) = g  BY <1>4, <1>6, <2>1, <4>1, <5>1
        <5>2. CASE q # 1 /\ CycleStart(a, g, q) = CycleEnd(a, q - 1)
          <6>1. q - 1 \in PeriodIds /\ CycleEnd(a, q - 1) <= Start(q)
            BY <1>4, <2>1, <5>2, StartIsBounded
          <6>2. Start(q) < CycleEnd(a, q) /\ Start(q) \in Int
            BY <1>4, <2>1, BoundaryIsInMonth, CalendarIsTyped DEF PeriodIds, Start
          <6>. QED  BY <1>6, <2>1, <5>2, <6>1, <6>2
        <5>. QED  BY <1>4, <2>1, <5>1, <5>2, StartIsBounded
      <4>. QED  BY <1>4, <1>6, <2>1, <2>2, <4>1, <4>2 DEF Smaller
    <3>3. d.start = c.start \/ x.paid
      <4>1. CASE q - 1 \in DOMAIN s
        <5>1. q - 1 \in PeriodIds /\ CycleEnd(a, q - 1) > g /\ CycleEnd(a, q - 1) \in Int
          BY <1>5, <1>6, <4>1
        <5>3. q # 1  BY <5>1, CalendarIsTyped DEF PeriodIds
        <5>2. CycleStart(a, g, q) = CycleEnd(a, q - 1) /\ CycleStart(a, h, q) = CycleEnd(a, q - 1)
          BY <1>3, <1>4, <5>1, <5>3 DEF CycleStart, Larger
        <5>. QED  BY <2>2, <5>2
      <4>2. CASE q - 1 \notin DOMAIN s  BY <4>2 DEF CarriedInto, Seed
      <4>. QED  BY <4>1, <4>2
    <3>. HIDE DEF c, d, x, y
    <3>4. StatementEases(s[q], r[q])
      BY <1>2, <1>4, <2>2, <2>3, <2>4, <3>1, <3>2, <3>3, StatementsEase
    <3>. QED  BY <2>5, <3>4 DEF EasedAt
  <2>6. CASE q \notin DOMAIN s
    <3>1. CycleEnd(a, q) <= g /\ q - 1 \notin DOMAIN s  BY <1>8, <2>6
    <3>2. d.end <= g /\ d.end \in Int  BY <1>4, <1>6, <2>1, <2>2, <3>1 DEF Smaller
    <3>3. {e \in L : e.date < d.end} \subseteq L \ K  BY <1>2, <1>3, <1>4, <3>2
    <3>4. ArePayments({e \in L : e.date < d.end})  BY <3>3 DEF ArePayments
    <3>5. x = Seed  BY <3>1 DEF CarriedInto
    <3>. HIDE DEF c, d, x, y
    <3>6. Eased(Seed, r[q])  BY <1>2, <1>4, <2>3, <2>4, <3>4, <3>5, FirstPaymentsEase
    <3>. QED  BY <2>6, <3>6 DEF EasedAt
  <2>. QED  BY <2>5, <2>6
<1>11. Bad = {}
  <2>. SUFFICES ASSUME Bad # {} PROVE FALSE
    OBVIOUS
  <2>1. PICK q \in Bad : \A x \in Bad : q <= x
    <3>1. Bad \in SUBSET Nat  BY <1>5
    <3>. HIDE DEF Bad
    <3>. QED  BY <3>1, LeastNatural
  <2>2. q \in DOMAIN r /\ q \in Nat /\ ~EasedAt(s, r, q)  BY <1>5
  <2>3. q - 1 \notin Bad
    <3>1. q - 1 \in Bad => q <= q - 1  BY <2>1
    <3>. HIDE DEF Bad
    <3>. QED  BY <2>2, <3>1
  <2>. QED  BY <1>10, <2>2, <2>3
<1>. QED  BY <1>11

LEMMA OnlyRecordAdds ==
    ASSUME [Next]_vars, NEW e \in events' \ events
    PROVE  events' = events \cup {e} /\ versions' = versions /\ asOf' = asOf
<1>1. Record
  <2>1. ~Void  BY DEF Void
  <2>2. ~EditRate  BY Zenon DEF EditRate
  <2>. QED  BY <2>1, <2>2 DEF Next, Advance, vars
<1>. QED  BY <1>1 DEF Record

\* On a card, money paid in never costs: no estimate rises, no statement that was
\* paid ceases to be (domain.accounts.fold_statement_cycles, _is_paid_in_full).
THEOREM PaymentsDoNotCost == Spec => PaymentsNeverCost
<1>. DEFINE A == \A e \in events' \ events :
                    /\ e.type = "movement" /\ e.amount > 0
                    /\ \A v \in versions : v.kind = "CREDIT_CARD" /\ v.dueDay # None
                    => \A p \in DOMAIN shown \cap DOMAIN shown' :
                          /\ shown'[p].isEstimate => shown'[p].interest <= shown[p].interest
                          /\ shown[p].paid => shown'[p].paid
<1>1. ReadNow /\ ReadNow' /\ [Next]_vars => [A]_vars
  <2>. SUFFICES ASSUME ReadNow, ReadNow', [Next]_vars,
                       NEW e \in events' \ events, e.type = "movement", e.amount > 0,
                       \A v \in versions : v.kind = "CREDIT_CARD" /\ v.dueDay # None,
                       NEW p \in DOMAIN shown \cap DOMAIN shown'
                PROVE  /\ shown'[p].isEstimate => shown'[p].interest <= shown[p].interest
                       /\ shown[p].paid => shown'[p].paid
    OBVIOUS
  <2>. DEFINE K == Known(events, asOf)
              L == Known(events', asOf')
  <2>1. events' = events \cup {e} /\ versions' = versions /\ asOf' = asOf  BY OnlyRecordAdds
  <2>2. K \subseteq L /\ L \ K \subseteq {e}  BY <2>1 DEF Known
  <2>3. ArePayments(L \ K) /\ IsCard(versions)  BY <2>2 DEF ArePayments, IsCard
  <2>4. IsRead(versions, K, asOf, shown) /\ IsRead(versions, L, asOf, shown')
    BY <2>1 DEF ReadNow
  <2>. HIDE DEF K, L
  <2>5. EasedAt(shown, shown', p)  BY <2>2, <2>3, <2>4, ReadsEase
  <2>. QED  BY <2>5 DEF EasedAt, StatementEases, Eased
<1>2. PaymentsNeverCost <=> [][A]_vars  BY DEF PaymentsNeverCost
<1>. HIDE DEF A
<1>. QED  BY <1>1, <1>2, StatementInvHolds, ShownIsRead, PTL DEF Spec
=============================================================================
