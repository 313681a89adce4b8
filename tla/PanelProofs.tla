---------------------------- MODULE PanelProofs ----------------------------
(***************************************************************************)
(* Theorems about LedgerPanel, for every ledger, page size and set of       *)
(* filters, and any number of loads that overlap.                           *)
(***************************************************************************)
EXTENDS LedgerPanel, FiniteSetTheorems, TLAPS

-----------------------------------------------------------------------------
(* The order of the ledger, and one page of it.                            *)

\* The order is strict and total, and a cursor stands for its event.
LEMMA EventsAreOrdered ==
    /\ \A e, f \in Events : e # f => Precedes(e, f) \/ Precedes(f, e)
    /\ \A e \in Events : ~Precedes(e, e)
    /\ \A e, f, g \in Events : Precedes(e, f) /\ Precedes(f, g) => Precedes(e, g)
<1>. DEFINE Key(e) == /\ e.date \in Int /\ e.recordedAt \in Int /\ e.id \in Int
<1>1. \A e \in Events : Key(e)  BY EventsAreIdentified
<1>2. \A e, f \in Events : e.id = f.id => e = f  BY EventsAreIdentified
<1>3. ASSUME NEW e \in Events, NEW f \in Events, e # f
      PROVE  Precedes(e, f) \/ Precedes(f, e)
  BY <1>1, <1>2, <1>3 DEF Precedes
<1>4. \A e \in Events : ~Precedes(e, e)  BY <1>1 DEF Precedes
<1>5. ASSUME NEW e \in Events, NEW f \in Events, NEW g \in Events,
             Precedes(e, f), Precedes(f, g)
      PROVE  Precedes(e, g)
  BY <1>1, <1>5 DEF Precedes
<1>. QED  BY <1>3, <1>4, <1>5

LEMMA CursorsAreEvents ==
    ASSUME NEW e, NEW f
    PROVE  Precedes(e, Cursor(f)) <=> Precedes(e, f)
  BY DEF Precedes, Cursor

\* The number of events that are newer.
Above(S, e) == {f \in S : Precedes(e, f)}
Rank(S, e) == Cardinality(Above(S, e))

LEMMA RanksAreDistinct ==
    ASSUME NEW S, S \subseteq Events, IsFiniteSet(S)
    PROVE  /\ \A e \in S : Rank(S, e) \in 0 .. Cardinality(S) - 1
           /\ \A e, f \in S : Precedes(e, f) <=> Rank(S, f) < Rank(S, e)
<1>1. ASSUME NEW e \in S PROVE Rank(S, e) \in 0 .. Cardinality(S) - 1
  <2>1. Above(S, e) \subseteq S /\ e \notin Above(S, e)
    BY EventsAreOrdered DEF Above
  <2>2. /\ IsFiniteSet(Above(S, e)) /\ Rank(S, e) <= Cardinality(S)
        /\ Rank(S, e) # Cardinality(S)
    BY <2>1, FS_Subset DEF Rank
  <2>3. Rank(S, e) \in Nat /\ Cardinality(S) \in Nat  BY <2>2, FS_CardinalityType DEF Rank
  <2>. QED  BY <2>2, <2>3
<1>2. ASSUME NEW e \in S, NEW f \in S, Precedes(e, f) PROVE Rank(S, f) < Rank(S, e)
  <2>1. Above(S, f) \subseteq Above(S, e)
    BY <1>2, EventsAreOrdered DEF Above
  <2>2. f \in Above(S, e) /\ f \notin Above(S, f)
    BY <1>2, EventsAreOrdered DEF Above
  <2>3. IsFiniteSet(Above(S, e))  BY FS_Subset DEF Above
  <2>4. Rank(S, f) <= Rank(S, e) /\ Rank(S, f) # Rank(S, e)
    BY <2>1, <2>2, <2>3, FS_Subset DEF Rank
  <2>. QED  BY <1>1, <2>4
<1>3. ASSUME NEW e \in S, NEW f \in S, Rank(S, f) < Rank(S, e) PROVE Precedes(e, f)
  <2>1. Rank(S, f) \in Int /\ Rank(S, e) \in Int  BY <1>1
  <2>2. e # f /\ ~(Rank(S, e) < Rank(S, f))  BY <1>3, <2>1
  <2>. QED  BY <1>2, <2>2, EventsAreOrdered
<1>. QED  BY <1>1, <1>2, <1>3

\* Every rank below the number of events is that of one of them.
LEMMA RanksAreTaken ==
    ASSUME NEW S, S \subseteq Events, IsFiniteSet(S), NEW n \in 0 .. Cardinality(S) - 1
    PROVE  \E e \in S : Rank(S, e) = n
<1>. DEFINE T == 0 .. Cardinality(S) - 1
            rank == [e \in S |-> Rank(S, e)]
<1>1. Cardinality(S) \in Nat  BY FS_CardinalityType
<1>2. IsFiniteSet(T) /\ Cardinality(T) = Cardinality(S)  BY <1>1, FS_Interval
<1>3. \A e \in S : rank[e] = Rank(S, e) /\ rank[e] \in T  BY RanksAreDistinct
<1>4. ASSUME NEW e \in S, NEW f \in S, rank[e] = rank[f] PROVE e = f
  <2>1. ~Precedes(e, f) /\ ~Precedes(f, e)
    BY <1>1, <1>3, <1>4, RanksAreDistinct
  <2>. QED  BY <2>1, EventsAreOrdered
<1>5. rank \in [S -> T]  BY <1>3
<1>. HIDE DEF rank, T
<1>6. rank \in Injection(S, T)  BY <1>4, <1>5 DEF Injection, IsInjective
<1>7. rank \in Surjection(S, T)  BY <1>2, <1>6, FS_Injection
<1>8. \A m \in T : \E e \in S : rank[e] = m  BY <1>7 DEF Surjection
<1>. QED  BY <1>3, <1>8 DEF T

\* list_events lists every event once, the newest first.
LEMMA NewestFirstIsSorted ==
    ASSUME NEW S, S \subseteq Events, IsFiniteSet(S)
    PROVE  LET s == NewestFirst(S)
           IN  /\ s \in Seq(S) /\ Len(s) = Cardinality(S)
               /\ \A i, j \in 1 .. Len(s) : i < j => Precedes(s[j], s[i])
               /\ \A e \in S : \E i \in 1 .. Len(s) : s[i] = e
<1>. DEFINE s == NewestFirst(S)
            n == Cardinality(S)
<1>1. n \in Nat  BY FS_CardinalityType
<1>2. s = [i \in 1 .. n |-> CHOOSE e \in S : Rank(S, e) = i - 1]
  BY DEF NewestFirst, Rank, Above
<1>. HIDE DEF s, n
<1>3. ASSUME NEW i \in 1 .. n PROVE s[i] \in S /\ Rank(S, s[i]) = i - 1
  <2>1. i - 1 \in 0 .. n - 1  BY <1>1
  <2>2. \E e \in S : Rank(S, e) = i - 1  BY <2>1, RanksAreTaken DEF n
  <2>. QED  BY <1>2, <2>2
<1>4. s \in Seq(S) /\ Len(s) = n
  BY <1>1, <1>2, <1>3
<1>5. ASSUME NEW i \in 1 .. n, NEW j \in 1 .. n, i < j PROVE Precedes(s[j], s[i])
  <2>1. Rank(S, s[i]) < Rank(S, s[j])  BY <1>1, <1>3, <1>5
  <2>. QED  BY <1>3, <2>1, RanksAreDistinct
<1>6. ASSUME NEW e \in S PROVE \E i \in 1 .. n : s[i] = e
  <2>. DEFINE i == Rank(S, e) + 1
  <2>1. i \in 1 .. n /\ Rank(S, e) = i - 1  BY <1>1, RanksAreDistinct DEF n
  <2>. HIDE DEF i
  <2>2. s[i] \in S /\ Rank(S, s[i]) = Rank(S, e)  BY <1>3, <2>1
  <2>3. ~Precedes(s[i], e) /\ ~Precedes(e, s[i])
    BY <1>1, <2>1, <2>2, RanksAreDistinct
  <2>. QED  BY <2>1, <2>2, <2>3, EventsAreOrdered
<1>. QED  BY <1>4, <1>5, <1>6 DEF s, n

LEMMA TakeIsPrefix ==
    ASSUME NEW X, NEW s \in Seq(X), NEW n \in Nat
    PROVE  /\ Take(s, n) \in Seq(X)
           /\ Len(Take(s, n)) = IF Len(s) <= n THEN Len(s) ELSE n
           /\ \A i \in 1 .. Len(Take(s, n)) : i \in 1 .. Len(s) /\ Take(s, n)[i] = s[i]
<1>1. CASE Len(s) <= n  BY <1>1 DEF Take
<1>2. CASE ~(Len(s) <= n)
  <2>1. Take(s, n) = SubSeq(s, 1, n)  BY <1>2 DEF Take
  <2>2. n <= Len(s) /\ Len(s) \in Nat  BY <1>2
  <2>. QED  BY <1>2, <2>1, <2>2
<1>. QED  BY <1>1, <1>2

\* A page: what matches and comes after the cursor, the newest first, up to its
\* last row and one more.
LEMMA PagesAreSorted ==
    ASSUME NEW L, L \subseteq Events, IsFiniteSet(L), NEW category, NEW cursor
    PROVE  LET page == Page(L, category, cursor)
           IN  /\ page \in Seq(Events) /\ Len(page) <= PageSize + 1
               /\ \A i \in 1 .. Len(page) :
                     page[i] \in Matching(L, category) /\ After(page[i], cursor)
               /\ \A i, j \in 1 .. Len(page) : i < j => Precedes(page[j], page[i])
               /\ \A e \in Matching(L, category) : After(e, cursor) =>
                     \/ \E i \in 1 .. Len(page) : page[i] = e
                     \/ Len(page) > PageSize /\ Precedes(e, page[PageSize])
<1>. DEFINE S == {e \in Matching(L, category) : After(e, cursor)}
            s == NewestFirst(S)
            page == Page(L, category, cursor)
            n == PageSize + 1
<1>1. S \subseteq L  BY DEF Matching
<1>2. S \subseteq Events /\ IsFiniteSet(S)  BY <1>1, FS_Subset
<1>3. \A e \in S : e \in Matching(L, category) /\ After(e, cursor)  OBVIOUS
<1>4. \A e \in Matching(L, category) : After(e, cursor) => e \in S  OBVIOUS
<1>5. page = Take(s, n)  BY DEF Page
<1>. HIDE DEF S, page
<1>6. /\ s \in Seq(S)
      /\ \A i, j \in 1 .. Len(s) : i < j => Precedes(s[j], s[i])
      /\ \A e \in S : \E i \in 1 .. Len(s) : s[i] = e
  BY <1>2, NewestFirstIsSorted
<1>. HIDE DEF s
<1>7. n \in Nat /\ n = PageSize + 1 /\ PageSize \in 1 .. n  BY PageSizeIsPositive
<1>. HIDE DEF n
<1>8. /\ page \in Seq(S)
      /\ Len(page) = IF Len(s) <= n THEN Len(s) ELSE n
      /\ \A i \in 1 .. Len(page) : i \in 1 .. Len(s) /\ page[i] = s[i]
  BY <1>5, <1>6, <1>7, TakeIsPrefix
<1>9. Len(s) \in Nat /\ Len(page) \in Nat  BY <1>6, <1>8
<1>10. page \in Seq(Events) /\ Len(page) <= n
  <2>1. \A i \in 1 .. Len(page) : page[i] \in Events  BY <1>2, <1>8
  <2>. QED  BY <1>7, <1>8, <1>9, <2>1
<1>11. \A i \in 1 .. Len(page) : page[i] \in S  BY <1>8
<1>12. \A i, j \in 1 .. Len(page) : i < j => Precedes(page[j], page[i])
  BY <1>6, <1>8
<1>13. ASSUME NEW e \in S
       PROVE  \/ \E i \in 1 .. Len(page) : page[i] = e
              \/ Len(page) > PageSize /\ Precedes(e, page[PageSize])
  <2>1. PICK i \in 1 .. Len(s) : s[i] = e  BY <1>6
  <2>2. CASE i <= Len(page)
    <3>1. i \in 1 .. Len(page)  BY <1>9, <2>2
    <3>. QED  BY <1>8, <2>1, <3>1
  <2>3. CASE ~(i <= Len(page))
    <3>1. Len(page) = n /\ PageSize < i /\ PageSize \in 1 .. Len(page)
          /\ PageSize \in 1 .. Len(s) /\ Len(page) > PageSize
      BY <1>7, <1>8, <1>9, <2>3
    <3>2. Precedes(s[i], s[PageSize])  BY <1>6, <3>1
    <3>. QED  BY <1>8, <2>1, <3>1, <3>2
  <2>. QED  BY <2>2, <2>3
<1>. QED  BY <1>3, <1>4, <1>7, <1>10, <1>11, <1>12, <1>13 DEF page

\* What the panel holds of an event.
Row == [event : Events, isVoided : BOOLEAN]

LEMMA RowsAreOfPages ==
    ASSUME NEW page \in Seq(Events), NEW L
    PROVE  LET rows == LedgerRows(page, L)
           IN  /\ rows \in Seq(Row)
               /\ Len(rows) = IF Len(page) <= PageSize THEN Len(page) ELSE PageSize
               /\ \A i \in 1 .. Len(rows) :
                     /\ i \in 1 .. Len(page) /\ rows[i].event = page[i]
                     /\ rows[i].isVoided = (page[i].id \in VoidedIndex(L))
<1>. DEFINE m == IF Len(page) <= PageSize THEN Len(page) ELSE PageSize
            rows == LedgerRows(page, L)
            voided(i) == page[i].id \in VoidedIndex(L)
<1>1. PageSize \in Nat /\ Len(page) \in Nat  BY PageSizeIsPositive
<1>2. Rows(page) \in Seq(Events) /\ Len(Rows(page)) = m
  BY <1>1, TakeIsPrefix DEF Rows
<1>3. m \in Nat /\ \A i \in 1 .. m : i \in 1 .. Len(page)  BY <1>1
<1>. HIDE DEF m
<1>4. DOMAIN Rows(page) = 1 .. m  BY <1>2
<1>5. rows = [i \in 1 .. m |-> [event |-> page[i], isVoided |-> voided(i)]]
  BY <1>4 DEF LedgerRows
<1>6. \A i \in 1 .. m : page[i] \in Events /\ voided(i) \in BOOLEAN  BY <1>3
<1>7. \A i \in 1 .. m : rows[i].event = page[i] /\ rows[i].isVoided = voided(i)  BY <1>5
<1>8. \A i \in 1 .. m : rows[i] \in Row  BY <1>5, <1>6 DEF Row
<1>. HIDE DEF voided, rows
<1>9. rows \in Seq(Row) /\ Len(rows) = m  BY <1>3, <1>5, <1>8
<1>. QED  BY <1>3, <1>7, <1>9 DEF rows, m, voided

-----------------------------------------------------------------------------
(* What a fetch and the panel hold.                                        *)

\* The rows are of stored events, and where one is a void, what it is aimed at
\* is marked, in its own row or further down.
Marked(rows, L) ==
    /\ rows \in Seq(Row)
    /\ \A i \in 1 .. Len(rows) : rows[i].event \in L
    /\ \A i, j \in 1 .. Len(rows) :
          /\ i <= j /\ rows[i].event.type = "void"
          /\ rows[i].event.target = rows[j].event.id
          => rows[j].isVoided

\* The rows match and descend, and the cursor stands for the last of them.
Ordered(rows, cursor, L, category) ==
    /\ \A i \in 1 .. Len(rows) : rows[i].event \in Matching(L, category)
    /\ \A i, j \in 1 .. Len(rows) : i < j => Precedes(rows[j].event, rows[i].event)
    /\ cursor # None => rows # << >> /\ cursor = Cursor(rows[Len(rows)].event)

\* What was stored when the load began is among the rows or yet to come.
Covered(rows, cursor, known, category) ==
    \A e \in Matching(known, category) :
        \/ \E i \in 1 .. Len(rows) : rows[i].event = e
        \/ cursor # None /\ Precedes(e, cursor)

\* A page continues the rows.
Continues(page, rows, cursor, known, L, category) ==
    /\ \A i \in 1 .. Len(page) : page[i] \in Matching(L, category) /\ After(page[i], cursor)
    /\ \A i, j \in 1 .. Len(page) : i < j => Precedes(page[j], page[i])
    /\ \A e \in Matching(known, category) :
          \/ \E i \in 1 .. Len(rows) : rows[i].event = e
          \/ \E i \in 1 .. Len(page) : page[i] = e
          \/ Len(page) > PageSize /\ Precedes(e, page[PageSize])

InOrder(f, L) ==
    /\ Ordered(f.rows, f.cursor, L, f.filters.category)
    /\ f.at # "voids" => Covered(f.rows, f.cursor, f.known, f.filters.category)
    /\ f.at = "voids" => Continues(f.page, f.rows, f.cursor, f.known, L, f.filters.category)
    /\ f.at \in {"page", "voids"} /\ f.cursor = None => f.rows = << >>

FetchFields == {"id", "kind", "filters", "rows", "cursor", "target", "total", "page", "at",
                "load", "known"}

\* A fetch of the latest load has the panel's filters, and its rows are in order.
\* Of one from before a load only the marks are known: it may have been given rows
\* that grew under other filters.
FetchInv(f, L, applied, last) ==
    /\ DOMAIN f = FetchFields
    /\ f.load \in 0 .. last
    /\ Marked(f.rows, L) /\ f.known \subseteq L
    /\ f.page \in Seq(Events) /\ Len(f.page) <= PageSize + 1
    /\ \A i \in 1 .. Len(f.page) : f.page[i] \in L
    /\ f.load = last => f.filters = applied /\ InOrder(f, L)

ShownInv(panel, L, applied, last) ==
    /\ panel.load \in 0 .. last
    /\ Marked(panel.rows, L) /\ panel.known \subseteq L
    /\ panel.load = last =>
          /\ Ordered(panel.rows, panel.cursor, L, applied.category)
          /\ Covered(panel.rows, panel.cursor, panel.known, applied.category)

PanelInv ==
    /\ IsFiniteSet(ledger) /\ ledger \subseteq Events
    /\ started \in Nat /\ latest \in 0 .. started
    /\ ShownInv(shown, ledger, filters, latest)
    /\ \A f \in fetches : FetchInv(f, ledger, filters, latest)

LEMMA FetchesStart ==
    ASSUME NEW kind, NEW applied, NEW rows, NEW cursor, NEW load, NEW known
    PROVE  LET f == Fetch(kind, applied, rows, cursor, load, known)
           IN  /\ DOMAIN f = FetchFields
               /\ f.filters = applied /\ f.rows = rows /\ f.cursor = cursor
               /\ f.page = << >> /\ f.at = "page" /\ f.load = load /\ f.known = known
  BY DEF Fetch, FetchFields

\* Appending an event disturbs nothing that was read.
LEMMA LedgerMayGrow ==
    ASSUME NEW L, NEW M, L \subseteq M, NEW applied, NEW last
    PROVE  /\ \A f : FetchInv(f, L, applied, last) => FetchInv(f, M, applied, last)
           /\ \A s : ShownInv(s, L, applied, last) => ShownInv(s, M, applied, last)
<1>1. \A category : Matching(L, category) \subseteq Matching(M, category)  BY DEF Matching
<1>2. \A rows : Marked(rows, L) => Marked(rows, M)  BY DEF Marked
<1>3. \A rows, cursor, category :
          Ordered(rows, cursor, L, category) => Ordered(rows, cursor, M, category)
  BY <1>1 DEF Ordered
<1>4. \A page, rows, cursor, known, category :
          Continues(page, rows, cursor, known, L, category)
              => Continues(page, rows, cursor, known, M, category)
  BY <1>1 DEF Continues
<1>5. \A f : InOrder(f, L) => InOrder(f, M)  BY <1>3, <1>4 DEF InOrder
<1>6. \A f : FetchInv(f, L, applied, last) => FetchInv(f, M, applied, last)
  BY <1>2, <1>5 DEF FetchInv
<1>7. \A s : ShownInv(s, L, applied, last) => ShownInv(s, M, applied, last)
  BY <1>2, <1>3 DEF ShownInv
<1>. QED  BY <1>6, <1>7

\* A new load leaves no other the latest.
LEMMA LoadsAreOutdated ==
    ASSUME NEW L, NEW before, NEW after, NEW last \in Nat, NEW next \in Nat, last < next
    PROVE  /\ \A f : FetchInv(f, L, before, last) => FetchInv(f, L, after, next)
           /\ \A s : ShownInv(s, L, before, last) => ShownInv(s, L, after, next)
<1>1. \A n \in 0 .. last : n \in 0 .. next /\ n # next  OBVIOUS
<1>. QED  BY <1>1 DEF FetchInv, ShownInv

-----------------------------------------------------------------------------
(* The SELECTs of one request.                                             *)

LEMMA PagesContinue ==
    ASSUME NEW L, L \subseteq Events, IsFiniteSet(L), NEW rows, NEW cursor, NEW category,
           NEW known, NEW seen, known \subseteq L,
           seen = IF cursor = None THEN L ELSE known,
           Covered(rows, cursor, known, category)
    PROVE  Continues(Page(L, category, cursor), rows, cursor, seen, L, category)
<1>. DEFINE page == Page(L, category, cursor)
<1>1. /\ \A i \in 1 .. Len(page) :
            page[i] \in Matching(L, category) /\ After(page[i], cursor)
      /\ \A i, j \in 1 .. Len(page) : i < j => Precedes(page[j], page[i])
      /\ \A e \in Matching(L, category) : After(e, cursor) =>
            \/ \E i \in 1 .. Len(page) : page[i] = e
            \/ Len(page) > PageSize /\ Precedes(e, page[PageSize])
  BY PagesAreSorted
<1>. HIDE DEF page
<1>2. ASSUME NEW e \in Matching(seen, category)
      PROVE  \/ \E i \in 1 .. Len(rows) : rows[i].event = e
             \/ \E i \in 1 .. Len(page) : page[i] = e
             \/ Len(page) > PageSize /\ Precedes(e, page[PageSize])
  <2>1. e \in Matching(L, category)  BY DEF Matching
  <2>2. CASE cursor = None  BY <1>1, <2>1, <2>2 DEF After
  <2>3. CASE cursor # None
    <3>1. \/ \E i \in 1 .. Len(rows) : rows[i].event = e
          \/ Precedes(e, cursor)
      BY <2>3 DEF Covered
    <3>. QED  BY <1>1, <2>1, <3>1 DEF After
  <2>. QED  BY <2>2, <2>3
<1>. QED  BY <1>1, <1>2 DEF Continues, page

LEMMA PagesAreRead ==
    ASSUME NEW f, NEW g, PanelInv, FetchInv(f, ledger, filters, latest), f.at = "page",
           g = [f EXCEPT !.page = Page(ledger, f.filters.category, f.cursor),
                         !.known = IF f.cursor = None THEN ledger ELSE @,
                         !.at = "voids"]
    PROVE  FetchInv(g, ledger, filters, latest)
<1>. DEFINE page == Page(ledger, f.filters.category, f.cursor)
            seen == IF f.cursor = None THEN ledger ELSE f.known
<1>1. DOMAIN f = FetchFields  BY DEF FetchInv
<1>2. /\ DOMAIN g = FetchFields
      /\ g.page = page /\ g.known = seen /\ g.at = "voids"
      /\ g.filters = f.filters /\ g.rows = f.rows /\ g.cursor = f.cursor /\ g.load = f.load
  BY <1>1 DEF FetchFields
<1>3. ledger \subseteq Events /\ IsFiniteSet(ledger)  BY DEF PanelInv
<1>4. /\ page \in Seq(Events) /\ Len(page) <= PageSize + 1
      /\ \A i \in 1 .. Len(page) : page[i] \in Matching(ledger, f.filters.category)
  BY <1>3, PagesAreSorted
<1>5. \A i \in 1 .. Len(page) : page[i] \in ledger  BY <1>4 DEF Matching
<1>6. seen \subseteq ledger /\ f.known \subseteq ledger  BY DEF FetchInv
<1>7. ASSUME g.load = latest PROVE g.filters = filters /\ InOrder(g, ledger)
  <2>1. f.filters = filters /\ InOrder(f, ledger)  BY <1>2, <1>7 DEF FetchInv
  <2>2. /\ Ordered(f.rows, f.cursor, ledger, f.filters.category)
        /\ Covered(f.rows, f.cursor, f.known, f.filters.category)
        /\ f.cursor = None => f.rows = << >>
    BY <2>1 DEF InOrder
  <2>3. Continues(page, f.rows, f.cursor, seen, ledger, f.filters.category)
    BY <1>3, <1>6, <2>2, PagesContinue
  <2>. HIDE DEF page, seen
  <2>. QED  BY <1>2, <2>1, <2>2, <2>3 DEF InOrder
<1>. HIDE DEF page, seen
<1>. QED  BY <1>2, <1>4, <1>5, <1>6, <1>7 DEF FetchInv

LEMMA RowsStayMarked ==
    ASSUME NEW L, NEW rows, Marked(rows, L), NEW page \in Seq(Events),
           \A i \in 1 .. Len(page) : page[i] \in L
    PROVE  Marked(rows \o LedgerRows(page, L), L)
<1>. DEFINE more == LedgerRows(page, L)
            all == rows \o more
            n == Len(rows)
<1>1. /\ more \in Seq(Row)
      /\ \A i \in 1 .. Len(more) :
            /\ i \in 1 .. Len(page) /\ more[i].event = page[i]
            /\ more[i].isVoided = (page[i].id \in VoidedIndex(L))
  BY RowsAreOfPages
<1>2. /\ rows \in Seq(Row)
      /\ \A i \in 1 .. n : rows[i].event \in L
      /\ \A i, j \in 1 .. n :
            i <= j /\ rows[i].event.type = "void" /\ rows[i].event.target = rows[j].event.id
              => rows[j].isVoided
  BY DEF Marked
<1>. HIDE DEF more
<1>3. /\ all \in Seq(Row) /\ Len(all) = n + Len(more) /\ n \in Nat /\ Len(more) \in Nat
      /\ \A i \in 1 .. n : all[i] = rows[i]
      /\ \A i \in 1 .. Len(all) : i \notin 1 .. n => i - n \in 1 .. Len(more) /\ all[i] = more[i - n]
  BY <1>1, <1>2
<1>. HIDE DEF all, n
<1>4. ASSUME NEW i \in 1 .. Len(all) PROVE all[i].event \in L
  <2>1. CASE i \in 1 .. n  BY <1>2, <1>3, <2>1
  <2>2. CASE i \notin 1 .. n  BY <1>1, <1>3, <2>2
  <2>. QED  BY <2>1, <2>2
<1>5. ASSUME NEW i \in 1 .. Len(all), NEW j \in 1 .. Len(all), i <= j,
             all[i].event.type = "void", all[i].event.target = all[j].event.id
      PROVE  all[j].isVoided
  <2>1. CASE j \in 1 .. n
    <3>1. i \in 1 .. n  BY <1>3, <1>5, <2>1
    <3>. QED  BY <1>2, <1>3, <1>5, <2>1, <3>1
  <2>2. CASE j \notin 1 .. n
    <3>. DEFINE m == j - n
    <3>1. m \in 1 .. Len(more) /\ all[j] = more[m]  BY <1>3, <2>2
    <3>. HIDE DEF m
    <3>2. all[i].event \in {e \in L : e.type = "void"}  BY <1>4, <1>5
    <3>3. all[i].event.target \in VoidedIndex(L)  BY <3>2 DEF VoidedIndex
    <3>4. more[m].event = page[m] /\ more[m].isVoided = (page[m].id \in VoidedIndex(L))
      BY <1>1, <3>1
    <3>. QED  BY <1>5, <3>1, <3>3, <3>4
  <2>. QED  BY <2>1, <2>2
<1>6. Marked(all, L)  BY <1>3, <1>4, <1>5 DEF Marked
<1>. QED  BY <1>6 DEF all, more

\* The rows of a page follow those there are; its last one is the new cursor.
LEMMA RowsStayOrdered ==
    ASSUME NEW L, L \subseteq Events, NEW rows \in Seq(Row), NEW cursor, NEW category,
           NEW known, NEW page \in Seq(Events), Len(page) <= PageSize + 1,
           Ordered(rows, cursor, L, category), cursor = None => rows = << >>,
           Continues(page, rows, cursor, known, L, category)
    PROVE  LET all == rows \o LedgerRows(page, L)
               next == NextCursor(page)
           IN  Ordered(all, next, L, category) /\ Covered(all, next, known, category)
<1>. DEFINE more == LedgerRows(page, L)
            all == rows \o more
            n == Len(rows)
            next == NextCursor(page)
<1>1. /\ more \in Seq(Row)
      /\ Len(more) = IF Len(page) <= PageSize THEN Len(page) ELSE PageSize
      /\ \A i \in 1 .. Len(more) : i \in 1 .. Len(page) /\ more[i].event = page[i]
  BY RowsAreOfPages
<1>2. /\ \A i \in 1 .. n : rows[i].event \in Matching(L, category)
      /\ \A i, j \in 1 .. n : i < j => Precedes(rows[j].event, rows[i].event)
      /\ cursor # None => rows # << >> /\ cursor = Cursor(rows[n].event)
  BY DEF Ordered
<1>3. /\ \A i \in 1 .. Len(page) : page[i] \in Matching(L, category) /\ After(page[i], cursor)
      /\ \A i, j \in 1 .. Len(page) : i < j => Precedes(page[j], page[i])
      /\ \A e \in Matching(known, category) :
            \/ \E i \in 1 .. n : rows[i].event = e
            \/ \E i \in 1 .. Len(page) : page[i] = e
            \/ Len(page) > PageSize /\ Precedes(e, page[PageSize])
  BY DEF Continues
<1>4. Len(page) \in Nat /\ PageSize \in Nat \ {0} /\ n \in Nat  BY PageSizeIsPositive
<1>. HIDE DEF more
<1>5. /\ all \in Seq(Row) /\ Len(all) = n + Len(more) /\ Len(more) \in Nat
      /\ \A i \in 1 .. n : i \in 1 .. Len(all) /\ all[i] = rows[i]
      /\ \A i \in 1 .. Len(more) : n + i \in 1 .. Len(all) /\ all[n + i] = more[i]
      /\ \A i \in 1 .. Len(all) : i \notin 1 .. n => i - n \in 1 .. Len(more) /\ all[i] = more[i - n]
  BY <1>1
<1>6. rows = << >> => n = 0  OBVIOUS
<1>. HIDE DEF all, n
<1>7. \A e \in Matching(L, category) : e \in Events  BY DEF Matching
<1>8. ASSUME NEW i \in 1 .. n, NEW m \in 1 .. Len(page)
      PROVE  Precedes(page[m], rows[i].event)
  <2>1. cursor # None  BY <1>4, <1>6
  <2>2. n \in 1 .. n  BY <1>4
  <2>3. Precedes(page[m], rows[n].event)
    BY <1>2, <1>3, <2>1, CursorsAreEvents DEF After
  <2>4. CASE i = n  BY <2>3, <2>4
  <2>5. CASE i # n
    <3>1. Precedes(rows[n].event, rows[i].event)  BY <1>2, <1>4, <2>2, <2>5
    <3>2. page[m] \in Events /\ rows[n].event \in Events /\ rows[i].event \in Events
      BY <1>2, <1>3, <1>7, <2>2
    <3>. QED  BY <2>3, <3>1, <3>2, EventsAreOrdered
  <2>. QED  BY <2>4, <2>5
<1>9. ASSUME NEW i \in 1 .. Len(all) PROVE all[i].event \in Matching(L, category)
  <2>1. CASE i \in 1 .. n  BY <1>2, <1>5, <2>1
  <2>2. CASE i \notin 1 .. n  BY <1>1, <1>3, <1>5, <2>2
  <2>. QED  BY <2>1, <2>2
<1>10. ASSUME NEW i \in 1 .. Len(all), NEW j \in 1 .. Len(all), i < j
       PROVE  Precedes(all[j].event, all[i].event)
  <2>1. CASE j \in 1 .. n
    <3>1. i \in 1 .. n  BY <1>4, <1>5, <1>10, <2>1
    <3>. QED  BY <1>2, <1>5, <1>10, <2>1, <3>1
  <2>2. CASE j \notin 1 .. n
    <3>. DEFINE m == j - n
    <3>1. m \in 1 .. Len(more) /\ all[j] = more[m] /\ m = j - n  BY <1>5, <2>2
    <3>. HIDE DEF m
    <3>2. m \in 1 .. Len(page) /\ all[j].event = page[m]  BY <1>1, <3>1
    <3>3. CASE i \in 1 .. n  BY <1>5, <1>8, <3>2, <3>3
    <3>4. CASE i \notin 1 .. n
      <4>. DEFINE l == i - n
      <4>1. l \in 1 .. Len(more) /\ all[i] = more[l] /\ l < m
        BY <1>4, <1>5, <1>10, <3>1, <3>4
      <4>. HIDE DEF l
      <4>2. l \in 1 .. Len(page) /\ all[i].event = page[l]  BY <1>1, <4>1
      <4>. QED  BY <1>3, <3>2, <4>1, <4>2
    <3>. QED  BY <3>3, <3>4
  <2>. QED  BY <2>1, <2>2
<1>11. ASSUME Len(page) > PageSize
       PROVE  /\ Len(more) = PageSize /\ Len(page) = PageSize + 1
              /\ Len(all) \in 1 .. Len(all) /\ all[Len(all)].event = page[PageSize]
              /\ next = Cursor(page[PageSize]) /\ next # None
  <2>1. Len(more) = PageSize /\ Len(page) = PageSize + 1  BY <1>1, <1>4, <1>11
  <2>2. PageSize \in 1 .. Len(more) /\ Len(all) = n + PageSize  BY <1>4, <1>5, <2>1
  <2>3. Len(all) \in 1 .. Len(all) /\ all[Len(all)] = more[PageSize]  BY <1>5, <2>2
  <2>4. more[PageSize].event = page[PageSize] /\ page[PageSize] \in Events
    BY <1>1, <2>2
  <2>5. next = Cursor(page[PageSize])  BY <1>11 DEF NextCursor
  <2>6. next # None  BY <2>4, <2>5, EventsAreIdentified
  <2>. QED  BY <2>1, <2>3, <2>4, <2>5, <2>6
<1>12. next # None => Len(page) > PageSize  BY DEF NextCursor
<1>13. next # None => all # << >> /\ next = Cursor(all[Len(all)].event)
  <2>. SUFFICES ASSUME next # None PROVE all # << >> /\ next = Cursor(all[Len(all)].event)
    OBVIOUS
  <2>1. Len(all) >= 1  BY <1>5, <1>11, <1>12
  <2>2. all # << >>  BY <2>1
  <2>. QED  BY <1>11, <1>12, <2>2
<1>14. ASSUME NEW e \in Matching(known, category)
       PROVE  \/ \E i \in 1 .. Len(all) : all[i].event = e
              \/ next # None /\ Precedes(e, next)
  <2>1. CASE \E i \in 1 .. n : rows[i].event = e  BY <1>5, <2>1
  <2>2. CASE \E i \in 1 .. Len(page) : page[i] = e
    <3>1. PICK i \in 1 .. Len(page) : page[i] = e  BY <2>2
    <3>2. CASE i \in 1 .. Len(more)  BY <1>1, <1>5, <3>1, <3>2
    <3>3. CASE i \notin 1 .. Len(more)
      <4>1. Len(page) > PageSize /\ PageSize < i /\ PageSize \in 1 .. Len(page)
        BY <1>1, <1>4, <3>3
      <4>2. Precedes(e, page[PageSize])  BY <1>3, <3>1, <4>1
      <4>. QED  BY <1>11, <4>1, <4>2, CursorsAreEvents
    <3>. QED  BY <3>2, <3>3
  <2>3. CASE Len(page) > PageSize /\ Precedes(e, page[PageSize])
    BY <1>11, <2>3, CursorsAreEvents
  <2>. QED  BY <1>3, <2>1, <2>2, <2>3
<1>. HIDE DEF next
<1>15. Ordered(all, next, L, category)  BY <1>9, <1>10, <1>13 DEF Ordered
<1>16. Covered(all, next, known, category)  BY <1>14 DEF Covered
<1>. QED  BY <1>15, <1>16 DEF all, more, next

LEMMA VoidsAreRead ==
    ASSUME NEW f, NEW g, PanelInv, FetchInv(f, ledger, filters, latest), f.at = "voids",
           g = [f EXCEPT !.rows = @ \o LedgerRows(f.page, ledger),
                         !.cursor = NextCursor(f.page),
                         !.page = << >>, !.at = "count"]
    PROVE  FetchInv(g, ledger, filters, latest)
<1>. DEFINE all == f.rows \o LedgerRows(f.page, ledger)
            next == NextCursor(f.page)
            none == << >>
<1>1. DOMAIN f = FetchFields  BY DEF FetchInv
<1>2. /\ DOMAIN g = FetchFields
      /\ g.rows = all /\ g.cursor = next /\ g.page = none /\ g.at = "count"
      /\ g.filters = f.filters /\ g.known = f.known /\ g.load = f.load
  BY <1>1 DEF FetchFields
<1>3. ledger \subseteq Events  BY DEF PanelInv
<1>4. /\ f.page \in Seq(Events) /\ Len(f.page) <= PageSize + 1
      /\ \A i \in 1 .. Len(f.page) : f.page[i] \in ledger
      /\ Marked(f.rows, ledger)
  BY DEF FetchInv
<1>5. Marked(all, ledger)  BY <1>4, RowsStayMarked
<1>6. ASSUME g.load = latest PROVE g.filters = filters /\ InOrder(g, ledger)
  <2>1. f.filters = filters /\ InOrder(f, ledger)  BY <1>2, <1>6 DEF FetchInv
  <2>2. /\ Ordered(f.rows, f.cursor, ledger, f.filters.category)
        /\ Continues(f.page, f.rows, f.cursor, f.known, ledger, f.filters.category)
        /\ f.cursor = None => f.rows = << >>
    BY <2>1 DEF InOrder
  <2>3. f.rows \in Seq(Row)  BY <1>4 DEF Marked
  <2>4. /\ Ordered(all, next, ledger, f.filters.category)
        /\ Covered(all, next, f.known, f.filters.category)
    BY <1>3, <1>4, <2>2, <2>3, RowsStayOrdered
  <2>. HIDE DEF all, next, none
  <2>. QED  BY <1>2, <2>1, <2>4 DEF InOrder
<1>7. /\ none \in Seq(Events) /\ Len(none) <= PageSize + 1
      /\ \A i \in 1 .. Len(none) : none[i] \in ledger
  BY PageSizeIsPositive
<1>8. f.load \in 0 .. latest /\ f.known \subseteq ledger  BY DEF FetchInv
<1>. HIDE DEF all, next, none
<1>9. /\ DOMAIN g = FetchFields
      /\ g.load \in 0 .. latest
      /\ Marked(g.rows, ledger) /\ g.known \subseteq ledger
      /\ g.page \in Seq(Events) /\ Len(g.page) <= PageSize + 1
      /\ \A i \in 1 .. Len(g.page) : g.page[i] \in ledger
  BY <1>2, <1>5, <1>7, <1>8
<1>. QED  BY <1>6, <1>9, Zenon DEF FetchInv

LEMMA CountsAreRead ==
    ASSUME NEW f, NEW g, FetchInv(f, ledger, filters, latest), f.at = "count",
           g = [f EXCEPT !.total = Total(f), !.at = IF GoesOn(f) THEN "page" ELSE "done"]
    PROVE  FetchInv(g, ledger, filters, latest)
<1>1. DOMAIN f = FetchFields  BY DEF FetchInv
<1>2. /\ DOMAIN g = FetchFields
      /\ g.at = IF GoesOn(f) THEN "page" ELSE "done"
      /\ g.rows = f.rows /\ g.cursor = f.cursor /\ g.page = f.page
      /\ g.filters = f.filters /\ g.known = f.known /\ g.load = f.load
  BY <1>1 DEF FetchFields
<1>3. GoesOn(f) => f.cursor # None  BY DEF GoesOn
<1>4. InOrder(f, ledger) => InOrder(g, ledger)
  BY <1>2, <1>3 DEF InOrder
<1>. QED  BY <1>2, <1>4 DEF FetchInv

-----------------------------------------------------------------------------
(* Behaviours.                                                             *)

LEMMA LoadsStart ==
    ASSUME PanelInv, Load
    PROVE  PanelInv'
<1>. DEFINE g == Fetch("load", filters', << >>, None, started + 1, {})
            none == << >>
<1>1. /\ fetches' = (fetches \ Loads) \cup {g} /\ started' = started + 1
      /\ latest' = started + 1 /\ ledger' = ledger /\ shown' = shown
  BY DEF Load
<1>2. /\ IsFiniteSet(ledger) /\ ledger \subseteq Events
      /\ started \in Nat /\ latest \in 0 .. started
      /\ ShownInv(shown, ledger, filters, latest)
      /\ \A f \in fetches : FetchInv(f, ledger, filters, latest)
  BY DEF PanelInv
<1>3. /\ DOMAIN g = FetchFields
      /\ g.filters = filters' /\ g.rows = none /\ g.cursor = None
      /\ g.page = none /\ g.at = "page" /\ g.load = started + 1 /\ g.known = {}
  BY FetchesStart
<1>. HIDE DEF g
<1>4. none \in Seq(Row) /\ none \in Seq(Events) /\ Len(none) = 0  OBVIOUS
<1>5. Marked(none, ledger)  BY <1>4 DEF Marked
<1>6. \A category : Ordered(none, None, ledger, category) /\ Covered(none, None, {}, category)
  BY <1>4 DEF Ordered, Covered, Matching
<1>7. InOrder(g, ledger)  BY <1>3, <1>6 DEF InOrder
<1>8. FetchInv(g, ledger, filters', latest')
  BY <1>1, <1>2, <1>3, <1>4, <1>5, <1>7, PageSizeIsPositive DEF FetchInv
<1>9. latest \in Nat /\ latest' \in Nat /\ latest < latest'  BY <1>1, <1>2
<1>10. /\ ShownInv(shown, ledger, filters', latest')
       /\ \A f \in fetches : FetchInv(f, ledger, filters', latest')
  BY <1>2, <1>9, LoadsAreOutdated
<1>. QED  BY <1>1, <1>2, <1>8, <1>9, <1>10 DEF PanelInv

LEMMA MoreStarts ==
    ASSUME PanelInv, LoadMore
    PROVE  PanelInv'
<1>. DEFINE g == Fetch("more", filters, shown.rows, shown.cursor, shown.load, shown.known)
            none == << >>
<1>1. /\ fetches' = fetches \cup {g} /\ started' = started + 1 /\ shown.cursor # None
      /\ latest' = latest /\ ledger' = ledger /\ shown' = shown /\ filters' = filters
  BY DEF LoadMore
<1>2. /\ started \in Nat /\ latest \in 0 .. started
      /\ ShownInv(shown, ledger, filters, latest)
  BY DEF PanelInv
<1>3. /\ DOMAIN g = FetchFields
      /\ g.filters = filters /\ g.rows = shown.rows /\ g.cursor = shown.cursor
      /\ g.page = none /\ g.at = "page" /\ g.load = shown.load /\ g.known = shown.known
  BY FetchesStart
<1>. HIDE DEF g
<1>4. none \in Seq(Events) /\ Len(none) = 0  OBVIOUS
<1>5. g.load = latest => InOrder(g, ledger)
  BY <1>1, <1>2, <1>3 DEF InOrder, ShownInv
<1>6. FetchInv(g, ledger, filters, latest)
  BY <1>2, <1>3, <1>4, <1>5, PageSizeIsPositive DEF FetchInv, ShownInv
<1>. QED  BY <1>1, <1>2, <1>6 DEF PanelInv

LEMMA ServingKeepsOrder ==
    ASSUME PanelInv, NEW f \in fetches, Serve(f) \/ Fail(f)
    PROVE  PanelInv'
<1>1. FetchInv(f, ledger, filters, latest)  BY DEF PanelInv
<1>2. ASSUME NEW g, Replace(f, g), FetchInv(g, ledger, filters, latest)
      PROVE  PanelInv'
  BY <1>2 DEF Replace, PanelInv
<1>3. CASE ReadPage(f)  BY <1>1, <1>2, <1>3, PagesAreRead DEF ReadPage
<1>4. CASE ReadVoids(f)  BY <1>1, <1>2, <1>4, VoidsAreRead DEF ReadVoids
<1>5. CASE ReadCount(f)  BY <1>1, <1>2, <1>5, CountsAreRead DEF ReadCount
<1>6. CASE Answer(f)
  <2>. DEFINE panel == [rows |-> f.rows, cursor |-> f.cursor, total |-> f.total,
                        load |-> f.load, known |-> f.known]
  <2>1. f.at = "done" /\ shown' = panel /\ fetches' \subseteq fetches
        /\ UNCHANGED <<ledger, filters, started, latest>>
    BY <1>6 DEF Answer
  <2>2. /\ panel.rows = f.rows /\ panel.cursor = f.cursor
        /\ panel.load = f.load /\ panel.known = f.known
    OBVIOUS
  <2>. HIDE DEF panel
  <2>3. ShownInv(panel, ledger, filters, latest)
    BY <1>1, <2>1, <2>2 DEF FetchInv, InOrder, ShownInv
  <2>. QED  BY <2>1, <2>3 DEF PanelInv
<1>7. CASE Fail(f)  BY <1>7 DEF Fail, PanelInv
<1>. QED  BY <1>3, <1>4, <1>5, <1>6, <1>7 DEF Serve

LEMMA PanelInvHolds == Spec => []PanelInv
<1>1. Init => PanelInv
  <2>. SUFFICES ASSUME Init PROVE PanelInv
    OBVIOUS
  <2>. DEFINE none == << >>
  <2>1. /\ ledger = Stored /\ fetches = {} /\ started = 0 /\ latest = 0
        /\ shown.rows = none /\ shown.cursor = None /\ shown.load = 0 /\ shown.known = {}
    BY DEF Init
  <2>2. none \in Seq(Row) /\ Len(none) = 0  OBVIOUS
  <2>. HIDE DEF none
  <2>3. Marked(none, ledger)  BY <2>2 DEF Marked
  <2>4. \A category : Ordered(none, None, ledger, category) /\ Covered(none, None, {}, category)
    BY <2>2 DEF Ordered, Covered, Matching
  <2>5. ShownInv(shown, ledger, filters, latest)  BY <2>1, <2>3, <2>4 DEF ShownInv
  <2>6. IsFiniteSet(ledger) /\ ledger \subseteq Events
    BY <2>1, EventsAreIdentified DEF Events
  <2>. QED  BY <2>1, <2>5, <2>6 DEF PanelInv
<1>2. PanelInv /\ [Next]_vars => PanelInv'
  <2>. SUFFICES ASSUME PanelInv, [Next]_vars PROVE PanelInv'
    OBVIOUS
  <2>1. CASE Append1
    <3>1. PICK e \in Candidates : ledger' = ledger \cup {e}  BY <2>1 DEF Append1
    <3>2. UNCHANGED <<active, filters, busy, shown, fetches, started, latest>>
      BY <2>1 DEF Append1
    <3>3. ledger \subseteq ledger' /\ ledger' \subseteq Events /\ IsFiniteSet(ledger')
      BY <3>1, FS_AddElement DEF PanelInv, Events
    <3>4. /\ ShownInv(shown, ledger', filters, latest)
          /\ \A f \in fetches : FetchInv(f, ledger', filters, latest)
      BY <3>3, LedgerMayGrow DEF PanelInv
    <3>. QED  BY <3>2, <3>3, <3>4 DEF PanelInv
  <2>2. CASE ApplyFilters  BY <2>2, LoadsStart DEF ApplyFilters
  <2>3. CASE Refresh  BY <2>3, LoadsStart DEF Refresh
  <2>4. CASE OpenTab  BY <2>4, LoadsStart DEF OpenTab
  <2>5. CASE LeaveTab  BY <2>5 DEF LeaveTab, PanelInv
  <2>6. CASE LoadMore  BY <2>6, MoreStarts
  <2>7. CASE \E f \in fetches : Serve(f) \/ Fail(f)  BY <2>7, ServingKeepsOrder
  <2>8. CASE UNCHANGED vars  BY <2>8 DEF vars, PanelInv
  <2>. QED  BY <2>1, <2>2, <2>3, <2>4, <2>5, <2>6, <2>7, <2>8 DEF Next
<1>. QED  BY <1>1, <1>2, PTL DEF Spec

\* build_voided_index: voids are read after the rows of their page, so that a row
\* whose void is above it is marked, whatever was appended in between.
THEOREM VoidsAreShown == Spec => []VoidsShowOnTheirTargets
<1>1. PanelInv => VoidsShowOnTheirTargets
  <2>. SUFFICES ASSUME PanelInv PROVE VoidsShowOnTheirTargets
    OBVIOUS
  <2>1. Marked(shown.rows, ledger)  BY DEF PanelInv, ShownInv
  <2>2. DOMAIN shown.rows = 1 .. Len(shown.rows)  BY <2>1 DEF Marked
  <2>. QED  BY <2>1, <2>2 DEF Marked, VoidsShowOnTheirTargets
<1>. QED  BY <1>1, PanelInvHolds, PTL

\* list_events: no append between two pages makes the panel skip or repeat a row,
\* for any size of the page, and whatever loads were dropped or failed before.
THEOREM PagesAreSeamless == Spec => []PagesNeitherSkipNorRepeat
<1>1. PanelInv => PagesNeitherSkipNorRepeat
  <2>. SUFFICES ASSUME PanelInv, Fresh PROVE
            /\ \A i \in 1 .. Len(shown.rows) - 1 :
                  Precedes(shown.rows[i + 1].event, shown.rows[i].event)
            /\ \A r \in ToSet(shown.rows) : r.event \in Matching(ledger, filters.category)
            /\ \A e \in Matching(shown.known, filters.category) :
                  \/ \E r \in ToSet(shown.rows) : r.event = e
                  \/ shown.cursor # None /\ Precedes(e, shown.cursor)
    BY DEF PagesNeitherSkipNorRepeat
  <2>1. shown.load = latest  BY DEF Fresh
  <2>2. /\ Marked(shown.rows, ledger)
        /\ Ordered(shown.rows, shown.cursor, ledger, filters.category)
        /\ Covered(shown.rows, shown.cursor, shown.known, filters.category)
    BY <2>1 DEF PanelInv, ShownInv
  <2>3. /\ DOMAIN shown.rows = 1 .. Len(shown.rows) /\ Len(shown.rows) \in Nat
        /\ ToSet(shown.rows) = {shown.rows[i] : i \in 1 .. Len(shown.rows)}
    BY <2>2 DEF Marked, ToSet
  <2>4. ASSUME NEW i \in 1 .. Len(shown.rows) - 1
        PROVE  Precedes(shown.rows[i + 1].event, shown.rows[i].event)
    <3>1. i \in 1 .. Len(shown.rows) /\ i + 1 \in 1 .. Len(shown.rows) /\ i < i + 1
      BY <2>3
    <3>. QED  BY <2>2, <3>1 DEF Ordered
  <2>5. \A r \in ToSet(shown.rows) : r.event \in Matching(ledger, filters.category)
    BY <2>2, <2>3 DEF Ordered
  <2>6. ASSUME NEW e \in Matching(shown.known, filters.category)
        PROVE  \/ \E r \in ToSet(shown.rows) : r.event = e
               \/ shown.cursor # None /\ Precedes(e, shown.cursor)
    <3>1. CASE \E i \in 1 .. Len(shown.rows) : shown.rows[i].event = e  BY <2>3, <3>1
    <3>. QED  BY <2>2, <3>1 DEF Covered
  <2>. QED  BY <2>4, <2>5, <2>6
<1>. QED  BY <1>1, PanelInvHolds, PTL

-----------------------------------------------------------------------------
(* What a load-more adds.                                                  *)

\* Of the first n rows, how many are visible.
VisibleUpto(rows, showVoided, n) == {i \in 1 .. n : i \in Visible(rows, showVoided)}
Upto(rows, showVoided, n) == Cardinality(VisibleUpto(rows, showVoided, n))

LEMMA MoreRowsShowMore ==
    ASSUME NEW rows, NEW sv, NEW m \in Nat, NEW n \in Nat, m <= n
    PROVE  /\ Upto(rows, sv, m) \in Nat /\ Upto(rows, sv, n) \in Nat
           /\ Upto(rows, sv, m) <= Upto(rows, sv, n)
<1>. DEFINE S == VisibleUpto(rows, sv, m)
            T == VisibleUpto(rows, sv, n)
<1>1. IsFiniteSet(1 .. n)  BY FS_Interval
<1>2. T \subseteq 1 .. n /\ S \subseteq T  BY DEF VisibleUpto
<1>. HIDE DEF S, T
<1>3. IsFiniteSet(T)  BY <1>1, <1>2, FS_Subset
<1>4. IsFiniteSet(S) /\ Cardinality(S) <= Cardinality(T)  BY <1>2, <1>3, FS_Subset
<1>5. Cardinality(S) \in Nat /\ Cardinality(T) \in Nat  BY <1>3, <1>4, FS_CardinalityType
<1>. QED  BY <1>4, <1>5 DEF Upto, S, T

LEMMA AllAreUpto ==
    ASSUME NEW rows \in Seq(Row), NEW sv
    PROVE  Cardinality(Visible(rows, sv)) = Upto(rows, sv, Len(rows))
<1>1. Visible(rows, sv) = VisibleUpto(rows, sv, Len(rows))
  BY DEF Visible, VisibleUpto
<1>. QED  BY <1>1 DEF Upto

\* With the voided rows shown, all are visible.
LEMMA ShownAreUpto ==
    ASSUME NEW rows \in Seq(Row), NEW sv, sv, NEW n \in 0 .. Len(rows)
    PROVE  Upto(rows, sv, n) = n
<1>1. VisibleUpto(rows, sv, n) = 1 .. n  BY DEF Visible, VisibleUpto
<1>2. Cardinality(1 .. n) = n  BY FS_Interval
<1>. QED  BY <1>1, <1>2 DEF Upto

\* Rows that another sequence begins with.
Begins(rows, all) ==
    /\ rows \in Seq(Row) /\ all \in Seq(Row) /\ Len(rows) <= Len(all)
    /\ \A i \in 1 .. Len(rows) : all[i] = rows[i]

LEMMA BeginningsShowAsMuch ==
    ASSUME NEW rows, NEW all, Begins(rows, all), NEW sv, NEW n \in 0 .. Len(rows)
    PROVE  Upto(rows, sv, n) = Upto(all, sv, n)
<1>1. /\ DOMAIN rows = 1 .. Len(rows) /\ DOMAIN all = 1 .. Len(all)
      /\ Len(rows) \in Nat /\ Len(all) \in Nat /\ Len(rows) <= Len(all)
      /\ \A i \in 1 .. Len(rows) : all[i] = rows[i]
  BY DEF Begins
<1>2. ASSUME NEW i \in 1 .. n PROVE i \in Visible(rows, sv) <=> i \in Visible(all, sv)
  <2>1. i \in 1 .. Len(rows) /\ i \in 1 .. Len(all) /\ all[i] = rows[i]  BY <1>1
  <2>. QED  BY <1>1, <2>1 DEF Visible
<1>3. VisibleUpto(rows, sv, n) = VisibleUpto(all, sv, n)  BY <1>2 DEF VisibleUpto
<1>. QED  BY <1>3 DEF Upto

\* Where pages end.
Breaks == {k * PageSize : k \in Nat}

LEMMA BreaksAreApart ==
    /\ Breaks \subseteq Nat /\ 0 \in Breaks
    /\ \A n \in Breaks : n + PageSize \in Breaks
    /\ \A m, n \in Breaks : m < n => m + PageSize <= n
<1>1. PageSize \in Nat /\ PageSize > 0  BY PageSizeIsPositive
<1>2. \A k \in Nat : k * PageSize \in Nat  BY <1>1
<1>3. 0 * PageSize = 0  BY <1>1
<1>4. \A k \in Nat : k * PageSize + PageSize = (k + 1) * PageSize  BY <1>1
<1>5. ASSUME NEW k \in Nat, NEW l \in Nat, k * PageSize < l * PageSize
      PROVE  k * PageSize + PageSize <= l * PageSize
  <2>1. ~(l <= k)
    <3>. SUFFICES ASSUME l <= k PROVE FALSE
      OBVIOUS
    <3>1. l * PageSize <= k * PageSize  BY <1>1
    <3>. QED  BY <1>2, <1>5, <3>1
  <2>2. k + 1 <= l  BY <2>1
  <2>3. (k + 1) * PageSize <= l * PageSize  BY <1>1, <2>2
  <2>. QED  BY <1>4, <2>3
<1>6. Breaks \subseteq Nat /\ 0 \in Breaks  BY <1>2, <1>3 DEF Breaks
<1>7. ASSUME NEW n \in Breaks PROVE n + PageSize \in Breaks
  <2>1. PICK k \in Nat : n = k * PageSize  BY DEF Breaks
  <2>2. k + 1 \in Nat /\ n + PageSize = (k + 1) * PageSize  BY <1>4, <2>1
  <2>. QED  BY <2>2 DEF Breaks
<1>8. ASSUME NEW m \in Breaks, NEW n \in Breaks, m < n PROVE m + PageSize <= n
  <2>1. PICK k \in Nat : m = k * PageSize  BY DEF Breaks
  <2>2. PICK l \in Nat : n = l * PageSize  BY DEF Breaks
  <2>. QED  BY <1>5, <1>8, <2>1, <2>2
<1>. QED  BY <1>6, <1>7, <1>8

\* From c on, d is the first end of a page by which a full page became visible.
Fills(rows, sv, c, d) ==
    /\ d \in Breaks /\ c < d
    /\ Upto(rows, sv, d) >= Upto(rows, sv, c) + PageSize
    /\ \A m \in Breaks : c < m /\ m < d => Upto(rows, sv, m) < Upto(rows, sv, c) + PageSize

\* n is reached from c by steps that fill a page each.
IsClosed(rows, sv, C) == \A c \in C, d \in 1 .. Len(rows) : Fills(rows, sv, c, d) => d \in C
Reaches(rows, sv, c, n) == \A C \in SUBSET Nat : c \in C /\ IsClosed(rows, sv, C) => n \in C

LEMMA PagesFillOnce ==
    ASSUME NEW rows, NEW sv, NEW c \in Nat, NEW d, NEW e,
           Fills(rows, sv, c, d), Fills(rows, sv, c, e)
    PROVE  d = e
<1>1. d \in Nat /\ e \in Nat  BY BreaksAreApart DEF Fills
<1>2. /\ Upto(rows, sv, d) \in Nat /\ Upto(rows, sv, e) \in Nat /\ Upto(rows, sv, c) \in Nat
      /\ PageSize \in Nat
  BY <1>1, MoreRowsShowMore, PageSizeIsPositive
<1>3. ~(d < e)  BY <1>2 DEF Fills
<1>4. ~(e < d)  BY <1>2 DEF Fills
<1>. QED  BY <1>1, <1>3, <1>4

LEMMA ReachesOn ==
    ASSUME NEW rows, NEW sv, NEW c, NEW n, Reaches(rows, sv, c, n),
           NEW d \in 1 .. Len(rows), Fills(rows, sv, n, d)
    PROVE  Reaches(rows, sv, c, d)
  BY DEF Reaches, IsClosed

LEMMA ReachesUp ==
    ASSUME NEW rows \in Seq(Row), NEW sv, NEW c \in Nat, NEW n, Reaches(rows, sv, c, n)
    PROVE  n \in Nat /\ c <= n
<1>. DEFINE C == {x \in Nat : c <= x}
<1>1. C \in SUBSET Nat /\ c \in C  OBVIOUS
<1>2. \A x \in C, d \in 1 .. Len(rows) : Fills(rows, sv, x, d) => d \in C  BY DEF Fills
<1>3. IsClosed(rows, sv, C)
  <2>. HIDE DEF C
  <2>. QED  BY <1>2 DEF IsClosed
<1>4. n \in C
  <2>. HIDE DEF C
  <2>. QED  BY <1>1, <1>3 DEF Reaches
<1>. QED  BY <1>4

LEMMA ReachesByOne ==
    ASSUME NEW rows \in Seq(Row), NEW sv, NEW c \in Nat, NEW n, n # c, Reaches(rows, sv, c, n)
    PROVE  \E d \in 1 .. Len(rows) : Fills(rows, sv, c, d) /\ Reaches(rows, sv, d, n)
<1>. DEFINE Via(x) == \E d \in 1 .. Len(rows) : Fills(rows, sv, c, d) /\ Reaches(rows, sv, d, x)
            C == {x \in Nat : x = c \/ Via(x)}
<1>1. C \in SUBSET Nat /\ c \in C  OBVIOUS
<1>2. ASSUME NEW x \in C, NEW e \in 1 .. Len(rows), Fills(rows, sv, x, e)
      PROVE  e \in C
  <2>1. CASE x = c
    <3>1. Reaches(rows, sv, e, e)  BY DEF Reaches
    <3>. QED  BY <1>2, <2>1, <3>1
  <2>2. CASE x # c
    <3>1. PICK d \in 1 .. Len(rows) : Fills(rows, sv, c, d) /\ Reaches(rows, sv, d, x)
      BY <2>2
    <3>2. Reaches(rows, sv, d, e)  BY <1>2, <3>1, ReachesOn
    <3>. QED  BY <3>1, <3>2
  <2>. QED  BY <2>1, <2>2
<1>3. IsClosed(rows, sv, C)
  <2>. HIDE DEF C
  <2>. QED  BY <1>2 DEF IsClosed
<1>4. n \in C
  <2>. HIDE DEF C
  <2>. QED  BY <1>1, <1>3 DEF Reaches
<1>. QED  BY <1>4

\* What was reached stays so when rows are added.
LEMMA ReachesStill ==
    ASSUME NEW rows, NEW all, Begins(rows, all), NEW sv, NEW c, NEW n, Reaches(rows, sv, c, n)
    PROVE  Reaches(all, sv, c, n)
<1>. SUFFICES ASSUME NEW C \in SUBSET Nat, c \in C, IsClosed(all, sv, C)
              PROVE  n \in C
  BY DEF Reaches
<1>1. Len(rows) \in Nat /\ Len(all) \in Nat /\ Len(rows) <= Len(all)  BY DEF Begins
<1>2. ASSUME NEW x \in C, NEW d \in 1 .. Len(rows), Fills(rows, sv, x, d)
      PROVE  Fills(all, sv, x, d)
  <2>1. x \in 0 .. Len(rows) /\ d \in 0 .. Len(rows)  BY <1>1, <1>2 DEF Fills
  <2>2. /\ Upto(rows, sv, x) = Upto(all, sv, x) /\ Upto(rows, sv, d) = Upto(all, sv, d)
        /\ \A m \in 0 .. Len(rows) : Upto(rows, sv, m) = Upto(all, sv, m)
    BY <2>1, BeginningsShowAsMuch
  <2>3. \A m \in Breaks : m < d => m \in 0 .. Len(rows)  BY <1>1, <2>1, BreaksAreApart
  <2>. QED  BY <1>2, <2>2, <2>3 DEF Fills
<1>3. IsClosed(rows, sv, C)  BY <1>1, <1>2 DEF IsClosed
<1>. QED  BY <1>3 DEF Reaches

\* Of two that were reached by full pages, and one of which begins with the other,
\* the longer shows a page more.
LEMMA NoPageIsSkipped ==
    ASSUME NEW rows, NEW all, Begins(rows, all), Len(rows) < Len(all), NEW sv,
           Reaches(rows, sv, 0, Len(rows)), Reaches(all, sv, 0, Len(all))
    PROVE  Upto(all, sv, Len(all)) >= Upto(rows, sv, Len(rows)) + PageSize
<1>. DEFINE l == Len(rows)
            goal == Upto(all, sv, l) + PageSize
            C == {c \in Nat : \/ c <= l /\ Reaches(all, sv, c, l)
                              \/ Upto(all, sv, c) >= goal}
<1>1. l \in Nat /\ Len(all) \in Nat /\ all \in Seq(Row)  BY DEF Begins
<1>2. Reaches(all, sv, 0, l)  BY ReachesStill
<1>. HIDE DEF l, goal
<1>3. C \in SUBSET Nat /\ 0 \in C  BY <1>1, <1>2
<1>4. ASSUME NEW c \in C, NEW d \in 1 .. Len(all), Fills(all, sv, c, d)
      PROVE  d \in C
  <2>1. c \in Nat /\ d \in Nat /\ c < d  BY <1>1, <1>4 DEF Fills
  <2>2. /\ Upto(all, sv, c) \in Nat /\ Upto(all, sv, d) \in Nat
        /\ Upto(all, sv, c) <= Upto(all, sv, d)
    BY <2>1, MoreRowsShowMore
  <2>3. goal \in Nat
    BY <1>1, MoreRowsShowMore, PageSizeIsPositive DEF goal
  <2>4. CASE Upto(all, sv, c) >= goal  BY <2>1, <2>2, <2>3, <2>4
  <2>5. CASE c = l
    <3>1. Upto(all, sv, d) >= goal  BY <1>4, <2>5 DEF Fills, goal
    <3>. QED  BY <2>1, <3>1
  <2>6. CASE c # l /\ Reaches(all, sv, c, l)
    <3>1. PICK e \in 1 .. Len(all) : Fills(all, sv, c, e) /\ Reaches(all, sv, e, l)
      BY <1>1, <2>1, <2>6, ReachesByOne
    <3>2. e = d  BY <1>4, <2>1, <3>1, PagesFillOnce
    <3>3. d <= l  BY <1>1, <2>1, <3>1, <3>2, ReachesUp
    <3>. QED  BY <2>1, <3>1, <3>2, <3>3
  <2>. QED  BY <2>4, <2>5, <2>6
<1>5. IsClosed(all, sv, C)
  <2>. HIDE DEF C
  <2>. QED  BY <1>4 DEF IsClosed
<1>6. Len(all) \in C
  <2>. HIDE DEF C
  <2>. QED  BY <1>3, <1>5 DEF Reaches
<1>7. Upto(all, sv, Len(all)) >= goal  BY <1>1, <1>6 DEF l
<1>8. Upto(rows, sv, l) = Upto(all, sv, l)  BY <1>1, BeginningsShowAsMuch DEF l
<1>. QED  BY <1>7, <1>8 DEF goal, l

-----------------------------------------------------------------------------
(* How the rows grow.                                                      *)

\* Rows on their way from a stop, n, to a full page more.
GrownFrom(n, rows, sv, target, at) ==
    /\ n \in 0 .. Len(rows) /\ Len(rows) \in Breaks
    /\ Reaches(rows, sv, 0, n)
    /\ target = Upto(rows, sv, n) + PageSize
    /\ \A m \in Breaks : n < m /\ m < Len(rows) => Upto(rows, sv, m) < target
    /\ at \in {"page", "voids"} => n = Len(rows) \/ (~sv /\ Upto(rows, sv, Len(rows)) < target)
    /\ at \in {"count", "done"} => n < Len(rows) /\ (sv => Len(rows) = n + PageSize)
    /\ at = "done" => Upto(rows, sv, Len(rows)) >= target
Grown(rows, sv, target, at) == \E n \in Nat : GrownFrom(n, rows, sv, target, at)

Stop(rows, sv) == Reaches(rows, sv, 0, Len(rows)) /\ Len(rows) \in Breaks

\* Short of the end of the ledger, the panel of the latest load stopped after a full
\* page, and so will its fetches.
FetchGrows(f, sv) ==
    f.cursor # None \/ f.at \in {"page", "voids"} => Grown(f.rows, sv, f.target, f.at)
GrowthInv ==
    /\ shown.load = latest /\ shown.cursor # None => Stop(shown.rows, filters.showVoided)
    /\ \A f \in fetches : f.load = latest => FetchGrows(f, filters.showVoided)

LEMMA GrowthStarts ==
    ASSUME NEW rows \in Seq(Row), NEW sv, Stop(rows, sv)
    PROVE  Grown(rows, sv, Cardinality(Visible(rows, sv)) + PageSize, "page")
<1>1. Len(rows) \in Nat  OBVIOUS
<1>2. Cardinality(Visible(rows, sv)) = Upto(rows, sv, Len(rows))  BY AllAreUpto
<1>3. GrownFrom(Len(rows), rows, sv, Cardinality(Visible(rows, sv)) + PageSize, "page")
  <2>1. \A m \in Breaks : ~(Len(rows) < m /\ m < Len(rows))  BY <1>1, BreaksAreApart
  <2>. QED  BY <1>1, <1>2, <2>1 DEF GrownFrom, Stop
<1>. QED  BY <1>1, <1>3 DEF Grown

LEMMA NothingIsAStop ==
    ASSUME NEW sv
    PROVE  LET none == << >>
           IN  none \in Seq(Row) /\ Stop(none, sv) /\ Cardinality(Visible(none, sv)) = 0
<1>. DEFINE none == << >>
<1>1. none \in Seq(Row) /\ Len(none) = 0 /\ DOMAIN none = {}  OBVIOUS
<1>. HIDE DEF none
<1>2. Visible(none, sv) = {}  BY <1>1 DEF Visible
<1>3. Reaches(none, sv, 0, 0)  BY DEF Reaches
<1>. QED  BY <1>1, <1>2, <1>3, FS_EmptySet, BreaksAreApart DEF Stop, none

\* A full page is added.
LEMMA PagesGrow ==
    ASSUME NEW rows, NEW all, Begins(rows, all), Len(all) = Len(rows) + PageSize,
           NEW sv, NEW target, Grown(rows, sv, target, "voids")
    PROVE  Grown(all, sv, target, "count")
<1>1. PICK n \in Nat : GrownFrom(n, rows, sv, target, "voids")  BY DEF Grown
<1>2. /\ n \in 0 .. Len(rows) /\ Len(rows) \in Breaks
      /\ Reaches(rows, sv, 0, n)
      /\ target = Upto(rows, sv, n) + PageSize
      /\ \A m \in Breaks : n < m /\ m < Len(rows) => Upto(rows, sv, m) < target
      /\ n = Len(rows) \/ (~sv /\ Upto(rows, sv, Len(rows)) < target)
  BY <1>1 DEF GrownFrom
<1>3. /\ Len(rows) \in Nat /\ Len(all) \in Nat /\ PageSize \in Nat /\ PageSize > 0
      /\ Len(all) \in Breaks
  <2>1. Len(rows) + PageSize \in Breaks  BY <1>2, BreaksAreApart
  <2>. QED  BY <2>1, PageSizeIsPositive DEF Begins
<1>4. \A m \in 0 .. Len(rows) : Upto(rows, sv, m) = Upto(all, sv, m)
  BY BeginningsShowAsMuch
<1>5. Reaches(all, sv, 0, n)  BY <1>2, ReachesStill
<1>6. ASSUME NEW m \in Breaks, n < m, m < Len(all) PROVE Upto(all, sv, m) < target
  <2>1. m \in Nat  BY BreaksAreApart
  <2>2. ~(Len(rows) < m)
    <3>. SUFFICES ASSUME Len(rows) < m PROVE FALSE
      OBVIOUS
    <3>1. Len(rows) + PageSize <= m  BY <1>2, BreaksAreApart
    <3>. QED  BY <1>3, <1>6, <2>1, <3>1
  <2>3. m \in 0 .. Len(rows)  BY <1>3, <2>1, <2>2
  <2>4. Upto(rows, sv, m) < target
    <3>1. CASE m = Len(rows)  BY <1>2, <1>6, <3>1
    <3>2. CASE m < Len(rows)  BY <1>2, <1>6, <3>2
    <3>. QED  BY <1>3, <2>1, <2>2, <3>1, <3>2
  <2>. QED  BY <1>4, <2>3, <2>4
<1>7. n \in 0 .. Len(all) /\ n < Len(all)  BY <1>2, <1>3
<1>8. target = Upto(all, sv, n) + PageSize  BY <1>2, <1>4
<1>9. sv => Len(all) = n + PageSize  BY <1>2
<1>10. GrownFrom(n, all, sv, target, "count")
  BY <1>3, <1>5, <1>6, <1>7, <1>8, <1>9 DEF GrownFrom
<1>. QED  BY <1>10 DEF Grown

\* The loop goes on while less than a page of visible rows was added.
LEMMA LoopsGrow ==
    ASSUME NEW rows \in Seq(Row), NEW sv, NEW target, Grown(rows, sv, target, "count"),
           NEW more, more <=> ~sv /\ Cardinality(Visible(rows, FALSE)) < target
    PROVE  Grown(rows, sv, target, IF more THEN "page" ELSE "done")
<1>1. PICK n \in Nat : GrownFrom(n, rows, sv, target, "count")  BY DEF Grown
<1>2. /\ n \in 0 .. Len(rows) /\ Len(rows) \in Breaks
      /\ Reaches(rows, sv, 0, n)
      /\ target = Upto(rows, sv, n) + PageSize
      /\ \A m \in Breaks : n < m /\ m < Len(rows) => Upto(rows, sv, m) < target
      /\ n < Len(rows) /\ (sv => Len(rows) = n + PageSize)
  BY <1>1 DEF GrownFrom
<1>3. Len(rows) \in Nat  OBVIOUS
<1>4. Upto(rows, sv, n) \in Nat /\ Upto(rows, sv, Len(rows)) \in Nat /\ PageSize \in Nat
  BY <1>2, <1>3, MoreRowsShowMore, PageSizeIsPositive
<1>5. ~sv => Cardinality(Visible(rows, FALSE)) = Upto(rows, sv, Len(rows))
  <2>. SUFFICES ASSUME ~sv PROVE Cardinality(Visible(rows, FALSE)) = Upto(rows, sv, Len(rows))
    OBVIOUS
  <2>1. Visible(rows, FALSE) = Visible(rows, sv)  BY DEF Visible
  <2>. QED  BY <2>1, AllAreUpto
<1>6. CASE more
  <2>1. ~sv /\ Upto(rows, sv, Len(rows)) < target  BY <1>5, <1>6
  <2>2. GrownFrom(n, rows, sv, target, "page")  BY <1>2, <2>1 DEF GrownFrom
  <2>. QED  BY <1>6, <2>2 DEF Grown
<1>7. CASE ~more
  <2>1. Upto(rows, sv, Len(rows)) >= target
    <3>1. CASE sv
      <4>1. Len(rows) \in 0 .. Len(rows)  BY <1>3
      <4>2. Upto(rows, sv, Len(rows)) = Len(rows)  BY <3>1, <4>1, ShownAreUpto
      <4>3. Upto(rows, sv, n) = n  BY <1>2, <3>1, ShownAreUpto
      <4>4. Len(rows) = n + PageSize  BY <1>2, <3>1, Zenon
      <4>5. target = n + PageSize  BY <1>2, <4>3
      <4>. QED  BY <1>3, <4>2, <4>4, <4>5
    <3>2. CASE ~sv
      <4>1. target \in Nat  BY <1>2, <1>4
      <4>2. Cardinality(Visible(rows, FALSE)) = Upto(rows, sv, Len(rows))  BY <1>5, <3>2
      <4>3. ~(Cardinality(Visible(rows, FALSE)) < target)  BY <1>7, <3>2, Zenon
      <4>4. ~(Upto(rows, sv, Len(rows)) < target)  BY <4>2, <4>3, Zenon
      <4>. DEFINE u == Upto(rows, sv, Len(rows))
      <4>5. u \in Nat /\ ~(u < target)  BY <1>4, <4>4
      <4>. HIDE DEF u
      <4>6. u >= target  BY <4>1, <4>5
      <4>. QED  BY <4>6 DEF u
    <3>. QED  BY <3>1, <3>2
  <2>2. GrownFrom(n, rows, sv, target, "done")  BY <1>2, <2>1 DEF GrownFrom
  <2>. QED  BY <1>7, <2>2 DEF Grown
<1>. QED  BY <1>6, <1>7

\* Where it ends it stops after a full page, from wherever it began.
LEMMA GrownStops ==
    ASSUME NEW rows \in Seq(Row), NEW sv, NEW target, Grown(rows, sv, target, "done")
    PROVE  Stop(rows, sv) /\ Cardinality(Visible(rows, sv)) >= PageSize
<1>1. PICK n \in Nat : GrownFrom(n, rows, sv, target, "done")  BY DEF Grown
<1>2. /\ n \in 0 .. Len(rows) /\ Len(rows) \in Breaks
      /\ Reaches(rows, sv, 0, n)
      /\ target = Upto(rows, sv, n) + PageSize
      /\ \A m \in Breaks : n < m /\ m < Len(rows) => Upto(rows, sv, m) < target
      /\ n < Len(rows) /\ Upto(rows, sv, Len(rows)) >= target
  BY <1>1 DEF GrownFrom
<1>3. Len(rows) \in 1 .. Len(rows)  BY <1>2
<1>4. Fills(rows, sv, n, Len(rows))  BY <1>2 DEF Fills
<1>5. Reaches(rows, sv, 0, Len(rows))  BY <1>2, <1>3, <1>4, ReachesOn
<1>6. Upto(rows, sv, n) \in Nat /\ PageSize \in Nat /\ Upto(rows, sv, Len(rows)) \in Nat
  BY <1>2, <1>3, MoreRowsShowMore, PageSizeIsPositive
<1>7. Upto(rows, sv, Len(rows)) >= PageSize  BY <1>2, <1>6
<1>. QED  BY <1>2, <1>5, <1>7, AllAreUpto DEF Stop

LEMMA GrowthOfLoads ==
    ASSUME PanelInv, GrowthInv, Load
    PROVE  GrowthInv'
<1>. DEFINE none == << >>
            g == Fetch("load", filters', none, None, started + 1, {})
            sv == filters'.showVoided
<1>1. /\ fetches' = (fetches \ Loads) \cup {g} /\ latest' = started + 1 /\ shown' = shown
  BY DEF Load
<1>2. /\ latest \in 0 .. started /\ started \in Nat /\ shown.load \in 0 .. latest
      /\ \A f \in fetches : f.load \in 0 .. latest
  BY DEF PanelInv, ShownInv, FetchInv
<1>3. shown'.load # latest' /\ \A f \in fetches : f.load # latest'  BY <1>1, <1>2
<1>4. /\ g.rows = none /\ g.at = "page"
      /\ g.target = Cardinality(Visible(none, sv)) + PageSize
  BY DEF Fetch
<1>5. Grown(none, sv, Cardinality(Visible(none, sv)) + PageSize, "page")
  BY NothingIsAStop, GrowthStarts
<1>. HIDE DEF g, none, sv
<1>6. FetchGrows(g, sv)  BY <1>4, <1>5 DEF FetchGrows
<1>7. \A f \in fetches' : f.load = latest' => FetchGrows(f, sv)  BY <1>1, <1>3, <1>6
<1>. QED  BY <1>1, <1>3, <1>7 DEF GrowthInv, sv

LEMMA GrowthOfMore ==
    ASSUME PanelInv, GrowthInv, LoadMore
    PROVE  GrowthInv'
<1>. DEFINE g == Fetch("more", filters, shown.rows, shown.cursor, shown.load, shown.known)
            sv == filters.showVoided
<1>1. /\ fetches' = fetches \cup {g} /\ shown.cursor # None
      /\ latest' = latest /\ shown' = shown /\ filters' = filters
  BY DEF LoadMore
<1>2. /\ g.rows = shown.rows /\ g.at = "page" /\ g.load = shown.load
      /\ g.target = Cardinality(Visible(shown.rows, sv)) + PageSize
  BY DEF Fetch
<1>3. shown.rows \in Seq(Row)  BY DEF PanelInv, ShownInv, Marked
<1>. HIDE DEF g, sv
<1>4. g.load = latest => FetchGrows(g, sv)
  <2>. SUFFICES ASSUME g.load = latest PROVE FetchGrows(g, sv)
    OBVIOUS
  <2>1. Stop(shown.rows, sv)  BY <1>1, <1>2 DEF GrowthInv, sv
  <2>2. Grown(shown.rows, sv, Cardinality(Visible(shown.rows, sv)) + PageSize, "page")
    BY <1>3, <2>1, GrowthStarts
  <2>. QED  BY <1>2, <2>2 DEF FetchGrows
<1>. QED  BY <1>1, <1>4 DEF GrowthInv, sv

\* What a SELECT of the latest load leaves.
LEMMA GrowthOfServing ==
    ASSUME PanelInv, GrowthInv, NEW f \in fetches, f.load = latest, NEW g,
           \/ f.at = "page" /\ g = [f EXCEPT !.page = Page(ledger, f.filters.category, f.cursor),
                                             !.known = IF f.cursor = None THEN ledger ELSE @,
                                             !.at = "voids"]
           \/ f.at = "voids" /\ g = [f EXCEPT !.rows = @ \o LedgerRows(f.page, ledger),
                                              !.cursor = NextCursor(f.page),
                                              !.page = << >>, !.at = "count"]
           \/ f.at = "count" /\ g = [f EXCEPT !.total = Total(f),
                                              !.at = IF GoesOn(f) THEN "page" ELSE "done"]
    PROVE  FetchGrows(g, filters.showVoided)
<1>. DEFINE sv == filters.showVoided
<1>1. /\ DOMAIN f = FetchFields /\ f.rows \in Seq(Row) /\ f.page \in Seq(Events)
      /\ f.filters = filters /\ Len(f.page) <= PageSize + 1
  BY DEF PanelInv, FetchInv, Marked
<1>2. FetchGrows(f, sv)  BY DEF GrowthInv
<1>3. ASSUME f.at = "page",
             g = [f EXCEPT !.page = Page(ledger, f.filters.category, f.cursor),
                           !.known = IF f.cursor = None THEN ledger ELSE @,
                           !.at = "voids"]
      PROVE  FetchGrows(g, sv)
  <2>1. g.rows = f.rows /\ g.target = f.target /\ g.at = "voids"
    BY <1>1, <1>3 DEF FetchFields
  <2>2. Grown(f.rows, sv, f.target, "page")  BY <1>2, <1>3 DEF FetchGrows
  <2>3. Grown(f.rows, sv, f.target, "voids")  BY <2>2 DEF Grown, GrownFrom
  <2>. HIDE DEF sv
  <2>. QED  BY <2>1, <2>3 DEF FetchGrows
<1>4. ASSUME f.at = "voids",
             g = [f EXCEPT !.rows = @ \o LedgerRows(f.page, ledger),
                           !.cursor = NextCursor(f.page),
                           !.page = << >>, !.at = "count"]
      PROVE  FetchGrows(g, sv)
  <2>. DEFINE more == LedgerRows(f.page, ledger)
              all == f.rows \o more
  <2>1. g.rows = all /\ g.cursor = NextCursor(f.page) /\ g.target = f.target /\ g.at = "count"
    BY <1>1, <1>4 DEF FetchFields
  <2>2. Grown(f.rows, sv, f.target, "voids")  BY <1>2, <1>4 DEF FetchGrows
  <2>3. /\ more \in Seq(Row)
        /\ Len(more) = IF Len(f.page) <= PageSize THEN Len(f.page) ELSE PageSize
    BY <1>1, RowsAreOfPages
  <2>. HIDE DEF more, sv
  <2>4. /\ all \in Seq(Row) /\ Len(all) = Len(f.rows) + Len(more)
        /\ Len(f.rows) \in Nat /\ Len(more) \in Nat
        /\ \A i \in 1 .. Len(f.rows) : all[i] = f.rows[i]
    BY <1>1, <2>3
  <2>. HIDE DEF all
  <2>5. Begins(f.rows, all)  BY <1>1, <2>4 DEF Begins
  <2>6. ASSUME NextCursor(f.page) # None PROVE Grown(all, sv, f.target, "count")
    <3>1. Len(f.page) > PageSize  BY <2>6 DEF NextCursor
    <3>2. Len(more) = PageSize  BY <1>1, <2>3, <3>1, PageSizeIsPositive
    <3>. QED  BY <2>2, <2>4, <2>5, <3>2, PagesGrow
  <2>. QED  BY <2>1, <2>6 DEF FetchGrows
<1>5. ASSUME f.at = "count",
             g = [f EXCEPT !.total = Total(f), !.at = IF GoesOn(f) THEN "page" ELSE "done"]
      PROVE  FetchGrows(g, sv)
  <2>1. /\ g.rows = f.rows /\ g.cursor = f.cursor /\ g.target = f.target
        /\ g.at = IF GoesOn(f) THEN "page" ELSE "done"
    BY <1>1, <1>5 DEF FetchFields
  <2>2. GoesOn(f) => f.cursor # None  BY DEF GoesOn
  <2>. HIDE DEF sv
  <2>3. ASSUME f.cursor # None PROVE Grown(f.rows, sv, f.target, g.at)
    <3>1. Grown(f.rows, sv, f.target, "count")  BY <1>2, <1>5, <2>3 DEF FetchGrows
    <3>2. GoesOn(f) <=> ~sv /\ Cardinality(Visible(f.rows, FALSE)) < f.target
      BY <1>1, <2>3 DEF GoesOn, sv
    <3>3. Grown(f.rows, sv, f.target, IF GoesOn(f) THEN "page" ELSE "done")
      BY <1>1, <3>1, <3>2, LoopsGrow
    <3>. QED  BY <2>1, <3>3
  <2>. QED  BY <2>1, <2>2, <2>3 DEF FetchGrows
<1>. QED  BY <1>3, <1>4, <1>5

LEMMA GrowthInvHolds == Spec => [](PanelInv /\ GrowthInv)
<1>1. Init => GrowthInv
  BY NothingIsAStop DEF Init, GrowthInv
<1>2. PanelInv /\ GrowthInv /\ [Next]_vars => GrowthInv'
  <2>. SUFFICES ASSUME PanelInv, GrowthInv, [Next]_vars PROVE GrowthInv'
    OBVIOUS
  <2>1. CASE Append1  BY <2>1 DEF Append1, GrowthInv
  <2>2. CASE ApplyFilters  BY <2>2, GrowthOfLoads DEF ApplyFilters
  <2>3. CASE Refresh  BY <2>3, GrowthOfLoads DEF Refresh
  <2>4. CASE OpenTab  BY <2>4, GrowthOfLoads DEF OpenTab
  <2>5. CASE LeaveTab  BY <2>5 DEF LeaveTab, GrowthInv
  <2>6. CASE LoadMore  BY <2>6, GrowthOfMore
  <2>7. ASSUME NEW f \in fetches, Serve(f) \/ Fail(f) PROVE GrowthInv'
    <3>1. ASSUME NEW g, Replace(f, g), g.load = f.load,
                 f.load = latest => FetchGrows(g, filters.showVoided)
          PROVE  GrowthInv'
      <4>1. \A h \in fetches' : h.load = latest => FetchGrows(h, filters.showVoided)
        BY <3>1 DEF Replace, GrowthInv
      <4>. QED  BY <3>1, <4>1 DEF Replace, GrowthInv
    <3>2. DOMAIN f = FetchFields  BY DEF PanelInv, FetchInv
    <3>3. CASE ReadPage(f)
      <4>. DEFINE g == [f EXCEPT !.page = Page(ledger, f.filters.category, f.cursor),
                                 !.known = IF f.cursor = None THEN ledger ELSE @,
                                 !.at = "voids"]
      <4>1. Replace(f, g) /\ f.at = "page"  BY <3>3 DEF ReadPage
      <4>2. g.load = f.load  BY <3>2 DEF FetchFields
      <4>3. f.load = latest => FetchGrows(g, filters.showVoided)  BY <4>1, GrowthOfServing
      <4>. HIDE DEF g
      <4>. QED  BY <3>1, <4>1, <4>2, <4>3
    <3>4. CASE ReadVoids(f)
      <4>. DEFINE g == [f EXCEPT !.rows = @ \o LedgerRows(f.page, ledger),
                                 !.cursor = NextCursor(f.page),
                                 !.page = << >>, !.at = "count"]
      <4>1. Replace(f, g) /\ f.at = "voids"  BY <3>4 DEF ReadVoids
      <4>2. g.load = f.load  BY <3>2 DEF FetchFields
      <4>3. f.load = latest => FetchGrows(g, filters.showVoided)  BY <4>1, GrowthOfServing
      <4>. HIDE DEF g
      <4>. QED  BY <3>1, <4>1, <4>2, <4>3
    <3>5. CASE ReadCount(f)
      <4>. DEFINE g == [f EXCEPT !.total = Total(f),
                                 !.at = IF GoesOn(f) THEN "page" ELSE "done"]
      <4>1. Replace(f, g) /\ f.at = "count"  BY <3>5 DEF ReadCount
      <4>2. g.load = f.load  BY <3>2 DEF FetchFields
      <4>3. f.load = latest => FetchGrows(g, filters.showVoided)  BY <4>1, GrowthOfServing
      <4>. HIDE DEF g
      <4>. QED  BY <3>1, <4>1, <4>2, <4>3
    <3>6. CASE Answer(f)
      <4>1. /\ shown'.rows = f.rows /\ shown'.cursor = f.cursor /\ shown'.load = f.load
            /\ f.at = "done" /\ fetches' \subseteq fetches
            /\ filters' = filters /\ latest' = latest
        BY <3>6 DEF Answer
      <4>2. f.rows \in Seq(Row)  BY DEF PanelInv, FetchInv, Marked
      <4>3. ASSUME f.load = latest, f.cursor # None PROVE Stop(f.rows, filters.showVoided)
        <5>1. Grown(f.rows, filters.showVoided, f.target, "done")
          BY <4>1, <4>3 DEF GrowthInv, FetchGrows
        <5>. QED  BY <4>2, <5>1, GrownStops
      <4>. QED  BY <4>1, <4>3 DEF GrowthInv
    <3>7. CASE Fail(f)  BY <3>7 DEF Fail, GrowthInv
    <3>. QED  BY <2>7, <3>3, <3>4, <3>5, <3>6, <3>7 DEF Serve
  <2>8. CASE UNCHANGED vars  BY <2>8 DEF vars, GrowthInv
  <2>. QED  BY <2>1, <2>2, <2>3, <2>4, <2>5, <2>6, <2>7, <2>8 DEF Next
<1>. QED  BY <1>1, <1>2, PanelInvHolds, PTL DEF Spec

\* fetchUntilVisible: the rows the panel shows grow by a full page of visible ones,
\* however many are hidden and whatever is appended meanwhile, or reach the end of the
\* ledger, also where two load-mores of one load overlap.  Rows that stop at a full
\* page stop at the same places whoever fetches them.
THEOREM LoadMoresFillAPage == Spec => MoreShowsMore
<1>. DEFINE grows == /\ shown.load = shown'.load /\ shown.cursor # None
                     /\ IsPrefix(shown.rows, shown'.rows)
            before == IF grows THEN shown.rows ELSE << >>
            Filled == \/ shown'.cursor = None
                      \/ Cardinality(Visible(shown'.rows, filters'.showVoided))
                             >= Cardinality(Visible(before, filters'.showVoided)) + PageSize
            A == shown'.rows # shown.rows /\ Fresh' => Filled
<1>1. ASSUME PanelInv, GrowthInv, (PanelInv /\ GrowthInv)', [Next]_vars,
             shown'.rows # shown.rows, Fresh'
      PROVE  Filled
  <2>1. PICK f \in fetches : Answer(f)
    <3>1. shown' # shown  BY <1>1
    <3>2. CASE Next
      <4>1. ~Load  BY <3>1 DEF Load
      <4>2. ~Append1 /\ ~ApplyFilters /\ ~Refresh /\ ~OpenTab /\ ~LeaveTab /\ ~LoadMore
        BY <3>1, <4>1 DEF Append1, ApplyFilters, Refresh, OpenTab, LeaveTab, LoadMore
      <4>3. \A g : ~Fail(g) /\ ~ReadPage(g) /\ ~ReadVoids(g) /\ ~ReadCount(g)
        BY <3>1 DEF Fail, ReadPage, ReadVoids, ReadCount, Replace
      <4>. QED  BY <3>2, <4>2, <4>3 DEF Next, Serve
    <3>. QED  BY <1>1, <3>1, <3>2 DEF vars
  <2>. DEFINE sv == filters.showVoided
              rows == shown.rows
              all == shown'.rows
  <2>2. /\ all = f.rows /\ shown'.cursor = f.cursor /\ shown'.load = f.load
        /\ f.at = "done" /\ filters' = filters /\ latest' = latest
    BY <2>1 DEF Answer
  <2>3. f.load = latest  BY <1>1, <2>2 DEF Fresh
  <2>. SUFFICES ASSUME shown'.cursor # None PROVE Filled
    OBVIOUS
  <2>4. rows \in Seq(Row) /\ all \in Seq(Row)
    BY <1>1, <2>2 DEF PanelInv, ShownInv, FetchInv, Marked
  <2>5. Grown(all, sv, f.target, "done")  BY <1>1, <2>2, <2>3 DEF GrowthInv, FetchGrows
  <2>6. Stop(all, sv) /\ Cardinality(Visible(all, sv)) >= PageSize
    BY <2>4, <2>5, GrownStops
  <2>7. CASE ~grows
    <3>. DEFINE none == << >>
    <3>1. Cardinality(Visible(none, sv)) = 0  BY NothingIsAStop
    <3>2. Cardinality(Visible(all, sv)) = Upto(all, sv, Len(all)) /\ Len(all) \in Nat
      BY <2>4, AllAreUpto
    <3>3. Upto(all, sv, Len(all)) \in Nat  BY <3>2, MoreRowsShowMore
    <3>4. before = none  BY <2>7
    <3>. HIDE DEF none, before, grows, sv, all
    <3>5. Cardinality(Visible(all, sv)) >= Cardinality(Visible(before, sv)) + PageSize
      BY <2>6, <3>1, <3>2, <3>3, <3>4, PageSizeIsPositive
    <3>. QED  BY <2>2, <3>5 DEF all, sv
  <2>8. CASE grows
    <3>1. Stop(rows, sv)  BY <1>1, <2>2, <2>3, <2>8 DEF GrowthInv
    <3>2. Begins(rows, all) /\ Len(rows) < Len(all)
      <4>1. Len(rows) <= Len(all) /\ SubSeq(rows, 1, Len(rows)) = SubSeq(all, 1, Len(rows))
        BY <2>8 DEF IsPrefix
      <4>2. rows # all  BY <1>1
      <4>. HIDE DEF rows, all
      <4>3. Len(rows) \in Nat /\ Len(all) \in Nat  BY <2>4
      <4>4. ASSUME NEW i \in 1 .. Len(rows) PROVE all[i] = rows[i]
        <5>1. /\ SubSeq(rows, 1, Len(rows))[i] = rows[i]
              /\ SubSeq(all, 1, Len(rows))[i] = all[i]
          BY <2>4, <4>1, <4>3
        <5>. QED  BY <4>1, <5>1
      <4>5. Len(rows) # Len(all)
        <5>. SUFFICES ASSUME Len(rows) = Len(all) PROVE FALSE
          OBVIOUS
        <5>1. rows = all  BY <2>4, <4>4
        <5>. QED  BY <4>2, <5>1
      <4>. QED  BY <2>4, <4>1, <4>3, <4>4, <4>5 DEF Begins
    <3>3. before = rows  BY <2>8
    <3>. HIDE DEF before, grows, sv, rows, all
    <3>4. Upto(all, sv, Len(all)) >= Upto(rows, sv, Len(rows)) + PageSize
      BY <2>6, <3>1, <3>2, NoPageIsSkipped DEF Stop
    <3>5. /\ Cardinality(Visible(all, sv)) = Upto(all, sv, Len(all))
          /\ Cardinality(Visible(rows, sv)) = Upto(rows, sv, Len(rows))
      BY <2>4, AllAreUpto
    <3>6. Cardinality(Visible(all, sv)) >= Cardinality(Visible(before, sv)) + PageSize
      BY <3>3, <3>4, <3>5
    <3>. QED  BY <2>2, <3>6 DEF all, sv
  <2>. QED  BY <2>7, <2>8
<1>2. PanelInv /\ GrowthInv /\ (PanelInv /\ GrowthInv)' /\ [Next]_vars => A  BY <1>1
<1>3. MoreShowsMore <=> [][A]_vars  BY DEF MoreShowsMore
<1>. HIDE DEF A
<1>. QED  BY <1>2, <1>3, GrowthInvHolds, PTL DEF Spec
=============================================================================
