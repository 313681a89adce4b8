---------------------------- MODULE LedgerPanel ----------------------------
(***************************************************************************)
(* The browser's ledger panel over GET /ledger.  It accumulates pages while *)
(* the ledger grows; its requests overlap and are answered in any order.  A *)
(* new filter, a refresh and a return to the tab load from the top and drop *)
(* the load before, but not a load-more that is under way.                  *)
(***************************************************************************)
EXTENDS LedgerPages

CONSTANTS
    Stored,      \* the ledger to begin with
    Candidates,  \* events that may be appended
    Filters,     \* [category, showVoided]
    MaxFetches   \* bound on loads and load-mores together

Events == Stored \cup Candidates

\* The ledger's order is total: event_id is its primary key.
ASSUME EventsAreIdentified ==
    /\ IsFiniteSet(Stored)
    /\ \A e, f \in Events : /\ e.date \in Int /\ e.recordedAt \in Int /\ e.id \in Int
                            /\ e.id = f.id => e = f
                            /\ Cursor(e) # None

VARIABLES
    ledger,   \* the committed events
    active,   \* the panel's tab is open
    filters,  \* applied
    busy,     \* the buttons are disabled
    shown,    \* rows, nextCursor and totalCount; the load they grew from, and
              \* the ledger as that load first read it
    fetches,  \* fetchUntilVisible under way, a load or a load-more
    started,  \* how many were started
    latest    \* the latest load

vars == <<ledger, active, filters, busy, shown, fetches, started, latest>>

\* visibleRows, by their positions.
Visible(rows, showVoided) ==
    {i \in DOMAIN rows : showVoided \/ (~rows[i].isVoided /\ rows[i].event.type # "void")}

\* fetchUntilVisible(filters, startCursor, already), before its first request.
Fetch(kind, f, already, cursor, load, known) ==
    [id |-> started + 1, kind |-> kind, filters |-> f, rows |-> already, cursor |-> cursor,
     target |-> Cardinality(Visible(already, f.showVoided)) + PageSize,
     total |-> 0, page |-> << >>, at |-> "page", load |-> load, known |-> known]

Loads == {f \in fetches : f.kind = "load"}

-----------------------------------------------------------------------------
Init ==
    /\ ledger = Stored
    /\ active = FALSE
    /\ filters = [category |-> None, showVoided |-> FALSE]
    /\ busy = FALSE
    /\ shown = [rows |-> << >>, cursor |-> None, total |-> 0, load |-> 0, known |-> {}]
    /\ fetches = {}
    /\ started = 0
    /\ latest = 0

\* Anybody appends an entry or a void, backdated or not.
Append1 ==
    /\ \E e \in Candidates \ ledger :
           /\ e.type = "void" => \E x \in ledger : x.id = e.target
           /\ ledger' = ledger \cup {e}
    /\ UNCHANGED <<active, filters, busy, shown, fetches, started, latest>>

\* The effect: the load before is cancelled, whose answer will be dropped.
Load ==
    /\ started < MaxFetches
    /\ fetches' = (fetches \ Loads)
                      \cup {Fetch("load", filters', << >>, None, started + 1, {})}
    /\ busy' = TRUE
    /\ started' = started + 1
    /\ latest' = started + 1
    /\ UNCHANGED <<ledger, shown>>

\* The button is disabled while busy, the box for voided rows is not.
ApplyFilters ==
    /\ active
    /\ \E f \in Filters :
           /\ busy => f.showVoided # filters.showVoided
           /\ filters' = f
    /\ UNCHANGED active
    /\ Load

Refresh ==
    /\ active
    /\ UNCHANGED <<active, filters>>
    /\ Load

OpenTab ==
    /\ ~active
    /\ active' = TRUE
    /\ UNCHANGED filters
    /\ Load

LeaveTab ==
    /\ active
    /\ active' = FALSE
    /\ fetches' = fetches \ Loads
    /\ UNCHANGED <<ledger, filters, busy, shown, started, latest>>

LoadMore ==
    /\ active /\ ~busy /\ shown.cursor # None
    /\ started < MaxFetches
    /\ fetches' = fetches \cup
           {Fetch("more", filters, shown.rows, shown.cursor, shown.load, shown.known)}
    /\ busy' = TRUE
    /\ started' = started + 1
    /\ UNCHANGED <<ledger, active, filters, shown, latest>>

-----------------------------------------------------------------------------
(* read_ledger, a SELECT at a time.                                        *)

Replace(f, g) ==
    /\ fetches' = (fetches \ {f}) \cup {g}
    /\ UNCHANGED <<ledger, active, filters, busy, shown, started, latest>>

ReadPage(f) ==
    /\ f.at = "page"
    /\ Replace(f, [f EXCEPT !.page = Page(ledger, f.filters.category, f.cursor),
                            !.known = IF f.cursor = None THEN ledger ELSE @,
                            !.at = "voids"])

ReadVoids(f) ==
    /\ f.at = "voids"
    /\ Replace(f, [f EXCEPT !.rows = @ \o LedgerRows(f.page, ledger),
                            !.cursor = NextCursor(f.page),
                            !.page = << >>, !.at = "count"])

\* Mutant: the loop counts rows, hidden ones included.
GoesOnByRows(f) ==
    ~f.filters.showVoided /\ Len(f.rows) < f.target /\ f.cursor # None

\* The loop of fetchUntilVisible: hidden rows do not fill a page.
GoesOn(f) ==
    ~f.filters.showVoided /\ Cardinality(Visible(f.rows, FALSE)) < f.target /\ f.cursor # None

\* total_count is of the filtered set, not of the page.
Total(f) == Cardinality(Matching(ledger, f.filters.category))

ReadCount(f) ==
    /\ f.at = "count"
    /\ Replace(f, [f EXCEPT !.total = Total(f), !.at = IF GoesOn(f) THEN "page" ELSE "done"])

-----------------------------------------------------------------------------
\* The last answer arrives, whatever the panel shows by now.
Answer(f) ==
    /\ f.at = "done"
    /\ shown' = [rows |-> f.rows, cursor |-> f.cursor, total |-> f.total,
                 load |-> f.load, known |-> f.known]
    /\ busy' = FALSE
    /\ fetches' = fetches \ {f}
    /\ UNCHANGED <<ledger, active, filters, started, latest>>

\* Mutant: only a success enables the buttons again.
FailBusy(f) ==
    /\ f.at # "done"
    /\ fetches' = fetches \ {f}
    /\ UNCHANGED <<ledger, active, filters, busy, shown, started, latest>>

\* A request fails: a message flashes, the rows stay.
Fail(f) ==
    /\ f.at # "done"
    /\ busy' = FALSE
    /\ fetches' = fetches \ {f}
    /\ UNCHANGED <<ledger, active, filters, shown, started, latest>>

Serve(f) == ReadPage(f) \/ ReadVoids(f) \/ ReadCount(f) \/ Answer(f)

Next ==
    \/ Append1 \/ ApplyFilters \/ Refresh \/ OpenTab \/ LeaveTab \/ LoadMore
    \/ \E f \in fetches : Serve(f) \/ Fail(f)

\* The server answers what it is asked; nothing makes a reader click.
Fairness == \A i \in 1 .. MaxFetches : WF_vars(\E f \in fetches : f.id = i /\ Serve(f))

Spec == Init /\ [][Next]_vars /\ Fairness

-----------------------------------------------------------------------------
(* Properties.                                                             *)

\* The rows come from the latest load.  (A load-more that began before a load
\* and is answered after it replaces the rows by those it grew from.)
Fresh == active /\ Loads = {} /\ shown.load = latest

\* list_events: pages neither skip nor repeat a row when events are appended
\* between them.  Whatever was stored when the load began, matches and is not
\* after the cursor is among the rows, in order and once.
PagesNeitherSkipNorRepeat ==
    Fresh =>
        /\ \A i \in 1 .. Len(shown.rows) - 1 :
              Precedes(shown.rows[i + 1].event, shown.rows[i].event)
        /\ \A r \in ToSet(shown.rows) : r.event \in Matching(ledger, filters.category)
        /\ \A e \in Matching(shown.known, filters.category) :
              \/ \E r \in ToSet(shown.rows) : r.event = e
              \/ shown.cursor # None /\ Precedes(e, shown.cursor)

\* build_voided_index: a row is marked even when its void is on another page.
\* Where a void is shown, its target is marked, on the same page or further down.
VoidsShowOnTheirTargets ==
    \A i, j \in DOMAIN shown.rows :
        /\ i <= j
        /\ shown.rows[i].event.type = "void"
        /\ shown.rows[i].event.target = shown.rows[j].event.id
        => shown.rows[j].isVoided

\* fetchUntilVisible: rows that grow, or that a load brings, grow by a full page of
\* visible ones, however many are hidden, or reach the end of the ledger.  (Two
\* load-mores of one load may overlap: one from before that load enables the
\* button when it ends.  The later answer then replaces the rows of the other,
\* and where these had reached the end, with fewer than a page more.)
MoreShowsMore ==
    [][shown'.rows # shown.rows /\ Fresh' =>
        LET grows == /\ shown.load = shown'.load /\ shown.cursor # None
                     /\ IsPrefix(shown.rows, shown'.rows)
            before == IF grows THEN shown.rows ELSE << >>
        IN  \/ shown'.cursor = None
            \/ Cardinality(Visible(shown'.rows, filters'.showVoided))
                   >= Cardinality(Visible(before, filters'.showVoided)) + PageSize]_vars

\* setBusy: the buttons of an open panel come back.
BusyEnds == active /\ busy ~> ~(active /\ busy)
=============================================================================
