---------------------------- MODULE LedgerPages ----------------------------
(***************************************************************************)
(* GET /ledger: the ledger as entered, newest first, a page at a time, with *)
(* a keyset cursor.  Pure operators over the stored events.                 *)
(***************************************************************************)
EXTENDS Integers, Sequences, FiniteSets, SequencesExt

CONSTANTS
    None,     \* no filter, no cursor
    PageSize  \* rows asked for

ASSUME PageSizeIsPositive == PageSize \in Nat \ {0}

\* The canonical order of the ledger: (date, recorded_at, event_id).
Precedes(e, c) ==
    \/ e.date < c.date
    \/ e.date = c.date /\ e.recordedAt < c.recordedAt
    \/ e.date = c.date /\ e.recordedAt = c.recordedAt /\ e.id < c.id

Cursor(e) == [date |-> e.date, recordedAt |-> e.recordedAt, id |-> e.id]

\* Mutant: the cursor compares dates alone.
AfterByDate(e, cursor) == cursor = None \/ e.date < cursor.date

\* list_events, newest first: what comes after the cursor.
After(e, cursor) == cursor = None \/ Precedes(e, cursor)

Matching(L, category) == {e \in L : category = None \/ e.category = category}

NewestFirst(S) ==
    [i \in 1 .. Cardinality(S) |->
        CHOOSE e \in S : Cardinality({f \in S : Precedes(e, f)}) = i - 1]
Take(s, n) == IF Len(s) <= n THEN s ELSE SubSeq(s, 1, n)

\* read_ledger asks for one row more than it returns.
Page(L, category, cursor) ==
    Take(NewestFirst({e \in Matching(L, category) : After(e, cursor)}), PageSize + 1)
Rows(page) == Take(page, PageSize)
NextCursor(page) == IF Len(page) > PageSize THEN Cursor(page[PageSize]) ELSE None

\* build_voided_index: what any stored void is aimed at.
VoidedIndex(L) == {v.target : v \in {e \in L : e.type = "void"}}

\* Mutant: only the voids that are themselves on the page count.
LedgerRowsOfPage(page, L) ==
    [i \in DOMAIN Rows(page) |->
        [event |-> page[i], isVoided |-> page[i].id \in VoidedIndex(ToSet(Rows(page)))]]

\* to_ledger_row.
LedgerRows(page, L) ==
    [i \in DOMAIN Rows(page) |->
        [event |-> page[i], isVoided |-> page[i].id \in VoidedIndex(L)]]
=============================================================================
