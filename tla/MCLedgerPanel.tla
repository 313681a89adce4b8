--------------------------- MODULE MCLedgerPanel ---------------------------
(***************************************************************************)
(* Instances of LedgerPanel for TLC: five events of two categories, some of *)
(* one date or of one instant, and voids, one backdated.                    *)
(***************************************************************************)
EXTENDS LedgerPanel

Entry(id, date, recordedAt, category) ==
    [id |-> id, date |-> date, recordedAt |-> recordedAt, category |-> category,
     type |-> "entry", target |-> None]
VoidOf(id, date, recordedAt, target) ==
    [id |-> id, date |-> date, recordedAt |-> recordedAt, category |-> None,
     type |-> "void", target |-> target]

SomeStored == {Entry(1, 0, 0, "food"), Entry(2, 1, 0, "rent"), Entry(3, 1, 1, "food"),
               Entry(4, 1, 1, "food")}
SomeCandidates == {Entry(5, 1, 2, "food"), Entry(6, 0, 2, "food"),
                   VoidOf(7, 2, 3, 3), VoidOf(8, 1, 3, 1)}
SomeFilters == [category: {None, "food"}, showVoided: BOOLEAN]
=============================================================================
