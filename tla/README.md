# A verification project for the budgeting tool

The program keeps a household's money as an append-only ledger of events and an
effective-dated table of definitions, and computes everything it shows by folding
the two. This directory holds TLA+ models of its parts, TLC configurations that
check them on small instances, and proofs that TLAPS checks for every instance.
Paths below are relative to the repository; line numbers refer to the commit the
models were translated from. `PROJECT.json` maps every definition to its lines.

## 1. Inventory

### Parts, state and operations

| Part | Code | State it keeps | Operations |
|---|---|---|---|
| ingestion write path | `api/routers/ingestion.py`, `api/references.py`, `api/payloads.py`, `api/deps.py`, `ingestion/append.py`, `ingestion/receipts.py`, `persistence/repositories.py` (events, receipts) | tables `events` and `receipt_blobs`; one session per request | `POST /events`, `/events/batch`, `/events/{id}/void`, `/receipts` |
| definition store | `api/routers/definitions.py`, `domain/definitions.py`, `persistence/repositories.py` (definitions) | one table of versions per kind | `POST /definitions/{kind}`, `GET /definitions` |
| core money | `core/money.py` | none | `split_bps`, `allocate_period` |
| core periods | `core/periods.py` | none | the period of a date, the next and previous one |
| statement cycles | `core/interest.py`, `domain/accounts.py` | none | cycle boundaries, interest, pins, grace, carried balance |
| projection | `domain/projection.py` | none | `project`: periods, obligations, balances, savings, warnings |
| read side | `api/routers/read.py`, `api/charts.py`, `api/dtos.py`, `api/ledger.py` | none | state, charts, the paged ledger, `/health` |
| ledger panel | `web/src/components/LedgerPanel.tsx` | accumulated rows, cursor, filters | load, load more, refresh |
| schema and engine | `persistence/models.py`, `persistence/engine.py`, `alembic/` | constraints and indexes | migrate, connect |
| receipt and source adapters | `ingestion/sources.py` | an in-memory list | produce bodies |
| clock, settings, tools, scripts, web forms | `api/clock.py`, `api/app.py`, `serve.py`, `scripts/`, `tools/`, `web/src/` | configuration, form fields | none that writes the ledger except through the API |

### How they interact

A client's body is parsed (the handler's only `await`), then the handler runs on
the event loop, synchronously, from its first SELECT to its last INSERT. It reads
committed tables, runs `check_references` (which projects the stored and the
incoming events together) or the three checks of `void_event`, and appends through
`EventRepository.append`, an `INSERT ... ON CONFLICT (dedupe_key) DO NOTHING`
followed, when nothing was inserted, by a SELECT of the row that was there. The
session belongs to the dependency `get_session` (`api/deps.py:41`), a synchronous
generator: FastAPI runs its second half, the commit or the rollback, on a worker
thread. So between a handler's return and its commit other handlers run, and a
commit may land between two statements of another handler. That gap is the source
of nearly every interesting interleaving of this system.

The read side loads events and definitions in separate statements, between which another
request may commit, and hands them to `project`, a pure function; endpoints select from the
State it answers, and charts fold it a second time; the projection calls the statement cycles,
which call the interest arithmetic, and `allocate_period`, which calls `split_bps`.

### Which behaviours are hard

- **Concurrency**: check-then-insert across two transactions (voids, overlaps,
  closes), two inserts of one key, a loop blocked on a lock whose owner's teardown
  needs the loop.
- **Failure**: a batch that fails half-way, a commit that raises, a crash before or
  after the commit, an answer lost or sent early.
- **Retry**: idempotency rests on a unique key, under two different lock regimes.
- **Ordering**: backdated events, voids and rate edits against "the past does not
  move".
- **Number edges**: leftover units of a split, clamped month ends, a period that
  ends on the day it is asked about.
- **Stale state in the browser**: a late page overwrites a newer query; a page whose
  rows, voids and count were read at three moments.

### What makes each part correct

- *Write path*: one row per key, truthful answers, all-or-nothing transactions,
  bytes and event together, voids that correct events, answers for everybody.
- *Definition store*: at most one version in force on a date, at most one open,
  supersession as one step, a 201 that is right about what it closed.
- *Money*: exact sums for both signs, nearest units, larger buckets never get less.
- *Statement cycles*: cycles tile time, a pinned cycle does not move, a later fact
  does not change an earlier statement.
- *Projection*: every unit of income is accounted for, balances agree with the
  savings ledger, arrears and overpayments are warned of even where they cancel out,
  asking again about the past gives the same answer, and what is voided stays voided.
- *Charts*: a breakdown adds up to the figure it breaks down, interest is charted
  where it was counted, and net worth is what came in less what went out.
- *Paging*: pages neither skip nor repeat a row; what the panel shows belongs to
  the query it shows.

## 2. Modules

| Module | What it is |
|---|---|
| `Ledger` | the four write endpoints with transactions, locks, teardown, crashes |
| `LedgerContract` | what a client of the ledger may rely on: an abstract specification |
| `MCLedger` | bodies and symmetry for TLC |
| `LedgerProofs` | types, keys and answers of `Ledger`, its refinement of the contract, atomicity, receipts, voids and payments |
| `DefinitionStore` | `POST /definitions/{kind}`, statement by statement |
| `MCDefinitionStore` | bodies and symmetry for TLC |
| `DefinitionProofs` | theorems about the definition store |
| `Allocation` | `allocate_period`, as pure operators |
| `Money` | `split_bps` with its checks, and its agreement with `Allocation` |
| `MCMoney` | small totals and buckets for TLC |
| `MoneyProofs` | theorems about `split_bps` and the allocation, and the arithmetic they rest on |
| `SumProofs` | lemmas about sums and folds over finite sets |
| `Periods` | calendar months as consecutive ranges of days |
| `CycleFold` | the statement cycles of one account, as pure operators |
| `StatementCycles` | the cycles of one account, folded again at every read of a changing ledger |
| `MCStatementCycles` | a calendar, accounts, events and rate edits for TLC |
| `FoldProofs` | lemmas about the calendar, versions in force and the fold of the cycles |
| `CyclesProofs` | theorems about the cycles of one account |
| `Projection` | `project`, as pure operators over `Allocation` and `CycleFold` |
| `Reads` | what the read endpoints and the charts select from a State, as pure operators |
| `Household` | a ledger and its definitions as they change, read after every change and between two |
| `MCHousehold` | a calendar, homes, events and edits for TLC |
| `HouseholdProofs` | theorems about reads, charts and warnings of a household |
| `LedgerPages` | `GET /ledger`: keyset pages, the index of voids, as pure operators |
| `LedgerPanel` | the browser's panel that accumulates those pages while the ledger grows |
| `MCLedgerPanel` | entries, voids and filters for TLC |
| `PanelProofs` | theorems about the pages and the panel |

Definitions that begin with `Mutant:` in their comment are not part of the models:
they state plausible mistakes in the code (a missing check, a swapped order) and
show that the properties notice them. `PROJECT.json` lists which replaces what.

### Ledger

*State.* `rows` and `blobs` are the committed tables. `newRows[r]`, `newBlobs[r]`
and `open` are request r's uncommitted transaction. `loop` is the one handler that
executes on the event loop, `phase[r]` is how far r has come: `ready` (parsed),
`writing` (checks passed), `returned` (handler done), `closing` (teardown on a
worker thread), `closed`. `results[r]`, `status[r]` and `answered` are what the
client is told.

*Actions.* `Arrive` parses a body. `Reject` and `Admit` are the checks, read from
committed rows: both happen in one step, since no other handler can run between
them and the checks of one handler read one after the other with no write between
(a worker thread's commit that falls between two SELECTs of one handler is
equivalent to one before the first or after the last, except for obligations, where
`UnknownObligation` reads once). `StoreBlob`, `Deduplicate`, `Insert` and `IdTaken`
are one INSERT each; `BusyTimeout` is the lock that is not given. `Dispatch`,
`Commit`, `CommitFails` and `Rollback` are the teardown. `Answer` sends the
response. `Crash` undoes open transactions and drops unsent answers; committed
rows survive. A retry is another request with the same body, so lost and duplicated
calls need no action of their own.

*Keys.* A dedupe key is a hash of the fields that identify an event
(`ingestion/append.py`). The model keeps the equality of keys and not the hash:
two drafts with one key have the same content, a receipt's key stands for the hash
of its bytes, and a void's key covers its target and the client's nonce (`Aim`).

*Two lock regimes.* `SingleWriter = TRUE` is SQLite as the engine configures it:
SELECTs outside a transaction, BEGIN at the first write, one write lock, a busy
timeout that ends in `OperationalError` and a 500. `FALSE` is a backend with row
locks, where an insert waits, without a timeout, for a transaction that inserted
the same key. `AckFirst` distinguishes FastAPI releases that end a dependency
before the response is sent from those that do it after; `pyproject.toml` allows
both.

*Abstract specification.* `LedgerContract` has two variables, `entries` and `told`,
and two actions: record some entries at once, keeping keys and ids one to one; tell
clients of entries that are there. `Ledger` maps `entries` to the (key, id) pairs of
its committed rows and `told` to the pairs in 2xx answers that were sent.

### DefinitionStore

All queries filter on `entity_id`, so the module models one entity. `versions` is
the committed table; `closing[r]` and `adding[r]` are the UPDATE and the INSERT of
r's transaction. The handler's statements are separate actions, because a worker
thread's commit can fall between them: `FindOpen`, `ReadTarget`, `UpdateTarget`,
`CheckOverlap`, `InsertVersion` or `InsertConflicts`. `InsertVersion` models one
subtlety of pysqlite: a SAVEPOINT that is the first write statement is the
transaction itself, so its RELEASE commits. Dates are `0 .. Horizon`, and
`Forever = Horizon + 1` is a NULL `effective_to`.

### Money

A behaviour is one call: it raises (`Raise`) or returns (`Return`). `SplitBps` is
the algorithm for any sequence of buckets: floors of magnitude times basis points,
the leftover handed out by descending remainder and then position, the sign put
back. `Allocation!SplitPair` is the same for the two buckets of `allocate_period`,
written without folds so that it can be proved about and composed into the
projection; `PairIsTheSplit` checks that the two
agree. `FullBps` is 10 000 in the code and a parameter here.

### Periods, CycleFold and StatementCycles

*Dates.* A day is an integer, and a calendar is the function `MonthStart`: where each
month begins. That is all `core/periods.py` offers its callers, which never do month
arithmetic of their own; clamping a day into a short month is `ClampDay`. Periods
are numbers instead of names.

*State.* The code keeps none: `project` folds the ledger and the definitions again on
every read. So the variables are what the fold reads, `events` (stored and not
voided), `versions` (of one account) and `asOf`, and `shown`, what the last read
answered. Each action changes one input and ends in `Read`: an event is recorded at
whatever date (`Record`), voided (`Void`), a rate is edited by closing the open
version where its successor begins (`EditRate`), a day passes (`Advance`). An action
property compares two reads, which is what the promises of PLAN.md 7 are about.

*The fold.* `BuildCycles` is `build_statement_cycles`: the loop's cursor becomes
`CycleStart`, its `continue` and `break` the two conditions of `CyclePeriods`.
`FoldCycles` is `fold_statement_cycles`, a recursive function on the cycles' periods;
`Statement` is its `step` and takes from the previous statement exactly what
`_CycleCarry` holds. The operators are named for the functions they translate, in
lower case in the code and capitalised here.

*Abstractions.* Every event that moves the balance is a `movement` with a signed
amount. Recorded interest names its cycle; `charged` takes its amount from the balance and
`earned` adds it, on whatever kind of account, as `_account_delta` does. An event of another
account counts for the genesis alone. A card has a close day (section 4). An obligation's due date, which may precede its own date and then
decides the genesis, is the `date` of such an event. Two records of interest for one
cycle on one date are ordered by `recorded_at`; the model does not allow the tie. The
kind and the close day of an account stay what its first version says.

### Projection, Reads and Household

*Correspondence.* `Project(L, D, t)` is `project(events, definitions, as_of_date)`, and
its parts are in the order of the code's seven steps: `Surviving` and `Known` (1, 2),
`Window` (3), `ObligationRows` (4), `Statements` (5), `Period` (6), `AccountRow`,
`SavingsSummary` and `Warnings` (7). `D` has the versions of policies, costs and
accounts, each with the entity it is a version of; any number of entities of a kind may
exist, and ids of accounts are numbers that stand for their order, on which
`FirstOfKind` depends. A bill is expected where a version of its cost is in force as the
period starts (`Expected`), and a raised bill replaces the forecast it matches and an
earlier bill for the same cost and period (`Matches`). The statements of every account come from
`CycleFold`, through the view of the ledger that `AccountView` gives it; allocations from
`Allocation`. The answer has all that State has, the figures of the periods, the rows
with their status, the balances, the cycles, the savings and the seven codes of warnings,
each with what it is raised for.

*Reads.* `PeriodsIn` and `PeriodDetail` are `/periods` and `/periods/{id}`; `BuildPoints`
is `/charts/series`: a chart is a function from buckets and series to values, or
`ValidationFailed` for a combination that `IsSupported` excludes. The five folds of
`api/charts.py` keep their names. `LoadState` says which half of a State comes from which
moment: the ledger as it was first, the definitions as they were later. A chart of balances
loads the database once more for every bucket whose close is not the date of the read
(`AtClose`), so `BuildPoints` takes what each bucket found, `loads`, beside the State.

*State.* `Household` has the inputs of the fold, `ledger` (voids included) and
`definitions`, the date `asOf` of the latest read, the ledger as that read `listed` it,
and its answer `shown`. `Record` appends an event of any date, if `check_references` finds
its accounts and, for a payment, its obligation. `Void` is the void endpoint, and
an `EventVoided` posted to `/events`, which may name a void, an event voided already or
nothing. `EditDefinition` closes an open version, where its successor begins or earlier
so that a gap is left, or adds an entity. `ReadAsOf` asks about another date. All end in
`Read`. `ReadWhileWriting` is a read that lists the ledger, and then a definition and an
event that may rest on it are committed before it loads the definitions.

*What the properties say.* `RecognizedOnce` is PLAN.md 1. It cannot be read off one period,
because a card in `AT_STATEMENT_PAYMENT` mode recognises a purchase when its statement is
paid: it says that whenever the card is settled, with no estimate outstanding and interest
recorded once per cycle, the sum of what all periods counted as spent is what was spent and
charged. Purchases, payments, refunds, voids and cycles' interest reach that sum by different
routes. `SavingsAgree` compares the savings summary with the balance of the account, which the
code computes apart from each other, where nothing but transfers, openings and interest earned
moves that account, also after a second savings account has taken the first place;
`DrawsAreJudgedByTheBalance` compares a third computation of the same balance, the one in the
warnings. `ArrearsAreWarnedOf` is about a period that is over and nets an overpaid bill
against an unpaid one. `BreakdownsAddUp` and `InterestIsChartedWhereItCounts` compare the
charts, which bucket rows and cycles on their own, with the periods. `NetWorthIsExplained`
compares the balance projected for every bucket of a chart with the events in the ledger
that this bucket found: no implied transfer and no event whose account was created during the
read may be lost in between. The event committed since the ledger was listed is found by the
buckets from any one of them on (`LoadsUpto`): the series may mix two ledgers, as the code's
does, a point may not.
`AllocationIsLocal`, `ReadsAreReproducible` and `VoidsAreFinal` compare two reads.
`AllocationIsLocal` also covers edits that reach into the past: the dates an edit touches are
where a version begins or an earlier one is made to end, and only periods that start on or
after the first of them may move.

*Abstractions.* The number of an event stands for
the order of `recorded_at` and `event_id` on one date; since the numbers do not follow
the order of the appends, the model has every order of writes and ties. `today`, on
which the check of a payment also depends, is any date of the calendar, so more
payments pass than on a given day. A void has one of two dates; reads before, between and
after them follow. The policies of several
entities compete by their start alone. Charts by month are charts by period, which is
what the calendar-month resolver makes them. Between two buckets of a chart of balances the
one event of `ReadWhileWriting` is committed, not several, and no definition is. Savings of a
closed period are charted as of its last day, on which its own transfer has not yet been
made: the model repeats that, and no property speaks of it. Names, notes, messages and
the order of lists are left out.

### LedgerPages and LedgerPanel

*Pages.* An event keeps what the order, the filter and the mark depend on: date,
instant, id, category, and the target of a void. `Page` is what `read_ledger` selects,
one row more than it returns; `Cursor` keeps the whole triple that the token encodes.
The filter by category stands for the four filters of the query.

*State.* `active`, `filters`, `busy` and `shown` are the React state of the panel
(`rows`, `nextCursor`, `totalCount` are fields of `shown`); a member of `fetches` is one
`fetchUntilVisible` under way, between its requests. `shown.load`, `shown.known` and
`latest` are bookkeeping of the model: the load that the rows grew from, the ledger as
that load first read it, and the latest load.

*Actions.* `Load` is the effect: its cleanup cancels the load before, whose answer is
dropped, so the model drops the load. It does not cancel a load-more. `OpenTab`,
`ApplyFilters` and `Refresh` run it. The submit button of the filters is disabled
while busy; the box for voided rows, the refresh and the tabs are not. One page is
three actions, `ReadPage`, `ReadVoids` and `ReadCount`, because the endpoint runs on a
worker thread with a SELECT for each and commits of other requests fall between
(`Append1`). `Answer` and `Fail` are the two ends of a fetch. A request that fails in
the middle of the loop loses the pages read so far, like the code.

*What the properties say.* `Fresh` restricts three of them to rows that stem from the
latest load: a late load-more replaces the rows by older ones (section 5).
`PagesNeitherSkipNorRepeat` compares the rows with the ledger as the load began, which
may be several appends and three pages earlier. `VoidsShowOnTheirTargets` depends on the
order of the SELECTs: the voids must be read after the rows. `MoreShowsMore` is the loop
over hidden rows. It speaks of rows that grow, or that a load brings, because two
load-mores of one load may overlap: the end of a load-more from before that load enables
the button while the next is under way. Both then grow from the same rows, and the later
answer replaces the earlier one's.

## 3. Runs

Deadlock is checked in `Household`, which can always be read. Elsewhere it is not
(`CHECK_DEADLOCK FALSE`): a behaviour ends when its requests or its call are done, or
when the calendar, the bound on changes or the bound on fetches is used up. The
liveness properties say that nobody waits for ever.

| Run | Bounds | What it shows |
|---|---|---|
| `ledger_sqlite` | 3 requests, 12 bodies, 1 crash | safety of the write path on SQLite, answers after commits, and refinement of `LedgerContract` |
| `ledger_live` | 2 requests, 12 bodies, 1 crash, a handler's answer before its commit (`AckFirst`) and errors after the rollback, fairness | every request that reaches its handler is answered, or the process died |
| `double_void` | 3 requests, an entry and two voids | **violation**: one event is voided twice |
| `locked_duplicate` | 2 requests with one body | **violation**: a duplicate is answered 500 |
| `definitions_sqlite` | 3 requests, every range and close date over 4 dates | one open version, rejections write nothing, supersession is one step; and, where successors are open-ended and begin where their predecessor is closed, versions never overlap and closes are made |
| `cycles` | 4 short months, 5 accounts, 3 recorded events or rate edits, voids, any number of reads | cycles tile time, interest is counted once, recorded interest and closed statements stand, payments never cost, rate edits keep the past |
| `rate_edit` | one account that begins after the first event | **violation**: a rate edit moves the interest of a closed cycle |
| `projection` | 4 months of two days, 18 events, voids of two dates, 5 edits, two homes (a card in either mode), 3 windows; 3 changes beyond the first definitions, any number of reads | nothing counts twice, the views of savings agree, no payment is lost, arrears are warned of, charts add up, allocations are local, past reads repeat, voids are final |
| `card_bill` | a rent paid with a card, and the card paid | **violation**: the rent counts as a fixed cost and again as spending |
| `mode_switch` | a card that changes its mode, a purchase and its payment | **violation**: the purchase counts when made and again when paid |
| `money` | up to 3 buckets over a whole of 8, totals -9 .. 9, negative and duplicate buckets | the sums are exact, nearest and monotone; the pair is the general split |
| `panel` | 4 stored events, 2 entries and 2 voids to append, pages of 2, 4 filters, 3 loads and load-mores | pages neither skip nor repeat, voids mark their targets, an answer shows a page more or the end, the buttons come back |

*Why the bounds are enough.* Requests in `Ledger` interact pairwise: through one key, one id,
one obligation, one target or the lock; three requests let a first one prepare the table on
which two others race. The bodies contain each endpoint, each rejection, a batch with a
failing second item, two bodies with one key (a receipt and the same entry without bytes), two
with one chosen id, and two voids with different nonces. One crash can hit any point; a second
adds nothing that the first state it leaves does not already allow. In `DefinitionStore` three
requests are a first version and two competing successors; four dates give every relative
position of two ranges with common or distinct bounds. `OnlySuccessions` singles out the
behaviours whose successors have the usual shape. In `Money` remainders modulo 8 with three
buckets produce no, one and two leftover units and two- and three-way ties. In
`StatementCycles` months of 3, 2, 3 and 2 days stand for long and short ones: a close day and
a due day of 3 are clamped in the short ones, and a statement of the first month closing on
its second day with due day 3 is followed by one that is due after the next close. A carry
needs three cycles to matter: one that accrues, one that is or is not graced by a payment, one
that opens on both; three changes are a debt, a payment and a correction. `Basis` is 4 instead
of 3 650 000, so that a few days of a small debt bear interest and divisions still have
remainders. In `panel` entries of one date and of one instant are among the stored ones, so
that a page ends in the middle of a tie; one entry to append is dated before all others and
one after; one void is newer than its target and one falls next to it. A page of two rows and
a ledger of four give first, middle and last pages and a page of hidden rows. Three fetches
are a load, a load-more and a load or load-more that overtakes it. In `Household` a month has
two days, the least with a last day and one that is not. `MaxChanges` counts the five
definitions of the home too. Three changes are what the hazards need: a purchase, its payment
and a void of one; a forecast's payment and the bill that replaces it, then a void of the bill
or a second bill; an allocation, a draw and a second draw; an event, its void and a void of
that; an edit between two events; an account and an event on it, both committed during a read, on
an empty ledger or after one other change, so that the read and the buckets of its charts have
something to mix it with.
The events include income and a gift, a card's purchase, refund and payment, openings of two
savings accounts, interest both charged and earned, bills for a cost and on their own, and
payments in part, in full and in excess. Symmetry is used over requests only: they are
interchangeable constants, and no liveness property is checked in a run that uses it.

*Fairness.* `FairSpec` assumes weak fairness of each request's handler, teardown
and answer: the loop serves every ready callback in turn and worker threads finish.
In `panel` weak fairness of each fetch says that
the server answers; failing is allowed and not required, and nothing makes a reader click.
SQLite's busy timeout is among the handler's steps, which is the clock of the
sqlite3 module. Nothing forces a client to send (`Arrive`), nor the process to
crash. On a row-locking backend the property is false, see below, so no run claims
it there.

## 4. What is proved

`tlapm LedgerProofs.tla`, and likewise `DefinitionProofs`, `MoneyProofs`, `CyclesProofs`,
`HouseholdProofs` and `PanelProofs`; `SumProofs` and `FoldProofs` hold the lemmas that
those of money, cycles and household share. A theorem holds for every value of the constants that
the named assumptions of the modules admit: any number of requests, bodies, events,
accounts, definitions and days, any lengths of months, either lock regime, answers
before or after commits. Where a theorem needs more, it says so as a hypothesis, named
in the model, and TLC evaluates the hypotheses of the runs in the MC modules.

### Assumptions and hypotheses

The assumptions are types (what the DTOs, the dataclasses and the schema hold) and a few facts
about the code's inputs: a request to `/events` has one item (`OneEventEach`); no client
chooses an id the server makes, which is a random UUID (`ServerIdsAreFresh`); a home's
versions of one definition do not overlap (`HomesDoNotOverlap`, what `validate_no_overlap`
grants); an account's `budget_timing` is one of two values, never null (`HomesAreDefinitions`,
the check constraint of `persistence/models.py:364`); a card has a close day
(`CardsDeclareTheirCloseDay`, `HomesAreDefinitions`, `EditsAreDefinitions`: required by
`build_statement_cycles`, `core/interest.py:123`, and by no write, see section 5); `None` is no value of a field
(`NoneIsAbsent`) and no cursor, and an event's id is its primary key (`EventsAreIdentified`).

| Hypothesis | Theorems | Why it is one |
|---|---|---|
| `~AckFirst` | `AnswersAreNeverLies`, `LedgerImplementsContract` | a FastAPI release that answers first may answer 201 and then fail to commit |
| `SingleWriter` | `VersionsNeverOverlap` | with row locks two requests validate against one committed table (section 5) |
| `VoidsUseTheirEndpoint` | `VoidsHaveTargets` | an `EventVoided` posted to `/events` passes none of `void_event`'s checks |
| `RaisesOwnTheirKeys` | `PaymentsHaveObligations` | a client may give `dedupe_key` or `external_ref`, and with it one key to two obligations: then one of them is never stored, yet its payment, in the same batch, was admitted on it |
| `BillsArePositive` | `ArrearsAreNoticed`, `PaymentsAreAccountedFor` | the fields say `# > 0` (`domain/events.py:62`, `domain/definitions.py:105`) and no validator does |
| `OneOffsKeepTheirPeriod` | `AllocationsAreLocal` | a bill for no recurring cost is keyed by the id its client chose (`_match_key`): raised again for another month, it leaves the first month, by an event of the second |
| `PoliciesBeginApart` | `AllocationsAreLocal`, `ReadsCanBeRepeated` | the code prefers, of policies that begin on one day, the one recorded last; the model's `CHOOSE` knows no such order, so a second one could change its choice |
| `AccountsBeginFirst` | `NewRatesKeepThePast`, `ClosedStatementsHold` | a cycle that starts before the account's first version takes the rate in force at `as_of` (section 5); TLC finds the hypothesis true in `cycles` and false in `rate_edit` |
| `CardsKeepTheirMode` | `OutflowsCountOnce` | a purchase and its payment are each counted in the mode of their own day; false in `mode_switch` alone |
| `CardsOnlySpend` | `OutflowsCountOnce` | a bill paid with a card that counts its payments counts twice (`card_bill`, where alone it is false); interest charged to a loan is in no period's spending |

### Ledger (`LedgerProofs`)

- `TypeCorrect`: `TypeOK`. The types alone are not inductive, because
  `results` must not run past the body's items; `TypedProgress` adds where a request
  stands in its body for each phase, and that `writing` implies the loop.
- `KeysAreUnique`: `OneRowPerKey`. The committed rows do not suffice,
  since uncommitted ones become rows without another check. `KeyInv` says that keys
  and ids are unique within each transaction's view and between the open
  transactions (`UniqueEverywhere`), which holds because the second insert of a key
  waits (`Waits`), under either regime.
- `AnswersAreNeverLies`: `AnswersAreTrue`. `AnswerInv`
  says that each result is backed by what the transaction sees while it is open, and
  by the table once it has committed; it holds under either regime and either order of
  answers. Only its last part, that an answer is the last thing a request does
  (`AnswersAreLast`), depends on `~AckFirst`.
- `LedgerImplementsContract`: `ImplementsContract`. Initial
  states map to initial states and each step to a step of the contract or a stutter,
  from `MappingInv`, which conjoins the two invariants above.
- `CommitsOnlyAppend`: `OnlyCommitsAppend`, from `KeyInv` and `AnswerInv`.
- `BytesAreKept`: `ReceiptsKeepTheirBytes`. `BytesInv` extends it to the two private
  tables of an open transaction: the bytes a request holds are those of its body's hash,
  stored before its event, and an event that refers to bytes refers to some its own
  transaction sees. A receipt that turns out to be a duplicate has the event that its hash
  identifies in the table already.
- `BatchesAreAtomic`: `AllOrNothing`. `BatchInv` says that each uncommitted row
  is an item of its request with a result that names it, and that an id the server
  made is committed only once its request is over and answered with a 2xx.
- `VoidsHaveTargets`: `VoidsCorrectEvents`. `VoidInv` carries the check of
  `void_event` from the handler's SELECT to its commit: the ledger only grows, so what
  was a stored event stays one.
- `PaymentsHaveObligations`: `PaymentsNameObligations`. `PayInv` says of a request that
  has passed its checks that each payment names an expected or stored
  obligation or one among its own items; that such an item will be in the table when
  the payment is, as a new row or as the row its key already has, is where
  `RaisesOwnTheirKeys` is needed.

### Definition store (`DefinitionProofs`)

- `DefinitionsAreTyped`: `TypeOK`, strengthened by what each phase says of a request's
  transaction (`ShapeInv`).
- `OneVersionIsOpen`: `OneOpenVersion`. The table alone is not inductive. `StoreInv` adds that
  what each open transaction would leave has one open version and one per start (`AddedFits`),
  and that no two transactions close one version or add rivals (`Rivals`): this is what the
  two unique indexes and the row locks give.
- `RejectedRequestsWriteNothing` and `ClosesComeWithSuccessors`: `RejectionsWriteNothing` and
  `SupersessionIsAtomic`, from the same invariant: the id of a version is its request's.
- `ClosesAreAlwaysMade`: `ClosesAreMade`. `SuccessionInv` follows one succession: from
  the phase `checking` on it holds a transaction, the row it adds implies the close it
  makes, so a close that was not made leaves two open versions, which the index refuses.
- `VersionsNeverOverlap`: `NoOverlap`. `OrderInv` says that while a transaction is open no
  other is, that the view it validates is the table it will commit into, and that after
  its check the new version is apart from every version in that view. It rests on
  `NoOverlapIsApart`: `_overlaps` is exact for half-open ranges.

### Money (`MoneyProofs`)

- `AllocationIsExact`: for every income, amount due and policy, due plus savings
  plus discretionary is the income, to the unit, deficits included, and the savings
  are the exact proportion rounded to the nearest unit. It rests on
  `ComplementaryFloors` (flooring two complementary products sheds no or one unit,
  and then the remainders make up one whole) and `PairIsRounded`.
- `SplitsAreExact`, `ProportionsAreKept`: `SharesAreExact` and `LargerBucketsGetMore` for any
  number of buckets. The leftover is the sum of the remainders divided by the whole, hence
  less than the number of buckets, and `Promoted` are exactly that many of them; the sum over
  a sequence is the library's fold, about which `SumProofs` proves what is needed. `MoneyInv`
  says that what was returned is `SplitBps` of a call that passed the checks.
- `PolicySplitIsGeneral`: `PairIsTheSplit`, so that `AllocationIsExact` is about
  `split_bps`.

### Statement cycles (`CyclesProofs`, `FoldProofs`)

- `CyclesAlwaysTile`: `CyclesTile`, for every calendar whose months have at
  least one day and every history. The invariant `ReadInv` keeps the read's date on the
  calendar and the account with a version. The argument is arithmetic: a boundary lies
  in its month (`BoundaryIsInMonth`), so the boundaries ascend, and the cycle of a day
  is that of the first boundary after it. That such a first one exists is
  `LeastNatural`, which takes the well-foundedness of `<` on the naturals from the
  library instead of its induction principle.
- `InterestCountsOnce`: `InterestIsCountedOnce`. `StatementInv` says that what is shown is the
  fold of the inputs. The fold is a recursive function: what is needed of it is one unfolding,
  and that the events moved up to one close are those up to the close before and those between
  the two (`MovedIsSum`), which is a fact about sums over disjoint sets.
- `RecordedInterestStands`: `PinnedInterestStands`, since the pin of a cycle depends
  on the records of interest for it alone (`PinIsRecorded`).
- `NewRatesKeepThePast`: `RateEditsKeepThePast`. Two reads agree up to a month if they have
  the same inputs up to it (`ReadsAgree`): the least month in which they differed would follow
  one in which they agree, and one unfolding makes it agree too. `AccountInv` says what an
  edit relies on: the versions follow each other without gaps, cover the time from the first
  one on, and began by the latest read, so that the version in force as a past cycle starts is
  the same after the edit (`EditsKeepTerms`).
- `ClosedStatementsHold`: `ClosedStatementsStand`, from the same two, for each kind of step. A
  later fact that a closed statement can depend on is one the property names; that payments of
  later due dates are none of them is `DueDatesAscend`.
- `PaymentsDoNotCost`: `PaymentsNeverCost`, without a hypothesis. A payment lowers
  the balance from its cycle on, raises no interest, since rounding is monotone
  (`InterestAscends`), and counts towards its window alone (`StatementsEase`). It may also
  be the earliest fact and move the genesis back: the cycles it adds hold payments
  alone and owe nothing (`FirstPaymentsEase`, `ReadsEase`).

### Household (`HouseholdProofs`)

`HouseInv` says that what is shown is `Project` of what the latest read listed and of
today's definitions, that the events and definitions are of their types and the
definitions finite. That is not true by construction: `ReadWhileWriting` lists one ledger and
loads later definitions. Each theorem below that is not about two reads is then
about `Project` of arbitrary arguments.

- `VoidsStayVoided`: `VoidsAreFinal`, since `Surviving` is all that depends on voids.
- `ArrearsAreNoticed`, `PaymentsAreAccountedFor`: `ArrearsAreWarnedOf`, `NothingPaidIsLost`.
  With `CostInv`, no row is of a negative amount, so what is unpaid is past due; a payment is
  traced through the bills that replaced its own.
- `DrawsAgreeWithTheBalance`: `DrawsAreJudgedByTheBalance`. The implied transfers up to a
  day inside a period are those of the periods before.
- `SavingsAlwaysAgree`: `SavingsAgree`. The balance of an account is a sum of deltas over its
  events and the implied transfers; the summary adds openings, interest, transfers and
  allocations up one by one. The proof splits the first sum by type of event. It showed that
  the property was wrong for interest *charged* to a savings account, which the summary leaves
  out; the property now excludes it.
- `BreakdownsAlwaysAddUp`: `BreakdownsAddUp`. A chart's value is a sum over the rows of
  one bucket and series; summing over the series partitions the rows (`SummedAddsUp`).
- `InterestIsAlwaysChartedWhereItCounts`: `InterestIsChartedWhereItCounts`. Every cycle has
  one close period and one cycle bucket, and its account one series (`CyclesAreChartedOnce`);
  the statements of an account are typed (`FoldIsTyped`), so the sums are of integers. The
  proof showed that an account that changes its kind separates the two figures:
  `_cycle_matches` looks at the kind of today, the fold at the kind of the cycle. The property
  now says so.
- `NetWorthIsAlwaysExplained`: `NetWorthIsExplained`. `KnownInv` says that the accounts of every
  event in the ledger are defined by today's versions: `check_references` finds them before
  the event is stored, no edit removes an entity (`StepsKeepAccounts`), and a read
  loads its definitions after its ledger, so it has them too. The same holds of any ledger
  between the listed one and today's, hence of each bucket's (`ClosesAreOfTheirLedger`,
  `ClosesAreReads`). The balances of all accounts are then the deltas of all events on all accounts, which may be added up event by event
  instead (`SumsExchange`): an event between two accounts comes to nothing, as does a
  transfer that is implied (`TransfersAreNeutral`), and any other to its worth.
- `AllocationsAreLocal`: `AllocationIsLocal`. `FiguresInv` says that the figures of each shown
  period are those of its own month; `BeginInv` and `ApartInv`, that versions of a definition
  never overlap, so that one edit changes what is in force only from the dates in `Touched`.
  The proof showed that `Touched` had to count a version whose `effective_to` the client gave
  from its start.
- `ReadsCanBeRepeated`: `ReadsAreReproducible`, from the same two: what is known on a day
  does not depend on later events, nor what is in force on later versions.
- `OutflowsCountOnce`: `RecognizedOnce`, under `CardsKeepTheirMode` and `CardsOnlySpend`.
  `CardsInv` keeps the modes of all versions those of the homes and of the edits, since an
  edit of a version changes only where it ends. What the periods spent is summed by key
  (`SpendingAddsUp`) into purchases, payments of cards and interest. A deferring card that is
  settled has a balance of zero; adding up these balances by events instead of by cards shows
  that the payments are the purchases that were put off and the interest charged
  (`SettledCardsArePaid`). On any other card the interest of a period is that of its cycles,
  which is their recorded interest, since a settled card has no estimate
  (`CardsBearTheirCharges`). The three kinds of outflow then make up what was spent and
  charged (`OutflowsAreOfThreeKinds`). No step is an induction over statements.

### Ledger panel (`PanelProofs`)

- `PagesAreSeamless`: `PagesNeitherSkipNorRepeat`, for every page size, ledger and number of
  loads. `Precedes` is total (`EventsAreOrdered`), so the number of newer events is a
  bijection from the matching ones to the positions of a page sorted by it (`RanksAreTaken`,
  by counting). `PanelInv` says of every fetch of the latest load that its rows descend to its
  cursor, and that what was stored when the load began is among them, or on the page in
  flight, or after the cursor (`InOrder`); a fetch from before that load may have been given
  rows of other filters, so that nothing is said of its order.
- `VoidsAreShown`: `VoidsShowOnTheirTargets`, from the same invariant: every row, and every
  row of a page in flight, is stored (`Marked`), so a void above a row is among those read
  after the row.
- `LoadMoresFillAPage`: `MoreShowsMore`. `GrowthInv` says where the rows of the latest load
  may stop short of the end of the ledger: at the end of a page that was the first to fill the
  target, counted from an earlier such stop (`Stop`, `Grown`). Two fetches of one load may
  overlap, and the one may have replaced the rows from which the other grew; both are then
  reached by such stops, one begins with the other, and the longer has a page more
  (`NoPageIsSkipped`). The proof showed that the property was wrong for five fetches, beyond
  the bound of the run: of two overlapping load-mores of one load, the first may reach the end
  of the ledger with less than a page. Of the rows that replace these the property now asks
  for one page.

### How sums are proved about

`MapThenSumSet` and the folds are recursive, and the library's induction theorems take an
operator as a parameter, which the backends cannot instantiate. `SumProofs` does without:
`SetInduction` is induction over finite sets for a *set* of subsets, from the well-foundedness
of the naturals; from it, that a sum over disjoint sets, over a set less an element, of a
function that is zero outside, by key, of a difference or of a larger summand is what it
should be, and that a double sum may be taken by rows or by columns.

### Model-checked only

Liveness: `EveryRequestIsAnswered` and `BusyEnds`. Fairness and ENABLED are outside the
prover. Every invariant and action property of the passing runs, and the refinement of
`LedgerContract`, is a theorem.

## 5. Where code and documents disagree

Five disagreements have a run:

- `double_void`: `void_event` (`api/routers/ingestion.py:137`) reads, and inserts
  under a key that contains the client's nonce, so nothing in the database refuses the
  second of two voids; CONTRACTS.md promises `ALREADY_VOIDED`.
- `locked_duplicate`: on SQLite a duplicate that arrives while the first request has
  returned and not committed waits on the loop for a lock whose release needs the
  loop; the timeout turns it into a 500, where CONTRACTS.md promises 200.
- `rate_edit`: a statement cycle that starts before the account's first version takes
  the rate in force at `as_of` (`domain/accounts.py:496`), so a later rate edit moves
  its interest. PLAN.md 7.4 says a past cycle's interest never moves because of a rate
  edit. Accounts that begin before the ledger keep the promise (`NewRatesKeepThePast`).
- `card_bill`: an obligation paid with a card in `AT_STATEMENT_PAYMENT` mode is taken
  off the top as a fixed cost, and when the card is paid `_spend_pairs`
  (`domain/projection.py:506`) counts the whole transfer as spending. PLAN.md 1 has an
  outflow affect the budget exactly once; PLAN.md 6.4, which the code follows, counts
  the payment "for its full amount" and does not think of bills.

- `mode_switch`: `_card_budget_timing` decides a purchase and the transfer that pays it
  each at its own date (`domain/projection.py:341`), so a card switched from
  `AT_PURCHASE` to `AT_STATEMENT_PAYMENT` in between counts both; switched the other
  way, neither. The docstring, and a test that makes no payment, take the choice of date to
  exclude recognising a purchase again.

Others were met while modelling and have no run of their own:

- an `EventVoided` posted to `/events` or in a batch passes none of the three checks
  of `void_event` (`api/routers/ingestion.py:67`); it is stored, and changes no answer
  (`VoidsAreFinal`) unless it voids an event that stands;
- a savings account whose id sorts before the others takes over the implied transfers of
  all past periods, also in reads as of dates before it was created, since a version that
  begins later is still the account's last one (`domain/projection.py:364`);
- the chart of a balance loads the ledger for every bucket anew (`api/routers/read.py:258`),
  so its points may belong to different ledgers, each to one (`NetWorthIsExplained`);
- no endpoint asks a card for its close day, though the web form does: the column and the DTO
  let it be absent (`persistence/models.py:348`, `domain/definitions.py:172`).
  `build_statement_cycles` asks (`core/interest.py:182`), so once such a card is stored every
  answer that needs the projection is `VALIDATION_FAILED`, until a version with the day is in
  force;
- raise, void, raise again with one external reference: the key belongs to the voided
  row, so the correction procedure of PLAN.md 8.4 is answered 200 and changes nothing
  (`persistence/repositories.py:200`);
- a payment is checked against obligations that a void committed in between removes
  (`api/references.py:137`);
- on a row-locking backend, two inserts of one key hang the loop: the waiting insert
  occupies it, the teardown it waits for needs it, and there is no timeout;
- with FastAPI releases that end dependencies after the response, a 201 may precede
  a commit that fails (`api/deps.py:52`);
- on a row-locking backend, two requests validate overlap against the same committed
  table, and the unique indexes do not express an intersection
  (`persistence/repositories.py:482`);
- a close may be dated in the past and then changes periods that have ended
  (`api/routers/definitions.py:130`);
- `close_version` (`persistence/repositories.py:565`) repeats its guard in the UPDATE
  and does not look at the row count: when another commit closes the target after it
  was read, nothing changes, and the 201 names a close that was not made, although line
  516 says "exactly one row changes"; `ClosesAreMade` holds of successors that are
  open-ended and not of bounded ones;
- of two bills raised for one cost and period the earlier leaves the obligations, and
  the payments made against it count nowhere, without a warning, since
  `_build_warnings` knows every bill that was ever raised
  (`domain/definitions.py:428`, `domain/projection.py:885`);
- two recorded interests of one cycle: the later one is the cycle's interest, and both
  move the balance (`domain/accounts.py:483`);
- `_savings_summary` says its balance is the savings account's less the draws
  (`domain/projection.py:663`): not when income, expenses or payments name that account,
  nor without a checking account, when no transfer is implied and the allocations are
  counted all the same;
- on the last day of a period a draw is judged with the allocation of the period,
  which the balance shown on that day lacks (`domain/projection.py:745`, `:981`);
- `_projected_obligation_ids` calls paying a bill that is due next month ordinary, and
  refuses a payment that is made and dated before that month (`api/references.py:131`);
- the projection collects voids whatever their date (`domain/projection.py:1108`)
  while all other events are cut at `as_of`;
- a loan, or a card without a due day, is never paid in full
  (`domain/accounts.py:580`), although the docstring of `fold_statement_cycles` has a
  statement that owes nothing paid trivially: a loan loses its grace with its first,
  empty cycle, whose existence depends on events of other accounts;
- when a due date falls after the next close (close day 30, due day 31, in February),
  the payment windows of two statements overlap, and one payment settles both
  (`domain/accounts.py:364`);
- a load-more is not cancelled by a refresh or a change of filter: answered late, it
  replaces the rows and the cursor of the newer query, and the next load-more continues
  from that cursor under the new filter (`web/src/components/LedgerPanel.tsx:129`). Its
  end also enables the button while a load-more of the newer query is under way: pressed
  again, two grow from the same rows, and the second answer shows no more than the first.

## 6. What is not modelled

Parsing and field validation (bodies arrive well formed), HTTP status codes beyond the error
code, hashing, and the wording of errors. In `Ledger` the projection that `check_references`
runs is abstracted to the obligations that are raised and not voided, plus a constant set
`Expected` of those the fixed-cost definitions materialise; the horizon up to which they are
materialised is not modelled. The schema migrations, the start-up scripts, the purity checker
and the web forms keep no ledger state. `Household` records one event per request; the
transactions and locks of its writes are those of `Ledger` and `DefinitionStore`, and only
their commits appear in it. Of a read, the two statements of `load_state` are apart, and the
loads for the buckets of a chart; the two statements of such a load are not. The forms of the web client are left out: they keep no
state across answers but what the next answer replaces, apart from the page that creates an
account and then its opening balance in two requests.

## 7. Plan

All modules planned are written, and all their safety properties are proved. What is left
is the web client: the loaders of `BudgetContext` and the two requests of `AccountPage`,
which fail one by one.
