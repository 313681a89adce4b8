-------------------------- MODULE DefinitionStore --------------------------
(***************************************************************************)
(* POST /definitions/{kind}: close the open version of an entity and append *)
(* its successor.  Every query filters by entity_id, so the module models   *)
(* the versions of one entity.  Handlers, transactions and the teardown run *)
(* as in Ledger: one handler on the event loop at a time, its transaction   *)
(* closed later by a worker thread, which may commit between two statements *)
(* of another handler.                                                      *)
(***************************************************************************)
EXTENDS Integers, FiniteSets

CONSTANTS
    Requests,      \* the HTTP requests; each names the version it may create
    Bodies,        \* parsed bodies: the version's range and close_previous_at
    Horizon,       \* bound on dates: 0 .. Horizon
    SingleWriter,  \* TRUE: SQLite; FALSE: a backend with row-level waits
    None           \* absent value

ASSUME HorizonIsDate == Horizon \in Nat
ASSUME WriterIsBoolean == SingleWriter \in BOOLEAN

Dates == 0 .. Horizon
Forever == Horizon + 1      \* effective_to IS NULL

Versions == [id: Requests, from: Dates, to: 1 .. Forever]
Closes == [id: Requests, to: Dates]
NewVersionRequests == [from: Dates, to: 1 .. Forever, closeAt: Dates \cup {None}]

\* DefinitionBase's validator has refused empty and inverted ranges.
ASSUME BodiesAreRanges ==
    Bodies \subseteq {b \in NewVersionRequests : b.from < b.to}

ASSUME NoneIsAbsent ==
    None \notin Requests \cup Dates \cup Versions \cup Closes \cup NewVersionRequests

VARIABLES
    versions,  \* committed rows of the definition table
    closing,   \* per request: the UPDATE its open transaction has made, or None
    adding,    \* per request: the row its open transaction has inserted, or None
    open,      \* requests whose transaction has executed a write statement
    loop,      \* the request whose handler is running, or None
    phase,     \* per request: the statement it executes next
    body,      \* per request: its parsed body
    target,    \* per request: version_id that _close_open_version found
    status     \* per request: "none", "OK" or the error code

private == <<closing, adding, open>>
vars == <<versions, private, loop, phase, body, target, status>>

Phases == {"idle", "ready", "finding", "reading", "updating", "checking",
           "inserting", "returned", "closing", "closed"}
Codes == {"VALIDATION_FAILED", "EFFECTIVE_RANGE_INVALID", "OVERLAPPING_VERSIONS",
          "INTERNAL"}

-----------------------------------------------------------------------------
(* domain.definitions.                                                     *)

IsEffectiveAt(v, d) == v.from <= d /\ d < v.to

\* Mutant: only the start dates are compared.
SameStart(V) == \E v, w \in V : v # w /\ v.from = w.from

\* validate_no_overlap: half-open ranges, two versions meet at a date.
Overlap(V) == \E v, w \in V : v # w /\ v.from <= w.from /\ w.from < v.to

-----------------------------------------------------------------------------
(* What a transaction sees, and when its statement must wait.              *)

OpenVersions(V) == {v \in V : v.to = Forever}

\* The table with the writes of one transaction applied.
Written(V, close, add) ==
    {IF close # None /\ v.id = close.id THEN [v EXCEPT !.to = close.to] ELSE v : v \in V}
    \cup (IF add = None THEN {} ELSE {add})
View(r) == Written(versions, closing[r], adding[r])

NewVersion(r) == [id |-> r, from |-> body[r].from, to |-> body[r].to]

\* Mutant: UNIQUE (entity_id, effective_from) is missing.
ConflictsOnOpen(V, v) == \E w \in V : w.to = Forever /\ v.to = Forever

\* The two unique indexes: (entity_id, effective_from) and one open version.
Conflicts(V, v) ==
    \E w \in V : w.from = v.from \/ (w.to = Forever /\ v.to = Forever)

\* Mutant: the insert of a conflicting row is not waited for.
CollidesOnUpdate(r, q) ==
    phase[r] = "updating" /\ closing[q] # None /\ closing[q].id = target[r]

\* A row-locking backend waits for the transaction that is updating the same
\* row, or holds an index entry the insert would collide with.
Collides(r, q) ==
    \/ phase[r] = "updating" /\ closing[q] # None /\ closing[q].id = target[r]
    \/ phase[r] = "inserting" /\ adding[q] # None /\ Conflicts({adding[q]}, NewVersion(r))
Waits(r) == \E q \in open \ {r} : SingleWriter \/ Collides(r, q)

-----------------------------------------------------------------------------
Init ==
    /\ versions = {}
    /\ closing = [r \in Requests |-> None]
    /\ adding = [r \in Requests |-> None]
    /\ open = {}
    /\ loop = None
    /\ phase = [r \in Requests |-> "idle"]
    /\ body = [r \in Requests |-> None]
    /\ target = [r \in Requests |-> None]
    /\ status = [r \in Requests |-> "none"]

Arrive(r) ==
    /\ phase[r] = "idle"
    /\ \E b \in Bodies : body' = [body EXCEPT ![r] = b]
    /\ phase' = [phase EXCEPT ![r] = "ready"]
    /\ UNCHANGED <<versions, private, loop, target, status>>

\* create_definition_version starts on the loop.
Begin(r) ==
    /\ phase[r] = "ready" /\ loop = None
    /\ loop' = r
    /\ phase' = [phase EXCEPT
                    ![r] = IF body[r].closeAt = None THEN "checking" ELSE "finding"]
    /\ UNCHANGED <<versions, private, body, target, status>>

At(r, p) == phase[r] = p /\ loop = r
GoTo(r, p) == phase' = [phase EXCEPT ![r] = p] /\ UNCHANGED <<loop, status>>

\* The handler raises, or returns its response.
Leave(r, code) ==
    /\ status' = [status EXCEPT ![r] = code]
    /\ phase' = [phase EXCEPT ![r] = "returned"]
    /\ loop' = None

\* _close_open_version: the first version of the entity with no effective_to.
FindOpen(r) ==
    /\ At(r, "finding")
    /\ IF OpenVersions(View(r)) = {}
       THEN Leave(r, "VALIDATION_FAILED") /\ UNCHANGED target
       ELSE /\ \E v \in OpenVersions(View(r)) : target' = [target EXCEPT ![r] = v.id]
            /\ GoTo(r, "reading")
    /\ UNCHANGED <<versions, private, body>>

\* Mutant: close_version does not compare the dates.
ReadTargetUnchecked(r) ==
    /\ At(r, "reading")
    /\ \E v \in View(r) :
          /\ v.id = target[r]
          /\ IF v.to # Forever THEN Leave(r, "VALIDATION_FAILED")
             ELSE GoTo(r, "updating")
    /\ UNCHANGED <<versions, private, body, target>>

\* close_version reads the row again and refuses a closed one, then an empty range.
ReadTarget(r) ==
    /\ At(r, "reading")
    /\ \E v \in View(r) :
          /\ v.id = target[r]
          /\ IF v.to # Forever THEN Leave(r, "VALIDATION_FAILED")
             ELSE IF body[r].closeAt <= v.from THEN Leave(r, "EFFECTIVE_RANGE_INVALID")
             ELSE GoTo(r, "updating")
    /\ UNCHANGED <<versions, private, body, target>>

\* Mutant: the end date is taken to be inclusive.
UpdateInclusive(r) ==
    /\ At(r, "updating") /\ ~Waits(r)
    /\ IF \E v \in OpenVersions(View(r)) : v.id = target[r]
       THEN closing' = [closing EXCEPT ![r] = [id |-> target[r], to |-> body[r].closeAt - 1]]
       ELSE UNCHANGED closing
    /\ open' = open \cup {r}
    /\ GoTo(r, "checking")
    /\ UNCHANGED <<versions, adding, body, target>>

\* UPDATE ... WHERE version_id = ? AND effective_to IS NULL; the number of rows
\* it changed is not looked at.
UpdateTarget(r) ==
    /\ At(r, "updating") /\ ~Waits(r)
    /\ IF \E v \in OpenVersions(View(r)) : v.id = target[r]
       THEN closing' = [closing EXCEPT ![r] = [id |-> target[r], to |-> body[r].closeAt]]
       ELSE UNCHANGED closing
    /\ open' = open \cup {r}
    /\ GoTo(r, "checking")
    /\ UNCHANGED <<versions, adding, body, target>>

\* add_version lists the entity's versions and validates them with the new one.
CheckOverlap(r) ==
    /\ At(r, "checking")
    /\ IF Overlap(View(r) \cup {NewVersion(r)})
       THEN Leave(r, "OVERLAPPING_VERSIONS")
       ELSE GoTo(r, "inserting")
    /\ UNCHANGED <<versions, private, body, target>>

\* SAVEPOINT, INSERT, RELEASE.  When it is SQLite's first write statement, the
\* savepoint is the transaction and its release commits the row at once.
InsertVersion(r) ==
    /\ At(r, "inserting") /\ ~Waits(r)
    /\ ~Conflicts(View(r), NewVersion(r))
    /\ IF SingleWriter /\ r \notin open
       THEN /\ versions' = versions \cup {NewVersion(r)}
            /\ UNCHANGED <<adding, open>>
       ELSE /\ adding' = [adding EXCEPT ![r] = NewVersion(r)]
            /\ open' = open \cup {r}
            /\ UNCHANGED versions
    /\ Leave(r, "OK")
    /\ UNCHANGED <<closing, body, target>>

\* A unique index refuses the row: IntegrityError becomes OVERLAPPING_VERSIONS.
InsertConflicts(r) ==
    /\ At(r, "inserting") /\ ~Waits(r)
    /\ Conflicts(View(r), NewVersion(r))
    /\ open' = open \cup {r}
    /\ Leave(r, "OVERLAPPING_VERSIONS")
    /\ UNCHANGED <<versions, closing, adding, body, target>>

\* "database is locked": neither method catches OperationalError.
BusyTimeout(r) ==
    /\ SingleWriter
    /\ At(r, "updating") \/ At(r, "inserting")
    /\ Waits(r)
    /\ Leave(r, "INTERNAL")
    /\ UNCHANGED <<versions, private, body, target>>

-----------------------------------------------------------------------------
(* Teardown of get_session.                                                *)

Dispatch(r) ==
    /\ phase[r] = "returned" /\ loop = None
    /\ phase' = [phase EXCEPT ![r] = "closing"]
    /\ UNCHANGED <<versions, private, loop, body, target, status>>

EndTransaction(r) ==
    /\ closing' = [closing EXCEPT ![r] = None]
    /\ adding' = [adding EXCEPT ![r] = None]
    /\ open' = open \ {r}
    /\ phase' = [phase EXCEPT ![r] = "closed"]

Commit(r) ==
    /\ phase[r] = "closing" /\ status[r] = "OK"
    /\ versions' = View(r)
    /\ EndTransaction(r)
    /\ UNCHANGED <<loop, body, target, status>>

\* Mutant: an error does not roll the session back.
RollbackForgotten(r) ==
    /\ phase[r] = "closing" /\ status[r] # "OK"
    /\ versions' = View(r)
    /\ EndTransaction(r)
    /\ UNCHANGED <<loop, body, target, status>>

Rollback(r) ==
    /\ phase[r] = "closing" /\ status[r] # "OK"
    /\ EndTransaction(r)
    /\ UNCHANGED <<versions, loop, body, target, status>>

\* Mutant: the table is written although the commit raised.
CommitFailsLate(r) ==
    /\ phase[r] = "closing" /\ status[r] = "OK" /\ r \in open
    /\ status' = [status EXCEPT ![r] = "INTERNAL"]
    /\ versions' = View(r)
    /\ EndTransaction(r)
    /\ UNCHANGED <<loop, body, target>>

\* Only a transaction that has written has anything a commit could fail on.
CommitFails(r) ==
    /\ phase[r] = "closing" /\ status[r] = "OK" /\ r \in open
    /\ status' = [status EXCEPT ![r] = "INTERNAL"]
    /\ EndTransaction(r)
    /\ UNCHANGED <<versions, loop, body, target>>

Handler(r) == \/ Begin(r) \/ FindOpen(r) \/ ReadTarget(r) \/ UpdateTarget(r)
              \/ CheckOverlap(r) \/ InsertVersion(r) \/ InsertConflicts(r)
              \/ BusyTimeout(r)
Teardown(r) == Dispatch(r) \/ Commit(r) \/ Rollback(r) \/ CommitFails(r)

Next == \E r \in Requests : Arrive(r) \/ Handler(r) \/ Teardown(r)

Spec == Init /\ [][Next]_vars

-----------------------------------------------------------------------------
(* Properties.                                                             *)

TypeOK ==
    /\ versions \subseteq Versions
    /\ closing \in [Requests -> Closes \cup {None}]
    /\ adding \in [Requests -> Versions \cup {None}]
    /\ open \subseteq Requests
    /\ loop \in Requests \cup {None}
    /\ phase \in [Requests -> Phases]
    /\ body \in [Requests -> NewVersionRequests \cup {None}]
    /\ target \in [Requests -> Requests \cup {None}]
    /\ status \in [Requests -> Codes \cup {"none", "OK"}]

\* Every request creates a version that closes nothing, or a successor of the
\* usual shape: open-ended, beginning where its predecessor is closed.
OnlySuccessions ==
    \A r \in Requests : body[r] # None /\ body[r].closeAt # None =>
        body[r].closeAt = body[r].from /\ body[r].to = Forever

\* PLAN.md 8.3: versions of one entity never overlap: where all successors are
\* of the usual shape, at most one version is effective at any date, however the
\* requests that wrote them interleave.
NoOverlap ==
    OnlySuccessions =>
        \A v, w \in versions, d \in Dates :
            IsEffectiveAt(v, d) /\ IsEffectiveAt(w, d) => v = w

\* The partial unique index and UNIQUE (entity_id, effective_from): at most one
\* version is open, and no two begin on one date, even where ranges overlap.
OneOpenVersion ==
    \A v, w \in versions : v.from = w.from \/ (v.to = Forever /\ w.to = Forever) => v = w

\* create_definition_version: a request that is answered with an error has
\* written nothing, whatever it had done before it failed.
RejectionsWriteNothing ==
    \A r \in Requests :
        phase[r] = "closed" /\ status[r] # "OK" => \A v \in versions : v.id # r

\* close_version: "exactly one row changes".  A 201 that names the version it
\* closed tells the truth about where that version now ends, among such requests.
ClosesAreMade ==
    OnlySuccessions => \A r \in Requests :
        /\ phase[r] = "closed" /\ status[r] = "OK" /\ body[r].closeAt # None
        => \E v \in versions : v.id = target[r] /\ v.to = body[r].closeAt

\* Closing a version and appending its successor are one step: no reader and no
\* failure ever sees the close without the version that was to follow.
SupersessionIsAtomic ==
    [][\A v \in versions, w \in versions' :
          w.id = v.id /\ w.to # v.to =>
              \E r \in Requests : /\ target[r] = v.id /\ body[r].closeAt = w.to
                                  /\ NewVersion(r) \in versions' \ versions]_vars
=============================================================================
