------------------------------- MODULE Ledger -------------------------------
(***************************************************************************)
(* The write path of the ledger: POST /events, /events/batch,              *)
(* /events/{id}/void and /receipts, from the parsed request body to the    *)
(* answer the client reads.                                                *)
(*                                                                         *)
(* A handler is an `async def` whose body, once the request is parsed,     *)
(* awaits nothing: it runs on the event loop from its first read to its    *)
(* last INSERT, so `loop` names the one handler that is executing.  The    *)
(* transaction is closed by the teardown of api.deps.get_session, which    *)
(* FastAPI runs on a worker thread: the loop has to schedule it first      *)
(* (Dispatch), and other handlers run between a handler's return and its   *)
(* commit.  A read sees the committed tables and the transaction's own     *)
(* writes.  Retries need no action of their own: a client that lost an     *)
(* answer, or clicked twice, sends another request with the same body.     *)
(***************************************************************************)
EXTENDS Integers, Sequences, FiniteSets

CONSTANTS
    Requests,      \* the HTTP requests of the behaviour, one element each
    Bodies,        \* the parsed bodies a client may send
    Keys,          \* dedupe keys (and receipt hashes) occurring in Bodies
    ClientIds,     \* event ids a client may choose itself
    Obligations,   \* obligation ids occurring in Bodies
    Expected,      \* those the FixedCost definitions materialise
    KnownAccounts, \* accounts that have a definition
    SingleWriter,  \* TRUE: SQLite's one write lock; FALSE: row-level waits
    AckFirst,      \* TRUE: the 2xx answer leaves before the commit
    MaxCrashes,    \* bound on process crashes
    UnknownId,     \* an event id no row carries
    None           \* absent value

ASSUME SwitchesAreBoolean == SingleWriter \in BOOLEAN /\ AckFirst \in BOOLEAN
ASSUME CrashBound == MaxCrashes \in Nat

EventTypes == {"ObligationRaised", "PaymentMade", "EventVoided", "ExpenseRecorded"}
Codes == {"UNKNOWN_ACCOUNT", "UNKNOWN_OBLIGATION", "UNKNOWN_EVENT",
          "CANNOT_VOID_A_VOID", "ALREADY_VOIDED", "UNSUPPORTED_MEDIA_TYPE",
          "INTERNAL"}

\* A fresh uuid4 per item of a request, or the id the client supplied.
EventIds == (Requests \X Nat) \cup ClientIds \cup {UnknownId}
\* A void's manual key digests its target, so voids of two targets differ.
DedupeKeys == Keys \cup (Keys \X EventIds)

DraftsOver(K) == [type: EventTypes, key: K, id: ClientIds \cup {None},
                  account: KnownAccounts \cup {None, UnknownId},
                  obligation: Obligations \cup {None}, target: EventIds \cup {None}]
BodiesOver(K) == [op: {"append", "batch", "void", "receipt"},
                  accepted: BOOLEAN, items: Seq(DraftsOver(K))]
\* What a handler works on: the keys of its voids cover their target.
RequestBodies == BodiesOver(DedupeKeys)

ASSUME BodiesAreTyped == Bodies \subseteq BodiesOver(Keys)
ASSUME BodiesHaveItems == \A b \in Bodies : Len(b.items) > 0
\* Only /events/batch appends more than one event, and void_event appends a void.
ASSUME OneEventEach ==
    \A b \in Bodies : /\ b.op # "batch" => Len(b.items) = 1
                      /\ b.op = "void" => b.items[1].type = "EventVoided"
\* uuid4: the ids the server assigns are nobody else's.
ASSUME ServerIdsAreFresh == \A c \in ClientIds \cup {UnknownId} : c \notin Requests \X Nat

Rows == [id: EventIds, key: DedupeKeys, type: EventTypes,
         obligation: Obligations \cup {None}, target: EventIds \cup {None},
         blob: Requests \cup {None}]
Blobs == [id: Requests, sha: DedupeKeys]
Results == [id: EventIds, deduplicated: BOOLEAN]

VARIABLES
    rows,      \* committed rows of `events`
    blobs,     \* committed rows of `receipt_blobs`
    newRows,   \* per request: rows its open transaction has inserted
    newBlobs,  \* per request: blobs its open transaction has inserted
    open,      \* requests whose transaction has executed a write statement
    loop,      \* the request whose handler is running, or None
    phase,     \* per request: how far it has come
    body,      \* per request: its parsed body
    blobOf,    \* per request: the blob_id ReceiptRepository.store returned
    results,   \* per request: what append returned, item by item
    status,    \* per request: "none", "OK" or the error code
    answered,  \* requests whose answer was sent
    crashes    \* process crashes so far

tables == <<rows, blobs>>
private == <<newRows, newBlobs, open, blobOf, results>>
vars == <<tables, private, loop, phase, body, status, answered, crashes>>

Phases == {"idle", "ready", "writing", "returned", "closing", "closed", "crashed"}

-----------------------------------------------------------------------------
(* What a statement reads.                                                 *)

VoidedIds(S) == {e.target : e \in {f \in S : f.type = "EventVoided"}}
\* Mutant: any event that names an obligation is taken to raise it.
NamedObligations(S) == {e.obligation : e \in S}

ActiveObligations(S) ==
    {e.obligation : e \in {f \in S : /\ f.type = "ObligationRaised"
                                     /\ f.id \notin VoidedIds(S)}}

VisibleRows(r) == rows \cup newRows[r]
VisibleBlobs(r) == blobs \cup newBlobs[r]

\* Mutant: an absent event id is stored as it came.
RowWithoutFreshId(r, i) ==
    LET d == body[r].items[i]
    IN  [id |-> d.id, key |-> d.key, type |-> d.type, obligation |-> d.obligation,
         target |-> d.target, blob |-> blobOf[r]]

\* normalize_event: the client's id when it gave one, else a fresh uuid4.
RowOf(r, i) ==
    LET d == body[r].items[i]
    IN  [id |-> IF d.id = None THEN <<r, i>> ELSE d.id, key |-> d.key,
         type |-> d.type, obligation |-> d.obligation, target |-> d.target,
         blob |-> blobOf[r]]

Incoming(r) == {RowOf(r, i) : i \in DOMAIN body[r].items}
ItemsOf(r) == {body[r].items[i] : i \in DOMAIN body[r].items}

\* The manual key of an EventVoided covers the target the client named.
Aim(b, t) ==
    [b EXCEPT !.items =
        [i \in DOMAIN b.items |->
            IF b.items[i].type = "EventVoided"
            THEN [b.items[i] EXCEPT !.target = t, !.key = <<b.items[i].key, t>>]
            ELSE b.items[i]]]

-----------------------------------------------------------------------------
(* The checks a handler makes before it writes.                            *)

UnknownAccount(r) == \E d \in ItemsOf(r) : d.account \notin KnownAccounts \cup {None}

\* A payment's obligation must be projected from the stored and the incoming
\* events together, or be expected from a definition.
UnknownObligation(r) ==
    \E d \in ItemsOf(r) :
        /\ d.type = "PaymentMade"
        /\ d.obligation \notin Expected \cup ActiveObligations(rows \cup Incoming(r))

Target(r) == body[r].items[1].target
UnknownEvent(r) == \A e \in rows : e.id # Target(r)
TargetIsVoid(r) == \E e \in rows : e.id = Target(r) /\ e.type = "EventVoided"
AlreadyVoided(r) == Target(r) \in VoidedIds(rows)

\* check_references and, for a receipt, the media type it is stored under.
ReferenceError(r, code) ==
    \/ code = "UNKNOWN_ACCOUNT" /\ UnknownAccount(r)
    \/ code = "UNKNOWN_OBLIGATION" /\ ~UnknownAccount(r) /\ UnknownObligation(r)
    \/ /\ code = "UNSUPPORTED_MEDIA_TYPE"
       /\ body[r].op = "receipt" /\ ~body[r].accepted
       /\ ~UnknownAccount(r)

\* Mutant: void_event without its second check.
VoidErrorTwoChecks(r, code) ==
    \/ code = "UNKNOWN_EVENT" /\ UnknownEvent(r)
    \/ code = "ALREADY_VOIDED" /\ ~UnknownEvent(r) /\ AlreadyVoided(r)

\* void_event's three rejections, each presupposing the one before.
VoidError(r, code) ==
    \/ code = "UNKNOWN_EVENT" /\ UnknownEvent(r)
    \/ code = "CANNOT_VOID_A_VOID" /\ TargetIsVoid(r)
    \/ code = "ALREADY_VOIDED" /\ ~UnknownEvent(r) /\ ~TargetIsVoid(r) /\ AlreadyVoided(r)

Rejects(r, code) ==
    IF body[r].op = "void" THEN VoidError(r, code) ELSE ReferenceError(r, code)

-----------------------------------------------------------------------------
(* The statement a running handler executes next, and when it must wait.   *)

NeedsBlob(r) == body[r].op = "receipt" /\ blobOf[r] = None
Sha(r) == body[r].items[1].key
NextItem(r) == Len(results[r]) + 1
NextRow(r) == RowOf(r, NextItem(r))

\* Mutant: the conflict target is the primary key.
SameKeyById(S, e) == {f \in S : f.id = e.id}

SameKey(S, e) == {f \in S : f.key = e.key}
SameId(S, e) == {f \in S : f.id = e.id}

\* The uncommitted writes of q that r's next statement would collide with.
Collides(r, q) ==
    IF NeedsBlob(r)
    THEN \E x \in newBlobs[q] : x.sha = Sha(r)
    ELSE SameKey(newRows[q], NextRow(r)) \cup SameId(newRows[q], NextRow(r)) # {}

\* SQLite admits one writer; a row-locking backend waits on the same key only.
Waits(r) == \E q \in open \ {r} : SingleWriter \/ Collides(r, q)

-----------------------------------------------------------------------------
Init ==
    /\ rows = {} /\ blobs = {}
    /\ newRows = [r \in Requests |-> {}]
    /\ newBlobs = [r \in Requests |-> {}]
    /\ open = {}
    /\ loop = None
    /\ phase = [r \in Requests |-> "idle"]
    /\ body = [r \in Requests |-> None]
    /\ blobOf = [r \in Requests |-> None]
    /\ results = [r \in Requests |-> << >>]
    /\ status = [r \in Requests |-> "none"]
    /\ answered = {}
    /\ crashes = 0

\* A well-formed body arrives; a void names an id some client has seen, or none.
Arrive(r) ==
    /\ phase[r] = "idle"
    /\ \E b \in Bodies, t \in {e.id : e \in rows} \cup {UnknownId} :
           body' = [body EXCEPT ![r] = Aim(b, t)]
    /\ phase' = [phase EXCEPT ![r] = "ready"]
    /\ UNCHANGED <<tables, private, loop, status, answered, crashes>>

\* The handler raises before its first write; the session is still to close.
Reject(r) ==
    /\ phase[r] = "ready" /\ loop = None
    /\ \E code \in Codes :
           /\ Rejects(r, code)
           /\ status' = [status EXCEPT ![r] = code]
    /\ phase' = [phase EXCEPT ![r] = "returned"]
    /\ UNCHANGED <<tables, private, loop, body, answered, crashes>>

\* Every check passed on what is committed now; the handler goes on to write.
Admit(r) ==
    /\ phase[r] = "ready" /\ loop = None
    /\ \A code \in Codes : ~Rejects(r, code)
    /\ loop' = r
    /\ phase' = [phase EXCEPT ![r] = "writing"]
    /\ UNCHANGED <<tables, private, body, status, answered, crashes>>

Writing(r) == phase[r] = "writing" /\ loop = r

\* INSERT INTO receipt_blobs ... ON CONFLICT (content_sha256) DO NOTHING,
\* then SELECT the existing blob_id when nothing was inserted.
StoreBlob(r) ==
    /\ Writing(r) /\ NeedsBlob(r) /\ ~Waits(r)
    /\ open' = open \cup {r}
    /\ \/ \E x \in VisibleBlobs(r) :
              /\ x.sha = Sha(r)
              /\ blobOf' = [blobOf EXCEPT ![r] = x.id]
              /\ UNCHANGED newBlobs
       \/ /\ \A x \in VisibleBlobs(r) : x.sha # Sha(r)
          /\ newBlobs' = [newBlobs EXCEPT ![r] = @ \cup {[id |-> r, sha |-> Sha(r)]}]
          /\ blobOf' = [blobOf EXCEPT ![r] = r]
    /\ UNCHANGED <<tables, newRows, loop, phase, body, results, status, answered, crashes>>

\* The handler leaves the loop after its last item, with a 2xx to send.
AdvanceHandler(r) ==
    IF NextItem(r) = Len(body[r].items)
    THEN /\ phase' = [phase EXCEPT ![r] = "returned"]
         /\ status' = [status EXCEPT ![r] = "OK"]
         /\ loop' = None
    ELSE UNCHANGED <<phase, status, loop>>

AppendReady(r) == Writing(r) /\ ~NeedsBlob(r) /\ ~Waits(r)

\* INSERT ... ON CONFLICT (dedupe_key) DO NOTHING wrote nothing: the existing id.
Deduplicate(r) ==
    /\ AppendReady(r)
    /\ \E e \in SameKey(VisibleRows(r), NextRow(r)) :
           results' = [results EXCEPT ![r] =
                          Append(@, [id |-> e.id, deduplicated |-> TRUE])]
    /\ open' = open \cup {r}
    /\ AdvanceHandler(r)
    /\ UNCHANGED <<tables, newRows, newBlobs, body, blobOf, answered, crashes>>

\* The INSERT wrote exactly one row.
Insert(r) ==
    /\ AppendReady(r)
    /\ SameKey(VisibleRows(r), NextRow(r)) = {}
    /\ SameId(VisibleRows(r), NextRow(r)) = {}
    /\ newRows' = [newRows EXCEPT ![r] = @ \cup {NextRow(r)}]
    /\ results' = [results EXCEPT ![r] =
                      Append(@, [id |-> NextRow(r).id, deduplicated |-> FALSE])]
    /\ open' = open \cup {r}
    /\ AdvanceHandler(r)
    /\ UNCHANGED <<tables, newBlobs, body, blobOf, answered, crashes>>

\* The handler raises: everything the transaction wrote is to be rolled back.
Fail(r) ==
    /\ status' = [status EXCEPT ![r] = "INTERNAL"]
    /\ phase' = [phase EXCEPT ![r] = "returned"]
    /\ loop' = None

\* A new key under an id already stored: the primary key is not the conflict
\* target, so the INSERT raises IntegrityError, which no handler catches.
IdTaken(r) ==
    /\ AppendReady(r)
    /\ SameKey(VisibleRows(r), NextRow(r)) = {}
    /\ SameId(VisibleRows(r), NextRow(r)) # {}
    /\ open' = open \cup {r}
    /\ Fail(r)
    /\ UNCHANGED <<tables, newRows, newBlobs, body, blobOf, results, answered, crashes>>

\* Mutant: the lock is waited for without a timeout.
WaitsForever(r) == SingleWriter /\ Writing(r) /\ Waits(r) /\ UNCHANGED vars

\* SQLite gives up on a lock another connection keeps: "database is locked".
BusyTimeout(r) ==
    /\ SingleWriter
    /\ Writing(r) /\ Waits(r)
    /\ Fail(r)
    /\ UNCHANGED <<tables, private, body, answered, crashes>>

-----------------------------------------------------------------------------
(* Teardown of get_session, and the answer.                                *)

\* The loop hands the generator's teardown to a worker thread.
Dispatch(r) ==
    /\ phase[r] = "returned" /\ loop = None
    /\ AckFirst /\ status[r] = "OK" => r \in answered
    /\ phase' = [phase EXCEPT ![r] = "closing"]
    /\ UNCHANGED <<tables, private, loop, body, status, answered, crashes>>

Close(r) ==
    /\ newRows' = [newRows EXCEPT ![r] = {}]
    /\ newBlobs' = [newBlobs EXCEPT ![r] = {}]
    /\ open' = open \ {r}
    /\ phase' = [phase EXCEPT ![r] = "closed"]

\* session.commit() after a clean return.
Commit(r) ==
    /\ phase[r] = "closing" /\ status[r] = "OK"
    /\ rows' = rows \cup newRows[r]
    /\ blobs' = blobs \cup newBlobs[r]
    /\ Close(r)
    /\ UNCHANGED <<loop, body, blobOf, results, status, answered, crashes>>

\* Mutant: an exception in commit is swallowed.
CommitFailureSwallowed(r) ==
    /\ phase[r] = "closing" /\ status[r] = "OK"
    /\ Close(r)
    /\ UNCHANGED <<tables, loop, body, blobOf, results, status, answered, crashes>>

\* Mutant: the bytes are committed ahead of the event.
CommitFailsAfterBlob(r) ==
    /\ phase[r] = "closing" /\ status[r] = "OK"
    /\ status' = [status EXCEPT ![r] = IF r \in answered THEN @ ELSE "INTERNAL"]
    /\ blobs' = blobs \cup newBlobs[r]
    /\ Close(r)
    /\ UNCHANGED <<rows, loop, body, blobOf, results, answered, crashes>>

\* session.commit() raises (disk full, lock kept by a reader): rollback, 500
\* unless the answer is out already.
CommitFails(r) ==
    /\ phase[r] = "closing" /\ status[r] = "OK"
    /\ status' = [status EXCEPT ![r] = IF r \in answered THEN @ ELSE "INTERNAL"]
    /\ Close(r)
    /\ UNCHANGED <<tables, loop, body, blobOf, results, answered, crashes>>

\* Mutant: the session is committed on every exit.
RollbackForgotten(r) ==
    /\ phase[r] = "closing" /\ status[r] # "OK"
    /\ rows' = rows \cup newRows[r]
    /\ blobs' = blobs \cup newBlobs[r]
    /\ Close(r)
    /\ UNCHANGED <<loop, body, blobOf, results, status, answered, crashes>>

\* session.rollback() after an exception.
Rollback(r) ==
    /\ phase[r] = "closing" /\ status[r] # "OK"
    /\ Close(r)
    /\ UNCHANGED <<tables, loop, body, blobOf, results, status, answered, crashes>>

\* Mutant: a 2xx leaves as soon as the handler has returned.
AnswerEarly(r) ==
    /\ r \notin answered
    /\ phase[r] = "closed" \/ (phase[r] = "returned" /\ status[r] = "OK")
    /\ answered' = answered \cup {r}
    /\ UNCHANGED <<tables, private, loop, phase, body, status, crashes>>

\* An error leaves after the rollback; a 2xx after the commit, or before the
\* teardown under the FastAPI releases that end dependencies after the response.
Answer(r) ==
    /\ r \notin answered
    /\ \/ phase[r] = "closed"
       \/ AckFirst /\ phase[r] = "returned" /\ status[r] = "OK"
    /\ answered' = answered \cup {r}
    /\ UNCHANGED <<tables, private, loop, phase, body, status, crashes>>

\* The process dies: open transactions are undone, unsent answers are lost.
Crash ==
    /\ crashes < MaxCrashes
    /\ crashes' = crashes + 1
    /\ phase' = [r \in Requests |->
                    IF phase[r] = "idle" \/ (phase[r] = "closed" /\ r \in answered)
                    THEN phase[r] ELSE "crashed"]
    /\ newRows' = [r \in Requests |-> {}]
    /\ newBlobs' = [r \in Requests |-> {}]
    /\ open' = {}
    /\ loop' = None
    /\ UNCHANGED <<tables, body, blobOf, results, status, answered>>

Handler(r) == \/ Reject(r) \/ Admit(r) \/ StoreBlob(r) \/ Deduplicate(r)
              \/ Insert(r) \/ IdTaken(r) \/ BusyTimeout(r)
Teardown(r) == Dispatch(r) \/ Commit(r) \/ CommitFails(r) \/ Rollback(r)

Next == \/ \E r \in Requests : Arrive(r) \/ Handler(r) \/ Teardown(r) \/ Answer(r)
        \/ Crash

Spec == Init /\ [][Next]_vars

\* The loop serves every ready callback, worker threads finish, SQLite's busy
\* timeout fires; nothing makes a client send or a process crash.
Fairness == \A r \in Requests : /\ WF_vars(Handler(r))
                                /\ WF_vars(Teardown(r))
                                /\ WF_vars(Answer(r))
FairSpec == Spec /\ Fairness

-----------------------------------------------------------------------------
(* What clients do: the hypotheses some properties hold under.             *)

\* Voids are sent to /events/{id}/void, not posted as events.
VoidsUseTheirEndpoint ==
    \A b \in Bodies : \A i \in DOMAIN b.items :
        b.items[i].type = "EventVoided" => b.op = "void"

\* The key of a raise is the digest of its payload: no client puts it, or the
\* external reference that takes its place, on anything else.
RaisesOwnTheirKeys ==
    /\ \A b, c \in Bodies : \A i \in DOMAIN b.items, j \in DOMAIN c.items :
          b.items[i].type = "ObligationRaised" /\ c.items[j].key = b.items[i].key =>
              /\ c.items[j].type = "ObligationRaised"
              /\ c.items[j].obligation = b.items[i].obligation
    /\ Keys \cap (Keys \X EventIds) = {}

-----------------------------------------------------------------------------
(* Properties.                                                             *)

\* Every variable has its type: the shape the code's models and columns give.
TypeOK ==
    /\ rows \subseteq Rows /\ blobs \subseteq Blobs
    /\ newRows \in [Requests -> SUBSET Rows]
    /\ newBlobs \in [Requests -> SUBSET Blobs]
    /\ open \subseteq Requests
    /\ loop \in Requests \cup {None}
    /\ phase \in [Requests -> Phases]
    /\ body \in [Requests -> RequestBodies \cup {None}]
    /\ blobOf \in [Requests -> Requests \cup {None}]
    /\ results \in [Requests -> Seq(Results)]
    /\ status \in [Requests -> Codes \cup {"none", "OK"}]
    /\ answered \subseteq Requests
    /\ crashes \in 0 .. MaxCrashes

Ids(S) == {e.id : e \in S}

\* EventRepository.append: however requests interleave, retry and crash, one
\* dedupe key is one stored row and one event id is one stored row.
OneRowPerKey ==
    \A e, f \in rows : e.key = f.key \/ e.id = f.id => e = f

\* A row of S is what the i-th result of r says is stored.
Backs(S, r, i) ==
    \E e \in S : /\ e.id = results[r][i].id
                 /\ e.key = body[r].items[i].key
                 /\ ~results[r][i].deduplicated => e = RowOf(r, i)

\* AppendEventResponse: a 2xx names, for every item, a row that is committed
\* and carries the item's key; `deduplicated: false` names the row this very
\* request wrote.  An answer sent ahead of its commit is judged once the
\* request is over.
AnswersAreTrue ==
    \A r \in answered :
        status[r] = "OK" /\ phase[r] \in {"closed", "crashed"} =>
            /\ Len(results[r]) = Len(body[r].items)
            /\ \A i \in DOMAIN results[r] : Backs(rows, r, i)

\* get_session: a batch is one transaction.  The rows a request inserted are
\* committed together or not at all, and not at all after an error answer.
WrittenBy(r) == {x.id : x \in {results[r][i] : i \in
                    {j \in DOMAIN results[r] : /\ ~results[r][j].deduplicated
                                               /\ body[r].items[j].id = None}}}
AllOrNothing ==
    \A r \in Requests :
        \/ WrittenBy(r) \cap Ids(rows) = {}
        \/ status[r] = "OK" /\ WrittenBy(r) \subseteq Ids(rows)

\* ingest_receipt: no row refers to bytes that are not stored, and no stored
\* bytes are without the event their hash identifies.
ReceiptsKeepTheirBytes ==
    /\ \A e \in rows : e.blob # None =>
          \E x \in blobs : x.id = e.blob /\ x.sha = e.key
    /\ \A x \in blobs : \E e \in rows : e.key = x.sha

\* check_references and CONTRACTS.md 7.1: a stored payment names an expected
\* obligation or one that some stored event raised (it may be voided since).
PaymentsNameObligations ==
    \A e \in rows : e.type = "PaymentMade" =>
        \/ e.obligation \in Expected
        \/ \E f \in rows : f.type = "ObligationRaised" /\ f.obligation = e.obligation

\* void_event: what a void corrects is a stored event, never another void.
VoidsCorrectEvents ==
    \A e \in rows : e.type = "EventVoided" =>
        \E f \in rows : f.id = e.target /\ f.type # "EventVoided"

\* ALREADY_VOIDED: an event is voided at most once.
OneVoidPerTarget ==
    \A e, f \in rows :
        e.type = "EventVoided" /\ f.type = "EventVoided" /\ e.target = f.target => e = f

\* The ledger is append-only and written by commits: a committed row never
\* changes or goes, and what appears was inserted by one closing request
\* whose answer, if it was sent before, was a 2xx.
OnlyCommitsAppend ==
    [][/\ rows \subseteq rows'
       /\ rows' # rows => \E r \in Requests :
             /\ rows' \ rows \subseteq newRows[r]
             /\ phase[r] = "closing" /\ status[r] = "OK"]_vars

\* A duplicate is answered 200, never an error: a request fails with INTERNAL
\* only when no row with its key is stored or merely awaiting its commit.
DuplicateIsNotAnError ==
    [][\A r \in Requests :
          /\ status[r] = "none" /\ status'[r] = "INTERNAL"
          /\ body[r].op = "append" /\ phase[r] = "writing"
          => LET settled == rows \cup UNION {newRows[q] : q \in
                                {p \in Requests \ {r} : status[p] = "OK"}}
             IN  SameKey(settled, RowOf(r, 1)) = {}]_vars

\* Every request that reaches its handler is answered, unless the process dies.
EveryRequestIsAnswered ==
    \A r \in Requests : phase[r] = "ready" ~> (r \in answered \/ phase[r] = "crashed")

-----------------------------------------------------------------------------
(* The contract this implements when the answer follows the commit.        *)

Entries == {[key |-> e.key, id |-> e.id] : e \in rows}
ToldBy(r) == {[key |-> body[r].items[i].key, id |-> results[r][i].id] :
                 i \in DOMAIN results[r]}
Told == UNION {ToldBy(r) : r \in {q \in answered : status[q] = "OK"}}

Contract == INSTANCE LedgerContract WITH entries <- Entries, told <- Told

\* Seen from outside, the four endpoints are one atomic, idempotent record
\* operation followed by a truthful answer.
ImplementsContract == Contract!Spec

=============================================================================
