---------------------------- MODULE LedgerProofs ----------------------------
(***************************************************************************)
(* Theorems about Ledger, for every set of requests, bodies and keys, every *)
(* interleaving and any bound on crashes.                                   *)
(***************************************************************************)
EXTENDS Ledger, TLAPS

\* A running handler has a body with items left to append.
Progress ==
    \A r \in Requests :
        /\ phase[r] # "idle" => body[r] \in RequestBodies /\ Len(body[r].items) > 0
        /\ phase[r] \in {"idle", "ready"} => results[r] = << >>
        /\ phase[r] = "writing" => Len(results[r]) < Len(body[r].items)

TypedProgress == TypeOK /\ Progress

\* Aiming a body a client may send at an event id yields a typed body.
LEMMA AimIsTyped ==
    ASSUME NEW b \in Bodies, NEW t \in EventIds
    PROVE  Aim(b, t) \in RequestBodies /\ Len(Aim(b, t).items) > 0
<1>1. b \in BodiesOver(Keys) /\ Len(b.items) > 0
  BY BodiesAreTyped, BodiesHaveItems
<1>2. b.items \in Seq(DraftsOver(Keys))
  BY <1>1 DEF BodiesOver
<1> DEFINE Aimed(i) == IF b.items[i].type = "EventVoided"
                       THEN [b.items[i] EXCEPT !.target = t, !.key = <<b.items[i].key, t>>]
                       ELSE b.items[i]
           items == [i \in DOMAIN b.items |-> Aimed(i)]
<1>3. \A i \in DOMAIN b.items : Aimed(i) \in DraftsOver(DedupeKeys)
  <2> SUFFICES ASSUME NEW i \in DOMAIN b.items
               PROVE  Aimed(i) \in DraftsOver(DedupeKeys)
    OBVIOUS
  <2>1. b.items[i] \in DraftsOver(Keys)
    BY <1>2
  <2> QED
    BY <2>1 DEF DraftsOver, DedupeKeys
<1>4. DOMAIN b.items = 1 .. Len(b.items) /\ Len(b.items) \in Nat
  BY <1>2
<1> HIDE DEF Aimed
<1>5. items \in Seq(DraftsOver(DedupeKeys))
  BY <1>3, <1>4
<1>6. Len(items) = Len(b.items)
  BY <1>4, <1>5
<1>7. Aim(b, t) = [b EXCEPT !.items = items]
  BY DEF Aim, Aimed
<1> QED
  BY <1>1, <1>5, <1>6, <1>7 DEF BodiesOver, RequestBodies

\* The row a writing handler inserts next is typed.
LEMMA NextRowIsTyped ==
    ASSUME TypedProgress, NEW r \in Requests, phase[r] = "writing"
    PROVE  /\ NextItem(r) \in 1 .. Len(body[r].items)
           /\ body[r].items[NextItem(r)] \in DraftsOver(DedupeKeys)
           /\ NextRow(r) \in Rows
<1>1. body[r] \in RequestBodies /\ results[r] \in Seq(Results)
  BY DEF TypedProgress, TypeOK, Progress
<1>2. body[r].items \in Seq(DraftsOver(DedupeKeys))
  BY <1>1 DEF RequestBodies, BodiesOver
<1>3. NextItem(r) \in 1 .. Len(body[r].items)
  BY <1>1, <1>2 DEF NextItem, TypedProgress, Progress
<1>4. body[r].items[NextItem(r)] \in DraftsOver(DedupeKeys)
  BY <1>2, <1>3
<1>5. blobOf[r] \in Requests \cup {None}
  BY DEF TypedProgress, TypeOK
<1>6. <<r, NextItem(r)>> \in EventIds
  BY <1>3 DEF EventIds
<1>7. ClientIds \subseteq EventIds
  BY DEF EventIds
<1> QED
  BY <1>3, <1>4, <1>5, <1>6, <1>7 DEF NextRow, RowOf, Rows, DraftsOver

\* After one more item the handler is done, or has an item left.
LEMMA HandlerAdvances ==
    ASSUME TypedProgress, NEW r \in Requests, phase[r] = "writing",
           AdvanceHandler(r), body' = body,
           results' \in [Requests -> Seq(Results)], Len(results'[r]) = NextItem(r),
           \A q \in Requests \ {r} : results'[q] = results[q]
    PROVE  /\ phase' \in [Requests -> Phases]
           /\ status' \in [Requests -> Codes \cup {"none", "OK"}]
           /\ loop' \in Requests \cup {None}
           /\ Progress'
<1>1. NextItem(r) \in 1 .. Len(body[r].items) /\ Len(body[r].items) \in Nat
  <2>1. body[r].items \in Seq(DraftsOver(DedupeKeys))
    BY DEF TypedProgress, Progress, RequestBodies, BodiesOver
  <2> QED
    BY <2>1, NextRowIsTyped
<1>2. /\ phase' \in [Requests -> Phases]
      /\ status' \in [Requests -> Codes \cup {"none", "OK"}]
      /\ loop' \in Requests \cup {None}
  BY DEF TypedProgress, TypeOK, AdvanceHandler, Phases
<1>3. CASE NextItem(r) = Len(body[r].items)
  <2>1. phase' = [phase EXCEPT ![r] = "returned"]
    BY <1>3 DEF AdvanceHandler
  <2> QED
    BY <1>2, <2>1 DEF TypedProgress, TypeOK, Progress
<1>4. CASE NextItem(r) # Len(body[r].items)
  <2>1. phase' = phase /\ Len(results'[r]) < Len(body[r].items)
    BY <1>1, <1>4 DEF AdvanceHandler
  <2> QED
    BY <1>2, <2>1 DEF TypedProgress, TypeOK, Progress
<1> QED
  BY <1>3, <1>4

LEMMA InitIsTyped == Init => TypedProgress
  BY CrashBound DEF Init, TypedProgress, TypeOK, Progress, Phases

\* No step leaves the types, or a handler running without an item to append.
LEMMA StepIsTyped == TypedProgress /\ [Next]_vars => TypedProgress'
<1> SUFFICES ASSUME TypedProgress, [Next]_vars PROVE TypedProgress'
  OBVIOUS
<1> USE DEF TypedProgress
<1>1. ASSUME NEW r \in Requests, Arrive(r) PROVE TypedProgress'
  <2>1. PICK b \in Bodies, t \in {e.id : e \in rows} \cup {UnknownId} :
            body' = [body EXCEPT ![r] = Aim(b, t)]
    BY <1>1 DEF Arrive
  <2>2. t \in EventIds
    BY <2>1 DEF TypeOK, Rows, EventIds
  <2>3. Aim(b, t) \in RequestBodies /\ Len(Aim(b, t).items) > 0
    BY <2>2, AimIsTyped
  <2>4. TypeOK'
    BY <1>1, <2>1, <2>3 DEF Arrive, TypeOK, Phases, tables, private
  <2>5. Progress'
    BY <1>1, <2>1, <2>3 DEF Arrive, TypeOK, Progress, Phases, tables, private
  <2> QED
    BY <2>4, <2>5
<1>2. ASSUME NEW r \in Requests, Reject(r) PROVE TypedProgress'
  BY <1>2 DEF Reject, TypeOK, Progress, Phases, tables, private
<1>3. ASSUME NEW r \in Requests, Admit(r) PROVE TypedProgress'
  <2>1. TypeOK'
    BY <1>3 DEF Admit, TypeOK, Phases, tables, private
  <2>2. Progress'
    BY <1>3 DEF Admit, TypeOK, Progress, tables, private
  <2> QED
    BY <2>1, <2>2
<1>4. ASSUME NEW r \in Requests, StoreBlob(r) PROVE TypedProgress'
  <2>1. phase[r] = "writing" /\ body[r].op = "receipt" /\ results[r] \in Seq(Results)
    BY <1>4 DEF StoreBlob, Writing, NeedsBlob, TypeOK
  <2>2. body[r].items \in Seq(DraftsOver(DedupeKeys)) /\ Len(body[r].items) > 0
    BY <2>1 DEF Progress, RequestBodies, BodiesOver
  <2>3. Sha(r) \in DedupeKeys
    <3>1. body[r].items[1] \in DraftsOver(DedupeKeys)
      BY <2>2
    <3> QED
      BY <3>1 DEF Sha, DraftsOver
  <2>4. [id |-> r, sha |-> Sha(r)] \in Blobs
    BY <2>3 DEF Blobs
  <2>5. VisibleBlobs(r) \subseteq Blobs
    BY DEF VisibleBlobs, TypeOK
  <2>6. newBlobs' \in [Requests -> SUBSET Blobs] /\ blobOf' \in [Requests -> Requests \cup {None}]
    <3>1. CASE \E x \in VisibleBlobs(r) : /\ blobOf' = [blobOf EXCEPT ![r] = x.id]
                                          /\ UNCHANGED newBlobs
      BY <2>5, <3>1 DEF TypeOK, Blobs
    <3>2. CASE /\ newBlobs' = [newBlobs EXCEPT ![r] = @ \cup {[id |-> r, sha |-> Sha(r)]}]
               /\ blobOf' = [blobOf EXCEPT ![r] = r]
      BY <2>4, <3>2 DEF TypeOK
    <3> QED
      BY <1>4, <3>1, <3>2 DEF StoreBlob
  <2> QED
    BY <1>4, <2>6 DEF StoreBlob, TypeOK, Progress, Phases, tables, private
<1>5. ASSUME NEW r \in Requests, Deduplicate(r) PROVE TypedProgress'
  <2>1. phase[r] = "writing"
    BY <1>5 DEF Deduplicate, AppendReady, Writing
  <2>2. PICK e \in SameKey(VisibleRows(r), NextRow(r)) :
            results' = [results EXCEPT ![r] = Append(@, [id |-> e.id, deduplicated |-> TRUE])]
    BY <1>5 DEF Deduplicate
  <2>3. e.id \in EventIds
    BY <2>2 DEF SameKey, VisibleRows, TypeOK, Rows
  <2>4. [id |-> e.id, deduplicated |-> TRUE] \in Results
    BY <2>3 DEF Results
  <2>5. results' \in [Requests -> Seq(Results)] /\ Len(results'[r]) = NextItem(r)
    BY <2>2, <2>4 DEF TypeOK, NextItem
  <2> QED
    BY <1>5, <2>1, <2>5, HandlerAdvances DEF Deduplicate, TypeOK, tables
<1>6. ASSUME NEW r \in Requests, Insert(r) PROVE TypedProgress'
  <2>1. phase[r] = "writing"
    BY <1>6 DEF Insert, AppendReady, Writing
  <2>2. NextRow(r) \in Rows
    BY <2>1, NextRowIsTyped
  <2>3. [id |-> NextRow(r).id, deduplicated |-> FALSE] \in Results
    BY <2>2 DEF Rows, Results
  <2>4. results' \in [Requests -> Seq(Results)] /\ Len(results'[r]) = NextItem(r)
    BY <1>6, <2>3 DEF Insert, TypeOK, NextItem
  <2>5. newRows' \in [Requests -> SUBSET Rows]
    BY <1>6, <2>2 DEF Insert, TypeOK
  <2>6. /\ UNCHANGED <<tables, newBlobs, body, blobOf, answered, crashes>>
        /\ open' = open \cup {r} /\ AdvanceHandler(r)
        /\ results' = [results EXCEPT ![r] = results'[r]]
    BY <1>6 DEF Insert, TypeOK
  <2> QED
    BY <2>1, <2>4, <2>5, <2>6, HandlerAdvances DEF TypeOK, tables
<1>7. ASSUME NEW r \in Requests, IdTaken(r) PROVE TypedProgress'
  <2>1. TypeOK'
    BY <1>7 DEF IdTaken, Fail, TypeOK, Phases, Codes, tables, private
  <2>2. Progress'
    BY <1>7 DEF IdTaken, AppendReady, Writing, Fail, TypeOK, Progress, tables, private
  <2> QED
    BY <2>1, <2>2
<1>8. ASSUME NEW r \in Requests, BusyTimeout(r) PROVE TypedProgress'
  <2>1. TypeOK'
    BY <1>8 DEF BusyTimeout, Fail, TypeOK, Phases, Codes, tables, private
  <2>2. Progress'
    BY <1>8 DEF BusyTimeout, Writing, Fail, TypeOK, Progress, tables, private
  <2> QED
    BY <2>1, <2>2
<1>9. ASSUME NEW r \in Requests, Dispatch(r) PROVE TypedProgress'
  BY <1>9 DEF Dispatch, TypeOK, Progress, Phases, tables, private
<1>10. ASSUME NEW r \in Requests, Commit(r) PROVE TypedProgress'
  BY <1>10 DEF Commit, Close, TypeOK, Progress, Phases, tables, private
<1>11. ASSUME NEW r \in Requests, CommitFails(r) PROVE TypedProgress'
  BY <1>11 DEF CommitFails, Close, TypeOK, Progress, Phases, Codes, tables, private
<1>12. ASSUME NEW r \in Requests, Rollback(r) PROVE TypedProgress'
  BY <1>12 DEF Rollback, Close, TypeOK, Progress, Phases, tables, private
<1>13. ASSUME NEW r \in Requests, Answer(r) PROVE TypedProgress'
  BY <1>13 DEF Answer, TypeOK, Progress, tables, private
<1>14. ASSUME Crash PROVE TypedProgress'
  BY <1>14, CrashBound DEF Crash, TypeOK, Progress, Phases, tables
<1>15. ASSUME UNCHANGED vars PROVE TypedProgress'
  BY <1>15 DEF vars, TypeOK, Progress, tables, private
<1> QED
  BY <1>1, <1>2, <1>3, <1>4, <1>5, <1>6, <1>7, <1>8, <1>9, <1>10, <1>11, <1>12,
     <1>13, <1>14, <1>15 DEF Next, Handler, Teardown

\* The type invariant, for every set of requests and bodies.
THEOREM TypeCorrect == Spec => []TypeOK
<1>1. TypedProgress /\ [Next]_vars => TypedProgress'
  BY StepIsTyped
<1>2. Spec => []TypedProgress
  BY <1>1, InitIsTyped, PTL DEF Spec
<1> QED
  BY <1>2, PTL DEF TypedProgress

-----------------------------------------------------------------------------
(* One row per key.  The rows still in a transaction must be counted: a key *)
(* is unique among the committed rows only because no second transaction    *)
(* may hold it.                                                             *)

Recorded == rows \cup UNION {newRows[q] : q \in Requests}
UniqueEverywhere ==
    \A e, f \in Recorded : e.key = f.key \/ e.id = f.id => e = f
WritersAreOpen == \A q \in Requests : newRows[q] # {} => q \in open
KeyInv == TypeOK /\ UniqueEverywhere /\ WritersAreOpen

\* What r may insert collides with nothing any other transaction holds.
LEMMA NoHiddenConflict ==
    ASSUME KeyInv, NEW r \in Requests, Insert(r), NEW e \in Recorded
    PROVE  e.key # NextRow(r).key /\ e.id # NextRow(r).id
<1>1. CASE e \in VisibleRows(r)
  BY <1>1 DEF Insert, SameKey, SameId
<1>2. CASE e \notin VisibleRows(r)
  <2>1. PICK q \in Requests \ {r} : e \in newRows[q]
    BY <1>2 DEF Recorded, VisibleRows
  <2>2. q \in open
    BY <2>1 DEF KeyInv, WritersAreOpen
  <2>3. ~Collides(r, q) /\ ~NeedsBlob(r)
    BY <2>1, <2>2 DEF Insert, AppendReady, Waits
  <2>4. SameKey(newRows[q], NextRow(r)) = {} /\ SameId(newRows[q], NextRow(r)) = {}
    BY <2>3 DEF Collides
  <2> QED
    BY <2>1, <2>4 DEF SameKey, SameId
<1> QED
  BY <1>1, <1>2

\* Only an insert extends what is recorded, and with one row.
LEMMA RecordedGrows ==
    ASSUME TypeOK, [Next]_vars
    PROVE  \/ Recorded' \subseteq Recorded
           \/ \E r \in Requests : Insert(r) /\ Recorded' = Recorded \cup {NextRow(r)}
<1>1. ASSUME NEW r \in Requests, Insert(r) PROVE Recorded' = Recorded \cup {NextRow(r)}
  <2>1. /\ rows' = rows
        /\ newRows' = [newRows EXCEPT ![r] = @ \cup {NextRow(r)}]
    BY <1>1 DEF Insert, tables
  <2> QED
    BY <2>1 DEF Recorded, TypeOK
<1>2. ASSUME NEW r \in Requests, Close(r), rows' \subseteq rows \cup newRows[r]
      PROVE  Recorded' \subseteq Recorded
  <2>1. newRows' = [newRows EXCEPT ![r] = {}]
    BY <1>2 DEF Close
  <2> QED
    BY <1>2, <2>1 DEF Recorded, TypeOK
<1>3. ASSUME NEW r \in Requests, Commit(r) \/ CommitFails(r) \/ Rollback(r)
      PROVE  Recorded' \subseteq Recorded
  BY <1>2, <1>3 DEF Commit, CommitFails, Rollback, tables
<1>4. ASSUME Crash PROVE Recorded' \subseteq Recorded
  BY <1>4 DEF Crash, Recorded, tables
<1>5. ASSUME UNCHANGED <<rows, newRows>> PROVE Recorded' \subseteq Recorded
  BY <1>5 DEF Recorded
<1>6. ASSUME NEW r \in Requests,
             \/ Arrive(r) \/ Reject(r) \/ Admit(r) \/ StoreBlob(r) \/ Deduplicate(r)
             \/ IdTaken(r) \/ BusyTimeout(r) \/ Dispatch(r) \/ Answer(r)
      PROVE  UNCHANGED <<rows, newRows>>
  BY <1>6 DEF Arrive, Reject, Admit, StoreBlob, Deduplicate, IdTaken, BusyTimeout,
              Dispatch, Answer, tables, private
<1>7. UNCHANGED vars => UNCHANGED <<rows, newRows>>
  BY DEF vars, tables, private
<1> QED
  BY <1>1, <1>3, <1>4, <1>5, <1>6, <1>7 DEF Next, Handler, Teardown

\* A transaction that holds rows has executed a write statement and is not closed.
LEMMA WritersStayOpen ==
    ASSUME TypeOK, WritersAreOpen, [Next]_vars
    PROVE  WritersAreOpen'
<1>1. ASSUME NEW r \in Requests, Close(r) PROVE WritersAreOpen'
  BY <1>1 DEF Close, WritersAreOpen, TypeOK
<1>2. ASSUME NEW r \in Requests, Insert(r) PROVE WritersAreOpen'
  BY <1>2 DEF Insert, WritersAreOpen, TypeOK
<1>3. ASSUME open \subseteq open', newRows' = newRows PROVE WritersAreOpen'
  BY <1>3 DEF WritersAreOpen
<1>4. ASSUME NEW r \in Requests,
             \/ Arrive(r) \/ Reject(r) \/ Admit(r) \/ StoreBlob(r) \/ Deduplicate(r)
             \/ IdTaken(r) \/ BusyTimeout(r) \/ Dispatch(r) \/ Answer(r)
      PROVE  open \subseteq open' /\ newRows' = newRows
  BY <1>4 DEF Arrive, Reject, Admit, StoreBlob, Deduplicate, IdTaken, BusyTimeout,
              Dispatch, Answer, tables, private
<1>5. ASSUME NEW r \in Requests, Commit(r) \/ CommitFails(r) \/ Rollback(r)
      PROVE  Close(r)
  BY <1>5 DEF Commit, CommitFails, Rollback
<1>6. Crash => WritersAreOpen'
  BY DEF Crash, WritersAreOpen
<1>7. UNCHANGED vars => open' = open /\ newRows' = newRows
  BY DEF vars, private
<1> QED
  BY <1>1, <1>2, <1>3, <1>4, <1>5, <1>6, <1>7 DEF Next, Handler, Teardown

LEMMA KeyInvIsInductive == KeyInv /\ TypeOK' /\ [Next]_vars => KeyInv'
<1> SUFFICES ASSUME KeyInv, TypeOK', [Next]_vars PROVE KeyInv'
  OBVIOUS
<1>1. WritersAreOpen'
  BY WritersStayOpen DEF KeyInv
<1>2. ASSUME Recorded' \subseteq Recorded PROVE UniqueEverywhere'
  BY <1>2 DEF KeyInv, UniqueEverywhere
<1>3. ASSUME NEW r \in Requests, Insert(r), Recorded' = Recorded \cup {NextRow(r)}
      PROVE  UniqueEverywhere'
  <2>1. \A e \in Recorded : e.key # NextRow(r).key /\ e.id # NextRow(r).id
    BY <1>3, NoHiddenConflict
  <2> QED
    BY <1>3, <2>1 DEF KeyInv, UniqueEverywhere
<1>4. UniqueEverywhere'
  BY <1>2, <1>3, RecordedGrows DEF KeyInv, UniqueEverywhere
<1> QED
  BY <1>1, <1>4 DEF KeyInv

LEMMA KeyInvHolds == Spec => []KeyInv
<1>1. Init => KeyInv
  <2>1. Init => UniqueEverywhere /\ WritersAreOpen
    BY DEF Init, UniqueEverywhere, Recorded, WritersAreOpen
  <2> QED
    BY <2>1, InitIsTyped DEF KeyInv, TypedProgress
<1> QED
  BY <1>1, KeyInvIsInductive, TypeCorrect, PTL DEF Spec

\* However requests interleave, are retried, fail and crash, one dedupe key is
\* one stored row and one event id is one stored row, whatever the backend's
\* locks and whenever the answer leaves.
THEOREM KeysAreUnique == Spec => []OneRowPerKey
<1>1. KeyInv => OneRowPerKey
  BY DEF KeyInv, UniqueEverywhere, Recorded, OneRowPerKey
<1> QED
  BY <1>1, KeyInvHolds, PTL

-----------------------------------------------------------------------------
(* Answers.  A result is backed while the transaction is open by what the   *)
(* transaction sees and, unless answers are sent ahead of commits, for good *)
(* once it has committed.                                                   *)

Running == {"writing", "returned", "closing"}

ResultsAreBacked ==
    \A r \in Requests : \A i \in DOMAIN results[r] :
        /\ phase[r] \in Running => Backs(VisibleRows(r), r, i)
        /\ ~AckFirst /\ status[r] = "OK" /\ phase[r] = "closed" => Backs(rows, r, i)
OKsAreComplete ==
    \A r \in Requests : status[r] = "OK" =>
        /\ phase[r] \in {"returned", "closing", "closed", "crashed"}
        /\ Len(results[r]) = Len(body[r].items)
AnswersAreLast == ~AckFirst => \A r \in answered : phase[r] = "closed"
BlobsComeFirst == \A r \in Requests : results[r] # << >> => ~NeedsBlob(r)

AnswerInv == /\ TypedProgress
             /\ ResultsAreBacked /\ OKsAreComplete
             /\ AnswersAreLast /\ BlobsComeFirst

\* Steps that change neither bodies nor results keep every result backed, if
\* what a running request sees only grows and a commit publishes its rows.
LEMMA FrameKeepsBacking ==
    ASSUME ResultsAreBacked, UNCHANGED <<body, blobOf, results>>, rows \subseteq rows',
           \A q \in Requests : phase'[q] \in Running =>
               /\ phase[q] \in Running \/ results[q] = << >>
               /\ newRows[q] \subseteq newRows'[q],
           \A q \in Requests : ~AckFirst /\ status'[q] = "OK" /\ phase'[q] = "closed" =>
               \/ status[q] = "OK" /\ phase[q] = "closed"
               \/ phase[q] = "closing" /\ newRows[q] \subseteq rows'
    PROVE  ResultsAreBacked'
<1> SUFFICES ASSUME NEW q \in Requests, NEW i \in DOMAIN results[q]
             PROVE  /\ phase'[q] \in Running => Backs(VisibleRows(q), q, i)'
                    /\ ~AckFirst /\ status'[q] = "OK" /\ phase'[q] = "closed" => Backs(rows, q, i)'
  BY DEF ResultsAreBacked
<1>1. RowOf(q, i)' = RowOf(q, i)
  BY DEF RowOf
<1>2. results[q] # << >>
  OBVIOUS
<1>3. ASSUME phase'[q] \in Running PROVE Backs(VisibleRows(q), q, i)'
  <2>1. Backs(VisibleRows(q), q, i)
    BY <1>2, <1>3 DEF ResultsAreBacked
  <2>2. VisibleRows(q) \subseteq VisibleRows(q)'
    BY <1>3 DEF VisibleRows
  <2> QED
    BY <1>1, <2>1, <2>2 DEF Backs
<1>4. ASSUME ~AckFirst, status'[q] = "OK", phase'[q] = "closed" PROVE Backs(rows, q, i)'
  <2>1. CASE status[q] = "OK" /\ phase[q] = "closed"
    BY <1>1, <1>4, <2>1 DEF ResultsAreBacked, Backs
  <2>2. CASE phase[q] = "closing" /\ newRows[q] \subseteq rows'
    <3>1. Backs(VisibleRows(q), q, i)
      BY <2>2 DEF ResultsAreBacked, Running
    <3>2. VisibleRows(q) \subseteq rows'
      BY <2>2 DEF VisibleRows
    <3> QED
      BY <1>1, <3>1, <3>2 DEF Backs
  <2> QED
    BY <1>4, <2>1, <2>2
<1> QED
  BY <1>3, <1>4

\* One more result, backed by what the transaction now sees.
LEMMA AppendKeepsBacking ==
    ASSUME AnswerInv, NEW r \in Requests, NEW x, phase[r] = "writing",
           results' = [results EXCEPT ![r] = Append(@, x)],
           UNCHANGED <<rows, body, blobOf>>,
           \A q \in Requests \ {r} : phase'[q] = phase[q] /\ status'[q] = status[q],
           phase'[r] # "closed",
           \A q \in Requests : newRows[q] \subseteq newRows'[q],
           \E e \in VisibleRows(r)' :
               /\ e.id = x.id /\ e.key = NextRow(r).key
               /\ ~x.deduplicated => e = NextRow(r)
    PROVE  ResultsAreBacked'
<1> SUFFICES ASSUME NEW q \in Requests, NEW i \in DOMAIN results'[q]
             PROVE  /\ phase'[q] \in Running => Backs(VisibleRows(q), q, i)'
                    /\ ~AckFirst /\ status'[q] = "OK" /\ phase'[q] = "closed" => Backs(rows, q, i)'
  BY DEF ResultsAreBacked
<1> RowOf(q, i)' = RowOf(q, i)
  BY DEF RowOf
<1> VisibleRows(q) \subseteq VisibleRows(q)'
  BY DEF VisibleRows
<1> results \in [Requests -> Seq(Results)]
  BY DEF AnswerInv, TypedProgress, TypeOK
<1>1. CASE q # r
  BY <1>1 DEF AnswerInv, ResultsAreBacked, Backs
<1>2. CASE q = r /\ i # NextItem(r)
  <2>1. i \in DOMAIN results[r] /\ results'[r][i] = results[r][i]
    BY <1>2 DEF NextItem
  <2>2. Backs(VisibleRows(r), r, i)
    BY <2>1 DEF AnswerInv, ResultsAreBacked, Running
  <2> QED
    BY <1>2, <2>1, <2>2 DEF Backs
<1>3. CASE q = r /\ i = NextItem(r)
  <2>1. results'[r][i] = x
    BY <1>3 DEF NextItem
  <2>2. NextRow(r).key = body[r].items[i].key
    BY <1>3 DEF NextRow, RowOf
  <2> QED
    BY <1>3, <2>1, <2>2 DEF Backs, NextRow
<1> QED
  BY <1>1, <1>2, <1>3

\* Outside StoreBlob, Deduplicate, Insert and Arrive the frame lemma applies.
LEMMA OtherStepsKeepBacking ==
    ASSUME AnswerInv,
           \/ \E r \in Requests :
                 \/ Reject(r) \/ Admit(r) \/ IdTaken(r) \/ BusyTimeout(r)
                 \/ Teardown(r) \/ Answer(r)
           \/ Crash \/ UNCHANGED vars
    PROVE  ResultsAreBacked'
<1> USE FrameKeepsBacking DEF AnswerInv, TypedProgress, TypeOK, Running
<1>1. ASSUME NEW r \in Requests, Reject(r) \/ Admit(r) PROVE ResultsAreBacked'
  BY <1>1 DEF Reject, Admit, Progress, tables, private
<1>2. ASSUME NEW r \in Requests, IdTaken(r) \/ BusyTimeout(r) PROVE ResultsAreBacked'
  BY <1>2 DEF IdTaken, BusyTimeout, AppendReady, Writing, Fail, tables, private
<1>3. ASSUME NEW r \in Requests, Dispatch(r) \/ Answer(r) PROVE ResultsAreBacked'
  BY <1>3 DEF Dispatch, Answer, tables, private
<1>4. ASSUME NEW r \in Requests, Commit(r) PROVE ResultsAreBacked'
  BY <1>4 DEF Commit, Close
<1>5. ASSUME NEW r \in Requests, CommitFails(r) PROVE ResultsAreBacked'
  BY <1>5 DEF CommitFails, Close, AnswersAreLast, tables
<1>6. ASSUME NEW r \in Requests, Rollback(r) PROVE ResultsAreBacked'
  BY <1>6 DEF Rollback, Close, tables
<1>7. Crash => ResultsAreBacked'
  BY DEF Crash, tables
<1>8. UNCHANGED vars => ResultsAreBacked'
  BY DEF vars, tables, private
<1> QED
  BY <1>1, <1>2, <1>3, <1>4, <1>5, <1>6, <1>7, <1>8 DEF Teardown

LEMMA WritingStepsKeepBacking ==
    ASSUME AnswerInv, NEW r \in Requests,
           Arrive(r) \/ StoreBlob(r) \/ Deduplicate(r) \/ Insert(r)
    PROVE  ResultsAreBacked'
<1>0. TypedProgress /\ ResultsAreBacked /\ BlobsComeFirst
  BY DEF AnswerInv
<1>1. CASE Arrive(r)
  <2>1. results[r] = << >> /\ results' = results
    BY <1>0, <1>1 DEF Arrive, TypedProgress, Progress, private
  <2>2. \A q \in Requests \ {r} : body'[q] = body[q] /\ phase'[q] = phase[q]
    BY <1>0, <1>1 DEF Arrive, TypedProgress, TypeOK
  <2>3. UNCHANGED <<rows, newRows, blobOf, status>>
    BY <1>0, <1>1 DEF Arrive, tables, private
  <2>4. \A q \in Requests \ {r} : \A i : RowOf(q, i)' = RowOf(q, i)
    BY <2>2, <2>3 DEF RowOf
  <2> QED
    BY <1>0, <2>1, <2>2, <2>3, <2>4 DEF ResultsAreBacked, Backs, VisibleRows
<1>2. CASE StoreBlob(r)
  <2>1. results[r] = << >> /\ results' = results
    BY <1>0, <1>2 DEF StoreBlob, BlobsComeFirst
  <2>2. \A q \in Requests \ {r} : blobOf'[q] = blobOf[q]
    BY <1>0, <1>2 DEF StoreBlob, TypedProgress, TypeOK
  <2>3. \A q \in Requests \ {r} : \A i : RowOf(q, i)' = RowOf(q, i)
    BY <1>0, <1>2, <2>2 DEF StoreBlob, RowOf
  <2> QED
    BY <1>0, <1>2, <2>1, <2>3 DEF StoreBlob, ResultsAreBacked, Backs, VisibleRows, tables
<1>3. CASE Deduplicate(r)
  <2>1. PICK e \in SameKey(VisibleRows(r), NextRow(r)) :
            results' = [results EXCEPT ![r] = Append(@, [id |-> e.id, deduplicated |-> TRUE])]
    BY <1>0, <1>3 DEF Deduplicate
  <2>2. VisibleRows(r)' = VisibleRows(r)
    BY <1>0, <1>3 DEF Deduplicate, VisibleRows, tables
  <2>3. e \in VisibleRows(r)' /\ e.key = NextRow(r).key
    BY <2>1, <2>2 DEF SameKey
  <2>4. /\ phase'[r] # "closed" /\ UNCHANGED <<rows, newRows, body, blobOf>>
        /\ phase[r] = "writing"
        /\ \A q \in Requests \ {r} : phase'[q] = phase[q] /\ status'[q] = status[q]
    BY <1>0, <1>3 DEF Deduplicate, AppendReady, Writing, AdvanceHandler, TypedProgress, TypeOK, tables
  <2> DEFINE x == [id |-> e.id, deduplicated |-> TRUE]
  <2>5. e.id = x.id /\ x.deduplicated
    OBVIOUS
  <2>6. \A q \in Requests : newRows[q] \subseteq newRows'[q]
    BY <2>4
  <2> HIDE DEF x
  <2>7. results' = [results EXCEPT ![r] = Append(@, x)]
    BY <2>1 DEF x
  <2> QED
    BY <2>3, <2>4, <2>5, <2>6, <2>7, AppendKeepsBacking
<1>4. CASE Insert(r)
  <2>1. NextRow(r) \in VisibleRows(r)'
    BY <1>0, <1>4 DEF Insert, VisibleRows, TypedProgress, TypeOK
  <2>2. /\ phase'[r] # "closed" /\ UNCHANGED <<rows, body, blobOf>>
        /\ phase[r] = "writing"
        /\ \A q \in Requests \ {r} : phase'[q] = phase[q] /\ status'[q] = status[q]
    BY <1>0, <1>4 DEF Insert, AppendReady, Writing, AdvanceHandler, TypedProgress, TypeOK, tables
  <2>3. \A q \in Requests : newRows[q] \subseteq newRows'[q]
    BY <1>0, <1>4 DEF Insert, TypedProgress, TypeOK
  <2>4. results' = [results EXCEPT ![r] =
                       Append(@, [id |-> NextRow(r).id, deduplicated |-> FALSE])]
    BY <1>0, <1>4 DEF Insert
  <2> DEFINE x == [id |-> NextRow(r).id, deduplicated |-> FALSE]
  <2>5. NextRow(r).id = x.id
    OBVIOUS
  <2> HIDE DEF x
  <2>6. results' = [results EXCEPT ![r] = Append(@, x)]
    BY <2>4 DEF x
  <2> QED
    BY <2>1, <2>2, <2>3, <2>5, <2>6, AppendKeepsBacking
<1> QED
  BY <1>1, <1>2, <1>3, <1>4

\* A 2xx is decided with the last item, and no later step touches its results.
LEMMA OKsStayComplete ==
    ASSUME AnswerInv, [Next]_vars
    PROVE  OKsAreComplete'
<1>0. TypedProgress /\ OKsAreComplete
  BY DEF AnswerInv
<1>1. ASSUME NEW r \in Requests, Deduplicate(r) \/ Insert(r) PROVE OKsAreComplete'
  <2>1. PICK x : results' = [results EXCEPT ![r] = Append(@, x)]
    BY <1>1 DEF Deduplicate, Insert
  <2>2. Len(results'[r]) = NextItem(r) /\ \A q \in Requests \ {r} : results'[q] = results[q]
    BY <1>0, <2>1 DEF NextItem, TypedProgress, TypeOK
  <2>3. phase[r] = "writing" /\ AdvanceHandler(r) /\ body' = body
    BY <1>1 DEF Deduplicate, Insert, AppendReady, Writing
  <2> QED
    BY <1>0, <2>2, <2>3 DEF AdvanceHandler, OKsAreComplete, TypedProgress, TypeOK
<1>2. ASSUME NEW r \in Requests, Arrive(r) PROVE OKsAreComplete'
  <2>1. phase[r] = "idle" /\ UNCHANGED <<status, results>>
    BY <1>2 DEF Arrive, private
  <2>2. \A q \in Requests \ {r} : body'[q] = body[q] /\ phase'[q] = phase[q]
    BY <1>0, <1>2 DEF Arrive, TypedProgress, TypeOK
  <2> QED
    BY <1>0, <2>1, <2>2 DEF OKsAreComplete
<1>3. ASSUME NEW r \in Requests, Reject(r) \/ Admit(r) \/ StoreBlob(r) PROVE OKsAreComplete'
  BY <1>0, <1>3 DEF Reject, Admit, StoreBlob, Writing, OKsAreComplete, TypedProgress, TypeOK,
                    Codes, private
<1>4. ASSUME NEW r \in Requests, IdTaken(r) \/ BusyTimeout(r) PROVE OKsAreComplete'
  BY <1>0, <1>4 DEF IdTaken, BusyTimeout, Fail, OKsAreComplete, TypedProgress, TypeOK, private
<1>5. ASSUME NEW r \in Requests, Teardown(r) \/ Answer(r) PROVE OKsAreComplete'
  BY <1>0, <1>5 DEF Teardown, Dispatch, Commit, CommitFails, Rollback, Close, Answer,
                    OKsAreComplete, TypedProgress, TypeOK, private
<1>6. Crash \/ UNCHANGED vars => OKsAreComplete'
  BY <1>0 DEF Crash, vars, private, OKsAreComplete
<1> QED
  BY <1>1, <1>2, <1>3, <1>4, <1>5, <1>6 DEF Next, Handler

\* A receipt has its blob_id before its event is appended.
LEMMA BlobsStayFirst ==
    ASSUME AnswerInv, [Next]_vars
    PROVE  BlobsComeFirst'
<1>0. TypedProgress /\ BlobsComeFirst
  BY DEF AnswerInv
<1>1. ASSUME NEW r \in Requests, Deduplicate(r) \/ Insert(r) PROVE BlobsComeFirst'
  <2>1. ~NeedsBlob(r) /\ UNCHANGED <<body, blobOf>>
    BY <1>1 DEF Deduplicate, Insert, AppendReady
  <2>2. \A q \in Requests \ {r} : results'[q] = results[q]
    BY <1>0, <1>1 DEF Deduplicate, Insert, TypedProgress, TypeOK
  <2> QED
    BY <1>0, <2>1, <2>2 DEF BlobsComeFirst, NeedsBlob
<1>2. ASSUME NEW r \in Requests, Arrive(r) \/ StoreBlob(r) PROVE BlobsComeFirst'
  <2>1. results[r] = << >> /\ results' = results
    BY <1>0, <1>2 DEF Arrive, StoreBlob, BlobsComeFirst, TypedProgress, Progress, private
  <2>2. \A q \in Requests \ {r} : body'[q] = body[q] /\ blobOf'[q] = blobOf[q]
    BY <1>0, <1>2 DEF Arrive, StoreBlob, TypedProgress, TypeOK, private
  <2> QED
    BY <1>0, <2>1, <2>2 DEF BlobsComeFirst, NeedsBlob
<1>3. ASSUME UNCHANGED <<body, blobOf, results>> PROVE BlobsComeFirst'
  BY <1>0, <1>3 DEF BlobsComeFirst, NeedsBlob
<1>4. ASSUME NEW r \in Requests,
             \/ Reject(r) \/ Admit(r) \/ IdTaken(r) \/ BusyTimeout(r) \/ Teardown(r) \/ Answer(r)
      PROVE  UNCHANGED <<body, blobOf, results>>
  BY <1>4 DEF Reject, Admit, IdTaken, BusyTimeout, Fail, Teardown, Dispatch, Commit,
              CommitFails, Rollback, Answer, private
<1>5. Crash \/ UNCHANGED vars => UNCHANGED <<body, blobOf, results>>
  BY DEF Crash, vars, private
<1> QED
  BY <1>1, <1>2, <1>3, <1>4, <1>5 DEF Next, Handler

\* When the answer follows the commit, nothing happens to an answered request.
LEMMA AnswersStayLast ==
    ASSUME AnswerInv, [Next]_vars
    PROVE  AnswersAreLast'
<1> SUFFICES ASSUME ~AckFirst PROVE AnswersAreLast'
  BY DEF AnswersAreLast
<1>0. TypedProgress /\ AnswersAreLast
  BY DEF AnswerInv
<1>1. ASSUME NEW r \in Requests, Arrive(r) \/ Handler(r) \/ Teardown(r)
      PROVE  /\ phase[r] # "closed" /\ answered' = answered
             /\ \A q \in Requests \ {r} : phase'[q] = phase[q]
  BY <1>0, <1>1 DEF Arrive, Handler, Reject, Admit, StoreBlob, Deduplicate, Insert, IdTaken,
       BusyTimeout, AppendReady, AdvanceHandler, Writing, Fail, Teardown, Dispatch, Commit,
       CommitFails, Rollback, Close, TypedProgress, TypeOK
<1>2. ASSUME NEW r \in Requests, Answer(r) PROVE AnswersAreLast'
  BY <1>0, <1>2 DEF Answer, AnswersAreLast
<1>3. Crash \/ UNCHANGED vars => AnswersAreLast'
  BY <1>0 DEF Crash, vars, AnswersAreLast, TypedProgress, TypeOK
<1>4. answered \subseteq Requests
  BY <1>0 DEF TypedProgress, TypeOK
<1> QED
  BY <1>0, <1>1, <1>2, <1>3, <1>4 DEF Next, AnswersAreLast

LEMMA AnswerInvIsInductive == AnswerInv /\ [Next]_vars => AnswerInv'
<1> SUFFICES ASSUME AnswerInv, [Next]_vars PROVE AnswerInv'
  OBVIOUS
<1>1. TypedProgress'
  BY StepIsTyped DEF AnswerInv
<1>2. ResultsAreBacked'
  BY OtherStepsKeepBacking, WritingStepsKeepBacking DEF Next, Handler
<1> QED
  BY <1>1, <1>2, OKsStayComplete, BlobsStayFirst, AnswersStayLast DEF AnswerInv

LEMMA AnswerInvHolds == Spec => []AnswerInv
<1>1. Init => AnswerInv
  <2>1. Init => ResultsAreBacked /\ OKsAreComplete /\ AnswersAreLast /\ BlobsComeFirst
    BY DEF Init, ResultsAreBacked, OKsAreComplete, AnswersAreLast, BlobsComeFirst
  <2> QED
    BY <2>1, InitIsTyped DEF AnswerInv
<1> QED
  BY <1>1, AnswerInvIsInductive, PTL DEF Spec

\* With FastAPI ending dependencies before it answers, a 2xx names, for every
\* item, a committed row under the item's key, and `deduplicated: false` the row
\* this request wrote: no crash, retry or failing commit makes an answer a lie.
THEOREM AnswersAreNeverLies == ~AckFirst => (Spec => []AnswersAreTrue)
<1> SUFFICES ASSUME ~AckFirst PROVE Spec => []AnswersAreTrue
  OBVIOUS
<1>1. AnswerInv => AnswersAreTrue
  <2> SUFFICES ASSUME AnswerInv PROVE AnswersAreTrue
    OBVIOUS
  <2>1. ASSUME NEW r \in answered, status[r] = "OK"
        PROVE  /\ Len(results[r]) = Len(body[r].items)
               /\ \A i \in DOMAIN results[r] : Backs(rows, r, i)
    <3>1. r \in Requests /\ phase[r] = "closed"
      BY DEF AnswerInv, TypedProgress, TypeOK, AnswersAreLast
    <3> QED
      BY <2>1, <3>1 DEF AnswerInv, ResultsAreBacked, OKsAreComplete
  <2> QED
    BY <2>1 DEF AnswersAreTrue
<1> QED
  BY <1>1, AnswerInvHolds, PTL

-----------------------------------------------------------------------------
(* The four endpoints implement the contract.                               *)

\* The invariant the refinement mapping needs.
MappingInv == KeyInv /\ AnswerInv

LEMMA EntriesAreOneToOne == OneRowPerKey => Contract!OneToOne(Entries)
  BY DEF OneRowPerKey, Contract!OneToOne, Entries

\* What an answered request was told does not change.
LEMMA ToldIsStable ==
    ASSUME AnswerInv, AnswerInv', answered' = answered,
           \A q \in answered : /\ body'[q] = body[q] /\ results'[q] = results[q]
                               /\ status'[q] = status[q]
    PROVE  Told' = Told
<1>1. \A q \in answered : ToldBy(q)' = ToldBy(q)
  BY DEF ToldBy
<1> QED
  BY <1>1 DEF Told

\* Sending a 2xx tells of committed entries.
LEMMA AnswerTells ==
    ASSUME MappingInv, ~AckFirst, NEW r \in Requests, Answer(r)
    PROVE  Contract!Tell
<1>1. /\ answered' = answered \cup {r} /\ phase[r] = "closed"
      /\ UNCHANGED <<rows, body, results, status>>
  BY DEF Answer, tables, private
<1>2. \A q \in Requests : ToldBy(q)' = ToldBy(q)
  BY <1>1 DEF ToldBy
<1>3. Told \subseteq Told' /\ Entries' = Entries
  BY <1>1, <1>2 DEF Told, Entries, MappingInv, AnswerInv, TypedProgress, TypeOK
<1>4. ASSUME NEW q \in answered', status[q] = "OK"
      PROVE  ToldBy(q) \subseteq Entries
  <2>1. q \in Requests /\ phase[q] = "closed"
    BY <1>1 DEF MappingInv, AnswerInv, AnswersAreLast, TypedProgress, TypeOK
  <2>2. \A i \in DOMAIN results[q] : Backs(rows, q, i)
    BY <1>4, <2>1 DEF MappingInv, AnswerInv, ResultsAreBacked
  <2>3. ASSUME NEW i \in DOMAIN results[q]
        PROVE  [key |-> body[q].items[i].key, id |-> results[q][i].id] \in Entries
    <3>1. PICK e \in rows : e.id = results[q][i].id /\ e.key = body[q].items[i].key
      BY <2>2 DEF Backs
    <3> QED
      BY <3>1 DEF Entries
  <2> QED
    BY <2>3 DEF ToldBy
<1>5. Told' \subseteq Entries
  <2>1. \A q \in answered' : q \in Requests
    BY <1>1 DEF MappingInv, AnswerInv, TypedProgress, TypeOK
  <2> QED
    BY <1>1, <1>2, <1>4, <2>1 DEF Told
<1> QED
  BY <1>3, <1>5 DEF Contract!Tell

\* A commit records the rows of one transaction at once.
LEMMA CommitRecords ==
    ASSUME MappingInv, MappingInv', NEW r \in Requests, Commit(r)
    PROVE  Contract!Record
<1>1. UNCHANGED <<body, results, status, answered>> /\ rows \subseteq rows'
  BY DEF Commit
<1>2. Entries \subseteq Entries'
  BY <1>1 DEF Entries
<1>3. Contract!OneToOne(Entries')
  <2>1. OneRowPerKey'
    BY DEF MappingInv, KeyInv, UniqueEverywhere, Recorded, OneRowPerKey
  <2> QED
    BY <2>1 DEF OneRowPerKey, Contract!OneToOne, Entries
<1>4. Told' = Told
  BY <1>1, ToldIsStable DEF MappingInv
<1> QED
  BY <1>2, <1>3, <1>4 DEF Contract!Record

\* Every other step is invisible to the clients.
LEMMA OtherStepsStutter ==
    ASSUME MappingInv, MappingInv', ~AckFirst,
           \/ \E r \in Requests :
                 \/ Arrive(r) \/ Handler(r) \/ Dispatch(r) \/ CommitFails(r) \/ Rollback(r)
           \/ Crash \/ UNCHANGED vars
    PROVE  UNCHANGED <<Entries, Told>>
<1>0. TypeOK /\ AnswersAreLast
  BY DEF MappingInv, AnswerInv, TypedProgress
<1>1. rows' = rows /\ answered' = answered
  BY DEF Arrive, Handler, Reject, Admit, StoreBlob, Deduplicate, Insert, IdTaken, BusyTimeout,
         Dispatch, CommitFails, Rollback, Crash, tables, vars
<1>2. ASSUME NEW r \in Requests,
             \/ Arrive(r) \/ Handler(r) \/ Dispatch(r) \/ CommitFails(r) \/ Rollback(r)
      PROVE  /\ phase[r] # "closed"
             /\ \A q \in Requests \ {r} : /\ body'[q] = body[q] /\ results'[q] = results[q]
                                          /\ status'[q] = status[q]
  BY <1>0, <1>2 DEF Arrive, Handler, Reject, Admit, StoreBlob, Deduplicate, Insert, IdTaken,
       BusyTimeout, AppendReady, AdvanceHandler, Writing, Fail, Dispatch, CommitFails,
       Rollback, Close, TypeOK, private
<1>3. Crash \/ UNCHANGED vars => UNCHANGED <<body, results, status>>
  BY DEF Crash, vars, private
<1>4. \A q \in answered : /\ body'[q] = body[q] /\ results'[q] = results[q]
                          /\ status'[q] = status[q]
  BY <1>0, <1>2, <1>3 DEF AnswersAreLast, TypeOK
<1>5. Told' = Told
  BY <1>1, <1>4, ToldIsStable DEF MappingInv
<1> QED
  BY <1>1, <1>5 DEF Entries

\* Seen by its clients, the write path is one atomic idempotent record step
\* per transaction followed by a truthful answer: it implements LedgerContract.
THEOREM LedgerImplementsContract == ~AckFirst => (Spec => ImplementsContract)
<1> SUFFICES ASSUME ~AckFirst PROVE Spec => ImplementsContract
  OBVIOUS
<1>1. Init => Contract!Init
  BY DEF Init, Contract!Init, Entries, Told
<1>2. MappingInv /\ MappingInv' /\ [Next]_vars => [Contract!Next]_(Contract!contractVars)
  <2> SUFFICES ASSUME MappingInv, MappingInv', [Next]_vars
               PROVE  [Contract!Next]_(Contract!contractVars)
    OBVIOUS
  <2>1. ASSUME NEW r \in Requests, Commit(r) PROVE Contract!Next
    BY <2>1, CommitRecords DEF Contract!Next
  <2>2. ASSUME NEW r \in Requests, Answer(r) PROVE Contract!Next
    BY <2>2, AnswerTells DEF Contract!Next
  <2>3. CASE ~ \E r \in Requests : Commit(r) \/ Answer(r)
    <3>1. UNCHANGED <<Entries, Told>>
      BY <2>3, OtherStepsStutter DEF Next, Teardown
    <3> QED
      BY <3>1 DEF Contract!contractVars
  <2> QED
    BY <2>1, <2>2, <2>3
<1>3. Spec => []MappingInv
  BY KeyInvHolds, AnswerInvHolds, PTL DEF MappingInv
<1> QED
  BY <1>1, <1>2, <1>3, PTL DEF Spec, ImplementsContract, Contract!Spec

-----------------------------------------------------------------------------
(* What the committed tables keep, whatever the backend's locks, whenever   *)
(* the answer leaves, and wherever a process dies: rows are only appended,  *)
(* by commits, a batch as a whole, receipts with their bytes, voids of      *)
(* events and payments of obligations.                                      *)

StepOf(r) == Arrive(r) \/ Handler(r) \/ Teardown(r) \/ Answer(r)

\* What one request does changes no variable of another.
LEMMA OthersStandStill ==
    ASSUME TypeOK, NEW r \in Requests, StepOf(r), NEW q \in Requests \ {r}
    PROVE  /\ newRows'[q] = newRows[q] /\ newBlobs'[q] = newBlobs[q]
           /\ phase'[q] = phase[q] /\ body'[q] = body[q] /\ blobOf'[q] = blobOf[q]
           /\ results'[q] = results[q] /\ status'[q] = status[q]
  BY DEF StepOf, Arrive, Handler, Reject, Admit, StoreBlob, Deduplicate, Insert, IdTaken,
         BusyTimeout, Fail, AdvanceHandler, Teardown, Dispatch, Commit, CommitFails,
         Rollback, Close, Answer, TypeOK, tables, private

\* Only a commit writes the tables, and it adds what its transaction holds.
LEMMA OnlyCommitsWrite ==
    ASSUME NEW r \in Requests, StepOf(r)
    PROVE  \/ Commit(r)
           \/ UNCHANGED tables
  BY DEF StepOf, Arrive, Handler, Reject, Admit, StoreBlob, Deduplicate, Insert, IdTaken,
         BusyTimeout, Teardown, Dispatch, CommitFails, Rollback, Answer, tables

LEMMA TablesGrow ==
    ASSUME [Next]_vars
    PROVE  rows \subseteq rows' /\ blobs \subseteq blobs'
<1>1. ASSUME NEW r \in Requests, StepOf(r) PROVE rows \subseteq rows' /\ blobs \subseteq blobs'
  BY <1>1, OnlyCommitsWrite DEF Commit, tables
<1>2. Crash \/ UNCHANGED vars => UNCHANGED tables
  BY DEF Crash, vars
<1> QED
  BY <1>1, <1>2 DEF Next, StepOf, tables

\* The ledger is append-only and written by commits: what appears was inserted
\* by one closing request that has been, or is to be, answered with a 2xx.
THEOREM CommitsOnlyAppend == Spec => OnlyCommitsAppend
<1> DEFINE Appended ==
        /\ rows \subseteq rows'
        /\ rows' # rows => \E r \in Requests :
              /\ rows' \ rows \subseteq newRows[r]
              /\ phase[r] = "closing" /\ status[r] = "OK"
<1>1. [Next]_vars => [Appended]_vars
  <2> SUFFICES ASSUME [Next]_vars PROVE Appended
    OBVIOUS
  <2>1. ASSUME NEW r \in Requests, Commit(r) PROVE Appended
    BY <2>1 DEF Commit
  <2>2. ASSUME rows' = rows PROVE Appended
    BY <2>2
  <2>3. ASSUME NEW r \in Requests, StepOf(r) PROVE Appended
    <3>1. Commit(r) \/ rows' = rows
      BY <2>3, OnlyCommitsWrite DEF tables
    <3> QED
      BY <3>1, <2>1, <2>2
  <2>4. Crash \/ UNCHANGED vars => rows' = rows
    BY DEF Crash, vars, tables
  <2> QED
    BY <2>2, <2>3, <2>4 DEF Next, StepOf
<1> QED
  BY <1>1, PTL DEF Spec, OnlyCommitsAppend

-----------------------------------------------------------------------------
(* What a handler works on is a body a client may send, aimed.              *)

BodiesAreAimed ==
    \A r \in Requests : phase[r] # "idle" =>
        \E b \in Bodies, t \in EventIds : body[r] = Aim(b, t)

LEMMA AimKeepsItems ==
    ASSUME NEW b \in Bodies, NEW t \in EventIds
    PROVE  /\ Aim(b, t).op = b.op /\ DOMAIN Aim(b, t).items = DOMAIN b.items
           /\ Len(Aim(b, t).items) = Len(b.items)
           /\ \A i \in DOMAIN b.items :
                 /\ b.items[i] \in DraftsOver(Keys)
                 /\ Aim(b, t).items[i].type = b.items[i].type
                 /\ Aim(b, t).items[i].obligation = b.items[i].obligation
                 /\ Aim(b, t).items[i].key =
                       IF b.items[i].type = "EventVoided" THEN <<b.items[i].key, t>>
                       ELSE b.items[i].key
<1>1. b \in BodiesOver(Keys)
  BY BodiesAreTyped
<1>2. b.items \in Seq(DraftsOver(Keys))
  BY <1>1 DEF BodiesOver
<1> DEFINE Aimed(i) == IF b.items[i].type = "EventVoided"
                       THEN [b.items[i] EXCEPT !.target = t, !.key = <<b.items[i].key, t>>]
                       ELSE b.items[i]
           items == [i \in DOMAIN b.items |-> Aimed(i)]
<1>3. Aim(b, t) = [b EXCEPT !.items = items]
  BY DEF Aim
<1>4. Aim(b, t).op = b.op /\ Aim(b, t).items = items
  BY <1>1, <1>3 DEF BodiesOver
<1>5. ASSUME NEW i \in DOMAIN b.items
      PROVE  /\ b.items[i] \in DraftsOver(Keys)
             /\ Aimed(i).type = b.items[i].type
             /\ Aimed(i).obligation = b.items[i].obligation
             /\ Aimed(i).key = IF b.items[i].type = "EventVoided"
                               THEN <<b.items[i].key, t>> ELSE b.items[i].key
  <2>1. b.items[i] \in DraftsOver(Keys)
    BY <1>2
  <2> QED
    BY <2>1 DEF DraftsOver
<1>6. Aim(b, t).items \in Seq(DraftsOver(DedupeKeys))
  BY AimIsTyped DEF RequestBodies, BodiesOver
<1>7. DOMAIN Aim(b, t).items = DOMAIN b.items
  BY <1>4
<1>8. Len(Aim(b, t).items) = Len(b.items)
  BY <1>2, <1>6, <1>7
<1> QED
  BY <1>4, <1>5, <1>7, <1>8

\* A body never changes once it has been parsed.
LEMMA BodiesStand ==
    ASSUME TypeOK, [Next]_vars, NEW q \in Requests, phase'[q] # "idle"
    PROVE  \/ phase[q] # "idle" /\ body'[q] = body[q]
           \/ Arrive(q)
<1>1. ASSUME NEW r \in Requests, StepOf(r), q # r
      PROVE  phase[q] # "idle" /\ body'[q] = body[q]
  BY <1>1, OthersStandStill
<1>2. StepOf(q) /\ ~Arrive(q) => phase[q] # "idle" /\ body'[q] = body[q]
  BY DEF StepOf, Handler, Reject, Admit, StoreBlob, Deduplicate, Insert, IdTaken,
         BusyTimeout, AppendReady, Writing, Teardown, Dispatch, Commit, CommitFails,
         Rollback, Answer
<1>3. Crash \/ UNCHANGED vars => phase[q] # "idle" /\ body'[q] = body[q]
  BY DEF Crash, vars
<1> QED
  BY <1>1, <1>2, <1>3 DEF Next, StepOf

LEMMA ArrivalIsAimed ==
    ASSUME TypeOK, NEW r \in Requests, Arrive(r)
    PROVE  \E b \in Bodies, t \in EventIds : body'[r] = Aim(b, t)
<1>1. PICK b \in Bodies, t \in {e.id : e \in rows} \cup {UnknownId} :
          body' = [body EXCEPT ![r] = Aim(b, t)]
  BY DEF Arrive
<1>2. t \in EventIds
  BY <1>1 DEF TypeOK, Rows, EventIds
<1> QED
  BY <1>1, <1>2 DEF TypeOK

LEMMA BodiesStayAimed ==
    ASSUME TypeOK, BodiesAreAimed, [Next]_vars
    PROVE  BodiesAreAimed'
  BY BodiesStand, ArrivalIsAimed DEF BodiesAreAimed

\* The invariant every other one below rests on.
BaseInv == KeyInv /\ AnswerInv /\ BodiesAreAimed

LEMMA BaseInvHolds == Spec => []BaseInv
<1>1. Init => BodiesAreAimed
  BY DEF Init, BodiesAreAimed
<1>2. TypeOK /\ BodiesAreAimed /\ [Next]_vars => BodiesAreAimed'
  BY BodiesStayAimed
<1> QED
  BY <1>1, <1>2, TypeCorrect, KeyInvHolds, AnswerInvHolds, PTL DEF Spec, BaseInv

\* A handler that is not a batch's appends one item.
LEMMA OneItem ==
    ASSUME BaseInv, NEW r \in Requests, phase[r] # "idle", body[r].op # "batch"
    PROVE  Len(body[r].items) = 1
<1>1. PICK b \in Bodies, t \in EventIds : body[r] = Aim(b, t)
  BY DEF BaseInv, BodiesAreAimed
<1> QED
  BY <1>1, AimKeepsItems, OneEventEach

\* What an insert adds is the row of the next item, and its result names it.
LEMMA InsertedRow ==
    ASSUME BaseInv, NEW r \in Requests, Insert(r)
    PROVE  /\ NextItem(r) \in DOMAIN body[r].items
           /\ body[r].items[NextItem(r)] \in DraftsOver(DedupeKeys)
           /\ NextRow(r).key = body[r].items[NextItem(r)].key
           /\ NextRow(r).type = body[r].items[NextItem(r)].type
           /\ NextRow(r).obligation = body[r].items[NextItem(r)].obligation
           /\ NextRow(r).target = body[r].items[NextItem(r)].target
           /\ NextRow(r).blob = blobOf[r]
           /\ newRows'[r] = newRows[r] \cup {NextRow(r)}
           /\ phase[r] = "writing" /\ phase'[r] \in Running
           /\ UNCHANGED <<rows, blobs, newBlobs, body, blobOf>>
<1>1. phase[r] = "writing" /\ TypedProgress
  BY DEF Insert, AppendReady, Writing, BaseInv, AnswerInv
<1>2. NextItem(r) \in 1 .. Len(body[r].items)
      /\ body[r].items[NextItem(r)] \in DraftsOver(DedupeKeys)
  BY <1>1, NextRowIsTyped
<1>3. body[r].items \in Seq(DraftsOver(DedupeKeys))
  BY <1>1 DEF TypedProgress, Progress, RequestBodies, BodiesOver
<1>4. NextItem(r) \in DOMAIN body[r].items
  BY <1>2, <1>3
<1>5. newRows'[r] = newRows[r] \cup {NextRow(r)} /\ phase'[r] \in Running
      /\ UNCHANGED <<rows, blobs, newBlobs, body, blobOf>>
  BY <1>1 DEF Insert, AdvanceHandler, TypedProgress, TypeOK, Running, tables
<1> QED
  BY <1>1, <1>2, <1>4, <1>5 DEF NextRow, RowOf

-----------------------------------------------------------------------------
(* Receipts.  While a transaction is open its blob_id names bytes it sees,  *)
(* under the hash that is its event's key.                                  *)

BlobsAreHeld ==
    \A r \in Requests :
        /\ phase[r] \in {"idle", "ready"} => blobOf[r] = None
        /\ blobOf[r] # None => body[r].op = "receipt"
        /\ phase[r] \in Running /\ blobOf[r] # None =>
              \E x \in VisibleBlobs(r) : x.id = blobOf[r] /\ x.sha = Sha(r)
        /\ \A x \in newBlobs[r] : /\ phase[r] \in Running
                                  /\ body[r].op = "receipt" /\ x.sha = Sha(r)
NewRowsHaveBytes ==
    \A r \in Requests : \A e \in newRows[r] : e.blob # None =>
        \E x \in VisibleBlobs(r) : x.id = e.blob /\ x.sha = e.key

BytesInv == BlobsAreHeld /\ NewRowsHaveBytes /\ ReceiptsKeepTheirBytes

\* The two private parts, for one request.
HoldsBlob(r) ==
    /\ phase[r] \in {"idle", "ready"} => blobOf[r] = None
    /\ blobOf[r] # None => body[r].op = "receipt"
    /\ phase[r] \in Running /\ blobOf[r] # None =>
          \E x \in VisibleBlobs(r) : x.id = blobOf[r] /\ x.sha = Sha(r)
    /\ \A x \in newBlobs[r] : /\ phase[r] \in Running
                              /\ body[r].op = "receipt" /\ x.sha = Sha(r)
    /\ \A e \in newRows[r] : e.blob # None =>
          \E x \in VisibleBlobs(r) : x.id = e.blob /\ x.sha = e.key

LEMMA HoldsBlobSplits == BlobsAreHeld /\ NewRowsHaveBytes <=> \A r \in Requests : HoldsBlob(r)
  BY DEF BlobsAreHeld, NewRowsHaveBytes, HoldsBlob

LEMMA OthersHoldTheirBlobs ==
    ASSUME BaseInv, NEW q \in Requests, HoldsBlob(q), blobs \subseteq blobs',
           newRows'[q] = newRows[q], newBlobs'[q] = newBlobs[q], phase'[q] = phase[q],
           body'[q] = body[q], blobOf'[q] = blobOf[q]
    PROVE  HoldsBlob(q)'
  BY DEF HoldsBlob, VisibleBlobs, Sha

LEMMA StepHoldsBlob ==
    ASSUME BaseInv, NEW r \in Requests, HoldsBlob(r), StepOf(r)
    PROVE  HoldsBlob(r)'
<1>0. TypeOK /\ Progress
  BY DEF BaseInv, KeyInv, AnswerInv, TypedProgress
<1>1. CASE Arrive(r)
  <2>1. newBlobs[r] = {} /\ blobOf[r] = None /\ newRows'[r] = newRows[r]
        /\ newBlobs' = newBlobs /\ blobOf' = blobOf /\ blobs' = blobs /\ phase'[r] = "ready"
    BY <1>0, <1>1 DEF Arrive, HoldsBlob, Running, TypeOK, tables, private
  <2> QED
    BY <2>1 DEF HoldsBlob, VisibleBlobs, Running
<1>2. CASE StoreBlob(r)
  <2>1. /\ phase'[r] = phase[r] /\ phase[r] = "writing" /\ body' = body
        /\ blobs' = blobs /\ newRows' = newRows /\ body[r].op = "receipt"
    BY <1>2 DEF StoreBlob, Writing, NeedsBlob, tables
  <2>2. CASE \E x \in VisibleBlobs(r) :
                /\ x.sha = Sha(r)
                /\ blobOf' = [blobOf EXCEPT ![r] = x.id]
                /\ UNCHANGED newBlobs
    BY <1>0, <2>1, <2>2 DEF HoldsBlob, VisibleBlobs, Sha, TypeOK, Running
  <2>3. CASE /\ newBlobs' = [newBlobs EXCEPT ![r] = @ \cup {[id |-> r, sha |-> Sha(r)]}]
             /\ blobOf' = [blobOf EXCEPT ![r] = r]
    <3> DEFINE stored == [id |-> r, sha |-> Sha(r)]
    <3>1. newBlobs'[r] = newBlobs[r] \cup {stored} /\ blobOf'[r] = r
      BY <1>0, <2>3 DEF TypeOK
    <3>2. stored.id = r /\ stored.sha = Sha(r)
      OBVIOUS
    <3> HIDE DEF stored
    <3>3. Sha(r)' = Sha(r) /\ stored \in VisibleBlobs(r)'
          /\ VisibleBlobs(r) \subseteq VisibleBlobs(r)'
      BY <2>1, <3>1 DEF Sha, VisibleBlobs
    <3> QED
      BY <2>1, <3>1, <3>2, <3>3 DEF HoldsBlob, Running
  <2> QED
    BY <1>2, <2>2, <2>3 DEF StoreBlob
<1>3. CASE Insert(r)
  <2>1. NextRow(r).blob # None =>
            \E x \in VisibleBlobs(r) : x.id = NextRow(r).blob /\ x.sha = NextRow(r).key
    <3> SUFFICES ASSUME NextRow(r).blob # None
                 PROVE  \E x \in VisibleBlobs(r) : x.id = NextRow(r).blob /\ x.sha = NextRow(r).key
      OBVIOUS
    <3>1. body[r].op = "receipt" /\ phase[r] = "writing" /\ blobOf[r] # None
      BY <1>3, InsertedRow DEF HoldsBlob
    <3>2. Len(body[r].items) = 1
      BY <3>1, OneItem
    <3>3. NextItem(r) = 1
      BY <1>0, <3>1, <3>2, NextRowIsTyped DEF TypedProgress
    <3> QED
      BY <1>3, <3>1, <3>3, InsertedRow DEF HoldsBlob, Sha, Running
  <2>2. /\ UNCHANGED <<blobs, newBlobs, body, blobOf>>
        /\ newRows'[r] = newRows[r] \cup {NextRow(r)}
        /\ phase[r] \in Running /\ phase'[r] \in Running
    BY <1>3, InsertedRow DEF Running
  <2> QED
    BY <2>1, <2>2 DEF HoldsBlob, VisibleBlobs, Sha, Running
<1>4. CASE Deduplicate(r) \/ Reject(r) \/ Admit(r) \/ IdTaken(r) \/ BusyTimeout(r) \/ Dispatch(r)
           \/ Answer(r)
  <2>1. /\ UNCHANGED <<blobs, newRows, newBlobs, body, blobOf>>
        /\ phase'[r] # phase[r] => phase'[r] \in Running
        /\ phase'[r] \in {"idle", "ready"} => phase[r] \in {"idle", "ready"}
        /\ phase'[r] \in Running => phase[r] \in Running \cup {"ready"}
    BY <1>0, <1>4 DEF Deduplicate, Reject, Admit, IdTaken, BusyTimeout, Dispatch, Answer,
       AppendReady, Writing, AdvanceHandler, Fail, Running, TypeOK, tables, private
  <2> QED
    BY <2>1 DEF HoldsBlob, VisibleBlobs, Sha, Running
<1>5. CASE Commit(r) \/ CommitFails(r) \/ Rollback(r)
  <2>1. /\ newRows'[r] = {} /\ newBlobs'[r] = {} /\ phase'[r] = "closed"
        /\ UNCHANGED <<body, blobOf>>
    BY <1>0, <1>5 DEF Commit, CommitFails, Rollback, Close, TypeOK
  <2> QED
    BY <2>1 DEF HoldsBlob, Running
<1> QED
  BY <1>1, <1>2, <1>3, <1>4, <1>5 DEF StepOf, Handler, Teardown

\* A commit publishes the bytes with the event their hash identifies.
LEMMA CommitKeepsBytes ==
    ASSUME BaseInv, BytesInv, NEW r \in Requests, Commit(r)
    PROVE  ReceiptsKeepTheirBytes'
<1>0. TypedProgress /\ OKsAreComplete /\ ResultsAreBacked
  BY DEF BaseInv, AnswerInv
<1>1. rows' = rows \cup newRows[r] /\ blobs' = blobs \cup newBlobs[r]
  BY DEF Commit
<1>2. ASSUME NEW e \in rows', e.blob # None
      PROVE  \E x \in blobs' : x.id = e.blob /\ x.sha = e.key
  BY <1>1, <1>2 DEF BytesInv, ReceiptsKeepTheirBytes, NewRowsHaveBytes, VisibleBlobs
<1>3. ASSUME NEW x \in newBlobs[r] PROVE \E e \in rows' : e.key = x.sha
  <2>1. body[r].op = "receipt" /\ x.sha = Sha(r) /\ phase[r] = "closing" /\ status[r] = "OK"
    BY <1>3 DEF BytesInv, BlobsAreHeld, Commit
  <2>2. Len(body[r].items) = 1 /\ Len(results[r]) = 1
    BY <1>0, <2>1, OneItem DEF OKsAreComplete
  <2>3. 1 \in DOMAIN results[r]
    BY <1>0, <2>2 DEF TypedProgress, TypeOK
  <2>4. Backs(VisibleRows(r), r, 1)
    BY <1>0, <2>1, <2>3 DEF ResultsAreBacked, Running
  <2> QED
    BY <1>1, <2>1, <2>4 DEF Backs, VisibleRows, Sha
<1>4. ASSUME NEW x \in blobs' PROVE \E e \in rows' : e.key = x.sha
  BY <1>1, <1>3 DEF BytesInv, ReceiptsKeepTheirBytes
<1> QED
  BY <1>2, <1>4 DEF ReceiptsKeepTheirBytes

LEMMA BytesInvIsInductive == BaseInv /\ BytesInv /\ [Next]_vars => BytesInv'
<1> SUFFICES ASSUME BaseInv, BytesInv, [Next]_vars PROVE BytesInv'
  OBVIOUS
<1>0. TypeOK /\ \A q \in Requests : HoldsBlob(q)
  BY HoldsBlobSplits DEF BaseInv, KeyInv, BytesInv
<1>1. ASSUME NEW r \in Requests, StepOf(r) PROVE BytesInv'
  <2>1. ASSUME NEW q \in Requests PROVE HoldsBlob(q)'
    <3>1. CASE q = r
      BY <1>0, <1>1, <3>1, StepHoldsBlob
    <3>2. CASE q # r
      BY <1>0, <1>1, <3>2, OthersStandStill, OthersHoldTheirBlobs, TablesGrow
    <3> QED
      BY <3>1, <3>2
  <2>2. BlobsAreHeld' /\ NewRowsHaveBytes'
    BY <2>1 DEF BlobsAreHeld, NewRowsHaveBytes, HoldsBlob
  <2>3. CASE Commit(r)
    BY <2>2, <2>3, CommitKeepsBytes DEF BytesInv
  <2>4. CASE UNCHANGED tables
    BY <2>2, <2>4 DEF BytesInv, ReceiptsKeepTheirBytes, tables
  <2> QED
    BY <1>1, <2>3, <2>4, OnlyCommitsWrite
<1>2. CASE Crash
  <2>1. /\ UNCHANGED <<rows, blobs, body, blobOf>>
        /\ \A q \in Requests : /\ newRows'[q] = {} /\ newBlobs'[q] = {}
                               /\ phase'[q] = phase[q] \/ phase'[q] = "crashed"
                               /\ phase'[q] \notin Running
    BY <1>0, <1>2 DEF Crash, Running, TypeOK, tables
  <2> QED
    BY <1>0, <2>1 DEF BytesInv, BlobsAreHeld, NewRowsHaveBytes, ReceiptsKeepTheirBytes, Running
<1>3. CASE UNCHANGED vars
  BY <1>3 DEF vars, tables, private, BytesInv, BlobsAreHeld, NewRowsHaveBytes,
              ReceiptsKeepTheirBytes, VisibleBlobs, Sha
<1> QED
  BY <1>1, <1>2, <1>3 DEF Next, StepOf

\* No row refers to bytes that are not stored, and no stored bytes are without
\* the event their hash identifies: not after a failed upload, a second upload
\* of the same bytes, a crash between blob and event, or a commit that fails.
THEOREM BytesAreKept == Spec => []ReceiptsKeepTheirBytes
<1>1. Init => BytesInv
  BY DEF Init, BytesInv, BlobsAreHeld, NewRowsHaveBytes, ReceiptsKeepTheirBytes, Running
<1>2. Spec => []BytesInv
  BY <1>1, BytesInvIsInductive, BaseInvHolds, PTL DEF Spec
<1> QED
  BY <1>2, PTL DEF BytesInv

-----------------------------------------------------------------------------
(* Batches.  An id the server made for a request is stored only once that    *)
(* request has committed; until then only its own transaction holds it.      *)

NewRowsAreItems ==
    \A r \in Requests : \A e \in newRows[r] :
        /\ phase[r] \in Running
        /\ \E i \in DOMAIN body[r].items :
              /\ e.id = RowOf(r, i).id /\ e.key = body[r].items[i].key
              /\ e.type = body[r].items[i].type
              /\ e.obligation = body[r].items[i].obligation
ResultsNameItems ==
    \A r \in Requests : \A i \in DOMAIN results[r] :
        ~results[r][i].deduplicated => results[r][i].id = RowOf(r, i).id
FreshIdsAreCommitted ==
    \A e \in rows : \A r \in Requests : \A i \in Nat :
        e.id = <<r, i>> => phase[r] \in {"closed", "crashed"} /\ status[r] = "OK"

BatchInv == /\ BaseInv
            /\ NewRowsAreItems /\ ResultsNameItems
            /\ FreshIdsAreCommitted /\ AllOrNothing

\* A transaction holds no id the server made for another request.
LEMMA NewIdsAreOwn ==
    ASSUME BaseInv, NewRowsAreItems, NEW r \in Requests, NEW e \in newRows[r],
           NEW q \in Requests, NEW n \in Nat, e.id = <<q, n>>
    PROVE  q = r
<1>1. PICK i \in DOMAIN body[r].items : e.id = RowOf(r, i).id
  BY DEF NewRowsAreItems
<1>2. phase[r] # "idle"
  BY DEF NewRowsAreItems, Running
<1>3. body[r].items \in Seq(DraftsOver(DedupeKeys))
  BY <1>2 DEF BaseInv, AnswerInv, TypedProgress, Progress, RequestBodies, BodiesOver
<1>4. body[r].items[i].id \in ClientIds \cup {None}
  <2>1. body[r].items[i] \in DraftsOver(DedupeKeys)
    BY <1>3
  <2> QED
    BY <2>1 DEF DraftsOver
<1>5. e.id = IF body[r].items[i].id = None THEN <<r, i>> ELSE body[r].items[i].id
  BY <1>1 DEF RowOf
<1>6. <<q, n>> \in Requests \X Nat
  OBVIOUS
<1>7. CASE body[r].items[i].id = None
  BY <1>5, <1>7
<1>8. CASE body[r].items[i].id \in ClientIds
  BY <1>4, <1>5, <1>6, <1>8, ServerIdsAreFresh
<1> QED
  BY <1>4, <1>7, <1>8

\* The ids AllOrNothing speaks of are the server's, and the request's own.
LEMMA WrittenIdsAreOwn ==
    ASSUME BaseInv, ResultsNameItems, NEW r \in Requests, NEW x \in WrittenBy(r)
    PROVE  \E i \in Nat : x = <<r, i>>
<1>1. PICK i \in DOMAIN results[r] :
          /\ ~results[r][i].deduplicated /\ body[r].items[i].id = None
          /\ x = results[r][i].id
  BY DEF WrittenBy
<1>2. results[r] \in Seq(Results)
  BY DEF BaseInv, KeyInv, TypeOK
<1>3. i \in Nat
  BY <1>1, <1>2
<1>4. x = <<r, i>>
  BY <1>1 DEF ResultsNameItems, RowOf
<1> QED
  BY <1>3, <1>4

LEMMA ItemsStayNamed ==
    ASSUME BaseInv, NewRowsAreItems, ResultsNameItems, [Next]_vars
    PROVE  NewRowsAreItems' /\ ResultsNameItems'
<1>0. TypeOK /\ Progress /\ BlobsComeFirst
  BY DEF BaseInv, KeyInv, AnswerInv, TypedProgress
<1> DEFINE Named(q) ==
        /\ \A e \in newRows[q] :
              /\ phase[q] \in Running
              /\ \E i \in DOMAIN body[q].items :
                    /\ e.id = RowOf(q, i).id /\ e.key = body[q].items[i].key
                    /\ e.type = body[q].items[i].type
                    /\ e.obligation = body[q].items[i].obligation
        /\ \A i \in DOMAIN results[q] :
              ~results[q][i].deduplicated => results[q][i].id = RowOf(q, i).id
<1>1. ASSUME NEW q \in Requests, NEW i, body'[q] = body[q]
      PROVE  RowOf(q, i).id' = RowOf(q, i).id
  BY <1>1 DEF RowOf
<1>2. \A q \in Requests : Named(q)
  BY DEF NewRowsAreItems, ResultsNameItems
<1>3. ASSUME NEW r \in Requests, StepOf(r), NEW q \in Requests, q # r PROVE Named(q)'
  BY <1>1, <1>2, <1>3, <1>0, OthersStandStill
<1>4. ASSUME NEW r \in Requests, StepOf(r) PROVE Named(r)'
  <2>1. CASE Arrive(r)
    <3>1. newRows[r] = {} /\ newRows' = newRows /\ results[r] = << >> /\ results' = results
      BY <1>0, <1>2, <2>1 DEF Arrive, Progress, Running, private
    <3> QED
      BY <3>1
  <2>2. CASE Insert(r)
    <3>1. results'[r] = Append(results[r], [id |-> NextRow(r).id, deduplicated |-> FALSE])
          /\ results[r] \in Seq(Results)
      BY <1>0, <2>2 DEF Insert, TypeOK
    <3>2. /\ newRows'[r] = newRows[r] \cup {NextRow(r)} /\ phase'[r] \in Running
          /\ body' = body /\ NextItem(r) \in DOMAIN body[r].items
          /\ NextRow(r).key = body[r].items[NextItem(r)].key
          /\ NextRow(r).type = body[r].items[NextItem(r)].type
          /\ NextRow(r).obligation = body[r].items[NextItem(r)].obligation
      BY <2>2, InsertedRow
    <3>3. NextRow(r).id = RowOf(r, NextItem(r)).id
      BY DEF NextRow
    <3>4. ASSUME NEW e \in newRows'[r]
          PROVE  \E i \in DOMAIN body[r].items :
                    /\ e.id = RowOf(r, i).id /\ e.key = body[r].items[i].key
                    /\ e.type = body[r].items[i].type
                    /\ e.obligation = body[r].items[i].obligation
      BY <1>2, <3>2, <3>3
    <3>5. ASSUME NEW i \in DOMAIN results'[r], ~results'[r][i].deduplicated
          PROVE  results'[r][i].id = RowOf(r, i).id
      <4>1. CASE i = NextItem(r)
        BY <3>1, <3>3, <4>1 DEF NextItem
      <4>2. CASE i # NextItem(r)
        <5>1. i \in DOMAIN results[r] /\ results'[r][i] = results[r][i]
          BY <3>1, <4>2 DEF NextItem
        <5> QED
          BY <1>2, <3>5, <5>1
      <4> QED
        BY <4>1, <4>2
    <3> QED
      BY <1>1, <3>2, <3>4, <3>5
  <2>3. CASE Deduplicate(r)
    <3>1. PICK e : results' = [results EXCEPT ![r] = Append(@, [id |-> e.id, deduplicated |-> TRUE])]
      BY <2>3 DEF Deduplicate
    <3>2. results[r] \in Seq(Results)
      BY <1>0 DEF TypeOK
    <3>3. ASSUME NEW i \in DOMAIN results'[r], ~results'[r][i].deduplicated
          PROVE  results'[r][i].id = RowOf(r, i).id
      <4>1. i \in DOMAIN results[r] /\ results'[r][i] = results[r][i]
        <5> DEFINE x == [id |-> e.id, deduplicated |-> TRUE]
        <5>1. x.deduplicated
          OBVIOUS
        <5> HIDE DEF x
        <5>2. results'[r] = Append(results[r], x)
          BY <1>0, <3>1 DEF x, TypeOK
        <5> QED
          BY <3>2, <3>3, <5>1, <5>2
      <4> QED
        BY <1>2, <3>3, <4>1
    <3>4. newRows' = newRows /\ body' = body /\ phase'[r] \in Running
      BY <1>0, <2>3 DEF Deduplicate, AppendReady, Writing, AdvanceHandler, Running, TypeOK
    <3> QED
      BY <1>1, <1>2, <3>3, <3>4
  <2>4. CASE \/ StoreBlob(r) \/ Reject(r) \/ Admit(r) \/ IdTaken(r) \/ BusyTimeout(r)
             \/ Dispatch(r) \/ Answer(r)
    <3>1. /\ UNCHANGED <<newRows, body, results>>
          /\ phase[r] \in Running => phase'[r] \in Running
      BY <1>0, <2>4 DEF StoreBlob, Reject, Admit, IdTaken, BusyTimeout, Dispatch, Answer,
         AppendReady, Writing, Fail, Running, TypeOK, private
    <3> QED
      BY <1>1, <1>2, <3>1
  <2>5. CASE Commit(r) \/ CommitFails(r) \/ Rollback(r)
    <3>1. newRows'[r] = {} /\ UNCHANGED <<body, results>>
      BY <1>0, <2>5 DEF Commit, CommitFails, Rollback, Close, TypeOK
    <3> QED
      BY <1>1, <1>2, <3>1
  <2> QED
    BY <1>4, <2>1, <2>2, <2>3, <2>4, <2>5 DEF StepOf, Handler, Teardown
<1>5. ASSUME Crash, NEW q \in Requests PROVE Named(q)'
  <2>1. newRows'[q] = {} /\ UNCHANGED <<body, results>>
    BY <1>5 DEF Crash
  <2> QED
    BY <1>1, <1>2, <2>1
<1>6. ASSUME UNCHANGED vars, NEW q \in Requests PROVE Named(q)'
  BY <1>1, <1>2, <1>6 DEF vars, private
<1>7. \A q \in Requests : Named(q)'
  BY <1>3, <1>4, <1>5, <1>6 DEF Next, StepOf
<1> QED
  BY <1>7 DEF NewRowsAreItems, ResultsNameItems

\* A request that is over does not change any more.
LEMMA SettledStandsStill ==
    ASSUME TypeOK, [Next]_vars, NEW q \in Requests, phase[q] \in {"closed", "crashed"}
    PROVE  /\ phase'[q] \in {"closed", "crashed"} /\ status'[q] = status[q]
           /\ body'[q] = body[q] /\ results'[q] = results[q]
<1>1. ASSUME NEW r \in Requests, StepOf(r), r # q
      PROVE  /\ phase'[q] = phase[q] /\ status'[q] = status[q]
             /\ body'[q] = body[q] /\ results'[q] = results[q]
  BY <1>1, OthersStandStill
<1>2. ASSUME StepOf(q)
      PROVE  /\ phase'[q] = phase[q] /\ status'[q] = status[q]
             /\ body'[q] = body[q] /\ results'[q] = results[q]
  BY <1>2 DEF StepOf, Arrive, Handler, Reject, Admit, StoreBlob, Deduplicate, Insert,
     IdTaken, BusyTimeout, AppendReady, Writing, Teardown, Dispatch, Commit, CommitFails,
     Rollback, Answer, private
<1>3. Crash => /\ phase'[q] \in {"closed", "crashed"} /\ UNCHANGED <<status, body, results>>
  BY DEF Crash
<1>4. UNCHANGED vars => UNCHANGED <<phase, status, body, results>>
  BY DEF vars, private
<1> QED
  BY <1>1, <1>2, <1>3, <1>4 DEF Next, StepOf

\* A row appears when the transaction that holds it commits.
LEMMA RowsAppearByCommit ==
    ASSUME [Next]_vars, NEW e \in rows' \ rows
    PROVE  \E r \in Requests : Commit(r) /\ e \in newRows[r]
<1>1. ~Crash /\ ~UNCHANGED vars
  BY DEF Crash, vars, tables
<1>2. PICK r \in Requests : Commit(r)
  BY <1>1, OnlyCommitsWrite DEF Next, StepOf, tables
<1> QED
  BY <1>2 DEF Commit

\* A transaction holds one more row when its handler inserts it.
LEMMA RowsAreHeldByInsert ==
    ASSUME BaseInv, [Next]_vars, NEW q \in Requests, NEW e \in newRows'[q] \ newRows[q]
    PROVE  Insert(q) /\ e = NextRow(q)
<1>0. TypeOK
  BY DEF BaseInv, KeyInv
<1>1. ASSUME NEW r \in Requests, StepOf(r), r # q PROVE FALSE
  BY <1>0, <1>1, OthersStandStill
<1>2. ~Crash /\ ~UNCHANGED vars
  BY DEF Crash, vars, private
<1>3. StepOf(q)
  BY <1>1, <1>2 DEF Next, StepOf
<1>4. ASSUME Commit(q) \/ CommitFails(q) \/ Rollback(q) PROVE FALSE
  BY <1>0, <1>4 DEF Commit, CommitFails, Rollback, Close, TypeOK
<1>5. ASSUME \/ Arrive(q) \/ Reject(q) \/ Admit(q) \/ StoreBlob(q) \/ Deduplicate(q)
             \/ IdTaken(q) \/ BusyTimeout(q) \/ Dispatch(q) \/ Answer(q)
      PROVE  FALSE
  BY <1>5 DEF Arrive, Reject, Admit, StoreBlob, Deduplicate, IdTaken, BusyTimeout,
              Dispatch, Answer, private
<1>6. Insert(q)
  BY <1>3, <1>4, <1>5 DEF StepOf, Handler, Teardown
<1> QED
  BY <1>6, InsertedRow

\* A handler begins to write when every check has passed.
LEMMA WritingBeginsByAdmit ==
    ASSUME TypeOK, [Next]_vars, NEW q \in Requests,
           phase'[q] = "writing", phase[q] # "writing"
    PROVE  Admit(q)
<1>1. ASSUME NEW r \in Requests, StepOf(r), r # q PROVE FALSE
  BY <1>1, OthersStandStill
<1>2. ~Crash /\ ~UNCHANGED vars
  BY DEF Crash, vars
<1>3. StepOf(q)
  BY <1>1, <1>2 DEF Next, StepOf
<1> QED
  BY <1>3 DEF StepOf, Arrive, Handler, Reject, StoreBlob, Deduplicate, Insert, IdTaken,
     BusyTimeout, AppendReady, Writing, AdvanceHandler, Fail, Teardown, Dispatch, Commit,
     CommitFails, Rollback, Close, Answer, TypeOK

LEMMA FreshIdsStayCommitted ==
    ASSUME BatchInv, [Next]_vars
    PROVE  FreshIdsAreCommitted'
<1>0. TypeOK /\ BaseInv /\ NewRowsAreItems /\ FreshIdsAreCommitted
  BY DEF BatchInv, BaseInv, KeyInv
<1> SUFFICES ASSUME NEW e \in rows', NEW q \in Requests, NEW n \in Nat, e.id = <<q, n>>
             PROVE  phase'[q] \in {"closed", "crashed"} /\ status'[q] = "OK"
  BY DEF FreshIdsAreCommitted
<1>1. CASE e \in rows
  <2>1. phase[q] \in {"closed", "crashed"} /\ status[q] = "OK"
    BY <1>0, <1>1 DEF FreshIdsAreCommitted
  <2> QED
    BY <1>0, <2>1, SettledStandsStill
<1>2. CASE e \notin rows
  <2>1. PICK r \in Requests : Commit(r) /\ e \in newRows[r]
    BY <1>2, RowsAppearByCommit
  <2>2. q = r
    BY <1>0, <2>1, NewIdsAreOwn
  <2> QED
    BY <1>0, <2>1, <2>2 DEF Commit, Close, TypeOK
<1> QED
  BY <1>1, <1>2

\* A commit publishes everything its own results name, and nothing another's do.
LEMMA AllOrNothingStays ==
    ASSUME BatchInv, ResultsNameItems', FreshIdsAreCommitted', TypeOK', [Next]_vars
    PROVE  AllOrNothing'
<1>0. TypeOK /\ BaseInv /\ NewRowsAreItems /\ FreshIdsAreCommitted /\ AllOrNothing
  BY DEF BatchInv, BaseInv, KeyInv
<1> SUFFICES ASSUME NEW q \in Requests, (WrittenBy(q) \cap Ids(rows))' # {}
             PROVE  status'[q] = "OK" /\ WrittenBy(q)' \subseteq Ids(rows)'
  BY DEF AllOrNothing
<1>1. PICK i \in DOMAIN results'[q], e \in rows' :
          /\ ~results'[q][i].deduplicated /\ body'[q].items[i].id = None
          /\ e.id = results'[q][i].id
  BY DEF WrittenBy, Ids
<1>2. i \in Nat
  BY DEF TypeOK
<1>3. e.id = <<q, i>>
  BY <1>1 DEF ResultsNameItems, RowOf
<1>4. phase'[q] \in {"closed", "crashed"} /\ status'[q] = "OK"
  BY <1>1, <1>2, <1>3 DEF FreshIdsAreCommitted
<1>5. CASE e \in rows
  <2>1. phase[q] \in {"closed", "crashed"}
    BY <1>0, <1>2, <1>3, <1>5 DEF FreshIdsAreCommitted
  <2>2. body'[q] = body[q] /\ results'[q] = results[q]
    BY <1>0, <2>1, SettledStandsStill
  <2>3. WrittenBy(q)' = WrittenBy(q) /\ e.id \in WrittenBy(q)
    BY <1>1, <2>2 DEF WrittenBy
  <2>4. WrittenBy(q) \subseteq Ids(rows)
    BY <1>0, <1>5, <2>3 DEF AllOrNothing, Ids
  <2>5. Ids(rows) \subseteq Ids(rows)'
    BY TablesGrow DEF Ids
  <2> QED
    BY <1>4, <2>3, <2>4, <2>5
<1>6. CASE e \notin rows
  <2>1. PICK r \in Requests : Commit(r) /\ e \in newRows[r]
    BY <1>6, RowsAppearByCommit
  <2>2. Commit(q)
    BY <1>0, <1>2, <1>3, <2>1, NewIdsAreOwn
  <2>3. phase[q] = "closing" /\ body' = body /\ results' = results /\ rows' = VisibleRows(q)
    BY <2>2 DEF Commit, VisibleRows
  <2>4. ASSUME NEW j \in DOMAIN results[q] PROVE results[q][j].id \in Ids(rows')
    <3>1. Backs(VisibleRows(q), q, j)
      BY <1>0, <2>3 DEF BaseInv, AnswerInv, ResultsAreBacked, Running
    <3> QED
      BY <2>3, <3>1 DEF Backs, Ids
  <2>5. WrittenBy(q)' \subseteq Ids(rows')
    BY <2>3, <2>4 DEF WrittenBy
  <2> QED
    BY <1>4, <2>5 DEF Ids
<1> QED
  BY <1>5, <1>6

LEMMA BatchInvIsInductive == BatchInv /\ BaseInv' /\ [Next]_vars => BatchInv'
<1> SUFFICES ASSUME BatchInv, BaseInv', [Next]_vars PROVE BatchInv'
  OBVIOUS
<1>1. NewRowsAreItems' /\ ResultsNameItems'
  BY ItemsStayNamed DEF BatchInv
<1>2. FreshIdsAreCommitted'
  BY FreshIdsStayCommitted
<1>3. AllOrNothing'
  BY <1>1, <1>2, AllOrNothingStays DEF BaseInv, KeyInv
<1> QED
  BY <1>1, <1>2, <1>3 DEF BatchInv

LEMMA BatchInvHolds == Spec => []BatchInv
<1>1. Init /\ BaseInv => BatchInv
  BY DEF Init, BatchInv, NewRowsAreItems, ResultsNameItems, FreshIdsAreCommitted,
         AllOrNothing, WrittenBy, Ids
<1> QED
  BY <1>1, BatchInvIsInductive, BaseInvHolds, PTL DEF Spec

\* A batch is one transaction: what a request inserted under the server's ids is
\* stored as a whole or not at all, and not at all after an error, whether a
\* later item fails, the lock is not obtained, the commit fails or the process
\* dies between two items.
THEOREM BatchesAreAtomic == Spec => []AllOrNothing
  BY BatchInvHolds, PTL DEF BatchInv

-----------------------------------------------------------------------------
(* Voids.  void_event checks its target before it writes; nothing that is    *)
(* committed goes, so the target is still there when the void commits.       *)

Correctable(S, t) == \E f \in S : f.id = t /\ f.type # "EventVoided"
VoidsAreAdmitted ==
    \A r \in Requests : phase[r] = "writing" /\ body[r].op = "void" =>
        Correctable(rows, Target(r))
NewVoidsCorrectEvents ==
    \A r \in Requests : \A e \in newRows[r] :
        e.type = "EventVoided" => Correctable(rows, e.target)

VoidInv == VoidsAreAdmitted /\ NewVoidsCorrectEvents /\ VoidsCorrectEvents

\* A void is the only item of a void_event.
LEMMA InsertedVoid ==
    ASSUME VoidsUseTheirEndpoint, BaseInv, NEW r \in Requests, Insert(r),
           NextRow(r).type = "EventVoided"
    PROVE  body[r].op = "void" /\ NextRow(r).target = Target(r)
<1>1. /\ NextItem(r) \in DOMAIN body[r].items /\ phase[r] = "writing"
      /\ body[r].items[NextItem(r)].type = "EventVoided"
      /\ NextRow(r).target = body[r].items[NextItem(r)].target
  BY InsertedRow
<1>2. PICK b \in Bodies, t \in EventIds : body[r] = Aim(b, t)
  BY <1>1 DEF BaseInv, BodiesAreAimed
<1>3. body[r].op = "void"
  <2>1. /\ body[r].op = b.op /\ NextItem(r) \in DOMAIN b.items
        /\ body[r].items[NextItem(r)].type = b.items[NextItem(r)].type
    BY <1>1, <1>2, AimKeepsItems
  <2> QED
    BY <1>1, <2>1 DEF VoidsUseTheirEndpoint
<1>4. Len(body[r].items) = 1
  BY <1>1, <1>3, OneItem
<1>5. NextItem(r) \in 1 .. 1
  BY <1>1, <1>4, NextRowIsTyped DEF BaseInv, AnswerInv
<1> QED
  BY <1>1, <1>3, <1>5 DEF Target

LEMMA VoidInvIsInductive == VoidsUseTheirEndpoint /\ BaseInv /\ VoidInv /\ [Next]_vars => VoidInv'
<1> SUFFICES ASSUME VoidsUseTheirEndpoint, BaseInv, VoidInv, [Next]_vars PROVE VoidInv'
  OBVIOUS
<1>0. TypeOK
  BY DEF BaseInv, KeyInv
<1>1. \A t : Correctable(rows, t) => Correctable(rows, t)'
  BY TablesGrow DEF Correctable
<1>2. ASSUME NEW e \in rows', e.type = "EventVoided" PROVE Correctable(rows, e.target)'
  <2>1. e \in rows \/ \E r \in Requests : e \in newRows[r]
    BY RowsAppearByCommit
  <2>2. Correctable(rows, e.target)
    BY <1>2, <2>1 DEF VoidInv, NewVoidsCorrectEvents, VoidsCorrectEvents, Correctable
  <2> QED
    BY <1>1, <2>2
<1>3. ASSUME NEW q \in Requests, NEW e \in newRows'[q], e.type = "EventVoided"
      PROVE  Correctable(rows, e.target)'
  <2>1. CASE e \in newRows[q]
    BY <1>1, <1>3, <2>1 DEF VoidInv, NewVoidsCorrectEvents
  <2>2. CASE e \notin newRows[q]
    <3>2. Insert(q) /\ e = NextRow(q)
      BY <1>0, <1>3, <2>2, RowsAreHeldByInsert DEF BaseInv
    <3>3. body[q].op = "void" /\ e.target = Target(q) /\ phase[q] = "writing"
      BY <1>3, <3>2, InsertedVoid, InsertedRow
    <3> QED
      BY <1>1, <3>3 DEF VoidInv, VoidsAreAdmitted
  <2> QED
    BY <2>1, <2>2
<1>4. ASSUME NEW q \in Requests, phase'[q] = "writing", body'[q].op = "void"
      PROVE  Correctable(rows, Target(q))'
  <2>1. body'[q] = body[q] /\ ~Arrive(q)
    <3>1. ~Arrive(q)
      BY <1>0, <1>4 DEF Arrive, TypeOK
    <3> QED
      BY <1>0, <1>4, <3>1, BodiesStand
  <2>2. Target(q)' = Target(q)
    BY <2>1 DEF Target
  <2>3. CASE phase[q] = "writing"
    BY <1>1, <1>4, <2>1, <2>2, <2>3 DEF VoidInv, VoidsAreAdmitted
  <2>4. CASE phase[q] # "writing"
    <3>4. Admit(q)
      BY <1>0, <1>4, <2>4, WritingBeginsByAdmit
    <3>5. \A code \in Codes : ~VoidError(q, code)
      BY <1>4, <2>1, <3>4 DEF Admit, Rejects
    <3>6. ~UnknownEvent(q) /\ ~TargetIsVoid(q)
      BY <3>5 DEF VoidError, Codes
    <3>7. Correctable(rows, Target(q))
      BY <3>6 DEF UnknownEvent, TargetIsVoid, Correctable
    <3> QED
      BY <1>1, <2>2, <3>7
  <2> QED
    BY <2>3, <2>4
<1> QED
  BY <1>2, <1>3, <1>4 DEF VoidInv, VoidsAreAdmitted, NewVoidsCorrectEvents,
                          VoidsCorrectEvents, Correctable

\* Where voids are sent to their own endpoint, what a stored void corrects is a
\* stored event and never another void: two requests that race to void, or a
\* crash between check and commit, cannot break the chain.
THEOREM VoidsHaveTargets == VoidsUseTheirEndpoint => (Spec => []VoidsCorrectEvents)
<1> SUFFICES ASSUME VoidsUseTheirEndpoint PROVE Spec => []VoidsCorrectEvents
  OBVIOUS
<1>1. Init => VoidInv
  BY DEF Init, VoidInv, VoidsAreAdmitted, NewVoidsCorrectEvents, VoidsCorrectEvents
<1>2. BaseInv /\ VoidInv /\ [Next]_vars => VoidInv'
  BY VoidInvIsInductive
<1>3. Spec => []VoidInv
  BY <1>1, <1>2, BaseInvHolds, PTL DEF Spec
<1> QED
  BY <1>3, PTL DEF VoidInv

-----------------------------------------------------------------------------
(* Payments.  A payment is admitted against what is stored and what its own  *)
(* batch raises; the batch's raise may turn out to be a duplicate, so every   *)
(* stored row must carry the content its key stands for.                     *)

FromItem(e) ==
    \E b \in Bodies : \E i \in DOMAIN b.items :
        /\ e.type = b.items[i].type /\ e.obligation = b.items[i].obligation
        /\ IF e.type = "EventVoided" THEN e.key \in Keys \X EventIds
           ELSE e.key = b.items[i].key
RowsHaveSources == \A e \in Recorded : FromItem(e)

Raised(S) == {e.obligation : e \in {f \in S : f.type = "ObligationRaised"}}
Admitted(r) == phase[r] = "writing" \/ (phase[r] \in Running /\ status[r] = "OK")
Payable(r, o) ==
    \/ o \in Expected \cup Raised(rows)
    \/ \E j \in DOMAIN body[r].items :
          body[r].items[j].type = "ObligationRaised" /\ body[r].items[j].obligation = o
PaymentsAreAdmitted ==
    \A r \in Requests : Admitted(r) =>
        \A i \in DOMAIN body[r].items :
            body[r].items[i].type = "PaymentMade" => Payable(r, body[r].items[i].obligation)

PayInv == RowsHaveSources /\ PaymentsAreAdmitted /\ PaymentsNameObligations

LEMMA RowsKeepSources ==
    ASSUME BaseInv, RowsHaveSources, [Next]_vars
    PROVE  RowsHaveSources'
<1>0. TypeOK
  BY DEF BaseInv, KeyInv
<1>1. ASSUME NEW r \in Requests, Insert(r) PROVE FromItem(NextRow(r))
  <2>1. /\ NextItem(r) \in DOMAIN body[r].items /\ phase[r] # "idle"
        /\ NextRow(r).key = body[r].items[NextItem(r)].key
        /\ NextRow(r).type = body[r].items[NextItem(r)].type
        /\ NextRow(r).obligation = body[r].items[NextItem(r)].obligation
    BY <1>1, InsertedRow
  <2>2. PICK b \in Bodies, t \in EventIds : body[r] = Aim(b, t)
    BY <2>1 DEF BaseInv, BodiesAreAimed
  <2>3. /\ NextItem(r) \in DOMAIN b.items /\ b.items[NextItem(r)] \in DraftsOver(Keys)
        /\ NextRow(r).type = b.items[NextItem(r)].type
        /\ NextRow(r).obligation = b.items[NextItem(r)].obligation
        /\ NextRow(r).key = IF b.items[NextItem(r)].type = "EventVoided"
                            THEN <<b.items[NextItem(r)].key, t>> ELSE b.items[NextItem(r)].key
    BY <2>1, <2>2, AimKeepsItems
  <2>4. b.items[NextItem(r)].key \in Keys
    BY <2>3 DEF DraftsOver
  <2> QED
    BY <2>3, <2>4 DEF FromItem
<1>2. \A e \in Recorded' : FromItem(e)
  BY <1>0, <1>1, RecordedGrows DEF RowsHaveSources
<1> QED
  BY <1>2 DEF RowsHaveSources, FromItem

LEMMA AdmissionComesFirst ==
    ASSUME BaseInv, [Next]_vars, NEW q \in Requests, Admitted(q)'
    PROVE  Admitted(q) \/ Admit(q)
<1>0. TypeOK
  BY DEF BaseInv, KeyInv
<1>1. CASE phase'[q] = "writing"
  BY <1>0, <1>1, WritingBeginsByAdmit DEF Admitted
<1>2. CASE phase'[q] \in Running /\ status'[q] = "OK"
  <2>1. ASSUME NEW r \in Requests, StepOf(r), r # q PROVE Admitted(q)
    BY <1>0, <1>2, <2>1, OthersStandStill DEF Admitted
  <2>2. StepOf(q) => Admitted(q) \/ Admit(q)
    BY <1>0, <1>2 DEF StepOf, Arrive, Handler, Reject, StoreBlob, Deduplicate, Insert, IdTaken,
       BusyTimeout, AppendReady, Writing, Fail, Teardown, Dispatch, Commit, CommitFails,
       Rollback, Close, Answer, Admitted, Running, Codes, TypeOK
  <2>3. Crash => FALSE
    BY <1>2 DEF Crash, Running
  <2>4. UNCHANGED vars => Admitted(q)
    BY <1>2 DEF vars, Admitted
  <2> QED
    BY <2>1, <2>2, <2>3, <2>4 DEF Next, StepOf
<1> QED
  BY <1>1, <1>2 DEF Admitted

\* What the checks of a handler admit is payable.
LEMMA AdmittedIsPayable ==
    ASSUME BaseInv, NEW r \in Requests, Admit(r), NEW i \in DOMAIN body[r].items,
           body[r].items[i].type = "PaymentMade"
    PROVE  Payable(r, body[r].items[i].obligation)
<1>1. phase[r] = "ready" /\ \A code \in Codes : ~Rejects(r, code)
  BY DEF Admit
<1>2. PICK b \in Bodies, t \in EventIds : body[r] = Aim(b, t)
  BY <1>1 DEF BaseInv, BodiesAreAimed
<1>3. body[r].op # "void"
  <2> SUFFICES ASSUME b.op = "void" PROVE FALSE
    BY <1>2, AimKeepsItems
  <2>1. Len(b.items) = 1 /\ b.items[1].type = "EventVoided"
    BY OneEventEach
  <2>2. b.items \in Seq(DraftsOver(Keys)) /\ i \in DOMAIN b.items
    BY <1>2, AimKeepsItems, BodiesAreTyped DEF BodiesOver
  <2>3. i = 1
    BY <2>1, <2>2
  <2> QED
    BY <1>2, <2>1, <2>2, <2>3, AimKeepsItems
<1>4. ~UnknownAccount(r) /\ ~UnknownObligation(r)
  BY <1>1, <1>3 DEF Rejects, ReferenceError, Codes
<1>5. body[r].items[i] \in ItemsOf(r)
  BY DEF ItemsOf
<1>6. body[r].items[i].obligation \in Expected \cup ActiveObligations(rows \cup Incoming(r))
  BY <1>4, <1>5 DEF UnknownObligation
<1>7. CASE body[r].items[i].obligation \in ActiveObligations(rows \cup Incoming(r))
  <2>1. PICK f \in rows \cup Incoming(r) :
            f.type = "ObligationRaised" /\ f.obligation = body[r].items[i].obligation
    BY <1>7 DEF ActiveObligations
  <2>2. CASE f \in rows
    BY <2>1, <2>2 DEF Payable, Raised
  <2>3. CASE f \in Incoming(r)
    <3>1. PICK j \in DOMAIN body[r].items : f = RowOf(r, j)
      BY <2>3 DEF Incoming
    <3>2. f.type = body[r].items[j].type /\ f.obligation = body[r].items[j].obligation
      BY <3>1 DEF RowOf
    <3> QED
      BY <2>1, <3>2 DEF Payable
  <2> QED
    BY <2>1, <2>2, <2>3
<1> QED
  BY <1>6, <1>7 DEF Payable

LEMMA PaymentsStayAdmitted ==
    ASSUME BaseInv, PaymentsAreAdmitted, [Next]_vars
    PROVE  PaymentsAreAdmitted'
<1>0. TypeOK
  BY DEF BaseInv, KeyInv
<1> SUFFICES ASSUME NEW q \in Requests, Admitted(q)', NEW i \in DOMAIN body'[q].items,
                    body'[q].items[i].type = "PaymentMade"
             PROVE  Payable(q, body[q].items[i].obligation)'
  BY DEF PaymentsAreAdmitted
<1>1. Admitted(q) \/ Admit(q)
  BY AdmissionComesFirst
<1>2. body'[q] = body[q]
  <2>1. ~Arrive(q) /\ phase'[q] # "idle"
    BY <1>0, <1>1 DEF Arrive, Admitted, Admit, Running, TypeOK
  <2> QED
    BY <1>0, <2>1, BodiesStand
<1>3. Payable(q, body[q].items[i].obligation)
  BY <1>1, <1>2, AdmittedIsPayable DEF PaymentsAreAdmitted
<1>4. Raised(rows) \subseteq Raised(rows)'
  BY TablesGrow DEF Raised
<1> QED
  BY <1>2, <1>3, <1>4 DEF Payable

\* An item that raises an obligation and whose result is in: a row raises it.
LEMMA RaiseIsStored ==
    ASSUME RaisesOwnTheirKeys, BatchInv, RowsHaveSources, NEW r \in Requests,
           phase[r] \in Running, NEW j \in DOMAIN results[r], j \in DOMAIN body[r].items,
           body[r].items[j].type = "ObligationRaised"
    PROVE  body[r].items[j].obligation \in Raised(VisibleRows(r))
<1>1. BaseInv /\ phase[r] # "idle"
  BY DEF BatchInv, Running
<1>2. PICK b \in Bodies, t \in EventIds : body[r] = Aim(b, t)
  BY <1>1 DEF BaseInv, BodiesAreAimed
<1>3. /\ j \in DOMAIN b.items /\ b.items[j] \in DraftsOver(Keys)
      /\ b.items[j].type = "ObligationRaised"
      /\ body[r].items[j].obligation = b.items[j].obligation
      /\ body[r].items[j].key = b.items[j].key
  <2>1. j \in DOMAIN b.items
    BY <1>2, AimKeepsItems
  <2>2. /\ b.items[j] \in DraftsOver(Keys)
        /\ body[r].items[j].type = b.items[j].type
        /\ body[r].items[j].obligation = b.items[j].obligation
        /\ body[r].items[j].key = IF b.items[j].type = "EventVoided"
                                  THEN <<b.items[j].key, t>> ELSE b.items[j].key
    BY <1>2, <2>1, AimKeepsItems
  <2> QED
    BY <2>1, <2>2
<1>4. b.items[j].key \in Keys
  BY <1>3 DEF DraftsOver
<1>5. PICK e \in VisibleRows(r) : e.key = body[r].items[j].key
  BY <1>1 DEF BaseInv, AnswerInv, ResultsAreBacked, Backs
<1>6. FromItem(e)
  BY <1>5 DEF RowsHaveSources, Recorded, VisibleRows
<1>7. PICK c \in Bodies : \E k \in DOMAIN c.items :
          /\ e.type = c.items[k].type /\ e.obligation = c.items[k].obligation
          /\ IF e.type = "EventVoided" THEN e.key \in Keys \X EventIds
             ELSE e.key = c.items[k].key
  BY <1>6 DEF FromItem
<1>8. e.type = "ObligationRaised" /\ e.obligation = b.items[j].obligation
  BY <1>3, <1>4, <1>5, <1>7 DEF RaisesOwnTheirKeys
<1> QED
  BY <1>3, <1>5, <1>8 DEF Raised

LEMMA PaymentsStayNamed ==
    ASSUME RaisesOwnTheirKeys, BatchInv, PayInv, [Next]_vars
    PROVE  PaymentsNameObligations'
<1>0. BaseInv /\ TypeOK /\ NewRowsAreItems
  BY DEF BatchInv, BaseInv, KeyInv
<1>1. Raised(rows) \subseteq Raised(rows')
  BY TablesGrow DEF Raised
<1> SUFFICES ASSUME NEW e \in rows', e.type = "PaymentMade"
             PROVE  e.obligation \in Expected \cup Raised(rows')
  BY DEF PaymentsNameObligations, Raised
<1>2. CASE e \in rows
  BY <1>1, <1>2 DEF PayInv, PaymentsNameObligations, Raised
<1>3. CASE e \notin rows
  <2>1. PICK r \in Requests : Commit(r) /\ e \in newRows[r]
    BY <1>3, RowsAppearByCommit
  <2>2. phase[r] = "closing" /\ status[r] = "OK" /\ rows' = VisibleRows(r)
    BY <2>1 DEF Commit, VisibleRows
  <2>3. PICK i \in DOMAIN body[r].items :
            body[r].items[i].type = "PaymentMade" /\ e.obligation = body[r].items[i].obligation
    BY <1>0, <2>1 DEF NewRowsAreItems
  <2>4. Payable(r, e.obligation)
    BY <2>2, <2>3 DEF PayInv, PaymentsAreAdmitted, Admitted, Running
  <2>5. ASSUME NEW j \in DOMAIN body[r].items,
               body[r].items[j].type = "ObligationRaised",
               body[r].items[j].obligation = e.obligation
        PROVE  e.obligation \in Raised(rows')
    <3>1. body[r].items \in Seq(DraftsOver(DedupeKeys)) /\ results[r] \in Seq(Results)
      BY <1>0, <2>2 DEF BaseInv, AnswerInv, TypedProgress, Progress, RequestBodies, BodiesOver, TypeOK
    <3>2. Len(results[r]) = Len(body[r].items)
      BY <1>0, <2>2 DEF BaseInv, AnswerInv, OKsAreComplete
    <3>3. j \in DOMAIN results[r]
      BY <3>1, <3>2
    <3> QED
      BY <2>2, <2>5, <3>3, RaiseIsStored DEF PayInv, Running
  <2> QED
    BY <1>1, <2>4, <2>5 DEF Payable
<1> QED
  BY <1>2, <1>3

\* Where no key of a raise is put on another event, a stored payment names an
\* expected obligation or one a stored event raised, although the check ran
\* before the commit, over a batch whose raise may have been a duplicate.
THEOREM PaymentsHaveObligations == RaisesOwnTheirKeys => (Spec => []PaymentsNameObligations)
<1> SUFFICES ASSUME RaisesOwnTheirKeys PROVE Spec => []PaymentsNameObligations
  OBVIOUS
<1>1. Init => PayInv
  BY DEF Init, PayInv, RowsHaveSources, Recorded, PaymentsAreAdmitted, Admitted, Running,
         PaymentsNameObligations
<1>2. BatchInv /\ PayInv /\ [Next]_vars => PayInv'
  BY RowsKeepSources, PaymentsStayAdmitted, PaymentsStayNamed DEF PayInv, BatchInv
<1>3. Spec => []PayInv
  BY <1>1, <1>2, BatchInvHolds, PTL DEF Spec
<1> QED
  BY <1>3, PTL DEF PayInv
=============================================================================
