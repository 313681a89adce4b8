-------------------------- MODULE DefinitionProofs --------------------------
(***************************************************************************)
(* Theorems about DefinitionStore, for every set of requests and bodies,    *)
(* any horizon and every interleaving; on both backends where the name of a  *)
(* backend is not in the statement.                                         *)
(***************************************************************************)
EXTENDS DefinitionStore, TLAPS

StepOf(r) == Arrive(r) \/ Handler(r) \/ Teardown(r)

\* The phases between Begin and the handler's return, which holds the loop.
Handling == {"finding", "reading", "updating", "checking", "inserting"}

\* What holds of one request, wherever it has come.
Shape(r) ==
    /\ phase[r] # "idle" => body[r] \in Bodies
    /\ phase[r] \in {"finding", "reading", "updating"} => body[r].closeAt \in Dates
    /\ phase[r] \in {"reading", "updating"} => target[r] \in Requests
    /\ phase[r] = "updating" => body[r].closeAt >= 1
    /\ phase[r] \in Handling => loop = r
    /\ r \in open => phase[r] \in {"checking", "inserting", "returned", "closing"}
    /\ closing[r] # None =>
          /\ r \in open /\ closing[r].to >= 1
          /\ closing[r].id = target[r] /\ closing[r].to = body[r].closeAt
    /\ adding[r] # None => r \in open /\ adding[r] = NewVersion(r) /\ status[r] = "OK"
    /\ status[r] = "OK" => /\ phase[r] \in {"returned", "closing", "closed"}
                           /\ r \in open => adding[r] = NewVersion(r)
ShapeInv == TypeOK /\ \A r \in Requests : Shape(r)

\* What one request does changes no variable of another.
LEMMA OthersStandStill ==
    ASSUME TypeOK, NEW r \in Requests, StepOf(r), NEW q \in Requests \ {r}
    PROVE  /\ closing'[q] = closing[q] /\ adding'[q] = adding[q] /\ (q \in open' <=> q \in open)
           /\ phase'[q] = phase[q] /\ body'[q] = body[q]
           /\ target'[q] = target[q] /\ status'[q] = status[q]
  BY DEF StepOf, Arrive, Handler, Begin, FindOpen, ReadTarget, UpdateTarget, CheckOverlap,
         InsertVersion, InsertConflicts, BusyTimeout, At, GoTo, Leave, Teardown, Dispatch,
         Commit, Rollback, CommitFails, EndTransaction, TypeOK, private

\* A parsed body is a range of dates, and the version it asks for is typed.
LEMMA BodyIsTyped ==
    ASSUME ShapeInv, NEW r \in Requests, phase[r] # "idle"
    PROVE  /\ body[r] \in NewVersionRequests /\ body[r].from < body[r].to
           /\ body[r].from \in Dates /\ body[r].to \in 1 .. Forever
           /\ body[r].closeAt \in Dates \cup {None}
           /\ NewVersion(r) \in Versions
<1>1. body[r] \in NewVersionRequests /\ body[r].from < body[r].to
  BY BodiesAreRanges DEF ShapeInv, Shape
<1> QED
  BY <1>1 DEF NewVersionRequests, NewVersion, Versions

\* Applying the writes of a transaction keeps ids and start dates.
LEMMA WrittenIsTyped ==
    ASSUME ShapeInv, NEW r \in Requests, NEW w \in View(r)
    PROVE  /\ w \in Versions
           /\ \/ adding[r] # None /\ w = adding[r]
              \/ \E v \in versions :
                    /\ w.id = v.id /\ w.from = v.from
                    /\ \/ w = v /\ (closing[r] = None \/ closing[r].id # v.id)
                       \/ closing[r] # None /\ v.id = closing[r].id /\ w.to = closing[r].to
<1>1. CASE w = adding[r] /\ adding[r] # None
  BY <1>1 DEF ShapeInv, TypeOK
<1>2. CASE \E v \in versions : w = IF closing[r] # None /\ v.id = closing[r].id
                                   THEN [v EXCEPT !.to = closing[r].to] ELSE v
  <2>1. PICK v \in versions : w = IF closing[r] # None /\ v.id = closing[r].id
                                  THEN [v EXCEPT !.to = closing[r].to] ELSE v
    BY <1>2
  <2>2. v \in Versions
    BY DEF ShapeInv, TypeOK
  <2>3. CASE closing[r] # None /\ v.id = closing[r].id
    <3>1. closing[r].to \in Dates /\ closing[r].to >= 1
      BY <2>3 DEF ShapeInv, Shape, TypeOK, Closes
    <3>2. w = [v EXCEPT !.to = closing[r].to]
      BY <2>1, <2>3
    <3>3. closing[r].to \in 1 .. Forever
      BY <3>1, HorizonIsDate DEF Dates, Forever
    <3> QED
      BY <2>2, <2>3, <3>2, <3>3 DEF Versions
  <2>4. CASE ~(closing[r] # None /\ v.id = closing[r].id)
    BY <2>1, <2>2, <2>4
  <2> QED
    BY <2>3, <2>4
<1> QED
  BY <1>1, <1>2 DEF View, Written

\* The loop is left only by the handler that runs on it.
LEMMA LoopIsKept ==
    ASSUME TypeOK, NEW r \in Requests, StepOf(r), NEW q \in Requests \ {r}, loop = q
    PROVE  loop' = q
<1>1. q # None
  BY NoneIsAbsent
<1> QED
  BY <1>1 DEF StepOf, Arrive, Handler, Begin, FindOpen, ReadTarget, UpdateTarget, CheckOverlap,
     InsertVersion, InsertConflicts, BusyTimeout, At, GoTo, Leave, Teardown, Dispatch,
     Commit, Rollback, CommitFails, EndTransaction, private

LEMMA OthersKeepShape ==
    ASSUME ShapeInv, NEW r \in Requests, StepOf(r), NEW q \in Requests \ {r}
    PROVE  Shape(q)'
<1>1. TypeOK /\ Shape(q)
  BY DEF ShapeInv
<1>2. /\ closing'[q] = closing[q] /\ adding'[q] = adding[q] /\ (q \in open' <=> q \in open)
      /\ phase'[q] = phase[q] /\ body'[q] = body[q]
      /\ target'[q] = target[q] /\ status'[q] = status[q]
  BY <1>1, OthersStandStill
<1>3. loop = q => loop' = q
  BY <1>1, LoopIsKept
<1>4. NewVersion(q)' = NewVersion(q)
  BY <1>2 DEF NewVersion
<1> QED
  BY <1>1, <1>2, <1>3, <1>4 DEF Shape

\* Steps of the handler that leave the transaction alone.
LEMMA ReadingStepsKeepShape ==
    ASSUME ShapeInv, NEW r \in Requests,
           Arrive(r) \/ Begin(r) \/ FindOpen(r) \/ ReadTarget(r) \/ CheckOverlap(r)
    PROVE  TypeOK' /\ Shape(r)'
<1>0. TypeOK /\ Shape(r)
  BY DEF ShapeInv
<1>1. CASE Arrive(r)
  <2>1. PICK b \in Bodies : body' = [body EXCEPT ![r] = b]
    BY <1>1 DEF Arrive
  <2>2. b \in NewVersionRequests
    BY BodiesAreRanges
  <2>3. phase[r] = "idle" /\ phase' = [phase EXCEPT ![r] = "ready"]
        /\ UNCHANGED <<versions, closing, adding, open, loop, target, status>>
    BY <1>1 DEF Arrive, private
  <2>4. TypeOK'
    BY <1>0, <2>1, <2>2, <2>3 DEF TypeOK, Phases
  <2>5. phase'[r] = "ready" /\ body'[r] = b
    BY <1>0, <2>1, <2>3 DEF TypeOK
  <2>6. closing[r] = None /\ adding[r] = None /\ r \notin open /\ status[r] # "OK"
    BY <1>0, <2>3 DEF Shape
  <2> QED
    BY <2>3, <2>4, <2>5, <2>6 DEF Shape, Handling
<1>2. CASE Begin(r)
  <2>1. body[r] \in NewVersionRequests /\ body[r].closeAt \in Dates \cup {None}
    BY <1>2, BodyIsTyped DEF Begin
  <2>2. /\ loop' = r /\ phase[r] = "ready"
        /\ phase' = [phase EXCEPT ![r] = IF body[r].closeAt = None THEN "checking" ELSE "finding"]
        /\ UNCHANGED <<versions, closing, adding, open, body, target, status>>
    BY <1>2 DEF Begin, private
  <2>3. TypeOK'
    BY <1>0, <2>2 DEF TypeOK, Phases
  <2>4. phase'[r] = "checking" \/ (phase'[r] = "finding" /\ body[r].closeAt \in Dates)
    BY <1>0, <2>1, <2>2 DEF TypeOK
  <2>5. closing[r] = None /\ adding[r] = None /\ r \notin open /\ status[r] # "OK"
    BY <1>0, <2>2 DEF Shape
  <2> QED
    BY <1>0, <2>2, <2>3, <2>4, <2>5 DEF Shape
<1>3. CASE FindOpen(r)
  <2>1. phase[r] = "finding" /\ UNCHANGED <<versions, closing, adding, open, body>>
    BY <1>3 DEF FindOpen, At, private
  <2>2. closing[r] = None /\ adding[r] = None /\ r \notin open /\ status[r] # "OK"
    BY <1>0, <2>1 DEF Shape
  <2>3. CASE Leave(r, "VALIDATION_FAILED") /\ UNCHANGED target
    BY <1>0, <2>1, <2>2, <2>3 DEF Leave, Shape, TypeOK, Phases, Codes, Handling
  <2>4. CASE /\ \E v \in OpenVersions(View(r)) : target' = [target EXCEPT ![r] = v.id]
             /\ GoTo(r, "reading")
    <3>1. PICK v \in OpenVersions(View(r)) : target' = [target EXCEPT ![r] = v.id]
      BY <2>4
    <3>2. v.id \in Requests
      BY <3>1, WrittenIsTyped DEF OpenVersions, Versions
    <3>3. TypeOK'
      BY <1>0, <2>1, <2>4, <3>1, <3>2 DEF GoTo, TypeOK, Phases
    <3>4. phase'[r] = "reading" /\ target'[r] \in Requests /\ loop' = loop /\ status' = status
      BY <1>0, <2>4, <3>1, <3>2 DEF GoTo, TypeOK
    <3> QED
      BY <1>0, <2>1, <2>2, <3>3, <3>4 DEF Shape, Handling
  <2> QED
    BY <1>3, <2>3, <2>4 DEF FindOpen
<1>4. CASE ReadTarget(r)
  <2>1. phase[r] = "reading" /\ UNCHANGED <<versions, closing, adding, open, body, target>>
    BY <1>4 DEF ReadTarget, At, private
  <2>2. closing[r] = None /\ adding[r] = None /\ r \notin open /\ status[r] # "OK"
    BY <1>0, <2>1 DEF Shape
  <2>3. PICK v \in View(r) :
            /\ v.id = target[r]
            /\ IF v.to # Forever THEN Leave(r, "VALIDATION_FAILED")
               ELSE IF body[r].closeAt <= v.from THEN Leave(r, "EFFECTIVE_RANGE_INVALID")
               ELSE GoTo(r, "updating")
    BY <1>4 DEF ReadTarget
  <2>4. CASE Leave(r, "VALIDATION_FAILED") \/ Leave(r, "EFFECTIVE_RANGE_INVALID")
    BY <1>0, <2>1, <2>2, <2>4 DEF Leave, Shape, TypeOK, Phases, Codes, Handling
  <2>5. CASE GoTo(r, "updating") /\ ~(body[r].closeAt <= v.from)
    <3>1. v.from \in Dates /\ body[r].closeAt \in Dates
      BY <1>0, <2>1, WrittenIsTyped DEF Shape, Versions
    <3>2. body[r].closeAt >= 1
      BY <2>5, <3>1, HorizonIsDate DEF Dates
    <3>3. TypeOK'
      BY <1>0, <2>1, <2>5 DEF GoTo, TypeOK, Phases
    <3>4. phase'[r] = "updating" /\ loop' = loop /\ status' = status
      BY <1>0, <2>5 DEF GoTo, TypeOK
    <3> QED
      BY <1>0, <2>1, <2>2, <3>1, <3>2, <3>3, <3>4 DEF Shape, Handling
  <2> QED
    BY <2>3, <2>4, <2>5
<1>5. CASE CheckOverlap(r)
  <2>1. phase[r] = "checking" /\ UNCHANGED <<versions, closing, adding, open, body, target>>
    BY <1>5 DEF CheckOverlap, At, private
  <2>2. NewVersion(r)' = NewVersion(r)
    BY <2>1 DEF NewVersion
  <2>3. adding[r] = None /\ status[r] # "OK"
    BY <1>0, <2>1 DEF Shape
  <2>4. CASE Leave(r, "OVERLAPPING_VERSIONS")
    BY <1>0, <2>1, <2>2, <2>3, <2>4 DEF Leave, Shape, TypeOK, Phases, Codes, Handling
  <2>5. CASE GoTo(r, "inserting")
    BY <1>0, <2>1, <2>2, <2>3, <2>5 DEF GoTo, Shape, TypeOK, Phases, Handling
  <2> QED
    BY <1>5, <2>4, <2>5 DEF CheckOverlap
<1> QED
  BY <1>1, <1>2, <1>3, <1>4, <1>5

\* Steps that write, or give up the lock.
LEMMA WritingStepsKeepShape ==
    ASSUME ShapeInv, NEW r \in Requests,
           UpdateTarget(r) \/ InsertVersion(r) \/ InsertConflicts(r) \/ BusyTimeout(r)
    PROVE  TypeOK' /\ Shape(r)'
<1>0. TypeOK /\ Shape(r)
  BY DEF ShapeInv
<1>1. CASE UpdateTarget(r)
  <2>1. /\ phase[r] = "updating" /\ loop = r /\ open' = open \cup {r}
        /\ UNCHANGED <<versions, adding, body, target, loop, status>>
        /\ phase' = [phase EXCEPT ![r] = "checking"]
    BY <1>1 DEF UpdateTarget, At, GoTo
  <2>2. body[r].closeAt \in Dates /\ body[r].closeAt >= 1 /\ target[r] \in Requests
    BY <1>0, <2>1 DEF Shape
  <2>3. closing[r] = None /\ adding[r] = None /\ status[r] # "OK"
    BY <1>0, <2>1 DEF Shape
  <2> DEFINE c == [id |-> target[r], to |-> body[r].closeAt]
  <2>4. c \in Closes /\ c.id = target[r] /\ c.to = body[r].closeAt
    BY <2>2 DEF Closes
  <2> HIDE DEF c
  <2>5. closing' = [closing EXCEPT ![r] = c] \/ closing' = closing
    BY <1>1 DEF UpdateTarget, c
  <2>6. TypeOK'
    BY <1>0, <2>1, <2>4, <2>5 DEF TypeOK, Phases
  <2>7. phase'[r] = "checking" /\ (closing'[r] = c \/ closing'[r] = None) /\ r \in open'
    BY <1>0, <2>1, <2>3, <2>5 DEF TypeOK
  <2> QED
    BY <1>0, <2>1, <2>2, <2>3, <2>4, <2>6, <2>7 DEF Shape, Handling
<1>2. CASE InsertVersion(r)
  <2>1. /\ phase[r] = "inserting" /\ UNCHANGED <<closing, body, target>>
        /\ status' = [status EXCEPT ![r] = "OK"] /\ phase' = [phase EXCEPT ![r] = "returned"]
        /\ loop' = None
    BY <1>2 DEF InsertVersion, At, Leave
  <2>2. NewVersion(r) \in Versions
    BY <2>1, BodyIsTyped
  <2>3. \/ versions' = versions \cup {NewVersion(r)} /\ adding' = adding /\ open' = open /\ r \notin open
        \/ adding' = [adding EXCEPT ![r] = NewVersion(r)] /\ open' = open \cup {r} /\ versions' = versions
    BY <1>2 DEF InsertVersion
  <2>4. TypeOK'
    BY <1>0, <2>1, <2>2, <2>3 DEF TypeOK, Phases
  <2>5. NewVersion(r)' = NewVersion(r)
    BY <2>1 DEF NewVersion
  <2>6. phase'[r] = "returned" /\ status'[r] = "OK"
    BY <1>0, <2>1 DEF TypeOK
  <2>7. \/ adding'[r] = None /\ r \notin open' /\ r \notin open
        \/ adding'[r] = NewVersion(r) /\ r \in open'
    BY <1>0, <2>1, <2>3 DEF TypeOK, Shape
  <2> QED
    BY <1>0, <2>1, <2>4, <2>5, <2>6, <2>7 DEF Shape, Handling
<1>3. CASE InsertConflicts(r) \/ BusyTimeout(r)
  <2>1. /\ phase[r] \in {"updating", "inserting"} /\ UNCHANGED <<versions, closing, adding, body, target>>
        /\ phase' = [phase EXCEPT ![r] = "returned"] /\ loop' = None
        /\ \E code \in Codes : status' = [status EXCEPT ![r] = code]
        /\ open' = open \/ open' = open \cup {r}
    BY <1>3 DEF InsertConflicts, BusyTimeout, At, Leave, Codes, private
  <2>2. TypeOK'
    BY <1>0, <2>1 DEF TypeOK, Phases
  <2>3. NewVersion(r)' = NewVersion(r)
    BY <2>1 DEF NewVersion
  <2>4. phase'[r] = "returned" /\ status'[r] # "OK" /\ adding[r] = None /\ open \subseteq open'
    BY <1>0, <2>1 DEF TypeOK, Shape, Codes
  <2> QED
    BY <1>0, <2>1, <2>2, <2>3, <2>4 DEF Shape, Handling
<1> QED
  BY <1>1, <1>2, <1>3

LEMMA TeardownKeepsShape ==
    ASSUME ShapeInv, NEW r \in Requests, Teardown(r)
    PROVE  TypeOK' /\ Shape(r)'
<1>0. TypeOK /\ Shape(r)
  BY DEF ShapeInv
<1>1. CASE Dispatch(r)
  <2>1. NewVersion(r)' = NewVersion(r)
    BY <1>1 DEF Dispatch, NewVersion
  <2> QED
    BY <1>0, <1>1, <2>1 DEF Dispatch, Shape, TypeOK, Phases, Handling, private
<1>2. CASE Commit(r) \/ Rollback(r) \/ CommitFails(r)
  <2>1. View(r) \subseteq Versions
    BY WrittenIsTyped
  <2>2. EndTransaction(r) /\ UNCHANGED <<loop, body, target>> /\ phase[r] = "closing"
        /\ (versions' = View(r) \/ versions' = versions)
        /\ (status' = status \/ status' = [status EXCEPT ![r] = "INTERNAL"])
    BY <1>2 DEF Commit, Rollback, CommitFails
  <2>3. TypeOK'
    BY <1>0, <2>1, <2>2 DEF EndTransaction, TypeOK, Phases, Codes
  <2>4. closing'[r] = None /\ adding'[r] = None /\ r \notin open' /\ phase'[r] = "closed"
    BY <1>0, <2>2 DEF EndTransaction, TypeOK
  <2> QED
    BY <1>0, <2>2, <2>3, <2>4 DEF Shape, Handling
<1> QED
  BY <1>1, <1>2 DEF Teardown

LEMMA ShapeInvIsInductive == ShapeInv /\ [Next]_vars => ShapeInv'
<1> SUFFICES ASSUME ShapeInv, [Next]_vars PROVE ShapeInv'
  OBVIOUS
<1>1. ASSUME NEW r \in Requests, StepOf(r) PROVE ShapeInv'
  <2>1. TypeOK' /\ Shape(r)'
    BY <1>1, ReadingStepsKeepShape, WritingStepsKeepShape, TeardownKeepsShape DEF StepOf, Handler
  <2> QED
    BY <1>1, <2>1, OthersKeepShape DEF ShapeInv
<1>2. CASE UNCHANGED vars
  BY <1>2 DEF vars, private, ShapeInv, TypeOK, Shape, NewVersion
<1> QED
  BY <1>1, <1>2 DEF Next, StepOf

LEMMA InitHasShape == Init => ShapeInv
  BY DEF Init, ShapeInv, TypeOK, Shape, Phases, Handling

LEMMA ShapeInvHolds == Spec => []ShapeInv
  BY InitHasShape, ShapeInvIsInductive, PTL DEF Spec

\* The type invariant, for every set of requests and bodies.
THEOREM DefinitionsAreTyped == Spec => []TypeOK
  BY ShapeInvHolds, PTL DEF ShapeInv

-----------------------------------------------------------------------------
(* The table and the transactions that have written to it.                 *)

\* A version in the table belongs to a request that succeeded and has committed.
RowsAreCommitted ==
    \A v \in versions : /\ phase[v.id] \in {"returned", "closing", "closed"}
                        /\ status[v.id] = "OK" /\ v.id \notin open
IdsAreKeys == \A v, w \in versions : v.id = w.id => v = w

\* An UPDATE found the open row that it ends, after that row began, and holds it.
ClosesAim(r) ==
    closing[r] # None =>
        \E v \in versions : v.id = closing[r].id /\ v.to = Forever /\ v.from < closing[r].to
TargetsBegin(r) ==
    phase[r] = "updating" =>
        \E v \in versions : v.id = target[r] /\ v.from < body[r].closeAt
\* An inserted row fits the table once its own transaction's close is made.
AddedFits(r) ==
    adding[r] # None => \A v \in versions :
        /\ v.from # adding[r].from
        /\ v.to = Forever /\ adding[r].to = Forever => closing[r] # None /\ closing[r].id = v.id
\* No two transactions end one row or insert two that a unique index tells apart.
Rivals(r, q) ==
    /\ closing[r] # None /\ closing[q] # None => closing[r].id # closing[q].id
    /\ adding[r] # None /\ adding[q] # None => ~Conflicts({adding[r]}, adding[q])

StoreInv ==
    /\ ShapeInv /\ RowsAreCommitted /\ IdsAreKeys /\ OneOpenVersion
    /\ \A r \in Requests : ClosesAim(r) /\ TargetsBegin(r) /\ AddedFits(r)
    /\ \A r, q \in Requests : r # q => Rivals(r, q)

\* Before its first write a transaction sees the table as it is committed.
LEMMA ViewBeforeWriting ==
    ASSUME NEW r \in Requests, closing[r] = None, adding[r] = None
    PROVE  View(r) = versions
  BY DEF View, Written

\* A row of the table is in every view, ended if that transaction ends it.
LEMMA ViewKeepsRows ==
    ASSUME NEW r \in Requests, NEW v \in versions, v \in Versions
    PROVE  /\ \E w \in View(r) : w.id = v.id /\ w.from = v.from
           /\ (closing[r] = None \/ closing[r].id # v.id) => v \in View(r)
<1> DEFINE w == IF closing[r] # None /\ v.id = closing[r].id THEN [v EXCEPT !.to = closing[r].to] ELSE v
<1>1. w \in View(r)
  BY DEF View, Written
<1>2. w.id = v.id /\ w.from = v.from
  BY DEF Versions
<1> QED
  BY <1>1, <1>2

\* Steps that leave the table and drop or keep every transaction's writes.
LEMMA QuietStepsKeepStore ==
    ASSUME StoreInv, NEW r \in Requests,
           \/ Arrive(r) \/ Begin(r) \/ FindOpen(r) \/ ReadTarget(r) \/ CheckOverlap(r)
           \/ InsertConflicts(r) \/ BusyTimeout(r)
           \/ Dispatch(r) \/ Rollback(r) \/ CommitFails(r),
           ShapeInv'
    PROVE  StoreInv'
<1>0. StepOf(r) /\ TypeOK /\ Shape(r) /\ TypeOK' /\ versions' = versions
  BY DEF StepOf, Handler, Teardown, StoreInv, ShapeInv, Arrive, Begin, FindOpen, ReadTarget,
         CheckOverlap, InsertConflicts, BusyTimeout, Dispatch, Rollback, CommitFails
<1>1. closing'[r] \in {closing[r], None} /\ adding'[r] \in {adding[r], None}
      /\ (body'[r] = body[r] \/ phase[r] = "idle")
  BY <1>0 DEF Arrive, Begin, FindOpen, ReadTarget, CheckOverlap, InsertConflicts, BusyTimeout,
              Dispatch, Rollback, CommitFails, EndTransaction, TypeOK, private
<1>2. ASSUME NEW q \in Requests \ {r}
      PROVE  /\ closing'[q] = closing[q] /\ adding'[q] = adding[q] /\ (q \in open' <=> q \in open)
             /\ phase'[q] = phase[q] /\ body'[q] = body[q]
             /\ target'[q] = target[q] /\ status'[q] = status[q]
  BY <1>0, OthersStandStill
<1>3. RowsAreCommitted'
  <2> SUFFICES ASSUME NEW v \in versions
               PROVE  /\ phase'[v.id] \in {"returned", "closing", "closed"}
                      /\ status'[v.id] = "OK" /\ v.id \notin open'
    BY <1>0 DEF RowsAreCommitted
  <2>1. v.id \in Requests /\ phase[v.id] \in {"returned", "closing", "closed"}
        /\ status[v.id] = "OK" /\ v.id \notin open
    BY <1>0 DEF StoreInv, RowsAreCommitted, TypeOK, Versions
  <2>2. CASE v.id = r
    <3>1. Dispatch(r)
      BY <2>1, <2>2 DEF Arrive, Begin, FindOpen, ReadTarget, CheckOverlap, InsertConflicts, At,
                        BusyTimeout, Rollback, CommitFails
    <3> QED
      BY <1>0, <2>1, <2>2, <3>1 DEF Dispatch, TypeOK, private
  <2> QED
    BY <1>2, <2>1, <2>2
<1>4. IdsAreKeys' /\ OneOpenVersion'
  BY <1>0 DEF StoreInv, IdsAreKeys, OneOpenVersion
<1>5. TargetsBegin(r)'
  <2> SUFFICES ASSUME phase'[r] = "updating"
               PROVE  \E v \in versions : v.id = target'[r] /\ v.from < body'[r].closeAt
    BY <1>0 DEF TargetsBegin
  <2>1. ReadTarget(r)
    BY <1>0 DEF Arrive, Begin, FindOpen, CheckOverlap, InsertConflicts, BusyTimeout, Dispatch,
                Rollback, CommitFails, EndTransaction, Leave, GoTo, TypeOK
  <2>2. View(r) = versions /\ UNCHANGED <<body, target>> /\ phase[r] = "reading"
    BY <1>0, <2>1, ViewBeforeWriting DEF ReadTarget, At, Shape
  <2>3. PICK v \in versions :
            /\ v.id = target[r]
            /\ IF v.to # Forever THEN Leave(r, "VALIDATION_FAILED")
               ELSE IF body[r].closeAt <= v.from THEN Leave(r, "EFFECTIVE_RANGE_INVALID")
               ELSE GoTo(r, "updating")
    BY <2>1, <2>2 DEF ReadTarget
  <2>4. ~(body[r].closeAt <= v.from)
    BY <1>0, <2>3 DEF Leave, TypeOK
  <2>5. body[r].closeAt \in Dates /\ v.from \in Dates
    BY <1>0, <2>2 DEF Shape, TypeOK, Versions
  <2> QED
    BY <2>2, <2>3, <2>4, <2>5, HorizonIsDate DEF Dates
<1>6. ASSUME NEW q \in Requests \ {r} PROVE ClosesAim(q)' /\ TargetsBegin(q)' /\ AddedFits(q)'
  BY <1>0, <1>2 DEF StoreInv, ClosesAim, TargetsBegin, AddedFits
<1>7. ClosesAim(r)'
  BY <1>0, <1>1 DEF StoreInv, ClosesAim
<1>8. AddedFits(r)'
  <2>1. adding'[r] # None => closing'[r] = closing[r]
    BY <1>0 DEF Arrive, Begin, FindOpen, ReadTarget, CheckOverlap, InsertConflicts, BusyTimeout,
                Dispatch, Rollback, CommitFails, EndTransaction, TypeOK, private
  <2> QED
    BY <1>0, <1>1, <2>1 DEF StoreInv, AddedFits
<1>9. ASSUME NEW p \in Requests, NEW q \in Requests, p # q PROVE Rivals(p, q)'
  BY <1>1, <1>2, <1>9 DEF StoreInv, Rivals, Conflicts
<1> QED
  BY <1>3, <1>4, <1>5, <1>6, <1>7, <1>8, <1>9 DEF StoreInv

\* The UPDATE ends the open row it found, once no rival has it.
LEMMA UpdateKeepsStore ==
    ASSUME StoreInv, NEW r \in Requests, UpdateTarget(r), ShapeInv'
    PROVE  StoreInv'
<1>0. StepOf(r) /\ TypeOK /\ Shape(r) /\ TypeOK'
  BY DEF StepOf, Handler, StoreInv, ShapeInv
<1>1. /\ phase[r] = "updating" /\ open' = open \cup {r}
      /\ UNCHANGED <<versions, adding, body, target, status>>
      /\ phase' = [phase EXCEPT ![r] = "checking"]
  BY DEF UpdateTarget, At, GoTo
<1>2. closing[r] = None /\ adding[r] = None /\ View(r) = versions
  BY <1>0, <1>1, ViewBeforeWriting DEF Shape
<1>3. ASSUME NEW q \in Requests \ {r}
      PROVE  /\ closing'[q] = closing[q] /\ adding'[q] = adding[q] /\ (q \in open' <=> q \in open)
             /\ phase'[q] = phase[q] /\ body'[q] = body[q]
             /\ target'[q] = target[q] /\ status'[q] = status[q]
  BY <1>0, OthersStandStill
<1> DEFINE c == [id |-> target[r], to |-> body[r].closeAt]
<1>4. c.id = target[r] /\ c.to = body[r].closeAt
  OBVIOUS
<1> HIDE DEF c
<1>5. \/ (\E v \in OpenVersions(versions) : v.id = target[r]) /\ closing'[r] = c
      \/ closing'[r] = None
  BY <1>0, <1>2 DEF UpdateTarget, TypeOK, c
<1>6. RowsAreCommitted' /\ IdsAreKeys' /\ OneOpenVersion'
  <2>1. \A v \in versions : v.id # r
    BY <1>1 DEF StoreInv, RowsAreCommitted
  <2> QED
    BY <1>0, <1>1, <2>1 DEF StoreInv, RowsAreCommitted, IdsAreKeys, OneOpenVersion, TypeOK
<1>7. ClosesAim(r)'
  <2> SUFFICES ASSUME closing'[r] # None
               PROVE  \E v \in versions : v.id = c.id /\ v.to = Forever /\ v.from < c.to
    BY <1>1, <1>5 DEF ClosesAim
  <2>1. PICK v \in OpenVersions(versions) : v.id = target[r]
    BY <1>5
  <2>2. PICK w \in versions : w.id = target[r] /\ w.from < body[r].closeAt
    BY <1>1 DEF StoreInv, TargetsBegin
  <2> QED
    BY <1>4, <2>1, <2>2 DEF OpenVersions, StoreInv, IdsAreKeys
<1>8. TargetsBegin(r)' /\ AddedFits(r)'
  BY <1>0, <1>1, <1>2 DEF TargetsBegin, AddedFits, TypeOK
<1>9. ASSUME NEW q \in Requests \ {r}
      PROVE  ClosesAim(q)' /\ TargetsBegin(q)' /\ AddedFits(q)' /\ Rivals(r, q)' /\ Rivals(q, r)'
  <2>1. closing[q] # None => q \in open /\ closing[q].id # target[r]
    BY <1>1 DEF UpdateTarget, Waits, Collides, StoreInv, ShapeInv, Shape
  <2> QED
    BY <1>1, <1>2, <1>3, <1>4, <1>5, <2>1 DEF StoreInv, ClosesAim, TargetsBegin, AddedFits, Rivals
<1>10. ASSUME NEW p \in Requests \ {r}, NEW q \in Requests \ {r}, p # q PROVE Rivals(p, q)'
  BY <1>3, <1>10 DEF StoreInv, Rivals, Conflicts
<1> QED
  BY <1>6, <1>7, <1>8, <1>9, <1>10 DEF StoreInv

\* Conflicting is symmetric.
LEMMA ConflictsBothWays ==
    ASSUME NEW v, NEW w, ~Conflicts({v}, w)
    PROVE  ~Conflicts({w}, v)
  BY DEF Conflicts

\* The INSERT, either committed by its savepoint or held by its transaction.
LEMMA InsertKeepsStore ==
    ASSUME StoreInv, NEW r \in Requests, InsertVersion(r), ShapeInv'
    PROVE  StoreInv'
<1>0. StepOf(r) /\ TypeOK /\ Shape(r) /\ TypeOK'
  BY DEF StepOf, Handler, StoreInv, ShapeInv
<1>1. /\ phase[r] = "inserting" /\ ~Waits(r) /\ ~Conflicts(View(r), NewVersion(r))
      /\ UNCHANGED <<closing, body, target>>
      /\ status' = [status EXCEPT ![r] = "OK"] /\ phase' = [phase EXCEPT ![r] = "returned"]
  BY DEF InsertVersion, At, Leave
<1> DEFINE n == NewVersion(r)
<1>2. n.id = r /\ n \in Versions
  BY <1>1, BodyIsTyped DEF NewVersion, StoreInv
<1>3. /\ phase'[r] = "returned" /\ status'[r] = "OK" /\ adding[r] = None
      /\ \A v \in versions : v.id # r
  BY <1>0, <1>1 DEF TypeOK, Shape, StoreInv, RowsAreCommitted
<1> HIDE DEF n
<1>4. ASSUME NEW q \in Requests \ {r}
      PROVE  /\ closing'[q] = closing[q] /\ adding'[q] = adding[q] /\ (q \in open' <=> q \in open)
             /\ phase'[q] = phase[q] /\ body'[q] = body[q]
             /\ target'[q] = target[q] /\ status'[q] = status[q]
  BY <1>0, OthersStandStill
<1>5. CASE SingleWriter /\ r \notin open
  <2>1. versions' = versions \cup {n} /\ adding' = adding /\ open' = open
    BY <1>5 DEF InsertVersion, n
  <2>2. \A q \in Requests : closing[q] = None /\ adding[q] = None
    BY <1>1, <1>5 DEF Waits, StoreInv, ShapeInv, Shape
  <2>3. ~Conflicts(versions, n)
    BY <1>1, <2>2, ViewBeforeWriting DEF n
  <2>4. RowsAreCommitted'
    <3>1. \A v \in versions : v.id \in Requests \ {r}
      BY <1>0, <1>3 DEF TypeOK, Versions
    <3> QED
      BY <1>2, <1>3, <1>4, <1>5, <2>1, <3>1 DEF StoreInv, RowsAreCommitted
  <2>5. IdsAreKeys' /\ OneOpenVersion'
    BY <1>2, <1>3, <2>1, <2>3 DEF StoreInv, IdsAreKeys, OneOpenVersion, Conflicts
  <2>6. ASSUME NEW q \in Requests PROVE ClosesAim(q)' /\ TargetsBegin(q)' /\ AddedFits(q)'
    BY <1>0, <1>1, <2>1, <2>2 DEF StoreInv, ClosesAim, TargetsBegin, AddedFits, TypeOK
  <2>7. ASSUME NEW p \in Requests, NEW q \in Requests PROVE Rivals(p, q)'
    BY <1>1, <2>1, <2>2 DEF Rivals
  <2> QED
    BY <2>4, <2>5, <2>6, <2>7 DEF StoreInv
<1>6. CASE ~(SingleWriter /\ r \notin open)
  <2>1. adding' = [adding EXCEPT ![r] = n] /\ open' = open \cup {r} /\ versions' = versions
    BY <1>6 DEF InsertVersion, n
  <2>2. adding'[r] = n
    BY <1>0, <2>1 DEF TypeOK
  <2>3. RowsAreCommitted' /\ IdsAreKeys' /\ OneOpenVersion'
    <3>1. \A v \in versions : v.id \in Requests \ {r}
      BY <1>0, <1>3 DEF TypeOK, Versions
    <3> QED
      BY <1>4, <2>1, <3>1 DEF StoreInv, RowsAreCommitted, IdsAreKeys, OneOpenVersion
  <2>4. ClosesAim(r)' /\ TargetsBegin(r)'
    BY <1>1, <1>3, <2>1 DEF StoreInv, ClosesAim, TargetsBegin
  <2>5. AddedFits(r)'
    <3> SUFFICES ASSUME NEW v \in versions
                 PROVE  /\ v.from # n.from
                        /\ v.to = Forever /\ n.to = Forever => closing[r] # None /\ closing[r].id = v.id
      BY <1>1, <2>1, <2>2 DEF AddedFits
    <3>1. v \in Versions
      BY <1>0 DEF TypeOK
    <3> QED
      BY <1>1, <3>1, ViewKeepsRows DEF Conflicts, n
  <2>6. ASSUME NEW q \in Requests \ {r}
        PROVE  ClosesAim(q)' /\ TargetsBegin(q)' /\ AddedFits(q)' /\ Rivals(r, q)' /\ Rivals(q, r)'
    <3>1. adding[q] # None => q \in open /\ ~Conflicts({adding[q]}, n)
      BY <1>1 DEF Waits, Collides, StoreInv, ShapeInv, Shape, n
    <3>2. adding[q] # None => ~Conflicts({n}, adding[q])
      BY <3>1, ConflictsBothWays
    <3>3. ClosesAim(q)' /\ TargetsBegin(q)' /\ AddedFits(q)'
      BY <1>1, <1>4, <2>1 DEF StoreInv, ClosesAim, TargetsBegin, AddedFits
    <3> QED
      BY <1>1, <1>4, <2>2, <3>1, <3>2, <3>3 DEF StoreInv, Rivals
  <2>7. ASSUME NEW p \in Requests \ {r}, NEW q \in Requests \ {r}, p # q PROVE Rivals(p, q)'
    BY <1>4, <2>7 DEF StoreInv, Rivals
  <2> QED
    BY <2>3, <2>4, <2>5, <2>6, <2>7 DEF StoreInv
<1> QED
  BY <1>5, <1>6

\* The row a transaction inserts carries the name of its request.
LEMMA AddedIsOwn ==
    ASSUME ShapeInv, NEW r \in Requests, adding[r] # None
    PROVE  r \in open /\ status[r] = "OK" /\ adding[r] = NewVersion(r) /\ adding[r].id = r
<1>1. r \in open /\ status[r] = "OK" /\ adding[r] = NewVersion(r)
  BY DEF ShapeInv, Shape
<1>2. NewVersion(r).id = r
  BY DEF NewVersion
<1> QED
  BY <1>1, <1>2

\* What a transaction sees, or leaves by its commit, and where each row comes from.
LEMMA RowsOfView ==
    ASSUME StoreInv, NEW r \in Requests, NEW w \in View(r)
    PROVE  /\ w \in Versions
           /\ \/ adding[r] # None /\ w = adding[r] /\ w.id = r
              \/ \E v \in versions :
                    /\ w.id = v.id /\ w.from = v.from
                    /\ \/ w = v /\ (closing[r] = None \/ closing[r].id # v.id)
                       \/ /\ closing[r] # None /\ v.id = closing[r].id
                          /\ w.to = closing[r].to /\ w.to # Forever
<1>1. adding[r] # None => adding[r].id = r
  BY AddedIsOwn DEF StoreInv
<1>2. closing[r] # None => closing[r].to # Forever
  BY HorizonIsDate DEF StoreInv, ShapeInv, TypeOK, Closes, Dates, Forever
<1> QED
  BY <1>1, <1>2, WrittenIsTyped DEF StoreInv

\* A committed transaction's rows are distinct, as the indexes demand.
LEMMA ViewsAreUnique ==
    ASSUME StoreInv, NEW r \in Requests, NEW v \in View(r), NEW w \in View(r),
           v.from = w.from \/ (v.to = Forever /\ w.to = Forever) \/ v.id = w.id
    PROVE  v = w
<1> DEFINE Old(x, y) == /\ x.id = y.id /\ x.from = y.from
                        /\ \/ x = y /\ (closing[r] = None \/ closing[r].id # y.id)
                           \/ /\ closing[r] # None /\ y.id = closing[r].id
                              /\ x.to = closing[r].to /\ x.to # Forever
<1>0. v \in Versions /\ w \in Versions /\ versions \subseteq Versions
  BY RowsOfView DEF StoreInv, ShapeInv, TypeOK
<1>1. ASSUME adding[r] # None, NEW x \in View(r), NEW y \in versions, Old(x, y)
      PROVE  /\ x.id # adding[r].id /\ x.from # adding[r].from
             /\ ~(x.to = Forever /\ adding[r].to = Forever)
  <2>1. r \in open /\ adding[r].id = r
    BY <1>1, AddedIsOwn DEF StoreInv
  <2>2. y.id # r
    BY <2>1 DEF StoreInv, RowsAreCommitted
  <2>3. y.from # adding[r].from
        /\ (y.to = Forever /\ adding[r].to = Forever => closing[r] # None /\ closing[r].id = y.id)
    BY <1>1 DEF StoreInv, AddedFits
  <2> QED
    BY <1>1, <2>1, <2>2, <2>3
<1>2. ASSUME NEW x \in versions, NEW y \in versions, Old(v, x), Old(w, y) PROVE v = w
  <2>1. x = y
    BY <1>2 DEF StoreInv, IdsAreKeys, OneOpenVersion
  <2>2. v.id = w.id /\ v.from = w.from /\ v.to = w.to
    BY <1>2, <2>1
  <2> QED
    BY <1>0, <2>2 DEF Versions
<1>3. /\ (adding[r] # None /\ v = adding[r]) \/ \E x \in versions : Old(v, x)
      /\ (adding[r] # None /\ w = adding[r]) \/ \E y \in versions : Old(w, y)
  BY RowsOfView
<1> HIDE DEF Old
<1> QED
  BY <1>1, <1>2, <1>3

LEMMA CommitKeepsStore ==
    ASSUME StoreInv, NEW r \in Requests, Commit(r), ShapeInv'
    PROVE  StoreInv'
<1>0. StepOf(r) /\ TypeOK /\ Shape(r) /\ TypeOK'
  BY DEF StepOf, Teardown, StoreInv, ShapeInv
<1>1. /\ phase[r] = "closing" /\ status[r] = "OK" /\ versions' = View(r)
      /\ UNCHANGED <<body, target, status>>
      /\ closing'[r] = None /\ adding'[r] = None /\ r \notin open' /\ phase'[r] = "closed"
  BY <1>0 DEF Commit, EndTransaction, TypeOK
<1>2. ASSUME NEW q \in Requests \ {r}
      PROVE  /\ closing'[q] = closing[q] /\ adding'[q] = adding[q] /\ (q \in open' <=> q \in open)
             /\ phase'[q] = phase[q] /\ body'[q] = body[q]
             /\ target'[q] = target[q] /\ status'[q] = status[q]
  BY <1>0, OthersStandStill
<1>3. RowsAreCommitted'
  <2> SUFFICES ASSUME NEW w \in View(r)
               PROVE  /\ phase'[w.id] \in {"returned", "closing", "closed"}
                      /\ status'[w.id] = "OK" /\ w.id \notin open'
    BY <1>1 DEF RowsAreCommitted
  <2>1. w.id \in Requests /\ (w.id = r \/ \E v \in versions : w.id = v.id)
    BY RowsOfView DEF Versions
  <2> QED
    BY <1>1, <1>2, <2>1 DEF StoreInv, RowsAreCommitted
<1>4. IdsAreKeys' /\ OneOpenVersion'
  BY <1>1, ViewsAreUnique DEF IdsAreKeys, OneOpenVersion
<1>5. ClosesAim(r)' /\ TargetsBegin(r)' /\ AddedFits(r)'
  BY <1>1 DEF ClosesAim, TargetsBegin, AddedFits
<1>6. ASSUME NEW q \in Requests \ {r} PROVE ClosesAim(q)' /\ TargetsBegin(q)' /\ AddedFits(q)'
  <2>1. Rivals(r, q) /\ Rivals(q, r) /\ versions \subseteq Versions
    BY <1>0 DEF StoreInv, TypeOK
  <2>2. ClosesAim(q)'
    <3> SUFFICES ASSUME closing[q] # None
                 PROVE  \E v \in View(r) : v.id = closing[q].id /\ v.to = Forever /\ v.from < closing[q].to
      BY <1>1, <1>2 DEF ClosesAim
    <3>1. PICK v \in versions : v.id = closing[q].id /\ v.to = Forever /\ v.from < closing[q].to
      BY DEF StoreInv, ClosesAim
    <3> QED
      BY <2>1, <3>1, ViewKeepsRows DEF Rivals
  <2>3. TargetsBegin(q)'
    BY <1>1, <1>2, <2>1, ViewKeepsRows DEF StoreInv, TargetsBegin
  <2>4. AddedFits(q)'
    <3> SUFFICES ASSUME adding[q] # None, NEW w \in View(r)
                 PROVE  /\ w.from # adding[q].from
                        /\ w.to = Forever /\ adding[q].to = Forever =>
                              closing[q] # None /\ closing[q].id = w.id
      BY <1>1, <1>2 DEF AddedFits
    <3>1. CASE adding[r] # None /\ w = adding[r]
      BY <2>1, <3>1 DEF Rivals, Conflicts
    <3>2. CASE \E v \in versions : w.id = v.id /\ w.from = v.from /\ (w = v \/ w.to # Forever)
      BY <3>2 DEF StoreInv, AddedFits
    <3> QED
      BY <3>1, <3>2, RowsOfView
  <2> QED
    BY <2>2, <2>3, <2>4
<1>7. ASSUME NEW p \in Requests, NEW q \in Requests, p # q PROVE Rivals(p, q)'
  BY <1>1, <1>2, <1>7 DEF StoreInv, Rivals, Conflicts
<1> QED
  BY <1>3, <1>4, <1>5, <1>6, <1>7 DEF StoreInv

LEMMA StoreInvIsInductive == StoreInv /\ [Next]_vars => StoreInv'
<1> SUFFICES ASSUME StoreInv, [Next]_vars PROVE StoreInv'
  OBVIOUS
<1>1. ShapeInv'
  BY ShapeInvIsInductive DEF StoreInv
<1>2. ASSUME NEW r \in Requests, StepOf(r) PROVE StoreInv'
  BY <1>1, <1>2, QuietStepsKeepStore, UpdateKeepsStore, InsertKeepsStore, CommitKeepsStore
     DEF StepOf, Handler, Teardown
<1>3. CASE UNCHANGED vars
  BY <1>1, <1>3 DEF vars, private, StoreInv, RowsAreCommitted, IdsAreKeys, OneOpenVersion, ClosesAim,
                    TargetsBegin, AddedFits, Rivals, Conflicts
<1> QED
  BY <1>2, <1>3 DEF Next, StepOf

LEMMA InitIsStored == Init => StoreInv
  BY InitHasShape DEF Init, StoreInv, RowsAreCommitted, IdsAreKeys, OneOpenVersion, ClosesAim,
                      TargetsBegin, AddedFits, Rivals

LEMMA StoreInvHolds == Spec => []StoreInv
  BY InitIsStored, StoreInvIsInductive, PTL DEF Spec

\* The unique indexes keep their promise at every commit, on both backends: one
\* open version at most, and no two that begin on one date.
THEOREM OneVersionIsOpen == Spec => []OneOpenVersion
  BY StoreInvHolds, PTL DEF StoreInv

\* A request answered with an error has left no version behind, on both backends.
THEOREM RejectedRequestsWriteNothing == Spec => []RejectionsWriteNothing
<1>1. StoreInv => RejectionsWriteNothing
  BY DEF StoreInv, RowsAreCommitted, RejectionsWriteNothing
<1> QED
  BY <1>1, StoreInvHolds, PTL

-----------------------------------------------------------------------------
(* Supersession.                                                           *)

\* What a commit adds to the table or ends in it.
LEMMA CommitSupersedes ==
    ASSUME StoreInv, NEW r \in Requests, Commit(r), NEW v \in versions, NEW w \in versions',
           w.id = v.id, w.to # v.to
    PROVE  /\ target[r] = v.id /\ body[r].closeAt = w.to
           /\ NewVersion(r) \in versions' \ versions
<1>1. status[r] = "OK" /\ versions' = View(r)
  BY DEF Commit
<1>2. w.id # r \/ adding[r] = None
  BY AddedIsOwn DEF StoreInv, RowsAreCommitted
<1>3. PICK x \in versions :
        /\ w.id = x.id
        /\ w = x \/ (closing[r] # None /\ x.id = closing[r].id /\ w.to = closing[r].to)
  BY <1>1, <1>2, RowsOfView
<1>4. x = v
  BY <1>3 DEF StoreInv, IdsAreKeys
<1>5. closing[r] # None /\ v.id = closing[r].id /\ w.to = closing[r].to
  BY <1>3, <1>4
<1>6. r \in open /\ closing[r].id = target[r] /\ closing[r].to = body[r].closeAt
  BY <1>5 DEF StoreInv, ShapeInv, Shape
<1>7. adding[r] = NewVersion(r) /\ adding[r] \in Versions
  <2>1. adding[r] = NewVersion(r) /\ phase[r] # "idle"
    BY <1>1, <1>6 DEF StoreInv, ShapeInv, Shape
  <2> QED
    BY <2>1, BodyIsTyped DEF StoreInv
<1>8. adding[r] # None
  BY <1>7, NoneIsAbsent
<1>9. adding[r] \in View(r) /\ adding[r].id = r
  BY <1>8, AddedIsOwn DEF View, Written, StoreInv
<1> QED
  BY <1>1, <1>5, <1>6, <1>7, <1>9 DEF StoreInv, RowsAreCommitted

\* Closing and appending are one step of the table, on both backends.
THEOREM ClosesComeWithSuccessors == Spec => SupersessionIsAtomic
<1> DEFINE A == \A v \in versions, w \in versions' :
                   w.id = v.id /\ w.to # v.to =>
                      \E r \in Requests : /\ target[r] = v.id /\ body[r].closeAt = w.to
                                          /\ NewVersion(r) \in versions' \ versions
<1>1. StoreInv /\ [Next]_vars => [A]_vars
  <2> SUFFICES ASSUME StoreInv, [Next]_vars, NEW v \in versions, NEW w \in versions',
                      w.id = v.id, w.to # v.to
               PROVE  \E r \in Requests : /\ target[r] = v.id /\ body[r].closeAt = w.to
                                          /\ NewVersion(r) \in versions' \ versions
    OBVIOUS
  <2>1. versions' # versions
    BY DEF StoreInv, IdsAreKeys
  <2>2. PICK r \in Requests : Commit(r) \/ InsertVersion(r)
    BY <2>1 DEF Next, Handler, Teardown, Arrive, Begin, FindOpen, ReadTarget, UpdateTarget,
                CheckOverlap, InsertConflicts, BusyTimeout, Dispatch, Rollback, CommitFails, vars
  <2>3. CASE InsertVersion(r)
    <3>1. w = NewVersion(r) /\ phase[r] = "inserting"
      BY <2>1, <2>3 DEF InsertVersion, At, StoreInv, IdsAreKeys
    <3> QED
      BY <3>1 DEF NewVersion, StoreInv, RowsAreCommitted
  <2> QED
    BY <2>2, <2>3, CommitSupersedes
<1> QED
  BY <1>1, StoreInvHolds, PTL DEF Spec, SupersessionIsAtomic

\* A request that is to close the open version, and what has become of it.
Succeeds(r) == body[r] # None /\ body[r].closeAt # None
HasOpen == \E v \in versions : v.to = Forever
Succession(r) ==
    Succeeds(r) =>
        /\ phase[r] \in {"reading", "updating", "checking", "inserting"} => HasOpen
        /\ phase[r] \in {"checking", "inserting"} => r \in open
        /\ adding[r] # None => closing[r] # None
        /\ status[r] = "OK" /\ phase[r] # "closed" => r \in open
        /\ status[r] = "OK" /\ phase[r] = "closed" =>
              \E v \in versions : v.id = target[r] /\ v.to = body[r].closeAt
SuccessionInv ==
    /\ StoreInv
    /\ \A r \in Requests : phase[r] = "idle" => body[r] = None
    /\ OnlySuccessions => \A r \in Requests : Succession(r)

\* A body is parsed once and never changed.
LEMMA SuccessionsBefore ==
    ASSUME SuccessionInv, [Next]_vars, StoreInv'
    PROVE  /\ \A r \in Requests : phase'[r] = "idle" => body'[r] = None
           /\ OnlySuccessions' => OnlySuccessions
<1>1. CASE UNCHANGED vars
  BY <1>1 DEF vars, SuccessionInv, OnlySuccessions
<1>2. ASSUME NEW r \in Requests, StepOf(r)
      PROVE  /\ \A q \in Requests : phase'[q] = "idle" => body'[q] = None
             /\ OnlySuccessions' => OnlySuccessions
  <2>0. TypeOK /\ TypeOK'
    BY DEF SuccessionInv, StoreInv, ShapeInv
  <2>1. \A q \in Requests \ {r} : phase'[q] = phase[q] /\ body'[q] = body[q]
    BY <1>2, <2>0, OthersStandStill
  <2>2. phase'[r] # "idle" /\ (body'[r] = body[r] \/ body[r] = None)
    BY <1>2, <2>0
       DEF SuccessionInv, StepOf, Arrive, Handler, Begin, FindOpen, ReadTarget, UpdateTarget,
           CheckOverlap, InsertVersion, InsertConflicts, BusyTimeout, At, GoTo, Leave, Teardown,
           Dispatch, Commit, Rollback, CommitFails, EndTransaction, TypeOK
  <2> QED
    BY <2>1, <2>2 DEF SuccessionInv, OnlySuccessions
<1> QED
  BY <1>1, <1>2 DEF Next, StepOf

\* No commit leaves a table that had an open version without one.
LEMMA AnOpenVersionStays ==
    ASSUME SuccessionInv, NEW r \in Requests, Commit(r) \/ InsertVersion(r),
           OnlySuccessions, HasOpen
    PROVE  HasOpen'
<1>0. StoreInv /\ ShapeInv /\ Shape(r) /\ versions \subseteq Versions
  BY DEF SuccessionInv, StoreInv, ShapeInv, TypeOK
<1>1. CASE InsertVersion(r)
  BY <1>1 DEF InsertVersion, HasOpen
<1>2. CASE Commit(r)
  <2>1. versions' = View(r) /\ status[r] = "OK"
    BY <1>2 DEF Commit
  <2>2. CASE closing[r] = None
    BY <2>1, <2>2, <1>0, ViewKeepsRows DEF HasOpen
  <2>3. CASE closing[r] # None
    <3>1. r \in open /\ body[r].closeAt = closing[r].to /\ closing[r].to \in Dates
          /\ body[r] \in NewVersionRequests
      BY <1>0, <2>3, BodyIsTyped DEF ShapeInv, Shape, TypeOK, Closes
    <3>2. body[r] # None /\ body[r].closeAt # None
      BY <3>1, NoneIsAbsent
    <3>3. body[r].to = Forever
      BY <3>2 DEF OnlySuccessions
    <3>4. adding[r] = NewVersion(r) /\ adding[r] \in Versions /\ NewVersion(r).to = Forever
      <4>1. adding[r] = NewVersion(r) /\ phase[r] # "idle"
        BY <1>0, <2>1, <3>1 DEF Shape
      <4> QED
        BY <1>0, <3>3, <4>1, BodyIsTyped DEF NewVersion
    <3>5. adding[r] \in View(r)
      BY <3>4, NoneIsAbsent DEF View, Written
    <3> QED
      BY <2>1, <3>4, <3>5 DEF HasOpen
  <2> QED
    BY <2>2, <2>3
<1> QED
  BY <1>1, <1>2

\* A version that has ended is never touched again.
LEMMA EndedVersionsStay ==
    ASSUME StoreInv, NEW r \in Requests, StepOf(r), NEW v \in versions, v.to # Forever
    PROVE  v \in versions'
<1>0. v \in Versions
  BY DEF StoreInv, ShapeInv, TypeOK
<1>1. CASE Commit(r)
  <2>1. closing[r] = None \/ closing[r].id # v.id
    BY DEF StoreInv, ClosesAim, IdsAreKeys
  <2> QED
    BY <1>0, <1>1, <2>1, ViewKeepsRows DEF Commit
<1>2. CASE ~Commit(r)
  BY <1>2 DEF StepOf, Arrive, Handler, Begin, FindOpen, ReadTarget, UpdateTarget, CheckOverlap,
         InsertVersion, InsertConflicts, BusyTimeout, Teardown, Dispatch, Rollback, CommitFails
<1> QED
  BY <1>1, <1>2

LEMMA HasOpenStays ==
    ASSUME SuccessionInv, NEW r \in Requests, StepOf(r), OnlySuccessions, HasOpen
    PROVE  HasOpen'
<1>1. CASE Commit(r) \/ InsertVersion(r)
  BY <1>1, AnOpenVersionStays
<1>2. CASE ~(Commit(r) \/ InsertVersion(r))
  BY <1>2 DEF StepOf, Arrive, Handler, Begin, FindOpen, ReadTarget, UpdateTarget, CheckOverlap,
         InsertConflicts, BusyTimeout, Teardown, Dispatch, Rollback, CommitFails, HasOpen
<1> QED
  BY <1>1, <1>2

LEMMA OthersKeepSuccession ==
    ASSUME SuccessionInv, NEW r \in Requests, StepOf(r), NEW q \in Requests \ {r}, OnlySuccessions
    PROVE  Succession(q)'
<1>0. TypeOK /\ StoreInv /\ ShapeInv
  BY DEF SuccessionInv, StoreInv, ShapeInv
<1>1. /\ closing'[q] = closing[q] /\ adding'[q] = adding[q] /\ (q \in open' <=> q \in open)
      /\ phase'[q] = phase[q] /\ body'[q] = body[q]
      /\ target'[q] = target[q] /\ status'[q] = status[q]
  BY <1>0, OthersStandStill
<1>2. HasOpen => HasOpen'
  BY HasOpenStays
<1>3. ASSUME Succeeds(q), status[q] = "OK", phase[q] = "closed"
      PROVE  \E v \in versions' : v.id = target[q] /\ v.to = body[q].closeAt
  <2>1. PICK v \in versions : v.id = target[q] /\ v.to = body[q].closeAt
    BY <1>3 DEF SuccessionInv, Succession
  <2>2. body[q].closeAt \in Dates
    BY <1>0, <1>3, BodyIsTyped DEF Succeeds
  <2>3. v.to # Forever
    BY <2>1, <2>2, HorizonIsDate DEF Dates, Forever
  <2> QED
    BY <1>0, <2>1, <2>3, EndedVersionsStay
<1> QED
  BY <1>1, <1>2, <1>3 DEF SuccessionInv, Succession, Succeeds

\* The steps of a request that is closing and appending.
LEMMA OwnStepsKeepSuccession ==
    ASSUME SuccessionInv, NEW r \in Requests, StepOf(r), OnlySuccessions, StoreInv',
           Succeeds(r)', phase[r] # "idle"
    PROVE  Succession(r)'
<1>0. TypeOK /\ StoreInv /\ ShapeInv /\ Shape(r) /\ TypeOK' /\ Shape(r)'
      /\ versions \subseteq Versions
  BY DEF SuccessionInv, StoreInv, ShapeInv, TypeOK
<1>1. body' = body
  BY <1>0 DEF StepOf, Arrive, Handler, Begin, FindOpen, ReadTarget, UpdateTarget, CheckOverlap,
         InsertVersion, InsertConflicts, BusyTimeout, Teardown, Dispatch, Commit, Rollback,
         CommitFails
<1>2. Succeeds(r) /\ body[r].closeAt \in Dates /\ body[r].to = Forever
  BY <1>0, <1>1, BodyIsTyped DEF Succeeds, OnlySuccessions
<1>3. Succession(r)
  BY DEF SuccessionInv
<1>4. CASE Arrive(r)
  BY <1>4 DEF Arrive
<1>5. CASE Begin(r)
  <2>1. phase'[r] = "finding" /\ status'[r] # "OK" /\ adding'[r] = None
    BY <1>0, <1>2, <1>5 DEF Begin, TypeOK, Shape, Succeeds, private
  <2> QED
    BY <2>1 DEF Succession
<1>6. CASE FindOpen(r)
  <2>1. View(r) = versions /\ status[r] # "OK" /\ adding[r] = None
        /\ UNCHANGED <<versions, adding, closing, open>>
    BY <1>0, <1>6, ViewBeforeWriting DEF FindOpen, At, Shape, private
  <2>2. CASE Leave(r, "VALIDATION_FAILED")
    BY <1>0, <2>1, <2>2 DEF Leave, TypeOK, Succession
  <2>3. CASE OpenVersions(View(r)) # {} /\ GoTo(r, "reading")
    BY <1>0, <2>1, <2>3 DEF GoTo, OpenVersions, HasOpen, TypeOK, Succession
  <2> QED
    BY <1>6, <2>2, <2>3 DEF FindOpen
<1>7. CASE ReadTarget(r)
  <2>1. phase[r] = "reading" /\ status[r] # "OK" /\ adding[r] = None
        /\ UNCHANGED <<versions, adding, closing, open>>
    BY <1>0, <1>7 DEF ReadTarget, At, Shape, private
  <2>2. \/ Leave(r, "VALIDATION_FAILED") \/ Leave(r, "EFFECTIVE_RANGE_INVALID")
        \/ GoTo(r, "updating")
    BY <1>7 DEF ReadTarget
  <2>3. status'[r] # "OK" /\ phase'[r] \in {"returned", "updating"}
    BY <1>0, <2>1, <2>2 DEF Leave, GoTo, TypeOK
  <2> QED
    BY <1>2, <1>3, <2>1, <2>3 DEF Succession, HasOpen
<1>8. CASE UpdateTarget(r)
  <2>1. /\ phase[r] = "updating" /\ r \in open' /\ status[r] # "OK" /\ adding[r] = None
        /\ UNCHANGED <<versions, adding, status>> /\ phase'[r] = "checking"
    BY <1>0, <1>8 DEF UpdateTarget, At, GoTo, TypeOK, Shape
  <2> QED
    BY <1>2, <1>3, <2>1 DEF Succession, HasOpen
<1>9. CASE CheckOverlap(r)
  <2>1. phase[r] = "checking" /\ status[r] # "OK" /\ adding[r] = None
        /\ UNCHANGED <<versions, adding, closing, open>>
    BY <1>0, <1>9 DEF CheckOverlap, At, Shape, private
  <2>2. Leave(r, "OVERLAPPING_VERSIONS") \/ GoTo(r, "inserting")
    BY <1>9 DEF CheckOverlap
  <2>3. status'[r] # "OK" /\ phase'[r] \in {"returned", "inserting"}
    BY <1>0, <2>1, <2>2 DEF Leave, GoTo, TypeOK
  <2> QED
    BY <1>2, <1>3, <2>1, <2>3 DEF Succession, HasOpen
<1>10. CASE InsertVersion(r)
  <2>1. /\ phase[r] = "inserting" /\ ~Conflicts(View(r), NewVersion(r)) /\ closing' = closing
        /\ phase'[r] = "returned" /\ adding[r] = None
    BY <1>0, <1>10 DEF InsertVersion, At, Leave, TypeOK, Shape
  <2>2. PICK v \in versions : v.to = Forever
    BY <1>2, <1>3, <2>1 DEF Succession, HasOpen
  <2>3. NewVersion(r).to = Forever
    BY <1>2 DEF NewVersion
  <2>4. closing[r] # None
    BY <1>0, <2>1, <2>2, <2>3, ViewBeforeWriting DEF Conflicts
  <2>5. r \in open'
    BY <1>2, <1>3, <1>10, <2>1 DEF Succession, InsertVersion
  <2> QED
    BY <2>1, <2>4, <2>5 DEF Succession
<1>11. CASE InsertConflicts(r) \/ BusyTimeout(r)
  <2>1. phase'[r] = "returned" /\ status'[r] # "OK"
    BY <1>0, <1>11 DEF InsertConflicts, BusyTimeout, Leave, TypeOK
  <2> QED
    BY <1>0, <2>1 DEF Succession, Shape
<1>12. CASE Dispatch(r)
  <2>1. phase[r] = "returned" /\ phase'[r] = "closing"
        /\ UNCHANGED <<adding, closing, open, status>>
    BY <1>0, <1>12 DEF Dispatch, TypeOK, private
  <2> QED
    BY <1>2, <1>3, <2>1 DEF Succession
<1>13. CASE Rollback(r) \/ CommitFails(r)
  <2>1. phase'[r] = "closed" /\ status'[r] # "OK" /\ adding'[r] = None
    BY <1>0, <1>13 DEF Rollback, CommitFails, EndTransaction, TypeOK
  <2> QED
    BY <2>1 DEF Succession
<1>14. CASE Commit(r)
  <2>1. /\ phase[r] = "closing" /\ status[r] = "OK" /\ versions' = View(r) /\ target' = target
        /\ phase'[r] = "closed" /\ adding'[r] = None
    BY <1>0, <1>14 DEF Commit, EndTransaction, TypeOK
  <2>2. r \in open
    BY <1>2, <1>3, <2>1 DEF Succession
  <2>3. adding[r] = NewVersion(r) /\ NewVersion(r) \in Versions
    <3>1. phase[r] # "idle"
      OBVIOUS
    <3> QED
      BY <1>0, <2>1, <2>2, <3>1, BodyIsTyped DEF Shape
  <2>4. closing[r] # None
    BY <1>2, <1>3, <2>3, NoneIsAbsent DEF Succession
  <2>5. closing[r].id = target[r] /\ closing[r].to = body[r].closeAt
    BY <1>0, <2>4 DEF Shape
  <2>6. PICK v \in versions : v.id = closing[r].id
    BY <1>0, <2>4 DEF StoreInv, ClosesAim
  <2> DEFINE w == [v EXCEPT !.to = closing[r].to]
  <2>7. w \in View(r)
    BY <2>4, <2>6 DEF View, Written
  <2>8. w.id = target[r] /\ w.to = body[r].closeAt
    BY <1>0, <2>5, <2>6 DEF Versions
  <2> QED
    BY <1>1, <2>1, <2>7, <2>8 DEF Succession
<1> QED
  BY <1>4, <1>5, <1>6, <1>7, <1>8, <1>9, <1>10, <1>11, <1>12, <1>13, <1>14
     DEF StepOf, Handler, Teardown

LEMMA SuccessionInvIsInductive == SuccessionInv /\ [Next]_vars => SuccessionInv'
<1> SUFFICES ASSUME SuccessionInv, [Next]_vars PROVE SuccessionInv'
  OBVIOUS
<1>1. StoreInv'
  BY StoreInvIsInductive DEF SuccessionInv
<1>2. /\ \A r \in Requests : phase'[r] = "idle" => body'[r] = None
      /\ OnlySuccessions' => OnlySuccessions
  BY <1>1, SuccessionsBefore
<1>3. ASSUME NEW r \in Requests, StepOf(r), OnlySuccessions'
      PROVE  \A q \in Requests : Succession(q)'
  <2>1. Succession(r)'
    <3>1. CASE phase[r] = "idle"
      <4>1. phase'[r] = "ready" /\ adding'[r] = None /\ status'[r] # "OK"
        BY <1>3, <3>1 DEF StepOf, Arrive, Handler, Begin, FindOpen, ReadTarget, UpdateTarget,
           CheckOverlap, InsertVersion, InsertConflicts, BusyTimeout, At, Teardown, Dispatch, Commit,
           Rollback, CommitFails, SuccessionInv, StoreInv, ShapeInv, TypeOK, Shape, private
      <4> QED
        BY <4>1 DEF Succession
    <3>2. CASE ~Succeeds(r)'
      BY <3>2 DEF Succession
    <3> QED
      BY <1>1, <1>2, <1>3, <3>1, <3>2, OwnStepsKeepSuccession
  <2> QED
    BY <1>2, <1>3, <2>1, OthersKeepSuccession
<1>4. ASSUME UNCHANGED vars, OnlySuccessions' PROVE \A q \in Requests : Succession(q)'
  BY <1>2, <1>4 DEF vars, private, SuccessionInv, Succession, Succeeds, HasOpen
<1> QED
  BY <1>1, <1>2, <1>3, <1>4 DEF Next, StepOf, SuccessionInv

LEMMA InitHasSuccession == Init => SuccessionInv
  BY InitIsStored DEF Init, SuccessionInv, Succession, Succeeds

LEMMA SuccessionInvHolds == Spec => []SuccessionInv
  BY InitHasSuccession, SuccessionInvIsInductive, PTL DEF Spec

\* A 201 that names the version it closed tells the truth, on both backends and
\* although the UPDATE's row count is never looked at.
THEOREM ClosesAreAlwaysMade == Spec => []ClosesAreMade
<1>1. SuccessionInv => ClosesAreMade
  <2> SUFFICES ASSUME SuccessionInv, OnlySuccessions, NEW r \in Requests,
                      phase[r] = "closed", status[r] = "OK", body[r].closeAt # None
               PROVE  \E v \in versions : v.id = target[r] /\ v.to = body[r].closeAt
    BY DEF ClosesAreMade
  <2>1. body[r] # None
    BY BodyIsTyped, NoneIsAbsent DEF SuccessionInv, StoreInv
  <2> QED
    BY <2>1 DEF SuccessionInv, Succession, Succeeds
<1> QED
  BY <1>1, SuccessionInvHolds, PTL

-----------------------------------------------------------------------------
(* Overlaps.  On SQLite one transaction writes at a time, but a commit may   *)
(* still fall between another handler's check and its insert.               *)

Apart(v, w) == v.to <= w.from \/ w.to <= v.from
AllApart(V) == \A v, w \in V : v # w => Apart(v, w)

Ordered(r) ==
    /\ \A q \in Requests \ {r} : r \in open => q \notin open
    /\ r \in open => AllApart(View(r))
    /\ adding[r] # None \/ (r \in open /\ phase[r] \in {"checking", "inserting"}) => Succeeds(r)
    /\ phase[r] = "inserting" => \A v \in View(r) : Apart(v, NewVersion(r))
OrderInv ==
    /\ SuccessionInv
    /\ SingleWriter /\ OnlySuccessions =>
          AllApart(versions) /\ \A r \in Requests : Ordered(r)

\* The validator's comparison of half-open ranges is exact.
LEMMA NoOverlapIsApart ==
    ASSUME NEW V \in SUBSET Versions, NEW n \in Versions, n \notin V, ~Overlap(V \cup {n})
    PROVE  \A v \in V : Apart(v, n)
<1> SUFFICES ASSUME NEW v \in V PROVE Apart(v, n)
  OBVIOUS
<1>1. /\ v.from \in Int /\ v.to \in Int /\ n.from \in Int /\ n.to \in Int
  BY HorizonIsDate DEF Versions, Dates, Forever
<1>2. v # n
  OBVIOUS
<1>3. ~(v.from <= n.from /\ n.from < v.to) /\ ~(n.from <= v.from /\ v.from < n.to)
  BY <1>2 DEF Overlap
<1> QED
  BY <1>1, <1>3 DEF Apart

\* Ending the open version takes nothing that was apart together.
LEMMA EndingKeepsApart ==
    ASSUME NEW v \in Versions, NEW w \in Versions, v.to = Forever, Apart(v, w),
           NEW x, x.from = v.from
    PROVE  Apart(x, w)
<1>1. w.from < Forever /\ w.from \in Int /\ v.from \in Int /\ w.to \in Int /\ Forever \in Int
  BY HorizonIsDate DEF Versions, Dates, Forever
<1> QED
  BY <1>1 DEF Apart

\* A transaction that has not written sees the table as it is.
LEMMA ClosedViews ==
    ASSUME ShapeInv, NEW r \in Requests, r \notin open
    PROVE  closing[r] = None /\ adding[r] = None /\ View(r) = versions
  BY ViewBeforeWriting DEF ShapeInv, Shape

\* Steps that leave the table and every transaction's writes alone.
LEMMA QuietStepsKeepOrder ==
    ASSUME OrderInv, SingleWriter, OnlySuccessions, NEW r \in Requests,
           \/ Arrive(r) \/ Begin(r) \/ FindOpen(r) \/ ReadTarget(r) \/ CheckOverlap(r)
           \/ InsertConflicts(r) \/ BusyTimeout(r) \/ Dispatch(r)
    PROVE  AllApart(versions)' /\ \A q \in Requests : Ordered(q)'
<1>0. TypeOK /\ StoreInv /\ ShapeInv /\ Shape(r) /\ StepOf(r) /\ AllApart(versions)
      /\ \A q \in Requests : Ordered(q)
  BY DEF OrderInv, SuccessionInv, StoreInv, ShapeInv, StepOf, Handler, Teardown
<1>1. UNCHANGED <<versions, closing, adding>>
  BY DEF Arrive, Begin, FindOpen, ReadTarget, CheckOverlap, InsertConflicts, BusyTimeout,
         Dispatch, private
<1>2. \A q \in Requests : View(q)' = View(q)
  BY <1>1 DEF View
<1>3. ASSUME NEW q \in Requests \ {r}
      PROVE  (q \in open' <=> q \in open) /\ phase'[q] = phase[q] /\ body'[q] = body[q]
  BY <1>0, OthersStandStill
<1>4. r \in open' => r \in open \/ open \ {r} = {}
  BY DEF Arrive, Begin, FindOpen, ReadTarget, CheckOverlap, InsertConflicts, BusyTimeout,
         Dispatch, Waits, private
<1>5. ASSUME NEW q \in Requests \ {r} PROVE Ordered(q)'
  <2>1. NewVersion(q)' = NewVersion(q) /\ (Succeeds(q) => Succeeds(q)')
    BY <1>3 DEF NewVersion, Succeeds
  <2>2. \A p \in Requests \ {q} : q \in open' => p \notin open'
    BY <1>0, <1>3, <1>4 DEF Ordered
  <2> QED
    BY <1>0, <1>1, <1>2, <1>3, <2>1, <2>2 DEF Ordered
<1>6. Ordered(r)'
  <2>1. \A q \in Requests \ {r} : r \in open' => q \notin open'
    BY <1>0, <1>3, <1>4 DEF Ordered
  <2>2. r \in open' => AllApart(View(r)')
    BY <1>0, <1>2, ClosedViews DEF Ordered
  <2>3. adding'[r] # None \/ (r \in open' /\ phase'[r] \in {"checking", "inserting"}) => Succeeds(r)'
    <3>1. CASE Arrive(r)
      BY <1>0, <1>1, <3>1 DEF Arrive, Shape, private
    <3>2. CASE ~Arrive(r)
      <4>1. body' = body
        BY <3>2 DEF Begin, FindOpen, ReadTarget, CheckOverlap, InsertConflicts, BusyTimeout, Dispatch
      <4>2. r \in open' /\ phase'[r] \in {"checking", "inserting"} => r \in open /\ CheckOverlap(r)
        <5>1. CASE Begin(r)
          BY <1>0, <5>1 DEF Begin, Shape, private
        <5>2. CASE FindOpen(r) \/ ReadTarget(r)
          BY <1>0, <5>2 DEF FindOpen, ReadTarget, GoTo, Leave, TypeOK
        <5>3. CASE InsertConflicts(r) \/ BusyTimeout(r) \/ Dispatch(r)
          BY <1>0, <5>3 DEF InsertConflicts, BusyTimeout, Dispatch, Leave, TypeOK
        <5>4. CASE CheckOverlap(r)
          BY <5>4 DEF CheckOverlap, private
        <5> QED
          BY <3>2, <5>1, <5>2, <5>3, <5>4
      <4>3. CheckOverlap(r) => phase[r] = "checking"
        BY DEF CheckOverlap, At
      <4> QED
        BY <1>0, <1>1, <4>1, <4>2, <4>3 DEF Ordered, Succeeds
    <3> QED
      BY <3>1, <3>2
  <2>4. ASSUME phase'[r] = "inserting"
        PROVE  \A v \in View(r) : Apart(v, NewVersion(r)')
    <3>1. CheckOverlap(r) /\ phase[r] = "checking"
      BY <1>0, <2>4 DEF Arrive, Begin, FindOpen, ReadTarget, CheckOverlap, InsertConflicts,
                        BusyTimeout, Dispatch, GoTo, Leave, At, TypeOK
    <3>2. ~Overlap(View(r) \cup {NewVersion(r)}) /\ body' = body
      BY <1>0, <2>4, <3>1 DEF CheckOverlap, Leave, TypeOK
    <3>3. NewVersion(r) \in Versions /\ NewVersion(r).id = r /\ View(r) \subseteq Versions
      BY <1>0, <3>1, BodyIsTyped, RowsOfView DEF NewVersion
    <3>4. NewVersion(r) \notin View(r)
      <4>1. adding[r] = None
        BY <1>0, <3>1 DEF Shape
      <4>2. \A v \in versions : v.id # r
        BY <1>0, <3>1 DEF StoreInv, RowsAreCommitted
      <4>3. \A w \in View(r) : w.id # r
        BY <1>0, <4>1, <4>2, RowsOfView
      <4> QED
        BY <3>3, <4>3
    <3> QED
      BY <3>2, <3>3, <3>4, NoOverlapIsApart DEF NewVersion
  <2> QED
    BY <1>2, <2>1, <2>2, <2>3, <2>4 DEF Ordered
<1> QED
  BY <1>0, <1>1, <1>5, <1>6 DEF AllApart

LEMMA UpdateKeepsOrder ==
    ASSUME OrderInv, SingleWriter, OnlySuccessions, NEW r \in Requests, UpdateTarget(r), StoreInv'
    PROVE  AllApart(versions)' /\ \A q \in Requests : Ordered(q)'
<1>0. TypeOK /\ StoreInv /\ ShapeInv /\ Shape(r) /\ StepOf(r) /\ AllApart(versions)
      /\ versions \subseteq Versions /\ \A q \in Requests : Ordered(q)
  BY DEF OrderInv, SuccessionInv, StoreInv, ShapeInv, StepOf, Handler, TypeOK
<1>1. /\ phase[r] = "updating" /\ open' = open \cup {r} /\ phase'[r] = "checking"
      /\ UNCHANGED <<versions, adding, body>> /\ open \ {r} = {}
  BY <1>0 DEF UpdateTarget, At, GoTo, TypeOK, Waits
<1>2. ASSUME NEW q \in Requests \ {r}
      PROVE  /\ q \notin open /\ q \notin open' /\ phase'[q] = phase[q] /\ body'[q] = body[q]
             /\ closing'[q] = closing[q] /\ adding'[q] = adding[q]
  BY <1>0, <1>1, OthersStandStill
<1>3. ASSUME NEW q \in Requests \ {r} PROVE Ordered(q)'
  <2>1. View(q)' = View(q) /\ NewVersion(q)' = NewVersion(q)
    BY <1>1, <1>2 DEF View, NewVersion
  <2> QED
    BY <1>0, <1>1, <1>2, <2>1 DEF Ordered, Succeeds
<1>4. Succeeds(r)'
  BY <1>0, <1>1, NoneIsAbsent, BodyIsTyped DEF Shape, Succeeds
<1>5. AllApart(View(r)')
  <2>1. adding'[r] = None
    BY <1>0, <1>1 DEF Shape
  <2> SUFFICES ASSUME NEW x \in View(r)', NEW y \in View(r)', x # y PROVE Apart(x, y)
    BY DEF AllApart
  <2> DEFINE Old(w, v) == /\ w.id = v.id /\ w.from = v.from
                          /\ \/ w = v
                             \/ closing'[r] # None /\ v.id = closing'[r].id
  <2>2. ASSUME NEW w \in View(r)' PROVE \E v \in versions : Old(w, v)
    <3>1. w \in {IF closing'[r] # None /\ v.id = closing'[r].id
                 THEN [v EXCEPT !.to = closing'[r].to] ELSE v : v \in versions}
      BY <1>1, <2>1 DEF View, Written
    <3> QED
      BY <1>0, <3>1 DEF Versions
  <2>3. PICK v \in versions : Old(x, v)
    BY <2>2
  <2>4. PICK w \in versions : Old(y, w)
    BY <2>2
  <2>5. ASSUME closing'[r] # None, NEW u \in versions, u.id = closing'[r].id PROVE u.to = Forever
    BY <1>1, <2>5 DEF StoreInv, ClosesAim, IdsAreKeys
  <2>6. CASE v # w
    <3>1. Apart(v, w) /\ Apart(w, v) /\ v \in Versions /\ w \in Versions
      BY <1>0, <2>6 DEF AllApart
    <3>2. ~(v.to = Forever /\ w.to = Forever)
      BY <1>0, <2>6 DEF StoreInv, OneOpenVersion
    <3>3. CASE x = v /\ y = w
      BY <3>1, <3>3
    <3>4. CASE x # v
      <4>1. v.to = Forever /\ y = w
        BY <2>3, <2>4, <2>5, <3>2, <3>4
      <4> QED
        BY <2>3, <3>1, <4>1, EndingKeepsApart
    <3>5. CASE y # w
      <4>1. w.to = Forever /\ x = v
        BY <2>3, <2>4, <2>5, <3>2, <3>5
      <4>2. Apart(y, v)
        BY <2>4, <3>1, <4>1, EndingKeepsApart
      <4> QED
        BY <4>1, <4>2 DEF Apart
    <3> QED
      BY <3>3, <3>4, <3>5
  <2>7. CASE v = w
    <3>1. x.id = y.id /\ x \in View(r)' /\ y \in View(r)'
      BY <2>3, <2>4, <2>7
    <3>2. \A a, b \in View(r)' : a.id = b.id => a = b
      <4>1. \A a \in View(r)' : \E u \in versions :
               a = IF closing'[r] # None /\ u.id = closing'[r].id
                   THEN [u EXCEPT !.to = closing'[r].to] ELSE u
        BY <1>1, <2>1 DEF View, Written
      <4> QED
        BY <1>0, <4>1 DEF StoreInv, IdsAreKeys, Versions
    <3> QED
      BY <3>1, <3>2
  <2> QED
    BY <2>6, <2>7
<1>6. Ordered(r)'
  BY <1>1, <1>2, <1>4, <1>5 DEF Ordered
<1> QED
  BY <1>0, <1>1, <1>3, <1>6 DEF AllApart

\* The insert finds what the check found: its handler has not left the loop, and
\* a commit in between only makes room.
LEMMA InsertKeepsOrder ==
    ASSUME OrderInv, SingleWriter, OnlySuccessions, NEW r \in Requests, InsertVersion(r)
    PROVE  AllApart(versions)' /\ \A q \in Requests : Ordered(q)'
<1>0. TypeOK /\ StoreInv /\ ShapeInv /\ Shape(r) /\ StepOf(r) /\ AllApart(versions)
      /\ \A q \in Requests : Ordered(q)
  BY DEF OrderInv, SuccessionInv, StoreInv, ShapeInv, StepOf, Handler
<1>1. /\ phase[r] = "inserting" /\ loop = r /\ open \ {r} = {} /\ phase'[r] = "returned"
      /\ UNCHANGED <<closing, body>>
  BY <1>0 DEF InsertVersion, At, Leave, Waits, TypeOK
<1> DEFINE n == NewVersion(r)
<1>2. \A v \in View(r) : Apart(v, n) /\ Apart(n, v)
  BY <1>0, <1>1 DEF Ordered, Apart
<1> HIDE DEF n
<1>3. ASSUME NEW q \in Requests \ {r}
      PROVE  /\ q \notin open /\ q \notin open' /\ phase'[q] # "inserting"
             /\ adding'[q] = None
  <2>1. phase[q] # "inserting"
    BY <1>0, <1>1 DEF ShapeInv, Shape, Handling
  <2>2. q \notin open /\ adding[q] = None
    BY <1>0, <1>1 DEF ShapeInv, Shape
  <2> QED
    BY <1>0, <2>1, <2>2, OthersStandStill
<1>4. \A q \in Requests \ {r} : Ordered(q)'
  BY <1>3 DEF Ordered
<1>5. CASE r \notin open
  <2>1. versions' = versions \cup {n} /\ adding' = adding /\ open' = open
    BY <1>5 DEF InsertVersion, n
  <2>2. View(r) = versions /\ adding[r] = None
    BY <1>0, <1>5, ClosedViews
  <2> QED
    BY <1>0, <1>1, <1>2, <1>4, <1>5, <2>1, <2>2 DEF AllApart, Ordered
<1>6. CASE r \in open
  <2>1. adding' = [adding EXCEPT ![r] = n] /\ open' = open /\ versions' = versions
    BY <1>6 DEF InsertVersion, n
  <2>2. adding'[r] = n /\ adding[r] = None
    BY <1>0, <1>1, <2>1 DEF TypeOK, Shape
  <2>3. View(r)' \subseteq View(r) \cup {n}
    BY <1>1, <2>1, <2>2 DEF View, Written
  <2>4. AllApart(View(r)')
    BY <1>0, <1>2, <1>6, <2>3 DEF AllApart, Ordered
  <2>5. Succeeds(r)'
    BY <1>0, <1>1, <1>6 DEF Ordered, Succeeds
  <2> QED
    BY <1>0, <1>1, <1>3, <1>4, <2>1, <2>4, <2>5 DEF AllApart, Ordered
<1> QED
  BY <1>5, <1>6

\* A commit replaces the open version by its ended form and the successor, which
\* together take no date the open version did not hold.
LEMMA CommitMakesRoom ==
    ASSUME OrderInv, SingleWriter, OnlySuccessions, NEW r \in Requests, Commit(r),
           NEW n \in Versions, \A v \in versions : Apart(v, n)
    PROVE  \A v \in View(r) : Apart(v, n)
<1>0. StoreInv /\ ShapeInv /\ Shape(r) /\ versions \subseteq Versions /\ Ordered(r) /\ Succession(r)
  BY DEF OrderInv, SuccessionInv, StoreInv, ShapeInv, TypeOK
<1> SUFFICES ASSUME NEW w \in View(r) PROVE Apart(w, n)
  OBVIOUS
<1>1. CASE \E v \in versions :
              /\ w.id = v.id /\ w.from = v.from
              /\ \/ w = v /\ (closing[r] = None \/ closing[r].id # v.id)
                 \/ /\ closing[r] # None /\ v.id = closing[r].id
                    /\ w.to = closing[r].to /\ w.to # Forever
  <2>1. PICK v \in versions :
              /\ w.id = v.id /\ w.from = v.from
              /\ \/ w = v
                 \/ closing[r] # None /\ v.id = closing[r].id
    BY <1>1
  <2>2. w = v \/ v.to = Forever
    BY <1>0, <2>1 DEF StoreInv, ClosesAim, IdsAreKeys
  <2> QED
    BY <1>0, <2>1, <2>2, EndingKeepsApart
<1>2. CASE adding[r] # None /\ w = adding[r]
  <2>1. closing[r] # None /\ Succeeds(r)
    BY <1>0, <1>2 DEF Ordered, Succession
  <2>2. body[r].closeAt = body[r].from /\ closing[r].to = body[r].closeAt
    BY <1>0, <2>1 DEF Shape, OnlySuccessions, Succeeds
  <2>3. PICK v \in versions : v.id = closing[r].id /\ v.to = Forever /\ v.from < closing[r].to
    BY <1>0, <2>1 DEF StoreInv, ClosesAim
  <2>4. NewVersion(r).from = body[r].from
    BY DEF NewVersion
  <2>5. w.from = closing[r].to
    BY <1>0, <1>2, <2>2, <2>4, AddedIsOwn
  <2>6. Apart(v, n) /\ v \in Versions /\ w \in Versions
    BY <1>0, <2>3, RowsOfView
  <2>7. n.from \in Int /\ n.to \in Int /\ v.from \in Int /\ w.from \in Int /\ Forever \in Int /\ n.from < Forever
    BY <2>6, HorizonIsDate DEF Versions, Dates, Forever
  <2> QED
    BY <2>3, <2>5, <2>6, <2>7 DEF Apart
<1> QED
  BY <1>0, <1>1, <1>2, RowsOfView

LEMMA EndKeepsOrder ==
    ASSUME OrderInv, SingleWriter, OnlySuccessions, NEW r \in Requests,
           Commit(r) \/ Rollback(r) \/ CommitFails(r), ShapeInv'
    PROVE  AllApart(versions)' /\ \A q \in Requests : Ordered(q)'
<1>0. TypeOK /\ StoreInv /\ ShapeInv /\ Shape(r) /\ StepOf(r) /\ AllApart(versions)
      /\ \A q \in Requests : Ordered(q)
  BY DEF OrderInv, SuccessionInv, StoreInv, ShapeInv, StepOf, Teardown
<1>1. /\ r \notin open' /\ phase'[r] = "closed" /\ adding'[r] = None
      /\ \/ versions' = versions
         \/ versions' = View(r) /\ Commit(r)
  BY <1>0 DEF Commit, Rollback, CommitFails, EndTransaction, TypeOK
<1>2. ASSUME NEW q \in Requests \ {r}
      PROVE  /\ (q \in open' <=> q \in open) /\ phase'[q] = phase[q] /\ body'[q] = body[q]
             /\ closing'[q] = closing[q] /\ adding'[q] = adding[q]
  BY <1>0, OthersStandStill
<1>3. AllApart(versions)'
  <2>1. r \in open => AllApart(View(r))
    BY <1>0 DEF Ordered
  <2>2. r \notin open => View(r) = versions
    BY <1>0, ClosedViews
  <2> QED
    BY <1>0, <1>1, <2>1, <2>2 DEF AllApart
<1>4. Ordered(r)'
  BY <1>1 DEF Ordered
<1>5. ASSUME NEW q \in Requests \ {r} PROVE Ordered(q)'
  <2>1. NewVersion(q)' = NewVersion(q) /\ (Succeeds(q) => Succeeds(q)')
    BY <1>2 DEF NewVersion, Succeeds
  <2>2. \A p \in Requests \ {q} : q \in open' => p \notin open'
    BY <1>0, <1>1, <1>2 DEF Ordered
  <2>3. CASE versions' = versions
    <3>1. View(q)' = View(q)
      BY <1>2, <2>3 DEF View
    <3> QED
      BY <1>0, <1>2, <2>1, <2>2, <3>1 DEF Ordered
  <2>4. CASE versions' # versions
    <3>1. versions' = View(r) /\ Commit(r) /\ r \in open
      BY <1>0, <1>1, <2>4, ClosedViews
    <3>2. q \notin open /\ q \notin open'
      BY <1>0, <1>2, <3>1 DEF Ordered
    <3>3. View(q) = versions /\ closing[q] = None /\ adding[q] = None
      BY <1>0, <3>2, ClosedViews
    <3>4. View(q)' = versions'
      BY <1>2, <3>3 DEF View, Written
    <3>5. ASSUME phase[q] = "inserting" PROVE \A v \in View(r) : Apart(v, NewVersion(q))
      <4>1. NewVersion(q) \in Versions
        BY <1>0, <3>5, BodyIsTyped
      <4>2. \A v \in versions : Apart(v, NewVersion(q))
        BY <1>0, <3>3, <3>5 DEF Ordered
      <4> QED
        BY <3>1, <4>1, <4>2, CommitMakesRoom
    <3> QED
      BY <1>2, <2>1, <2>2, <3>1, <3>2, <3>3, <3>4, <3>5 DEF Ordered
  <2> QED
    BY <2>3, <2>4
<1> QED
  BY <1>3, <1>4, <1>5

LEMMA OrderInvIsInductive == OrderInv /\ [Next]_vars => OrderInv'
<1> SUFFICES ASSUME OrderInv, [Next]_vars PROVE OrderInv'
  OBVIOUS
<1>1. SuccessionInv' /\ StoreInv' /\ ShapeInv' /\ (OnlySuccessions' => OnlySuccessions)
  <2>1. SuccessionInv'
    BY SuccessionInvIsInductive DEF OrderInv
  <2>2. StoreInv' /\ ShapeInv'
    BY <2>1 DEF SuccessionInv, StoreInv
  <2> QED
    BY <2>1, <2>2, SuccessionsBefore DEF OrderInv
<1> SUFFICES ASSUME SingleWriter, OnlySuccessions
             PROVE  AllApart(versions)' /\ \A r \in Requests : Ordered(r)'
  BY <1>1 DEF OrderInv
<1>2. ASSUME NEW r \in Requests, StepOf(r)
      PROVE  AllApart(versions)' /\ \A q \in Requests : Ordered(q)'
  BY <1>1, <1>2, QuietStepsKeepOrder, UpdateKeepsOrder, InsertKeepsOrder, EndKeepsOrder
     DEF StepOf, Handler, Teardown
<1>3. CASE UNCHANGED vars
  <2>1. UNCHANGED <<versions, closing, adding, open, body, phase>>
    BY <1>3 DEF vars, private
  <2>2. \A r \in Requests : View(r)' = View(r) /\ NewVersion(r)' = NewVersion(r)
    BY <2>1 DEF View, NewVersion
  <2> QED
    BY <2>1, <2>2 DEF OrderInv, Ordered, AllApart, Succeeds
<1> QED
  BY <1>2, <1>3 DEF Next, StepOf

\* On SQLite, where all successors are of the usual shape, at most one version is
\* effective at any date: the validator's check outlives the commits that fall
\* between it and the insert.
THEOREM VersionsNeverOverlap == SingleWriter => (Spec => []NoOverlap)
<1> SUFFICES ASSUME SingleWriter PROVE Spec => []NoOverlap
  OBVIOUS
<1>1. Init => OrderInv
  BY InitHasSuccession DEF Init, OrderInv, Ordered, AllApart
<1>2. OrderInv => NoOverlap
  <2> SUFFICES ASSUME OrderInv, OnlySuccessions, NEW v \in versions, NEW w \in versions,
                      NEW d \in Dates, IsEffectiveAt(v, d), IsEffectiveAt(w, d), v # w
               PROVE  FALSE
    BY DEF NoOverlap
  <2>1. Apart(v, w) /\ v \in Versions /\ w \in Versions
    BY DEF OrderInv, SuccessionInv, StoreInv, ShapeInv, TypeOK, AllApart
  <2>2. v.from \in Int /\ v.to \in Int /\ w.from \in Int /\ w.to \in Int /\ d \in Int
    BY <2>1, HorizonIsDate DEF Versions, Dates, Forever
  <2> QED
    BY <2>1, <2>2 DEF Apart, IsEffectiveAt
<1> QED
  BY <1>1, <1>2, OrderInvIsInductive, PTL DEF Spec

=============================================================================
