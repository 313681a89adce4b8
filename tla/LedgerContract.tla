--------------------------- MODULE LedgerContract ---------------------------
(***************************************************************************)
(* What the ledger promises a client, whatever happens inside: entries are *)
(* only ever added, a key is bound to one event id for good, and an answer *)
(* names an entry that is there to stay.                                   *)
(***************************************************************************)
VARIABLES
    entries,  \* set of [key, id]: what is recorded
    told      \* set of [key, id]: what clients were told is recorded

contractVars == <<entries, told>>

\* No key has two ids and no id has two keys.
OneToOne(E) == \A x, y \in E : x.key = y.key <=> x.id = y.id

Init == entries = {} /\ told = {}

\* One transaction's entries appear together.
Record == /\ entries \subseteq entries'
          /\ OneToOne(entries')
          /\ UNCHANGED told

\* Clients are told of recorded entries only.
Tell == /\ told \subseteq told'
        /\ told' \subseteq entries
        /\ UNCHANGED entries

Next == Record \/ Tell

Spec == Init /\ [][Next]_contractVars
=============================================================================
