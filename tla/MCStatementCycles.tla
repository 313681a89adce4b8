------------------------- MODULE MCStatementCycles -------------------------
(***************************************************************************)
(* Instances of StatementCycles for TLC: a long, a short and a long month,  *)
(* with days to spare before and after.                                     *)
(***************************************************************************)
EXTENDS StatementCycles

Calendar == <<0, 3, 5, 8, 10>>

Opened(kind, closeDay, dueDay, from) ==
    [kind |-> kind, apr |-> 1, closeDay |-> closeDay, dueDay |-> dueDay,
     from |-> from, to |-> None]

\* A card closing mid-month and due next month; one whose due day the short
\* month lacks, so that it is due after the next close; one whose close day it
\* lacks; a loan, which has no such days; savings.
EveryAccount ==
    {Opened("CREDIT_CARD", 2, 1, 0), Opened("CREDIT_CARD", 2, 3, 0),
     Opened("CREDIT_CARD", 3, 1, 0),
     Opened("LOAN", None, None, 0), Opened("SAVINGS", None, None, 0)}
LateAccount == {Opened("SAVINGS", None, None, 3)}

Event(type, date, amount, cycle) ==
    [type |-> type, date |-> date, amount |-> amount, cycle |-> cycle]

SomeEvents ==
    {Event("movement", d, n, None) : d \in 0 .. 7, n \in {-4, 4}}
    \cup {Event("foreign", d, 0, None) : d \in {0, 3}}
    \cup {Event(type, 3, 1, p) : type \in {"charged", "earned"}, p \in {1, 2}}
    \cup {Event("charged", 6, 1, p) : p \in {1, 2}}
    \cup {Event("earned", 7, 0, 3)}

SomeEdits == [from: {2, 4, 5}, apr: {3}]

ASSUME OrdinaryAccounts == AccountsBeginFirst <=> Accounts = EveryAccount
=============================================================================
