------------------------------ MODULE MCLedger ------------------------------
(***************************************************************************)
(* Instances of Ledger for TLC.  A key stands for the fields it digests:   *)
(* two drafts with one key have the same content, but for a payment whose  *)
(* external reference comes again with another obligation.                 *)
(***************************************************************************)
EXTENDS Ledger, TLC

CONSTANTS k1, k2, k3, k4, k5, k6, k7, c1, o1, o2, a1

Draft(type, key, id, account, obligation) ==
    [type |-> type, key |-> key, id |-> id, account |-> account,
     obligation |-> obligation, target |-> None]
Body(op, items) == [op |-> op, accepted |-> TRUE, items |-> items]

raised == Draft("ObligationRaised", k1, None, None, o1)
paid == Draft("PaymentMade", k2, None, a1, o1)
spent == Draft("ExpenseRecorded", k5, None, a1, None)
voided(key) == Draft("EventVoided", key, None, None, None)

Append1(d) == Body("append", <<d>>)
Void1(key) == Body("void", <<voided(key)>>)
RaiseAndPay == Body("batch", <<raised, paid>>)
Receipt == Body("receipt", <<spent>>)

\* Raising and paying, one by one and in a batch, and voiding.
ObligationBodies == {Append1(raised), Append1(paid), RaiseAndPay, Void1(k3), Void1(k4)}

\* Receipts, the same key posted without bytes, one event id under two keys
\* (once behind another item of its batch), an unknown account, a refused media type, an expected obligation.
ReceiptBodies ==
    {Receipt, [Receipt EXCEPT !.accepted = FALSE], Append1(spent),
     Append1([spent EXCEPT !.key = k6, !.id = c1]),
     Body("batch", <<raised, [spent EXCEPT !.key = k7, !.id = c1]>>),
     Append1([paid EXCEPT !.account = UnknownId]),
     Append1([paid EXCEPT !.obligation = o2])}

AllBodies == ObligationBodies \cup ReceiptBodies

\* One manual entry and two ways to void it.
VoidBodies == {Append1(spent), Void1(k3), Void1(k4)}
OneEntry == {Append1(spent)}

\* The hypotheses of the theorems are those of the runs.
ASSUME OrdinaryClients == VoidsUseTheirEndpoint /\ RaisesOwnTheirKeys

RequestSymmetry == Permutations(Requests)
=============================================================================
