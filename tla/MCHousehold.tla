---------------------------- MODULE MCHousehold ----------------------------
(***************************************************************************)
(* Instances of Household for TLC: months of two days; a rent, a policy, a  *)
(* checking and a savings account, and a card that closes on the first day  *)
(* of a month, due on the second.  A jar is a savings account whose id      *)
(* sorts before all others.                                                 *)
(***************************************************************************)
EXTENDS Household

Calendar == <<0, 2, 4, 6, 8>>

Jar == 1
Checking == 2
Savings == 3
Card == 4

PolicyFrom(d, savings) == [entity |-> "policy", savings |-> savings, from |-> d, to |-> None]
CostFrom(entity, d, amount) ==
    [entity |-> entity, amount |-> amount, dueDay |-> 2, from |-> d, to |-> None,
     payee |-> "landlord", category |-> "home"]
AccountOf(entity, kind, apr) ==
    [entity |-> entity, kind |-> kind, apr |-> apr, closeDay |-> None, dueDay |-> None,
     timing |-> "AT_PURCHASE", from |-> 0, to |-> None]
CardFrom(d, timing) ==
    [AccountOf(Card, "CREDIT_CARD", 1) EXCEPT
        !.closeDay = 1, !.dueDay = 2, !.timing = timing, !.from = d]

Home(timing) ==
    [policies |-> {PolicyFrom(0, 5)}, costs |-> {CostFrom("rent", 2, 4)},
     accounts |-> {AccountOf(Checking, "CHECKING", 0), AccountOf(Savings, "SAVINGS", 1),
                   CardFrom(0, timing)}]
SomeHomes == {Home(timing) : timing \in {"AT_PURCHASE", "AT_STATEMENT_PAYMENT"}}
LateHomes == {Home("AT_STATEMENT_PAYMENT")}
EarlyHomes == {Home("AT_PURCHASE")}

Event(id, type, date, amount, account) ==
    [id |-> id, type |-> type, date |-> date, amount |-> amount, account |-> account,
     into |-> None, due |-> None, obligation |-> None, recurring |-> None, cycle |-> None,
     payee |-> None, category |-> None]
Bill(id, date, amount, due, obligation, recurring) ==
    [Event(id, "raised", date, amount, None) EXCEPT
        !.due = due, !.obligation = obligation, !.recurring = recurring,
        !.payee = "plumber", !.category = "home"]
Payment(id, date, amount, account, obligation) ==
    [Event(id, "paid", date, amount, account) EXCEPT !.obligation = obligation]
Transfer(id, date, amount, from, into) ==
    [Event(id, "transfer", date, amount, from) EXCEPT !.into = into]
Charge(id, date, amount, cycle) ==
    [Event(id, "charged", date, amount, Card) EXCEPT !.cycle = cycle]
Earning(id, date, amount, cycle) ==
    [Event(id, "earned", date, amount, Savings) EXCEPT !.cycle = cycle]

\* Bills and their periods, as obligation ids.
Rent(p) == <<"rent", p>>
Invoice(n) == <<"bill", n + 100>>

SomeEvents ==
    {Event(1, "income", 0, 9, Checking), Event(2, "gift", 3, 7, Checking),
     Event(3, "opening", 0, 2, Savings), Event(4, "expense", 0, 4, Card),
      Earning(19, 3, 1, 1), Event(20, "expense", 3, -2, Card),
     Event(21, "opening", 0, 3, Jar),
     Transfer(7, 2, 4, Checking, Card),
     Charge(9, 2, 1, 2), Transfer(10, 2, 2, Savings, Checking),
     Event(11, "drawn", 0, 2, None), Event(12, "drawn", 2, 2, None),
     Bill(14, 3, 5, 2, Invoice(1), "rent"), Bill(15, 1, 2, 4, Invoice(2), None),
     Payment(17, 2, 3, Checking, Rent(2)), Payment(18, 3, 2, Checking, Invoice(2)),
     Payment(22, 3, 6, Checking, Invoice(1)), Bill(23, 3, 3, 3, Invoice(3), "rent")}

BillsOnTheCard ==
    {Payment(17, 2, 4, Card, Rent(2)), Transfer(7, 3, 4, Checking, Card)}
CardSpending ==
    {Event(4, "expense", 2, 4, Card), Transfer(7, 3, 4, Checking, Card)}

\* A policy and a rent that follow without a gap, or after one, and a jar.
SomeEdits ==
    {[kind |-> "policies", closeAt |-> d, version |-> PolicyFrom(3, 3)] : d \in {2, 3}}
    \cup {[kind |-> "costs", closeAt |-> 4, version |-> CostFrom("rent", 4, 6)],
          [kind |-> "costs", closeAt |-> None, version |-> CostFrom("gym", 0, 1)],
          [kind |-> "accounts", closeAt |-> None, version |-> AccountOf(Jar, "SAVINGS", 1)]}
SwitchesOfMode ==
    {[kind |-> "accounts", closeAt |-> 3, version |-> CardFrom(3, "AT_STATEMENT_PAYMENT")]}

\* Reads before, between and after them follow.
SomeDates == {2, 5}

SomeWindows == {[from |-> None, to |-> None], [from |-> 1, to |-> 2], [from |-> 3, to |-> None]}

\* The households are ordinary, but for the cards of mode_switch and card_bill.
ASSUME OrdinaryBills == BillsArePositive /\ OneOffsKeepTheirPeriod
ASSUME OrdinaryPolicies == PoliciesBeginApart
ASSUME OrdinaryCards == /\ CardsKeepTheirMode <=> Edits # SwitchesOfMode
                        /\ CardsOnlySpend <=> Candidates # BillsOnTheCard
=============================================================================
