--------------------------- MODULE CreditAccount ---------------------------
(***************************************************************************)
(* What the customers' credit accounts promise (credits.service.ts and the *)
(* comments of the CustomerCredit table): each operation takes effect at   *)
(* once, on the balance and the limit of that moment.  CreditSales, where  *)
(* an operation reads the account and writes it in two statements, is      *)
(* compared with it.                                                       *)
(***************************************************************************)
EXTENDS Integers

CONSTANTS
  Customers,
  DefaultLimit   \* the limit of an account opened by a sale

VARIABLE credit  \* by customer: whether the account exists, its limit and what is owed

Init == credit = [c \in Customers |-> [open |-> FALSE, limit |-> 0, balance |-> 0]]

Set(c, limit, balance) ==
  credit' = [credit EXCEPT ![c] = [open |-> TRUE, limit |-> limit, balance |-> balance]]

\* An account that is open is never opened again.
Open(c) == ~credit[c].open /\ Set(c, DefaultLimit, 0)

\* A sale is charged when what is available covers it.
Charge(c) ==
  /\ credit[c].open
  /\ \E amount \in 0 .. credit[c].limit - credit[c].balance :
       Set(c, credit[c].limit, credit[c].balance + amount)

\* A payment lowers the balance, never under zero; so does the reversal of a voided sale.
Lower(c) ==
  /\ credit[c].open
  /\ \E balance \in 0 .. credit[c].balance : Set(c, credit[c].limit, balance)

\* The limit is never set under the balance.
SetLimit(c) ==
  /\ credit[c].open
  /\ credit'[c].limit \in Nat /\ credit'[c].limit >= credit[c].balance
  /\ Set(c, credit'[c].limit, credit[c].balance)

Next == \E c \in Customers : Open(c) \/ Charge(c) \/ Lower(c) \/ SetLimit(c)

Spec == Init /\ [][Next]_credit
=============================================================================
