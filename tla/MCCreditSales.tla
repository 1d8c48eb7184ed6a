--------------------------- MODULE MCCreditSales ---------------------------
(* Small instances of the sales on credit for TLC. *)
EXTENDS CreditSales, TLC

OneTotal == {1}
TwoTotals == {1, 2}
TotalOfTwo == {2}

OneLimit == {1}
LimitOfThree == {3}
LowAndHigh == {1, 3}

BothMethods == {"CREDIT", "MIXED"}
OnlyCredit == {"CREDIT"}

AllOperations == {"sale", "void", "payment", "limit", "adjust", "mark", "task"}
MoneyOperations == {"sale", "void", "payment", "limit", "adjust"}
AccountOperations == {"sale", "void", "payment", "limit"}

Symmetry == Permutations(Invoices) \cup Permutations(Requests)
=============================================================================
