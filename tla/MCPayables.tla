----------------------------- MODULE MCPayables -----------------------------
(* A small instance of the payables for TLC. *)
EXTENDS Payables, TLC

CONSTANTS k1, k2

TwoPurchases == <<k1, k2>>
BonusOrDeduction == {1, -1}
Symmetry == Permutations(Requests) \cup Permutations(Expenses) \cup Permutations(Employees)
=============================================================================
