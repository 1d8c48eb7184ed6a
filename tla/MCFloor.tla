------------------------------ MODULE MCFloor ------------------------------
(* Small instances of the floor orders for TLC. *)
EXTENDS FloorOrders, TLC

OneUp == {1, -1}
Up == {1}
Symmetry == Permutations(Requests) \cup Permutations(Orders) \cup Permutations(Invoices)
              \cup Permutations(Accounts)

=============================================================================
