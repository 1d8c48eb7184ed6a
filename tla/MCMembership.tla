---------------------------- MODULE MCMembership ----------------------------
(* A small instance of the memberships for TLC. *)
EXTENDS Membership, TLC

Symmetry == Permutations(Requests) \cup Permutations(Users) \cup Permutations(Organizations)
=============================================================================
