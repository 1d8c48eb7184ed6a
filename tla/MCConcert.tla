----------------------------- MODULE MCConcert -----------------------------
(* Small instances of the box office for TLC. *)
EXTENDS ConcertTicketing, TLC

\* One table with every seat.
MCMesas == {Seats}

\* Ids are interchangeable.
Symmetry == Permutations(Seats) \cup Permutations(Tokens) \cup Permutations(Orders)
              \cup Permutations(Requests)

=============================================================================
