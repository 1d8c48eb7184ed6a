------------------------- MODULE MCFiscalNumbering -------------------------
(* Small instances of the numbering for TLC. *)
EXTENDS FiscalNumbering, TLC

\* Every import carries the same key: the same file confirmed several times.
MCKeyOf == [d \in Docs |-> IF d \in Imports THEN CHOOSE k \in Keys : TRUE ELSE None]

Symmetry == Permutations(Sales) \cup Permutations(Imports)

=============================================================================
