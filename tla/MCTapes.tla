------------------------------ MODULE MCTapes ------------------------------
(* Small instances of Tapes: one user has recorded everything. *)
EXTENDS Tapes, TLC

CONSTANT Author

MCOwner == [r \in Recordings |-> Author]

Symmetry == Permutations(Sessions) \cup Permutations(Users \ {Author})

=============================================================================
