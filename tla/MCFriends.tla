----------------------------- MODULE MCFriends -----------------------------
(* Small instances of Friends. *)
EXTENDS Friends, TLC

Symmetry == Permutations(Sessions) \cup Permutations(Users)

=============================================================================
