---------------------------- MODULE MCRecordings ----------------------------
(* Small instances of Recordings. *)
EXTENDS Recordings, TLC

Symmetry == Permutations(Sessions) \cup Permutations(Workers)

=============================================================================
