----------------------------- MODULE WaitGraph -----------------------------
(* Deadlocks among transactions, as PostgreSQL detects them: blockers[p]   *)
(* is the set of sessions that hold a lock for which p waits.              *)

(* A set in which every session waits for another of the set. *)
Stuck(S, blockers) == S # {} /\ \A p \in S : blockers[p] \cap S # {}

(* A smallest such set: a cycle. *)
Cycle(S, blockers) ==
  Stuck(S, blockers) /\ \A T \in SUBSET S : Stuck(T, blockers) => T = S

=============================================================================
