--------------------------- MODULE MCIdempotency ---------------------------
(* Small instances of Idempotency: a purchase key, a key of a tape that is *)
(* sent, or one of an operation that absorbs being repeated.               *)
EXTENDS Idempotency, TLC

CONSTANTS Purchase, Send, Claim

MCOp == [k \in Keys |-> CASE k = Purchase -> "ledger"
                          [] k = Send     -> "send"
                          [] k = Claim    -> "absorb"]

Symmetry == Permutations(Sessions) \cup Permutations(Bodies)

=============================================================================
