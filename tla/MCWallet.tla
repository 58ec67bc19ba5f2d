------------------------------ MODULE MCWallet ------------------------------
(* Small instances of Wallet: prices are scaled down so that balances are  *)
(* exhausted within a few steps.                                           *)
EXTENDS Wallet, TLC

CONSTANTS TapePack, DrawerPack

MCPrice == [g \in Products |-> IF g = TapePack THEN 1 ELSE 2]
MCTapes == [g \in Products |-> IF g = TapePack THEN 5 ELSE 0]
MCSlots == [g \in Products |-> IF g = TapePack THEN 0 ELSE 10]
MCPackCredits == [r \in Receipts |-> 2]
MCAdUser == [t \in AdCallbacks |-> CHOOSE u \in Users : TRUE]

Symmetry == Permutations(Sessions) \cup Permutations(Keys)
              \cup Permutations(AdCallbacks)

=============================================================================
