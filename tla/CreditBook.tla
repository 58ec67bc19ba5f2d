----------------------------- MODULE CreditBook -----------------------------
(***************************************************************************)
(* What the wallet, the shop and the stores' receipts promise, whatever    *)
(* their transactions go through: credits and goods change by whole deeds. *)
(* Wallet implements this with locks, sessions that crash and retries.     *)
(***************************************************************************)
EXTENDS Integers

CONSTANTS
  None, Users, Products, Price, Tapes, Slots, GiftAmounts, SignupGift,
  Receipts, PackCredits,
  AdCallbacks, AdUser, AdReward,
  FirstDrawer      \* drawer of a new user

VARIABLES
  member,     \* new, active or gone
  credits,
  goods,      \* tapes in stock and size of the drawer
  receipt,    \* per receipt: unpaid, paid out, or taken back
  buyer,      \* who was paid for it, until he leaves
  rewarded    \* ad callbacks that were paid for

vars == <<member, credits, goods, receipt, buyer, rewarded>>
receipts == <<receipt, buyer>>

Active(u) == member[u] = "active"
Moves(u, n) == credits' = [credits EXCEPT ![u] = @ + n]
Least(a, b) == IF a < b THEN a ELSE b

Init ==
  /\ member = [u \in Users |-> "new"]
  /\ credits = [u \in Users |-> 0]
  /\ goods = [u \in Users |-> [tapes |-> 0, drawer |-> FirstDrawer]]
  /\ receipt = [r \in Receipts |-> "unpaid"]
  /\ buyer = [r \in Receipts |-> None]
  /\ rewarded = {}

Join(u) ==
  /\ member[u] = "new"
  /\ member' = [member EXCEPT ![u] = "active"]
  /\ Moves(u, SignupGift)
  /\ UNCHANGED <<goods, receipts, rewarded>>

\* The price is paid and the goods are there, or neither.
Buy(u, g) ==
  /\ Active(u) /\ credits[u] >= Price[g]
  /\ Moves(u, 0 - Price[g])
  /\ goods' = [goods EXCEPT ![u].tapes = @ + Tapes[g],
                            ![u].drawer = @ + Slots[g]]
  /\ UNCHANGED <<member, receipts, rewarded>>

\* Nothing is lost or made on the way from one user to the other.
Give(a, b, n) ==
  /\ a # b /\ Active(a) /\ Active(b) /\ credits[a] >= n
  /\ credits' = [credits EXCEPT ![a] = @ - n, ![b] = @ + n]
  /\ UNCHANGED <<member, goods, receipts, rewarded>>

\* One user is paid for a receipt, once.
TopUp(u, r) ==
  /\ Active(u) /\ receipt[r] = "unpaid"
  /\ Moves(u, PackCredits[r])
  /\ receipt' = [receipt EXCEPT ![r] = "paid"]
  /\ buyer' = [buyer EXCEPT ![r] = u]
  /\ UNCHANGED <<member, goods, rewarded>>

\* A refund takes back what is left of what was paid, once.
TakeBack(r) ==
  /\ receipt[r] = "paid"
  /\ receipt' = [receipt EXCEPT ![r] = "taken back"]
  /\ IF buyer[r] = None THEN UNCHANGED credits
     ELSE Moves(buyer[r], 0 - Least(PackCredits[r], credits[buyer[r]]))
  /\ UNCHANGED <<member, goods, buyer, rewarded>>

Reward(t) ==
  /\ Active(AdUser[t]) /\ t \notin rewarded
  /\ Moves(AdUser[t], AdReward)
  /\ rewarded' = rewarded \cup {t}
  /\ UNCHANGED <<member, goods, receipts>>

\* Who leaves takes everything along but the fact of a payment.
Leave(u) ==
  /\ Active(u)
  /\ member' = [member EXCEPT ![u] = "gone"]
  /\ credits' = [credits EXCEPT ![u] = 0]
  /\ goods' = [goods EXCEPT ![u] = [tapes |-> 0, drawer |-> 0]]
  /\ buyer' = [r \in Receipts |-> IF buyer[r] = u THEN None ELSE buyer[r]]
  /\ rewarded' = {t \in rewarded : AdUser[t] # u}
  /\ UNCHANGED receipt

\* Five years later the payment is forgotten, if the buyer has left.
Forget(r) ==
  /\ receipt[r] # "unpaid" /\ buyer[r] = None
  /\ receipt' = [receipt EXCEPT ![r] = "unpaid"]
  /\ UNCHANGED <<member, credits, goods, buyer, rewarded>>

Next ==
  \/ \E u \in Users :
       \/ Join(u) \/ Leave(u)
       \/ \E g \in Products : Buy(u, g)
       \/ \E b \in Users, n \in GiftAmounts : Give(u, b, n)
       \/ \E r \in Receipts : TopUp(u, r)
  \/ \E r \in Receipts : TakeBack(r) \/ Forget(r)
  \/ \E t \in AdCallbacks : Reward(t)

Spec == Init /\ [][Next]_vars

=============================================================================
